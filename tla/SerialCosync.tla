---------------------------- MODULE SerialCosync ----------------------------
(***************************************************************************)
(* src/serial.rs: a Cosync that runs one task at a time.  It shares the    *)
(* queue, the pool and the handles with Cosync.  Three things differ: its  *)
(* owner queues like a handle does, among the incoming tasks; a run takes  *)
(* the next task out of the queue only when the pool is empty; and it      *)
(* stops the running task by clearing the pool.                            *)
(*                                                                         *)
(* Here `fresh` says that a poll_next, with a new poll cycle, is due.      *)
(***************************************************************************)
EXTENDS Cosync

CONSTANT Mine          \* the owner, as an actor that queues like a handle

ASSUME MineAssumption == Mine \in Handle \ {Input}

\* The owner is between two calls.
Free == AtRest /\ htask[Mine] = None

\* SerialCosync::queue, of which HandleAppend(Mine) is the second half.
SerialQueue(t) ==
    /\ Free
    /\ HandleNumber(Mine, t)

SerialUnqueue(t) == Free /\ OwnerUnqueue(t)
SerialStop == Free /\ ClearRunning
SerialClearQueue == Free /\ ClearQueue
SerialClear == Free /\ ClearAll
SerialDrop == Free /\ DropCosync

-----------------------------------------------------------------------------
(* poll_pool *)

SerialRun ==
    /\ Free
    /\ cpc' = "poll" /\ fresh' = TRUE
    /\ ran' = {} /\ owed' = Waiting
    /\ UNCHANGED <<poolVars, queueState, stopped, begun, gone>>

PollAgain ==
    /\ cpc = "poll" /\ fresh
    /\ PollNext(TRUE)
    /\ fresh' = FALSE
    /\ UNCHANGED <<queueState, cpc, stopped, runHistory, gone>>

\* poll_next has returned.
Returned == cpc = "poll" /\ ~fresh /\ pc = "idle"

Pop(t) ==
    /\ Push(t)
    /\ fresh' = TRUE
    /\ UNCHANGED <<counter, id, by, htask, cpc, stopped, runHistory, gone>>

\* Variant: a task is taken out although another one is pending.
NextTaskAlways(t) ==
    /\ Returned
    /\ incoming # <<>> /\ t = Head(incoming)
    /\ incoming' = Tail(incoming)
    /\ Pop(t)

\* Variant: pop_back.
NextTaskNewest(t) ==
    /\ Returned /\ out = "Ready"
    /\ incoming # <<>> /\ t = incoming[Len(incoming)]
    /\ incoming' = SubSeq(incoming, 1, Len(incoming) - 1)
    /\ Pop(t)

\* Poll::Ready and a task in the queue: it runs now.
NextTask(t) ==
    /\ Returned /\ out = "Ready"
    /\ incoming # <<>> /\ t = Head(incoming)
    /\ incoming' = Tail(incoming)
    /\ Pop(t)

\* Variant: the run ends whenever the pool is empty.
SerialReturnEarly ==
    /\ Returned
    /\ cpc' = "out"
    /\ UNCHANGED <<poolVars, queueState, fresh, stopped, runHistory, gone>>

\* Poll::Pending, or nothing is left, or poll_next unwound.
SerialReturn ==
    /\ Returned
    /\ out = "Ready" => incoming = <<>>
    /\ cpc' = "out"
    /\ UNCHANGED <<poolVars, queueState, fresh, stopped, runHistory, gone>>

-----------------------------------------------------------------------------
SerialOwnerStep ==
    \/ \E t \in Task : SerialQueue(t) \/ SerialUnqueue(t)
    \/ SerialStop \/ SerialClearQueue \/ SerialClear \/ SerialDrop
    \/ SerialRun

SerialRunStep ==
    \/ \E t \in Task : NextTask(t)
    \/ PollAgain \/ SerialReturn \/ PoolRuns \/ ClearRest \/ DropIncoming

SerialNext ==
    \/ SerialOwnerStep
    \/ SerialRunStep
    \/ HandleAppend(Mine)
    \/ \E h \in Handle \ {Mine} : HandleStep(h)
    \/ WakerThread
    \/ CosyncEnded

SerialSpec == CosyncInit /\ [][SerialNext]_allVars

\* As for Cosync; `queue` of the owner needs none, it is not part of a run.
SerialFairSpec ==
    /\ SerialSpec
    /\ WF_allVars(SerialRunStep \/ HandleAppend(Input))
    /\ \A w \in Waker : WF_allVars(Waking(w) /\ WakerThread)

-----------------------------------------------------------------------------
(* Properties *)

\* serial.rs:42, "we ensure that pool's length is always 1": at most one task is
\* in the pool, through panics, clears and wake-ups of tasks that are gone.
OneAtATime == Cardinality(live) <= 1

\* serial.rs:13, "a task must fully complete [...] before the next queued task is
\* ran": no task runs before the earlier ones of the same actor are gone.
CompletesInOrder ==
    \A t, u \in Task :
        Queued(t) /\ Queued(u) /\ by[t] = by[u] /\ id[t] < id[u] /\ u \in begun
            => t \in gone

\* serial.rs:105, "only returns when all tasks in the pool and in the queue are
\* completed": when a run reports Ready, every task queued before it began or
\* while it polled is gone.
ReadyMeansDone == AtRest /\ out = "Ready" => owed \subseteq gone

\* serial.rs:110-115: a run returns.  With one task in the pool poll_next cannot
\* turn between two pending tasks, as it can in a Cosync.
SerialReturns == cpc = "poll" ~> cpc # "poll"
=============================================================================
