-------------------------- MODULE FuturesUnordered --------------------------
(***************************************************************************)
(* The task pool of Cosync: src/futures/futures_unordered.rs with the task *)
(* headers of src/futures/task.rs.                                         *)
(*                                                                         *)
(* One executor owns the pool: it pushes futures, runs poll_next, clears   *)
(* and drops.  Every other actor is a clone of a task's waker (a "slot" of *)
(* Waker), held by some thread that will wake with it once or drop it.  A  *)
(* thread may also clone the waker it holds, or wake by reference and keep *)
(* it: such a waker is one slot for each of its uses, and as many wake-ups *)
(* handed out by its poll.  A wake is split at its atomic accesses:        *)
(* upgrade of the weak queue pointer, swap of `queued`, the two steps of   *)
(* the enqueue, and the drops at its end.  poll_next is split where        *)
(* another thread can observe the difference: at each dequeue, at the      *)
(* window in which an already polled task is put back (`queued` is false   *)
(* there although nothing polls it), and around the poll of a future.      *)
(*                                                                         *)
(* A member of Task stands for a heap allocation, reused once freed.  The  *)
(* poll counters are abstracted to the set of tasks polled since the last  *)
(* increment_counter, which is all that their comparison tells apart.      *)
(***************************************************************************)
EXTENDS MPSCQueue, FiniteSets

CONSTANTS
    Waker,             \* slots for outstanding clones of task wakers
    WakesPerPoll,      \* wake-ups one poll hands out, the later uses of its clones included
    None               \* no task

ASSUME WakerAssumption == IsFiniteSet(Waker)
ASSUME WakesAssumption == WakesPerPoll \in Nat
ASSUME NoneAssumption == None \notin Task

VARIABLES
    live,              \* tasks whose `future` is Some
    linked,            \* tasks in the list head_all
    queued,            \* tasks whose `queued` flag is true
    arc,               \* strong count of each Arc<Task>, 0 when freed
    polled,            \* tasks with last_polled >= poll_counter
    pc,                \* where the executor is
    cur,               \* the task poll_next has unlinked and is working on
    initial,           \* initial_task_id
    out,               \* how the last poll_next ended
    given,             \* wake-ups handed out by the poll in progress
    wpc,               \* where each slot is in wake_by_ref
    wtask,             \* the task of each slot
    woken,             \* history: live tasks woken since their last poll began
    due                \* history: tasks the running poll_next still has to poll

mem == <<live, linked, queued, arc>>
exec == <<pc, cur, initial, out, given>>
slots == <<wpc, wtask>>
history == <<woken, due>>
vars == <<queueVars, mem, polled, exec, slots, history>>

Outcome == {"none", "Ready", "Pending", "Inconsistent", "Panic"}
ExecPc == {"idle", "loop", "requeue", "poll", "clear", "drain", "drop",
           "dropped", "abort_clear", "abort_drop"}
SlotPc == {"free", "held", "upgraded", "claimed", "linking", "leaving"}

\* Variant: wake_by_ref lets go of the queue before its enqueue is complete.
UpgradedTooShort == {w \in Waker : wpc[w] \in {"upgraded", "claimed", "leaving"}}

\* Slots that hold the Arc<ReadyToRunQueue> they got from upgrade().
Upgraded == {w \in Waker : wpc[w] \in {"upgraded", "claimed", "linking", "leaving"}}

\* The pool's own strong reference is gone once it has been dropped.
PoolGone == pc = "dropped"

Aborted == pc \in {"abort_clear", "abort_drop"}

Clones(t) == {w \in Waker : wtask[w] = t}

\* Slots that have set the flag of t and will enqueue it.
Claims(t) == {w \in Clones(t) : wpc[w] = "claimed"}

Init ==
    /\ QueueInit
    /\ live = {} /\ linked = {} /\ queued = {} /\ polled = {}
    /\ arc = [t \in Task |-> 0]
    /\ pc = "idle" /\ cur = None /\ initial = None /\ out = "none" /\ given = 0
    /\ wpc = [w \in Waker |-> "free"]
    /\ wtask = [w \in Waker |-> None]
    /\ woken = {} /\ due = {}

-----------------------------------------------------------------------------
(* Pieces of the handlers *)

Drop1(t) == arc' = [arc EXCEPT ![t] = @ - 1]

\* Variant: the reference is dropped even if the queue still holds the task.
ReleaseTaskNoForget(t) ==
    /\ queued' = queued \union {t}
    /\ live' = live \ {t}
    /\ woken' = woken \ {t}
    /\ Drop1(t)

\* Variant: the flag is read but not raised, later wake-ups still enqueue.
ReleaseTaskFlagDown(t) ==
    /\ live' = live \ {t}
    /\ woken' = woken \ {t}
    /\ IF t \in queued THEN UNCHANGED arc ELSE Drop1(t)
    /\ UNCHANGED queued

\* release_task: the flag goes up for good and the future is dropped; if the
\* flag was up already, the reference now belongs to the ready-to-run queue.
ReleaseTask(t) ==
    /\ queued' = queued \union {t}
    /\ live' = live \ {t}
    /\ woken' = woken \ {t}
    /\ IF t \in queued THEN UNCHANGED arc ELSE Drop1(t)

Return(o) ==
    /\ pc' = "idle"
    /\ out' = o

\* Variant: the queue has no destructor.
DrainQueueNot(s) ==
    /\ pc' = "dropped"
    /\ arc' = [t \in Task |-> arc[t] - (IF t \in s THEN 1 ELSE 0)]
    /\ UNCHANGED queueVars

\* ReadyToRunQueue::drop: whoever lets go of the last reference empties the
\* queue; s is the set of tasks that lose a further reference in this step.
DrainQueue(s) ==
    /\ ready' = IF unlinked = {} THEN <<>> ELSE ready
    /\ UNCHANGED unlinked
    /\ pc' = IF unlinked = {} THEN "dropped" ELSE "abort_drop"
    /\ arc' = [t \in Task |-> arc[t]
                  - (IF t \in s THEN 1 ELSE 0)
                  - (IF unlinked = {} /\ t \in Entries THEN 1 ELSE 0)]

-----------------------------------------------------------------------------
(* The owner of the pool, between two calls of poll_next *)

\* push: a new allocation, in the list and in the queue with its flag up.
Push(t) ==
    /\ pc = "idle"
    /\ arc[t] = 0
    /\ arc' = [arc EXCEPT ![t] = 1]
    /\ live' = live \union {t}
    /\ linked' = linked \union {t}
    /\ queued' = queued \union {t}
    /\ polled' = polled \ {t}
    /\ Enqueue(t)
    /\ UNCHANGED <<exec, slots, history>>

\* A call of poll_next, after increment_counter when fresh.  The first call is
\* always fresh: the counter starts at the last_polled of a new task.
PollNext(fresh) ==
    /\ pc = "idle"
    /\ fresh \/ out # "none"
    /\ pc' = "loop"
    /\ initial' = None
    /\ polled' = IF fresh THEN {} ELSE polled
    /\ due' = (Reachable \intersect live) \ polled'
    /\ UNCHANGED <<queueVars, mem, cur, out, given, slots, woken>>

\* clear() and drop() both start with clear_head_all.
ClearHeadAll(next) ==
    /\ pc = "idle"
    /\ pc' = next
    /\ due' = {}
    /\ UNCHANGED <<queueVars, mem, polled, cur, initial, out, given, slots, woken>>

Clear == ClearHeadAll("clear")
Drop == ClearHeadAll("drop")

ReleaseOne(t) ==
    /\ pc \in {"clear", "drop"}
    /\ t \in linked
    /\ linked' = linked \ {t}
    /\ ReleaseTask(t)
    /\ UNCHANGED <<queueVars, polled, exec, slots, due>>

\* clear() goes on with ready_to_run_queue.clear().
StartDrain ==
    /\ pc = "clear" /\ linked = {}
    /\ pc' = "drain"
    /\ UNCHANGED <<queueVars, mem, polled, cur, initial, out, given, slots, history>>

DrainData(t) ==
    /\ pc = "drain"
    /\ DequeueData(t)
    /\ Drop1(t)
    /\ UNCHANGED <<live, linked, queued, polled, exec, slots, history>>

DrainEmpty ==
    /\ pc = "drain"
    /\ SeesEmpty
    /\ pc' = "idle"
    /\ UNCHANGED <<queueVars, mem, polled, cur, initial, out, given, slots, history>>

DrainInconsistent ==
    /\ pc = "drain"
    /\ SeesInconsistent
    /\ pc' = "abort_clear"
    /\ UNCHANGED <<queueVars, mem, polled, cur, initial, out, given, slots, history>>

\* The end of drop(): the pool lets go of the queue.
DropQueue ==
    /\ pc = "drop" /\ linked = {}
    /\ IF Upgraded = {}
       THEN DrainQueue({})
       ELSE pc' = "dropped" /\ UNCHANGED <<queueVars, arc>>
    /\ UNCHANGED <<live, linked, queued, polled, cur, initial, out, given, slots, history>>

-----------------------------------------------------------------------------
(* poll_next *)

DequeueEmpty ==
    /\ pc = "loop"
    /\ SeesEmpty
    /\ Return(IF linked = {} THEN "Ready" ELSE "Pending")
    /\ UNCHANGED <<queueVars, mem, polled, cur, initial, given, slots, history>>

DequeueInconsistent ==
    /\ pc = "loop"
    /\ SeesInconsistent
    /\ Return("Inconsistent")
    /\ UNCHANGED <<queueVars, mem, polled, cur, initial, given, slots, history>>

\* The future is gone: the loop takes over the reference release_task left.
DequeueReleased(t) ==
    /\ pc = "loop"
    /\ DequeueData(t)
    /\ t \notin live
    /\ Drop1(t)
    /\ UNCHANGED <<live, linked, queued, polled, exec, slots, history>>

\* Variant: the flag stays up while the future is polled.
TakeTaskFlagUp(t) ==
    /\ pc = "loop"
    /\ DequeueData(t)
    /\ t \in live /\ t \in queued
    /\ linked' = linked \ {t}
    /\ cur' = t
    /\ UNCHANGED queued

\* Unlink the task and take its flag down; `assert!(prev)` is the guard.
TakeTask(t) ==
    /\ pc = "loop"
    /\ DequeueData(t)
    /\ t \in live /\ t \in queued
    /\ linked' = linked \ {t}
    /\ queued' = queued \ {t}
    /\ cur' = t

\* Already polled since the counter was incremented: put it back.
DequeuePolled(t) ==
    /\ TakeTask(t)
    /\ t \in polled
    /\ pc' = "requeue"
    /\ UNCHANGED <<live, arc, polled, initial, out, given, slots, history>>

PutBack(flags) ==
    /\ pc = "requeue"
    /\ queued' = flags
    /\ linked' = linked \union {cur}
    /\ cur' = None
    /\ UNCHANGED <<live, arc, polled, given, slots, history>>

GoOn == pc' = "loop" /\ UNCHANGED out

\* Variant: the task is put back with its flag down.
RequeueFlagDown ==
    /\ PutBack(queued)
    /\ Enqueue(cur)
    /\ initial' = IF initial = None THEN cur ELSE initial
    /\ IF initial = cur THEN Return("Pending") ELSE GoOn

\* Variant: any polled task ends the loop.
RequeueStops ==
    /\ PutBack(queued \union {cur})
    /\ Enqueue(cur)
    /\ Return("Pending")
    /\ UNCHANGED initial

\* Variant: a task that is put back is not remembered as the initial one.
RequeueNoInitial ==
    /\ PutBack(queued \union {cur})
    /\ Enqueue(cur)
    /\ IF initial = cur THEN Return("Pending") ELSE GoOn
    /\ UNCHANGED initial

\* Variant: the loop does not stop at the initial task.
RequeueGoesOn ==
    /\ PutBack(queued \union {cur})
    /\ Enqueue(cur)
    /\ initial' = IF initial = None THEN cur ELSE initial
    /\ GoOn

\* Variant: the task is put back in the list only.
RequeueNotEnqueued ==
    /\ PutBack(queued \union {cur})
    /\ initial' = IF initial = None THEN cur ELSE initial
    /\ IF initial = cur THEN Return("Pending") ELSE GoOn
    /\ UNCHANGED queueVars

Requeue ==
    /\ PutBack(queued \union {cur})
    /\ Enqueue(cur)
    /\ initial' = IF initial = None THEN cur ELSE initial
    /\ IF initial = cur THEN Return("Pending") ELSE GoOn

\* Otherwise its future is polled.
DequeueUnpolled(t) ==
    /\ TakeTask(t)
    /\ t \notin polled
    /\ polled' = polled \union {t}
    /\ pc' = "poll"
    /\ given' = 0
    /\ woken' = woken \ {t}
    /\ due' = due \ {t}
    /\ UNCHANGED <<live, arc, initial, out, slots>>

-----------------------------------------------------------------------------
(* What the future under poll can do with its waker *)

CloneWaker(w) ==
    /\ pc = "poll"
    /\ given < WakesPerPoll
    /\ wpc[w] = "free"
    /\ given' = given + 1
    /\ wpc' = [wpc EXCEPT ![w] = "held"]
    /\ wtask' = [wtask EXCEPT ![w] = cur]
    /\ arc' = [arc EXCEPT ![cur] = @ + 1]
    /\ UNCHANGED <<queueVars, live, linked, queued, polled, pc, cur, initial, out, history>>

\* cx.waker().wake_by_ref() inside poll, as yield_now and sleep_ticks do.
WakeSelf ==
    /\ pc = "poll"
    /\ given < WakesPerPoll
    /\ given' = given + 1
    /\ woken' = woken \union {cur}
    /\ queued' = queued \union {cur}
    /\ IF cur \in queued THEN UNCHANGED queueVars ELSE Enqueue(cur)
    /\ UNCHANGED <<live, linked, arc, polled, pc, cur, initial, out, slots, due>>

PollPending ==
    /\ pc = "poll"
    /\ linked' = linked \union {cur}
    /\ initial' = IF initial = None THEN cur ELSE initial
    /\ pc' = "loop"
    /\ cur' = None
    /\ UNCHANGED <<queueVars, live, queued, arc, polled, out, given, slots, history>>

\* Poll::Ready: the Bomb goes off at the end of the iteration.
PollReady ==
    /\ pc = "poll"
    /\ ReleaseTask(cur)
    /\ pc' = "loop"
    /\ cur' = None
    /\ UNCHANGED <<queueVars, linked, polled, initial, out, given, slots, due>>

\* A panic of the future: the Bomb goes off while poll_next unwinds.
PollPanic ==
    /\ pc = "poll"
    /\ ReleaseTask(cur)
    /\ Return("Panic")
    /\ cur' = None
    /\ UNCHANGED <<queueVars, linked, polled, initial, given, slots, due>>

-----------------------------------------------------------------------------
(* A thread with a clone of a waker: wake() is wake_by_ref() and a drop *)

SetSlot(w, at) == wpc' = [wpc EXCEPT ![w] = at]

FreeSlot(w) ==
    /\ SetSlot(w, "free")
    /\ wtask' = [wtask EXCEPT ![w] = None]

DropWaker(w) ==
    /\ wpc[w] = "held"
    /\ FreeSlot(w)
    /\ Drop1(wtask[w])
    /\ UNCHANGED <<queueVars, live, linked, queued, polled, exec, history>>

WakeUpgrade(w) ==
    /\ wpc[w] = "held"
    /\ ~PoolGone \/ Upgraded # {}
    /\ SetSlot(w, "upgraded")
    /\ UNCHANGED <<queueVars, mem, polled, exec, wtask, history>>

\* upgrade() fails: nothing but the drop of the waker.
WakeTooLate(w) ==
    /\ wpc[w] = "held"
    /\ PoolGone /\ Upgraded = {}
    /\ FreeSlot(w)
    /\ Drop1(wtask[w])
    /\ UNCHANGED <<queueVars, live, linked, queued, polled, exec, history>>

\* queued.swap(true) returns true: the task is queued already or released.
WakeIgnored(w) ==
    /\ wpc[w] = "upgraded"
    /\ wtask[w] \in queued
    /\ SetSlot(w, "leaving")
    /\ woken' = woken \union ({wtask[w]} \intersect live)
    /\ UNCHANGED <<queueVars, mem, polled, exec, wtask, due>>

\* queued.swap(true) returns false: this thread has to enqueue the task.
WakeClaim(w) ==
    /\ wpc[w] = "upgraded"
    /\ wtask[w] \notin queued
    /\ SetSlot(w, "claimed")
    /\ queued' = queued \union {wtask[w]}
    /\ woken' = woken \union ({wtask[w]} \intersect live)
    /\ UNCHANGED <<queueVars, live, linked, arc, polled, exec, wtask, due>>

WakeSwap(w) ==
    /\ wpc[w] = "claimed"
    /\ SetSlot(w, "linking")
    /\ SwapHead(wtask[w])
    /\ UNCHANGED <<mem, polled, exec, wtask, history>>

WakeLink(w) ==
    /\ wpc[w] = "linking"
    /\ SetSlot(w, "leaving")
    /\ LinkPrev(wtask[w])
    /\ UNCHANGED <<mem, polled, exec, wtask, history>>

\* The end of wake(): the references to the queue and to the task go.
WakeDone(w) ==
    /\ wpc[w] = "leaving"
    /\ FreeSlot(w)
    /\ IF PoolGone /\ Upgraded = {w}
       THEN DrainQueue({wtask[w]})
       ELSE Drop1(wtask[w]) /\ UNCHANGED <<queueVars, pc>>
    /\ UNCHANGED <<live, linked, queued, polled, cur, initial, out, given, history>>

-----------------------------------------------------------------------------
Owner ==
    \/ \E t \in Task : Push(t)
    \/ \E fresh \in BOOLEAN : PollNext(fresh)
    \/ Clear
    \/ Drop

\* The steps of a call in progress.
Running ==
    \/ \E t \in Task : \/ ReleaseOne(t) \/ DrainData(t)
                       \/ DequeueReleased(t) \/ DequeuePolled(t) \/ DequeueUnpolled(t)
    \/ StartDrain \/ DrainEmpty \/ DrainInconsistent \/ DropQueue
    \/ DequeueEmpty \/ DequeueInconsistent \/ Requeue
    \/ (\E w \in Waker : CloneWaker(w)) \/ WakeSelf
    \/ PollPending \/ PollReady \/ PollPanic

\* The steps a thread takes once it is inside wake().
Waking(w) == WakeIgnored(w) \/ WakeClaim(w) \/ WakeSwap(w) \/ WakeLink(w) \/ WakeDone(w)

Thread(w) == DropWaker(w) \/ WakeUpgrade(w) \/ WakeTooLate(w) \/ Waking(w)

\* The end of a run: an abort (threads may get a few steps further before the
\* process is gone), or the pool is dropped and so is every waker.
Ended ==
    /\ Aborted \/ (pc = "dropped" /\ \A w \in Waker : wpc[w] = "free")
    /\ UNCHANGED vars

Next ==
    \/ Owner
    \/ Running
    \/ \E w \in Waker : Thread(w)
    \/ Ended

Spec == Init /\ [][Next]_vars

\* The executor's thread and a thread inside wake() keep running; nobody has to
\* call poll_next again, and nobody has to use a waker.
Fairness ==
    /\ WF_vars(Running)
    /\ \A w \in Waker : WF_vars(Waking(w))

FairSpec == Spec /\ Fairness

\* A thread claims the task that poll_next is putting back: the flag of a live task is
\* down between the two swaps of futures_unordered.rs:443 and 448, though nothing
\* polls it.
WakeInPutBack == pc = "requeue" /\ \E w \in Clones(cur) : WakeClaim(w)

\* Programs whose wake-ups never fall into this window, and a specification of them.
RaceFree == [][~WakeInPutBack]_vars

RaceFreeSpec == Init /\ [][Next /\ ~WakeInPutBack]_vars

FairRaceFreeSpec == RaceFreeSpec /\ Fairness

\* Programs that use wakers on the executor's thread only: a wake-up that has begun
\* runs to its end, and none begins while poll_next puts a task back, where it runs
\* nobody else's code.
OnOneThread ==
    /\ \A w \in Upgraded : Waking(w)
    /\ pc = "requeue" => ~\E w \in Waker : Thread(w)

OneThread == [][OnOneThread]_vars

(***************************************************************************)
(* Properties.                                                             *)
(***************************************************************************)

\* Every variable keeps its type.
TypeOK ==
    /\ ready \in Seq(Task) /\ unlinked \subseteq Task
    /\ live \subseteq Task /\ linked \subseteq Task /\ queued \subseteq Task
    /\ arc \in [Task -> Nat] /\ polled \subseteq Task
    /\ pc \in ExecPc /\ out \in Outcome /\ given \in Nat
    /\ cur \in Task \union {None} /\ initial \in Task \union {None}
    /\ (pc \in {"poll", "requeue"}) <=> (cur # None)
    /\ wpc \in [Waker -> SlotPc] /\ wtask \in [Waker -> Task \union {None}]
    /\ \A w \in Waker : wpc[w] = "free" <=> wtask[w] = None
    /\ woken \subseteq Task /\ due \subseteq Task

\* task.rs:61-63, "ensuring that we're only queued once": no task is in the
\* intrusive queue twice.
EnqueuedOnce ==
    \A i, j \in DOMAIN ready : ready[i] = ready[j] => i = j

\* The same with what it rests on: the flag of a task in the queue is up (the
\* `assert!(prev)` of futures_unordered.rs:444 never fails), and a thread that
\* claimed a task is the only one about to enqueue it: the task is not in the queue, not claimed by
\* another thread, and not being put back by poll_next.
QueuedOnce ==
    /\ EnqueuedOnce
    /\ Entries \subseteq queued
    /\ \A w \in Waker : wpc[w] = "claimed" =>
          /\ wtask[w] \notin Entries
          /\ Claims(wtask[w]) = {w}
          /\ ~(pc = "requeue" /\ cur = wtask[w])

\* Who owns the reference that is not a waker's: the list, the call working on
\* the task, or, once the task is released, the ready-to-run queue (also on
\* behalf of a thread that is about to enqueue it).
Owned(t) ==
    \/ t \in linked
    \/ cur = t
    \/ t \notin live /\ (t \in Entries \/ Claims(t) # {})

\* release_task (futures_unordered.rs:248-261) and the comment task.rs:68-72:
\* at every step the strong count of a task is the number of its wakers plus
\* one for its owner.  A task that is live or in the queue is therefore never
\* freed, and a task nobody refers to always is.
RefCount ==
    \A t \in Task : arc[t] = Cardinality(Clones(t)) + (IF Owned(t) THEN 1 ELSE 0)

\* A wake-up of a pending task is never lost: from the wake until its next poll
\* begins the task is in the queue, about to be put there by the thread that
\* woke it, or being put back by poll_next.
NoLostWake ==
    \A t \in woken : \/ t \in Entries
                     \/ Claims(t) # {}
                     \/ pc = "requeue" /\ cur = t

\* When poll_next reports Ready or Pending it has polled every task that was
\* reachable in the queue, and not polled yet this cycle, when it was called
\* (lib.rs:220-222, "all tasks in the pool will try to make progress").
DueArePolled ==
    pc = "idle" /\ out \in {"Ready", "Pending"} => due = {}

\* futures_unordered.rs:568-579: the last reference to the queue is let go by a
\* thread that finds it consistent, so its destructor never aborts, ...
NoAbortInDrop == pc # "abort_drop"

\* ... and it frees every task still in it.
NothingLeftInQueue == PoolGone /\ Upgraded = {} => Entries = {}

InPollNext == pc \in {"loop", "requeue", "poll"}

\* poll_next returns, unless the task it saw first stays unwoken: it looks for
\* that task to come round again and is the only task that stops the loop.
PollNextReturns ==
    \/ []<>~InPollNext
    \/ <>[](initial # None /\ initial \notin Entries)

\* A task that was woken is polled (or released) if the owner keeps calling
\* poll_next, whatever the other tasks and threads do meanwhile.
WokenIsPolled ==
    ([]<><<PollNext(TRUE)>>_vars) => \A t \in Task : (t \in woken) ~> (t \notin woken)

\* README.md:89: a pending task has been woken or its waker is kept by somebody.
WakersKept == \A t \in linked : t \in queued \/ Clones(t) # {}

\* lib.rs:218-220, "will not block the calling thread and will return the moment
\* that there are no tasks left for which progress can be made": a run does not
\* wait for a wake-up, which may be up to the very thread that called it.
AlwaysReturns == []WakersKept => []<>~InPollNext

\* futures_unordered.rs:547, "we just cleared all the tasks, and we have &mut
\* self, so this is safe": clear() does not abort the process.
NoAbortInClear == pc # "abort_clear"
=============================================================================
