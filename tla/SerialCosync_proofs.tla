------------------------- MODULE SerialCosync_proofs -------------------------
(***************************************************************************)
(* A SerialCosync uses its pool as the pool's specification assumes, has   *)
(* at most one task in it, completes tasks in order and is an executor.    *)
(***************************************************************************)
EXTENDS SerialCosync, CosyncTasks_proofs

LEMMA SerialOwnerStepsPool ==
    SerialOwnerStep => Next \/ UNCHANGED vars
<1> SUFFICES ASSUME SerialOwnerStep PROVE Next \/ UNCHANGED vars
  OBVIOUS
<1>1. CASE \E t \in Task : SerialQueue(t)
  BY <1>1 DEF SerialQueue, HandleNumber, poolVars
<1>2. CASE SerialRun
  BY <1>2 DEF SerialRun, poolVars
<1>3. CASE OwnerStep
  BY <1>3, OwnerStepsPool
<1> QED
  BY <1>1, <1>2, <1>3
     DEF SerialOwnerStep, SerialUnqueue, SerialStop, SerialClearQueue, SerialClear,
         SerialDrop, OwnerStep

LEMMA SerialRunStepsPool ==
    SerialRunStep => Next \/ UNCHANGED vars
<1> SUFFICES ASSUME SerialRunStep PROVE Next \/ UNCHANGED vars
  OBVIOUS
<1>1. CASE \E t \in Task : NextTask(t)
  BY <1>1 DEF NextTask, Pop, Next, Owner
<1>2. CASE PollAgain
  BY <1>2 DEF PollAgain, Next, Owner
<1>3. CASE SerialReturn \/ ClearRest \/ DropIncoming
  BY <1>3 DEF SerialReturn, ClearRest, DropIncoming, poolVars
<1>4. CASE PoolRuns
  BY <1>4, PoolRunsPool
<1> QED
  BY <1>1, <1>2, <1>3, <1>4 DEF SerialRunStep

LEMMA SerialStepsPool == [SerialNext]_allVars => [Next]_vars
<1> SUFFICES ASSUME [SerialNext]_allVars PROVE Next \/ UNCHANGED vars
  OBVIOUS
<1>1. CASE HandleAppend(Mine) \/ \E h \in Handle \ {Mine} : HandleStep(h)
  BY <1>1, HandleStepsPool DEF HandleAppend, poolVars
<1>2. CASE WakerThread
  BY <1>2 DEF WakerThread, Next
<1>3. CASE CosyncEnded \/ UNCHANGED allVars
  BY <1>3 DEF CosyncEnded, allVars, poolVars
<1> QED
  BY <1>1, <1>2, <1>3, SerialOwnerStepsPool, SerialRunStepsPool DEF SerialNext

\* The pool of a SerialCosync (serial.rs:16) is used as its specification assumes.
THEOREM PoolInSerialCosync == SerialSpec => Spec
<1>1. CosyncInit => Init
  BY DEF CosyncInit
<1> QED
  BY <1>1, SerialStepsPool, PTL DEF SerialSpec, Spec

\* In a SerialCosync, too, no wake-up is lost, no task is enqueued twice and every
\* reference count is exact, if no thread claims a task while poll_next puts it back.
THEOREM SerialKeepsWakes ==
    SerialSpec /\ RaceFree => [](NoLostWake /\ QueuedOnce /\ RefCount)
<1> QED
  BY PoolInSerialCosync, WakesAreKept, TaskQueuedOnce, CountsAreExact, PTL

\* A SerialCosync whose wakers stay on the thread that runs it never aborts in clear(), and
\* none of its runs gives up because of an enqueue that another thread has not finished.
THEOREM SerialIsConsistent ==
    SerialSpec /\ OneThread => [](NoAbortInClear /\ out # "Inconsistent")
<1> QED
  BY PoolInSerialCosync, OneThreadIsConsistent, PTL

-----------------------------------------------------------------------------
(* One task at a time *)

\* The pool holds at most one future, and none when poll_pool takes the next task out.
OneLive ==
    /\ \A s, t \in live : s = t
    /\ Returned /\ out = "Ready" => live = {}
    /\ cpc = "poll" => pc \in {"idle", "loop", "requeue", "poll"}

SInv == PoolShape /\ OneLive

serialState == <<live, linked, cur, pc, out, cpc, fresh>>

\* A run takes a task out only when poll_next has found the pool empty.
LEMMA NextTaskKeeps ==
    ASSUME SInv, NEW t \in Task, NextTask(t)
    PROVE  SInv'
BY NoneAssumption DEF SInv, PoolShape, OneLive, NextTask, Pop, Push, Returned, exec

\* The steps of poll_next that end it.
LEMMA ReturnKeeps ==
    ASSUME SInv, DequeueEmpty \/ DequeueInconsistent, UNCHANGED <<cpc, fresh>>
    PROVE  SInv'
BY NoneAssumption
   DEF SInv, PoolShape, OneLive, DequeueEmpty, DequeueInconsistent, Return, Returned,
       mem

\* A task is taken out of the list to be polled or put back.
LEMMA TakeTaskKeeps ==
    ASSUME SInv, NEW t \in Task, DequeueUnpolled(t) \/ DequeuePolled(t),
           UNCHANGED <<cpc, fresh>>
    PROVE  SInv'
<1>1. /\ pc = "loop" /\ cur = None
      /\ linked' = linked \ {t} /\ cur' = t /\ t \in live
      /\ pc' \in {"poll", "requeue"} /\ UNCHANGED <<live, cpc, fresh>>
  BY DEF SInv, PoolShape, DequeueUnpolled, DequeuePolled, TakeTask
<1> QED
  BY <1>1, NoneAssumption DEF SInv, PoolShape, OneLive, Returned

\* It is put back, or its future returned Pending.
LEMMA PutBackKeeps ==
    ASSUME SInv, Requeue \/ PollPending, UNCHANGED <<cpc, fresh>>
    PROVE  SInv'
<1>1. /\ pc \in {"poll", "requeue"}
      /\ linked' = linked \union {cur} /\ cur' = None
      /\ pc' = "loop" \/ (pc' = "idle" /\ out' = "Pending")
      /\ UNCHANGED <<live, cpc, fresh>>
  BY DEF Requeue, PutBack, GoOn, Return, PollPending
<1> QED
  BY <1>1, NoneAssumption DEF SInv, PoolShape, OneLive, Returned

\* Its future is done, or unwinds.
LEMMA PollDoneKeepsOne ==
    ASSUME SInv, PollReady \/ PollPanic, UNCHANGED <<cpc, fresh>>
    PROVE  SInv'
<1>1. /\ pc = "poll" /\ cur' = None /\ live' = live \ {cur}
      /\ pc' = "loop" \/ (pc' = "idle" /\ out' = "Panic")
      /\ UNCHANGED <<linked, cpc, fresh>>
  BY DEF PollReady, PollPanic, ReleaseTask, Return
<1> QED
  BY <1>1, NoneAssumption DEF SInv, PoolShape, OneLive, Returned

\* clear() and drop() release the futures one at a time.
LEMMA ReleaseOneKeepsOne ==
    ASSUME SInv, NEW t \in Task, ReleaseOne(t), UNCHANGED <<cpc, fresh>>
    PROVE  SInv'
BY DEF SInv, PoolShape, OneLive, ReleaseOne, ReleaseTask, Returned, exec

\* The ends of clear() and drop().
LEMMA DrainKeepsOne ==
    ASSUME SInv, UNCHANGED <<cpc, fresh>>,
           StartDrain \/ DrainEmpty \/ DrainInconsistent \/ DropQueue
    PROVE  SInv'
BY DEF SInv, PoolShape, OneLive, StartDrain, DrainEmpty, DrainInconsistent,
       DropQueue, DrainQueue, Returned, mem

\* The rest of what the pool does leaves its futures alone.
LEMMA PoolRunsKeepsOne ==
    ASSUME SInv, PoolRuns
    PROVE  SInv'
<1>0. UNCHANGED <<cpc, fresh>>
  BY DEF PoolRuns, ownerState
<1>1. CASE UNCHANGED <<live, linked, cur, pc, out>>
  BY <1>0, <1>1 DEF SInv, PoolShape, OneLive, Returned
<1>2. CASE \E t \in Task : BeginTask(t)
  BY <1>0, <1>2, TakeTaskKeeps DEF BeginTask
<1>3. CASE PollFuture
  BY <1>0, <1>3, PutBackKeeps, PollDoneKeepsOne DEF PollFuture
<1>4. CASE UseWaker
  BY <1>1, <1>4 DEF UseWaker, CloneWaker, WakeSelf
<1>5. CASE PoolStep
  <2>1. CASE \E t \in Task : ReleaseOne(t)
    BY <1>0, <2>1, ReleaseOneKeepsOne
  <2>2. CASE \E t \in Task : DrainData(t) \/ DequeueReleased(t)
    BY <1>1, <2>2 DEF DrainData, DequeueReleased, exec
  <2>3. CASE \E t \in Task : DequeuePolled(t)
    BY <1>0, <2>3, TakeTaskKeeps
  <2>4. CASE StartDrain \/ DrainEmpty \/ DrainInconsistent \/ DropQueue
    BY <1>0, <2>4, DrainKeepsOne
  <2>5. CASE DequeueEmpty \/ DequeueInconsistent
    BY <1>0, <2>5, ReturnKeeps
  <2>6. CASE Requeue
    BY <1>0, <2>6, PutBackKeeps
  <2> QED
    BY <1>5, <2>1, <2>2, <2>3, <2>4, <2>5, <2>6 DEF PoolStep
<1> QED
  BY <1>2, <1>3, <1>4, <1>5 DEF PoolRuns

\* A waking thread touches no future; the last one out empties the queue.
LEMMA WakerKeepsOne ==
    ASSUME SInv, WakerThread
    PROVE  SInv'
<1>1. UNCHANGED <<live, linked, cur, out, cpc, fresh>>
  BY DEF WakerThread, Thread, Waking, DropWaker, WakeUpgrade, WakeTooLate, WakeIgnored,
         WakeClaim, WakeSwap, WakeLink, WakeDone, exec, mem, ownerState
<1>2. pc' = pc \/ (pc = "dropped" /\ pc' \in {"dropped", "abort_drop"})
  BY DEF WakerThread, Thread, Waking, DropWaker, WakeUpgrade, WakeTooLate, WakeIgnored,
         WakeClaim, WakeSwap, WakeLink, WakeDone, exec, PoolGone, DrainQueue
<1> QED
  BY <1>1, <1>2 DEF SInv, PoolShape, OneLive, Returned

\* The calls of the owner.
LEMMA SerialOwnerKeepsOne ==
    ASSUME SInv, SerialOwnerStep
    PROVE  SInv'
<1>1. CASE UNCHANGED serialState
  BY <1>1 DEF serialState, SInv, PoolShape, OneLive, Returned
<1>2. CASE \E t \in Task : SerialQueue(t) \/ SerialUnqueue(t)
  BY <1>1, <1>2 DEF SerialQueue, SerialUnqueue, HandleNumber, OwnerUnqueue,
                    serialState, poolVars, vars, mem, exec, ownerState
<1>3. CASE SerialClearQueue
  BY <1>1, <1>3 DEF SerialClearQueue, ClearQueue, serialState, poolVars, vars, mem,
                    exec, ownerState
<1>4. CASE SerialStop \/ SerialClear \/ SerialDrop
  BY <1>4 DEF SerialStop, SerialClear, SerialDrop, Free, AtRest, ClearRunning, ClearAll,
              DropCosync, Clear, Drop, ClearHeadAll, SInv, PoolShape, OneLive, Returned,
              mem, ownerState
<1>5. CASE SerialRun
  BY <1>5 DEF SerialRun, Free, AtRest, SInv, PoolShape, OneLive, Returned, poolVars,
              vars, mem, exec
<1> QED
  BY <1>2, <1>3, <1>4, <1>5 DEF SerialOwnerStep

\* The steps of a run.
LEMMA SerialRunKeepsOne ==
    ASSUME SInv, SerialRunStep
    PROVE  SInv'
<1>1. CASE \E t \in Task : NextTask(t)
  BY <1>1, NextTaskKeeps
<1>2. CASE PollAgain
  BY <1>2 DEF PollAgain, PollNext, SInv, PoolShape, OneLive, Returned, mem
<1>3. CASE SerialReturn \/ ClearRest \/ DropIncoming
  BY <1>3 DEF SerialReturn, ClearRest, DropIncoming, SInv, PoolShape, OneLive, Returned,
              poolVars, vars, mem, exec
<1>4. CASE PoolRuns
  BY <1>4, PoolRunsKeepsOne
<1> QED
  BY <1>1, <1>2, <1>3, <1>4 DEF SerialRunStep

LEMMA SInvIsInductive == SInv /\ [SerialNext]_allVars => SInv'
<1> SUFFICES ASSUME SInv, [SerialNext]_allVars PROVE SInv'
  OBVIOUS
<1>1. CASE UNCHANGED serialState
  BY <1>1 DEF serialState, SInv, PoolShape, OneLive, Returned
<1>2. CASE HandleAppend(Mine) \/ \E h \in Handle \ {Mine} : HandleStep(h)
  BY <1>1, <1>2 DEF HandleStep, HandleNumber, HandleUnqueue, HandleAppend, serialState,
                    poolVars, vars, mem, exec, ownerState
<1>3. CASE CosyncEnded \/ UNCHANGED allVars
  BY <1>1, <1>3 DEF CosyncEnded, allVars, serialState, poolVars, vars, mem, exec, ownerState
<1> QED
  BY <1>2, <1>3, SerialOwnerKeepsOne, SerialRunKeepsOne, WakerKeepsOne DEF SerialNext

\* serial.rs:42, "we ensure that pool's length is always 1", for every number of
\* tasks, handles and wakers and of wake-ups per poll, through panics, clears and
\* late wake-ups.
THEOREM OneTaskAtATime == SerialSpec => []OneAtATime
<1>1. CosyncInit => SInv
  BY NoneAssumption DEF CosyncInit, Init, SInv, PoolShape, OneLive, Returned
<1>2. SInv => OneAtATime
  <2> SUFFICES ASSUME SInv PROVE Cardinality(live) <= 1
    BY DEF OneAtATime
  <2>1. CASE live = {}
    BY <2>1, FS_EmptySet
  <2>2. CASE live # {}
    <3>1. PICK t \in live : live = {t}
      BY <2>2 DEF SInv, OneLive
    <3>2. Cardinality({t}) = 1
      BY FS_Singleton
    <3> QED
      BY <3>1, <3>2
  <2> QED
    BY <2>1, <2>2
<1> QED
  BY <1>1, <1>2, SInvIsInductive, PTL DEF SerialSpec

-----------------------------------------------------------------------------
(* Tasks *)

\* What a run owes is gone, waiting or in the pool; poll_next is called by runs only.
Owed ==
    /\ cpc = "poll" => owed \subseteq gone \union Waiting \union live
    /\ cpc # "poll" /\ out = "Ready" => owed \subseteq gone
    /\ pc \in {"loop", "poll", "requeue"} => cpc = "poll"

\* The invariant of Cosync, with the order of completion and what a run owes.
SerialInv == Tasks /\ Pool /\ Cycle("poll") /\ SInv /\ CompletesInOrder /\ Owed

\* The steps of poll_pool of a SerialCosync.
LEMMA SerialPollKeeps ==
    ASSUME SerialInv,
           SerialRun \/ PollAgain \/ SerialReturn \/ \E t \in Task : NextTask(t)
    PROVE  Tasks' /\ Pool' /\ Cycle("poll")'
<1>1. CASE SerialRun
  <2>1. /\ UNCHANGED <<vars, queueState, begun, gone>> /\ ran' = {} /\ pc = "idle"
        /\ cpc' = "poll" /\ fresh' = TRUE
    BY <1>1 DEF SerialRun, Free, poolVars, AtRest
  <2>2. Tasks' /\ Pool'
    BY <2>1, QuietKeeps DEF SerialInv
  <2>3. Cycle("poll")'
    BY <2>1 DEF Cycle, vars, exec
  <2> QED
    BY <2>2, <2>3
<1>2. CASE PollAgain
  <2>1. /\ PollNext(TRUE) /\ fresh' = FALSE /\ fresh
        /\ UNCHANGED <<queueState, begun, ran, gone>>
    BY <1>2 DEF PollAgain, runHistory
  <2>2. Tasks' /\ Pool'
    BY <2>1, CallsKeep DEF SerialInv
  <2>3. live' = live
    BY <2>1 DEF PollNext, mem
  <2>4. Cycle("poll")'
    BY <2>1, <2>3 DEF SerialInv, Cycle
  <2> QED
    BY <2>2, <2>4
<1>3. CASE SerialReturn
  <2>1. UNCHANGED <<vars, queueState, begun, gone>> /\ UNCHANGED <<fresh, ran>> /\ ~fresh
    BY <1>3 DEF SerialReturn, Returned, poolVars, runHistory
  <2>2. Tasks' /\ Pool'
    BY <2>1, QuietKeeps DEF SerialInv, Tasks, Places
  <2>3. Cycle("poll")'
    BY <2>1 DEF SerialInv, Cycle, vars, mem, exec
  <2> QED
    BY <2>2, <2>3
<1>4. ASSUME NEW t \in Task, NextTask(t) PROVE Tasks' /\ Pool' /\ Cycle("poll")'
  <2>1. /\ Push(t) /\ incoming # <<>> /\ t = Head(incoming) /\ incoming' = Tail(incoming)
        /\ UNCHANGED <<numbers, htask, begun, ran, gone>> /\ UNCHANGED <<cpc, pc>>
        /\ fresh' = TRUE /\ cpc = "poll" /\ pc = "idle" /\ live = {}
    BY <1>4 DEF NextTask, Pop, Push, exec, numbers, runHistory, Returned, SerialInv, SInv, OneLive
  <2>2. Tasks' /\ Pool' /\ t \notin begun
    BY <2>1, MoveKeeps DEF SerialInv
  <2>3. live' = {t} /\ t \notin ran
    BY <2>1, <2>2 DEF Push, SerialInv, Tasks, Places
  <2>4. Cycle("poll")'
    BY <2>1, <2>3 DEF Cycle
  <2> QED
    BY <2>2, <2>4
<1> QED
  BY <1>1, <1>2, <1>3, <1>4

\* The kinds of steps of a SerialCosync, and what they leave alone.
LEMMA SerialKeepsTasks ==
    ASSUME SerialInv, [SerialNext]_allVars
    PROVE  Tasks' /\ Pool' /\ Cycle("poll")'
<1>1. CASE SharedCall
  BY <1>1, SharedCallsKeep, SharedCallsCycle DEF SerialInv
<1>2. CASE PoolRuns
  BY <1>2, PoolRunsKeep, PoolRunsCycle DEF SerialInv
<1>3. CASE WakerThread \/ \E h \in Handle : HandleStep(h)
  BY <1>3, WakersKeep, HandlesKeep, OthersCycle DEF SerialInv
<1>4. CASE CosyncEnded \/ UNCHANGED allVars
  <2>1. UNCHANGED <<vars, queueState, begun, gone>> /\ UNCHANGED <<cpc, fresh, ran>>
    BY <1>4 DEF CosyncEnded, allVars, poolVars, ownerState, runHistory
  <2>2. Tasks' /\ Pool'
    BY <2>1, QuietKeeps DEF SerialInv, Tasks, Places
  <2>3. Cycle("poll")'
    BY <2>1 DEF SerialInv, Cycle, vars, mem, exec
  <2> QED
    BY <2>2, <2>3
<1>5. CASE SerialRun \/ PollAgain \/ SerialReturn \/ \E t \in Task : NextTask(t)
  BY <1>5, SerialPollKeeps
<1>6. CASE \E t \in Task : SerialQueue(t)
  BY <1>3, <1>6, MineAssumption DEF SerialQueue, HandleStep
<1> QED
  BY <1>1, <1>2, <1>3, <1>4, <1>5, <1>6, MineAssumption
     DEF SerialNext, SerialOwnerStep, SerialRunStep, SharedCall, SerialUnqueue, SerialStop,
         SerialClearQueue, SerialClear, SerialDrop, HandleStep

-----------------------------------------------------------------------------
(* The order of completion *)

\* A task that is queued now comes after those of its actor, and has not begun.
LEMMA NewTaskCompletesLast ==
    ASSUME Tasks, CompletesInOrder, NEW t \in Task, NEW actor \in Handle \union {Owner_},
           TakeId(t, actor), UNCHANGED <<begun, gone>>
    PROVE  CompletesInOrder'
<1>1. /\ t \notin begun
      /\ \A u \in Task : u # t => id'[u] = id[u] /\ by'[u] = by[u] /\ Queued(u)' = Queued(u)
      /\ \A u \in Task : Queued(u) => id[u] \in Nat /\ id[u] < id'[t]
      /\ id'[t] \in Nat
  BY NewId DEF Tasks, Places, QueuedTasks, Queued
<1> SUFFICES ASSUME NEW v \in Task, NEW u \in Task, Queued(v)', Queued(u)', by'[v] = by'[u],
                    id'[v] < id'[u], u \in begun
             PROVE  v \in gone
  BY DEF CompletesInOrder
<1>2. u # t /\ Queued(u) /\ id[u] \in Nat /\ id'[u] = id[u] /\ id[u] < id'[t]
  BY <1>1
<1>3. v # t
  BY <1>1, <1>2
<1> QED
  BY <1>1, <1>2, <1>3 DEF CompletesInOrder

\* A task that begins is the only one of the pool, so what its actor queued before
\* it, which has begun or is gone, is gone.
LEMMA BeginCompletesInOrder ==
    ASSUME SerialInv, NEW u \in Task, BeginTask(u), FifoPerActor', UNCHANGED numbers
    PROVE  CompletesInOrder'
<1>1. u \in live /\ live' = live /\ gone' = gone /\ begun' = begun \union {u}
  BY DEF BeginTask, DequeueUnpolled, TakeTask
<1> SUFFICES ASSUME NEW s \in Task, NEW t \in Task, Queued(s), Queued(t), by[s] = by[t],
                    id[s] < id[t], t \in begun'
             PROVE  s \in gone
  BY <1>1 DEF CompletesInOrder, Queued, numbers
<1>2. CASE t \in begun
  BY <1>2 DEF SerialInv, CompletesInOrder
<1>3. CASE t = u
  <2>1. id[s] \in Nat /\ id[t] \in Nat
    BY IdIsNat DEF SerialInv, Tasks
  <2>2. s # u
    BY <1>3, <2>1
  <2>3. s \in begun \union gone
    BY <1>1, <2>2 DEF FifoPerActor, Queued, numbers
  <2>4. begun \subseteq live \union gone
    BY DEF SerialInv, Tasks, Places
  <2>5. s \notin live
    BY <1>1, <2>2 DEF SerialInv, SInv, OneLive
  <2> QED
    BY <2>3, <2>4, <2>5
<1> QED
  BY <1>1, <1>2, <1>3

\* No other step lets a task begin.
LEMMA SerialStepBegins ==
    ASSUME SerialInv, [SerialNext]_allVars
    PROVE  \/ UNCHANGED <<numbers, begun>> /\ gone \subseteq gone'
           \/ \E t \in Task : BeginTask(t) /\ UNCHANGED numbers
           \/ /\ \E t \in Task, h \in Handle : TakeId(t, h)
              /\ UNCHANGED <<begun, gone>>
<1>1. CASE SharedCall
  BY <1>1 DEF SharedCall, OwnerUnqueue, ClearQueue, ClearRunning, ClearAll, DropCosync, ClearRest,
              DropIncoming, Remove, RemoveAt, EmptyQueue, queueState, runHistory, numbers
<1>2. CASE PoolRuns
  BY <1>2 DEF PoolRuns, PollFuture, UseWaker, PoolStep, queueState, runHistory, numbers
<1>3. ASSUME NEW h \in Handle, HandleStep(h)
      PROVE  \/ UNCHANGED <<numbers, begun>> /\ gone \subseteq gone'
             \/ /\ \E t \in Task : TakeId(t, h)
                /\ UNCHANGED <<begun, gone>>
  BY <1>3 DEF HandleStep, HandleNumber, HandleUnqueue, HandleAppend, Remove, RemoveAt, runHistory, numbers
<1>4. CASE WakerThread \/ CosyncEnded \/ UNCHANGED allVars
  BY <1>4 DEF WakerThread, CosyncEnded, allVars, queueState, runHistory, numbers
<1>5. CASE SerialRun \/ PollAgain \/ SerialReturn \/ \E t \in Task : NextTask(t)
  BY <1>5 DEF SerialRun, PollAgain, SerialReturn, NextTask, Pop, queueState, runHistory, numbers
<1>6. CASE \E t \in Task : SerialQueue(t)
  BY <1>3, <1>6, MineAssumption DEF SerialQueue, HandleStep
<1> QED
  BY <1>1, <1>2, <1>3, <1>4, <1>5, <1>6, MineAssumption
     DEF SerialNext, SerialOwnerStep, SerialRunStep, SharedCall, SerialUnqueue, SerialStop,
         SerialClearQueue, SerialClear, SerialDrop, HandleStep

LEMMA SerialKeepsOrder ==
    ASSUME SerialInv, [SerialNext]_allVars
    PROVE  CompletesInOrder'
<1>1. CASE UNCHANGED <<numbers, begun>> /\ gone \subseteq gone'
  BY <1>1 DEF SerialInv, CompletesInOrder, Queued, numbers
<1>2. CASE \E t \in Task : BeginTask(t) /\ UNCHANGED numbers
  BY <1>2, SerialKeepsTasks, BeginCompletesInOrder DEF Tasks
<1>3. CASE (\E t \in Task, h \in Handle : TakeId(t, h)) /\ UNCHANGED <<begun, gone>>
  BY <1>3, NewTaskCompletesLast DEF SerialInv
<1> QED
  BY <1>1, <1>2, <1>3, SerialStepBegins

-----------------------------------------------------------------------------
(* What a run owes *)

\* The steps of poll_next lose no task.
LEMMA PoolRunsKeepsOwed ==
    ASSUME SerialInv, PoolRuns
    PROVE  Owed'
<1>1. /\ UNCHANGED <<cpc, incoming>> /\ live \union gone \subseteq live' \union gone'
      /\ gone \subseteq gone' /\ owed' \subseteq owed
  <2>1. CASE \E t \in Task : BeginTask(t)
    BY <2>1 DEF PoolRuns, BeginTask, DequeueUnpolled, TakeTask, queueState, ownerState
  <2>2. CASE PollFuture \/ UseWaker \/ PoolStep
    <3>1. live \union gone \subseteq live' \union gone' /\ gone \subseteq gone'
      BY <2>2, PoolEnds DEF SerialInv
    <3> QED
      BY <2>2, <3>1 DEF PoolRuns, PollFuture, UseWaker, PoolStep, queueState, ownerState, runHistory
  <2> QED
    BY <2>1, <2>2 DEF PoolRuns
<1>2. pc' \in {"loop", "poll", "requeue"} => pc \in {"loop", "poll", "requeue"}
  BY DEF PoolRuns, BeginTask, PollFuture, UseWaker, PoolStep, DequeueUnpolled, TakeTask,
         PollReady, PollPending, PollPanic, CloneWaker, WakeSelf, ReleaseOne, DrainData, DequeueReleased,
         DequeuePolled, StartDrain, DrainEmpty, DrainInconsistent, DropQueue, DrainQueue, DequeueEmpty,
         DequeueInconsistent, Requeue, PutBack, Return, GoOn, exec
<1>3. out' = out \/ pc \in {"loop", "poll", "requeue"}
  BY DEF PoolRuns, BeginTask, PollFuture, UseWaker, PoolStep, DequeueUnpolled, TakeTask,
         PollReady, PollPending, PollPanic, CloneWaker, WakeSelf, ReleaseOne, DrainData, DequeueReleased,
         DequeuePolled, StartDrain, DrainEmpty, DrainInconsistent, DropQueue, DrainQueue, DequeueEmpty,
         DequeueInconsistent, Requeue, PutBack, Return, GoOn, exec
<1>4. Waiting' = Waiting
  BY <1>1 DEF Waiting
<1> QED
  BY <1>1, <1>2, <1>3, <1>4 DEF SerialInv, Owed

\* A handle appends, so that the run owes one more, or takes back what it owed.
LEMMA HandleKeepsOwed ==
    ASSUME SerialInv, NEW h \in Handle, HandleStep(h)
    PROVE  Owed'
<1>1. /\ UNCHANGED <<live, cpc, out, pc>> /\ gone \subseteq gone'
  BY DEF HandleStep, HandleNumber, HandleUnqueue, HandleAppend, Remove, RemoveAt, poolVars, vars, mem,
         exec, ownerState
<1>2. incoming \in Seq(Task) /\ Once
  BY DEF SerialInv, Tasks, Places
<1>3. ASSUME NEW t \in Task, HandleNumber(h, t) PROVE Owed'
  <2>1. UNCHANGED <<incoming, owed, gone>>
    BY <1>3 DEF HandleNumber, runHistory
  <2> QED
    BY <1>1, <2>1 DEF SerialInv, Owed, Waiting
<1>4. ASSUME NEW t \in Task, HandleUnqueue(h, t) PROVE Owed'
  <2>1. PICK k \in 1 .. Len(incoming) : RemoveAt(k)
    BY <1>2, <1>4 DEF HandleUnqueue, Remove
  <2>2. Waiting' = Waiting \ {incoming[k]} /\ gone' = gone \union {incoming[k]}
    BY <1>2, <2>1, RemoveTakes, EntryTaken DEF RemoveAt
  <2>3. owed' = owed
    BY <1>4 DEF HandleUnqueue, runHistory
  <2> QED
    BY <1>1, <2>2, <2>3 DEF SerialInv, Owed
<1>5. CASE HandleAppend(h) /\ cpc = "poll"
  <2> DEFINE t == htask[h]
  <2>1. t \in Task /\ t \notin Waiting
    BY <1>5 DEF HandleAppend, SerialInv, Tasks, Places, Held
  <2>2. incoming' = Append(incoming, t) /\ owed' = owed \union {t} /\ gone' = gone
    BY <1>5 DEF HandleAppend
  <2> HIDE DEF t
  <2>3. Waiting' = Waiting \union {t}
    BY <1>2, <2>1, <2>2, EntryAppended
  <2> QED
    BY <1>1, <1>5, <2>2, <2>3 DEF SerialInv, Owed
<1>6. CASE HandleAppend(h) /\ cpc # "poll"
  <2>1. owed' = owed
    BY <1>6 DEF HandleAppend
  <2> QED
    BY <1>1, <1>6, <2>1 DEF SerialInv, Owed
<1> QED
  BY <1>3, <1>4, <1>5, <1>6 DEF HandleStep

\* The steps of poll_pool: a run begins with the tasks that wait, and returns Ready
\* with both queues empty.
LEMMA SerialPollKeepsOwed ==
    ASSUME SerialInv,
           SerialRun \/ PollAgain \/ SerialReturn \/ \E t \in Task : NextTask(t)
    PROVE  Owed'
<1>1. CASE SerialRun
  <2>1. /\ owed' = Waiting /\ incoming' = incoming /\ cpc' = "poll" /\ pc' = pc /\ pc = "idle"
    BY <1>1 DEF SerialRun, Free, AtRest, poolVars, vars, exec, queueState
  <2> QED
    BY <2>1 DEF Owed, Waiting
<1>2. CASE PollAgain
  <2>1. UNCHANGED <<owed, incoming, gone, live, cpc>> /\ cpc = "poll"
    BY <1>2 DEF PollAgain, PollNext, mem, queueState, runHistory
  <2> QED
    BY <2>1 DEF SerialInv, Owed, Waiting
<1>3. CASE SerialReturn
  <2>1. /\ UNCHANGED <<owed, gone, out, pc>> /\ cpc = "poll" /\ pc = "idle" /\ cpc' = "out"
        /\ out = "Ready" => incoming = <<>> /\ live = {}
    BY <1>3 DEF SerialReturn, Returned, poolVars, vars, exec, runHistory, SerialInv, SInv, OneLive
  <2> QED
    BY <2>1 DEF SerialInv, Owed, Waiting
<1>4. ASSUME NEW t \in Task, NextTask(t) PROVE Owed'
  <2>1. /\ incoming # <<>> /\ t = Head(incoming) /\ incoming' = Tail(incoming)
        /\ live' = live \union {t} /\ UNCHANGED <<owed, gone, cpc, pc, out>>
        /\ incoming \in Seq(Task) /\ Once
    BY <1>4 DEF NextTask, Pop, Push, exec, runHistory, SerialInv, Tasks, Places
  <2>2. Waiting' = Waiting \ {t}
    BY <2>1, TailTakes, EntryTaken
  <2>3. cpc = "poll"
    BY <1>4 DEF NextTask, Returned
  <2> QED
    BY <2>1, <2>2, <2>3 DEF SerialInv, Owed
<1> QED
  BY <1>1, <1>2, <1>3, <1>4

LEMMA SerialKeepsOwed ==
    ASSUME SerialInv, [SerialNext]_allVars
    PROVE  Owed'
<1>1. CASE SharedCall
  <2>1. /\ cpc # "poll" /\ cpc' # "poll" /\ UNCHANGED <<owed, out>> /\ gone \subseteq gone'
        /\ pc' = pc \/ pc' \in {"clear", "drop"}
    BY <1>1 DEF SharedCall, OwnerUnqueue, ClearQueue, ClearRunning, ClearAll, DropCosync, ClearRest,
                DropIncoming, Remove, RemoveAt, EmptyQueue, Clear, Drop, ClearHeadAll, AtRest, poolVars,
                vars, exec, runHistory, ownerState
  <2> QED
    BY <2>1 DEF SerialInv, Owed
<1>2. CASE WakerThread
  <2>1. UNCHANGED <<owed, incoming, gone, live, cpc, out>>
    BY <1>2 DEF WakerThread, Thread, Waking, DropWaker, WakeUpgrade, WakeTooLate, WakeIgnored,
                WakeClaim, WakeSwap, WakeLink, WakeDone, exec, mem, ownerState, queueState, runHistory
  <2>2. pc' = pc \/ pc' \in {"dropped", "abort_drop"}
    BY <1>2, WakersKeep DEF SerialInv
  <2> QED
    BY <2>1, <2>2 DEF SerialInv, Owed, Waiting
<1>3. CASE CosyncEnded \/ UNCHANGED allVars
  <2>1. UNCHANGED <<owed, incoming, gone, live, cpc, out, pc>>
    BY <1>3 DEF CosyncEnded, allVars, poolVars, vars, mem, exec, ownerState, queueState, runHistory
  <2> QED
    BY <2>1 DEF SerialInv, Owed, Waiting
<1>4. CASE SerialRun \/ PollAgain \/ SerialReturn \/ \E t \in Task : NextTask(t)
  BY <1>4, SerialPollKeepsOwed
<1>5. CASE \E t \in Task : SerialQueue(t)
  BY <1>5, HandleKeepsOwed, MineAssumption DEF SerialQueue, HandleStep
<1> QED
  BY <1>1, <1>2, <1>3, <1>4, <1>5, PoolRunsKeepsOwed, HandleKeepsOwed, MineAssumption
     DEF SerialNext, SerialOwnerStep, SerialRunStep, SharedCall, SerialUnqueue, SerialStop,
         SerialClearQueue, SerialClear, SerialDrop, HandleStep

-----------------------------------------------------------------------------
(* The theorems *)

LEMMA SerialInvariance == SerialSpec => []SerialInv
<1>1. CosyncInit => SerialInv
  <2> SUFFICES ASSUME CosyncInit PROVE SerialInv
    OBVIOUS
  <2>1. Tasks /\ Pool
    BY CInitHolds DEF CInv
  <2>2. Cycle("poll") /\ CompletesInOrder /\ Owed
    BY DEF CosyncInit, Init, Cycle, CompletesInOrder, Queued, Owed
  <2>3. SInv
    BY NoneAssumption DEF CosyncInit, Init, SInv, PoolShape, OneLive, Returned
  <2> QED
    BY <2>1, <2>2, <2>3 DEF SerialInv
<1>2. SerialInv /\ [SerialNext]_allVars => SerialInv'
  BY SerialKeepsTasks, SerialKeepsOrder, SerialKeepsOwed, SInvIsInductive DEF SerialInv
<1> QED
  BY <1>1, <1>2, PTL DEF SerialSpec

\* serial.rs:13, "a task must fully complete [...] before the next queued task is
\* ran": no task begins before the earlier ones of its actor are gone.
THEOREM SerialCompletesInOrder == SerialSpec => []CompletesInOrder
<1>1. SerialInv => CompletesInOrder
  BY DEF SerialInv
<1> QED
  BY <1>1, SerialInvariance, PTL

\* serial.rs:105, a run that reports Ready has completed every task that was queued
\* before it began or while it polled.
THEOREM SerialReadyMeansDone == SerialSpec => []ReadyMeansDone
<1>1. SerialInv => ReadyMeansDone
  BY DEF SerialInv, Owed, ReadyMeansDone, AtRest
<1> QED
  BY <1>1, SerialInvariance, PTL

LEMMA SerialPollLife ==
    ASSUME SerialInv,
           SerialRun \/ PollAgain \/ SerialReturn \/ \E t \in Task : NextTask(t)
    PROVE  LifeStep
<1>1. pc # "poll" /\ pc' # "poll"
  BY DEF SerialRun, PollAgain, SerialReturn, NextTask, Pop, Push, PollNext, Returned, Free, AtRest,
         poolVars, vars, exec
<1>2. Active = None /\ Active' = None
  BY <1>1 DEF Active
<1>3. CASE SerialRun
  <2>1. ran' = {} /\ UNCHANGED <<id, begun, gone>>
    BY <1>3 DEF SerialRun, queueState
  <2>2. Lifecycle!StartRun
    BY <1>2, <2>1 DEF Lifecycle!StartRun, Phase, Queued
  <2> QED
    BY <2>2 DEF LifeStep, Lifecycle!Next
<1>4. CASE PollAgain \/ SerialReturn \/ \E t \in Task : NextTask(t)
  <2>1. UNCHANGED <<id, begun, gone, ran>>
    BY <1>4 DEF PollAgain, SerialReturn, NextTask, Pop, queueState, runHistory
  <2> QED
    BY <1>2, <2>1, LifeStays
<1> QED
  BY <1>3, <1>4

\* A SerialCosync, too, polls a task only after it was queued, at most once per run,
\* and never after it was completed, taken back, cleared or dropped.
THEOREM SerialIsExecutor == SerialSpec => IsExecutor
<1>1. CosyncInit => Lifecycle!Init
  <2> SUFFICES ASSUME CosyncInit PROVE Lifecycle!Init
    OBVIOUS
  <2>1. Phase = [t \in Task |-> "new"] /\ ran = {} /\ Active = None
    BY DEF CosyncInit, Init, Phase, Active, Queued
  <2> QED
    BY <2>1 DEF Lifecycle!Init
<1>2. SerialInv /\ [SerialNext]_allVars => [Lifecycle!Next]_(Lifecycle!vars)
  <2> SUFFICES ASSUME SerialInv, [SerialNext]_allVars PROVE LifeStep
    BY DEF LifeStep
  <2>1. CASE SharedCall
    BY <2>1, SharedCallsLife DEF SerialInv
  <2>2. CASE PoolRuns
    BY <2>2, PoolRunsLife DEF SerialInv
  <2>3. CASE WakerThread \/ \E h \in Handle : HandleStep(h)
    BY <2>3, OthersLife DEF SerialInv
  <2>4. CASE CosyncEnded \/ UNCHANGED allVars
    BY <2>4, LifeStays DEF CosyncEnded, allVars, poolVars, vars, exec, queueState, runHistory, Active
  <2>5. CASE SerialRun \/ PollAgain \/ SerialReturn \/ \E t \in Task : NextTask(t)
    BY <2>5, SerialPollLife
  <2>6. CASE \E t \in Task : SerialQueue(t)
    BY <2>3, <2>6, MineAssumption DEF SerialQueue, HandleStep
  <2> QED
    BY <2>1, <2>2, <2>3, <2>4, <2>5, <2>6, MineAssumption
       DEF SerialNext, SerialOwnerStep, SerialRunStep, SharedCall, SerialUnqueue, SerialStop,
           SerialClearQueue, SerialClear, SerialDrop, HandleStep
<1> QED
  BY <1>1, <1>2, SerialInvariance, PTL DEF SerialSpec, IsExecutor, Lifecycle!Spec
=============================================================================
