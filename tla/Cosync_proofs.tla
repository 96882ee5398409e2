---------------------------- MODULE Cosync_proofs ----------------------------
(***************************************************************************)
(* Every behaviour of a Cosync, seen from its pool, is a behaviour of the  *)
(* pool alone, so that what is proved of the pool holds in every Cosync.   *)
(***************************************************************************)
EXTENDS Cosync, FuturesUnordered_proofs

\* All that the argument needs to know of a Cosync.
FreshIsBoolean == fresh \in BOOLEAN

LEMMA FreshIsFlag == CosyncSpec => []FreshIsBoolean
<1>1. CosyncInit => FreshIsBoolean
  BY DEF CosyncInit, FreshIsBoolean
<1>2. FreshIsBoolean /\ [CosyncNext]_allVars => FreshIsBoolean'
  BY DEF FreshIsBoolean, CosyncNext, OwnerStep, RunStep, HandleStep, WakerThread,
         CosyncEnded, OwnerQueue, OwnerUnqueue, StopRunning, ClearQueue, ClearRunning,
         ClearAll, DropCosync, Run, MoveTask, StartPoll, PollReturned, PoolRuns,
         ClearRest, DropIncoming, HandleNumber, HandleUnqueue, HandleAppend,
         allVars, ownerState
<1> QED
  BY <1>1, <1>2, PTL DEF CosyncSpec

\* The calls of the owner are calls of the pool, or leave it alone.
LEMMA OwnerStepsPool ==
    OwnerStep => Next \/ UNCHANGED vars
<1> SUFFICES ASSUME OwnerStep PROVE Next \/ UNCHANGED vars
  OBVIOUS
<1>1. CASE \E t \in Task : OwnerQueue(t)
  BY <1>1 DEF OwnerQueue, Next, Owner
<1>2. CASE \E t \in Task : OwnerUnqueue(t) \/ StopRunning(t)
  BY <1>2 DEF OwnerUnqueue, StopRunning, poolVars
<1>3. CASE ClearQueue \/ Run
  BY <1>3 DEF ClearQueue, Run, poolVars
<1>4. CASE ClearRunning \/ ClearAll \/ DropCosync
  BY <1>4 DEF ClearRunning, ClearAll, DropCosync, Next, Owner
<1> QED
  BY <1>1, <1>2, <1>3, <1>4 DEF OwnerStep

\* What the pool does while poll_next, clear or drop runs, or a future is polled.
LEMMA PoolRunsPool == PoolRuns => Next
<1> SUFFICES ASSUME PoolRuns PROVE Running
  BY DEF Next
<1>1. CASE \E t \in Task : BeginTask(t)
  BY <1>1 DEF BeginTask, Running
<1>2. CASE PollFuture
  BY <1>2 DEF PollFuture, Running
<1>3. CASE UseWaker
  BY <1>3 DEF UseWaker, Running
<1>4. CASE PoolStep
  BY <1>4 DEF PoolStep, Running
<1> QED
  BY <1>1, <1>2, <1>3, <1>4 DEF PoolRuns

LEMMA RunStepsPool ==
    FreshIsBoolean /\ RunStep => Next \/ UNCHANGED vars
<1> SUFFICES ASSUME FreshIsBoolean, RunStep PROVE Next \/ UNCHANGED vars
  OBVIOUS
<1>1. CASE \E t \in Task : MoveTask(t)
  BY <1>1 DEF MoveTask, Next, Owner
<1>2. CASE StartPoll
  BY <1>2 DEF StartPoll, FreshIsBoolean, Next, Owner
<1>3. CASE PollReturned \/ ClearRest \/ DropIncoming
  BY <1>3 DEF PollReturned, ClearRest, DropIncoming, poolVars
<1>4. CASE PoolRuns
  BY <1>4, PoolRunsPool
<1> QED
  BY <1>1, <1>2, <1>3, <1>4 DEF RunStep

\* The handles never touch the pool.
LEMMA HandleStepsPool == \A h \in Handle : HandleStep(h) => UNCHANGED vars
  BY DEF HandleStep, HandleNumber, HandleUnqueue, HandleAppend, poolVars

\* The pool of a Cosync (lib.rs:45) is only ever used through push, poll_next,
\* clear and its destructor, each call ending before the next one begins: the
\* executor implements the owner the pool's specification assumes.
THEOREM PoolInCosync == CosyncSpec => Spec
<1>1. CosyncInit => Init
  BY DEF CosyncInit
<1>2. FreshIsBoolean /\ [CosyncNext]_allVars => [Next]_vars
  <2> SUFFICES ASSUME FreshIsBoolean, [CosyncNext]_allVars
               PROVE  Next \/ UNCHANGED vars
    OBVIOUS
  <2>1. CASE WakerThread
    BY <2>1 DEF WakerThread, Next
  <2>2. CASE CosyncEnded \/ UNCHANGED allVars
    BY <2>2 DEF CosyncEnded, allVars, poolVars
  <2> QED
    BY <2>1, <2>2, OwnerStepsPool, RunStepsPool, HandleStepsPool DEF CosyncNext
<1> QED
  BY <1>1, <1>2, FreshIsFlag, PTL DEF CosyncSpec, Spec

\* In a Cosync no wake-up is lost, no task is enqueued twice and every reference count is
\* exact, if no thread claims a task while poll_next puts it back.
THEOREM CosyncKeepsWakes ==
    CosyncSpec /\ RaceFree => [](NoLostWake /\ QueuedOnce /\ RefCount)
<1> QED
  BY PoolInCosync, WakesAreKept, TaskQueuedOnce, CountsAreExact, PTL

\* A Cosync whose wakers stay on the thread that runs it (its handles need not), or whose
\* futures hand out at most one wake-up per poll, each use of a waker and of its later
\* clones being one, is such a Cosync.
THEOREM CosyncIsRaceFree ==
    /\ CosyncSpec /\ OneThread => RaceFree
    /\ WakesPerPoll <= 1 => (CosyncSpec => RaceFree)
<1>1. CosyncSpec /\ OneThread => RaceFree
  BY OneThreadIsRaceFree, PTL
<1>2. ASSUME WakesPerPoll <= 1 PROVE CosyncSpec => RaceFree
  <2>1. Spec => RaceFree
    BY <1>2, OneWakeIsRaceFree
  <2> QED
    BY <2>1, PoolInCosync, PTL
<1> QED
  BY <1>1, <1>2

\* On the thread that runs a Cosync neither clear() aborts nor does a run give up because of
\* an enqueue that another thread has not finished.
THEOREM CosyncIsConsistent ==
    CosyncSpec /\ OneThread => [](NoAbortInClear /\ out # "Inconsistent")
<1> QED
  BY PoolInCosync, OneThreadIsConsistent, PTL
==============================================================================
