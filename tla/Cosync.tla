------------------------------- MODULE Cosync -------------------------------
(***************************************************************************)
(* The executor: struct Cosync of src/lib.rs on top of the task pool.      *)
(*                                                                         *)
(* Three kinds of actors queue tasks: the owner of the Cosync (directly    *)
(* into the pool), threads with a CosyncQueueHandle, and the task being    *)
(* polled, through its CosyncInput.  The last two share a mutex with the   *)
(* owner: it guards the incoming tasks and the counter task ids are taken  *)
(* from.  A queue call takes the mutex twice, once for the id and once to  *)
(* append the task, so other actors get in between.                        *)
(*                                                                         *)
(* A member of Task is queued at most once: it stands for one future with  *)
(* its id, and Task bounds how many are ever queued.                       *)
(***************************************************************************)
EXTENDS FuturesUnordered

CONSTANTS
    Handle,            \* threads with a queue handle, and Input
    Input,             \* the CosyncInput of the task being polled
    Owner_,            \* the actor that owns the Cosync
    IdSpace            \* how many task ids there are, 2^64 in the code

ASSUME ActorAssumption == Input \in Handle /\ Owner_ \notin Handle

\* The counter wraps around only after more tasks than are ever queued here.
ASSUME IdSpaceAssumption ==
    IsFiniteSet(Task) /\ IdSpace \in Nat \ {0} /\ IdSpace >= Cardinality(Task)

\* None is no id either.
ASSUME NoIdAssumption == None \notin Nat

VARIABLES
    incoming,          \* queued tasks not yet moved to the pool, under the mutex
    counter,           \* the next task id, under the mutex
    id,                \* the id of each task, None before it is queued
    by,                \* who queued each task
    htask,             \* per handle: the task numbered but not yet appended
    cpc,               \* where the owner is
    fresh,             \* whether the next poll_next starts a run
    stopped,           \* tasks whose future stop_running_task replaced
    begun,             \* history: tasks polled at least once
    ran,               \* history: tasks polled in the current or last run
    gone,              \* history: tasks completed, removed or destroyed
    owed               \* history: tasks this run has yet to poll, see Run

poolVars == vars
queueState == <<incoming, counter, id, by, htask>>
ownerState == <<cpc, fresh, stopped>>
runHistory == <<begun, ran, owed>>
allVars == <<poolVars, queueState, ownerState, runHistory, gone>>

OwnerPc == {"out", "move", "poll", "clear", "dropping", "gone"}

IdRange == 0 .. IdSpace - 1

Queued(t) == id[t] # None
Waiting == {incoming[i] : i \in DOMAIN incoming}

\* Handles inside queue(): they keep the mutex and its queue alive.
Inside == {h \in Handle : htask[h] # None}

\* The strong references to the queue and its mutex.
StrongCount == (IF cpc = "gone" THEN 0 ELSE 1) + Cardinality(Inside)

\* The owner holds the mutex while it moves the incoming tasks.
Unlocked == cpc # "move"

CosyncInit ==
    /\ Init
    /\ incoming = <<>> /\ counter = 0
    /\ id = [t \in Task |-> None] /\ by = [t \in Task |-> None]
    /\ htask = [h \in Handle |-> None]
    /\ cpc = "out" /\ fresh = FALSE /\ stopped = {}
    /\ begun = {} /\ ran = {} /\ owed = {} /\ gone = {}

-----------------------------------------------------------------------------
(* Queueing *)

\* Variant: the counter is read and not advanced.
TakeIdOnly(t, actor) ==
    /\ ~Queued(t)
    /\ id' = [id EXCEPT ![t] = counter]
    /\ by' = [by EXCEPT ![t] = actor]
    /\ UNCHANGED counter

\* Variant: the counter grows past the last id.
TakeIdNoWrap(t, actor) ==
    /\ ~Queued(t)
    /\ id' = [id EXCEPT ![t] = counter]
    /\ by' = [by EXCEPT ![t] = actor]
    /\ counter' = counter + 1

\* next_cosync_task_id, with wrapping_add.
TakeId(t, actor) ==
    /\ ~Queued(t)
    /\ id' = [id EXCEPT ![t] = counter]
    /\ by' = [by EXCEPT ![t] = actor]
    /\ counter' = (counter + 1) % IdSpace

\* Cosync::queue: the task goes to the pool at once.
OwnerQueue(t) ==
    /\ cpc = "out"
    /\ TakeId(t, Owner_)
    /\ Push(t)
    /\ UNCHANGED <<incoming, htask, ownerState, runHistory, gone>>

\* A task queues through its input only while it is polled.
MayAct(h) == h = Input => pc = "poll" /\ cur \notin stopped

\* The Weak of a handle upgrades: the Cosync or another call holds the queue.  The
\* upgrade is taken with the first half of queue(): nothing but StrongCount could
\* tell the two apart, and there is an interleaving where they are adjacent.
Upgradable == StrongCount > 0

\* CosyncQueueHandle::queue and CosyncInput::queue, first half.
HandleNumber(h, t) ==
    /\ Unlocked /\ MayAct(h)
    /\ htask[h] = None
    /\ Upgradable
    /\ TakeId(t, h)
    /\ htask' = [htask EXCEPT ![h] = t]
    /\ UNCHANGED <<poolVars, incoming, ownerState, runHistory, gone>>

\* Second half; the last one out of a dropped Cosync destroys the queue.
HandleAppend(h) ==
    /\ Unlocked
    /\ htask[h] # None
    /\ htask' = [htask EXCEPT ![h] = None]
    /\ IF cpc = "gone" /\ Inside = {h}
       THEN incoming' = <<>> /\ gone' = gone \union Waiting \union {htask[h]}
       ELSE incoming' = Append(incoming, htask[h]) /\ UNCHANGED gone
    /\ owed' = IF cpc = "poll" THEN owed \union {htask[h]} ELSE owed
    /\ UNCHANGED <<poolVars, counter, id, by, ownerState, begun, ran>>

\* VecDeque::remove
RemoveAt(i) ==
    /\ incoming' = [j \in 1 .. Len(incoming) - 1 |-> IF j < i THEN incoming[j] ELSE incoming[j + 1]]
    /\ gone' = gone \union {incoming[i]}

\* unqueue_task of the owner, and of a handle: the first task with that id goes.
Remove(t) ==
    \E i \in DOMAIN incoming :
        /\ id[incoming[i]] = id[t]
        /\ \A j \in 1 .. i - 1 : id[incoming[j]] # id[t]
        /\ RemoveAt(i)

OwnerUnqueue(t) ==
    /\ cpc = "out" /\ pc = "idle"
    /\ Remove(t)
    /\ UNCHANGED <<poolVars, counter, id, by, htask, ownerState, runHistory>>

HandleUnqueue(h, t) ==
    /\ Unlocked /\ MayAct(h)
    /\ htask[h] = None
    /\ Upgradable
    /\ Remove(t)
    /\ UNCHANGED <<poolVars, counter, id, by, htask, ownerState, runHistory>>

-----------------------------------------------------------------------------
(* The owner between runs *)

AtRest == cpc = "out" /\ pc = "idle"

\* stop_running_task: the future is replaced by an empty one, nobody is woken.
StopRunning(t) ==
    /\ AtRest
    /\ t \in linked \ stopped
    /\ stopped' = stopped \union {t}
    /\ UNCHANGED <<poolVars, queueState, cpc, fresh, runHistory, gone>>

EmptyQueue ==
    /\ incoming' = <<>>
    /\ gone' = gone \union Waiting

ClearQueue ==
    /\ AtRest
    /\ EmptyQueue
    /\ UNCHANGED <<poolVars, counter, id, by, htask, ownerState, runHistory>>

ClearRunning ==
    /\ cpc = "out"
    /\ Clear
    /\ UNCHANGED <<queueState, ownerState, runHistory, gone>>

\* clear(): the pool first, then the incoming tasks.
ClearAll ==
    /\ cpc = "out"
    /\ Clear
    /\ cpc' = "clear"
    /\ UNCHANGED <<queueState, fresh, stopped, runHistory, gone>>

ClearRest ==
    /\ cpc = "clear" /\ pc = "idle"
    /\ EmptyQueue
    /\ cpc' = "out"
    /\ UNCHANGED <<poolVars, counter, id, by, htask, fresh, stopped, runHistory>>

\* Cosync is dropped: its pool, then its reference to the queue.
DropCosync ==
    /\ cpc = "out"
    /\ Drop
    /\ cpc' = "dropping"
    /\ UNCHANGED <<queueState, fresh, stopped, runHistory, gone>>

DropIncoming ==
    /\ cpc = "dropping" /\ PoolGone
    /\ cpc' = "gone"
    /\ IF Inside = {} THEN EmptyQueue ELSE UNCHANGED <<incoming, gone>>
    /\ UNCHANGED <<poolVars, counter, id, by, htask, fresh, stopped, runHistory>>

-----------------------------------------------------------------------------
(* A run: poll_pool *)

\* The run owes a poll to every task that waits or is in the ready-to-run queue: it is
\* new, or it was woken since its last poll, be it long ago.
Run ==
    /\ AtRest
    /\ cpc' = "move"
    /\ fresh' = TRUE
    /\ ran' = {} /\ owed' = Waiting \union (live \intersect Entries)
    /\ UNCHANGED <<poolVars, queueState, stopped, begun, gone>>

\* Variant: the newest task first.
MoveNewest(t) ==
    /\ cpc = "move"
    /\ incoming # <<>> /\ t = incoming[Len(incoming)]
    /\ Push(t)
    /\ incoming' = SubSeq(incoming, 1, Len(incoming) - 1)
    /\ UNCHANGED <<counter, id, by, htask, ownerState, runHistory, gone>>

\* Variant: the task is pushed and not taken out of the queue.
MoveCopy(t) ==
    /\ cpc = "move"
    /\ incoming # <<>> /\ t = Head(incoming)
    /\ Push(t)
    /\ UNCHANGED <<queueState, ownerState, runHistory, gone>>

\* Variant: the task is taken out of the queue and dropped on the way.
MoveLost(t) ==
    /\ cpc = "move"
    /\ incoming # <<>> /\ t = Head(incoming)
    /\ incoming' = Tail(incoming)
    /\ UNCHANGED <<poolVars, counter, id, by, htask, ownerState, runHistory, gone>>

\* incoming.drain(..) with a push for each, under the mutex.
MoveTask(t) ==
    /\ cpc = "move"
    /\ incoming # <<>> /\ t = Head(incoming)
    /\ Push(t)
    /\ incoming' = Tail(incoming)
    /\ UNCHANGED <<counter, id, by, htask, ownerState, runHistory, gone>>

\* Variant: every turn of the loop opens a new poll cycle.
StartPollFresh ==
    /\ cpc = "move" /\ incoming = <<>>
    /\ PollNext(TRUE)
    /\ cpc' = "poll"
    /\ fresh' = FALSE
    /\ owed' = owed \intersect Reachable
    /\ UNCHANGED <<queueState, stopped, begun, ran, gone>>

\* Then the mutex is released and poll_next is called, with a new poll cycle
\* only the first time.
StartPoll ==
    /\ cpc = "move" /\ incoming = <<>>
    /\ PollNext(fresh)
    /\ cpc' = "poll"
    /\ fresh' = FALSE
    /\ owed' = owed \intersect Reachable
    /\ UNCHANGED <<queueState, stopped, begun, ran, gone>>

\* Variant: the incoming tasks are moved once per run.
PollReturnedOnce ==
    /\ cpc = "poll" /\ pc = "idle"
    /\ cpc' = "out"
    /\ UNCHANGED <<poolVars, queueState, fresh, stopped, runHistory, gone>>

\* poll_next has returned: again if there are new tasks, unless it unwound.
PollReturned ==
    /\ cpc = "poll" /\ pc = "idle"
    /\ cpc' = IF out # "Panic" /\ incoming # <<>> THEN "move" ELSE "out"
    /\ UNCHANGED <<poolVars, queueState, fresh, stopped, runHistory, gone>>

BeginTask(t) ==
    /\ DequeueUnpolled(t)
    /\ begun' = begun \union {t}
    /\ ran' = ran \union {t}
    /\ owed' = owed \ {t}
    /\ UNCHANGED gone

\* The future under poll uses its waker or comes back; the empty future of a
\* stopped task can only complete.
PollFuture ==
    /\ htask[Input] = None
    /\ \/ PollReady
       \/ cur \notin stopped /\ (PollPending \/ PollPanic)
    /\ gone' = gone \union (live \ live')
    /\ UNCHANGED runHistory

UseWaker ==
    /\ htask[Input] = None /\ cur \notin stopped
    /\ (\E w \in Waker : CloneWaker(w)) \/ WakeSelf
    /\ UNCHANGED <<runHistory, gone>>

\* The other steps of poll_next, of clear and of drop.
PoolStep ==
    /\ \/ \E t \in Task : \/ ReleaseOne(t) \/ DrainData(t)
                          \/ DequeueReleased(t) \/ DequeuePolled(t)
       \/ StartDrain \/ DrainEmpty \/ DrainInconsistent \/ DropQueue
       \/ DequeueEmpty \/ DequeueInconsistent \/ Requeue
    /\ gone' = gone \union (live \ live')
    /\ UNCHANGED runHistory

PoolRuns ==
    /\ (\E t \in Task : BeginTask(t)) \/ PollFuture \/ UseWaker \/ PoolStep
    /\ UNCHANGED <<queueState, ownerState>>

WakerThread ==
    /\ \E w \in Waker : Thread(w)
    /\ UNCHANGED <<queueState, ownerState, runHistory, gone>>

-----------------------------------------------------------------------------
OwnerStep ==
    \/ \E t \in Task : OwnerQueue(t) \/ OwnerUnqueue(t) \/ StopRunning(t)
    \/ ClearQueue \/ ClearRunning \/ ClearAll \/ DropCosync
    \/ Run

RunStep ==
    \/ \E t \in Task : MoveTask(t)
    \/ StartPoll \/ PollReturned \/ PoolRuns \/ ClearRest \/ DropIncoming

HandleStep(h) ==
    \/ \E t \in Task : HandleNumber(h, t) \/ HandleUnqueue(h, t)
    \/ HandleAppend(h)

CosyncEnded ==
    /\ Aborted \/ (cpc = "gone" /\ Inside = {} /\ \A w \in Waker : wpc[w] = "free")
    /\ UNCHANGED allVars

CosyncNext ==
    \/ OwnerStep
    \/ RunStep
    \/ \E h \in Handle : HandleStep(h)
    \/ WakerThread
    \/ CosyncEnded

CosyncSpec == CosyncInit /\ [][CosyncNext]_allVars

\* A thread inside wake() goes on; nobody has to call run, and a handle may wait
\* for the mutex for ever.
CosyncFairness == \A w \in Waker : WF_allVars(Waking(w) /\ WakerThread)

CosyncFairSpec == CosyncSpec /\ CosyncFairness

-----------------------------------------------------------------------------
(* Properties *)

CosyncTypeOK ==
    /\ TypeOK
    /\ incoming \in Seq(Task) /\ counter \in IdRange
    /\ id \in [Task -> IdRange \union {None}]
    /\ by \in [Task -> Handle \union {Owner_, None}]
    /\ htask \in [Handle -> Task \union {None}]
    /\ cpc \in OwnerPc /\ fresh \in BOOLEAN /\ stopped \subseteq Task
    /\ begun \subseteq Task /\ ran \subseteq begun /\ owed \subseteq Task /\ gone \subseteq Task

\* No two tasks have one id.
IdsDistinct ==
    \A t, u \in Task : Queued(t) /\ id[t] = id[u] => t = u

\* "a task made later will have a greater identity" (lib.rs:652-653): a call of
\* queue gives out an id above those of all tasks queued before, whoever queued them
\* and whatever became of them, and a task keeps its id for ever, so that unqueue_task
\* and stop_running_task reach the task their caller means.
IdsGrow ==
    [][\A t \in Task :
          IF Queued(t) THEN id'[t] = id[t]
          ELSE Queued(t)' => \A u \in Task : Queued(u) => id[u] < id'[t]]_allVars

\* A queued task is in exactly one place until it is gone: in the hands of the
\* call that queues it, once among the incoming tasks, or in the pool.  So one of
\* unqueue_task and stop_running_task finds it (lib.rs:93-126), and no task is
\* lost or run twice when the two queues are moved under the feet of the handles.
OnePlace ==
    \A t \in Task :
        Cardinality({h \in Handle : htask[h] = t})
        + Cardinality({i \in DOMAIN incoming : incoming[i] = t})
        + (IF t \in live THEN 1 ELSE 0)
        + (IF t \in gone THEN 1 ELSE 0)
        = IF Queued(t) THEN 1 ELSE 0

\* Tasks one actor queued are first polled in the order of their ids: no task is
\* overtaken by a later one of the same actor.  Between actors the order of
\* lib.rs:36-38 does not hold: a task that the owner queues goes to the pool at once, and
\* so overtakes the earlier ones of its handles that wait for the next run.
FifoPerActor ==
    \A t, u \in Task :
        Queued(t) /\ Queued(u) /\ by[t] = by[u] /\ id[t] < id[u] /\ u \in begun
            => t \in begun \union gone

\* A run that reports Ready or Pending has polled every task that was queued, or
\* woken, before it began, and every one queued while it polled, by its own tasks as
\* by other threads (lib.rs:186-187 and 218-222), unless the task was taken back, or
\* was in the queue behind an entry that a waking thread had not linked yet.
RunStartsAll ==
    AtRest /\ out \in {"Ready", "Pending"} => owed \subseteq gone

\* No task that was queued waits for ever for its first poll, if the owner keeps
\* calling run (and its runs return) and the handle that queues it gets its turn: also
\* one that a run passed over because a waking thread had not linked its entry yet.
QueuedIsStarted ==
    ([]<><<Run>>_allVars) =>
        \A t \in Task : []<>(Queued(t) => t \in begun \union gone \union {htask[h] : h \in Inside})

\* The phase of a task, for the specification of what an executor promises.
Phase == [t \in Task |-> IF t \in gone THEN "done"
                         ELSE IF t \in begun THEN "running"
                         ELSE IF Queued(t) THEN "queued" ELSE "new"]

Active == IF pc = "poll" THEN cur ELSE None

Lifecycle == INSTANCE TaskLifecycle
    WITH NoTask <- None, phase <- Phase, polled <- ran, active <- Active

\* The two queues, the poll cycles of the pool and the three kinds of actors
\* together are an executor: a task is polled at most once per run, also when
\* poll_pool calls poll_next again for tasks queued meanwhile (one sleep_ticks tick
\* passes per run, lib.rs:584-588), never before it is queued, and never after it
\* was completed, taken back or destroyed (lib.rs:93-152, 229-262).
IsExecutor == Lifecycle!Spec

\* README.md:93, "Cosync will *always* do work on the first queued task, and then
\* [...] do work on the second task": within a run, tasks are polled in the order
\* in which they were queued.
RunsInQueueOrder ==
    [][\A t \in Task : BeginTask(t) => \A u \in ran : id[u] < id[t]]_allVars

\* lib.rs:499-506, the assertion of CosyncInput::get fails only if the input was
\* moved out of its closure and the Cosync dropped: while a task of the Cosync is
\* polled, the only strong reference to the queue is that of the Cosync.
InputIsUsable ==
    pc = "poll" /\ htask[Input] = None /\ cur \notin stopped => StrongCount = 1
=============================================================================
