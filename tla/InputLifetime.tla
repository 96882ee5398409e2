---------------------------- MODULE InputLifetime ----------------------------
(***************************************************************************)
(* What the code of a future meets when it is polled and when it is        *)
(* destroyed: the data pointer of a Cosync, through which CosyncInput::get *)
(* reaches the parameter of the run, the mutex of the incoming queue, and  *)
(* the guard against nested runs (lib.rs, futures/enter.rs).               *)
(*                                                                         *)
(* One thread owns the Cosync.  Its calls destroy futures in many places:  *)
(* at the end of a poll, under a panic, in every clear, in the drop.  The  *)
(* destructor of a future may use its input and its queue handle like its  *)
(* poll.  A destructor catches the panics of the calls it makes.           *)
(*                                                                         *)
(* Queue handles on other threads hold a strong reference to the incoming  *)
(* queue for the time of a call, and may outlive the Cosync by one.        *)
(*                                                                         *)
(* The pool is its TaskList; which of its tasks a cycle polls is the       *)
(* matter of FuturesUnordered, here it is any of them.                     *)
(***************************************************************************)
EXTENDS TaskList

CONSTANT Handle        \* queue handles, each on another thread

VARIABLES
    list,              \* head_all of the pool
    order,             \* the sequence it stands for (history)
    incoming,          \* tasks in the incoming queue
    live,              \* tasks whose future exists
    emptied,           \* tasks stop_running_task gave an empty future
    started,           \* tasks whose future has been polled, and so has its input
    heap,              \* what the data pointer leads to: Nothing, Parameter, Freed
    lent,              \* whether the run that stored it is still on the stack
    entered,           \* the thread-local flag of enter()
    outer,             \* another executor runs on this thread, below this code
    op,                \* the call the owner is in
    cur,               \* the task under poll
    dying,             \* the future under destruction
    removed,           \* the one a future has taken back, destroyed under the mutex
    hpc,               \* where each handle is: out, queue, unqueue, remove, stuck
    htask,             \* the task it queues, or the one it has taken back
    at, left, seek,    \* the iterator, and the task it looks for
    stuck,             \* the thread waits for the mutex it holds
    got,               \* what the last get of the present code led to (history)
    unwound            \* whether the last run ended in a panic (history)

pool == <<list, order>>
tasks == <<incoming, live, emptied, started>>
pointer == <<heap, lent>>
guard == <<entered, outer>>
iterator == <<at, left, seek>>
control == <<op, cur, dying, stuck, got>>
taken == <<removed, hpc, htask>>
vars == <<pool, tasks, pointer, guard, iterator, control, unwound, taken>>

Init ==
    /\ list = EmptyList /\ order = <<>>
    /\ incoming = <<>> /\ live = {} /\ emptied = {} /\ started = {}
    /\ heap = "Nothing" /\ lent = FALSE
    /\ entered = FALSE /\ outer = FALSE
    /\ op = "idle" /\ cur = Null /\ dying = Null
    /\ at = Null /\ left = 0 /\ seek = Null
    /\ stuck = FALSE /\ got = "none" /\ unwound = FALSE
    /\ removed = Null
    /\ hpc = [h \in Handle |-> "out"] /\ htask = [h \in Handle |-> Null]

\* The owner's code goes on: it is in no future and does not wait.
OwnerAt(where) == op = where /\ dying = Null

Link(t) == list' = Linked(list, t) /\ order' = <<t>> \o order
Unlink(t) == list' = Unlinked(list, t) /\ order' = Without(order, t)

\* Variant: clear() clears the queue first.
PhaseSwapped ==
    [clear |-> "incoming", clear_rest |-> "pool", clear_running |-> "pool",
     clear_queue |-> "incoming", drop |-> "pool", drop_rest |-> "incoming"]

\* What each call, or part of a call, that clears something clears, ...
Phase ==
    [clear |-> "pool", clear_rest |-> "incoming", clear_running |-> "pool",
     clear_queue |-> "incoming", drop |-> "pool", drop_rest |-> "incoming"]

\* ... and what comes after it.
Then ==
    [clear |-> "clear_rest", clear_rest |-> "idle", clear_running |-> "idle",
     clear_queue |-> "idle", drop |-> "drop_rest", drop_rest |-> "dropped"]

Clearing(what) == op \in DOMAIN Phase /\ Phase[op] = what /\ dying = Null

\* Variant: the guard of poll_pool is alive while tasks are polled.
LockedInCycle ==
    \/ op \in {"drain", "cycle", "task", "unqueue"} \/ removed # Null
    \/ op \in DOMAIN Phase \ {"drop_rest"} /\ Phase[op] = "incoming"

\* Where the owner's thread holds the mutex.
Locked ==
    \/ op \in {"drain", "unqueue"} \/ removed # Null
    \/ op \in DOMAIN Phase \ {"drop_rest"} /\ Phase[op] = "incoming"

\* A handle holds it while it destroys the future it has taken back.
HandleHolds == \E h \in Handle : hpc[h] \in {"remove", "stuck"}

\* The handles that have a strong reference to the queue, ...
Inside == {h \in Handle : hpc[h] # "out"}

\* ... and the owner has one until its drop lets go of it.
Upgradable == op \notin {"drop_rest", "dropped"} \/ Inside # {}

\* strong_count is 1, seen from a future of the owner.
OneReference == op \notin {"drop_rest", "dropped"} /\ Inside = {}

\* The owner's thread is in poll_pool, or a panic is passing through it.
Running == op \in {"drain", "cycle", "task", "unwind"}

\* Destroy the future of t; its destructor runs next, unless it is the empty one.
Destroy(t) ==
    IF t \in emptied
    THEN live' = live \ {t} /\ emptied' = emptied \ {t} /\ UNCHANGED dying
    ELSE dying' = t /\ UNCHANGED <<live, emptied>>

-----------------------------------------------------------------------------
(* run and run_blocking *)

\* Variant: the guard is taken down although it is another run's.
RunExits ==
    /\ OwnerAt("idle")
    /\ ~entered => ~HandleHolds
    /\ heap' = "Parameter"
    /\ lent' = ~entered
    /\ entered' = ~entered
    /\ IF entered
       THEN unwound' = TRUE /\ UNCHANGED op
       ELSE op' = "drain" /\ UNCHANGED unwound
    /\ UNCHANGED <<pool, tasks, outer, iterator, cur, dying, stuck, got, taken>>

\* The pointer is stored first; then enter() may refuse the run, which panics.  Else
\* poll_pool takes the mutex; nobody looks at the pointer or the flag before it has.
Run ==
    /\ OwnerAt("idle")
    /\ ~entered => ~HandleHolds
    /\ heap' = "Parameter"
    /\ lent' = ~entered
    /\ IF entered
       THEN unwound' = TRUE /\ UNCHANGED <<op, guard>>
       ELSE op' = "drain" /\ entered' = TRUE /\ UNCHANGED <<outer, unwound>>
    /\ UNCHANGED <<pool, tasks, iterator, cur, dying, stuck, got, taken>>

\* poll_pool moves the incoming tasks to the pool, under the mutex.
Drain ==
    /\ OwnerAt("drain")
    /\ IF incoming = <<>>
       THEN op' = "cycle" /\ UNCHANGED <<pool, incoming>>
       ELSE /\ Link(Head(incoming))
            /\ incoming' = Tail(incoming)
            /\ UNCHANGED op
    /\ UNCHANGED <<live, emptied, started, pointer, guard, iterator, cur, dying, stuck, got, unwound, taken>>

\* poll_next meets a task it has polled already and puts it back.
PutBack(t) ==
    /\ OwnerAt("cycle")
    /\ Member(order, t)
    /\ list' = Linked(Unlinked(list, t), t)
    /\ order' = <<t>> \o Without(order, t)
    /\ UNCHANGED <<tasks, pointer, guard, iterator, control, unwound, taken>>

PollTask(t) ==
    /\ OwnerAt("cycle")
    /\ Member(order, t)
    /\ Unlink(t)
    /\ op' = "task" /\ cur' = t
    /\ started' = started \union ({t} \ emptied)
    /\ UNCHANGED <<incoming, live, emptied, pointer, guard, iterator, dying, stuck, got, unwound, taken>>

\* The code of the task under poll goes on.
InPoll == op = "task" /\ removed = Null /\ ~stuck

PollPending ==
    /\ InPoll /\ cur \notin emptied
    /\ Link(cur)
    /\ op' = "cycle" /\ cur' = Null /\ got' = "none"
    /\ UNCHANGED <<tasks, pointer, guard, iterator, dying, stuck, unwound, taken>>

\* Ready, or a panic: the Bomb destroys the future.
PollEnds(next) ==
    /\ InPoll
    /\ Destroy(cur)
    /\ op' = next /\ cur' = Null /\ got' = "none"
    /\ UNCHANGED <<pool, incoming, started, pointer, guard, iterator, stuck, unwound, taken>>

PollReady == PollEnds("cycle")
PollPanic == cur \notin emptied /\ PollEnds("unwind")

\* poll_pool goes around if tasks came in, and so does run_blocking if some wait.
PollAgain ==
    /\ OwnerAt("cycle") /\ ~HandleHolds
    /\ op' = "drain"
    /\ UNCHANGED <<pool, tasks, pointer, guard, iterator, cur, dying, stuck, got, unwound, taken>>

\* Variant: the pointer stays when the run is over.
RunReturnsKeeping ==
    /\ OwnerAt("cycle")
    /\ incoming = <<>> /\ ~HandleHolds
    /\ op' = "idle"
    /\ lent' = FALSE
    /\ entered' = FALSE
    /\ unwound' = FALSE
    /\ UNCHANGED <<pool, tasks, heap, outer, iterator, cur, dying, stuck, got, taken>>

\* poll_pool has looked into the queue, under the mutex, and found nothing; the
\* pointer is reset at the end of the run.
RunReturns ==
    /\ OwnerAt("cycle")
    /\ incoming = <<>> /\ ~HandleHolds
    /\ op' = "idle"
    /\ heap' = "Nothing" /\ lent' = FALSE
    /\ entered' = FALSE
    /\ unwound' = FALSE
    /\ UNCHANGED <<pool, tasks, outer, iterator, cur, dying, stuck, got, taken>>

\* The panic leaves the run: the guard is dropped, the pointer is not reset.
RunUnwinds ==
    /\ OwnerAt("unwind")
    /\ op' = "idle"
    /\ lent' = FALSE
    /\ entered' = FALSE
    /\ unwound' = TRUE
    /\ UNCHANGED <<pool, tasks, heap, outer, iterator, cur, dying, stuck, got, taken>>

\* Another executor of this thread starts or ends a run; in between, the code of
\* its tasks makes the calls of this owner.
OuterRun ==
    /\ OwnerAt("idle")
    /\ entered = outer
    /\ entered' = ~entered /\ outer' = ~outer
    /\ UNCHANGED <<pool, tasks, pointer, iterator, control, unwound, taken>>

-----------------------------------------------------------------------------
(* The other calls of the owner *)

\* A new task, or the next future at an address that is free again.
New(t) == t \notin live /\ live' = live \union {t}

Queue(t) ==
    /\ OwnerAt("idle")
    /\ New(t)
    /\ Link(t)
    /\ UNCHANGED <<incoming, emptied, started, pointer, guard, iterator, control, unwound, taken>>

Call(next) ==
    /\ OwnerAt("idle")
    /\ op' = next
    /\ UNCHANGED <<pool, tasks, pointer, guard, iterator, cur, dying, stuck, got, unwound, taken>>

Clear == Call("clear")
ClearRunning == Call("clear_running")
ClearQueue == ~HandleHolds /\ Call("clear_queue")

\* drop() frees the data pointer; then the fields go: the pool, and the queue.
Drop ==
    /\ OwnerAt("idle")
    /\ op' = "drop" /\ heap' = "Freed"
    /\ UNCHANGED <<pool, tasks, lent, guard, iterator, cur, dying, stuck, got, unwound, taken>>

\* clear_head_all: the first task of the list is unlinked and released.
ClearHead ==
    /\ Clearing("pool")
    /\ list.head # Null
    /\ Unlink(list.head)
    /\ Destroy(list.head)
    /\ UNCHANGED <<incoming, started, pointer, guard, iterator, op, cur, stuck, got, unwound, taken>>

\* The incoming futures are destroyed, under the mutex unless the queue is dropped.
ClearIncoming ==
    /\ Clearing("incoming")
    /\ incoming # <<>>
    /\ Destroy(Head(incoming))
    /\ incoming' = Tail(incoming)
    /\ UNCHANGED <<pool, started, pointer, guard, iterator, op, cur, stuck, got, unwound, taken>>

\* clear() takes the mutex next; the drop leaves the queue to the handles that are
\* inside, if there are any.
Cleared ==
    /\ \/ Clearing("pool") /\ list.head = Null
       \/ Clearing("incoming") /\ incoming = <<>>
    /\ Then[op] = "clear_rest" => ~HandleHolds
    /\ op' = IF op = "drop" /\ Inside # {} THEN "dropped" ELSE Then[op]
    /\ UNCHANGED <<pool, tasks, pointer, guard, iterator, cur, dying, stuck, got, unwound, taken>>

\* unqueue_task destroys the future it finds before it lets go of the mutex.
Unqueue(t) ==
    /\ OwnerAt("idle") /\ ~HandleHolds
    /\ Member(incoming, t)
    /\ incoming' = Without(incoming, t)
    /\ Destroy(t)
    /\ op' = "unqueue"
    /\ UNCHANGED <<pool, started, pointer, guard, iterator, cur, stuck, got, unwound, taken>>

\* is_running and stop_running_task walk the list.
Iterate(next, t) ==
    /\ OwnerAt("idle")
    /\ op' = next
    /\ at' = list.head /\ left' = Count(list) /\ seek' = t
    /\ UNCHANGED <<pool, tasks, pointer, guard, cur, dying, stuck, got, unwound, taken>>

IterNext ==
    /\ op \in {"find", "stop"} /\ dying = Null
    /\ at # Null /\ at # seek
    /\ at' = list.next[at] /\ left' = left - 1
    /\ UNCHANGED <<pool, tasks, pointer, guard, seek, control, unwound, taken>>

\* The iterator ends, or has found the task; stop_running_task replaces its
\* future by an empty one.
IterEnds ==
    /\ op \in {"find", "stop"} /\ dying = Null
    /\ at \in {Null, seek}
    /\ op' = "idle" /\ at' = Null /\ left' = 0 /\ seek' = Null
    /\ IF op = "stop" /\ at # Null
       THEN /\ dying' = IF at \in emptied THEN Null ELSE at
            /\ emptied' = emptied \union {at}
       ELSE UNCHANGED <<dying, emptied>>
    /\ UNCHANGED <<pool, incoming, live, started, pointer, guard, cur, stuck, got, unwound, taken>>

-----------------------------------------------------------------------------
(* The code of a future: under poll, or its destructor *)

InFuture == ~stuck /\ (dying # Null \/ (op = "task" /\ cur \notin emptied))

\* CosyncInput::get, once the input has been handed to the task (lib.rs:466-468):
\* refused if the queue is gone or a handle is inside (lib.rs:506), or no run has
\* stored a pointer.  A future that was taken back has no input.
Get ==
    /\ InFuture /\ removed = Null
    /\ dying # Null => dying \in started
    /\ got' = CASE ~OneReference \/ heap = "Nothing" -> "refused"
                [] OTHER -> IF heap = "Freed" THEN "freed"
                            ELSE IF lent THEN "parameter" ELSE "stale"
    /\ UNCHANGED <<pool, tasks, pointer, guard, iterator, op, cur, dying, stuck, unwound, taken>>

\* What a future does under the mutex: its thread waits for ever if it holds it.
UnderMutex(A) ==
    /\ InFuture
    /\ Upgradable
    /\ IF Locked
       THEN stuck' = TRUE /\ UNCHANGED <<incoming, live, removed>>
       ELSE ~HandleHolds /\ A /\ UNCHANGED stuck
    /\ UNCHANGED <<pool, emptied, started, pointer, guard, iterator, op, cur, dying, got, unwound, hpc, htask>>

\* CosyncInput::queue, or the queue of a handle the future owns, on the owner's
\* thread; refused when the queue is gone.
QueueFromFuture(t) ==
    UnderMutex(New(t) /\ incoming' = Append(incoming, t) /\ UNCHANGED removed)

\* unqueue_task of a handle the future owns: it destroys the future it finds before
\* it lets go of the mutex.
UnqueueFromFuture(t) ==
    UnderMutex(Member(incoming, t) /\ incoming' = Without(incoming, t) /\ removed' = t /\ UNCHANGED live)

\* The destructor of that future is over.
RemovedDestroyed ==
    /\ removed # Null /\ ~stuck
    /\ live' = live \ {removed} /\ removed' = Null
    /\ UNCHANGED <<pool, incoming, emptied, started, pointer, guard, iterator, control, unwound, hpc, htask>>

\* The destructor is over; the task of a stopped one lives on.
Destroyed ==
    /\ dying # Null /\ removed = Null /\ ~stuck
    /\ live' = IF dying \in emptied THEN live ELSE live \ {dying}
    /\ started' = started \ {dying}
    /\ dying' = Null /\ got' = "none"
    /\ UNCHANGED <<pool, incoming, emptied, pointer, guard, iterator, op, cur, stuck, unwound, taken>>

UnqueueReturns ==
    /\ OwnerAt("unqueue")
    /\ op' = "idle"
    /\ UNCHANGED <<pool, tasks, pointer, guard, iterator, cur, dying, stuck, got, unwound, taken>>

-----------------------------------------------------------------------------
(* The queue handles of other threads *)

MutexFree == ~Locked /\ ~HandleHolds

\* The handle is at one place of a call, with a task or without.
Goes(h, place, t) ==
    /\ hpc' = [hpc EXCEPT ![h] = place]
    /\ htask' = [htask EXCEPT ![h] = t]
    /\ UNCHANGED <<pool, emptied, started, pointer, guard, iterator, control, unwound, removed>>

\* It upgrades its reference.
HandleQueues(h, t) ==
    /\ hpc[h] = "out" /\ Upgradable
    /\ New(t)
    /\ Goes(h, "queue", t)
    /\ UNCHANGED incoming

HandleUnqueues(h) ==
    /\ hpc[h] = "out" /\ Upgradable
    /\ Goes(h, "unqueue", Null)
    /\ UNCHANGED <<incoming, live>>

\* Variant: what the last reference leaves is not destroyed.
LeavesKeeping(h, queue, alive) ==
    /\ Goes(h, "out", Null)
    /\ incoming' = queue /\ live' = alive

\* It lets go of its reference, and leaves the queue and the live futures so; the
\* last reference destroys what still waits.  No destructor gets at the queue then.
Leaves(h, queue, alive) ==
    /\ Goes(h, "out", Null)
    /\ IF op = "dropped" /\ Inside = {h}
       THEN incoming' = <<>> /\ live' = {t \in alive : ~Member(queue, t)}
       ELSE incoming' = queue /\ live' = alive

HandleAppends(h) ==
    /\ hpc[h] = "queue" /\ MutexFree
    /\ Leaves(h, Append(incoming, htask[h]), live)

\* unqueue_task finds no task of the id it was given, ...
HandleMisses(h) ==
    /\ hpc[h] = "unqueue" /\ MutexFree
    /\ Leaves(h, incoming, live)

\* ... or takes it out and destroys its future under the mutex.
HandleFinds(h, t) ==
    /\ hpc[h] = "unqueue" /\ MutexFree
    /\ Member(incoming, t)
    /\ incoming' = Without(incoming, t)
    /\ Goes(h, "remove", t)
    /\ UNCHANGED live

\* That destructor uses a queue handle of its own, and waits for ever, ...
HandleStuck(h) ==
    /\ hpc[h] = "remove"
    /\ Goes(h, "stuck", htask[h])
    /\ UNCHANGED <<incoming, live>>

\* ... or it ends.
HandleRemoved(h) ==
    /\ hpc[h] = "remove"
    /\ Leaves(h, incoming, live \ {htask[h]})

HandleStep(h) ==
    \/ HandleUnqueues(h) \/ HandleAppends(h) \/ HandleMisses(h)
    \/ HandleStuck(h) \/ HandleRemoved(h)
    \/ \E t \in Task : HandleQueues(h, t) \/ HandleFinds(h, t)

\* The program may stop when the Cosync is gone, or waits for ever.
Ended ==
    /\ stuck \/ op = "dropped" \/ \E h \in Handle : hpc[h] = "stuck"
    /\ UNCHANGED vars

Next ==
    \/ Run \/ Drain \/ PollPending \/ PollReady \/ PollPanic \/ PollAgain \/ RunReturns \/ RunUnwinds
    \/ OuterRun
    \/ Clear \/ ClearRunning \/ ClearQueue \/ Drop
    \/ ClearHead \/ ClearIncoming \/ Cleared
    \/ UnqueueReturns \/ IterNext \/ IterEnds
    \/ Get \/ Destroyed \/ RemovedDestroyed
    \/ \E t \in Task :
          \/ PutBack(t) \/ PollTask(t)
          \/ Queue(t) \/ Unqueue(t) \/ Iterate("find", t) \/ Iterate("stop", t)
          \/ QueueFromFuture(t) \/ UnqueueFromFuture(t)
    \/ \E h \in Handle : HandleStep(h)
    \/ Ended

Spec == Init /\ [][Next]_vars

-----------------------------------------------------------------------------
(* Properties *)

\* FuturesUnordered::link and unlink: whatever the calls, the pointers of the list
\* are those of a sequence without repetitions, its first task knows the length,
\* and a task that is released is marked as outside (the debug assertions of
\* futures_unordered.rs:229-232 and 268).
ListIsSound == Represents(list, order) /\ Distinct(order)

\* The iterators (iter.rs:32-49, 75-91) never run past the list, their count of
\* what is left is exact, and they have not missed the task they look for.
IterIsExact ==
    op \in {"find", "stop"} =>
        /\ left = (IF at = Null THEN 0 ELSE Len(order) - Position(order, at) + 1)
        /\ Member(order, seek) =>
              at # Null /\ Position(order, at) <= Position(order, seek)

\* lib.rs:472-474, "we guarantee with a kill counter that the main `.get` of
\* CosyncInput never dereferences invalid data", and lib.rs:508-509, "we can always
\* dereference this data": what get returns is the parameter of the run.  Not so in
\* a destructor that runs in the drop of the Cosync, after line 272, or when the
\* last run panicked, so that line 426 was not reached.
GetReadsParameter == got \in {"none", "parameter", "refused"}

\* What does hold of get (lib.rs:402-428, 506-511): in a run, also in destructors at
\* the end of a poll and under a panic, it reads the parameter of this run or is
\* refused; outside, after a run that returned and before the drop, destructors in
\* clears and in stop_running_task are refused, whatever runs there were before.
GetMeetsTheRun ==
    /\ Running => got \in {"none", "parameter", "refused"}
    /\ ~Running /\ ~unwound /\ op # "drop" => got \in {"none", "refused"}

\* enter.rs: a run does not start inside the run of another executor of its
\* thread, also after another attempt has been refused there.
NoNestedRun == outer => ~Running

\* lib.rs:146, clear(): when it returns nothing is left, although destructors of
\* running tasks may have queued others meanwhile.
ClearLeavesNothing ==
    [][op = "clear_rest" /\ op' # op => order = <<>> /\ incoming = <<>>]_vars

\* The owner's thread waits for its own mutex only in the destructor of a future
\* that clear_queue, clear or unqueue_task destroys under it, be it the owner's
\* unqueue_task (lib.rs:99-107) or that of a handle some future uses (lib.rs:345-355):
\* never in a poll, or under another destructor, that does not take tasks back.
WaitsOnlyUnderRemoval ==
    stuck => \/ removed # Null
             \/ dying # Null /\ op \in {"clear_queue", "clear_rest", "unqueue"}

\* The drop of a Cosync destroys every future, also those queued during it, when
\* the last handle that was in a call at the drop has left it (lib.rs:333, 346).
NothingLeaks == op = "dropped" /\ Inside = {} => live = {}
=============================================================================
