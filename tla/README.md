# A verification of Cosync

Cosync is a single-threaded executor: a program queues tasks (futures over a
shared `&mut T`), and calls `run` once per tick or `run_blocking` to drive them.
Tasks may be queued from other threads and woken by other threads, so that the
executor's data structures are shared although tasks never run in parallel.
This directory holds TLA+ models of it, the TLC configurations that check them,
and proofs of what they satisfy for every number of tasks and threads.

Line numbers refer to `src/src/`: `lib.rs`, `serial.rs` and, under `futures/`,
`futures_unordered.rs` (FU), `task.rs`, `ready_to_run_queue.rs` (RQ),
`waker_ref.rs`, `atomic_waker.rs`, `iter.rs`, `enter.rs`.

## The system

| Component | State | Operations | Talks to |
|---|---|---|---|
| Executor `Cosync` (lib.rs) | pool, `Arc` of the incoming queue, data pointer | `queue`, `unqueue_task`, `stop_running_task`, `clear*`, `run`, `run_blocking`, drop | calls the pool; takes the queue's mutex |
| Incoming queue, handles and inputs (lib.rs) | under a mutex: queued tasks, id counter; handles hold a `Weak` | `CosyncQueueHandle::queue`, `unqueue_task`, `CosyncInput::queue`, `get` | any thread, and the task under poll, through the mutex |
| `SerialCosync` (serial.rs) | a `Cosync` | the same, one task at a time | its own `poll_pool` over pool and queue |
| Pool `FuturesUnordered` (FU) | task list, poll counter, ready-to-run queue | `push`, `poll_next`, `clear`, drop | polls futures; consumer of the ready-to-run queue |
| Tasks (task.rs, waker_ref.rs) | per task: future, `queued` flag, `last_polled`, strong count | clone, wake and drop of its waker; `release_task` | any thread: sets the flag and enqueues |
| Ready-to-run queue (RQ) | intrusive MPSC list: `head`, `tail`, a stub node | `enqueue` (any thread), `dequeue` (pool) | shared without locks |
| `AtomicWaker`, `ThreadNotify` (atomic_waker.rs, lib.rs:358-400, 684-715) | registered waker, `unparked` flag, park token | `register`, `wake`; park and unpark | waking threads and `run_blocking` |
| Data pointer (lib.rs:47, 358-428) | pointer to the parameter of the run | set and reset by `run`, read by `get`, freed by drop | polls and destructors of futures, through their input |
| Nested-run guard (enter.rs) | a thread-local flag | `enter`, the drop of `Enter` | `run_blocking` and `run` of every executor of the thread |
| Task list and iterators (FU:117-128, 264-338; iter.rs) | `head_all`, per task `next`, `prev` and `len` | `link`, `unlink`, `len`, `iter_pin_mut` | every call that adds, polls, clears or looks for tasks |
| Examples | | | |

What makes it hard:

* a wake-up is several atomic accesses (upgrade of a weak pointer, swap of the
  flag, swap of `head`, store of the link, drops), and `poll_next`, `clear` and
  drop may come between any two of them;
* one flag, `queued`, decides both who enqueues a task and, at the end of a
  future, who owns the last reference to it;
* `poll_next` ends a cycle by recognising the first task that was pending, and
  the order of the queue, so also its termination, hangs on that;
* a queue call takes its mutex twice, and the second half may come after a clear
  or after the drop of the executor;
* a future may panic in the middle of a poll, and the line that resets the data
  pointer is then skipped;
* a future's destructor is code like its poll: it runs in the middle of a clear, of
  the drop, or under the mutex, and may use the executor from there;
* `head_all` keeps its length in its first task only, so every `unlink` must find
  the task that is first afterwards;
* a thread may be suspended for long inside a wake-up, which leaves the queue
  unreadable from that entry on.

What has to be right: a task that is woken is polled (no lost wake-up); a task is
in the intrusive queue at most once; a task's memory is freed exactly when nobody
refers to it; a queued task is started once per run at most, in the order of the
actor that queued it, and neither lost nor duplicated when it changes queues; a
run returns; a `SerialCosync` has one task at a time; `get` reads the parameter of
the run it is called in; nothing waits for the next run when `clear` returns, and
every future is destroyed once the executor and the calls of its handles are over.
`PROJECT.json` lists the hazards with their lines.

## The modules

    ReadyToRunQueue  --implements-->  MPSCQueue
          ^ EXTENDS                       ^ EXTENDS
    ReadyToRunQueue_proofs         FuturesUnordered  <-- FuturesUnordered_proofs
                                          ^ EXTENDS
    TaskLifecycle  <--implements--      Cosync       <-- Cosync_proofs
                                          ^                    ^ EXTENDS
                                          |            CosyncTasks_proofs
                                          | EXTENDS            ^ EXTENDS
    TaskLifecycle  <--implements--   SerialCosync    <-- SerialCosync_proofs

    BlockingRun  --EXTENDS-->  MPSCQueue
          ^ EXTENDS
    BlockingRun_proofs

    InputLifetime  --EXTENDS-->  TaskList        <-- TaskList_proofs
          ^                                                ^ EXTENDS
          +--------------------------------------  InputLifetime_proofs

The `MC...` modules name the small sets TLC uses. In each module the definitions
marked "Variant" are the code with a plausible mistake in it; each property is
broken by one of them, which shows that it depends on the code.

**MPSCQueue** is the contract of the ready-to-run queue. `ready` is the sequence
of entries in the order of their swaps of `head`; `unlinked` holds those whose
predecessor does not point to them yet. `SwapHead` and `LinkPrev` are the two
steps of `enqueue` on another thread; the consumer's own `Enqueue` is one step, as
it comes to its next dequeue only afterwards. `DequeueData`, `SeesEmpty` and
`SeesInconsistent` say when each answer of `dequeue` is possible. Note that
Empty is possible although the queue has entries, when the oldest is unlinked.

**ReadyToRunQueue** is `enqueue` and `dequeue` (RQ:35-89), one access to a shared
pointer per step, with nodes that are used again and the stub that goes through
the queue like any node. The history variable `order` records the nodes from `tail`
on, in the order of their swaps, and `PointersFollow` says that the pointers agree
with it: each node points to the next one, or to none while the thread that swapped
the next one in holds it in `prev`. The refinement mapping is `order` without the
stub; `IsMPSCQueue` is the abstract specification under that mapping.
The linearization point of Data is the store to `tail`. Inconsistent may be
answered when the entry in question has been linked since: the history variable
`half` remembers whether the queue was inconsistent at some time of the call,
and this is why the pool's model, in which a dequeue is one step, loses nothing.

**FuturesUnordered** is the pool with its tasks: `linked` is the list head_all,
`live` the tasks whose `future` is Some, `queued` the flags, `arc` the strong
counts, `pc` and `cur` the place in `poll_next` (`clear`, drop) and the task it
has unlinked. A waker clone is a slot of `Waker` that goes through `wpc`: held,
upgraded (FU's queue kept alive), claimed (flag set, not enqueued), linking,
leaving. A slot wakes once. A waker can do more (waker_ref.rs:58-95: it can be cloned
again, or woken by reference and kept), and is then one slot, and one of the wake-ups
its poll hands out, for each use. One operation of the code is one action, or one per place where another
thread can see the difference:

| Code | Actions |
|---|---|
| `push`, FU:136 | `Push` |
| `poll_next`, FU:379, after `increment_counter` or not | `PollNext(fresh)` |
| a turn of its loop, FU:384-531 | `DequeueEmpty`, `DequeueInconsistent`, `DequeueReleased`, `DequeuePolled` + `Requeue`, `DequeueUnpolled` |
| the poll of a future | `CloneWaker`, `WakeSelf`, then `PollPending`, `PollReady` or `PollPanic` (the Bomb) |
| `release_task`, FU:224 | `ReleaseTask`, part of its callers |
| `clear`, FU:544; drop, FU:560; RQ:105-129 | `Clear` or `Drop`, `ReleaseOne`, `StartDrain`, `DrainData`, `DrainEmpty`, `DrainInconsistent`, `DropQueue` |
| `wake`, task.rs:51-79 | `WakeUpgrade` or `WakeTooLate`; `WakeIgnored` or `WakeClaim`, `WakeSwap`, `WakeLink`; `WakeDone` |

`DequeuePolled` and `Requeue` are apart because the flag is down in between (FU:443
to 448) and a waking thread can see it. A poll counter is only ever compared with
the current one, so `polled` keeps the tasks polled since it was incremented. An
address is a member of `Task`, used again once freed, so comparisons of addresses
(FU:455) mean in the model what they mean in the code.

**Cosync** adds the incoming tasks, the id counter, the calls of the owner, the
handles and the loop of `poll_pool`. `cpc` is the place of the owner; `move` means
that it holds the mutex. `CosyncQueueHandle::queue` is `HandleNumber` and
`HandleAppend`, since the mutex is released between the id and the append; the
member `Input` of `Handle` is the `CosyncInput` of the task under poll and acts
only while one is polled. A member of `Task` is queued once and so stands for one
future. `PollFuture` restricts a stopped task, whose future was replaced by an
empty one, to completing. What destructors do is the matter of `InputLifetime`.

**TaskLifecycle** is what an executor promises about a task, with no queue, pool or
cycle in it: a task is new, queued, running (polled before) or done; one task is
polled at a time; a poll needs a task that is queued and not done and has not been
polled in this run. `Cosync` and `SerialCosync` both implement it. The mapping reads
the phase of a task off its id and the histories `begun` and `gone`; `ran`, the tasks
polled since the run began, is mapped to `polled`, although the pool knows only its
own cycle, and a run calls `poll_next` many times. Moving a task from one queue to
the other, putting it back and every step of a waker are stutters.

**SerialCosync** has its own next-state relation over the same state:
`SerialRun`, `PollAgain`, `NextTask`, `SerialReturn` are `poll_pool`
(serial.rs:126-150); the owner queues as the handle `Mine`. Its `run_blocking` is not
in it: the parking around a `poll_pool` is modelled for that of `Cosync` only.

**TaskList** is `head_all`, as a record of pointers: `Linked` and `Unlinked` are
`link` and `unlink`, `Count` is `len`. `Represents` says what a list has to look like
to stand for a sequence of tasks.

**InputLifetime** is the owner's thread as the code of futures sees it. Every call of
a `Cosync` is taken apart at the places where a future is destroyed: `dying` is the
future whose destructor runs, `op` the call around it. Inside a poll or a destructor
the code may `Get` the parameter, queue a task (`QueueFromFuture`) or take one back
with a handle it owns (`UnqueueFromFuture`, then `removed` is the future that is
destroyed under the mutex); the mutex may be held by its own thread (`Locked`; then it
is `stuck`). The handles of other threads take their calls apart in the same way:
`hpc` is the place of each, `htask` the task it queues or has taken back. Between the
upgrade of its weak reference and its return a handle keeps the queue alive
(`Inside`), so the drop may leave the queue and its futures to the last handle
(`Leaves`), and `get` is refused. While a handle destroys a future it holds the mutex
(`HandleHolds`), and when the destructor of this future uses a handle itself, it does so
for ever (`HandleStuck`); an owner that then waits for this thread makes no more steps,
but is not `stuck`, which is about its own doing.
`heap` is what the data pointer leads to, `lent` whether the run
that stored it is on the stack still; `entered` is the flag of `enter`, which another
executor of the thread may have set (`OuterRun`).

| Code | Actions |
|---|---|
| `run` and `run_blocking`, lib.rs:358-428 | `Run`, `Drain`, `PollAgain`, `RunReturns`; `RunUnwinds` after a panic |
| the list in `poll_next`, FU:437-531 | `PollTask`, `PutBack`, `PollPending`, `PollReady`, `PollPanic` |
| `clear_running`, `clear_queue`, `clear`, drop, lib.rs:136-152, 267-275 | `ClearRunning`, `ClearQueue`, `Clear`, `Drop`, which start; `ClearHead`, `ClearIncoming`, one future each; `Cleared`, the next part (`Phase`, `Then`) |
| `unqueue_task`, lib.rs:93-107 | `Unqueue`, `UnqueueReturns` |
| `is_running`, `stop_running_task`, iter.rs:29-49 | `Iterate`, `IterNext`, `IterEnds` |
| the code of a future, its destructor | `Get`, `QueueFromFuture`, `UnqueueFromFuture`, `RemovedDestroyed`; `Destroyed` at its end |
| `queue` of a handle, lib.rs:328-334, 430-449 | `HandleQueues`, `HandleAppends` |
| `unqueue_task` of a handle, lib.rs:345-355 | `HandleUnqueues`; `HandleMisses`, or `HandleFinds` and `HandleRemoved` or `HandleStuck` |

Simplifications: a destructor catches the panics of its own calls, as one that does not
would abort the process in half of these places. A cycle may poll any task of the list,
since which ones it polls is the matter of `FuturesUnordered`. The id that a handle takes
before it appends is the matter of `Cosync`. The destructor of a future that a handle of
another thread has taken back either ends or waits for ever (`HandleStuck`), as every
use of the queue in it does; those that the last handle destroys find the queue gone.

**BlockingRun** is how `run_blocking` sleeps. `state` and `cell` are the
`AtomicWaker`, `unparked` and `token` the `ThreadNotify` and the token of
`thread::park`. The executor (`epc`) registers its waker, runs the loop of
`poll_next` and parks; a thread (`wpc`) claims and enqueues a task, takes the
waker out and notifies. Every atomic access of `register`, `take` and
`ThreadNotify::wake_by_ref` is an action. The future under poll wakes as the
member `Self` of `Thread`; it may also consume the token (`StealToken`), which is
what the comment at lib.rs:687-691 guards against, and `park` may return for no
reason. `incoming` is the incoming queue, in which the future under poll
(`QueueFromFuture`) and handles of other threads (`QueueFromHandle`) leave tasks; the
history `inside` has the former until their first poll. `AddIncoming`, `PollPool` and `LookForNew` are the
loop of `poll_pool`. Nothing of this wakes the thread: a task that a handle queues
after `LookForNew`, or one that `stop_running_task` has given an empty future, waits
until something else does. The loop of `poll_next` is that of `FuturesUnordered` without panics,
reference counts and the putting back in two steps: in `BlockingRun` a claim in
the window FU:443-448 is left out, as it is the double enqueue shown there.

## What is checked

| Run | Bounds | Properties | Result |
|---|---|---|---|
| `queue` | 4 nodes, 3 producers | `TypeOK`, `PointersFollow`, `LinksBehindLiveNode`, `IsMPSCQueue`, `AnswersAreRight` | hold |
| `fu_wakers` | 2 tasks, 2 wakers, 2 wakes per poll, race-free | `TypeOK`, `QueuedOnce`, `RefCount`, `NoLostWake`, `DueArePolled`, `NoAbortInDrop`, `NothingLeftInQueue`, `PollNextReturns`, `WokenIsPolled` | hold |
| `fu_double_enqueue` | 2 tasks, 2 wakers, 2 wakes per poll | `EnqueuedOnce` | violated |
| `fu_clear_abort` | 2 tasks, 2 wakers | `NoAbortInClear` | violated |
| `fu_livelock` | 2 tasks, 1 waker | `AlwaysReturns` | violated |
| `cosync` | 2 tasks, 1 waker, 1 handle, the input | `CosyncTypeOK`, `RunStartsAll`, `OnePlace`, `FifoPerActor`, `IdsGrow`, `QueuedIsStarted`, `IsExecutor` | hold |
| `cosync_order` | 2 tasks, the input | `RunsInQueueOrder` | violated |
| `cosync_get` | 2 tasks, 1 handle, the input | `InputIsUsable` | violated |
| `blocking` | 2 tasks, 2 threads and the executor's | `CellIsExclusive`, `ParkedIsCovered`, `SpawnedAreCovered`, `WokenIsPolled` | hold |
| `serial` | 2 tasks, 1 waker, owner, 1 handle, the input | `OneAtATime`, `CompletesInOrder`, `ReadyMeansDone`, `SerialReturns`, `IsExecutor` | hold |
| `input` | 3 tasks, 1 handle | `ListIsSound`, `IterIsExact`, `GetMeetsTheRun`, `NoNestedRun`, `WaitsOnlyUnderRemoval`, `NothingLeaks`, `ClearLeavesNothing` | hold |
| `input_get` | 2 tasks | `GetReadsParameter` | violated |

The passing runs say: the lock-free queue implements its contract; whatever
threads do with wakers, no wake-up is lost, counts are exact, and a poll cycle
reaches every task that was reachable when it began; a run starts everything
queued before and during it; a task is always in exactly one place; ids grow from call
to call, and starts follow each actor's order; both executors implement the abstract one, so they poll no
task twice in a run and none after its end; a serial executor completes tasks one by
one and returns; `run_blocking` never sleeps through a wake-up, and sleeps before the
first poll of a task that a future queued only until a half-done wake-up is over, which
ends with an unpark (`SpawnedAreCovered`; the entry of the new task then stands behind
one that is not linked yet, and `poll_next` has seen an empty queue); the list and its iterators are exact through every call.

`input` also says where things may go wrong, and that there are no further cases; the
cases are reached in the model:

* `GetMeetsTheRun`: within a run, after a run that returned, and outside of the drop
  `get` reads the parameter of the run or is refused. What it leaves open is what
  `input_get` shows.
* `WaitsOnlyUnderRemoval`: `clear_queue`, `clear`, `unqueue_task` and the `unqueue_task`
  of a handle, which polls and destructors may call, destroy futures under the mutex,
  and a destructor that queues or takes back a task waits there for its own thread.
  The doc comments say nothing of this, so it is no finding.
* `NothingLeaks`: a handle of another thread that is inside a call when the Cosync is
  dropped keeps the incoming queue and its futures until it leaves.

The violated properties are statements of the repository that the code does not
keep:

* **Double enqueue** (task.rs:61-63, "ensuring that we're only queued once").
  When `poll_next` puts an already polled task back it takes the flag down
  (FU:443) and up again (FU:448) without looking at what it was. A thread whose
  wake-up falls between the two enqueues the node too. It needs a task that was
  woken once already in its last poll and a second waker, so one poll that hands
  out two wake-ups.
* **`clear` may abort the process** (FU:547, "we have &mut self, so this is
  safe"). Threads inside a wake-up hold the queue through the upgraded weak
  pointer; if one is between the two steps of `enqueue`, `clear` finds the queue
  inconsistent and aborts. `stop_running_task` and `clear` of `SerialCosync`
  reach it as well.
* **`run` may never return** (lib.rs:218-220). The loop stops only at the task that
  was pending first. If that one waits for an external wake-up, a second task that
  wakes itself, as `yield_now` does, is put back and taken out for ever. With a
  wake-up that the caller of `run` itself was to give, it is a livelock for good.
* **Tasks change places between runs** (README.md:93, "*always* do work on the
  first queued task, and then [...] the second"). Putting the first pending task
  back at the end of the queue rotates it: of two tasks that yield in every tick
  the second is polled first in every second run.
* **`CosyncInput::get` may read invalid data** (lib.rs:472-474, "we guarantee with a kill
  counter that the main `.get` of CosyncInput never dereferences invalid data", and
  508-509). There is no such counter. The drop frees the data pointer (lib.rs:272) before
  the pool, so a destructor of a running task finds it dangling, with the one strong
  reference that `get` asks for (`"freed"`, the trace). And a panic leaves the run
  without the line that resets the pointer (424-426): a destructor that runs before the
  next run, say in `clear`, reads a parameter that is no longer lent (`"stale"`).
  Destructors of tasks in the incoming queue have not been given their input yet.
* **`CosyncInput::get` may panic while the Cosync is alive** (lib.rs:504-505). It
  takes a strong count other than 1 for a dropped executor, but a handle upgrades
  its `Weak` during each of its calls.

The order of lib.rs:36-38, "Tasks are done in the order they are queued", is checked for
the tasks of each actor (`FifoPerActor`). Between actors it does not hold: a task that
the owner queues goes to the pool at once and is first polled before an earlier one that
a handle queued and that waits for the next run.

### Bounds

`WakesPerPoll` bounds the wake-ups (waker clones and `wake_by_ref` calls) one poll
hands out. It does not bound the wakers outstanding: clones of earlier polls may be
held at any later time. With 2 the double enqueue becomes possible and makes the rest
meaningless. So `fu_wakers` checks `FairRaceFreeSpec`, where 2 are handed out and exactly
the steps of that race, `WakeInPutBack`, are left out; the other passing runs have 1,
as with the library's own futures, and `OneWakeIsRaceFree` proves that nothing is left
out there. With
two slots two threads can be inside a wake-up of the same or of different tasks, while
`poll_next` rotates a queue of two tasks; the liveness properties do not allow for
symmetry, and so for a third task. The state of a slot or a task refers to one other
at a time, so more of them add interleavings of the same kinds; the theorems below
cover every number.
In `cosync` two tasks and three actors that queue are the least for two actors to
be in the middle of `queue` at once and for one of two tasks to overtake the other.
In `input` three tasks give a list with a first, a middle and a last task, or a list of
two while a third one is polled, destroyed or queued by the handle; addresses are used
again when a future is gone. `IdSpace` is the number of ids, 2^64 in the code, and at
least the number of tasks ever queued, by assumption; in `cosync` it is 2, so that the
counter wraps around with the last task. Past it the doc comment of `CosyncTaskId`
gives up the order. Symmetry is used in `queue` and `input`, whose properties are all
safety properties.

Deadlock is checked in every run: the models stop only after an abort or when
everything has been dropped (`Ended`, `CosyncEnded`).

### Fairness

`Fairness` asks that the executor's thread goes on inside a call, that is, polls of
futures return, and that a thread inside `wake()` goes on (weak fairness of
`Running` and of `Waking`). A scheduler that runs every thread gives this: no step
of either waits for a lock or for another thread. Nobody is obliged to call
`run` or `poll_next` again, or to use a waker; `WokenIsPolled` and
`QueuedIsStarted` say so in their premises. The premise of `QueuedIsStarted`, that
`run` is called again and again, includes that it returns (`PollNextReturns`), so
`CosyncFairness` needs only the threads in `wake`. Handles are not fair, as
the mutex promises them nothing. In `BlockingRun` the executor's thread leaves
`park` for certain only with a token, threads go on inside `wake`, and nobody has
to wake a task. Its `WokenIsPolled` excuses a `poll_next` that does not return, as
`fu_livelock` shows one.

## What is proved

All proofs are checked by TLAPS, for an arbitrary set `Task` (a finite one in a
`Cosync`), finite `Waker`, and arbitrary handles.

* `ReadyToRunQueue_proofs`, for any nodes and producers: `ImplementsMPSCQueue`, that the
  pointers implement the queue the pool is modelled on, `DequeueAnswers`,
  `FollowsOrder`, `LinksLive` and `QueueTypes`.
* `FuturesUnordered_proofs`: of every behaviour with `RaceFree`, in which no thread claims
  the task that `poll_next` is putting back, `Invariance`, and from it `TypeCorrect`,
  `TaskQueuedOnce`, `CountsAreExact`, `NeverFreedInUse`, `WakesAreKept`, `DropIsClean`
  and `DropFreesAll`; and `AllDueArePolled`. `OnlyTheRace`, that the condition cannot be
  weaker. Two conditions that give `RaceFree`:
  `OneWakeIsRaceFree`, for `WakesPerPoll <= 1`, and `OneThreadIsRaceFree`. With
  `OneThread`, further, `OneThreadIsConsistent` and `WokenAreDue`.
* `Cosync_proofs`: `PoolInCosync`, that every behaviour of a `Cosync` is one of the
  pool by itself, without any assumption, and with it `CosyncKeepsWakes`,
  `CosyncIsRaceFree` and `CosyncIsConsistent`.
* `CosyncTasks_proofs`, without any condition: `IdsAlwaysGrow`, `TasksStartInOrder`,
  `TasksAreInOnePlace`, and `CosyncIsExecutor`, the refinement; with `RaceFree`, which
  they take over from the pool, `RunsStartAll`, `RunsOweWoken` and `CosyncTypes`; with
  `OneThread`, `OneThreadRunsPassNothing`.
* `SerialCosync_proofs`, without any condition: `PoolInSerialCosync`, `OneTaskAtATime`,
  `SerialCompletesInOrder`, `SerialReadyMeansDone` and `SerialIsExecutor`; with the same
  two conditions `SerialKeepsWakes` and `SerialIsConsistent`.
* `TaskList_proofs`: what `Linked` and `Unlinked` do to the sequence a list stands for.
* `InputLifetime_proofs`, for any tasks and handles: all seven properties of the run
  `input`, as `ListStaysSound`, `IteratorsAreExact`, `GetReadsTheRun`, `RunsDoNotNest`,
  `WaitsUnderRemoval`, `DropDestroysAll` and `ClearIsComplete`.
* `BlockingRun_proofs`, for a finite `Task` and arbitrary threads: `CellExclusion`,
  `NoSleepWithWork` and `CoversWhatIsSpawned`.

**The ready-to-run queue.** `QueueInv` adds three things to `PointersFollow`, which is not
inductive: that no node is in `order` twice (`NoRepeats`), which depends on `Hands` and
`Alone`, that the node a thread will swap in is in nobody else's hands and not in the
list; that the node a thread will link behind is its predecessor in `order` and points
to none, so that no other thread and no dequeue gets in between; and `Calls`, what the
consumer knows at each place of a dequeue. The hard case of `Calls` is the last load,
after the stub was enqueued: the entry points to none only if another producer's swap
came in between the comparison with `head` and the stub's own swap, and that one had
made the queue inconsistent (`SecondSwap`). The lemmas on sequences say how an append
and a tail of `order` look without the stub.

**The pool.** The inductive invariant `IInv` joins the properties with what they need of each
other. None of them is inductive: that a claimed task is not in the queue
(`QueuedOnce`) needs the flag to be up for every entry; that the count never goes
below zero (`TypeOK`) needs `RefCount`; that the reference of a released task has an
owner needs `Flags`, that the flag of a released task stays up for as long as
anything refers to it, and of a live one means that somebody will enqueue it;
`Shape` ties the list to the futures; `Links` says that an unlinked entry has a
thread between its two steps, so the last one out of a dropped pool finds the
queue consistent. The proof has one lemma per action and under it one step per
conjunct.

**When the pool may be trusted.** The code does not keep these properties in every
program: `fu_double_enqueue` shows the two swaps of FU:443-448 with a claim in between.
`WakeInPutBack` is that step and `RaceFree` says that it does not occur. It is the only
thing the proof of `IInv` needs to know of a program, so the window is the only way to
a double enqueue, a wrong count or a lost wake-up; and `OnlyTheRace` proves that a
program without double enqueues is one with `RaceFree`. Nobody can see `RaceFree` in a
program, so it is proved from two conditions that one can see:

* `WakesPerPoll <= 1`, each poll of a future clones its waker once or wakes once, as
  those of the library do. Then threads may use the clones when they like, once each: a
  waker that is kept and used again hands out one more wake-up. The proof
  has an invariant of its own, `Budget`: an outstanding waker that can still claim a
  live task (`Armed`) is the only one of the task, and the task is then neither queued
  nor being put back.
* `OneThread`, wakers are used on the executor's thread: a wake-up that has begun runs
  to its end before anything else happens, and none begins while a task is put back,
  since no code of others runs there. `OneThread` also takes away the two weaknesses
  that `RaceFree` leaves: an entry is never seen half linked, so `clear` does not
  abort, `poll_next` does not report Inconsistent, and a new call of it owes a poll to
  every task that was woken and is not polled yet (`WokenAreDue`). Both are proved from
  `IInv`, whose `Links` says that an unlinked entry has a thread in the midst of a wake-up.

`AllDueArePolled` has an invariant of its own, `DueInv`, about the rotation of the
queue during a `poll_next`: every task that is due can be reached past no unlinked
entry (`DueInReach`), and the task `poll_next` has in its hands as well as the initial
one come after all that are due whenever they are in the queue (`Follows`). A task
that is polled or put back is appended, so this stays true, and when the initial task
is at the front again, or the queue looks empty, nothing is due.

**The tasks of a Cosync.** `CInv` of `CosyncTasks_proofs` follows a task through the
two queues and the pool. `Ids` says that the counter is the number of tasks queued.
`Places` has `OnePlace` as sets: a task is held by a handle, waiting, in the pool or
gone. `FifoPerActor` is not inductive: it needs to know that what has not begun stands
in line. `Line` says so for the ready-to-run queue, where tasks that have been polled
are taken out and appended again in any order, but those waiting for their first poll
are all there and in the order of their actor's calls; `Behind` says it for those
waiting in `incoming`, which come after them, and for the one a handle has numbered
and not appended, which comes last. The refinement needs `Cycle`: what this run has
polled and is still in the pool has been polled in the pool's current cycle. It holds
because only the first `poll_next` of a run opens a cycle, and a task that enters the
pool has not been polled. The double enqueue does not disturb any of this, so no bound
on wake-ups is assumed. `RunsStartAll` needs one more invariant, `RunOwes`: what the run
owes, which is all that was queued or in the ready-to-run queue when it began, is
waiting, or will be due in the `poll_next` that follows the move, or is due in
the one going on, or gone. When `poll_pool` finds nothing waiting after a `poll_next`
that returned Ready or Pending, the theorem about the pool leaves only what is gone;
`PoolInCosync` carries it over. `RunsOweWoken` relates this to wake-ups by `NoLostWake`:
what was woken is in the queue, or in the hands of a thread that has yet to enqueue it.
`StartPoll` lets go of what stands behind an entry not yet linked;
`OneThreadRunsPassNothing` shows by `OwedInQueue` that with `OneThread` it lets go of
nothing but tasks that are gone. The steps that both executors share are lemmas about `Tasks`,
`Pool` and `Cycle` alone.

**SerialCosync.** `SInv` says that the futures of the pool are those of the list and
the one being polled, at most one in all, and none when `poll_next` has just returned
Ready within a run. With it a task that begins is alone in the pool, and `FifoPerActor`
becomes `CompletesInOrder`. `Owed` says that what a run still owes is waiting or in
the pool, so that it owes nothing when both are empty.

**InputLifetime.** `IInv` joins `Places` (where a future is: in the list, in the queue,
under poll, under destruction or in a call of a handle, and in one of these only, but
for the destructor of a stopped one), `Taken` (who has a future that is in no queue, and
that no two calls have the same), `Walk` (an iterator stands where its count says, behind tasks it does
not look for), `Pointer` (within a run the pointer is lent; a pointer to a parameter
that is not lent was left by a panic), `Guard` and `Emptied` (what the finished parts
of a clear have left). The list itself is proved once, in `TaskList_proofs`.

**run_blocking.** Of the conjuncts of its `IInv`, `Bits` says which of the
`AtomicWaker`'s two bits is whose: a thread between its two accesses excludes the
executor and every other thread, and only an executor that was disturbed while it
registered sees both, which gives `CellExclusion`. `ParkedIsCovered` is the end of a
chain. `Registered`: once the executor has stored its waker, the waker is in the cell,
or somebody has it and brings it to `unparked`, or the executor is about to notify
itself, or the flag is up. `Rewoken`: a task in the queue that was polled in this
cycle has been woken since, and who woke it comes, or has come. `Settled`: so, when
`poll_next` has returned Pending, does somebody for every task that is left, for the
queue looked empty, and then an entry is being linked, or the first task seen again
was polled and is there. A thread that comes and finds the `AtomicWaker` taken leaves, which is
the hard case: the waker is then with the one who has it, by `Bits` or by
`Registered`. `Parked` carries all of this over the swap of the flag to the token.
`Spawned` says that what a future queued is in `incoming`, or in the pool and the queue
until its first poll, so that `Parked` covers it. The steps of a waking
thread are treated once, in `BringsStay`, `ComesStay` and `WokeWakes`.

Only model-checked: the liveness properties (liveness under fairness is beyond the
prover). Every safety property of the passing runs is a theorem as well; those about
the pool's memory, its wake-ups and `poll_next` assume `RaceFree`, and
`fu_double_enqueue` shows that the code needs it. The condition is about behaviours,
which a model-checking run cannot take from a theorem: `RaceFreePrograms` says that
`RaceFreeSpec`, which `fu_wakers` checks with fairness, has the same ones.

## What is not modelled

* Weak memory: every atomic access is a step of a total order. The code's
  orderings on the accesses that matter are SeqCst or acquire/release pairs.
* The spin in `spin_next_all` (task.rs): a list is changed and read under `&mut` of
  its owner only, so it never finds `pending_next_all` there.
* Destructors that panic by themselves, and what a program does with a `CosyncInput`
  moved out of its closure.
* The tick counter of `SleepForTick`: that a sleeping task is polled at most once per
  run is `IsExecutor`, and that every run polls it `RunStartsAll` with `RunsOweWoken`;
  the subtraction is left out. The values tasks compute, formatting.
* The examples, which are programs that use the crate.

## Plan

Done: all modules above with their runs, and a theorem for every safety property that
holds, those of the pool and of `run` under the weakest condition on wake-ups that the
code needs. To prove next: what `BlockingRun` and `FuturesUnordered` have in common,
since the former is a second model of the loop of `poll_next`, related to it in words
only. To model next: `run_blocking` of a `SerialCosync`, the tick counter of
`SleepForTick`, and weaker memory orders, for which TLA+ has no ready form.
