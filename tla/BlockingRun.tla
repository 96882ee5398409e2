----------------------------- MODULE BlockingRun -----------------------------
(***************************************************************************)
(* How run_blocking sleeps and is woken: its loop around poll_pool         *)
(* (lib.rs:231-261, 358-400), the ThreadNotify of its thread with the      *)
(* token of park and unpark, and the AtomicWaker in which poll_next leaves *)
(* the waker for threads that wake a task, one atomic access at a time.    *)
(*                                                                         *)
(* A wake-up of a task takes this way: the task is enqueued (task.rs:75),  *)
(* the waker is taken out of the AtomicWaker (76), `unparked` goes up, and *)
(* the thread is unparked if it was down.  The executor registers before   *)
(* it looks into the queue, and swaps `unparked` before it parks.  A task  *)
(* queued by the future under poll or by a handle notifies nobody; the     *)
(* executor finds it in the incoming queue.                                *)
(*                                                                         *)
(* Of the pool there is the ready-to-run queue, and the loop of poll_next  *)
(* with the task at which it stops; panics, references and the other calls *)
(* of the pool are in FuturesUnordered.                                    *)
(***************************************************************************)
EXTENDS MPSCQueue, FiniteSets, SequencesExt

CONSTANTS
    Thread,            \* threads that wake tasks, and Self
    Self,              \* the executor's thread while it polls a future
    None               \* no task

ASSUME SelfAssumption == Self \in Thread
ASSUME NoTaskAssumption == None \notin Task /\ IsFiniteSet(Task)

VARIABLES
    fresh,             \* tasks that have not been queued
    incoming,          \* tasks in the incoming queue
    inside,            \* those a future under poll queued, not polled since (history)
    live,              \* tasks of the pool that are not complete
    queued,            \* tasks whose `queued` flag is true
    polled,            \* tasks polled in this cycle
    initial,           \* the task at which poll_next stops, or None
    cur,               \* the task under poll
    state,             \* AtomicWaker: which of its two bits are set
    cell,              \* AtomicWaker: whether it holds a waker
    unparked,          \* ThreadNotify: the flag
    token,             \* the token of park
    epc,               \* where the executor is
    after,             \* where it goes on after it has notified itself
    wpc,               \* where each thread is in wake
    wtask,             \* the task it wakes
    got                \* whether it took a waker out of the AtomicWaker

arrivals == <<fresh, incoming, inside>>
cycle == <<polled, initial>>
pool == <<queueVars, live, queued, cycle, cur>>
atomicWaker == <<state, cell>>
notify == <<unparked, token>>
executor == <<epc, after>>
threads == <<wpc, wtask, got>>
vars == <<arrivals, pool, atomicWaker, notify, executor, threads>>

WAITING == {}
REGISTERING == "registering"
WAKING == "waking"

\* Some tasks are in the pool, a first poll is due of each, some are queued, and
\* some will be.
Init ==
    /\ \E P \in SUBSET Task : \E Q \in SUBSET (Task \ P) :
          /\ live = P /\ queued = P /\ ready \in SetToSeqs(P)
          /\ incoming \in SetToSeqs(Q)
          /\ fresh = Task \ (P \union Q)
    /\ inside = {} /\ polled = {} /\ initial = None /\ cur = None
    /\ unlinked = {}
    /\ state = WAITING /\ cell = FALSE
    /\ unparked = FALSE /\ token = FALSE
    /\ epc = "drain" /\ after = "dequeue"
    /\ wpc = [w \in Thread |-> "idle"]
    /\ wtask = [w \in Thread |-> None] /\ got = [w \in Thread |-> FALSE]

-----------------------------------------------------------------------------
(* The executor: poll_pool *)

ExecAt(at, next) == epc = at /\ epc' = next

\* It holds the mutex and moves the incoming tasks to the pool, ...
AddIncoming ==
    /\ epc \in {"drain", "refill"} /\ incoming # <<>>
    /\ live' = live \union {Head(incoming)}
    /\ queued' = queued \union {Head(incoming)}
    /\ Enqueue(Head(incoming))
    /\ incoming' = Tail(incoming)
    /\ UNCHANGED <<fresh, inside, cycle, cur, atomicWaker, notify, executor, threads>>

\* ... at the beginning in a new cycle, and again in the same one.
PollPool ==
    /\ epc \in {"drain", "refill"} /\ incoming = <<>>
    /\ epc' = "register"
    /\ polled' = IF epc = "drain" THEN {} ELSE polled
    /\ UNCHANGED <<arrivals, queueVars, live, queued, initial, cur, atomicWaker, notify, after, threads>>

\* Variant: poll_pool returns without a look for new tasks.
ReturnPolled ==
    /\ epc \in {"ready", "stalled"}
    /\ epc' = IF epc = "ready" THEN "done" ELSE "pending"
    /\ UNCHANGED <<arrivals, pool, atomicWaker, notify, after, threads>>

\* poll_next has returned: new tasks mean another turn.
LookForNew ==
    /\ epc \in {"ready", "stalled"}
    /\ epc' = CASE incoming # <<>> -> "refill"
                [] OTHER -> IF epc = "ready" THEN "done" ELSE "pending"
    /\ UNCHANGED <<arrivals, pool, atomicWaker, notify, after, threads>>

-----------------------------------------------------------------------------
(* The executor: register *)

\* The waker to wake is its own: ThreadNotify::wake_by_ref, then go on there.
NotifySelf(next) == epc' = "notify" /\ after' = next

\* Variant: the cell is written while a thread may be taking the waker out.
RegisterAlways ==
    /\ ExecAt("register", "store")
    /\ initial' = None
    /\ state' = state \union {REGISTERING}
    /\ UNCHANGED <<arrivals, queueVars, live, queued, polled, cur, cell, notify, after, threads>>

\* compare_exchange(WAITING, REGISTERING) at the beginning of poll_next.
Register ==
    /\ epc = "register"
    /\ initial' = None
    /\ IF state = WAITING
       THEN epc' = "store" /\ state' = {REGISTERING} /\ UNCHANGED after
       ELSE NotifySelf("dequeue") /\ UNCHANGED state
    /\ UNCHANGED <<arrivals, queueVars, live, queued, polled, cur, cell, notify, threads>>

StoreWaker ==
    /\ ExecAt("store", "release")
    /\ cell' = TRUE
    /\ UNCHANGED <<arrivals, pool, state, notify, after, threads>>

\* compare_exchange(REGISTERING, WAITING); if a wake came meanwhile, take the
\* waker back.
Release ==
    /\ epc = "release"
    /\ IF state = {REGISTERING}
       THEN epc' = "dequeue" /\ state' = WAITING
       ELSE epc' = "takeback" /\ UNCHANGED state
    /\ UNCHANGED <<arrivals, pool, cell, notify, after, threads>>

TakeBack ==
    /\ ExecAt("takeback", "reset")
    /\ cell' = FALSE
    /\ UNCHANGED <<arrivals, pool, state, notify, after, threads>>

Reset ==
    /\ epc = "reset"
    /\ state' = WAITING
    /\ NotifySelf("dequeue")
    /\ UNCHANGED <<arrivals, pool, cell, notify, threads>>

NotifySwap ==
    /\ epc = "notify"
    /\ epc' = IF unparked THEN after ELSE "unpark"
    /\ unparked' = TRUE
    /\ UNCHANGED <<arrivals, pool, atomicWaker, token, after, threads>>

NotifyUnpark ==
    /\ epc = "unpark" /\ epc' = after
    /\ token' = TRUE
    /\ UNCHANGED <<arrivals, pool, atomicWaker, unparked, after, threads>>

-----------------------------------------------------------------------------
(* The executor: poll_next *)

\* Poll::Ready(None) if no task is left in the list, else Pending.
Empty ==
    /\ epc = "dequeue"
    /\ SeesEmpty
    /\ epc' = IF live = {} THEN "ready" ELSE "stalled"
    /\ UNCHANGED <<arrivals, pool, atomicWaker, notify, after, threads>>

Inconsistent ==
    /\ epc = "dequeue"
    /\ SeesInconsistent
    /\ NotifySelf("stalled")
    /\ UNCHANGED <<arrivals, pool, atomicWaker, notify, threads>>

\* A task that completed while it was in the queue.
TakeReleased(t) ==
    /\ epc = "dequeue"
    /\ DequeueData(t)
    /\ t \notin live
    /\ UNCHANGED <<arrivals, live, queued, cycle, cur, atomicWaker, notify, executor, threads>>

\* Already polled: put back.  The loop stops when this task was the initial one.
PutBack(t) ==
    /\ epc = "dequeue"
    /\ TakesHead(t)
    /\ t \in live \intersect polled
    /\ ready' = Append(Tail(ready), t)
    /\ initial' = IF initial = None THEN t ELSE initial
    /\ epc' = IF t = initial THEN "stalled" ELSE "dequeue"
    /\ UNCHANGED <<arrivals, unlinked, live, queued, polled, cur, atomicWaker, notify, after, threads>>

PollTask(t) ==
    /\ ExecAt("dequeue", "poll")
    /\ DequeueData(t)
    /\ t \in live \ polled
    /\ queued' = queued \ {t}
    /\ polled' = polled \union {t}
    /\ cur' = t
    /\ inside' = inside \ {t}
    /\ UNCHANGED <<fresh, incoming, live, initial, atomicWaker, notify, after, threads>>

\* The code of the future parks its thread for purposes of its own, and so
\* consumes a token that was meant for run_blocking (lib.rs:687-691).
StealToken ==
    /\ epc = "poll" /\ token
    /\ token' = FALSE
    /\ UNCHANGED <<arrivals, pool, atomicWaker, unparked, executor, threads>>

\* A completed task keeps its flag up.
Polled ==
    /\ ExecAt("poll", "dequeue")
    /\ wpc[Self] = "idle"
    /\ cur' = None
    /\ \/ /\ live' = live \ {cur} /\ queued' = queued \union {cur}
          /\ UNCHANGED initial
       \/ /\ initial' = IF initial = None THEN cur ELSE initial
          /\ UNCHANGED <<arrivals, live, queued>>
    /\ UNCHANGED <<arrivals, queueVars, polled, atomicWaker, notify, after, threads>>

-----------------------------------------------------------------------------
(* The executor: run_blocking *)

\* Variant: it parks without a look at the flag.
PendingParks ==
    /\ ExecAt("pending", "park")
    /\ unparked' = FALSE
    /\ UNCHANGED <<arrivals, pool, atomicWaker, token, after, threads>>

\* unparked.swap(false): poll again, or park.
Pending ==
    /\ epc = "pending"
    /\ epc' = IF unparked THEN "drain" ELSE "park"
    /\ unparked' = FALSE
    /\ UNCHANGED <<arrivals, pool, atomicWaker, token, after, threads>>

\* park() returns with the token, or for no reason.
Park ==
    /\ ExecAt("park", "woken")
    /\ token' = FALSE
    /\ UNCHANGED <<arrivals, pool, atomicWaker, unparked, after, threads>>

Woken ==
    /\ ExecAt("woken", "drain")
    /\ unparked' = FALSE
    /\ UNCHANGED <<arrivals, pool, atomicWaker, token, after, threads>>

-----------------------------------------------------------------------------
(* A thread that wakes a task *)

ThreadAt(w, at, next) ==
    /\ wpc[w] = at
    /\ wpc' = [wpc EXCEPT ![w] = next]

\* queued.swap(true) was false; otherwise wake_by_ref changes nothing.
Claim(w, t) ==
    /\ ThreadAt(w, "idle", "swap")
    /\ w = Self => epc = "poll"
    /\ t \in live \ queued
    /\ queued' = queued \union {t}
    /\ wtask' = [wtask EXCEPT ![w] = t]
    /\ UNCHANGED <<arrivals, queueVars, live, cycle, cur, atomicWaker, notify, executor, got>>

Swap(w) ==
    /\ ThreadAt(w, "swap", "link")
    /\ SwapHead(wtask[w])
    /\ UNCHANGED <<arrivals, live, queued, cycle, cur, atomicWaker, notify, executor, wtask, got>>

Link(w) ==
    /\ ThreadAt(w, "link", "fetch")
    /\ LinkPrev(wtask[w])
    /\ wtask' = [wtask EXCEPT ![w] = None]
    /\ UNCHANGED <<arrivals, live, queued, cycle, cur, atomicWaker, notify, executor, got>>

\* AtomicWaker::take: fetch_or(WAKING) decides who may touch the cell.
FetchOr(w) ==
    /\ ThreadAt(w, "fetch", IF state = WAITING THEN "take" ELSE "idle")
    /\ state' = state \union {WAKING}
    /\ UNCHANGED <<arrivals, pool, cell, notify, executor, wtask, got>>

Take(w) ==
    /\ ThreadAt(w, "take", "clear")
    /\ got' = [got EXCEPT ![w] = cell]
    /\ cell' = FALSE
    /\ UNCHANGED <<arrivals, pool, state, notify, executor, wtask>>

\* fetch_and(!WAKING), and wake what was in the cell.
ClearBit(w) ==
    /\ ThreadAt(w, "clear", IF got[w] THEN "notify" ELSE "idle")
    /\ state' = state \ {WAKING}
    /\ got' = [got EXCEPT ![w] = FALSE]
    /\ UNCHANGED <<arrivals, pool, cell, notify, executor, wtask>>

\* ThreadNotify::wake_by_ref.
ThreadNotifies(w) ==
    /\ ThreadAt(w, "notify", IF unparked THEN "idle" ELSE "unpark")
    /\ unparked' = TRUE
    /\ UNCHANGED <<arrivals, pool, atomicWaker, token, executor, wtask, got>>

ThreadUnparks(w) ==
    /\ ThreadAt(w, "unpark", "idle")
    /\ token' = TRUE
    /\ UNCHANGED <<arrivals, pool, atomicWaker, unparked, executor, wtask, got>>

-----------------------------------------------------------------------------
(* New tasks *)

\* The mutex is free for others.
Unlocked == epc \notin {"drain", "refill"}

\* CosyncInput::queue, called by the future under poll.
QueueFromFuture(t) ==
    /\ epc = "poll" /\ wpc[Self] = "idle"
    /\ t \in fresh
    /\ fresh' = fresh \ {t}
    /\ incoming' = Append(incoming, t)
    /\ inside' = inside \union {t}
    /\ UNCHANGED <<pool, atomicWaker, notify, executor, threads>>

\* CosyncQueueHandle::queue on another thread; it wakes nobody.
QueueFromHandle(t) ==
    /\ Unlocked
    /\ t \in fresh
    /\ fresh' = fresh \ {t}
    /\ incoming' = Append(incoming, t)
    /\ UNCHANGED <<inside, pool, atomicWaker, notify, executor, threads>>

-----------------------------------------------------------------------------
\* What the executor does of itself: from park it returns for sure with a token.
Runs ==
    \/ AddIncoming \/ PollPool \/ LookForNew
    \/ Register \/ StoreWaker \/ Release \/ TakeBack \/ Reset
    \/ NotifySwap \/ NotifyUnpark
    \/ Empty \/ Inconsistent
    \/ \E t \in Task : TakeReleased(t) \/ PutBack(t) \/ PollTask(t)
    \/ Polled \/ Pending \/ Woken
    \/ token /\ Park

\* What a thread does once it has begun to wake.
Wakes(w) ==
    \/ Swap(w) \/ Link(w)
    \/ FetchOr(w) \/ Take(w) \/ ClearBit(w)
    \/ ThreadNotifies(w) \/ ThreadUnparks(w)

Returned ==
    /\ epc = "done" /\ \A w \in Thread : wpc[w] = "idle"
    /\ UNCHANGED vars

Next ==
    \/ Runs
    \/ Park
    \/ StealToken
    \/ \E w \in Thread : Wakes(w) \/ \E t \in Task : Claim(w, t)
    \/ \E t \in Task : QueueFromFuture(t) \/ QueueFromHandle(t)
    \/ Returned

Spec == Init /\ [][Next]_vars

\* The executor's thread and threads inside wake() keep running; park returns for
\* sure only with a token, and nobody has to wake a task.
FairSpec ==
    /\ Spec
    /\ WF_vars(Runs)
    /\ \A w \in Thread : WF_vars(Wakes(w))

-----------------------------------------------------------------------------
(* Properties *)

\* The cell of the AtomicWaker is touched by one thread at a time
\* (atomic_waker.rs:180, 211 and 285), and the executor that takes its waker back
\* finds it there, the unwrap of 211.
CellIsExclusive ==
    /\ \A v, w \in Thread : wpc[v] = "take" /\ wpc[w] = "take" => v = w
    /\ epc \in {"store", "takeback"} => \A w \in Thread : wpc[w] # "take"
    /\ epc = "takeback" => cell

\* lib.rs:381-387: a thread that parks, or is parked, without a token while a
\* live task is in the queue has a thread on its way to unpark it.
ParkedIsCovered ==
    epc = "park" /\ ~token /\ Entries \intersect live # {} =>
        \E w \in Thread : wpc[w] \in {"link", "fetch", "take", "clear", "notify", "unpark"}

\* A task that is woken while run_blocking runs, sleeps or falls asleep does not stay
\* woken for ever, it is polled: no wake-up is lost between the register, the look into
\* the queue and park (lib.rs:382-387).  The only excuse is a poll_next that does not
\* return, which FuturesUnordered shows to be possible.
WokenIsPolled ==
    ([]<>(epc \notin {"dequeue", "poll"})) =>
        \A t \in Task : []<>(t \notin live \intersect queued)

\* The entry is in the incoming queue.
IsIncoming(t) == \E i \in DOMAIN incoming : incoming[i] = t

\* lib.rs:186-187, run_blocking returns when all tasks "are complete, including any
\* spawned while running existing tasks".  A task queued by a future notifies nobody,
\* so the thread may not go to sleep while it is in the incoming queue; and when it
\* sleeps before the first poll of such a task, then only because a wake-up that is
\* not finished hides the task in the ready-to-run queue, and that wake-up ends with
\* an unpark.  (A task that a handle of another thread queues after LookForNew waits
\* until something wakes the executor.)
SpawnedAreCovered ==
    /\ epc \in {"pending", "park"} => \A t \in inside : ~IsIncoming(t)
    /\ epc = "park" /\ ~token /\ inside # {} =>
          \E w \in Thread : wpc[w] \in {"link", "fetch", "take", "clear", "notify", "unpark"}
    /\ epc = "done" => inside = {} /\ live = {}
=============================================================================
