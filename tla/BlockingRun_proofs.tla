------------------------- MODULE BlockingRun_proofs -------------------------
(***************************************************************************)
(* The safety properties of run_blocking, for any finite set of tasks and  *)
(* any threads: above all that it never parks, or stays parked, with a     *)
(* task to poll and nobody on the way to wake it.                          *)
(***************************************************************************)
EXTENDS BlockingRun, FiniteSetTheorems, TLAPS

\* Where the executor has the REGISTERING bit.
Registering == epc \in {"store", "release", "takeback", "reset"}

\* The bits of the AtomicWaker: one side at a time, and only the executor that was
\* disturbed sees both.
Bits ==
    /\ state \subseteq {REGISTERING, WAKING}
    /\ REGISTERING \in state <=> Registering
    /\ \A w \in Thread : wpc[w] \in {"take", "clear"} => state = {WAKING}
    /\ state = {WAKING} => \E w \in Thread : wpc[w] \in {"take", "clear"}
    /\ \A v, w \in Thread :
          wpc[v] \in {"take", "clear"} /\ wpc[w] \in {"take", "clear"} => v = w
    /\ epc \in {"takeback", "reset"} => WAKING \in state
    /\ epc \in {"release", "takeback"} => cell
    /\ epc = "reset" => ~cell
    /\ \A w \in Thread : wpc[w] = "clear" => ~cell

Ranged(s) == {s[i] : i \in DOMAIN s}

NoRepeats(s) == \A i, j \in DOMAIN s : s[i] = s[j] => i = j

\* A task is in the ready-to-run queue once, with its flag up, and an unlinked entry
\* has a producer; what has not come to the pool has its flag down and was not polled.
Queues ==
    /\ ready \in Seq(Task) /\ NoRepeats(ready)
    /\ incoming \in Seq(Task) /\ NoRepeats(incoming)
    /\ fresh \subseteq Task /\ live \subseteq Task
    /\ fresh \intersect Ranged(incoming) = {}
    /\ (fresh \union Ranged(incoming)) \intersect (live \union queued) = {}
    /\ Entries \subseteq queued
    /\ unlinked \subseteq {wtask[w] : w \in {v \in Thread : wpc[v] = "link"}}
    /\ \A w \in Thread : wpc[w] = "swap" =>
          wtask[w] \in queued \intersect Task /\ wtask[w] \notin Entries
    /\ \A v, w \in Thread :
          wpc[v] = "swap" /\ wpc[w] = "swap" /\ wtask[v] = wtask[w] => v = w
    /\ epc = "poll" <=> cur # None
    /\ cur # None => cur \in live
    /\ polled \subseteq live \union queued

Threads ==
    /\ wpc \in [Thread -> {"idle", "swap", "link", "fetch", "take", "clear", "notify", "unpark"}]
    /\ wtask \in [Thread -> Task \union {None}]
    /\ got \in [Thread -> BOOLEAN]
    /\ token \in BOOLEAN /\ unparked \in BOOLEAN /\ cell \in BOOLEAN
    /\ epc = "unpark" => unparked
    /\ after \in {"dequeue", "stalled"}

\* A thread that has the waker, or will find it in the cell: it comes to notify.
Brings(w) == wpc[w] = "notify" \/ (wpc[w] = "clear" /\ got[w])
Comes(w) == Brings(w) \/ wpc[w] \in {"link", "fetch"} \/ (wpc[w] = "take" /\ cell)

\* The executor is on its way to notify itself.
Notifies ==
    \/ epc \in {"takeback", "reset", "notify"}
    \/ epc \in {"store", "release"} /\ WAKING \in state

InRegister == epc \in {"register", "store", "release", "takeback", "reset"}
Asleep == epc \in {"park", "woken"}

\* Once registered in a run, the waker is in the cell until it is brought; it was
\* then when a task had been polled.
Registered ==
    ~Asleep /\ epc # "drain" /\ (InRegister /\ epc # "release" => polled # {}) =>
        cell \/ unparked \/ Notifies \/ \E w \in Thread : Brings(w)

\* A task that is in the queue again has been woken after its poll.
Rewoken ==
    ~Asleep /\ epc # "drain" /\ Entries \intersect live \intersect polled # {} =>
        unparked \/ Notifies \/ \E w \in Thread : Comes(w)

\* Once poll_next has found nothing to poll, a task in the queue is a new wake-up.
Settled ==
    epc \in {"stalled", "pending"} /\ Entries \intersect live # {} =>
        unparked \/ \E w \in Thread : Comes(w)

\* The same for a thread that sleeps, with the token in place of the flag.
Parked ==
    /\ epc = "park" => cell \/ token \/ \E w \in Thread : Brings(w) \/ wpc[w] = "unpark"
    /\ epc = "park" /\ unparked => token \/ \E w \in Thread : wpc[w] = "unpark"
    /\ epc = "park" /\ Entries \intersect live # {} =>
          token \/ \E w \in Thread : Comes(w) \/ wpc[w] = "unpark"

\* A task that a future has queued is in the incoming queue, or in the pool and the
\* ready-to-run queue, until its first poll.
Spawned ==
    /\ inside \subseteq Ranged(incoming) \union live
    /\ inside \intersect live \subseteq Entries
    /\ cur \notin inside
    /\ epc \in {"pending", "park"} => inside \intersect Ranged(incoming) = {}
    /\ epc = "ready" => live = {}
    /\ epc = "done" => inside = {} /\ live = {}

IInv == Bits /\ Queues /\ Threads /\ Registered /\ Rewoken /\ Settled /\ Parked /\ Spawned

-----------------------------------------------------------------------------
(* Types, and the AtomicWaker *)

\* The steps of the executor that leave the AtomicWaker alone and are not in register.
ExecElsewhere ==
    \/ AddIncoming \/ PollPool \/ LookForNew \/ NotifySwap \/ NotifyUnpark \/ Empty \/ Inconsistent
    \/ \E t \in Task : TakeReleased(t) \/ PutBack(t) \/ PollTask(t)
    \/ Polled \/ Pending \/ Park \/ Woken \/ StealToken
    \/ \E t \in Task : QueueFromFuture(t) \/ QueueFromHandle(t)
    \/ Returned \/ UNCHANGED vars

ExecRegisters == Register \/ StoreWaker \/ Release \/ TakeBack \/ Reset

LEMMA StepKinds ==
    ASSUME [Next]_vars
    PROVE  ExecElsewhere \/ ExecRegisters \/ \E w \in Thread : Wakes(w) \/ \E t \in Task : Claim(w, t)
  BY DEF Next, Runs, ExecElsewhere, ExecRegisters

LEMMA ThreadsStep == Threads /\ [Next]_vars => Threads'
<1> SUFFICES ASSUME Threads, [Next]_vars PROVE Threads'
  OBVIOUS
<1>1. CASE ExecElsewhere
  BY <1>1 DEF Threads, ExecElsewhere, AddIncoming, PollPool, LookForNew, NotifySwap, NotifyUnpark, Empty,
              Inconsistent, TakeReleased, PutBack, PollTask, Polled, Pending, Park, Woken, StealToken,
              QueueFromFuture, QueueFromHandle, Returned, ExecAt, NotifySelf, atomicWaker, notify, executor,
              threads, vars
<1>2. CASE ExecRegisters
  BY <1>2 DEF Threads, ExecRegisters, Register, StoreWaker, Release, TakeBack, Reset, ExecAt, NotifySelf,
              notify, executor, threads
<1>3. ASSUME NEW w \in Thread, Wakes(w) PROVE Threads'
  BY <1>3 DEF Threads, Wakes, Swap, Link, FetchOr, Take, ClearBit, ThreadNotifies, ThreadUnparks, ThreadAt,
              atomicWaker, notify, executor
<1>4. ASSUME NEW w \in Thread, NEW t \in Task, Claim(w, t) PROVE Threads'
  BY <1>4 DEF Threads, Claim, ThreadAt, atomicWaker, notify, executor
<1> QED
  BY <1>1, <1>2, <1>3, <1>4, StepKinds

LEMMA BitsStep == Threads /\ Bits /\ [Next]_vars => Bits'
<1> SUFFICES ASSUME Threads, Bits, [Next]_vars PROVE Bits'
  OBVIOUS
<1>1. CASE ExecElsewhere
  <2>1. UNCHANGED <<state, cell, wpc>> /\ (epc' = epc \/ ~(Registering \/ Registering'))
    BY <1>1 DEF Registering, Threads, ExecElsewhere, AddIncoming, PollPool, LookForNew, NotifySwap, NotifyUnpark,
                Empty, Inconsistent, TakeReleased, PutBack, PollTask, Polled, Pending, Park, Woken,
                StealToken, QueueFromFuture, QueueFromHandle, Returned, ExecAt, NotifySelf, atomicWaker,
                executor, threads, vars
  <2> QED
    BY <2>1 DEF Bits, Registering
<1>2. CASE ExecRegisters
  <2>1. /\ wpc' = wpc /\ UNCHANGED <<got, unparked, token>>
        /\ state \subseteq {REGISTERING, WAKING} /\ REGISTERING # WAKING
    BY <1>2 DEF Bits, ExecRegisters, Register, StoreWaker, Release, TakeBack, Reset, notify, threads,
                REGISTERING, WAKING
  <2>2. CASE Register
    BY <2>1, <2>2 DEF Bits, Register, NotifySelf, Registering, WAITING
  <2>3. CASE StoreWaker \/ TakeBack
    BY <2>1, <2>3 DEF Bits, StoreWaker, TakeBack, ExecAt, Registering
  <2>4. CASE Release
    BY <2>1, <2>4 DEF Bits, Release, Registering, WAITING
  <2>5. CASE Reset
    BY <2>1, <2>5 DEF Bits, Reset, NotifySelf, Registering, WAITING
  <2> QED
    BY <1>2, <2>2, <2>3, <2>4, <2>5 DEF ExecRegisters
<1>3. ASSUME NEW w \in Thread, Wakes(w) PROVE Bits'
  <2>1. /\ epc' = epc /\ wpc' = [wpc EXCEPT ![w] = wpc'[w]] /\ REGISTERING # WAKING
        /\ Registering' = Registering
        /\ \A v \in Thread : v # w => wpc'[v] = wpc[v]
    BY <1>3 DEF Wakes, Swap, Link, FetchOr, Take, ClearBit, ThreadNotifies, ThreadUnparks, ThreadAt,
                executor, Threads, REGISTERING, WAKING, Registering
  <2>2. CASE Swap(w) \/ Link(w) \/ ThreadNotifies(w) \/ ThreadUnparks(w)
    <3>1. wpc[w] \notin {"take", "clear"} /\ wpc'[w] \notin {"take", "clear"} /\ UNCHANGED <<state, cell>>
      BY <2>2 DEF Swap, Link, ThreadNotifies, ThreadUnparks, ThreadAt, Threads, atomicWaker
    <3> QED
      BY <2>1, <3>1 DEF Bits
  <2>3. CASE FetchOr(w)
    <3>1. /\ wpc[w] = "fetch" /\ wpc'[w] = IF state = {} THEN "take" ELSE "idle"
          /\ state' = state \union {WAKING} /\ cell' = cell
      BY <2>3 DEF FetchOr, ThreadAt, Threads, WAITING
    <3>2. CASE state = {}
      BY <2>1, <3>1, <3>2 DEF Bits
    <3>3. CASE state # {}
      BY <2>1, <3>1, <3>3 DEF Bits
    <3> QED
      BY <3>2, <3>3
  <2>4. CASE Take(w)
    <3>1. wpc[w] = "take" /\ wpc'[w] = "clear" /\ state' = state /\ cell' = FALSE
      BY <2>4 DEF Take, ThreadAt, Threads
    <3> QED
      BY <2>1, <3>1 DEF Bits, Registering
  <2>5. CASE ClearBit(w)
    <3>1. /\ wpc[w] = "clear" /\ wpc'[w] \in {"notify", "idle"}
          /\ state' = state \ {WAKING} /\ cell' = cell
      BY <2>5 DEF ClearBit, ThreadAt, Threads
    <3> QED
      BY <2>1, <3>1 DEF Bits, Registering
  <2> QED
    BY <1>3, <2>2, <2>3, <2>4, <2>5 DEF Wakes
<1>4. ASSUME NEW w \in Thread, NEW t \in Task, Claim(w, t) PROVE Bits'
  BY <1>4 DEF Bits, Claim, ThreadAt, atomicWaker, notify, executor, Registering, Threads
<1> QED
  BY <1>1, <1>2, <1>3, <1>4, StepKinds

-----------------------------------------------------------------------------
(* The queues *)

LEMMA AppendRange ==
    ASSUME NEW s \in Seq(Task), NEW t \in Task, NoRepeats(s), t \notin Ranged(s)
    PROVE  /\ Append(s, t) \in Seq(Task) /\ NoRepeats(Append(s, t))
           /\ Ranged(Append(s, t)) = Ranged(s) \union {t}
<1>1. /\ Len(s) \in Nat /\ DOMAIN s = 1 .. Len(s)
      /\ Append(s, t) \in Seq(Task) /\ DOMAIN Append(s, t) = 1 .. Len(s) + 1
      /\ Append(s, t)[Len(s) + 1] = t
      /\ \A i \in 1 .. Len(s) : Append(s, t)[i] = s[i]
  OBVIOUS
<1> DEFINE a == Append(s, t)
<1> HIDE DEF a
<1>2. /\ DOMAIN a = 1 .. Len(s) + 1 /\ a[Len(s) + 1] = t
      /\ \A i \in 1 .. Len(s) : a[i] = s[i] /\ s[i] # t
  BY <1>1 DEF a, Ranged
<1>3. NoRepeats(a)
  <2> SUFFICES ASSUME NEW i \in 1 .. Len(s) + 1, NEW j \in 1 .. Len(s) + 1, a[i] = a[j] PROVE i = j
    BY <1>2 DEF NoRepeats
  <2>1. CASE i = Len(s) + 1 \/ j = Len(s) + 1
    BY <1>1, <1>2, <2>1
  <2>2. CASE i # Len(s) + 1 /\ j # Len(s) + 1
    BY <1>1, <1>2, <2>2 DEF NoRepeats
  <2> QED
    BY <2>1, <2>2
<1>4. Ranged(a) = Ranged(s) \union {t}
  <2>1. ASSUME NEW i \in 1 .. Len(s) + 1 PROVE a[i] \in Ranged(s) \union {t}
    BY <1>1, <1>2 DEF Ranged
  <2>2. ASSUME NEW i \in 1 .. Len(s) PROVE s[i] \in Ranged(a)
    <3>1. i \in DOMAIN a /\ a[i] = s[i]
      BY <1>1, <1>2
    <3> QED
      BY <3>1 DEF Ranged
  <2>3. t \in Ranged(a)
    <3>1. Len(s) + 1 \in DOMAIN a
      BY <1>1, <1>2
    <3> QED
      BY <1>2, <3>1 DEF Ranged
  <2>4. Ranged(a) \subseteq Ranged(s) \union {t}
    BY <1>2, <2>1 DEF Ranged
  <2>5. Ranged(s) \subseteq Ranged(a)
    BY <1>1, <2>2 DEF Ranged
  <2> QED
    BY <2>3, <2>4, <2>5
<1> QED
  BY <1>1, <1>3, <1>4 DEF a

LEMMA TailRange ==
    ASSUME NEW s \in Seq(Task), s # <<>>, NoRepeats(s)
    PROVE  /\ Tail(s) \in Seq(Task) /\ NoRepeats(Tail(s)) /\ Head(s) \in Task
           /\ Head(s) \notin Ranged(Tail(s))
           /\ Ranged(s) = Ranged(Tail(s)) \union {Head(s)}
<1>1. /\ Len(s) \in Nat /\ Len(s) # 0 /\ DOMAIN s = 1 .. Len(s) /\ Head(s) = s[1]
      /\ Tail(s) \in Seq(Task) /\ DOMAIN Tail(s) = 1 .. Len(s) - 1
      /\ \A i \in 1 .. Len(s) - 1 : Tail(s)[i] = s[i + 1]
      /\ Head(s) \in Task
  OBVIOUS
<1> DEFINE r == Tail(s)
<1> HIDE DEF r
<1>2. DOMAIN r = 1 .. Len(s) - 1 /\ \A i \in 1 .. Len(s) - 1 : r[i] = s[i + 1] /\ i + 1 \in 1 .. Len(s)
  BY <1>1 DEF r
<1>3. NoRepeats(r)
  BY <1>1, <1>2 DEF NoRepeats
<1>4. s[1] \notin Ranged(r)
  BY <1>1, <1>2 DEF NoRepeats, Ranged
<1>5. Ranged(r) \union {s[1]} \subseteq Ranged(s)
  <2>1. 1 \in DOMAIN s
    BY <1>1
  <2> QED
    BY <1>1, <1>2, <2>1 DEF Ranged
<1>6. Ranged(s) \subseteq Ranged(r) \union {s[1]}
  <2> SUFFICES ASSUME NEW i \in 1 .. Len(s), i # 1 PROVE s[i] \in Ranged(r)
    BY <1>1 DEF Ranged
  <2>1. i - 1 \in 1 .. Len(s) - 1 /\ (i - 1) + 1 = i
    BY <1>1
  <2>2. i - 1 \in DOMAIN r /\ r[i - 1] = s[i]
    BY <1>2, <2>1
  <2> QED
    BY <2>2 DEF Ranged
<1> QED
  BY <1>1, <1>3, <1>4, <1>5, <1>6 DEF r

LEMMA EntriesAreRange == Entries = Ranged(ready) /\ Entries' = Ranged(ready')
  BY DEF Entries, Ranged

\* Steps that leave the queues alone.
LEMMA QueuesStay ==
    ASSUME Queues, UNCHANGED <<arrivals, queueVars, live, queued, wtask, cur>>,
           epc' = epc \/ (epc # "poll" /\ epc' # "poll"), polled' \in {{}, polled},
           \A w \in Thread : wpc[w] \in {"swap", "link"} \/ wpc'[w] \in {"swap", "link"} => wpc'[w] = wpc[w]
    PROVE  Queues'
<1>1. UNCHANGED <<fresh, incoming, ready, unlinked, live, queued, wtask, cur>>
  BY DEF arrivals, queueVars
<1>2. Entries' = Entries
  BY <1>1 DEF Entries
<1>3. \A w \in Thread : (wpc'[w] = "swap" <=> wpc[w] = "swap") /\ (wpc'[w] = "link" <=> wpc[w] = "link")
  OBVIOUS
<1>4. {wtask'[w] : w \in {v \in Thread : wpc'[v] = "link"}} = {wtask[w] : w \in {v \in Thread : wpc[v] = "link"}}
  BY <1>1, <1>3
<1>5. (epc' = "poll" <=> cur' # None) /\ (cur' # None => cur' \in live') /\ polled' \subseteq live' \union queued'
  BY <1>1 DEF Queues
<1> QED
  BY <1>1, <1>2, <1>3, <1>4, <1>5 DEF Queues, Ranged, NoRepeats

\* The steps of the executor that touch them.
LEMMA ExecQueues ==
    ASSUME Queues, Threads,
           \/ AddIncoming \/ Polled \/ \E t \in Task : TakeReleased(t) \/ PutBack(t) \/ PollTask(t)
           \/ \E t \in Task : QueueFromFuture(t) \/ QueueFromHandle(t)
    PROVE  Queues'
<1>0. UNCHANGED <<wpc, wtask, unlinked>>
  BY DEF AddIncoming, Polled, TakeReleased, PutBack, PollTask, QueueFromFuture, QueueFromHandle,
         DequeueData, Enqueue, threads, pool, queueVars
<1>1. CASE AddIncoming
  <2> DEFINE t == Head(incoming)
  <2>1. /\ incoming # <<>> /\ incoming' = Tail(incoming) /\ ready' = Append(ready, t)
        /\ live' = live \union {t} /\ queued' = queued \union {t}
        /\ UNCHANGED <<fresh, cur, epc, polled>>
    BY <1>1 DEF AddIncoming, Enqueue, cycle, executor
  <2>2. /\ Tail(incoming) \in Seq(Task) /\ NoRepeats(Tail(incoming)) /\ t \in Task
        /\ t \notin Ranged(Tail(incoming)) /\ Ranged(incoming) = Ranged(Tail(incoming)) \union {t}
    BY <2>1, TailRange DEF Queues
  <2> HIDE DEF t
  <2>3. t \notin live \union queued /\ t \notin Entries /\ t \notin fresh
    BY <2>2 DEF Queues
  <2>4. ready' \in Seq(Task) /\ NoRepeats(ready') /\ Entries' = Entries \union {t}
    BY <2>1, <2>2, <2>3, AppendRange, EntriesAreRange DEF Queues
  <2> QED
    BY <1>0, <2>1, <2>2, <2>3, <2>4 DEF Queues
<1>2. CASE Polled
  <2>1. /\ epc = "poll" /\ epc' = "dequeue" /\ cur' = None /\ UNCHANGED <<ready, fresh, incoming, polled>>
        /\ \/ live' = live \ {cur} /\ queued' = queued \union {cur}
           \/ live' = live /\ queued' = queued
    BY <1>2 DEF Polled, ExecAt, arrivals, queueVars
  <2>2. Entries' = Entries /\ cur \in live
    BY <2>1 DEF Entries, Queues
  <2> QED
    BY <1>0, <2>1, <2>2 DEF Queues
<1>3. ASSUME NEW t \in Task, TakeReleased(t) \/ PollTask(t) PROVE Queues'
  <2>1. ready # <<>> /\ t = Head(ready) /\ ready' = Tail(ready) /\ UNCHANGED <<fresh, incoming, live>>
    BY <1>3 DEF TakeReleased, PollTask, DequeueData, TakesHead, arrivals
  <2>2. /\ ready' \in Seq(Task) /\ NoRepeats(ready') /\ t \notin Entries'
        /\ Entries = Entries' \union {t}
    BY <2>1, TailRange, EntriesAreRange DEF Queues
  <2>3. CASE TakeReleased(t)
    <3>1. UNCHANGED <<queued, cur, epc, polled>>
      BY <2>3 DEF TakeReleased, cycle, executor
    <3> QED
      BY <1>0, <2>1, <2>2, <3>1 DEF Queues
  <2>4. CASE PollTask(t)
    <3>1. /\ queued' = queued \ {t} /\ polled' = polled \union {t} /\ cur' = t /\ epc' = "poll" /\ t \in live
      BY <2>4 DEF PollTask, ExecAt
    <3>2. t # None
      BY NoTaskAssumption
    <3> QED
      BY <1>0, <2>1, <2>2, <3>1, <3>2 DEF Queues
  <2> QED
    BY <1>3, <2>3, <2>4
<1>4. ASSUME NEW t \in Task, PutBack(t) PROVE Queues'
  <2>1. /\ ready # <<>> /\ t = Head(ready) /\ ready' = Append(Tail(ready), t)
        /\ UNCHANGED <<fresh, incoming, live, queued, polled, cur>> /\ epc = "dequeue" /\ epc' \in {"stalled", "dequeue"}
    BY <1>4 DEF PutBack, TakesHead, arrivals
  <2>2. /\ Tail(ready) \in Seq(Task) /\ NoRepeats(Tail(ready)) /\ t \notin Ranged(Tail(ready))
        /\ Entries = Ranged(Tail(ready)) \union {t}
    BY <2>1, TailRange, EntriesAreRange DEF Queues
  <2>3. ready' \in Seq(Task) /\ NoRepeats(ready') /\ Entries' = Entries
    BY <2>1, <2>2, AppendRange, EntriesAreRange
  <2> QED
    BY <1>0, <2>1, <2>3 DEF Queues
<1>5. ASSUME NEW t \in Task, QueueFromFuture(t) \/ QueueFromHandle(t) PROVE Queues'
  <2>1. /\ t \in fresh /\ fresh' = fresh \ {t} /\ incoming' = Append(incoming, t)
        /\ UNCHANGED <<ready, live, queued, polled, cur, epc>>
    BY <1>5 DEF QueueFromFuture, QueueFromHandle, pool, queueVars, cycle, executor
  <2>2. /\ incoming' \in Seq(Task) /\ NoRepeats(incoming')
        /\ Ranged(incoming') = Ranged(incoming) \union {t}
    BY <2>1, AppendRange DEF Queues
  <2>3. Entries' = Entries
    BY <2>1 DEF Entries
  <2> QED
    BY <1>0, <2>1, <2>2, <2>3 DEF Queues
<1> QED
  BY <1>1, <1>2, <1>3, <1>4, <1>5

\* The steps of a thread that touch them.
LEMMA ThreadQueues ==
    ASSUME Queues, Threads, NEW w \in Thread, Swap(w) \/ Link(w) \/ \E t \in Task : Claim(w, t)
    PROVE  Queues'
<1>0. /\ UNCHANGED <<fresh, incoming, live, cur, epc, polled>>
      /\ \A v \in Thread : v # w => wpc'[v] = wpc[v] /\ wtask'[v] = wtask[v]
  BY DEF Swap, Link, Claim, ThreadAt, arrivals, cycle, executor, Threads
<1>1. ASSUME NEW t \in Task, Claim(w, t) PROVE Queues'
  <2>1. /\ wpc[w] = "idle" /\ wpc'[w] = "swap" /\ wtask'[w] = t /\ t \in live \ queued
        /\ queued' = queued \union {t} /\ UNCHANGED <<ready, unlinked>>
    BY <1>1 DEF Claim, ThreadAt, Threads, queueVars
  <2>2. Entries' = Entries /\ t \notin Entries
    BY <2>1 DEF Entries, Queues
  <2>3. \A v \in Thread : wpc[v] = "link" => wpc'[v] = "link" /\ wtask'[v] = wtask[v]
    BY <1>0, <2>1
  <2>4. unlinked' \subseteq {wtask'[v] : v \in {x \in Thread : wpc'[x] = "link"}}
    BY <2>1, <2>3 DEF Queues
  <2>5. \A v \in Thread : v # w /\ wpc'[v] = "swap" => wtask'[v] \in queued \intersect Task /\ wtask'[v] \notin Entries /\ wtask'[v] # t
    BY <1>0, <2>1 DEF Queues
  <2> QED
    BY <1>0, <2>1, <2>2, <2>4, <2>5 DEF Queues
<1>2. CASE Swap(w)
  <2> DEFINE t == wtask[w]
  <2>1. /\ wpc[w] = "swap" /\ wpc'[w] = "link" /\ wtask' = wtask /\ queued' = queued
        /\ ready' = Append(ready, t) /\ unlinked' = unlinked \union {t}
    BY <1>2 DEF Swap, ThreadAt, SwapHead, Threads
  <2>2. t \in queued \intersect Task /\ t \notin Entries
    BY <2>1 DEF Queues
  <2>3. ready' \in Seq(Task) /\ NoRepeats(ready') /\ Entries' = Entries \union {t}
    BY <2>1, <2>2, AppendRange, EntriesAreRange DEF Queues
  <2>4. unlinked' \subseteq {wtask'[v] : v \in {x \in Thread : wpc'[x] = "link"}}
    BY <1>0, <2>1 DEF Queues
  <2>5. \A v \in Thread : wpc'[v] = "swap" => v # w /\ wpc[v] = "swap" /\ wtask[v] # t
    BY <1>0, <2>1 DEF Queues
  <2> HIDE DEF t
  <2> QED
    BY <1>0, <2>1, <2>2, <2>3, <2>4, <2>5 DEF Queues
<1>3. CASE Link(w)
  <2>1. /\ wpc[w] = "link" /\ wpc'[w] = "fetch" /\ queued' = queued /\ ready' = ready
        /\ unlinked' = unlinked \ {wtask[w]}
    BY <1>3 DEF Link, ThreadAt, LinkPrev, Threads
  <2>2. Entries' = Entries
    BY <2>1 DEF Entries
  <2>3. unlinked' \subseteq {wtask'[v] : v \in {x \in Thread : wpc'[x] = "link"}}
    <3> SUFFICES ASSUME NEW t \in unlinked, t # wtask[w]
                 PROVE  \E v \in Thread : wpc'[v] = "link" /\ wtask'[v] = t
      BY <2>1
    <3>1. PICK v \in Thread : wpc[v] = "link" /\ wtask[v] = t
      BY DEF Queues
    <3> QED
      BY <1>0, <3>1
  <2>4. \A v \in Thread : wpc'[v] = "swap" => v # w /\ wpc[v] = "swap" /\ wtask'[v] = wtask[v]
    BY <1>0, <2>1
  <2> QED
    BY <1>0, <2>1, <2>2, <2>3, <2>4 DEF Queues
<1> QED
  BY <1>1, <1>2, <1>3

LEMMA QueuesStep == Queues /\ Threads /\ [Next]_vars => Queues'
<1> SUFFICES ASSUME Queues, Threads, [Next]_vars PROVE Queues'
  OBVIOUS
<1>1. CASE \/ AddIncoming \/ Polled \/ \E t \in Task : TakeReleased(t) \/ PutBack(t) \/ PollTask(t)
           \/ \E t \in Task : QueueFromFuture(t) \/ QueueFromHandle(t)
  BY <1>1, ExecQueues
<1>2. CASE ExecRegisters \/ PollPool \/ LookForNew \/ NotifySwap \/ NotifyUnpark \/ Empty \/ Inconsistent
           \/ Pending \/ Park \/ Woken \/ StealToken \/ Returned \/ UNCHANGED vars
  <2>1. /\ UNCHANGED <<arrivals, queueVars, live, queued, wtask, cur>> /\ wpc' = wpc
        /\ epc' = epc \/ (epc # "poll" /\ epc' # "poll")
        /\ polled' \in {{}, polled}
    BY <1>2 DEF ExecRegisters, Register, StoreWaker, Release, TakeBack, Reset, PollPool, LookForNew, NotifySwap,
                NotifyUnpark, Empty, Inconsistent, Pending, Park, Woken, StealToken, Returned, ExecAt, NotifySelf,
                pool, cycle, executor, threads, vars, Threads
  <2> QED
    BY <2>1, QueuesStay
<1>3. ASSUME NEW w \in Thread, Wakes(w) PROVE Queues'
  <2>1. CASE Swap(w) \/ Link(w)
    BY <2>1, ThreadQueues
  <2>2. CASE FetchOr(w) \/ Take(w) \/ ClearBit(w) \/ ThreadNotifies(w) \/ ThreadUnparks(w)
    <3>1. /\ UNCHANGED <<arrivals, queueVars, live, queued, wtask, cur, epc, polled>>
          /\ wpc[w] \notin {"swap", "link"} /\ wpc'[w] \notin {"swap", "link"}
          /\ \A v \in Thread : v # w => wpc'[v] = wpc[v]
      BY <2>2 DEF FetchOr, Take, ClearBit, ThreadNotifies, ThreadUnparks, ThreadAt, pool, cycle, executor, Threads
    <3> QED
      BY <3>1, QueuesStay
  <2> QED
    BY <1>3, <2>1, <2>2 DEF Wakes
<1>4. ASSUME NEW w \in Thread, NEW t \in Task, Claim(w, t) PROVE Queues'
  BY <1>4, ThreadQueues
<1> QED
  BY <1>1, <1>2, <1>3, <1>4, StepKinds DEF ExecElsewhere

-----------------------------------------------------------------------------
(* What a step of a thread that wakes leaves of those that come to notify *)

\* Its frame.
LEMMA WakesFrame ==
    ASSUME Threads, NEW w \in Thread, Wakes(w)
    PROVE  /\ UNCHANGED <<arrivals, live, cycle, executor>>
           /\ \A v \in Thread : v # w => wpc'[v] = wpc[v] /\ got'[v] = got[v]
           /\ ready' # ready => Swap(w)
           /\ cell' # cell => Take(w)
           /\ state' # state => FetchOr(w) \/ ClearBit(w)
           /\ unparked' # unparked => ThreadNotifies(w) /\ unparked'
           /\ token' # token => ThreadUnparks(w) /\ token'
<1>1. UNCHANGED <<arrivals, live, cycle, executor>>
  BY DEF Wakes, Swap, Link, FetchOr, Take, ClearBit, ThreadNotifies, ThreadUnparks, pool
<1>2. \A v \in Thread : v # w => wpc'[v] = wpc[v] /\ got'[v] = got[v]
  BY DEF Wakes, Swap, Link, FetchOr, Take, ClearBit, ThreadNotifies, ThreadUnparks, ThreadAt, Threads
<1>3. Link(w) => UNCHANGED <<ready, state, cell, unparked, token>>
  BY DEF Link, LinkPrev, atomicWaker, notify
<1>4. Swap(w) => UNCHANGED <<state, cell, unparked, token>>
  BY DEF Swap, atomicWaker, notify
<1>5. /\ FetchOr(w) => UNCHANGED <<ready, cell, unparked, token>>
      /\ Take(w) => UNCHANGED <<ready, state, unparked, token>>
      /\ ClearBit(w) => UNCHANGED <<ready, cell, unparked, token>>
  BY DEF FetchOr, Take, ClearBit, pool, queueVars, notify
<1>6. /\ ThreadNotifies(w) => UNCHANGED <<ready, state, cell, token>> /\ unparked'
      /\ ThreadUnparks(w) => UNCHANGED <<ready, state, cell, unparked>> /\ token'
  BY DEF ThreadNotifies, ThreadUnparks, pool, queueVars, atomicWaker
<1> QED
  BY <1>1, <1>2, <1>3, <1>4, <1>5, <1>6 DEF Wakes

\* Who brings a waker goes on to do so.
LEMMA BringsStay ==
    ASSUME Threads, NEW w \in Thread, Wakes(w), NEW v \in Thread, Brings(v)
    PROVE  Brings(v)' \/ (ThreadNotifies(w) /\ v = w)
<1>1. CASE v # w
  BY <1>1, WakesFrame DEF Brings
<1>2. CASE v = w /\ ~ThreadNotifies(w)
  <2>1. wpc[w] = "clear" /\ got[w] /\ ClearBit(w)
    BY <1>2 DEF Brings, Wakes, Swap, Link, FetchOr, Take, ClearBit, ThreadNotifies, ThreadUnparks, ThreadAt
  <2>2. wpc'[w] = "notify"
    BY <2>1 DEF ClearBit, ThreadAt, Threads
  <2> QED
    BY <1>2, <2>2 DEF Brings
<1> QED
  BY <1>1, <1>2

\* The waker leaves the cell in the hands of one who brings it.
LEMMA CellBrings ==
    ASSUME Threads, NEW w \in Thread, Wakes(w), cell
    PROVE  cell' \/ \E v \in Thread : Brings(v)'
<1>1. CASE Take(w)
  <2>1. wpc'[w] = "clear" /\ got'[w]
    BY <1>1 DEF Take, ThreadAt, Threads
  <2> QED
    BY <2>1 DEF Brings
<1>2. CASE ~Take(w)
  BY <1>2, WakesFrame
<1> QED
  BY <1>1, <1>2

\* The executor that will notify itself does.
LEMMA NotifiesStay ==
    ASSUME Bits, Threads, NEW w \in Thread, Wakes(w), Notifies
    PROVE  Notifies'
<1>1. UNCHANGED epc
  BY WakesFrame DEF executor
<1>2. CASE epc \in {"takeback", "reset", "notify"}
  BY <1>1, <1>2 DEF Notifies
<1>3. CASE epc \in {"store", "release"} /\ WAKING \in state
  <2>1. ~ClearBit(w)
    BY <1>3 DEF Bits, ClearBit, ThreadAt, Registering, REGISTERING, WAKING
  <2>2. WAKING \in state'
    BY <1>3, <2>1, WakesFrame DEF FetchOr
  <2> QED
    BY <1>1, <1>3, <2>2 DEF Notifies
<1> QED
  BY <1>2, <1>3 DEF Notifies

\* Who comes to wake goes on to come, and one who finds the AtomicWaker taken has left
\* a bit for the one that has it.
LEMMA ComesStay ==
    ASSUME Bits, Threads, NEW w \in Thread, Wakes(w), NEW v \in Thread, Comes(v)
    PROVE  \/ \E u \in Thread : Comes(u)'
           \/ Notifies'
           \/ ThreadNotifies(w) /\ v = w
           \/ FetchOr(w) /\ v = w /\ ~cell
<1>1. CASE Brings(v)
  BY <1>1, BringsStay DEF Comes
<1>2. CASE v # w /\ wpc[v] \in {"link", "fetch"}
  BY <1>2, WakesFrame DEF Comes
<1>3. CASE v # w /\ wpc[v] = "take" /\ cell
  <2>1. ~Take(w)
    BY <1>3 DEF Bits, Take, ThreadAt
  <2>2. wpc'[v] = "take" /\ cell'
    BY <1>3, <2>1, WakesFrame
  <2> QED
    BY <2>2 DEF Comes
<1>4. CASE v = w /\ wpc[w] = "link"
  <2>1. Link(w)
    BY <1>4 DEF Wakes, Swap, Link, FetchOr, Take, ClearBit, ThreadNotifies, ThreadUnparks, ThreadAt
  <2>2. wpc'[w] = "fetch"
    BY <2>1 DEF Link, ThreadAt, Threads
  <2> QED
    BY <2>2 DEF Comes
<1>5. CASE v = w /\ wpc[w] = "take" /\ cell
  <2>1. Take(w)
    BY <1>5 DEF Wakes, Swap, Link, FetchOr, Take, ClearBit, ThreadNotifies, ThreadUnparks, ThreadAt
  <2>2. wpc'[w] = "clear" /\ got'[w]
    BY <1>5, <2>1 DEF Take, ThreadAt, Threads
  <2> QED
    BY <2>2 DEF Comes, Brings
<1>6. CASE v = w /\ wpc[w] = "fetch" /\ cell
  <2>1. FetchOr(w)
    BY <1>6 DEF Wakes, Swap, Link, FetchOr, Take, ClearBit, ThreadNotifies, ThreadUnparks, ThreadAt
  <2>2. /\ wpc'[w] = IF state = {} THEN "take" ELSE "idle"
        /\ state' = state \union {WAKING} /\ UNCHANGED <<cell, epc>>
        /\ \A u \in Thread : u # w => wpc'[u] = wpc[u] /\ got'[u] = got[u]
    BY <2>1, WakesFrame DEF FetchOr, ThreadAt, Threads, WAITING, executor
  <2>3. CASE state = {}
    BY <1>6, <2>2, <2>3 DEF Comes
  <2>4. CASE REGISTERING \in state
    BY <2>2, <2>4 DEF Bits, Registering, Notifies
  <2>5. CASE state = {WAKING}
    <3>1. PICK u \in Thread : wpc[u] \in {"take", "clear"}
      BY <2>5 DEF Bits
    <3>2. u # w /\ wpc[u] = "take"
      BY <1>6, <3>1 DEF Bits
    <3> QED
      BY <1>6, <2>2, <3>2 DEF Comes
  <2> QED
    BY <2>3, <2>4, <2>5 DEF Bits
<1>7. CASE v = w /\ wpc[w] = "fetch" /\ ~cell
  BY <1>7 DEF Wakes, Swap, Link, FetchOr, Take, ClearBit, ThreadNotifies, ThreadUnparks, ThreadAt
<1> QED
  BY <1>1, <1>2, <1>3, <1>4, <1>5, <1>6, <1>7 DEF Comes

\* Only a swap brings an entry, and its thread comes.
LEMMA EntriesCome ==
    ASSUME Threads, NEW w \in Thread, Wakes(w)
    PROVE  Entries' = Entries \/ \E u \in Thread : Comes(u)'
<1>1. CASE Swap(w)
  BY <1>1 DEF Swap, ThreadAt, Threads, Comes
<1>2. CASE ~Swap(w)
  BY <1>2, WakesFrame DEF Entries
<1> QED
  BY <1>1, <1>2

-----------------------------------------------------------------------------
(* What a step of the executor, or of who queues a task, leaves of them *)

\* Outside of register.
LEMMA ExecFrame ==
    ASSUME Threads, ExecElsewhere
    PROVE  /\ UNCHANGED <<state, cell, wpc, got>>
           /\ \A v \in Thread : (Brings(v)' <=> Brings(v)) /\ (Comes(v)' <=> Comes(v))
<1>1. UNCHANGED <<state, cell, wpc, got>>
  BY DEF ExecElsewhere, AddIncoming, PollPool, LookForNew, NotifySwap, NotifyUnpark, Empty, Inconsistent,
         TakeReleased, PutBack, PollTask, Polled, Pending, Park, Woken, StealToken, QueueFromFuture,
         QueueFromHandle, Returned, atomicWaker, threads, vars
<1> QED
  BY <1>1 DEF Brings, Comes

\* A claimed task is not yet in the queue.
LEMMA ClaimFrame ==
    ASSUME Threads, NEW w \in Thread, NEW t \in Task, Claim(w, t)
    PROVE  /\ UNCHANGED <<arrivals, Entries, live, cycle, atomicWaker, notify, executor>>
           /\ \A v \in Thread :
                 /\ Brings(v) => Brings(v)'
                 /\ Comes(v) => Comes(v)'
                 /\ wpc[v] = "unpark" => wpc'[v] = "unpark"
<1>1. /\ UNCHANGED <<arrivals, queueVars, live, cycle, atomicWaker, notify, executor, got>>
      /\ wpc[w] = "idle" /\ \A v \in Thread : v # w => wpc'[v] = wpc[v]
  BY DEF Claim, ThreadAt, Threads
<1>2. UNCHANGED <<Entries, cell>>
  BY <1>1 DEF Entries, queueVars, atomicWaker
<1> QED
  BY <1>1, <1>2 DEF Brings, Comes

-----------------------------------------------------------------------------
(* The waker, once registered, is in the cell or with one who brings it *)

Covered == cell \/ unparked \/ Notifies \/ \E w \in Thread : Brings(w)

LEMMA CoveredWakes ==
    ASSUME Bits, Threads, NEW w \in Thread, Wakes(w), Covered
    PROVE  Covered'
<1>1. CASE cell
  BY <1>1, CellBrings DEF Covered
<1>2. CASE unparked
  BY <1>2, WakesFrame DEF Covered
<1>3. CASE Notifies
  BY <1>3, NotifiesStay DEF Covered
<1>4. ASSUME NEW v \in Thread, Brings(v) PROVE Covered'
  <2>1. CASE Brings(v)'
    BY <2>1 DEF Covered
  <2>2. CASE ThreadNotifies(w)
    BY <2>2 DEF ThreadNotifies, Covered
  <2> QED
    BY <1>4, <2>1, <2>2, BringsStay
<1> QED
  BY <1>1, <1>2, <1>3, <1>4 DEF Covered

LEMMA RegisteredStep ==
    ASSUME Bits, Threads, Registered, [Next]_vars
    PROVE  Registered'
<1> SUFFICES ASSUME ~Asleep', epc' # "drain", InRegister' /\ epc' # "release" => polled' # {}
             PROVE  Covered'
  BY DEF Registered, Covered
<1> DEFINE Before == ~Asleep /\ epc # "drain" /\ (InRegister /\ epc # "release" => polled # {})
<1>0. Before => Covered
  BY DEF Registered, Covered
<1>1. CASE ExecElsewhere
  <2>1. CASE NotifySwap \/ NotifyUnpark
    <3>1. unparked'
      BY <2>1 DEF NotifySwap, NotifyUnpark, Threads
    <3> QED
      BY <3>1 DEF Covered
  <2>2. CASE Inconsistent
    BY <2>2 DEF Inconsistent, NotifySelf, Covered, Notifies
  <2>3. CASE PollPool
    <3>1. epc = "refill" /\ UNCHANGED unparked
      BY <2>3 DEF PollPool, InRegister, notify
    <3>2. cell \/ unparked \/ \E w \in Thread : Brings(w)
      BY <1>0, <3>1 DEF Asleep, InRegister, Covered, Notifies
    <3> QED
      BY <1>1, <3>1, <3>2, ExecFrame DEF Covered
  <2>4. CASE \/ AddIncoming \/ LookForNew \/ Empty \/ Polled \/ StealToken
             \/ \E t \in Task : TakeReleased(t) \/ PutBack(t) \/ PollTask(t)
             \/ \E t \in Task : QueueFromFuture(t) \/ QueueFromHandle(t)
             \/ Returned \/ UNCHANGED vars
    <3>1. /\ UNCHANGED unparked
          /\ \/ UNCHANGED <<epc, polled>>
             \/ epc \in {"ready", "stalled", "dequeue", "poll"}
                /\ epc' \in {"refill", "done", "pending", "ready", "stalled", "dequeue", "poll"}
      BY <2>4 DEF AddIncoming, LookForNew, Empty, Polled, StealToken, TakeReleased, PutBack, PollTask,
                  QueueFromFuture, QueueFromHandle, Returned, ExecAt, notify, executor, vars, pool, cycle
    <3>2. Before
      BY <3>1 DEF Asleep, InRegister
    <3>3. Notifies <=> Notifies'
      BY <1>1, <3>1, ExecFrame DEF Notifies
    <3> QED
      BY <1>0, <1>1, <3>1, <3>2, <3>3, ExecFrame DEF Covered
  <2>5. CASE Pending \/ Park \/ Woken
    BY <2>5 DEF Pending, Park, Woken, ExecAt, Asleep
  <2> QED
    BY <1>1, <2>1, <2>2, <2>3, <2>4, <2>5 DEF ExecElsewhere
<1>2. CASE ExecRegisters
  <2>1. CASE StoreWaker
    BY <2>1 DEF StoreWaker, Covered
  <2>2. CASE Release
    BY <2>2 DEF Release, Bits, Covered
  <2>3. CASE TakeBack \/ Reset
    BY <2>3 DEF TakeBack, Reset, ExecAt, NotifySelf, Covered, Notifies
  <2>4. CASE Register
    <3>1. CASE epc' = "notify"
      BY <3>1 DEF Covered, Notifies
    <3>2. CASE epc' = "store"
      <4>1. Before /\ UNCHANGED <<cell, unparked, wpc, got>> /\ ~Notifies
        BY <2>4, <3>2 DEF Register, InRegister, Asleep, notify, threads, Notifies
      <4> QED
        BY <1>0, <4>1 DEF Covered, Brings
    <3> QED
      BY <2>4, <3>1, <3>2 DEF Register, NotifySelf
  <2> QED
    BY <1>2, <2>1, <2>2, <2>3, <2>4 DEF ExecRegisters
<1>3. ASSUME NEW w \in Thread, Wakes(w) PROVE Covered'
  <2>1. Before
    BY <1>3, WakesFrame DEF executor, cycle, Asleep, InRegister
  <2> QED
    BY <1>0, <1>3, <2>1, CoveredWakes
<1>4. ASSUME NEW w \in Thread, NEW t \in Task, Claim(w, t) PROVE Covered'
  <2>1. UNCHANGED <<epc, polled, state, cell, unparked>>
    BY <1>4, ClaimFrame DEF executor, cycle, atomicWaker, notify
  <2>2. Before /\ (Notifies <=> Notifies')
    BY <2>1 DEF Asleep, InRegister, Notifies
  <2> QED
    BY <1>0, <1>4, <2>1, <2>2, ClaimFrame DEF Covered
<1> QED
  BY <1>1, <1>2, <1>3, <1>4, StepKinds

-----------------------------------------------------------------------------
(* A task that waits in the queue has somebody on the way *)

Woke == unparked \/ Notifies \/ \E w \in Thread : Comes(w)

LEMMA WokeWakes ==
    ASSUME Bits, Threads, NEW w \in Thread, Wakes(w), Covered, Woke
    PROVE  Woke'
<1>1. CASE unparked
  BY <1>1, WakesFrame DEF Woke
<1>2. CASE Notifies
  BY <1>2, NotifiesStay DEF Woke
<1>3. ASSUME NEW v \in Thread, Comes(v) PROVE Woke'
  <2>1. CASE ThreadNotifies(w)
    BY <2>1 DEF ThreadNotifies, Woke
  <2>2. CASE FetchOr(w) /\ v = w /\ ~cell
    <3>1. CASE unparked \/ Notifies
      BY <3>1, <1>1, <1>2
    <3>2. ASSUME NEW u \in Thread, Brings(u) PROVE Woke'
      <4>1. u # w
        BY <2>2, <3>2 DEF FetchOr, ThreadAt, Brings
      <4>2. Brings(u)'
        BY <3>2, <4>1, BringsStay
      <4> QED
        BY <4>2 DEF Woke, Comes
    <3> QED
      BY <2>2, <3>1, <3>2 DEF Covered
  <2>3. CASE \/ Notifies' \/ \E u \in Thread : Comes(u)'
    BY <2>3 DEF Woke
  <2> QED
    BY <1>3, <2>1, <2>2, <2>3, ComesStay
<1> QED
  BY <1>1, <1>2, <1>3 DEF Woke

LEMMA RewokenStep ==
    ASSUME Bits, Queues, Threads, Registered, Rewoken, [Next]_vars
    PROVE  Rewoken'
<1> SUFFICES ASSUME ~Asleep', epc' # "drain", (Entries \intersect live \intersect polled)' # {}
             PROVE  Woke'
  BY DEF Rewoken, Woke
<1> DEFINE Again == Entries \intersect live \intersect polled
<1>0. ~Asleep /\ epc # "drain" /\ Again # {} => Woke /\ Covered
  BY DEF Rewoken, Registered, Woke, Covered
<1>1. CASE ExecElsewhere
  <2>1. CASE NotifySwap \/ NotifyUnpark
    <3>1. unparked'
      BY <2>1 DEF NotifySwap, NotifyUnpark, Threads
    <3> QED
      BY <3>1 DEF Woke
  <2>2. CASE Inconsistent
    BY <2>2 DEF Inconsistent, NotifySelf, Woke, Notifies
  <2>3. CASE Pending \/ Park \/ Woken
    BY <2>3 DEF Pending, Park, Woken, ExecAt, Asleep
  <2>4. CASE \/ AddIncoming \/ PollPool \/ LookForNew \/ Empty \/ Polled \/ StealToken
             \/ \E t \in Task : TakeReleased(t) \/ PutBack(t) \/ PollTask(t)
             \/ \E t \in Task : QueueFromFuture(t) \/ QueueFromHandle(t)
             \/ Returned \/ UNCHANGED vars
    <3>1. Again' \subseteq Again
      <4>1. CASE AddIncoming
        <5> DEFINE t == Head(incoming)
        <5>1. /\ incoming # <<>> /\ ready' = Append(ready, t) /\ live' = live \union {t}
              /\ UNCHANGED polled
          BY <4>1 DEF AddIncoming, Enqueue, cycle
        <5>2. t \in Task /\ t \in Ranged(incoming)
          BY <5>1, TailRange DEF Queues
        <5> HIDE DEF t
        <5>3. t \notin polled /\ t \notin Ranged(ready)
          BY <5>2, EntriesAreRange DEF Queues
        <5>4. Entries' = Entries \union {t}
          BY <5>1, <5>2, <5>3, AppendRange, EntriesAreRange DEF Queues
        <5> QED
          BY <5>1, <5>3, <5>4
      <4>2. CASE PollPool \/ LookForNew \/ Empty \/ Polled \/ StealToken \/ Returned \/ UNCHANGED vars
        BY <4>2 DEF PollPool, LookForNew, Empty, Polled, StealToken, Returned, vars, pool, cycle, queueVars,
                    Entries
      <4>3. ASSUME NEW t \in Task, TakeReleased(t) \/ PollTask(t) PROVE Again' \subseteq Again
        <5>1. /\ ready # <<>> /\ ready' = Tail(ready) /\ UNCHANGED live /\ t = Head(ready)
              /\ polled' \subseteq polled \union {t}
          BY <4>3 DEF TakeReleased, PollTask, DequeueData, TakesHead, cycle
        <5>2. Entries' = Entries \ {t}
          BY <5>1, TailRange, EntriesAreRange DEF Queues
        <5> QED
          BY <5>1, <5>2
      <4>4. ASSUME NEW t \in Task, PutBack(t) PROVE Again' \subseteq Again
        <5>1. /\ ready # <<>> /\ t = Head(ready) /\ ready' = Append(Tail(ready), t)
              /\ UNCHANGED <<live, polled>>
          BY <4>4 DEF PutBack, TakesHead
        <5>2. Entries' = Entries
          <6>1. /\ Tail(ready) \in Seq(Task) /\ NoRepeats(Tail(ready)) /\ t \notin Ranged(Tail(ready))
                /\ Entries = Ranged(Tail(ready)) \union {t}
            BY <5>1, TailRange, EntriesAreRange DEF Queues
          <6> QED
            BY <5>1, <6>1, AppendRange, EntriesAreRange
        <5> QED
          BY <5>1, <5>2
      <4>5. ASSUME NEW t \in Task, QueueFromFuture(t) \/ QueueFromHandle(t) PROVE Again' \subseteq Again
        BY <4>5 DEF QueueFromFuture, QueueFromHandle, pool, cycle, queueVars, Entries
      <4> QED
        BY <2>4, <4>1, <4>2, <4>3, <4>4, <4>5
    <3>2. /\ UNCHANGED unparked
          /\ \/ UNCHANGED epc
             \/ epc \in {"refill", "ready", "stalled", "dequeue", "poll"}
             \/ epc = "drain" /\ polled' = {}
          /\ epc' \in {"drain", "register", "refill", "done", "pending", "ready", "stalled", "dequeue", "poll"}
             \/ UNCHANGED epc
      BY <2>4 DEF AddIncoming, PollPool, LookForNew, Empty, Polled, StealToken, TakeReleased, PutBack, PollTask,
                  QueueFromFuture, QueueFromHandle, Returned, ExecAt, notify, executor, vars, pool, cycle
    <3>3. Woke
      BY <1>0, <3>1, <3>2 DEF Asleep
    <3>4. Notifies => Notifies'
      BY <1>1, <3>2, ExecFrame DEF Notifies
    <3> QED
      BY <1>1, <3>2, <3>3, <3>4, ExecFrame DEF Woke
  <2> QED
    BY <1>1, <2>1, <2>2, <2>3, <2>4 DEF ExecElsewhere
<1>2. CASE ExecRegisters
  <2>1. /\ UNCHANGED <<Entries, live, polled, unparked, wpc, got>>
        /\ epc \in {"register", "store", "release", "takeback", "reset"}
    BY <1>2 DEF ExecRegisters, Register, StoreWaker, Release, TakeBack, Reset, ExecAt, pool, cycle, notify,
                threads, Entries, queueVars
  <2>2. Woke
    BY <1>0, <2>1 DEF Asleep
  <2>3. CASE TakeBack \/ Reset
    BY <2>3 DEF TakeBack, Reset, ExecAt, NotifySelf, Woke, Notifies
  <2>4. CASE StoreWaker
    BY <2>1, <2>2, <2>4 DEF StoreWaker, ExecAt, Woke, Comes, Brings, Notifies
  <2>5. CASE Release /\ epc' = "dequeue"
    BY <2>1, <2>2, <2>5 DEF Release, Woke, Comes, Brings, Notifies, REGISTERING, WAKING
  <2>6. CASE Release /\ epc' # "dequeue"
    BY <2>6 DEF Release, Woke, Notifies
  <2>7. CASE Register
    BY <2>1, <2>2, <2>7 DEF Register, NotifySelf, Woke, Comes, Brings, Notifies
  <2> QED
    BY <1>2, <2>3, <2>4, <2>5, <2>6, <2>7 DEF ExecRegisters
<1>3. ASSUME NEW w \in Thread, Wakes(w) PROVE Woke'
  <2>1. UNCHANGED <<epc, live, polled>>
    BY <1>3, WakesFrame DEF executor, cycle
  <2>2. CASE Entries' = Entries
    BY <1>0, <1>3, <2>1, <2>2, WokeWakes DEF Asleep
  <2>3. CASE \E u \in Thread : Comes(u)'
    BY <2>3 DEF Woke
  <2> QED
    BY <1>3, <2>2, <2>3, EntriesCome
<1>4. ASSUME NEW w \in Thread, NEW t \in Task, Claim(w, t) PROVE Woke'
  <2>1. UNCHANGED <<epc, Entries, live, polled, state, unparked>>
    BY <1>4, ClaimFrame DEF executor, cycle, atomicWaker, notify
  <2>2. Woke /\ (Notifies <=> Notifies')
    BY <1>0, <2>1 DEF Asleep, Notifies
  <2> QED
    BY <1>4, <2>1, <2>2, ClaimFrame DEF Woke
<1> QED
  BY <1>1, <1>2, <1>3, <1>4, StepKinds

\* A queue that looks empty and is not has a thread that is about to link an entry.
LEMMA EmptyCome ==
    ASSUME Queues, SeesEmpty, Entries # {}
    PROVE  \E w \in Thread : Comes(w)
<1>1. ready # <<>>
  BY DEF Entries, Queues
<1>2. Head(ready) \in unlinked
  BY <1>1 DEF SeesEmpty
<1> QED
  BY <1>2 DEF Queues, Comes

LEMMA SettledStep ==
    ASSUME Bits, Queues, Threads, Registered, Rewoken, Settled, [Next]_vars
    PROVE  Settled'
<1> SUFFICES ASSUME epc' \in {"stalled", "pending"}, (Entries \intersect live)' # {}
             PROVE  unparked' \/ \E w \in Thread : Comes(w)'
  BY DEF Settled
<1>0. epc \in {"stalled", "pending"} /\ Entries \intersect live # {} =>
          (unparked \/ \E w \in Thread : Comes(w)) /\ Covered
  BY DEF Settled, Registered, Covered, Asleep, InRegister
<1>1. CASE ExecElsewhere
  <2>1. CASE NotifySwap \/ NotifyUnpark
    BY <2>1 DEF NotifySwap, NotifyUnpark, Threads
  <2>2. CASE Empty
    <3>1. SeesEmpty /\ UNCHANGED Entries
      BY <2>2 DEF Empty, pool, queueVars, Entries
    <3> QED
      BY <1>1, <3>1, EmptyCome, ExecFrame
  <2>3. ASSUME NEW t \in Task, PutBack(t) PROVE unparked' \/ \E w \in Thread : Comes(w)'
    <3>1. /\ epc = "dequeue" /\ UNCHANGED unparked
          /\ ready # <<>> /\ t = Head(ready) /\ t \in live /\ t \in polled
      BY <2>3 DEF PutBack, TakesHead, notify
    <3>2. t \in Entries
      BY <3>1, TailRange, EntriesAreRange DEF Queues
    <3>3. unparked \/ \E w \in Thread : Comes(w)
      BY <3>1, <3>2 DEF Rewoken, Asleep, Notifies
    <3> QED
      BY <1>1, <3>1, <3>3, ExecFrame
  <2>4. CASE \/ LookForNew \/ StealToken \/ Returned \/ UNCHANGED vars
             \/ \E t \in Task : QueueFromFuture(t) \/ QueueFromHandle(t)
    <3>1. /\ UNCHANGED <<Entries, live, unparked>>
          /\ epc \in {"stalled", "pending"}
      BY <2>4 DEF LookForNew, StealToken, Returned, QueueFromFuture, QueueFromHandle, executor, vars, pool,
                  notify, queueVars, Entries
    <3> QED
      BY <1>0, <1>1, <3>1, ExecFrame
  <2>5. CASE \/ AddIncoming \/ PollPool \/ Inconsistent \/ Polled \/ Pending \/ Park \/ Woken
             \/ \E t \in Task : TakeReleased(t) \/ PollTask(t)
    BY <2>5 DEF AddIncoming, PollPool, Inconsistent, NotifySelf, Polled, Pending, Park, Woken, TakeReleased,
                PollTask, ExecAt, executor
  <2> QED
    BY <1>1, <2>1, <2>2, <2>3, <2>4, <2>5 DEF ExecElsewhere
<1>2. CASE ExecRegisters
  BY <1>2 DEF ExecRegisters, Register, StoreWaker, Release, TakeBack, Reset, NotifySelf, ExecAt
<1>3. ASSUME NEW w \in Thread, Wakes(w) PROVE unparked' \/ \E u \in Thread : Comes(u)'
  <2>1. UNCHANGED <<epc, live>>
    BY <1>3, WakesFrame DEF executor
  <2>2. CASE Entries' = Entries
    <3>1. Covered /\ Woke
      BY <1>0, <2>1, <2>2 DEF Woke
    <3>2. Woke' /\ ~Notifies'
      <4>1. Woke'
        BY <1>3, <3>1, WokeWakes
      <4>2. ~Notifies'
        BY <2>1 DEF Notifies
      <4> QED
        BY <4>1, <4>2
    <3> QED
      BY <3>2 DEF Woke
  <2> QED
    BY <1>3, <2>2, EntriesCome
<1>4. ASSUME NEW w \in Thread, NEW t \in Task, Claim(w, t) PROVE unparked' \/ \E u \in Thread : Comes(u)'
  <2>1. UNCHANGED <<epc, Entries, live, unparked>>
    BY <1>4, ClaimFrame DEF executor, notify
  <2> QED
    BY <1>0, <1>4, <2>1, ClaimFrame
<1> QED
  BY <1>1, <1>2, <1>3, <1>4, StepKinds

-----------------------------------------------------------------------------
(* A thread that sleeps *)

\* The steps of a thread that wakes while it does.
LEMMA ParkedWakes ==
    ASSUME Bits, Threads, Parked, NEW w \in Thread, Wakes(w), epc = "park"
    PROVE  Parked'
<1> DEFINE Up == token \/ \E v \in Thread : wpc[v] = "unpark"
<1>1. UNCHANGED <<epc, live>>
  BY WakesFrame DEF executor
<1>2. ASSUME Up PROVE Up'
  <2>1. CASE ThreadUnparks(w)
    BY <2>1 DEF ThreadUnparks
  <2>2. CASE ~ThreadUnparks(w)
    <3>1. wpc[w] # "unpark"
      BY <2>2 DEF Wakes, Swap, Link, FetchOr, Take, ClearBit, ThreadNotifies, ThreadAt
    <3> QED
      BY <1>2, <2>2, <3>1, WakesFrame
  <2> QED
    BY <2>1, <2>2
<1>3. ASSUME ThreadNotifies(w) PROVE Up'
  <2>1. CASE unparked
    BY <1>2, <2>1 DEF Parked
  <2>2. CASE ~unparked
    BY <1>3, <2>2 DEF ThreadNotifies, ThreadAt, Threads
  <2> QED
    BY <2>1, <2>2
<1>4. cell' \/ Up' \/ \E v \in Thread : Brings(v)'
  <2>1. CASE cell
    BY <2>1, CellBrings
  <2>2. CASE Up
    BY <1>2, <2>2
  <2>3. ASSUME NEW v \in Thread, Brings(v) PROVE Up' \/ Brings(v)'
    BY <1>3, <2>3, BringsStay
  <2> QED
    BY <2>1, <2>2, <2>3 DEF Parked
<1>5. unparked' => Up'
  <2>1. CASE unparked
    BY <1>2, <2>1 DEF Parked
  <2>2. CASE ~unparked
    BY <1>3, <2>2, WakesFrame
  <2> QED
    BY <2>1, <2>2
<1>6. ASSUME (Entries \intersect live)' # {} PROVE Up' \/ \E v \in Thread : Comes(v)'
  <2>1. CASE Entries' = Entries
    <3>1. CASE Up
      BY <1>2, <3>1
    <3>2. ASSUME NEW v \in Thread, Comes(v) PROVE Up' \/ \E u \in Thread : Comes(u)'
      <4>1. ~Notifies'
        BY <1>1 DEF Notifies
      <4>2. CASE FetchOr(w) /\ v = w /\ ~cell
        <5>1. Up \/ \E u \in Thread : Brings(u)
          BY <4>2 DEF Parked
        <5>2. ASSUME NEW u \in Thread, Brings(u) PROVE \E x \in Thread : Comes(x)'
          <6>1. u # w
            BY <4>2, <5>2 DEF FetchOr, ThreadAt, Brings
          <6> QED
            BY <5>2, <6>1, BringsStay DEF Comes
        <5> QED
          BY <1>2, <5>1, <5>2
      <4> QED
        BY <1>3, <3>2, <4>1, <4>2, ComesStay
    <3> QED
      BY <1>1, <1>6, <2>1, <3>1, <3>2 DEF Parked
  <2> QED
    BY <2>1, EntriesCome
<1> QED
  BY <1>1, <1>4, <1>5, <1>6 DEF Parked

LEMMA ParkedStep ==
    ASSUME Bits, Threads, Registered, Settled, Parked, [Next]_vars
    PROVE  Parked'
<1> SUFFICES ASSUME epc' = "park" PROVE Parked'
  BY DEF Parked
<1>1. CASE ExecElsewhere
  <2>1. CASE Pending
    <3>1. epc = "pending" /\ ~unparked /\ ~unparked' /\ UNCHANGED <<Entries, live>>
      BY <2>1 DEF Pending, pool, queueVars, Entries
    <3>2. cell \/ \E w \in Thread : Brings(w)
      BY <3>1 DEF Registered, Asleep, InRegister, Notifies
    <3>3. Entries \intersect live # {} => \E w \in Thread : Comes(w)
      BY <3>1 DEF Settled
    <3> QED
      BY <1>1, <3>1, <3>2, <3>3, ExecFrame DEF Parked
  <2>2. CASE ~Pending
    <3>1. epc = "park" /\ UNCHANGED <<Entries, live, unparked, token>>
      BY <1>1, <2>2 DEF ExecElsewhere, AddIncoming, PollPool, LookForNew, NotifySwap, NotifyUnpark, Empty,
              Inconsistent, NotifySelf, TakeReleased, PutBack, PollTask, Polled, Park, Woken, StealToken,
              QueueFromFuture, QueueFromHandle, Returned, ExecAt, Threads, executor, pool, queueVars, notify,
              vars, Entries
    <3> QED
      BY <1>1, <3>1, ExecFrame DEF Parked
  <2> QED
    BY <2>1, <2>2
<1>2. CASE ExecRegisters
  BY <1>2 DEF ExecRegisters, Register, StoreWaker, Release, TakeBack, Reset, NotifySelf, ExecAt
<1>3. ASSUME NEW w \in Thread, Wakes(w) PROVE Parked'
  <2>1. epc = "park"
    BY <1>3, WakesFrame DEF executor
  <2> QED
    BY <1>3, <2>1, ParkedWakes
<1>4. ASSUME NEW w \in Thread, NEW t \in Task, Claim(w, t) PROVE Parked'
  <2>1. UNCHANGED <<epc, Entries, live, cell, unparked, token>>
    BY <1>4, ClaimFrame DEF executor, notify, atomicWaker
  <2> QED
    BY <1>4, <2>1, ClaimFrame DEF Parked
<1> QED
  BY <1>1, <1>2, <1>3, <1>4, StepKinds

-----------------------------------------------------------------------------
(* Tasks that a future has queued *)

\* The steps of the executor and of the future that move tasks.
LEMMA SpawnedMoves ==
    ASSUME Queues, Threads, Spawned,
           \/ AddIncoming \/ Polled \/ \E t \in Task : TakeReleased(t) \/ PutBack(t) \/ PollTask(t)
           \/ \E t \in Task : QueueFromFuture(t) \/ QueueFromHandle(t)
    PROVE  Spawned'
<1>1. CASE AddIncoming
  <2> DEFINE t == Head(incoming)
  <2>1. /\ epc \in {"drain", "refill"} /\ UNCHANGED <<epc, inside, cur>> /\ incoming # <<>>
        /\ incoming' = Tail(incoming) /\ live' = live \union {t} /\ ready' = Append(ready, t)
    BY <1>1 DEF AddIncoming, Enqueue, executor
  <2>2. /\ Ranged(incoming) = Ranged(Tail(incoming)) \union {t} /\ t \in Task
    BY <2>1, TailRange DEF Queues
  <2>3. t \notin Entries
    BY <2>2 DEF Queues
  <2>4. Entries' = Entries \union {t}
    BY <2>1, <2>2, <2>3, AppendRange, EntriesAreRange DEF Queues
  <2> HIDE DEF t
  <2> QED
    BY <2>1, <2>2, <2>4 DEF Spawned
<1>2. ASSUME NEW t \in Task, QueueFromFuture(t) \/ QueueFromHandle(t) PROVE Spawned'
  <2>1. /\ t \in fresh /\ incoming' = Append(incoming, t) /\ UNCHANGED <<epc, live, ready, cur>>
        /\ inside' = inside \/ (epc = "poll" /\ inside' = inside \union {t})
    BY <1>2 DEF QueueFromFuture, QueueFromHandle, executor, pool, queueVars
  <2>2. Ranged(incoming') = Ranged(incoming) \union {t}
    BY <2>1, AppendRange DEF Queues
  <2>3. t \notin live /\ t \notin inside /\ t # cur /\ UNCHANGED Entries
    BY <2>1, NoTaskAssumption DEF Queues, Spawned, Entries
  <2> QED
    BY <2>1, <2>2, <2>3 DEF Spawned
<1>3. CASE Polled
  <2>1. /\ epc' = "dequeue" /\ cur' = None /\ live' \in {live, live \ {cur}} /\ UNCHANGED <<incoming, inside, ready>>
    BY <1>3 DEF Polled, ExecAt, arrivals, queueVars
  <2>2. None \notin inside
    BY NoTaskAssumption DEF Queues, Spawned, Ranged
  <2> QED
    BY <2>1, <2>2 DEF Spawned, Entries, Ranged
<1>4. ASSUME NEW t \in Task, TakeReleased(t) \/ PollTask(t) PROVE Spawned'
  <2>1. /\ ready # <<>> /\ t = Head(ready) /\ ready' = Tail(ready) /\ UNCHANGED <<incoming, live>>
        /\ epc' \in {"dequeue", "poll"}
    BY <1>4 DEF TakeReleased, PollTask, DequeueData, TakesHead, ExecAt, arrivals, executor
  <2>2. Entries = Entries' \union {t}
    BY <2>1, TailRange, EntriesAreRange DEF Queues
  <2>3. \/ t \notin live /\ UNCHANGED <<inside, cur>>
        \/ inside' = inside \ {t} /\ cur' = t
    BY <1>4 DEF TakeReleased, PollTask, arrivals
  <2> QED
    BY <2>1, <2>2, <2>3 DEF Spawned, Ranged
<1>5. ASSUME NEW t \in Task, PutBack(t) PROVE Spawned'
  <2>1. /\ ready # <<>> /\ t = Head(ready) /\ ready' = Append(Tail(ready), t)
        /\ UNCHANGED <<incoming, inside, live, cur>> /\ epc' \in {"stalled", "dequeue"}
    BY <1>5 DEF PutBack, TakesHead, arrivals
  <2>2. /\ Tail(ready) \in Seq(Task) /\ NoRepeats(Tail(ready)) /\ t \notin Ranged(Tail(ready))
        /\ Entries = Ranged(Tail(ready)) \union {t}
    BY <2>1, TailRange, EntriesAreRange DEF Queues
  <2>3. Entries' = Entries
    BY <2>1, <2>2, AppendRange, EntriesAreRange
  <2> QED
    BY <2>1, <2>3 DEF Spawned, Ranged
<1> QED
  BY <1>1, <1>2, <1>3, <1>4, <1>5

LEMMA SpawnedStep ==
    ASSUME Queues, Threads, Spawned, [Next]_vars
    PROVE  Spawned'
<1>1. CASE ExecElsewhere
  <2>1. CASE \/ AddIncoming \/ Polled \/ \E t \in Task : TakeReleased(t) \/ PutBack(t) \/ PollTask(t)
             \/ \E t \in Task : QueueFromFuture(t) \/ QueueFromHandle(t)
    BY <2>1, SpawnedMoves
  <2>2. CASE Empty \/ LookForNew
    <3>1. UNCHANGED <<incoming, inside, live, ready, cur>>
      BY <2>2 DEF Empty, LookForNew, arrivals, pool, queueVars
    <3>2. incoming = <<>> => Ranged(incoming) = {}
      BY DEF Ranged
    <3>3. CASE Empty
      BY <3>1, <3>3 DEF Empty, Spawned, Entries, Ranged
    <3>4. CASE LookForNew
      <4>1. epc' \in {"refill", "done", "pending"} /\ (epc' # "refill" => incoming = <<>>)
            /\ (epc' = "done" => epc = "ready")
        BY <3>4 DEF LookForNew
      <4> QED
        BY <3>1, <3>2, <4>1 DEF Spawned, Entries, Ranged
    <3> QED
      BY <2>2, <3>3, <3>4
  <2>3. CASE \/ PollPool \/ NotifySwap \/ NotifyUnpark \/ Inconsistent
             \/ Pending \/ Park \/ Woken \/ StealToken
             \/ Returned \/ UNCHANGED vars
    <3>1. /\ UNCHANGED <<incoming, inside, live, ready, cur>>
          /\ \/ UNCHANGED epc
             \/ epc' \in {"register", "dequeue", "stalled", "unpark", "notify", "drain", "woken"}
             \/ epc = "pending" /\ epc' = "park"
      BY <2>3 DEF PollPool, NotifySwap, NotifyUnpark, Inconsistent, NotifySelf, Pending, Park, Woken,
              StealToken, Returned, ExecAt, Threads, arrivals, pool, queueVars, executor, vars
    <3> QED
      BY <3>1 DEF Spawned, Entries, Ranged
  <2> QED
    BY <1>1, <2>1, <2>2, <2>3 DEF ExecElsewhere
<1>2. CASE ExecRegisters
  <2>1. /\ UNCHANGED <<incoming, inside, live, ready, cur>>
        /\ epc' \in {"store", "release", "dequeue", "takeback", "reset", "notify"}
    BY <1>2 DEF ExecRegisters, Register, StoreWaker, Release, TakeBack, Reset, NotifySelf, ExecAt, arrivals, pool,
                queueVars
  <2> QED
    BY <2>1 DEF Spawned, Entries, Ranged
<1>3. ASSUME NEW w \in Thread, Wakes(w) PROVE Spawned'
  <2>1. UNCHANGED <<incoming, inside, live, epc>>
    BY <1>3, WakesFrame DEF arrivals, executor
  <2>2. cur' = cur /\ Entries \subseteq Entries'
    <3>1. CASE Swap(w)
      <4>1. /\ wpc[w] = "swap" /\ ready' = Append(ready, wtask[w]) /\ cur' = cur
        BY <3>1 DEF Swap, SwapHead, ThreadAt
      <4>2. wtask[w] \in Task /\ wtask[w] \notin Ranged(ready)
        BY <4>1, EntriesAreRange DEF Queues
      <4> QED
        BY <4>1, <4>2, AppendRange, EntriesAreRange DEF Queues
    <3>2. CASE ~Swap(w)
      BY <1>3, <3>2, WakesFrame DEF Wakes, Link, FetchOr, Take, ClearBit, ThreadNotifies, ThreadUnparks, pool, Entries
    <3> QED
      BY <3>1, <3>2
  <2> QED
    BY <2>1, <2>2 DEF Spawned, Ranged
<1>4. ASSUME NEW w \in Thread, NEW t \in Task, Claim(w, t) PROVE Spawned'
  <2>1. UNCHANGED <<incoming, inside, live, epc, cur, Entries>>
    BY <1>4, ClaimFrame DEF Claim, arrivals, executor
  <2> QED
    BY <2>1 DEF Spawned, Ranged
<1> QED
  BY <1>1, <1>2, <1>3, <1>4, StepKinds

-----------------------------------------------------------------------------
(* The theorems *)

LEMMA SetToSeqsShape ==
    ASSUME NEW P \in SUBSET Task, NEW s \in SetToSeqs(P)
    PROVE  s \in Seq(Task) /\ NoRepeats(s) /\ Ranged(s) \subseteq P
<1>1. Cardinality(P) \in Nat
  BY NoTaskAssumption, FS_Subset, FS_CardinalityType
<1>2. /\ s \in [1 .. Cardinality(P) -> P]
      /\ \A i, j \in 1 .. Cardinality(P) : i # j => s[i] # s[j]
  BY DEF SetToSeqs
<1> QED
  BY <1>1, <1>2 DEF NoRepeats, Ranged

LEMMA InitInv == Init => IInv
<1> SUFFICES ASSUME Init PROVE IInv
  OBVIOUS
<1>1. PICK P \in SUBSET Task : \E Q \in SUBSET (Task \ P) :
          /\ live = P /\ queued = P /\ ready \in SetToSeqs(P)
          /\ incoming \in SetToSeqs(Q)
          /\ fresh = Task \ (P \union Q)
  BY DEF Init
<1> PICK Q \in SUBSET (Task \ P) : incoming \in SetToSeqs(Q) /\ fresh = Task \ (P \union Q)
  BY <1>1
<1>2. /\ ready \in Seq(Task) /\ NoRepeats(ready) /\ Entries \subseteq P
      /\ incoming \in Seq(Task) /\ NoRepeats(incoming) /\ Ranged(incoming) \subseteq Q
  BY <1>1, SetToSeqsShape, EntriesAreRange
<1>3. /\ inside = {} /\ polled = {} /\ cur = None /\ unlinked = {} /\ state = {} /\ cell = FALSE
      /\ unparked = FALSE /\ token = FALSE /\ epc = "drain" /\ after = "dequeue"
      /\ wpc = [w \in Thread |-> "idle"]
      /\ wtask = [w \in Thread |-> None] /\ got = [w \in Thread |-> FALSE]
  BY DEF Init, WAITING
<1>4. Bits
  BY <1>3 DEF Bits, Registering, REGISTERING, WAKING
<1>5. Queues
  BY <1>1, <1>2, <1>3 DEF Queues
<1>6. Threads
  BY <1>3 DEF Threads
<1>7. Registered /\ Rewoken /\ Settled /\ Parked
  BY <1>3 DEF Registered, Rewoken, Settled, Parked
<1>8. Spawned
  BY <1>1, <1>3, NoTaskAssumption DEF Spawned, Ranged
<1> QED
  BY <1>4, <1>5, <1>6, <1>7, <1>8 DEF IInv

LEMMA NextInv == IInv /\ [Next]_vars => IInv'
  BY BitsStep, ThreadsStep, QueuesStep, RegisteredStep, RewokenStep, SettledStep, ParkedStep, SpawnedStep
     DEF IInv

LEMMA Invariance == Spec => []IInv
  BY InitInv, NextInv, PTL DEF Spec

\* The cell of the AtomicWaker is taken out by one thread, and by none while the
\* executor writes it or takes its waker back, which is then there
\* (atomic_waker.rs:180, 211 and 285).
THEOREM CellExclusion == Spec => []CellIsExclusive
<1>1. IInv => CellIsExclusive
  BY DEF IInv, Bits, CellIsExclusive, Registering, REGISTERING, WAKING
<1> QED
  BY <1>1, Invariance, PTL

\* The thread of run_blocking never parks, nor stays parked, with a task to poll,
\* without the token and with nobody on the way to unpark it (lib.rs:381-387).
THEOREM NoSleepWithWork == Spec => []ParkedIsCovered
<1>1. IInv => ParkedIsCovered
  BY DEF IInv, Parked, Comes, Brings, ParkedIsCovered
<1> QED
  BY <1>1, Invariance, PTL

\* run_blocking returns when all tasks are complete, those its futures have queued
\* included; and it sleeps before the first poll of one of these only while a thread
\* is on the way to unpark it (lib.rs:186-187, 240-258).
THEOREM CoversWhatIsSpawned == Spec => []SpawnedAreCovered
<1>1. IInv => SpawnedAreCovered
  <2> SUFFICES ASSUME IInv PROVE SpawnedAreCovered
    OBVIOUS
  <2>1. epc \in {"pending", "park"} => \A t \in inside : ~IsIncoming(t)
    BY DEF IInv, Spawned, IsIncoming, Ranged
  <2>2. ASSUME epc = "park", ~token, inside # {}
        PROVE  \E w \in Thread : wpc[w] \in {"link", "fetch", "take", "clear", "notify", "unpark"}
    <3>1. Entries \intersect live # {}
      BY <2>2 DEF IInv, Spawned
    <3> QED
      BY <2>2, <3>1 DEF IInv, Parked, Comes, Brings
  <2>3. epc = "done" => inside = {} /\ live = {}
    BY DEF IInv, Spawned
  <2> QED
    BY <2>1, <2>2, <2>3 DEF SpawnedAreCovered
<1> QED
  BY <1>1, Invariance, PTL
=============================================================================
