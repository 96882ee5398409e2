------------------------ MODULE InputLifetime_proofs ------------------------
(***************************************************************************)
(* The safety properties of InputLifetime, for any tasks and handles.      *)
(***************************************************************************)
EXTENDS InputLifetime, TaskList_proofs

\* A future that is in no queue: on its way into one in the call of a handle, or
\* taken back and under destruction there or on the owner's thread.
InTaken(t) == t # Null /\ (t = removed \/ \E h \in Handle : t = htask[h])

\* Where a future is: in the list, in the queue, under poll or under destruction,
\* and nowhere else.
Placed(t) ==
    \/ Member(order, t) \/ Member(incoming, t)
    \/ op = "task" /\ t = cur
    \/ t = dying \/ InTaken(t)

Elsewhere(t) ==
    /\ ~Member(order, t) /\ ~Member(incoming, t)
    /\ t # dying /\ ~(op = "task" /\ t = cur)

\* A task is in one call at most, and then nowhere else.  The owner's thread destroys
\* what a future has taken back while that future is under poll or dies.
Taken ==
    /\ removed \in Task \union {Null}
    /\ removed # Null => dying # Null \/ op = "task"
    /\ hpc \in [Handle -> {"out", "queue", "unqueue", "remove", "stuck"}]
    /\ htask \in [Handle -> Task \union {Null}]
    /\ \A h \in Handle : hpc[h] \in {"out", "unqueue"} => htask[h] = Null
    /\ \A h \in Handle : hpc[h] = "queue" => htask[h] # Null
    /\ \A t \in Task : InTaken(t) => t \in live /\ Elsewhere(t)
    /\ \A g, h \in Handle : htask[g] = htask[h] /\ htask[g] # Null => g = h
    /\ \A h \in Handle : htask[h] # Null => htask[h] # removed

\* Steps that leave the calls of handles and the future taken back alone keep the
\* rest away from them.
Kept == \A t \in Task : InTaken(t) => t \in live' /\ Elsewhere(t)'

\* The list is sound, the two queues share no task, and no future is in the hands
\* of the executor and in a queue.  The destructor of a stopped task runs while
\* its task stays in the list, with the empty future.
Places ==
    /\ Sound(list, order)
    /\ incoming \in Seq(Task) /\ Distinct(incoming)
    /\ live \subseteq Task
    /\ \A t \in Task : Member(order, t) => t \in live /\ ~Member(incoming, t)
    /\ \A t \in Task : Member(incoming, t) => t \in live
    /\ op = "task" => /\ dying = Null /\ cur \in live
                      /\ ~Member(order, cur) /\ ~Member(incoming, cur)
    /\ dying # Null => /\ dying \in live /\ ~Member(incoming, dying)
                       /\ IF dying \in emptied THEN Member(order, dying) ELSE ~Member(order, dying)
    /\ \A t \in live : Placed(t)

\* An iterator stands at a task of the list with an exact count, behind tasks it
\* does not look for; nothing changes the list meanwhile.
Walk ==
    op \in {"find", "stop"} =>
        /\ dying = Null
        /\ at = Null => left = 0 /\ ~Member(order, seek)
        /\ at # Null =>
              \E i \in 1 .. Len(order) :
                 /\ order[i] = at /\ left = Len(order) - i + 1
                 /\ \A j \in 1 .. Len(order) : j < i => order[j] # seek

\* The data pointer, and what get has seen through it.
Pointer ==
    /\ heap \in {"Nothing", "Parameter", "Freed"}
    /\ heap = "Freed" => op \in {"drop", "drop_rest", "dropped"}
    /\ Running => heap = "Parameter" /\ lent
    /\ heap = "Parameter" /\ ~lent => unwound
    /\ lent => Running
    /\ op \in {"task", "drain"} => dying = Null
    /\ got # "none" => op = "task" \/ dying # Null
    /\ GetMeetsTheRun

Guard == outer => entered /\ ~Running

\* What the calls that clear leave behind them.
Emptied ==
    /\ op \in {"clear_rest", "drop_rest", "dropped"} => order = <<>>
    /\ op = "drop_rest" => Inside = {}
    /\ op = "dropped" => dying = Null /\ (Inside = {} => incoming = <<>>)

IInv == Places /\ Taken /\ Walk /\ Pointer /\ Guard /\ Emptied /\ WaitsOnlyUnderRemoval

LEMMA PhaseDomain ==
    /\ DOMAIN Phase = {"clear", "clear_rest", "clear_running", "clear_queue", "drop", "drop_rest"}
    /\ \A o \in DOMAIN Phase : Phase[o] = "pool" <=> o \in {"clear", "clear_running", "drop"}
    /\ \A o \in DOMAIN Phase : Phase[o] = "incoming" <=> o \in {"clear_rest", "clear_queue", "drop_rest"}
    /\ Then["clear"] = "clear_rest" /\ Then["clear_rest"] = "idle"
    /\ Then["clear_running"] = "idle" /\ Then["clear_queue"] = "idle"
    /\ Then["drop"] = "drop_rest" /\ Then["drop_rest"] = "dropped"
  BY DEF Phase, Then

\* The calls that clear, one state at a time.
LEMMA Clearings ==
    /\ Clearing("pool") <=> op \in {"clear", "clear_running", "drop"} /\ dying = Null
    /\ Clearing("incoming") <=> op \in {"clear_rest", "clear_queue", "drop_rest"} /\ dying = Null
    /\ Locked <=> removed # Null \/ op \in {"drain", "unqueue", "clear_rest", "clear_queue"}
  BY PhaseDomain DEF Clearing, Locked

LEMMA InitHolds == Init => IInv
<1> SUFFICES ASSUME Init PROVE IInv
  OBVIOUS
<1>1. Sound(list, order)
  BY EmptyIsSound DEF Init
<1>2. <<>> \in Seq(Task) /\ Distinct(<<>>) /\ \A t : ~Member(<<>>, t)
  BY DEF Distinct, Member
<1>3. Places
  BY <1>1, <1>2 DEF Init, Places
<1>4. Taken
  BY DEF Init, Taken, InTaken
<1> QED
  BY <1>3, <1>4 DEF Init, IInv, Walk, Pointer, Guard, Emptied, WaitsOnlyUnderRemoval, Running, GetMeetsTheRun

-----------------------------------------------------------------------------
(* The list and the queue *)

\* Steps that move no future.
LEMMA SamePlaces ==
    ASSUME Places, Taken, UNCHANGED <<list, order, incoming, live, emptied, dying, removed, htask>>,
           (op # "task" /\ op' # "task") \/ UNCHANGED <<op, cur>>
    PROVE  Places' /\ Kept
<1>1. Kept
  BY DEF Kept, Taken, Elsewhere
<1> QED
  BY <1>1 DEF Places, Placed, InTaken

\* Steps that put a task in the list.
LEMMA DrainPlaces == Places /\ Taken /\ Drain => Places' /\ Kept
<1> SUFFICES ASSUME Places, Taken, Drain PROVE Places' /\ Kept
  OBVIOUS
<1>1. CASE incoming = <<>>
  <2>1. /\ op = "drain" /\ op' = "cycle"
        /\ UNCHANGED <<list, order, incoming, live, emptied, dying, cur, removed, htask>>
    BY <1>1 DEF Drain, OwnerAt, pool, taken
  <2> QED
    BY <2>1, SamePlaces
<1>2. CASE incoming # <<>>
  <2> DEFINE t == Head(incoming)
  <2>1. t \in Task /\ Member(incoming, t) /\ Tail(incoming) \in Seq(Task) /\ Distinct(Tail(incoming))
        /\ \A u : Member(Tail(incoming), u) <=> u # t /\ Member(incoming, u)
    BY <1>2, TailProps DEF Places
  <2>2. list' = Linked(list, t) /\ order' = <<t>> \o order /\ incoming' = Tail(incoming) /\ op = "drain"
        /\ UNCHANGED <<live, emptied, dying, cur, op, removed, htask>> /\ dying = Null
    BY <1>2 DEF Drain, Link, OwnerAt, taken
  <2>3. ~Member(order, t)
    BY <2>1 DEF Places
  <2>4. Sound(list', order')
    BY <2>1, <2>2, <2>3, LinkedIsSound DEF Places
  <2>5. \A u : Member(order', u) <=> u = t \/ Member(order, u)
    BY <2>1, <2>2, ConsMember DEF Places, Sound
  <2> HIDE DEF t
  <2>6. Kept
    BY <2>1, <2>2, <2>5 DEF Kept, Taken, Elsewhere
  <2> QED
    BY <2>1, <2>2, <2>4, <2>5, <2>6 DEF Places, Placed, InTaken
<1> QED
  BY <1>1, <1>2

LEMMA QueuePlaces == ASSUME NEW t \in Task, Places, Taken, Queue(t) PROVE Places' /\ Kept
<1>1. list' = Linked(list, t) /\ order' = <<t>> \o order /\ UNCHANGED <<incoming, dying, op, cur, emptied, removed, htask>>
      /\ live' = live \union {t} /\ t \notin live /\ op = "idle" /\ dying = Null
  BY DEF Queue, Link, New, OwnerAt, control, taken
<1>2. ~Member(order, t) /\ ~Member(incoming, t)
  BY <1>1 DEF Places
<1>3. Sound(list', order')
  BY <1>1, <1>2, LinkedIsSound DEF Places
<1>4. \A u : Member(order', u) <=> u = t \/ Member(order, u)
  BY <1>1, ConsMember DEF Places, Sound
<1>5. Kept
  BY <1>1, <1>4 DEF Kept, Taken, Elsewhere
<1> QED
  BY <1>1, <1>2, <1>3, <1>4, <1>5 DEF Places, Placed, InTaken

LEMMA PollPendingPlaces == Places /\ Taken /\ PollPending => Places' /\ Kept
<1> SUFFICES ASSUME Places, Taken, PollPending PROVE Places' /\ Kept
  OBVIOUS
<1>1. list' = Linked(list, cur) /\ order' = <<cur>> \o order /\ op = "task" /\ op' = "cycle"
      /\ UNCHANGED <<incoming, dying, live, emptied, removed, htask>>
  BY DEF PollPending, InPoll, Link, tasks, taken
<1>2. cur \in Task /\ ~Member(order, cur) /\ ~Member(incoming, cur) /\ dying = Null /\ cur \in live
  BY <1>1 DEF Places
<1>3. Sound(list', order')
  BY <1>1, <1>2, LinkedIsSound DEF Places
<1>4. \A u : Member(order', u) <=> u = cur \/ Member(order, u)
  BY <1>1, <1>2, ConsMember DEF Places, Sound
<1>5. Kept
  BY <1>1, <1>4 DEF Kept, Taken, Elsewhere
<1> QED
  BY <1>1, <1>2, <1>3, <1>4, <1>5 DEF Places, Placed, InTaken

\* Steps that take a task out of it.
LEMMA UnlinkSound ==
    ASSUME NEW t \in Task, Places, Member(order, t)
    PROVE  /\ Sound(Unlinked(list, t), Without(order, t))
           /\ \A u : Member(Without(order, t), u) <=> u # t /\ Member(order, u)
  BY UnlinkedIsSound, WithoutProps DEF Places, Sound

LEMMA PutBackPlaces == ASSUME NEW t \in Task, Places, Taken, PutBack(t) PROVE Places' /\ Kept
<1> DEFINE l == Unlinked(list, t)
           s == Without(order, t)
<1>1. list' = Linked(l, t) /\ order' = <<t>> \o s /\ Member(order, t) /\ op = "cycle"
      /\ UNCHANGED <<incoming, live, emptied, dying, op, cur, removed, htask>>
  BY DEF PutBack, OwnerAt, tasks, control, taken
<1>2. Sound(l, s) /\ \A u : Member(s, u) <=> u # t /\ Member(order, u)
  BY <1>1, UnlinkSound
<1> HIDE DEF l, s
<1>3. Sound(list', order')
  BY <1>1, <1>2, LinkedIsSound
<1>4. s \in Seq(Task)
  BY <1>2 DEF Sound
<1>5. \A u : Member(order', u) <=> Member(order, u)
  BY <1>1, <1>2, <1>4, ConsMember
<1>6. Kept
  BY <1>1, <1>5 DEF Kept, Taken, Elsewhere
<1> QED
  BY <1>1, <1>3, <1>5, <1>6 DEF Places, Placed, InTaken

LEMMA PollTaskPlaces == ASSUME NEW t \in Task, Places, Taken, PollTask(t) PROVE Places' /\ Kept
<1>1. list' = Unlinked(list, t) /\ order' = Without(order, t) /\ Member(order, t)
      /\ op = "cycle" /\ op' = "task" /\ cur' = t /\ dying = Null
      /\ UNCHANGED <<incoming, live, emptied, dying, removed, htask>>
  BY DEF PollTask, Unlink, OwnerAt, taken
<1>2. Sound(list', order') /\ \A u : Member(order', u) <=> u # t /\ Member(order, u)
  BY <1>1, UnlinkSound
<1>3. Kept
  BY <1>1, <1>2 DEF Kept, Taken, Elsewhere
<1> QED
  BY <1>1, <1>2, <1>3 DEF Places, Placed, InTaken

LEMMA ClearHeadPlaces == Places /\ Taken /\ ClearHead => Places' /\ Kept
<1> SUFFICES ASSUME Places, Taken, ClearHead PROVE Places' /\ Kept
  OBVIOUS
<1> DEFINE t == list.head
<1>1. Member(order, t) /\ t \in Task
  BY HeadOfList DEF ClearHead, Places, Sound, ListType
<1>2. list' = Unlinked(list, t) /\ order' = Without(order, t) /\ dying = Null
      /\ op \in {"clear", "clear_running", "drop"} /\ Destroy(t)
      /\ UNCHANGED <<incoming, op, cur, removed, htask>>
  BY Clearings DEF ClearHead, Unlink, taken
<1> HIDE DEF t
<1>3. Sound(list', order') /\ \A u : Member(order', u) <=> u # t /\ Member(order, u)
  BY <1>1, <1>2, UnlinkSound
<1>4. t \in live /\ ~Member(incoming, t) /\ t # Null
  BY <1>1, PointerAssumption DEF Places
<1>5. CASE t \in emptied
  <2>1. live' = live \ {t} /\ dying' = Null /\ emptied' = emptied \ {t}
    BY <1>2, <1>5 DEF Destroy
  <2>2. Kept
    BY <1>1, <1>2, <1>3, <2>1 DEF Kept, Taken, Elsewhere
  <2> QED
    BY <1>1, <1>2, <1>3, <1>4, <2>1, <2>2 DEF Places, Placed, InTaken
<1>6. CASE t \notin emptied
  <2>1. live' = live /\ dying' = t /\ emptied' = emptied
    BY <1>2, <1>6 DEF Destroy
  <2>2. Kept
    BY <1>1, <1>2, <1>3, <2>1 DEF Kept, Taken, Elsewhere
  <2> QED
    BY <1>1, <1>2, <1>3, <1>4, <2>1, <2>2, <1>6, PointerAssumption DEF Places, Placed, InTaken
<1> QED
  BY <1>5, <1>6

\* Steps that destroy a future of the queue, or the one under poll.
LEMMA FromQueuePlaces ==
    ASSUME NEW t \in Task, Places, Taken, Member(incoming, t), op # "task", op' # "task", dying = Null,
           incoming' \in Seq(Task), Distinct(incoming'),
           \A u : Member(incoming', u) <=> u # t /\ Member(incoming, u),
           Destroy(t), UNCHANGED <<list, order, cur, removed, htask>>
    PROVE  Places' /\ Kept
<1>1. t \in live /\ ~Member(order, t) /\ t # Null
  BY PointerAssumption DEF Places
<1>2. CASE t \in emptied
  <2>1. live' = live \ {t} /\ dying' = Null /\ emptied' = emptied \ {t}
    BY <1>2 DEF Destroy
  <2>2. Kept
    BY <1>1, <2>1 DEF Kept, Taken, Elsewhere
  <2> QED
    BY <1>1, <2>1, <2>2 DEF Places, Placed, InTaken
<1>3. CASE t \notin emptied
  <2>1. live' = live /\ dying' = t /\ emptied' = emptied
    BY <1>3 DEF Destroy
  <2>2. Kept
    BY <1>1, <2>1 DEF Kept, Taken, Elsewhere
  <2> QED
    BY <1>1, <2>1, <2>2, <1>3, PointerAssumption DEF Places, Placed, InTaken
<1> QED
  BY <1>2, <1>3

LEMMA ClearIncomingPlaces == Places /\ Taken /\ ClearIncoming => Places' /\ Kept
<1> SUFFICES ASSUME Places, Taken, ClearIncoming PROVE Places' /\ Kept
  OBVIOUS
<1>1. incoming # <<>> /\ incoming' = Tail(incoming) /\ Destroy(Head(incoming)) /\ dying = Null
      /\ op \in {"clear_rest", "clear_queue", "drop_rest"} /\ UNCHANGED <<list, order, op, cur, removed, htask>>
  BY Clearings DEF ClearIncoming, pool, taken
<1>2. /\ Head(incoming) \in Task /\ Member(incoming, Head(incoming))
      /\ Tail(incoming) \in Seq(Task) /\ Distinct(Tail(incoming))
      /\ \A u : Member(Tail(incoming), u) <=> u # Head(incoming) /\ Member(incoming, u)
  BY <1>1, TailProps DEF Places
<1> QED
  BY <1>1, <1>2, FromQueuePlaces

LEMMA UnqueuePlaces == ASSUME NEW t \in Task, Places, Taken, Unqueue(t) PROVE Places' /\ Kept
<1>1. /\ Member(incoming, t) /\ incoming' = Without(incoming, t) /\ Destroy(t) /\ dying = Null
      /\ op = "idle" /\ op' = "unqueue" /\ UNCHANGED <<list, order, cur, removed, htask>>
  BY DEF Unqueue, OwnerAt, pool, taken
<1>2. /\ Without(incoming, t) \in Seq(Task) /\ Distinct(Without(incoming, t))
      /\ \A u : Member(Without(incoming, t), u) <=> u # t /\ Member(incoming, u)
  BY <1>1, WithoutProps DEF Places
<1> QED
  BY <1>1, <1>2, FromQueuePlaces

LEMMA PollEndsPlaces == Places /\ Taken /\ (PollReady \/ PollPanic) => Places' /\ Kept
<1> SUFFICES ASSUME Places, Taken, NEW o \in {"cycle", "unwind"}, PollEnds(o) PROVE Places' /\ Kept
  BY DEF PollReady, PollPanic
<1>1. op = "task" /\ op' = o /\ Destroy(cur) /\ UNCHANGED <<list, order, incoming, removed, htask>>
  BY DEF PollEnds, InPoll, pool, taken
<1>2. cur \in live /\ dying = Null /\ ~Member(order, cur) /\ ~Member(incoming, cur) /\ cur \in Task
  BY <1>1 DEF Places
<1>3. CASE cur \in emptied
  <2>1. live' = live \ {cur} /\ dying' = Null /\ emptied' = emptied \ {cur}
    BY <1>1, <1>2, <1>3 DEF Destroy
  <2>2. Kept
    BY <1>1, <1>2, <2>1, PointerAssumption DEF Kept, Taken, Elsewhere
  <2> QED
    BY <1>1, <1>2, <2>1, <2>2 DEF Places, Placed, InTaken
<1>4. CASE cur \notin emptied
  <2>1. live' = live /\ dying' = cur /\ emptied' = emptied
    BY <1>1, <1>4 DEF Destroy
  <2>2. Kept
    BY <1>1, <2>1 DEF Kept, Taken, Elsewhere
  <2> QED
    BY <1>1, <1>2, <2>1, <2>2, <1>4, PointerAssumption DEF Places, Placed, InTaken
<1> QED
  BY <1>3, <1>4

LEMMA DestroyedPlaces == Places /\ Taken /\ Destroyed => Places' /\ Kept
<1> SUFFICES ASSUME Places, Taken, Destroyed PROVE Places' /\ Kept
  OBVIOUS
<1>1. dying # Null /\ dying' = Null /\ UNCHANGED <<list, order, incoming, emptied, op, cur, removed, htask>>
  BY DEF Destroyed, pool, taken
<1>2. CASE dying \in emptied
  <2>1. live' = live
    BY <1>2 DEF Destroyed
  <2>2. op # "task"
    BY <1>1 DEF Places
  <2>3. Kept
    BY <1>1, <2>1, PointerAssumption DEF Kept, Taken, Elsewhere
  <2> QED
    BY <1>1, <1>2, <2>1, <2>2, <2>3 DEF Places, Placed, InTaken
<1>3. CASE dying \notin emptied
  <2>1. live' = live \ {dying}
    BY <1>3 DEF Destroyed
  <2>2. Kept
    BY <1>1, <2>1, PointerAssumption DEF Kept, Taken, Elsewhere
  <2> QED
    BY <1>1, <1>3, <2>1, <2>2 DEF Places, Placed, InTaken
<1> QED
  BY <1>2, <1>3

\* stop_running_task: the future dies, its task stays in the list.
LEMMA IterEndsPlaces == Places /\ Taken /\ Walk /\ IterEnds => Places' /\ Kept
<1> SUFFICES ASSUME Places, Taken, Walk, IterEnds PROVE Places' /\ Kept
  OBVIOUS
<1>1. op \in {"find", "stop"} /\ op' = "idle" /\ dying = Null
      /\ UNCHANGED <<list, order, incoming, live, removed, htask>>
  BY DEF IterEnds, pool, taken
<1>2. CASE op = "stop" /\ at # Null /\ at \notin emptied
  <2>1. dying' = at /\ emptied' = emptied \union {at}
    BY <1>2 DEF IterEnds
  <2>2. PICK i \in 1 .. Len(order) : order[i] = at
    BY <1>1, <1>2 DEF Walk
  <2>3. Member(order, at) /\ at \in Task
    BY <2>2, ElementOfSeq DEF Places, Sound, Member
  <2>4. Kept
    BY <1>1, <2>1, <2>3 DEF Kept, Taken, Elsewhere
  <2> QED
    BY <1>1, <1>2, <2>1, <2>3, <2>4, PointerAssumption DEF Places, Placed, InTaken
<1>3. CASE ~(op = "stop" /\ at # Null /\ at \notin emptied)
  <2>1. dying' = Null
    BY <1>1, <1>3 DEF IterEnds
  <2>2. Kept
    BY <1>1, <2>1, PointerAssumption DEF Kept, Taken, Elsewhere
  <2> QED
    BY <1>1, <2>1, <2>2 DEF Places, Placed, InTaken
<1> QED
  BY <1>2, <1>3

\* What the owner's thread does but for the code of futures that takes tasks back.
OwnerStep ==
    \/ Run \/ Drain \/ PollPending \/ PollReady \/ PollPanic \/ PollAgain \/ RunReturns \/ RunUnwinds
    \/ OuterRun
    \/ Clear \/ ClearRunning \/ ClearQueue \/ Drop
    \/ ClearHead \/ ClearIncoming \/ Cleared
    \/ UnqueueReturns \/ IterNext \/ IterEnds
    \/ Get \/ Destroyed
    \/ \E t \in Task :
          \/ PutBack(t) \/ PollTask(t)
          \/ Queue(t) \/ Unqueue(t) \/ Iterate("find", t) \/ Iterate("stop", t)
    \/ Ended \/ UNCHANGED vars

LEMMA Steps ==
    [Next]_vars => \/ OwnerStep \/ RemovedDestroyed
                   \/ \E t \in Task : QueueFromFuture(t) \/ UnqueueFromFuture(t)
                   \/ \E h \in Handle : HandleStep(h)
  BY DEF Next, OwnerStep

LEMMA OwnerPlaces == Places /\ Taken /\ Walk /\ OwnerStep => Places' /\ Kept
<1> SUFFICES ASSUME Places, Taken, Walk, OwnerStep PROVE Places' /\ Kept
  OBVIOUS
<1>1. CASE Run \/ PollAgain \/ RunReturns \/ RunUnwinds \/ OuterRun
  <2>1. UNCHANGED <<list, order, incoming, live, emptied, dying, removed, htask>>
        /\ ((op # "task" /\ op' # "task") \/ UNCHANGED <<op, cur>>)
    BY <1>1 DEF Run, PollAgain, RunReturns, RunUnwinds, OuterRun, OwnerAt, pool, tasks, control, taken
  <2> QED
    BY <2>1, SamePlaces
<1>2. CASE Clear \/ ClearRunning \/ ClearQueue \/ Drop \/ \E t \in Task : Iterate("find", t) \/ Iterate("stop", t)
  <2>1. UNCHANGED <<list, order, incoming, live, emptied, dying, removed, htask>> /\ op # "task" /\ op' # "task"
    BY <1>2 DEF Clear, ClearRunning, ClearQueue, Call, Drop, Iterate, OwnerAt, pool, tasks, taken
  <2> QED
    BY <2>1, SamePlaces
<1>3. CASE Cleared
  <2>1. UNCHANGED <<list, order, incoming, live, emptied, dying, removed, htask>> /\ op # "task" /\ op' # "task"
    BY <1>3, Clearings, PhaseDomain DEF Cleared, pool, tasks, taken
  <2> QED
    BY <2>1, SamePlaces
<1>4. CASE UnqueueReturns \/ IterNext \/ Get \/ Ended \/ UNCHANGED vars
  <2>1. UNCHANGED <<list, order, incoming, live, emptied, dying, removed, htask>>
        /\ ((op # "task" /\ op' # "task") \/ UNCHANGED <<op, cur>>)
    BY <1>4 DEF UnqueueReturns, IterNext, Get, Ended, OwnerAt, pool, tasks, control, vars, taken
  <2> QED
    BY <2>1, SamePlaces
<1>5. CASE Drain \/ PollPending \/ PollReady \/ PollPanic
  BY <1>5, DrainPlaces, PollPendingPlaces, PollEndsPlaces
<1>6. CASE ClearHead \/ ClearIncoming \/ Destroyed \/ IterEnds
  BY <1>6, ClearHeadPlaces, ClearIncomingPlaces, DestroyedPlaces, IterEndsPlaces
<1>7. CASE \E t \in Task : PutBack(t) \/ PollTask(t) \/ Queue(t) \/ Unqueue(t)
  BY <1>7, PutBackPlaces, PollTaskPlaces, QueuePlaces, UnqueuePlaces
<1> QED
  BY <1>1, <1>2, <1>3, <1>4, <1>5, <1>6, <1>7 DEF OwnerStep

\* The owner's code goes on only when its future is done with what it took back.
LEMMA OwnerRemoved ==
    ASSUME Taken, OwnerStep
    PROVE  UNCHANGED taken /\ (removed # Null => dying' # Null \/ op' = "task")
<1> USE DEF taken
<1>1. CASE \/ Run \/ PollAgain \/ RunReturns \/ RunUnwinds \/ OuterRun \/ Drain
           \/ \E t \in Task : PutBack(t) \/ PollTask(t) \/ Queue(t) \/ Unqueue(t)
  <2>1. UNCHANGED taken /\ dying = Null /\ op # "task"
    BY <1>1 DEF Run, PollAgain, RunReturns, RunUnwinds, OuterRun, Drain, PutBack, PollTask, Queue, Unqueue, OwnerAt
  <2> QED
    BY <2>1 DEF Taken
<1>2. CASE \/ Clear \/ ClearRunning \/ ClearQueue \/ Drop \/ UnqueueReturns
           \/ \E t \in Task : Iterate("find", t) \/ Iterate("stop", t)
  <2>1. UNCHANGED taken /\ dying = Null /\ op # "task"
    BY <1>2 DEF Clear, ClearRunning, ClearQueue, Call, Drop, UnqueueReturns, Iterate, OwnerAt
  <2> QED
    BY <2>1 DEF Taken
<1>3. CASE ClearHead \/ ClearIncoming \/ Cleared \/ IterNext \/ IterEnds
  <2>1. UNCHANGED taken /\ dying = Null /\ op # "task"
    BY <1>3, Clearings DEF ClearHead, ClearIncoming, Cleared, IterNext, IterEnds
  <2> QED
    BY <2>1 DEF Taken
<1>4. CASE PollPending \/ PollReady \/ PollPanic \/ Get \/ Destroyed
  <2>1. UNCHANGED taken /\ removed = Null
    BY <1>4 DEF PollPending, PollReady, PollPanic, PollEnds, InPoll, Get, Destroyed
  <2> QED
    BY <2>1
<1>5. CASE Ended \/ UNCHANGED vars
  <2>1. UNCHANGED <<taken, dying, op>>
    BY <1>5 DEF Ended, vars, control
  <2> QED
    BY <2>1 DEF Taken
<1> QED
  BY <1>1, <1>2, <1>3, <1>4, <1>5 DEF OwnerStep

LEMMA OwnerTaken == Taken /\ Kept /\ OwnerStep => Taken'
<1> SUFFICES ASSUME Taken, Kept, OwnerStep PROVE Taken'
  OBVIOUS
<1>1. UNCHANGED <<removed, hpc, htask>> /\ (removed # Null => dying' # Null \/ op' = "task")
  BY OwnerRemoved DEF taken
<1>2. \A t \in Task : InTaken(t)' => InTaken(t)
  BY <1>1 DEF InTaken
<1> QED
  BY <1>1, <1>2 DEF Taken, Kept

\* Futures that queue tasks and take them back.
LEMMA QueueInPlaces ==
    ASSUME NEW t \in Task, Places, Taken, QueueFromFuture(t) PROVE Places' /\ Taken'
<1>1. UNCHANGED <<list, order, emptied, op, cur, dying, removed, hpc, htask>>
  BY DEF QueueFromFuture, UnderMutex, pool
<1>2. CASE incoming' = incoming /\ live' = live
  BY <1>1, <1>2 DEF Places, Placed, Taken, InTaken, Elsewhere
<1>3. CASE New(t) /\ incoming' = Append(incoming, t)
  <2>1. t \notin live /\ live' = live \union {t}
    BY <1>3 DEF New
  <2>2. ~Member(incoming, t) /\ ~Member(order, t)
    BY <2>1 DEF Places
  <2>3. /\ incoming' \in Seq(Task) /\ Distinct(incoming')
        /\ \A u : Member(incoming', u) <=> u = t \/ Member(incoming, u)
    BY <1>3, <2>2, AppendProps DEF Places
  <2>4. Places'
    BY <1>1, <2>1, <2>2, <2>3 DEF Places, Placed, InTaken
  <2>5. Taken'
    BY <1>1, <2>1, <2>3 DEF Taken, InTaken, Elsewhere
  <2> QED
    BY <2>4, <2>5
<1> QED
  BY <1>2, <1>3 DEF QueueFromFuture, UnderMutex

LEMMA UnqueueFromPlaces ==
    ASSUME NEW t \in Task, Places, Taken, UnqueueFromFuture(t) PROVE Places' /\ Taken'
<1>1. UNCHANGED <<list, order, emptied, op, cur, dying, live, hpc, htask>>
      /\ (dying # Null \/ op = "task")
  BY DEF UnqueueFromFuture, UnderMutex, InFuture, pool
<1>2. CASE incoming' = incoming /\ removed' = removed
  BY <1>1, <1>2 DEF Places, Placed, Taken, InTaken, Elsewhere
<1>3. CASE ~Locked /\ Member(incoming, t) /\ incoming' = Without(incoming, t) /\ removed' = t
  <2>1. /\ incoming' \in Seq(Task) /\ Distinct(incoming')
        /\ \A u : Member(incoming', u) <=> u # t /\ Member(incoming, u)
    BY <1>3, WithoutProps DEF Places
  <2>2. removed = Null
    BY <1>3, Clearings
  <2>3. t # Null /\ t \in live /\ ~Member(order, t) /\ t # dying /\ (op = "task" => t # cur)
    BY <1>3, PointerAssumption DEF Places
  <2>4. \A h \in Handle : htask[h] # t
    BY <1>3, <2>3 DEF Taken, InTaken, Elsewhere
  <2>5. Places'
    BY <1>1, <1>3, <2>1, <2>2, <2>3 DEF Places, Placed, InTaken
  <2>6. Taken'
    BY <1>1, <1>3, <2>1, <2>2, <2>3, <2>4 DEF Taken, InTaken, Elsewhere
  <2> QED
    BY <2>5, <2>6
<1> QED
  BY <1>2, <1>3 DEF UnqueueFromFuture, UnderMutex

LEMMA RemovedPlaces == Places /\ Taken /\ RemovedDestroyed => Places' /\ Taken'
<1> SUFFICES ASSUME Places, Taken, RemovedDestroyed PROVE Places' /\ Taken'
  OBVIOUS
<1>1. /\ removed # Null /\ removed' = Null /\ live' = live \ {removed}
      /\ UNCHANGED <<list, order, incoming, emptied, op, cur, dying, hpc, htask>>
  BY DEF RemovedDestroyed, pool, control
<1>2. removed \in Task /\ InTaken(removed) /\ Elsewhere(removed)
  BY <1>1 DEF Taken, InTaken
<1>3. Places'
  BY <1>1, <1>2 DEF Places, Placed, InTaken, Elsewhere
<1>4. Taken'
  BY <1>1 DEF Taken, InTaken, Elsewhere
<1> QED
  BY <1>3, <1>4

\* The calls of handles.
LEMMA HandleOwner ==
    ASSUME NEW h \in Handle, HandleStep(h)
    PROVE  /\ UNCHANGED <<pool, emptied, started, pointer, guard, iterator, control, unwound, removed>>
           /\ \E place \in {"out", "queue", "unqueue", "remove", "stuck"}, t \in Task \union {Null, htask[h]} :
                 hpc' = [hpc EXCEPT ![h] = place] /\ htask' = [htask EXCEPT ![h] = t]
<1>1. ASSUME NEW place \in {"out", "queue", "unqueue", "remove", "stuck"}, NEW t \in Task \union {Null, htask[h]},
             Goes(h, place, t)
      PROVE  /\ UNCHANGED <<pool, emptied, started, pointer, guard, iterator, control, unwound, removed>>
             /\ hpc' = [hpc EXCEPT ![h] = place] /\ htask' = [htask EXCEPT ![h] = t]
  BY <1>1 DEF Goes
<1>2. \E place \in {"out", "queue", "unqueue", "remove", "stuck"}, t \in Task \union {Null, htask[h]} : Goes(h, place, t)
  BY DEF HandleStep, HandleQueues, HandleUnqueues, HandleAppends, HandleMisses, HandleFinds, HandleStuck,
         HandleRemoved, Leaves
<1> QED
  BY <1>1, <1>2

LEMMA LeavesPlaces ==
    ASSUME NEW h \in Handle, NEW queue \in Seq(Task), NEW alive \in SUBSET live, Places, Taken,
           Leaves(h, queue, alive), Distinct(queue),
           live \ {htask[h]} \subseteq alive, hpc[h] # "out",
           \A u : Member(queue, u) <=> Member(incoming, u) \/ (u = htask[h] /\ u \in alive)
    PROVE  Places' /\ Taken'
<1>1. /\ UNCHANGED <<list, order, emptied, op, cur, dying, removed>>
      /\ hpc' = [hpc EXCEPT ![h] = "out"] /\ htask' = [htask EXCEPT ![h] = Null]
  BY DEF Leaves, Goes, pool, control
<1>2. /\ \A g \in Handle : htask'[g] = IF g = h THEN Null ELSE htask[g]
      /\ \A g \in Handle : hpc'[g] = IF g = h THEN "out" ELSE hpc[g]
  BY <1>1 DEF Taken
<1>3. htask[h] # Null => htask[h] \in Task /\ htask[h] \in live /\ Elsewhere(htask[h])
  BY DEF Taken, InTaken
<1>4. \A t \in Task : InTaken(t)' <=> InTaken(t) /\ t # htask[h]
  BY <1>1, <1>2 DEF InTaken, Taken
<1>5. /\ \A t \in Task : Member(order, t) => t # htask[h]
      /\ \A t \in Task : Member(incoming, t) => t # htask[h]
      /\ dying # Null => dying # htask[h]
      /\ op = "task" => cur # htask[h]
      /\ \A t \in live : t \in alive \/ t = htask[h]
  BY <1>3, PointerAssumption DEF Places, Elsewhere
<1>6. \A t \in Task : Member(queue, t) <=> Member(incoming, t) \/ (t = htask[h] /\ t \in alive)
  OBVIOUS
<1>7. \A t \in alive : t \in Task /\ (Member(queue, t) \/ (t # htask[h] /\ Placed(t)))
  BY <1>6 DEF Places
<1>8. CASE incoming' = queue /\ live' = alive
  <2>1. \A t \in live' : Placed(t)'
    BY <1>1, <1>4, <1>7, <1>8 DEF Placed
  <2>2. /\ \A t \in Task : Member(order, t)' => t \in live' /\ ~Member(incoming, t)'
        /\ \A t \in Task : Member(incoming, t)' => t \in live'
    BY <1>1, <1>5, <1>6, <1>8 DEF Places
  <2>3. op = "task" => dying = Null /\ cur \in live' /\ ~Member(order, cur) /\ ~Member(queue, cur)
    BY <1>5, <1>6, <1>8 DEF Places
  <2>4. dying # Null => dying \in live' /\ ~Member(queue, dying)
    BY <1>5, <1>6, <1>8 DEF Places
  <2>5. Places'
    BY <1>1, <1>8, <2>1, <2>2, <2>3, <2>4 DEF Places
  <2>6. \A t \in Task : InTaken(t)' => t \in live' /\ Elsewhere(t)'
    BY <1>1, <1>4, <1>8 DEF Taken, Elsewhere
  <2>7. Taken'
    BY <1>1, <1>2, <2>6 DEF Taken
  <2> QED
    BY <2>5, <2>7
<1>9. CASE op = "dropped" /\ incoming' = <<>> /\ live' = {t \in alive : ~Member(queue, t)}
  <2>1. <<>> \in Seq(Task) /\ Distinct(<<>>) /\ \A t : ~Member(<<>>, t)
    BY DEF Distinct, Member
  <2>2. \A t \in live' : Placed(t)'
    BY <1>1, <1>4, <1>7, <1>9 DEF Placed
  <2>3. \A t \in Task : Member(order, t)' => t \in live' /\ ~Member(incoming, t)'
    BY <1>1, <1>5, <1>6, <1>9, <2>1 DEF Places
  <2>4. dying # Null => dying \in live'
    BY <1>5, <1>6, <1>9 DEF Places
  <2>5. Places'
    BY <1>1, <1>9, <2>1, <2>2, <2>3, <2>4 DEF Places
  <2>6. \A t \in Task : InTaken(t)' => t \in live' /\ Elsewhere(t)'
    BY <1>1, <1>4, <1>9, <2>1 DEF Taken, Elsewhere
  <2>7. Taken'
    BY <1>1, <1>2, <2>6 DEF Taken
  <2> QED
    BY <2>5, <2>7
<1> QED
  BY <1>8, <1>9 DEF Leaves

LEMMA HandlePlaces == ASSUME NEW h \in Handle, Places, Taken, HandleStep(h) PROVE Places' /\ Taken'
<1>1. UNCHANGED <<list, order, emptied, op, cur, dying, removed>>
  BY HandleOwner DEF pool, control
<1>2. CASE HandleAppends(h)
  <2>1. hpc[h] = "queue" /\ Leaves(h, Append(incoming, htask[h]), live)
    BY <1>2 DEF HandleAppends
  <2>2. htask[h] # Null /\ htask[h] \in Task /\ htask[h] \in live /\ ~Member(incoming, htask[h])
    BY <2>1 DEF Taken, InTaken, Elsewhere
  <2>3. /\ Append(incoming, htask[h]) \in Seq(Task) /\ Distinct(Append(incoming, htask[h]))
        /\ \A u : Member(Append(incoming, htask[h]), u) <=> u = htask[h] \/ Member(incoming, u)
    BY <2>2, AppendProps DEF Places
  <2> QED
    BY <2>1, <2>2, <2>3, LeavesPlaces
<1>3. CASE HandleMisses(h) \/ HandleRemoved(h)
  <2>1. PICK alive \in {live, live \ {htask[h]}} : Leaves(h, incoming, alive) /\ hpc[h] # "out"
                                            /\ (alive = live => hpc[h] = "unqueue" \/ htask[h] \notin live)
    BY <1>3 DEF HandleMisses, HandleRemoved
  <2>2. \A u : Member(incoming, u) <=> Member(incoming, u) \/ (u = htask[h] /\ u \in alive)
    BY <2>1, PointerAssumption DEF Taken, Places
  <2> QED
    BY <2>1, <2>2, LeavesPlaces DEF Places
<1>4. CASE HandleUnqueues(h) \/ HandleStuck(h)
  <2>1. /\ hpc' = [hpc EXCEPT ![h] = IF hpc[h] = "out" THEN "unqueue" ELSE "stuck"]
        /\ htask' = [htask EXCEPT ![h] = IF hpc[h] = "out" THEN Null ELSE htask[h]]
        /\ UNCHANGED <<incoming, live>>
    BY <1>4 DEF HandleUnqueues, HandleStuck, Goes
  <2>2. htask' = htask
    BY <2>1 DEF Taken
  <2>3. \A g \in Handle : hpc'[g] \in {"out", "unqueue"} => htask[g] = Null
    BY <2>1 DEF Taken
  <2>4. \A t \in Task : InTaken(t)' <=> InTaken(t)
    BY <1>1, <2>2 DEF InTaken
  <2>5. Places'
    BY <1>1, <2>1, <2>4 DEF Places, Placed
  <2>6. hpc' \in [Handle -> {"out", "queue", "unqueue", "remove", "stuck"}]
        /\ \A g \in Handle : hpc'[g] = "queue" => htask[g] # Null
    BY <2>1 DEF Taken
  <2>7. Taken'
    BY <1>1, <2>1, <2>2, <2>3, <2>4, <2>6 DEF Taken, Elsewhere
  <2> QED
    BY <2>5, <2>7
<1>5. ASSUME NEW t \in Task, HandleQueues(h, t) \/ HandleFinds(h, t) PROVE Places' /\ Taken'
  <2> DEFINE place == IF hpc[h] = "out" THEN "queue" ELSE "remove"
  <2>1. /\ hpc[h] \in {"out", "unqueue"} /\ hpc' = [hpc EXCEPT ![h] = place]
        /\ htask' = [htask EXCEPT ![h] = t]
    BY <1>5 DEF HandleQueues, HandleFinds, Goes
  <2>2. /\ \A g \in Handle : htask'[g] = IF g = h THEN t ELSE htask[g]
        /\ \A g \in Handle : hpc'[g] = IF g = h THEN place ELSE hpc[g]
        /\ hpc' \in [Handle -> {"out", "queue", "unqueue", "remove", "stuck"}]
        /\ htask' \in [Handle -> Task \union {Null}]
        /\ htask[h] = Null /\ t # Null
    BY <2>1, PointerAssumption DEF Taken
  <2>3. \A u \in Task : InTaken(u)' <=> InTaken(u) \/ u = t
    BY <1>1, <2>2 DEF InTaken
  <2>4. ~InTaken(t) /\ t \in live' /\ Elsewhere(t)' /\ Places' /\ \A u \in Task : InTaken(u) => u \in live' /\ Elsewhere(u)'
    <3>1. CASE HandleQueues(h, t)
      <4>1. t \notin live /\ live' = live \union {t} /\ incoming' = incoming
        BY <3>1 DEF HandleQueues, New
      <4>2. ~InTaken(t)
        BY <4>1 DEF Taken
      <4>3. Elsewhere(t)'
        BY <1>1, <4>1, <2>2 DEF Places, Elsewhere
      <4>4. Places'
        BY <1>1, <2>3, <4>1 DEF Places, Placed
      <4>5. \A u \in Task : InTaken(u) => u \in live' /\ Elsewhere(u)'
        BY <1>1, <4>1 DEF Taken, Elsewhere
      <4> QED
        BY <4>1, <4>2, <4>3, <4>4, <4>5
    <3>2. CASE HandleFinds(h, t)
      <4>1. Member(incoming, t) /\ incoming' = Without(incoming, t) /\ live' = live
        BY <3>2 DEF HandleFinds
      <4>2. /\ incoming' \in Seq(Task) /\ Distinct(incoming')
            /\ \A u : Member(incoming', u) <=> u # t /\ Member(incoming, u)
        BY <4>1, WithoutProps DEF Places
      <4>3. ~InTaken(t)
        BY <4>1 DEF Taken, Elsewhere
      <4>4. t \in live' /\ Elsewhere(t)'
        BY <1>1, <2>2, <4>1, <4>2 DEF Places, Elsewhere
      <4>5. Places'
        BY <1>1, <2>3, <4>1, <4>2 DEF Places, Placed
      <4>6. \A u \in Task : InTaken(u) => u \in live' /\ Elsewhere(u)'
        BY <1>1, <4>1, <4>2 DEF Taken, Elsewhere
      <4> QED
        BY <4>3, <4>4, <4>5, <4>6
    <3> QED
      BY <1>5, <3>1, <3>2
  <2>5. (\A g \in Handle : htask[g] # t) /\ removed # t
    BY <2>2, <2>4 DEF InTaken
  <2> HIDE DEF place
  <2>6. place \in {"queue", "remove"}
    BY DEF place
  <2>7. Taken'
    <3>1. \A u \in Task : InTaken(u)' => u \in live' /\ Elsewhere(u)'
      BY <2>3, <2>4
    <3>2. \A g \in Handle : /\ hpc'[g] \in {"out", "unqueue"} => htask'[g] = Null
                            /\ hpc'[g] = "queue" => htask'[g] # Null
                            /\ htask'[g] # Null => htask'[g] # removed'
      BY <1>1, <2>2, <2>5, <2>6 DEF Taken
    <3>3. \A f, g \in Handle : htask'[f] = htask'[g] /\ htask'[f] # Null => f = g
      BY <2>2, <2>5 DEF Taken
    <3>4. /\ removed' \in Task \union {Null}
          /\ removed' # Null => dying' # Null \/ op' = "task"
      BY <1>1 DEF Taken
    <3> QED
      BY <2>2, <3>1, <3>2, <3>3, <3>4 DEF Taken
  <2> QED
    BY <2>4, <2>7
<1> QED
  BY <1>2, <1>3, <1>4, <1>5 DEF HandleStep

LEMMA PlacesStep == Places /\ Taken /\ Walk /\ [Next]_vars => Places' /\ Taken'
<1> SUFFICES ASSUME Places, Taken, Walk, [Next]_vars PROVE Places' /\ Taken'
  OBVIOUS
<1>1. CASE OwnerStep
  BY <1>1, OwnerPlaces, OwnerTaken
<1> QED
  BY <1>1, Steps, RemovedPlaces, QueueInPlaces, UnqueueFromPlaces, HandlePlaces

-----------------------------------------------------------------------------
(* The iterators *)

LEMMA IterateWalk ==
    ASSUME Places, NEW t \in Task, Iterate("find", t) \/ Iterate("stop", t)
    PROVE  Walk'
<1>1. at' = list.head /\ left' = Count(list) /\ seek' = t /\ dying' = Null /\ order' = order
  BY DEF Iterate, OwnerAt, pool
<1>2. Sound(list, order) /\ Count(list) = Len(order)
  BY DEF Places, Sound, Represents
<1>3. CASE list.head = Null
  <2>1. order = <<>>
    BY <1>2, <1>3, HeadOfList
  <2>2. Len(order) = 0 /\ ~Member(order, t)
    BY <2>1 DEF Member
  <2> QED
    BY <1>1, <1>2, <1>3, <2>2 DEF Walk
<1>4. CASE list.head # Null
  <2>1. order[1] = list.head /\ 1 \in 1 .. Len(order) /\ Len(order) \in Nat
    BY <1>2, <1>4, HeadOfList, LenProperties DEF Sound, Member
  <2> QED
    BY <1>1, <1>2, <1>4, <2>1 DEF Walk
<1> QED
  BY <1>3, <1>4

LEMMA IterNextWalk == Places /\ Walk /\ IterNext => Walk'
<1> SUFFICES ASSUME Places, Walk, IterNext PROVE Walk'
  OBVIOUS
<1>1. /\ op \in {"find", "stop"} /\ at # Null /\ at # seek /\ dying = Null
      /\ at' = list.next[at] /\ left' = left - 1 /\ UNCHANGED <<order, seek, dying, op>>
  BY DEF IterNext, pool, control
<1>2. PICK i \in 1 .. Len(order) :
         /\ order[i] = at /\ left = Len(order) - i + 1
         /\ \A j \in 1 .. Len(order) : j < i => order[j] # seek
  BY <1>1 DEF Walk
<1>3. Len(order) \in Nat /\ list.next[at] = (IF i = Len(order) THEN Null ELSE order[i + 1])
  BY <1>2, LenProperties DEF Places, Sound, Represents
<1>4. \A j \in 1 .. Len(order) : j < i + 1 => order[j] # seek
  BY <1>1, <1>2, <1>3
<1>5. CASE i = Len(order)
  <2>1. at' = Null /\ left' = 0
    BY <1>1, <1>2, <1>3, <1>5
  <2>2. ~Member(order, seek)
    BY <1>3, <1>4, <1>5 DEF Member
  <2> QED
    BY <2>1, <2>2, <1>1 DEF Walk
<1>6. CASE i # Len(order)
  <2>1. i + 1 \in 1 .. Len(order) /\ left' = Len(order) - (i + 1) + 1
    BY <1>1, <1>2, <1>3, <1>6
  <2>2. at' = order[i + 1] /\ at' # Null
    BY <1>1, <1>3, <1>6, <2>1, ElementOfSeq, PointerAssumption DEF Places, Sound
  <2> QED
    BY <2>1, <2>2, <1>1, <1>4 DEF Walk
<1> QED
  BY <1>5, <1>6

LEMMA WalkStep == Places /\ Walk /\ [Next]_vars => Walk'
<1> SUFFICES ASSUME Places, Walk, [Next]_vars PROVE Walk'
  OBVIOUS
<1>1. CASE \/ Run \/ PollAgain \/ RunReturns \/ RunUnwinds \/ OuterRun \/ Drain \/ PollPending
           \/ PollReady \/ PollPanic \/ UnqueueReturns \/ IterEnds
  <2>1. op' \notin {"find", "stop"}
    BY <1>1 DEF Run, PollAgain, RunReturns, RunUnwinds, OuterRun, Drain, PollPending, PollReady,
                PollPanic, PollEnds, UnqueueReturns, IterEnds, OwnerAt, control
  <2> QED
    BY <2>1 DEF Walk
<1>2. CASE Clear \/ ClearRunning \/ ClearQueue \/ Drop \/ ClearHead \/ ClearIncoming \/ Cleared
  <2>1. op' \notin {"find", "stop"}
    BY <1>2, Clearings, PhaseDomain
       DEF Clear, ClearRunning, ClearQueue, Call, Drop, ClearHead, ClearIncoming, Cleared, OwnerAt
  <2> QED
    BY <2>1 DEF Walk
<1>3. CASE \E t \in Task : PutBack(t) \/ PollTask(t) \/ Queue(t) \/ Unqueue(t)
  <2>1. op' \notin {"find", "stop"}
    BY <1>3 DEF PutBack, PollTask, Queue, Unqueue, OwnerAt, control
  <2> QED
    BY <2>1 DEF Walk
<1>4. CASE \/ Get \/ Destroyed \/ RemovedDestroyed \/ Ended \/ UNCHANGED vars
           \/ \E t \in Task : QueueFromFuture(t) \/ UnqueueFromFuture(t)
           \/ \E h \in Handle : HandleStep(h)
  <2>1. UNCHANGED <<op, order, at, left, seek>> /\ (dying' = dying \/ dying' = Null)
    BY <1>4, HandleOwner
       DEF Get, Destroyed, RemovedDestroyed, Ended, QueueFromFuture, UnqueueFromFuture, UnderMutex,
           pool, iterator, control, vars
  <2> QED
    BY <2>1 DEF Walk
<1>5. CASE IterNext \/ \E t \in Task : Iterate("find", t) \/ Iterate("stop", t)
  BY <1>5, IterNextWalk, IterateWalk
<1> QED
  BY <1>1, <1>2, <1>3, <1>4, <1>5 DEF Next

-----------------------------------------------------------------------------
(* The data pointer, the guard, the mutex, and the calls that clear *)

LEMMA PointerStep == Places /\ Pointer /\ [Next]_vars => Pointer'
<1> SUFFICES ASSUME Places, Pointer, [Next]_vars PROVE Pointer'
  OBVIOUS
<1> USE DEF Pointer, Running, GetMeetsTheRun
<1>1. CASE Run \/ PollAgain \/ RunReturns \/ RunUnwinds \/ OuterRun
  <2>1. CASE Run
    BY <2>1 DEF Run, OwnerAt
  <2>2. CASE PollAgain
    BY <2>2 DEF PollAgain, OwnerAt, pointer
  <2>3. CASE RunReturns
    BY <2>3 DEF RunReturns, OwnerAt
  <2>4. CASE RunUnwinds
    BY <2>4 DEF RunUnwinds, OwnerAt
  <2>5. CASE OuterRun
    BY <2>5 DEF OuterRun, OwnerAt, pointer, control
  <2> QED
    BY <1>1, <2>1, <2>2, <2>3, <2>4, <2>5
<1>2. CASE Drain \/ PollPending
  BY <1>2 DEF Drain, PollPending, InPoll, OwnerAt, pointer
<1>3. CASE PollReady \/ PollPanic
  BY <1>3 DEF PollReady, PollPanic, PollEnds, InPoll, pointer
<1>4. CASE Clear \/ ClearRunning \/ ClearQueue \/ Drop
  BY <1>4 DEF Clear, ClearRunning, ClearQueue, Call, Drop, OwnerAt, pointer
<1>5. CASE ClearHead \/ ClearIncoming \/ Cleared
  BY <1>5, Clearings, PhaseDomain DEF ClearHead, ClearIncoming, Cleared, pointer
<1>6. CASE UnqueueReturns \/ IterNext \/ IterEnds
  BY <1>6 DEF UnqueueReturns, IterNext, IterEnds, OwnerAt, pointer, control
<1>7. CASE Get
  BY <1>7 DEF Get, InFuture, OneReference, pointer
<1>8. CASE Destroyed \/ RemovedDestroyed \/ Ended \/ UNCHANGED vars
  BY <1>8 DEF Destroyed, RemovedDestroyed, Ended, vars, pointer, control
<1>9. CASE \E t \in Task : PutBack(t) \/ PollTask(t) \/ Queue(t) \/ Unqueue(t)
  BY <1>9 DEF PutBack, PollTask, Queue, Unqueue, OwnerAt, pointer, control
<1>10. CASE \E t \in Task : \/ Iterate("find", t) \/ Iterate("stop", t)
                          \/ QueueFromFuture(t) \/ UnqueueFromFuture(t)
  BY <1>10 DEF Iterate, QueueFromFuture, UnqueueFromFuture, UnderMutex, OwnerAt, pointer, control
<1>11. CASE \E h \in Handle : HandleStep(h)
  BY <1>11, HandleOwner DEF pointer, control
<1> QED
  BY <1>1, <1>2, <1>3, <1>4, <1>5, <1>6, <1>7, <1>8, <1>9, <1>10, <1>11 DEF Next

LEMMA GuardStep == Guard /\ [Next]_vars => Guard'
<1> SUFFICES ASSUME Guard, [Next]_vars PROVE Guard'
  OBVIOUS
<1>1. ASSUME UNCHANGED <<entered, outer>>, Running' => Running PROVE Guard'
  BY <1>1 DEF Guard
<1>2. CASE PollAgain \/ Drain \/ PollPending \/ PollReady \/ PollPanic
  <2>1. UNCHANGED <<entered, outer>>
    BY <1>2 DEF PollAgain, Drain, PollPending, PollReady, PollPanic, PollEnds, guard
  <2>2. Running
    BY <1>2 DEF PollAgain, Drain, PollPending, PollReady, PollPanic, PollEnds, InPoll, OwnerAt, Running
  <2> QED
    BY <1>1, <2>1, <2>2
<1>3. CASE Run
  BY <1>3 DEF Run, OwnerAt, Guard, Running, guard
<1>4. CASE RunReturns \/ RunUnwinds
  <2>1. Running /\ outer' = outer
    BY <1>4 DEF RunReturns, RunUnwinds, OwnerAt, Running
  <2> QED
    BY <2>1 DEF Guard
<1>5. CASE OuterRun
  <2>1. op = "idle" /\ entered' = ~entered /\ outer' = ~outer /\ op' = op /\ entered = outer
    BY <1>5 DEF OuterRun, OwnerAt, control
  <2>2. ~Running'
    BY <2>1 DEF Running
  <2> QED
    BY <2>1, <2>2 DEF Guard
<1>6. CASE Clear \/ ClearRunning \/ ClearQueue \/ Drop
  <2>1. UNCHANGED <<entered, outer>> /\ op' \in {"clear", "clear_running", "clear_queue", "drop"}
    BY <1>6 DEF Clear, ClearRunning, ClearQueue, Call, Drop, guard
  <2> QED
    BY <1>1, <2>1 DEF Running
<1>7. CASE ClearHead \/ ClearIncoming \/ Cleared
  <2>1. UNCHANGED <<entered, outer>>
    BY <1>7 DEF ClearHead, ClearIncoming, Cleared, guard
  <2>2. op' = op \/ op' \in {"clear_rest", "idle", "drop_rest", "dropped"}
    BY <1>7, Clearings, PhaseDomain DEF ClearHead, ClearIncoming, Cleared
  <2> QED
    BY <1>1, <2>1, <2>2 DEF Running
<1>8. CASE UnqueueReturns \/ IterNext \/ IterEnds \/ Get \/ Destroyed \/ RemovedDestroyed \/ Ended \/ UNCHANGED vars
  <2>1. UNCHANGED <<entered, outer>> /\ (op' = op \/ op' = "idle")
    BY <1>8 DEF UnqueueReturns, IterNext, IterEnds, Get, Destroyed, RemovedDestroyed, Ended, guard, control, vars
  <2> QED
    BY <1>1, <2>1 DEF Running
<1>9. CASE \/ \E t \in Task : PutBack(t) \/ Queue(t) \/ QueueFromFuture(t) \/ UnqueueFromFuture(t)
           \/ \E h \in Handle : HandleStep(h)
  <2>1. UNCHANGED <<op, entered, outer>>
    BY <1>9, HandleOwner
       DEF PutBack, Queue, QueueFromFuture, UnqueueFromFuture, UnderMutex, guard, control
  <2> QED
    BY <1>1, <2>1 DEF Running
<1>10. CASE \E t \in Task : PollTask(t) \/ Unqueue(t) \/ Iterate("find", t) \/ Iterate("stop", t)
  <2>1. UNCHANGED <<entered, outer>>
    BY <1>10 DEF PollTask, Unqueue, Iterate, guard
  <2>2. op = "cycle" \/ op' \in {"unqueue", "find", "stop"}
    BY <1>10 DEF PollTask, Unqueue, Iterate, OwnerAt
  <2> QED
    BY <1>1, <2>1, <2>2 DEF Running
<1> QED
  BY <1>2, <1>3, <1>4, <1>5, <1>6, <1>7, <1>8, <1>9, <1>10 DEF Next

LEMMA StuckStep == Taken /\ Pointer /\ WaitsOnlyUnderRemoval /\ [Next]_vars => WaitsOnlyUnderRemoval'
<1> SUFFICES ASSUME Taken, Pointer, WaitsOnlyUnderRemoval, [Next]_vars PROVE WaitsOnlyUnderRemoval'
  OBVIOUS
<1> USE DEF WaitsOnlyUnderRemoval
<1>1. op = "drain" \/ op = "task" => dying = Null
  BY DEF Pointer
<1>0. OwnerStep => UNCHANGED removed
  BY OwnerRemoved DEF taken
<1>2. CASE Run \/ PollAgain \/ RunReturns \/ RunUnwinds \/ OuterRun \/ Drain
  BY <1>2, <1>0 DEF OwnerStep, Run, PollAgain, RunReturns, RunUnwinds, OuterRun, Drain, OwnerAt, control
<1>3. CASE PollPending \/ PollReady \/ PollPanic
  BY <1>3 DEF PollPending, PollReady, PollPanic, PollEnds, InPoll
<1>4. CASE Clear \/ ClearRunning \/ ClearQueue \/ Drop
  BY <1>4, <1>0 DEF OwnerStep, Clear, ClearRunning, ClearQueue, Call, Drop, OwnerAt
<1>5. CASE ClearHead \/ ClearIncoming \/ Cleared
  BY <1>5, <1>0, Clearings DEF OwnerStep, ClearHead, ClearIncoming, Cleared
<1>6. CASE UnqueueReturns \/ IterNext \/ IterEnds \/ Get \/ Destroyed \/ Ended \/ UNCHANGED vars
  BY <1>6, <1>0 DEF OwnerStep, InFuture, UnqueueReturns, IterNext, IterEnds, Get, Destroyed, Ended, OwnerAt, control, vars
<1>7. CASE \E t \in Task : PutBack(t) \/ PollTask(t) \/ Queue(t) \/ Unqueue(t) \/ Iterate("find", t) \/ Iterate("stop", t)
  BY <1>7, <1>0 DEF OwnerStep, PutBack, PollTask, Queue, Unqueue, Iterate, OwnerAt, control
<1>8. CASE RemovedDestroyed
  BY <1>8 DEF RemovedDestroyed, control
<1>9. CASE \E h \in Handle : HandleStep(h)
  BY <1>9, HandleOwner DEF control
<1>10. CASE \E t \in Task : QueueFromFuture(t) \/ UnqueueFromFuture(t)
  BY <1>1, <1>10, Clearings DEF QueueFromFuture, UnqueueFromFuture, UnderMutex, InFuture
<1> QED
  BY <1>2, <1>3, <1>4, <1>5, <1>6, <1>7, <1>8, <1>9, <1>10 DEF Next

LEMMA EmptiedStep == Places /\ Taken /\ Emptied /\ [Next]_vars => Emptied'
<1> SUFFICES ASSUME Places, Taken, Emptied, [Next]_vars PROVE Emptied'
  OBVIOUS
<1> USE DEF Emptied, pool
<1>0. OwnerStep => Inside' = Inside
  BY OwnerRemoved DEF taken, Inside
<1>1. CASE Run \/ PollAgain \/ RunReturns \/ RunUnwinds \/ OuterRun
  BY <1>1, <1>0 DEF OwnerStep, Run, PollAgain, RunReturns, RunUnwinds, OuterRun, OwnerAt, control
<1>2. CASE Drain \/ PollPending \/ PollReady \/ PollPanic
  BY <1>2, <1>0 DEF OwnerStep, InPoll, Drain, PollPending, PollReady, PollPanic, PollEnds, OwnerAt
<1>3. CASE Clear \/ ClearRunning \/ ClearQueue \/ Drop
  BY <1>3, <1>0 DEF OwnerStep, Clear, ClearRunning, ClearQueue, Call, Drop, OwnerAt
<1>4. CASE ClearHead \/ ClearIncoming
  BY <1>4, <1>0, Clearings DEF OwnerStep, ClearHead, ClearIncoming
<1>5. CASE Cleared
  <2>1. list.head = Null => order = <<>>
    BY HeadOfList DEF Places
  <2> QED
    BY <1>5, <1>0, <2>1, Clearings, PhaseDomain DEF OwnerStep, Cleared, tasks
<1>6. CASE UnqueueReturns \/ IterNext \/ IterEnds \/ Get \/ Destroyed \/ Ended \/ UNCHANGED vars
  BY <1>6, <1>0 DEF OwnerStep, InFuture, UnqueueReturns, IterNext, IterEnds, Get, Destroyed, Ended, OwnerAt, control, vars, tasks
<1>7. CASE \E t \in Task : PutBack(t) \/ PollTask(t) \/ Queue(t) \/ Unqueue(t) \/ Iterate("find", t) \/ Iterate("stop", t)
  BY <1>7, <1>0 DEF OwnerStep, PutBack, PollTask, Queue, Unqueue, Iterate, OwnerAt, control
<1>8. CASE RemovedDestroyed
  BY <1>8 DEF RemovedDestroyed, control, Inside
<1>9. CASE \E t \in Task : QueueFromFuture(t) \/ UnqueueFromFuture(t)
  BY <1>9 DEF QueueFromFuture, UnqueueFromFuture, UnderMutex, InFuture, Upgradable, Inside
<1>10. ASSUME NEW h \in Handle, HandleStep(h) PROVE Emptied'
  <2>1. UNCHANGED <<order, op, dying>>
    BY <1>10, HandleOwner DEF control
  <2>2. ASSUME op = "drop_rest" PROVE FALSE
    <3>1. ~Upgradable /\ hpc[h] = "out"
      BY <2>2 DEF Upgradable, Inside
    <3> QED
      BY <1>10, <3>1
         DEF HandleStep, HandleQueues, HandleUnqueues, HandleAppends, HandleMisses, HandleFinds,
             HandleStuck, HandleRemoved
  <2>3. ASSUME op = "dropped", Inside' = {} PROVE incoming' = <<>>
    <3>1. PICK place \in {"out", "queue", "unqueue", "remove", "stuck"} : hpc' = [hpc EXCEPT ![h] = place]
      BY <1>10, HandleOwner
    <3>2. place = "out" /\ \A g \in Handle : g # h => hpc[g] = "out"
      BY <2>3, <3>1 DEF Taken, Inside
    <3>3. PICK queue, alive : Leaves(h, queue, alive) /\ hpc[h] # "out"
      <4>1. hpc'[h] = "out"
        BY <3>1, <3>2 DEF Taken
      <4> QED
        BY <1>10, <4>1
           DEF HandleStep, HandleQueues, HandleUnqueues, HandleAppends, HandleMisses, HandleFinds,
               HandleStuck, HandleRemoved, Goes, Taken
    <3>4. Inside = {h}
      BY <3>2, <3>3 DEF Inside
    <3> QED
      BY <2>3, <3>3, <3>4 DEF Leaves
  <2> QED
    BY <2>1, <2>2, <2>3
<1> QED
  BY <1>1, <1>2, <1>3, <1>4, <1>5, <1>6, <1>7, <1>8, <1>9, <1>10 DEF Next

-----------------------------------------------------------------------------

LEMMA Invariance == Spec => []IInv
<1>1. IInv /\ [Next]_vars => IInv'
  BY PlacesStep, WalkStep, PointerStep, GuardStep, StuckStep, EmptiedStep DEF IInv
<1> QED
  BY <1>1, InitHolds, PTL DEF Spec

\* FuturesUnordered::link and unlink keep the list and its length exact, whatever
\* calls and destructors there are (futures_unordered.rs:265-338).
THEOREM ListStaysSound == Spec => []ListIsSound
<1>1. IInv => ListIsSound
  BY DEF IInv, Places, Sound, ListIsSound
<1> QED
  BY <1>1, Invariance, PTL

\* What an iterator says is left is the rest of the list, and is_running and
\* stop_running_task find the task they look for if it is there (iter.rs:29-98).
THEOREM IteratorsAreExact == Spec => []IterIsExact
<1>1. IInv => IterIsExact
  <2> SUFFICES ASSUME IInv, op \in {"find", "stop"}
               PROVE  /\ left = (IF at = Null THEN 0 ELSE Len(order) - Position(order, at) + 1)
                      /\ Member(order, seek) =>
                            at # Null /\ Position(order, at) <= Position(order, seek)
    BY DEF IterIsExact
  <2>1. CASE at = Null
    BY <2>1 DEF IInv, Walk
  <2>2. CASE at # Null
    <3>1. PICK i \in 1 .. Len(order) :
             /\ order[i] = at /\ left = Len(order) - i + 1
             /\ \A j \in 1 .. Len(order) : j < i => order[j] # seek
      BY <2>2 DEF IInv, Walk
    <3>2. Position(order, at) = i
      <4>1. \A j \in 1 .. Len(order) : order[j] = at => j = i
        BY <3>1 DEF IInv, Places, Sound, Distinct
      <4> QED
        BY <3>1, <4>1 DEF Position
    <3>3. ASSUME Member(order, seek) PROVE i <= Position(order, seek)
      <4> DEFINE k == Position(order, seek)
      <4>1. k \in 1 .. Len(order) /\ order[k] = seek
        BY <3>3 DEF Member, Position
      <4>2. Len(order) \in Nat
        BY LenProperties DEF IInv, Places, Sound
      <4> HIDE DEF k
      <4> QED
        BY <4>1, <4>2, <3>1 DEF k
    <3> QED
      BY <2>2, <3>1, <3>2, <3>3
  <2> QED
    BY <2>1, <2>2
<1> QED
  BY <1>1, Invariance, PTL

\* CosyncInput::get reads the parameter of the run it is called in or is refused, and
\* outside a run that ended well it is refused, up to the drop (lib.rs:503-513).
THEOREM GetReadsTheRun == Spec => []GetMeetsTheRun
<1>1. IInv => GetMeetsTheRun
  BY DEF IInv, Pointer
<1> QED
  BY <1>1, Invariance, PTL

\* enter(): no run inside the run of another executor (enter.rs:48-73).
THEOREM RunsDoNotNest == Spec => []NoNestedRun
<1>1. IInv => NoNestedRun
  BY DEF IInv, Guard, NoNestedRun
<1> QED
  BY <1>1, Invariance, PTL

\* The thread waits for its own mutex only in the destructor of a future that the
\* clears or an unqueue_task, the owner's or a handle's, destroys under it
\* (lib.rs:99-152, 345-355).
THEOREM WaitsUnderRemoval == Spec => []WaitsOnlyUnderRemoval
<1>1. IInv => WaitsOnlyUnderRemoval
  BY DEF IInv
<1> QED
  BY <1>1, Invariance, PTL

\* Every future is destroyed when a Cosync has been dropped and the handles that
\* were in a call then have left it (lib.rs:267-275, 333, 346).
THEOREM DropDestroysAll == Spec => []NothingLeaks
<1>1. IInv => NothingLeaks
  <2> SUFFICES ASSUME IInv, op = "dropped", Inside = {} PROVE live = {}
    BY DEF NothingLeaks
  <2>1. order = <<>> /\ incoming = <<>> /\ dying = Null
    BY DEF IInv, Emptied
  <2>2. \A t \in live : t \in Task /\ Placed(t)
    BY DEF IInv, Places
  <2>3. \A t : ~Member(<<>>, t)
    BY DEF Member
  <2>4. \A t \in Task : ~InTaken(t)
    BY <2>1 DEF IInv, Taken, InTaken, Inside
  <2> QED
    BY <2>1, <2>2, <2>3, <2>4, PointerAssumption DEF Placed
<1> QED
  BY <1>1, Invariance, PTL

\* When clear() returns, nothing is left in the pool or in the queue
\* (lib.rs:149-152).
THEOREM ClearIsComplete == Spec => ClearLeavesNothing
<1>1. IInv /\ [Next]_vars => (op = "clear_rest" /\ op' # op => order = <<>> /\ incoming = <<>>)
  <2> SUFFICES ASSUME IInv, Next, op = "clear_rest", op' # op PROVE order = <<>> /\ incoming = <<>>
    BY DEF vars, control
  <2>1. order = <<>>
    BY DEF IInv, Emptied
  <2>2. Cleared
    BY Clearings, HandleOwner
       DEF Next, Run, PollAgain, RunReturns, RunUnwinds, OuterRun, Drain, PollPending, PollReady,
           PollPanic, PollEnds, InPoll, RemovedDestroyed, UnqueueReturns, IterNext, IterEnds, Get, Destroyed, Ended, vars,
           Clear, ClearRunning, ClearQueue, Call, Drop, ClearHead, ClearIncoming, PutBack,
           PollTask, Queue, Unqueue, Iterate, QueueFromFuture, UnqueueFromFuture, UnderMutex, OwnerAt,
           control
  <2> QED
    BY <2>1, <2>2, Clearings DEF Cleared
<1> QED
  BY <1>1, Invariance, PTL DEF Spec, ClearLeavesNothing
=============================================================================
