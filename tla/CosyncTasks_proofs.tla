------------------------- MODULE CosyncTasks_proofs -------------------------
(***************************************************************************)
(* What happens to a task between the call that queues it and its end, for *)
(* every number of tasks, handles, wakers and wake-ups per poll: it is in  *)
(* one place, has an id of its own, is first polled in the order of its    *)
(* actor's calls, and at most once per run.                                *)
(*                                                                         *)
(* The steps that Cosync and SerialCosync share come first.                *)
(***************************************************************************)
EXTENDS Cosync_proofs

QueuedTasks == {t \in Task : Queued(t)}

\* The counter is the number of tasks queued so far.
Ids ==
    /\ id \in [Task -> IdRange \union {None}]
    /\ by \in [Task -> Handle \union {Owner_, None}]
    /\ counter \in IdRange
    /\ Cardinality(QueuedTasks) < IdSpace => counter = Cardinality(QueuedTasks)
    /\ \A t \in QueuedTasks : id[t] < Cardinality(QueuedTasks)
    /\ IdsDistinct

Held == {t \in Task : \E h \in Handle : htask[h] = t}

Once == \A i, j \in 1 .. Len(incoming) : incoming[i] = incoming[j] => i = j

\* A queued task is held, waiting, in the pool or gone.
Places ==
    /\ incoming \in Seq(Task)
    /\ Once
    /\ htask \in [Handle -> Task \union {None}]
    /\ \A g, h \in Handle : htask[g] = htask[h] /\ htask[h] # None => g = h
    /\ live \subseteq Task /\ gone \subseteq Task
    /\ Held \intersect (Waiting \union live \union gone) = {}
    /\ Waiting \intersect (live \union gone) = {}
    /\ live \intersect gone = {}
    /\ QueuedTasks = Held \union Waiting \union live \union gone
    /\ begun \subseteq live \union gone
    /\ ran \subseteq begun

\* The futures are those of the list and the one unlinked for a poll; wakers exist
\* only of tasks that have been polled.
PoolShape ==
    /\ linked \subseteq Task /\ cur \in Task \union {None}
    /\ live = linked \union {t \in Task : t = cur}
    /\ cur \notin linked
    /\ pc \in {"poll", "requeue"} <=> cur # None

Reached ==
    /\ pc \in {"drain", "dropped", "abort_clear", "abort_drop"} => linked = {}
    /\ cur \in begun \union {None}
    /\ polled \subseteq begun
    /\ wtask \in [Waker -> begun \union {None}]
    /\ \A i \in 1 .. Len(ready) : ready[i] \in live \union gone \union {None}

\* The tasks of the pool that wait for their first poll, ...
New == {t \in live : t \notin begun}

Before(t, u) == by[t] = by[u] => id[t] < id[u]

\* ... are in the ready-to-run queue, those of one actor in the order of their ids.
Line ==
    /\ ready \in Seq(Task \union {None})
    /\ \A t \in New : \E i \in 1 .. Len(ready) : ready[i] = t
    /\ \A i, j \in 1 .. Len(ready) :
          i < j /\ ready[i] \in New /\ ready[j] \in New => Before(ready[i], ready[j])

\* Those still waiting come after them, the one a handle holds comes last.
Behind ==
    /\ \A i, j \in 1 .. Len(incoming) : i < j => Before(incoming[i], incoming[j])
    /\ \A t \in New, u \in Waiting : Before(t, u)
    /\ \A u \in Waiting : by[u] \in Handle
    /\ \A h \in Handle : htask[h] # None =>
          /\ by[htask[h]] = h
          /\ \A u \in Task : Queued(u) /\ by[u] = h /\ u # htask[h] => id[u] < id[htask[h]]

\* A run opens one poll cycle, in the program point `where`.
Cycle(where) ==
    /\ fresh \in BOOLEAN
    /\ fresh => cpc = where /\ pc = "idle" /\ ran \intersect live = {}
    /\ ran \intersect live \subseteq polled

Tasks == Ids /\ Places /\ Behind /\ FifoPerActor

Pool == PoolShape /\ Reached /\ Line

numbers == <<counter, id, by>>

-----------------------------------------------------------------------------
(* Ids *)

LEMMA QueuedIsFinite == IsFiniteSet(QueuedTasks) /\ Cardinality(QueuedTasks) \in Nat
  BY FS_Subset, FS_CardinalityType, IdSpaceAssumption DEF QueuedTasks

\* The id of a queued task is a number.
LEMMA IdIsNat == ASSUME Ids, NEW t \in Task, Queued(t) PROVE id[t] \in Nat
<1>1. id[t] \in IdRange
  BY DEF Ids, Queued
<1> QED
  BY <1>1, IdSpaceAssumption DEF IdRange

\* A new id is larger than those given out before.
LEMMA NewId ==
    ASSUME Ids, NEW t \in Task, NEW actor \in Handle \union {Owner_}, TakeId(t, actor)
    PROVE  /\ Ids'
           /\ ~Queued(t) /\ QueuedTasks' = QueuedTasks \union {t}
           /\ id'[t] \in Nat /\ by'[t] = actor
           /\ \A u \in Task : u # t => id'[u] = id[u] /\ by'[u] = by[u]
           /\ \A u \in Task : Queued(u) => id[u] \in Nat /\ id[u] < id'[t]
<1> DEFINE n == Cardinality(QueuedTasks)
<1>1. /\ n \in Nat /\ IsFiniteSet(QueuedTasks)
      /\ QueuedTasks \subseteq Task /\ t \in Task \ QueuedTasks
  BY QueuedIsFinite DEF TakeId, QueuedTasks
<1>2. n < IdSpace
  <2>1. Cardinality(Task \ {t}) = Cardinality(Task) - 1
    BY FS_RemoveElement, IdSpaceAssumption
  <2>2. IsFiniteSet(Task \ {t}) /\ QueuedTasks \subseteq Task \ {t}
    BY <1>1, FS_RemoveElement, IdSpaceAssumption
  <2>3. n <= Cardinality(Task \ {t})
    BY <2>2, FS_Subset
  <2>4. Cardinality(Task) \in Nat
    BY FS_CardinalityType, IdSpaceAssumption
  <2> QED
    BY <1>1, <2>1, <2>3, <2>4, IdSpaceAssumption
<1>3. counter = n
  BY <1>2 DEF Ids
<1>4. /\ id' = [id EXCEPT ![t] = n] /\ by' = [by EXCEPT ![t] = actor]
      /\ counter' = (n + 1) % IdSpace
  BY <1>3 DEF TakeId
<1>5. /\ id' \in [Task -> IdRange \union {None}] /\ id'[t] = n
      /\ by' \in [Task -> Handle \union {Owner_, None}] /\ by'[t] = actor
      /\ \A u \in Task : u # t => id'[u] = id[u] /\ by'[u] = by[u]
  BY <1>1, <1>2, <1>4, IdSpaceAssumption DEF Ids, IdRange
<1>6. QueuedTasks' = QueuedTasks \union {t}
  BY <1>1, <1>5, NoIdAssumption DEF QueuedTasks, Queued
<1>7. Cardinality(QueuedTasks') = n + 1
  BY <1>1, <1>6, FS_AddElement
<1>8. \A u \in Task : Queued(u) => id[u] \in Nat /\ id[u] < n
  BY IdIsNat DEF Ids, QueuedTasks
<1>9. counter' \in IdRange /\ (n + 1 < IdSpace => counter' = n + 1)
  BY <1>1, <1>2, <1>4, IdSpaceAssumption DEF IdRange
<1>10. \A u \in QueuedTasks' : id'[u] < n + 1
  BY <1>1, <1>5, <1>6, <1>8 DEF QueuedTasks
<1>11. IdsDistinct'
  <2> SUFFICES ASSUME NEW u \in Task, NEW v \in Task, Queued(u)', id'[u] = id'[v] PROVE u = v
    BY DEF IdsDistinct
  <2>0. \A w \in Task : w # t => id'[w] # n
    <3> SUFFICES ASSUME NEW w \in Task, w # t, id[w] = n PROVE FALSE
      BY <1>5
    <3>1. n \in Nat
      BY <1>1
    <3>2. id[w] # None
      BY <3>1, NoIdAssumption
    <3>3. id[w] < n
      BY <3>2, <1>8 DEF Queued
    <3> QED
      BY <3>1, <3>3
  <2>1. CASE u = t /\ v # t
    BY <2>0, <2>1, <1>5
  <2>2. CASE v = t /\ u # t
    BY <2>0, <2>2, <1>5
  <2>3. CASE u # t /\ v # t
    BY <2>3, <1>5 DEF Ids, IdsDistinct, Queued
  <2> QED
    BY <2>1, <2>2, <2>3
<1>12. Ids'
  BY <1>5, <1>7, <1>9, <1>10, <1>11 DEF Ids
<1> QED
  BY <1>1, <1>5, <1>6, <1>8, <1>12 DEF QueuedTasks

-----------------------------------------------------------------------------
(* The incoming tasks *)

LEMMA WaitingIsRange ==
    ASSUME incoming \in Seq(Task)
    PROVE  /\ Len(incoming) \in Nat /\ DOMAIN incoming = 1 .. Len(incoming)
           /\ Waiting \subseteq Task
           /\ \A t : t \in Waiting <=> \E i \in 1 .. Len(incoming) : incoming[i] = t
  BY DEF Waiting

\* The entry at one position is taken out.
Taken(k) ==
    /\ incoming' \in Seq(Task) /\ Len(incoming') = Len(incoming) - 1
    /\ \A j \in 1 .. Len(incoming') : incoming'[j] = incoming[IF j < k THEN j ELSE j + 1]

LEMMA RemoveTakes ==
    ASSUME incoming \in Seq(Task), NEW k \in 1 .. Len(incoming), RemoveAt(k)
    PROVE  Taken(k)
<1>1. Len(incoming) \in Nat /\ \A i \in 1 .. Len(incoming) : incoming[i] \in Task
  OBVIOUS
<1>2. \A j \in 1 .. Len(incoming) - 1 : j \in 1 .. Len(incoming) /\ j + 1 \in 1 .. Len(incoming)
  BY <1>1
<1>3. Len(incoming) - 1 \in Nat
  BY <1>1
<1>4. incoming' \in [1 .. Len(incoming) - 1 -> Task]
  BY <1>1, <1>2 DEF RemoveAt
<1>5. incoming' \in Seq(Task) /\ Len(incoming') = Len(incoming) - 1
  BY <1>3, <1>4
<1> QED
  BY <1>5 DEF RemoveAt, Taken

LEMMA TailTakes ==
    ASSUME incoming \in Seq(Task), incoming # <<>>, incoming' = Tail(incoming)
    PROVE  Taken(1) /\ 1 \in 1 .. Len(incoming) /\ Head(incoming) = incoming[1]
<1>1. Len(incoming) \in Nat /\ Len(incoming) # 0
  OBVIOUS
<1>2. /\ incoming' \in Seq(Task) /\ Len(incoming') = Len(incoming) - 1
      /\ \A j \in 1 .. Len(incoming') : incoming'[j] = incoming[j + 1]
  OBVIOUS
<1>3. \A j \in 1 .. Len(incoming') : ~(j < 1)
  BY <1>1, <1>2
<1> QED
  BY <1>1, <1>2, <1>3 DEF Taken

LEMMA EntryTaken ==
    ASSUME incoming \in Seq(Task), Once, NEW k \in 1 .. Len(incoming), Taken(k)
    PROVE  /\ Once'
           /\ incoming[k] \in Waiting
           /\ Waiting' = Waiting \ {incoming[k]}
<1>1. Len(incoming) \in Nat /\ Len(incoming') = Len(incoming) - 1
  BY DEF Taken
<1>2. \A j \in 1 .. Len(incoming') : incoming'[j] = incoming[IF j < k THEN j ELSE j + 1]
  BY DEF Taken
<1>3. Once'
  BY <1>1, <1>2 DEF Once
<1>4. incoming[k] \in Waiting
  BY WaitingIsRange
<1>5. \A u : u \in Waiting' <=> \E j \in 1 .. Len(incoming') : incoming'[j] = u
  BY DEF Waiting, Taken
<1>6. ASSUME NEW j \in 1 .. Len(incoming')
      PROVE  incoming'[j] \in Waiting /\ incoming'[j] # incoming[k]
  <2> DEFINE i == IF j < k THEN j ELSE j + 1
  <2>1. i \in 1 .. Len(incoming) /\ i # k /\ incoming'[j] = incoming[i]
    BY <1>1, <1>2
  <2> QED
    BY <2>1, WaitingIsRange DEF Once
<1>7. ASSUME NEW i \in 1 .. Len(incoming), i # k PROVE incoming[i] \in Waiting'
  <2> DEFINE j == IF i < k THEN i ELSE i - 1
  <2>1. j \in 1 .. Len(incoming') /\ incoming'[j] = incoming[i]
    BY <1>1, <1>2, <1>7
  <2> QED
    BY <2>1, <1>5
<1>8. Waiting' \subseteq Waiting \ {incoming[k]}
  BY <1>5, <1>6
<1>9. Waiting \ {incoming[k]} \subseteq Waiting'
  BY <1>7, WaitingIsRange
<1> QED
  BY <1>3, <1>4, <1>8, <1>9

LEMMA EntryAppended ==
    ASSUME incoming \in Seq(Task), Once, NEW t \in Task, t \notin Waiting,
           incoming' = Append(incoming, t)
    PROVE  /\ incoming' \in Seq(Task)
           /\ Len(incoming') = Len(incoming) + 1 /\ incoming'[Len(incoming) + 1] = t
           /\ \A i \in 1 .. Len(incoming) : incoming'[i] = incoming[i]
           /\ Once'
           /\ Waiting' = Waiting \union {t}
<1>1. /\ Len(incoming) \in Nat /\ incoming' \in Seq(Task)
      /\ Len(incoming') = Len(incoming) + 1 /\ incoming'[Len(incoming) + 1] = t
      /\ \A i \in 1 .. Len(incoming) : incoming'[i] = incoming[i]
  OBVIOUS
<1>2. \A i \in 1 .. Len(incoming) : incoming[i] # t
  BY WaitingIsRange
<1>3. Once'
  <2> SUFFICES ASSUME NEW i \in 1 .. Len(incoming'), NEW j \in 1 .. Len(incoming'),
                      incoming'[i] = incoming'[j]
               PROVE  i = j
    BY DEF Once
  <2>1. CASE i = Len(incoming) + 1 \/ j = Len(incoming) + 1
    BY <1>1, <1>2, <2>1
  <2>2. CASE i # Len(incoming) + 1 /\ j # Len(incoming) + 1
    BY <1>1, <2>2 DEF Once
  <2> QED
    BY <2>1, <2>2
<1>4. \A u : u \in Waiting' <=> \E i \in 1 .. Len(incoming') : incoming'[i] = u
  BY <1>1 DEF Waiting
<1>5. Waiting' \subseteq Waiting \union {t}
  BY <1>1, <1>4, WaitingIsRange
<1>6. Waiting \subseteq Waiting'
  <2> SUFFICES ASSUME NEW i \in 1 .. Len(incoming) PROVE incoming[i] \in Waiting'
    BY WaitingIsRange
  <2>1. i \in 1 .. Len(incoming') /\ incoming'[i] = incoming[i]
    BY <1>1
  <2> QED
    BY <1>4, <2>1
<1>7. t \in Waiting'
  <2>1. Len(incoming) + 1 \in 1 .. Len(incoming')
    BY <1>1
  <2> QED
    BY <1>1, <1>4, <2>1
<1> QED
  BY <1>1, <1>3, <1>5, <1>6, <1>7

-----------------------------------------------------------------------------
(* Steps that leave the incoming tasks alone, or take some of them out *)

LEMMA SameNumbers ==
    ASSUME UNCHANGED numbers
    PROVE  QueuedTasks' = QueuedTasks /\ (Ids => Ids') /\ \A t \in Task : Queued(t)' = Queued(t)
  BY DEF numbers, QueuedTasks, Queued, Ids, IdsDistinct

\* Tasks of the pool end.
LEMMA EndsKeep ==
    ASSUME Tasks, UNCHANGED <<numbers, incoming, htask, begun>>, ran' \subseteq begun,
           live' \subseteq live, gone' = gone \union (live \ live')
    PROVE  Tasks' /\ New' \subseteq New
<1>1. UNCHANGED numbers
  BY DEF numbers
<1>2. UNCHANGED <<Waiting, Held, Once>>
  BY DEF Waiting, Held, Once
<1>3. Places'
  BY <1>1, <1>2, SameNumbers DEF Tasks, Places
<1>4. New' \subseteq New
  BY DEF New
<1>5. Behind'
  BY <1>2, <1>4 DEF Tasks, Behind, Before, Queued, numbers
<1>6. FifoPerActor'
  BY DEF Tasks, FifoPerActor, Queued, numbers
<1> QED
  BY <1>1, <1>3, <1>4, <1>5, <1>6, SameNumbers DEF Tasks

\* The poll of the first task in the ready-to-run queue begins.
LEMMA BeginKeeps ==
    ASSUME Tasks, Line, NEW u \in live, ready # <<>>, u = Head(ready),
           UNCHANGED <<numbers, incoming, htask, live, gone>>,
           begun' = begun \union {u}, ran' = ran \union {u}
    PROVE  Tasks' /\ New' = New \ {u}
<1>1. UNCHANGED numbers
  BY DEF numbers
<1>2. UNCHANGED <<Waiting, Held, Once>>
  BY DEF Waiting, Held, Once
<1>3. Places'
  BY <1>1, <1>2, SameNumbers DEF Tasks, Places
<1>4. New' = New \ {u}
  BY DEF New
<1>5. Behind'
  BY <1>2, <1>4 DEF Tasks, Behind, Before, Queued, numbers
<1>6. ASSUME NEW t \in Task, Queued(t), Queued(u), by[t] = by[u], id[t] < id[u],
             u \notin begun, t \notin begun \union gone
      PROVE  FALSE
  <2>1. u \in New /\ u \in Task /\ id[t] \in Nat /\ id[u] \in Nat
    BY <1>6, IdIsNat DEF New, Tasks, Places
  <2>2. CASE t \in live
    <3>1. t \in New
      BY <1>6, <2>2 DEF New
    <3>2. PICK i \in 1 .. Len(ready) : ready[i] = t
      BY <3>1 DEF Line
    <3>3. Len(ready) \in Nat /\ ready[1] = u /\ 1 \in 1 .. Len(ready)
      BY <3>2 DEF Line
    <3>4. i # 1
      BY <1>6, <3>2, <3>3, <2>1
    <3>5. Before(u, t)
      BY <3>1, <3>2, <3>3, <3>4, <2>1 DEF Line
    <3> QED
      BY <1>6, <3>5, <2>1 DEF Before
  <2>3. CASE t \in Waiting
    BY <1>6, <2>1, <2>3 DEF Tasks, Behind, Before
  <2>4. CASE t \in Held
    <3>1. PICK h \in Handle : htask[h] = t
      BY <2>4 DEF Held
    <3>2. htask[h] # None /\ by[t] = h /\ u # t
      BY <3>1, <2>1, NoneAssumption, <1>6 DEF Tasks, Behind
    <3>3. id[u] < id[t]
      BY <1>6, <3>1, <3>2, <2>1 DEF Tasks, Behind
    <3> QED
      BY <1>6, <3>3, <2>1
  <2>5. t \in Held \union Waiting \union live
    BY <1>6 DEF Tasks, Places, QueuedTasks
  <2> QED
    BY <2>2, <2>3, <2>4, <2>5
<1>7. FifoPerActor'
  <2> SUFFICES ASSUME NEW t \in Task, NEW v \in Task, Queued(t)', Queued(v)', by'[t] = by'[v],
                      id'[t] < id'[v], v \in begun'
               PROVE  t \in begun' \union gone'
    BY DEF FifoPerActor
  <2>1. Queued(t) /\ Queued(v) /\ by[t] = by[v] /\ id[t] < id[v] /\ gone' = gone
    BY DEF Queued, numbers
  <2>2. CASE v \in begun
    BY <2>1, <2>2 DEF Tasks, FifoPerActor
  <2>3. CASE v = u /\ u \notin begun
    BY <2>1, <2>3, <1>6
  <2> QED
    BY <2>2, <2>3
<1> QED
  BY <1>1, <1>3, <1>4, <1>5, <1>7, SameNumbers DEF Tasks

\* clear_queue.
LEMMA EmptyKeeps ==
    ASSUME Tasks, EmptyQueue, UNCHANGED <<numbers, htask, live, begun, ran>>
    PROVE  Tasks' /\ New' = New
<1>1. UNCHANGED numbers
  BY DEF numbers
<1>2. /\ Waiting' = {} /\ Held' = Held /\ Once' /\ gone' = gone \union Waiting
      /\ incoming' \in Seq(Task) /\ Len(incoming') = 0
  BY DEF EmptyQueue, Waiting, Held, Once
<1>3. Places'
  <2>1. Waiting \subseteq Task
    BY WaitingIsRange DEF Tasks, Places
  <2>2. UNCHANGED <<QueuedTasks, htask, live, begun, ran>>
    BY <1>1, SameNumbers
  <2> QED
    BY <1>2, <2>1, <2>2 DEF Tasks, Places
<1>4. New' = New
  BY DEF New
<1>5. Behind'
  BY <1>2, <1>4 DEF Tasks, Behind, Before, Queued, numbers
<1>6. FifoPerActor'
  BY DEF Tasks, FifoPerActor, Queued, numbers, EmptyQueue
<1> QED
  BY <1>1, <1>3, <1>4, <1>5, <1>6, SameNumbers DEF Tasks

\* The order of the others stays when an entry is taken out.
LEMMA TakenOrder ==
    ASSUME Tasks, NEW k \in 1 .. Len(incoming), Taken(k), UNCHANGED numbers
    PROVE  \A i, j \in 1 .. Len(incoming') : i < j => Before(incoming[i], incoming[j])'
<1> SUFFICES ASSUME NEW i \in 1 .. Len(incoming'), NEW j \in 1 .. Len(incoming'), i < j
             PROVE  Before(incoming[i], incoming[j])'
  OBVIOUS
<1> DEFINE m == IF i < k THEN i ELSE i + 1
           n == IF j < k THEN j ELSE j + 1
<1>1. incoming \in Seq(Task)
  BY DEF Tasks, Places
<1>2. Len(incoming) \in Nat /\ Len(incoming') = Len(incoming) - 1
  BY <1>1 DEF Taken
<1>3. incoming'[i] = incoming[m] /\ incoming'[j] = incoming[n]
  BY DEF Taken
<1>4. m \in 1 .. Len(incoming) /\ n \in 1 .. Len(incoming) /\ m < n
  BY <1>2
<1>5. Before(incoming[m], incoming[n])
  BY <1>4 DEF Tasks, Behind
<1> QED
  BY <1>3, <1>5 DEF Before, numbers

\* unqueue_task.
LEMMA RemovedKeeps ==
    ASSUME Tasks, NEW k \in 1 .. Len(incoming), Taken(k), gone' = gone \union {incoming[k]},
           UNCHANGED <<numbers, htask, live, begun, ran>>
    PROVE  Tasks' /\ New' = New
<1>1. UNCHANGED numbers
  BY DEF numbers
<1>2. /\ Once' /\ incoming[k] \in Waiting /\ Waiting' = Waiting \ {incoming[k]}
      /\ Held' = Held /\ incoming' \in Seq(Task) /\ Waiting \subseteq Task
  BY EntryTaken, WaitingIsRange DEF Tasks, Places, Taken, Held
<1>3. Places'
  <2>1. UNCHANGED QueuedTasks
    BY <1>1, SameNumbers
  <2> QED
    BY <1>2, <2>1 DEF Tasks, Places
<1>4. New' = New
  BY DEF New
<1>5. Behind'
  <2>1. \A i, j \in 1 .. Len(incoming') : i < j => Before(incoming[i], incoming[j])'
    BY <1>1, TakenOrder
  <2>2. \A t \in New', u \in Waiting' : Before(t, u)'
    BY <1>2, <1>4 DEF Tasks, Behind, Before, numbers
  <2>3. \A u \in Waiting' : by'[u] \in Handle
    BY <1>2 DEF Tasks, Behind, numbers
  <2>4. \A h \in Handle : htask'[h] # None =>
          /\ by'[htask'[h]] = h
          /\ \A u \in Task : Queued(u)' /\ by'[u] = h /\ u # htask'[h] => id'[u] < id'[htask'[h]]
    BY DEF Tasks, Behind, numbers, Queued
  <2> QED
    BY <2>1, <2>2, <2>3, <2>4 DEF Behind
<1>6. FifoPerActor'
  BY DEF Tasks, FifoPerActor, Queued, numbers
<1> QED
  BY <1>1, <1>3, <1>4, <1>5, <1>6, SameNumbers DEF Tasks

\* The first incoming task goes to the pool.
LEMMA MovedKeeps ==
    ASSUME Tasks, NEW t, incoming # <<>>, t = Head(incoming), incoming' = Tail(incoming),
           live' = live \union {t},
           UNCHANGED <<numbers, htask, begun, ran, gone>>
    PROVE  /\ Tasks' /\ New' = New \union {t}
           /\ t \in Task /\ t \notin live \union begun \union gone
           /\ \A u \in New : Before(u, t)
<1>1. UNCHANGED numbers
  BY DEF numbers
<1>2. incoming \in Seq(Task) /\ Once
  BY DEF Tasks, Places
<1>3. Taken(1) /\ 1 \in 1 .. Len(incoming) /\ incoming[1] = t
  BY <1>2, TailTakes
<1>4. /\ Once' /\ t \in Waiting /\ Waiting' = Waiting \ {t}
      /\ Held' = Held /\ incoming' \in Seq(Task) /\ Waiting \subseteq Task
  BY <1>2, <1>3, EntryTaken, WaitingIsRange DEF Taken, Held
<1>5. Places'
  <2>1. UNCHANGED QueuedTasks
    BY <1>1, SameNumbers
  <2> QED
    BY <1>4, <2>1 DEF Tasks, Places
<1>6. t \in Task /\ t \notin live \union begun \union gone
  BY <1>4 DEF Tasks, Places
<1>7. New' = New \union {t}
  BY <1>6 DEF New
<1>8. \A u \in New : Before(u, t)
  BY <1>4 DEF Tasks, Behind
<1>9. Behind'
  <2>1. \A i, j \in 1 .. Len(incoming') : i < j => Before(incoming[i], incoming[j])'
    BY <1>1, <1>3, TakenOrder
  <2>2. ASSUME NEW u \in Waiting' PROVE Before(t, u)
    <3>1. PICK j \in 1 .. Len(incoming) : incoming[j] = u
      BY <1>2, <1>4, WaitingIsRange
    <3>2. j # 1
      BY <1>3, <1>4, <3>1
    <3>3. 1 < j
      BY <3>2
    <3> QED
      BY <1>3, <3>1, <3>3 DEF Tasks, Behind
  <2>3. \A s \in New', u \in Waiting' : Before(s, u)'
    BY <1>4, <1>7, <2>2 DEF Tasks, Behind, Before, numbers
  <2>4. \A u \in Waiting' : by'[u] \in Handle
    BY <1>4 DEF Tasks, Behind, numbers
  <2>5. \A h \in Handle : htask'[h] # None =>
          /\ by'[htask'[h]] = h
          /\ \A u \in Task : Queued(u)' /\ by'[u] = h /\ u # htask'[h] => id'[u] < id'[htask'[h]]
    BY DEF Tasks, Behind, numbers, Queued
  <2> QED
    BY <2>1, <2>3, <2>4, <2>5 DEF Behind
<1>10. FifoPerActor'
  BY DEF Tasks, FifoPerActor, Queued, numbers
<1> QED
  BY <1>1, <1>5, <1>6, <1>7, <1>8, <1>9, <1>10, SameNumbers DEF Tasks

-----------------------------------------------------------------------------
(* Steps that queue *)

\* The first half of a handle's queue().
LEMMA NumberKeeps ==
    ASSUME Tasks, NEW h \in Handle, NEW t \in Task, HandleNumber(h, t)
    PROVE  /\ Tasks' /\ New' = New
           /\ \A u \in New : id'[u] = id[u] /\ by'[u] = by[u]
<1>1. /\ TakeId(t, h) /\ htask[h] = None /\ htask' = [htask EXCEPT ![h] = t]
      /\ UNCHANGED <<incoming, live, begun, ran, gone>>
  BY DEF HandleNumber, poolVars, vars, mem, runHistory
<1>2. /\ Ids' /\ ~Queued(t) /\ QueuedTasks' = QueuedTasks \union {t}
      /\ id'[t] \in Nat /\ by'[t] = h
      /\ \A u \in Task : u # t => id'[u] = id[u] /\ by'[u] = by[u]
      /\ \A u \in Task : Queued(u) => id[u] \in Nat /\ id[u] < id'[t]
  BY <1>1, NewId DEF Tasks
<1>3. UNCHANGED <<Waiting, Once, New>>
  BY <1>1 DEF Waiting, Once, New
<1>4. /\ \A u \in Task : Queued(u)' <=> Queued(u) \/ u = t
      /\ \A u \in Task : Queued(u) => id'[u] = id[u] /\ by'[u] = by[u]
      /\ \A u \in Held \union Waiting \union live \union gone : Queued(u) /\ u \in Task
  BY <1>2 DEF Tasks, Places, QueuedTasks
<1>5. /\ htask' \in [Handle -> Task \union {None}] /\ htask'[h] = t
      /\ \A g \in Handle : g # h => htask'[g] = htask[g]
      /\ \A g \in Handle : htask[g] # None => htask[g] \in Held
  BY <1>1 DEF Tasks, Places, Held
<1>6. Held' = Held \union {t}
  BY <1>1, <1>5, NoneAssumption DEF Held
<1>7. t \notin Held \union Waiting \union live \union gone
  BY <1>2, <1>4
<1>8. Places'
  <2>1. \A f, g \in Handle : htask'[f] = htask'[g] /\ htask'[f] # None => f = g
    BY <1>5, <1>7 DEF Tasks, Places
  <2> QED
    BY <1>1, <1>2, <1>3, <1>5, <1>6, <1>7, <2>1 DEF Tasks, Places
<1>9. Behind'
  <2>1. \A i, j \in 1 .. Len(incoming') : i < j => Before(incoming[i], incoming[j])'
    <3> SUFFICES ASSUME NEW i \in 1 .. Len(incoming), NEW j \in 1 .. Len(incoming), i < j
                 PROVE  Before(incoming[i], incoming[j])'
      BY <1>1
    <3>1. incoming[i] \in Waiting /\ incoming[j] \in Waiting
      BY WaitingIsRange DEF Tasks, Places
    <3>2. Before(incoming[i], incoming[j])
      BY DEF Tasks, Behind
    <3> QED
      BY <1>1, <1>4, <3>1, <3>2 DEF Before
  <2>2. \A s \in New', u \in Waiting' : Before(s, u)'
    BY <1>3, <1>4 DEF Tasks, Behind, Before, New
  <2>3. \A u \in Waiting' : by'[u] \in Handle
    BY <1>3, <1>4 DEF Tasks, Behind
  <2>4. ASSUME NEW g \in Handle, htask'[g] # None
        PROVE  /\ by'[htask'[g]] = g
               /\ \A u \in Task : Queued(u)' /\ by'[u] = g /\ u # htask'[g] => id'[u] < id'[htask'[g]]
    <3>1. CASE g = h
      BY <1>2, <1>4, <1>5, <3>1
    <3>2. CASE g # h
      <4>1. htask'[g] = htask[g] /\ htask[g] \in Task /\ Queued(htask[g]) /\ htask[g] # t
        BY <1>4, <1>5, <1>7, <2>4, <3>2
      <4>2. by[htask[g]] = g /\ \A u \in Task : Queued(u) /\ by[u] = g /\ u # htask[g] => id[u] < id[htask[g]]
        BY <2>4, <4>1 DEF Tasks, Behind
      <4> QED
        BY <1>2, <1>4, <3>2, <4>1, <4>2
    <3> QED
      BY <3>1, <3>2
  <2> QED
    BY <2>1, <2>2, <2>3, <2>4 DEF Behind
<1>10. FifoPerActor'
  <2> SUFFICES ASSUME NEW u \in Task, NEW v \in Task, Queued(u)', Queued(v)', by'[u] = by'[v],
                      id'[u] < id'[v], v \in begun'
               PROVE  u \in begun' \union gone'
    BY DEF FifoPerActor
  <2>1. v \in begun /\ v # t /\ Queued(v)
    BY <1>1, <1>4, <1>7 DEF Tasks, Places
  <2>2. u # t
    BY <1>2, <1>4, <2>1
  <2> QED
    BY <1>1, <1>4, <2>1, <2>2 DEF Tasks, FifoPerActor
<1> QED
  BY <1>2, <1>3, <1>4, <1>8, <1>9, <1>10 DEF Tasks, New

\* The second half.
LEMMA AppendKeeps ==
    ASSUME Tasks, NEW h \in Handle, HandleAppend(h)
    PROVE  Tasks' /\ New' = New
<1> DEFINE t == htask[h]
<1>1. /\ t # None /\ htask' = [htask EXCEPT ![h] = None]
      /\ UNCHANGED <<numbers, live, begun, ran>>
  BY DEF HandleAppend, poolVars, vars, mem, numbers
<1>2. UNCHANGED numbers
  BY <1>1 DEF numbers
<1>3. /\ htask' \in [Handle -> Task \union {None}] /\ htask'[h] = None
      /\ \A g \in Handle : g # h => htask'[g] = htask[g]
      /\ \A f, g \in Handle : htask[f] = htask[g] /\ htask[f] # None => f = g
  BY <1>1 DEF Tasks, Places
<1>4. t \in Held /\ t \in Task
  BY <1>1 DEF Tasks, Places, Held
<1>5. Held' = Held \ {t}
  BY <1>3, <1>4, NoneAssumption DEF Held
<1>6. UNCHANGED <<New, QueuedTasks>>
  BY <1>1, SameNumbers DEF New
<1>7. t \notin Waiting /\ incoming \in Seq(Task) /\ Once /\ Waiting \subseteq Task
  BY <1>4, WaitingIsRange DEF Tasks, Places
<1>8. \A g \in Handle : htask'[g] # None =>
          /\ by'[htask'[g]] = g
          /\ \A u \in Task : Queued(u)' /\ by'[u] = g /\ u # htask'[g] => id'[u] < id'[htask'[g]]
  BY <1>1, <1>3 DEF Tasks, Behind, numbers, Queued
<1>9. FifoPerActor'
  <2>1. gone \subseteq gone'
    BY DEF HandleAppend
  <2> QED
    BY <1>1, <2>1 DEF Tasks, FifoPerActor, numbers, Queued
<1>10. CASE incoming' = <<>> /\ gone' = gone \union Waiting \union {t}
  <2>1. Waiting' = {} /\ Once' /\ incoming' \in Seq(Task) /\ Len(incoming') = 0
    BY <1>10 DEF Waiting, Once
  <2>2. Places'
    BY <1>1, <1>3, <1>4, <1>5, <1>6, <1>7, <1>10, <2>1 DEF Tasks, Places
  <2>3. Behind'
    BY <1>8, <2>1 DEF Behind
  <2> QED
    BY <1>2, <1>6, <1>9, <2>2, <2>3, SameNumbers DEF Tasks
<1>11. CASE incoming' = Append(incoming, t) /\ gone' = gone
  <2> HIDE DEF t
  <2>1. /\ incoming' \in Seq(Task)
        /\ Len(incoming') = Len(incoming) + 1 /\ incoming'[Len(incoming) + 1] = t
        /\ \A i \in 1 .. Len(incoming) : incoming'[i] = incoming[i]
        /\ Once'
        /\ Waiting' = Waiting \union {t}
    BY <1>4, <1>7, <1>11, EntryAppended
  <2>2. Places'
    BY <1>1, <1>3, <1>4, <1>5, <1>6, <1>7, <1>11, <2>1 DEF Tasks, Places
  <2>3. by[t] = h /\ \A u \in Waiting \union New : Before(u, t)
    <3>1. by[t] = h /\ \A u \in Task : Queued(u) /\ by[u] = h /\ u # t => id[u] < id[t]
      BY <1>1 DEF Tasks, Behind, t
    <3>2. \A u \in Waiting \union New : u \in Task /\ Queued(u) /\ u # t
      BY <1>4, <1>7 DEF Tasks, Places, New, QueuedTasks
    <3> QED
      BY <3>1, <3>2 DEF Before
  <2>4. \A i, j \in 1 .. Len(incoming') : i < j => Before(incoming[i], incoming[j])'
    <3> SUFFICES ASSUME NEW i \in 1 .. Len(incoming'), NEW j \in 1 .. Len(incoming'), i < j
                 PROVE  Before(incoming[i], incoming[j])'
      OBVIOUS
    <3>1. Len(incoming) \in Nat
      BY <1>7
    <3>2. i \in 1 .. Len(incoming) /\ incoming'[i] = incoming[i] /\ incoming[i] \in Waiting
      BY <1>7, <2>1, <3>1, WaitingIsRange
    <3>3. CASE j = Len(incoming) + 1
      <4>1. Before(incoming[i], t)
        BY <2>3, <3>2
      <4> QED
        BY <1>1, <2>1, <3>2, <3>3, <4>1 DEF Before, numbers
    <3>4. CASE j # Len(incoming) + 1
      <4>1. j \in 1 .. Len(incoming) /\ incoming'[j] = incoming[j]
        BY <2>1, <3>1, <3>4
      <4>2. Before(incoming[i], incoming[j])
        BY <3>2, <4>1 DEF Tasks, Behind
      <4> QED
        BY <1>1, <3>2, <4>1, <4>2 DEF Before, numbers
    <3> QED
      BY <3>3, <3>4
  <2>5. \A s \in New', u \in Waiting' : Before(s, u)'
    BY <1>1, <1>6, <2>1, <2>3 DEF Tasks, Behind, Before, numbers
  <2>6. \A u \in Waiting' : by'[u] \in Handle
    BY <1>1, <2>1, <2>3 DEF Tasks, Behind, numbers
  <2>7. Behind'
    BY <1>8, <2>4, <2>5, <2>6 DEF Behind
  <2> QED
    BY <1>2, <1>6, <1>9, <2>2, <2>7, SameNumbers DEF Tasks
<1> QED
  BY <1>10, <1>11 DEF HandleAppend

\* Cosync::queue: the task goes to the pool, behind all that its owner queued.
LEMMA OwnerQueueKeeps ==
    ASSUME Tasks, NEW t \in Task, OwnerQueue(t)
    PROVE  /\ Tasks' /\ New' = New \union {t}
           /\ t \notin live \union begun \union gone
           /\ \A u \in New : id'[u] = id[u] /\ by'[u] = by[u]
           /\ \A u \in New : Before(u, t)'
<1>1. /\ TakeId(t, Owner_) /\ live' = live \union {t}
      /\ UNCHANGED <<incoming, htask, begun, ran, gone>>
  BY DEF OwnerQueue, Push, runHistory
<1>2. /\ Ids' /\ ~Queued(t) /\ QueuedTasks' = QueuedTasks \union {t}
      /\ id'[t] \in Nat /\ by'[t] = Owner_
      /\ \A u \in Task : u # t => id'[u] = id[u] /\ by'[u] = by[u]
      /\ \A u \in Task : Queued(u) => id[u] \in Nat /\ id[u] < id'[t]
  BY <1>1, NewId DEF Tasks
<1>3. UNCHANGED <<Waiting, Once, Held>>
  BY <1>1 DEF Waiting, Once, Held
<1>4. /\ \A u \in Task : Queued(u)' <=> Queued(u) \/ u = t
      /\ \A u \in Task : Queued(u) => id'[u] = id[u] /\ by'[u] = by[u]
      /\ \A u \in Held \union Waiting \union live \union gone : Queued(u) /\ u \in Task
  BY <1>2 DEF Tasks, Places, QueuedTasks
<1>5. t \notin Held \union Waiting \union live \union gone \union begun
  BY <1>2, <1>4 DEF Tasks, Places
<1>6. New' = New \union {t} /\ New \subseteq live
  BY <1>1, <1>5 DEF New
<1>7. Places'
  BY <1>1, <1>2, <1>3, <1>5 DEF Tasks, Places
<1>8. \A u \in New : Before(u, t)'
  BY <1>2, <1>4, <1>6 DEF Before
<1>9. Behind'
  <2>1. \A i, j \in 1 .. Len(incoming') : i < j => Before(incoming[i], incoming[j])'
    <3> SUFFICES ASSUME NEW i \in 1 .. Len(incoming), NEW j \in 1 .. Len(incoming), i < j
                 PROVE  Before(incoming[i], incoming[j])'
      BY <1>1
    <3>1. incoming[i] \in Waiting /\ incoming[j] \in Waiting
      BY WaitingIsRange DEF Tasks, Places
    <3>2. Before(incoming[i], incoming[j])
      BY DEF Tasks, Behind
    <3> QED
      BY <1>1, <1>4, <3>1, <3>2 DEF Before
  <2>2. ASSUME NEW s \in New', NEW u \in Waiting' PROVE Before(s, u)'
    <3>1. u \in Waiting /\ by'[u] \in Handle /\ by'[u] = by[u] /\ id'[u] = id[u]
      BY <1>3, <1>4 DEF Tasks, Behind
    <3>2. CASE s = t
      BY <1>2, <3>1, <3>2, ActorAssumption DEF Before
    <3>3. CASE s # t
      BY <1>4, <1>6, <3>1, <3>3 DEF Tasks, Behind, Before
    <3> QED
      BY <3>2, <3>3
  <2>3. \A u \in Waiting' : by'[u] \in Handle
    BY <1>3, <1>4 DEF Tasks, Behind
  <2>4. ASSUME NEW g \in Handle, htask'[g] # None
        PROVE  /\ by'[htask'[g]] = g
               /\ \A u \in Task : Queued(u)' /\ by'[u] = g /\ u # htask'[g] => id'[u] < id'[htask'[g]]
    <3>1. htask'[g] = htask[g] /\ Queued(htask[g]) /\ htask[g] \in Task /\ g # Owner_
      BY <1>1, <1>4, <2>4, ActorAssumption DEF Held, Tasks, Places
    <3>2. by[htask[g]] = g /\ \A u \in Task : Queued(u) /\ by[u] = g /\ u # htask[g] => id[u] < id[htask[g]]
      BY <2>4, <3>1 DEF Tasks, Behind
    <3> QED
      BY <1>2, <1>4, <3>1, <3>2
  <2> QED
    BY <2>1, <2>2, <2>3, <2>4 DEF Behind
<1>10. FifoPerActor'
  <2> SUFFICES ASSUME NEW u \in Task, NEW v \in Task, Queued(u)', Queued(v)', by'[u] = by'[v],
                      id'[u] < id'[v], v \in begun'
               PROVE  u \in begun' \union gone'
    BY DEF FifoPerActor
  <2>1. v \in begun /\ v # t /\ Queued(v)
    BY <1>1, <1>4, <1>5
  <2>2. u # t
    BY <1>2, <1>4, <2>1
  <2> QED
    BY <1>1, <1>4, <2>1, <2>2 DEF Tasks, FifoPerActor
<1> QED
  BY <1>2, <1>4, <1>5, <1>6, <1>7, <1>8, <1>9, <1>10 DEF Tasks, New

-----------------------------------------------------------------------------
(* The ready-to-run queue *)

LineNumbers == \A u \in New : id'[u] = id[u] /\ by'[u] = by[u]

LEMMA LineStays ==
    ASSUME Line, ready' = ready, New' \subseteq New, LineNumbers
    PROVE  Line'
  BY DEF Line, Before, LineNumbers

\* A task that was polled before is appended.
LEMMA LineAppends ==
    ASSUME Line, NEW t \in Task \union {None}, ready' = Append(ready, t),
           New' \subseteq New, t \notin New', LineNumbers
    PROVE  Line'
<1>1. /\ Len(ready) \in Nat /\ ready' \in Seq(Task \union {None})
      /\ Len(ready') = Len(ready) + 1 /\ ready'[Len(ready) + 1] = t
      /\ \A i \in 1 .. Len(ready) : i \in 1 .. Len(ready') /\ ready'[i] = ready[i]
  BY DEF Line
<1>2. \A u \in New' : \E i \in 1 .. Len(ready') : ready'[i] = u
  BY <1>1 DEF Line
<1>3. ASSUME NEW i \in 1 .. Len(ready'), NEW j \in 1 .. Len(ready'), i < j,
             ready'[i] \in New', ready'[j] \in New'
      PROVE  Before(ready[i], ready[j])'
  <2>1. i \in 1 .. Len(ready) /\ j \in 1 .. Len(ready) /\ ready'[i] = ready[i] /\ ready'[j] = ready[j]
    BY <1>1, <1>3
  <2>2. Before(ready[i], ready[j])
    BY <1>3, <2>1 DEF Line
  <2> QED
    BY <1>3, <2>1, <2>2 DEF Before, LineNumbers
<1> QED
  BY <1>1, <1>2, <1>3 DEF Line

\* A new task is pushed.
LEMMA LinePushes ==
    ASSUME Line, NEW t \in Task, t \notin New, ready' = Append(ready, t),
           New' = New \union {t}, LineNumbers, \A u \in New : Before(u, t)',
           \A i \in 1 .. Len(ready) : ready[i] # t
    PROVE  Line'
<1>1. /\ Len(ready) \in Nat /\ ready' \in Seq(Task \union {None})
      /\ Len(ready') = Len(ready) + 1 /\ ready'[Len(ready) + 1] = t
      /\ \A i \in 1 .. Len(ready) : i \in 1 .. Len(ready') /\ ready'[i] = ready[i]
  BY DEF Line
<1>2. \A u \in New' : \E i \in 1 .. Len(ready') : ready'[i] = u
  <2>1. Len(ready) + 1 \in 1 .. Len(ready')
    BY <1>1
  <2> QED
    BY <1>1, <2>1 DEF Line
<1>3. ASSUME NEW i \in 1 .. Len(ready'), NEW j \in 1 .. Len(ready'), i < j,
             ready'[i] \in New', ready'[j] \in New'
      PROVE  Before(ready[i], ready[j])'
  <2>1. i \in 1 .. Len(ready) /\ ready'[i] = ready[i]
    BY <1>1, <1>3
  <2>2. ready[i] \in New
    BY <1>3, <2>1
  <2>3. CASE j = Len(ready) + 1
    BY <1>1, <2>1, <2>2, <2>3 DEF Before
  <2>4. CASE j # Len(ready) + 1
    <3>1. j \in 1 .. Len(ready) /\ ready'[j] = ready[j] /\ ready[j] # t
      BY <1>1, <2>4
    <3>2. Before(ready[i], ready[j]) /\ ready[j] \in New
      BY <1>3, <2>1, <2>2, <3>1 DEF Line
    <3> QED
      BY <2>1, <2>2, <3>1, <3>2 DEF Before, LineNumbers
  <2> QED
    BY <2>3, <2>4
<1> QED
  BY <1>1, <1>2, <1>3 DEF Line

\* The oldest entry is taken.
LEMMA LineAdvances ==
    ASSUME Line, NEW t, DequeueData(t), New' \subseteq New \ {t}, LineNumbers
    PROVE  Line'
<1>1. /\ ready # <<>> /\ ready' = Tail(ready) /\ ready[1] = t
      /\ Len(ready) \in Nat /\ ready' \in Seq(Task \union {None})
      /\ Len(ready') = Len(ready) - 1
      /\ \A i \in 1 .. Len(ready') : i + 1 \in 1 .. Len(ready) /\ ready'[i] = ready[i + 1]
  BY DEF Line, DequeueData, TakesHead
<1>2. ASSUME NEW u \in New' PROVE \E i \in 1 .. Len(ready') : ready'[i] = u
  <2>1. PICK i \in 1 .. Len(ready) : ready[i] = u
    BY DEF Line
  <2>2. i # 1
    BY <1>1, <2>1
  <2>3. i - 1 \in 1 .. Len(ready') /\ ready'[i - 1] = ready[(i - 1) + 1] /\ (i - 1) + 1 = i
    BY <1>1, <2>2
  <2> QED
    BY <2>1, <2>3
<1>3. ASSUME NEW i \in 1 .. Len(ready'), NEW j \in 1 .. Len(ready'), i < j,
             ready'[i] \in New', ready'[j] \in New'
      PROVE  Before(ready[i], ready[j])'
  <2>1. /\ i + 1 \in 1 .. Len(ready) /\ j + 1 \in 1 .. Len(ready) /\ i + 1 < j + 1
        /\ ready'[i] = ready[i + 1] /\ ready'[j] = ready[j + 1]
    BY <1>1, <1>3
  <2>2. Before(ready[i + 1], ready[j + 1])
    BY <1>3, <2>1 DEF Line
  <2> QED
    BY <1>3, <2>1, <2>2 DEF Before, LineNumbers
<1> QED
  BY <1>1, <1>2, <1>3 DEF Line

\* The queue is emptied when nothing is left in the pool.
LEMMA LineEnds ==
    ASSUME Line, ready' = <<>> \/ ready' = ready, New' = {}
    PROVE  Line'
<1>1. CASE ready' = <<>>
  BY <1>1 DEF Line
<1>2. CASE ready' = ready
  BY <1>2 DEF Line
<1> QED
  BY <1>1, <1>2

-----------------------------------------------------------------------------
(* The steps of the pool *)

\* Who is in the queue, after a step that appends at most one known task.
LEMMA EntriesKnown ==
    ASSUME Line, Reached, live \union gone \subseteq live' \union gone',
           \/ ready' = ready \/ ready' = <<>> \/ \E t : DequeueData(t)
           \/ \E t \in (live' \union gone' \union {None}) \intersect (Task \union {None}) :
                  ready' = Append(ready, t)
    PROVE  \A i \in 1 .. Len(ready') : ready'[i] \in live' \union gone' \union {None}
<1>1. /\ ready \in Seq(Task \union {None}) /\ Len(ready) \in Nat
      /\ \A i \in 1 .. Len(ready) : ready[i] \in live' \union gone' \union {None}
  BY DEF Line, Reached
<1>2. CASE ready' = ready \/ ready' = <<>>
  BY <1>1, <1>2
<1>3. CASE \E t : DequeueData(t)
  <2>1. /\ Len(ready') = Len(ready) - 1
        /\ \A i \in 1 .. Len(ready') : i + 1 \in 1 .. Len(ready) /\ ready'[i] = ready[i + 1]
    BY <1>1, <1>3 DEF DequeueData, TakesHead
  <2> QED
    BY <1>1, <2>1
<1>4. ASSUME NEW t \in (live' \union gone' \union {None}) \intersect (Task \union {None}),
             ready' = Append(ready, t)
      PROVE  \A i \in 1 .. Len(ready') : ready'[i] \in live' \union gone' \union {None}
  <2>1. /\ Len(ready') = Len(ready) + 1 /\ ready'[Len(ready) + 1] = t
        /\ \A i \in 1 .. Len(ready) : ready'[i] = ready[i]
    BY <1>1, <1>4
  <2> QED
    BY <1>1, <2>1
<1> QED
  BY <1>2, <1>3, <1>4

\* A step that is not the beginning of a poll only ends tasks.
LEMMA PoolEnds ==
    ASSUME Tasks, PoolRuns, PollFuture \/ UseWaker \/ PoolStep
    PROVE  /\ Tasks' /\ New' \subseteq New /\ LineNumbers
           /\ live \union gone \subseteq live' \union gone' /\ UNCHANGED begun
           /\ gone' = gone \union (live \ live') /\ live' \subseteq live /\ UNCHANGED ran
<1>1. UNCHANGED <<begun, ran, owed>>
  BY DEF PollFuture, UseWaker, PoolStep, runHistory
<1>2. UNCHANGED <<numbers, incoming, htask>>
  BY DEF PoolRuns, queueState, numbers
<1>3. CASE PollFuture
  <2>1. gone' = gone \union (live \ live') /\ live' \subseteq live
    BY <1>3 DEF PollFuture, PollReady, PollPending, PollPanic, ReleaseTask
  <2> QED
    BY <1>1, <1>2, <2>1, EndsKeep DEF LineNumbers, Tasks, Places, numbers
<1>4. CASE UseWaker
  <2>1. live' = live /\ gone' = gone
    BY <1>4 DEF UseWaker, CloneWaker, WakeSelf
  <2> QED
    BY <1>1, <1>2, <2>1, EndsKeep DEF LineNumbers, Tasks, Places, numbers
<1>5. CASE PoolStep
  <2>1. gone' = gone \union (live \ live')
    BY <1>5 DEF PoolStep
  <2>2. live' \subseteq live
    BY <1>5 DEF PoolStep, ReleaseOne, ReleaseTask, DrainData, DequeueReleased, DequeuePolled, TakeTask,
                StartDrain, DrainEmpty, DrainInconsistent, DropQueue, DequeueEmpty, DequeueInconsistent,
                Requeue, PutBack, mem
  <2> QED
    BY <1>1, <1>2, <2>1, <2>2, EndsKeep DEF LineNumbers, Tasks, Places, numbers
<1> QED
  BY <1>3, <1>4, <1>5

\* The order of the line needs no more than what becomes of the queue.
LEMMA LineKeeps ==
    ASSUME Line, Reached, New' \subseteq New, LineNumbers, UNCHANGED begun,
           live \union gone \subseteq live' \union gone',
           begun \subseteq live \union gone, live \union begun \subseteq Task,
           \/ ready' = ready
           \/ New' = {} /\ ready' = <<>>
           \/ \E t : DequeueData(t) /\ t \notin New'
           \/ \E t \in begun \union {None} : ready' = Append(ready, t)
    PROVE  Line' /\ \A i \in 1 .. Len(ready') : ready'[i] \in live' \union gone' \union {None}
<1>1. CASE ready' = ready
  BY <1>1, LineStays, EntriesKnown
<1>2. CASE New' = {} /\ ready' = <<>>
  BY <1>2, LineEnds, EntriesKnown
<1>3. CASE \E t : DequeueData(t) /\ t \notin New'
  BY <1>3, LineAdvances, EntriesKnown
<1>4. ASSUME NEW t \in begun \union {None}, ready' = Append(ready, t)
      PROVE  Line' /\ \A i \in 1 .. Len(ready') : ready'[i] \in live' \union gone' \union {None}
  <2>1. t \in (live' \union gone' \union {None}) \intersect (Task \union {None})
    OBVIOUS
  <2>2. t \notin New'
    BY NoneAssumption DEF New
  <2> QED
    BY <1>4, <2>1, <2>2, LineAppends, EntriesKnown
<1> QED
  BY <1>1, <1>2, <1>3, <1>4

LEMMA FutureKeepsPool ==
    ASSUME Tasks, Pool, PoolRuns, PollFuture
    PROVE  Pool'
<1>1. /\ New' \subseteq New /\ LineNumbers /\ UNCHANGED begun
      /\ live \union gone \subseteq live' \union gone'
      /\ begun \subseteq live \union gone /\ live \union begun \subseteq Task
  BY PoolEnds DEF Tasks, Places
<1>2. /\ ready' = ready /\ UNCHANGED <<wtask, polled>> /\ cur' = None /\ pc' \in {"loop", "idle"}
      /\ cur \in Task /\ pc = "poll"
  BY DEF PollFuture, PollReady, PollPending, PollPanic, Return, slots, exec, queueVars, Pool, PoolShape
<1>3. \/ linked' = linked /\ live' = live \ {cur}
      \/ linked' = linked \union {cur} /\ live' = live
  BY DEF PollFuture, PollReady, PollPending, PollPanic, ReleaseTask
<1>4. PoolShape'
  BY <1>2, <1>3, NoneAssumption DEF Pool, PoolShape
<1> QED
  BY <1>1, <1>2, <1>4, LineKeeps DEF Pool, Reached

LEMMA WakerUseKeepsPool ==
    ASSUME Tasks, Pool, PoolRuns, UseWaker
    PROVE  Pool'
<1>1. /\ New' \subseteq New /\ LineNumbers /\ UNCHANGED begun
      /\ live \union gone \subseteq live' \union gone'
      /\ begun \subseteq live \union gone /\ live \union begun \subseteq Task
  BY PoolEnds DEF Tasks, Places
<1>2. UNCHANGED <<live, linked, cur, pc, polled>> /\ cur \in begun
  BY DEF UseWaker, CloneWaker, WakeSelf, Pool, PoolShape, Reached
<1>3. ready' = ready \/ ready' = Append(ready, cur)
  BY DEF UseWaker, CloneWaker, WakeSelf, queueVars, Enqueue
<1>4. wtask' \in [Waker -> begun \union {None}]
  BY <1>2 DEF UseWaker, CloneWaker, WakeSelf, slots, Pool, Reached
<1> QED
  BY <1>1, <1>2, <1>3, <1>4, LineKeeps DEF Pool, PoolShape, Reached

\* poll_next takes a task that was polled in this cycle, and puts it back.
LEMMA PutBackKeepsPool ==
    ASSUME Tasks, Pool, PoolRuns, PoolStep, Requeue \/ \E t \in Task : DequeuePolled(t)
    PROVE  Pool'
<1>1. /\ New' \subseteq New /\ LineNumbers /\ UNCHANGED begun
      /\ live \union gone \subseteq live' \union gone'
      /\ begun \subseteq live \union gone /\ live \union begun \subseteq Task
  BY PoolEnds DEF Tasks, Places
<1>2. CASE Requeue
  <2>1. /\ cur \in begun /\ pc = "requeue" /\ UNCHANGED <<live, polled, wtask>>
        /\ linked' = linked \union {cur} /\ cur' = None /\ pc' \in {"loop", "idle"}
        /\ ready' = Append(ready, cur)
    BY <1>2 DEF Requeue, PutBack, Return, GoOn, Enqueue, slots, Pool, PoolShape, Reached
  <2>2. PoolShape'
    BY <2>1, <1>1, NoneAssumption DEF Pool, PoolShape
  <2> QED
    BY <1>1, <2>1, <2>2, LineKeeps DEF Pool, Reached
<1>3. ASSUME NEW t \in Task, DequeuePolled(t) PROVE Pool'
  <2>1. /\ t \in begun /\ t \in live /\ pc = "loop" /\ UNCHANGED <<live, polled, wtask>>
        /\ linked' = linked \ {t} /\ cur' = t /\ pc' = "requeue"
        /\ DequeueData(t)
    BY <1>3 DEF DequeuePolled, TakeTask, slots, Pool, Reached
  <2>2. PoolShape'
    BY <2>1, NoneAssumption DEF Pool, PoolShape
  <2>3. t \notin New'
    BY <1>1, <2>1 DEF New
  <2> QED
    BY <1>1, <2>1, <2>2, <2>3, LineKeeps DEF Pool, Reached
<1> QED
  BY <1>2, <1>3

LEMMA OtherStepsKeepPool ==
    ASSUME Tasks, Pool, PoolRuns, PoolStep,
           \/ \E t \in Task : ReleaseOne(t) \/ DrainData(t) \/ DequeueReleased(t)
           \/ StartDrain \/ DrainEmpty \/ DrainInconsistent \/ DropQueue
           \/ DequeueEmpty \/ DequeueInconsistent
    PROVE  Pool'
<1>1. /\ New' \subseteq New /\ LineNumbers /\ UNCHANGED begun
      /\ live \union gone \subseteq live' \union gone'
      /\ begun \subseteq live \union gone /\ live \union begun \subseteq Task
  BY PoolEnds DEF Tasks, Places
<1>2. ASSUME NEW t \in Task, ReleaseOne(t) PROVE Pool'
  <2>1. /\ pc \in {"clear", "drop"} /\ linked' = linked \ {t} /\ live' = live \ {t}
        /\ UNCHANGED <<ready, pc, cur, polled, wtask>>
    BY <1>2 DEF ReleaseOne, ReleaseTask, queueVars, exec, slots
  <2>2. PoolShape'
    BY <2>1, NoneAssumption DEF Pool, PoolShape
  <2> QED
    BY <1>1, <2>1, <2>2, LineKeeps DEF Pool, Reached
<1>3. ASSUME NEW t \in Task, DrainData(t) \/ DequeueReleased(t) PROVE Pool'
  <2>1. DequeueData(t) /\ UNCHANGED <<live, linked, pc, cur, polled, wtask>>
    BY <1>3 DEF DrainData, DequeueReleased, exec, slots
  <2>2. t \notin live
    BY <1>3, NoneAssumption DEF DrainData, DequeueReleased, Pool, PoolShape, Reached
  <2>3. t \notin New'
    BY <2>1, <2>2 DEF New
  <2> QED
    BY <1>1, <2>1, <2>3, LineKeeps DEF Pool, PoolShape, Reached
<1>4. CASE StartDrain \/ DrainEmpty \/ DrainInconsistent \/ DequeueEmpty \/ DequeueInconsistent
  <2>1. UNCHANGED <<ready, live, linked, cur, polled, wtask>>
    BY <1>4 DEF StartDrain, DrainEmpty, DrainInconsistent, DequeueEmpty, DequeueInconsistent,
                queueVars, mem, slots
  <2>2. /\ pc \in {"clear", "drain", "loop"} /\ pc' \in {"drain", "idle", "abort_clear"}
        /\ pc' \in {"drain", "abort_clear"} => linked = {}
    BY <1>4 DEF StartDrain, DrainEmpty, DrainInconsistent, DequeueEmpty, DequeueInconsistent, Return,
                Pool, Reached
  <2> QED
    BY <1>1, <2>1, <2>2, LineKeeps DEF Pool, PoolShape, Reached
<1>5. CASE DropQueue
  <2>1. /\ pc = "drop" /\ linked = {} /\ pc' \in {"dropped", "abort_drop"}
        /\ UNCHANGED <<live, linked, cur, polled, wtask>>
        /\ ready' = ready \/ ready' = <<>>
    BY <1>5 DEF DropQueue, DrainQueue, queueVars, slots
  <2>2. New' = {}
    BY <2>1, NoneAssumption DEF New, Pool, PoolShape
  <2> QED
    BY <1>1, <2>1, <2>2, LineKeeps DEF Pool, PoolShape, Reached
<1> QED
  BY <1>2, <1>3, <1>4, <1>5

\* The first poll of a task may begin here.
LEMMA BeginKeepsAll ==
    ASSUME Tasks, Pool, PoolRuns, NEW t \in Task, BeginTask(t)
    PROVE  Tasks' /\ Pool'
<1>1. /\ DequeueData(t) /\ t \in live /\ pc = "loop" /\ pc' = "poll"
      /\ linked' = linked \ {t} /\ cur' = t /\ polled' = polled \union {t}
      /\ begun' = begun \union {t} /\ ran' = ran \union {t}
      /\ UNCHANGED <<live, gone, wtask>>
  BY DEF BeginTask, DequeueUnpolled, TakeTask, slots
<1>2. UNCHANGED <<numbers, incoming, htask>>
  BY DEF PoolRuns, queueState, numbers
<1>3. ready # <<>> /\ t = Head(ready) /\ ready' = Tail(ready)
  BY <1>1 DEF DequeueData, TakesHead
<1>4. Tasks' /\ New' = New \ {t}
  BY <1>1, <1>2, <1>3, BeginKeeps DEF Pool
<1>5. LineNumbers
  BY <1>2 DEF LineNumbers, numbers
<1>6. Line'
  BY <1>1, <1>4, <1>5, LineAdvances DEF Pool
<1>7. \A i \in 1 .. Len(ready') : ready'[i] \in live' \union gone' \union {None}
  BY <1>1, EntriesKnown DEF Pool
<1>8. PoolShape'
  BY <1>1, NoneAssumption DEF Pool, PoolShape
<1>9. wtask' \in [Waker -> begun' \union {None}]
  BY <1>1 DEF Pool, Reached
<1> QED
  BY <1>1, <1>4, <1>6, <1>7, <1>8, <1>9 DEF Pool, Reached

LEMMA PoolRunsKeep ==
    ASSUME Tasks, Pool, PoolRuns
    PROVE  Tasks' /\ Pool'
<1>1. CASE \E t \in Task : BeginTask(t)
  BY <1>1, BeginKeepsAll
<1>2. CASE PollFuture \/ UseWaker
  BY <1>2, PoolEnds, FutureKeepsPool, WakerUseKeepsPool
<1>3. CASE PoolStep
  <2>1. \/ Requeue \/ \E t \in Task : DequeuePolled(t)
        \/ \E t \in Task : ReleaseOne(t) \/ DrainData(t) \/ DequeueReleased(t)
        \/ StartDrain \/ DrainEmpty \/ DrainInconsistent \/ DropQueue
        \/ DequeueEmpty \/ DequeueInconsistent
    BY <1>3 DEF PoolStep
  <2> QED
    BY <1>3, <2>1, PoolEnds, PutBackKeepsPool, OtherStepsKeepPool
<1> QED
  BY <1>1, <1>2, <1>3 DEF PoolRuns

\* What the other threads do to the pool.
LEMMA WakersKeep ==
    ASSUME Tasks, Pool, WakerThread
    PROVE  /\ Tasks' /\ Pool'
           /\ UNCHANGED <<live, polled, begun, ran, gone, queueState, cur, cpc, fresh>>
           /\ pc' = pc \/ (pc = "dropped" /\ pc' \in {"dropped", "abort_drop"})
<1>1. /\ UNCHANGED <<queueState, begun, ran, gone, cpc, fresh>>
      /\ UNCHANGED <<numbers, incoming, htask>>
  BY DEF WakerThread, ownerState, runHistory, queueState, numbers
<1>2. PICK w \in Waker : Thread(w)
  BY DEF WakerThread
<1>3. UNCHANGED <<live, linked, cur, polled>>
  BY <1>2 DEF Thread, Waking, DropWaker, WakeUpgrade, WakeTooLate, WakeIgnored, WakeClaim, WakeSwap,
              WakeLink, WakeDone, exec, mem
<1>4. wtask' \in [Waker -> begun \union {None}] /\ wtask[w] \in begun \union {None}
  BY <1>2 DEF Thread, Waking, DropWaker, WakeUpgrade, WakeTooLate, WakeIgnored, WakeClaim, WakeSwap,
              WakeLink, WakeDone, FreeSlot, Pool, Reached
<1>5. \/ pc' = pc /\ (ready' = ready \/ ready' = Append(ready, wtask[w]))
      \/ pc = "dropped" /\ pc' \in {"dropped", "abort_drop"} /\ (ready' = ready \/ ready' = <<>>)
  BY <1>2 DEF Thread, Waking, DropWaker, WakeUpgrade, WakeTooLate, WakeIgnored, WakeClaim, WakeSwap,
              WakeLink, WakeDone, exec, queueVars, SwapHead, LinkPrev, DrainQueue, PoolGone
<1>6. Tasks' /\ New' \subseteq New
  BY <1>1, <1>3, EndsKeep DEF Tasks, Places
<1>7. /\ LineNumbers /\ live \union gone \subseteq live' \union gone'
      /\ begun \subseteq live \union gone /\ live \union begun \subseteq Task
  BY <1>1, <1>3 DEF LineNumbers, numbers, Tasks, Places
<1>8. pc = "dropped" => New' = {}
  BY <1>3, <1>6, NoneAssumption DEF New, Pool, PoolShape, Reached
<1>9. \/ ready' = ready
      \/ New' = {} /\ ready' = <<>>
      \/ \E t \in begun \union {None} : ready' = Append(ready, t)
  BY <1>4, <1>5, <1>8
<1>10. Line' /\ \A i \in 1 .. Len(ready') : ready'[i] \in live' \union gone' \union {None}
  BY <1>1, <1>6, <1>7, <1>9, LineKeeps DEF Pool
<1>11. PoolShape'
  BY <1>3, <1>5 DEF Pool, PoolShape
<1>12. Reached'
  BY <1>1, <1>3, <1>4, <1>5, <1>10 DEF Pool, Reached
<1> QED
  BY <1>1, <1>3, <1>5, <1>6, <1>10, <1>11, <1>12 DEF Pool

-----------------------------------------------------------------------------
(* The calls of the owner and of the handles *)

\* The pool does not move, and no task in it becomes new.
LEMMA StillPool ==
    ASSUME Pool, UNCHANGED <<vars, begun>>, New' \subseteq New, LineNumbers, gone \subseteq gone'
    PROVE  Pool'
<1>1. UNCHANGED <<ready, live, linked, pc, cur, polled, wtask>>
  BY DEF vars, queueVars, mem, exec, slots
<1>2. Line'
  BY <1>1, LineStays DEF Pool
<1> QED
  BY <1>1, <1>2 DEF Pool, PoolShape, Reached

\* A step that touches neither queue.
LEMMA QuietKeeps ==
    ASSUME Tasks, Pool, UNCHANGED <<vars, queueState, begun, gone>>, ran' \subseteq begun
    PROVE  Tasks' /\ Pool'
<1>1. UNCHANGED <<live, numbers, incoming, htask>>
  BY DEF vars, mem, queueState, numbers
<1>2. Tasks' /\ New' \subseteq New
  BY <1>1, EndsKeep DEF Tasks, Places
<1>3. LineNumbers
  BY <1>1 DEF LineNumbers, numbers
<1> QED
  BY <1>2, <1>3, StillPool

\* poll_next, clear and drop begin.
LEMMA CallsKeep ==
    ASSUME Tasks, Pool, (\E new \in BOOLEAN : PollNext(new)) \/ Clear \/ Drop,
           UNCHANGED <<queueState, begun, ran, gone>>
    PROVE  Tasks' /\ Pool'
<1>1. UNCHANGED <<ready, live, linked, cur, wtask, numbers, incoming, htask>>
  BY DEF PollNext, Clear, Drop, ClearHeadAll, queueVars, mem, slots, queueState, numbers
<1>2. pc = "idle" /\ pc' \in {"loop", "clear", "drop"} /\ polled' \subseteq polled
  BY DEF PollNext, Clear, Drop, ClearHeadAll
<1>3. Tasks' /\ New' \subseteq New
  BY <1>1, EndsKeep DEF Tasks, Places
<1>4. LineNumbers
  BY <1>1 DEF LineNumbers, numbers
<1>5. Line'
  BY <1>1, <1>3, <1>4, LineStays DEF Pool
<1> QED
  BY <1>1, <1>2, <1>3, <1>5 DEF Pool, PoolShape, Reached

\* A task is pushed.
LEMMA PushKeepsPool ==
    ASSUME Tasks, Pool, NEW t \in Task, Push(t), t \notin live \union begun \union gone,
           New' = New \union {t}, LineNumbers, \A u \in New : Before(u, t)',
           UNCHANGED <<begun, gone>>
    PROVE  Pool'
<1>1. /\ pc = "idle" /\ ready' = Append(ready, t) /\ live' = live \union {t}
      /\ linked' = linked \union {t} /\ polled' = polled \ {t}
      /\ UNCHANGED <<pc, cur, wtask>>
  BY DEF Push, Enqueue, exec, slots
<1>2. \A i \in 1 .. Len(ready) : ready[i] # t
  BY NoneAssumption DEF Pool, Reached
<1>3. Line'
  BY <1>1, <1>2, LinePushes DEF Pool, New
<1>4. \A i \in 1 .. Len(ready') : ready'[i] \in live' \union gone' \union {None}
  BY <1>1, EntriesKnown DEF Pool
<1>5. PoolShape'
  BY <1>1, NoneAssumption DEF Pool, PoolShape
<1> QED
  BY <1>1, <1>3, <1>4, <1>5 DEF Pool, Reached

\* unqueue_task, of the owner and of a handle.
LEMMA UnqueueKeeps ==
    ASSUME Tasks, Pool, NEW t \in Task, Remove(t), UNCHANGED <<vars, numbers, htask, begun, ran>>
    PROVE  Tasks' /\ Pool'
<1>1. incoming \in Seq(Task) /\ DOMAIN incoming = 1 .. Len(incoming)
  BY DEF Tasks, Places
<1>2. PICK k \in 1 .. Len(incoming) : RemoveAt(k)
  BY <1>1 DEF Remove
<1>3. Taken(k) /\ gone' = gone \union {incoming[k]} /\ live' = live
  BY <1>1, <1>2, RemoveTakes DEF RemoveAt, vars, mem
<1>4. Tasks' /\ New' = New
  BY <1>3, RemovedKeeps
<1> QED
  BY <1>3, <1>4, StillPool DEF LineNumbers, numbers

\* clear_queue, and the ends of clear and drop.
LEMMA ClearQueueKeeps ==
    ASSUME Tasks, Pool, EmptyQueue, UNCHANGED <<vars, numbers, htask, begun, ran>>
    PROVE  Tasks' /\ Pool'
<1>1. live' = live /\ gone \subseteq gone'
  BY DEF EmptyQueue, vars, mem
<1>2. Tasks' /\ New' = New
  BY <1>1, EmptyKeeps
<1> QED
  BY <1>1, <1>2, StillPool DEF LineNumbers, numbers

LEMMA HandlesKeep ==
    ASSUME Tasks, Pool, NEW h \in Handle, HandleStep(h)
    PROVE  Tasks' /\ Pool'
<1>1. UNCHANGED <<vars, begun, ran>> /\ gone \subseteq gone'
  BY DEF HandleStep, HandleNumber, HandleUnqueue, HandleAppend, Remove, RemoveAt, poolVars, runHistory
<1>2. ASSUME NEW t \in Task, HandleNumber(h, t) PROVE Tasks' /\ Pool'
  BY <1>1, <1>2, NumberKeeps, StillPool DEF LineNumbers
<1>3. ASSUME NEW t \in Task, HandleUnqueue(h, t) PROVE Tasks' /\ Pool'
  BY <1>1, <1>3, UnqueueKeeps DEF HandleUnqueue, numbers
<1>4. CASE HandleAppend(h)
  <2>1. Tasks' /\ New' = New
    BY <1>4, AppendKeeps
  <2>2. LineNumbers
    BY <1>4 DEF LineNumbers, HandleAppend
  <2> QED
    BY <1>1, <2>1, <2>2, StillPool
<1> QED
  BY <1>2, <1>3, <1>4 DEF HandleStep

\* The calls a Cosync and a SerialCosync have in common.
SharedCall ==
    \/ \E t \in Task : OwnerUnqueue(t)
    \/ ClearQueue \/ ClearRunning \/ ClearAll \/ DropCosync \/ ClearRest \/ DropIncoming

LEMMA SharedCallsKeep ==
    ASSUME Tasks, Pool, SharedCall
    PROVE  Tasks' /\ Pool'
<1>1. ASSUME NEW t \in Task, OwnerUnqueue(t) PROVE Tasks' /\ Pool'
  BY <1>1, UnqueueKeeps DEF OwnerUnqueue, numbers, poolVars, runHistory
<1>2. CASE ClearQueue \/ ClearRest
  BY <1>2, ClearQueueKeeps DEF ClearQueue, ClearRest, numbers, poolVars, runHistory
<1>3. CASE ClearRunning \/ ClearAll \/ DropCosync
  BY <1>3, CallsKeep DEF ClearRunning, ClearAll, DropCosync, runHistory
<1>4. CASE DropIncoming /\ EmptyQueue
  BY <1>4, ClearQueueKeeps DEF DropIncoming, numbers, poolVars, runHistory
<1>5. CASE DropIncoming /\ UNCHANGED <<incoming, gone>>
  <2>1. UNCHANGED <<vars, queueState, begun, gone>> /\ ran' = ran
    BY <1>5 DEF DropIncoming, poolVars, runHistory, queueState
  <2> QED
    BY <2>1, QuietKeeps DEF Tasks, Places
<1> QED
  BY <1>1, <1>2, <1>3, <1>4, <1>5 DEF SharedCall, DropIncoming

\* An incoming task goes to the pool.
LEMMA MoveKeeps ==
    ASSUME Tasks, Pool, NEW t \in Task, Push(t), incoming # <<>>, t = Head(incoming),
           incoming' = Tail(incoming), UNCHANGED <<numbers, htask, begun, ran, gone>>
    PROVE  Tasks' /\ Pool' /\ t \notin begun
<1>1. live' = live \union {t}
  BY DEF Push
<1>2. /\ Tasks' /\ New' = New \union {t}
      /\ t \notin live \union begun \union gone
      /\ \A u \in New : Before(u, t)
  BY <1>1, MovedKeeps
<1>3. LineNumbers /\ \A u \in New : Before(u, t)'
  BY <1>2 DEF LineNumbers, numbers, Before
<1> QED
  BY <1>2, <1>3, PushKeepsPool

-----------------------------------------------------------------------------
(* Poll cycles: the steps Cosync and SerialCosync share *)

LEMMA PoolRunsCycle ==
    ASSUME NEW where, Cycle(where), Tasks, PoolRuns
    PROVE  Cycle(where)'
<1>1. UNCHANGED <<cpc, fresh>> /\ pc # "idle"
  BY DEF PoolRuns, ownerState, BeginTask, PollFuture, UseWaker, PoolStep, DequeueUnpolled, TakeTask,
         PollReady, PollPending, PollPanic, CloneWaker, WakeSelf, ReleaseOne, DrainData, DequeueReleased,
         DequeuePolled, StartDrain, DrainEmpty, DrainInconsistent, DropQueue, DequeueEmpty,
         DequeueInconsistent, Requeue, PutBack
<1>2. CASE \E t \in Task : BeginTask(t)
  <2>1. PICK t \in Task : /\ ran' = ran \union {t} /\ polled' = polled \union {t} /\ live' = live
    BY <1>2 DEF BeginTask, DequeueUnpolled
  <2> QED
    BY <1>1, <2>1 DEF Cycle
<1>3. CASE PollFuture \/ UseWaker \/ PoolStep
  <2>1. polled' = polled
    BY <1>3 DEF PollFuture, UseWaker, PoolStep, PollReady, PollPending, PollPanic, CloneWaker, WakeSelf,
                ReleaseOne, DrainData, DequeueReleased, DequeuePolled, StartDrain, DrainEmpty,
                DrainInconsistent, DropQueue, DequeueEmpty, DequeueInconsistent, Requeue, PutBack
  <2> QED
    BY <1>1, <1>3, <2>1, PoolEnds DEF Cycle
<1> QED
  BY <1>2, <1>3 DEF PoolRuns

LEMMA OthersCycle ==
    ASSUME NEW where, Cycle(where), Tasks, Pool,
           WakerThread \/ \E h \in Handle : HandleStep(h)
    PROVE  Cycle(where)'
<1>1. CASE WakerThread
  <2>1. UNCHANGED <<live, polled, ran, cpc, fresh>> /\ (pc = "idle" => pc' = "idle")
    BY <1>1, WakersKeep
  <2> QED
    BY <2>1 DEF Cycle
<1>2. CASE \E h \in Handle : HandleStep(h)
  <2>1. UNCHANGED <<vars, ran, cpc, fresh>>
    BY <1>2 DEF HandleStep, HandleNumber, HandleUnqueue, HandleAppend, poolVars, runHistory, ownerState
  <2>2. UNCHANGED <<live, polled, ran, cpc, fresh, pc>>
    BY <2>1 DEF vars, mem, exec
  <2> QED
    BY <2>2 DEF Cycle
<1> QED
  BY <1>1, <1>2

LEMMA SharedCallsCycle ==
    ASSUME NEW where \in {"move", "poll"}, Cycle(where), SharedCall
    PROVE  Cycle(where)'
<1>1. cpc \notin {"move", "poll"} /\ fresh' = fresh
  BY DEF SharedCall, OwnerUnqueue, ClearQueue, ClearRunning, ClearAll, DropCosync, ClearRest, DropIncoming,
         AtRest, ownerState
<1>2. UNCHANGED <<live, polled, ran>>
  BY DEF SharedCall, OwnerUnqueue, ClearQueue, ClearRunning, ClearAll, DropCosync, ClearRest, DropIncoming,
         Clear, Drop, ClearHeadAll, poolVars, vars, mem, runHistory
<1> QED
  BY <1>1, <1>2 DEF Cycle

-----------------------------------------------------------------------------
(* Cosync *)

CInv == Tasks /\ Pool /\ Cycle("move")

LEMMA CInitHolds == CosyncInit => CInv
<1> SUFFICES ASSUME CosyncInit PROVE CInv
  OBVIOUS
<1> USE DEF CosyncInit, Init, QueueInit
<1>1. QueuedTasks = {} /\ Waiting = {} /\ Held = {} /\ New = {}
  BY NoneAssumption DEF QueuedTasks, Queued, Waiting, Held, New
<1>2. Ids
  <2>1. Cardinality(QueuedTasks) = 0
    BY <1>1, FS_EmptySet
  <2> QED
    BY <1>1, <2>1, IdSpaceAssumption DEF Ids, IdRange, IdsDistinct, Queued
<1>3. Places
  BY <1>1 DEF Places, Once
<1>4. Behind /\ FifoPerActor
  BY <1>1 DEF Behind, FifoPerActor
<1>5. PoolShape /\ Cycle("move")
  BY NoneAssumption DEF PoolShape, Cycle
<1>6. Reached
  BY DEF Reached
<1>7. Line
  BY <1>1 DEF Line
<1> QED
  BY <1>2, <1>3, <1>4, <1>5, <1>6, <1>7 DEF CInv, Tasks, Pool

\* The steps of poll_pool, and those of the owner that a SerialCosync has not.
LEMMA CosyncStepsKeep ==
    ASSUME CInv,
           \/ \E t \in Task : OwnerQueue(t) \/ StopRunning(t) \/ MoveTask(t)
           \/ Run \/ StartPoll \/ PollReturned
    PROVE  CInv'
<1>1. ASSUME NEW t \in Task, OwnerQueue(t) PROVE CInv'
  <2>1. /\ Tasks' /\ New' = New \union {t} /\ t \notin live \union begun \union gone
        /\ LineNumbers /\ \A u \in New : Before(u, t)'
    BY <1>1, OwnerQueueKeeps DEF CInv, LineNumbers
  <2>2. Push(t) /\ cpc = "out" /\ UNCHANGED <<begun, ran, gone, cpc, fresh>>
    BY <1>1 DEF OwnerQueue, runHistory, ownerState
  <2>3. Pool'
    BY <2>1, <2>2, PushKeepsPool DEF CInv
  <2>4. live' = live \union {t} /\ polled' = polled \ {t} /\ t \notin ran
    BY <2>1, <2>2 DEF Push, CInv, Tasks, Places
  <2>5. Cycle("move")'
    BY <2>2, <2>4 DEF CInv, Cycle
  <2> QED
    BY <2>1, <2>3, <2>5 DEF CInv
<1>2. ASSUME NEW t \in Task, StopRunning(t) PROVE CInv'
  <2>1. UNCHANGED <<vars, queueState, begun, gone>> /\ UNCHANGED <<cpc, fresh, ran>>
    BY <1>2 DEF StopRunning, poolVars, runHistory
  <2>2. Tasks' /\ Pool'
    BY <2>1, QuietKeeps DEF CInv, Tasks, Places
  <2>3. Cycle("move")'
    BY <2>1 DEF CInv, Cycle, vars, mem, exec
  <2> QED
    BY <2>2, <2>3 DEF CInv
<1>3. ASSUME NEW t \in Task, MoveTask(t) PROVE CInv'
  <2>1. /\ Push(t) /\ incoming # <<>> /\ t = Head(incoming) /\ incoming' = Tail(incoming)
        /\ UNCHANGED <<numbers, htask, begun, ran, gone>> /\ UNCHANGED <<cpc, fresh>> /\ pc' = pc
    BY <1>3 DEF MoveTask, Push, exec, numbers, ownerState, runHistory
  <2>2. Tasks' /\ Pool' /\ t \notin begun
    BY <2>1, MoveKeeps DEF CInv
  <2>3. live' = live \union {t} /\ polled' = polled \ {t} /\ t \notin ran
    BY <2>1, <2>2 DEF Push, CInv, Tasks, Places
  <2>4. Cycle("move")'
    BY <2>1, <2>3 DEF CInv, Cycle
  <2> QED
    BY <2>2, <2>4 DEF CInv
<1>4. CASE Run
  <2>1. /\ UNCHANGED <<vars, queueState, begun, gone>> /\ ran' = {} /\ pc = "idle"
        /\ cpc' = "move" /\ fresh' = TRUE
    BY <1>4 DEF Run, poolVars, AtRest
  <2>2. Tasks' /\ Pool'
    BY <2>1, QuietKeeps DEF CInv
  <2>3. Cycle("move")'
    BY <2>1 DEF Cycle, vars, exec
  <2> QED
    BY <2>2, <2>3 DEF CInv
<1>5. CASE StartPoll
  <2>1. /\ PollNext(fresh) /\ fresh' = FALSE /\ UNCHANGED <<queueState, begun, ran, gone>>
        /\ fresh \in BOOLEAN
    BY <1>5 DEF StartPoll, CInv, Cycle
  <2>2. Tasks' /\ Pool'
    BY <2>1, CallsKeep DEF CInv
  <2>3. live' = live /\ polled' = IF fresh THEN {} ELSE polled
    BY <2>1 DEF PollNext, mem
  <2>4. Cycle("move")'
    BY <2>1, <2>3 DEF CInv, Cycle
  <2> QED
    BY <2>2, <2>4 DEF CInv
<1>6. CASE PollReturned
  <2>1. UNCHANGED <<vars, queueState, begun, gone>> /\ UNCHANGED <<fresh, ran>> /\ cpc = "poll"
    BY <1>6 DEF PollReturned, poolVars, runHistory
  <2>2. Tasks' /\ Pool'
    BY <2>1, QuietKeeps DEF CInv, Tasks, Places
  <2>3. Cycle("move")'
    BY <2>1 DEF CInv, Cycle, vars, mem, exec
  <2> QED
    BY <2>2, <2>3 DEF CInv
<1> QED
  BY <1>1, <1>2, <1>3, <1>4, <1>5, <1>6

LEMMA CInvIsInductive == CInv /\ [CosyncNext]_allVars => CInv'
<1> SUFFICES ASSUME CInv, [CosyncNext]_allVars PROVE CInv'
  OBVIOUS
<1>1. CASE SharedCall
  BY <1>1, SharedCallsKeep, SharedCallsCycle DEF CInv
<1>2. CASE PoolRuns
  BY <1>2, PoolRunsKeep, PoolRunsCycle DEF CInv
<1>3. CASE WakerThread \/ \E h \in Handle : HandleStep(h)
  BY <1>3, WakersKeep, HandlesKeep, OthersCycle DEF CInv
<1>4. CASE CosyncEnded \/ UNCHANGED allVars
  <2>1. UNCHANGED <<vars, queueState, begun, gone>> /\ UNCHANGED <<cpc, fresh, ran>>
    BY <1>4 DEF CosyncEnded, allVars, poolVars, ownerState, runHistory
  <2>2. Tasks' /\ Pool'
    BY <2>1, QuietKeeps DEF CInv, Tasks, Places
  <2>3. Cycle("move")'
    BY <2>1 DEF CInv, Cycle, vars, mem, exec
  <2> QED
    BY <2>2, <2>3 DEF CInv
<1>5. CASE \/ \E t \in Task : OwnerQueue(t) \/ StopRunning(t) \/ MoveTask(t)
           \/ Run \/ StartPoll \/ PollReturned
  BY <1>5, CosyncStepsKeep
<1> QED
  BY <1>1, <1>2, <1>3, <1>4, <1>5 DEF CosyncNext, OwnerStep, RunStep, SharedCall

LEMMA CInvariance == CosyncSpec => []CInv
  BY CInitHolds, CInvIsInductive, PTL DEF CosyncSpec

\* Only queue() gives out an id.
LEMMA OthersKeepIds ==
    ASSUME [CosyncNext]_allVars,
           ~\E t \in Task : OwnerQueue(t) \/ \E h \in Handle : HandleNumber(h, t)
    PROVE  id' = id
<1>1. CASE OwnerStep
  BY <1>1 DEF OwnerStep, OwnerUnqueue, StopRunning, ClearQueue, ClearRunning, ClearAll, DropCosync, Run, queueState
<1>2. CASE RunStep
  BY <1>2 DEF RunStep, MoveTask, StartPoll, PollReturned, PoolRuns, ClearRest, DropIncoming, queueState
<1>3. ASSUME NEW h \in Handle, HandleStep(h) PROVE id' = id
  BY <1>3 DEF HandleStep, HandleUnqueue, HandleAppend
<1>4. CASE WakerThread \/ CosyncEnded \/ UNCHANGED allVars
  BY <1>4 DEF WakerThread, CosyncEnded, allVars, queueState
<1> QED
  BY <1>1, <1>2, <1>3, <1>4 DEF CosyncNext

\* A task queued later has the greater id, and every task keeps its own, for every
\* number of tasks up to the number of ids (lib.rs:451-457, 652-653).
THEOREM IdsAlwaysGrow == CosyncSpec => IdsGrow
<1> DEFINE Grows == \A t \in Task :
                       IF Queued(t) THEN id'[t] = id[t]
                       ELSE Queued(t)' => \A u \in Task : Queued(u) => id[u] < id'[t]
<1>1. CInv /\ [CosyncNext]_allVars => Grows
  <2> SUFFICES ASSUME CInv, [CosyncNext]_allVars PROVE Grows
    OBVIOUS
  <2>1. ASSUME NEW t \in Task, NEW actor \in Handle \union {Owner_}, TakeId(t, actor) PROVE Grows
    <3>1. /\ ~Queued(t)
          /\ \A u \in Task : u # t => id'[u] = id[u]
          /\ \A u \in Task : Queued(u) => id[u] < id'[t]
      BY <2>1, NewId DEF CInv, Tasks
    <3> QED
      BY <3>1 DEF Queued
  <2>2. CASE \E t \in Task : OwnerQueue(t) \/ \E h \in Handle : HandleNumber(h, t)
    BY <2>1, <2>2 DEF OwnerQueue, HandleNumber
  <2>3. CASE ~\E t \in Task : OwnerQueue(t) \/ \E h \in Handle : HandleNumber(h, t)
    <3>1. id' = id
      BY <2>3, OthersKeepIds
    <3> QED
      BY <3>1 DEF Queued
  <2> QED
    BY <2>2, <2>3
<1>2. CInv /\ [CosyncNext]_allVars => [Grows]_allVars
  BY <1>1
<1> QED
  BY <1>2, CInvariance, PTL DEF CosyncSpec, IdsGrow

\* Tasks of one actor are first polled in the order in which it queued them
\* (lib.rs:36-38), whoever else queues, takes back and wakes meanwhile.
THEOREM TasksStartInOrder == CosyncSpec => []FifoPerActor
<1>1. CInv => FifoPerActor
  BY DEF CInv, Tasks
<1> QED
  BY <1>1, CInvariance, PTL

\* The three kinds of places a task can be in, as OnePlace counts them.
LEMMA PlacesAreOne == Tasks => OnePlace
<1> SUFFICES ASSUME Tasks, NEW t \in Task
             PROVE  Cardinality({h \in Handle : htask[h] = t})
                    + Cardinality({i \in DOMAIN incoming : incoming[i] = t})
                    + (IF t \in live THEN 1 ELSE 0)
                    + (IF t \in gone THEN 1 ELSE 0)
                    = IF Queued(t) THEN 1 ELSE 0
  BY DEF OnePlace
<1> DEFINE H == {h \in Handle : htask[h] = t}
           W == {i \in DOMAIN incoming : incoming[i] = t}
<1>1. Cardinality(H) = IF t \in Held THEN 1 ELSE 0
  <2>1. CASE t \in Held
    <3>1. PICK h \in Handle : H = {h}
      BY <2>1, NoneAssumption DEF Held, Tasks, Places
    <3> QED
      BY <2>1, <3>1, FS_Singleton
  <2>2. CASE t \notin Held
    <3>1. H = {}
      BY <2>2 DEF Held
    <3> QED
      BY <2>2, <3>1, FS_EmptySet
  <2> QED
    BY <2>1, <2>2
<1>2. Cardinality(W) = IF t \in Waiting THEN 1 ELSE 0
  <2>1. DOMAIN incoming = 1 .. Len(incoming) /\ Once
    BY DEF Tasks, Places
  <2>2. CASE t \in Waiting
    <3>1. PICK i \in DOMAIN incoming : W = {i}
      BY <2>1, <2>2 DEF Waiting, Once
    <3> QED
      BY <2>2, <3>1, FS_Singleton
  <2>3. CASE t \notin Waiting
    <3>1. W = {}
      BY <2>3 DEF Waiting
    <3> QED
      BY <2>3, <3>1, FS_EmptySet
  <2> QED
    BY <2>2, <2>3
<1>3. /\ Queued(t) <=> t \in Held \union Waiting \union live \union gone
      /\ t \in Held => t \notin Waiting \union live \union gone
      /\ t \in Waiting => t \notin live \union gone
      /\ t \in live => t \notin gone
  BY DEF Tasks, Places, QueuedTasks
<1> HIDE DEF H, W
<1>4. Cardinality(H) + Cardinality(W) + (IF t \in live THEN 1 ELSE 0) + (IF t \in gone THEN 1 ELSE 0)
        = IF Queued(t) THEN 1 ELSE 0
  BY <1>1, <1>2, <1>3
<1> QED
  BY <1>4 DEF H, W

\* A queued task is in exactly one place until it is gone: it is neither lost nor
\* run twice when tasks are moved from one queue to the other.
THEOREM TasksAreInOnePlace == CosyncSpec => []OnePlace
<1>1. CInv => OnePlace
  BY PlacesAreOne DEF CInv
<1> QED
  BY <1>1, CInvariance, PTL

-----------------------------------------------------------------------------
(* The life cycle of a task: what a step is to the abstract executor *)

LifeStep == Lifecycle!Next \/ UNCHANGED Lifecycle!vars

LEMMA LifeStays ==
    ASSUME UNCHANGED <<id, begun, gone, ran, Active>>
    PROVE  LifeStep
  BY DEF LifeStep, Lifecycle!vars, Phase, Queued

\* Tasks end that are not under poll.
LEMMA LifeEnds ==
    ASSUME Tasks, UNCHANGED <<id, begun, ran, Active>>, NEW ended,
           gone' = gone \union ended, ended \subseteq Held \union Waiting \union live,
           Active \notin ended
    PROVE  LifeStep
<1>1. ended \subseteq Task /\ \A t \in ended : Queued(t) /\ t \notin gone
  BY DEF Tasks, Places, QueuedTasks
<1>2. \A t \in ended : Lifecycle!Alive(t)
  BY <1>1 DEF Lifecycle!Alive, Phase
<1>3. Phase' = [t \in Task |-> IF t \in ended THEN "done" ELSE Phase[t]]
  BY DEF Phase, Queued
<1>4. Lifecycle!End(ended)
  BY <1>2, <1>3 DEF Lifecycle!End
<1> QED
  BY <1>1, <1>4 DEF LifeStep, Lifecycle!Next

LEMMA LifeQueues ==
    ASSUME Tasks, NEW t \in Task, NEW actor \in Handle \union {Owner_}, TakeId(t, actor),
           UNCHANGED <<begun, gone, ran, Active>>
    PROVE  LifeStep
<1>1. /\ ~Queued(t) /\ Queued(t)' /\ t \notin begun \union gone
      /\ \A u \in Task : u # t => Queued(u)' = Queued(u)
  BY NewId, NoIdAssumption DEF Tasks, Places, QueuedTasks, Queued
<1>2. Phase[t] = "new"
  BY <1>1 DEF Phase
<1>3. Phase' = [Phase EXCEPT ![t] = "queued"]
  BY <1>1 DEF Phase
<1>4. Lifecycle!Queue(t)
  BY <1>2, <1>3 DEF Lifecycle!Queue
<1> QED
  BY <1>4 DEF LifeStep, Lifecycle!Next

\* Waiting tasks and those in the hands of a handle are not under poll.
LEMMA OnlyPolledActive ==
    ASSUME Tasks, Pool
    PROVE  Active \notin Held \union Waiting
  BY NoneAssumption, WaitingIsRange DEF Tasks, Places, Held, Pool, PoolShape, Reached, Active

LEMMA PoolRunsLife ==
    ASSUME NEW where, Tasks, Pool, Cycle(where), PoolRuns
    PROVE  LifeStep
<1>1. id' = id
  BY DEF PoolRuns, queueState
<1>2. ASSUME NEW t \in Task, BeginTask(t) PROVE LifeStep
  <2>1. /\ pc = "loop" /\ pc' = "poll" /\ cur' = t /\ t \in live /\ t \notin polled
        /\ begun' = begun \union {t} /\ ran' = ran \union {t} /\ gone' = gone
    BY <1>2 DEF BeginTask, DequeueUnpolled, TakeTask
  <2>2. Active = None /\ Active' = t
    BY <2>1 DEF Active
  <2>3. t \notin ran /\ t \notin gone /\ Queued(t)
    BY <2>1 DEF Cycle, Tasks, Places, QueuedTasks
  <2>4. Phase' = [Phase EXCEPT ![t] = "running"]
    BY <1>1, <2>1, <2>3 DEF Phase, Queued
  <2>5. Lifecycle!Alive(t)
    BY <2>3 DEF Lifecycle!Alive, Phase
  <2>6. Lifecycle!Poll(t)
    BY <2>1, <2>2, <2>3, <2>4, <2>5 DEF Lifecycle!Poll
  <2> QED
    BY <2>6 DEF LifeStep, Lifecycle!Next
<1>3. CASE PollFuture
  <2>1. /\ pc = "poll" /\ pc' # "poll" /\ cur \in live /\ cur # None /\ cur \in Task
        /\ UNCHANGED <<begun, ran>>
    BY <1>3, NoneAssumption
       DEF PollFuture, PollReady, PollPending, PollPanic, Return, runHistory, Pool, PoolShape
  <2>2. Active = cur /\ Active' = None /\ cur \in begun
    BY <2>1 DEF Active, Pool, Reached
  <2>3. CASE live' = live
    <3>1. gone' = gone
      BY <1>3, <2>3 DEF PollFuture
    <3>2. Phase' = Phase
      BY <1>1, <2>1, <3>1 DEF Phase, Queued
    <3>3. Lifecycle!Pending
      BY <2>1, <2>2, <3>2 DEF Lifecycle!Pending
    <3> QED
      BY <3>3 DEF LifeStep, Lifecycle!Next
  <2>4. CASE live' = live \ {cur}
    <3>1. gone' = gone \union {cur}
      BY <1>3, <2>1, <2>4 DEF PollFuture
    <3>2. Phase' = [Phase EXCEPT ![cur] = "done"]
      BY <1>1, <2>1, <3>1 DEF Phase, Queued
    <3>3. Lifecycle!Finish
      BY <2>1, <2>2, <3>2 DEF Lifecycle!Finish
    <3> QED
      BY <3>3 DEF LifeStep, Lifecycle!Next
  <2> QED
    BY <1>3, <2>3, <2>4 DEF PollFuture, PollReady, PollPending, PollPanic, ReleaseTask
<1>4. CASE UseWaker
  <2>1. UNCHANGED <<begun, ran, gone, pc, cur>>
    BY <1>4 DEF UseWaker, CloneWaker, WakeSelf, runHistory
  <2> QED
    BY <1>1, <2>1, LifeStays DEF Active
<1>5. CASE PoolStep
  <2>1. UNCHANGED <<begun, ran>> /\ gone' = gone \union (live \ live') /\ live' \subseteq live
    BY <1>5, PoolEnds
  <2>2. pc # "poll" /\ pc' # "poll"
    BY <1>5 DEF PoolStep, ReleaseOne, DrainData, DequeueReleased, DequeuePolled, TakeTask, StartDrain,
                DrainEmpty, DrainInconsistent, DropQueue, DrainQueue, DequeueEmpty, DequeueInconsistent,
                Requeue, PutBack, Return, GoOn, exec
  <2>3. Active = None /\ Active' = None
    BY <2>2 DEF Active
  <2>4. None \notin live
    BY NoneAssumption DEF Tasks, Places
  <2> QED
    BY <1>1, <2>1, <2>3, <2>4, LifeEnds
<1> QED
  BY <1>2, <1>3, <1>4, <1>5 DEF PoolRuns

LEMMA OthersLife ==
    ASSUME Tasks, Pool, WakerThread \/ \E h \in Handle : HandleStep(h)
    PROVE  LifeStep
<1>1. CASE WakerThread
  <2>1. UNCHANGED <<id, begun, ran, gone, cur>> /\ (pc' = pc \/ (pc # "poll" /\ pc' # "poll"))
    BY <1>1, WakersKeep DEF queueState
  <2> QED
    BY <2>1, LifeStays DEF Active
<1>2. ASSUME NEW h \in Handle, HandleStep(h) PROVE LifeStep
  <2>1. UNCHANGED <<begun, ran, Active>>
    BY <1>2 DEF HandleStep, HandleNumber, HandleUnqueue, HandleAppend, poolVars, vars, exec, runHistory, Active
  <2>2. ASSUME NEW t \in Task, HandleNumber(h, t) PROVE LifeStep
    BY <2>1, <2>2, LifeQueues DEF HandleNumber
  <2>3. ASSUME NEW t \in Task, HandleUnqueue(h, t) PROVE LifeStep
    <3>1. id' = id /\ \E i \in DOMAIN incoming : gone' = gone \union {incoming[i]}
      BY <2>3 DEF HandleUnqueue, Remove, RemoveAt
    <3> QED
      BY <2>1, <3>1, OnlyPolledActive, LifeEnds DEF Waiting
  <2>4. CASE HandleAppend(h)
    <3>1. id' = id /\ htask[h] \in Held
      BY <2>4 DEF HandleAppend, Tasks, Places, Held
    <3>2. gone' = gone \/ gone' = gone \union (Waiting \union {htask[h]})
      BY <2>4 DEF HandleAppend
    <3> QED
      BY <2>1, <3>1, <3>2, OnlyPolledActive, LifeEnds, LifeStays
  <2> QED
    BY <1>2, <2>2, <2>3, <2>4 DEF HandleStep
<1> QED
  BY <1>1, <1>2

LEMMA SharedCallsLife ==
    ASSUME Tasks, Pool, SharedCall
    PROVE  LifeStep
<1>1. UNCHANGED <<id, begun, ran, cur>>
  BY DEF SharedCall, OwnerUnqueue, ClearQueue, ClearRunning, ClearAll, DropCosync, ClearRest, DropIncoming,
         Clear, Drop, ClearHeadAll, poolVars, vars, exec, queueState, runHistory
<1>2. pc # "poll" /\ pc' # "poll"
  BY DEF SharedCall, OwnerUnqueue, ClearQueue, ClearRunning, ClearAll, DropCosync, ClearRest, DropIncoming,
         Clear, Drop, ClearHeadAll, poolVars, vars, exec, AtRest, PoolGone
<1>3. Active = None /\ Active' = None
  BY <1>2 DEF Active
<1>4. \/ gone' = gone \/ gone' = gone \union Waiting
      \/ \E i \in DOMAIN incoming : gone' = gone \union {incoming[i]}
  BY DEF SharedCall, OwnerUnqueue, ClearQueue, ClearRunning, ClearAll, DropCosync, ClearRest, DropIncoming,
         Remove, RemoveAt, EmptyQueue
<1> QED
  BY <1>1, <1>3, <1>4, OnlyPolledActive, LifeEnds, LifeStays DEF Waiting

LEMMA CosyncStepsLife ==
    ASSUME CInv,
           \/ \E t \in Task : OwnerQueue(t) \/ StopRunning(t) \/ MoveTask(t)
           \/ Run \/ StartPoll \/ PollReturned
    PROVE  LifeStep
<1>1. pc # "poll" /\ pc' # "poll"
  BY DEF OwnerQueue, StopRunning, MoveTask, Run, StartPoll, PollReturned, Push, PollNext, AtRest, poolVars, vars, exec
<1>2. Active = None /\ Active' = None
  BY <1>1 DEF Active
<1>3. ASSUME NEW t \in Task, OwnerQueue(t) PROVE LifeStep
  BY <1>2, <1>3, LifeQueues DEF OwnerQueue, runHistory, CInv
<1>4. CASE Run
  <2>1. ran' = {} /\ UNCHANGED <<id, begun, gone>>
    BY <1>4 DEF Run, queueState
  <2>2. Lifecycle!StartRun
    BY <1>2, <2>1 DEF Lifecycle!StartRun, Phase, Queued
  <2> QED
    BY <2>2 DEF LifeStep, Lifecycle!Next
<1>5. CASE (\E t \in Task : StopRunning(t) \/ MoveTask(t)) \/ StartPoll \/ PollReturned
  <2>1. UNCHANGED <<id, begun, gone, ran>>
    BY <1>5 DEF StopRunning, MoveTask, StartPoll, PollReturned, queueState, runHistory
  <2> QED
    BY <1>2, <2>1, LifeStays
<1> QED
  BY <1>3, <1>4, <1>5

\* A Cosync polls a task only after it was queued, at most once per run, and never
\* after it was completed, taken back, cleared or dropped (lib.rs:93-152, 229-262).
THEOREM CosyncIsExecutor == CosyncSpec => IsExecutor
<1>1. CosyncInit => Lifecycle!Init
  <2> SUFFICES ASSUME CosyncInit PROVE Lifecycle!Init
    OBVIOUS
  <2>1. Phase = [t \in Task |-> "new"] /\ ran = {} /\ Active = None
    BY DEF CosyncInit, Init, Phase, Active, Queued
  <2> QED
    BY <2>1 DEF Lifecycle!Init
<1>2. CInv /\ [CosyncNext]_allVars => [Lifecycle!Next]_(Lifecycle!vars)
  <2> SUFFICES ASSUME CInv, [CosyncNext]_allVars PROVE LifeStep
    BY DEF LifeStep
  <2>1. CASE SharedCall
    BY <2>1, SharedCallsLife DEF CInv
  <2>2. CASE PoolRuns
    BY <2>2, PoolRunsLife DEF CInv
  <2>3. CASE WakerThread \/ \E h \in Handle : HandleStep(h)
    BY <2>3, OthersLife DEF CInv
  <2>4. CASE CosyncEnded \/ UNCHANGED allVars
    BY <2>4, LifeStays DEF CosyncEnded, allVars, poolVars, vars, exec, queueState, runHistory, Active
  <2>5. CASE \/ \E t \in Task : OwnerQueue(t) \/ StopRunning(t) \/ MoveTask(t)
             \/ Run \/ StartPoll \/ PollReturned
    BY <2>5, CosyncStepsLife
  <2> QED
    BY <2>1, <2>2, <2>3, <2>4, <2>5 DEF CosyncNext, OwnerStep, RunStep, SharedCall
<1> QED
  BY <1>1, <1>2, CInvariance, PTL DEF CosyncSpec, IsExecutor, Lifecycle!Spec

-----------------------------------------------------------------------------
(* What a run owes: the tasks queued before it or meanwhile, and those woken before it *)

\* The tasks of the pool that this run has yet to poll.
Unpolled == live \ polled

\* Those the next poll_next will not pass over.
Runnable == IF fresh THEN live ELSE Unpolled

\* A task that is owed waits in one of the two queues, or is gone; when poll_pool is
\* over none is left in them.
RunOwes ==
    /\ InPollNext => cpc = "poll"
    /\ cpc = "move" => owed \subseteq Waiting \union Runnable \union gone
    /\ cpc = "poll" => owed \subseteq Waiting \union (due \intersect Unpolled) \union gone
    /\ cpc \notin {"move", "poll"} /\ out \in {"Ready", "Pending"} => owed \subseteq gone

\* Between runs, tasks only end.
LEMMA RestOwes ==
    ASSUME RunOwes, {cpc, cpc'} \intersect {"move", "poll"} = {}, ~InPollNext',
           UNCHANGED <<owed, out>>, gone \subseteq gone'
    PROVE  RunOwes'
  BY DEF RunOwes

LEMMA CallsOwe ==
    ASSUME RunOwes, SharedCall \/ \E t \in Task : OwnerQueue(t) \/ StopRunning(t)
    PROVE  RunOwes'
<1>1. {cpc, cpc'} \intersect {"move", "poll"} = {}
  BY DEF SharedCall, OwnerUnqueue, ClearQueue, ClearRunning, ClearAll, DropCosync, ClearRest, DropIncoming,
         OwnerQueue, StopRunning, AtRest, ownerState
<1>2. UNCHANGED <<owed, out>> /\ (pc' = pc \/ pc' \in {"clear", "drop"})
  BY DEF SharedCall, OwnerUnqueue, ClearQueue, ClearRunning, ClearAll, DropCosync, ClearRest, DropIncoming,
         OwnerQueue, StopRunning, Push, Clear, Drop, ClearHeadAll, poolVars, vars, exec, runHistory
<1>3. gone \subseteq gone'
  BY DEF SharedCall, OwnerUnqueue, ClearQueue, ClearRunning, ClearAll, DropCosync, ClearRest, DropIncoming,
         OwnerQueue, StopRunning, Remove, RemoveAt, EmptyQueue
<1>4. ~InPollNext'
  BY <1>1, <1>2 DEF RunOwes, InPollNext
<1> QED
  BY <1>1, <1>2, <1>3, <1>4, RestOwes

\* A handle adds to what is owed the task it queues, and may take one back.
LEMMA HandlesWait ==
    ASSUME Tasks, NEW h \in Handle, HandleStep(h)
    PROVE  /\ Waiting \subseteq Waiting' \union gone'
           /\ owed' = owed \/ (cpc = "poll" /\ owed' = owed \union {htask[h]} /\ htask[h] \in Waiting')
<1>1. CASE \E t \in Task : HandleNumber(h, t)
  BY <1>1 DEF HandleNumber, runHistory, Waiting
<1>2. CASE \E t \in Task : HandleUnqueue(h, t)
  <2>1. incoming \in Seq(Task) /\ Once /\ DOMAIN incoming = 1 .. Len(incoming)
    BY DEF Tasks, Places
  <2>2. PICK k \in 1 .. Len(incoming) : RemoveAt(k)
    BY <1>2, <2>1 DEF HandleUnqueue, Remove
  <2>3. Waiting' = Waiting \ {incoming[k]}
    BY <2>1, <2>2, RemoveTakes, EntryTaken
  <2> QED
    BY <1>2, <2>2, <2>3 DEF RemoveAt, HandleUnqueue, runHistory
<1>3. CASE HandleAppend(h)
  <2>1. /\ incoming \in Seq(Task) /\ Once /\ htask[h] \in Task /\ htask[h] \notin Waiting
    BY <1>3 DEF HandleAppend, Tasks, Places, Held
  <2>2. CASE incoming' = Append(incoming, htask[h])
    <3>1. Waiting' = Waiting \union {htask[h]}
      <4>1. PICK t \in Task : t = htask[h]
        BY <2>1
      <4> QED
        BY <2>1, <2>2, <4>1, EntryAppended
    <3> QED
      BY <1>3, <3>1 DEF HandleAppend
  <2>3. CASE gone' = gone \union Waiting \union {htask[h]} /\ cpc = "gone"
    BY <1>3, <2>3 DEF HandleAppend
  <2> QED
    BY <1>3, <2>2, <2>3 DEF HandleAppend
<1> QED
  BY <1>1, <1>2, <1>3 DEF HandleStep

LEMMA HandlesOwe ==
    ASSUME RunOwes, Tasks, NEW h \in Handle, HandleStep(h)
    PROVE  RunOwes'
<1>1. UNCHANGED vars /\ UNCHANGED cpc /\ cpc # "move" /\ gone \subseteq gone'
  BY DEF HandleStep, HandleNumber, HandleUnqueue, HandleAppend, Remove, RemoveAt, poolVars, ownerState, Unlocked
<1>2. UNCHANGED <<live, polled, pc, out, due, InPollNext, Unpolled>>
  BY <1>1 DEF vars, mem, exec, history, InPollNext, Unpolled
<1>3. Waiting \subseteq Waiting' \union gone'
      /\ (owed' = owed \/ (cpc = "poll" /\ owed' = owed \union {htask[h]} /\ htask[h] \in Waiting'))
  BY HandlesWait
<1>4. CASE cpc = "poll"
  BY <1>1, <1>2, <1>3, <1>4 DEF RunOwes
<1>5. CASE cpc # "poll"
  BY <1>1, <1>2, <1>3, <1>5 DEF RunOwes
<1> QED
  BY <1>4, <1>5

LEMMA WakersOwe ==
    ASSUME RunOwes, Tasks, Pool, WakerThread
    PROVE  RunOwes'
<1>1. /\ UNCHANGED <<live, polled, gone, incoming, cpc>>
      /\ pc' = pc \/ pc' \in {"dropped", "abort_drop"}
  BY WakersKeep DEF queueState
<1>2. UNCHANGED <<out, due, owed, fresh>>
  BY DEF WakerThread, runHistory, ownerState, Thread, Waking, DropWaker, WakeUpgrade, WakeTooLate, WakeIgnored, WakeClaim,
         WakeSwap, WakeLink, WakeDone, exec, history
<1>3. UNCHANGED <<Waiting, Unpolled, Runnable>> /\ (InPollNext' => InPollNext)
  BY <1>1, <1>2 DEF Waiting, Unpolled, Runnable, InPollNext
<1> QED
  BY <1>1, <1>2, <1>3 DEF RunOwes

\* While the pool runs, a task is polled, ends, or stays due.
LEMMA PoolRunsOwe ==
    ASSUME RunOwes, Tasks, PoolRuns
    PROVE  RunOwes'
<1>1. UNCHANGED <<cpc, incoming, Waiting, fresh>>
  BY DEF PoolRuns, queueState, ownerState, Waiting
<1>2. CASE \E t \in Task : BeginTask(t)
  <2>1. PICK t \in Task : /\ owed' = owed \ {t} /\ due' = due \ {t} /\ polled' = polled \union {t}
                          /\ UNCHANGED <<live, gone, out>> /\ pc = "loop"
    BY <1>2 DEF BeginTask, DequeueUnpolled, TakeTask
  <2>2. cpc = "poll"
    BY <2>1 DEF RunOwes, InPollNext
  <2>3. owed' \subseteq Waiting' \union (due' \intersect Unpolled') \union gone'
    BY <1>1, <2>1, <2>2 DEF RunOwes, Unpolled
  <2> QED
    BY <1>1, <2>2, <2>3 DEF RunOwes
<1>3. CASE PollFuture \/ UseWaker \/ PoolStep
  <2>1. gone' = gone \union (live \ live') /\ live' \subseteq live
    BY <1>3, PoolEnds
  <2>2. UNCHANGED <<owed, due, polled>>
    BY <1>3 DEF PollFuture, UseWaker, PoolStep, PollReady, PollPending, PollPanic, CloneWaker, WakeSelf,
                ReleaseOne, DrainData, DequeueReleased, DequeuePolled, StartDrain, DrainEmpty,
                DrainInconsistent, DropQueue, DequeueEmpty, DequeueInconsistent, Requeue, PutBack,
                history, runHistory
  <2>3. (InPollNext' => InPollNext) /\ (out' = out \/ InPollNext)
    BY <1>3 DEF PollFuture, UseWaker, PoolStep, PollReady, PollPending, PollPanic, CloneWaker, WakeSelf,
                ReleaseOne, DrainData, DequeueReleased, DequeuePolled, TakeTask, StartDrain, DrainEmpty,
                DrainInconsistent, DropQueue, DrainQueue, DequeueEmpty, DequeueInconsistent, Requeue, PutBack,
                Return, GoOn, exec, InPollNext
  <2>4. CASE cpc = "poll"
    <3>1. owed' \subseteq Waiting' \union (due' \intersect Unpolled') \union gone'
      BY <1>1, <2>1, <2>2, <2>4 DEF RunOwes, Unpolled
    <3> QED
      BY <1>1, <2>3, <2>4, <3>1 DEF RunOwes
  <2>5. CASE cpc # "poll"
    <3>1. ~InPollNext /\ UNCHANGED out
      BY <2>3, <2>5 DEF RunOwes
    <3>2. cpc = "move" => owed' \subseteq Waiting' \union Runnable' \union gone'
      BY <1>1, <2>1, <2>2 DEF RunOwes, Unpolled, Runnable
    <3> QED
      BY <1>1, <2>1, <2>2, <2>3, <2>5, <3>1, <3>2 DEF RunOwes
  <2> QED
    BY <2>4, <2>5
<1> QED
  BY <1>2, <1>3 DEF PoolRuns

\* poll_pool: what waits is moved to the pool and is due in the poll_next that
\* follows; it is called again as long as tasks are waiting.
LEMMA RunSteps ==
    ASSUME RunOwes, Tasks, DueArePolled,
           Run \/ StartPoll \/ PollReturned \/ \E t \in Task : MoveTask(t)
    PROVE  RunOwes'
<1>1. CASE Run
  <2>1. /\ owed' = Waiting \union (live \intersect Entries) /\ fresh' = TRUE
        /\ UNCHANGED <<incoming, live>> /\ cpc' = "move" /\ pc = "idle" /\ pc' = pc
    BY <1>1 DEF Run, AtRest, queueState, poolVars, vars, mem, exec
  <2>2. owed' \subseteq Waiting' \union Runnable'
    BY <2>1 DEF Waiting, Runnable
  <2> QED
    BY <2>1, <2>2 DEF RunOwes, InPollNext
<1>2. ASSUME NEW t \in Task, MoveTask(t) PROVE RunOwes'
  <2>1. /\ incoming \in Seq(Task) /\ Once
        /\ incoming # <<>> /\ t = Head(incoming) /\ incoming' = Tail(incoming)
    BY <1>2 DEF MoveTask, Tasks, Places
  <2>2. Waiting' = Waiting \ {t}
    BY <2>1, TailTakes, EntryTaken
  <2>3. /\ live' = live \union {t} /\ polled' = polled \ {t} /\ cpc = "move" /\ cpc' = cpc
        /\ UNCHANGED <<owed, gone, fresh>> /\ pc = "idle" /\ pc' = pc
    BY <1>2 DEF MoveTask, Push, exec, ownerState, runHistory
  <2>4. owed' \subseteq Waiting' \union Runnable' \union gone'
    BY <2>2, <2>3 DEF RunOwes, Unpolled, Runnable
  <2> QED
    BY <2>3, <2>4 DEF RunOwes, InPollNext
<1>3. CASE StartPoll
  <2>1. /\ due' = (Reachable \intersect live) \ polled' /\ live' = live
        /\ polled' = IF fresh THEN {} ELSE polled
        /\ owed' = owed \intersect Reachable /\ UNCHANGED <<gone, incoming>>
        /\ cpc = "move" /\ cpc' = "poll" /\ incoming = <<>>
    BY <1>3 DEF StartPoll, PollNext, mem, queueState
  <2>2. Waiting = {}
    BY <2>1 DEF Waiting
  <2>3. owed' \subseteq (due' \intersect Unpolled') \union gone'
    BY <2>1, <2>2 DEF RunOwes, Unpolled, Runnable
  <2> QED
    BY <2>1, <2>3 DEF RunOwes
<1>4. CASE PollReturned
  <2>1. /\ UNCHANGED <<vars, incoming, owed, gone>> /\ cpc = "poll" /\ pc = "idle"
        /\ cpc' = IF out # "Panic" /\ incoming # <<>> THEN "move" ELSE "out"
    BY <1>4 DEF PollReturned, poolVars, queueState, runHistory
  <2>2. UNCHANGED <<live, polled, pc, out, Waiting, Unpolled>>
    BY <2>1 DEF vars, mem, exec, Waiting, Unpolled
  <2>3. cpc' = "move" => owed' \subseteq Waiting' \union Runnable' \union gone'
    BY <2>1, <2>2 DEF RunOwes, Unpolled, Runnable
  <2>4. ASSUME cpc' = "out", out \in {"Ready", "Pending"} PROVE owed' \subseteq gone'
    <3>1. incoming = <<>> /\ due = {}
      BY <2>1, <2>4 DEF DueArePolled
    <3>2. Waiting = {}
      BY <3>1 DEF Waiting
    <3> QED
      BY <2>1, <3>1, <3>2 DEF RunOwes
  <2> QED
    BY <2>1, <2>2, <2>3, <2>4 DEF RunOwes, InPollNext
<1> QED
  BY <1>1, <1>2, <1>3, <1>4

LEMMA OwesKeep == CosyncSpec /\ RaceFree => []RunOwes
<1>1. CosyncInit => RunOwes
  BY DEF CosyncInit, Init, RunOwes, InPollNext
<1>2. CInv /\ DueArePolled /\ RunOwes /\ [CosyncNext]_allVars => RunOwes'
  <2> SUFFICES ASSUME CInv, DueArePolled, RunOwes, [CosyncNext]_allVars PROVE RunOwes'
    OBVIOUS
  <2>1. Tasks /\ Pool
    BY DEF CInv
  <2>2. CASE CosyncEnded \/ UNCHANGED allVars
    <3>1. UNCHANGED <<live, polled, pc, out, due, incoming, cpc, fresh, owed, gone>>
      BY <2>2 DEF CosyncEnded, allVars, poolVars, vars, mem, exec, history, queueState, ownerState, runHistory
    <3> QED
      BY <3>1 DEF RunOwes, InPollNext, Waiting, Unpolled, Runnable
  <2> QED
    BY <2>1, <2>2, CallsOwe, HandlesOwe, WakersOwe, PoolRunsOwe, RunSteps
       DEF CosyncNext, OwnerStep, RunStep, SharedCall
<1> QED
  BY PoolInCosync, AllDueArePolled, CInvariance, <1>1, <1>2, PTL DEF CosyncSpec

\* A run that reports Ready or Pending has polled every task queued before it or
\* meanwhile, and every task woken before it (lib.rs:186-187 and 218-222), however often
\* poll_pool had to call poll_next, but for those taken back and those behind an entry a
\* waking thread had not linked yet.
THEOREM RunsStartAll == CosyncSpec /\ RaceFree => []RunStartsAll
<1>1. RunOwes => RunStartsAll
  BY DEF RunOwes, RunStartsAll, AtRest
<1> QED
  BY OwesKeep, <1>1, PTL

\* A run owes a poll to every task woken before it, also to those that woke themselves
\* as yield_now and sleep_ticks do (lib.rs:584-588: a tick passes at every run), except
\* that a wake-up on another thread may not have come to its enqueue yet.
THEOREM RunsOweWoken ==
    CosyncSpec /\ RaceFree =>
        [][Run => \A t \in woken : t \in owed' \/ Claims(t) # {}]_allVars
<1>1. IInv => [Run => \A t \in woken : t \in owed' \/ Claims(t) # {}]_allVars
  <2> SUFFICES ASSUME IInv, Run, NEW t \in woken PROVE t \in owed' \/ Claims(t) # {}
    OBVIOUS
  <2>1. t \in live /\ t \in queued
    BY DEF IInv, Wakes, Run, AtRest
  <2>2. t \in Task /\ (t \in Entries \/ Claims(t) # {})
    BY <2>1 DEF IInv, TypeOK, Flags
  <2> QED
    BY <2>1, <2>2 DEF Run
<1> QED
  BY PoolInCosync, Invariance, <1>1, PTL

-----------------------------------------------------------------------------
(* On one thread a run passes nothing over *)

\* What a run owes waits, is in the ready-to-run queue, or is gone.
OwedInQueue == cpc \in {"move", "poll"} => owed \subseteq Waiting \union Entries \union gone

\* Only tasks without a future leave the ready-to-run queue, and the one poll_next takes.
LEMMA EntriesLeave ==
    ASSUME IInv, PollFuture \/ UseWaker \/ PoolStep \/ WakerThread
    PROVE  \/ Entries \subseteq Entries' \union (Task \ live)
           \/ \E t \in Task : DequeuePolled(t) /\ Entries' = Entries \ {t}
<1>1. ready \in Seq(Task) /\ EnqueuedOnce /\ Entries \subseteq Task
  BY DEF IInv, TypeOK, QueuedOnce, Entries
<1>2. ASSUME UNCHANGED ready PROVE Entries' = Entries
  BY <1>2, SameEntries
<1>3. ASSUME NEW t \in Task, ready' = Append(ready, t) PROVE Entries \subseteq Entries'
  BY <1>1, <1>3, AppendEntry
<1>4. ASSUME NEW t \in Task, DequeueData(t) PROVE Entries' = Entries \ {t}
  BY <1>1, <1>4, TailEntry
<1>5. CASE WakerThread
  <2>1. PICK w \in Waker : Thread(w)
    BY <1>5 DEF WakerThread
  <2>2. CASE WakeSwap(w)
    <3>1. PICK t \in Task : t = wtask[w]
      BY <2>2 DEF WakeSwap, IInv, TypeOK
    <3> QED
      BY <1>3, <2>2, <3>1 DEF WakeSwap, SwapHead
  <2>3. CASE WakeDone(w) /\ PoolGone
    <3>1. live = {}
      BY <2>3, NoneAssumption DEF IInv, TypeOK, Shape, PoolGone
    <3> QED
      BY <1>1, <3>1
  <2>4. CASE ~WakeSwap(w) /\ ~(WakeDone(w) /\ PoolGone)
    <3>1. UNCHANGED ready
      BY <2>1, <2>4 DEF Thread, Waking, DropWaker, WakeUpgrade, WakeTooLate, WakeIgnored, WakeClaim,
                        WakeLink, LinkPrev, WakeDone, queueVars
    <3> QED
      BY <1>2, <3>1
  <2> QED
    BY <2>2, <2>3, <2>4
<1>6. CASE PollFuture
  BY <1>2, <1>6 DEF PollFuture, PollReady, PollPending, PollPanic, queueVars
<1>7. CASE UseWaker
  <2>1. UNCHANGED ready \/ (cur \in Task /\ ready' = Append(ready, cur))
    BY <1>7, NoneAssumption DEF UseWaker, CloneWaker, WakeSelf, Enqueue, queueVars, IInv, TypeOK
  <2>2. PICK c : c = cur
    OBVIOUS
  <2> QED
    BY <1>2, <1>3, <2>1, <2>2
<1>8. CASE PoolStep
  <2>1. ASSUME NEW t \in Task, DrainData(t) \/ DequeueReleased(t)
        PROVE  Entries \subseteq Entries' \union (Task \ live)
    <3>1. t \notin live
      BY <2>1, NoneAssumption DEF DrainData, DequeueReleased, IInv, TypeOK, Shape
    <3> QED
      BY <1>4, <2>1, <3>1 DEF DrainData, DequeueReleased
  <2>2. ASSUME NEW t \in Task, DequeuePolled(t)
        PROVE  Entries' = Entries \ {t}
    BY <1>4, <2>2 DEF DequeuePolled, TakeTask
  <2>3. CASE Requeue
    <3>1. PICK c \in Task : c = cur
      BY <2>3, NoneAssumption DEF Requeue, PutBack, IInv, TypeOK
    <3> QED
      BY <1>3, <2>3, <3>1 DEF Requeue, Enqueue
  <2>4. CASE DropQueue
    <3>1. live = {}
      BY <2>4, NoneAssumption DEF DropQueue, IInv, TypeOK, Shape
    <3> QED
      BY <1>1, <3>1
  <2>5. CASE (\E t \in Task : ReleaseOne(t)) \/ StartDrain \/ DrainEmpty \/ DrainInconsistent
             \/ DequeueEmpty \/ DequeueInconsistent
    BY <1>2, <2>5 DEF ReleaseOne, StartDrain, DrainEmpty, DrainInconsistent, DequeueEmpty,
                      DequeueInconsistent, queueVars
  <2> QED
    BY <1>8, <2>1, <2>2, <2>3, <2>4, <2>5 DEF PoolStep
<1> QED
  BY <1>5, <1>6, <1>7, <1>8

LEMMA PoolKeepsOwed ==
    ASSUME IInv, RunOwes, Tasks, Pool, OwedInQueue, PoolRuns \/ WakerThread
    PROVE  OwedInQueue'
<1>1. UNCHANGED <<cpc, Waiting>> /\ gone \subseteq gone'
  BY DEF PoolRuns, BeginTask, PollFuture, UseWaker, PoolStep, WakerThread, queueState, ownerState, Waiting
<1>2. Entries \subseteq live \union gone
  <2>1. DOMAIN ready = 1 .. Len(ready) /\ ready \in Seq(Task)
    BY DEF IInv, TypeOK
  <2> QED
    BY <2>1, NoneAssumption DEF Pool, Reached, Entries
<1>3. CASE \E t \in Task : BeginTask(t)
  <2>1. PICK t \in Task : DequeueData(t) /\ owed' = owed \ {t}
    BY <1>3 DEF BeginTask, DequeueUnpolled, TakeTask
  <2>2. Entries' = Entries \ {t}
    BY <2>1, TailEntry DEF IInv, TypeOK, QueuedOnce
  <2> QED
    BY <1>1, <2>1, <2>2 DEF OwedInQueue
<1>4. CASE PollFuture \/ UseWaker \/ PoolStep \/ WakerThread
  <2>1. owed' = owed
    BY <1>4 DEF PollFuture, UseWaker, PoolStep, WakerThread, runHistory
  <2>2. CASE Entries \subseteq Entries' \union (Task \ live)
    BY <1>1, <1>2, <2>1, <2>2 DEF OwedInQueue
  <2>3. ASSUME NEW t \in Task, DequeuePolled(t), Entries' = Entries \ {t}
        PROVE  OwedInQueue'
    <3>1. t \in live \ Unpolled /\ cpc = "poll"
      BY <2>3 DEF DequeuePolled, TakeTask, Unpolled, RunOwes, InPollNext
    <3>2. t \notin owed
      BY <3>1 DEF RunOwes, Tasks, Places
    <3> QED
      BY <1>1, <2>1, <2>3, <3>2 DEF OwedInQueue
  <2> QED
    BY <1>4, <2>2, <2>3, EntriesLeave
<1> QED
  BY <1>3, <1>4 DEF PoolRuns

LEMMA StepsKeepOwed ==
    ASSUME IInv, RunOwes, Tasks, Pool, OwedInQueue, [CosyncNext]_allVars
    PROVE  OwedInQueue'
<1>1. CASE Run
  <2>1. /\ owed' = Waiting \union (live \intersect Entries)
        /\ UNCHANGED <<incoming, ready>>
    BY <1>1 DEF Run, queueState, poolVars, vars, queueVars
  <2> QED
    BY <2>1, SameEntries DEF OwedInQueue, Waiting
<1>2. ASSUME NEW t \in Task, MoveTask(t) PROVE OwedInQueue'
  <2>1. /\ incoming \in Seq(Task) /\ Once
        /\ incoming # <<>> /\ t = Head(incoming) /\ incoming' = Tail(incoming)
    BY <1>2 DEF MoveTask, Tasks, Places
  <2>2. Waiting' = Waiting \ {t}
    BY <2>1, TailTakes, EntryTaken
  <2>3. Entries' = Entries \union {t}
    BY <1>2, AppendEntry DEF MoveTask, Push, Enqueue, IInv, TypeOK
  <2> QED
    BY <1>2, <2>2, <2>3 DEF MoveTask, runHistory, ownerState, OwedInQueue
<1>3. CASE StartPoll
  <2>1. UNCHANGED <<incoming, ready, gone>> /\ owed' \subseteq owed /\ cpc = "move"
    BY <1>3 DEF StartPoll, PollNext, queueState, queueVars
  <2> QED
    BY <2>1, SameEntries DEF OwedInQueue, Waiting
<1>4. CASE PollReturned \/ CosyncEnded \/ UNCHANGED allVars
  <2>1. UNCHANGED <<incoming, ready, gone, owed>> /\ (cpc = "poll" \/ cpc' = cpc)
    BY <1>4 DEF PollReturned, CosyncEnded, allVars, queueState, poolVars, vars, queueVars, runHistory, ownerState
  <2> QED
    BY <2>1, SameEntries DEF OwedInQueue, Waiting
<1>5. CASE SharedCall \/ \E t \in Task : OwnerQueue(t) \/ StopRunning(t)
  <2>1. cpc' \notin {"move", "poll"}
    BY <1>5 DEF SharedCall, OwnerUnqueue, ClearQueue, ClearRunning, ClearAll, DropCosync, ClearRest, DropIncoming,
                OwnerQueue, StopRunning, AtRest, ownerState
  <2> QED
    BY <2>1 DEF OwedInQueue
<1>6. ASSUME NEW h \in Handle, HandleStep(h) PROVE OwedInQueue'
  <2>1. UNCHANGED ready /\ UNCHANGED cpc /\ gone \subseteq gone'
    BY <1>6 DEF HandleStep, HandleNumber, HandleUnqueue, HandleAppend, Remove, RemoveAt, poolVars, vars, queueVars,
                ownerState
  <2> QED
    BY <1>6, <2>1, SameEntries, HandlesWait DEF OwedInQueue
<1> QED
  BY <1>1, <1>2, <1>3, <1>4, <1>5, <1>6, PoolKeepsOwed DEF CosyncNext, OwnerStep, RunStep, SharedCall

\* lib.rs:220-222, "all tasks in the pool will try to make progress": where wakers are
\* used on the owner's thread only, the poll_next of a run passes over no task that was
\* queued or woken, so that RunsStartAll holds without its exception.  The handles may
\* be on other threads.
THEOREM OneThreadRunsPassNothing ==
    CosyncSpec /\ OneThread => [][StartPoll => owed \ owed' \subseteq gone]_allVars
<1>1. CosyncInit => OwedInQueue
  BY DEF CosyncInit, OwedInQueue
<1>2. IInv /\ RunOwes /\ CInv /\ OwedInQueue /\ [CosyncNext]_allVars => OwedInQueue'
  BY StepsKeepOwed DEF CInv
<1>3. IInv /\ OwedInQueue /\ [OnOneThread]_vars =>
          [StartPoll => owed \ owed' \subseteq gone]_allVars
  <2> SUFFICES ASSUME IInv, OwedInQueue, [OnOneThread]_vars, StartPoll
               PROVE  owed \ owed' \subseteq gone
    OBVIOUS
  <2>1. OnOneThread /\ UNCHANGED slots
    BY DEF StartPoll, PollNext, vars, exec
  <2>2. unlinked = {}
    BY <2>1, NobodyInside
  <2>3. Entries = Reachable
    BY <2>2 DEF Entries, Reachable
  <2>4. owed \subseteq Entries \union gone
    BY DEF StartPoll, OwedInQueue, Waiting
  <2> QED
    BY <2>3, <2>4 DEF StartPoll
<1> QED
  BY PoolInCosync, OneThreadIsRaceFree, Invariance, OwesKeep, CInvariance, <1>1, <1>2, <1>3, PTL
     DEF CosyncSpec, OneThread

-----------------------------------------------------------------------------
(* Types *)

OwnerTypes == cpc \in OwnerPc /\ stopped \subseteq Task /\ owed \subseteq Task

LEMMA OwnerTypesKeep ==
    ASSUME Tasks, Pool, OwnerTypes, [CosyncNext]_allVars
    PROVE  OwnerTypes'
<1>1. Waiting \subseteq Task /\ \A h \in Handle : htask[h] # None => htask[h] \in Task
  BY WaitingIsRange DEF Tasks, Places
<1>2. linked \subseteq Task /\ live \subseteq Task
  BY DEF Pool, PoolShape, Tasks, Places
<1>3. CASE OwnerStep
  BY <1>1, <1>2, <1>3
     DEF OwnerStep, OwnerQueue, OwnerUnqueue, StopRunning, ClearQueue, ClearRunning, ClearAll, DropCosync, Run,
         ownerState, runHistory, OwnerTypes, OwnerPc
<1>4. CASE RunStep
  <2>1. CASE PoolRuns
    BY <2>1 DEF PoolRuns, BeginTask, PollFuture, UseWaker, PoolStep, ownerState, runHistory, OwnerTypes
  <2>2. CASE ~PoolRuns
    BY <1>4, <2>2 DEF RunStep, MoveTask, StartPoll, PollReturned, ClearRest, DropIncoming, ownerState, runHistory,
                      OwnerTypes, OwnerPc
  <2> QED
    BY <2>1, <2>2
<1>5. CASE \E h \in Handle : HandleStep(h)
  BY <1>1, <1>5 DEF HandleStep, HandleNumber, HandleUnqueue, HandleAppend, ownerState, runHistory, OwnerTypes
<1>6. CASE WakerThread \/ CosyncEnded \/ UNCHANGED allVars
  BY <1>6 DEF WakerThread, CosyncEnded, allVars, ownerState, runHistory, OwnerTypes
<1> QED
  BY <1>3, <1>4, <1>5, <1>6 DEF CosyncNext

\* Every variable of a Cosync keeps its type; the sets that record what became of a
\* task are sets of tasks that were queued.
THEOREM CosyncTypes == CosyncSpec /\ RaceFree => []CosyncTypeOK
<1>1. CosyncInit => OwnerTypes
  BY DEF CosyncInit, OwnerTypes, OwnerPc
<1>2. CInv /\ OwnerTypes /\ [CosyncNext]_allVars => OwnerTypes'
  BY OwnerTypesKeep DEF CInv
<1>3. TypeOK /\ CInv /\ OwnerTypes => CosyncTypeOK
  BY DEF CosyncTypeOK, CInv, Tasks, Ids, Places, Cycle, OwnerTypes
<1> QED
  BY PoolInCosync, TypeCorrect, CInvariance, <1>1, <1>2, <1>3, PTL DEF CosyncSpec

=============================================================================
