----------------------- MODULE FuturesUnordered_proofs -----------------------
(***************************************************************************)
(* Proofs about the task pool, for every number of tasks, of wakers and of *)
(* wake-ups per poll, as long as no thread claims a task in the window of  *)
(* futures_unordered.rs:443-448.  Programs that use their wakers on one    *)
(* thread, and futures that hand out one wake-up per poll, are free of     *)
(* that race.                                                              *)
(***************************************************************************)
EXTENDS FuturesUnordered, FiniteSetTheorems, TLAPS

\* The futures are those of the list and the one poll_next has unlinked.
Shape ==
    /\ live = linked \union {t \in Task : t = cur}
    /\ cur \notin linked
    /\ pc \in {"drain", "dropped", "abort_clear", "abort_drop"} => linked = {}

\* The flag of a task is up exactly while somebody has to see it in the queue;
\* of a released task it is up for good.
Flags ==
    /\ \A w \in Waker : wpc[w] = "claimed" => wtask[w] \in queued
    /\ \A w \in Waker : wpc[w] # "free" => wtask[w] \in live \union queued
    /\ \A t \in live \intersect queued : t \in Entries \/ Claims(t) # {}
    /\ pc = "requeue" => cur \notin queued

\* A woken task has its flag up, except where poll_next puts it back.
Wakes ==
    /\ woken \subseteq live
    /\ \A t \in woken : t \in queued \/ (pc = "requeue" /\ cur = t)

\* An entry is unlinked only while its producer is between the two steps.
Links == \A t \in unlinked : \E w \in Waker : wpc[w] = "linking" /\ wtask[w] = t

IInv ==
    /\ TypeOK
    /\ QueuedOnce
    /\ RefCount
    /\ Shape
    /\ Flags
    /\ Wakes
    /\ Links
    /\ NoAbortInDrop
    /\ NothingLeftInQueue

-----------------------------------------------------------------------------
(* The queue *)

\* An enqueue adds its task, and a task that is not yet in the queue is in it
\* only once afterwards.
LEMMA AppendEntry ==
    ASSUME NEW t \in Task, ready \in Seq(Task), ready' = Append(ready, t)
    PROVE  /\ ready' \in Seq(Task)
           /\ Entries' = Entries \union {t}
           /\ EnqueuedOnce /\ t \notin Entries => EnqueuedOnce'
<1>1. /\ Len(ready') = Len(ready) + 1
      /\ \A i \in 1 .. Len(ready) : ready'[i] = ready[i]
      /\ ready'[Len(ready) + 1] = t
      /\ ready' \in Seq(Task)
    OBVIOUS
<1>2. /\ DOMAIN ready = 1 .. Len(ready) /\ Len(ready) \in Nat
      /\ DOMAIN ready' = 1 .. (Len(ready) + 1)
    BY <1>1
<1>3. Entries' = Entries \union {t}
    BY <1>1, <1>2 DEF Entries
<1>4. ASSUME EnqueuedOnce, t \notin Entries
      PROVE  EnqueuedOnce'
    BY <1>1, <1>2, <1>4 DEF Entries, EnqueuedOnce
<1> QED
    BY <1>1, <1>3, <1>4

\* A dequeue takes its task out of a queue without duplicates.
LEMMA TailEntry ==
    ASSUME NEW t \in Task, ready \in Seq(Task), EnqueuedOnce, DequeueData(t)
    PROVE  /\ ready' \in Seq(Task)
           /\ t \in Entries
           /\ Entries' = Entries \ {t}
           /\ EnqueuedOnce'
<1>1. /\ ready # <<>> /\ t = ready[1]
      /\ ready' = Tail(ready)
    BY DEF DequeueData, TakesHead
<1>2. /\ ready' \in Seq(Task)
      /\ Len(ready) \in Nat /\ Len(ready) >= 1
      /\ Len(ready') = Len(ready) - 1
      /\ \A i \in 1 .. Len(ready') : ready'[i] = ready[i + 1]
    BY <1>1
<1>3. DOMAIN ready = 1 .. Len(ready) /\ DOMAIN ready' = 1 .. (Len(ready) - 1)
    BY <1>2
<1>4. t \in Entries
    BY <1>1, <1>2, <1>3 DEF Entries
<1>5. EnqueuedOnce'
  <2> SUFFICES ASSUME NEW i \in DOMAIN ready', NEW j \in DOMAIN ready',
                      ready'[i] = ready'[j]
               PROVE  i = j
      BY DEF EnqueuedOnce
  <2>1. i + 1 \in DOMAIN ready /\ j + 1 \in DOMAIN ready /\ ready[i + 1] = ready[j + 1]
      BY <1>2, <1>3
  <2>2. i + 1 = j + 1
      BY <2>1 DEF EnqueuedOnce
  <2> QED
      BY <2>2, <1>2, <1>3
<1>6. \A i \in 1 .. Len(ready) : i # 1 => ready[i] # t
    BY <1>1, <1>2, <1>3 DEF EnqueuedOnce
<1>7. Entries' \subseteq Entries \ {t}
  <2> SUFFICES ASSUME NEW i \in DOMAIN ready' PROVE ready'[i] \in Entries \ {t}
      BY DEF Entries
  <2>1. i + 1 \in 1 .. Len(ready) /\ ready'[i] = ready[i + 1] /\ i + 1 # 1
      BY <1>2, <1>3
  <2> QED
      BY <2>1, <1>3, <1>6 DEF Entries
<1>8. Entries \ {t} \subseteq Entries'
  <2> SUFFICES ASSUME NEW i \in DOMAIN ready, ready[i] # t PROVE ready[i] \in Entries'
      BY DEF Entries
  <2>1. i - 1 \in 1 .. Len(ready') /\ ready'[i - 1] = ready[i]
      BY <1>1, <1>2, <1>3
  <2> QED
      BY <2>1, <1>2, <1>3 DEF Entries
<1> QED
    BY <1>2, <1>4, <1>5, <1>7, <1>8

\* Steps that leave the queue alone leave its entries alone.
LEMMA SameEntries ==
    ASSUME UNCHANGED ready
    PROVE  Entries' = Entries /\ EnqueuedOnce' = EnqueuedOnce
BY DEF Entries, EnqueuedOnce

-----------------------------------------------------------------------------
(* The slots *)

LEMMA CloneCount ==
    ASSUME NEW t
    PROVE  /\ IsFiniteSet(Clones(t))
           /\ Cardinality(Clones(t)) \in Nat
           /\ Cardinality(Clones(t)) = 0 <=> Clones(t) = {}
<1>1. Clones(t) \in SUBSET Waker
    BY DEF Clones
<1>2. IsFiniteSet(Clones(t))
    BY <1>1, WakerAssumption, FS_Subset
<1> QED
    BY <1>2, FS_CardinalityType, FS_EmptySet

\* A clone of a waker of t adds one slot to those of t.
LEMMA CloneTaken ==
    ASSUME NEW w \in Waker, NEW t \in Task, wtask \in [Waker -> Task \union {None}],
           wtask[w] = None, wtask' = [wtask EXCEPT ![w] = t]
    PROVE  \A s \in Task : Cardinality(Clones(s)') =
                Cardinality(Clones(s)) + (IF s = t THEN 1 ELSE 0)
<1> SUFFICES ASSUME NEW s \in Task
             PROVE  Cardinality(Clones(s)') =
                        Cardinality(Clones(s)) + (IF s = t THEN 1 ELSE 0)
    OBVIOUS
<1>1. CASE s = t
  <2>1. Clones(s)' = Clones(s) \union {w} /\ w \notin Clones(s)
      BY <1>1, NoneAssumption DEF Clones
  <2> QED
      BY <1>1, <2>1, CloneCount, FS_AddElement
<1>2. CASE s # t
  <2>1. Clones(s)' = Clones(s)
      BY <1>2, NoneAssumption DEF Clones
  <2> QED
      BY <1>2, <2>1, CloneCount
<1> QED
    BY <1>1, <1>2

\* The drop of a waker takes its slot away from those of its task.
LEMMA CloneFreed ==
    ASSUME NEW w \in Waker, wtask \in [Waker -> Task \union {None}],
           wtask[w] \in Task, wtask' = [wtask EXCEPT ![w] = None]
    PROVE  /\ \A s \in Task : Cardinality(Clones(s)') =
                  Cardinality(Clones(s)) - (IF s = wtask[w] THEN 1 ELSE 0)
           /\ Cardinality(Clones(wtask[w])) >= 1
<1>1. w \in Clones(wtask[w])
    BY DEF Clones
<1>2. Cardinality(Clones(wtask[w])) >= 1
    BY <1>1, CloneCount
<1>3. ASSUME NEW s \in Task
      PROVE  Cardinality(Clones(s)') =
                Cardinality(Clones(s)) - (IF s = wtask[w] THEN 1 ELSE 0)
  <2>1. CASE s = wtask[w]
    <3>1. Clones(s)' = Clones(s) \ {w}
        BY <2>1, NoneAssumption DEF Clones
    <3> QED
        BY <1>1, <2>1, <3>1, CloneCount, FS_RemoveElement
  <2>2. CASE s # wtask[w]
    <3>1. Clones(s)' = Clones(s)
        BY <2>2, NoneAssumption DEF Clones
    <3> QED
        BY <2>2, <3>1, CloneCount
  <2> QED
      BY <2>1, <2>2
<1> QED
    BY <1>2, <1>3

\* Steps that leave the slots alone leave clones and claims alone.
LEMMA SameSlots ==
    ASSUME UNCHANGED slots
    PROVE  \A t : Clones(t)' = Clones(t) /\ Claims(t)' = Claims(t)
BY DEF slots, Clones, Claims
-----------------------------------------------------------------------------
(* One lemma per action: IInv is inductive *)

\* A call of poll_next changes nothing but where the executor is.
LEMMA PollNextKeeps ==
    ASSUME IInv, NEW fresh \in BOOLEAN, PollNext(fresh)
    PROVE  IInv'
<1>1. UNCHANGED <<Entries, EnqueuedOnce>>
    BY SameEntries DEF PollNext, queueVars
<1>2. \A s : UNCHANGED <<Clones(s), Claims(s)>>
    BY SameSlots DEF PollNext
<1>3. TypeOK'
    BY <1>1, <1>2
       DEF IInv, TypeOK, ExecPc, Outcome, PollNext, queueVars, mem, exec,
        slots, history
<1>4. QueuedOnce'
    BY <1>1, <1>2
       DEF IInv, QueuedOnce, PollNext, queueVars, mem, exec, slots, history
<1>5. RefCount'
    BY <1>1, <1>2
       DEF IInv, RefCount, Owned, PollNext, queueVars, mem, exec, slots,
        history
<1>6. Shape'
    BY <1>1, <1>2
       DEF IInv, Shape, TypeOK, PollNext, queueVars, mem, exec, slots, history
<1>7. Flags'
    BY <1>1, <1>2
       DEF IInv, Flags, TypeOK, PollNext, queueVars, mem, exec, slots, history
<1>8. Wakes'
    BY <1>1, <1>2
       DEF IInv, Wakes, PollNext, queueVars, mem, exec, slots, history
<1>9. Links'
    BY <1>1, <1>2
       DEF IInv, Links, PollNext, queueVars, mem, exec, slots, history
<1>10. NoAbortInDrop'
    BY <1>1, <1>2
       DEF IInv, NoAbortInDrop, PollNext, queueVars, mem, exec, slots, history
<1>11. NothingLeftInQueue'
    BY <1>1, <1>2
       DEF IInv, NothingLeftInQueue, Upgraded, PoolGone, PollNext, queueVars,
        mem, exec, slots, history
<1> QED
    BY <1>3, <1>4, <1>5, <1>6, <1>7, <1>8, <1>9, <1>10, <1>11 DEF IInv

\* The start of clear and drop.
LEMMA ClearHeadAllKeeps ==
    ASSUME IInv, Clear \/ Drop
    PROVE  IInv'
<1>1. UNCHANGED <<Entries, EnqueuedOnce>>
    BY SameEntries DEF Clear, Drop, ClearHeadAll, queueVars
<1>2. \A s : UNCHANGED <<Clones(s), Claims(s)>>
    BY SameSlots DEF Clear, Drop, ClearHeadAll
<1>3. TypeOK'
    BY <1>1, <1>2
       DEF IInv, TypeOK, ExecPc, Outcome, Clear, Drop, ClearHeadAll,
        queueVars, mem, exec, slots, history
<1>4. QueuedOnce'
    BY <1>1, <1>2
       DEF IInv, QueuedOnce, Clear, Drop, ClearHeadAll, queueVars, mem, exec,
        slots, history
<1>5. RefCount'
    BY <1>1, <1>2
       DEF IInv, RefCount, Owned, Clear, Drop, ClearHeadAll, queueVars, mem,
        exec, slots, history
<1>6. Shape'
    BY <1>1, <1>2
       DEF IInv, Shape, TypeOK, Clear, Drop, ClearHeadAll, queueVars, mem,
        exec, slots, history
<1>7. Flags'
    BY <1>1, <1>2
       DEF IInv, Flags, TypeOK, Clear, Drop, ClearHeadAll, queueVars, mem,
        exec, slots, history
<1>8. Wakes'
    BY <1>1, <1>2
       DEF IInv, Wakes, Clear, Drop, ClearHeadAll, queueVars, mem, exec,
        slots, history
<1>9. Links'
    BY <1>1, <1>2
       DEF IInv, Links, Clear, Drop, ClearHeadAll, queueVars, mem, exec,
        slots, history
<1>10. NoAbortInDrop'
    BY <1>1, <1>2
       DEF IInv, NoAbortInDrop, Clear, Drop, ClearHeadAll, queueVars, mem,
        exec, slots, history
<1>11. NothingLeftInQueue'
    BY <1>1, <1>2
       DEF IInv, NothingLeftInQueue, Upgraded, PoolGone, Clear, Drop,
        ClearHeadAll, queueVars, mem, exec, slots, history
<1> QED
    BY <1>3, <1>4, <1>5, <1>6, <1>7, <1>8, <1>9, <1>10, <1>11 DEF IInv

\* The second half of clear.
LEMMA StartDrainKeeps ==
    ASSUME IInv, StartDrain
    PROVE  IInv'
<1>1. UNCHANGED <<Entries, EnqueuedOnce>>
    BY SameEntries DEF StartDrain, queueVars
<1>2. \A s : UNCHANGED <<Clones(s), Claims(s)>>
    BY SameSlots DEF StartDrain
<1>3. TypeOK'
    BY <1>1, <1>2
       DEF IInv, TypeOK, ExecPc, Outcome, StartDrain, queueVars, mem, exec,
        slots, history
<1>4. QueuedOnce'
    BY <1>1, <1>2
       DEF IInv, QueuedOnce, StartDrain, queueVars, mem, exec, slots, history
<1>5. RefCount'
    BY <1>1, <1>2
       DEF IInv, RefCount, Owned, StartDrain, queueVars, mem, exec, slots,
        history
<1>6. Shape'
    BY <1>1, <1>2
       DEF IInv, Shape, TypeOK, StartDrain, queueVars, mem, exec, slots,
        history
<1>7. Flags'
    BY <1>1, <1>2
       DEF IInv, Flags, TypeOK, StartDrain, queueVars, mem, exec, slots,
        history
<1>8. Wakes'
    BY <1>1, <1>2
       DEF IInv, Wakes, StartDrain, queueVars, mem, exec, slots, history
<1>9. Links'
    BY <1>1, <1>2
       DEF IInv, Links, StartDrain, queueVars, mem, exec, slots, history
<1>10. NoAbortInDrop'
    BY <1>1, <1>2
       DEF IInv, NoAbortInDrop, StartDrain, queueVars, mem, exec, slots,
        history
<1>11. NothingLeftInQueue'
    BY <1>1, <1>2
       DEF IInv, NothingLeftInQueue, Upgraded, PoolGone, StartDrain,
        queueVars, mem, exec, slots, history
<1> QED
    BY <1>3, <1>4, <1>5, <1>6, <1>7, <1>8, <1>9, <1>10, <1>11 DEF IInv

\* clear() finds the queue empty, or aborts.
LEMMA DrainEndKeeps ==
    ASSUME IInv, DrainEmpty \/ DrainInconsistent
    PROVE  IInv'
<1>1. UNCHANGED <<Entries, EnqueuedOnce>>
    BY SameEntries DEF DrainEmpty, DrainInconsistent, queueVars
<1>2. \A s : UNCHANGED <<Clones(s), Claims(s)>>
    BY SameSlots DEF DrainEmpty, DrainInconsistent
<1>3. TypeOK'
    BY <1>1, <1>2
       DEF IInv, TypeOK, ExecPc, Outcome, DrainEmpty, DrainInconsistent,
        queueVars, mem, exec, slots, history
<1>4. QueuedOnce'
    BY <1>1, <1>2
       DEF IInv, QueuedOnce, DrainEmpty, DrainInconsistent, queueVars, mem,
        exec, slots, history
<1>5. RefCount'
    BY <1>1, <1>2
       DEF IInv, RefCount, Owned, DrainEmpty, DrainInconsistent, queueVars,
        mem, exec, slots, history
<1>6. Shape'
    BY <1>1, <1>2
       DEF IInv, Shape, TypeOK, DrainEmpty, DrainInconsistent, queueVars, mem,
        exec, slots, history
<1>7. Flags'
    BY <1>1, <1>2
       DEF IInv, Flags, TypeOK, DrainEmpty, DrainInconsistent, queueVars, mem,
        exec, slots, history
<1>8. Wakes'
    BY <1>1, <1>2
       DEF IInv, Wakes, DrainEmpty, DrainInconsistent, queueVars, mem, exec,
        slots, history
<1>9. Links'
    BY <1>1, <1>2
       DEF IInv, Links, DrainEmpty, DrainInconsistent, queueVars, mem, exec,
        slots, history
<1>10. NoAbortInDrop'
    BY <1>1, <1>2
       DEF IInv, NoAbortInDrop, DrainEmpty, DrainInconsistent, queueVars, mem,
        exec, slots, history
<1>11. NothingLeftInQueue'
    BY <1>1, <1>2
       DEF IInv, NothingLeftInQueue, Upgraded, PoolGone, DrainEmpty,
        DrainInconsistent, queueVars, mem, exec, slots, history
<1> QED
    BY <1>3, <1>4, <1>5, <1>6, <1>7, <1>8, <1>9, <1>10, <1>11 DEF IInv

\* poll_next finds nothing to take.
LEMMA DequeueNothingKeeps ==
    ASSUME IInv, DequeueEmpty \/ DequeueInconsistent
    PROVE  IInv'
<1>1. UNCHANGED <<Entries, EnqueuedOnce>>
    BY SameEntries DEF DequeueEmpty, DequeueInconsistent, Return, queueVars
<1>2. \A s : UNCHANGED <<Clones(s), Claims(s)>>
    BY SameSlots DEF DequeueEmpty, DequeueInconsistent, Return
<1>3. TypeOK'
    BY <1>1, <1>2
       DEF IInv, TypeOK, ExecPc, Outcome, DequeueEmpty, DequeueInconsistent,
        Return, queueVars, mem, exec, slots, history
<1>4. QueuedOnce'
    BY <1>1, <1>2
       DEF IInv, QueuedOnce, DequeueEmpty, DequeueInconsistent, Return,
        queueVars, mem, exec, slots, history
<1>5. RefCount'
    BY <1>1, <1>2
       DEF IInv, RefCount, Owned, DequeueEmpty, DequeueInconsistent, Return,
        queueVars, mem, exec, slots, history
<1>6. Shape'
    BY <1>1, <1>2
       DEF IInv, Shape, TypeOK, DequeueEmpty, DequeueInconsistent, Return,
        queueVars, mem, exec, slots, history
<1>7. Flags'
    BY <1>1, <1>2
       DEF IInv, Flags, TypeOK, DequeueEmpty, DequeueInconsistent, Return,
        queueVars, mem, exec, slots, history
<1>8. Wakes'
    BY <1>1, <1>2
       DEF IInv, Wakes, DequeueEmpty, DequeueInconsistent, Return, queueVars,
        mem, exec, slots, history
<1>9. Links'
    BY <1>1, <1>2
       DEF IInv, Links, DequeueEmpty, DequeueInconsistent, Return, queueVars,
        mem, exec, slots, history
<1>10. NoAbortInDrop'
    BY <1>1, <1>2
       DEF IInv, NoAbortInDrop, DequeueEmpty, DequeueInconsistent, Return,
        queueVars, mem, exec, slots, history
<1>11. NothingLeftInQueue'
    BY <1>1, <1>2
       DEF IInv, NothingLeftInQueue, Upgraded, PoolGone, DequeueEmpty,
        DequeueInconsistent, Return, queueVars, mem, exec, slots, history
<1> QED
    BY <1>3, <1>4, <1>5, <1>6, <1>7, <1>8, <1>9, <1>10, <1>11 DEF IInv

\* A new task is nobody's: not queued, not woken, without wakers.
LEMMA PushKeeps ==
    ASSUME IInv, NEW t \in Task, Push(t)
    PROVE  IInv'
<1>1. /\ ready' \in Seq(Task)
      /\ Entries' = Entries \union {t}
      /\ t \notin Entries => EnqueuedOnce'
    BY AppendEntry DEF IInv, TypeOK, QueuedOnce, Enqueue, Push
<1>2. \A s : UNCHANGED <<Clones(s), Claims(s)>>
    BY SameSlots DEF Push
<1>3. Clones(t) = {} /\ t \notin Entries /\ t \notin live /\ t # cur
    BY CloneCount DEF Push, IInv, TypeOK, RefCount, Owned, Shape
<1>4. \A w \in Waker : wtask[w] # t
    BY <1>3 DEF Clones
<1>5. \A s \in Task : Owned(s)' <=> (s = t \/ Owned(s))
    BY <1>1, <1>2, <1>3, <1>4 DEF Owned, Push, exec, Claims, Clones
<1>6. Cardinality(Clones(t)) = 0 /\ ~Owned(t)
    BY <1>1, <1>3, <1>4, CloneCount DEF Owned, IInv, Shape, Claims, Clones
<1>7. TypeOK'
    BY <1>1, <1>2, <1>3, <1>4, <1>5, <1>6
       DEF IInv, TypeOK, ExecPc, Outcome, Push, Enqueue, queueVars, mem, exec,
        slots, history
<1>8. QueuedOnce'
    BY <1>1, <1>2, <1>3, <1>4, <1>5, <1>6
       DEF IInv, QueuedOnce, Push, Enqueue, queueVars, mem, exec, slots,
        history
<1>9. RefCount'
  <2> SUFFICES ASSUME NEW s \in Task
               PROVE  arc'[s] = Cardinality(Clones(s)') + (IF Owned(s)' THEN 1 ELSE 0)
      BY DEF RefCount
  <2>1. Cardinality(Clones(s)') = Cardinality(Clones(s))
      BY <1>2
  <2>2. CASE s = t
      BY <1>5, <1>6, <2>1, <2>2 DEF Push, IInv, TypeOK
  <2>3. CASE s # t
      BY <1>5, <2>1, <2>3 DEF Push, IInv, TypeOK, RefCount
  <2> QED
      BY <2>2, <2>3
<1>10. Shape'
    BY <1>1, <1>2, <1>3, <1>4, <1>5, <1>6
       DEF IInv, Shape, TypeOK, Push, Enqueue, queueVars, mem, exec, slots,
        history
<1>11. Flags'
    BY <1>1, <1>2, <1>3, <1>4, <1>5, <1>6
       DEF IInv, Flags, TypeOK, Push, Enqueue, queueVars, mem, exec, slots,
        history
<1>12. Wakes'
    BY <1>1, <1>2, <1>3, <1>4, <1>5, <1>6
       DEF IInv, Wakes, Push, Enqueue, queueVars, mem, exec, slots, history
<1>13. Links'
    BY <1>1, <1>2, <1>3, <1>4, <1>5, <1>6
       DEF IInv, Links, Push, Enqueue, queueVars, mem, exec, slots, history
<1>14. NoAbortInDrop'
    BY <1>1, <1>2, <1>3, <1>4, <1>5, <1>6
       DEF IInv, NoAbortInDrop, Push, Enqueue, queueVars, mem, exec, slots,
        history
<1>15. NothingLeftInQueue'
    BY <1>1, <1>2, <1>3, <1>4, <1>5, <1>6
       DEF IInv, NothingLeftInQueue, Upgraded, PoolGone, Push, Enqueue,
        queueVars, mem, exec, slots, history
<1> QED
    BY <1>7, <1>8, <1>9, <1>10, <1>11, <1>12, <1>13, <1>14, <1>15
       DEF IInv

\* clear_head_all releases one task.
LEMMA ReleaseOneKeeps ==
    ASSUME IInv, NEW t \in Task, ReleaseOne(t)
    PROVE  IInv'
<1>1. UNCHANGED <<Entries, EnqueuedOnce>>
    BY SameEntries DEF ReleaseOne, queueVars
<1>2. \A s : UNCHANGED <<Clones(s), Claims(s)>>
    BY SameSlots DEF ReleaseOne
<1>3. \A s : Cardinality(Clones(s)) \in Nat
    BY CloneCount
<1>4. t \in live /\ arc[t] \in Nat /\ arc[t] >= 1 /\ t # cur
    BY <1>3 DEF ReleaseOne, IInv, TypeOK, RefCount, Owned, Shape
<1>5. t \in queued => t \in Entries \/ Claims(t) # {}
    BY <1>4 DEF IInv, Flags
<1>6. t \notin queued => t \notin Entries /\ Claims(t) = {}
    BY DEF IInv, QueuedOnce, Flags, Claims, Clones
<1>7. TypeOK'
    BY <1>1, <1>2, <1>3, <1>4, <1>5, <1>6
       DEF IInv, TypeOK, ExecPc, Outcome, ReleaseOne, ReleaseTask, Drop1,
        queueVars, mem, exec, slots, history
<1>8. QueuedOnce'
    BY <1>1, <1>2, <1>3, <1>4, <1>5, <1>6
       DEF IInv, QueuedOnce, ReleaseOne, ReleaseTask, Drop1, queueVars, mem,
        exec, slots, history
<1>9. RefCount'
    BY <1>1, <1>2, <1>3, <1>4, <1>5, <1>6
       DEF IInv, RefCount, Owned, TypeOK, Shape, ReleaseOne, ReleaseTask,
        Drop1, queueVars, mem, exec, slots, history
<1>10. Shape'
    BY <1>1, <1>2, <1>3, <1>4, <1>5, <1>6
       DEF IInv, Shape, TypeOK, ReleaseOne, ReleaseTask, Drop1, queueVars,
        mem, exec, slots, history
<1>11. Flags'
    BY <1>1, <1>2, <1>3, <1>4, <1>5, <1>6
       DEF IInv, Flags, TypeOK, ReleaseOne, ReleaseTask, Drop1, queueVars,
        mem, exec, slots, history
<1>12. Wakes'
    BY <1>1, <1>2, <1>3, <1>4, <1>5, <1>6
       DEF IInv, Wakes, ReleaseOne, ReleaseTask, Drop1, queueVars, mem, exec,
        slots, history
<1>13. Links'
    BY <1>1, <1>2, <1>3, <1>4, <1>5, <1>6
       DEF IInv, Links, ReleaseOne, ReleaseTask, Drop1, queueVars, mem, exec,
        slots, history
<1>14. NoAbortInDrop'
    BY <1>1, <1>2, <1>3, <1>4, <1>5, <1>6
       DEF IInv, NoAbortInDrop, ReleaseOne, ReleaseTask, Drop1, queueVars,
        mem, exec, slots, history
<1>15. NothingLeftInQueue'
    BY <1>1, <1>2, <1>3, <1>4, <1>5, <1>6
       DEF IInv, NothingLeftInQueue, Upgraded, PoolGone, ReleaseOne,
        ReleaseTask, Drop1, queueVars, mem, exec, slots, history
<1> QED
    BY <1>7, <1>8, <1>9, <1>10, <1>11, <1>12, <1>13, <1>14, <1>15
       DEF IInv

\* clear() takes a released task out of the queue.
LEMMA DrainDataKeeps ==
    ASSUME IInv, NEW t \in Task, DrainData(t)
    PROVE  IInv'
<1>1. /\ ready' \in Seq(Task)
      /\ t \in Entries
      /\ Entries' = Entries \ {t}
      /\ EnqueuedOnce'
    BY TailEntry DEF IInv, TypeOK, QueuedOnce, DrainData
<1>2. \A s : UNCHANGED <<Clones(s), Claims(s)>>
    BY SameSlots DEF DrainData
<1>3. \A s : Cardinality(Clones(s)) \in Nat
    BY CloneCount
<1>4. t \notin live
    BY NoneAssumption DEF DrainData, IInv, Shape, TypeOK
<1>5. Claims(t) = {} /\ t \notin linked /\ t # cur
    BY <1>1, <1>4 DEF IInv, QueuedOnce, Shape, TypeOK, Claims, Clones
<1>6. arc[t] \in Nat /\ arc[t] >= 1
    BY <1>1, <1>3, <1>4 DEF IInv, TypeOK, RefCount, Owned
<1>7. TypeOK'
    BY <1>1, <1>2, <1>3, <1>4, <1>5, <1>6
       DEF IInv, TypeOK, ExecPc, Outcome, DrainData, DequeueData, Drop1,
        queueVars, mem, exec, slots, history
<1>8. QueuedOnce'
    BY <1>1, <1>2, <1>3, <1>4, <1>5, <1>6
       DEF IInv, QueuedOnce, DrainData, DequeueData, Drop1, queueVars, mem,
        exec, slots, history
<1>9. RefCount'
    BY <1>1, <1>2, <1>3, <1>4, <1>5, <1>6
       DEF IInv, RefCount, Owned, TypeOK, DrainData, DequeueData, Drop1,
        queueVars, mem, exec, slots, history
<1>10. Shape'
    BY <1>1, <1>2, <1>3, <1>4, <1>5, <1>6
       DEF IInv, Shape, TypeOK, DrainData, DequeueData, Drop1, queueVars, mem,
        exec, slots, history
<1>11. Flags'
    BY <1>1, <1>2, <1>3, <1>4, <1>5, <1>6
       DEF IInv, Flags, TypeOK, DrainData, DequeueData, Drop1, queueVars, mem,
        exec, slots, history
<1>12. Wakes'
    BY <1>1, <1>2, <1>3, <1>4, <1>5, <1>6
       DEF IInv, Wakes, DrainData, DequeueData, Drop1, queueVars, mem, exec,
        slots, history
<1>13. Links'
    BY <1>1, <1>2, <1>3, <1>4, <1>5, <1>6
       DEF IInv, Links, DrainData, DequeueData, Drop1, queueVars, mem, exec,
        slots, history
<1>14. NoAbortInDrop'
    BY <1>1, <1>2, <1>3, <1>4, <1>5, <1>6
       DEF IInv, NoAbortInDrop, DrainData, DequeueData, Drop1, queueVars, mem,
        exec, slots, history
<1>15. NothingLeftInQueue'
    BY <1>1, <1>2, <1>3, <1>4, <1>5, <1>6
       DEF IInv, NothingLeftInQueue, Upgraded, PoolGone, DrainData,
        DequeueData, Drop1, queueVars, mem, exec, slots, history
<1> QED
    BY <1>7, <1>8, <1>9, <1>10, <1>11, <1>12, <1>13, <1>14, <1>15
       DEF IInv

\* poll_next takes a released task out of the queue.
LEMMA DequeueReleasedKeeps ==
    ASSUME IInv, NEW t \in Task, DequeueReleased(t)
    PROVE  IInv'
<1>1. /\ ready' \in Seq(Task)
      /\ t \in Entries
      /\ Entries' = Entries \ {t}
      /\ EnqueuedOnce'
    BY TailEntry DEF IInv, TypeOK, QueuedOnce, DequeueReleased
<1>2. \A s : UNCHANGED <<Clones(s), Claims(s)>>
    BY SameSlots DEF DequeueReleased
<1>3. \A s : Cardinality(Clones(s)) \in Nat
    BY CloneCount
<1>4. t \notin live
    BY NoneAssumption DEF DequeueReleased, IInv, Shape, TypeOK
<1>5. Claims(t) = {} /\ t \notin linked /\ t # cur
    BY <1>1, <1>4 DEF IInv, QueuedOnce, Shape, TypeOK, Claims, Clones
<1>6. arc[t] \in Nat /\ arc[t] >= 1
    BY <1>1, <1>3, <1>4 DEF IInv, TypeOK, RefCount, Owned
<1>7. TypeOK'
    BY <1>1, <1>2, <1>3, <1>4, <1>5, <1>6
       DEF IInv, TypeOK, ExecPc, Outcome, DequeueReleased, DequeueData, Drop1,
        queueVars, mem, exec, slots, history
<1>8. QueuedOnce'
    BY <1>1, <1>2, <1>3, <1>4, <1>5, <1>6
       DEF IInv, QueuedOnce, DequeueReleased, DequeueData, Drop1, queueVars,
        mem, exec, slots, history
<1>9. RefCount'
    BY <1>1, <1>2, <1>3, <1>4, <1>5, <1>6
       DEF IInv, RefCount, Owned, TypeOK, DequeueReleased, DequeueData, Drop1,
        queueVars, mem, exec, slots, history
<1>10. Shape'
    BY <1>1, <1>2, <1>3, <1>4, <1>5, <1>6
       DEF IInv, Shape, TypeOK, DequeueReleased, DequeueData, Drop1,
        queueVars, mem, exec, slots, history
<1>11. Flags'
    BY <1>1, <1>2, <1>3, <1>4, <1>5, <1>6
       DEF IInv, Flags, TypeOK, DequeueReleased, DequeueData, Drop1,
        queueVars, mem, exec, slots, history
<1>12. Wakes'
    BY <1>1, <1>2, <1>3, <1>4, <1>5, <1>6
       DEF IInv, Wakes, DequeueReleased, DequeueData, Drop1, queueVars, mem,
        exec, slots, history
<1>13. Links'
    BY <1>1, <1>2, <1>3, <1>4, <1>5, <1>6
       DEF IInv, Links, DequeueReleased, DequeueData, Drop1, queueVars, mem,
        exec, slots, history
<1>14. NoAbortInDrop'
    BY <1>1, <1>2, <1>3, <1>4, <1>5, <1>6
       DEF IInv, NoAbortInDrop, DequeueReleased, DequeueData, Drop1,
        queueVars, mem, exec, slots, history
<1>15. NothingLeftInQueue'
    BY <1>1, <1>2, <1>3, <1>4, <1>5, <1>6
       DEF IInv, NothingLeftInQueue, Upgraded, PoolGone, DequeueReleased,
        DequeueData, Drop1, queueVars, mem, exec, slots, history
<1> QED
    BY <1>7, <1>8, <1>9, <1>10, <1>11, <1>12, <1>13, <1>14, <1>15
       DEF IInv

\* poll_next takes a polled task to put it back.
LEMMA DequeuePolledKeeps ==
    ASSUME IInv, NEW t \in Task, DequeuePolled(t)
    PROVE  IInv'
<1>1. /\ ready' \in Seq(Task)
      /\ t \in Entries
      /\ Entries' = Entries \ {t}
      /\ EnqueuedOnce'
    BY TailEntry DEF IInv, TypeOK, QueuedOnce, DequeuePolled, TakeTask
<1>2. \A s : UNCHANGED <<Clones(s), Claims(s)>>
    BY SameSlots DEF DequeuePolled
<1>3. t \in live /\ t \in queued /\ t \in linked /\ cur = None
    BY NoneAssumption DEF DequeuePolled, TakeTask, IInv, Shape, TypeOK
<1>4. Claims(t) = {}
    BY <1>1 DEF IInv, QueuedOnce, Claims, Clones
<1>5. \A s \in Task : Owned(s)' <=> Owned(s)
    BY <1>1, <1>2, <1>3, NoneAssumption DEF Owned, DequeuePolled, TakeTask
<1>6. TypeOK'
    BY <1>1, <1>3, NoneAssumption
       DEF IInv, TypeOK, ExecPc, Outcome, DequeuePolled, TakeTask,
        DequeueData, queueVars, mem, exec, slots, history
<1>7. QueuedOnce'
    BY <1>1, <1>2, <1>3, <1>4, <1>5
       DEF IInv, QueuedOnce, DequeuePolled, TakeTask, DequeueData, queueVars,
        mem, exec, slots, history
<1>8. RefCount'
    BY <1>2, <1>5
       DEF IInv, RefCount, DequeuePolled, TakeTask, DequeueData, queueVars,
        mem, exec, slots, history
<1>9. Shape'
    BY <1>1, <1>2, <1>3, NoneAssumption
       DEF IInv, Shape, TypeOK, DequeuePolled, TakeTask, DequeueData,
        queueVars, mem, exec, slots, history
<1>10. Flags'
    BY <1>1, <1>2, <1>3, <1>4, <1>5
       DEF IInv, Flags, TypeOK, Claims, Clones, DequeuePolled, TakeTask,
        DequeueData, queueVars, mem, exec, slots, history
<1>11. Wakes'
    BY <1>1, <1>2, <1>3, <1>4, <1>5
       DEF IInv, Wakes, DequeuePolled, TakeTask, DequeueData, queueVars, mem,
        exec, slots, history
<1>12. Links'
    BY <1>1, <1>2, <1>3, <1>4, <1>5
       DEF IInv, Links, DequeuePolled, TakeTask, DequeueData, queueVars, mem,
        exec, slots, history
<1>13. NoAbortInDrop'
    BY <1>1, <1>2, <1>3, <1>4, <1>5
       DEF IInv, NoAbortInDrop, DequeuePolled, TakeTask, DequeueData,
        queueVars, mem, exec, slots, history
<1>14. NothingLeftInQueue'
    BY <1>1, <1>2, <1>3, <1>4, <1>5
       DEF IInv, NothingLeftInQueue, Upgraded, PoolGone, DequeuePolled,
        TakeTask, DequeueData, queueVars, mem, exec, slots, history
<1> QED
    BY <1>6, <1>7, <1>8, <1>9, <1>10, <1>11, <1>12, <1>13, <1>14
       DEF IInv

\* poll_next takes a task to poll it.
LEMMA DequeueUnpolledKeeps ==
    ASSUME IInv, NEW t \in Task, DequeueUnpolled(t)
    PROVE  IInv'
<1>1. /\ ready' \in Seq(Task)
      /\ t \in Entries
      /\ Entries' = Entries \ {t}
      /\ EnqueuedOnce'
    BY TailEntry DEF IInv, TypeOK, QueuedOnce, DequeueUnpolled, TakeTask
<1>2. \A s : UNCHANGED <<Clones(s), Claims(s)>>
    BY SameSlots DEF DequeueUnpolled
<1>3. t \in live /\ t \in queued /\ t \in linked /\ cur = None
    BY NoneAssumption DEF DequeueUnpolled, TakeTask, IInv, Shape, TypeOK
<1>4. Claims(t) = {}
    BY <1>1 DEF IInv, QueuedOnce, Claims, Clones
<1>5. \A s \in Task : Owned(s)' <=> Owned(s)
    BY <1>1, <1>2, <1>3, NoneAssumption DEF Owned, DequeueUnpolled, TakeTask
<1>6. TypeOK'
    BY <1>1, <1>3, NoneAssumption
       DEF IInv, TypeOK, ExecPc, Outcome, DequeueUnpolled, TakeTask,
        DequeueData, queueVars, mem, exec, slots, history
<1>7. QueuedOnce'
    BY <1>1, <1>2, <1>3, <1>4, <1>5
       DEF IInv, QueuedOnce, DequeueUnpolled, TakeTask, DequeueData,
        queueVars, mem, exec, slots, history
<1>8. RefCount'
    BY <1>2, <1>5
       DEF IInv, RefCount, DequeueUnpolled, TakeTask, DequeueData, queueVars,
        mem, exec, slots, history
<1>9. Shape'
    BY <1>1, <1>2, <1>3, NoneAssumption
       DEF IInv, Shape, TypeOK, DequeueUnpolled, TakeTask, DequeueData,
        queueVars, mem, exec, slots, history
<1>10. Flags'
    BY <1>1, <1>2, <1>3, <1>4, <1>5
       DEF IInv, Flags, TypeOK, Claims, Clones, DequeueUnpolled, TakeTask,
        DequeueData, queueVars, mem, exec, slots, history
<1>11. Wakes'
    BY <1>1, <1>2, <1>3, <1>4, <1>5
       DEF IInv, Wakes, DequeueUnpolled, TakeTask, DequeueData, queueVars,
        mem, exec, slots, history
<1>12. Links'
    BY <1>1, <1>2, <1>3, <1>4, <1>5
       DEF IInv, Links, DequeueUnpolled, TakeTask, DequeueData, queueVars,
        mem, exec, slots, history
<1>13. NoAbortInDrop'
    BY <1>1, <1>2, <1>3, <1>4, <1>5
       DEF IInv, NoAbortInDrop, DequeueUnpolled, TakeTask, DequeueData,
        queueVars, mem, exec, slots, history
<1>14. NothingLeftInQueue'
    BY <1>1, <1>2, <1>3, <1>4, <1>5
       DEF IInv, NothingLeftInQueue, Upgraded, PoolGone, DequeueUnpolled,
        TakeTask, DequeueData, queueVars, mem, exec, slots, history
<1> QED
    BY <1>6, <1>7, <1>8, <1>9, <1>10, <1>11, <1>12, <1>13, <1>14
       DEF IInv

\* poll_next puts a polled task back.
LEMMA RequeueKeeps ==
    ASSUME IInv, Requeue
    PROVE  IInv'
<1>1. cur \in Task /\ cur \notin queued /\ cur \notin linked /\ cur \in live
    BY NoneAssumption DEF Requeue, PutBack, IInv, TypeOK, Shape, Flags
<1>2. /\ ready' \in Seq(Task)
      /\ Entries' = Entries \union {cur}
      /\ cur \notin Entries => EnqueuedOnce'
    BY <1>1, AppendEntry DEF IInv, TypeOK, QueuedOnce, Enqueue, Requeue
<1>3. cur \notin Entries
    BY <1>1 DEF IInv, QueuedOnce
<1>4. \A s : UNCHANGED <<Clones(s), Claims(s)>>
    BY SameSlots DEF Requeue, PutBack
<1>5. Claims(cur) = {}
    BY <1>1 DEF Requeue, PutBack, IInv, Flags, Claims, Clones
<1>6. \A s \in Task : Owned(s)' <=> Owned(s)
    BY <1>1, <1>2, <1>4, NoneAssumption DEF Owned, Requeue, PutBack
<1>7. TypeOK'
    BY <1>1, <1>2, <1>3, <1>4, <1>5, <1>6
       DEF IInv, TypeOK, ExecPc, Outcome, Requeue, PutBack, GoOn, Return,
        Enqueue, queueVars, mem, exec, slots, history
<1>8. QueuedOnce'
    BY <1>1, <1>2, <1>3, <1>4, <1>5, <1>6
       DEF IInv, QueuedOnce, Requeue, PutBack, GoOn, Return, Enqueue,
        queueVars, mem, exec, slots, history
<1>9. RefCount'
    BY <1>4, <1>6
       DEF IInv, RefCount, Requeue, PutBack, GoOn, Return, Enqueue, queueVars,
        mem, exec, slots, history
<1>10. Shape'
    BY <1>1, NoneAssumption
       DEF IInv, Shape, TypeOK, Requeue, PutBack, GoOn, Return, Enqueue,
        queueVars, mem, exec, slots, history
<1>11. Flags'
    BY <1>1, <1>2, <1>3, <1>4, <1>5, <1>6
       DEF IInv, Flags, TypeOK, Requeue, PutBack, GoOn, Return, Enqueue,
        queueVars, mem, exec, slots, history
<1>12. Wakes'
    BY <1>1, <1>2, <1>3, <1>4, <1>5, <1>6
       DEF IInv, Wakes, Requeue, PutBack, GoOn, Return, Enqueue, queueVars,
        mem, exec, slots, history
<1>13. Links'
    BY <1>1, <1>2, <1>3, <1>4, <1>5, <1>6
       DEF IInv, Links, Requeue, PutBack, GoOn, Return, Enqueue, queueVars,
        mem, exec, slots, history
<1>14. NoAbortInDrop'
    BY <1>1, <1>2, <1>3, <1>4, <1>5, <1>6
       DEF IInv, NoAbortInDrop, Requeue, PutBack, GoOn, Return, Enqueue,
        queueVars, mem, exec, slots, history
<1>15. NothingLeftInQueue'
    BY <1>1, <1>2, <1>3, <1>4, <1>5, <1>6
       DEF IInv, NothingLeftInQueue, Upgraded, PoolGone, Requeue, PutBack,
        GoOn, Return, Enqueue, queueVars, mem, exec, slots, history
<1> QED
    BY <1>7, <1>8, <1>9, <1>10, <1>11, <1>12, <1>13, <1>14, <1>15
       DEF IInv

\* The future under poll hands out its one wake-up.
LEMMA CloneWakerKeeps ==
    ASSUME IInv, NEW w \in Waker, CloneWaker(w)
    PROVE  IInv'
<1>1. UNCHANGED <<Entries, EnqueuedOnce>>
    BY SameEntries DEF CloneWaker, queueVars
<1>2. cur \in Task /\ wtask[w] = None /\ cur \in live
    BY NoneAssumption DEF CloneWaker, IInv, TypeOK, Shape
<1>3. \A s \in Task : Cardinality(Clones(s)') =
                         Cardinality(Clones(s)) + (IF s = cur THEN 1 ELSE 0)
    BY <1>2, CloneTaken DEF CloneWaker, IInv, TypeOK
<1>4. \A s : Cardinality(Clones(s)) \in Nat
    BY CloneCount
<1>5. \A s \in Task : Claims(s)' = Claims(s)
    BY <1>2, NoneAssumption
       DEF CloneWaker, Claims, Clones, IInv, TypeOK, SlotPc
<1>6. \A s \in Task : Owned(s)' <=> Owned(s)
    BY <1>1, <1>5 DEF Owned, CloneWaker
<1>7. TypeOK'
    BY <1>1, <1>2, <1>3, <1>4, <1>5, <1>6
       DEF IInv, TypeOK, ExecPc, Outcome, SlotPc, CloneWaker, queueVars, mem,
        exec, slots, history
<1>8. QueuedOnce'
    BY <1>1, <1>2, <1>3, <1>4, <1>5, <1>6
       DEF IInv, QueuedOnce, TypeOK, SlotPc, CloneWaker, queueVars, mem, exec,
        slots, history
<1>9. RefCount'
    BY <1>2, <1>3, <1>4, <1>6
       DEF IInv, RefCount, TypeOK, CloneWaker, queueVars, mem, exec, slots,
        history
<1>10. Shape'
    BY <1>1, <1>2, <1>3, <1>4, <1>5, <1>6
       DEF IInv, Shape, TypeOK, CloneWaker, queueVars, mem, exec, slots,
        history
<1>11. Flags'
    BY <1>1, <1>2, <1>3, <1>4, <1>5, <1>6
       DEF IInv, Flags, TypeOK, CloneWaker, queueVars, mem, exec, slots,
        history
<1>12. Wakes'
    BY <1>1, <1>2, <1>3, <1>4, <1>5, <1>6
       DEF IInv, Wakes, CloneWaker, queueVars, mem, exec, slots, history
<1>13. Links'
    BY <1>1, <1>2, <1>3, <1>4, <1>5, <1>6
       DEF IInv, Links, CloneWaker, queueVars, mem, exec, slots, history
<1>14. NoAbortInDrop'
    BY <1>1, <1>2, <1>3, <1>4, <1>5, <1>6
       DEF IInv, NoAbortInDrop, CloneWaker, queueVars, mem, exec, slots,
        history
<1>15. NothingLeftInQueue'
    BY <1>1, <1>2, <1>3, <1>4, <1>5, <1>6
       DEF IInv, NothingLeftInQueue, Upgraded, PoolGone, CloneWaker,
        queueVars, mem, exec, slots, history
<1> QED
    BY <1>7, <1>8, <1>9, <1>10, <1>11, <1>12, <1>13, <1>14, <1>15
       DEF IInv

\* The future under poll wakes itself.
LEMMA WakeSelfKeeps ==
    ASSUME IInv, WakeSelf
    PROVE  IInv'
<1>1. cur \in Task /\ cur \in live /\ cur \notin linked
    BY NoneAssumption DEF WakeSelf, IInv, TypeOK, Shape
<1>2. \A s : UNCHANGED <<Clones(s), Claims(s)>>
    BY SameSlots DEF WakeSelf
<1>3. cur \notin queued => Claims(cur) = {} /\ cur \notin Entries
    BY DEF IInv, QueuedOnce, Flags, Claims, Clones
<1>4. CASE cur \in queued
  <2>1. UNCHANGED <<queued, Entries, EnqueuedOnce>>
      BY <1>4, SameEntries DEF WakeSelf, queueVars
  <2>2. TypeOK'
      BY <1>1, <1>2, <1>3, <1>4, <2>1
         DEF IInv, TypeOK, ExecPc, Outcome, WakeSelf, queueVars, mem, exec, slots, history
  <2>3. QueuedOnce'
      BY <1>1, <1>2, <1>3, <1>4, <2>1
         DEF IInv, QueuedOnce, WakeSelf, queueVars, mem, exec, slots, history
  <2>4. RefCount'
      BY <1>1, <1>2, <1>3, <1>4, <2>1
         DEF IInv, RefCount, Owned, TypeOK, WakeSelf, queueVars, mem, exec, slots, history
  <2>5. Shape'
      BY <1>1, <1>2, <1>3, <1>4, <2>1
         DEF IInv, Shape, TypeOK, WakeSelf, queueVars, mem, exec, slots, history
  <2>6. Flags'
      BY <1>1, <1>2, <1>3, <1>4, <2>1
         DEF IInv, Flags, TypeOK, WakeSelf, queueVars, mem, exec, slots, history
  <2>7. Wakes'
      BY <1>1, <1>2, <1>3, <1>4, <2>1
         DEF IInv, Wakes, WakeSelf, queueVars, mem, exec, slots, history
  <2>8. Links'
      BY <1>1, <1>2, <1>3, <1>4, <2>1
         DEF IInv, Links, WakeSelf, queueVars, mem, exec, slots, history
  <2>9. NoAbortInDrop'
      BY <1>1, <1>2, <1>3, <1>4, <2>1
         DEF IInv, NoAbortInDrop, WakeSelf, queueVars, mem, exec, slots, history
  <2>10. NothingLeftInQueue'
      BY <1>1, <1>2, <1>3, <1>4, <2>1
         DEF IInv, NothingLeftInQueue, Upgraded, PoolGone, WakeSelf, queueVars, mem, exec, slots, history
  <2> QED
      BY <2>2, <2>3, <2>4, <2>5, <2>6, <2>7, <2>8, <2>9, <2>10 DEF IInv
<1>5. CASE cur \notin queued
  <2>1. /\ ready' \in Seq(Task)
        /\ Entries' = Entries \union {cur}
        /\ cur \notin Entries => EnqueuedOnce'
      BY <1>1, <1>5, AppendEntry DEF IInv, TypeOK, QueuedOnce, Enqueue, WakeSelf
  <2>2. TypeOK'
      BY <1>1, <1>2, <1>3, <1>5, <2>1
         DEF IInv, TypeOK, ExecPc, Outcome, WakeSelf, Enqueue, queueVars, mem, exec, slots, history
  <2>3. QueuedOnce'
      BY <1>1, <1>2, <1>3, <1>5, <2>1
         DEF IInv, QueuedOnce, WakeSelf, Enqueue, queueVars, mem, exec, slots, history
  <2>4. RefCount'
      BY <1>1, <1>2, <1>3, <1>5, <2>1
         DEF IInv, RefCount, Owned, TypeOK, WakeSelf, Enqueue, queueVars, mem, exec, slots, history
  <2>5. Shape'
      BY <1>1, <1>2, <1>3, <1>5, <2>1
         DEF IInv, Shape, TypeOK, WakeSelf, Enqueue, queueVars, mem, exec, slots, history
  <2>6. Flags'
      BY <1>1, <1>2, <1>3, <1>5, <2>1
         DEF IInv, Flags, TypeOK, WakeSelf, Enqueue, queueVars, mem, exec, slots, history
  <2>7. Wakes'
      BY <1>1, <1>2, <1>3, <1>5, <2>1
         DEF IInv, Wakes, WakeSelf, Enqueue, queueVars, mem, exec, slots, history
  <2>8. Links'
      BY <1>1, <1>2, <1>3, <1>5, <2>1
         DEF IInv, Links, WakeSelf, Enqueue, queueVars, mem, exec, slots, history
  <2>9. NoAbortInDrop'
      BY <1>1, <1>2, <1>3, <1>5, <2>1
         DEF IInv, NoAbortInDrop, WakeSelf, Enqueue, queueVars, mem, exec, slots, history
  <2>10. NothingLeftInQueue'
      BY <1>1, <1>2, <1>3, <1>5, <2>1
         DEF IInv, NothingLeftInQueue, Upgraded, PoolGone, WakeSelf, Enqueue, queueVars, mem, exec, slots, history
  <2> QED
      BY <2>2, <2>3, <2>4, <2>5, <2>6, <2>7, <2>8, <2>9, <2>10 DEF IInv
<1> QED
    BY <1>4, <1>5

\* The polled task goes back to the list.
LEMMA PollPendingKeeps ==
    ASSUME IInv, PollPending
    PROVE  IInv'
<1>1. UNCHANGED <<Entries, EnqueuedOnce>>
    BY SameEntries DEF PollPending, queueVars
<1>2. \A s : UNCHANGED <<Clones(s), Claims(s)>>
    BY SameSlots DEF PollPending
<1>3. cur \in Task /\ cur \in live /\ cur \notin linked
    BY NoneAssumption DEF PollPending, IInv, TypeOK, Shape
<1>4. \A s \in Task : Owned(s)' <=> Owned(s)
    BY <1>1, <1>2, <1>3, NoneAssumption DEF Owned, PollPending
<1>5. TypeOK'
    BY <1>1, <1>2, <1>3, <1>4
       DEF IInv, TypeOK, ExecPc, Outcome, PollPending, queueVars, mem, exec,
        slots, history
<1>6. QueuedOnce'
    BY <1>1, <1>2, <1>3, <1>4
       DEF IInv, QueuedOnce, PollPending, queueVars, mem, exec, slots, history
<1>7. RefCount'
    BY <1>2, <1>4
       DEF IInv, RefCount, PollPending, queueVars, mem, exec, slots, history
<1>8. Shape'
    BY <1>3, NoneAssumption
       DEF IInv, Shape, TypeOK, PollPending, queueVars, mem, exec, slots,
        history
<1>9. Flags'
    BY <1>1, <1>2, <1>3, <1>4
       DEF IInv, Flags, TypeOK, PollPending, queueVars, mem, exec, slots,
        history
<1>10. Wakes'
    BY <1>1, <1>2, <1>3, <1>4
       DEF IInv, Wakes, PollPending, queueVars, mem, exec, slots, history
<1>11. Links'
    BY <1>1, <1>2, <1>3, <1>4
       DEF IInv, Links, PollPending, queueVars, mem, exec, slots, history
<1>12. NoAbortInDrop'
    BY <1>1, <1>2, <1>3, <1>4
       DEF IInv, NoAbortInDrop, PollPending, queueVars, mem, exec, slots,
        history
<1>13. NothingLeftInQueue'
    BY <1>1, <1>2, <1>3, <1>4
       DEF IInv, NothingLeftInQueue, Upgraded, PoolGone, PollPending,
        queueVars, mem, exec, slots, history
<1> QED
    BY <1>5, <1>6, <1>7, <1>8, <1>9, <1>10, <1>11, <1>12, <1>13
       DEF IInv

\* The polled task is done, or panicked, and is released.
LEMMA PollDoneKeeps ==
    ASSUME IInv, PollReady \/ PollPanic
    PROVE  IInv'
<1>1. UNCHANGED <<Entries, EnqueuedOnce>>
    BY SameEntries DEF PollReady, PollPanic, queueVars
<1>2. \A s : UNCHANGED <<Clones(s), Claims(s)>>
    BY SameSlots DEF PollReady, PollPanic
<1>3. \A s : Cardinality(Clones(s)) \in Nat
    BY CloneCount
<1>4. /\ cur \in Task /\ cur \in live /\ cur \notin linked
      /\ arc[cur] \in Nat /\ arc[cur] >= 1
    BY <1>3, NoneAssumption
       DEF PollReady, PollPanic, IInv, TypeOK, RefCount, Owned, Shape
<1>5. cur \in queued => cur \in Entries \/ Claims(cur) # {}
    BY <1>4 DEF IInv, Flags
<1>6. cur \notin queued => cur \notin Entries /\ Claims(cur) = {}
    BY DEF IInv, QueuedOnce, Flags, Claims, Clones
<1>7. \A s \in Task : Owned(s)' <=> IF s = cur THEN cur \in queued ELSE Owned(s)
    BY <1>1, <1>2, <1>4, <1>5, <1>6, NoneAssumption
       DEF Owned, PollReady, PollPanic, ReleaseTask, Return
<1>8. arc' = IF cur \in queued THEN arc ELSE [arc EXCEPT ![cur] = @ - 1]
    BY DEF PollReady, PollPanic, ReleaseTask, Drop1
<1>9. arc' \in [Task -> Nat]
    BY <1>4, <1>8 DEF IInv, TypeOK
<1>10. Owned(cur)
    BY DEF Owned
<1>11. RefCount
    BY DEF IInv
<1>12. TypeOK'
    BY <1>4, <1>9
       DEF IInv, TypeOK, ExecPc, Outcome, PollReady, PollPanic, Return,
        ReleaseTask, queueVars, mem, exec, slots, history
<1>13. QueuedOnce'
    BY <1>1, <1>2, <1>3, <1>4, <1>5, <1>6, <1>7, <1>8, <1>9, <1>10, <1>11
       DEF IInv, QueuedOnce, PollReady, PollPanic, Return, ReleaseTask,
        queueVars, mem, exec, slots, history
<1>14. RefCount'
    BY <1>2, <1>3, <1>4, <1>7, <1>8, <1>10, <1>11 DEF IInv, TypeOK, RefCount
<1>15. Shape'
    BY <1>4, NoneAssumption
       DEF IInv, Shape, TypeOK, PollReady, PollPanic, Return, ReleaseTask,
        queueVars, mem, exec, slots, history
<1>16. Flags'
    BY <1>1, <1>2, <1>3, <1>4, <1>5, <1>6, <1>7, <1>8, <1>9, <1>10, <1>11
       DEF IInv, Flags, TypeOK, PollReady, PollPanic, Return, ReleaseTask,
        queueVars, mem, exec, slots, history
<1>17. Wakes'
    BY <1>1, <1>2, <1>3, <1>4, <1>5, <1>6, <1>7, <1>8, <1>9, <1>10, <1>11
       DEF IInv, Wakes, PollReady, PollPanic, Return, ReleaseTask, queueVars,
        mem, exec, slots, history
<1>18. Links'
    BY <1>1, <1>2, <1>3, <1>4, <1>5, <1>6, <1>7, <1>8, <1>9, <1>10, <1>11
       DEF IInv, Links, PollReady, PollPanic, Return, ReleaseTask, queueVars,
        mem, exec, slots, history
<1>19. NoAbortInDrop'
    BY <1>1, <1>2, <1>3, <1>4, <1>5, <1>6, <1>7, <1>8, <1>9, <1>10, <1>11
       DEF IInv, NoAbortInDrop, PollReady, PollPanic, Return, ReleaseTask,
        queueVars, mem, exec, slots, history
<1>20. NothingLeftInQueue'
    BY <1>1, <1>2, <1>3, <1>4, <1>5, <1>6, <1>7, <1>8, <1>9, <1>10, <1>11
       DEF IInv, NothingLeftInQueue, Upgraded, PoolGone, PollReady, PollPanic,
        Return, ReleaseTask, queueVars, mem, exec, slots, history
<1> QED
    BY <1>12, <1>13, <1>14, <1>15, <1>16, <1>17, <1>18, <1>19, <1>20
       DEF IInv

\* A waker is dropped unused.
LEMMA DropWakerKeeps ==
    ASSUME IInv, NEW w \in Waker, DropWaker(w)
    PROVE  IInv'
<1>1. UNCHANGED <<Entries, EnqueuedOnce>>
    BY SameEntries DEF DropWaker, queueVars
<1>2. wtask[w] \in Task
    BY DEF DropWaker, IInv, TypeOK
<1>3. /\ \A s \in Task : Cardinality(Clones(s)') =
            Cardinality(Clones(s)) - (IF s = wtask[w] THEN 1 ELSE 0)
      /\ Cardinality(Clones(wtask[w])) >= 1
    BY <1>2, CloneFreed DEF DropWaker, FreeSlot, IInv, TypeOK
<1>4. \A s : Cardinality(Clones(s)) \in Nat
    BY CloneCount
<1>5. \A s \in Task : Claims(s)' = Claims(s)
    BY NoneAssumption
       DEF DropWaker, FreeSlot, SetSlot, Claims, Clones, IInv, TypeOK
<1>6. arc[wtask[w]] \in Nat /\ arc[wtask[w]] >= 1
  <2>1. arc[wtask[w]] = Cardinality(Clones(wtask[w])) +
                             (IF Owned(wtask[w]) THEN 1 ELSE 0)
      BY <1>2 DEF IInv, RefCount
  <2> QED
      BY <1>2, <1>3, <1>4, <2>1 DEF IInv, TypeOK
<1>7. \A s \in Task : Owned(s)' <=> Owned(s)
    BY <1>1, <1>5 DEF Owned, DropWaker, mem, exec
<1>8. TypeOK'
    BY <1>1, <1>2, <1>3, <1>4, <1>5, <1>6, <1>7
       DEF IInv, TypeOK, ExecPc, Outcome, SlotPc, DropWaker, FreeSlot,
        SetSlot, Drop1, queueVars, mem, exec, slots, history
<1>9. QueuedOnce'
    BY <1>1, <1>2, <1>3, <1>4, <1>5, <1>6, <1>7
       DEF IInv, QueuedOnce, TypeOK, Claims, Clones, DropWaker, FreeSlot,
        SetSlot, Drop1, queueVars, mem, exec, slots, history
<1>10. RefCount'
    BY <1>2, <1>3, <1>4, <1>6, <1>7
       DEF IInv, RefCount, TypeOK, DropWaker, FreeSlot, SetSlot, Drop1,
        queueVars, mem, exec, slots, history
<1>11. Shape'
    BY <1>1, <1>2, <1>3, <1>4, <1>5, <1>6, <1>7
       DEF IInv, Shape, TypeOK, DropWaker, FreeSlot, SetSlot, Drop1,
        queueVars, mem, exec, slots, history
<1>12. Flags'
    BY <1>1, <1>2, <1>3, <1>4, <1>5, <1>6, <1>7
       DEF IInv, Flags, TypeOK, DropWaker, FreeSlot, SetSlot, Drop1,
        queueVars, mem, exec, slots, history
<1>13. Wakes'
    BY <1>1, <1>2, <1>3, <1>4, <1>5, <1>6, <1>7
       DEF IInv, Wakes, DropWaker, FreeSlot, SetSlot, Drop1, queueVars, mem,
        exec, slots, history
<1>14. Links'
    BY <1>1, <1>2, <1>3, <1>4, <1>5, <1>6, <1>7
       DEF IInv, Links, DropWaker, FreeSlot, SetSlot, Drop1, queueVars, mem,
        exec, slots, history
<1>15. NoAbortInDrop'
    BY <1>1, <1>2, <1>3, <1>4, <1>5, <1>6, <1>7
       DEF IInv, NoAbortInDrop, DropWaker, FreeSlot, SetSlot, Drop1,
        queueVars, mem, exec, slots, history
<1>16. NothingLeftInQueue'
    BY <1>1, <1>2, <1>3, <1>4, <1>5, <1>6, <1>7
       DEF IInv, NothingLeftInQueue, Upgraded, PoolGone, DropWaker, FreeSlot,
        SetSlot, Drop1, queueVars, mem, exec, slots, history
<1> QED
    BY <1>8, <1>9, <1>10, <1>11, <1>12, <1>13, <1>14, <1>15, <1>16
       DEF IInv

\* A wake-up finds the queue gone.
LEMMA WakeTooLateKeeps ==
    ASSUME IInv, NEW w \in Waker, WakeTooLate(w)
    PROVE  IInv'
<1>1. UNCHANGED <<Entries, EnqueuedOnce>>
    BY SameEntries DEF WakeTooLate, queueVars
<1>2. wtask[w] \in Task
    BY DEF WakeTooLate, IInv, TypeOK
<1>3. /\ \A s \in Task : Cardinality(Clones(s)') =
            Cardinality(Clones(s)) - (IF s = wtask[w] THEN 1 ELSE 0)
      /\ Cardinality(Clones(wtask[w])) >= 1
    BY <1>2, CloneFreed DEF WakeTooLate, FreeSlot, IInv, TypeOK
<1>4. \A s : Cardinality(Clones(s)) \in Nat
    BY CloneCount
<1>5. \A s \in Task : Claims(s)' = Claims(s)
    BY NoneAssumption
       DEF WakeTooLate, FreeSlot, SetSlot, Claims, Clones, IInv, TypeOK
<1>6. arc[wtask[w]] \in Nat /\ arc[wtask[w]] >= 1
  <2>1. arc[wtask[w]] = Cardinality(Clones(wtask[w])) +
                             (IF Owned(wtask[w]) THEN 1 ELSE 0)
      BY <1>2 DEF IInv, RefCount
  <2> QED
      BY <1>2, <1>3, <1>4, <2>1 DEF IInv, TypeOK
<1>7. \A s \in Task : Owned(s)' <=> Owned(s)
    BY <1>1, <1>5 DEF Owned, WakeTooLate, mem, exec
<1>8. TypeOK'
    BY <1>1, <1>2, <1>3, <1>4, <1>5, <1>6, <1>7
       DEF IInv, TypeOK, ExecPc, Outcome, SlotPc, WakeTooLate, FreeSlot,
        SetSlot, Drop1, queueVars, mem, exec, slots, history
<1>9. QueuedOnce'
    BY <1>1, <1>2, <1>3, <1>4, <1>5, <1>6, <1>7
       DEF IInv, QueuedOnce, TypeOK, Claims, Clones, WakeTooLate, FreeSlot,
        SetSlot, Drop1, queueVars, mem, exec, slots, history
<1>10. RefCount'
    BY <1>2, <1>3, <1>4, <1>6, <1>7
       DEF IInv, RefCount, TypeOK, WakeTooLate, FreeSlot, SetSlot, Drop1,
        queueVars, mem, exec, slots, history
<1>11. Shape'
    BY <1>1, <1>2, <1>3, <1>4, <1>5, <1>6, <1>7
       DEF IInv, Shape, TypeOK, WakeTooLate, FreeSlot, SetSlot, Drop1,
        queueVars, mem, exec, slots, history
<1>12. Flags'
    BY <1>1, <1>2, <1>3, <1>4, <1>5, <1>6, <1>7
       DEF IInv, Flags, TypeOK, WakeTooLate, FreeSlot, SetSlot, Drop1,
        queueVars, mem, exec, slots, history
<1>13. Wakes'
    BY <1>1, <1>2, <1>3, <1>4, <1>5, <1>6, <1>7
       DEF IInv, Wakes, WakeTooLate, FreeSlot, SetSlot, Drop1, queueVars, mem,
        exec, slots, history
<1>14. Links'
    BY <1>1, <1>2, <1>3, <1>4, <1>5, <1>6, <1>7
       DEF IInv, Links, WakeTooLate, FreeSlot, SetSlot, Drop1, queueVars, mem,
        exec, slots, history
<1>15. NoAbortInDrop'
    BY <1>1, <1>2, <1>3, <1>4, <1>5, <1>6, <1>7
       DEF IInv, NoAbortInDrop, WakeTooLate, FreeSlot, SetSlot, Drop1,
        queueVars, mem, exec, slots, history
<1>16. NothingLeftInQueue'
    BY <1>1, <1>2, <1>3, <1>4, <1>5, <1>6, <1>7
       DEF IInv, NothingLeftInQueue, Upgraded, PoolGone, WakeTooLate,
        FreeSlot, SetSlot, Drop1, queueVars, mem, exec, slots, history
<1> QED
    BY <1>8, <1>9, <1>10, <1>11, <1>12, <1>13, <1>14, <1>15, <1>16
       DEF IInv

\* A wake-up gets hold of the queue.
LEMMA WakeUpgradeKeeps ==
    ASSUME IInv, NEW w \in Waker, WakeUpgrade(w)
    PROVE  IInv'
<1>1. wtask[w] \in Task
    BY DEF WakeUpgrade, IInv, TypeOK
<1>2. \A s : Clones(s)' = Clones(s)
    BY DEF WakeUpgrade, Clones
<1>3. UNCHANGED <<Entries, EnqueuedOnce>>
    BY SameEntries DEF WakeUpgrade, queueVars
<1>4. \A s \in Task : Claims(s)' = Claims(s)
    BY DEF WakeUpgrade, SetSlot, Claims, Clones, IInv, TypeOK
<1>5. TypeOK'
    BY <1>1, <1>2, <1>3, <1>4
       DEF IInv, TypeOK, ExecPc, Outcome, SlotPc, WakeUpgrade, SetSlot,
        queueVars, mem, exec, slots, history
<1>6. QueuedOnce'
    BY <1>1, <1>2, <1>3, <1>4
       DEF IInv, QueuedOnce, TypeOK, WakeUpgrade, SetSlot, queueVars, mem,
        exec, slots, history
<1>7. RefCount'
    BY <1>1, <1>2, <1>3, <1>4
       DEF IInv, RefCount, Owned, WakeUpgrade, SetSlot, queueVars, mem, exec,
        slots, history
<1>8. Shape'
    BY <1>1, <1>2, <1>3, <1>4
       DEF IInv, Shape, TypeOK, WakeUpgrade, SetSlot, queueVars, mem, exec,
        slots, history
<1>9. Flags'
    BY <1>1, <1>2, <1>3, <1>4
       DEF IInv, Flags, TypeOK, WakeUpgrade, SetSlot, queueVars, mem, exec,
        slots, history
<1>10. Wakes'
    BY <1>1, <1>2, <1>3, <1>4
       DEF IInv, Wakes, WakeUpgrade, SetSlot, queueVars, mem, exec, slots,
        history
<1>11. Links'
    BY <1>1, <1>2, <1>3, <1>4
       DEF IInv, Links, WakeUpgrade, SetSlot, queueVars, mem, exec, slots,
        history
<1>12. NoAbortInDrop'
    BY <1>1, <1>2, <1>3, <1>4
       DEF IInv, NoAbortInDrop, WakeUpgrade, SetSlot, queueVars, mem, exec,
        slots, history
<1>13. NothingLeftInQueue'
    BY <1>1, <1>2, <1>3, <1>4
       DEF IInv, NothingLeftInQueue, Upgraded, PoolGone, WakeUpgrade, SetSlot,
        queueVars, mem, exec, slots, history
<1> QED
    BY <1>5, <1>6, <1>7, <1>8, <1>9, <1>10, <1>11, <1>12, <1>13
       DEF IInv

\* A wake-up finds the flag up.
LEMMA WakeIgnoredKeeps ==
    ASSUME IInv, NEW w \in Waker, WakeIgnored(w)
    PROVE  IInv'
<1>1. wtask[w] \in Task
    BY DEF WakeIgnored, IInv, TypeOK
<1>2. \A s : Clones(s)' = Clones(s)
    BY DEF WakeIgnored, Clones
<1>3. UNCHANGED <<Entries, EnqueuedOnce>>
    BY SameEntries DEF WakeIgnored, queueVars
<1>4. \A s \in Task : Claims(s)' = Claims(s)
    BY DEF WakeIgnored, SetSlot, Claims, Clones, IInv, TypeOK
<1>5. TypeOK'
    BY <1>1, <1>2, <1>3, <1>4
       DEF IInv, TypeOK, ExecPc, Outcome, SlotPc, WakeIgnored, SetSlot,
        queueVars, mem, exec, slots, history
<1>6. QueuedOnce'
    BY <1>1, <1>2, <1>3, <1>4
       DEF IInv, QueuedOnce, TypeOK, WakeIgnored, SetSlot, queueVars, mem,
        exec, slots, history
<1>7. RefCount'
    BY <1>1, <1>2, <1>3, <1>4
       DEF IInv, RefCount, Owned, WakeIgnored, SetSlot, queueVars, mem, exec,
        slots, history
<1>8. Shape'
    BY <1>1, <1>2, <1>3, <1>4
       DEF IInv, Shape, TypeOK, WakeIgnored, SetSlot, queueVars, mem, exec,
        slots, history
<1>9. Flags'
    BY <1>1, <1>2, <1>3, <1>4
       DEF IInv, Flags, TypeOK, WakeIgnored, SetSlot, queueVars, mem, exec,
        slots, history
<1>10. Wakes'
    BY <1>1, <1>2, <1>3, <1>4
       DEF IInv, Wakes, WakeIgnored, SetSlot, queueVars, mem, exec, slots,
        history
<1>11. Links'
    BY <1>1, <1>2, <1>3, <1>4
       DEF IInv, Links, WakeIgnored, SetSlot, queueVars, mem, exec, slots,
        history
<1>12. NoAbortInDrop'
    BY <1>1, <1>2, <1>3, <1>4
       DEF IInv, NoAbortInDrop, WakeIgnored, SetSlot, queueVars, mem, exec,
        slots, history
<1>13. NothingLeftInQueue'
    BY <1>1, <1>2, <1>3, <1>4
       DEF IInv, NothingLeftInQueue, Upgraded, PoolGone, WakeIgnored, SetSlot,
        queueVars, mem, exec, slots, history
<1> QED
    BY <1>5, <1>6, <1>7, <1>8, <1>9, <1>10, <1>11, <1>12, <1>13
       DEF IInv

\* A wake-up raises the flag of a task that is not queued.
LEMMA WakeClaimKeeps ==
    ASSUME IInv, NEW w \in Waker, WakeClaim(w), ~WakeInPutBack
    PROVE  IInv'
<1>1. wtask[w] \in Task
    BY DEF WakeClaim, IInv, TypeOK
<1>2. \A s : Clones(s)' = Clones(s)
    BY DEF WakeClaim, Clones
<1>3. UNCHANGED <<Entries, EnqueuedOnce>>
    BY SameEntries DEF WakeClaim, queueVars
<1>4. \A s \in Task : Claims(s)' = IF s = wtask[w] THEN Claims(s) \union {w} ELSE Claims(s)
    BY DEF WakeClaim, SetSlot, Claims, Clones, IInv, TypeOK
<1>5. wtask[w] \in live /\ wtask[w] \notin queued
    BY DEF WakeClaim, IInv, Flags, TypeOK
<1>6. Claims(wtask[w]) = {} /\ wtask[w] \notin Entries
    BY <1>5 DEF IInv, Flags, QueuedOnce, Claims, Clones
<1>7. ~(pc = "requeue" /\ cur = wtask[w])
    BY DEF WakeInPutBack, Clones
<1>8. TypeOK'
    BY <1>1, <1>2, <1>3, <1>4, <1>5, <1>6, <1>7
       DEF IInv, TypeOK, ExecPc, Outcome, SlotPc, WakeClaim, SetSlot,
        queueVars, mem, exec, slots, history
<1>9. QueuedOnce'
    BY <1>1, <1>2, <1>3, <1>4, <1>5, <1>6, <1>7
       DEF IInv, QueuedOnce, TypeOK, WakeClaim, SetSlot, queueVars, mem, exec,
        slots, history
<1>10. RefCount'
    BY <1>1, <1>2, <1>3, <1>4, <1>5, <1>6, <1>7
       DEF IInv, RefCount, Owned, WakeClaim, SetSlot, queueVars, mem, exec,
        slots, history
<1>11. Shape'
    BY <1>1, <1>2, <1>3, <1>4, <1>5, <1>6, <1>7
       DEF IInv, Shape, TypeOK, WakeClaim, SetSlot, queueVars, mem, exec,
        slots, history
<1>12. Flags'
    BY <1>1, <1>2, <1>3, <1>4, <1>5, <1>6, <1>7
       DEF IInv, Flags, TypeOK, WakeClaim, SetSlot, queueVars, mem, exec,
        slots, history
<1>13. Wakes'
    BY <1>1, <1>2, <1>3, <1>4, <1>5, <1>6, <1>7
       DEF IInv, Wakes, WakeClaim, SetSlot, queueVars, mem, exec, slots,
        history
<1>14. Links'
    BY <1>1, <1>2, <1>3, <1>4, <1>5, <1>6, <1>7
       DEF IInv, Links, WakeClaim, SetSlot, queueVars, mem, exec, slots,
        history
<1>15. NoAbortInDrop'
    BY <1>1, <1>2, <1>3, <1>4, <1>5, <1>6, <1>7
       DEF IInv, NoAbortInDrop, WakeClaim, SetSlot, queueVars, mem, exec,
        slots, history
<1>16. NothingLeftInQueue'
    BY <1>1, <1>2, <1>3, <1>4, <1>5, <1>6, <1>7
       DEF IInv, NothingLeftInQueue, Upgraded, PoolGone, WakeClaim, SetSlot,
        queueVars, mem, exec, slots, history
<1> QED
    BY <1>8, <1>9, <1>10, <1>11, <1>12, <1>13, <1>14, <1>15, <1>16
       DEF IInv

\* A wake-up puts its task into the queue.
LEMMA WakeSwapKeeps ==
    ASSUME IInv, NEW w \in Waker, WakeSwap(w)
    PROVE  IInv'
<1>1. wtask[w] \in Task
    BY DEF WakeSwap, IInv, TypeOK
<1>2. \A s : Clones(s)' = Clones(s)
    BY DEF WakeSwap, Clones
<1>3. /\ ready' \in Seq(Task)
      /\ Entries' = Entries \union {wtask[w]}
      /\ wtask[w] \notin Entries => EnqueuedOnce'
    BY <1>1, AppendEntry DEF WakeSwap, SwapHead, IInv, TypeOK, QueuedOnce
<1>4. /\ wtask[w] \notin Entries /\ wtask[w] \in queued
      /\ Claims(wtask[w]) = {w} /\ ~(pc = "requeue" /\ cur = wtask[w])
    BY DEF WakeSwap, IInv, Flags, QueuedOnce
<1>5. \A s \in Task : Claims(s)' = IF s = wtask[w] THEN {} ELSE Claims(s)
    BY <1>4 DEF WakeSwap, SetSlot, Claims, Clones, IInv, TypeOK
<1>6. TypeOK'
    BY <1>1, <1>2, <1>3, <1>4, <1>5
       DEF IInv, TypeOK, ExecPc, Outcome, SlotPc, SwapHead, WakeSwap, SetSlot,
        queueVars, mem, exec, slots, history
<1>7. QueuedOnce'
    BY <1>1, <1>2, <1>3, <1>4, <1>5
       DEF IInv, QueuedOnce, TypeOK, SwapHead, WakeSwap, SetSlot, queueVars,
        mem, exec, slots, history
<1>8. RefCount'
    BY <1>1, <1>2, <1>3, <1>4, <1>5
       DEF IInv, RefCount, Owned, TypeOK, WakeSwap, SetSlot, queueVars, mem,
        exec, slots, history
<1>9. Shape'
    BY <1>1, <1>2, <1>3, <1>4, <1>5
       DEF IInv, Shape, TypeOK, WakeSwap, SetSlot, queueVars, mem, exec,
        slots, history
<1>10. Flags'
    BY <1>1, <1>2, <1>3, <1>4, <1>5
       DEF IInv, Flags, TypeOK, WakeSwap, SetSlot, queueVars, mem, exec,
        slots, history
<1>11. Wakes'
    BY <1>1, <1>2, <1>3, <1>4, <1>5
       DEF IInv, Wakes, WakeSwap, SetSlot, queueVars, mem, exec, slots,
        history
<1>12. Links'
    BY <1>1, <1>2, <1>3, <1>4, <1>5
       DEF IInv, Links, TypeOK, SwapHead, WakeSwap, SetSlot, queueVars, mem,
        exec, slots, history
<1>13. NoAbortInDrop'
    BY <1>1, <1>2, <1>3, <1>4, <1>5
       DEF IInv, NoAbortInDrop, WakeSwap, SetSlot, queueVars, mem, exec,
        slots, history
<1>14. NothingLeftInQueue'
    BY <1>1, <1>2, <1>3, <1>4, <1>5
       DEF IInv, NothingLeftInQueue, Upgraded, PoolGone, TypeOK, WakeSwap,
        SetSlot, queueVars, mem, exec, slots, history
<1> QED
    BY <1>6, <1>7, <1>8, <1>9, <1>10, <1>11, <1>12, <1>13, <1>14
       DEF IInv

\* A wake-up links its entry.
LEMMA WakeLinkKeeps ==
    ASSUME IInv, NEW w \in Waker, WakeLink(w)
    PROVE  IInv'
<1>1. wtask[w] \in Task
    BY DEF WakeLink, IInv, TypeOK
<1>2. \A s : Clones(s)' = Clones(s)
    BY DEF WakeLink, Clones
<1>3. UNCHANGED <<Entries, EnqueuedOnce>>
    BY SameEntries DEF WakeLink, LinkPrev
<1>4. \A s \in Task : Claims(s)' = Claims(s)
    BY DEF WakeLink, SetSlot, Claims, Clones, IInv, TypeOK
<1>5. TypeOK'
    BY <1>1, <1>2, <1>3, <1>4
       DEF IInv, TypeOK, ExecPc, Outcome, SlotPc, LinkPrev, WakeLink, SetSlot,
        queueVars, mem, exec, slots, history
<1>6. QueuedOnce'
    BY <1>1, <1>2, <1>3, <1>4
       DEF IInv, QueuedOnce, TypeOK, WakeLink, SetSlot, queueVars, mem, exec,
        slots, history
<1>7. RefCount'
    BY <1>1, <1>2, <1>3, <1>4
       DEF IInv, RefCount, Owned, WakeLink, SetSlot, queueVars, mem, exec,
        slots, history
<1>8. Shape'
    BY <1>1, <1>2, <1>3, <1>4
       DEF IInv, Shape, TypeOK, WakeLink, SetSlot, queueVars, mem, exec,
        slots, history
<1>9. Flags'
    BY <1>1, <1>2, <1>3, <1>4
       DEF IInv, Flags, TypeOK, WakeLink, SetSlot, queueVars, mem, exec,
        slots, history
<1>10. Wakes'
    BY <1>1, <1>2, <1>3, <1>4
       DEF IInv, Wakes, WakeLink, SetSlot, queueVars, mem, exec, slots,
        history
<1>11. Links'
    BY <1>1, <1>2, <1>3, <1>4
       DEF IInv, Links, TypeOK, LinkPrev, WakeLink, SetSlot, queueVars, mem,
        exec, slots, history
<1>12. NoAbortInDrop'
    BY <1>1, <1>2, <1>3, <1>4
       DEF IInv, NoAbortInDrop, WakeLink, SetSlot, queueVars, mem, exec,
        slots, history
<1>13. NothingLeftInQueue'
    BY <1>1, <1>2, <1>3, <1>4
       DEF IInv, NothingLeftInQueue, Upgraded, PoolGone, TypeOK, WakeLink,
        SetSlot, queueVars, mem, exec, slots, history
<1> QED
    BY <1>5, <1>6, <1>7, <1>8, <1>9, <1>10, <1>11, <1>12, <1>13
       DEF IInv

\* The pool lets go of a queue some waker still holds.
LEMMA DropQueueSharedKeeps ==
    ASSUME IInv, Upgraded # {}, DropQueue
    PROVE  IInv'
<1>1. UNCHANGED <<Entries, EnqueuedOnce>>
    BY SameEntries DEF DropQueue, queueVars
<1>2. \A s : UNCHANGED <<Clones(s), Claims(s)>>
    BY SameSlots DEF DropQueue
<1>3. /\ pc' = "dropped" /\ pc = "drop" /\ linked = {} /\ cur = None
      /\ UNCHANGED arc
    BY DEF DropQueue, IInv, TypeOK
<1>4. \A s \in Task : Owned(s)' <=> Owned(s)
    BY <1>1, <1>2 DEF Owned, DropQueue
<1>5. TypeOK'
    BY <1>1, <1>2, <1>3, <1>4
       DEF IInv, TypeOK, ExecPc, Outcome, DropQueue, queueVars, mem, exec,
        slots, history
<1>6. QueuedOnce'
    BY <1>1, <1>2, <1>3, <1>4
       DEF IInv, QueuedOnce, DropQueue, queueVars, mem, exec, slots, history
<1>7. RefCount'
    BY <1>2, <1>3, <1>4
       DEF IInv, RefCount, DropQueue, queueVars, mem, exec, slots, history
<1>8. Shape'
    BY <1>1, <1>2, <1>3, <1>4
       DEF IInv, Shape, TypeOK, DropQueue, queueVars, mem, exec, slots,
        history
<1>9. Flags'
    BY <1>1, <1>2, <1>3, <1>4
       DEF IInv, Flags, TypeOK, DropQueue, queueVars, mem, exec, slots,
        history
<1>10. Wakes'
    BY <1>1, <1>2, <1>3, <1>4
       DEF IInv, Wakes, DropQueue, queueVars, mem, exec, slots, history
<1>11. Links'
    BY <1>1, <1>2, <1>3, <1>4
       DEF IInv, Links, DropQueue, queueVars, mem, exec, slots, history
<1>12. NoAbortInDrop'
    BY <1>1, <1>2, <1>3, <1>4
       DEF IInv, NoAbortInDrop, DropQueue, queueVars, mem, exec, slots,
        history
<1>13. NothingLeftInQueue'
    BY <1>1, <1>2, <1>3, <1>4
       DEF IInv, NothingLeftInQueue, Upgraded, PoolGone, DropQueue, queueVars,
        mem, exec, slots, history
<1> QED
    BY <1>5, <1>6, <1>7, <1>8, <1>9, <1>10, <1>11, <1>12, <1>13
       DEF IInv

\* The pool lets go of the queue as the last one.
LEMMA DropQueueLastKeeps ==
    ASSUME IInv, Upgraded = {}, DropQueue
    PROVE  IInv'
<1>1. unlinked = {}
    BY DEF IInv, Links, Upgraded
<1>2. /\ ready' = <<>> /\ UNCHANGED unlinked
      /\ Entries' = {} /\ EnqueuedOnce' /\ ready' \in Seq(Task)
    BY <1>1 DEF DropQueue, DrainQueue, Entries, EnqueuedOnce
<1>3. \A s : UNCHANGED <<Clones(s), Claims(s)>>
    BY SameSlots DEF DropQueue
<1>4. \A s : Cardinality(Clones(s)) \in Nat
    BY CloneCount
<1>5. /\ pc' = "dropped" /\ pc = "drop" /\ linked = {} /\ cur = None /\ live = {}
      /\ cur' = None /\ linked' = {} /\ live' = {} /\ UNCHANGED queued
    BY <1>1, NoneAssumption DEF DropQueue, DrainQueue, IInv, TypeOK, Shape
<1>6. arc' = [t \in Task |-> arc[t] - (IF t \in Entries THEN 1 ELSE 0)]
  <2>1. \A t \in Task : /\ t \notin {} /\ arc[t] \in Nat
                         /\ (arc[t] - 0) - (IF t \in Entries THEN 1 ELSE 0) =
                               arc[t] - (IF t \in Entries THEN 1 ELSE 0)
      BY DEF IInv, TypeOK
  <2> QED
      BY <1>1, <2>1 DEF DropQueue, DrainQueue
<1>7. \A s \in Entries : s \in Task /\ Claims(s) = {}
    BY <1>5 DEF IInv, TypeOK, QueuedOnce, Entries, Claims, Clones
<1>8. \A s \in Task : Owned(s)' <=> Owned(s) /\ s \notin Entries
    BY <1>2, <1>3, <1>5, <1>7, NoneAssumption DEF Owned
<1>9. \A s \in Entries : Owned(s)
    BY <1>5 DEF Owned
<1>10. \A s \in Entries : arc[s] >= 1
    BY <1>4, <1>7, <1>9 DEF IInv, TypeOK, RefCount
<1>11. TypeOK'
    BY <1>2, <1>5, <1>6, <1>7, <1>10
       DEF IInv, TypeOK, ExecPc, Outcome, DropQueue, mem, exec, slots, history
<1>12. QueuedOnce'
    BY <1>1, <1>2, <1>3, <1>4, <1>5, <1>6, <1>7, <1>8, <1>9, <1>10
       DEF IInv, QueuedOnce, DropQueue, mem, exec, slots, history
<1>13. RefCount'
    BY <1>3, <1>4, <1>6, <1>8, <1>9
       DEF IInv, RefCount, TypeOK, DropQueue, mem, exec, slots, history
<1>14. Shape'
    BY <1>1, <1>2, <1>3, <1>4, <1>5, <1>6, <1>7, <1>8, <1>9, <1>10
       DEF IInv, Shape, TypeOK, DropQueue, mem, exec, slots, history
<1>15. Flags'
    BY <1>2, <1>3, <1>5
       DEF IInv, Flags, TypeOK, DropQueue, mem, exec, slots, history
<1>16. Wakes'
    BY <1>1, <1>2, <1>3, <1>4, <1>5, <1>6, <1>7, <1>8, <1>9, <1>10
       DEF IInv, Wakes, DropQueue, mem, exec, slots, history
<1>17. Links'
    BY <1>1, <1>2 DEF IInv, Links, DropQueue, mem, exec, slots, history
<1>18. NoAbortInDrop'
    BY <1>1, <1>2, <1>3, <1>4, <1>5, <1>6, <1>7, <1>8, <1>9, <1>10
       DEF IInv, NoAbortInDrop, DropQueue, mem, exec, slots, history
<1>19. NothingLeftInQueue'
    BY <1>1, <1>2, <1>3, <1>4, <1>5, <1>6, <1>7, <1>8, <1>9, <1>10
       DEF IInv, NothingLeftInQueue, Upgraded, PoolGone, DropQueue, mem, exec,
        slots, history
<1> QED
    BY <1>11, <1>12, <1>13, <1>14, <1>15, <1>16, <1>17, <1>18, <1>19
       DEF IInv

\* A wake-up ends while the queue has another holder.
LEMMA WakeDoneSharedKeeps ==
    ASSUME IInv, NEW w \in Waker, ~(PoolGone /\ Upgraded = {w}), WakeDone(w)
    PROVE  IInv'
<1>1. wtask[w] \in Task
    BY DEF WakeDone, IInv, TypeOK
<1>2. /\ \A s \in Task : Cardinality(Clones(s)') =
            Cardinality(Clones(s)) - (IF s = wtask[w] THEN 1 ELSE 0)
      /\ Cardinality(Clones(wtask[w])) >= 1
    BY <1>1, CloneFreed DEF WakeDone, FreeSlot, IInv, TypeOK
<1>3. \A s : Cardinality(Clones(s)) \in Nat
    BY CloneCount
<1>4. \A s \in Task : Claims(s)' = Claims(s)
    BY NoneAssumption
       DEF WakeDone, FreeSlot, SetSlot, Claims, Clones, IInv, TypeOK
<1>5. arc[wtask[w]] \in Nat /\ arc[wtask[w]] >= 1
  <2>1. arc[wtask[w]] = Cardinality(Clones(wtask[w])) +
                             (IF Owned(wtask[w]) THEN 1 ELSE 0)
      BY <1>1 DEF IInv, RefCount
  <2> QED
      BY <1>1, <1>2, <1>3, <2>1 DEF IInv, TypeOK
<1>6. UNCHANGED <<Entries, EnqueuedOnce>>
    BY SameEntries DEF WakeDone, queueVars
<1>7. arc' = [arc EXCEPT ![wtask[w]] = @ - 1] /\ UNCHANGED pc
    BY DEF WakeDone, Drop1
<1>8. \A s \in Task : Owned(s)' <=> Owned(s)
    BY <1>4, <1>6 DEF Owned, WakeDone
<1>9. TypeOK'
    BY <1>1, <1>2, <1>3, <1>4, <1>5, <1>6, <1>7, <1>8
       DEF IInv, TypeOK, ExecPc, Outcome, SlotPc, WakeDone, FreeSlot, SetSlot,
        queueVars, mem, exec, slots, history
<1>10. QueuedOnce'
    BY <1>1, <1>2, <1>3, <1>4, <1>5, <1>6, <1>7, <1>8
       DEF IInv, QueuedOnce, TypeOK, Claims, Clones, WakeDone, FreeSlot,
        SetSlot, queueVars, mem, exec, slots, history
<1>11. RefCount'
    BY <1>1, <1>2, <1>3, <1>7, <1>8
       DEF IInv, RefCount, TypeOK, WakeDone, FreeSlot, SetSlot, queueVars,
        mem, exec, slots, history
<1>12. Shape'
    BY <1>1, <1>2, <1>3, <1>4, <1>5, <1>6, <1>7, <1>8
       DEF IInv, Shape, TypeOK, WakeDone, FreeSlot, SetSlot, queueVars, mem,
        exec, slots, history
<1>13. Flags'
    BY <1>1, <1>2, <1>3, <1>4, <1>5, <1>6, <1>7, <1>8
       DEF IInv, Flags, TypeOK, WakeDone, FreeSlot, SetSlot, queueVars, mem,
        exec, slots, history
<1>14. Wakes'
    BY <1>1, <1>2, <1>3, <1>4, <1>5, <1>6, <1>7, <1>8
       DEF IInv, Wakes, WakeDone, FreeSlot, SetSlot, queueVars, mem, exec,
        slots, history
<1>15. Links'
    BY <1>1, <1>2, <1>3, <1>4, <1>5, <1>6, <1>7, <1>8
       DEF IInv, Links, WakeDone, FreeSlot, SetSlot, queueVars, mem, exec,
        slots, history
<1>16. NoAbortInDrop'
    BY <1>1, <1>2, <1>3, <1>4, <1>5, <1>6, <1>7, <1>8
       DEF IInv, NoAbortInDrop, WakeDone, FreeSlot, SetSlot, queueVars, mem,
        exec, slots, history
<1>17. NothingLeftInQueue'
    BY <1>1, <1>2, <1>3, <1>4, <1>5, <1>6, <1>7, <1>8
       DEF IInv, NothingLeftInQueue, Upgraded, PoolGone, TypeOK, WakeDone,
        FreeSlot, SetSlot, queueVars, mem, exec, slots, history
<1> QED
    BY <1>9, <1>10, <1>11, <1>12, <1>13, <1>14, <1>15, <1>16, <1>17
       DEF IInv

\* A wake-up ends as the last holder of the queue.
LEMMA WakeDoneLastKeeps ==
    ASSUME IInv, NEW w \in Waker, PoolGone /\ Upgraded = {w}, WakeDone(w)
    PROVE  IInv'
<1>1. wtask[w] \in Task
    BY DEF WakeDone, IInv, TypeOK
<1>2. /\ \A s \in Task : Cardinality(Clones(s)') =
            Cardinality(Clones(s)) - (IF s = wtask[w] THEN 1 ELSE 0)
      /\ Cardinality(Clones(wtask[w])) >= 1
    BY <1>1, CloneFreed DEF WakeDone, FreeSlot, IInv, TypeOK
<1>3. \A s : Cardinality(Clones(s)) \in Nat
    BY CloneCount
<1>4. \A s \in Task : Claims(s)' = Claims(s)
    BY NoneAssumption
       DEF WakeDone, FreeSlot, SetSlot, Claims, Clones, IInv, TypeOK
<1>5. arc[wtask[w]] \in Nat /\ arc[wtask[w]] >= 1
  <2>1. arc[wtask[w]] = Cardinality(Clones(wtask[w])) +
                             (IF Owned(wtask[w]) THEN 1 ELSE 0)
      BY <1>1 DEF IInv, RefCount
  <2> QED
      BY <1>1, <1>2, <1>3, <2>1 DEF IInv, TypeOK
<1>6. unlinked = {}
    BY DEF WakeDone, IInv, Links, Upgraded
<1>7. /\ ready' = <<>> /\ UNCHANGED unlinked
      /\ Entries' = {} /\ EnqueuedOnce' /\ ready' \in Seq(Task)
    BY <1>6 DEF WakeDone, DrainQueue, Entries, EnqueuedOnce
<1>8. /\ pc' = "dropped" /\ pc = "dropped" /\ linked = {} /\ cur = None /\ live = {}
      /\ cur' = None /\ linked' = {} /\ live' = {} /\ UNCHANGED queued
    BY <1>6, NoneAssumption
       DEF WakeDone, DrainQueue, PoolGone, IInv, TypeOK, Shape
<1>9. arc' = [t \in Task |-> arc[t] - (IF t = wtask[w] THEN 1 ELSE 0)
                                      - (IF t \in Entries THEN 1 ELSE 0)]
    BY <1>6 DEF WakeDone, DrainQueue
<1>10. \A s \in Entries : s \in Task /\ Claims(s) = {}
    BY <1>8 DEF IInv, TypeOK, QueuedOnce, Entries, Claims, Clones
<1>11. \A s \in Task : Owned(s)' <=> Owned(s) /\ s \notin Entries
    BY <1>4, <1>7, <1>8, <1>10, NoneAssumption DEF Owned
<1>12. \A s \in Entries : Owned(s)
    BY <1>8 DEF Owned
<1>13. \A s \in Task : arc'[s] = Cardinality(Clones(s)') + (IF Owned(s)' THEN 1 ELSE 0)
  <2> SUFFICES ASSUME NEW s \in Task
               PROVE  arc'[s] = Cardinality(Clones(s)') + (IF Owned(s)' THEN 1 ELSE 0)
      OBVIOUS
  <2>1. /\ arc[s] \in Nat
        /\ arc[s] = Cardinality(Clones(s)) + (IF Owned(s) THEN 1 ELSE 0)
        /\ arc'[s] = arc[s] - (IF s = wtask[w] THEN 1 ELSE 0)
                            - (IF s \in Entries THEN 1 ELSE 0)
      BY <1>9 DEF IInv, TypeOK, RefCount
  <2>2. CASE s \in Entries
      BY <1>2, <1>3, <1>11, <1>12, <2>1, <2>2
  <2>3. CASE s \notin Entries
      BY <1>2, <1>3, <1>11, <2>1, <2>3
  <2> QED
      BY <2>2, <2>3
<1>14. \A s \in Task : Cardinality(Clones(s)') \in Nat
    BY <1>1, <1>2, <1>3
<1>15. arc' \in [Task -> Nat]
    BY <1>9, <1>13, <1>14
<1>16. TypeOK'
    BY <1>1, <1>7, <1>8, <1>15
       DEF IInv, TypeOK, ExecPc, Outcome, SlotPc, WakeDone, FreeSlot, SetSlot,
        mem, exec, slots, history
<1>17. QueuedOnce'
    BY <1>1, <1>4, <1>7, <1>8
       DEF IInv, QueuedOnce, TypeOK, Claims, Clones, WakeDone, FreeSlot,
        SetSlot, mem, exec, slots, history
<1>18. RefCount'
    BY <1>13 DEF RefCount
<1>19. Shape'
    BY <1>1, <1>2, <1>3, <1>4, <1>5, <1>6, <1>7, <1>8, <1>9, <1>10, <1>11,
        <1>12, <1>13, <1>14, <1>15
       DEF IInv, Shape, TypeOK, WakeDone, FreeSlot, SetSlot, mem, exec, slots,
        history
<1>20. Flags'
    BY <1>4, <1>7, <1>8
       DEF IInv, Flags, TypeOK, WakeDone, FreeSlot, SetSlot, mem, exec, slots,
        history
<1>21. Wakes'
    BY <1>1, <1>2, <1>3, <1>4, <1>5, <1>6, <1>7, <1>8, <1>9, <1>10, <1>11,
        <1>12, <1>13, <1>14, <1>15
       DEF IInv, Wakes, WakeDone, FreeSlot, SetSlot, mem, exec, slots, history
<1>22. Links'
    BY <1>6, <1>7
       DEF IInv, Links, WakeDone, FreeSlot, SetSlot, mem, exec, slots, history
<1>23. NoAbortInDrop'
    BY <1>1, <1>2, <1>3, <1>4, <1>5, <1>6, <1>7, <1>8, <1>9, <1>10, <1>11,
        <1>12, <1>13, <1>14, <1>15
       DEF IInv, NoAbortInDrop, WakeDone, FreeSlot, SetSlot, mem, exec, slots,
        history
<1>24. NothingLeftInQueue'
    BY <1>1, <1>2, <1>3, <1>4, <1>5, <1>6, <1>7, <1>8, <1>9, <1>10, <1>11,
        <1>12, <1>13, <1>14, <1>15
       DEF IInv, NothingLeftInQueue, Upgraded, PoolGone, WakeDone, FreeSlot,
        SetSlot, mem, exec, slots, history
<1> QED
    BY <1>16, <1>17, <1>18, <1>19, <1>20, <1>21, <1>22, <1>23, <1>24
       DEF IInv

\* Nothing moves.
LEMMA StutterKeeps ==
    ASSUME IInv, UNCHANGED vars
    PROVE  IInv'
<1>1. UNCHANGED <<Entries, EnqueuedOnce>>
    BY SameEntries DEF vars, queueVars
<1>2. \A s : UNCHANGED <<Clones(s), Claims(s)>>
    BY SameSlots DEF vars
<1> QED
    BY <1>1, <1>2
       DEF IInv, TypeOK, QueuedOnce, RefCount, Owned, Shape, Flags,
        Wakes, Links, NoAbortInDrop, NothingLeftInQueue, Upgraded, PoolGone, vars,
        queueVars, mem, exec, slots, history

-----------------------------------------------------------------------------
(* The theorems *)

LEMMA InitHolds == Init => IInv
<1> SUFFICES ASSUME Init PROVE IInv
    OBVIOUS
<1>1. Entries = {} /\ EnqueuedOnce /\ ready \in Seq(Task)
    BY DEF Init, QueueInit, Entries, EnqueuedOnce
<1>2. \A t \in Task : Clones(t) = {} /\ Claims(t) = {}
    BY NoneAssumption DEF Init, Clones, Claims
<1>3. RefCount
  <2>1. \A t \in Task : Cardinality(Clones(t)) = 0
      BY <1>2, FS_EmptySet
  <2>2. \A t \in Task : ~Owned(t)
      BY <1>1, <1>2, NoneAssumption DEF Init, Owned
  <2> SUFFICES ASSUME NEW t \in Task
               PROVE  arc[t] = Cardinality(Clones(t)) + (IF Owned(t) THEN 1 ELSE 0)
      BY DEF RefCount
  <2>3. arc[t] = 0
      BY DEF Init
  <2> QED
      BY <2>1, <2>2, <2>3
<1>4. TypeOK
    BY <1>1 DEF Init, QueueInit, TypeOK, ExecPc, Outcome, SlotPc
<1>5. QueuedOnce /\ Shape /\ Flags /\ Wakes /\ Links
    BY <1>1, NoneAssumption
       DEF Init, QueueInit, QueuedOnce, Shape, Flags, Wakes, Links
<1>6. NoAbortInDrop /\ NothingLeftInQueue
    BY DEF Init, NoAbortInDrop, NothingLeftInQueue, PoolGone
<1> QED
    BY <1>3, <1>4, <1>5, <1>6 DEF IInv

LEMMA NextKeeps ==
    ASSUME IInv, [Next /\ ~WakeInPutBack]_vars
    PROVE  IInv'
<1>1. CASE Owner
    BY <1>1, PushKeeps, PollNextKeeps, ClearHeadAllKeeps DEF Owner
<1>2. CASE Running
  <2>1. ASSUME NEW t \in Task, ReleaseOne(t) \/ DrainData(t) \/ DequeueReleased(t)
        PROVE  IInv'
      BY <2>1, ReleaseOneKeeps, DrainDataKeeps, DequeueReleasedKeeps
  <2>2. ASSUME NEW t \in Task, DequeuePolled(t) \/ DequeueUnpolled(t)
        PROVE  IInv'
      BY <2>2, DequeuePolledKeeps, DequeueUnpolledKeeps
  <2>3. CASE StartDrain \/ DrainEmpty \/ DrainInconsistent
      BY <2>3, StartDrainKeeps, DrainEndKeeps
  <2>4. CASE DropQueue
      BY <2>4, DropQueueSharedKeeps, DropQueueLastKeeps
  <2>5. CASE DequeueEmpty \/ DequeueInconsistent \/ Requeue
      BY <2>5, DequeueNothingKeeps, RequeueKeeps
  <2>6. CASE (\E w \in Waker : CloneWaker(w)) \/ WakeSelf
      BY <2>6, CloneWakerKeeps, WakeSelfKeeps
  <2>7. CASE PollPending \/ PollReady \/ PollPanic
      BY <2>7, PollPendingKeeps, PollDoneKeeps
  <2> QED
      BY <1>2, <2>1, <2>2, <2>3, <2>4, <2>5, <2>6, <2>7 DEF Running
<1>3. ASSUME NEW w \in Waker, Thread(w), ~WakeInPutBack
      PROVE  IInv'
  <2>1. CASE DropWaker(w) \/ WakeUpgrade(w) \/ WakeTooLate(w)
      BY <2>1, DropWakerKeeps, WakeUpgradeKeeps, WakeTooLateKeeps
  <2>2. CASE WakeIgnored(w) \/ WakeClaim(w)
      BY <1>3, <2>2, WakeIgnoredKeeps, WakeClaimKeeps
  <2>3. CASE WakeSwap(w) \/ WakeLink(w)
      BY <2>3, WakeSwapKeeps, WakeLinkKeeps
  <2>4. CASE WakeDone(w)
      BY <2>4, WakeDoneSharedKeeps, WakeDoneLastKeeps
  <2> QED
      BY <1>3, <2>1, <2>2, <2>3, <2>4 DEF Thread, Waking
<1>4. CASE Ended \/ UNCHANGED vars
    BY <1>4, StutterKeeps DEF Ended
<1> QED
    BY <1>1, <1>2, <1>3, <1>4 DEF Next

\* The specification the runs check describes the race-free programs.
THEOREM RaceFreePrograms == RaceFreeSpec <=> Spec /\ RaceFree
<1>1. [Next /\ ~WakeInPutBack]_vars <=> [Next]_vars /\ [~WakeInPutBack]_vars
    OBVIOUS
<1> QED
    BY <1>1, PTL DEF RaceFreeSpec, Spec, RaceFree

\* The inductive invariant holds as long as no thread claims a task while poll_next
\* puts it back.
THEOREM Invariance == Spec /\ RaceFree => []IInv
<1>1. IInv /\ [Next /\ ~WakeInPutBack]_vars => IInv'
    BY NextKeeps
<1> QED
    BY RaceFreePrograms, InitHolds, <1>1, PTL DEF RaceFreeSpec

\* Every variable keeps its type; in particular no reference count is ever
\* taken below zero, whatever the order of wakes, releases, clears and drops.
THEOREM TypeCorrect == Spec /\ RaceFree => []TypeOK
<1>1. IInv => TypeOK
    BY DEF IInv
<1> QED
    BY <1>1, Invariance, PTL

\* task.rs:61-63 and futures_unordered.rs:444: a task is never in the intrusive
\* queue twice and assert!(prev) never fails, for any number of tasks and wakers.
THEOREM TaskQueuedOnce == Spec /\ RaceFree => []QueuedOnce
<1>1. IInv => QueuedOnce
    BY DEF IInv
<1> QED
    BY <1>1, Invariance, PTL

\* The window of futures_unordered.rs:443-448 is the only way to a double enqueue, and
\* every claim in it leads to one: no weaker condition would do.
THEOREM OnlyTheRace == Spec => ([]QueuedOnce <=> RaceFree)
<1>1. IInv /\ [Next]_vars /\ QueuedOnce' => [~WakeInPutBack]_vars
  <2> SUFFICES ASSUME IInv, QueuedOnce', WakeInPutBack, vars' # vars
               PROVE  FALSE
    OBVIOUS
  <2>1. PICK w \in Waker : wtask[w] = cur /\ WakeClaim(w)
    BY DEF WakeInPutBack, Clones
  <2>2. pc' = "requeue" /\ cur' = wtask'[w] /\ wpc'[w] = "claimed"
    BY <2>1 DEF WakeInPutBack, WakeClaim, SetSlot, exec, IInv, TypeOK
  <2> QED
    BY <2>2 DEF QueuedOnce
<1>2. IInv /\ [Next]_vars /\ [~WakeInPutBack]_vars => IInv'
  BY NextKeeps
<1>3. Spec /\ []QueuedOnce => RaceFree
  BY InitHolds, <1>1, <1>2, PTL DEF Spec, RaceFree
<1> QED
  BY <1>3, TaskQueuedOnce, PTL

\* release_task and the drops of wakers keep every Arc<Task> count exact.
THEOREM CountsAreExact == Spec /\ RaceFree => []RefCount
<1>1. IInv => RefCount
    BY DEF IInv
<1> QED
    BY <1>1, Invariance, PTL

\* No task that is live or still in the queue is freed: `future still here when
\* dropping` (task.rs:118-122) is unreachable, and dequeue never returns a
\* pointer to freed memory.
THEOREM NeverFreedInUse == Spec /\ RaceFree => [](\A t \in live \union Entries : arc[t] > 0)
<1>1. IInv => \A t \in live \union Entries : arc[t] > 0
  <2> SUFFICES ASSUME IInv, NEW t \in live \union Entries
               PROVE  arc[t] > 0
      OBVIOUS
  <2>1. t \in Task /\ Owned(t)
      BY DEF IInv, TypeOK, Shape, Owned, Entries
  <2>2. arc[t] = Cardinality(Clones(t)) + 1 /\ Cardinality(Clones(t)) \in Nat
      BY <2>1, CloneCount DEF IInv, RefCount
  <2> QED
      BY <2>2
<1> QED
    BY <1>1, Invariance, PTL

\* A wake-up of a pending task is never lost.
THEOREM WakesAreKept == Spec /\ RaceFree => []NoLostWake
<1>1. IInv => NoLostWake
    BY DEF IInv, Wakes, Flags, NoLostWake
<1> QED
    BY <1>1, Invariance, PTL

\* The destructor of the queue runs when nobody is inside an enqueue, so it never
\* aborts (futures_unordered.rs:568-579).
THEOREM DropIsClean == Spec /\ RaceFree => []NoAbortInDrop
<1>1. IInv => NoAbortInDrop
    BY DEF IInv
<1> QED
    BY <1>1, Invariance, PTL

\* The destructor leaves no entry behind, also when a thread runs it that was inside
\* wake() while the pool was dropped.
THEOREM DropFreesAll == Spec /\ RaceFree => []NothingLeftInQueue
<1>1. IInv => NothingLeftInQueue
    BY DEF IInv
<1> QED
    BY <1>1, Invariance, PTL

-----------------------------------------------------------------------------
(* A poll cycle reaches every task that is due *)

\* No task stands between a due one and the consumer that it cannot reach.
DueInReach ==
    \A t \in due : \E i \in 1 .. Len(ready) :
        ready[i] = t /\ \A j \in 1 .. i : ready[j] \notin unlinked

\* What is put back in this cycle comes after all that is due.
Follows(t) ==
    \A i, k \in 1 .. Len(ready) : ready[k] = t /\ ready[i] \in due => i < k

\* The call ends early only when it meets the initial task again.
DueInv ==
    /\ InPollNext =>
          /\ due \subseteq live \ polled
          /\ DueInReach
          /\ Follows(initial) /\ Follows(cur)
          /\ cur # None => cur \in polled
          /\ pc = "requeue" /\ cur = initial => due = {}
    /\ ~InPollNext => due = {} \/ (pc = "idle" /\ out \notin {"Ready", "Pending"})

\* The queue stays, or an entry is linked.
LEMMA StayDue ==
    ASSUME ready' = ready, unlinked' \subseteq unlinked, due' \subseteq due
    PROVE  /\ DueInReach => DueInReach'
           /\ \A t : Follows(t) => Follows(t)'
<1>1. DueInReach => DueInReach'
    BY DEF DueInReach
<1>2. \A t : Follows(t) => Follows(t)'
    BY DEF Follows
<1> QED
    BY <1>1, <1>2

\* A task that is not due is appended.
LEMMA AppendDue ==
    ASSUME NEW t \in Task, ready \in Seq(Task), t \notin Entries, t \notin due,
           ready' = Append(ready, t), unlinked' \subseteq unlinked \union {t}, due' = due
    PROVE  /\ DueInReach => DueInReach'
           /\ \A u : Follows(u) => Follows(u)'
<1>1. /\ Len(ready') = Len(ready) + 1 /\ Len(ready) \in Nat
      /\ \A i \in 1 .. Len(ready) : ready'[i] = ready[i] /\ ready[i] # t
      /\ ready'[Len(ready) + 1] = t
  <2>1. DOMAIN ready = 1 .. Len(ready)
      OBVIOUS
  <2> QED
      BY <2>1 DEF Entries
<1>2. ASSUME DueInReach PROVE DueInReach'
  <2> SUFFICES ASSUME NEW u \in due
      PROVE  \E i \in 1 .. Len(ready') : ready'[i] = u /\ \A j \in 1 .. i : ready'[j] \notin unlinked'
      BY DEF DueInReach
  <2>1. PICK i \in 1 .. Len(ready) : ready[i] = u /\ \A j \in 1 .. i : ready[j] \notin unlinked
      BY <1>2 DEF DueInReach
  <2>2. i \in 1 .. Len(ready') /\ \A j \in 1 .. i : j \in 1 .. Len(ready)
      BY <1>1
  <2> QED
      BY <1>1, <2>1, <2>2
<1>3. ASSUME NEW u, Follows(u) PROVE Follows(u)'
  <2> SUFFICES ASSUME NEW i \in 1 .. Len(ready'), NEW k \in 1 .. Len(ready'),
                      ready'[k] = u, ready'[i] \in due
               PROVE  i < k
      BY DEF Follows
  <2>1. i \in 1 .. Len(ready)
      BY <1>1
  <2>2. CASE k \in 1 .. Len(ready)
      BY <1>1, <1>3, <2>1, <2>2 DEF Follows
  <2>3. CASE k = Len(ready) + 1
      BY <1>1, <2>1, <2>3
  <2> QED
      BY <1>1, <2>2, <2>3
<1> QED
    BY <1>2, <1>3

\* A task that is due no longer is taken out; nothing is due before the first entry.
LEMMA TakeDue ==
    ASSUME NEW t \in Task, ready \in Seq(Task), EnqueuedOnce, DequeueData(t),
           due' \subseteq due, t \notin due'
    PROVE  /\ DueInReach => DueInReach'
           /\ \A u : Follows(u) => Follows(u)'
           /\ Follows(t)'
           /\ DueInReach /\ Follows(t) => due = {}
<1>1. /\ ready # <<>> /\ t = ready[1]
      /\ ready' = Tail(ready) /\ unlinked' = unlinked
    BY DEF DequeueData, TakesHead
<1>2. /\ Len(ready) \in Nat /\ Len(ready) >= 1 /\ DOMAIN ready = 1 .. Len(ready)
      /\ Len(ready') = Len(ready) - 1
      /\ \A i \in 1 .. Len(ready') : ready'[i] = ready[i + 1]
    BY <1>1
<1>3. ASSUME DueInReach PROVE DueInReach'
  <2> SUFFICES ASSUME NEW u \in due'
      PROVE  \E i \in 1 .. Len(ready') : ready'[i] = u /\ \A j \in 1 .. i : ready'[j] \notin unlinked'
      BY DEF DueInReach
  <2>1. PICK i \in 1 .. Len(ready) : ready[i] = u /\ \A j \in 1 .. i : ready[j] \notin unlinked
      BY <1>3 DEF DueInReach
  <2>2. i # 1
      BY <1>1, <2>1
  <2>3. i - 1 \in 1 .. Len(ready') /\ ready'[i - 1] = u
      BY <1>2, <2>1, <2>2
  <2>4. \A j \in 1 .. i - 1 : j \in 1 .. Len(ready') /\ j + 1 \in 1 .. i
      BY <1>2, <2>2
  <2> QED
      BY <1>1, <1>2, <2>1, <2>3, <2>4
<1>4. ASSUME NEW u, Follows(u) PROVE Follows(u)'
  <2> SUFFICES ASSUME NEW i \in 1 .. Len(ready'), NEW k \in 1 .. Len(ready'),
                      ready'[k] = u, ready'[i] \in due
               PROVE  i < k
      BY DEF Follows
  <2>1. /\ i + 1 \in 1 .. Len(ready) /\ k + 1 \in 1 .. Len(ready)
        /\ ready[k + 1] = u /\ ready[i + 1] \in due
      BY <1>2
  <2>2. i + 1 < k + 1
      BY <1>4, <2>1 DEF Follows
  <2> QED
      BY <2>2
<1>5. Follows(t)'
  <2>1. t \notin Entries' /\ ready' \in Seq(Task)
      BY TailEntry
  <2>2. \A k \in 1 .. Len(ready') : ready'[k] # t
      BY <2>1 DEF Entries
  <2> QED
      BY <2>2 DEF Follows
<1>6. ASSUME DueInReach, Follows(t), NEW u \in due PROVE FALSE
  <2>1. PICK i \in 1 .. Len(ready) : ready[i] = u
      BY <1>6 DEF DueInReach
  <2>2. i < 1
      BY <1>1, <1>2, <1>6, <2>1 DEF Follows
  <2> QED
      BY <1>2, <2>2
<1> QED
    BY <1>3, <1>4, <1>5, <1>6

LEMMA CallsKeepDue ==
    ASSUME IInv, DueInv, Owner
    PROVE  DueInv'
<1>1. CASE \E t \in Task : Push(t)
    BY <1>1 DEF Push, exec, history, DueInv, InPollNext
<1>2. ASSUME NEW f \in BOOLEAN, PollNext(f) PROVE DueInv'
  <2>1. /\ due' = (Reachable \intersect live) \ polled' /\ UNCHANGED <<ready, unlinked, live, cur>>
        /\ pc = "idle" /\ pc' = "loop" /\ initial' = None
      BY <1>2 DEF PollNext, queueVars, mem
  <2>2. DueInReach'
    <3> SUFFICES ASSUME NEW t \in Reachable
        PROVE  \E i \in 1 .. Len(ready) : ready[i] = t /\ \A j \in 1 .. i : ready[j] \notin unlinked
        BY <2>1 DEF DueInReach
    <3>1. DOMAIN ready = 1 .. Len(ready)
        BY DEF IInv, TypeOK
    <3>2. PICK i \in 1 .. Len(ready) : ready[i] = t /\ \A k \in 1 .. Len(ready) : k <= i => ready[k] \notin unlinked
        BY <3>1 DEF Reachable
    <3>3. \A j \in 1 .. i : j \in 1 .. Len(ready) /\ j <= i
        BY <3>2 DEF IInv, TypeOK
    <3> QED
        BY <3>2, <3>3
  <2>3. cur = None
      BY <2>1 DEF IInv, TypeOK
  <2>4. Follows(None)'
    <3>1. \A k \in 1 .. Len(ready) : ready[k] # None
        BY NoneAssumption DEF IInv, TypeOK
    <3> QED
        BY <2>1, <3>1 DEF Follows
  <2>5. Follows(initial)' /\ Follows(cur)'
      BY <2>1, <2>3, <2>4 DEF Follows
  <2> QED
      BY <2>1, <2>2, <2>3, <2>5 DEF DueInv, InPollNext
<1>3. CASE Clear \/ Drop
    BY <1>3 DEF Clear, Drop, ClearHeadAll, DueInv, InPollNext
<1> QED
    BY <1>1, <1>2, <1>3 DEF Owner

LEMMA TakesKeepDue ==
    ASSUME IInv, DueInv, NEW t \in Task,
           DequeueReleased(t) \/ DequeuePolled(t) \/ DequeueUnpolled(t)
    PROVE  DueInv'
<1>1. /\ DequeueData(t) /\ pc = "loop" /\ due' \subseteq due /\ t \notin due' /\ live' = live
      /\ initial' = initial
    BY DEF DequeueReleased, DequeuePolled, DequeueUnpolled, TakeTask, history, exec, DueInv, InPollNext
<1>2. ready \in Seq(Task) /\ EnqueuedOnce
    BY DEF IInv, TypeOK, QueuedOnce
<1>3. /\ DueInReach => DueInReach'
      /\ \A u : Follows(u) => (Follows(u))'
      /\ (Follows(t))'
      /\ DueInReach /\ Follows(t) => due = {}
    BY <1>1, <1>2, TakeDue
<1>4. /\ due \subseteq live \ polled /\ DueInReach /\ Follows(initial) /\ Follows(cur)
    BY <1>1 DEF DueInv, InPollNext
<1>5. DueInReach' /\ (Follows(initial))'
  <2>1. PICK u : u = initial
      OBVIOUS
  <2>2. Follows(u)
      BY <1>4, <2>1 DEF Follows
  <2>3. (Follows(u))'
      BY <1>3, <2>2
  <2> QED
      BY <1>1, <1>3, <1>4, <2>1, <2>3 DEF Follows
<1>6. CASE DequeueReleased(t)
  <2>1. UNCHANGED <<cur, pc, polled>> /\ cur = None
      BY <1>1, <1>6 DEF DequeueReleased, exec, IInv, TypeOK
  <2>2. (Follows(cur))'
    <3>1. \A k \in 1 .. Len(ready') : ready'[k] # None
        BY <1>1, <1>2, TailEntry, NoneAssumption
    <3> QED
        BY <2>1, <3>1 DEF Follows
  <2> QED
      BY <1>1, <1>4, <1>5, <2>1, <2>2 DEF DueInv, InPollNext
<1>7. CASE DequeuePolled(t) \/ DequeueUnpolled(t)
  <2>1. cur' = t /\ pc' \in {"requeue", "poll"}
      BY <1>7 DEF DequeuePolled, DequeueUnpolled, TakeTask
  <2>2. t \in polled' /\ due' \subseteq live \ polled' /\ (pc' = "requeue" => due' = due)
      BY <1>4, <1>7 DEF DequeuePolled, DequeueUnpolled, history
  <2>3. (Follows(cur))'
      BY <1>3, <2>1 DEF Follows
  <2>4. ASSUME pc' = "requeue", cur' = initial' PROVE due' = {}
    <3>1. Follows(t)
        BY <1>1, <1>4, <2>1, <2>4 DEF Follows
    <3> QED
        BY <1>1, <1>3, <1>4, <3>1
  <2> QED
      BY <1>1, <1>5, <2>1, <2>2, <2>3, <2>4 DEF DueInv, InPollNext
<1> QED
    BY <1>6, <1>7

LEMMA RequeueKeepsDue ==
    ASSUME IInv, DueInv, Requeue
    PROVE  DueInv'
<1>1. /\ cur \in Task /\ cur \notin Entries /\ ready \in Seq(Task) /\ pc = "requeue"
      /\ due \subseteq live \ polled /\ cur \in polled /\ DueInReach /\ Follows(initial) /\ Follows(cur)
      /\ cur = initial => due = {}
    BY NoneAssumption DEF Requeue, PutBack, IInv, TypeOK, Flags, QueuedOnce, DueInv, InPollNext
<1>2. /\ ready' = Append(ready, cur) /\ unlinked' = unlinked /\ due' = due /\ cur' = None
      /\ UNCHANGED <<live, polled>>
    BY DEF Requeue, PutBack, Enqueue, history
<1>3. PICK c \in Task : c = cur
    BY <1>1
<1>4. PICK f : f = initial
    OBVIOUS
<1>5. DueInReach' /\ (Follows(c))' /\ (Follows(f))'
  <2>1. /\ DueInReach => DueInReach'
        /\ \A u : Follows(u) => (Follows(u))'
      BY <1>1, <1>2, <1>3, AppendDue
  <2>2. Follows(c) /\ Follows(f)
      BY <1>1, <1>3, <1>4 DEF Follows
  <2> QED
      BY <1>1, <2>1, <2>2
<1>6. (Follows(initial))'
  <2>1. initial' \in {c, f}
      BY <1>3, <1>4 DEF Requeue
  <2> QED
      BY <1>5, <2>1 DEF Follows
<1>7. (Follows(cur))'
  <2>1. \A k \in 1 .. Len(ready') : ready'[k] # None
      BY <1>1, <1>2, AppendEntry, NoneAssumption
  <2> QED
      BY <1>2, <2>1 DEF Follows
<1>8. CASE initial = cur
  <2>1. pc' = "idle"
      BY <1>8 DEF Requeue, Return
  <2> QED
      BY <1>1, <1>2, <1>8, <2>1 DEF DueInv, InPollNext
<1>9. CASE initial # cur
  <2>1. pc' = "loop"
      BY <1>9 DEF Requeue, GoOn
  <2> QED
      BY <1>1, <1>2, <1>5, <1>6, <1>7, <2>1 DEF DueInv, InPollNext
<1> QED
    BY <1>8, <1>9

\* The future under poll is not due, so it may do with its waker what it likes.
LEMMA FutureKeepsDue ==
    ASSUME IInv, DueInv,
           (\E w \in Waker : CloneWaker(w)) \/ WakeSelf \/ PollPending \/ PollReady \/ PollPanic
    PROVE  DueInv'
<1>1. pc = "poll" /\ cur \in Task /\ due' = due /\ polled' = polled
    BY NoneAssumption DEF CloneWaker, WakeSelf, PollPending, PollReady, PollPanic, history, IInv, TypeOK
<1>2. /\ due \subseteq live \ polled /\ cur \in polled
      /\ DueInReach /\ Follows(initial) /\ Follows(cur)
    BY <1>1, NoneAssumption DEF DueInv, InPollNext
<1>3. PICK c \in Task : c = cur
    BY <1>1
<1>4. PICK f : f = initial
    OBVIOUS
<1>5. Follows(c) /\ Follows(f)
    BY <1>2, <1>3, <1>4 DEF Follows
<1>6. DueInReach' /\ (Follows(c))' /\ (Follows(f))' /\ (Follows(None))'
  <2>1. \/ ready' = ready /\ unlinked' = unlinked
        \/ ready' = Append(ready, c) /\ unlinked' = unlinked /\ c \notin Entries
    <3>1. CASE WakeSelf
      <4>1. cur \notin queued => cur \notin Entries
          BY DEF IInv, QueuedOnce
      <4> QED
          BY <1>3, <3>1, <4>1 DEF WakeSelf, Enqueue, queueVars
    <3>2. CASE ~WakeSelf
        BY <3>2 DEF CloneWaker, PollPending, PollReady, PollPanic, queueVars
    <3> QED
        BY <3>1, <3>2
  <2>2. ready \in Seq(Task)
      BY DEF IInv, TypeOK
  <2>3. /\ DueInReach => DueInReach'
        /\ \A u : Follows(u) => (Follows(u))'
    <3>1. CASE ready' = ready /\ unlinked' = unlinked
        BY <1>1, <3>1, StayDue
    <3>2. CASE ready' = Append(ready, c) /\ unlinked' = unlinked /\ c \notin Entries
        BY <1>1, <1>2, <1>3, <2>2, <3>2, AppendDue
    <3> QED
        BY <2>1, <3>1, <3>2
  <2>4. Follows(None)
      BY <2>2, NoneAssumption DEF Follows
  <2> QED
      BY <1>2, <1>5, <2>3, <2>4
<1>7. CASE (\E w \in Waker : CloneWaker(w)) \/ WakeSelf
  <2>1. UNCHANGED <<live, pc, cur, initial>>
      BY <1>7 DEF CloneWaker, WakeSelf
  <2>2. (Follows(initial))' /\ (Follows(cur))'
      BY <1>3, <1>4, <1>6, <2>1 DEF Follows
  <2> QED
      BY <1>1, <1>2, <1>6, <2>1, <2>2 DEF DueInv, InPollNext
<1>8. CASE PollPending \/ PollReady
  <2>1. pc' = "loop" /\ cur' = None /\ due \subseteq live' /\ initial' \in {c, f}
      BY <1>2, <1>3, <1>4, <1>8 DEF PollPending, PollReady, ReleaseTask
  <2>2. (Follows(initial))' /\ (Follows(cur))'
      BY <1>6, <2>1 DEF Follows
  <2> QED
      BY <1>1, <1>2, <1>6, <2>1, <2>2 DEF DueInv, InPollNext
<1>9. CASE PollPanic
    BY <1>9 DEF PollPanic, Return, DueInv, InPollNext
<1> QED
    BY <1>7, <1>8, <1>9

\* A thread enqueues what it claimed, which is in the queue of no one else.
LEMMA ThreadsKeepDue ==
    ASSUME IInv, DueInv, NEW w \in Waker, Thread(w)
    PROVE  DueInv'
<1>1. /\ UNCHANGED <<live, polled, cur, initial, out, due>>
      /\ pc' = pc \/ PoolGone
    BY DEF Thread, Waking, DropWaker, WakeUpgrade, WakeTooLate, WakeIgnored, WakeClaim, WakeSwap,
           WakeLink, WakeDone, mem, exec, history
<1>2. CASE PoolGone
  <2>1. due = {}
      BY <1>2 DEF PoolGone, DueInv, InPollNext
  <2>2. ~InPollNext'
      BY <1>2 DEF PoolGone, InPollNext, Thread, Waking, DropWaker, WakeUpgrade, WakeTooLate, WakeIgnored,
                  WakeClaim, WakeSwap, WakeLink, WakeDone, DrainQueue, exec
  <2> QED
      BY <1>1, <2>1, <2>2 DEF DueInv
<1>3. CASE ~PoolGone /\ ~InPollNext
    BY <1>1, <1>3 DEF DueInv, InPollNext
<1>4. CASE ~PoolGone /\ InPollNext
  <2>1. /\ due \subseteq live \ polled /\ DueInReach /\ Follows(initial) /\ Follows(cur)
        /\ cur # None => cur \in polled
        /\ pc = "requeue" /\ cur = initial => due = {}
      BY <1>4 DEF DueInv
  <2>2. \/ ready' = ready /\ unlinked' \subseteq unlinked
        \/ /\ wtask[w] \in Task \ Entries /\ ready' = Append(ready, wtask[w])
           /\ unlinked' \subseteq unlinked \union {wtask[w]}
    <3>1. CASE WakeSwap(w)
        BY <3>1 DEF WakeSwap, SwapHead, IInv, TypeOK, QueuedOnce
    <3>2. CASE WakeLink(w)
        BY <3>2 DEF WakeLink, LinkPrev
    <3>3. CASE ~WakeSwap(w) /\ ~WakeLink(w)
        BY <1>4, <3>3 DEF Thread, Waking, DropWaker, WakeUpgrade, WakeTooLate, WakeIgnored, WakeClaim,
                          WakeDone, queueVars
    <3> QED
        BY <3>1, <3>2, <3>3
  <2>3. \/ ready' = ready /\ unlinked' \subseteq unlinked
        \/ /\ wtask[w] \notin due /\ wtask[w] \in Task \ Entries
           /\ ready' = Append(ready, wtask[w])
           /\ unlinked' \subseteq unlinked \union {wtask[w]}
    <3>1. due \subseteq Entries
      <4>1. DOMAIN ready = 1 .. Len(ready)
          BY DEF IInv, TypeOK
      <4> QED
          BY <2>1, <4>1 DEF DueInReach, Entries
    <3> QED
        BY <2>2, <3>1
  <2>4. /\ DueInReach => DueInReach'
        /\ \A u : Follows(u) => (Follows(u))'
    <3>1. CASE ready' = ready /\ unlinked' \subseteq unlinked
        BY <1>1, <3>1, StayDue
    <3>2. ASSUME NEW t \in Task, t = wtask[w], t \notin due, t \notin Entries,
                 ready' = Append(ready, t), unlinked' \subseteq unlinked \union {t}
          PROVE  /\ DueInReach => DueInReach'
                 /\ \A u : Follows(u) => (Follows(u))'
        BY <1>1, <3>2, AppendDue DEF IInv, TypeOK
    <3> QED
        BY <2>3, <3>1, <3>2
  <2>5. PICK c, f : c = cur /\ f = initial
      OBVIOUS
  <2>6. (Follows(c))' /\ (Follows(f))'
      BY <2>1, <2>4, <2>5 DEF Follows
  <2>7. (Follows(initial))' /\ (Follows(cur))'
      BY <1>1, <2>5, <2>6 DEF Follows
  <2> QED
      BY <1>1, <1>4, <2>1, <2>4, <2>7 DEF DueInv, InPollNext
<1> QED
    BY <1>2, <1>3, <1>4

LEMMA NextKeepsDue ==
    ASSUME IInv, DueInv, [Next]_vars
    PROVE  DueInv'
<1>1. CASE \E t \in Task : ReleaseOne(t) \/ DrainData(t)
    BY <1>1 DEF ReleaseOne, DrainData, exec, history, DueInv, InPollNext
<1>2. CASE StartDrain \/ DrainEmpty \/ DrainInconsistent \/ DropQueue
    BY <1>2 DEF StartDrain, DrainEmpty, DrainInconsistent, DropQueue, DrainQueue, history, DueInv, InPollNext
<1>3. CASE DequeueEmpty
  <2>1. due = {}
    <3> SUFFICES ASSUME NEW t \in due PROVE FALSE
        OBVIOUS
    <3>1. PICK i \in 1 .. Len(ready) : \A j \in 1 .. i : ready[j] \notin unlinked
        BY <1>3 DEF DequeueEmpty, DueInv, InPollNext, DueInReach
    <3>2. ready \in Seq(Task) /\ ready # <<>> /\ Head(ready) = ready[1] /\ 1 \in 1 .. i
        BY <3>1 DEF IInv, TypeOK
    <3> QED
        BY <1>3, <3>1, <3>2 DEF DequeueEmpty, SeesEmpty
  <2> QED
      BY <1>3, <2>1 DEF DequeueEmpty, Return, history, DueInv, InPollNext
<1>4. CASE DequeueInconsistent
    BY <1>4 DEF DequeueInconsistent, Return, DueInv, InPollNext
<1>5. CASE Ended \/ UNCHANGED vars
  <2>1. UNCHANGED <<ready, unlinked, live, polled, pc, cur, initial, out, due>>
      BY <1>5 DEF Ended, vars, queueVars, mem, exec, history
  <2> QED
      BY <2>1 DEF DueInv, InPollNext, DueInReach, Follows
<1> QED
    BY <1>1, <1>2, <1>3, <1>4, <1>5, CallsKeepDue, TakesKeepDue, RequeueKeepsDue, FutureKeepsDue,
       ThreadsKeepDue DEF Next, Running

\* lib.rs:220-222, "all tasks in the pool will try to make progress": when poll_next
\* reports Ready or Pending, it has polled every task that was due when it was called,
\* whatever is woken and put back meanwhile.
THEOREM AllDueArePolled == Spec /\ RaceFree => []DueArePolled
<1>1. Init => DueInv
    BY DEF Init, DueInv, InPollNext
<1>2. IInv /\ DueInv /\ [Next /\ ~WakeInPutBack]_vars => DueInv'
    BY NextKeepsDue
<1>3. DueInv => DueArePolled
    BY DEF DueInv, DueArePolled, InPollNext
<1> QED
    BY RaceFreePrograms, Invariance, <1>1, <1>2, <1>3, PTL DEF RaceFreeSpec

-----------------------------------------------------------------------------
(* Futures that hand out at most one wake-up per poll are free of the race *)

\* Slots that may still set the flag of their task.
Armed(w) == wpc[w] \in {"held", "upgraded"}

\* A task is queued by the only slot that may wake it.
Budget ==
    /\ \A w \in Waker : Armed(w) /\ wtask[w] \in live =>
          /\ wtask[w] \notin queued
          /\ \A v \in Waker : Armed(v) /\ wtask[v] = wtask[w] => v = w
          /\ ~(pc = "requeue" /\ cur = wtask[w])
    /\ pc = "poll" /\ given = 0 =>
          /\ cur \notin queued
          /\ \A w \in Waker : Armed(w) => wtask[w] # cur

\* A new task has no waker yet.
LEMMA PushKeepsBudget ==
    ASSUME IInv, Budget, NEW t \in Task, Push(t)
    PROVE  Budget'
<1>1. Clones(t) = {}
  <2>1. Cardinality(Clones(t)) + (IF Owned(t) THEN 1 ELSE 0) = 0
      BY DEF Push, IInv, RefCount
  <2> QED
      BY <2>1, CloneCount
<1>2. \A w \in Waker : wtask[w] # t
    BY <1>1 DEF Clones
<1> QED
    BY <1>2 DEF Budget, Armed, Push, exec, slots

\* A task that is taken out of the queue has no armed waker.
LEMMA TakeKeepsBudget ==
    ASSUME IInv, Budget, NEW t \in Task, DequeuePolled(t) \/ DequeueUnpolled(t)
    PROVE  Budget'
<1>1. t \in live /\ t \in queued /\ cur' = t /\ UNCHANGED <<wpc, wtask, live>>
    BY DEF DequeuePolled, DequeueUnpolled, TakeTask, slots
<1>2. queued' = queued \ {t}
    BY DEF DequeuePolled, DequeueUnpolled, TakeTask
<1>3. \A w \in Waker : Armed(w) => wtask[w] # t
    BY <1>1 DEF Budget
<1> QED
    BY <1>1, <1>2, <1>3 DEF Budget, Armed

\* A released task is not live, and the executor goes on to nothing it polls.
LEMMA ReleaseKeepsBudget ==
    ASSUME IInv, Budget, (\E t \in Task : ReleaseOne(t)) \/ PollReady \/ PollPanic
    PROVE  Budget'
<1>1. PICK t : ReleaseTask(t)
    BY DEF ReleaseOne, PollReady, PollPanic
<1>2. UNCHANGED <<wpc, wtask>> /\ pc' \notin {"requeue", "poll"}
    BY DEF ReleaseOne, PollReady, PollPanic, Return, exec, slots
<1> QED
    BY <1>1, <1>2 DEF Budget, Armed, ReleaseTask

\* The future under poll spends its one wake-up.
LEMMA SpendKeepsBudget ==
    ASSUME IInv, Budget, WakesPerPoll <= 1, (\E w \in Waker : CloneWaker(w)) \/ WakeSelf
    PROVE  Budget'
<1>1. /\ pc = "poll" /\ pc' = "poll" /\ cur' = cur /\ given = 0 /\ given' = 1
      /\ UNCHANGED live
    BY WakesAssumption DEF CloneWaker, WakeSelf, IInv, TypeOK
<1>2. cur \notin queued /\ \A v \in Waker : Armed(v) => wtask[v] # cur
    BY <1>1 DEF Budget
<1>3. ASSUME NEW w \in Waker, CloneWaker(w) PROVE Budget'
    BY <1>1, <1>2, <1>3 DEF CloneWaker, Budget, Armed, IInv, TypeOK
<1>4. CASE WakeSelf
    BY <1>1, <1>2, <1>4 DEF WakeSelf, Budget, Armed, slots
<1> QED
    BY <1>3, <1>4

\* A slot is used once.
LEMMA ThreadKeepsBudget ==
    ASSUME IInv, Budget, NEW w \in Waker, Thread(w)
    PROVE  Budget'
<1>1. UNCHANGED <<live, cur, given>> /\ (pc' = pc \/ pc' \notin {"requeue", "poll"})
    BY DEF Thread, Waking, DropWaker, WakeUpgrade, WakeTooLate, WakeIgnored, WakeClaim, WakeSwap,
           WakeLink, WakeDone, DrainQueue, mem, exec
<1>2. \A v \in Waker : Armed(v)' => Armed(v) /\ wtask'[v] = wtask[v]
    BY DEF Thread, Waking, DropWaker, WakeUpgrade, WakeTooLate, WakeIgnored, WakeClaim, WakeSwap,
           WakeLink, WakeDone, SetSlot, FreeSlot, Armed, IInv, TypeOK
<1>3. CASE WakeClaim(w)
  <2>1. Armed(w) /\ ~Armed(w)' /\ queued' = queued \union {wtask[w]} /\ pc' = pc
      BY <1>3 DEF WakeClaim, SetSlot, Armed, IInv, TypeOK, exec
  <2>2. wtask[w] \in live
      BY <1>3 DEF WakeClaim, IInv, TypeOK, Flags
  <2>3. \A v \in Waker : Armed(v)' => wtask[v] # wtask[w]
      BY <1>2, <2>1, <2>2 DEF Budget
  <2>4. pc = "poll" /\ given = 0 => cur # wtask[w]
      BY <2>1 DEF Budget
  <2> QED
      BY <1>1, <1>2, <2>1, <2>3, <2>4 DEF Budget
<1>4. CASE ~WakeClaim(w)
  <2>1. UNCHANGED queued
      BY <1>4 DEF Thread, Waking, DropWaker, WakeUpgrade, WakeTooLate, WakeIgnored, WakeSwap,
                  WakeLink, WakeDone, mem
  <2> QED
      BY <1>1, <1>2, <2>1 DEF Budget
<1> QED
    BY <1>3, <1>4

\* With at most one wake-up per poll, a waker that may still be used belongs to a
\* task that is not queued, and nobody else may use one of that task.
LEMMA NextKeepsBudget ==
    ASSUME IInv, Budget, WakesPerPoll <= 1, [Next]_vars
    PROVE  Budget'
<1>1. CASE (\E fresh \in BOOLEAN : PollNext(fresh)) \/ Clear \/ Drop
    BY <1>1 DEF PollNext, Clear, Drop, ClearHeadAll, mem, slots, Budget, Armed
<1>2. CASE \E t \in Task : DrainData(t) \/ DequeueReleased(t)
    BY <1>2 DEF DrainData, DequeueReleased, exec, slots, Budget, Armed
<1>3. CASE StartDrain \/ DrainEmpty \/ DrainInconsistent \/ DropQueue
    BY <1>3 DEF StartDrain, DrainEmpty, DrainInconsistent, DropQueue, DrainQueue, mem, slots,
                Budget, Armed
<1>4. CASE DequeueEmpty \/ DequeueInconsistent \/ PollPending
    BY <1>4 DEF DequeueEmpty, DequeueInconsistent, PollPending, Return, mem, slots, Budget, Armed
<1>5. CASE Requeue
  <2>1. /\ cur \in live /\ pc = "requeue" /\ pc' \notin {"requeue", "poll"}
        /\ queued' = queued \union {cur} /\ UNCHANGED <<wpc, wtask, live>>
      BY <1>5, NoneAssumption
         DEF Requeue, PutBack, GoOn, Return, slots, IInv, TypeOK, Shape
  <2> QED
      BY <2>1 DEF Budget, Armed
<1>6. CASE Ended \/ UNCHANGED vars
    BY <1>6 DEF Ended, vars, mem, exec, slots, Budget, Armed
<1> QED
    BY <1>1, <1>2, <1>3, <1>4, <1>5, <1>6, WakesPerPoll <= 1, PushKeepsBudget, TakeKeepsBudget,
       ReleaseKeepsBudget, SpendKeepsBudget, ThreadKeepsBudget DEF Next, Owner, Running

LEMMA BudgetIsRaceFree ==
    ASSUME IInv, Budget
    PROVE  ~WakeInPutBack
<1> SUFFICES ASSUME pc = "requeue", NEW w \in Waker, wtask[w] = cur, WakeClaim(w)
             PROVE  FALSE
    BY DEF WakeInPutBack, Clones
<1>1. cur \in live
    BY NoneAssumption DEF IInv, TypeOK, Shape
<1> QED
    BY <1>1 DEF WakeClaim, Budget, Armed

\* Futures that hand out at most one wake-up per poll, as yield_now and sleep_ticks do,
\* never run into the window of futures_unordered.rs:443-448, on any number of threads.
\* A wake-up is one use: a waker that is kept, cloned again or woken by reference again
\* hands out more, and such a program is outside this theorem.
THEOREM OneWakeIsRaceFree ==
    ASSUME WakesPerPoll <= 1
    PROVE  Spec => RaceFree
<1>1. Init => Budget
    BY DEF Init, Budget, Armed
<1>2. IInv /\ Budget /\ [Next]_vars => IInv' /\ Budget'
  <2> SUFFICES ASSUME IInv, Budget, [Next]_vars PROVE IInv' /\ Budget'
      OBVIOUS
  <2>1. Budget'
      BY NextKeepsBudget, WakesPerPoll <= 1
  <2>2. [Next /\ ~WakeInPutBack]_vars
      BY BudgetIsRaceFree
  <2> QED
      BY <2>1, <2>2, NextKeeps
<1>3. IInv /\ Budget => [~WakeInPutBack]_vars
    BY BudgetIsRaceFree
<1> QED
    BY InitHolds, <1>1, <1>2, <1>3, PTL DEF Spec, RaceFree

-----------------------------------------------------------------------------
(* Programs that use their wakers on the executor's thread only *)

\* A step of anybody else finds no wake-up in the middle.
LEMMA NobodyInside ==
    ASSUME IInv, OnOneThread, UNCHANGED slots
    PROVE  Upgraded = {} /\ unlinked = {}
<1>1. ASSUME NEW w \in Upgraded PROVE FALSE
  <2>1. w \in Waker /\ Waking(w)
      BY <1>1 DEF OnOneThread, Upgraded
  <2>2. wpc'[w] # wpc[w]
      BY <2>1 DEF Waking, WakeIgnored, WakeClaim, WakeSwap, WakeLink, WakeDone, SetSlot, FreeSlot,
                  IInv, TypeOK
  <2> QED
      BY <2>2 DEF slots
<1>2. unlinked = {}
    BY <1>1 DEF IInv, Links, Upgraded
<1> QED
    BY <1>1, <1>2

\* futures_unordered.rs:443-448 runs no code of a future, so on one thread no wake-up can
\* fall between the two swaps, however many wake-ups a poll hands out.
THEOREM OneThreadIsRaceFree == OneThread => RaceFree
<1>1. [OnOneThread]_vars => [~WakeInPutBack]_vars
    BY DEF OnOneThread, WakeInPutBack, Clones, Thread, Waking
<1> QED
    BY <1>1, PTL DEF OneThread, RaceFree

\* On one thread the consumer never meets an enqueue in the middle.
NeverInconsistent == NoAbortInClear /\ out # "Inconsistent"

LEMMA NextKeepsConsistent ==
    ASSUME IInv, NeverInconsistent, [Next]_vars, [OnOneThread]_vars
    PROVE  NeverInconsistent'
<1>1. CASE OnOneThread /\ (DrainInconsistent \/ DequeueInconsistent)
  <2>1. unlinked = {}
      BY <1>1, NobodyInside DEF DrainInconsistent, DequeueInconsistent
  <2> QED
      BY <1>1, <2>1 DEF DrainInconsistent, DequeueInconsistent, SeesInconsistent
<1>2. CASE Owner
    BY <1>2 DEF Owner, Push, PollNext, Clear, Drop, ClearHeadAll, exec, NeverInconsistent, NoAbortInClear
<1>3. CASE Running /\ ~DrainInconsistent /\ ~DequeueInconsistent
    BY <1>3 DEF Running, ReleaseOne, DrainData, DequeueReleased, DequeuePolled, DequeueUnpolled,
        TakeTask, StartDrain, DrainEmpty, DropQueue, DrainQueue, DequeueEmpty, Requeue, PutBack,
        GoOn, Return, CloneWaker, WakeSelf, PollPending, PollReady, PollPanic, exec,
        NeverInconsistent, NoAbortInClear
<1>4. CASE (\E w \in Waker : Thread(w)) \/ Ended \/ UNCHANGED vars
    BY <1>4 DEF Thread, Waking, DropWaker, WakeUpgrade, WakeTooLate, WakeIgnored, WakeClaim, WakeSwap,
        WakeLink, WakeDone, DrainQueue, Ended, vars, exec, NeverInconsistent, NoAbortInClear
<1> QED
    BY <1>1, <1>2, <1>3, <1>4 DEF Next

\* futures_unordered.rs:547, "we just cleared all the tasks, and we have &mut self, so this
\* is safe": true of a program that uses its wakers on one thread.  clear() does not abort
\* there, and no poll_next gives up because of an unfinished enqueue.
THEOREM OneThreadIsConsistent == Spec /\ OneThread => [](NoAbortInClear /\ out # "Inconsistent")
<1>1. Init => NeverInconsistent
    BY DEF Init, NeverInconsistent, NoAbortInClear
<1>2. IInv /\ NeverInconsistent /\ [Next]_vars /\ [OnOneThread]_vars => NeverInconsistent'
    BY NextKeepsConsistent
<1>3. NeverInconsistent <=> NoAbortInClear /\ out # "Inconsistent"
    BY DEF NeverInconsistent
<1> QED
    BY OneThreadIsRaceFree, Invariance, <1>1, <1>2, <1>3, PTL DEF Spec, OneThread

\* On one thread a call of poll_next owes a poll to every task woken before it, except those
\* it has polled since the last increment_counter; AllDueArePolled says that it pays.
THEOREM WokenAreDue ==
    Spec /\ OneThread => [][\A f \in BOOLEAN : PollNext(f) => woken \ polled' \subseteq due']_vars
<1>1. ASSUME IInv, [OnOneThread]_vars, NEW f \in BOOLEAN, PollNext(f)
      PROVE  woken \ polled' \subseteq due'
  <2>1. OnOneThread
    <3>1. pc' # pc
        BY <1>1 DEF PollNext
    <3> QED
        BY <1>1, <3>1 DEF vars, exec
  <2>2. Upgraded = {} /\ unlinked = {}
      BY <1>1, <2>1, NobodyInside DEF PollNext
  <2>3. woken \subseteq Entries \intersect live
    <3>1. \A t : Claims(t) = {}
        BY <2>2 DEF Claims, Clones, Upgraded
    <3> QED
        BY <1>1, <3>1 DEF PollNext, IInv, Wakes, Flags
  <2>4. Entries = Reachable
      BY <2>2 DEF Entries, Reachable
  <2> QED
      BY <1>1, <2>3, <2>4 DEF PollNext
<1>2. IInv /\ [OnOneThread]_vars =>
          [\A f \in BOOLEAN : PollNext(f) => woken \ polled' \subseteq due']_vars
    BY <1>1
<1> QED
    BY OneThreadIsRaceFree, Invariance, <1>2, PTL DEF Spec, OneThread
=============================================================================
