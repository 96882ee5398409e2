--------------------------- MODULE TaskList_proofs ---------------------------
(***************************************************************************)
(* link and unlink do to the list of pointers what adding a task in front, *)
(* or taking one out, does to the sequence it stands for.                  *)
(***************************************************************************)
EXTENDS TaskList, SequenceTheorems, TLAPS

\* What the list lemmas need of a list and its sequence.
Sound(l, s) ==
    /\ l \in ListType /\ s \in Seq(Task)
    /\ Represents(l, s) /\ Distinct(s)

LEMMA Cons ==
    ASSUME NEW s \in Seq(Task), NEW t \in Task
    PROVE  /\ <<t>> \o s \in Seq(Task)
           /\ Len(<<t>> \o s) = Len(s) + 1
           /\ (<<t>> \o s)[1] = t
           /\ \A i \in 1 .. Len(s) : (<<t>> \o s)[i + 1] = s[i]
           /\ \A i \in 2 .. Len(s) + 1 : (<<t>> \o s)[i] = s[i - 1]
<1>1. <<t>> \in Seq(Task) /\ Len(<<t>>) = 1 /\ <<t>>[1] = t
  OBVIOUS
<1>2. \A i \in 1 .. Len(<<t>>) + Len(s) :
         (<<t>> \o s)[i] = IF i <= Len(<<t>>) THEN <<t>>[i] ELSE s[i - Len(<<t>>)]
  BY <1>1, ConcatProperties
<1>3. <<t>> \o s \in Seq(Task) /\ Len(<<t>> \o s) = Len(s) + 1
  BY <1>1, ConcatProperties, LenProperties
<1>4. Len(s) \in Nat
  BY LenProperties
<1> QED
  BY <1>1, <1>2, <1>3, <1>4

\* Members of a longer sequence.
LEMMA ConsMember ==
    ASSUME NEW s \in Seq(Task), NEW t \in Task, NEW u
    PROVE  Member(<<t>> \o s, u) <=> u = t \/ Member(s, u)
<1> DEFINE r == <<t>> \o s
<1>1. Len(s) \in Nat /\ Len(r) = Len(s) + 1
  BY Cons, LenProperties
<1>2. r[1] = t /\ \A i \in 1 .. Len(s) : r[i + 1] = s[i]
  BY Cons
<1>3. \A i \in 2 .. Len(s) + 1 : r[i] = s[i - 1]
  BY Cons
<1> HIDE DEF r
<1>4. ASSUME Member(r, u) PROVE u = t \/ Member(s, u)
  <2>1. PICK i \in 1 .. Len(r) : r[i] = u
    BY <1>4 DEF Member
  <2>2. CASE i = 1
    BY <2>1, <2>2, <1>2
  <2>3. CASE i # 1
    <3>1. i - 1 \in 1 .. Len(s) /\ i \in 2 .. Len(s) + 1
      BY <2>1, <2>3, <1>1
    <3> QED
      BY <3>1, <2>1, <1>3 DEF Member
  <2> QED
    BY <2>2, <2>3
<1>5. ASSUME u = t PROVE Member(r, u)
  BY <1>5, <1>1, <1>2 DEF Member
<1>6. ASSUME Member(s, u) PROVE Member(r, u)
  <2>1. PICK i \in 1 .. Len(s) : s[i] = u
    BY <1>6 DEF Member
  <2>2. i + 1 \in 1 .. Len(r)
    BY <2>1, <1>1
  <2> QED
    BY <2>1, <2>2, <1>2 DEF Member
<1> QED
  BY <1>4, <1>5, <1>6 DEF r

LEMMA ConsDistinct ==
    ASSUME NEW s \in Seq(Task), NEW t \in Task, Distinct(s), ~Member(s, t)
    PROVE  Distinct(<<t>> \o s)
<1> DEFINE r == <<t>> \o s
<1>1. Len(s) \in Nat /\ Len(r) = Len(s) + 1
  BY Cons, LenProperties
<1>2. r[1] = t /\ \A i \in 2 .. Len(s) + 1 : r[i] = s[i - 1]
  BY Cons
<1> HIDE DEF r
<1>3. ASSUME NEW i \in 1 .. Len(r), NEW j \in 1 .. Len(r), r[i] = r[j], i # 1, j # 1 PROVE i = j
  <2>1. i - 1 \in 1 .. Len(s) /\ j - 1 \in 1 .. Len(s)
    BY <1>1, <1>3
  <2>2. s[i - 1] = s[j - 1]
    BY <1>1, <1>2, <1>3
  <2> QED
    BY <2>1, <2>2, <1>1 DEF Distinct
<1>4. ASSUME NEW i \in 1 .. Len(r), i # 1 PROVE r[i] # r[1]
  <2>1. i - 1 \in 1 .. Len(s) /\ r[i] = s[i - 1]
    BY <1>1, <1>2, <1>4
  <2> QED
    BY <2>1, <1>2 DEF Member
<1> QED
  BY <1>3, <1>4 DEF Distinct, r

\* link() of a task that is not in the list puts it before the others
\* (futures_unordered.rs:265-299).
LEMMA LinkedIsSound ==
    ASSUME NEW l, NEW s, NEW t \in Task, Sound(l, s), ~Member(s, t)
    PROVE  Sound(Linked(l, t), <<t>> \o s)
<1> DEFINE r == <<t>> \o s
           m == Linked(l, t)
<1>1. s \in Seq(Task) /\ l \in ListType /\ Len(s) \in Nat
  BY LenProperties DEF Sound
<1>2. /\ r \in Seq(Task) /\ Len(r) = Len(s) + 1 /\ r[1] = t
      /\ \A i \in 2 .. Len(s) + 1 : r[i] = s[i - 1]
  BY <1>1, Cons
<1>3. \A u : Member(r, u) <=> u = t \/ Member(s, u)
  BY <1>1, ConsMember
<1>4. Distinct(r)
  BY <1>1, ConsDistinct DEF Sound
<1>5. Count(l) = Len(s)
  BY DEF Sound, Represents
<1>6. /\ m.head = t
      /\ m.next = [l.next EXCEPT ![t] = l.head]
      /\ m.prev = [u \in Task |-> IF u = l.head THEN t ELSE l.prev[u]]
      /\ m.len = [l.len EXCEPT ![t] = Count(l) + 1]
  BY DEF Linked
<1>7. m \in ListType
  BY <1>1, <1>5 DEF Linked, ListType
<1>8. \A i \in 1 .. Len(s) : s[i] \in Task /\ s[i] # t
  BY <1>1, ElementOfSeq DEF Member
<1>9. l.head = (IF Len(s) = 0 THEN Null ELSE s[1]) /\ t # Null
  BY PointerAssumption DEF Sound, Represents
<1>10. \A i \in 1 .. Len(s) : /\ l.next[s[i]] = (IF i = Len(s) THEN Null ELSE s[i + 1])
                              /\ l.prev[s[i]] = (IF i = 1 THEN Null ELSE s[i - 1])
  BY DEF Sound, Represents
<1>11. l.next \in [Task -> Task \union {Null, PendingNextAll}] /\ l.len \in [Task -> Int]
  BY <1>1 DEF ListType
<1>12. \A i, j \in 1 .. Len(s) : s[i] = s[j] => i = j
  BY DEF Sound, Distinct
<1>13. \A u \in Task : ~Member(s, u) => l.next[u] = PendingNextAll /\ l.prev[u] = Null
  BY DEF Sound, Represents
<1> HIDE DEF r, m
<1>20. Count(m) = Len(r)
  BY <1>2, <1>5, <1>6, <1>9, <1>11 DEF Count
<1>21. m.next[t] = (IF Len(s) = 0 THEN Null ELSE s[1])
  BY <1>6, <1>9, <1>11
<1>22. m.prev[t] = Null
  <2>1. t # l.head
    BY <1>1, <1>8, <1>9
  <2> QED
    BY <2>1, <1>6, <1>13
<1>23. ASSUME NEW i \in 1 .. Len(r)
       PROVE  /\ m.next[r[i]] = (IF i = Len(r) THEN Null ELSE r[i + 1])
              /\ m.prev[r[i]] = (IF i = 1 THEN Null ELSE r[i - 1])
  <2>1. CASE i = 1
    <3>1. CASE Len(s) = 0
      BY <2>1, <3>1, <1>2, <1>21, <1>22
    <3>2. CASE Len(s) # 0
      <4>1. r[2] = s[1] /\ Len(r) # 1
        BY <3>2, <1>1, <1>2
      <4> QED
        BY <2>1, <3>2, <4>1, <1>2, <1>21, <1>22
    <3> QED
      BY <3>1, <3>2
  <2>2. CASE i # 1
    <3> DEFINE k == i - 1
    <3>1. k \in 1 .. Len(s) /\ i \in 2 .. Len(s) + 1 /\ i = k + 1
      BY <2>2, <1>1, <1>2
    <3>2. r[i] = s[k] /\ s[k] \in Task /\ s[k] # t
      BY <3>1, <1>2, <1>8
    <3>3. m.next[r[i]] = l.next[s[k]]
      BY <3>2, <1>6, <1>11
    <3>4. k # Len(s) => r[i + 1] = s[k + 1]
      <4>1. k # Len(s) => i + 1 \in 2 .. Len(s) + 1 /\ (i + 1) - 1 = k + 1
        BY <3>1, <1>1
      <4> QED
        BY <4>1, <1>2
    <3>5. m.next[r[i]] = (IF i = Len(r) THEN Null ELSE r[i + 1])
      BY <3>1, <3>3, <3>4, <1>1, <1>2, <1>10
    <3>6. CASE k = 1
      <4>1. s[k] = l.head /\ i - 1 = 1 /\ i # 1
        BY <3>1, <3>6, <1>1, <1>9
      <4>2. m.prev[r[i]] = t
        BY <4>1, <3>2, <1>6
      <4> QED
        BY <4>1, <4>2, <3>5, <1>2
    <3>7. CASE k # 1
      <4>1. s[k] # s[1] /\ s[k] # l.head
        BY <3>1, <3>7, <1>1, <1>9, <1>12
      <4>2. m.prev[r[i]] = l.prev[s[k]]
        BY <4>1, <3>2, <1>6
      <4>3. r[i - 1] = s[k - 1]
        <5>1. i - 1 \in 2 .. Len(s) + 1 /\ (i - 1) - 1 = k - 1
          BY <3>1, <3>7, <1>1
        <5> QED
          BY <5>1, <1>2
      <4> QED
        BY <4>2, <4>3, <3>1, <3>5, <3>7, <2>2, <1>10
    <3> QED
      BY <3>5, <3>6, <3>7
  <2> QED
    BY <2>1, <2>2
<1>24. ASSUME NEW u \in Task, ~Member(r, u)
       PROVE  m.next[u] = PendingNextAll /\ m.prev[u] = Null
  <2>1. u # t /\ ~Member(s, u)
    BY <1>24, <1>3
  <2>2. u # l.head
    BY <2>1, <1>1, <1>9, PointerAssumption DEF Member
  <2> QED
    BY <2>1, <2>2, <1>6, <1>11, <1>13
<1>25. Represents(m, r)
  <2>1. m.head = (IF Len(r) = 0 THEN Null ELSE r[1])
    BY <1>1, <1>2, <1>6
  <2> QED
    BY <2>1, <1>20, <1>23, <1>24 DEF Represents
<1> QED
  BY <1>2, <1>4, <1>7, <1>25 DEF Sound, m, r

\* The sequence without one of its members.
LEMMA WithoutProps ==
    ASSUME NEW s \in Seq(Task), NEW t \in Task, Distinct(s), Member(s, t)
    PROVE  LET k == Position(s, t)  r == Without(s, t)
           IN  /\ k \in 1 .. Len(s) /\ s[k] = t
               /\ r \in Seq(Task) /\ Len(r) = Len(s) - 1
               /\ \A i \in 1 .. Len(r) : r[i] = IF i < k THEN s[i] ELSE s[i + 1]
               /\ Distinct(r)
               /\ \A u : Member(r, u) <=> u # t /\ Member(s, u)
<1> DEFINE k == Position(s, t)
           r == Without(s, t)
<1>1. k \in 1 .. Len(s) /\ s[k] = t
  BY DEF Member, Position
<1>2. Len(s) \in Nat /\ Len(s) - 1 \in Nat
  BY <1>1, LenProperties
<1>3. r = [i \in 1 .. Len(s) - 1 |-> IF i < k THEN s[i] ELSE s[i + 1]]
  BY DEF Without
<1>4. \A i \in 1 .. Len(s) : s[i] \in Task
  BY ElementOfSeq
<1>5. \A i, j \in 1 .. Len(s) : s[i] = s[j] => i = j
  BY DEF Distinct
<1> HIDE DEF k, r
<1>6. r \in [1 .. Len(s) - 1 -> Task]
  <2> SUFFICES ASSUME NEW i \in 1 .. Len(s) - 1
               PROVE  (IF i < k THEN s[i] ELSE s[i + 1]) \in Task
    BY <1>3
  <2>1. i \in 1 .. Len(s) /\ i + 1 \in 1 .. Len(s)
    BY <1>2
  <2> QED
    BY <2>1, <1>4
<1>7. r \in Seq(Task) /\ Len(r) = Len(s) - 1
  BY <1>2, <1>6, LenProperties, SeqDef
<1>8. \A i \in 1 .. Len(r) : r[i] = IF i < k THEN s[i] ELSE s[i + 1]
  BY <1>3, <1>7
<1>9. Distinct(r)
  <2> SUFFICES ASSUME NEW i \in 1 .. Len(r), NEW j \in 1 .. Len(r), r[i] = r[j]
               PROVE  i = j
    BY DEF Distinct
  <2>1. /\ i \in 1 .. Len(s) /\ i + 1 \in 1 .. Len(s)
        /\ j \in 1 .. Len(s) /\ j + 1 \in 1 .. Len(s)
    BY <1>2, <1>7
  <2> QED
    BY <2>1, <1>1, <1>5, <1>8
<1>10. ASSUME NEW u, Member(r, u) PROVE u # t /\ Member(s, u)
  <2>1. PICK i \in 1 .. Len(r) : r[i] = u
    BY <1>10 DEF Member
  <2>2. i \in 1 .. Len(s) /\ i + 1 \in 1 .. Len(s)
    BY <1>2, <1>7
  <2>3. CASE i < k
    BY <2>1, <2>2, <2>3, <1>1, <1>5, <1>8 DEF Member
  <2>4. CASE ~(i < k)
    <3>1. u = s[i + 1] /\ i + 1 # k
      BY <2>1, <2>4, <1>1, <1>8
    <3> QED
      BY <3>1, <2>2, <1>1, <1>5 DEF Member
  <2> QED
    BY <2>3, <2>4
<1>11. ASSUME NEW u, u # t, Member(s, u) PROVE Member(r, u)
  <2>1. PICK i \in 1 .. Len(s) : s[i] = u
    BY <1>11 DEF Member
  <2>2. i # k
    BY <2>1, <1>1, <1>11
  <2>3. CASE i < k
    <3>1. i \in 1 .. Len(r)
      BY <2>3, <1>1, <1>2, <1>7
    <3> QED
      BY <3>1, <2>1, <2>3, <1>8 DEF Member
  <2>4. CASE ~(i < k)
    <3>1. i - 1 \in 1 .. Len(r) /\ ~(i - 1 < k) /\ (i - 1) + 1 = i
      BY <2>2, <2>4, <1>1, <1>2, <1>7
    <3> QED
      BY <3>1, <2>1, <1>8 DEF Member
  <2> QED
    BY <2>3, <2>4
<1> QED
  BY <1>1, <1>7, <1>8, <1>9, <1>10, <1>11 DEF k, r

\* unlink() of any task of the list takes it out and keeps the order of the others
\* (futures_unordered.rs:305-338).
LEMMA UnlinkedIsSound ==
    ASSUME NEW l, NEW s, NEW t \in Task, Sound(l, s), Member(s, t)
    PROVE  Sound(Unlinked(l, t), Without(s, t))
<1> DEFINE k == Position(s, t)
           r == Without(s, t)
           m == Unlinked(l, t)
           n == l.next[t]
           p == l.prev[t]
<1>1. s \in Seq(Task) /\ l \in ListType /\ Len(s) \in Nat
  BY LenProperties DEF Sound
<1>2. /\ k \in 1 .. Len(s) /\ s[k] = t
      /\ r \in Seq(Task) /\ Len(r) = Len(s) - 1
      /\ \A i \in 1 .. Len(r) : r[i] = IF i < k THEN s[i] ELSE s[i + 1]
      /\ Distinct(r)
      /\ \A u : Member(r, u) <=> u # t /\ Member(s, u)
  BY <1>1, WithoutProps DEF Sound
<1>3. /\ m.head = (IF p = Null THEN n ELSE l.head)
      /\ m.next = [u \in Task |-> IF u = t THEN PendingNextAll
                                 ELSE IF u = p THEN n ELSE l.next[u]]
      /\ m.prev = [u \in Task |-> IF u = t THEN Null
                                 ELSE IF u = n THEN p ELSE l.prev[u]]
      /\ m.len = [u \in Task |-> IF u = m.head THEN Count(l) - 1 ELSE l.len[u]]
  BY DEF Unlinked
<1>4. \A i \in 1 .. Len(s) : s[i] \in Task /\ s[i] # Null /\ s[i] # PendingNextAll
  BY <1>1, ElementOfSeq, PointerAssumption
<1>5. \A i, j \in 1 .. Len(s) : s[i] = s[j] => i = j
  BY DEF Sound, Distinct
<1>6. /\ l.head = (IF Len(s) = 0 THEN Null ELSE s[1])
      /\ Count(l) = Len(s)
      /\ \A u \in Task : ~Member(s, u) => l.next[u] = PendingNextAll /\ l.prev[u] = Null
  BY DEF Sound, Represents
<1>7. \A i \in 1 .. Len(s) : /\ l.next[s[i]] = (IF i = Len(s) THEN Null ELSE s[i + 1])
                             /\ l.prev[s[i]] = (IF i = 1 THEN Null ELSE s[i - 1])
  BY DEF Sound, Represents
<1>8. n = (IF k = Len(s) THEN Null ELSE s[k + 1]) /\ p = (IF k = 1 THEN Null ELSE s[k - 1])
  BY <1>2, <1>7
<1>9. /\ l.next \in [Task -> Task \union {Null, PendingNextAll}]
      /\ l.prev \in [Task -> Task \union {Null}] /\ l.len \in [Task -> Int]
  BY <1>1 DEF ListType
<1>10. n \in Task \union {Null} /\ p \in Task \union {Null}
  <2>1. k # Len(s) => k + 1 \in 1 .. Len(s)
    BY <1>1, <1>2
  <2>2. k # 1 => k - 1 \in 1 .. Len(s)
    BY <1>1, <1>2
  <2> QED
    BY <2>1, <2>2, <1>4, <1>8
<1>11. m.head = (IF Len(r) = 0 THEN Null ELSE r[1])
  <2>1. CASE k = 1
    BY <2>1, <1>1, <1>2, <1>3, <1>8
  <2>2. CASE k # 1
    <3>1. p # Null
      <4>1. k - 1 \in 1 .. Len(s)
        BY <2>2, <1>1, <1>2
      <4> QED
        BY <4>1, <2>2, <1>4, <1>8
    <3>2. 1 \in 1 .. Len(r) /\ 1 < k /\ Len(s) # 0
      BY <2>2, <1>1, <1>2
    <3> QED
      BY <3>1, <3>2, <1>2, <1>3, <1>6
  <2> QED
    BY <2>1, <2>2
<1>12. m \in ListType
  <2>1. m = [head |-> m.head, next |-> m.next, prev |-> m.prev, len |-> m.len]
    BY DEF Unlinked
  <2>2. m.head \in Task \union {Null}
    BY <1>1, <1>3, <1>10 DEF ListType
  <2>3. m.next \in [Task -> Task \union {Null, PendingNextAll}]
    BY <1>3, <1>9, <1>10
  <2>4. m.prev \in [Task -> Task \union {Null}]
    BY <1>3, <1>9, <1>10
  <2>5. m.len \in [Task -> Int]
    BY <1>1, <1>3, <1>6, <1>9
  <2> HIDE DEF m
  <2> QED
    BY <2>1, <2>2, <2>3, <2>4, <2>5 DEF ListType
<1> HIDE DEF k, r, m, n, p
<1>13. Count(m) = Len(r)
  <2>1. CASE Len(r) = 0
    BY <2>1, <1>11 DEF Count
  <2>2. CASE Len(r) # 0
    <3>1. 1 \in 1 .. Len(r)
      BY <2>2, <1>1, <1>2
    <3>2. m.head = r[1] /\ r[1] \in Task /\ r[1] # Null
      BY <2>2, <3>1, <1>2, <1>11, ElementOfSeq, PointerAssumption
    <3> QED
      BY <3>2, <1>2, <1>3, <1>6 DEF Count
  <2> QED
    BY <2>1, <2>2
<1>14. ASSUME NEW i \in 1 .. Len(r)
       PROVE  m.next[r[i]] = (IF i = Len(r) THEN Null ELSE r[i + 1])
  <2>1. i \in 1 .. Len(s) /\ i + 1 \in 1 .. Len(s)
    BY <1>1, <1>2
  <2>2. i # Len(r) => i + 1 \in 1 .. Len(r) /\ (i + 1) + 1 \in 1 .. Len(s)
    BY <1>1, <1>2
  <2>3. CASE i + 1 < k
    <3>1. r[i] = s[i] /\ i # Len(r) /\ i # Len(s)
      BY <2>1, <2>3, <1>1, <1>2
    <3>2. s[i] # t /\ s[i] # p
      <4>1. k - 1 \in 1 .. Len(s) /\ i # k - 1 /\ i # k /\ k # 1
        BY <2>1, <2>3, <1>1, <1>2
      <4> QED
        BY <4>1, <2>1, <1>2, <1>5, <1>8
    <3>3. m.next[r[i]] = s[i + 1]
      BY <3>1, <3>2, <2>1, <1>3, <1>4, <1>7
    <3> QED
      BY <3>1, <3>3, <2>2, <2>3, <1>2
  <2>4. CASE i + 1 = k
    <3>1. r[i] = s[i] /\ s[i] = p /\ s[i] # t
      BY <2>1, <2>4, <1>1, <1>2, <1>5, <1>8
    <3>2. m.next[r[i]] = n
      BY <3>1, <2>1, <1>3, <1>4
    <3>3. i = Len(r) <=> k = Len(s)
      BY <2>4, <1>1, <1>2
    <3>4. i # Len(r) => r[i + 1] = s[k + 1]
      BY <2>2, <2>4, <1>2
    <3> QED
      BY <3>2, <3>3, <3>4, <1>8
  <2>5. CASE i >= k
    <3>1. r[i] = s[i + 1]
      BY <2>5, <1>1, <1>2
    <3>2. s[i + 1] # t /\ s[i + 1] # p
      <4>1. i + 1 # k /\ (k # 1 => k - 1 \in 1 .. Len(s) /\ i + 1 # k - 1)
        BY <2>1, <2>5, <1>1, <1>2
      <4> QED
        BY <4>1, <2>1, <1>2, <1>4, <1>5, <1>8
    <3>3. m.next[r[i]] = (IF i + 1 = Len(s) THEN Null ELSE s[(i + 1) + 1])
      BY <3>1, <3>2, <2>1, <1>3, <1>4, <1>7
    <3>4. i # Len(r) => r[i + 1] = s[(i + 1) + 1]
      BY <2>2, <2>5, <1>2
    <3> QED
      BY <3>3, <3>4, <1>1, <1>2
  <2> QED
    BY <2>1, <2>3, <2>4, <2>5, <1>2
<1>15. ASSUME NEW i \in 1 .. Len(r)
       PROVE  m.prev[r[i]] = (IF i = 1 THEN Null ELSE r[i - 1])
  <2>1. i \in 1 .. Len(s) /\ i + 1 \in 1 .. Len(s)
    BY <1>1, <1>2
  <2>2. i # 1 => i - 1 \in 1 .. Len(r)
    BY <1>1, <1>2
  <2>3. CASE i < k
    <3>1. r[i] = s[i] /\ (i # 1 => r[i - 1] = s[i - 1])
      BY <2>1, <2>2, <2>3, <1>2
    <3>2. s[i] # t /\ s[i] # n
      <4>1. k \in 1 .. Len(s)
        BY <1>2
      <4>2. i # k /\ (k # Len(s) => k + 1 \in 1 .. Len(s) /\ i # k + 1)
        BY <4>1, <2>1, <2>3, <1>1
      <4> QED
        BY <4>2, <2>1, <1>2, <1>4, <1>5, <1>8
    <3> QED
      BY <3>1, <3>2, <2>1, <1>3, <1>4, <1>7
  <2>4. CASE i = k
    <3>1. r[i] = s[k + 1] /\ k # Len(s) /\ s[k + 1] # t
      <4>1. k + 1 # k /\ k # Len(s)
        BY <2>4, <1>1, <1>2
      <4> QED
        BY <4>1, <2>1, <2>4, <1>2, <1>5
    <3>2. m.prev[r[i]] = p
      BY <3>1, <2>1, <2>4, <1>3, <1>4, <1>8
    <3>3. i # 1 => r[i - 1] = s[k - 1]
      BY <2>2, <2>4, <1>2
    <3> QED
      BY <3>2, <3>3, <2>4, <1>8
  <2>5. CASE i > k
    <3>1. r[i] = s[i + 1] /\ i # 1 /\ ~(i - 1 < k) /\ (i - 1) + 1 = i /\ i + 1 # 1 /\ (i + 1) - 1 = i
      BY <2>5, <1>1, <1>2
    <3>2. r[i - 1] = s[i]
      BY <3>1, <2>2, <1>2
    <3>3. s[i + 1] # t /\ s[i + 1] # n
      <4>1. i + 1 # k /\ (k # Len(s) => k + 1 \in 1 .. Len(s) /\ i + 1 # k + 1)
        BY <2>1, <2>5, <1>1, <1>2
      <4> QED
        BY <4>1, <2>1, <1>2, <1>4, <1>5, <1>8
    <3>4. m.prev[r[i]] = l.prev[s[i + 1]]
      BY <3>1, <3>3, <2>1, <1>3, <1>4
    <3> QED
      BY <3>1, <3>2, <3>4, <2>1, <1>7
  <2> QED
    BY <2>1, <2>3, <2>4, <2>5, <1>2
<1>16. ASSUME NEW u \in Task, ~Member(r, u)
       PROVE  m.next[u] = PendingNextAll /\ m.prev[u] = Null
  <2>1. CASE u = t
    BY <2>1, <1>3
  <2>2. CASE u # t
    <3>1. ~Member(s, u)
      BY <2>2, <1>2, <1>16
    <3>2. u # p /\ u # n
      <4>1. k # Len(s) => k + 1 \in 1 .. Len(s)
        BY <1>1, <1>2
      <4>2. k # 1 => k - 1 \in 1 .. Len(s)
        BY <1>1, <1>2
      <4> QED
        BY <4>1, <4>2, <3>1, <1>8, PointerAssumption DEF Member
    <3> QED
      BY <3>1, <3>2, <2>2, <1>3, <1>6
  <2> QED
    BY <2>1, <2>2
<1>17. Represents(m, r)
  BY <1>11, <1>13, <1>14, <1>15, <1>16 DEF Represents
<1> QED
  BY <1>2, <1>12, <1>17 DEF Sound, m, r

\* What is left of a queue whose first task is taken out.
LEMMA TailProps ==
    ASSUME NEW s \in Seq(Task), s # <<>>, Distinct(s)
    PROVE  /\ Head(s) \in Task /\ Member(s, Head(s))
           /\ Tail(s) \in Seq(Task) /\ Distinct(Tail(s))
           /\ \A u : Member(Tail(s), u) <=> u # Head(s) /\ Member(s, u)
<1> DEFINE r == Tail(s)
<1>1. /\ Len(s) \in Nat /\ Len(s) # 0 /\ r \in Seq(Task) /\ Len(r) = Len(s) - 1
      /\ \A i \in 1 .. Len(r) : r[i] = s[i + 1]
  BY HeadTailProperties, LenProperties, EmptySeq
<1>2. Head(s) = s[1] /\ 1 \in 1 .. Len(s) /\ Head(s) \in Task
  BY <1>1, HeadTailProperties
<1>3. \A i, j \in 1 .. Len(s) : s[i] = s[j] => i = j
  BY DEF Distinct
<1> HIDE DEF r
<1>4. \A i \in 1 .. Len(r) : i + 1 \in 1 .. Len(s) /\ i + 1 # 1
  BY <1>1
<1>5. Distinct(r)
  <2> SUFFICES ASSUME NEW i \in 1 .. Len(r), NEW j \in 1 .. Len(r), r[i] = r[j]
               PROVE  i = j
    BY DEF Distinct
  <2>1. i + 1 = j + 1
    BY <1>1, <1>3, <1>4
  <2> QED
    BY <2>1
<1>6. ASSUME NEW u, Member(r, u) PROVE u # Head(s) /\ Member(s, u)
  <2>1. PICK i \in 1 .. Len(r) : r[i] = u
    BY <1>6 DEF Member
  <2> QED
    BY <2>1, <1>1, <1>2, <1>3, <1>4 DEF Member
<1>7. ASSUME NEW u, u # Head(s), Member(s, u) PROVE Member(r, u)
  <2>1. PICK i \in 1 .. Len(s) : s[i] = u
    BY <1>7 DEF Member
  <2>2. i - 1 \in 1 .. Len(r) /\ (i - 1) + 1 = i
    BY <2>1, <1>1, <1>2, <1>7
  <2> QED
    BY <2>1, <2>2, <1>1 DEF Member
<1> QED
  BY <1>1, <1>2, <1>5, <1>6, <1>7 DEF Member, r

LEMMA AppendProps ==
    ASSUME NEW s \in Seq(Task), NEW t \in Task, Distinct(s), ~Member(s, t)
    PROVE  /\ Append(s, t) \in Seq(Task) /\ Distinct(Append(s, t))
           /\ \A u : Member(Append(s, t), u) <=> u = t \/ Member(s, u)
<1> DEFINE r == Append(s, t)
<1>1. /\ Len(s) \in Nat /\ r \in Seq(Task) /\ Len(r) = Len(s) + 1
      /\ \A i \in 1 .. Len(s) : r[i] = s[i]
      /\ r[Len(s) + 1] = t
  BY AppendProperties, LenProperties
<1> HIDE DEF r
<1>2. \A i \in 1 .. Len(r) : i \in 1 .. Len(s) \/ i = Len(s) + 1
  BY <1>1
<1>3. Distinct(r)
  <2> SUFFICES ASSUME NEW i \in 1 .. Len(r), NEW j \in 1 .. Len(r), r[i] = r[j]
               PROVE  i = j
    BY DEF Distinct
  <2> QED
    BY <1>1, <1>2 DEF Distinct, Member
<1>4. ASSUME NEW u, Member(r, u) PROVE u = t \/ Member(s, u)
  BY <1>1, <1>2, <1>4 DEF Member
<1>5. ASSUME NEW u, u = t \/ Member(s, u) PROVE Member(r, u)
  <2>1. \A i \in 1 .. Len(s) : i \in 1 .. Len(r)
    BY <1>1
  <2>2. Len(s) + 1 \in 1 .. Len(r)
    BY <1>1
  <2> QED
    BY <2>1, <2>2, <1>1, <1>5 DEF Member
<1> QED
  BY <1>1, <1>3, <1>4, <1>5 DEF r

\* The list has a first task unless the sequence is empty.
LEMMA HeadOfList ==
    ASSUME NEW l, NEW s, Sound(l, s)
    PROVE  IF l.head = Null THEN s = <<>> ELSE Member(s, l.head) /\ l.head = s[1]
<1>1. s \in Seq(Task) /\ Len(s) \in Nat /\ l.head = (IF Len(s) = 0 THEN Null ELSE s[1])
  BY LenProperties DEF Sound, Represents
<1>2. CASE Len(s) = 0
  BY <1>1, <1>2, EmptySeq
<1>3. CASE Len(s) # 0
  <2>1. 1 \in 1 .. Len(s) /\ s[1] \in Task /\ s[1] # Null
    BY <1>1, <1>3, ElementOfSeq, PointerAssumption
  <2> QED
    BY <2>1, <1>1, <1>3 DEF Member
<1> QED
  BY <1>2, <1>3

\* An empty list is empty.
LEMMA EmptyIsSound == Sound(EmptyList, <<>>)
<1>1. EmptyList \in ListType /\ <<>> \in Seq(Task) /\ Len(<<>>) = 0
  BY DEF EmptyList, ListType
<1>2. Distinct(<<>>) /\ \A t : ~Member(<<>>, t)
  BY <1>1 DEF Distinct, Member
<1>3. Represents(EmptyList, <<>>)
  BY <1>1 DEF Represents, EmptyList, Count
<1> QED
  BY <1>1, <1>2, <1>3 DEF Sound
==============================================================================
