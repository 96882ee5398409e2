----------------------- MODULE ReadyToRunQueue_proofs -----------------------
(***************************************************************************)
(* The ready-to-run queue implements its contract, MPSCQueue, for any      *)
(* tasks and any number of producers.                                      *)
(***************************************************************************)
EXTENDS ReadyToRunQueue, SequenceTheorems, TLAPS

-----------------------------------------------------------------------------
(* Sequences of nodes *)

NoRepeats(s) == \A i, j \in DOMAIN s : s[i] = s[j] => i = j

LEMMA RemoveNone ==
    ASSUME NEW s \in Seq(Node), \A i \in DOMAIN s : s[i] # Stub
    PROVE  RemoveFirst(s, Stub) = s
  BY DEF RemoveFirst

LEMMA RemoveOne ==
    ASSUME NEW s \in Seq(Node), NoRepeats(s), NEW k \in DOMAIN s, s[k] = Stub
    PROVE  /\ RemoveFirst(s, Stub) \in Seq(Node)
           /\ Len(RemoveFirst(s, Stub)) = Len(s) - 1
           /\ \A i \in 1 .. Len(s) - 1 :
                 RemoveFirst(s, Stub)[i] = IF i < k THEN s[i] ELSE s[i + 1]
<1>1. Len(s) \in Nat /\ DOMAIN s = 1 .. Len(s) /\ k \in 1 .. Len(s) /\ s \in [1 .. Len(s) -> Node]
  OBVIOUS
<1>2. {i \in 1 .. Len(s) : s[i] = Stub} = {k}
  BY <1>1 DEF NoRepeats
<1>3. SelectInSeq(s, LAMBDA v : v = Stub) = k
  BY <1>1, <1>2 DEF SelectInSeq, Min
<1>4. RemoveFirst(s, Stub) = SubSeq(s, 1, k - 1) \o SubSeq(s, k + 1, Len(s))
  BY <1>1, <1>3 DEF RemoveFirst, RemoveAt
<1> DEFINE a == SubSeq(s, 1, k - 1)
           b == SubSeq(s, k + 1, Len(s))
<1>5. /\ a \in Seq(Node) /\ Len(a) = k - 1 /\ \A i \in 1 .. k - 1 : a[i] = s[i]
      /\ b \in Seq(Node) /\ Len(b) = Len(s) - k /\ \A i \in 1 .. Len(s) - k : b[i] = s[k + i]
  BY <1>1, SubSeqProperties, Z3
<1> HIDE DEF a, b
<1>6. /\ a \o b \in Seq(Node) /\ Len(a \o b) = Len(s) - 1
      /\ \A i \in 1 .. Len(s) - 1 : (a \o b)[i] = IF i <= k - 1 THEN a[i] ELSE b[i - (k - 1)]
  <2>1. /\ a \o b \in Seq(Node) /\ Len(a \o b) = Len(a) + Len(b)
        /\ \A i \in 1 .. Len(a) + Len(b) : (a \o b)[i] = IF i <= Len(a) THEN a[i] ELSE b[i - Len(a)]
    BY <1>5, ConcatProperties
  <2>2. Len(a) + Len(b) = Len(s) - 1
    BY <1>1, <1>5
  <2> QED
    BY <1>5, <2>1, <2>2
<1>7. \A i \in 1 .. Len(s) - 1 : (a \o b)[i] = IF i < k THEN s[i] ELSE s[i + 1]
  BY <1>1, <1>5, <1>6, SMTT(20)
<1> QED
  BY <1>4, <1>6, <1>7 DEF a, b

\* What is appended, or taken from the front, is so of the entries, but for the stub.
LEMMA RemoveAppend ==
    ASSUME NEW s \in Seq(Node), NoRepeats(s), NEW n \in Node, \A i \in DOMAIN s : s[i] # n
    PROVE  /\ Append(s, n) \in Seq(Node) /\ NoRepeats(Append(s, n))
           /\ RemoveFirst(Append(s, n), Stub)
                 = IF n = Stub THEN RemoveFirst(s, Stub) ELSE Append(RemoveFirst(s, Stub), n)
<1> DEFINE a == Append(s, n)
<1>1. /\ Len(s) \in Nat /\ DOMAIN s = 1 .. Len(s)
      /\ a \in Seq(Node) /\ Len(a) = Len(s) + 1 /\ DOMAIN a = 1 .. Len(s) + 1
      /\ a[Len(s) + 1] = n /\ \A i \in 1 .. Len(s) : a[i] = s[i]
  OBVIOUS
<1> HIDE DEF a
<1>2. NoRepeats(a)
  BY <1>1 DEF NoRepeats
<1>3. CASE n = Stub
  <2>1. RemoveFirst(s, Stub) = s
    BY <1>3, RemoveNone
  <2>2. /\ RemoveFirst(a, Stub) \in Seq(Node) /\ Len(RemoveFirst(a, Stub)) = Len(a) - 1
        /\ \A i \in 1 .. Len(a) - 1 : RemoveFirst(a, Stub)[i] = IF i < Len(s) + 1 THEN a[i] ELSE a[i + 1]
    BY <1>1, <1>2, <1>3, RemoveOne
  <2>3. RemoveFirst(a, Stub) = s
    BY <1>1, <2>2, SeqEqual
  <2> QED
    BY <1>1, <1>2, <1>3, <2>1, <2>3 DEF a
<1>4. CASE n # Stub /\ \A i \in DOMAIN s : s[i] # Stub
  <2>1. RemoveFirst(s, Stub) = s
    BY <1>4, RemoveNone
  <2>2. RemoveFirst(a, Stub) = a
    BY <1>1, <1>4, RemoveNone
  <2> QED
    BY <1>1, <1>2, <1>4, <2>1, <2>2 DEF a
<1>5. ASSUME n # Stub, NEW k \in DOMAIN s, s[k] = Stub
      PROVE  RemoveFirst(a, Stub) = Append(RemoveFirst(s, Stub), n)
  <2> DEFINE r == RemoveFirst(s, Stub)
  <2>1. /\ r \in Seq(Node) /\ Len(r) = Len(s) - 1
        /\ \A i \in 1 .. Len(s) - 1 : r[i] = IF i < k THEN s[i] ELSE s[i + 1]
    BY <1>5, RemoveOne
  <2>2. a \in Seq(Node) /\ k \in DOMAIN a /\ a[k] = Stub /\ k \in 1 .. Len(s)
    BY <1>1, <1>5
  <2> DEFINE q == RemoveFirst(a, Stub)
  <2>3. /\ q \in Seq(Node) /\ Len(q) = Len(a) - 1
        /\ \A i \in 1 .. Len(a) - 1 : q[i] = IF i < k THEN a[i] ELSE a[i + 1]
    BY <1>2, <2>2, RemoveOne
  <2> HIDE DEF r, q
  <2> DEFINE f == Append(r, n)
  <2>4. /\ f \in Seq(Node) /\ Len(f) = Len(s)
        /\ f[Len(s)] = n /\ \A i \in 1 .. Len(s) - 1 : f[i] = r[i]
    <3>1. /\ f \in Seq(Node) /\ Len(f) = Len(r) + 1
          /\ \A i \in 1 .. Len(r) : f[i] = r[i]
          /\ f[Len(r) + 1] = n
      BY <2>1, AppendProperties
    <3>2. Len(r) = Len(s) - 1 /\ Len(r) + 1 = Len(s)
      BY <1>1, <2>1
    <3> HIDE DEF f
    <3> QED
      BY <3>1, <3>2
  <2> HIDE DEF f
  <2>5. ASSUME NEW i \in 1 .. Len(s) PROVE q[i] = f[i]
    <3>1. CASE i = Len(s)
      <4>1. q[i] = a[i + 1]
        BY <1>1, <2>2, <2>3, <3>1
      <4> QED
        BY <1>1, <2>4, <3>1, <4>1
    <3>2. CASE i # Len(s)
      <4>1. i \in 1 .. Len(s) - 1 /\ i + 1 \in 1 .. Len(s) /\ i \in 1 .. Len(a) - 1
        <5>1. Len(s) \in Nat /\ Len(a) - 1 = Len(s)
          BY <1>1
        <5>2. \A l \in Nat : \A j \in 1 .. l : j # l => j \in 1 .. l - 1 /\ j + 1 \in 1 .. l
          OBVIOUS
        <5> QED
          BY <3>2, <5>1, <5>2
      <4>2. a[i] = s[i] /\ a[i + 1] = s[i + 1]
        BY <1>1, <4>1
      <4> QED
        BY <2>1, <2>3, <2>4, <4>1, <4>2
    <3> QED
      BY <3>1, <3>2
  <2>6. Len(q) = Len(f)
    BY <1>1, <2>3, <2>4
  <2>7. q = f
    BY <1>1, <2>3, <2>4, <2>5, <2>6, SeqEqual
  <2> QED
    BY <2>7 DEF f, q, r
<1> QED
  BY <1>1, <1>2, <1>3, <1>4, <1>5 DEF a

LEMMA RemoveTail ==
    ASSUME NEW s \in Seq(Node), NoRepeats(s), s # <<>>
    PROVE  /\ Tail(s) \in Seq(Node) /\ NoRepeats(Tail(s))
           /\ s[1] = Stub => RemoveFirst(Tail(s), Stub) = RemoveFirst(s, Stub)
           /\ s[1] # Stub => /\ RemoveFirst(s, Stub) # <<>> /\ Head(RemoveFirst(s, Stub)) = s[1]
                            /\ RemoveFirst(Tail(s), Stub) = Tail(RemoveFirst(s, Stub))
<1> DEFINE a == Tail(s)
           r == RemoveFirst(s, Stub)
<1>1. /\ Len(s) \in Nat \ {0} /\ DOMAIN s = 1 .. Len(s)
      /\ a \in Seq(Node) /\ Len(a) = Len(s) - 1 /\ DOMAIN a = 1 .. Len(s) - 1
      /\ \A i \in 1 .. Len(s) - 1 : a[i] = s[i + 1]
  OBVIOUS
<1> HIDE DEF a
<1>2. NoRepeats(a)
  <2> SUFFICES ASSUME NEW i \in DOMAIN a, NEW j \in DOMAIN a, a[i] = a[j] PROVE i = j
    BY DEF NoRepeats
  <2>1. i + 1 \in DOMAIN s /\ j + 1 \in DOMAIN s /\ a[i] = s[i + 1] /\ a[j] = s[j + 1]
    BY <1>1
  <2>2. i + 1 = j + 1
    BY <2>1 DEF NoRepeats
  <2> QED
    BY <1>1, <2>2
<1>3. CASE s[1] = Stub
  <2>1. \A i \in DOMAIN a : a[i] # Stub
    BY <1>1, <1>3 DEF NoRepeats
  <2>2. RemoveFirst(a, Stub) = a
    BY <1>1, <2>1, RemoveNone
  <2>3. 1 \in DOMAIN s
    BY <1>1
  <2>4. /\ r \in Seq(Node) /\ Len(r) = Len(s) - 1
        /\ \A i \in 1 .. Len(s) - 1 : r[i] = IF i < 1 THEN s[i] ELSE s[i + 1]
    BY <1>3, <2>3, RemoveOne
  <2> HIDE DEF r
  <2>5. \A i \in 1 .. Len(s) - 1 : r[i] = a[i]
    BY <1>1, <2>4
  <2>6. r = a
    BY <1>1, <2>4, <2>5, SeqEqual
  <2> QED
    BY <1>1, <1>2, <1>3, <2>2, <2>6 DEF a, r
<1>4. CASE s[1] # Stub /\ \A i \in DOMAIN s : s[i] # Stub
  <2>1. r = s /\ RemoveFirst(a, Stub) = a
    BY <1>1, <1>4, RemoveNone
  <2> QED
    BY <1>1, <1>2, <1>4, <2>1 DEF a
<1>5. ASSUME s[1] # Stub, NEW k \in DOMAIN s, s[k] = Stub
      PROVE  /\ r # <<>> /\ Head(r) = s[1]
             /\ RemoveFirst(a, Stub) = Tail(r)
  <2>0. k \in 2 .. Len(s) /\ k - 1 \in DOMAIN a /\ a[k - 1] = Stub
    BY <1>1, <1>5
  <2>1. /\ r \in Seq(Node) /\ Len(r) = Len(s) - 1
        /\ \A i \in 1 .. Len(s) - 1 : r[i] = IF i < k THEN s[i] ELSE s[i + 1]
    BY <1>5, RemoveOne
  <2> DEFINE q == RemoveFirst(a, Stub)
  <2>2. /\ q \in Seq(Node) /\ Len(q) = Len(a) - 1
        /\ \A i \in 1 .. Len(a) - 1 : q[i] = IF i < k - 1 THEN a[i] ELSE a[i + 1]
    BY <1>1, <1>2, <2>0, RemoveOne
  <2> HIDE DEF r, q
  <2>3. r # <<>> /\ Head(r) = s[1]
    BY <1>1, <2>0, <2>1
  <2> DEFINE f == Tail(r)
  <2>4. /\ f \in Seq(Node) /\ Len(f) = Len(s) - 2
        /\ \A i \in 1 .. Len(s) - 2 : f[i] = r[i + 1]
    <3>1. /\ f \in Seq(Node) /\ Len(f) = Len(r) - 1
          /\ \A i \in 1 .. Len(f) : f[i] = r[i + 1]
      BY <2>1, <2>3, HeadTailProperties
    <3> HIDE DEF f
    <3>2. Len(r) = Len(s) - 1 /\ Len(f) = Len(s) - 2
      BY <1>1, <2>1, <3>1
    <3> QED
      BY <3>1, <3>2
  <2> HIDE DEF f
  <2>5. ASSUME NEW i \in 1 .. Len(s) - 2 PROVE q[i] = f[i]
    <3>1. i + 1 \in 1 .. Len(s) - 1 /\ i + 2 \in 1 .. Len(s) /\ (i + 1) + 1 = i + 2
          /\ i \in 1 .. Len(s) - 1 /\ i \in 1 .. Len(a) - 1
      BY <1>1, <2>0
    <3>2. a[i] = s[i + 1] /\ a[i + 1] = s[i + 2]
      BY <1>1, <3>1
    <3>3. f[i] = IF i + 1 < k THEN s[i + 1] ELSE s[i + 2]
      BY <2>1, <2>4, <3>1
    <3>4. q[i] = IF i < k - 1 THEN s[i + 1] ELSE s[i + 2]
      BY <2>2, <3>1, <3>2
    <3> QED
      BY <2>0, <3>1, <3>3, <3>4
  <2>6. Len(q) = Len(s) - 2 /\ Len(f) = Len(s) - 2
    BY <1>1, <2>2, <2>4
  <2>7. q = f
    BY <2>2, <2>4, <2>5, <2>6, SeqEqual
  <2> QED
    BY <2>3, <2>7 DEF f, q
<1> QED
  BY <1>1, <1>2, <1>3, <1>4, <1>5 DEF a, r

\* The entry behind the first one is the first that the consumer cannot reach.
LEMMA SecondUnlinked ==
    ASSUME NEW s \in Seq(Node), NoRepeats(s), Len(s) >= 2, NEW u,
           s[1] # Stub, s[2] # Stub, s[1] \notin u, s[2] \in u
    PROVE  /\ RemoveFirst(s, Stub) # <<>>
           /\ Head(RemoveFirst(s, Stub)) \notin u
           /\ \E i \in 2 .. Len(RemoveFirst(s, Stub)) : RemoveFirst(s, Stub)[i] \in u
<1>1. Len(s) \in Nat /\ DOMAIN s = 1 .. Len(s)
  OBVIOUS
<1>2. CASE \A i \in DOMAIN s : s[i] # Stub
  <2>1. RemoveFirst(s, Stub) = s
    BY <1>2, RemoveNone
  <2>2. s # <<>> /\ Head(s) = s[1] /\ 2 \in 2 .. Len(s)
    BY <1>1
  <2> QED
    BY <2>1, <2>2
<1>3. ASSUME NEW k \in DOMAIN s, s[k] = Stub
      PROVE  /\ RemoveFirst(s, Stub) # <<>>
             /\ Head(RemoveFirst(s, Stub)) \notin u
             /\ \E i \in 2 .. Len(RemoveFirst(s, Stub)) : RemoveFirst(s, Stub)[i] \in u
  <2> DEFINE r == RemoveFirst(s, Stub)
  <2>1. /\ r \in Seq(Node) /\ Len(r) = Len(s) - 1
        /\ \A i \in 1 .. Len(s) - 1 : r[i] = IF i < k THEN s[i] ELSE s[i + 1]
    BY <1>3, RemoveOne
  <2> HIDE DEF r
  <2>2. k \in 3 .. Len(s)
    BY <1>1, <1>3
  <2>3. Len(r) >= 2 /\ r[1] = s[1] /\ r[2] = s[2]
    BY <1>1, <2>1, <2>2
  <2>4. r # <<>> /\ Head(r) = s[1] /\ 2 \in 2 .. Len(r) /\ r[2] \in u
    BY <2>1, <2>3
  <2> QED
    BY <2>4 DEF r
<1> QED
  BY <1>2, <1>3

-----------------------------------------------------------------------------
(* The inductive invariant *)

\* What each thread holds: a node outside the list that it will append, or one in
\* the list that it will link behind the node before it, which points to none.
Hands ==
    \A p \in Thread :
        /\ epc[p] = "idle" => node[p] = Null /\ prev[p] = Null
        /\ epc[p] = "swap" => node[p] \in Node \ ChainNodes /\ next[node[p]] = Null
        /\ Linking(p) => \E i \in 1 .. Len(order) - 1 :
                            /\ prev[p] = order[i] /\ node[p] = order[i + 1]
                            /\ next[order[i]] = Null

\* No two threads enqueue the same node.
Alone == \A p, q \in Thread : node[p] = node[q] /\ node[p] # Null => p = q

List == NoRepeats(order) /\ PointersFollow /\ Hands /\ Alone

\* Where the consumer is in a dequeue, and what it has seen of the queue.
Calls ==
    /\ \A p \in Thread : node[p] = Stub => p = Consumer /\ dpc = "last"
    /\ dpc \in {"load", "reload", "check"} => epc[Consumer] = "idle"
    /\ dpc \in {"reload", "check", "last"} => tail # Stub
    /\ dpc = "check" => half \/ Len(order) = 1
    /\ dpc = "last" => \/ half \/ next[tail] # Null
                       \/ epc[Consumer] = "swap" /\ Len(order) = 1
                       \/ epc[Consumer] = "link" /\ prev[Consumer] = tail
    /\ dpc # "idle" /\ Q!SeesInconsistent => half

QueueInv == TypeOK /\ List /\ Calls

Unlinked == {node[p] : p \in {r \in Producer : Linking(r)}}

LEMMA InitInv == Init => QueueInv
<1> SUFFICES ASSUME Init PROVE QueueInv
  OBVIOUS
<1> USE NodeAssumption, ThreadAssumption DEF Init, Node, Thread
<1>1. order \in Seq(Node) /\ Len(order) = 1 /\ DOMAIN order = {1} /\ order[1] = Stub /\ order # <<>>
  OBVIOUS
<1>2. TypeOK
  BY <1>1 DEF TypeOK
<1>3. NoRepeats(order)
  BY <1>1 DEF NoRepeats
<1>4. PointersFollow
  BY <1>1 DEF PointersFollow
<1>5. Hands /\ Alone
  BY DEF Hands, Alone, Linking
<1>6. Calls
  BY DEF Calls
<1> QED
  BY <1>2, <1>3, <1>4, <1>5, <1>6 DEF QueueInv, List

\* The first nodes of the list, in terms of the pointers.
LEMMA FirstNodes ==
    ASSUME TypeOK, List
    PROVE  /\ Len(order) \in Nat \ {0} /\ DOMAIN order = 1 .. Len(order)
           /\ order[1] = tail /\ ChainNodes = {order[i] : i \in 1 .. Len(order)}
           /\ Len(order) = 1 => head = tail
           /\ Len(order) >= 2 => head # tail /\ order[2] # tail
           /\ next[tail] # Null => Len(order) >= 2 /\ next[tail] = order[2]
           /\ next[tail] = Null /\ Len(order) >= 2 =>
                 \E p \in Thread : Linking(p) /\ node[p] = order[2]
           /\ \A p \in Thread : Linking(p) => node[p] # tail
<1>1. /\ Len(order) \in Nat \ {0} /\ DOMAIN order = 1 .. Len(order)
      /\ order[1] = tail /\ order[Len(order)] = head /\ next[head] = Null
  BY DEF TypeOK, List, PointersFollow
<1>2. ChainNodes = {order[i] : i \in 1 .. Len(order)}
  BY <1>1 DEF ChainNodes
<1>3. \A i, j \in 1 .. Len(order) : order[i] = order[j] => i = j
  BY <1>1 DEF List, NoRepeats
<1>4. Len(order) >= 2 => head # tail /\ order[2] # tail
  BY <1>1, <1>3
<1>5. Len(order) >= 2 => \/ next[tail] = order[2]
                         \/ /\ next[tail] = Null
                            /\ \E p \in Thread : Linking(p) /\ node[p] = order[2]
  BY <1>1 DEF List, PointersFollow
<1>6. next[tail] # Null => Len(order) >= 2
  BY <1>1
<1>7. ASSUME Len(order) >= 2 PROVE order[2] # Null
  <2>1. order[2] \in Node
    BY <1>1, <1>7 DEF TypeOK
  <2> QED
    BY <2>1, NodeAssumption DEF Node
<1>8. \A p \in Thread : Linking(p) => node[p] # tail
  <2>1. \A p \in Thread : Linking(p) => \E i \in 1 .. Len(order) - 1 : node[p] = order[i + 1]
    BY DEF List, Hands
  <2> QED
    BY <1>1, <1>3, <2>1
<1>9. Len(order) = 1 => head = tail
  BY <1>1
<1> QED
  BY <1>1, <1>2, <1>4, <1>5, <1>6, <1>7, <1>8, <1>9

-----------------------------------------------------------------------------
(* What each kind of step does to the list *)

LEMMA SwapKeepsList ==
    ASSUME TypeOK, List, NEW p \in Thread, Swap(p)
    PROVE  /\ order' \in Seq(Node) /\ List'
           /\ Len(order') = Len(order) + 1 /\ order'[Len(order')] = node[p]
           /\ \A i \in 1 .. Len(order) : order'[i] = order[i]
           /\ prev'[p] = head
<1> DEFINE n == node[p]
<1>0. n \in Node \ ChainNodes /\ next[n] = Null /\ epc[p] = "swap" /\ n # Null
  BY NodeAssumption DEF Swap, List, Hands, Node
<1>1. /\ Len(order) \in Nat \ {0} /\ DOMAIN order = 1 .. Len(order) /\ order[1] = tail
      /\ ChainNodes = {order[i] : i \in 1 .. Len(order)} /\ order \in Seq(Node)
  BY FirstNodes DEF TypeOK
<1>2. /\ order' \in Seq(Node) /\ Len(order') = Len(order) + 1 /\ order' # <<>>
      /\ \A i \in 1 .. Len(order) : order'[i] = order[i]
      /\ order'[Len(order) + 1] = n
  BY <1>0, <1>1, AppendProperties DEF Swap
<1>3. DOMAIN order' = 1 .. Len(order) + 1
  BY <1>2
<1>4. NoRepeats(order')
  <2>1. \A i \in DOMAIN order : order[i] # n
    BY <1>0, <1>1
  <2>2. NoRepeats(Append(order, n))
    BY <1>0, <1>1, <2>1, RemoveAppend DEF List
  <2> QED
    BY <2>2 DEF Swap
<1>5. /\ epc' = [epc EXCEPT ![p] = "link"] /\ prev' = [prev EXCEPT ![p] = head]
      /\ head' = n /\ UNCHANGED <<next, tail, node>>
  BY DEF Swap
<1>6. prev'[p] = head /\ epc'[p] = "link"
  BY <1>5 DEF TypeOK
<1>7. \A q \in Thread \ {p} : epc'[q] = epc[q] /\ prev'[q] = prev[q]
  BY <1>5 DEF TypeOK
<1>8. PointersFollow'
  <2>1. order'[1] = tail' /\ order'[Len(order')] = head' /\ next'[head'] = Null
    BY <1>0, <1>1, <1>2, <1>5
  <2>2. ASSUME NEW i \in 1 .. Len(order)
        PROVE  \/ next'[order'[i]] = order'[i + 1]
               \/ /\ next'[order'[i]] = Null
                  /\ \E q \in Thread : Linking(q)' /\ prev'[q] = order'[i] /\ node'[q] = order'[i + 1]
    <3>1. CASE i = Len(order)
      <4>1. order'[i] = head /\ order'[i + 1] = n /\ next[head] = Null
        BY <1>1, <1>2, <3>1 DEF List, PointersFollow
      <4> QED
        BY <1>5, <1>6, <4>1 DEF Linking
    <3>2. CASE i # Len(order)
      <4>1. i \in 1 .. Len(order) - 1 /\ order'[i] = order[i] /\ order'[i + 1] = order[i + 1]
        BY <1>1, <1>2, <3>2
      <4>2. \/ next[order[i]] = order[i + 1]
            \/ /\ next[order[i]] = Null
               /\ \E q \in Thread : Linking(q) /\ prev[q] = order[i] /\ node[q] = order[i + 1]
        BY <4>1 DEF List, PointersFollow
      <4>3. \A q \in Thread : Linking(q) => Linking(q)' /\ prev'[q] = prev[q]
        BY <1>0, <1>7 DEF Linking
      <4> QED
        BY <1>5, <4>1, <4>2, <4>3
    <3> QED
      BY <3>1, <3>2
  <2>3. Len(order') - 1 = Len(order)
    BY <1>1, <1>2
  <2> QED
    BY <1>2, <2>1, <2>2, <2>3 DEF PointersFollow
<1>9. Hands'
  <2> SUFFICES ASSUME NEW q \in Thread
      PROVE  /\ epc'[q] = "idle" => node'[q] = Null /\ prev'[q] = Null
             /\ epc'[q] = "swap" => node'[q] \in Node \ ChainNodes' /\ next'[node'[q]] = Null
             /\ Linking(q)' => \E i \in 1 .. Len(order') - 1 :
                                  /\ prev'[q] = order'[i] /\ node'[q] = order'[i + 1]
                                  /\ next'[order'[i]] = Null
    BY DEF Hands
  <2>1. CASE q = p
    <3>1. order'[Len(order)] = head /\ Len(order) \in 1 .. Len(order') - 1 /\ next[head] = Null
      BY <1>1, <1>2 DEF List, PointersFollow
    <3> QED
      BY <1>2, <1>5, <1>6, <2>1, <3>1
  <2>2. CASE q # p
    <3>1. epc'[q] = epc[q] /\ prev'[q] = prev[q] /\ node'[q] = node[q] /\ next' = next
      BY <1>5, <1>7, <2>2
    <3>2. ASSUME epc[q] = "swap" PROVE node[q] \in Node \ ChainNodes'
      <4>1. node[q] \in Node \ ChainNodes /\ node[q] # n
        BY <1>0, <2>2, <3>2 DEF List, Hands, Alone
      <4>2. \A i \in DOMAIN order' : order'[i] # node[q]
        BY <1>1, <1>2, <1>3, <4>1
      <4> QED
        BY <4>1, <4>2 DEF ChainNodes
    <3>3. ASSUME Linking(q)
          PROVE  \E i \in 1 .. Len(order') - 1 : /\ prev[q] = order'[i] /\ node[q] = order'[i + 1]
                                                 /\ next[order'[i]] = Null
      <4>1. PICK i \in 1 .. Len(order) - 1 : /\ prev[q] = order[i] /\ node[q] = order[i + 1]
                                             /\ next[order[i]] = Null
        BY <3>3 DEF List, Hands
      <4>2. i \in 1 .. Len(order') - 1 /\ order'[i] = order[i] /\ order'[i + 1] = order[i + 1]
        BY <1>1, <1>2
      <4> QED
        BY <4>1, <4>2
    <3> QED
      BY <3>1, <3>2, <3>3 DEF List, Hands, Linking
  <2> QED
    BY <2>1, <2>2
<1>10. Alone'
  BY <1>5 DEF List, Alone
<1> QED
  BY <1>2, <1>4, <1>6, <1>8, <1>9, <1>10 DEF List

LEMMA LinkKeepsList ==
    ASSUME TypeOK, List, NEW p \in Thread, Link(p)
    PROVE  /\ List'
           /\ next[tail] # Null => next'[tail] # Null
           /\ prev[p] = tail => next'[tail] # Null
<1>1. PICK k \in 1 .. Len(order) - 1 : prev[p] = order[k] /\ node[p] = order[k + 1]
  BY DEF Link, List, Hands, Linking
<1>2. /\ Len(order) \in Nat \ {0} /\ DOMAIN order = 1 .. Len(order) /\ order[1] = tail
      /\ ChainNodes = {order[i] : i \in 1 .. Len(order)} /\ order \in Seq(Node)
  BY FirstNodes DEF TypeOK
<1>3. /\ k \in 1 .. Len(order) /\ k + 1 \in 1 .. Len(order) /\ order[k] \in Node /\ order[k + 1] \in Node
      /\ order[k + 1] # Null
  <2>1. k \in 1 .. Len(order) /\ k + 1 \in 1 .. Len(order)
    BY <1>2
  <2>2. order[k] \in Node /\ order[k + 1] \in Node
    BY <1>2, <2>1
  <2> QED
    BY <2>1, <2>2, NodeAssumption DEF Node
<1>4. /\ next' = [next EXCEPT ![order[k]] = order[k + 1]]
      /\ epc' = [epc EXCEPT ![p] = "idle"] /\ epc[p] = "link"
      /\ node' = [node EXCEPT ![p] = Null] /\ prev' = [prev EXCEPT ![p] = Null]
      /\ UNCHANGED <<head, tail, order>>
  BY <1>1 DEF Link
<1>5. \A i, j \in 1 .. Len(order) : order[i] = order[j] => i = j
  BY <1>2 DEF List, NoRepeats
<1>6. next'[order[k]] = order[k + 1] /\ \A n \in Node \ {order[k]} : next'[n] = next[n]
  BY <1>3, <1>4 DEF TypeOK
<1>7. \A q \in Thread \ {p} : epc'[q] = epc[q] /\ prev'[q] = prev[q] /\ node'[q] = node[q]
  BY <1>4 DEF TypeOK
<1>8. epc'[p] = "idle" /\ prev'[p] = Null /\ node'[p] = Null
  BY <1>4 DEF TypeOK
<1>9. \A i \in 1 .. Len(order) : order[i] \in Node /\ (i # k => next'[order[i]] = next[order[i]])
  BY <1>2, <1>3, <1>5, <1>6
<1>10. PointersFollow'
  <2>1. next'[head] = Null
    <3>1. order[Len(order)] = head /\ next[head] = Null
      BY DEF List, PointersFollow
    <3>2. Len(order) \in 1 .. Len(order) /\ Len(order) # k
      <4>1. \A l \in Nat \ {0} : l \in 1 .. l /\ \A j \in 1 .. l - 1 : l # j
        OBVIOUS
      <4> QED
        BY <1>2, <4>1
    <3> QED
      BY <1>9, <3>1, <3>2
  <2>2. ASSUME NEW i \in 1 .. Len(order) - 1
        PROVE  \/ next'[order[i]] = order[i + 1]
               \/ /\ next'[order[i]] = Null
                  /\ \E q \in Thread : Linking(q)' /\ prev'[q] = order[i] /\ node'[q] = order[i + 1]
    <3>1. CASE i = k
      BY <1>6, <3>1
    <3>2. CASE i # k
      <4>1. i \in 1 .. Len(order) /\ next'[order[i]] = next[order[i]]
        BY <1>2, <1>9, <3>2
      <4>2. \/ next[order[i]] = order[i + 1]
            \/ /\ next[order[i]] = Null
               /\ \E q \in Thread : Linking(q) /\ prev[q] = order[i] /\ node[q] = order[i + 1]
        BY DEF List, PointersFollow
      <4>3. \A q \in Thread : prev[q] = order[i] => q # p
        BY <1>1, <1>3, <1>5, <3>2, <4>1
      <4> QED
        BY <1>7, <4>1, <4>2, <4>3 DEF Linking
    <3> QED
      BY <3>1, <3>2
  <2> QED
    BY <1>4, <2>1, <2>2 DEF List, PointersFollow
<1>11. Hands'
  <2> SUFFICES ASSUME NEW q \in Thread
      PROVE  /\ epc'[q] = "idle" => node'[q] = Null /\ prev'[q] = Null
             /\ epc'[q] = "swap" => node'[q] \in Node \ ChainNodes' /\ next'[node'[q]] = Null
             /\ Linking(q)' => \E i \in 1 .. Len(order') - 1 :
                                  /\ prev'[q] = order'[i] /\ node'[q] = order'[i + 1]
                                  /\ next'[order'[i]] = Null
    BY DEF Hands
  <2>1. CASE q = p
    BY <1>8, <2>1 DEF Linking
  <2>2. CASE q # p
    <3>1. epc'[q] = epc[q] /\ prev'[q] = prev[q] /\ node'[q] = node[q] /\ order' = order
      BY <1>4, <1>7, <2>2
    <3>2. ChainNodes' = ChainNodes
      BY <3>1 DEF ChainNodes
    <3>3. epc[q] = "swap" => next'[node[q]] = next[node[q]]
      BY <1>2, <1>3, <1>6 DEF List, Hands
    <3>4. ASSUME Linking(q)
          PROVE  \E i \in 1 .. Len(order) - 1 : /\ prev[q] = order[i] /\ node[q] = order[i + 1]
                                                /\ next'[order[i]] = Null
      <4>1. PICK i \in 1 .. Len(order) - 1 : /\ prev[q] = order[i] /\ node[q] = order[i + 1]
                                             /\ next[order[i]] = Null
        BY <3>4 DEF List, Hands
      <4>2. i # k
        BY <1>1, <1>3, <2>2, <4>1 DEF List, Alone
      <4>3. i \in 1 .. Len(order)
        BY <1>2
      <4> QED
        BY <1>9, <4>1, <4>2, <4>3
    <3> QED
      BY <3>1, <3>2, <3>3, <3>4 DEF List, Hands, Linking
  <2> QED
    BY <2>1, <2>2
<1>12. Alone'
  BY <1>7, <1>8 DEF List, Alone
<1>13. NoRepeats(order')
  BY <1>4 DEF List
<1>14. next[tail] # Null => next'[tail] # Null
  BY <1>2, <1>3, <1>6, <1>9
<1>15. prev[p] = tail => next'[tail] # Null
  BY <1>1, <1>3, <1>6
<1> QED
  BY <1>10, <1>11, <1>12, <1>13, <1>14, <1>15 DEF List

LEMMA TailNodes ==
    ASSUME NEW s \in Seq(Node), s # <<>>
    PROVE  /\ Tail(s) \in Seq(Node) /\ Len(Tail(s)) = Len(s) - 1
           /\ \A i \in 1 .. Len(Tail(s)) : Tail(s)[i] = s[i + 1]
  BY HeadTailProperties

\* The first node leaves the list once it points to the next one.
LEMMA TailKeepsList ==
    ASSUME TypeOK, List, next[tail] # Null,
           tail' = next[tail], order' = Tail(order), UNCHANGED <<next, head, enqueuer>>
    PROVE  order' \in Seq(Node) /\ tail' \in Node /\ tail' # tail /\ List'
<1>1. /\ Len(order) \in Nat \ {0, 1} /\ DOMAIN order = 1 .. Len(order) /\ order[1] = tail
      /\ tail' = order[2] /\ order[2] # tail
      /\ ChainNodes = {order[i] : i \in 1 .. Len(order)} /\ order \in Seq(Node)
  BY FirstNodes DEF TypeOK
<1>2. tail' \in Node
  BY <1>1
<1>3. /\ order' \in Seq(Node) /\ Len(order') = Len(order) - 1
      /\ \A i \in 1 .. Len(order') : order'[i] = order[i + 1]
  <2>1. order # <<>> /\ order \in Seq(Node)
    BY DEF TypeOK, List, PointersFollow
  <2>2. /\ Tail(order) \in Seq(Node) /\ Len(Tail(order)) = Len(order) - 1
        /\ \A i \in 1 .. Len(Tail(order)) : Tail(order)[i] = order[i + 1]
    BY <2>1, TailNodes
  <2> QED
    BY <2>2
<1>4. DOMAIN order' = 1 .. Len(order') /\ order' # <<>>
  <2>1. Len(order') # 0
    BY <1>1, <1>3
  <2>2. \A s \in Seq(Node) : Len(s) # 0 => DOMAIN s = 1 .. Len(s) /\ s # <<>>
    OBVIOUS
  <2> QED
    BY <1>3, <2>1, <2>2, Zenon
<1>5. NoRepeats(order')
  BY <1>1, RemoveTail DEF List, PointersFollow
<1>6. ChainNodes' \subseteq ChainNodes
  BY <1>1, <1>3, <1>4 DEF ChainNodes
<1>7. UNCHANGED <<next, head, epc, node, prev>>
  BY DEF enqueuer
<1>8. PointersFollow'
  <2>1. order'[1] = tail' /\ order'[Len(order')] = order[Len(order)]
    BY <1>1, <1>3
  <2>2. order'[Len(order')] = head' /\ next'[head'] = Null
    BY <1>7, <2>1 DEF List, PointersFollow
  <2>3. ASSUME NEW i \in 1 .. Len(order') - 1
        PROVE  \/ next'[order'[i]] = order'[i + 1]
               \/ /\ next'[order'[i]] = Null
                  /\ \E q \in Thread : Linking(q)' /\ prev'[q] = order'[i] /\ node'[q] = order'[i + 1]
    <3>1. i + 1 \in 1 .. Len(order) - 1 /\ order'[i] = order[i + 1] /\ order'[i + 1] = order[(i + 1) + 1]
      BY <1>1, <1>3
    <3>2. \/ next[order[i + 1]] = order[(i + 1) + 1]
          \/ /\ next[order[i + 1]] = Null
             /\ \E q \in Thread : Linking(q) /\ prev[q] = order[i + 1] /\ node[q] = order[(i + 1) + 1]
      BY <3>1 DEF List, PointersFollow
    <3> QED
      BY <1>7, <3>1, <3>2 DEF Linking
  <2> QED
    BY <1>4, <2>1, <2>2, <2>3 DEF PointersFollow
<1>9. Hands'
  <2> SUFFICES ASSUME NEW q \in Thread
      PROVE  /\ epc'[q] = "idle" => node'[q] = Null /\ prev'[q] = Null
             /\ epc'[q] = "swap" => node'[q] \in Node \ ChainNodes' /\ next'[node'[q]] = Null
             /\ Linking(q)' => \E i \in 1 .. Len(order') - 1 :
                                  /\ prev'[q] = order'[i] /\ node'[q] = order'[i + 1]
                                  /\ next'[order'[i]] = Null
    BY DEF Hands
  <2>1. ASSUME Linking(q)
        PROVE  \E i \in 1 .. Len(order') - 1 : /\ prev[q] = order'[i] /\ node[q] = order'[i + 1]
                                               /\ next[order'[i]] = Null
    <3>1. PICK i \in 1 .. Len(order) - 1 : /\ prev[q] = order[i] /\ node[q] = order[i + 1]
                                           /\ next[order[i]] = Null
      BY <2>1 DEF List, Hands
    <3>2. i # 1
      BY <1>1, <3>1
    <3>3. /\ i - 1 \in 1 .. Len(order') - 1
          /\ order'[i - 1] = order[i] /\ order'[(i - 1) + 1] = order[i + 1]
      BY <1>1, <1>3, <3>2
    <3> QED
      BY <3>1, <3>3
  <2> QED
    BY <1>6, <1>7, <2>1 DEF List, Hands, Linking
<1>10. Alone'
  BY <1>7 DEF List, Alone
<1> QED
  BY <1>1, <1>2, <1>3, <1>5, <1>8, <1>9, <1>10 DEF List

LEMMA StoreKeepsList ==
    ASSUME TypeOK, List, NEW p \in Thread, NEW n \in Node, n \notin InHands,
           StoreNull(p, n), UNCHANGED <<head, tail, order>>
    PROVE  /\ List' /\ next'[tail] = next[tail]
           /\ epc' = [epc EXCEPT ![p] = "swap"] /\ epc'[p] = "swap" /\ epc[p] = "idle"
           /\ next' \in [Node -> Node \union {Null}] /\ node' \in [Thread -> Node \union {Null}]
           /\ node' = [node EXCEPT ![p] = n] /\ prev' = prev
<1>1. /\ next' = [next EXCEPT ![n] = Null] /\ node' = [node EXCEPT ![p] = n]
      /\ epc' = [epc EXCEPT ![p] = "swap"] /\ epc[p] = "idle"
      /\ UNCHANGED <<prev, head, tail, order>>
  BY DEF StoreNull, Starts
<1>2. n \notin ChainNodes /\ \A q \in Thread : node[q] # n
  BY DEF InHands
<1>3. /\ Len(order) \in Nat \ {0} /\ DOMAIN order = 1 .. Len(order) /\ order[1] = tail
      /\ ChainNodes = {order[i] : i \in 1 .. Len(order)} /\ order \in Seq(Node)
  BY FirstNodes DEF TypeOK
<1>4. \A m \in Node \ {n} : next'[m] = next[m]
  BY <1>1 DEF TypeOK
<1>5. \A i \in 1 .. Len(order) : next'[order[i]] = next[order[i]]
  BY <1>2, <1>3, <1>4
<1>6. \A q \in Thread \ {p} : epc'[q] = epc[q] /\ node'[q] = node[q]
  BY <1>1 DEF TypeOK
<1>7. epc'[p] = "swap" /\ node'[p] = n /\ next'[n] = Null
  BY <1>1 DEF TypeOK
<1>8. next'[head] = Null
  BY <1>3, <1>5 DEF List, PointersFollow
<1>9. PointersFollow'
  <2>1. ASSUME NEW i \in 1 .. Len(order) - 1
        PROVE  \/ next'[order[i]] = order[i + 1]
               \/ /\ next'[order[i]] = Null
                  /\ \E q \in Thread : Linking(q)' /\ prev'[q] = order[i] /\ node'[q] = order[i + 1]
    <3>1. i \in 1 .. Len(order)
      BY <1>3
    <3>2. \/ next[order[i]] = order[i + 1]
          \/ /\ next[order[i]] = Null
             /\ \E q \in Thread : Linking(q) /\ prev[q] = order[i] /\ node[q] = order[i + 1]
      BY DEF List, PointersFollow
    <3>3. \A q \in Thread : Linking(q) => Linking(q)' /\ node'[q] = node[q]
      BY <1>1, <1>6 DEF Linking
    <3> QED
      BY <1>1, <1>5, <3>1, <3>2, <3>3
  <2> QED
    BY <1>1, <1>8, <2>1 DEF List, PointersFollow
<1>10. Hands'
  <2> SUFFICES ASSUME NEW q \in Thread
      PROVE  /\ epc'[q] = "idle" => node'[q] = Null /\ prev'[q] = Null
             /\ epc'[q] = "swap" => node'[q] \in Node \ ChainNodes' /\ next'[node'[q]] = Null
             /\ Linking(q)' => \E i \in 1 .. Len(order') - 1 :
                                  /\ prev'[q] = order'[i] /\ node'[q] = order'[i + 1]
                                  /\ next'[order'[i]] = Null
    BY DEF Hands
  <2>0. ChainNodes' = ChainNodes
    BY <1>1 DEF ChainNodes
  <2>1. CASE q = p
    BY <1>2, <1>7, <2>0, <2>1 DEF Linking
  <2>2. CASE q # p
    <3>1. epc'[q] = epc[q] /\ prev'[q] = prev[q] /\ node'[q] = node[q] /\ order' = order
      BY <1>1, <1>6, <2>2
    <3>2. epc[q] = "swap" => next'[node[q]] = next[node[q]]
      BY <1>2, <1>4 DEF List, Hands
    <3>3. Linking(q) => \E i \in 1 .. Len(order) - 1 : /\ prev[q] = order[i] /\ node[q] = order[i + 1]
                                                       /\ next'[order[i]] = Null
      <4>1. \A i \in 1 .. Len(order) - 1 : i \in 1 .. Len(order)
        BY <1>3
      <4> QED
        BY <1>5, <4>1 DEF List, Hands
    <3> QED
      BY <2>0, <3>1, <3>2, <3>3 DEF List, Hands, Linking
  <2> QED
    BY <2>1, <2>2
<1>11. Alone'
  BY <1>2, <1>6, <1>7 DEF List, Alone
<1>12. next' \in [Node -> Node \union {Null}] /\ node' \in [Thread -> Node \union {Null}]
  BY <1>1 DEF TypeOK
<1>13. NoRepeats(order')
  BY <1>1 DEF List
<1>14. next'[tail] = next[tail]
  BY <1>3, <1>5
<1> QED
  BY <1>1, <1>7, <1>9, <1>10, <1>11, <1>12, <1>13, <1>14 DEF List

-----------------------------------------------------------------------------
(* What the consumer sees of the queue *)

LEMMA Seen ==
    /\ Q!SeesInconsistent <=>
          /\ RemoveFirst(order, Stub) # <<>>
          /\ Head(RemoveFirst(order, Stub)) \notin Unlinked
          /\ \E i \in 2 .. Len(RemoveFirst(order, Stub)) : RemoveFirst(order, Stub)[i] \in Unlinked
    /\ (Q!SeesInconsistent)' <=>
          /\ RemoveFirst(order', Stub) # <<>>
          /\ Head(RemoveFirst(order', Stub)) \notin Unlinked'
          /\ \E i \in 2 .. Len(RemoveFirst(order', Stub)) : RemoveFirst(order', Stub)[i] \in Unlinked'
  BY DEF Q!SeesInconsistent, Unlinked

LEMMA SameSeen ==
    ASSUME RemoveFirst(order', Stub) = RemoveFirst(order, Stub), Unlinked' = Unlinked
    PROVE  (Q!SeesInconsistent)' <=> Q!SeesInconsistent
  BY Seen, Zenon

\* A producer that swaps in a node behind the only entry leaves the queue inconsistent.
LEMMA SecondSwap ==
    ASSUME TypeOK, List, Calls, NEW p \in Producer, Swap(p), Len(order) = 1, tail # Stub
    PROVE  (Q!SeesInconsistent)'
<1>1. p \in Thread /\ p # Consumer
  BY ThreadAssumption DEF Thread
<1>2. /\ order' \in Seq(Node) /\ NoRepeats(order') /\ Len(order') = 2
      /\ order'[2] = node[p] /\ order'[1] = tail
  <2>1. /\ order' \in Seq(Node) /\ List' /\ Len(order') = Len(order) + 1
        /\ order'[Len(order')] = node[p]
        /\ \A i \in 1 .. Len(order) : order'[i] = order[i]
    BY <1>1, SwapKeepsList
  <2>2. order[1] = tail /\ Len(order') = 2 /\ 1 \in 1 .. Len(order)
    BY <2>1, FirstNodes
  <2> QED
    BY <2>1, <2>2 DEF List
<1>3. node[p] # Stub /\ node[p] \notin ChainNodes /\ epc[p] = "swap" /\ tail \in ChainNodes
  <2>1. node[p] # Stub /\ node[p] \notin ChainNodes /\ epc[p] = "swap"
    BY <1>1 DEF Swap, List, Hands, Calls
  <2>2. 1 \in DOMAIN order /\ order[1] = tail
    BY FirstNodes
  <2> QED
    BY <2>1, <2>2 DEF ChainNodes
<1>4. node[p] \in Unlinked'
  BY <1>1 DEF Swap, TypeOK, Unlinked, Linking
<1>5. tail \notin Unlinked'
  <2>1. \A q \in Producer : Linking(q)' => q = p \/ Linking(q)
    BY <1>1 DEF Swap, TypeOK, Linking, Thread
  <2>2. \A q \in Producer : Linking(q)' => node'[q] # tail
    BY <1>3, <2>1, FirstNodes DEF Swap, Thread
  <2> QED
    BY <2>2 DEF Unlinked
<1>6. /\ RemoveFirst(order', Stub) # <<>>
      /\ Head(RemoveFirst(order', Stub)) \notin Unlinked'
      /\ \E i \in 2 .. Len(RemoveFirst(order', Stub)) : RemoveFirst(order', Stub)[i] \in Unlinked'
  <2>1. Len(order') >= 2
    BY <1>2
  <2> QED
    BY <1>2, <1>3, <1>4, <1>5, <2>1, SecondUnlinked
<1> QED
  BY <1>6, Seen, Zenon

\* The consumer finds the first node pointing to none although it is not the last one.
LEMMA NullMeansHalf ==
    ASSUME TypeOK, List, Calls, dpc \in {"load", "reload"},
           tail # Stub, next[tail] = Null, Len(order) # 1
    PROVE  half
<1>1. Len(order) >= 2 /\ order[1] = tail /\ 2 \in DOMAIN order /\ Len(order) \in Nat
  BY FirstNodes
<1>2. PICK p \in Thread : Linking(p) /\ node[p] = order[2]
  BY <1>1, FirstNodes
<1>3. p \in Producer /\ node[p] # Stub
  BY <1>2 DEF Calls, Linking, Thread
<1>4. tail \notin Unlinked /\ order[2] \in Unlinked
  BY <1>2, <1>3, FirstNodes DEF Unlinked, Thread
<1>5. /\ RemoveFirst(order, Stub) # <<>>
      /\ Head(RemoveFirst(order, Stub)) \notin Unlinked
      /\ \E i \in 2 .. Len(RemoveFirst(order, Stub)) : RemoveFirst(order, Stub)[i] \in Unlinked
  <2>1. order \in Seq(Node) /\ NoRepeats(order) /\ order[1] # Stub /\ order[2] # Stub
        /\ order[1] \notin Unlinked
    BY <1>1, <1>2, <1>3, <1>4 DEF TypeOK, List
  <2> QED
    BY <1>1, <1>4, <2>1, SecondUnlinked
<1>6. Q!SeesInconsistent
  BY <1>5, Seen, Zenon
<1> QED
  BY <1>6 DEF Calls

\* Steps that append, link and remove nothing do not show in the queue.
LEMMA SameUnlinked ==
    ASSUME \A p \in Producer : /\ Linking(p)' <=> Linking(p)
                               /\ Linking(p) => node'[p] = node[p]
    PROVE  Unlinked' = Unlinked
  BY DEF Unlinked

LEMMA StoreIsHidden ==
    ASSUME TypeOK, NEW p \in Thread, NEW n \in Node, StoreNull(p, n)
    PROVE  Unlinked' = Unlinked
<1>1. \A q \in Thread : /\ Linking(q)' <=> Linking(q)
                        /\ Linking(q) => node'[q] = node[q]
  BY DEF StoreNull, Starts, Linking, TypeOK
<1> QED
  BY <1>1, SameUnlinked DEF Thread

LEMMA QuietIsHidden ==
    ASSUME UNCHANGED enqueuer
    PROVE  Unlinked' = Unlinked
  BY DEF enqueuer, Unlinked, Linking

LEMMA SkipIsHidden ==
    ASSUME TypeOK, List, tail = Stub, order' = Tail(order)
    PROVE  RemoveFirst(order', Stub) = RemoveFirst(order, Stub)
  BY FirstNodes, RemoveTail DEF TypeOK, List, PointersFollow

-----------------------------------------------------------------------------
(* Every step preserves the invariant *)

\* Steps of the consumer that touch no pointer.
LEMMA QuietInv ==
    ASSUME QueueInv, UNCHANGED <<queue, enqueuer, order>>,
           dpc' \in {"idle", "load", "reload", "check", "last"},
           answer' \in Task \union {"none", "Empty", "Inconsistent"},
           half' \in BOOLEAN,
           \A p \in Thread : node[p] = Stub => dpc' = "last",
           dpc' \in {"load", "reload", "check"} => epc[Consumer] = "idle",
           dpc' \in {"reload", "check"} => tail # Stub,
           dpc' = "check" => half' \/ Len(order) = 1,
           dpc' = "last" => dpc = "last" /\ half' = half,
           dpc' # "idle" /\ Q!SeesInconsistent => half'
    PROVE  QueueInv'
<1>1. UNCHANGED <<next, head, tail, epc, node, prev, order>>
  BY DEF queue, enqueuer
<1>2. TypeOK'
  BY <1>1 DEF QueueInv, TypeOK
<1>3. List'
  BY <1>1 DEF QueueInv, List, NoRepeats, PointersFollow, Hands, Alone, Linking, ChainNodes
<1>4. (Q!SeesInconsistent)' <=> Q!SeesInconsistent
  BY <1>1, QuietIsHidden, SameSeen
<1>5. Calls'
  BY <1>1, <1>4 DEF QueueInv, Calls
<1> QED
  BY <1>2, <1>3, <1>5 DEF QueueInv

LEMMA StoreInv ==
    ASSUME QueueInv, NEW p \in Thread, NEW n \in Node, n \notin InHands, StoreNull(p, n),
           UNCHANGED <<head, tail, order, answer, half>>,
           \/ n # Stub /\ (p = Consumer => dpc = "idle") /\ dpc' = dpc
           \/ n = Stub /\ p = Consumer /\ dpc = "check" /\ head = tail /\ dpc' = "last"
    PROVE  QueueInv'
<1>1. /\ List' /\ next'[tail] = next[tail]
      /\ epc' = [epc EXCEPT ![p] = "swap"] /\ epc'[p] = "swap" /\ epc[p] = "idle"
      /\ next' \in [Node -> Node \union {Null}] /\ node' \in [Thread -> Node \union {Null}]
      /\ node' = [node EXCEPT ![p] = n] /\ prev' = prev
  BY StoreKeepsList DEF QueueInv
<1>2. TypeOK'
  BY <1>1 DEF QueueInv, TypeOK
<1>3. (Q!SeesInconsistent)' <=> Q!SeesInconsistent
  BY StoreIsHidden, SameSeen DEF QueueInv
<1>4. \A q \in Thread \ {p} : epc'[q] = epc[q] /\ node'[q] = node[q]
  BY <1>1 DEF QueueInv, TypeOK
<1>5. node'[p] = n /\ Consumer \in Thread
  BY <1>1 DEF QueueInv, TypeOK, Thread
<1>6. CASE n # Stub /\ (p = Consumer => dpc = "idle") /\ dpc' = dpc
  <2>1. dpc # "idle" => epc'[Consumer] = epc[Consumer]
    BY <1>4, <1>5, <1>6
  <2>2. \A q \in Thread : node'[q] = Stub => q = Consumer /\ dpc = "last"
    BY <1>4, <1>5, <1>6 DEF QueueInv, Calls
  <2> QED
    BY <1>1, <1>2, <1>3, <1>6, <2>1, <2>2 DEF QueueInv, Calls
<1>7. CASE n = Stub /\ p = Consumer /\ dpc = "check" /\ head = tail /\ dpc' = "last"
  <2>1. Len(order) = 1
    BY <1>7, FirstNodes DEF QueueInv
  <2>2. \A q \in Thread : node'[q] = Stub => q = Consumer
    BY <1>4, <1>5, <1>7 DEF QueueInv, Calls
  <2> QED
    BY <1>1, <1>2, <1>3, <1>7, <2>1, <2>2 DEF QueueInv, Calls
<1> QED
  BY <1>6, <1>7

LEMMA SwapInv ==
    ASSUME QueueInv, NEW p \in Thread, Swap(p)
    PROVE  QueueInv'
<1>1. /\ order' \in Seq(Node) /\ List' /\ Len(order') = Len(order) + 1 /\ prev'[p] = head
  BY SwapKeepsList DEF QueueInv
<1>2. TypeOK'
  <2>1. node[p] \in Node
    BY DEF Swap, QueueInv, List, Hands
  <2>2. half' \in BOOLEAN
    BY DEF Swap, Watch
  <2> QED
    BY <1>1, <2>1, <2>2 DEF Swap, QueueInv, TypeOK
<1>3. /\ Consumer \in Thread /\ epc[p] = "swap" /\ epc'[p] = "link"
      /\ \A q \in Thread \ {p} : epc'[q] = epc[q] /\ prev'[q] = prev[q]
      /\ UNCHANGED <<next, tail, node, dpc>>
  BY DEF Swap, QueueInv, TypeOK, Thread
<1>4. /\ half => half'
      /\ dpc # "idle" /\ (Q!SeesInconsistent)' => half'
  BY DEF Swap, Watch
<1>5. ASSUME p # Consumer, Len(order) = 1, dpc \in {"check", "last"} PROVE half'
  <2>1. (Q!SeesInconsistent)'
    BY <1>5, SecondSwap DEF QueueInv, Calls, Thread
  <2> QED
    BY <1>4, <1>5, <2>1
<1>6. dpc \in {"load", "reload", "check"} => p # Consumer /\ epc'[Consumer] = "idle"
  BY <1>3 DEF QueueInv, Calls
<1>7. dpc = "check" => half'
  BY <1>4, <1>5, <1>6 DEF QueueInv, Calls
<1>8. ASSUME dpc = "last"
      PROVE  \/ half' \/ next[tail] # Null
             \/ epc'[Consumer] = "link" /\ prev'[Consumer] = tail
  <2>1. CASE half \/ next[tail] # Null
    BY <1>4, <2>1
  <2>2. CASE epc[Consumer] = "swap" /\ Len(order) = 1 /\ p = Consumer
    BY <1>1, <1>3, <2>2, FirstNodes DEF QueueInv
  <2>3. CASE epc[Consumer] = "swap" /\ Len(order) = 1 /\ p # Consumer
    BY <1>5, <1>8, <2>3
  <2>4. CASE epc[Consumer] = "link" /\ prev[Consumer] = tail
    BY <1>3, <2>4
  <2> QED
    BY <1>8, <2>1, <2>2, <2>3, <2>4 DEF QueueInv, Calls
<1>9. Calls'
  BY <1>3, <1>4, <1>6, <1>7, <1>8 DEF QueueInv, Calls
<1> QED
  BY <1>1, <1>2, <1>9 DEF QueueInv

LEMMA LinkInv ==
    ASSUME QueueInv, NEW p \in Thread, Link(p)
    PROVE  QueueInv'
<1>1. /\ List'
      /\ next[tail] # Null => next'[tail] # Null
      /\ prev[p] = tail => next'[tail] # Null
  BY LinkKeepsList DEF QueueInv
<1>2. TypeOK'
  <2>1. half' \in BOOLEAN
    BY DEF Link, Watch
  <2> QED
    BY <2>1 DEF Link, QueueInv, TypeOK
<1>3. /\ Consumer \in Thread /\ epc[p] = "link" /\ epc'[p] = "idle" /\ node'[p] = Null
      /\ \A q \in Thread \ {p} : epc'[q] = epc[q] /\ prev'[q] = prev[q] /\ node'[q] = node[q]
      /\ UNCHANGED <<tail, dpc, order>>
  BY DEF Link, QueueInv, TypeOK, Thread
<1>4. /\ half => half'
      /\ dpc # "idle" /\ (Q!SeesInconsistent)' => half'
  BY DEF Link, Watch
<1>5. \A q \in Thread : node'[q] = Stub => q = Consumer /\ dpc = "last"
  BY <1>3, NodeAssumption DEF QueueInv, Calls
<1>6. dpc \in {"load", "reload", "check"} => epc'[Consumer] = "idle"
  BY <1>3 DEF QueueInv, Calls
<1>7. dpc = "last" => \/ half' \/ next'[tail] # Null
                      \/ epc'[Consumer] = "swap" /\ Len(order) = 1
                      \/ epc'[Consumer] = "link" /\ prev'[Consumer] = tail
  <2>1. CASE p = Consumer
    BY <1>1, <1>3, <1>4, <2>1 DEF QueueInv, Calls
  <2>2. CASE p # Consumer
    BY <1>1, <1>3, <1>4, <2>2 DEF QueueInv, Calls
  <2> QED
    BY <2>1, <2>2
<1>8. dpc = "check" => half' \/ Len(order) = 1
  BY <1>4 DEF QueueInv, Calls
<1>9. Calls'
  BY <1>3, <1>4, <1>5, <1>6, <1>7, <1>8 DEF QueueInv, Calls
<1> QED
  BY <1>1, <1>2, <1>9 DEF QueueInv

LEMMA SkipStubInv == ASSUME QueueInv, SkipStub PROVE QueueInv'
<1>1. order' \in Seq(Node) /\ tail' \in Node /\ tail' # tail /\ List'
  BY TailKeepsList DEF QueueInv, SkipStub
<1>2. UNCHANGED <<next, head, epc, node, prev, answer, half>> /\ dpc = "load" /\ dpc' = "reload"
  BY DEF SkipStub, enqueuer
<1>3. TypeOK'
  BY <1>1, <1>2 DEF QueueInv, TypeOK
<1>4. (Q!SeesInconsistent)' <=> Q!SeesInconsistent
  BY SkipIsHidden, QuietIsHidden, SameSeen DEF QueueInv, SkipStub
<1>5. Calls'
  BY <1>1, <1>2, <1>4 DEF QueueInv, Calls, SkipStub
<1> QED
  BY <1>1, <1>3, <1>5 DEF QueueInv

LEMMA LoadDataInv == ASSUME QueueInv, LoadData PROVE QueueInv'
<1>1. order' \in Seq(Node) /\ tail' \in Node /\ tail' # tail /\ List'
  BY TailKeepsList DEF QueueInv, LoadData
<1>2. /\ UNCHANGED <<next, head, epc, node, prev, half>> /\ dpc' = "idle" /\ answer' = tail
      /\ epc[Consumer] = "idle" /\ tail # Stub
  BY DEF LoadData, Loads, Answer, enqueuer
<1>3. TypeOK'
  BY <1>1, <1>2 DEF QueueInv, TypeOK, Node
<1>4. Calls'
  <2>1. Consumer \in Thread
    BY DEF Thread
  <2>2. \A p \in Thread : node[p] # Stub
    BY <1>2, <2>1, NodeAssumption DEF QueueInv, List, Hands, Calls
  <2> QED
    BY <1>2, <2>2 DEF Calls
<1> QED
  BY <1>1, <1>3, <1>4 DEF QueueInv

LEMMA NextInv == QueueInv /\ [Next]_vars => QueueInv'
<1> SUFFICES ASSUME QueueInv, [Next]_vars PROVE QueueInv'
  OBVIOUS
<1>0. /\ dpc \in {"idle", "load", "reload", "check", "last"} /\ half \in BOOLEAN
      /\ answer \in Task \union {"none", "Empty", "Inconsistent"}
  BY DEF QueueInv, TypeOK
<1>1. ASSUME epc[Consumer] = "idle", NEW p \in Thread PROVE node[p] # Stub
  <2>1. Consumer \in Thread
    BY DEF Thread
  <2> QED
    BY <1>1, <2>1, NodeAssumption DEF QueueInv, List, Hands, Calls
<1>2. CASE UNCHANGED vars
  <2>1. UNCHANGED <<queue, enqueuer, order, next, head, tail, epc, node, prev, dpc, answer, half>>
    BY <1>2 DEF vars, queue, enqueuer, dequeuer
  <2>2. (Q!SeesInconsistent)' <=> Q!SeesInconsistent
    BY <2>1, QuietIsHidden, SameSeen
  <2>3. List'
    BY <2>1 DEF QueueInv, List, NoRepeats, PointersFollow, Hands, Alone, Linking, ChainNodes
  <2> QED
    BY <2>1, <2>2, <2>3 DEF QueueInv, TypeOK, Calls
<1>3. ASSUME NEW p \in Thread, NEW t \in Task, EnqueueTask(p, t) PROVE QueueInv'
  <2>1. t \in Node /\ t # Stub
    BY NodeAssumption DEF Node
  <2> QED
    BY <1>3, <2>1, StoreInv DEF EnqueueTask, dequeuer
<1>4. ASSUME NEW p \in Thread, Swap(p) PROVE QueueInv'
  BY <1>4, SwapInv
<1>5. ASSUME NEW p \in Thread, Link(p) PROVE QueueInv'
  BY <1>5, LinkInv
<1>6. CASE Dequeue
  <2>1. Q!SeesInconsistent \in BOOLEAN
    BY DEF Q!SeesInconsistent
  <2> QED
    BY <1>1, <1>6, <2>1, QuietInv DEF Dequeue
<1>7. CASE LoadEmpty
  <2>1. epc[Consumer] = "idle"
    BY <1>7 DEF LoadEmpty, QueueInv, Calls
  <2> QED
    BY <1>0, <1>1, <1>7, <2>1, QuietInv DEF LoadEmpty, Answer
<1>8. CASE SkipStub
  BY <1>8, SkipStubInv
<1>9. CASE LoadData
  BY <1>9, LoadDataInv
<1>10. CASE LoadNull
  <2>1. /\ dpc \in {"load", "reload"} /\ tail # Stub /\ epc[Consumer] = "idle" /\ next[tail] = Null
        /\ dpc' = "check" /\ UNCHANGED <<queue, enqueuer, order, answer, half>>
    BY <1>0, <1>10 DEF LoadNull, Loads
  <2>2. half \/ Len(order) = 1
    BY <2>1, NullMeansHalf DEF QueueInv
  <2>3. Q!SeesInconsistent => half
    BY <2>1 DEF QueueInv, Calls
  <2> QED
    BY <1>0, <1>1, <2>1, <2>2, <2>3, QuietInv
<1>11. CASE LoadLastNull
  BY <1>0, <1>1, <1>11, QuietInv DEF LoadLastNull, Loads, Answer
<1>12. CASE HeadMoved
  <2>1. epc[Consumer] = "idle"
    BY <1>12 DEF HeadMoved, QueueInv, Calls
  <2> QED
    BY <1>0, <1>1, <1>12, <2>1, QuietInv DEF HeadMoved, Answer
<1>13. CASE HeadIsTail
  <2>1. dpc = "check" /\ epc[Consumer] = "idle" /\ tail # Stub /\ head = tail
    BY <1>13 DEF HeadIsTail, QueueInv, Calls
  <2>2. ChainNodes = {tail}
    <3>1. Len(order) = 1 /\ order[1] = tail /\ ChainNodes = {order[i] : i \in 1 .. Len(order)}
      BY <2>1, FirstNodes DEF QueueInv
    <3> QED
      BY <3>1
  <2>3. Stub \notin InHands /\ Stub \in Node /\ Consumer \in Thread
    BY <1>1, <2>1, <2>2 DEF InHands, Node, Thread
  <2> QED
    BY <1>13, <2>1, <2>3, StoreInv DEF HeadIsTail
<1> QED
  BY <1>2, <1>3, <1>4, <1>5, <1>6, <1>7, <1>8, <1>9, <1>10, <1>11, <1>12, <1>13 DEF Next

-----------------------------------------------------------------------------
(* Steps of the pointers as steps of MPSCQueue *)

Ready == RemoveFirst(order, Stub)

LEMMA SwapAppends ==
    ASSUME QueueInv, NEW p \in Thread, Swap(p)
    PROVE  Ready' = IF node[p] = Stub THEN Ready ELSE Append(Ready, node[p])
<1>1. node[p] \in Node /\ node[p] \notin ChainNodes /\ order \in Seq(Node) /\ NoRepeats(order)
  BY DEF Swap, QueueInv, TypeOK, List, Hands
<1>2. \A i \in DOMAIN order : order[i] # node[p]
  BY <1>1 DEF ChainNodes
<1>3. order' = Append(order, node[p])
  BY DEF Swap
<1> QED
  BY <1>1, <1>2, <1>3, RemoveAppend DEF Ready

LEMMA SwapUnlinks ==
    ASSUME QueueInv, NEW p \in Producer, Swap(p)
    PROVE  Unlinked' = Unlinked \union {node[p]}
<1>1. p \in Thread /\ node' = node /\ epc[p] = "swap"
  BY DEF Swap, Thread
<1>2. \A q \in Producer : Linking(q)' <=> q = p \/ Linking(q)
  BY <1>1 DEF Swap, QueueInv, TypeOK, Linking, Thread
<1> QED
  BY <1>1, <1>2 DEF Unlinked

LEMMA LinkLinks ==
    ASSUME QueueInv, NEW p \in Producer, Link(p)
    PROVE  Unlinked' = Unlinked \ {node[p]}
<1>1. p \in Thread /\ Linking(p)
  BY DEF Link, Linking, Thread
<1>2. \A q \in Producer : /\ Linking(q)' <=> q # p /\ Linking(q)
                          /\ q # p => node'[q] = node[q]
  BY <1>1 DEF Link, QueueInv, TypeOK, Linking, Thread
<1>3. \A q \in Thread : Linking(q) => node[q] # Null
  <2>1. ASSUME NEW q \in Thread, Linking(q) PROVE node[q] # Null
    <3>1. PICK i \in 1 .. Len(order) - 1 : node[q] = order[i + 1]
      BY <2>1 DEF QueueInv, List, Hands
    <3>2. i + 1 \in 1 .. Len(order) /\ order \in Seq(Node)
      BY FirstNodes DEF QueueInv, TypeOK
    <3>3. node[q] \in Node
      BY <3>1, <3>2
    <3> QED
      BY <3>3, NodeAssumption DEF Node
  <2> QED
    BY <2>1
<1>4. \A q \in Producer : q # p /\ Linking(q) => node[q] # node[p]
  BY <1>1, <1>3 DEF QueueInv, List, Alone, Thread
<1> QED
  BY <1>1, <1>2, <1>4 DEF Unlinked

\* The consumer's own enqueue leaves no entry unlinked.
LEMMA OwnIsHidden ==
    ASSUME QueueInv, Swap(Consumer) \/ Link(Consumer)
    PROVE  Unlinked' = Unlinked
<1>1. \A q \in Producer : /\ Linking(q)' <=> Linking(q)
                          /\ node'[q] = node[q]
  BY ThreadAssumption DEF Swap, Link, QueueInv, TypeOK, Linking, Thread
<1> QED
  BY <1>1, SameUnlinked

\* The oldest entry: what LoadData takes out.
LEMMA LoadTakesHead ==
    ASSUME QueueInv, LoadData
    PROVE  /\ tail \in Task /\ Ready # <<>> /\ tail = Head(Ready) /\ tail \notin Unlinked
           /\ Ready' = Tail(Ready) /\ Unlinked' = Unlinked
<1>1. /\ tail # Stub /\ tail \in Node /\ order[1] = tail /\ order # <<>>
      /\ order \in Seq(Node) /\ NoRepeats(order) /\ order' = Tail(order)
  BY FirstNodes DEF LoadData, Loads, QueueInv, TypeOK, List, PointersFollow
<1>2. tail \notin Unlinked
  BY FirstNodes DEF QueueInv, Unlinked, Thread
<1>3. Unlinked' = Unlinked
  BY QuietIsHidden DEF LoadData
<1>4. Ready # <<>> /\ tail = Head(Ready) /\ RemoveFirst(Tail(order), Stub) = Tail(Ready)
  BY <1>1, RemoveTail DEF Ready
<1> QED
  BY <1>1, <1>2, <1>3, <1>4 DEF Ready, Node

LEMMA InitRefines == Init => Q!QueueInit
<1> SUFFICES ASSUME Init PROVE Q!QueueInit
  OBVIOUS
<1>1. order \in Seq(Node) /\ Len(order) = 1 /\ DOMAIN order = {1} /\ order[1] = Stub
  BY DEF Init, Node
<1>2. Ready \in Seq(Node) /\ Len(Ready) = Len(order) - 1
  <2>1. NoRepeats(order) /\ 1 \in DOMAIN order
    BY <1>1 DEF NoRepeats
  <2> QED
    BY <1>1, <2>1, RemoveOne DEF Ready
<1>3. Ready = <<>>
  BY <1>1, <1>2
<1>4. Unlinked = {}
  BY DEF Init, Unlinked, Linking, Thread
<1> QED
  BY <1>3, <1>4 DEF Q!QueueInit, Ready, Unlinked

LEMMA StepRefines == QueueInv /\ [Next]_vars => [Q!QueueNext]_(Q!queueVars)
<1> SUFFICES ASSUME QueueInv, [Next]_vars,
                    ~(Ready' = Ready /\ Unlinked' = Unlinked)
             PROVE  Q!QueueNext
  BY DEF Q!queueVars, Ready, Unlinked
<1>1. ASSUME order' = order, UNCHANGED enqueuer PROVE FALSE
  BY <1>1, QuietIsHidden DEF Ready
<1>2. CASE UNCHANGED vars
  BY <1>1, <1>2 DEF vars
<1>3. ASSUME NEW p \in Thread, NEW t \in Task, EnqueueTask(p, t) PROVE FALSE
  <2>1. Unlinked' = Unlinked
    BY <1>3, StoreIsHidden DEF EnqueueTask, QueueInv, Node
  <2> QED
    BY <1>3, <2>1 DEF EnqueueTask, Ready
<1>4. ASSUME NEW p \in Thread, Swap(p) PROVE Q!QueueNext
  <2>1. CASE node[p] = Stub
    <3>1. p = Consumer
      BY <2>1 DEF QueueInv, Calls
    <3> QED
      BY <1>4, <2>1, <3>1, SwapAppends, OwnIsHidden
  <2>2. CASE node[p] # Stub
    <3>1. node[p] \in Task /\ Ready' = Append(Ready, node[p])
      BY <1>4, <2>2, SwapAppends DEF Swap, QueueInv, List, Hands, Node
    <3>2. CASE p \in Producer
      <4>1. PICK t \in Task : t = node[p]
        BY <3>1
      <4>2. Q!SwapHead(t)
        BY <1>4, <3>1, <3>2, <4>1, SwapUnlinks DEF Q!SwapHead, Ready, Unlinked
      <4> QED
        BY <4>2 DEF Q!QueueNext
    <3>3. CASE p = Consumer
      <4>1. PICK t \in Task : t = node[p]
        BY <3>1
      <4>2. Q!Enqueue(t)
        BY <1>4, <3>1, <3>3, <4>1, OwnIsHidden DEF Q!Enqueue, Ready, Unlinked
      <4> QED
        BY <4>2 DEF Q!QueueNext
    <3> QED
      BY <3>2, <3>3 DEF Thread
  <2> QED
    BY <2>1, <2>2
<1>5. ASSUME NEW p \in Thread, Link(p) PROVE Q!QueueNext
  <2>1. Ready' = Ready
    BY <1>5 DEF Link, Ready
  <2>2. CASE p = Consumer
    BY <1>5, <2>1, <2>2, OwnIsHidden
  <2>3. CASE p \in Producer
    <3>1. node[p] \in Task
      <4>1. PICK i \in 1 .. Len(order) - 1 : node[p] = order[i + 1]
        BY <1>5 DEF Link, Linking, QueueInv, List, Hands
      <4>2. i + 1 \in 1 .. Len(order) /\ order \in Seq(Node)
        BY FirstNodes DEF QueueInv, TypeOK
      <4>3. node[p] \in Node
        BY <4>1, <4>2
      <4>4. node[p] # Stub
        BY <2>3, ThreadAssumption DEF QueueInv, Calls
      <4> QED
        BY <4>3, <4>4 DEF Node
    <3>2. PICK t \in Task : t = node[p]
      BY <3>1
    <3>3. Q!LinkPrev(t)
      BY <1>5, <2>1, <2>3, <3>2, LinkLinks DEF Q!LinkPrev, Ready, Unlinked
    <3> QED
      BY <3>3 DEF Q!QueueNext
  <2> QED
    BY <2>2, <2>3 DEF Thread
<1>6. CASE Dequeue \/ LoadEmpty \/ LoadNull \/ LoadLastNull \/ HeadMoved
  BY <1>1, <1>6 DEF Dequeue, LoadEmpty, LoadNull, LoadLastNull, HeadMoved
<1>7. CASE SkipStub
  BY <1>7, SkipIsHidden, QuietIsHidden DEF SkipStub, QueueInv, Ready
<1>8. CASE LoadData
  <2>1. tail \in Task /\ Q!DequeueData(tail)
    BY <1>8, LoadTakesHead DEF Q!DequeueData, Q!TakesHead, Ready, Unlinked
  <2> QED
    BY <2>1 DEF Q!QueueNext
<1>9. CASE HeadIsTail
  <2>1. Unlinked' = Unlinked
    BY <1>9, StoreIsHidden DEF HeadIsTail, QueueInv, Thread, Node
  <2> QED
    BY <1>9, <2>1 DEF HeadIsTail, Ready
<1> QED
  BY <1>2, <1>3, <1>4, <1>5, <1>6, <1>7, <1>8, <1>9 DEF Next

-----------------------------------------------------------------------------
(* What dequeue answers *)

LEMMA EmptyIsEmpty ==
    ASSUME QueueInv, LoadEmpty
    PROVE  Q!SeesEmpty
<1>1. /\ tail = Stub /\ next[tail] = Null /\ epc[Consumer] = "idle"
      /\ order[1] = tail /\ Len(order) \in Nat \ {0} /\ DOMAIN order = 1 .. Len(order)
      /\ order \in Seq(Node) /\ NoRepeats(order)
  BY FirstNodes DEF LoadEmpty, QueueInv, TypeOK, List, Calls
<1>2. /\ Ready \in Seq(Node) /\ Len(Ready) = Len(order) - 1
      /\ \A i \in 1 .. Len(order) - 1 : Ready[i] = IF i < 1 THEN order[i] ELSE order[i + 1]
  <2>1. 1 \in DOMAIN order /\ order[1] = Stub
    BY <1>1
  <2> QED
    BY <1>1, <2>1, RemoveOne DEF Ready
<1>3. CASE Len(order) = 1
  <2>1. Ready = <<>>
    BY <1>2, <1>3
  <2> QED
    BY <2>1 DEF Q!SeesEmpty, Ready
<1>4. CASE Len(order) >= 2
  <2>1. PICK p \in Thread : Linking(p) /\ node[p] = order[2]
    BY <1>1, <1>4, FirstNodes DEF QueueInv
  <2>2. p \in Producer
    BY <1>1, <2>1 DEF Linking, Thread
  <2>3. Head(Ready) = order[2]
    BY <1>1, <1>2, <1>4
  <2>4. Head(Ready) \in Unlinked
    BY <2>1, <2>2, <2>3 DEF Unlinked
  <2> QED
    BY <2>4 DEF Q!SeesEmpty, Ready, Unlinked
<1> QED
  BY <1>1, <1>3, <1>4

LEMMA StepAnswers ==
    ASSUME QueueInv, [Next]_vars
    PROVE  /\ \A t \in Task : Answers(t) => Q!DequeueData(t)
           /\ Answers("Empty") => Q!SeesEmpty
           /\ Answers("Inconsistent") => half
<1>1. ASSUME answer' \in {answer, "none"}
      PROVE  /\ \A t \in Task : ~Answers(t)
             /\ ~Answers("Empty") /\ ~Answers("Inconsistent")
  BY <1>1, NodeAssumption DEF Answers
<1>2. CASE UNCHANGED vars
  BY <1>1, <1>2 DEF vars, dequeuer
<1>3. CASE \E p \in Thread : (\E t \in Task : EnqueueTask(p, t)) \/ Swap(p) \/ Link(p)
  BY <1>1, <1>3 DEF EnqueueTask, Swap, Link, dequeuer
<1>4. CASE Dequeue \/ SkipStub \/ LoadNull \/ HeadIsTail
  BY <1>1, <1>4 DEF Dequeue, SkipStub, LoadNull, HeadIsTail
<1>5. CASE LoadEmpty
  <2>1. answer' = "Empty"
    BY <1>5 DEF LoadEmpty, Answer
  <2> QED
    BY <1>5, <2>1, EmptyIsEmpty, NodeAssumption DEF Answers
<1>6. CASE LoadData
  <2>1. answer' = tail /\ tail \in Task
    BY <1>6, LoadTakesHead DEF LoadData, Answer
  <2>2. Q!DequeueData(tail)
    BY <1>6, LoadTakesHead DEF Q!DequeueData, Q!TakesHead, Ready, Unlinked
  <2> QED
    BY <2>1, <2>2, NodeAssumption DEF Answers
<1>7. CASE LoadLastNull \/ HeadMoved
  <2>1. answer' = "Inconsistent"
    BY <1>7 DEF LoadLastNull, HeadMoved, Answer
  <2>2. half
    <3>1. CASE LoadLastNull
      BY <3>1 DEF LoadLastNull, Loads, QueueInv, Calls
    <3>2. CASE HeadMoved
      BY <3>2, FirstNodes DEF HeadMoved, QueueInv, Calls
    <3> QED
      BY <1>7, <3>1, <3>2
  <2> QED
    BY <2>1, <2>2, NodeAssumption DEF Answers
<1> QED
  BY <1>2, <1>3, <1>4, <1>5, <1>6, <1>7 DEF Next

-----------------------------------------------------------------------------
\* The invariant holds throughout.
LEMMA Invariance == Spec => []QueueInv
  BY InitInv, NextInv, PTL DEF Spec

\* Every variable keeps its type.
THEOREM QueueTypes == Spec => []TypeOK
<1>1. QueueInv => TypeOK
  BY DEF QueueInv
<1> QED
  BY <1>1, Invariance, PTL

\* From tail to head the pointers lead through the nodes in the order of their swaps,
\* with a gap only where a thread has yet to link (ready_to_run_queue.rs:43-45).
THEOREM FollowsOrder == Spec => []PointersFollow
<1>1. QueueInv => PointersFollow
  BY DEF QueueInv, List
<1> QED
  BY <1>1, Invariance, PTL

\* A node that a thread is about to link behind (line 45) has not left the queue.
THEOREM LinksLive == Spec => []LinksBehindLiveNode
<1>1. QueueInv => LinksBehindLiveNode
  <2> SUFFICES ASSUME QueueInv, NEW p \in Thread, Linking(p)
               PROVE  prev[p] \in ChainNodes /\ next[prev[p]] = Null
    BY DEF LinksBehindLiveNode
  <2>1. PICK i \in 1 .. Len(order) - 1 : prev[p] = order[i] /\ next[order[i]] = Null
    BY DEF QueueInv, List, Hands
  <2>2. i \in DOMAIN order
    BY FirstNodes DEF QueueInv
  <2> QED
    BY <2>1, <2>2 DEF ChainNodes
<1> QED
  BY <1>1, Invariance, PTL

\* The pointers implement the abstract queue of the pool: each step is one of
\* MPSCQueue or changes nothing of it, for any number of producers and tasks.
THEOREM ImplementsMPSCQueue == Spec => IsMPSCQueue
  BY InitRefines, StepRefines, Invariance, PTL DEF Spec, IsMPSCQueue, Q!QueueSpec

\* dequeue (lines 48-81) answers what is so: the oldest entry, that none can be
\* reached, or that one was half enqueued during the call.
THEOREM DequeueAnswers == Spec => AnswersAreRight
<1>1. QueueInv /\ [Next]_vars =>
         [ /\ \A t \in Task : Answers(t) => Q!DequeueData(t)
           /\ Answers("Empty") => Q!SeesEmpty
           /\ Answers("Inconsistent") => half ]_vars
  BY StepAnswers
<1> QED
  BY <1>1, Invariance, PTL DEF Spec, AnswersAreRight
=============================================================================
