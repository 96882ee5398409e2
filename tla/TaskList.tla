------------------------------ MODULE TaskList ------------------------------
(***************************************************************************)
(* head_all, the doubly linked list of the tasks in a pool, and the        *)
(* iterators over it (futures_unordered.rs:117-128, 264-338, iter.rs).     *)
(* New tasks go to its front.  Only the length of the first one is kept up *)
(* to date, and `next` of a task outside the list has a value of its own.  *)
(*                                                                         *)
(* A list is a record, and the operations map a list to the next one: they *)
(* run under &mut of the owner, so nobody sees the list half changed.      *)
(***************************************************************************)
EXTENDS Integers, Sequences

CONSTANTS
    Task,              \* tasks, by address
    Null,              \* the null pointer
    PendingNextAll     \* pending_next_all(), the address of the stub

ASSUME PointerAssumption ==
    /\ Null \notin Task /\ PendingNextAll \notin Task
    /\ Null # PendingNextAll

ListType == [head : Task \union {Null},
             next : [Task -> Task \union {Null, PendingNextAll}],
             prev : [Task -> Task \union {Null}],
             len : [Task -> Int]]

EmptyList == [head |-> Null,
              next |-> [t \in Task |-> PendingNextAll],
              prev |-> [t \in Task |-> Null],
              len |-> [t \in Task |-> 0]]

\* len(): what the first task says.
Count(l) == IF l.head = Null THEN 0 ELSE l.len[l.head]

\* Variant: the task that was first does not learn of the new one.
LinkedNoPrev(l, t) ==
    [head |-> t,
     next |-> [l.next EXCEPT ![t] = l.head],
     prev |-> l.prev,
     len |-> [l.len EXCEPT ![t] = Count(l) + 1]]

\* link(): t becomes the first task.
Linked(l, t) ==
    [head |-> t,
     next |-> [l.next EXCEPT ![t] = l.head],
     prev |-> [u \in Task |-> IF u = l.head THEN t ELSE l.prev[u]],
     len |-> [l.len EXCEPT ![t] = Count(l) + 1]]

\* Variant: the new length is stored in the task that was first.
UnlinkedOldLen(l, t) ==
    LET n == l.next[t]  p == l.prev[t]
    IN  [head |-> IF p = Null THEN n ELSE l.head,
         next |-> [u \in Task |-> IF u = t THEN PendingNextAll
                                  ELSE IF u = p THEN n ELSE l.next[u]],
         prev |-> [u \in Task |-> IF u = t THEN Null
                                  ELSE IF u = n THEN p ELSE l.prev[u]],
         len |-> [l.len EXCEPT ![l.head] = @ - 1]]

\* unlink(): t is taken out and the first task, perhaps a new one, gets the length.
Unlinked(l, t) ==
    LET n == l.next[t]  p == l.prev[t]
        head == IF p = Null THEN n ELSE l.head
    IN  [head |-> head,
         next |-> [u \in Task |-> IF u = t THEN PendingNextAll
                                  ELSE IF u = p THEN n ELSE l.next[u]],
         prev |-> [u \in Task |-> IF u = t THEN Null
                                  ELSE IF u = n THEN p ELSE l.prev[u]],
         len |-> [u \in Task |-> IF u = head THEN Count(l) - 1 ELSE l.len[u]]]

-----------------------------------------------------------------------------
\* The sequence of tasks a list stands for.

Member(s, t) == \E i \in 1 .. Len(s) : s[i] = t

\* The position of a member; members are distinct.
Position(s, t) == CHOOSE i \in 1 .. Len(s) : s[i] = t

Without(s, t) ==
    LET k == Position(s, t)
    IN  [i \in 1 .. Len(s) - 1 |-> IF i < k THEN s[i] ELSE s[i + 1]]

Distinct(s) == \A i, j \in 1 .. Len(s) : s[i] = s[j] => i = j

\* The pointers of l are those of the sequence s, the length in its first task is
\* that of s, and a task outside is marked as such (the assertions of
\* release_task, futures_unordered.rs:229-232).
Represents(l, s) ==
    /\ l.head = (IF Len(s) = 0 THEN Null ELSE s[1])
    /\ Count(l) = Len(s)
    /\ \A i \in 1 .. Len(s) :
          /\ l.next[s[i]] = (IF i = Len(s) THEN Null ELSE s[i + 1])
          /\ l.prev[s[i]] = (IF i = 1 THEN Null ELSE s[i - 1])
    /\ \A t \in Task : ~Member(s, t) =>
          l.next[t] = PendingNextAll /\ l.prev[t] = Null
=============================================================================
