--------------------------- MODULE ReadyToRunQueue ---------------------------
(***************************************************************************)
(* src/futures/ready_to_run_queue.rs, one atomic access at a time: the     *)
(* 1024cores intrusive MPSC queue, a list of nodes threaded through their  *)
(* next_ready_to_run pointers, with a stub node that is enqueued like any  *)
(* other to let the last entry out.  It implements MPSCQueue, which is all *)
(* that the modules of the pool know about it.                             *)
(*                                                                         *)
(* Its users enqueue a node only while it is in nobody's hands (QueuedOnce *)
(* of FuturesUnordered), and only the consumer dequeues.  A step is one    *)
(* access to a pointer others may write, with what is private around it.   *)
(***************************************************************************)
EXTENDS Naturals, SequencesExt

CONSTANTS
    Task,              \* the nodes that carry a task
    Stub,              \* the node that carries none
    Producer,          \* threads that wake
    Consumer,          \* the owner of the pool
    Null               \* the null pointer

ASSUME NodeAssumption ==
    /\ Stub \notin Task /\ Null \notin Task \union {Stub}
    /\ {"none", "Empty", "Inconsistent"} \intersect Task = {}
ASSUME ThreadAssumption == Consumer \notin Producer

VARIABLES
    next,              \* next_ready_to_run of each node
    head,              \* the node enqueued last
    tail,              \* the node to dequeue next, or the stub
    epc,               \* where each thread is in enqueue
    node,              \* what it enqueues
    prev,              \* what it found in head
    dpc,               \* where the consumer is in dequeue
    answer,            \* what the last dequeue returned
    order,             \* history: the nodes from tail on, in the order of their swaps
    half               \* history: the queue was inconsistent during this dequeue

queue == <<next, head, tail>>
enqueuer == <<epc, node, prev>>
dequeuer == <<dpc, answer, half>>
vars == <<queue, enqueuer, dequeuer, order>>

Node == Task \union {Stub}
Thread == Producer \union {Consumer}

Init ==
    /\ next = [n \in Node |-> Null]
    /\ head = Stub /\ tail = Stub /\ order = <<Stub>>
    /\ epc = [p \in Thread |-> "idle"]
    /\ node = [p \in Thread |-> Null] /\ prev = [p \in Thread |-> Null]
    /\ dpc = "idle" /\ answer = "none" /\ half = FALSE

-----------------------------------------------------------------------------
(* The queue behind the pointers *)

Linking(p) == epc[p] = "link"

ChainNodes == {order[i] : i \in DOMAIN order}

\* The consumer's own half-done enqueue does not show: it dequeues after it.
Q == INSTANCE MPSCQueue WITH
        ready <- RemoveFirst(order, Stub),
        unlinked <- {node[p] : p \in {r \in Producer : Linking(r)}}

-----------------------------------------------------------------------------
(* enqueue *)

InHands == ChainNodes \union {node[p] : p \in Thread}

Starts(p, n) ==
    /\ epc[p] = "idle"
    /\ epc' = [epc EXCEPT ![p] = "swap"]
    /\ node' = [node EXCEPT ![p] = n]
    /\ UNCHANGED prev

\* Variant: the pointer is left as the last time the node was in the queue.
StoreNullNot(p, n) ==
    /\ Starts(p, n)
    /\ UNCHANGED next

StoreNull(p, n) ==
    /\ Starts(p, n)
    /\ next' = [next EXCEPT ![n] = Null]

EnqueueTask(p, t) ==
    /\ p = Consumer => dpc = "idle"
    /\ t \notin InHands
    /\ StoreNull(p, t)
    /\ UNCHANGED <<head, tail, order, dequeuer>>

Watch == half' = (half \/ (dpc # "idle" /\ Q!SeesInconsistent'))

\* head.swap
Swap(p) ==
    /\ epc[p] = "swap"
    /\ head' = node[p] /\ order' = Append(order, node[p])
    /\ prev' = [prev EXCEPT ![p] = head]
    /\ epc' = [epc EXCEPT ![p] = "link"]
    /\ UNCHANGED <<next, tail, node, dpc, answer>>
    /\ Watch

Link(p) ==
    /\ epc[p] = "link"
    /\ next' = [next EXCEPT ![prev[p]] = node[p]]
    /\ epc' = [epc EXCEPT ![p] = "idle"]
    /\ node' = [node EXCEPT ![p] = Null]
    /\ prev' = [prev EXCEPT ![p] = Null]
    /\ UNCHANGED <<head, tail, order, dpc, answer>>
    /\ Watch

-----------------------------------------------------------------------------
(* dequeue *)

Answer(a) ==
    /\ dpc' = "idle"
    /\ answer' = a

Dequeue ==
    /\ dpc = "idle" /\ epc[Consumer] = "idle"
    /\ dpc' = "load"
    /\ answer' = "none"
    /\ half' = Q!SeesInconsistent
    /\ UNCHANGED <<queue, enqueuer, order>>

LoadEmpty ==
    /\ dpc = "load" /\ tail = Stub
    /\ next[Stub] = Null
    /\ Answer("Empty")
    /\ UNCHANGED <<queue, enqueuer, order, half>>

\* Variant: the stub is left although nothing is behind it.
SkipStubAlways ==
    /\ dpc = "load" /\ tail = Stub
    /\ tail' = next[Stub] /\ order' = Tail(order)
    /\ dpc' = "reload"
    /\ UNCHANGED <<next, head, enqueuer, answer, half>>

SkipStub ==
    /\ dpc = "load" /\ tail = Stub
    /\ next[Stub] # Null
    /\ tail' = next[Stub] /\ order' = Tail(order)
    /\ dpc' = "reload"
    /\ UNCHANGED <<next, head, enqueuer, answer, half>>

\* The consumer has loaded the next pointer of an entry.
Loads == dpc \in {"load", "reload", "last"} /\ tail # Stub /\ epc[Consumer] = "idle"

LoadData ==
    /\ Loads
    /\ next[tail] # Null
    /\ tail' = next[tail] /\ order' = Tail(order)
    /\ Answer(tail)
    /\ UNCHANGED <<next, head, enqueuer, half>>

LoadNull ==
    /\ Loads /\ dpc # "last"
    /\ next[tail] = Null
    /\ dpc' = "check"
    /\ UNCHANGED <<queue, enqueuer, order, answer, half>>

\* Variant: the entry is returned although nothing is behind it yet.
LoadLastData ==
    /\ Loads /\ dpc = "last"
    /\ next[tail] = Null
    /\ tail' = Stub /\ order' = Tail(order)
    /\ Answer(tail)
    /\ UNCHANGED <<next, head, enqueuer, half>>

\* The load after the stub was enqueued finds another producer in between.
LoadLastNull ==
    /\ Loads /\ dpc = "last"
    /\ next[tail] = Null
    /\ Answer("Inconsistent")
    /\ UNCHANGED <<queue, enqueuer, order, half>>

HeadMoved ==
    /\ dpc = "check"
    /\ head # tail
    /\ Answer("Inconsistent")
    /\ UNCHANGED <<queue, enqueuer, order, half>>

\* Variant: not compared with tail.
HeadNotChecked ==
    /\ dpc = "check"
    /\ dpc' = "last"
    /\ StoreNull(Consumer, Stub)
    /\ UNCHANGED <<head, tail, order, answer, half>>

\* The entry is the only one: enqueue(stub), by Swap and Link, and load again.
HeadIsTail ==
    /\ dpc = "check"
    /\ head = tail
    /\ dpc' = "last"
    /\ StoreNull(Consumer, Stub)
    /\ UNCHANGED <<head, tail, order, answer, half>>

-----------------------------------------------------------------------------
Next ==
    \/ \E p \in Thread : (\E t \in Task : EnqueueTask(p, t)) \/ Swap(p) \/ Link(p)
    \/ Dequeue
    \/ LoadEmpty \/ SkipStub \/ LoadData \/ LoadNull \/ LoadLastNull
    \/ HeadMoved \/ HeadIsTail

Spec == Init /\ [][Next]_vars

(***************************************************************************)
(* Properties.                                                             *)
(***************************************************************************)

\* Every variable keeps its type.
TypeOK ==
    /\ next \in [Node -> Node \union {Null}]
    /\ head \in Node /\ tail \in Node
    /\ epc \in [Thread -> {"idle", "swap", "link"}]
    /\ node \in [Thread -> Node \union {Null}]
    /\ prev \in [Thread -> Node \union {Null}]
    /\ dpc \in {"idle", "load", "reload", "check", "last"}
    /\ answer \in Task \union {"none", "Empty", "Inconsistent"}
    /\ order \in Seq(Node)
    /\ half \in BOOLEAN

\* The pointers make the list of the nodes in the order of their swaps: from tail
\* to head each node points to the one behind it, or to none while the thread that
\* appended that one has yet to link it (lines 43-45).  No node is lost or passed over.
PointersFollow ==
    /\ order # <<>> /\ order[1] = tail /\ order[Len(order)] = head /\ next[head] = Null
    /\ \A i \in 1 .. Len(order) - 1 :
          \/ next[order[i]] = order[i + 1]
          \/ /\ next[order[i]] = Null
             /\ \E p \in Thread : Linking(p) /\ prev[p] = order[i] /\ node[p] = order[i + 1]

\* The pointers implement the contract the pool is built on: every step appends
\* an entry, links one, takes the oldest one out, or changes nothing.
IsMPSCQueue == Q!QueueSpec

Answers(a) == answer = "none" /\ answer' = a

\* Each answer of dequeue says what it says in MPSCQueue: Data(t) the oldest
\* entry, that leaves the queue; Empty that no entry can be reached; Inconsistent
\* that the queue was so at some time during the call, although the entry in
\* question may be linked by the time the call returns.
AnswersAreRight ==
    [][ /\ \A t \in Task : Answers(t) => Q!DequeueData(t)
        /\ Answers("Empty") => Q!SeesEmpty
        /\ Answers("Inconsistent") => half ]_vars

\* A thread that is about to link its node behind another one (line 45) finds it
\* still in the queue, so not freed by the consumer, and still without successor:
\* no entry is cut off.
LinksBehindLiveNode ==
    \A p \in Thread : Linking(p) => prev[p] \in ChainNodes /\ next[prev[p]] = Null
=============================================================================
