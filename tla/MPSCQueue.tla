----------------------------- MODULE MPSCQueue -----------------------------
(***************************************************************************)
(* What the ready-to-run queue promises to the code that uses it: the      *)
(* 1024cores intrusive multi-producer single-consumer queue of             *)
(* src/futures/ready_to_run_queue.rs, seen at the granularity its users    *)
(* can observe.                                                            *)
(*                                                                         *)
(* An enqueue is two atomic steps of a producer: the swap of `head`, which *)
(* fixes the place of the entry in the queue, and the store that links the *)
(* entry behind its predecessor, which makes it (and what follows it)      *)
(* reachable for the consumer.  Between the two the entry is "unlinked".   *)
(* A dequeue of the one consumer therefore has three outcomes, and what    *)
(* each one tells about the queue is stated by an operator below.          *)
(***************************************************************************)
EXTENDS Naturals, Sequences

CONSTANT Task          \* the nodes of the queue (the stub is not an entry)

VARIABLES
    ready,             \* the entries, in the order their swaps of `head` took
    unlinked           \* entries whose predecessor does not yet point to them

queueVars == <<ready, unlinked>>

Entries == {ready[i] : i \in DOMAIN ready}

\* Entries the consumer can reach if no producer takes another step.
Reachable ==
    {ready[i] : i \in {j \in DOMAIN ready :
                          \A k \in DOMAIN ready : k <= j => ready[k] \notin unlinked}}

QueueInit ==
    /\ ready = <<>>
    /\ unlinked = {}

-----------------------------------------------------------------------------
(* enqueue(task), step by step for a producer on another thread *)

SwapHead(t) ==                         \* head.swap(task)
    /\ ready' = Append(ready, t)
    /\ unlinked' = unlinked \union {t}

LinkPrev(t) ==                         \* (*prev).next_ready_to_run.store(task)
    /\ unlinked' = unlinked \ {t}
    /\ UNCHANGED ready

\* The consumer's own enqueue: both steps come before its next dequeue.
Enqueue(t) ==
    /\ ready' = Append(ready, t)
    /\ UNCHANGED unlinked

-----------------------------------------------------------------------------
(* dequeue(), one outcome at a time *)

\* Dequeue::Data(t): the oldest entry, unlinked entries may follow it.
TakesHead(t) ==
    /\ ready # <<>>
    /\ t = Head(ready)
    /\ t \notin unlinked

DequeueData(t) ==
    /\ TakesHead(t)
    /\ ready' = Tail(ready)
    /\ UNCHANGED unlinked

\* Dequeue::Empty: no entry, or the oldest one is not linked behind the stub.
SeesEmpty ==
    ready # <<>> => Head(ready) \in unlinked

\* Dequeue::Inconsistent: an entry behind the oldest one is not linked yet.
SeesInconsistent ==
    /\ ready # <<>>
    /\ Head(ready) \notin unlinked
    /\ \E i \in 2 .. Len(ready) : ready[i] \in unlinked

-----------------------------------------------------------------------------
\* The queue by itself, for an implementation of it.
QueueNext ==
    \E t \in Task : SwapHead(t) \/ LinkPrev(t) \/ Enqueue(t) \/ DequeueData(t)

QueueSpec == QueueInit /\ [][QueueNext]_queueVars
=============================================================================
