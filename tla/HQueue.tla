------------------------------- MODULE HQueue -------------------------------
(***************************************************************************)
(* The lock-free queue HQueue (nice/include/hqueue.h): a linked list with  *)
(* a dummy head over a fixed array of nodes that are reused.  qhead and    *)
(* qtail carry a version that grows with every change; the next of a node  *)
(* starts again at {-1, 0} when the node is reused, so that a thread with  *)
(* an old view of qtail can still change it.                               *)
(*                                                                         *)
(* A step is one access of an atomic.  All are sequentially consistent.    *)
(***************************************************************************)
EXTENDS Integers

CONSTANTS
  Producers, Consumers,
  Size,        \* nodes, the dummy included
  MaxItems     \* bound on the Enqueue calls of one producer

ASSUME HQueueAssumption ==
  /\ Size \in Nat \ {0}
  /\ MaxItems \in Nat
  /\ Producers \cap Consumers = {}

VARIABLES
  qhead, qtail, free_index,
  next, value, free,  \* the fields of every node
  pc, loc,            \* where each thread is, and its local variables
  calls,              \* Enqueue calls made by each producer
  accepted,           \* history: items whose Enqueue returned true
  taken               \* history: how often Dequeue returned each item

vars == <<qhead, qtail, free_index, next, value, free, pc, loc, calls, accepted, taken>>

queue == <<qhead, qtail, free_index, next, value, free>>

Nodes   == 0 .. Size - 1
Item    == Producers \X (1 .. MaxItems)
NoItem  == <<"nullptr">>
Threads == Producers \cup Consumers

Pointer(i, v) == [index |-> i, version |-> v]
Nil == Pointer(-1, 0)

\* A thread's local variables outside a call.
NoLocals == [node |-> 0, tail |-> Nil, head |-> Nil, next |-> Nil]

\* Init(Size): node 0 is the dummy.
Init ==
  /\ qhead = Pointer(0, 0) /\ qtail = Pointer(0, 0)
  /\ free_index = 1
  /\ next = [n \in Nodes |-> Nil]
  /\ value = [n \in Nodes |-> NoItem]
  /\ free = [n \in Nodes |-> n # 0]
  /\ pc = [t \in Threads |-> "idle"]
  /\ loc = [t \in Threads |-> NoLocals]
  /\ calls = [p \in Producers |-> 0]
  /\ accepted = {}
  /\ taken = [i \in Item |-> 0]

At(t, place) == pc' = [pc EXCEPT ![t] = place]

\* A thread's loop starts again, with nothing but its node.
Again(t, place) ==
  /\ At(t, place)
  /\ loc' = [loc EXCEPT ![t] = [NoLocals EXCEPT !.node = loc[t].node]]

-----------------------------------------------------------------------------
(* Enqueue.                                                                *)

\* Reads where to look for a free node.
Enqueue(p) ==
  /\ pc[p] = "idle"
  /\ calls[p] < MaxItems
  /\ calls' = [calls EXCEPT ![p] = @ + 1]
  /\ loc' = [loc EXCEPT ![p].node = free_index]
  /\ At(p, "scan")
  /\ UNCHANGED <<queue, accepted, taken>>

\* Takes the node without marking it.
TakeNodeMutant(p) ==
  /\ pc[p] \in {"scan", "rescan"}
  /\ loc[p].node < Size
  /\ free[loc[p].node]
  /\ free_index' = loc[p].node + 1
  /\ At(p, "fill")
  /\ UNCHANGED <<qhead, qtail, next, value, free, loc, calls, accepted, taken>>

\* The CAS on free succeeds.
TakeNode(p) ==
  /\ pc[p] \in {"scan", "rescan"}
  /\ loc[p].node < Size
  /\ free[loc[p].node]
  /\ free' = [free EXCEPT ![loc[p].node] = FALSE]
  /\ free_index' = loc[p].node + 1
  /\ At(p, "fill")
  /\ UNCHANGED <<qhead, qtail, next, value, loc, calls, accepted, taken>>

\* It fails: the next node.
SkipNode(p) ==
  /\ pc[p] \in {"scan", "rescan"}
  /\ loc[p].node < Size
  /\ ~ free[loc[p].node]
  /\ loc' = [loc EXCEPT ![p].node = @ + 1]
  /\ UNCHANGED <<queue, pc, calls, accepted, taken>>

\* The first scan found nothing: once more from node 1 (never node 0).
Rescan(p) ==
  /\ pc[p] = "scan"
  /\ loc[p].node >= Size
  /\ free_index' = 1
  /\ loc' = [loc EXCEPT ![p].node = 1]
  /\ At(p, "rescan")
  /\ UNCHANGED <<qhead, qtail, next, value, free, calls, accepted, taken>>

\* Nor did the second: Enqueue returns false.
EnqueueFull(p) ==
  /\ pc[p] = "rescan"
  /\ loc[p].node >= Size
  /\ loc' = [loc EXCEPT ![p] = NoLocals]
  /\ At(p, "idle")
  /\ UNCHANGED <<queue, calls, accepted, taken>>

\* The node is the thread's own, but for others with an old view of it.
FillNode(p) ==
  /\ pc[p] = "fill"
  /\ value' = [value EXCEPT ![loc[p].node] = <<p, calls[p]>>]
  /\ next' = [next EXCEPT ![loc[p].node] = Nil]
  /\ At(p, "tail")
  /\ UNCHANGED <<qhead, qtail, free_index, free, loc, calls, accepted, taken>>

ReadTail(p) ==
  /\ pc[p] = "tail"
  /\ loc' = [loc EXCEPT ![p].tail = qtail]
  /\ At(p, "next")
  /\ UNCHANGED <<queue, calls, accepted, taken>>

ReadTailNext(p) ==
  /\ pc[p] = "next"
  /\ loc' = [loc EXCEPT ![p].next = next[loc[p].tail.index]]
  /\ At(p, "check")
  /\ UNCHANGED <<queue, calls, accepted, taken>>

\* tail is still qtail? Then help to move it, or link.
CheckTail(p) ==
  /\ pc[p] = "check"
  /\ IF loc[p].tail # qtail THEN Again(p, "tail")
     ELSE At(p, IF loc[p].next.index # -1 THEN "help" ELSE "link") /\ UNCHANGED loc
  /\ UNCHANGED <<queue, calls, accepted, taken>>

\* A CAS of qtail from the tail thread t has read.
SwingTail(t, i) ==
  qtail' = IF qtail = loc[t].tail THEN Pointer(i, qtail.version + 1) ELSE qtail

HelpTail(p) ==
  /\ pc[p] = "help"
  /\ SwingTail(p, loc[p].next.index)
  /\ Again(p, "tail")
  /\ UNCHANGED <<qhead, free_index, next, value, free, calls, accepted, taken>>

\* Links whatever next has become.
LinkMutant(p) ==
  /\ pc[p] = "link"
  /\ next' = [next EXCEPT ![loc[p].tail.index] = Pointer(loc[p].node, loc[p].next.version + 1)]
  /\ At(p, "swing")
  /\ UNCHANGED <<qhead, qtail, free_index, value, free, loc, calls, accepted, taken>>

\* The CAS on the next of tail: succeeds where it is what was read.
Link(p) ==
  /\ pc[p] = "link"
  /\ IF next[loc[p].tail.index] = loc[p].next
     THEN /\ next' = [next EXCEPT ![loc[p].tail.index] =
                        Pointer(loc[p].node, loc[p].next.version + 1)]
          /\ At(p, "swing") /\ UNCHANGED loc
     ELSE Again(p, "tail") /\ UNCHANGED next
  /\ UNCHANGED <<qhead, qtail, free_index, value, free, calls, accepted, taken>>

\* Enqueue returns true.
EnqueueDone(p) ==
  /\ pc[p] = "swing"
  /\ SwingTail(p, loc[p].node)
  /\ accepted' = accepted \cup {<<p, calls[p]>>}
  /\ loc' = [loc EXCEPT ![p] = NoLocals]
  /\ At(p, "idle")
  /\ UNCHANGED <<qhead, free_index, next, value, free, calls, taken>>

-----------------------------------------------------------------------------
(* Dequeue.                                                                *)

Dequeue(c) ==
  /\ pc[c] = "idle"
  /\ loc' = [loc EXCEPT ![c].head = qhead]
  /\ At(c, "tail")
  /\ UNCHANGED <<queue, calls, accepted, taken>>

DequeueReadTail(c) ==
  /\ pc[c] = "tail"
  /\ loc' = [loc EXCEPT ![c].tail = qtail]
  /\ At(c, "next")
  /\ UNCHANGED <<queue, calls, accepted, taken>>

ReadHeadNext(c) ==
  /\ pc[c] = "next"
  /\ loc' = [loc EXCEPT ![c].next = next[loc[c].head.index]]
  /\ At(c, "check")
  /\ UNCHANGED <<queue, calls, accepted, taken>>

\* Takes the value without a look at qtail.
CheckHeadMutant(c) ==
  /\ pc[c] = "check"
  /\ IF loc[c].head # qhead \/ loc[c].next.index = -1 THEN Again(c, "idle")
     ELSE At(c, "take") /\ UNCHANGED loc
  /\ UNCHANGED <<queue, calls, accepted, taken>>

\* head is still qhead? Then the queue is empty, and Dequeue returns nullptr;
\* qtail lags; or a value can be read.  A next of -1 behind an old tail means to
\* start again.  A consumer polls, so to return nothing is to start again too.
CheckHead(c) ==
  /\ pc[c] = "check"
  /\ LET l == loc[c]
         again == l.head # qhead \/ (l.head.index # l.tail.index /\ l.next.index = -1)
         empty == l.head.index = l.tail.index /\ l.next.index = -1
     IN  IF again \/ empty THEN Again(c, "idle")
         ELSE At(c, IF l.head.index = l.tail.index THEN "help" ELSE "take") /\ UNCHANGED loc
  /\ UNCHANGED <<queue, calls, accepted, taken>>

DequeueHelps(c) ==
  /\ pc[c] = "help"
  /\ SwingTail(c, loc[c].next.index)
  /\ Again(c, "idle")
  /\ UNCHANGED <<qhead, free_index, next, value, free, calls, accepted, taken>>

\* Reads the value and moves qhead: the value read is the one the node has when
\* the CAS succeeds, since nobody can have taken the node in between.
Take(c) ==
  /\ pc[c] = "take"
  /\ IF qhead = loc[c].head
     THEN /\ qhead' = Pointer(loc[c].next.index, qhead.version + 1)
          /\ taken' = [taken EXCEPT ![value[loc[c].next.index]] = @ + 1]
          /\ At(c, "free") /\ UNCHANGED loc
     ELSE Again(c, "idle") /\ UNCHANGED <<qhead, taken>>
  /\ UNCHANGED <<qtail, free_index, next, value, free, calls, accepted>>

\* The old dummy node is free again, and Dequeue returns the value.
FreeHead(c) ==
  /\ pc[c] = "free"
  /\ free' = [free EXCEPT ![loc[c].head.index] = TRUE]
  /\ loc' = [loc EXCEPT ![c] = NoLocals]
  /\ At(c, "idle")
  /\ UNCHANGED <<qhead, qtail, free_index, next, value, calls, accepted, taken>>

-----------------------------------------------------------------------------
ProducerStep(p) ==
  \/ TakeNode(p) \/ SkipNode(p) \/ Rescan(p) \/ EnqueueFull(p) \/ FillNode(p)
  \/ ReadTail(p) \/ ReadTailNext(p) \/ CheckTail(p) \/ HelpTail(p) \/ Link(p) \/ EnqueueDone(p)

ConsumerStep(c) ==
  \/ Dequeue(c) \/ DequeueReadTail(c) \/ ReadHeadNext(c) \/ CheckHead(c)
  \/ DequeueHelps(c) \/ Take(c) \/ FreeHead(c)

Next ==
  \/ \E p \in Producers : Enqueue(p) \/ ProducerStep(p)
  \/ \E c \in Consumers : ConsumerStep(c)

Spec == Init /\ [][Next]_vars
-----------------------------------------------------------------------------
(* Correctness.                                                            *)

\* What a thread may have read, and where it may be.
AnyPointer  == [index : Nodes \cup {-1}, version : Nat]
NodePointer == [index : Nodes, version : Nat]
Locals      == [node : Nat, tail : AnyPointer, head : AnyPointer, next : AnyPointer]
ProducerPc  == {"idle", "scan", "rescan", "fill", "tail", "next", "check", "help", "link", "swing"}
ConsumerPc  == {"idle", "tail", "next", "check", "help", "take", "free"}

\* Every variable has its type.
TypeOK ==
  /\ qhead \in NodePointer /\ qtail \in NodePointer
  /\ free_index \in 1 .. Size
  /\ next \in [Nodes -> AnyPointer]
  /\ value \in [Nodes -> Item \cup {NoItem}]
  /\ free \in [Nodes -> BOOLEAN]
  /\ pc \in [Threads -> ProducerPc \cup ConsumerPc]
  /\ \A p \in Producers : pc[p] \in ProducerPc
  /\ \A c \in Consumers : pc[c] \in ConsumerPc
  /\ loc \in [Threads -> Locals]
  /\ calls \in [Producers -> 0 .. MaxItems]
  /\ accepted \subseteq Item
  /\ taken \in [Item -> Nat]

\* The nodes reached from n over next: the least set that has n and their next.
Chain(n) ==
  {m \in Nodes : \A S \in SUBSET Nodes :
     n \in S /\ (\A k \in S : next[k].index \in S \cup {-1}) => m \in S}

\* Producers with a node they have filled and not linked yet, and their nodes.
Linking  == {p \in Producers : pc[p] \in {"tail", "next", "check", "help", "link"}}
Unlinked == {loc[p].node : p \in Linking}

\* Items in the queue, or linked behind a node that is about to be.
Held ==
  {value[n] : n \in Chain(qhead.index) \ {qhead.index}}
    \cup {value[n] : n \in UNION {Chain(u) : u \in Unlinked}}

\* An accepted item is taken once or still held, never both and never twice: also
\* when a producer with an old view of qtail links its node to one that was
\* reused in the meantime.
ExactlyOnce ==
  \A i \in Item :
    /\ taken[i] <= 1
    /\ i \in accepted => (taken[i] = 1) # (i \in Held)

\* No node of the queue, nor one a producer fills, is free to be taken, and the
\* list ends: it does not run into a cycle or into a node given back.
NoFreeNodeInUse ==
  /\ \A n \in Chain(qhead.index) \cup Unlinked : ~ free[n]
  /\ \E n \in Chain(qhead.index) : next[n].index = -1
  /\ \A p \in Linking : loc[p].node \notin Chain(qhead.index)
  /\ \A p, q \in Linking : loc[p].node = loc[q].node => p = q

\* qtail may lag behind the end of the list, but not behind qhead: it never names
\* a node given back.
TailInQueue == qtail.index \in Chain(qhead.index)
=============================================================================
