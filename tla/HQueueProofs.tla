---------------------------- MODULE HQueueProofs ----------------------------
(***************************************************************************)
(* Proofs about HQueue, for any number of threads, nodes and items: the    *)
(* list from qhead holds no node that is free or that a producer still     *)
(* fills, qtail stays in it, and every item is taken once.                 *)
(***************************************************************************)
EXTENDS HQueue, WellFoundedInduction, TLAPS

-----------------------------------------------------------------------------
(* The inductive invariant.                                                *)

\* Threads that have a node to themselves, and that node: a producer from the CAS
\* on free to its link, a consumer from the CAS on qhead to the end.
Holding ==
  {p \in Producers : pc[p] = "fill"} \cup Linking \cup {c \in Consumers : pc[c] = "free"}

Holds(t) == IF t \in Consumers THEN loc[t].head.index ELSE loc[t].node

NodesHeld ==
  /\ \A t \in Holding : Holds(t) \in Nodes /\ ~ free[Holds(t)]
  /\ \A s, t \in Holding : Holds(s) = Holds(t) => s = t
  /\ \A p \in Producers : pc[p] \in {"scan", "rescan"} => loc[p].node >= 1

\* Producers that have read qtail and not linked their node.
Viewing == {p \in Producers : pc[p] \in {"next", "check", "help", "link"}}

\* home tells where a node is: in the list from qhead (Size), on the chain that
\* begins with the unlinked node of a producer (that node), or nowhere (-1); dep
\* how far it is from the first node.
Chained(home, dep) ==
  /\ home \in [Nodes -> (-1) .. Size]
  /\ dep \in [Nodes -> Nat]
  /\ home[qhead.index] = Size /\ dep[qhead.index] = 0
  /\ \A p \in Linking : home[loc[p].node] = loc[p].node /\ dep[loc[p].node] = 0
  /\ \A x \in Nodes : home[x] \in {-1, Size} \cup Unlinked
  /\ \A x \in Nodes : home[x] # -1 /\ next[x].index # -1 =>
       home[next[x].index] = home[x] /\ dep[next[x].index] = dep[x] + 1
  /\ \A x \in Nodes : home[x] # -1 /\ dep[x] # 0 =>
       \E y \in Nodes : home[y] = home[x] /\ next[y].index = x
  /\ \A x, y \in Nodes : home[x] # -1 /\ home[x] = home[y] /\ dep[x] = dep[y] => x = y
  /\ \A h \in Unlinked \cup {Size} : \E x \in Nodes : home[x] = h /\ next[x].index = -1

\* A node with a home is not free, and nobody's who still fills it or frees it.
HomesHeld(home) ==
  /\ \A x \in Nodes : home[x] # -1 => ~ free[x]
  /\ \A p \in Producers : pc[p] = "fill" => home[loc[p].node] = -1
  /\ \A c \in Consumers : pc[c] = "free" => home[loc[c].head.index] = -1
  /\ home[qtail.index] = Size

\* ts is the order in which the nodes were filled.  No node is filled later than the
\* one its chain begins with; and if the tail a producer has read has been filled
\* again since, that was after the producer filled its own.
TailView(home, ts, p) ==
  LET t == loc[p].tail.index
  IN  /\ t \in Nodes
      /\ home[t] # -1 \/ next[t].index # -1
      /\ home[t] \in Nodes => ts[loc[p].node] < ts[t]

Ordered(home, ts) ==
  /\ ts \in [Nodes -> Nat]
  /\ \E now \in Nat : \A x \in Nodes : ts[x] <= now
  /\ \A x \in Nodes : home[x] \in Nodes => ts[x] <= ts[home[x]]
  /\ \A p \in Viewing : TailView(home, ts, p)

\* What a thread has read of qtail and qhead is theirs as long as the version is.
Current(view, ptr) == view.version <= ptr.version /\ (view.version = ptr.version => view = ptr)

ProducerView(p) ==
  LET l == loc[p]
  IN  /\ pc[p] \in {"next", "check", "help", "link", "swing"} => Current(l.tail, qtail)
      /\ pc[p] \in {"check", "help"} /\ l.next.index # -1 /\ l.tail = qtail =>
           next[qtail.index].index = l.next.index
      /\ pc[p] = "help" => l.next.index # -1
      /\ pc[p] = "link" => l.next.index = -1
      /\ pc[p] = "swing" => /\ l.node \in Nodes
                            /\ l.tail = qtail => next[qtail.index].index = l.node

ConsumerView(c) ==
  LET l == loc[c]
  IN  /\ pc[c] # "idle" => l.head.index \in Nodes
      /\ pc[c] \in {"tail", "next", "check", "help", "take"} => Current(l.head, qhead)
      /\ pc[c] \in {"next", "check", "help"} => Current(l.tail, qtail)
      /\ pc[c] \in {"next", "check", "take"} /\ l.head.index # l.tail.index /\ l.head = qhead =>
           qtail.index # qhead.index
      /\ pc[c] \in {"check", "take"} /\ l.next.index # -1 /\ l.head = qhead =>
           next[qhead.index].index = l.next.index
      /\ pc[c] \in {"check", "help"} /\ l.next.index # -1 /\ l.head.index = l.tail.index /\ l.tail = qtail =>
           next[qtail.index].index = l.next.index
      /\ pc[c] = "help" => l.next.index # -1 /\ l.head.index = l.tail.index
      /\ pc[c] = "take" => l.next.index # -1 /\ l.head.index # l.tail.index

Views == (\A p \in Producers : ProducerView(p)) /\ (\A c \in Consumers : ConsumerView(c))

\* Nodes with an item that nobody has taken.
Full(home) == {x \in Nodes : home[x] # -1} \ {qhead.index}

InFull(home, i) == \E x \in Full(home) : value[x] = i

Items(home) ==
  /\ \A x \in Full(home) : value[x] \in Item /\ taken[value[x]] = 0 /\ value[x][2] <= calls[value[x][1]]
  /\ \A x, y \in Full(home) : value[x] = value[y] => x = y
  /\ \A i \in Item : taken[i] <= 1 /\ (taken[i] = 1 => i[2] <= calls[i[1]])
  /\ \A i \in accepted : taken[i] = 1 \/ InFull(home, i)
  /\ \A p \in Producers : pc[p] # "idle" => calls[p] >= 1
  /\ \A p \in Producers : pc[p] \in {"scan", "rescan", "fill"} =>
       taken[<<p, calls[p]>>] = 0 /\ ~ InFull(home, <<p, calls[p]>>)
  /\ \A p \in Linking : value[loc[p].node] = <<p, calls[p]>>
  /\ \A p \in Producers : pc[p] = "swing" => taken[<<p, calls[p]>>] = 1 \/ InFull(home, <<p, calls[p]>>)

Inv(home, dep, ts) ==
  /\ TypeOK /\ NodesHeld /\ Views
  /\ Chained(home, dep) /\ HomesHeld(home) /\ Ordered(home, ts) /\ Items(home)

QueueInv == \E home, dep, ts : Inv(home, dep, ts)

-----------------------------------------------------------------------------
(* Steps that only change where a thread is and what it has read.          *)

\* Only thread t has moved, and what the invariant says of the queue is as before.
Quiet(t) ==
  /\ UNCHANGED <<qhead, qtail, next, value, free, calls, accepted, taken>>
  /\ \A s \in Threads \ {t} : pc'[s] = pc[s] /\ loc'[s] = loc[s]

\* The kinds of places a producer can be at, as far as its node and item go.
Kind(place) ==
  CASE place = "idle" -> "idle"
    [] place \in {"scan", "rescan"} -> "scan"
    [] place = "fill" -> "fill"
    [] place \in {"tail", "next", "check", "help", "link"} -> "linking"
    [] OTHER -> "swing"

\* The same where qtail has gone on along the list, or an item has been accepted.
Moves(home, t) ==
  /\ UNCHANGED <<qhead, next, value, free, calls, taken>>
  /\ \A s \in Threads \ {t} : pc'[s] = pc[s] /\ loc'[s] = loc[s]
  /\ \/ qtail' = qtail
     \/ /\ qtail.version < qtail'.version
        /\ home[qtail'.index] = Size /\ qtail'.index # qhead.index
  /\ \A i \in accepted' : i \in accepted \/ taken[i] = 1 \/ InFull(home, i)

LEMMA QuietMoves ==
  ASSUME NEW home, NEW t, Quiet(t)
  PROVE  Moves(home, t)
  BY DEF Quiet, Moves

\* What another thread has read of qtail is still right, or visibly old.
LEMMA CurrentMoves ==
  ASSUME NEW home, NEW t, TypeOK, TypeOK', Moves(home, t), NEW v \in AnyPointer, Current(v, qtail)
  PROVE  Current(v, qtail') /\ (v = qtail' => qtail' = qtail)
<1>1. qtail \in NodePointer /\ qtail' \in NodePointer
  BY DEF TypeOK
<1> QED
  BY <1>1 DEF Moves, Current, AnyPointer, NodePointer

LEMMA OtherProducerView ==
  ASSUME NEW home, NEW t, TypeOK, TypeOK', Views, Moves(home, t), NEW p \in Producers, p # t, p \in Threads
  PROVE  ProducerView(p)'
<1>1. pc'[p] = pc[p] /\ loc'[p] = loc[p] /\ next' = next /\ ProducerView(p)
  BY DEF Moves, Views
<1>2. loc[p].tail \in AnyPointer
  BY DEF TypeOK, Locals
<1>3. Current(loc[p].tail, qtail) => Current(loc[p].tail, qtail') /\ (loc[p].tail = qtail' => qtail' = qtail)
  BY <1>2, CurrentMoves
<1> QED
  BY <1>1, <1>3 DEF ProducerView

LEMMA OtherConsumerView ==
  ASSUME NEW home, NEW t, TypeOK, TypeOK', Views, Moves(home, t), NEW c \in Consumers, c # t, c \in Threads
  PROVE  ConsumerView(c)'
<1>1. pc'[c] = pc[c] /\ loc'[c] = loc[c] /\ next' = next /\ qhead' = qhead /\ ConsumerView(c)
  BY DEF Moves, Views
<1>2. loc[c].tail \in AnyPointer
  BY DEF TypeOK, Locals
<1>3. Current(loc[c].tail, qtail) => Current(loc[c].tail, qtail') /\ (loc[c].tail = qtail' => qtail' = qtail)
  BY <1>2, CurrentMoves
<1>4. qtail.index # qhead.index => qtail'.index # qhead.index
  BY DEF Moves
<1> QED
  BY <1>1, <1>3, <1>4 DEF ConsumerView

LEMMA MovesProducer ==
  ASSUME NEW home, NEW dep, NEW ts, Inv(home, dep, ts), NEW p \in Producers, Moves(home, p), TypeOK',
         pc'[p] = "idle" \/ Kind(pc'[p]) = Kind(pc[p]),
         Kind(pc'[p]) = "linking" => loc'[p].node = loc[p].node,
         Kind(pc'[p]) = "scan" => loc'[p].node >= 1,
         Kind(pc'[p]) \notin {"fill", "swing"},
         p \in Linking => p \in Linking',
         ProducerView(p)', p \in Viewing' => TailView(home, ts, p)'
  PROVE  Inv(home, dep, ts)'
<1>1. /\ p \in Threads /\ \A c \in Consumers : c # p /\ c \in Threads
      /\ \A q \in Producers : q \in Threads
  BY HQueueAssumption DEF Threads
<1>2. /\ pc'[p] \in ProducerPc /\ pc[p] \in ProducerPc
      /\ (Kind(pc[p]) = "linking" <=> p \in Linking) /\ (Kind(pc'[p]) = "linking" <=> p \in Linking')
  BY DEF Inv, TypeOK, Kind, ProducerPc, Linking
<1>3. Linking' = Linking /\ \A q \in Linking : loc'[q].node = loc[q].node
  BY <1>1, <1>2 DEF Linking, Moves
<1>4. Unlinked' = Unlinked
  BY <1>3 DEF Unlinked
<1>5. NodesHeld'
  BY <1>1, <1>2, <1>3 DEF Inv, NodesHeld, Holding, Holds, Moves, Kind
<1>6. Views'
  <2>1. \A q \in Producers : q # p => ProducerView(q)'
    BY <1>1, OtherProducerView DEF Inv
  <2>2. \A c \in Consumers : ConsumerView(c)'
    BY <1>1, OtherConsumerView DEF Inv
  <2> QED
    BY <2>1, <2>2 DEF Views
<1>7. Chained(home, dep)'
  BY <1>3, <1>4 DEF Inv, Chained, Moves
<1>8. HomesHeld(home)'
  BY <1>1, <1>2 DEF Inv, HomesHeld, Moves, Kind
<1>9. Ordered(home, ts)'
  BY <1>1 DEF Inv, Ordered, Viewing, Moves, TailView
<1>10. Items(home)'
  <2>1. Full(home)' = Full(home) /\ \A i : InFull(home, i)' <=> InFull(home, i)
    BY DEF Full, InFull, Moves
  <2>2. /\ pc'[p] \in {"scan", "rescan"} => pc[p] \in {"scan", "rescan"}
        /\ pc'[p] # "idle" => pc[p] # "idle"
        /\ pc'[p] # "fill" /\ pc'[p] # "swing"
    BY <1>2 DEF Kind, ProducerPc
  <2>3. \A q \in Producers : (pc'[q] \in {"scan", "rescan"} => pc[q] \in {"scan", "rescan"})
        /\ (pc'[q] # "idle" => pc[q] # "idle") /\ (pc'[q] = "fill" => pc[q] = "fill")
        /\ (pc'[q] = "swing" => pc[q] = "swing")
    BY <1>1, <2>2 DEF Moves
  <2> HIDE DEF Full, InFull
  <2> QED
    BY <1>3, <2>1, <2>3 DEF Inv, Items, Moves
<1> QED
  BY <1>5, <1>6, <1>7, <1>8, <1>9, <1>10 DEF Inv

LEMMA MovesConsumer ==
  ASSUME NEW home, NEW dep, NEW ts, Inv(home, dep, ts), NEW c \in Consumers, Moves(home, c), TypeOK',
         pc'[c] # "free", pc[c] # "free", ConsumerView(c)'
  PROVE  Inv(home, dep, ts)'
<1>1. /\ c \in Threads /\ \A p \in Producers : c # p /\ p \in Threads
      /\ \A d \in Consumers : d \in Threads
  BY HQueueAssumption DEF Threads
<1>3. Linking' = Linking /\ \A q \in Linking : loc'[q] = loc[q]
  BY <1>1 DEF Linking, Moves
<1>4. Unlinked' = Unlinked
  BY <1>3 DEF Unlinked
<1>5. NodesHeld'
  BY <1>1, <1>3 DEF Inv, NodesHeld, Holding, Holds, Moves
<1>6. Views'
  <2>1. \A q \in Producers : ProducerView(q)'
    BY <1>1, OtherProducerView DEF Inv
  <2>2. \A d \in Consumers : d # c => ConsumerView(d)'
    BY <1>1, OtherConsumerView DEF Inv
  <2> QED
    BY <2>1, <2>2 DEF Views
<1>7. Chained(home, dep)'
  BY <1>3, <1>4 DEF Inv, Chained, Moves
<1>8. HomesHeld(home)'
  BY <1>1 DEF Inv, HomesHeld, Moves
<1>9. Ordered(home, ts)'
  BY <1>1 DEF Inv, Ordered, Viewing, Moves, TailView
<1>10. Items(home)'
  <2>1. Full(home)' = Full(home) /\ \A i : InFull(home, i)' <=> InFull(home, i)
    BY DEF Full, InFull, Moves
  <2>2. \A q \in Producers : pc'[q] = pc[q]
    BY <1>1 DEF Moves
  <2> HIDE DEF Full, InFull
  <2> QED
    BY <1>3, <2>1, <2>2 DEF Inv, Items, Moves
<1> QED
  BY <1>5, <1>6, <1>7, <1>8, <1>9, <1>10 DEF Inv

LEMMA ThreadFacts ==
  ASSUME TypeOK
  PROVE  /\ \A p \in Producers : /\ p \in Threads /\ p \notin Consumers
                                 /\ pc[p] \in ProducerPc /\ loc[p] \in Locals
         /\ \A c \in Consumers : /\ c \in Threads /\ c \notin Producers
                                 /\ pc[c] \in ConsumerPc /\ loc[c] \in Locals
  BY HQueueAssumption DEF TypeOK, Threads

LEMMA LocalsFacts ==
  /\ Nil \in AnyPointer /\ NoLocals \in Locals
  /\ NodePointer \subseteq AnyPointer
  /\ \A l \in Locals : l.node \in Nat /\ l.tail \in AnyPointer /\ l.head \in AnyPointer /\ l.next \in AnyPointer
  BY DEF AnyPointer, NodePointer, Locals, NoLocals, Nil, Pointer

\* The part of the type invariant that is about a step of one thread.
LEMMA MoveType ==
  ASSUME TypeOK, NEW t \in Threads, NEW place, NEW l \in Locals,
         t \in Producers => place \in ProducerPc, t \in Consumers => place \in ConsumerPc,
         pc' = [pc EXCEPT ![t] = place], loc' = [loc EXCEPT ![t] = l],
         UNCHANGED <<qhead, next, value, free, calls, taken>>,
         qtail' \in NodePointer, free_index' \in 1 .. Size, accepted' \subseteq Item
  PROVE  /\ TypeOK' /\ pc'[t] = place /\ loc'[t] = l
         /\ \A s \in Threads \ {t} : pc'[s] = pc[s] /\ loc'[s] = loc[s]
<1>1. /\ pc'[t] = place /\ loc'[t] = l
      /\ \A s \in Threads \ {t} : pc'[s] = pc[s] /\ loc'[s] = loc[s]
  BY DEF TypeOK
<1>3. /\ pc' \in [Threads -> ProducerPc \cup ConsumerPc]
      /\ loc' \in [Threads -> Locals]
  BY DEF TypeOK, Threads
<1>4. /\ \A p \in Producers : pc'[p] \in ProducerPc
      /\ \A c \in Consumers : pc'[c] \in ConsumerPc
  BY <1>1 DEF TypeOK, Threads
<1> QED
  BY <1>1, <1>3, <1>4 DEF TypeOK

LEMMA QuietType ==
  ASSUME TypeOK, NEW t \in Threads, NEW place, NEW l \in Locals,
         t \in Producers => place \in ProducerPc, t \in Consumers => place \in ConsumerPc,
         pc' = [pc EXCEPT ![t] = place], loc' = [loc EXCEPT ![t] = l],
         UNCHANGED <<qhead, qtail, next, value, free, calls, accepted, taken>>,
         free_index' \in 1 .. Size
  PROVE  TypeOK' /\ Quiet(t) /\ pc'[t] = place /\ loc'[t] = l
<1>1. qtail' \in NodePointer /\ accepted' \subseteq Item
  BY DEF TypeOK
<1>2. /\ TypeOK' /\ pc'[t] = place /\ loc'[t] = l
      /\ \A s \in Threads \ {t} : pc'[s] = pc[s] /\ loc'[s] = loc[s]
  BY <1>1, MoveType
<1> QED
  BY <1>2 DEF Quiet

LEMMA SkipNodeInv ==
  ASSUME NEW home, NEW dep, NEW ts, Inv(home, dep, ts), NEW p \in Producers, SkipNode(p)
  PROVE  Inv(home, dep, ts)'
<1> DEFINE l == [loc[p] EXCEPT !.node = @ + 1]
<1>0. TypeOK /\ p \in Threads /\ loc[p] \in Locals /\ loc[p].node >= 1 /\ loc[p].node \in Nat
  BY ThreadFacts, LocalsFacts DEF Inv, NodesHeld, SkipNode
<1>1. l \in Locals /\ l.node >= 1
  BY <1>0 DEF Locals
<1>2. pc' = [pc EXCEPT ![p] = pc[p]] /\ loc' = [loc EXCEPT ![p] = l]
  BY <1>0 DEF SkipNode, TypeOK
<1>3. TypeOK' /\ Quiet(p) /\ pc'[p] = pc[p] /\ loc'[p] = l
  <2> HIDE DEF l
  <2>1. p \notin Consumers /\ pc[p] \in ProducerPc
    BY <1>0, ThreadFacts
  <2>2. free_index' \in 1 .. Size
    BY <1>0 DEF SkipNode, queue, TypeOK
  <2> QED
    BY <1>0, <1>1, <1>2, <2>1, <2>2, QuietType DEF SkipNode, queue
<1>4. pc[p] \in {"scan", "rescan"} /\ pc'[p] \in {"scan", "rescan"}
  BY <1>3 DEF SkipNode
<1>5. ProducerView(p)' /\ p \notin Viewing' /\ p \notin Linking
  BY <1>4 DEF ProducerView, Viewing, Linking
<1> HIDE DEF l
<1> QED
  BY <1>1, <1>3, <1>4, <1>5, QuietMoves, MovesProducer DEF Kind

LEMMA EnqueueFullInv ==
  ASSUME NEW home, NEW dep, NEW ts, Inv(home, dep, ts), NEW p \in Producers, EnqueueFull(p)
  PROVE  Inv(home, dep, ts)'
<1>0. TypeOK /\ p \in Threads /\ p \notin Consumers
  BY ThreadFacts DEF Inv
<1>3. TypeOK' /\ Quiet(p) /\ pc'[p] = "idle" /\ loc'[p] = NoLocals
  <2>1. free_index' \in 1 .. Size /\ "idle" \in ProducerPc
    BY <1>0 DEF EnqueueFull, queue, TypeOK, ProducerPc
  <2> QED
    BY <1>0, <2>1, LocalsFacts, QuietType DEF EnqueueFull, At, queue
<1>5. ProducerView(p)' /\ p \notin Viewing' /\ p \notin Linking
  BY <1>3 DEF ProducerView, Viewing, Linking, EnqueueFull
<1> QED
  BY <1>3, <1>5, QuietMoves, MovesProducer DEF Kind

LEMMA RescanInv ==
  ASSUME NEW home, NEW dep, NEW ts, Inv(home, dep, ts), NEW p \in Producers, Rescan(p)
  PROVE  Inv(home, dep, ts)'
<1> DEFINE l == [loc[p] EXCEPT !.node = 1]
<1>0. TypeOK /\ p \in Threads /\ p \notin Consumers /\ loc[p] \in Locals
  BY ThreadFacts DEF Inv
<1>1. l \in Locals /\ l.node = 1
  BY <1>0 DEF Locals
<1>2. loc' = [loc EXCEPT ![p] = l]
  BY <1>0 DEF Rescan, TypeOK
<1>3. TypeOK' /\ Quiet(p) /\ pc'[p] = "rescan" /\ loc'[p] = l
  <2> HIDE DEF l
  <2>2. free_index' \in 1 .. Size /\ "rescan" \in ProducerPc
    BY HQueueAssumption DEF Rescan, ProducerPc
  <2> QED
    BY <1>0, <1>1, <1>2, <2>2, QuietType DEF Rescan, At
<1>5. ProducerView(p)' /\ p \notin Viewing' /\ p \notin Linking
  BY <1>3 DEF ProducerView, Viewing, Linking, Rescan
<1> HIDE DEF l
<1> QED
  BY <1>1, <1>3, <1>5, QuietMoves, MovesProducer DEF Kind, Rescan

LEMMA ReadTailInv ==
  ASSUME NEW home, NEW dep, NEW ts, Inv(home, dep, ts), NEW p \in Producers, ReadTail(p)
  PROVE  Inv(home, dep, ts)'
<1> DEFINE l == [loc[p] EXCEPT !.tail = qtail]
<1>0. TypeOK /\ p \in Threads /\ p \notin Consumers /\ loc[p] \in Locals /\ qtail \in NodePointer /\ qtail \in AnyPointer
  BY ThreadFacts, LocalsFacts DEF Inv, TypeOK
<1>1. l \in Locals /\ l.node = loc[p].node /\ l.tail = qtail
  BY <1>0 DEF Locals
<1>2. loc' = [loc EXCEPT ![p] = l]
  BY <1>0 DEF ReadTail, TypeOK
<1>3. TypeOK' /\ Quiet(p) /\ pc'[p] = "next" /\ loc'[p] = l
  <2> HIDE DEF l
  <2>2. free_index' \in 1 .. Size /\ "next" \in ProducerPc
    BY <1>0 DEF ReadTail, queue, TypeOK, ProducerPc
  <2> QED
    BY <1>0, <1>1, <1>2, <2>2, QuietType DEF ReadTail, At, queue
<1> HIDE DEF l
<1>5. ProducerView(p)'
  BY <1>0, <1>1, <1>3 DEF ProducerView, Current, Quiet, NodePointer
<1>6. TailView(home, ts, p)'
  BY <1>0, <1>1, <1>3, HQueueAssumption DEF TailView, Inv, HomesHeld, Quiet, NodePointer, Nodes
<1>7. p \in Linking'
  BY <1>3 DEF Linking
<1> QED
  BY <1>1, <1>3, <1>5, <1>6, <1>7, QuietMoves, MovesProducer DEF Kind, ReadTail

LEMMA ReadTailNextInv ==
  ASSUME NEW home, NEW dep, NEW ts, Inv(home, dep, ts), NEW p \in Producers, ReadTailNext(p)
  PROVE  Inv(home, dep, ts)'
<1> DEFINE l == [loc[p] EXCEPT !.next = next[loc[p].tail.index]]
<1>0. TypeOK /\ p \in Threads /\ p \notin Consumers /\ loc[p] \in Locals
  BY ThreadFacts DEF Inv
<1>a. /\ TailView(home, ts, p) /\ ProducerView(p) /\ pc[p] = "next"
      /\ loc[p].tail.index \in Nodes
  BY DEF Inv, Views, Ordered, Viewing, ReadTailNext, TailView
<1>1. /\ l \in Locals /\ l.node = loc[p].node /\ l.tail = loc[p].tail
      /\ l.next = next[loc[p].tail.index]
  BY <1>0, <1>a DEF Locals, TypeOK
<1>2. loc' = [loc EXCEPT ![p] = l]
  BY <1>0 DEF ReadTailNext, TypeOK
<1>3. TypeOK' /\ Quiet(p) /\ pc'[p] = "check" /\ loc'[p] = l
  <2> HIDE DEF l
  <2>2. free_index' \in 1 .. Size /\ "check" \in ProducerPc
    BY <1>0 DEF ReadTailNext, queue, TypeOK, ProducerPc
  <2>3. /\ pc' = [pc EXCEPT ![p] = "check"]
        /\ UNCHANGED <<qhead, qtail, next, value, free, calls, accepted, taken>>
    BY DEF ReadTailNext, At, queue
  <2> QED
    BY <1>0, <1>1, <1>2, <2>2, <2>3, QuietType
<1> HIDE DEF l
<1>5. ProducerView(p)'
  BY <1>1, <1>3, <1>a DEF ProducerView, Quiet
<1>6. TailView(home, ts, p)'
  BY <1>1, <1>3, <1>a DEF TailView, Quiet
<1>7. p \in Linking'
  BY <1>3 DEF Linking
<1> QED
  BY <1>1, <1>3, <1>5, <1>6, <1>7, <1>a, QuietMoves, MovesProducer DEF Kind

LEMMA AgainLocals ==
  ASSUME NEW l \in Locals
  PROVE  /\ [NoLocals EXCEPT !.node = l.node] \in Locals
         /\ [NoLocals EXCEPT !.node = l.node].node = l.node
  BY DEF Locals, NoLocals, Nil, Pointer, AnyPointer

\* A producer reads qtail again.
LEMMA TailAgain ==
  ASSUME NEW home, NEW dep, NEW ts, Inv(home, dep, ts), NEW p \in Linking, Again(p, "tail"),
         UNCHANGED <<queue, calls, accepted, taken>>
  PROVE  Inv(home, dep, ts)'
<1> DEFINE l == [NoLocals EXCEPT !.node = loc[p].node]
<1>0. TypeOK /\ p \in Threads /\ p \in Producers /\ p \notin Consumers /\ loc[p] \in Locals
  BY ThreadFacts DEF Inv, Linking
<1>1. l \in Locals /\ l.node = loc[p].node
  BY <1>0, AgainLocals
<1>3. TypeOK' /\ Quiet(p) /\ pc'[p] = "tail" /\ loc'[p] = l
  <2>1. loc' = [loc EXCEPT ![p] = l]
    BY DEF Again
  <2> HIDE DEF l
  <2>2. free_index' \in 1 .. Size /\ "tail" \in ProducerPc
    BY <1>0 DEF queue, TypeOK, ProducerPc
  <2> QED
    BY <1>0, <1>1, <2>1, <2>2, QuietType DEF Again, At, queue
<1> HIDE DEF l
<1>5. ProducerView(p)' /\ p \notin Viewing' /\ p \in Linking'
  BY <1>0, <1>3 DEF ProducerView, Viewing, Linking
<1>6. Kind(pc'[p]) = Kind(pc[p]) /\ Kind(pc'[p]) = "linking"
  BY <1>3 DEF Kind, Linking
<1> QED
  BY <1>0, <1>1, <1>3, <1>5, <1>6, QuietMoves, MovesProducer

LEMMA CheckTailInv ==
  ASSUME NEW home, NEW dep, NEW ts, Inv(home, dep, ts), NEW p \in Producers, CheckTail(p)
  PROVE  Inv(home, dep, ts)'
<1>0. TypeOK /\ p \in Threads /\ p \notin Consumers /\ loc[p] \in Locals
  BY ThreadFacts DEF Inv
<1>a. /\ TailView(home, ts, p) /\ ProducerView(p) /\ pc[p] = "check" /\ p \in Linking
  BY DEF Inv, Views, Ordered, Viewing, CheckTail, Linking
<1>1. CASE loc[p].tail # qtail
  BY <1>1, <1>a, TailAgain DEF CheckTail
<1>2. CASE loc[p].tail = qtail
  <2>1. PICK place : /\ place = IF loc[p].next.index # -1 THEN "help" ELSE "link"
                     /\ At(p, place)
    BY <1>2 DEF CheckTail
  <2>2. loc' = [loc EXCEPT ![p] = loc[p]]
    BY <1>0, <1>2 DEF CheckTail, TypeOK
  <2>3. TypeOK' /\ Quiet(p) /\ pc'[p] = place /\ loc'[p] = loc[p]
    <3>2. free_index' \in 1 .. Size /\ place \in ProducerPc
      BY <1>0, <2>1 DEF CheckTail, queue, TypeOK, ProducerPc
    <3> QED
      BY <1>0, <2>1, <2>2, <3>2, QuietType DEF CheckTail, At, queue
  <2>5. ProducerView(p)'
    BY <2>1, <2>3, <1>a DEF ProducerView, Quiet
  <2>6. TailView(home, ts, p)'
    BY <2>3, <1>a DEF TailView, Quiet
  <2>7. p \in Linking' /\ Kind(pc'[p]) = "linking" /\ Kind(pc[p]) = "linking"
    BY <2>1, <2>3, <1>a DEF Linking, Kind
  <2> QED
    BY <2>3, <2>5, <2>6, <2>7, QuietMoves, MovesProducer
<1> QED
  BY <1>1, <1>2

LEMMA DequeueInv ==
  ASSUME NEW home, NEW dep, NEW ts, Inv(home, dep, ts), NEW c \in Consumers, Dequeue(c)
  PROVE  Inv(home, dep, ts)'
<1> DEFINE l == [loc[c] EXCEPT !.head = qhead]
<1>0. /\ TypeOK /\ c \in Threads /\ c \notin Producers /\ loc[c] \in Locals
      /\ qhead \in NodePointer /\ qhead \in AnyPointer /\ pc[c] = "idle"
  BY ThreadFacts, LocalsFacts DEF Inv, TypeOK, Dequeue
<1>1. l \in Locals /\ l.head = qhead
  BY <1>0 DEF Locals
<1>2. loc' = [loc EXCEPT ![c] = l]
  BY <1>0 DEF Dequeue, TypeOK
<1>3. TypeOK' /\ Quiet(c) /\ pc'[c] = "tail" /\ loc'[c] = l
  <2> HIDE DEF l
  <2>2. free_index' \in 1 .. Size /\ "tail" \in ConsumerPc
    BY <1>0 DEF Dequeue, queue, TypeOK, ConsumerPc
  <2>3. /\ pc' = [pc EXCEPT ![c] = "tail"]
        /\ UNCHANGED <<qhead, qtail, next, value, free, calls, accepted, taken>>
    BY DEF Dequeue, At, queue
  <2> QED
    BY <1>0, <1>1, <1>2, <2>2, <2>3, QuietType
<1> HIDE DEF l
<1>5. ConsumerView(c)'
  BY <1>0, <1>1, <1>3 DEF ConsumerView, Current, Quiet, NodePointer
<1> QED
  BY <1>0, <1>3, <1>5, QuietMoves, MovesConsumer

LEMMA DequeueReadTailInv ==
  ASSUME NEW home, NEW dep, NEW ts, Inv(home, dep, ts), NEW c \in Consumers, DequeueReadTail(c)
  PROVE  Inv(home, dep, ts)'
<1> DEFINE l == [loc[c] EXCEPT !.tail = qtail]
<1>0. /\ TypeOK /\ c \in Threads /\ c \notin Producers /\ loc[c] \in Locals
      /\ qtail \in NodePointer /\ qtail \in AnyPointer /\ pc[c] = "tail" /\ ConsumerView(c)
  BY ThreadFacts, LocalsFacts DEF Inv, TypeOK, DequeueReadTail, Views
<1>1. l \in Locals /\ l.head = loc[c].head /\ l.tail = qtail
  BY <1>0 DEF Locals
<1>2. loc' = [loc EXCEPT ![c] = l]
  BY <1>0 DEF DequeueReadTail, TypeOK
<1>3. TypeOK' /\ Quiet(c) /\ pc'[c] = "next" /\ loc'[c] = l
  <2> HIDE DEF l
  <2>2. free_index' \in 1 .. Size /\ "next" \in ConsumerPc
    BY <1>0 DEF DequeueReadTail, queue, TypeOK, ConsumerPc
  <2>3. /\ pc' = [pc EXCEPT ![c] = "next"]
        /\ UNCHANGED <<qhead, qtail, next, value, free, calls, accepted, taken>>
    BY DEF DequeueReadTail, At, queue
  <2> QED
    BY <1>0, <1>1, <1>2, <2>2, <2>3, QuietType
<1> HIDE DEF l
<1>5. ConsumerView(c)'
  BY <1>0, <1>1, <1>3 DEF ConsumerView, Current, Quiet, NodePointer
<1> QED
  BY <1>0, <1>3, <1>5, QuietMoves, MovesConsumer

LEMMA ReadHeadNextInv ==
  ASSUME NEW home, NEW dep, NEW ts, Inv(home, dep, ts), NEW c \in Consumers, ReadHeadNext(c)
  PROVE  Inv(home, dep, ts)'
<1> DEFINE l == [loc[c] EXCEPT !.next = next[loc[c].head.index]]
<1>0. /\ TypeOK /\ c \in Threads /\ c \notin Producers /\ loc[c] \in Locals
      /\ pc[c] = "next" /\ ConsumerView(c)
  BY ThreadFacts DEF Inv, TypeOK, ReadHeadNext, Views
<1>a. loc[c].head.index \in Nodes /\ next[loc[c].head.index] \in AnyPointer
  BY <1>0 DEF ConsumerView, TypeOK
<1>1. l \in Locals /\ l.head = loc[c].head /\ l.tail = loc[c].tail /\ l.next = next[loc[c].head.index]
  BY <1>0, <1>a DEF Locals
<1>2. loc' = [loc EXCEPT ![c] = l]
  BY <1>0 DEF ReadHeadNext, TypeOK
<1>3. TypeOK' /\ Quiet(c) /\ pc'[c] = "check" /\ loc'[c] = l
  <2> HIDE DEF l
  <2>2. free_index' \in 1 .. Size /\ "check" \in ConsumerPc
    BY <1>0 DEF ReadHeadNext, queue, TypeOK, ConsumerPc
  <2>3. /\ pc' = [pc EXCEPT ![c] = "check"]
        /\ UNCHANGED <<qhead, qtail, next, value, free, calls, accepted, taken>>
    BY DEF ReadHeadNext, At, queue
  <2> QED
    BY <1>0, <1>1, <1>2, <2>2, <2>3, QuietType
<1> HIDE DEF l
<1>5. ConsumerView(c)'
  BY <1>0, <1>1, <1>3 DEF ConsumerView, Quiet
<1> QED
  BY <1>0, <1>3, <1>5, QuietMoves, MovesConsumer

\* A consumer starts again.
LEMMA IdleAgain ==
  ASSUME NEW home, NEW dep, NEW ts, Inv(home, dep, ts), NEW c \in Consumers, pc[c] # "free",
         Again(c, "idle"), UNCHANGED <<queue, calls, accepted, taken>>
  PROVE  Inv(home, dep, ts)'
<1> DEFINE l == [NoLocals EXCEPT !.node = loc[c].node]
<1>0. TypeOK /\ c \in Threads /\ c \notin Producers /\ loc[c] \in Locals
  BY ThreadFacts DEF Inv
<1>1. l \in Locals
  BY <1>0, AgainLocals
<1>3. TypeOK' /\ Quiet(c) /\ pc'[c] = "idle"
  <2>1. loc' = [loc EXCEPT ![c] = l]
    BY DEF Again
  <2> HIDE DEF l
  <2>2. free_index' \in 1 .. Size /\ "idle" \in ConsumerPc
    BY <1>0 DEF queue, TypeOK, ConsumerPc
  <2> QED
    BY <1>0, <1>1, <2>1, <2>2, QuietType DEF Again, At, queue
<1>5. ConsumerView(c)'
  BY <1>3 DEF ConsumerView
<1> QED
  BY <1>3, <1>5, QuietMoves, MovesConsumer

LEMMA CheckHeadInv ==
  ASSUME NEW home, NEW dep, NEW ts, Inv(home, dep, ts), NEW c \in Consumers, CheckHead(c)
  PROVE  Inv(home, dep, ts)'
<1>0. /\ TypeOK /\ c \in Threads /\ c \notin Producers /\ loc[c] \in Locals
      /\ pc[c] = "check" /\ ConsumerView(c)
  BY ThreadFacts DEF Inv, TypeOK, CheckHead, Views
<1>1. CASE Again(c, "idle")
  BY <1>0, <1>1, IdleAgain DEF CheckHead
<1>2. CASE ~ Again(c, "idle")
  <2>1. PICK place : /\ place = IF loc[c].head.index = loc[c].tail.index THEN "help" ELSE "take"
                     /\ At(c, place)
    BY <1>2 DEF CheckHead
  <2>a. loc[c].next.index # -1
    BY <1>2 DEF CheckHead
  <2>2. loc' = [loc EXCEPT ![c] = loc[c]]
    BY <1>0, <1>2 DEF CheckHead, TypeOK
  <2>3. TypeOK' /\ Quiet(c) /\ pc'[c] = place /\ loc'[c] = loc[c]
    <3>2. free_index' \in 1 .. Size /\ place \in ConsumerPc
      BY <1>0, <2>1 DEF CheckHead, queue, TypeOK, ConsumerPc
    <3>3. UNCHANGED <<qhead, qtail, next, value, free, calls, accepted, taken>>
      BY DEF CheckHead, queue
    <3>4. pc' = [pc EXCEPT ![c] = place]
      BY <2>1 DEF At
    <3> QED
      BY <1>0, <2>2, <3>2, <3>3, <3>4, QuietType
  <2>5. ConsumerView(c)'
    BY <1>0, <2>1, <2>a, <2>3 DEF ConsumerView, Quiet
  <2> QED
    BY <1>0, <2>1, <2>3, <2>5, QuietMoves, MovesConsumer
<1> QED
  BY <1>1, <1>2

-----------------------------------------------------------------------------
(* Steps that take a node or give it back.                                 *)

LEMMA EnqueueInv ==
  ASSUME NEW home, NEW dep, NEW ts, Inv(home, dep, ts), NEW p \in Producers, Enqueue(p)
  PROVE  Inv(home, dep, ts)'
<1> DEFINE l == [loc[p] EXCEPT !.node = free_index]
<1>0. /\ TypeOK /\ p \in Threads /\ p \notin Consumers /\ loc[p] \in Locals
      /\ free_index \in 1 .. Size /\ free_index \in Nat /\ calls[p] \in Nat
      /\ calls[p] < MaxItems /\ MaxItems \in Nat /\ pc[p] = "idle"
  BY ThreadFacts, HQueueAssumption DEF Inv, TypeOK, Enqueue
<1>1. l \in Locals /\ l.node = free_index
  BY <1>0 DEF Locals
<1>2. /\ pc'[p] = "scan" /\ loc'[p] = l
      /\ \A s \in Threads \ {p} : pc'[s] = pc[s] /\ loc'[s] = loc[s]
  BY <1>0 DEF Enqueue, At, TypeOK
<1>3. UNCHANGED <<qhead, qtail, next, value, free, free_index, accepted, taken>>
  BY DEF Enqueue, queue
<1>4. calls'[p] = calls[p] + 1 /\ \A q \in Producers : calls'[q] >= calls[q] /\ (q # p => calls'[q] = calls[q])
  BY <1>0 DEF Enqueue, TypeOK
<1> HIDE DEF l
<1>5. TypeOK'
  <2>1. calls' \in [Producers -> 0 .. MaxItems]
    BY <1>0 DEF Enqueue, TypeOK
  <2>2. pc' \in [Threads -> ProducerPc \cup ConsumerPc]
    BY <1>0 DEF Enqueue, At, TypeOK, ProducerPc
  <2>3. loc' \in [Threads -> Locals]
    <3>1. loc' = [loc EXCEPT ![p] = l]
      BY <1>0 DEF Enqueue, TypeOK, l
    <3> QED
      BY <1>0, <1>1, <3>1 DEF TypeOK
  <2>4. \A q \in Producers : pc'[q] \in ProducerPc
    BY <1>0, <1>2 DEF TypeOK, Threads, ProducerPc
  <2>5. \A c \in Consumers : pc'[c] \in ConsumerPc
    BY <1>0, <1>2 DEF TypeOK, Threads
  <2> QED
    BY <1>0, <1>3, <2>1, <2>2, <2>3, <2>4, <2>5 DEF TypeOK
<1>6. /\ \A q \in Producers : q # p => pc'[q] = pc[q] /\ loc'[q] = loc[q]
      /\ \A c \in Consumers : pc'[c] = pc[c] /\ loc'[c] = loc[c]
  BY <1>0, <1>2 DEF Threads
<1>7. /\ Linking' = Linking /\ p \notin Linking /\ Viewing' = Viewing
      /\ \A q \in Linking : loc'[q] = loc[q]
  BY <1>0, <1>2, <1>6 DEF Linking, Viewing
<1>8. Unlinked' = Unlinked
  BY <1>7 DEF Unlinked
<1>9. NodesHeld'
  <2>1. Holding' = Holding /\ \A t \in Holding : Holds(t)' = Holds(t)
    BY <1>0, <1>2, <1>6, <1>7 DEF Holding, Holds, Linking
  <2>2. \A q \in Producers : pc'[q] \in {"scan", "rescan"} => loc'[q].node >= 1
    BY <1>0, <1>1, <1>2, <1>6 DEF Inv, NodesHeld
  <2> QED
    BY <1>3, <2>1, <2>2 DEF Inv, NodesHeld
<1>10. Views'
  <2>1. ProducerView(p)'
    BY <1>2 DEF ProducerView
  <2> QED
    BY <2>1, <1>3, <1>6 DEF Inv, Views, ProducerView, ConsumerView
<1>11. Chained(home, dep)'
  BY <1>3, <1>7, <1>8 DEF Inv, Chained
<1>12. HomesHeld(home)'
  BY <1>2, <1>3, <1>6 DEF Inv, HomesHeld
<1>13. Ordered(home, ts)'
  BY <1>3, <1>6, <1>7, <1>2 DEF Inv, Ordered, TailView, Viewing
<1>14. Items(home)'
  <2>1. Full(home)' = Full(home) /\ \A i : InFull(home, i)' <=> InFull(home, i)
    BY <1>3 DEF Full, InFull
  <2>i. \A i \in Item : i[1] \in Producers /\ i[2] \in Nat /\ taken[i] \in Nat
    BY <1>0 DEF Item, TypeOK
  <2>2. <<p, calls'[p]>> \in Item
    BY <1>0, <1>4 DEF Item
  <2>3. ~ InFull(home, <<p, calls'[p]>>)
    BY <1>0, <1>4 DEF Inv, Items, InFull
  <2>4. taken[<<p, calls'[p]>>] = 0
    BY <1>0, <1>4, <2>2, <2>i DEF Inv, Items
  <2>a. \A q \in Producers : calls[q] \in Nat /\ calls'[q] \in Nat
    BY <1>0, <1>5 DEF TypeOK
  <2>5. \A x \in Full(home) : value[x] \in Item /\ taken[value[x]] = 0 /\ value[x][2] <= calls'[value[x][1]]
    BY <1>4, <2>i, <2>a DEF Inv, Items
  <2>6. \A i \in Item : taken[i] <= 1 /\ (taken[i] = 1 => i[2] <= calls'[i[1]])
    BY <1>4, <2>i, <2>a DEF Inv, Items
  <2>7. \A q \in Producers : pc'[q] # "idle" => calls'[q] >= 1
    BY <1>0, <1>4, <1>6 DEF Inv, Items
  <2>8. \A q \in Producers : pc'[q] \in {"scan", "rescan", "fill"} =>
          taken[<<q, calls'[q]>>] = 0 /\ ~ InFull(home, <<q, calls'[q]>>)
    BY <1>4, <1>6, <2>3, <2>4 DEF Inv, Items
  <2>9. \A q \in Linking : value[loc[q].node] = <<q, calls'[q]>>
    BY <1>4, <1>7 DEF Inv, Items, Linking
  <2>10. \A q \in Producers : pc'[q] = "swing" => taken[<<q, calls'[q]>>] = 1 \/ InFull(home, <<q, calls'[q]>>)
    BY <1>2, <1>4, <1>6 DEF Inv, Items
  <2>11. /\ \A x, y \in Full(home) : value[x] = value[y] => x = y
         /\ \A i \in accepted : taken[i] = 1 \/ InFull(home, i)
    BY DEF Inv, Items
  <2>12. \A q \in Linking' : value'[loc'[q].node] = <<q, calls'[q]>>
    BY <1>3, <1>7, <2>9
  <2> HIDE DEF Full, InFull
  <2> QED
    BY <1>3, <2>1, <2>5, <2>6, <2>7, <2>8, <2>10, <2>11, <2>12 DEF Items
<1> QED
  BY <1>5, <1>9, <1>10, <1>11, <1>12, <1>13, <1>14 DEF Inv

LEMMA TakeNodeInv ==
  ASSUME NEW home, NEW dep, NEW ts, Inv(home, dep, ts), NEW p \in Producers, TakeNode(p)
  PROVE  Inv(home, dep, ts)'
<1> DEFINE n == loc[p].node
<1>0. /\ TypeOK /\ p \in Threads /\ p \notin Consumers /\ loc[p] \in Locals
      /\ n \in Nodes /\ n >= 1 /\ free[n] /\ pc[p] \in {"scan", "rescan"}
  <2>1. TypeOK /\ p \in Threads /\ p \notin Consumers /\ loc[p] \in Locals /\ n \in Nat
    BY ThreadFacts, LocalsFacts DEF Inv
  <2> QED
    BY <2>1, HQueueAssumption DEF Inv, NodesHeld, TakeNode, Nodes
<1>1. home[n] = -1
  BY <1>0 DEF Inv, HomesHeld
<1>2. /\ pc'[p] = "fill" /\ loc' = loc
      /\ \A s \in Threads \ {p} : pc'[s] = pc[s]
  BY <1>0 DEF TakeNode, At, TypeOK
<1>3. UNCHANGED <<qhead, qtail, next, value, calls, accepted, taken>>
  BY DEF TakeNode
<1>4. ~ free'[n] /\ \A x \in Nodes : x # n => free'[x] = free[x]
  BY <1>0 DEF TakeNode, TypeOK
<1>5. TypeOK'
  <2>1. free' \in [Nodes -> BOOLEAN] /\ free_index' \in 1 .. Size
    BY <1>0, HQueueAssumption DEF TakeNode, TypeOK, Nodes
  <2>2. pc' \in [Threads -> ProducerPc \cup ConsumerPc]
    BY <1>0 DEF TakeNode, At, TypeOK, ProducerPc
  <2>4. \A q \in Producers : pc'[q] \in ProducerPc
    BY <1>0, <1>2 DEF TypeOK, Threads, ProducerPc
  <2>5. \A c \in Consumers : pc'[c] \in ConsumerPc
    BY <1>0, <1>2 DEF TypeOK, Threads
  <2> QED
    BY <1>0, <1>2, <1>3, <2>1, <2>2, <2>4, <2>5 DEF TypeOK
<1>6. /\ \A q \in Producers : q # p => pc'[q] = pc[q]
      /\ \A c \in Consumers : pc'[c] = pc[c]
  BY <1>0, <1>2 DEF Threads
<1>7. Linking' = Linking /\ p \notin Linking /\ Viewing' = Viewing
  BY <1>0, <1>2, <1>6 DEF Linking, Viewing
<1>8. Unlinked' = Unlinked
  BY <1>2, <1>7 DEF Unlinked
<1>9. NodesHeld'
  <2>1. Holding' = Holding \cup {p} /\ \A t : Holds(t)' = Holds(t)
    BY <1>0, <1>2, <1>6, <1>7 DEF Holding, Holds
  <2>2. Holds(p) = n
    BY <1>0 DEF Holds
  <2>3. \A t \in Holding : Holds(t) \in Nodes /\ Holds(t) # n /\ ~ free'[Holds(t)]
    BY <1>0, <1>4 DEF Inv, NodesHeld
  <2>4. \A q \in Producers : pc'[q] \in {"scan", "rescan"} => loc'[q].node >= 1
    BY <1>0, <1>2, <1>6 DEF Inv, NodesHeld
  <2> HIDE DEF n
  <2> QED
    BY <1>0, <1>4, <2>1, <2>2, <2>3, <2>4 DEF Inv, NodesHeld
<1>10. Views'
  <2>1. ProducerView(p)'
    BY <1>2 DEF ProducerView
  <2> QED
    BY <2>1, <1>2, <1>3, <1>6 DEF Inv, Views, ProducerView, ConsumerView
<1>11. Chained(home, dep)'
  BY <1>2, <1>3, <1>7, <1>8 DEF Inv, Chained
<1>12. HomesHeld(home)'
  BY <1>1, <1>2, <1>3, <1>4, <1>6 DEF Inv, HomesHeld
<1>13. Ordered(home, ts)'
  BY <1>2, <1>3, <1>7 DEF Inv, Ordered, TailView, Viewing
<1>14. Items(home)'
  <2>1. Full(home)' = Full(home) /\ \A i : InFull(home, i)' <=> InFull(home, i)
    BY <1>3 DEF Full, InFull
  <2>3. \A q \in Producers : /\ pc'[q] \in {"scan", "rescan", "fill"} => pc[q] \in {"scan", "rescan", "fill"}
        /\ (pc'[q] # "idle" => pc[q] # "idle") /\ (pc'[q] = "swing" => pc[q] = "swing")
    BY <1>0, <1>2, <1>6
  <2> HIDE DEF Full, InFull
  <2> QED
    BY <1>2, <1>3, <1>7, <2>1, <2>3 DEF Inv, Items
<1> QED
  BY <1>5, <1>9, <1>10, <1>11, <1>12, <1>13, <1>14 DEF Inv

LEMMA FreeHeadInv ==
  ASSUME NEW home, NEW dep, NEW ts, Inv(home, dep, ts), NEW c \in Consumers, FreeHead(c)
  PROVE  Inv(home, dep, ts)'
<1> DEFINE n == loc[c].head.index
<1>0. /\ TypeOK /\ c \in Threads /\ c \notin Producers /\ loc[c] \in Locals
      /\ n \in Nodes /\ pc[c] = "free" /\ home[n] = -1
  <2>1. TypeOK /\ c \in Threads /\ c \notin Producers /\ loc[c] \in Locals
    BY ThreadFacts DEF Inv
  <2> QED
    BY <2>1 DEF Inv, Views, ConsumerView, HomesHeld, FreeHead
<1>2. /\ pc'[c] = "idle" /\ loc'[c] = NoLocals
      /\ \A s \in Threads \ {c} : pc'[s] = pc[s] /\ loc'[s] = loc[s]
  BY <1>0 DEF FreeHead, At, TypeOK
<1>3. UNCHANGED <<qhead, qtail, next, value, calls, accepted, taken>>
  BY DEF FreeHead
<1>4. \A x \in Nodes : x # n => free'[x] = free[x]
  BY <1>0 DEF FreeHead, TypeOK
<1>5. TypeOK'
  <2>1. free' \in [Nodes -> BOOLEAN] /\ free_index' \in 1 .. Size
    BY <1>0 DEF FreeHead, TypeOK
  <2>2. pc' \in [Threads -> ProducerPc \cup ConsumerPc]
    BY <1>0 DEF FreeHead, At, TypeOK, ProducerPc
  <2>3. loc' \in [Threads -> Locals]
    BY <1>0, LocalsFacts DEF FreeHead, TypeOK
  <2>4. \A q \in Producers : pc'[q] \in ProducerPc
    BY <1>0, <1>2 DEF TypeOK, Threads
  <2>5. \A d \in Consumers : pc'[d] \in ConsumerPc
    BY <1>0, <1>2 DEF TypeOK, Threads, ConsumerPc
  <2> QED
    BY <1>0, <1>3, <2>1, <2>2, <2>3, <2>4, <2>5 DEF TypeOK
<1>6. /\ \A d \in Consumers : d # c => pc'[d] = pc[d] /\ loc'[d] = loc[d]
      /\ \A p \in Producers : pc'[p] = pc[p] /\ loc'[p] = loc[p]
  BY <1>0, <1>2 DEF Threads
<1>7. Linking' = Linking /\ Viewing' = Viewing /\ \A q \in Linking : loc'[q] = loc[q]
  BY <1>6 DEF Linking, Viewing
<1>8. Unlinked' = Unlinked
  BY <1>7 DEF Unlinked
<1>9. NodesHeld'
  <2>1. Holding' = Holding \ {c} /\ c \in Holding /\ \A t \in Holding' : Holds(t)' = Holds(t)
    BY <1>0, <1>2, <1>6, <1>7 DEF Holding, Holds, Linking
  <2>2. Holds(c) = n
    BY <1>0 DEF Holds
  <2>3. \A t \in Holding' : Holds(t) \in Nodes /\ Holds(t) # n /\ ~ free'[Holds(t)]
    BY <1>4, <2>1, <2>2 DEF Inv, NodesHeld
  <2>4. \A q \in Producers : pc'[q] \in {"scan", "rescan"} => loc'[q].node >= 1
    BY <1>6 DEF Inv, NodesHeld
  <2> HIDE DEF n
  <2> QED
    BY <2>1, <2>3, <2>4 DEF Inv, NodesHeld
<1>10. Views'
  <2>1. ConsumerView(c)'
    BY <1>2 DEF ConsumerView
  <2> QED
    BY <2>1, <1>3, <1>6 DEF Inv, Views, ProducerView, ConsumerView
<1>11. Chained(home, dep)'
  BY <1>3, <1>7, <1>8 DEF Inv, Chained
<1>12. HomesHeld(home)'
  BY <1>0, <1>2, <1>3, <1>4, <1>6 DEF Inv, HomesHeld
<1>13. Ordered(home, ts)'
  BY <1>3, <1>6, <1>7 DEF Inv, Ordered, TailView, Viewing
<1>14. Items(home)'
  <2>1. Full(home)' = Full(home) /\ \A i : InFull(home, i)' <=> InFull(home, i)
    BY <1>3 DEF Full, InFull
  <2> HIDE DEF Full, InFull
  <2> QED
    BY <1>3, <1>6, <1>7, <2>1 DEF Inv, Items
<1> QED
  BY <1>5, <1>9, <1>10, <1>11, <1>12, <1>13, <1>14 DEF Inv

-----------------------------------------------------------------------------
(* Steps that move qtail.                                                  *)

\* A CAS on qtail to the node behind it keeps it in the list, and off its first node.
LEMMA Swings ==
  ASSUME NEW home, NEW dep, NEW ts, Inv(home, dep, ts), NEW t, NEW i, SwingTail(t, i),
         loc[t].tail = qtail => i # -1 /\ next[qtail.index].index = i
  PROVE  /\ qtail' \in NodePointer
         /\ \/ qtail' = qtail
            \/ /\ qtail.version < qtail'.version
               /\ home[qtail'.index] = Size /\ qtail'.index # qhead.index
<1>0. /\ qtail \in NodePointer /\ qhead \in NodePointer /\ next \in [Nodes -> AnyPointer]
      /\ qtail.index \in Nodes /\ qhead.index \in Nodes /\ qtail.version \in Nat
  BY DEF Inv, TypeOK, NodePointer
<1>1. CASE qtail # loc[t].tail
  BY <1>0, <1>1 DEF SwingTail
<1>2. CASE qtail = loc[t].tail
  <2>1. i # -1 /\ next[qtail.index].index = i /\ qtail' = Pointer(i, qtail.version + 1)
    BY <1>2 DEF SwingTail
  <2>2. i \in Nodes
    BY <1>0, <2>1 DEF AnyPointer
  <2>3. qtail'.index = i /\ qtail'.version = qtail.version + 1 /\ qtail' \in NodePointer
    BY <1>0, <2>1, <2>2 DEF Pointer, NodePointer
  <2>4. home[qtail.index] = Size /\ Size # -1
    BY HQueueAssumption DEF Inv, HomesHeld
  <2>5. home[i] = Size /\ dep[i] = dep[qtail.index] + 1
    BY <1>0, <2>1, <2>4 DEF Inv, Chained
  <2>6. dep[i] # dep[qhead.index]
    BY <1>0, <2>5 DEF Inv, Chained
  <2> QED
    BY <1>0, <2>3, <2>5, <2>6
<1> QED
  BY <1>1, <1>2

LEMMA HelpTailInv ==
  ASSUME NEW home, NEW dep, NEW ts, Inv(home, dep, ts), NEW p \in Producers, HelpTail(p)
  PROVE  Inv(home, dep, ts)'
<1> DEFINE l == [NoLocals EXCEPT !.node = loc[p].node]
<1>0. /\ TypeOK /\ p \in Threads /\ p \notin Consumers /\ loc[p] \in Locals
      /\ ProducerView(p) /\ pc[p] = "help"
  BY ThreadFacts DEF Inv, Views, HelpTail
<1>1. l \in Locals /\ l.node = loc[p].node
  BY <1>0, AgainLocals
<1>2. /\ qtail' \in NodePointer
      /\ \/ qtail' = qtail
         \/ /\ qtail.version < qtail'.version
            /\ home[qtail'.index] = Size /\ qtail'.index # qhead.index
  <2>1. loc[p].tail = qtail => loc[p].next.index # -1 /\ next[qtail.index].index = loc[p].next.index
    BY <1>0 DEF ProducerView
  <2>2. SwingTail(p, loc[p].next.index)
    BY DEF HelpTail
  <2> QED
    BY <2>1, <2>2, Swings
<1>3. /\ pc' = [pc EXCEPT ![p] = "tail"] /\ loc' = [loc EXCEPT ![p] = l]
      /\ UNCHANGED <<qhead, free_index, next, value, free, calls, accepted, taken>>
  BY DEF HelpTail, Again, At
<1> HIDE DEF l
<1>4. /\ TypeOK' /\ pc'[p] = "tail" /\ loc'[p] = l
      /\ \A s \in Threads \ {p} : pc'[s] = pc[s] /\ loc'[s] = loc[s]
  <2>1. "tail" \in ProducerPc /\ free_index' \in 1 .. Size /\ accepted' \subseteq Item
    BY <1>0, <1>3 DEF ProducerPc, TypeOK
  <2> QED
    BY <1>0, <1>1, <1>2, <1>3, <2>1, MoveType
<1>5. Moves(home, p)
  BY <1>2, <1>3, <1>4 DEF Moves
<1>6. ProducerView(p)' /\ p \notin Viewing' /\ p \in Linking'
  BY <1>4 DEF ProducerView, Viewing, Linking
<1>7. Kind(pc'[p]) = Kind(pc[p]) /\ Kind(pc'[p]) = "linking"
  BY <1>0, <1>4 DEF Kind
<1> QED
  BY <1>1, <1>4, <1>5, <1>6, <1>7, MovesProducer

LEMMA DequeueHelpsInv ==
  ASSUME NEW home, NEW dep, NEW ts, Inv(home, dep, ts), NEW c \in Consumers, DequeueHelps(c)
  PROVE  Inv(home, dep, ts)'
<1> DEFINE l == [NoLocals EXCEPT !.node = loc[c].node]
<1>0. /\ TypeOK /\ c \in Threads /\ c \notin Producers /\ loc[c] \in Locals
      /\ ConsumerView(c) /\ pc[c] = "help"
  BY ThreadFacts DEF Inv, Views, DequeueHelps
<1>1. l \in Locals
  BY <1>0, AgainLocals
<1>2. /\ qtail' \in NodePointer
      /\ \/ qtail' = qtail
         \/ /\ qtail.version < qtail'.version
            /\ home[qtail'.index] = Size /\ qtail'.index # qhead.index
  <2>1. loc[c].tail = qtail => loc[c].next.index # -1 /\ next[qtail.index].index = loc[c].next.index
    BY <1>0 DEF ConsumerView
  <2>2. SwingTail(c, loc[c].next.index)
    BY DEF DequeueHelps
  <2> QED
    BY <2>1, <2>2, Swings
<1>3. /\ pc' = [pc EXCEPT ![c] = "idle"] /\ loc' = [loc EXCEPT ![c] = l]
      /\ UNCHANGED <<qhead, free_index, next, value, free, calls, accepted, taken>>
  BY DEF DequeueHelps, Again, At
<1> HIDE DEF l
<1>4. /\ TypeOK' /\ pc'[c] = "idle" /\ loc'[c] = l
      /\ \A s \in Threads \ {c} : pc'[s] = pc[s] /\ loc'[s] = loc[s]
  <2>1. "idle" \in ConsumerPc /\ free_index' \in 1 .. Size /\ accepted' \subseteq Item
    BY <1>0, <1>3 DEF ConsumerPc, TypeOK
  <2> QED
    BY <1>0, <1>1, <1>2, <1>3, <2>1, MoveType
<1>5. Moves(home, c)
  BY <1>2, <1>3, <1>4 DEF Moves
<1>6. ConsumerView(c)'
  BY <1>4 DEF ConsumerView
<1> QED
  BY <1>0, <1>4, <1>5, <1>6, MovesConsumer

LEMMA EnqueueDoneInv ==
  ASSUME NEW home, NEW dep, NEW ts, Inv(home, dep, ts), NEW p \in Producers, EnqueueDone(p)
  PROVE  Inv(home, dep, ts)'
<1>0. /\ TypeOK /\ p \in Threads /\ p \notin Consumers /\ loc[p] \in Locals
      /\ ProducerView(p) /\ pc[p] = "swing"
  BY ThreadFacts DEF Inv, Views, EnqueueDone
<1>2. /\ qtail' \in NodePointer
      /\ \/ qtail' = qtail
         \/ /\ qtail.version < qtail'.version
            /\ home[qtail'.index] = Size /\ qtail'.index # qhead.index
  <2>1. loc[p].tail = qtail => loc[p].node # -1 /\ next[qtail.index].index = loc[p].node
    BY <1>0, LocalsFacts DEF ProducerView
  <2>2. SwingTail(p, loc[p].node)
    BY DEF EnqueueDone
  <2> QED
    BY <2>1, <2>2, Swings
<1>3. /\ pc' = [pc EXCEPT ![p] = "idle"] /\ loc' = [loc EXCEPT ![p] = NoLocals]
      /\ UNCHANGED <<qhead, free_index, next, value, free, calls, taken>>
      /\ accepted' = accepted \cup {<<p, calls[p]>>}
  BY DEF EnqueueDone, At
<1>4. /\ TypeOK' /\ pc'[p] = "idle" /\ loc'[p] = NoLocals
      /\ \A s \in Threads \ {p} : pc'[s] = pc[s] /\ loc'[s] = loc[s]
  <2>1. "idle" \in ProducerPc /\ free_index' \in 1 .. Size
    BY <1>0, <1>3 DEF ProducerPc, TypeOK
  <2>2. calls[p] >= 1 /\ calls[p] \in 0 .. MaxItems
    BY <1>0 DEF Inv, Items, TypeOK
  <2>3. accepted' \subseteq Item
    BY <1>0, <1>3, <2>2, HQueueAssumption DEF Item, TypeOK
  <2> QED
    BY <1>0, <1>2, <1>3, <2>1, <2>3, MoveType, LocalsFacts
<1>5. Moves(home, p)
  <2>1. taken[<<p, calls[p]>>] = 1 \/ InFull(home, <<p, calls[p]>>)
    BY <1>0 DEF Inv, Items
  <2> QED
    BY <1>2, <1>3, <1>4, <2>1 DEF Moves
<1>6. ProducerView(p)' /\ p \notin Viewing' /\ p \notin Linking
  BY <1>0, <1>4 DEF ProducerView, Viewing, Linking
<1>7. Kind(pc'[p]) = "idle"
  BY <1>4 DEF Kind
<1> QED
  BY <1>4, <1>5, <1>6, <1>7, MovesProducer

-----------------------------------------------------------------------------
(* Steps that change where nodes are.                                      *)

LEMMA FillNodeInv ==
  ASSUME NEW home, NEW dep, NEW ts, Inv(home, dep, ts), NEW p \in Producers, FillNode(p)
  PROVE  QueueInv'
<1>n. PICK now \in Nat : \A x \in Nodes : ts[x] <= now
  BY DEF Inv, Ordered
<1>m. PICK n, home2, dep2, ts2, item :
        /\ n = loc[p].node /\ item = <<p, calls[p]>>
        /\ home2 = [home EXCEPT ![n] = n] /\ dep2 = [dep EXCEPT ![n] = 0]
        /\ ts2 = [ts EXCEPT ![n] = now + 1]
  OBVIOUS
<1>0. /\ TypeOK /\ p \in Threads /\ p \notin Consumers /\ loc[p] \in Locals
      /\ pc[p] = "fill" /\ p \in Holding /\ p \notin Linking
  BY ThreadFacts DEF Inv, FillNode, Holding, Linking
<1>h. /\ n \in Nodes /\ ~ free[n] /\ home[n] = -1
      /\ \A s \in Holding : Holds(s) = n => s = p
      /\ n \in Int /\ n # -1 /\ n # Size /\ Size # -1 /\ Size \notin Nodes /\ -1 \notin Nodes
  <2>1. Holds(p) = n
    BY <1>0, <1>m DEF Holds
  <2> QED
    BY <1>0, <1>m, <2>1, HQueueAssumption DEF Inv, NodesHeld, HomesHeld, Nodes
<1>t. /\ home \in [Nodes -> (-1) .. Size] /\ dep \in [Nodes -> Nat] /\ ts \in [Nodes -> Nat]
  BY DEF Inv, Chained, Ordered
<1>1. /\ home2 \in [Nodes -> (-1) .. Size] /\ dep2 \in [Nodes -> Nat] /\ ts2 \in [Nodes -> Nat]
      /\ home2[n] = n /\ dep2[n] = 0 /\ ts2[n] = now + 1
      /\ \A x \in Nodes : x # n => home2[x] = home[x] /\ dep2[x] = dep[x] /\ ts2[x] = ts[x]
  BY <1>h, <1>m, <1>t, HQueueAssumption DEF Nodes
<1>2. /\ pc'[p] = "tail" /\ loc' = loc
      /\ \A s \in Threads \ {p} : pc'[s] = pc[s]
  BY <1>0 DEF FillNode, At, TypeOK
<1>3. UNCHANGED <<qhead, qtail, free, calls, accepted, taken, free_index>>
  BY DEF FillNode
<1>4. /\ value'[n] = item /\ \A x \in Nodes : x # n => value'[x] = value[x]
      /\ next'[n] = Nil /\ \A x \in Nodes : x # n => next'[x] = next[x]
  BY <1>0, <1>h, <1>m DEF FillNode, TypeOK
<1>i. item \in Item /\ calls[p] \in Nat
  <2>1. calls[p] >= 1 /\ calls[p] \in 0 .. MaxItems
    BY <1>0 DEF Inv, Items, TypeOK
  <2> QED
    BY <1>m, <2>1, HQueueAssumption DEF Item
<1>5. TypeOK'
  <2>1. next' \in [Nodes -> AnyPointer]
    BY <1>0, <1>h, <1>m, LocalsFacts DEF FillNode, TypeOK
  <2>2. value' \in [Nodes -> Item \cup {NoItem}]
    BY <1>0, <1>h, <1>m, <1>i DEF FillNode, TypeOK
  <2>3. pc' \in [Threads -> ProducerPc \cup ConsumerPc]
    BY <1>0 DEF FillNode, At, TypeOK, ProducerPc
  <2>4. \A q \in Producers : pc'[q] \in ProducerPc
    BY <1>0, <1>2 DEF TypeOK, Threads, ProducerPc
  <2>5. \A c \in Consumers : pc'[c] \in ConsumerPc
    BY <1>0, <1>2 DEF TypeOK, Threads
  <2> QED
    BY <1>0, <1>2, <1>3, <2>1, <2>2, <2>3, <2>4, <2>5 DEF TypeOK
<1>6. /\ \A q \in Producers : q # p => pc'[q] = pc[q]
      /\ \A c \in Consumers : pc'[c] = pc[c]
  BY <1>0, <1>2 DEF Threads
<1>7. Linking' = Linking \cup {p} /\ Viewing' = Viewing /\ p \notin Viewing
  BY <1>0, <1>2, <1>6 DEF Linking, Viewing
<1>8. Unlinked' = Unlinked \cup {n}
  BY <1>2, <1>7, <1>m DEF Unlinked
<1>9. n \notin Unlinked /\ \A q \in Linking : loc[q].node # n /\ loc[q].node \in Nodes
  <2>1. \A q \in Linking : q \in Holding /\ Holds(q) = loc[q].node /\ Holds(q) \in Nodes
    BY ThreadFacts DEF Linking, Holding, Holds, Inv, NodesHeld
  <2> QED
    BY <1>0, <1>h, <2>1 DEF Unlinked
<1>a. /\ qhead.index \in Nodes /\ qtail.index \in Nodes /\ qhead.index # n /\ qtail.index # n
      /\ home[qhead.index] = Size /\ home[qtail.index] = Size
  BY <1>0, <1>h DEF Inv, Chained, HomesHeld, TypeOK, NodePointer
<1>b. \A x \in Nodes : home[x] # n
  BY <1>h, <1>9 DEF Inv, Chained
<1>10. NodesHeld'
  <2>1. Holding' = Holding /\ \A t : Holds(t)' = Holds(t)
    BY <1>0, <1>2, <1>6, <1>7 DEF Holding, Holds
  <2>2. \A q \in Producers : pc'[q] \in {"scan", "rescan"} => loc'[q].node >= 1
    BY <1>2, <1>6 DEF Inv, NodesHeld
  <2> QED
    BY <1>3, <2>1, <2>2 DEF Inv, NodesHeld
<1>11. Views'
  <2>1. ProducerView(p)'
    BY <1>2 DEF ProducerView
  <2>2. next'[qtail.index] = next[qtail.index] /\ next'[qhead.index] = next[qhead.index]
    BY <1>4, <1>a
  <2>3. \A q \in Producers : q # p => ProducerView(q)'
    BY <1>2, <1>3, <1>6, <2>2 DEF Inv, Views, ProducerView
  <2>4. \A c \in Consumers : ConsumerView(c)'
    BY <1>2, <1>3, <1>6, <2>2 DEF Inv, Views, ConsumerView
  <2> QED
    BY <2>1, <2>3, <2>4 DEF Views
<1>12. Chained(home2, dep2)'
  <2>1. home2[qhead.index] = Size /\ dep2[qhead.index] = 0
    BY <1>1, <1>a DEF Inv, Chained
  <2>2. \A q \in Linking' : home2[loc[q].node] = loc[q].node /\ dep2[loc[q].node] = 0
    BY <1>1, <1>7, <1>9, <1>m DEF Inv, Chained
  <2>3. \A x \in Nodes : home2[x] \in {-1, Size} \cup Unlinked'
    BY <1>1, <1>8 DEF Inv, Chained
  <2>4. \A x \in Nodes : home2[x] # -1 /\ next'[x].index # -1 =>
          home2[next'[x].index] = home2[x] /\ dep2[next'[x].index] = dep2[x] + 1
    <3> SUFFICES ASSUME NEW x \in Nodes, home2[x] # -1, next'[x].index # -1
                 PROVE  home2[next'[x].index] = home2[x] /\ dep2[next'[x].index] = dep2[x] + 1
      OBVIOUS
    <3>1. x # n
      BY <1>4 DEF Nil, Pointer
    <3>2. home[x] # -1 /\ next'[x] = next[x] /\ next[x].index \in Nodes
      BY <1>0, <1>1, <1>4, <3>1 DEF TypeOK, AnyPointer
    <3>3. home[next[x].index] = home[x] /\ dep[next[x].index] = dep[x] + 1
      BY <3>2 DEF Inv, Chained
    <3>4. next[x].index # n
      BY <1>h, <3>2, <3>3
    <3> QED
      BY <1>1, <3>1, <3>2, <3>3, <3>4
  <2>5. \A x \in Nodes : home2[x] # -1 /\ dep2[x] # 0 =>
          \E y \in Nodes : home2[y] = home2[x] /\ next'[y].index = x
    <3> SUFFICES ASSUME NEW x \in Nodes, home2[x] # -1, dep2[x] # 0
                 PROVE  \E y \in Nodes : home2[y] = home2[x] /\ next'[y].index = x
      OBVIOUS
    <3>1. x # n /\ home[x] # -1 /\ dep[x] # 0
      BY <1>1
    <3>2. PICK y \in Nodes : home[y] = home[x] /\ next[y].index = x
      BY <3>1 DEF Inv, Chained
    <3>3. y # n
      BY <1>h, <3>1, <3>2
    <3> QED
      BY <1>1, <1>4, <3>1, <3>2, <3>3
  <2>6. \A x, y \in Nodes : home2[x] # -1 /\ home2[x] = home2[y] /\ dep2[x] = dep2[y] => x = y
    BY <1>1, <1>b DEF Inv, Chained
  <2>7. \A h \in Unlinked' \cup {Size} : \E x \in Nodes : home2[x] = h /\ next'[x].index = -1
    <3>1. next'[n].index = -1
      BY <1>4 DEF Nil, Pointer
    <3>2. ASSUME NEW h \in Unlinked \cup {Size}
          PROVE  \E x \in Nodes : home2[x] = h /\ next'[x].index = -1
      <4>1. PICK x \in Nodes : home[x] = h /\ next[x].index = -1
        BY DEF Inv, Chained
      <4>2. h # -1
        BY <1>h, <1>9 DEF Unlinked
      <4> QED
        BY <1>h, <1>1, <1>4, <4>1, <4>2
    <3> QED
      BY <1>h, <1>1, <1>8, <3>1, <3>2
  <2> QED
    BY <1>1, <1>2, <1>3, <2>1, <2>2, <2>3, <2>4, <2>5, <2>6, <2>7 DEF Chained
<1>13. HomesHeld(home2)'
  <2>1. \A x \in Nodes : home2[x] # -1 => ~ free[x]
    BY <1>h, <1>1 DEF Inv, HomesHeld
  <2>2. \A q \in Producers : pc'[q] = "fill" => home2[loc[q].node] = -1
    <3> SUFFICES ASSUME NEW q \in Producers, pc'[q] = "fill" PROVE home2[loc[q].node] = -1
      OBVIOUS
    <3>1. q # p /\ pc[q] = "fill"
      BY <1>2, <1>6
    <3>2. q \in Holding /\ Holds(q) = loc[q].node
      BY <1>0, <3>1, ThreadFacts DEF Holding, Holds
    <3>3. loc[q].node # n /\ loc[q].node \in Nodes
      BY <1>h, <3>1, <3>2 DEF Inv, NodesHeld
    <3> QED
      BY <1>1, <3>1, <3>3 DEF Inv, HomesHeld
  <2>3. \A c \in Consumers : pc'[c] = "free" => home2[loc[c].head.index] = -1
    <3> SUFFICES ASSUME NEW c \in Consumers, pc'[c] = "free" PROVE home2[loc[c].head.index] = -1
      OBVIOUS
    <3>1. c # p /\ pc[c] = "free"
      BY <1>0, <1>6
    <3>2. c \in Holding /\ Holds(c) = loc[c].head.index
      BY <3>1 DEF Holding, Holds
    <3>3. loc[c].head.index # n /\ loc[c].head.index \in Nodes
      BY <1>h, <3>1, <3>2 DEF Inv, NodesHeld
    <3> QED
      BY <1>1, <3>1, <3>3 DEF Inv, HomesHeld
  <2>4. home2[qtail.index] = Size
    BY <1>1, <1>a
  <2> QED
    BY <1>2, <1>3, <2>1, <2>2, <2>3, <2>4 DEF HomesHeld
<1>14. Ordered(home2, ts2)'
  <2>1. \A x \in Nodes : ts2[x] <= now + 1
    BY <1>n, <1>1, <1>t
  <2>2. \A x \in Nodes : home2[x] \in Nodes => ts2[x] <= ts2[home2[x]]
    BY <1>1, <1>b, <1>t DEF Inv, Ordered
  <2>3. ASSUME NEW q \in Viewing PROVE TailView(home2, ts2, q)'
    <3> DEFINE t == loc[q].tail.index
    <3>1. q \in Linking /\ TailView(home, ts, q) /\ t \in Nodes
      BY DEF Viewing, Linking, Inv, Ordered, TailView
    <3>2. loc[q].node # n /\ loc[q].node \in Nodes
      BY <1>9, <3>1
    <3>3. ts2[loc[q].node] = ts[loc[q].node] /\ ts[loc[q].node] <= now /\ ts[loc[q].node] \in Nat
      BY <1>n, <1>1, <1>t, <3>2
    <3>4. home2[t] # -1 \/ next'[t].index # -1
      BY <1>h, <1>1, <1>4, <3>1 DEF TailView
    <3>5. home2[t] \in Nodes => ts2[loc[q].node] < ts2[t]
      BY <1>1, <3>1, <3>3 DEF TailView
    <3> QED
      BY <1>2, <3>1, <3>4, <3>5 DEF TailView
  <2> QED
    BY <1>1, <1>7, <2>1, <2>2, <2>3 DEF Ordered
<1>15. Items(home2)'
  <2>1. Full(home2)' = Full(home) \cup {n} /\ n \notin Full(home)
    BY <1>h, <1>1, <1>3, <1>a DEF Full
  <2>2. /\ \A x \in Full(home) : x # n /\ value'[x] = value[x]
        /\ Full(home) \subseteq Nodes
    BY <1>4, <2>1 DEF Full
  <2>3. \A i : InFull(home2, i)' <=> InFull(home, i) \/ i = item
    BY <1>4, <2>1, <2>2 DEF InFull
  <2>4. taken[item] = 0 /\ ~ InFull(home, item)
    BY <1>0, <1>m DEF Inv, Items
  <2>5. \A x \in Full(home2)' : value'[x] \in Item /\ taken[value'[x]] = 0 /\ value'[x][2] <= calls[value'[x][1]]
    <3>1. item[2] <= calls[item[1]]
      BY <1>i, <1>m
    <3>2. \A x \in Full(home) : value[x] \in Item /\ taken[value[x]] = 0 /\ value[x][2] <= calls[value[x][1]]
      BY DEF Inv, Items
    <3> QED
      BY <1>4, <1>i, <2>1, <2>2, <2>4, <3>1, <3>2
  <2>6. \A x, y \in Full(home2)' : value'[x] = value'[y] => x = y
    BY <1>4, <2>1, <2>2, <2>4 DEF Inv, Items, InFull
  <2>7. \A i \in accepted : taken[i] = 1 \/ InFull(home2, i)'
    BY <2>3 DEF Inv, Items
  <2>8. \A q \in Producers : pc'[q] # "idle" => calls[q] >= 1
    BY <1>0, <1>6 DEF Inv, Items
  <2>9. \A q \in Producers : pc'[q] \in {"scan", "rescan", "fill"} =>
          taken[<<q, calls[q]>>] = 0 /\ ~ InFull(home2, <<q, calls[q]>>)'
    <3> SUFFICES ASSUME NEW q \in Producers, pc'[q] \in {"scan", "rescan", "fill"}
                 PROVE  taken[<<q, calls[q]>>] = 0 /\ ~ InFull(home2, <<q, calls[q]>>)'
      OBVIOUS
    <3>1. q # p /\ pc[q] \in {"scan", "rescan", "fill"}
      BY <1>2, <1>6
    <3>2. <<q, calls[q]>> # item
      BY <1>m, <3>1
    <3>3. taken[<<q, calls[q]>>] = 0 /\ ~ InFull(home, <<q, calls[q]>>)
      BY <3>1 DEF Inv, Items
    <3>4. InFull(home2, <<q, calls[q]>>)' <=> InFull(home, <<q, calls[q]>>) \/ <<q, calls[q]>> = item
      BY <1>3, <1>4, <2>1, <2>2 DEF InFull
    <3> QED
      BY <3>2, <3>3, <3>4
  <2>10. \A q \in Linking' : value'[loc[q].node] = <<q, calls[q]>>
    BY <1>4, <1>7, <1>9, <1>m DEF Inv, Items
  <2>11. \A q \in Producers : pc'[q] = "swing" => taken[<<q, calls[q]>>] = 1 \/ InFull(home2, <<q, calls[q]>>)'
    <3> SUFFICES ASSUME NEW q \in Producers, pc'[q] = "swing"
                 PROVE  taken[<<q, calls[q]>>] = 1 \/ InFull(home2, <<q, calls[q]>>)'
      OBVIOUS
    <3>1. taken[<<q, calls[q]>>] = 1 \/ InFull(home, <<q, calls[q]>>)
      BY <1>2, <1>6 DEF Inv, Items
    <3>2. InFull(home, <<q, calls[q]>>) => InFull(home2, <<q, calls[q]>>)'
      BY <1>3, <1>4, <2>1, <2>2 DEF InFull
    <3> QED
      BY <3>1, <3>2
  <2>12. \A i \in Item : taken[i] <= 1 /\ (taken[i] = 1 => i[2] <= calls[i[1]])
    BY DEF Inv, Items
  <2> HIDE DEF Full, InFull
  <2> QED
    BY <1>2, <1>3, <2>5, <2>6, <2>7, <2>8, <2>9, <2>10, <2>11, <2>12 DEF Items
<1>16. Inv(home2, dep2, ts2)'
  BY <1>5, <1>10, <1>11, <1>12, <1>13, <1>14, <1>15 DEF Inv
<1> QED
  BY <1>16 DEF QueueInv

LEMMA TakeInv ==
  ASSUME NEW home, NEW dep, NEW ts, Inv(home, dep, ts), NEW c \in Consumers, Take(c)
  PROVE  QueueInv'
<1>0. /\ TypeOK /\ c \in Threads /\ c \notin Producers /\ loc[c] \in Locals
      /\ pc[c] = "take" /\ ConsumerView(c) /\ c \notin Holding
  BY ThreadFacts DEF Inv, Take, Views, Holding, Linking
<1>f. CASE qhead # loc[c].head
  <2>1. Again(c, "idle") /\ UNCHANGED <<queue, calls, accepted, taken>>
    BY <1>f DEF Take, queue
  <2> QED
    BY <1>0, <2>1, IdleAgain DEF QueueInv
<1>s. CASE qhead = loc[c].head
  <2>m. PICK h, i, item, home2, dep2 :
          /\ h = qhead.index /\ i = loc[c].next.index /\ item = value[i]
          /\ home2 = [home EXCEPT ![h] = -1]
          /\ dep2 = [x \in Nodes |-> IF x # h /\ home[x] = Size THEN dep[x] - 1 ELSE dep[x]]
    OBVIOUS
  <2>t. /\ home \in [Nodes -> (-1) .. Size] /\ dep \in [Nodes -> Nat] /\ ts \in [Nodes -> Nat]
        /\ Size \in Nat /\ Size # -1 /\ Size \notin Nodes /\ -1 \notin Nodes
    BY HQueueAssumption DEF Inv, Chained, Ordered, Nodes
  <2>a. /\ h \in Nodes /\ i \in Nodes /\ next[h].index = i /\ i # -1 /\ h # qtail.index
        /\ qtail.index \in Nodes /\ qhead.version \in Nat
    <3>1. qhead \in NodePointer /\ qtail \in NodePointer /\ loc[c].next \in AnyPointer
      BY <1>0, LocalsFacts DEF TypeOK
    <3> QED
      BY <1>0, <1>s, <2>m, <3>1 DEF ConsumerView, NodePointer, AnyPointer
  <2>b. /\ home[h] = Size /\ dep[h] = 0 /\ home[i] = Size /\ dep[i] = 1 /\ i # h
        /\ \A x \in Nodes : x # h /\ home[x] = Size => dep[x] # 0
        /\ \A x \in Nodes : x # i /\ home[x] = Size => dep[x] # 1
    BY <2>m, <2>t, <2>a DEF Inv, Chained
  <2>1. /\ home2 \in [Nodes -> (-1) .. Size] /\ dep2 \in [Nodes -> Nat]
        /\ home2[h] = -1
        /\ \A x \in Nodes : x # h => home2[x] = home[x]
        /\ \A x \in Nodes : x # h /\ home[x] = Size => dep2[x] = dep[x] - 1
        /\ \A x \in Nodes : home[x] # Size => dep2[x] = dep[x]
    BY <2>m, <2>t, <2>a, <2>b
  <2>2. /\ pc'[c] = "free" /\ loc' = loc
        /\ \A s \in Threads \ {c} : pc'[s] = pc[s]
    BY <1>0, <1>s DEF Take, At, TypeOK
  <2>3. UNCHANGED <<qtail, free_index, next, value, free, calls, accepted>>
    BY DEF Take
  <2>4. qhead'.index = i /\ qhead'.version = qhead.version + 1 /\ qhead' \in NodePointer
    BY <1>s, <2>m, <2>a DEF Take, Pointer, NodePointer
  <2>5. i \in Full(home) /\ item \in Item /\ taken[item] = 0 /\ item[2] <= calls[item[1]] /\ item = value[i]
    <3>1. i \in Full(home)
      BY <2>m, <2>t, <2>a, <2>b DEF Full
    <3> QED
      BY <3>1, <2>m DEF Inv, Items
  <2>6. taken'[item] = 1 /\ \A j \in Item : j # item => taken'[j] = taken[j]
    BY <1>0, <1>s, <2>m, <2>5 DEF Take, TypeOK
  <2>7. TypeOK'
    <3>1. taken' \in [Item -> Nat]
      BY <1>0, <1>s, <2>m, <2>5 DEF Take, TypeOK
    <3>2. pc' \in [Threads -> ProducerPc \cup ConsumerPc]
      BY <1>0, <1>s DEF Take, At, TypeOK, ConsumerPc
    <3>3. \A q \in Producers : pc'[q] \in ProducerPc
      BY <1>0, <2>2 DEF TypeOK, Threads
    <3>4. \A d \in Consumers : pc'[d] \in ConsumerPc
      BY <1>0, <2>2 DEF TypeOK, Threads, ConsumerPc
    <3> QED
      BY <1>0, <2>2, <2>3, <2>4, <3>1, <3>2, <3>3, <3>4 DEF TypeOK
  <2>8. /\ \A d \in Consumers : d # c => pc'[d] = pc[d]
        /\ \A q \in Producers : pc'[q] = pc[q]
    BY <1>0, <2>2 DEF Threads
  <2>9. Linking' = Linking /\ Viewing' = Viewing /\ Unlinked' = Unlinked
    BY <2>2, <2>8 DEF Linking, Viewing, Unlinked
  <2>10. NodesHeld'
    <3>1. Holding' = Holding \cup {c} /\ \A t : Holds(t)' = Holds(t)
      BY <2>2, <2>8, <2>9 DEF Holding, Holds
    <3>2. Holds(c) = h
      BY <1>s, <2>m DEF Holds
    <3>3. \A t \in Holding : home[Holds(t)] # Size
      <4>1. \A q \in Linking : q \in Producers /\ q \notin Consumers /\ home[loc[q].node] = loc[q].node /\ loc[q].node \in Nodes
        <5>1. \A q \in Linking : q \in Producers /\ q \notin Consumers /\ q \in Holding
          BY ThreadFacts DEF Linking, Inv, Holding
        <5> QED
          BY <5>1 DEF Inv, Chained, NodesHeld, Holds
      <4>2. \A q \in Producers : pc[q] = "fill" => home[loc[q].node] = -1 /\ q \notin Consumers
        BY ThreadFacts DEF Inv, HomesHeld
      <4>3. \A d \in Consumers : pc[d] = "free" => home[loc[d].head.index] = -1
        BY DEF Inv, HomesHeld
      <4> QED
        BY <2>t, <4>1, <4>2, <4>3 DEF Holding, Holds
    <3>4. \A t \in Holding : Holds(t) # h
      BY <2>b, <3>3
    <3>5. ~ free[h]
      BY <2>a, <2>b, <2>t DEF Inv, HomesHeld
    <3>6. \A q \in Producers : pc'[q] \in {"scan", "rescan"} => loc'[q].node >= 1
      BY <2>2, <2>8 DEF Inv, NodesHeld
    <3> QED
      BY <2>3, <2>a, <3>1, <3>2, <3>4, <3>5, <3>6 DEF Inv, NodesHeld
  <2>11. Views'
    <3>1. \A q \in Producers : ProducerView(q)'
      BY <2>2, <2>3, <2>8 DEF Inv, Views, ProducerView
    <3>2. ConsumerView(c)'
      BY <1>0, <2>2 DEF ConsumerView
    <3>3. ASSUME NEW d \in Consumers, d # c PROVE ConsumerView(d)'
      <4>1. ConsumerView(d) /\ loc[d].head \in AnyPointer /\ pc'[d] = pc[d]
        BY <2>8, <3>3, LocalsFacts, ThreadFacts DEF Inv, Views
      <4>2. Current(loc[d].head, qhead) => Current(loc[d].head, qhead') /\ loc[d].head # qhead'
        BY <2>4, <2>a, <4>1 DEF Current, AnyPointer
      <4> QED
        BY <2>2, <2>3, <4>1, <4>2 DEF ConsumerView
    <3> QED
      BY <3>1, <3>2, <3>3 DEF Views
  <2>12. Chained(home2, dep2)'
    <3>1. home2[i] = Size /\ dep2[i] = 0
      BY <2>1, <2>a, <2>b
    <3>2. \A q \in Linking : home2[loc[q].node] = loc[q].node /\ dep2[loc[q].node] = 0
      <4> SUFFICES ASSUME NEW q \in Linking
                   PROVE  home2[loc[q].node] = loc[q].node /\ dep2[loc[q].node] = 0
        OBVIOUS
      <4>1. home[loc[q].node] = loc[q].node /\ dep[loc[q].node] = 0
        BY DEF Inv, Chained
      <4>2. loc[q].node \in Nodes
        BY ThreadFacts DEF Inv, NodesHeld, Holding, Holds, Linking
      <4> QED
        BY <2>1, <2>b, <2>t, <4>1, <4>2
    <3>3. \A x \in Nodes : home2[x] \in {-1, Size} \cup Unlinked
      BY <2>1 DEF Inv, Chained
    <3>4. \A x \in Nodes : home2[x] # -1 /\ next[x].index # -1 =>
            home2[next[x].index] = home2[x] /\ dep2[next[x].index] = dep2[x] + 1
      <4> SUFFICES ASSUME NEW x \in Nodes, home2[x] # -1, next[x].index # -1
                   PROVE  home2[next[x].index] = home2[x] /\ dep2[next[x].index] = dep2[x] + 1
        OBVIOUS
      <4>1. x # h /\ home[x] = home2[x]
        BY <2>1
      <4>2. next[x].index \in Nodes
        BY <1>0 DEF TypeOK, AnyPointer
      <4>3. home[next[x].index] = home[x] /\ dep[next[x].index] = dep[x] + 1
        BY <4>1 DEF Inv, Chained
      <4>4. next[x].index # h
        BY <2>b, <2>t, <4>3
      <4> QED
        BY <2>1, <2>t, <4>1, <4>2, <4>3, <4>4
    <3>5. \A x \in Nodes : home2[x] # -1 /\ dep2[x] # 0 =>
            \E y \in Nodes : home2[y] = home2[x] /\ next[y].index = x
      <4> SUFFICES ASSUME NEW x \in Nodes, home2[x] # -1, dep2[x] # 0
                   PROVE  \E y \in Nodes : home2[y] = home2[x] /\ next[y].index = x
        OBVIOUS
      <4>1. x # h /\ home[x] = home2[x] /\ dep[x] # 0
        BY <2>1, <2>b
      <4>2. PICK y \in Nodes : home[y] = home[x] /\ next[y].index = x
        BY <4>1 DEF Inv, Chained
      <4>3. y # h
        BY <2>1, <2>a, <2>b, <4>1, <4>2
      <4> QED
        BY <2>1, <4>1, <4>2, <4>3
    <3>6. \A x, y \in Nodes : home2[x] # -1 /\ home2[x] = home2[y] /\ dep2[x] = dep2[y] => x = y
      <4> SUFFICES ASSUME NEW x \in Nodes, NEW y \in Nodes, home2[x] # -1, home2[x] = home2[y], dep2[x] = dep2[y]
                   PROVE  x = y
        OBVIOUS
      <4>1. x # h /\ y # h /\ home[x] = home[y] /\ home[x] # -1
        BY <2>1
      <4>2. dep[x] = dep[y]
        BY <2>1, <2>t, <4>1
      <4> QED
        BY <4>1, <4>2 DEF Inv, Chained
    <3>7. \A r \in Unlinked \cup {Size} : \E x \in Nodes : home2[x] = r /\ next[x].index = -1
      <4> SUFFICES ASSUME NEW r \in Unlinked \cup {Size}
                   PROVE  \E x \in Nodes : home2[x] = r /\ next[x].index = -1
        OBVIOUS
      <4>1. PICK x \in Nodes : home[x] = r /\ next[x].index = -1
        BY DEF Inv, Chained
      <4> QED
        BY <2>1, <2>a, <4>1
    <3> QED
      BY <2>1, <2>2, <2>3, <2>4, <2>9, <3>1, <3>2, <3>3, <3>4, <3>5, <3>6, <3>7 DEF Chained
  <2>13. HomesHeld(home2)'
    <3>1. \A x \in Nodes : home2[x] # -1 => ~ free[x]
      BY <2>1 DEF Inv, HomesHeld
    <3>2. \A q \in Producers : pc'[q] = "fill" => home2[loc[q].node] = -1
      <4> SUFFICES ASSUME NEW q \in Producers, pc'[q] = "fill" PROVE home2[loc[q].node] = -1
        OBVIOUS
      <4>1. home[loc[q].node] = -1 /\ loc[q].node \in Nodes
        BY <2>8, ThreadFacts DEF Inv, HomesHeld, NodesHeld, Holding, Holds
      <4> QED
        BY <2>1, <4>1
    <3>3. \A d \in Consumers : pc'[d] = "free" => home2[loc[d].head.index] = -1
      <4> SUFFICES ASSUME NEW d \in Consumers, pc'[d] = "free" PROVE home2[loc[d].head.index] = -1
        OBVIOUS
      <4>1. CASE d = c
        BY <1>s, <2>1, <2>m, <4>1
      <4>2. CASE d # c
        <5>1. home[loc[d].head.index] = -1 /\ loc[d].head.index \in Nodes
          BY <2>8, <4>2 DEF Inv, HomesHeld, NodesHeld, Holding, Holds
        <5> QED
          BY <2>1, <5>1
      <4> QED
        BY <4>1, <4>2
    <3>4. home2[qtail.index] = Size
      BY <2>1, <2>a DEF Inv, HomesHeld
    <3> QED
      BY <2>2, <2>3, <3>1, <3>2, <3>3, <3>4 DEF HomesHeld
  <2>14. Ordered(home2, ts)'
    <3>1. \A x \in Nodes : home2[x] \in Nodes => ts[x] <= ts[home2[x]]
      BY <2>1, <2>t DEF Inv, Ordered
    <3>2. ASSUME NEW q \in Viewing PROVE TailView(home2, ts, q)'
      <4>1. TailView(home, ts, q)
        BY DEF Inv, Ordered
      <4>2. CASE loc[q].tail.index = h
        BY <2>1, <2>2, <2>3, <2>a, <2>t, <4>2 DEF TailView
      <4>3. CASE loc[q].tail.index # h
        BY <2>1, <2>2, <2>3, <4>1, <4>3 DEF TailView
      <4> QED
        BY <4>2, <4>3
    <3>3. \E now \in Nat : \A x \in Nodes : ts[x] <= now
      BY DEF Inv, Ordered
    <3> QED
      BY <2>9, <2>t, <3>1, <3>2, <3>3 DEF Ordered
  <2>15. Items(home2)'
    <3>1. Full(home2)' = Full(home) \ {i}
      BY <2>1, <2>4, <2>a, <2>m DEF Full
    <3>2. \A x \in Full(home)\ {i} : value[x] # item
      BY <2>5 DEF Inv, Items
    <3>3. \A j \in Item : InFull(home2, j)' <=> InFull(home, j) /\ j # item
      BY <2>3, <2>5, <3>1, <3>2 DEF InFull
    <3>4. \A x \in Full(home2)' : value[x] \in Item /\ taken'[value[x]] = 0 /\ value[x][2] <= calls[value[x][1]]
      BY <2>6, <3>1, <3>2 DEF Inv, Items
    <3>5. \A x, y \in Full(home2)' : value[x] = value[y] => x = y
      BY <3>1 DEF Inv, Items
    <3>6. \A j \in Item : taken'[j] <= 1 /\ (taken'[j] = 1 => j[2] <= calls[j[1]])
      BY <2>5, <2>6 DEF Inv, Items
    <3>7. \A j \in accepted : taken'[j] = 1 \/ InFull(home2, j)'
      <4>1. accepted \subseteq Item
        BY <1>0 DEF TypeOK
      <4> QED
        BY <2>6, <3>3, <4>1 DEF Inv, Items
    <3>c. \A q \in Producers : pc[q] # "idle" => <<q, calls[q]>> \in Item /\ calls[q] >= 1
      <4> SUFFICES ASSUME NEW q \in Producers, pc[q] # "idle"
                   PROVE  <<q, calls[q]>> \in Item /\ calls[q] >= 1
        OBVIOUS
      <4>1. calls[q] >= 1 /\ calls[q] \in 0 .. MaxItems
        BY <1>0 DEF Inv, Items, TypeOK
      <4> QED
        BY <4>1, HQueueAssumption DEF Item
    <3>8. \A q \in Producers : pc'[q] \in {"scan", "rescan", "fill"} =>
            taken'[<<q, calls[q]>>] = 0 /\ ~ InFull(home2, <<q, calls[q]>>)'
      <4> SUFFICES ASSUME NEW q \in Producers, pc'[q] \in {"scan", "rescan", "fill"}
                   PROVE  taken'[<<q, calls[q]>>] = 0 /\ ~ InFull(home2, <<q, calls[q]>>)'
        OBVIOUS
      <4>m. PICK j : j = <<q, calls[q]>>
        OBVIOUS
      <4>1. j \in Item /\ taken[j] = 0 /\ ~ InFull(home, j)
        BY <2>8, <3>c, <4>m DEF Inv, Items
      <4>2. j # item
        BY <2>5, <4>1 DEF InFull
      <4>3. taken'[j] = 0 /\ ~ InFull(home2, j)'
        BY <2>6, <3>3, <4>1, <4>2
      <4> QED
        BY <2>3, <4>m, <4>3 DEF InFull
    <3>9. \A q \in Linking : value[loc[q].node] = <<q, calls[q]>>
      BY DEF Inv, Items
    <3>10. \A q \in Producers : pc'[q] = "swing" => taken'[<<q, calls[q]>>] = 1 \/ InFull(home2, <<q, calls[q]>>)'
      <4> SUFFICES ASSUME NEW q \in Producers, pc'[q] = "swing"
                   PROVE  taken'[<<q, calls[q]>>] = 1 \/ InFull(home2, <<q, calls[q]>>)'
        OBVIOUS
      <4>m. PICK j : j = <<q, calls[q]>>
        OBVIOUS
      <4>1. j \in Item /\ (taken[j] = 1 \/ InFull(home, j))
        BY <2>8, <3>c, <4>m DEF Inv, Items
      <4>3. taken'[j] = 1 \/ InFull(home2, j)'
        BY <2>6, <3>3, <4>1
      <4> QED
        BY <2>3, <4>m, <4>3 DEF InFull
    <3>11. \A q \in Producers : pc'[q] # "idle" => calls[q] >= 1
      BY <2>8, <3>c
    <3> HIDE DEF Full, InFull
    <3> QED
      BY <2>2, <2>3, <2>9, <3>4, <3>5, <3>6, <3>7, <3>8, <3>9, <3>10, <3>11 DEF Items
  <2>16. Inv(home2, dep2, ts)'
    BY <2>7, <2>10, <2>11, <2>12, <2>13, <2>14, <2>15 DEF Inv
  <2> QED
    BY <2>16 DEF QueueInv
<1> QED
  BY <1>f, <1>s

\* A set of natural numbers with a member has a least one.
LEMMA LeastNat ==
  ASSUME NEW T, T \subseteq Nat, T # {}
  PROVE  \E x \in T : \A y \in T : x <= y
<1> DEFINE R == OpToRel(<, Nat)
<1>1. IsWellFoundedOn(R, Nat)
  BY NatLessThanWellFounded
<1>2. \A x, y \in Nat : y < x => <<y, x>> \in R
  BY DEF OpToRel
<1> HIDE DEF R
<1>3. PICK x \in T : \A y \in T : ~ (<<y, x>> \in R)
  BY <1>1, WFMin
<1>4. ASSUME NEW y \in T PROVE x <= y
  <2>1. x \in Nat /\ y \in Nat
    OBVIOUS
  <2>2. ~ (y < x)
    BY <1>2, <1>3, <2>1
  <2> QED
    BY <2>1, <2>2
<1> QED
  BY <1>4

\* A node without a next is the last of its chain.
LEMMA LastNode ==
  ASSUME NEW home, NEW dep, Chained(home, dep), NEW t \in Nodes, home[t] # -1, next[t].index = -1,
         NEW z \in Nodes, home[z] = home[t]
  PROVE  dep[z] <= dep[t]
<1>0. dep \in [Nodes -> Nat]
  BY DEF Chained
<1> DEFINE Later == {y \in Nodes : home[y] = home[t] /\ dep[y] > dep[t]}
           T == {dep[y] : y \in Later}
<1>1. SUFFICES ASSUME z \in Later PROVE FALSE
  BY <1>0
<1>2. T \subseteq Nat /\ T # {}
  BY <1>0, <1>1
<1>3. PICK m \in T : \A k \in T : m <= k
  <2> HIDE DEF T
  <2> QED
    BY <1>2, LeastNat
<1>4. PICK y \in Nodes : home[y] = home[t] /\ dep[y] > dep[t] /\ dep[y] = m
  BY <1>3
<1>5. dep[y] # 0
  BY <1>0, <1>4
<1>6. PICK x \in Nodes : home[x] = home[t] /\ next[x].index = y
  BY <1>4, <1>5 DEF Chained
<1>7. dep[y] = dep[x] + 1
  BY <1>4, <1>6, HQueueAssumption DEF Chained, Nodes
<1>8. CASE dep[x] = dep[t]
  <2>1. x = t
    BY <1>6, <1>8 DEF Chained
  <2> QED
    BY <1>6, <2>1, HQueueAssumption DEF Nodes
<1>9. CASE dep[x] > dep[t]
  <2>1. dep[x] \in T
    BY <1>6, <1>9
  <2> QED
    BY <1>0, <1>3, <1>4, <1>7, <2>1
<1> QED
  BY <1>0, <1>4, <1>7, <1>8, <1>9

LEMMA LinkInv ==
  ASSUME NEW home, NEW dep, NEW ts, Inv(home, dep, ts), NEW p \in Producers, Link(p)
  PROVE  QueueInv'
<1>0. /\ TypeOK /\ p \in Threads /\ p \notin Consumers /\ loc[p] \in Locals
      /\ pc[p] = "link" /\ ProducerView(p) /\ p \in Linking /\ p \in Viewing /\ TailView(home, ts, p)
  BY ThreadFacts DEF Inv, Link, Views, Linking, Viewing, Ordered
<1>f. CASE next[loc[p].tail.index] # loc[p].next
  <2>1. Again(p, "tail") /\ UNCHANGED <<queue, calls, accepted, taken>>
    BY <1>f DEF Link, queue
  <2> QED
    BY <1>0, <2>1, TailAgain DEF QueueInv
<1>s. CASE next[loc[p].tail.index] = loc[p].next
  <2>m. PICK t, n, g, home2, dep2 :
          /\ t = loc[p].tail.index /\ n = loc[p].node /\ g = home[t]
          /\ home2 = [x \in Nodes |-> IF home[x] = n THEN g ELSE home[x]]
          /\ dep2 = [x \in Nodes |-> IF home[x] = n THEN dep[x] + dep[t] + 1 ELSE dep[x]]
    OBVIOUS
  <2>t. /\ home \in [Nodes -> (-1) .. Size] /\ dep \in [Nodes -> Nat] /\ ts \in [Nodes -> Nat]
        /\ Size \in Nat /\ Size # -1 /\ Size \notin Nodes /\ -1 \notin Nodes
    BY HQueueAssumption DEF Inv, Chained, Ordered, Nodes
  <2>q. \A q \in Linking : q \in Producers /\ q \in Holding /\ Holds(q) = loc[q].node /\ loc[q].node \in Nodes
    BY ThreadFacts DEF Linking, Holding, Holds, Inv, NodesHeld
  <2>a. /\ t \in Nodes /\ n \in Nodes /\ next[t].index = -1 /\ home[t] # -1
        /\ home[n] = n /\ dep[n] = 0 /\ n \in Unlinked
        /\ \A q \in Linking : loc[q].node = n => q = p
    <3>1. t \in Nodes /\ next[t].index = -1
      BY <1>0, <1>s, <2>m DEF ProducerView, TailView
    <3>2. home[t] # -1
      BY <1>0, <2>m, <3>1 DEF TailView
    <3>3. n \in Nodes /\ home[n] = n /\ dep[n] = 0 /\ n \in Unlinked
      BY <1>0, <2>m, <2>q DEF Inv, Chained, Unlinked
    <3>4. \A q \in Linking : loc[q].node = n => q = p
      BY <1>0, <2>m, <2>q DEF Inv, NodesHeld
    <3> QED
      BY <3>1, <3>2, <3>3, <3>4
  <2>b. g # n /\ g # -1 /\ g = home[t] /\ g \in {Size} \cup Unlinked
    <3>1. ASSUME g = n PROVE FALSE
      <4>1. ts[n] < ts[t]
        BY <1>0, <2>m, <2>a, <3>1 DEF TailView
      <4>2. ts[t] <= ts[n]
        BY <2>m, <2>a, <3>1 DEF Inv, Ordered
      <4> QED
        BY <2>t, <2>a, <4>1, <4>2
    <3> QED
      BY <2>m, <2>a, <3>1 DEF Inv, Chained
  <2>1. /\ home2 \in [Nodes -> (-1) .. Size] /\ dep2 \in [Nodes -> Nat]
        /\ \A x \in Nodes : home[x] = n => home2[x] = g /\ dep2[x] = dep[x] + dep[t] + 1
        /\ \A x \in Nodes : home[x] # n => home2[x] = home[x] /\ dep2[x] = dep[x]
    BY <2>m, <2>t, <2>a
  <2>2. /\ pc'[p] = "swing" /\ loc' = loc
        /\ \A s \in Threads \ {p} : pc'[s] = pc[s]
    BY <1>0, <1>s DEF Link, At, TypeOK
  <2>3. UNCHANGED <<qhead, qtail, free_index, value, free, calls, accepted, taken>>
    BY DEF Link
  <2>4. next'[t].index = n /\ \A x \in Nodes : x # t => next'[x] = next[x]
    BY <1>0, <1>s, <2>m, <2>a DEF Link, TypeOK, Pointer
  <2>5. TypeOK'
    <3>1. Pointer(n, loc[p].next.version + 1) \in AnyPointer
      BY <1>0, <2>a, LocalsFacts DEF AnyPointer, Pointer
    <3>2. next' \in [Nodes -> AnyPointer]
      BY <1>0, <1>s, <2>m, <2>a, <3>1 DEF Link, TypeOK
    <3>3. pc' \in [Threads -> ProducerPc \cup ConsumerPc]
      BY <1>0, <1>s DEF Link, At, TypeOK, ProducerPc
    <3>4. \A q \in Producers : pc'[q] \in ProducerPc
      BY <1>0, <2>2 DEF TypeOK, Threads, ProducerPc
    <3>5. \A c \in Consumers : pc'[c] \in ConsumerPc
      BY <1>0, <2>2 DEF TypeOK, Threads
    <3> QED
      BY <1>0, <2>2, <2>3, <3>2, <3>3, <3>4, <3>5 DEF TypeOK
  <2>6. /\ \A q \in Producers : q # p => pc'[q] = pc[q]
        /\ \A c \in Consumers : pc'[c] = pc[c]
    BY <1>0, <2>2 DEF Threads
  <2>7. Linking' = Linking \ {p} /\ Viewing' = Viewing \ {p}
    BY <2>2, <2>6 DEF Linking, Viewing
  <2>8. Unlinked' = Unlinked \ {n}
    BY <1>0, <2>2, <2>7, <2>a, <2>m DEF Unlinked
  <2>9. \A q \in Linking' : q \in Linking /\ loc[q].node # n /\ loc[q].node \in Nodes
    BY <2>7, <2>a, <2>q
  <2>10. NodesHeld'
    <3>1. Holding' = Holding \ {p} /\ \A s : Holds(s)' = Holds(s)
      BY <1>0, <2>2, <2>6, <2>7 DEF Holding, Holds
    <3>2. \A q \in Producers : pc'[q] \in {"scan", "rescan"} => loc'[q].node >= 1
      BY <2>2, <2>6 DEF Inv, NodesHeld
    <3> QED
      BY <2>3, <3>1, <3>2 DEF Inv, NodesHeld
  <2>11. Views'
    <3>0. qtail.index \in Nodes /\ qhead.index \in Nodes
      BY <1>0 DEF TypeOK, NodePointer
    <3>1. ProducerView(p)'
      BY <1>0, <2>2, <2>3, <2>4, <2>a, <2>m DEF ProducerView
    <3>2. \A x \in Nodes : next[x].index # -1 => next'[x] = next[x]
      BY <2>4, <2>a
    <3>3. ASSUME NEW q \in Producers, q # p PROVE ProducerView(q)'
      <4>1. ProducerView(q) /\ pc'[q] = pc[q]
        BY <2>6, <3>3 DEF Inv, Views
      <4>2. loc[q].node \in Nat
        BY LocalsFacts, ThreadFacts DEF Inv
      <4> QED
        BY <2>2, <2>3, <3>0, <3>2, <4>1, <4>2 DEF ProducerView
    <3>4. \A c \in Consumers : ConsumerView(c)'
      BY <2>2, <2>3, <2>6, <3>0, <3>2 DEF Inv, Views, ConsumerView
    <3> QED
      BY <3>1, <3>3, <3>4 DEF Views
  <2>12. Chained(home2, dep2)'
    <3>1. home2[qhead.index] = Size /\ dep2[qhead.index] = 0
      <4>1. qhead.index \in Nodes
        BY <1>0 DEF TypeOK, NodePointer
      <4> QED
        BY <2>1, <2>t, <2>a, <4>1 DEF Inv, Chained
    <3>2. \A q \in Linking' : home2[loc[q].node] = loc[q].node /\ dep2[loc[q].node] = 0
      BY <2>1, <2>9 DEF Inv, Chained
    <3>3. \A x \in Nodes : home2[x] \in {-1, Size} \cup Unlinked'
      BY <2>1, <2>8, <2>b DEF Inv, Chained
    <3>4. \A x \in Nodes : home2[x] # -1 /\ next'[x].index # -1 =>
            home2[next'[x].index] = home2[x] /\ dep2[next'[x].index] = dep2[x] + 1
      <4> SUFFICES ASSUME NEW x \in Nodes, home2[x] # -1, next'[x].index # -1
                   PROVE  home2[next'[x].index] = home2[x] /\ dep2[next'[x].index] = dep2[x] + 1
        OBVIOUS
      <4>1. CASE x = t
        BY <2>1, <2>4, <2>a, <2>b, <2>t, <4>1
      <4>2. CASE x # t
        <5>1. next'[x] = next[x] /\ home[x] # -1
          BY <2>1, <2>4, <2>a, <2>t, <4>2
        <5>2. next[x].index \in Nodes
          BY <1>0, <5>1 DEF TypeOK, AnyPointer
        <5>3. home[next[x].index] = home[x] /\ dep[next[x].index] = dep[x] + 1
          BY <5>1 DEF Inv, Chained
        <5> QED
          BY <2>1, <2>t, <2>a, <5>1, <5>2, <5>3
      <4> QED
        BY <4>1, <4>2
    <3>5. \A x \in Nodes : home2[x] # -1 /\ dep2[x] # 0 =>
            \E y \in Nodes : home2[y] = home2[x] /\ next'[y].index = x
      <4> SUFFICES ASSUME NEW x \in Nodes, home2[x] # -1, dep2[x] # 0
                   PROVE  \E y \in Nodes : home2[y] = home2[x] /\ next'[y].index = x
        OBVIOUS
      <4>1. CASE x = n
        BY <2>1, <2>4, <2>a, <2>b, <4>1
      <4>2. CASE x # n
        <5>1. home[x] # -1 /\ dep[x] # 0
          <6>1. CASE home[x] = n
            BY <2>a, <2>t, <4>2, <6>1 DEF Inv, Chained
          <6>2. CASE home[x] # n
            BY <2>1, <6>2
          <6> QED
            BY <6>1, <6>2
        <5>2. PICK y \in Nodes : home[y] = home[x] /\ next[y].index = x
          BY <5>1 DEF Inv, Chained
        <5>3. y # t
          BY <2>a, <2>t, <5>2
        <5> QED
          BY <2>1, <2>4, <5>2, <5>3
      <4> QED
        BY <4>1, <4>2
    <3>6. \A x, y \in Nodes : home2[x] # -1 /\ home2[x] = home2[y] /\ dep2[x] = dep2[y] => x = y
      <4>1. ASSUME NEW x \in Nodes, NEW y \in Nodes, home[x] = n, home[y] = g PROVE dep2[x] # dep2[y]
        <5>1. dep[y] <= dep[t]
          BY <2>a, <2>b, <4>1, LastNode DEF Inv
        <5>2. dep[x] \in Nat /\ dep[t] \in Nat /\ dep[y] \in Nat
          BY <2>a, <2>t
        <5> QED
          BY <2>1, <2>b, <4>1, <5>1, <5>2
      <4> SUFFICES ASSUME NEW x \in Nodes, NEW y \in Nodes, home2[x] # -1, home2[x] = home2[y], dep2[x] = dep2[y]
                   PROVE  x = y
        OBVIOUS
      <4>2. home[x] # -1 /\ home[x] = home[y]
        BY <2>1, <2>a, <2>t, <4>1
      <4>3. dep[x] = dep[y]
        <5>1. dep[x] \in Nat /\ dep[t] \in Nat /\ dep[y] \in Nat
          BY <2>a, <2>t
        <5> QED
          BY <2>1, <4>2, <5>1
      <4> QED
        BY <4>2, <4>3 DEF Inv, Chained
    <3>7. \A r \in Unlinked' \cup {Size} : \E x \in Nodes : home2[x] = r /\ next'[x].index = -1
      <4> SUFFICES ASSUME NEW r \in Unlinked' \cup {Size}
                   PROVE  \E x \in Nodes : home2[x] = r /\ next'[x].index = -1
        OBVIOUS
      <4>0. r \in Unlinked \cup {Size} /\ r # n
        BY <2>8, <2>a, <2>t
      <4>1. PICK x \in Nodes : home[x] = r /\ next[x].index = -1
        BY <4>0 DEF Inv, Chained
      <4>2. CASE x # t
        BY <2>1, <2>4, <4>0, <4>1, <4>2
      <4>3. CASE x = t
        <5>1. PICK y \in Nodes : home[y] = n /\ next[y].index = -1
          BY <2>a DEF Inv, Chained
        <5>2. y # t
          BY <2>b, <5>1
        <5> QED
          BY <2>1, <2>4, <2>b, <4>1, <4>3, <5>1, <5>2
      <4> QED
        BY <4>2, <4>3
    <3> QED
      BY <2>1, <2>2, <2>3, <3>1, <3>2, <3>3, <3>4, <3>5, <3>6, <3>7 DEF Chained
  <2>13. HomesHeld(home2)'
    <3>1. \A x \in Nodes : home2[x] # -1 => ~ free[x]
      BY <2>1, <2>a, <2>t DEF Inv, HomesHeld
    <3>2. \A q \in Producers : pc'[q] = "fill" => home2[loc[q].node] = -1
      <4> SUFFICES ASSUME NEW q \in Producers, pc'[q] = "fill" PROVE home2[loc[q].node] = -1
        OBVIOUS
      <4>0. pc[q] = "fill"
        BY <2>2, <2>6
      <4>1. home[loc[q].node] = -1 /\ loc[q].node \in Nodes
        BY <4>0, ThreadFacts DEF Inv, HomesHeld, NodesHeld, Holding, Holds
      <4> QED
        BY <2>1, <2>a, <2>t, <4>1
    <3>3. \A d \in Consumers : pc'[d] = "free" => home2[loc[d].head.index] = -1
      <4> SUFFICES ASSUME NEW d \in Consumers, pc'[d] = "free" PROVE home2[loc[d].head.index] = -1
        OBVIOUS
      <4>1. home[loc[d].head.index] = -1 /\ loc[d].head.index \in Nodes
        BY <2>6 DEF Inv, HomesHeld, NodesHeld, Holding, Holds
      <4> QED
        BY <2>1, <2>a, <2>t, <4>1
    <3>4. home2[qtail.index] = Size
      <4>1. qtail.index \in Nodes /\ home[qtail.index] = Size
        BY <1>0 DEF TypeOK, NodePointer, Inv, HomesHeld
      <4> QED
        BY <2>1, <2>a, <2>t, <4>1
    <3> QED
      BY <2>2, <2>3, <3>1, <3>2, <3>3, <3>4 DEF HomesHeld
  <2>14. Ordered(home2, ts)'
    <3>1. \A x \in Nodes : home2[x] \in Nodes => ts[x] <= ts[home2[x]]
      <4> SUFFICES ASSUME NEW x \in Nodes, home2[x] \in Nodes PROVE ts[x] <= ts[home2[x]]
        OBVIOUS
      <4>1. CASE home[x] # n
        BY <2>1, <4>1 DEF Inv, Ordered
      <4>2. CASE home[x] = n
        <5>1. g \in Nodes /\ home2[x] = g
          BY <2>1, <4>2
        <5>2. ts[x] <= ts[n]
          BY <2>a, <4>2 DEF Inv, Ordered
        <5>3. ts[n] < ts[t]
          BY <1>0, <2>m, <5>1 DEF TailView
        <5>4. ts[t] <= ts[g]
          BY <2>a, <2>b, <5>1 DEF Inv, Ordered
        <5>5. ts[x] \in Nat /\ ts[n] \in Nat /\ ts[t] \in Nat /\ ts[g] \in Nat
          BY <2>t, <2>a, <5>1
        <5> QED
          BY <5>1, <5>2, <5>3, <5>4, <5>5
      <4> QED
        BY <4>1, <4>2
    <3>2. ASSUME NEW q \in Viewing' PROVE TailView(home2, ts, q)'
      <4> DEFINE w == loc[q].tail.index
      <4>1. TailView(home, ts, q) /\ w \in Nodes
        BY <2>7 DEF Inv, Ordered, TailView
      <4>2. home2[w] # -1 \/ next'[w].index # -1
        BY <2>1, <2>4, <2>a, <2>b, <2>t, <4>1 DEF TailView
      <4>3. home2[w] \in Nodes => ts[loc[q].node] < ts[w]
        BY <2>1, <2>a, <4>1 DEF TailView
      <4> QED
        BY <2>2, <4>1, <4>2, <4>3 DEF TailView
    <3>3. \E now \in Nat : \A x \in Nodes : ts[x] <= now
      BY DEF Inv, Ordered
    <3> QED
      BY <2>t, <3>1, <3>2, <3>3 DEF Ordered
  <2>15. Items(home2)'
    <3>1. Full(home2)' = Full(home)
      BY <2>1, <2>3, <2>a, <2>b, <2>t DEF Full
    <3>2. \A i : InFull(home2, i)' <=> InFull(home, i)
      BY <2>3, <3>1 DEF InFull
    <3>3. InFull(home, <<p, calls[p]>>)
      <4>1. n \in Full(home)
        <5>1. home[qhead.index] = Size
          BY DEF Inv, Chained
        <5> QED
          BY <2>a, <2>t, <5>1 DEF Full
      <4>2. value[n] = <<p, calls[p]>>
        BY <1>0, <2>m DEF Inv, Items
      <4> QED
        BY <4>1, <4>2 DEF InFull
    <3>4. \A q \in Producers : /\ pc'[q] \in {"scan", "rescan", "fill"} => pc[q] \in {"scan", "rescan", "fill"}
                               /\ pc'[q] # "idle" => pc[q] # "idle"
                               /\ pc'[q] = "swing" => pc[q] = "swing" \/ q = p
      BY <1>0, <2>2, <2>6
    <3>5. \A q \in Producers : pc'[q] = "swing" => taken[<<q, calls[q]>>] = 1 \/ InFull(home, <<q, calls[q]>>)
      BY <3>3, <3>4 DEF Inv, Items
    <3>6. \A q \in Producers : pc'[q] \in {"scan", "rescan", "fill"} =>
            taken[<<q, calls[q]>>] = 0 /\ ~ InFull(home, <<q, calls[q]>>)
      BY <3>4 DEF Inv, Items
    <3>7. \A q \in Producers : pc'[q] # "idle" => calls[q] >= 1
      BY <3>4 DEF Inv, Items
    <3>8. \A q \in Linking' : value[loc[q].node] = <<q, calls[q]>>
      BY <2>7 DEF Inv, Items
    <3>9. /\ \A x \in Full(home) : value[x] \in Item /\ taken[value[x]] = 0 /\ value[x][2] <= calls[value[x][1]]
          /\ \A x, y \in Full(home) : value[x] = value[y] => x = y
          /\ \A i \in Item : taken[i] <= 1 /\ (taken[i] = 1 => i[2] <= calls[i[1]])
          /\ \A i \in accepted : taken[i] = 1 \/ InFull(home, i)
      BY DEF Inv, Items
    <3> HIDE DEF Full, InFull
    <3> QED
      BY <2>2, <2>3, <3>1, <3>2, <3>5, <3>6, <3>7, <3>8, <3>9 DEF Items
  <2>16. Inv(home2, dep2, ts)'
    BY <2>5, <2>10, <2>11, <2>12, <2>13, <2>14, <2>15 DEF Inv
  <2> QED
    BY <2>16 DEF QueueInv
<1> QED
  BY <1>f, <1>s

-----------------------------------------------------------------------------
(* The invariant holds.                                                    *)

LEMMA InitInv ==
  ASSUME Init
  PROVE  QueueInv
<1>m. PICK home, dep, ts :
        /\ home = [x \in Nodes |-> IF x = 0 THEN Size ELSE -1]
        /\ dep = [x \in Nodes |-> 0] /\ ts = [x \in Nodes |-> 0]
  OBVIOUS
<1>0. /\ Size \in Nat /\ Size # -1 /\ Size \notin Nodes /\ 0 \in Nodes /\ -1 \notin Nodes
      /\ \A t \in Producers \cup Consumers : pc[t] = "idle" /\ loc[t] = NoLocals
      /\ Producers \cap Consumers = {}
  BY HQueueAssumption DEF Init, Nodes, Threads
<1>1. Linking = {} /\ Viewing = {} /\ Unlinked = {} /\ Holding = {}
  BY <1>0 DEF Linking, Viewing, Unlinked, Holding
<1>p. /\ qhead.index = 0 /\ qtail.index = 0 /\ \A x \in Nodes : next[x].index = -1
      /\ qhead \in NodePointer /\ qtail \in NodePointer
  BY <1>0 DEF Init, Pointer, Nil, NodePointer
<1>2. TypeOK
  <2>1. /\ free_index \in 1 .. Size /\ next \in [Nodes -> AnyPointer]
        /\ value \in [Nodes -> Item \cup {NoItem}] /\ free \in [Nodes -> BOOLEAN]
    BY HQueueAssumption, LocalsFacts DEF Init
  <2>2. /\ pc \in [Threads -> ProducerPc \cup ConsumerPc] /\ loc \in [Threads -> Locals]
        /\ \A p \in Producers : pc[p] \in ProducerPc
        /\ \A c \in Consumers : pc[c] \in ConsumerPc
    BY <1>0, LocalsFacts DEF Init, ProducerPc, ConsumerPc
  <2>3. /\ calls \in [Producers -> 0 .. MaxItems] /\ accepted \subseteq Item /\ taken \in [Item -> Nat]
    BY HQueueAssumption DEF Init
  <2> QED
    BY <1>p, <2>1, <2>2, <2>3 DEF TypeOK
<1>3. NodesHeld
  BY <1>0, <1>1 DEF NodesHeld
<1>4. Views
  BY <1>0 DEF Views, ProducerView, ConsumerView
<1>5. Chained(home, dep)
  BY <1>0, <1>1, <1>p, <1>m DEF Chained
<1>6. HomesHeld(home)
  BY <1>0, <1>p, <1>m DEF HomesHeld, Init
<1>7. Ordered(home, ts)
  BY <1>0, <1>1, <1>m DEF Ordered
<1>8. Items(home)
  <2>1. Full(home) = {}
    BY <1>0, <1>p, <1>m DEF Full
  <2> HIDE DEF Full
  <2> QED
    BY <1>0, <1>1, <2>1 DEF Items, InFull, Init
<1> QED
  BY <1>2, <1>3, <1>4, <1>5, <1>6, <1>7, <1>8 DEF Inv, QueueInv

LEMMA NextInv ==
  ASSUME QueueInv, [Next]_vars
  PROVE  QueueInv'
<1>1. PICK home, dep, ts : Inv(home, dep, ts)
  BY DEF QueueInv
<1>2. CASE UNCHANGED vars
  <2>0. UNCHANGED <<qhead, qtail, free_index, next, value, free, pc, loc, calls, accepted, taken>>
    BY <1>2 DEF vars
  <2>a. /\ Linking' = Linking /\ Viewing' = Viewing /\ Unlinked' = Unlinked /\ Holding' = Holding
        /\ Full(home)' = Full(home)
    BY <2>0 DEF Linking, Viewing, Unlinked, Holding, Full
  <2>b. TypeOK' /\ NodesHeld'
    BY <1>1, <2>0, <2>a DEF Inv, TypeOK, NodesHeld, Holds
  <2>c. Views'
    BY <1>1, <2>0 DEF Inv, Views, ProducerView, ConsumerView
  <2>d. Chained(home, dep)' /\ HomesHeld(home)'
    BY <1>1, <2>0, <2>a DEF Inv, Chained, HomesHeld
  <2>e. Ordered(home, ts)'
    BY <1>1, <2>0, <2>a DEF Inv, Ordered, TailView
  <2>f. Items(home)'
    BY <1>1, <2>0, <2>a DEF Inv, Items, InFull
  <2>1. Inv(home, dep, ts)'
    BY <2>b, <2>c, <2>d, <2>e, <2>f DEF Inv
  <2> QED
    BY <2>1 DEF QueueInv
<1>3. ASSUME NEW p \in Producers, Enqueue(p) \/ ProducerStep(p) PROVE QueueInv'
  <2>1. CASE Enqueue(p) \/ TakeNode(p) \/ SkipNode(p) \/ Rescan(p) \/ EnqueueFull(p)
    BY <1>1, <2>1, EnqueueInv, TakeNodeInv, SkipNodeInv, RescanInv, EnqueueFullInv DEF QueueInv
  <2>2. CASE FillNode(p)
    BY <1>1, <2>2, FillNodeInv
  <2>3. CASE ReadTail(p) \/ ReadTailNext(p) \/ CheckTail(p) \/ HelpTail(p) \/ EnqueueDone(p)
    BY <1>1, <2>3, ReadTailInv, ReadTailNextInv, CheckTailInv, HelpTailInv, EnqueueDoneInv DEF QueueInv
  <2>4. CASE Link(p)
    BY <1>1, <2>4, LinkInv
  <2> QED
    BY <1>3, <2>1, <2>2, <2>3, <2>4 DEF ProducerStep
<1>4. ASSUME NEW c \in Consumers, ConsumerStep(c) PROVE QueueInv'
  <2>1. CASE Dequeue(c) \/ DequeueReadTail(c) \/ ReadHeadNext(c) \/ CheckHead(c)
    BY <1>1, <2>1, DequeueInv, DequeueReadTailInv, ReadHeadNextInv, CheckHeadInv DEF QueueInv
  <2>2. CASE DequeueHelps(c) \/ FreeHead(c)
    BY <1>1, <2>2, DequeueHelpsInv, FreeHeadInv DEF QueueInv
  <2>3. CASE Take(c)
    BY <1>1, <2>3, TakeInv
  <2> QED
    BY <1>4, <2>1, <2>2, <2>3 DEF ConsumerStep
<1> QED
  BY <1>2, <1>3, <1>4 DEF Next

-----------------------------------------------------------------------------
(* What it says of the lists.                                              *)

\* The nodes reached from the first node of a chain are those at home in it.
LEMMA ChainIs ==
  ASSUME NEW home, NEW dep, TypeOK, Chained(home, dep), NEW n \in Nodes, home[n] # -1, dep[n] = 0
  PROVE  Chain(n) = {x \in Nodes : home[x] = home[n]}
<1> DEFINE C == {x \in Nodes : home[x] = home[n]}
<1>0. dep \in [Nodes -> Nat] /\ -1 \notin Nodes
  BY HQueueAssumption DEF Chained, Nodes
<1>1. Chain(n) \subseteq C
  <2>1. C \in SUBSET Nodes /\ n \in C
    OBVIOUS
  <2>2. \A k \in C : next[k].index \in C \cup {-1}
    BY DEF TypeOK, AnyPointer, Chained
  <2> HIDE DEF C
  <2> QED
    BY <2>1, <2>2 DEF Chain
<1>2. ASSUME NEW x \in C, x \notin Chain(n) PROVE FALSE
  <2>1. PICK S \in SUBSET Nodes : n \in S /\ (\A k \in S : next[k].index \in S \cup {-1}) /\ x \notin S
    BY <1>2 DEF Chain
  <2> DEFINE Out == {y \in C : y \notin S}
             T == {dep[y] : y \in Out}
  <2>2. T \subseteq Nat /\ T # {}
    BY <1>0, <1>2, <2>1
  <2>3. PICK m \in T : \A k \in T : m <= k
    <3> HIDE DEF T
    <3> QED
      BY <2>2, LeastNat
  <2>4. PICK y \in Nodes : home[y] = home[n] /\ y \notin S /\ dep[y] = m
    BY <2>3
  <2>5. dep[y] # 0
    BY <2>1, <2>4 DEF Chained
  <2>6. PICK z \in Nodes : home[z] = home[n] /\ next[z].index = y
    BY <2>4, <2>5 DEF Chained
  <2>7. dep[y] = dep[z] + 1
    BY <1>0, <2>4, <2>6 DEF Chained
  <2>8. z \notin S
    BY <1>0, <2>1, <2>4, <2>6
  <2>9. dep[z] \in T
    BY <2>6, <2>8
  <2> QED
    BY <1>0, <2>3, <2>4, <2>6, <2>7, <2>9
<1> QED
  BY <1>1, <1>2 DEF Chain

LEMMA Chains ==
  ASSUME NEW home, NEW dep, NEW ts, Inv(home, dep, ts)
  PROVE  /\ Chain(qhead.index) = {x \in Nodes : home[x] = Size}
         /\ \A u \in Unlinked : u \in Nodes /\ home[u] = u /\ Chain(u) = {x \in Nodes : home[x] = u}
         /\ Size \notin Nodes /\ Size # -1 /\ -1 \notin Nodes
<1>1. Size \notin Nodes /\ Size # -1 /\ -1 \notin Nodes
  BY HQueueAssumption DEF Nodes
<1>2. Chain(qhead.index) = {x \in Nodes : home[x] = Size}
  <2>1. qhead.index \in Nodes /\ home[qhead.index] = Size /\ dep[qhead.index] = 0
    BY DEF Inv, TypeOK, NodePointer, Chained
  <2>2. Chain(qhead.index) = {x \in Nodes : home[x] = home[qhead.index]}
    BY <1>1, <2>1, ChainIs DEF Inv
  <2> QED
    BY <2>1, <2>2
<1>3. ASSUME NEW u \in Unlinked PROVE u \in Nodes /\ home[u] = u /\ Chain(u) = {x \in Nodes : home[x] = u}
  <2>1. PICK p \in Linking : u = loc[p].node
    BY DEF Unlinked
  <2>2. p \in Holding /\ Holds(p) = loc[p].node
    BY ThreadFacts DEF Inv, Holding, Holds, Linking
  <2>3. u \in Nodes /\ home[u] = u /\ dep[u] = 0
    BY <2>1, <2>2 DEF Inv, NodesHeld, Chained
  <2>4. Chain(u) = {x \in Nodes : home[x] = home[u]}
    BY <1>1, <2>3, ChainIs DEF Inv
  <2> QED
    BY <2>3, <2>4
<1> QED
  BY <1>1, <1>2, <1>3

LEMMA InvTailInQueue ==
  ASSUME QueueInv
  PROVE  TailInQueue
<1>1. PICK home, dep, ts : Inv(home, dep, ts)
  BY DEF QueueInv
<1>2. qtail.index \in Nodes /\ home[qtail.index] = Size
  BY <1>1 DEF Inv, TypeOK, NodePointer, HomesHeld
<1> QED
  BY <1>1, <1>2, Chains DEF TailInQueue

LEMMA InvNoFreeNodeInUse ==
  ASSUME QueueInv
  PROVE  NoFreeNodeInUse
<1>1. PICK home, dep, ts : Inv(home, dep, ts)
  BY DEF QueueInv
<1>2. /\ Chain(qhead.index) = {x \in Nodes : home[x] = Size}
      /\ \A u \in Unlinked : u \in Nodes /\ home[u] = u
      /\ Size \notin Nodes /\ Size # -1 /\ -1 \notin Nodes
  BY <1>1, Chains
<1>3. \A n \in Chain(qhead.index) \cup Unlinked : ~ free[n]
  BY <1>1, <1>2 DEF Inv, HomesHeld
<1>4. \E n \in Chain(qhead.index) : next[n].index = -1
  BY <1>1, <1>2 DEF Inv, Chained
<1>5. \A p \in Linking : loc[p].node \notin Chain(qhead.index)
  BY <1>2 DEF Unlinked
<1>6. \A p, q \in Linking : loc[p].node = loc[q].node => p = q
  <2>1. \A p \in Linking : p \in Holding /\ Holds(p) = loc[p].node
    BY <1>1, ThreadFacts DEF Inv, Holding, Holds, Linking
  <2> QED
    BY <1>1, <2>1 DEF Inv, NodesHeld
<1> QED
  BY <1>3, <1>4, <1>5, <1>6 DEF NoFreeNodeInUse

LEMMA InvExactlyOnce ==
  ASSUME QueueInv
  PROVE  ExactlyOnce
<1>1. PICK home, dep, ts : Inv(home, dep, ts)
  BY DEF QueueInv
<1>2. /\ Chain(qhead.index) = {x \in Nodes : home[x] = Size}
      /\ \A u \in Unlinked : u \in Nodes /\ home[u] = u /\ Chain(u) = {x \in Nodes : home[x] = u}
      /\ Size \notin Nodes /\ Size # -1 /\ -1 \notin Nodes
  BY <1>1, Chains
<1>3. UNION {Chain(u) : u \in Unlinked} = {x \in Nodes : home[x] \in Unlinked}
  BY <1>2
<1>4. Full(home) = (Chain(qhead.index) \ {qhead.index}) \cup UNION {Chain(u) : u \in Unlinked}
  <2>1. \A x \in Nodes : home[x] \in {-1, Size} \cup Unlinked
    BY <1>1 DEF Inv, Chained
  <2>2. home[qhead.index] = Size /\ Size \notin Unlinked /\ -1 \notin Unlinked
    BY <1>1, <1>2 DEF Inv, Chained
  <2> QED
    BY <1>2, <1>3, <2>1, <2>2 DEF Full
<1>5. \A i : i \in Held <=> InFull(home, i)
  BY <1>4 DEF Held, InFull
<1>6. \A i \in Item : /\ taken[i] <= 1
                      /\ InFull(home, i) => taken[i] = 0
                      /\ i \in accepted => taken[i] = 1 \/ InFull(home, i)
  BY <1>1 DEF Inv, Items, InFull
<1>7. \A i \in Item : i \in accepted => (taken[i] = 1) # (i \in Held)
  <2> SUFFICES ASSUME NEW i \in Item, i \in accepted PROVE (taken[i] = 1) # (i \in Held)
    OBVIOUS
  <2>1. (taken[i] = 1) <=> ~ (i \in Held)
    BY <1>5, <1>6
  <2> QED
    BY <2>1
<1> QED
  BY <1>6, <1>7 DEF ExactlyOnce

\* The inductive invariant of Enqueue and Dequeue: every node has its place, every
\* view is current or visibly old, and every item is in one place.
THEOREM QueueInvariant == Spec => []QueueInv
<1>1. Init => QueueInv
  BY InitInv
<1>2. QueueInv /\ [Next]_vars => QueueInv'
  BY NextInv
<1> QED
  BY <1>1, <1>2, PTL DEF Spec

\* Every variable has its type: in particular no CAS on qhead or qtail writes -1.
THEOREM QueueTypeCorrect == Spec => []TypeOK
<1>1. QueueInv => TypeOK
  BY DEF QueueInv, Inv
<1> QED
  BY <1>1, QueueInvariant, PTL

\* An item whose Enqueue returned true is returned by one Dequeue or still in the
\* queue, never both, and never returned twice.
THEOREM QueueExactlyOnce == Spec => []ExactlyOnce
<1>1. QueueInv => ExactlyOnce
  BY InvExactlyOnce
<1> QED
  BY <1>1, QueueInvariant, PTL

\* No node of the queue, nor one that an Enqueue has filled and not linked, is free to
\* be taken by another Enqueue, and the list from qhead ends.
THEOREM QueueNoFreeNodeInUse == Spec => []NoFreeNodeInUse
<1>1. QueueInv => NoFreeNodeInUse
  BY InvNoFreeNodeInUse
<1> QED
  BY <1>1, QueueInvariant, PTL

\* qtail never names a node that a Dequeue has given back.
THEOREM QueueTailInQueue == Spec => []TailInQueue
<1>1. QueueInv => TailInQueue
  BY InvTailInQueue
<1> QED
  BY <1>1, QueueInvariant, PTL
=============================================================================
