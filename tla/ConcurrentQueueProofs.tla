----------------------- MODULE ConcurrentQueueProofs ------------------------
(***************************************************************************)
(* Proofs about ConcurrentQueue, for any producers, consumers and nodes.   *)
(***************************************************************************)
EXTENDS ConcurrentQueue, FiniteSetTheorems, WellFoundedInduction, SequenceTheorems, TLAPS

Values == (Producers \X Nat) \cup {Null}

\* Every variable has its type.
QueueTypeOK ==
  /\ head \in Nodes /\ tail \in Nodes
  /\ next \in [Nodes -> Nodes \cup {Null}]
  /\ data \in [Nodes -> Values]
  /\ alive \in SUBSET Nodes
  /\ waiters \in SUBSET Consumers
  /\ ppc \in [Producers -> {"idle", "lock", "link", "set_tail", "signal"}]
  /\ pnode \in [Producers -> Nodes \cup {Null}]
  /\ nput \in [Producers -> Nat]
  /\ cpc \in [Consumers -> {"idle", "check", "try", "wait", "sleep", "relock", "free"}]
  /\ dummy \in [Consumers -> Nodes \cup {Null}]
  /\ enq \in Seq(Values) /\ deq \in Seq(Values)

Owned == {p \in Producers : ppc[p] \in {"lock", "link"}}
Freed == {c \in Consumers : cpc[c] = "free"}

\* Who holds tail_mutex and who sleeps; nobody is in the queue once it is
\* destroyed.
ThreadsExact ==
  /\ \A p \in Producers : ppc[p] \in {"link", "set_tail"} => tail_mutex = p
  /\ \A c \in waiters : cpc[c] = "sleep"
  /\ destroyed => /\ \A p \in Producers : ppc[p] = "idle"
                  /\ \A c \in Consumers : cpc[c] = "idle"

\* ch are the nodes linked from head.
Linked(ch, k) ==
  /\ k \in Nat /\ ch \in [0 .. k -> Nodes]
  /\ ch[0] = head
  /\ \A i \in 0 .. k : next[ch[i]] = IF i = k THEN Null ELSE ch[i + 1]
  /\ \A i, j \in 0 .. k : ch[i] = ch[j] => i = j

\* The tail is the last node, but for the producer that has linked another.
TailExact(ch, k) ==
  /\ (\A p \in Producers : ppc[p] # "set_tail") => tail = ch[k]
  /\ \A p \in Producers : ppc[p] = "set_tail" => pnode[p] = ch[k]

\* The nodes after the dummy hold what was linked and not yet taken.
ItemsExact(ch, k) ==
  /\ Len(enq) = Len(deq) + k
  /\ \A i \in 1 .. Len(deq) : enq[i] = deq[i]
  /\ \A i \in 1 .. k : enq[Len(deq) + i] = data[ch[i]]

\* A node allocated is linked, or one producer's, or one consumer's.
OwnersExact(ch, k) ==
  /\ ~ destroyed => \A i \in 0 .. k : ch[i] \in alive
  /\ \A p \in Owned : /\ pnode[p] \in alive /\ next[pnode[p]] = Null
                      /\ \A i \in 0 .. k : ch[i] # pnode[p]
                      /\ \A q \in Owned : pnode[p] = pnode[q] => p = q
  /\ \A c \in Freed : /\ dummy[c] \in alive
                      /\ \A i \in 0 .. k : ch[i] # dummy[c]
                      /\ \A p \in Owned : pnode[p] # dummy[c]
                      /\ \A d \in Freed : dummy[c] = dummy[d] => c = d
  /\ \A n \in alive : \/ ~ destroyed /\ \E i \in 0 .. k : n = ch[i]
                      \/ \E p \in Owned : n = pnode[p]
                      \/ \E c \in Freed : n = dummy[c]

ListExact(ch, k) ==
  Linked(ch, k) /\ TailExact(ch, k) /\ ItemsExact(ch, k) /\ OwnersExact(ch, k)

QueueInv ==
  /\ QueueTypeOK
  /\ ThreadsExact
  /\ \E k \in Nat : \E ch \in [0 .. k -> Nodes] : ListExact(ch, k)

-----------------------------------------------------------------------------
(* What NodeAt, Chain and Contents are, by induction along the chain.      *)

\* A set of natural numbers with a member has a least one.
LEMMA LeastNat ==
  ASSUME NEW T, T \subseteq Nat, T # {}
  PROVE  \E x \in T : \A y \in T : x <= y
<1> DEFINE R == OpToRel(<, Nat)
<1>1. IsWellFoundedOn(R, Nat)
  BY NatLessThanWellFounded
<1>2. \A x, y \in Nat : y < x => <<y, x>> \in R
  BY DEF OpToRel
<1> HIDE DEF R
<1>3. PICK x \in T : \A y \in T : ~ (<<y, x>> \in R)
  BY <1>1, WFMin
<1>4. ASSUME NEW y \in T PROVE x <= y
  <2>1. x \in Nat /\ y \in Nat
    OBVIOUS
  <2>2. ~ (y < x)
    BY <1>2, <1>3, <2>1
  <2> QED
    BY <2>1, <2>2
<1> QED
  BY <1>4

\* The chain of distinct nodes is shorter than the set of all nodes.
LEMMA ChainFits ==
  ASSUME NEW k, NEW ch, Linked(ch, k)
  PROVE  /\ Cardinality(Nodes) \in Nat
         /\ k < Cardinality(Nodes)
<1>1. IsFiniteSet(Nodes) /\ Cardinality(Nodes) \in Nat
  BY QueueAssumption, FS_CardinalityType
<1>2. k \in Nat /\ ch \in [0 .. k -> Nodes]
  BY DEF Linked
<1>3. \A i, j \in 0 .. k : ch[i] = ch[j] => i = j
  BY DEF Linked
<1>4. IsFiniteSet(0 .. k) /\ Cardinality(0 .. k) = k + 1
  BY <1>2, FS_Interval
<1>5. ~ (Cardinality(Nodes) < Cardinality(0 .. k))
  BY <1>1, <1>2, <1>3, <1>4, FS_PigeonHole
<1> QED
  BY <1>1, <1>2, <1>4, <1>5

\* NodeAt satisfies its own definition, since some function does.
LEMMA NodeAtUnfold ==
  ASSUME QueueTypeOK, NEW k, NEW ch, Linked(ch, k)
  PROVE  NodeAt = [i \in 0 .. Cardinality(Nodes) |->
                     IF i = 0 THEN head
                     ELSE IF NodeAt[i - 1] = Null THEN Null ELSE next[NodeAt[i - 1]]]
<1> DEFINE N == Cardinality(Nodes)
           Def(f) == [i \in 0 .. N |->
                        IF i = 0 THEN head
                        ELSE IF f[i - 1] = Null THEN Null ELSE next[f[i - 1]]]
           g == [i \in 0 .. N |-> IF i <= k THEN ch[i] ELSE Null]
<1>1. N \in Nat /\ k \in Nat /\ k < N
  BY ChainFits DEF Linked
<1>2. NodeAt = CHOOSE f : f = Def(f)
  BY DEF NodeAt
<1> HIDE DEF N
<1>3. ASSUME NEW i \in 0 .. N
      PROVE  g[i] = IF i = 0 THEN head
                    ELSE IF g[i - 1] = Null THEN Null ELSE next[g[i - 1]]
  <2>1. CASE i = 0
    BY <2>1, <1>1 DEF Linked
  <2>2. CASE i # 0 /\ i <= k
    <3>1. i - 1 \in 0 .. k /\ i - 1 \in 0 .. N /\ i - 1 # k /\ (i - 1) + 1 = i
      BY <1>1, <2>2
    <3>2. g[i - 1] = ch[i - 1] /\ g[i] = ch[i]
      BY <3>1, <2>2
    <3>3. next[ch[i - 1]] = ch[i] /\ ch[i - 1] \in Nodes
      BY <3>1 DEF Linked
    <3> HIDE DEF g
    <3> QED
      BY <3>2, <3>3, <2>2, QueueAssumption
  <2>3. CASE i # 0 /\ ~ (i <= k)
    <3>1. i - 1 \in 0 .. N /\ (i - 1 = k \/ ~ (i - 1 <= k))
      BY <1>1, <2>3
    <3>2. g[i] = Null
      BY <2>3
    <3>3. CASE i - 1 = k
      <4>1. g[i - 1] = ch[k]
        BY <3>1, <3>3, <1>1
      <4>2. next[ch[k]] = Null
        BY <1>1 DEF Linked
      <4> HIDE DEF g
      <4> QED
        BY <4>1, <4>2, <3>2, <2>3
    <3>4. CASE ~ (i - 1 <= k)
      <4>1. g[i - 1] = Null
        BY <3>1, <3>4
      <4> HIDE DEF g
      <4> QED
        BY <4>1, <3>2, <2>3
    <3> QED
      BY <3>1, <3>3, <3>4
  <2> QED
    BY <2>1, <2>2, <2>3
<1>4. g = Def(g)
  BY <1>3
<1> HIDE DEF g
<1>5. \E f : f = Def(f)
  BY <1>4
<1> HIDE DEF Def
<1>6. NodeAt = Def(NodeAt)
  BY <1>2, <1>5
<1> QED
  BY <1>6 DEF Def, N

\* NodeAt walks the chain and stays at Null behind it.
LEMMA NodeAtIsChain ==
  ASSUME QueueTypeOK, NEW k, NEW ch, Linked(ch, k)
  PROVE  \A i \in 0 .. Cardinality(Nodes) :
           NodeAt[i] = IF i <= k THEN ch[i] ELSE Null
<1> DEFINE N == Cardinality(Nodes)
           T == {i \in 0 .. N : NodeAt[i] # IF i <= k THEN ch[i] ELSE Null}
<1>1. N \in Nat /\ k \in Nat /\ k < N
  BY ChainFits DEF Linked
<1>2. \A i \in 0 .. N :
        NodeAt[i] = IF i = 0 THEN head
                    ELSE IF NodeAt[i - 1] = Null THEN Null ELSE next[NodeAt[i - 1]]
  BY NodeAtUnfold
<1> HIDE DEF N
<1>3. SUFFICES ASSUME T # {} PROVE FALSE
  BY DEF N
<1>4. T \subseteq Nat
  BY <1>1
<1>5. PICK x \in T : \A y \in T : x <= y
  <2> HIDE DEF T
  <2> QED
    BY <1>3, <1>4, LeastNat
<1>6. x \in 0 .. N /\ NodeAt[x] # IF x <= k THEN ch[x] ELSE Null
  OBVIOUS
<1>7. x # 0
  BY <1>1, <1>2, <1>6 DEF Linked
<1>8. x - 1 \in 0 .. N /\ (x - 1) + 1 = x
  BY <1>1, <1>6, <1>7
<1>9. NodeAt[x - 1] = IF x - 1 <= k THEN ch[x - 1] ELSE Null
  <2>1. ~ (x <= x - 1)
    BY <1>6
  <2> QED
    BY <2>1, <1>5, <1>8
<1>10. NodeAt[x] = IF NodeAt[x - 1] = Null THEN Null ELSE next[NodeAt[x - 1]]
  BY <1>2, <1>6, <1>7
<1> HIDE DEF T
<1>11. CASE x - 1 <= k
  <2>1. x - 1 \in 0 .. k
    BY <1>1, <1>6, <1>8, <1>11
  <2>2. ch[x - 1] \in Nodes /\ next[ch[x - 1]] = IF x - 1 = k THEN Null ELSE ch[x]
    BY <2>1, <1>8 DEF Linked
  <2>3. NodeAt[x] = IF x - 1 = k THEN Null ELSE ch[x]
    BY <2>2, <1>9, <1>10, <1>11, QueueAssumption
  <2>4. (x <= k) <=> ~ (x - 1 = k)
    BY <1>1, <1>6, <1>11
  <2> QED
    BY <2>3, <2>4, <1>6
<1>12. CASE ~ (x - 1 <= k)
  <2>1. ~ (x <= k)
    BY <1>1, <1>6, <1>12
  <2> QED
    BY <2>1, <1>6, <1>9, <1>10, <1>12
<1> QED
  BY <1>11, <1>12

\* What the operators of the model say when ch is the chain.
LEMMA ChainIs ==
  ASSUME QueueTypeOK, NEW k, NEW ch, Linked(ch, k)
  PROVE  /\ ChainLen = k
         /\ Chain = {ch[i] : i \in 0 .. k}
         /\ Contents = [i \in 1 .. k |-> data[ch[i]]]
<1> DEFINE N == Cardinality(Nodes)
<1>1. N \in Nat /\ k \in Nat /\ k < N
  BY ChainFits DEF Linked
<1>2. \A i \in 0 .. N : NodeAt[i] = IF i <= k THEN ch[i] ELSE Null
  BY NodeAtIsChain
<1>3. ChainLen = Max({i \in 0 .. N : NodeAt[i] # Null})
  BY DEF ChainLen
<1> HIDE DEF N
<1>4. \A i \in 0 .. k : ch[i] \in Nodes /\ ch[i] # Null
  BY QueueAssumption DEF Linked
<1>5. \A i \in 0 .. k : i \in 0 .. N /\ NodeAt[i] = ch[i]
  BY <1>1, <1>2
<1>6. {i \in 0 .. N : NodeAt[i] # Null} = 0 .. k
  <2>1. ASSUME NEW i \in 0 .. N, NodeAt[i] # Null PROVE i \in 0 .. k
    BY <1>1, <1>2, <2>1
  <2>2. ASSUME NEW i \in 0 .. k PROVE i \in 0 .. N /\ NodeAt[i] # Null
    BY <1>4, <1>5
  <2> QED
    BY <2>1, <2>2
<1>7. Max(0 .. k) = k
  <2>1. k \in 0 .. k /\ \A y \in 0 .. k : k >= y
    BY <1>1
  <2>2. \A x \in 0 .. k : (\A y \in 0 .. k : x >= y) => x = k
    BY <1>1
  <2> QED
    BY <2>1, <2>2 DEF Max
<1>8. ChainLen = k
  BY <1>3, <1>6, <1>7
<1>9. Chain = {ch[i] : i \in 0 .. k}
  BY <1>5, <1>8 DEF Chain
<1>10. Contents = [i \in 1 .. k |-> data[ch[i]]]
  <2>1. \A i \in 1 .. k : NodeAt[i] = ch[i]
    BY <1>1, <1>5
  <2> QED
    BY <2>1, <1>8 DEF Contents
<1> QED
  BY <1>8, <1>9, <1>10
-----------------------------------------------------------------------------
(* The steps.                                                              *)

\* concurrent_queue_init makes the dummy node the whole chain.
LEMMA InitQueueInv ==
  ASSUME Init
  PROVE  QueueInv
<1>1. PICK d \in Nodes : /\ head = d /\ tail = d
                         /\ alive = {d}
  BY DEF Init
<1>2. /\ next = [n \in Nodes |-> Null]
      /\ data = [n \in Nodes |-> Null]
      /\ waiters = {}
      /\ ppc = [p \in Producers |-> "idle"]
      /\ pnode = [p \in Producers |-> Null]
      /\ nput = [p \in Producers |-> 0]
      /\ cpc = [c \in Consumers |-> "idle"]
      /\ dummy = [c \in Consumers |-> Null]
      /\ destroyed = FALSE
      /\ enq = <<>> /\ deq = <<>>
  BY DEF Init
<1>3. QueueTypeOK
  BY <1>1, <1>2 DEF QueueTypeOK, Values
<1>4. ThreadsExact
  BY <1>2 DEF ThreadsExact
<1> DEFINE c0 == [i \in 0 .. 0 |-> d]
<1>5. c0 \in [0 .. 0 -> Nodes] /\ c0[0] = d /\ 0 .. 0 = {0}
  OBVIOUS
<1> HIDE DEF c0
<1>6. Linked(c0, 0)
  BY <1>1, <1>2, <1>5 DEF Linked
<1>7. TailExact(c0, 0)
  BY <1>1, <1>2, <1>5 DEF TailExact
<1>8. ItemsExact(c0, 0)
  <2>1. Len(enq) = 0 /\ Len(deq) = 0
    BY <1>2
  <2> QED
    BY <2>1 DEF ItemsExact
<1>9. OwnersExact(c0, 0)
  <2>1. Owned = {} /\ Freed = {}
    BY <1>2 DEF Owned, Freed
  <2> QED
    BY <2>1, <1>1, <1>2, <1>5 DEF OwnersExact
<1>10. ListExact(c0, 0)
  BY <1>6, <1>7, <1>8, <1>9 DEF ListExact
<1> QED
  BY <1>3, <1>4, <1>5, <1>10 DEF QueueInv

\* A step that only moves threads, none of them into or out of the ownership of
\* a node, keeps the chain.
LEMMA ControlStep ==
  ASSUME NEW k, NEW ch, ListExact(ch, k),
         UNCHANGED <<head, tail, next, data, alive, pnode, dummy, destroyed, enq, deq>>,
         Owned' = Owned, Freed' = Freed,
         \A p \in Producers : ppc'[p] = "set_tail" <=> ppc[p] = "set_tail"
  PROVE  ListExact(ch, k)'
<1>1. Linked(ch, k)'
  BY DEF ListExact, Linked
<1>2. TailExact(ch, k)'
  BY DEF ListExact, TailExact
<1>3. ItemsExact(ch, k)'
  BY DEF ListExact, ItemsExact
<1>4. OwnersExact(ch, k)'
  BY DEF ListExact, OwnersExact
<1> QED
  BY <1>1, <1>2, <1>3, <1>4 DEF ListExact

LEMMA EnqueueLockStep ==
  ASSUME QueueInv, NEW p \in Producers, EnqueueLock(p)
  PROVE  QueueInv'
<1>1. QueueTypeOK'
  BY DEF QueueInv, QueueTypeOK, EnqueueLock
<1>2. ThreadsExact'
  <2>1. \A q \in Producers : ppc[q] \notin {"link", "set_tail"}
    BY QueueAssumption DEF QueueInv, ThreadsExact, EnqueueLock
  <2> QED
    BY <2>1 DEF QueueInv, QueueTypeOK, ThreadsExact, EnqueueLock
<1>3. Owned' = Owned /\ Freed' = Freed
  BY DEF QueueInv, QueueTypeOK, EnqueueLock, Owned, Freed
<1>4. \A q \in Producers : ppc'[q] = "set_tail" <=> ppc[q] = "set_tail"
  BY DEF QueueInv, QueueTypeOK, EnqueueLock
<1>5. \A k, ch : ListExact(ch, k) => ListExact(ch, k)'
  BY <1>3, <1>4, ControlStep DEF EnqueueLock
<1> QED
  BY <1>1, <1>2, <1>5 DEF QueueInv

LEMMA EnqueueSignalStep ==
  ASSUME QueueInv, NEW p \in Producers, EnqueueSignal(p)
  PROVE  QueueInv'
<1>0. \/ UNCHANGED <<waiters, cpc>>
      \/ \E w \in waiters : /\ waiters' = waiters \ {w}
                            /\ cpc' = [cpc EXCEPT ![w] = "relock"]
  BY DEF EnqueueSignal
<1>1. QueueTypeOK'
  BY <1>0 DEF QueueInv, QueueTypeOK, EnqueueSignal
<1>2. ThreadsExact'
  BY <1>0 DEF QueueInv, QueueTypeOK, ThreadsExact, EnqueueSignal
<1>3. Owned' = Owned
  BY DEF QueueInv, QueueTypeOK, EnqueueSignal, Owned
<1>4. Freed' = Freed
  <2>1. \A c \in Consumers : cpc'[c] = "free" <=> cpc[c] = "free"
    BY <1>0 DEF QueueInv, QueueTypeOK, ThreadsExact
  <2> QED
    BY <2>1 DEF Freed
<1>5. \A q \in Producers : ppc'[q] = "set_tail" <=> ppc[q] = "set_tail"
  BY DEF QueueInv, QueueTypeOK, EnqueueSignal
<1>6. \A k, ch : ListExact(ch, k) => ListExact(ch, k)'
  BY <1>3, <1>4, <1>5, ControlStep DEF EnqueueSignal
<1> QED
  BY <1>1, <1>2, <1>6 DEF QueueInv

\* Taking head_mutex, waiting, waking up and giving up change no node.
LEMMA ConsumerControlStep ==
  ASSUME QueueInv, NEW c \in Consumers,
         \/ DequeueLock(c) \/ TryDequeueLock(c) \/ DequeueRelock(c)
         \/ DequeueEmpty(c) \/ DequeueWait(c) \/ DequeueSpurious(c)
         \/ TryDequeueEmpty(c)
  PROVE  QueueInv'
<1>1. /\ UNCHANGED <<head, tail, next, data, alive, pnode, dummy, destroyed, enq, deq>>
      /\ UNCHANGED <<tail_mutex, ppc, nput>>
  BY DEF DequeueLock, TryDequeueLock, DequeueRelock, Lock, DequeueEmpty, DequeueWait,
         DequeueSpurious, TryDequeueEmpty
<1>2. \/ cpc[c] = "idle" /\ ~ destroyed
      \/ cpc[c] \in {"check", "try", "wait", "sleep", "relock"}
  BY DEF DequeueLock, TryDequeueLock, DequeueRelock, Lock, DequeueEmpty, DequeueWait,
         DequeueSpurious, TryDequeueEmpty
<1>3. PICK to \in {"idle", "check", "try", "wait", "sleep", "relock"} :
        cpc' = [cpc EXCEPT ![c] = to]
  BY DEF DequeueLock, TryDequeueLock, DequeueRelock, Lock, DequeueEmpty, DequeueWait,
         DequeueSpurious, TryDequeueEmpty
<1>4. /\ waiters' \in {waiters, waiters \cup {c}, waiters \ {c}}
      /\ cpc[c] = "sleep" => waiters' = waiters \ {c}
      /\ waiters' = waiters \cup {c} => c \in waiters \/ to = "sleep"
  <2>1. CASE DequeueLock(c) \/ TryDequeueLock(c) \/ DequeueRelock(c)
             \/ DequeueEmpty(c) \/ TryDequeueEmpty(c)
    <3>1. waiters' = waiters /\ cpc[c] # "sleep"
      BY <2>1 DEF DequeueLock, TryDequeueLock, DequeueRelock, Lock, DequeueEmpty,
                  TryDequeueEmpty
    <3> QED
      BY <3>1
  <2>2. CASE DequeueWait(c)
    BY <2>2, <1>3 DEF DequeueWait, QueueInv, QueueTypeOK
  <2>3. CASE DequeueSpurious(c)
    BY <2>3 DEF DequeueSpurious
  <2> QED
    BY <2>1, <2>2, <2>3
<1>5. QueueTypeOK'
  BY <1>1, <1>3, <1>4 DEF QueueInv, QueueTypeOK
<1>6. ThreadsExact'
  BY <1>1, <1>2, <1>3, <1>4 DEF QueueInv, QueueTypeOK, ThreadsExact
<1>7. Owned' = Owned
  BY <1>1 DEF Owned
<1>8. Freed' = Freed
  <2>1. \A d \in Consumers : cpc'[d] = "free" <=> cpc[d] = "free"
    BY <1>2, <1>3 DEF QueueInv, QueueTypeOK
  <2> QED
    BY <2>1 DEF Freed
<1>9. \A q \in Producers : ppc'[q] = "set_tail" <=> ppc[q] = "set_tail"
  BY <1>1
<1>10. \A k, ch : ListExact(ch, k) => ListExact(ch, k)'
  BY <1>1, <1>7, <1>8, <1>9, ControlStep
<1> QED
  BY <1>5, <1>6, <1>10 DEF QueueInv

\* The node malloc_func returns is on no chain and nobody's.
LEMMA EnqueueAllocStep ==
  ASSUME QueueInv, NEW p \in Producers, EnqueueAlloc(p)
  PROVE  QueueInv'
<1>1. PICK n \in Nodes \ alive :
        /\ alive' = alive \cup {n}
        /\ data' = [data EXCEPT ![n] = <<p, nput[p] + 1>>]
        /\ next' = [next EXCEPT ![n] = Null]
        /\ pnode' = [pnode EXCEPT ![p] = n]
  BY DEF EnqueueAlloc
<1>2. /\ ~ destroyed
      /\ ppc[p] = "idle"
      /\ nput' = [nput EXCEPT ![p] = nput[p] + 1]
      /\ ppc' = [ppc EXCEPT ![p] = "lock"]
      /\ UNCHANGED <<head, tail, tail_mutex, waiters, cpc, dummy, destroyed, enq, deq>>
  BY DEF EnqueueAlloc
<1>3. QueueTypeOK'
  <2>1. nput[p] + 1 \in Nat
    BY DEF QueueInv, QueueTypeOK
  <2>2. <<p, nput[p] + 1>> \in Values
    BY <2>1 DEF Values
  <2>3. data' \in [Nodes -> Values]
    BY <1>1, <2>2 DEF QueueInv, QueueTypeOK
  <2>4. nput' \in [Producers -> Nat]
    BY <1>2, <2>1 DEF QueueInv, QueueTypeOK
  <2> QED
    BY <1>1, <1>2, <2>3, <2>4 DEF QueueInv, QueueTypeOK
<1>4. ThreadsExact'
  BY <1>2 DEF QueueInv, QueueTypeOK, ThreadsExact
<1>5a. PICK k \in Nat : \E ch \in [0 .. k -> Nodes] : ListExact(ch, k)
  BY DEF QueueInv
<1>5. PICK ch \in [0 .. k -> Nodes] : ListExact(ch, k)
  BY <1>5a
<1>6. \A i \in 0 .. k : ch[i] \in alive /\ ch[i] # n
  BY <1>1, <1>2, <1>5 DEF ListExact, OwnersExact
<1>7. \A m \in Nodes : m # n => next'[m] = next[m] /\ data'[m] = data[m]
  BY <1>1 DEF QueueInv, QueueTypeOK
<1>8. \A i \in 0 .. k : next'[ch[i]] = next[ch[i]] /\ data'[ch[i]] = data[ch[i]]
  BY <1>5, <1>6, <1>7
<1>9. Linked(ch, k)'
  BY <1>2, <1>5, <1>8 DEF ListExact, Linked
<1>10. TailExact(ch, k)'
  BY <1>1, <1>2, <1>5 DEF ListExact, TailExact, QueueInv, QueueTypeOK
<1>11. ItemsExact(ch, k)'
  <2>1. \A i \in 1 .. k : data'[ch[i]] = data[ch[i]]
    BY <1>5, <1>8
  <2> QED
    BY <1>2, <1>5, <2>1 DEF ListExact, ItemsExact
<1>12. OwnersExact(ch, k)'
  <2>1. Owned' = Owned \cup {p} /\ p \notin Owned /\ Freed' = Freed
    BY <1>2 DEF QueueInv, QueueTypeOK, Owned, Freed
  <2>2. pnode'[p] = n /\ next'[n] = Null /\ n \in alive'
    BY <1>1 DEF QueueInv, QueueTypeOK
  <2>3. \A q \in Owned : /\ pnode'[q] = pnode[q] /\ pnode[q] \in alive
                         /\ pnode[q] \in Nodes /\ pnode[q] # n /\ q # p
                         /\ next'[pnode[q]] = Null
    <3>1. \A q \in Owned : pnode'[q] = pnode[q] /\ q # p
      BY <1>1, <2>1 DEF QueueInv, QueueTypeOK, Owned
    <3>2. \A q \in Owned : pnode[q] \in alive /\ next[pnode[q]] = Null
      BY <1>5 DEF ListExact, OwnersExact
    <3>3. \A q \in Owned : pnode[q] \in Nodes /\ pnode[q] # n
      BY <3>2, <1>1 DEF QueueInv, QueueTypeOK
    <3> QED
      BY <3>1, <3>2, <3>3, <1>7
  <2>4. \A c \in Freed : dummy[c] \in alive /\ dummy[c] # n
    BY <1>1, <1>5 DEF ListExact, OwnersExact
  <2>5. \A q \in Owned' : /\ pnode'[q] \in alive' /\ next'[pnode'[q]] = Null
                          /\ \A i \in 0 .. k : ch[i] # pnode'[q]
                          /\ \A r \in Owned' : pnode'[q] = pnode'[r] => q = r
    BY <1>1, <1>5, <1>6, <2>1, <2>2, <2>3 DEF ListExact, OwnersExact
  <2>6. \A c \in Freed' : /\ dummy'[c] \in alive'
                          /\ \A i \in 0 .. k : ch[i] # dummy'[c]
                          /\ \A q \in Owned' : pnode'[q] # dummy'[c]
                          /\ \A d \in Freed' : dummy'[c] = dummy'[d] => c = d
    BY <1>1, <1>2, <1>5, <2>1, <2>2, <2>3, <2>4 DEF ListExact, OwnersExact
  <2>7. \A m \in alive' : \/ ~ destroyed' /\ \E i \in 0 .. k : m = ch[i]
                          \/ \E q \in Owned' : m = pnode'[q]
                          \/ \E c \in Freed' : m = dummy'[c]
    <3>1. \A m \in alive : \/ \E i \in 0 .. k : m = ch[i]
                           \/ \E q \in Owned : m = pnode[q]
                           \/ \E c \in Freed : m = dummy[c]
      BY <1>5 DEF ListExact, OwnersExact
    <3> QED
      BY <1>1, <1>2, <2>1, <2>2, <2>3, <3>1
  <2> QED
    BY <1>1, <1>6, <2>5, <2>6, <2>7 DEF OwnersExact
<1>13. ListExact(ch, k)'
  BY <1>9, <1>10, <1>11, <1>12 DEF ListExact
<1> QED
  BY <1>3, <1>4, <1>5, <1>13 DEF QueueInv

\* Linking appends the producer's node to the chain: the tail it writes to is
\* the last node, since no other producer is between link and set_tail.
LEMMA EnqueueLinkStep ==
  ASSUME QueueInv, NEW p \in Producers, EnqueueLink(p)
  PROVE  QueueInv'
<1>1. /\ ppc[p] = "link"
      /\ next' = [next EXCEPT ![tail] = pnode[p]]
      /\ enq' = Append(enq, data[pnode[p]])
      /\ ppc' = [ppc EXCEPT ![p] = "set_tail"]
      /\ UNCHANGED <<head, tail, data, alive, tail_mutex, waiters, pnode, nput, cpc,
                     dummy, destroyed, deq>>
  BY DEF EnqueueLink
<1>2. ~ destroyed
  BY <1>1 DEF QueueInv, ThreadsExact
<1>3. p \in Owned
  BY <1>1 DEF Owned
<1>4a. PICK k \in Nat : \E ch \in [0 .. k -> Nodes] : ListExact(ch, k)
  BY DEF QueueInv
<1>4. PICK ch \in [0 .. k -> Nodes] : ListExact(ch, k)
  BY <1>4a
<1>n. PICK n : n = pnode[p]
  OBVIOUS
<1>5. /\ n \in alive /\ n \in Nodes /\ next[n] = Null
      /\ \A i \in 0 .. k : ch[i] # n
      /\ \A q \in Owned : pnode[q] = n => q = p
  BY <1>3, <1>4, <1>n DEF ListExact, OwnersExact, QueueInv, QueueTypeOK
<1>6. \A q \in Producers : ppc[q] # "set_tail"
  BY <1>1 DEF QueueInv, ThreadsExact
<1>7. tail = ch[k]
  BY <1>4, <1>6 DEF ListExact, TailExact
<1>8. QueueTypeOK'
  <2>1. data[n] \in Values
    BY <1>5 DEF QueueInv, QueueTypeOK
  <2>2. enq' \in Seq(Values)
    BY <1>1, <1>n, <2>1 DEF QueueInv, QueueTypeOK
  <2> QED
    BY <1>1, <2>2 DEF QueueInv, QueueTypeOK
<1>9. ThreadsExact'
  BY <1>1, <1>2 DEF QueueInv, QueueTypeOK, ThreadsExact
<1>10. PICK e \in [0 .. k + 1 -> Nodes] : /\ \A i \in 0 .. k : e[i] = ch[i]
                                         /\ e[k + 1] = n
  <2> DEFINE f == [i \in 0 .. k + 1 |-> IF i <= k THEN ch[i] ELSE n]
  <2>1. f \in [0 .. k + 1 -> Nodes]
    BY <1>5
  <2>2. (\A i \in 0 .. k : f[i] = ch[i]) /\ f[k + 1] = n
    OBVIOUS
  <2> QED
    BY <2>1, <2>2
<1>11. \A i \in 0 .. k + 1 : i \in 0 .. k \/ i = k + 1
  OBVIOUS
<1>12. /\ next'[ch[k]] = n
       /\ \A m \in Nodes : m # ch[k] => next'[m] = next[m]
  BY <1>1, <1>7, <1>n DEF QueueInv, QueueTypeOK
<1>13. Linked(e, k + 1)'
  <2>1. k + 1 \in Nat /\ e[0] = head'
    <3>1. 0 \in 0 .. k
      OBVIOUS
    <3> QED
      BY <1>1, <1>4, <1>10, <3>1 DEF ListExact, Linked
  <2>2. ASSUME NEW i \in 0 .. k + 1
        PROVE  next'[e[i]] = IF i = k + 1 THEN Null ELSE e[i + 1]
    <3>1. CASE i = k + 1
      <4>1. k \in 0 .. k
        OBVIOUS
      <4>2. next'[n] = Null
        BY <1>5, <1>12, <4>1
      <4> QED
        BY <3>1, <4>2, <1>10
    <3>2. CASE i = k
      <4>1. k \in 0 .. k /\ i # k + 1
        BY <3>2
      <4> QED
        BY <3>2, <4>1, <1>10, <1>12
    <3>3. CASE i # k + 1 /\ i # k
      <4>1. i \in 0 .. k /\ i + 1 \in 0 .. k /\ k \in 0 .. k
        BY <3>3
      <4>2. next[ch[i]] = ch[i + 1] /\ ch[i] # ch[k] /\ ch[i] \in Nodes
        BY <1>4, <3>3, <4>1 DEF ListExact, Linked
      <4>3. e[i] = ch[i] /\ e[i + 1] = ch[i + 1]
        BY <1>10, <4>1
      <4> QED
        BY <4>2, <4>3, <1>12, <3>3
    <3> QED
      BY <3>1, <3>2, <3>3
  <2>3. ASSUME NEW i \in 0 .. k + 1, NEW j \in 0 .. k + 1, e[i] = e[j] PROVE i = j
    <3>1. \A u, v \in 0 .. k : ch[u] = ch[v] => u = v
      BY <1>4 DEF ListExact, Linked
    <3>2. i \in 0 .. k \/ i = k + 1
      BY <1>11
    <3>3. j \in 0 .. k \/ j = k + 1
      BY <1>11
    <3> QED
      BY <2>3, <3>1, <3>2, <3>3, <1>5, <1>10
  <2> QED
    BY <1>10, <2>1, <2>2, <2>3 DEF Linked
<1>14. TailExact(e, k + 1)'
  <2>1. ppc'[p] = "set_tail" /\ \A q \in Producers : ppc'[q] = "set_tail" => q = p
    BY <1>1, <1>6 DEF QueueInv, QueueTypeOK
  <2>2. pnode'[p] = e[k + 1]
    BY <1>1, <1>10, <1>n
  <2> QED
    BY <2>1, <2>2 DEF TailExact
<1>15. ItemsExact(e, k + 1)'
  <2>1. /\ enq \in Seq(Values) /\ deq \in Seq(Values)
        /\ Len(enq) \in Nat /\ Len(deq) \in Nat
        /\ Len(enq) = Len(deq) + k
    BY <1>4 DEF QueueInv, QueueTypeOK, ListExact, ItemsExact
  <2>2. /\ Len(enq') = Len(enq) + 1
        /\ enq'[Len(enq) + 1] = data[n]
        /\ \A i \in 1 .. Len(enq) : enq'[i] = enq[i]
    <3>1. data[n] \in Values
      BY <1>5 DEF QueueInv, QueueTypeOK
    <3>2. enq' = Append(enq, data[n])
      BY <1>1, <1>n
    <3> QED
      BY <2>1, <3>1, <3>2, AppendProperties
  <2>3. \A i \in 1 .. Len(deq) : enq'[i] = deq[i]
    <3>1. \A i \in 1 .. Len(deq) : i \in 1 .. Len(enq) /\ enq[i] = deq[i]
      BY <1>4, <2>1 DEF ListExact, ItemsExact
    <3> QED
      BY <2>2, <3>1
  <2>4. ASSUME NEW i \in 1 .. k + 1 PROVE enq'[Len(deq) + i] = data[e[i]]
    <3>1. CASE i = k + 1
      <4>1. Len(deq) + i = Len(enq) + 1
        BY <2>1, <3>1
      <4> QED
        BY <3>1, <4>1, <2>2, <1>10
    <3>2. CASE i # k + 1
      <4>1. i \in 1 .. k /\ i \in 0 .. k /\ Len(deq) + i \in 1 .. Len(enq)
        BY <2>1, <3>2
      <4> QED
        BY <4>1, <2>2, <1>4, <1>10 DEF ListExact, ItemsExact
    <3> QED
      BY <3>1, <3>2
  <2>5. Len(enq') = Len(deq) + (k + 1)
    BY <2>1, <2>2
  <2> QED
    BY <1>1, <2>3, <2>4, <2>5 DEF ItemsExact
<1>16. OwnersExact(e, k + 1)'
  <2>1. Owned' = Owned \ {p} /\ Freed' = Freed
    BY <1>1 DEF QueueInv, QueueTypeOK, Owned, Freed
  <2>2. \A i \in 0 .. k + 1 : e[i] \in alive
    BY <1>2, <1>4, <1>5, <1>10, <1>11 DEF ListExact, OwnersExact
  <2>3. ASSUME NEW q \in Owned'
        PROVE  /\ pnode[q] \in alive /\ next'[pnode[q]] = Null
               /\ \A i \in 0 .. k + 1 : e[i] # pnode[q]
               /\ \A r \in Owned' : pnode[q] = pnode[r] => q = r
    <3>1. q \in Owned /\ q # p
      BY <2>1
    <3>2. /\ pnode[q] \in alive /\ next[pnode[q]] = Null
          /\ \A i \in 0 .. k : ch[i] # pnode[q]
          /\ \A r \in Owned : pnode[q] = pnode[r] => q = r
      BY <1>4, <3>1 DEF ListExact, OwnersExact
    <3>3. pnode[q] # n
      BY <1>5, <3>1
    <3>4. pnode[q] \in Nodes /\ k \in 0 .. k
      BY <3>2 DEF QueueInv, QueueTypeOK
    <3>5. next'[pnode[q]] = Null
      BY <3>2, <3>4, <1>12
    <3>6. \A i \in 0 .. k + 1 : e[i] # pnode[q]
      BY <3>2, <3>3, <1>10, <1>11
    <3> QED
      BY <3>2, <3>5, <3>6, <2>1
  <2>4. ASSUME NEW c \in Freed
        PROVE  /\ dummy[c] \in alive
               /\ \A i \in 0 .. k + 1 : e[i] # dummy[c]
               /\ \A q \in Owned' : pnode[q] # dummy[c]
               /\ \A d \in Freed : dummy[c] = dummy[d] => c = d
    <3>1. /\ dummy[c] \in alive
          /\ \A i \in 0 .. k : ch[i] # dummy[c]
          /\ \A q \in Owned : pnode[q] # dummy[c]
          /\ \A d \in Freed : dummy[c] = dummy[d] => c = d
      BY <1>4 DEF ListExact, OwnersExact
    <3>2. n # dummy[c]
      BY <3>1, <1>3, <1>n
    <3>3. \A i \in 0 .. k + 1 : e[i] # dummy[c]
      BY <3>1, <3>2, <1>10, <1>11
    <3> QED
      BY <3>1, <3>3, <2>1
  <2>5. ASSUME NEW m \in alive
        PROVE  \/ \E i \in 0 .. k + 1 : m = e[i]
               \/ \E q \in Owned' : m = pnode[q]
               \/ \E c \in Freed : m = dummy[c]
    <3>1. \/ \E i \in 0 .. k : m = ch[i]
          \/ \E q \in Owned : m = pnode[q]
          \/ \E c \in Freed : m = dummy[c]
      BY <1>4 DEF ListExact, OwnersExact
    <3>2. \A i \in 0 .. k : i \in 0 .. k + 1 /\ e[i] = ch[i]
      BY <1>10
    <3>3. k + 1 \in 0 .. k + 1 /\ e[k + 1] = n
      BY <1>10
    <3>4. \A q \in Owned : q \in Owned' \/ pnode[q] = n
      BY <2>1, <1>n
    <3> QED
      BY <3>1, <3>2, <3>3, <3>4
  <2> QED
    BY <1>1, <1>2, <2>1, <2>2, <2>3, <2>4, <2>5 DEF OwnersExact
<1>17. ListExact(e, k + 1)' /\ k + 1 \in Nat
  BY <1>13, <1>14, <1>15, <1>16 DEF ListExact
<1> QED
  BY <1>8, <1>9, <1>10, <1>17 DEF QueueInv

\* The tail reaches the last node, which its producer no longer owns.
LEMMA EnqueueSetTailStep ==
  ASSUME QueueInv, NEW p \in Producers, EnqueueSetTail(p)
  PROVE  QueueInv'
<1>1. /\ ppc[p] = "set_tail"
      /\ tail' = pnode[p]
      /\ pnode' = [pnode EXCEPT ![p] = Null]
      /\ tail_mutex' = "free"
      /\ ppc' = [ppc EXCEPT ![p] = "signal"]
      /\ UNCHANGED <<head, next, data, alive, waiters, nput, cpc, dummy, destroyed,
                     enq, deq>>
  BY DEF EnqueueSetTail
<1>2. \A q \in Producers : ppc[q] \in {"link", "set_tail"} => q = p
  BY <1>1 DEF QueueInv, ThreadsExact
<1>3a. PICK k \in Nat : \E ch \in [0 .. k -> Nodes] : ListExact(ch, k)
  BY DEF QueueInv
<1>3. PICK ch \in [0 .. k -> Nodes] : ListExact(ch, k)
  BY <1>3a
<1>4. pnode[p] = ch[k] /\ ch[k] \in Nodes
  BY <1>1, <1>3 DEF ListExact, TailExact
<1>5. QueueTypeOK'
  BY <1>1, <1>4 DEF QueueInv, QueueTypeOK
<1>6. ThreadsExact'
  BY <1>1, <1>2 DEF QueueInv, QueueTypeOK, ThreadsExact
<1>7. Linked(ch, k)'
  BY <1>1, <1>3 DEF ListExact, Linked
<1>8. TailExact(ch, k)'
  <2>1. \A q \in Producers : ppc'[q] # "set_tail"
    BY <1>1, <1>2 DEF QueueInv, QueueTypeOK
  <2> QED
    BY <2>1, <1>1, <1>4 DEF TailExact
<1>9. ItemsExact(ch, k)'
  BY <1>1, <1>3 DEF ListExact, ItemsExact
<1>10. OwnersExact(ch, k)'
  <2>1. Owned' = Owned /\ Freed' = Freed /\ p \notin Owned
    BY <1>1 DEF QueueInv, QueueTypeOK, Owned, Freed
  <2>2. \A q \in Owned : pnode'[q] = pnode[q]
    BY <1>1, <2>1 DEF QueueInv, QueueTypeOK, Owned
  <2> QED
    BY <1>1, <1>3, <2>1, <2>2 DEF ListExact, OwnersExact
<1>11. ListExact(ch, k)'
  BY <1>7, <1>8, <1>9, <1>10 DEF ListExact
<1> QED
  BY <1>3, <1>5, <1>6, <1>11 DEF QueueInv

\* Taking an item drops the old dummy from the chain and hands it to the
\* consumer.
LEMMA DequeueTakeStep ==
  ASSUME QueueInv, NEW c \in Consumers, DequeueTake(c)
  PROVE  QueueInv'
<1>1. /\ cpc[c] \in {"check", "try"}
      /\ next[head] # Null
      /\ deq' = Append(deq, data[next[head]])
      /\ dummy' = [dummy EXCEPT ![c] = head]
      /\ head' = next[head]
      /\ cpc' = [cpc EXCEPT ![c] = "free"]
      /\ UNCHANGED <<tail, next, data, alive, tail_mutex, waiters, ppc, pnode, nput,
                     destroyed, enq>>
  BY DEF DequeueTake
<1>2. ~ destroyed /\ c \notin waiters
  BY <1>1 DEF QueueInv, ThreadsExact
<1>3a. PICK k \in Nat : \E ch \in [0 .. k -> Nodes] : ListExact(ch, k)
  BY DEF QueueInv
<1>3. PICK ch \in [0 .. k -> Nodes] : ListExact(ch, k)
  BY <1>3a
<1>4. /\ ch[0] = head
      /\ \A i \in 0 .. k : next[ch[i]] = IF i = k THEN Null ELSE ch[i + 1]
      /\ \A i, j \in 0 .. k : ch[i] = ch[j] => i = j
  BY <1>3 DEF ListExact, Linked
<1>5. k # 0 /\ k - 1 \in Nat
  <2>1. 0 \in 0 .. k
    OBVIOUS
  <2>2. k # 0
    BY <2>1, <1>1, <1>4
  <2> QED
    BY <2>2
<1>6. /\ 0 \in 0 .. k /\ 1 \in 0 .. k /\ k \in 0 .. k
      /\ \A i \in 0 .. k - 1 : i \in 0 .. k /\ i + 1 \in 0 .. k /\ i # k
      /\ \A i \in 0 .. k : i = 0 \/ i - 1 \in 0 .. k - 1
  BY <1>5
<1>7. next[head] = ch[1] /\ ch[1] \in Nodes /\ head \in Nodes
  <2>1. next[ch[0]] = ch[0 + 1]
    BY <1>4, <1>5, <1>6
  <2> QED
    BY <2>1, <1>4, <1>6
<1>8. QueueTypeOK'
  <2>1. data[next[head]] \in Values
    BY <1>7 DEF QueueInv, QueueTypeOK
  <2>2. deq' \in Seq(Values)
    BY <1>1, <2>1 DEF QueueInv, QueueTypeOK
  <2> QED
    BY <1>1, <1>7, <2>2 DEF QueueInv, QueueTypeOK
<1>9. ThreadsExact'
  BY <1>1, <1>2 DEF QueueInv, QueueTypeOK, ThreadsExact
<1>10. PICK e \in [0 .. k - 1 -> Nodes] : \A i \in 0 .. k - 1 : e[i] = ch[i + 1]
  <2> DEFINE f == [i \in 0 .. k - 1 |-> ch[i + 1]]
  <2>1. f \in [0 .. k - 1 -> Nodes]
    BY <1>6
  <2>2. \A i \in 0 .. k - 1 : f[i] = ch[i + 1]
    OBVIOUS
  <2> QED
    BY <2>1, <2>2
<1>11. e[k - 1] = ch[k]
  <2>1. k - 1 \in 0 .. k - 1 /\ (k - 1) + 1 = k
    BY <1>5
  <2> QED
    BY <2>1, <1>10
<1>12. Linked(e, k - 1)'
  <2>1. e[0] = head'
    <3>1. 0 \in 0 .. k - 1 /\ 0 + 1 = 1
      BY <1>5
    <3> QED
      BY <3>1, <1>1, <1>7, <1>10
  <2>2. ASSUME NEW i \in 0 .. k - 1
        PROVE  next[e[i]] = IF i = k - 1 THEN Null ELSE e[i + 1]
    <3>1. i + 1 \in 0 .. k /\ e[i] = ch[i + 1]
      BY <1>6, <1>10
    <3>2. next[ch[i + 1]] = IF i + 1 = k THEN Null ELSE ch[(i + 1) + 1]
      BY <3>1, <1>4
    <3>3. (i + 1 = k) <=> (i = k - 1)
      OBVIOUS
    <3>4. i # k - 1 => i + 1 \in 0 .. k - 1
      OBVIOUS
    <3>5. i # k - 1 => e[i + 1] = ch[(i + 1) + 1]
      BY <3>4, <1>10
    <3> QED
      BY <3>1, <3>2, <3>3, <3>5
  <2>3. ASSUME NEW i \in 0 .. k - 1, NEW j \in 0 .. k - 1, e[i] = e[j] PROVE i = j
    <3>1. ch[i + 1] = ch[j + 1] /\ i + 1 \in 0 .. k /\ j + 1 \in 0 .. k
      BY <2>3, <1>6, <1>10
    <3>2. i + 1 = j + 1
      BY <3>1, <1>4
    <3> QED
      BY <3>2
  <2> QED
    BY <1>1, <1>5, <1>10, <2>1, <2>2, <2>3 DEF Linked
<1>13. TailExact(e, k - 1)'
  BY <1>1, <1>3, <1>11 DEF ListExact, TailExact
<1>14. ItemsExact(e, k - 1)'
  <2>1. /\ enq \in Seq(Values) /\ deq \in Seq(Values)
        /\ Len(enq) \in Nat /\ Len(deq) \in Nat
        /\ Len(enq) = Len(deq) + k
    <3>1. enq \in Seq(Values) /\ deq \in Seq(Values)
      BY DEF QueueInv, QueueTypeOK
    <3>2. Len(enq) \in Nat /\ Len(deq) \in Nat
      BY <3>1
    <3>3. Len(enq) = Len(deq) + k
      BY <1>3 DEF ListExact, ItemsExact
    <3> QED
      BY <3>1, <3>2, <3>3
  <2>2. /\ Len(deq') = Len(deq) + 1
        /\ deq'[Len(deq) + 1] = data[ch[1]]
        /\ \A i \in 1 .. Len(deq) : deq'[i] = deq[i]
    <3>1. data[ch[1]] \in Values
      BY <1>7 DEF QueueInv, QueueTypeOK
    <3>2. deq' = Append(deq, data[ch[1]])
      BY <1>1, <1>7
    <3> QED
      BY <2>1, <3>1, <3>2, AppendProperties
  <2>3. /\ \A i \in 1 .. Len(deq) : enq[i] = deq[i]
        /\ \A i \in 1 .. k : enq[Len(deq) + i] = data[ch[i]]
    BY <1>3 DEF ListExact, ItemsExact
  <2>4. Len(enq) = Len(deq') + (k - 1)
    BY <2>1, <2>2
  <2>5. ASSUME NEW i \in 1 .. Len(deq') PROVE enq[i] = deq'[i]
    <3>1. i \in 1 .. Len(deq) \/ i = Len(deq) + 1
      BY <2>1, <2>2
    <3>2. enq[Len(deq) + 1] = data[ch[1]]
      <4>1. 1 \in 1 .. k
        BY <1>5
      <4> QED
        BY <4>1, <2>3
    <3> QED
      BY <3>1, <3>2, <2>2, <2>3
  <2>6. ASSUME NEW i \in 1 .. k - 1 PROVE enq[Len(deq') + i] = data[e[i]]
    <3>1. i + 1 \in 1 .. k /\ i \in 0 .. k - 1 /\ Len(deq') + i = Len(deq) + (i + 1)
      <4>1. i + 1 \in 1 .. k /\ i \in 0 .. k - 1 /\ i \in Nat
        BY <1>5
      <4>2. \A x, y \in Nat : y = x + 1 => y + i = x + (i + 1)
        BY <4>1
      <4>3. Len(deq') \in Nat
        BY <2>1, <2>2
      <4> QED
        BY <4>1, <4>2, <4>3, <2>1, <2>2
    <3> QED
      BY <3>1, <2>3, <1>10
  <2> QED
    BY <1>1, <2>4, <2>5, <2>6 DEF ItemsExact
<1>15. OwnersExact(e, k - 1)'
  <2>1. Owned' = Owned /\ Freed' = Freed \cup {c} /\ c \notin Freed
    BY <1>1 DEF QueueInv, QueueTypeOK, Owned, Freed
  <2>2. /\ dummy'[c] = ch[0]
        /\ \A d \in Freed : dummy'[d] = dummy[d] /\ d # c
    BY <1>1, <1>4, <2>1 DEF QueueInv, QueueTypeOK, Freed
  <2>3. /\ \A i \in 0 .. k : ch[i] \in alive
        /\ \A p \in Owned : /\ pnode[p] \in alive /\ next[pnode[p]] = Null
                            /\ \A i \in 0 .. k : ch[i] # pnode[p]
                            /\ \A q \in Owned : pnode[p] = pnode[q] => p = q
        /\ \A d \in Freed : /\ dummy[d] \in alive
                            /\ \A i \in 0 .. k : ch[i] # dummy[d]
                            /\ \A p \in Owned : pnode[p] # dummy[d]
                            /\ \A b \in Freed : dummy[d] = dummy[b] => d = b
        /\ \A n \in alive : \/ \E i \in 0 .. k : n = ch[i]
                            \/ \E p \in Owned : n = pnode[p]
                            \/ \E d \in Freed : n = dummy[d]
    BY <1>2, <1>3 DEF ListExact, OwnersExact
  <2>4. \A i \in 0 .. k - 1 : i + 1 \in 0 .. k /\ e[i] = ch[i + 1] /\ e[i] # ch[0]
    <3>1. \A i \in 0 .. k - 1 : i + 1 # 0
      OBVIOUS
    <3> QED
      BY <3>1, <1>4, <1>6, <1>10
  <2>5. \A i \in 0 .. k - 1 : e[i] \in alive
    BY <2>3, <2>4
  <2>6. \A p \in Owned : \A i \in 0 .. k - 1 : e[i] # pnode[p]
    BY <2>3, <2>4
  <2>7. ASSUME NEW d \in Freed'
        PROVE  /\ dummy'[d] \in alive
               /\ \A i \in 0 .. k - 1 : e[i] # dummy'[d]
               /\ \A p \in Owned : pnode[p] # dummy'[d]
               /\ \A b \in Freed' : dummy'[d] = dummy'[b] => d = b
    <3>1. CASE d = c
      BY <3>1, <1>6, <2>1, <2>2, <2>3, <2>4
    <3>2. CASE d \in Freed
      BY <3>2, <1>6, <2>1, <2>2, <2>3, <2>4
    <3> QED
      BY <2>1, <3>1, <3>2
  <2>8. ASSUME NEW n \in alive
        PROVE  \/ \E i \in 0 .. k - 1 : n = e[i]
               \/ \E p \in Owned : n = pnode[p]
               \/ \E d \in Freed' : n = dummy'[d]
    <3>1. CASE \E i \in 0 .. k : n = ch[i]
      <4>1. PICK i \in 0 .. k : n = ch[i]
        BY <3>1
      <4>2. CASE i = 0
        BY <4>1, <4>2, <2>1, <2>2
      <4>3. CASE i # 0
        <5>1. i - 1 \in 0 .. k - 1 /\ (i - 1) + 1 = i
          BY <4>3, <1>6
        <5>2. e[i - 1] = ch[i]
          BY <5>1, <1>10
        <5> QED
          BY <4>1, <5>1, <5>2
      <4> QED
        BY <4>2, <4>3
    <3>2. CASE \E d \in Freed : n = dummy[d]
      BY <3>2, <2>1, <2>2
    <3> QED
      BY <2>3, <3>1, <3>2
  <2> QED
    BY <1>1, <1>2, <2>1, <2>3, <2>5, <2>6, <2>7, <2>8 DEF OwnersExact
<1>16. ListExact(e, k - 1)'
  BY <1>12, <1>13, <1>14, <1>15 DEF ListExact
<1> QED
  BY <1>5, <1>8, <1>9, <1>10, <1>16 DEF QueueInv

\* Freeing the old dummy frees a node that nobody else can reach.
LEMMA DequeueFreeStep ==
  ASSUME QueueInv, NEW c \in Consumers, DequeueFree(c)
  PROVE  QueueInv'
<1>1. /\ cpc[c] = "free"
      /\ alive' = alive \ {dummy[c]}
      /\ dummy' = [dummy EXCEPT ![c] = Null]
      /\ cpc' = [cpc EXCEPT ![c] = "idle"]
      /\ UNCHANGED <<head, tail, next, data, tail_mutex, waiters, ppc, pnode, nput,
                     destroyed, enq, deq>>
  BY DEF DequeueFree
<1>2a. PICK k \in Nat : \E ch \in [0 .. k -> Nodes] : ListExact(ch, k)
  BY DEF QueueInv
<1>2. PICK ch \in [0 .. k -> Nodes] : ListExact(ch, k)
  BY <1>2a
<1>3. QueueTypeOK'
  BY <1>1 DEF QueueInv, QueueTypeOK
<1>4. ThreadsExact'
  BY <1>1 DEF QueueInv, QueueTypeOK, ThreadsExact
<1>5. Linked(ch, k)'
  BY <1>1, <1>2 DEF ListExact, Linked
<1>6. TailExact(ch, k)'
  BY <1>1, <1>2 DEF ListExact, TailExact
<1>7. ItemsExact(ch, k)'
  BY <1>1, <1>2 DEF ListExact, ItemsExact
<1>8. OwnersExact(ch, k)'
  <2>1. Owned' = Owned /\ Freed' = Freed \ {c} /\ c \in Freed
    BY <1>1 DEF QueueInv, QueueTypeOK, Owned, Freed
  <2>2. \A d \in Freed' : dummy'[d] = dummy[d] /\ d \in Freed /\ d # c
    BY <1>1, <2>1 DEF QueueInv, QueueTypeOK, Freed
  <2>3. OwnersExact(ch, k)
    BY <1>2 DEF ListExact
  <2>4. /\ \A i \in 0 .. k : ch[i] # dummy[c]
        /\ \A p \in Owned : pnode[p] # dummy[c]
        /\ \A d \in Freed' : dummy[d] # dummy[c]
    BY <2>1, <2>2, <2>3 DEF OwnersExact
  <2>5. ~ destroyed' => \A i \in 0 .. k : ch[i] \in alive'
    BY <1>1, <2>3, <2>4 DEF OwnersExact
  <2>6. \A p \in Owned' : /\ pnode'[p] \in alive' /\ next'[pnode'[p]] = Null
                          /\ \A i \in 0 .. k : ch[i] # pnode'[p]
                          /\ \A q \in Owned' : pnode'[p] = pnode'[q] => p = q
    BY <1>1, <2>1, <2>3, <2>4 DEF OwnersExact
  <2>7. \A d \in Freed' : /\ dummy'[d] \in alive'
                          /\ \A i \in 0 .. k : ch[i] # dummy'[d]
                          /\ \A p \in Owned' : pnode'[p] # dummy'[d]
                          /\ \A b \in Freed' : dummy'[d] = dummy'[b] => d = b
    BY <1>1, <2>1, <2>2, <2>3, <2>4 DEF OwnersExact
  <2>8. \A n \in alive' : \/ ~ destroyed' /\ \E i \in 0 .. k : n = ch[i]
                          \/ \E p \in Owned' : n = pnode'[p]
                          \/ \E d \in Freed' : n = dummy'[d]
    <3>1. \A d \in Freed : d = c \/ (d \in Freed' /\ dummy'[d] = dummy[d])
      BY <2>1, <2>2
    <3> QED
      BY <1>1, <2>1, <2>3, <3>1 DEF OwnersExact
  <2> QED
    BY <2>5, <2>6, <2>7, <2>8 DEF OwnersExact
<1>9. ListExact(ch, k)'
  BY <1>5, <1>6, <1>7, <1>8 DEF ListExact
<1> QED
  BY <1>2, <1>3, <1>4, <1>9 DEF QueueInv

\* Destroying the idle queue frees every node that is left.
LEMMA DestroyStep ==
  ASSUME QueueInv, Destroy
  PROVE  QueueInv'
<1>1. /\ ~ destroyed
      /\ \A p \in Producers : ppc[p] = "idle"
      /\ \A c \in Consumers : cpc[c] = "idle"
      /\ alive' = alive \ Chain
      /\ destroyed' = TRUE
      /\ UNCHANGED <<head, tail, next, data, tail_mutex, waiters, ppc, pnode, nput,
                     cpc, dummy, enq, deq>>
  BY DEF Destroy
<1>2a. PICK k \in Nat : \E ch \in [0 .. k -> Nodes] : ListExact(ch, k)
  BY DEF QueueInv
<1>2. PICK ch \in [0 .. k -> Nodes] : ListExact(ch, k)
  BY <1>2a
<1>3. QueueTypeOK'
  BY <1>1 DEF QueueInv, QueueTypeOK
<1>4. ThreadsExact'
  BY <1>1 DEF QueueInv, QueueTypeOK, ThreadsExact
<1>5. Linked(ch, k)'
  BY <1>1, <1>2 DEF ListExact, Linked
<1>6. TailExact(ch, k)'
  BY <1>1, <1>2 DEF ListExact, TailExact
<1>7. ItemsExact(ch, k)'
  BY <1>1, <1>2 DEF ListExact, ItemsExact
<1>8. OwnersExact(ch, k)'
  <2>1. Owned = {} /\ Freed = {} /\ Owned' = {} /\ Freed' = {}
    BY <1>1 DEF Owned, Freed
  <2>2. Chain = {ch[i] : i \in 0 .. k}
    BY <1>2, ChainIs DEF QueueInv, ListExact
  <2>3. \A n \in alive : \E i \in 0 .. k : n = ch[i]
    BY <1>2, <2>1 DEF ListExact, OwnersExact
  <2>4. alive' = {}
    BY <1>1, <2>2, <2>3
  <2> QED
    BY <1>1, <2>1, <2>4 DEF OwnersExact
<1>9. ListExact(ch, k)'
  BY <1>5, <1>6, <1>7, <1>8 DEF ListExact
<1> QED
  BY <1>2, <1>3, <1>4, <1>9 DEF QueueInv

\* Every step of the queue keeps the invariant.
LEMMA NextQueueInv ==
  ASSUME QueueInv, [Next]_vars
  PROVE  QueueInv'
<1>1. ASSUME NEW p \in Producers,
             \/ EnqueueAlloc(p) \/ EnqueueLock(p) \/ EnqueueLink(p) \/ EnqueueSetTail(p)
             \/ EnqueueSignal(p)
      PROVE  QueueInv'
  BY <1>1, EnqueueAllocStep, EnqueueLockStep, EnqueueLinkStep, EnqueueSetTailStep,
     EnqueueSignalStep
<1>2. ASSUME NEW c \in Consumers,
             \/ DequeueLock(c) \/ TryDequeueLock(c) \/ DequeueRelock(c)
             \/ DequeueEmpty(c) \/ DequeueWait(c) \/ DequeueSpurious(c)
             \/ TryDequeueEmpty(c) \/ DequeueTake(c) \/ DequeueFree(c)
      PROVE  QueueInv'
  BY <1>2, ConsumerControlStep, DequeueTakeStep, DequeueFreeStep
<1>3. CASE Destroy
  BY <1>3, DestroyStep
<1>4. CASE UNCHANGED vars
  <2>1. QueueTypeOK' /\ ThreadsExact'
    BY <1>4 DEF vars, QueueInv, QueueTypeOK, ThreadsExact
  <2>2. Owned' = Owned /\ Freed' = Freed
    BY <1>4 DEF vars, Owned, Freed
  <2>3. \A k, ch : ListExact(ch, k) => ListExact(ch, k)'
    BY <1>4, <2>2, ControlStep DEF vars
  <2> QED
    BY <2>1, <2>3 DEF QueueInv
<1> QED
  BY <1>1, <1>2, <1>3, <1>4 DEF Next

\* QueueInv holds in every state.
LEMMA QueueInvariant ==
  Spec => []QueueInv
<1>1. Init => QueueInv
  BY InitQueueInv
<1>2. QueueInv /\ [Next]_vars => QueueInv'
  BY NextQueueInv
<1> QED
  BY <1>1, <1>2, PTL DEF Spec

-----------------------------------------------------------------------------
(* The theorems.                                                           *)

\* concurrent_queue_enqueue and concurrent_queue_dequeue are a first-in
\* first-out queue however producers and consumers interleave: what was linked
\* is what was taken followed by what is reachable from head.
THEOREM FifoStaysExact ==
  Spec => []FifoExact
<1>1. ASSUME QueueInv PROVE FifoExact
  <2>1a. PICK k \in Nat : \E ch \in [0 .. k -> Nodes] : ListExact(ch, k)
    BY <1>1 DEF QueueInv
  <2>1. PICK ch \in [0 .. k -> Nodes] : ListExact(ch, k)
    BY <2>1a
  <2>2. Contents = [i \in 1 .. k |-> data[ch[i]]]
    BY <1>1, <2>1, ChainIs DEF QueueInv, ListExact
  <2>3. enq \in Seq(Values) /\ deq \in Seq(Values)
    BY <1>1 DEF QueueInv, QueueTypeOK
  <2>4. \A i \in 1 .. k : data[ch[i]] \in Values
    BY <1>1, <2>1 DEF QueueInv, QueueTypeOK
  <2>5. /\ Contents \in Seq(Values) /\ Len(Contents) = k
        /\ \A i \in 1 .. k : Contents[i] = data[ch[i]]
    BY <2>2, <2>4
  <2>6. /\ Len(enq) = Len(deq) + k
        /\ \A i \in 1 .. Len(deq) : enq[i] = deq[i]
        /\ \A i \in 1 .. k : enq[Len(deq) + i] = data[ch[i]]
    BY <2>1 DEF ListExact, ItemsExact
  <2>7. /\ deq \o Contents \in Seq(Values)
        /\ Len(deq \o Contents) = Len(deq) + k
        /\ \A i \in 1 .. Len(deq) + k :
             (deq \o Contents)[i] = IF i <= Len(deq) THEN deq[i]
                                    ELSE Contents[i - Len(deq)]
    BY <2>3, <2>5, ConcatProperties
  <2>8. ASSUME NEW i \in 1 .. Len(enq) PROVE enq[i] = (deq \o Contents)[i]
    <3>1. Len(deq) \in Nat /\ i \in 1 .. Len(deq) + k
      BY <2>3, <2>6
    <3>2. CASE i <= Len(deq)
      <4>1. i \in 1 .. Len(deq)
        BY <3>1, <3>2
      <4> QED
        BY <4>1, <3>1, <3>2, <2>6, <2>7
    <3>3. CASE ~ (i <= Len(deq))
      <4>1. i - Len(deq) \in 1 .. k /\ Len(deq) + (i - Len(deq)) = i
        BY <3>1, <3>3
      <4> QED
        BY <4>1, <3>1, <3>3, <2>5, <2>6, <2>7
    <3> QED
      BY <3>2, <3>3
  <2>9. enq = deq \o Contents
    BY <2>3, <2>6, <2>7, <2>8, SeqEqual
  <2> QED
    BY <2>9 DEF FifoExact
<1> QED
  BY <1>1, QueueInvariant, PTL

\* No node of the queue is leaked, freed twice or written after it was freed,
\* although dequeue frees the old dummy after it has released head_mutex and
\* without tail_mutex.
THEOREM NodesStayExact ==
  Spec => []NodesExact
<1>1. ASSUME QueueInv PROVE NodesExact
  <2>1a. PICK k \in Nat : \E ch \in [0 .. k -> Nodes] : ListExact(ch, k)
    BY <1>1 DEF QueueInv
  <2>1. PICK ch \in [0 .. k -> Nodes] : ListExact(ch, k)
    BY <2>1a
  <2>2. Chain = {ch[i] : i \in 0 .. k}
    BY <1>1, <2>1, ChainIs DEF QueueInv, ListExact
  <2>3. OwnersExact(ch, k)
    BY <2>1 DEF ListExact
  <2>4. alive = (IF destroyed THEN {} ELSE Chain)
                  \cup {pnode[p] : p \in Owned} \cup {dummy[c] : c \in Freed}
    <3>1. ASSUME NEW n \in alive
          PROVE  n \in (IF destroyed THEN {} ELSE Chain)
                         \cup {pnode[p] : p \in Owned} \cup {dummy[c] : c \in Freed}
      BY <2>2, <2>3 DEF OwnersExact
    <3>2. (IF destroyed THEN {} ELSE Chain) \subseteq alive
      BY <2>2, <2>3 DEF OwnersExact
    <3>3. {pnode[p] : p \in Owned} \subseteq alive /\ {dummy[c] : c \in Freed} \subseteq alive
      BY <2>3 DEF OwnersExact
    <3> QED
      BY <3>1, <3>2, <3>3
  <2>5. ASSUME NEW p \in Producers, ppc[p] = "link" PROVE tail \in alive
    <3>1. ~ destroyed /\ \A q \in Producers : ppc[q] # "set_tail"
      BY <1>1, <2>5 DEF QueueInv, ThreadsExact
    <3>2. tail = ch[k] /\ k \in 0 .. k
      BY <3>1, <2>1 DEF ListExact, TailExact
    <3> QED
      BY <3>1, <3>2, <2>3 DEF OwnersExact
  <2>6. \A c, d \in Consumers :
          cpc[c] = "free" /\ cpc[d] = "free" /\ dummy[c] = dummy[d] => c = d
    BY <2>3 DEF OwnersExact, Freed
  <2> QED
    BY <2>4, <2>5, <2>6 DEF NodesExact, Owned, Freed
<1> QED
  BY <1>1, QueueInvariant, PTL
=============================================================================
