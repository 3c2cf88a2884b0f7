-------------------------- MODULE ConcurrentQueue ---------------------------
(***************************************************************************)
(* The two-lock queue of libc/concurrent_queue.cc: a linked list with a    *)
(* dummy node, tail_mutex for enqueue, head_mutex and a condition variable *)
(* for dequeue, used by the allocation tracer (libc/init.cc) to hand stack *)
(* records to its consumer thread.                                         *)
(*                                                                         *)
(* Steps of a thread are separated where another thread can see or change  *)
(* what it uses: tail->next is read by consumers without tail_mutex, and   *)
(* the condition variable is signalled without head_mutex.                 *)
(***************************************************************************)
EXTENDS Integers, Sequences, FiniteSets, FiniteSetsExt

CONSTANTS
  Producers, Consumers,
  Nodes,       \* addresses malloc_func can return
  Null,        \* NULL
  MaxItems     \* bound on the enqueue calls of one producer

ASSUME QueueAssumption ==
  /\ Null \notin Nodes
  /\ MaxItems \in Nat
  /\ IsFiniteSet(Nodes) /\ Cardinality(Nodes) > 0
  /\ Producers \cap Consumers = {}
  /\ "free" \notin Producers \cup Consumers

VARIABLES
  head, tail,          \* q->head, q->tail
  next, data,          \* the fields of every node
  alive,               \* nodes allocated
  head_mutex, tail_mutex,   \* the thread holding each mutex, or "free"
  waiters,             \* threads asleep in pthread_cond_wait
  ppc, pnode, nput,    \* enqueue: where, its node, calls made
  cpc, dummy,          \* dequeue: where, the old dummy node
  destroyed,           \* concurrent_queue_destroy has run
  enq, deq             \* history: items in the order linked and taken

vars == <<head, tail, next, data, alive, head_mutex, tail_mutex, waiters, ppc,
          pnode, nput, cpc, dummy, destroyed, enq, deq>>

Item == Producers \X (1 .. MaxItems)

\* concurrent_queue_init
Init ==
  \E d \in Nodes :
    /\ head = d /\ tail = d
    /\ next = [n \in Nodes |-> Null]
    /\ data = [n \in Nodes |-> Null]
    /\ alive = {d}
    /\ head_mutex = "free" /\ tail_mutex = "free"
    /\ waiters = {}
    /\ ppc = [p \in Producers |-> "idle"]
    /\ pnode = [p \in Producers |-> Null]
    /\ nput = [p \in Producers |-> 0]
    /\ cpc = [c \in Consumers |-> "idle"]
    /\ dummy = [c \in Consumers |-> Null]
    /\ destroyed = FALSE
    /\ enq = <<>> /\ deq = <<>>

-----------------------------------------------------------------------------
(* concurrent_queue_enqueue by thread p.                                   *)

EnqueueAlloc(p) ==
  /\ ~destroyed
  /\ ppc[p] = "idle" /\ nput[p] < MaxItems
  /\ \E n \in Nodes \ alive :
       /\ alive' = alive \cup {n}
       /\ data' = [data EXCEPT ![n] = <<p, nput[p] + 1>>]
       /\ next' = [next EXCEPT ![n] = Null]
       /\ pnode' = [pnode EXCEPT ![p] = n]
  /\ nput' = [nput EXCEPT ![p] = @ + 1]
  /\ ppc' = [ppc EXCEPT ![p] = "lock"]
  /\ UNCHANGED <<head, tail, head_mutex, tail_mutex, waiters, cpc, dummy,
                 destroyed, enq, deq>>

\* tail_mutex forgotten.
EnqueueLockMutant(p) ==
  /\ ppc[p] = "lock"
  /\ ppc' = [ppc EXCEPT ![p] = "link"]
  /\ UNCHANGED <<head, tail, next, data, alive, head_mutex, tail_mutex, waiters,
                 pnode, nput, cpc, dummy, destroyed, enq, deq>>

EnqueueLock(p) ==
  /\ ppc[p] = "lock"
  /\ tail_mutex = "free"
  /\ tail_mutex' = p
  /\ ppc' = [ppc EXCEPT ![p] = "link"]
  /\ UNCHANGED <<head, tail, next, data, alive, head_mutex, waiters, pnode,
                 nput, cpc, dummy, destroyed, enq, deq>>

\* q->tail->next = node: from here on consumers can reach the node.
EnqueueLink(p) ==
  /\ ppc[p] = "link"
  /\ next' = [next EXCEPT ![tail] = pnode[p]]
  /\ enq' = Append(enq, data[pnode[p]])
  /\ ppc' = [ppc EXCEPT ![p] = "set_tail"]
  /\ UNCHANGED <<head, tail, data, alive, head_mutex, tail_mutex, waiters,
                 pnode, nput, cpc, dummy, destroyed, deq>>

\* q->tail = node, unlock.
EnqueueSetTail(p) ==
  /\ ppc[p] = "set_tail"
  /\ tail' = pnode[p]
  /\ pnode' = [pnode EXCEPT ![p] = Null]
  /\ tail_mutex' = "free"
  /\ ppc' = [ppc EXCEPT ![p] = "signal"]
  /\ UNCHANGED <<head, next, data, alive, head_mutex, waiters, nput, cpc, dummy,
                 destroyed, enq, deq>>

\* pthread_cond_signal, without head_mutex: wakes one waiter, if there is one.
EnqueueSignal(p) ==
  /\ ppc[p] = "signal"
  /\ ppc' = [ppc EXCEPT ![p] = "idle"]
  /\ \/ waiters = {} /\ UNCHANGED <<waiters, cpc>>
     \/ \E w \in waiters :
          /\ waiters' = waiters \ {w}
          /\ cpc' = [cpc EXCEPT ![w] = "relock"]
  /\ UNCHANGED <<head, tail, next, data, alive, head_mutex, tail_mutex, pnode,
                 nput, dummy, destroyed, enq, deq>>

-----------------------------------------------------------------------------
(* concurrent_queue_dequeue and concurrent_queue_try_dequeue by thread c.  *)

Lock(c, from, to) ==
  /\ cpc[c] = from
  /\ head_mutex = "free"
  /\ head_mutex' = c
  /\ cpc' = [cpc EXCEPT ![c] = to]
  /\ UNCHANGED <<head, tail, next, data, alive, tail_mutex, waiters, ppc, pnode,
                 nput, dummy, destroyed, enq, deq>>

DequeueLock(c) == ~destroyed /\ Lock(c, "idle", "check")

TryDequeueLock(c) == ~destroyed /\ Lock(c, "idle", "try")

DequeueRelock(c) == Lock(c, "relock", "check")

\* while (q->head->next == NULL): the decision to wait, head_mutex still held.
DequeueEmpty(c) ==
  /\ cpc[c] = "check"
  /\ next[head] = Null
  /\ cpc' = [cpc EXCEPT ![c] = "wait"]
  /\ UNCHANGED <<head, tail, next, data, alive, head_mutex, tail_mutex, waiters,
                 ppc, pnode, nput, dummy, destroyed, enq, deq>>

\* pthread_cond_wait releases head_mutex and sleeps in one step.
DequeueWait(c) ==
  /\ cpc[c] = "wait"
  /\ cpc' = [cpc EXCEPT ![c] = "sleep"]
  /\ waiters' = waiters \cup {c}
  /\ head_mutex' = "free"
  /\ UNCHANGED <<head, tail, next, data, alive, tail_mutex, ppc, pnode, nput,
                 dummy, destroyed, enq, deq>>

\* A spurious wake-up.
DequeueSpurious(c) ==
  /\ cpc[c] = "sleep"
  /\ waiters' = waiters \ {c}
  /\ cpc' = [cpc EXCEPT ![c] = "relock"]
  /\ UNCHANGED <<head, tail, next, data, alive, head_mutex, tail_mutex, ppc,
                 pnode, nput, dummy, destroyed, enq, deq>>

TryDequeueEmpty(c) ==
  /\ cpc[c] = "try"
  /\ next[head] = Null
  /\ cpc' = [cpc EXCEPT ![c] = "idle"]
  /\ head_mutex' = "free"
  /\ UNCHANGED <<head, tail, next, data, alive, tail_mutex, waiters, ppc, pnode,
                 nput, dummy, destroyed, enq, deq>>

\* The data node freed in place of the old dummy.
DequeueTakeMutant(c) ==
  /\ cpc[c] \in {"check", "try"}
  /\ next[head] # Null
  /\ deq' = Append(deq, data[next[head]])
  /\ dummy' = [dummy EXCEPT ![c] = next[head]]
  /\ head' = next[head]
  /\ head_mutex' = "free"
  /\ cpc' = [cpc EXCEPT ![c] = "free"]
  /\ UNCHANGED <<tail, next, data, alive, tail_mutex, waiters, ppc, pnode, nput,
                 destroyed, enq>>

\* Take the data of head->next, make it the dummy, unlock.
DequeueTake(c) ==
  /\ cpc[c] \in {"check", "try"}
  /\ next[head] # Null
  /\ deq' = Append(deq, data[next[head]])
  /\ dummy' = [dummy EXCEPT ![c] = head]
  /\ head' = next[head]
  /\ head_mutex' = "free"
  /\ cpc' = [cpc EXCEPT ![c] = "free"]
  /\ UNCHANGED <<tail, next, data, alive, tail_mutex, waiters, ppc, pnode, nput,
                 destroyed, enq>>

\* free_func(dummy), after the unlock.
DequeueFree(c) ==
  /\ cpc[c] = "free"
  /\ alive' = alive \ {dummy[c]}
  /\ dummy' = [dummy EXCEPT ![c] = Null]
  /\ cpc' = [cpc EXCEPT ![c] = "idle"]
  /\ UNCHANGED <<head, tail, next, data, head_mutex, tail_mutex, waiters, ppc,
                 pnode, nput, destroyed, enq, deq>>

-----------------------------------------------------------------------------
\* The nodes linked from head, in order.
NodeAt[i \in 0 .. Cardinality(Nodes)] ==
  IF i = 0 THEN head
  ELSE IF NodeAt[i - 1] = Null THEN Null ELSE next[NodeAt[i - 1]]

ChainLen == Max({i \in 0 .. Cardinality(Nodes) : NodeAt[i] # Null})
Chain    == {NodeAt[i] : i \in 0 .. ChainLen}
Contents == [i \in 1 .. ChainLen |-> data[NodeAt[i]]]

\* concurrent_queue_destroy, by a caller that has waited for every other
\* operation to end: frees the chain from head.
Destroy ==
  /\ ~destroyed
  /\ \A p \in Producers : ppc[p] = "idle"
  /\ \A c \in Consumers : cpc[c] = "idle"
  /\ alive' = alive \ Chain
  /\ destroyed' = TRUE
  /\ UNCHANGED <<head, tail, next, data, head_mutex, tail_mutex, waiters, ppc,
                 pnode, nput, cpc, dummy, enq, deq>>

Next ==
  \/ \E p \in Producers :
       EnqueueAlloc(p) \/ EnqueueLock(p) \/ EnqueueLink(p) \/ EnqueueSetTail(p)
         \/ EnqueueSignal(p)
  \/ \E c \in Consumers :
       DequeueLock(c) \/ TryDequeueLock(c) \/ DequeueRelock(c)
         \/ DequeueEmpty(c) \/ DequeueWait(c) \/ DequeueSpurious(c)
         \/ TryDequeueEmpty(c) \/ DequeueTake(c) \/ DequeueFree(c)
  \/ Destroy

Spec == Init /\ [][Next]_vars

-----------------------------------------------------------------------------
(* Properties.                                                             *)

\* First in, first out, nothing lost, nothing twice: the items linked so far
\* are the ones taken followed by the ones reachable from head.
FifoExact == enq = deq \o Contents

\* No node is leaked, freed twice or used after it was freed: one is allocated
\* exactly while it is linked, or waits to be linked by its producer, or waits to
\* be freed by the one consumer that took it; the node enqueue is about to write
\* to is allocated, although consumers free nodes without tail_mutex; after
\* concurrent_queue_destroy none is left.
NodesExact ==
  /\ alive = (IF destroyed THEN {} ELSE Chain)
               \cup {pnode[p] : p \in {r \in Producers : ppc[r] \in {"lock", "link"}}}
               \cup {dummy[c] : c \in {d \in Consumers : cpc[d] = "free"}}
  /\ \A p \in Producers : ppc[p] = "link" => tail \in alive
  /\ \A c, d \in Consumers :
       cpc[c] = "free" /\ cpc[d] = "free" /\ dummy[c] = dummy[d] => c = d

\* What the signal is for (the comment in concurrent_queue_enqueue says it
\* notifies consumers that may be waiting): a consumer does not stay asleep
\* over a non-empty queue with nobody about to signal or to take the item.
WaiterIsSignalled ==
  (waiters # {} /\ next[head] # Null) =>
    \/ \E p \in Producers : ppc[p] \in {"set_tail", "signal"}
    \/ \E c \in Consumers \ waiters : cpc[c] # "idle"
=============================================================================
