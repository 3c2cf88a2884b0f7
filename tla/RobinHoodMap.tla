---------------------------- MODULE RobinHoodMap ----------------------------
(***************************************************************************)
(* RobinHoodHashMap of libc/map.h: open addressing with probe distances,   *)
(* displacement on insert, backward shift on erase, doubling at a load of  *)
(* 3/4.  The map is used by one thread; each public operation is an action,*)
(* its loops are recursive operators on the table.  `expected` is the      *)
(* std::map that libc/map.cc compares it with.                             *)
(***************************************************************************)
EXTENDS Integers, FiniteSets

CONSTANTS
  Keys, Values,
  MaxHash,          \* hash values are 0 .. MaxHash
  Capacities,       \* values of the constructor's argument initial_capacity
  MaxCapacity,      \* bound: no insert that would grow the table further
  EraseAnywhere     \* erase is called whatever the hash function, not only
                    \* when all keys share one home slot

ASSUME MapAssumption ==
  /\ MaxHash \in Nat
  /\ Capacities \subseteq Nat \ {0}
  /\ MaxCapacity \in Nat
  /\ EraseAnywhere \in BOOLEAN

VARIABLES
  hasher,    \* the hash function, arbitrary and fixed
  m,         \* the map: [table, cap, size], table a function on 0 .. cap - 1
  expected   \* the reference: a function on the keys present

vars == <<hasher, m, expected>>

\* An Entry that is not occupied.  (Its stale key, value and distance are never
\* read before the next assignment of the slot.)
Free == [occupied |-> FALSE]

Entry(k, v, d) == [key |-> k, value |-> v, probe_distance |-> d, occupied |-> TRUE]

EmptyMap(cap) == [table |-> [i \in 0 .. cap - 1 |-> Free], cap |-> cap, size |-> 0]

Slots(s) == {i \in 0 .. s.cap - 1 : s.table[i].occupied}

hash(s, k) == hasher[k] % s.cap

next_index(s, i) == (i + 1) % s.cap

-----------------------------------------------------------------------------
(* insert.                                                                 *)

\* The entry e takes slot i from an occupant closer to its home: the code swaps
\* the entries, then swaps the distance now stored in the slot with the running
\* one.  The two are equal, so the displaced entry goes on from e's distance.
Displace(s, i, e, probe) ==
  [table |-> [s.table EXCEPT ![i] = [e EXCEPT !.probe_distance = probe]],
   entry |-> s.table[i],
   probe |-> e.probe_distance]

\* As if the distance were not counted.
KeepMutant(s, i, e, probe) == [table |-> s.table, entry |-> e, probe |-> probe - 1]

\* The occupant of slot i stays; e moves on.
Keep(s, i, e, probe) == [table |-> s.table, entry |-> e, probe |-> probe]

RECURSIVE InsertFrom(_, _, _, _, _, _)
\* The loop of insert, at slot i with the entry e in hand.
InsertFrom(s, k, v, i, e, probe) ==
  IF ~s.table[i].occupied
    THEN [s EXCEPT !.table[i] = e, !.size = @ + 1]
  ELSE IF s.table[i].key = k
    THEN [s EXCEPT !.table[i].value = v]
  ELSE LET r == IF s.table[i].probe_distance < probe
                  THEN Displace(s, i, e, probe) ELSE Keep(s, i, e, probe)
       IN InsertFrom([s EXCEPT !.table = r.table], k, v, next_index(s, i),
                     [r.entry EXCEPT !.probe_distance = r.probe + 1],
                     r.probe + 1)

InsertNoResize(s, k, v) == InsertFrom(s, k, v, hash(s, k), Entry(k, v, 0), 0)

\* resize_table: re-insert the old entries in slot order.
RECURSIVE Migrate(_, _, _)
Migrate(old, i, s) ==
  IF i = old.cap THEN s
  ELSE Migrate(old, i + 1,
         IF old.table[i].occupied
           THEN InsertNoResize(s, old.table[i].key, old.table[i].value) ELSE s)

resize_table(s, cap) == Migrate(s, 0, EmptyMap(cap))

\* As if the limit itself were still allowed.
MustGrowMutant(s) == 4 * s.size > 3 * s.cap

\* load_factor() >= max_load_factor_
MustGrow(s) == 4 * s.size >= 3 * s.cap

insertInto(s, k, v) ==
  InsertNoResize(IF MustGrow(s) THEN resize_table(s, 2 * s.cap) ELSE s, k, v)

-----------------------------------------------------------------------------
(* find and erase.                                                         *)

\* Where the search loop of find and erase stops: the slot of k, or -1.
RECURSIVE SearchFrom(_, _, _, _)
SearchFrom(s, k, i, probe) ==
  IF ~s.table[i].occupied THEN -1
  ELSE IF s.table[i].key = k THEN i
  ELSE IF s.table[i].probe_distance < probe THEN -1
  ELSE SearchFrom(s, k, next_index(s, i), probe + 1)

Search(s, k) == SearchFrom(s, k, hash(s, k), 0)

RECURSIVE ShiftBack(_, _)
\* The backward shift after slot i became free.
ShiftBack(s, i) ==
  LET j == next_index(s, i) IN
  IF s.table[j].occupied /\ s.table[j].probe_distance > 0
    THEN ShiftBack([s EXCEPT !.table[i] = [s.table[j] EXCEPT !.probe_distance = @ - 1],
                             !.table[j] = Free], j)
    ELSE s

eraseFrom(s, k) ==
  LET i == Search(s, k) IN
  IF i = -1 THEN s
  ELSE ShiftBack([s EXCEPT !.table[i] = Free, !.size = @ - 1], i)

-----------------------------------------------------------------------------
Init ==
  /\ hasher \in [Keys -> 0 .. MaxHash]
  /\ \E initial_capacity \in Capacities : m = EmptyMap(initial_capacity)
  /\ expected = [k \in {} |-> 0]

insert(k, v) ==
  /\ MustGrow(m) => 2 * m.cap <= MaxCapacity
  /\ m' = insertInto(m, k, v)
  /\ expected' = [x \in DOMAIN expected \cup {k} |->
                    IF x = k THEN v ELSE expected[x]]
  /\ UNCHANGED hasher

\* All keys hash to one value: the table is a single chain.
OneChain == \A j, k \in Keys : hasher[j] = hasher[k]

erase(k) ==
  /\ EraseAnywhere \/ OneChain
  /\ m' = eraseFrom(m, k)
  /\ expected' = [x \in DOMAIN expected \ {k} |-> expected[x]]
  /\ UNCHANGED hasher

Next ==
  \/ \E k \in Keys, v \in Values : insert(k, v)
  \/ \E k \in Keys : erase(k)

Spec == Init /\ [][Next]_vars

-----------------------------------------------------------------------------
(* Properties.                                                             *)

\* find answers as the reference map: it returns the value of every key that
\* was inserted, after any sequence of displacements and resizes, and nullptr
\* for every other key.
FindMatches ==
  \A k \in Keys :
    LET i == Search(m, k) IN
    IF k \in DOMAIN expected
      THEN i # -1 /\ m.table[i].value = expected[k]
      ELSE i = -1

\* Every key is stored in one slot and size() counts the keys, through
\* displacements and growth; and no table of four slots or more is ever full.  (One of
\* fewer may be: a search in it ends at an entry closer to its home.)
TableExact ==
  /\ m.size = Cardinality(DOMAIN expected)
  /\ Cardinality(Slots(m)) = m.size
  /\ \A i, j \in Slots(m) : m.table[i].key = m.table[j].key => i = j
  /\ m.size = m.cap => m.cap < 4
=============================================================================
