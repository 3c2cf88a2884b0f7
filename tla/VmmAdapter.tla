----------------------------- MODULE VmmAdapter -----------------------------
(***************************************************************************)
(* AscendVmmAdapter over VmmManager (memory/ascend_vmm_adapter.{h,cc}):    *)
(* virtual addresses reserved in blocks, backed page by page with physical *)
(* handles.  The pool calls it under its own lock, so each routine is an   *)
(* operator from an adapter state v to an adapter state.  The fields of v: *)
(*   map    : vmm_map_, the handle of every page reserved, or NoHandle     *)
(*   mapped : mapped_addrs_ of the manager                                 *)
(*   cached : cached_handle_sets_                                          *)
(*   made   : physical_handle_size_, the handles the manager has made      *)
(* A page is named by its number, a handle by the order of creation.       *)
(***************************************************************************)
EXTENDS Integers, FiniteSets, Sequences, SequencesExt

CONSTANTS
  PageSize,   \* kVmmAlignSize = kDefaultMapSize, in model bytes
  PhysMem,    \* kMaxUsedMemSize: bytes that can be mapped
  VirtualMem  \* bound on the virtual addresses reserved

ASSUME VmmAssumption ==
  /\ PageSize \in Nat \ {0}
  /\ {PhysMem, VirtualMem} \subseteq Nat

NoHandle == 0

EmptyVmm == [map |-> <<>>, mapped |-> <<>>, cached |-> {}, made |-> 0]

Without(f, x) == Restrict(f, DOMAIN f \ {x})

\* The map f with x at key k: operator[] and emplace (which keeps an old entry).
Put(f, k, x)     == [i \in DOMAIN f \cup {k} |-> IF i = k THEN x ELSE f[i]]
Emplace(f, k, x) == IF k \in DOMAIN f THEN f ELSE Put(f, k, x)

\* Steps for the members of a set of numbers, in ascending order.
FoldUp(step(_, _), base, S) ==
  MapThenFoldSet(LAMBDA i, acc : step(acc, i), base, LAMBDA i : i, LAMBDA T : Max(T), S)

PageOf(addr) == addr \div PageSize
GetRoundUpAlignSize(size) == ((size + PageSize - 1) \div PageSize) * PageSize

\* base_addr_ of the manager: addresses are never given out twice.
BaseAddr(v) == Cardinality(DOMAIN v.map) * PageSize

\* AllocDeviceMem(size): pages without handles.
AllocPages(v, size) ==
  LET first == PageOf(BaseAddr(v))
      pages == first .. first + PageOf(GetRoundUpAlignSize(size)) - 1
  IN  [v EXCEPT !.map = [p \in DOMAIN @ \cup pages |-> IF p \in pages THEN NoHandle ELSE @[p]]]

\* VmmManager::Unmap and what its callers do: the handle goes to the cache.
Unmap(v, p) ==
  [v EXCEPT !.map[p] = NoHandle, !.cached = @ \cup {v.map[p]}, !.mapped = Without(@, p)]

\* VmmManager::Map of page p with handle h.
MapPage(v, p, h) == [v EXCEPT !.map[p] = h, !.mapped = Put(@, p, h)]

\* One round of MmapDeviceMem for page p.  acc.done: pages this call has mapped.
MmapPage(acc, p) ==
  LET v == acc.v
  IN  IF ~ acc.ok \/ v.map[p] # NoHandle THEN acc
      ELSE IF v.cached # {}
      THEN [acc EXCEPT !.v = [MapPage(v, p, Min(v.cached)) EXCEPT !.cached = @ \ {Min(@)}],
                       !.done = @ \cup {p}]
      ELSE IF v.made * PageSize >= PhysMem THEN [acc EXCEPT !.ok = FALSE]
      ELSE [acc EXCEPT !.v = [MapPage(v, p, v.made + 1) EXCEPT !.made = @ + 1],
                       !.done = @ \cup {p}]

\* The handles are cached, but the pages keep them.
MoveBackMutant(v, pages) == [v EXCEPT !.cached = @ \cup {v.map[p] : p \in pages}]

\* MoveBackMappedHandle: undo the pages this call mapped.
MoveBackMappedHandle(v, pages) == FoldSet(LAMBDA p, w : Unmap(w, p), v, pages)

\* MmapDeviceMem(size, addr): every page of the range that has no handle gets
\* one, or none does.  The page at address 0 looks like no page.
MmapDeviceMem(v, addr, size) ==
  LET pages == PageOf(addr) .. PageOf(addr + size - 1)
      End(acc) == IF acc.ok THEN [v |-> acc.v, ok |-> TRUE]
                  ELSE [v |-> MoveBackMappedHandle(acc.v, acc.done), ok |-> FALSE]
  IN  IF PageOf(addr) = 0 THEN [v |-> v, ok |-> FALSE]
      ELSE End(FoldUp(MmapPage, [v |-> v, done |-> {}, ok |-> TRUE], pages))

\* Also the page the range ends in.
EagerFreeMutant(v, addr, size) ==
  LET inside == {p \in DOMAIN v.map : addr <= p * PageSize /\ p * PageSize < addr + size}
  IN  FoldSet(LAMBDA p, w : Unmap(w, p), v, {p \in inside : v.map[p] # NoHandle})

\* EagerFreeDeviceMem(addr, size): the pages that lie wholly in the range lose
\* their handles.
EagerFreeDeviceMem(v, addr, size) ==
  LET inside == {p \in DOMAIN v.map : addr <= p * PageSize /\ (p + 1) * PageSize <= addr + size}
  IN  FoldSet(LAMBDA p, w : Unmap(w, p), v, {p \in inside : v.map[p] # NoHandle})

-----------------------------------------------------------------------------
(* Correctness of a state of the adapter.                                  *)

MappedPages(v) == {p \in DOMAIN v.map : v.map[p] # NoHandle}

\* Every handle made is in one place: one page, of adapter and manager alike,
\* or the cache; and no more are made than there is physical memory.
HandlesOf(v) ==
  /\ v.mapped = Restrict(v.map, MappedPages(v))
  /\ \A p, q \in MappedPages(v) : v.map[p] = v.map[q] => p = q
  /\ {v.map[p] : p \in MappedPages(v)} \cap v.cached = {}
  /\ {v.map[p] : p \in MappedPages(v)} \cup v.cached = 1 .. v.made
  /\ v.made * PageSize < PhysMem + PageSize
=============================================================================
