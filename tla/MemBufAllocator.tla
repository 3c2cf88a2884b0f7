--------------------------- MODULE MemBufAllocator ---------------------------
(***************************************************************************)
(* The buffer allocator of memory/abstract_dynamic_memory_pool.cc: memory  *)
(* blocks cut into doubly linked MemBufs, a free list and an eager-free    *)
(* list per allocator, best-fit allocation, splitting and merging.         *)
(*                                                                         *)
(* The pool calls these routines one after another under its lock, so each *)
(* is an operator from a pool state s to a pool state; module MemPool      *)
(* turns the public entry points into actions.  The fields of s:           *)
(*   bufs   : MemBuf objects alive, by identity (the C++ pointer)          *)
(*   blocks : MemBlocks by base address, with the allocator owning them    *)
(*   lists  : free_mem_bufs_ ("Idle") and eager_free_mem_bufs_             *)
(*            ("EagerFree") of every allocator                             *)
(*   addrs  : addr_mem_buf_allocators_                                     *)
(*   pairs  : stream_pair_mem_bufs_                                        *)
(*   stat   : mem_stat_, and in eager_drift, as history, what failed       *)
(*            mappings have taken off eager_free_size_                     *)
(*   defrag : eager_free_count_ differs from last_eager_free_count_        *)
(*   inuse  : history: the bytes device tasks use whose event is recorded  *)
(*            and neither waited for nor dropped                           *)
(*   given  : history: those whose event SyncAllEvents dropped while the   *)
(*            task may still run                                           *)
(*   vmm    : the VMM adapter, see VmmAdapter                              *)
(***************************************************************************)
EXTENDS VmmAdapter

CONSTANTS
  Streams,      \* stream ids that own memory
  UserStreams,  \* stream ids whose tasks use memory of other streams
  AlignSize,    \* kDynamicMemAlignSize, in model bytes
  UnitSize,     \* common_unit_size_ = persist_unit_size_
  DeviceMem,    \* bytes of device memory without VMM
  SizeT,        \* number of values of size_t
  EnableVmm     \* enable_vmm_ (IsEnableEagerFree() is FALSE in MemoryPool)

ASSUME PoolAssumption ==
  /\ AlignSize \in Nat \ {0}
  /\ UnitSize \in Nat \ {0}
  /\ DeviceMem \in Nat
  /\ SizeT \in Nat \ {0}
  /\ EnableVmm \in BOOLEAN

\* The null MemBuf pointer, and the null MemBlock pointer.
NoBuf   == 0
NoBlock == -1

\* Keys of stream_id_allocators_: (is_persistent, stream_id).
Allocators == BOOLEAN \X Streams

\* The address space: the device's, which has no address 0, or the adapter's.
Bytes == IF EnableVmm THEN 0 .. VirtualMem - 1 ELSE AlignSize .. AlignSize + DeviceMem - 1

BufIds == 1 .. Cardinality(Bytes)

FreeStatus == {"Idle", "EagerFree"}
BufStatus  == FreeStatus \cup {"Used", "UsedByEvent"}

\* EventBase with no event list.
NoEvents == [u \in UserStreams |-> <<>>]

\* EventBase::IsEventNotUsed
IsEventNotUsed(b) == \A u \in UserStreams : b.events[u] = <<>>

\* MemBuf::MemBuf
MemBuf(size, addr, sid, block, status) ==
  [size |-> size, addr |-> addr, stream_id |-> sid, mem_block |-> block,
   status |-> status, prev |-> NoBuf, next |-> NoBuf, events |-> NoEvents]

\* operator new: the lowest identity that is not alive.
NewId(s) == Min(BufIds \ DOMAIN s.bufs)

BytesOf(b) == b.addr .. b.addr + b.size - 1

\* MemBuf::Link: chain b behind prev and before next.
Link(bufs, b, prev, next) ==
  [i \in DOMAIN bufs |->
     CASE i = b -> [bufs[b] EXCEPT !.prev = prev,
                                   !.next = IF next = NoBuf THEN @ ELSE next]
       [] i = prev -> [bufs[i] EXCEPT !.next = b]
       [] i = next -> [bufs[i] EXCEPT !.prev = b]
       [] OTHER -> bufs[i]]

-----------------------------------------------------------------------------
(* The device, behind the virtual functions of DynamicMemPool.             *)

AllocatedMem(s) == SumFunction([a \in DOMAIN s.blocks |-> s.blocks[a].size])

\* Where a new block of that size can go: the adapter's next addresses, or any
\* place the device has.
BlockPlaces(s, size) ==
  {a \in Bytes : /\ EnableVmm => a = BaseAddr(s.vmm)
                 /\ a + size - 1 \in Bytes
                 /\ \A c \in DOMAIN s.blocks :
                      a + size <= c \/ c + s.blocks[c].size <= a}

\* SIZE_MAX: more than the device has.
SizeMax == 2 * (UnitSize + DeviceMem)

\* MemoryPool::free_mem_size: a device that is out of memory shows only when
\* AllocDeviceMem returns nothing.
free_mem_size == SizeMax

\* Doubling the unit until the request fits.
DoubledUnit(n) == FoldSet(LAMBDA i, unit : 2 * unit, UnitSize, 1 .. n)

CalMemBlockAllocSize(size) ==
  IF free_mem_size < size
  THEN 0
  ELSE Min({DoubledUnit(Min({n \in 0 .. size : DoubledUnit(n) >= size})),
            free_mem_size})

\* mem_block_expander_ of GenerateAllocator: a block of the device, recorded
\* in the statistics; the block's base address, or NoBlock.
ExpandBlock(s, a, size) ==
  LET wanted == CalMemBlockAllocSize(size)
      amount == IF EnableVmm THEN GetRoundUpAlignSize(Max({wanted, PhysMem})) ELSE wanted
      Take(block, amt) ==
        [s |-> [s EXCEPT !.blocks = Put(@, block, [size |-> amt, owner |-> a, min |-> 0, max |-> 0]),
                         !.stat.alloc_size = @ + amt,
                         !.stat.eager_free_size = (@ + IF EnableVmm THEN amt ELSE 0) % SizeT,
                         !.vmm = IF EnableVmm THEN AllocPages(@, amt) ELSE @],
         block |-> block]
      Place(amt, places) == IF places = {} THEN [s |-> s, block |-> NoBlock]
                            ELSE Take(Min(places), amt)
  IN  IF wanted = 0 THEN [s |-> s, block |-> NoBlock]
      ELSE Place(amount, BlockPlaces(s, amount))

-----------------------------------------------------------------------------
(* Best fit, mapping and splitting.                                        *)

\* Strictly larger than asked for: an upper_bound.
LowerBoundMutant(s, candidates, size) ==
  LET fit == {b \in candidates : s.bufs[b].size > size}
  IN  IF fit = {} THEN NoBuf
      ELSE CHOOSE b \in fit : \A c \in fit : s.bufs[b].size <= s.bufs[c].size

\* lower_bound with MemBufComparator: smallest sufficient size, then lowest
\* address.
LowerBound(s, candidates, size) ==
  LET fit == {b \in candidates : s.bufs[b].size >= size}
  IN  IF fit = {} THEN NoBuf
      ELSE CHOOSE b \in fit : \A c \in fit :
             \/ s.bufs[b].size < s.bufs[c].size
             \/ s.bufs[b].size = s.bufs[c].size /\ s.bufs[b].addr <= s.bufs[c].addr

\* MemBlock::UpdateBorderAddr
UpdateBorderAddr(blk, buf) ==
  [blk EXCEPT !.min = IF @ = 0 THEN buf.addr ELSE Min({@, buf.addr}),
              !.max = Max({@, buf.addr + buf.size})]

\* The remainder keeps no link to its successor.
SplitMutant(s, a, b, size) ==
  LET buf  == s.bufs[b]
      rest == NewId(s)
      tail == MemBuf(buf.size - size, buf.addr + size, buf.stream_id, buf.mem_block, buf.status)
  IN  IF buf.size - size < AlignSize
      THEN s
      ELSE [s EXCEPT !.bufs = Link([Put(@, rest, tail) EXCEPT ![b].size = size], rest, b, NoBuf),
                     !.lists[a][buf.status] = @ \cup {rest}]

\* Cut the tail off buffer b when it is worth a buffer of its own.
Split(s, a, b, size) ==
  LET buf  == s.bufs[b]
      rest == NewId(s)
      tail == MemBuf(buf.size - size, buf.addr + size, buf.stream_id, buf.mem_block, buf.status)
  IN  IF buf.size - size < AlignSize
      THEN s
      ELSE [s EXCEPT !.bufs = Link([Put(@, rest, tail) EXCEPT ![b].size = size],
                                   rest, b, buf.next),
                     !.lists[a][buf.status] = @ \cup {rest}]

\* What an allocation routine of allocator a answers: the state it leaves, and
\* the buffer or NoBuf.
Answer(s, a, b) == [s |-> s, alloc |-> a, buf |-> b]

\* The candidate leaves MapAndSplitMemBuf in use, within its block's border.
HandOut(s, a, b) ==
  Answer([s EXCEPT !.bufs[b].status = "Used",
                   !.blocks[s.bufs[b].mem_block] = UpdateBorderAddr(@, s.bufs[b])], a, b)

\* mem_mapper_: the statistics are updated before the mapping is tried; size_t
\* wraps below zero.
Mapper(s, addr, size) ==
  LET Mapped(m) == [s |-> [s EXCEPT !.stat.eager_free_size = (@ - size) % SizeT,
                                    !.stat.eager_drift = @ + IF m.ok THEN 0 ELSE size,
                                    !.vmm = m.v],
                    ok |-> m.ok]
  IN  Mapped(MmapDeviceMem(s.vmm, addr, size))

\* MapAndSplitMemBuf: map an eager-freed candidate, cut it to size and hand it
\* out; one that cannot be mapped is listed again.
MapAndSplitMemBuf(s, a, b, size) ==
  LET buf == s.bufs[b]
      map_size == IF buf.size - size >= AlignSize THEN size ELSE buf.size
      Hand(m) == IF m.ok THEN HandOut(Split(m.s, a, b, size), a, b)
                 ELSE Answer([m.s EXCEPT !.lists[a]["EagerFree"] = @ \cup {b}], a, NoBuf)
  IN  Hand(IF buf.status = "EagerFree" THEN Mapper(s, buf.addr, map_size) ELSE [s |-> s, ok |-> TRUE])

\* A new block is one free buffer b; it is listed if it cannot serve the
\* request, and cut at once if it can.
EnterBlock(s, a, b, block, size) ==
  LET stat == IF EnableVmm THEN "EagerFree" ELSE "Idle"
      new  == MemBuf(s.blocks[block].size, block, a[2], block, stat)
      with == [s EXCEPT !.bufs = Put(@, b, new)]
  IN  IF new.size < size
      THEN Answer([with EXCEPT !.lists[a][stat] = @ \cup {b}], a, NoBuf)
      ELSE MapAndSplitMemBuf(with, a, b, size)

MallocExpandBlock(s, a, size) ==
  LET Enter(x) == IF x.block = NoBlock THEN Answer(x.s, a, NoBuf)
                  ELSE EnterBlock(x.s, a, NewId(x.s), x.block, size)
  IN  Enter(ExpandBlock(s, a, size))

\* The idle list first, then the eager-free list.
Malloc(s, a, size) ==
  LET Take(b, list) == IF b = NoBuf THEN Answer(s, a, NoBuf)
                       ELSE MapAndSplitMemBuf([s EXCEPT !.lists[a][list] = @ \ {b}], a, b, size)
      Choose(idle, eager) == Take(IF idle # NoBuf THEN idle ELSE eager,
                                  IF idle # NoBuf THEN "Idle" ELSE "EagerFree")
  IN  IF ~ \E c \in DOMAIN s.blocks : s.blocks[c].owner = a
      THEN MallocExpandBlock(s, a, size)
      ELSE Choose(LowerBound(s, s.lists[a]["Idle"], size),
                  LowerBound(s, s.lists[a]["EagerFree"], size))

-----------------------------------------------------------------------------
(* Freeing and merging.                                                    *)

\* Merge b with the neighbour before it when that has the target status.
MergePrev(s, a, b, target) ==
  LET p  == s.bufs[b].prev
      pp == s.bufs[p].prev
      grown == [s.bufs EXCEPT ![b].prev = pp,
                              ![b].addr = s.bufs[p].addr,
                              ![b].size = @ + s.bufs[p].size]
      relinked == IF pp = NoBuf THEN grown ELSE [grown EXCEPT ![pp].next = b]
  IN  IF p = NoBuf \/ (p # NoBuf /\ s.bufs[p].status # target)
      THEN s
      ELSE [s EXCEPT !.bufs = Without(relinked, p), !.lists[a][target] = @ \ {p}]

\* Forward merging forgotten.
MergeNextMutant(s, a, b, target) == s

\* Merge b with the neighbour after it when that has the target status.
MergeNext(s, a, b, target) ==
  LET n  == s.bufs[b].next
      nn == s.bufs[n].next
      grown == [s.bufs EXCEPT ![b].next = nn, ![b].size = @ + s.bufs[n].size]
      relinked == IF nn = NoBuf THEN grown ELSE [grown EXCEPT ![nn].prev = b]
  IN  IF n = NoBuf \/ (n # NoBuf /\ s.bufs[n].status # target)
      THEN s
      ELSE [s EXCEPT !.bufs = Without(relinked, n), !.lists[a][target] = @ \ {n}]

\* Frees although events are pending.
FreeMutant(s, a, b, target) ==
  LET marked == [s EXCEPT !.bufs[b].status = target]
      merged == MergeNext(MergePrev(marked, a, b, target), a, b, target)
  IN  [s |-> [merged EXCEPT !.lists[a][target] = @ \cup {b}], freed |-> TRUE]

\* MemBufAllocator::Free: a buffer with pending events only changes status;
\* otherwise it is merged with its neighbours and listed as free.
Free(s, a, b, target) ==
  LET marked == [s EXCEPT !.bufs[b].status = target]
      merged == MergeNext(MergePrev(marked, a, b, target), a, b, target)
  IN  IF ~ IsEventNotUsed(s.bufs[b])
      THEN [s |-> [s EXCEPT !.bufs[b].status = "UsedByEvent"], freed |-> FALSE]
      ELSE [s |-> [merged EXCEPT !.lists[a][target] = @ \cup {b}], freed |-> TRUE]

\* FreeIdleMemsByEagerFree of one allocator: every idle buffer, in the order
\* of the free list, becomes eager-free; then all that are lose their pages.
FreeIdleMems(s, a) ==
  LET before(b, c) == \/ s.bufs[b].size < s.bufs[c].size
                      \/ s.bufs[b].size = s.bufs[c].size /\ s.bufs[b].addr < s.bufs[c].addr
      step(t, b) == [Free(t, a, b, "EagerFree").s EXCEPT
                       !.stat.eager_free_size = (@ + t.bufs[b].size) % SizeT]
      EagerFreed(t) == [t EXCEPT !.lists[a]["Idle"] = {},
                                 !.vmm = FoldSet(LAMBDA b, v : EagerFreeDeviceMem(v, t.bufs[b].addr, t.bufs[b].size),
                                                 @, t.lists[a]["EagerFree"])]
  IN  EagerFreed(MapThenFoldSet(LAMBDA b, t : step(t, b), s, LAMBDA b : b,
                                LAMBDA T : CHOOSE c \in T : \A b \in T : b = c \/ before(b, c),
                                s.lists[a]["Idle"]))
=============================================================================
