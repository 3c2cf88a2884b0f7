--------------------------- MODULE MemPoolLemmas ----------------------------
(***************************************************************************)
(* The inductive invariant of the memory pool, and what the routines of    *)
(* MemBufAllocator, the VMM adapter, SyncAllEvents and WaitEvent make of a *)
(* pool state in order: merging and splitting, counting bytes, folds,      *)
(* pages and handles, Malloc and eager freeing.  The public operations and *)
(* the theorems are in MemPoolProofs.                                      *)
(***************************************************************************)
EXTENDS MemPool, TLAPS, FiniteSetTheorems, NaturalsInduction, WellFoundedInduction

-----------------------------------------------------------------------------
(* The inductive invariant.                                                *)

\* A MemBuf.
BufType ==
  [size : Nat, addr : Nat, stream_id : Streams, mem_block : Nat, status : BufStatus,
   prev : Nat, next : Nat, events : [UserStreams -> Seq(Nat)]]

End(b) == b.addr + b.size

\* A MemBlock, whatever its border.
BlockOK(blk) ==
  /\ {"size", "owner", "min", "max"} \subseteq DOMAIN blk
  /\ blk.size \in Nat \ {0}
  /\ blk.owner \in Allocators

\* A buffer lies in its block.
BufOK(bufs, blocks, b) ==
  LET buf == bufs[b]
  IN  /\ b \in BufIds
      /\ buf \in BufType
      /\ buf.size > 0
      /\ buf.mem_block \in DOMAIN blocks
      /\ buf.mem_block <= buf.addr
      /\ End(buf) <= buf.mem_block + blocks[buf.mem_block].size

\* prev_ and next_ chain the buffers of a block in address order, from its first
\* byte to its last.
LinksExact(bufs, blocks) ==
  \A b \in DOMAIN bufs :
    LET buf == bufs[b]
    IN  /\ buf.next = NoBuf => End(buf) = buf.mem_block + blocks[buf.mem_block].size
        /\ buf.next # NoBuf => /\ buf.next \in DOMAIN bufs
                               /\ bufs[buf.next].addr = End(buf)
                               /\ bufs[buf.next].prev = b
                               /\ bufs[buf.next].mem_block = buf.mem_block
        /\ buf.prev = NoBuf => buf.addr = buf.mem_block
        /\ buf.prev # NoBuf => buf.prev \in DOMAIN bufs /\ bufs[buf.prev].next = b

\* No byte is in two buffers, and every byte of a block is in one.
BytesExact(bufs, blocks) ==
  /\ \A b, c \in DOMAIN bufs : b # c => End(bufs[b]) <= bufs[c].addr \/ End(bufs[c]) <= bufs[b].addr
  /\ \A base \in DOMAIN blocks : \A x \in base .. base + blocks[base].size - 1 :
       \E b \in DOMAIN bufs : /\ bufs[b].mem_block = base
                              /\ bufs[b].addr <= x /\ x < End(bufs[b])

\* The blocks lie in the address space.
BlocksOK(blocks) ==
  \A base \in DOMAIN blocks : /\ base \in Bytes
                              /\ BlockOK(blocks[base])
                              /\ base + blocks[base].size - 1 \in Bytes

\* The buffers of the pool are the blocks, cut.
Shape(bufs, blocks) ==
  /\ \A b \in DOMAIN bufs : BufOK(bufs, blocks, b)
  /\ BlocksOK(blocks)
  /\ LinksExact(bufs, blocks)
  /\ BytesExact(bufs, blocks)

\* new is bufs with l and the buffer r behind it joined to one, called k.
Joined(bufs, new, l, r, k) ==
  /\ l \in DOMAIN bufs /\ bufs[l].next = r /\ r # NoBuf
  /\ k \in {l, r}
  /\ DOMAIN new = (DOMAIN bufs \ {l, r}) \cup {k}
  /\ \A c \in DOMAIN new : new[c] \in BufType
  /\ new[k].addr = bufs[l].addr
  /\ new[k].size = bufs[l].size + bufs[r].size
  /\ new[k].mem_block = bufs[l].mem_block
  /\ new[k].prev = bufs[l].prev
  /\ new[k].next = bufs[r].next
  /\ \A c \in DOMAIN bufs \ {l, r} :
       /\ new[c].addr = bufs[c].addr
       /\ new[c].size = bufs[c].size
       /\ new[c].mem_block = bufs[c].mem_block
       /\ new[c].next = IF bufs[c].next = l THEN k ELSE bufs[c].next
       /\ new[c].prev = IF bufs[c].prev = r THEN k ELSE bufs[c].prev

\* new is bufs with b cut at an address within it; the part behind is k.
Cut(bufs, new, b, k, at) ==
  /\ b \in DOMAIN bufs
  /\ k \in BufIds \ DOMAIN bufs
  /\ at \in Nat /\ bufs[b].addr < at /\ at < End(bufs[b])
  /\ DOMAIN new = DOMAIN bufs \cup {k}
  /\ \A c \in DOMAIN new : new[c] \in BufType
  /\ new[b].addr = bufs[b].addr
  /\ new[b].size = at - bufs[b].addr
  /\ new[b].mem_block = bufs[b].mem_block
  /\ new[b].prev = bufs[b].prev
  /\ new[b].next = k
  /\ new[k].addr = at
  /\ new[k].size = End(bufs[b]) - at
  /\ new[k].mem_block = bufs[b].mem_block
  /\ new[k].prev = b
  /\ new[k].next = bufs[b].next
  /\ \A c \in DOMAIN bufs \ {b} :
       /\ new[c].addr = bufs[c].addr
       /\ new[c].size = bufs[c].size
       /\ new[c].mem_block = bufs[c].mem_block
       /\ new[c].next = bufs[c].next
       /\ new[c].prev = IF bufs[c].prev = b THEN k ELSE bufs[c].prev

\* The fields of a pool state.
Fields == {"bufs", "blocks", "lists", "addrs", "pairs", "stat", "defrag", "inuse", "vmm"}

\* The allocator that owns the block of buffer b.
Owner(s, b) == s.blocks[s.bufs[b].mem_block].owner

\* The buffers of allocator a, out of a set, with that status.
Listed(s, set, a, st) == {b \in set : s.bufs[b].status = st /\ Owner(s, b) = a}

\* The buffers of the blocks, and lists that can be updated.
Pooled(s) ==
  /\ Fields \subseteq DOMAIN s
  /\ Shape(s.bufs, s.blocks)
  /\ s.lists \in [Allocators -> [FreeStatus -> SUBSET Nat]]

\* The two lists of an allocator hold its free buffers, those in X aside.
ListsExact(s, X) ==
  \A a \in Allocators, st \in FreeStatus : s.lists[a][st] = Listed(s, DOMAIN s.bufs \ X, a, st)

\* Buffer c and the one behind it could not be merged.
Apart(bufs, c) ==
  bufs[c].next # NoBuf /\ bufs[c].status \in FreeStatus => bufs[bufs[c].next].status # bufs[c].status

Merged(bufs) == \A c \in DOMAIN bufs : Apart(bufs, c)

\* The index holds the buffers in use, those in X aside, and no others.
AddrsExact(s, X) ==
  /\ \A addr \in DOMAIN s.addrs :
       LET e == s.addrs[addr]
       IN  /\ e.buf \in DOMAIN s.bufs \ X
           /\ s.bufs[e.buf].addr = addr
           /\ s.bufs[e.buf].status \notin FreeStatus
           /\ e.alloc = Owner(s, e.buf)
  /\ \A b \in DOMAIN s.bufs \ X :
       s.bufs[b].status \notin FreeStatus => /\ s.bufs[b].addr \in DOMAIN s.addrs
                                             /\ s.addrs[s.bufs[b].addr].buf = b

\* A free buffer has no events.
QuietFree(bufs) == \A b \in DOMAIN bufs : bufs[b].status \in FreeStatus => bufs[b].events = NoEvents

\* A buffer that only waits for its events has some, those in X aside.
Deferred(bufs, X) ==
  \A b \in DOMAIN bufs \ X : bufs[b].status = "UsedByEvent" => bufs[b].events # NoEvents

\* stream_pair_mem_bufs_ holds the buffers with events.
PairsExact(s) ==
  /\ s.pairs \in [UserStreams \X Streams -> SUBSET Nat]
  /\ \A u \in UserStreams, m \in Streams :
       s.pairs[<<u, m>>] = {b \in DOMAIN s.bufs : s.bufs[b].stream_id = m /\ s.bufs[b].events[u] # <<>>}

\* What a task may still touch is in a buffer that has the event of that task.
Held(bufs, x) ==
  \E b \in DOMAIN bufs :
    /\ x.byte \in BytesOf(bufs[b])
    /\ x.mem = bufs[b].stream_id
    /\ \E i \in 1 .. Len(bufs[b].events[x.user]) : bufs[b].events[x.user][i] = x.task

InUseHeld(s) == ~ FreePartWithEvents => \A x \in s.inuse : x.user \in UserStreams /\ Held(s.bufs, x)

\* The buffers are in order, whatever the indexes say.
Calm(s) == Pooled(s) /\ Merged(s.bufs) /\ QuietFree(s.bufs)

\* The events are in order.
Waiting(s) == PairsExact(s) /\ InUseHeld(s)

\* Buffers, lists and index are in order, those in X aside that wait for no event.
Kept(s, X) ==
  /\ Calm(s)
  /\ ListsExact(s, {})
  /\ AddrsExact(s, {})
  /\ Deferred(s.bufs, X)

\* The bytes of the buffers that are eager-free.
EagerBytes(bufs) ==
  {x \in Bytes : \E b \in DOMAIN bufs : bufs[b].status = "EagerFree" /\ bufs[b].addr <= x /\ x < End(bufs[b])}

\* The bytes of a page.
PageBytes(p) == p * PageSize .. p * PageSize + PageSize - 1

\* The adapter has reserved pages from 0 on, its handles are where they should be, and
\* the page at address 0 has none.
AdapterOK(v) ==
  /\ DOMAIN v = {"map", "mapped", "cached", "made"}
  /\ v.made \in Nat
  /\ \E n \in Nat : v.map \in [0 .. n - 1 -> Nat]
  /\ HandlesOf(v)
  /\ 0 \notin MappedPages(v)

\* A block is made of whole pages, and a page has a handle just when one of its bytes
\* is in a buffer that is not eager-free.
PagesExact(v, bufs, base, size) ==
  \E i, j \in DOMAIN v.map :
    /\ base = i * PageSize /\ base + size = j * PageSize + PageSize
    /\ \A p \in i .. j : p \in MappedPages(v) <=> ~ (PageBytes(p) \subseteq EagerBytes(bufs))

\* The pages are in order.  Without VMM nothing is ever eager-free.
Paged(s) ==
  /\ AdapterOK(s.vmm)
  /\ EnableVmm => \A base \in DOMAIN s.blocks : PagesExact(s.vmm, s.bufs, base, s.blocks[base].size)
  /\ ~ EnableVmm => EagerBytes(s.bufs) = {}

\* A pool state between two operations.
Good(s) == Kept(s, {}) /\ Waiting(s) /\ Paged(s)

\* std::accumulate over a size list.
Total(sizes) == FoldLeft(+, 0, sizes)

\* Between the halves of AllocContinuousTensorMem its buffer is in use, as large as
\* the pieces together, and without events.
ContOK(s, c) ==
  c # NoCont =>
    /\ c.addr \in DOMAIN s.addrs
    /\ c.sizes \in SizeLists /\ Len(c.sizes) > 1
    /\ LET buf == s.bufs[s.addrs[c.addr].buf]
       IN  /\ buf.status = "Used" /\ buf.events = NoEvents
           /\ buf.size = Total(c.sizes)

\* The eager-free buffers of bufs are those of new.
EagerKept(bufs, new) ==
  /\ \A c \in DOMAIN bufs : bufs[c].status = "EagerFree" =>
       c \in DOMAIN new /\ new[c].status = "EagerFree" /\ new[c].addr = bufs[c].addr /\ new[c].size = bufs[c].size
  /\ \A c \in DOMAIN new : new[c].status = "EagerFree" => c \in DOMAIN bufs /\ bufs[c].status = "EagerFree"

\* The bytes of a buffer, of the buffers in the index, of those with events, of blocks.
Span(buf) == {x \in Bytes : buf.addr <= x /\ x < End(buf)}

UsedBytes(s) == {x \in Bytes : \E addr \in DOMAIN s.addrs : x \in Span(s.bufs[s.addrs[addr].buf])}

EventBytes(bufs) == {x \in Bytes : \E b \in DOMAIN bufs : bufs[b].events # NoEvents /\ x \in Span(bufs[b])}

BlockBytes(blocks) == {x \in Bytes : \E c \in DOMAIN blocks : c <= x /\ x < c + blocks[c].size}

StatFields ==
  {"used_size", "peak_size", "alloc_size", "used_by_event_size", "eager_free_size", "eager_drift",
   "temp_used_size", "temp_used_by_event_size", "temp_peak_size", "temp_alloc_size"}

\* The border of a block covers its buffers in use; 0 is no address, so a border that
\* was set is not taken for one that was not.
Bordered(s) ==
  /\ \A c \in DOMAIN s.blocks : s.blocks[c].min \in Nat /\ s.blocks[c].max \in Nat
  /\ \A b \in DOMAIN s.bufs : s.bufs[b].status \notin FreeStatus =>
       LET blk == s.blocks[s.bufs[b].mem_block]
       IN  0 < blk.min /\ blk.min <= s.bufs[b].addr /\ End(s.bufs[b]) <= blk.max

\* The recorded peaks are not below what is in use.
Peaked(st) ==
  /\ st.peak_size >= st.used_size
  /\ st.temp_peak_size >= st.used_size - st.temp_used_size

\* The statistics are right.  Bytes are counted, not buffers: cutting and merging do
\* not change the bytes.  A buffer in use is counted from when it is in the index.
CountedRest(s) ==
  /\ s.stat \in [StatFields -> Int]
  /\ s.stat.used_size = Cardinality(UsedBytes(s))
  /\ s.stat.alloc_size = Cardinality(BlockBytes(s.blocks))
  /\ s.stat.used_by_event_size >= Cardinality(EventBytes(s.bufs))
  /\ Peaked(s.stat)
  /\ Bordered(s)

\* A number as size_t holds it.
Wrapped(n) == n % SizeT

\* eager_free_size_ is short of the eager-free bytes by what failed mappings took off.
EagerExact(st, bufs) == st.eager_free_size = Wrapped(Cardinality(EagerBytes(bufs)) - st.eager_drift)

Counted(s) == CountedRest(s) /\ EagerExact(s.stat, s.bufs)

PoolInv == Good(pool) /\ ContOK(pool, cont) /\ Counted(pool)

-----------------------------------------------------------------------------
(* Arithmetic of size_t.                                                   *)

LEMMA Quotient ==
  ASSUME NEW a \in Int, NEW w \in Nat \ {0}
  PROVE  \E q \in Int : a = w * q + (a % w)
<1>1. a \div w \in Int /\ a = w * (a \div w) + (a % w)
  OBVIOUS
<1> QED
  BY <1>1

LEMMA Multiple ==
  ASSUME NEW k \in Int, NEW w \in Nat \ {0}
  PROVE  (k >= 1 => w * k >= w) /\ (k <= -1 => w * k <= 0 - w) /\ (k = 0 => w * k = 0)
OBVIOUS

\* Two remainders that differ by a multiple are equal.
LEMMA SameRemainder ==
  ASSUME NEW w \in Nat \ {0}, NEW x \in 0 .. w - 1, NEW y \in 0 .. w - 1,
         NEW k \in Int, x = y + w * k
  PROVE  x = y
<1>1. PICK n \in Int : n = w * k
  OBVIOUS
<1>2. (k >= 1 => n >= w) /\ (k <= -1 => n <= 0 - w) /\ (k = 0 => n = 0)
  BY <1>1, Multiple
<1> QED
  BY <1>1, <1>2

\* Sums may be reduced before they are added up.
LEMMA ModAdd ==
  ASSUME NEW a \in Int, NEW b \in Int, NEW w \in Nat \ {0}
  PROVE  ((a % w) + b) % w = (a + b) % w
<1>1. PICK c \in Int : c = a % w
  OBVIOUS
<1>2. PICK x \in 0 .. w - 1 : x = (c + b) % w
  OBVIOUS
<1>3. PICK y \in 0 .. w - 1 : y = (a + b) % w
  OBVIOUS
<1>4. PICK q \in Int : a = w * q + c
  BY <1>1, Quotient
<1>5. PICK r \in Int : c + b = w * r + x
  <2>1. PICK d \in Int : d = c + b
    OBVIOUS
  <2>2. x = d % w
    BY <1>2, <2>1
  <2> QED
    BY <2>1, <2>2, Quotient
<1>6. PICK p \in Int : a + b = w * p + y
  <2>1. PICK d \in Int : d = a + b
    OBVIOUS
  <2>2. y = d % w
    BY <1>3, <2>1
  <2> QED
    BY <2>1, <2>2, Quotient
<1>7. PICK k \in Int : k = p - q - r
  OBVIOUS
<1>8. w * k = w * p - w * q - w * r
  BY <1>7
<1>9. x = y + w * k
  BY <1>4, <1>5, <1>6, <1>8
<1>10. x = y
  BY <1>9, SameRemainder
<1> QED
  BY <1>1, <1>2, <1>3, <1>10

\* So size_t may wrap at every step, or once in the end.
LEMMA WrapAdd ==
  ASSUME NEW a \in Int, NEW b \in Int
  PROVE  /\ Wrapped(a) \in Nat
         /\ Wrapped(Wrapped(a) + b) = Wrapped(a + b)
         /\ Wrapped(Wrapped(a) - b) = Wrapped(a - b)
<1>1. SizeT \in Nat \ {0}
  BY PoolAssumption
<1>2. PICK c : c = 0 - b
  OBVIOUS
<1>3. c \in Int
  BY <1>2
<1>4. a % SizeT \in Nat
  BY <1>1
<1>5. (a % SizeT) + c = (a % SizeT) - b /\ a + c = a - b
  BY <1>2, <1>4
<1>6. ((a % SizeT) + c) % SizeT = (a + c) % SizeT /\ ((a % SizeT) + b) % SizeT = (a + b) % SizeT
  BY <1>1, <1>3, ModAdd
<1> QED
  BY <1>4, <1>5, <1>6 DEF Wrapped

-----------------------------------------------------------------------------
(* Pool states with the same buffers and indexes.                          *)

LEMMA SameAddrs ==
  ASSUME NEW s, NEW t, NEW Y, AddrsExact(s, Y), t.bufs = s.bufs, t.blocks = s.blocks, t.addrs = s.addrs
  PROVE  AddrsExact(t, Y)
<1>1. \A b : Owner(t, b) = Owner(s, b)
  BY DEF Owner
<1> QED
  BY <1>1 DEF AddrsExact

\* More free buffers do not matter to the index.
LEMMA GrownAddrs ==
  ASSUME NEW s, NEW t, AddrsExact(s, {}), t.addrs = s.addrs, DOMAIN s.bufs \subseteq DOMAIN t.bufs,
         \A c \in DOMAIN s.bufs : /\ t.bufs[c].addr = s.bufs[c].addr /\ t.bufs[c].status = s.bufs[c].status
                                  /\ Owner(t, c) = Owner(s, c),
         \A c \in DOMAIN t.bufs \ DOMAIN s.bufs : t.bufs[c].status \in FreeStatus
  PROVE  AddrsExact(t, {})
<1>1. ASSUME NEW at \in DOMAIN t.addrs
      PROVE  /\ t.addrs[at].buf \in DOMAIN t.bufs
             /\ t.bufs[t.addrs[at].buf].addr = at
             /\ t.bufs[t.addrs[at].buf].status \notin FreeStatus
             /\ t.addrs[at].alloc = Owner(t, t.addrs[at].buf)
  BY <1>1 DEF AddrsExact
<1>2. ASSUME NEW b \in DOMAIN t.bufs, t.bufs[b].status \notin FreeStatus
      PROVE  t.bufs[b].addr \in DOMAIN t.addrs /\ t.addrs[t.bufs[b].addr].buf = b
  BY <1>2 DEF AddrsExact
<1> QED
  BY <1>1, <1>2 DEF AddrsExact

LEMMA SameLists ==
  ASSUME NEW s, NEW t, NEW X, ListsExact(s, X), t.bufs = s.bufs, t.blocks = s.blocks, t.lists = s.lists
  PROVE  ListsExact(t, X)
<1>1. \A b : Owner(t, b) = Owner(s, b)
  BY DEF Owner
<1>2. \A set, a, st : Listed(t, set, a, st) = Listed(s, set, a, st)
  BY <1>1 DEF Listed
<1> QED
  BY <1>2 DEF ListsExact

LEMMA SameCalm ==
  ASSUME NEW s, NEW t, Calm(s), t.bufs = s.bufs, t.blocks = s.blocks, t.lists = s.lists, Fields \subseteq DOMAIN t
  PROVE  Calm(t)
BY DEF Calm, Pooled

LEMMA SameKept ==
  ASSUME NEW s, NEW t, NEW X, Kept(s, X), t.bufs = s.bufs, t.blocks = s.blocks, t.lists = s.lists,
         t.addrs = s.addrs, Fields \subseteq DOMAIN t
  PROVE  Kept(t, X)
<1>1. Calm(s) /\ ListsExact(s, {}) /\ AddrsExact(s, {}) /\ Deferred(s.bufs, X)
  BY DEF Kept
<1>2. Calm(t) /\ ListsExact(t, {}) /\ AddrsExact(t, {})
  BY <1>1, SameCalm, SameLists, SameAddrs
<1> QED
  BY <1>1, <1>2 DEF Kept

\* The pages are the same while the adapter and the eager-free buffers are.
LEMMA SamePages ==
  ASSUME NEW s, NEW t, Paged(s), t.vmm = s.vmm, t.blocks = s.blocks, EagerKept(s.bufs, t.bufs)
  PROVE  Paged(t)
<1>1. EagerBytes(t.bufs) = EagerBytes(s.bufs)
  <2>1. ASSUME NEW x \in Bytes PROVE x \in EagerBytes(t.bufs) <=> x \in EagerBytes(s.bufs)
    BY DEF EagerBytes, EagerKept, End
  <2> QED
    BY <2>1 DEF EagerBytes
<1> QED
  BY <1>1 DEF Paged, PagesExact

\* So they are while the eager-free bytes are.
LEMMA EagerPages ==
  ASSUME NEW s, NEW t, Paged(s), t.vmm = s.vmm, t.blocks = s.blocks, EagerBytes(t.bufs) = EagerBytes(s.bufs)
  PROVE  Paged(t)
BY DEF Paged, PagesExact

-----------------------------------------------------------------------------
(* Numbers.                                                                *)

\* Every set of numbers has a least member.
LEMMA LeastNumber ==
  ASSUME NEW T, T \subseteq Nat, T # {}
  PROVE  Min(T) \in T /\ \A y \in T : Min(T) <= y
<1> DEFINE R == OpToRel(<, Nat)
<1>1. IsWellFoundedOn(R, Nat)
  BY NatLessThanWellFounded
<1>2. \A x, y \in Nat : y < x => <<y, x>> \in R
  BY DEF OpToRel
<1> HIDE DEF R
<1>3. PICK x \in T : \A y \in T : ~ (<<y, x>> \in R)
  BY <1>1, WFMin
<1>4. ASSUME NEW y \in T PROVE x <= y
  <2>1. x \in Nat /\ y \in Nat
    OBVIOUS
  <2>2. ~ (y < x)
    BY <1>2, <1>3, <2>1
  <2> QED
    BY <2>1, <2>2
<1>5. \E z \in T : \A y \in T : z <= y
  BY <1>4
<1> QED
  BY <1>5 DEF Min

\* Rounding a size up to a multiple leaves it positive.
LEMMA RoundedUp ==
  ASSUME NEW p \in Nat \ {0}, NEW x \in Nat \ {0}
  PROVE  ((x + p - 1) \div p) * p \in Nat \ {0}
OBVIOUS

\* The address space is a finite set of numbers.
LEMMA BytesFinite ==
  /\ Bytes \subseteq Nat /\ IsFiniteSet(Bytes)
  /\ Cardinality(Bytes) \in Nat
  /\ BufIds \subseteq Nat \ {NoBuf}
<1>1. PICK m, n \in Int : Bytes = m .. n /\ m >= 0
  BY PoolAssumption, VmmAssumption DEF Bytes
<1>2. IsFiniteSet(Bytes)
  BY <1>1, FS_Interval
<1>3. Cardinality(Bytes) \in Nat
  BY <1>2, FS_CardinalityType
<1> QED
  BY <1>1, <1>2, <1>3 DEF BufIds, NoBuf

-----------------------------------------------------------------------------
(* Buffers and their neighbours.                                           *)

\* What the shape says of a buffer and of two neighbours.
LEMMA ShapeFacts ==
  ASSUME NEW bufs, NEW blocks, Shape(bufs, blocks), NEW b \in DOMAIN bufs
  PROVE  /\ b \in Nat /\ b # 0 /\ b \in BufIds
         /\ bufs[b] \in BufType
         /\ bufs[b].addr \in Nat /\ bufs[b].size \in Nat /\ bufs[b].size > 0
         /\ bufs[b].prev \in Nat /\ bufs[b].next \in Nat /\ bufs[b].mem_block \in Nat
         /\ End(bufs[b]) = bufs[b].addr + bufs[b].size
         /\ bufs[b].mem_block \in DOMAIN blocks
         /\ bufs[b].mem_block <= bufs[b].addr
         /\ End(bufs[b]) <= bufs[b].mem_block + blocks[bufs[b].mem_block].size
<1>1. BufOK(bufs, blocks, b)
  BY DEF Shape
<1>2. b \in BufIds
  BY <1>1 DEF BufOK
<1>3. b \in Nat /\ b # 0
  BY <1>2, BytesFinite DEF NoBuf
<1> QED
  BY <1>1, <1>3 DEF BufOK, BufType, End

\* A buffer starts at a byte of the address space.
LEMMA AddrInBytes ==
  ASSUME NEW bufs, NEW blocks, Shape(bufs, blocks), NEW b \in DOMAIN bufs
  PROVE  \A x \in bufs[b].addr .. End(bufs[b]) - 1 : x \in Bytes
<1>1. PICK lo, hi \in Int : Bytes = lo .. hi
  BY PoolAssumption, VmmAssumption DEF Bytes
<1>2. PICK base : base = bufs[b].mem_block
  OBVIOUS
<1>3. base \in DOMAIN blocks /\ base <= bufs[b].addr /\ End(bufs[b]) <= base + blocks[base].size
      /\ bufs[b].addr \in Nat /\ End(bufs[b]) = bufs[b].addr + bufs[b].size /\ bufs[b].size \in Nat
  BY <1>2, ShapeFacts
<1>4. base \in Bytes /\ base + blocks[base].size - 1 \in Bytes /\ blocks[base].size \in Nat
  BY <1>3 DEF Shape, BlocksOK, BlockOK
<1> QED
  BY <1>1, <1>3, <1>4, SMTT(40)

LEMMA NextFacts ==
  ASSUME NEW bufs, NEW blocks, Shape(bufs, blocks), NEW b \in DOMAIN bufs,
         bufs[b].next # NoBuf
  PROVE  LET n == bufs[b].next
         IN  /\ n \in DOMAIN bufs /\ n # b
             /\ bufs[n].addr = bufs[b].addr + bufs[b].size
             /\ bufs[n].prev = b
             /\ bufs[n].mem_block = bufs[b].mem_block
<1> DEFINE n == bufs[b].next
<1>1. /\ n \in DOMAIN bufs /\ bufs[n].addr = End(bufs[b])
      /\ bufs[n].prev = b /\ bufs[n].mem_block = bufs[b].mem_block
  BY DEF Shape, LinksExact
<1>2. End(bufs[b]) = bufs[b].addr + bufs[b].size /\ bufs[b].size > 0
      /\ bufs[b].addr \in Nat /\ bufs[b].size \in Nat
  BY ShapeFacts
<1>3. n # b
  BY <1>1, <1>2
<1> QED
  BY <1>1, <1>2, <1>3

LEMMA PrevFacts ==
  ASSUME NEW bufs, NEW blocks, Shape(bufs, blocks), NEW b \in DOMAIN bufs,
         bufs[b].prev # NoBuf
  PROVE  LET p == bufs[b].prev
         IN  /\ p \in DOMAIN bufs /\ p # b
             /\ bufs[p].next = b
             /\ bufs[b].addr = bufs[p].addr + bufs[p].size
             /\ bufs[p].mem_block = bufs[b].mem_block
<1> DEFINE p == bufs[b].prev
<1>1. p \in DOMAIN bufs /\ bufs[p].next = b
  BY DEF Shape, LinksExact
<1>2. b # NoBuf
  BY ShapeFacts DEF NoBuf
<1> QED
  BY <1>1, <1>2, NextFacts

-----------------------------------------------------------------------------
(* Counting bytes.                                                         *)

LEMMA MaxOfTwo ==
  ASSUME NEW a \in Int, NEW b \in Int, NEW m, m = Max({a, b})
  PROVE  m \in {a, b} /\ m >= a /\ m >= b
<1>1. \E x \in {a, b} : \A y \in {a, b} : x >= y
  BY SMT
<1>2. m \in {a, b} /\ \A y \in {a, b} : m >= y
  BY <1>1 DEF Max
<1> QED
  BY <1>2

LEMMA MinOfTwo ==
  ASSUME NEW a \in Int, NEW b \in Int, NEW m, m = Min({a, b})
  PROVE  m \in {a, b} /\ m <= a /\ m <= b
<1>1. \E x \in {a, b} : \A y \in {a, b} : x <= y
  BY SMT
<1>2. m \in {a, b} /\ \A y \in {a, b} : m <= y
  BY <1>1 DEF Min
<1> QED
  BY <1>2

\* Sets of bytes, one in the other.
LEMMA BytesLess ==
  ASSUME NEW A, NEW B, A \subseteq B, B \subseteq Bytes
  PROVE  /\ Cardinality(A) \in Nat /\ Cardinality(B) \in Nat
         /\ Cardinality(A) <= Cardinality(B)
         /\ Cardinality(B \ A) = Cardinality(B) - Cardinality(A)
<1>1. IsFiniteSet(B)
  BY BytesFinite, FS_Subset
<1>2. IsFiniteSet(A) /\ Cardinality(A) <= Cardinality(B)
  BY <1>1, FS_Subset
<1>3. Cardinality(A) \in Nat /\ Cardinality(B) \in Nat
  BY <1>1, <1>2, FS_CardinalityType
<1>4. B \cap A = A
  OBVIOUS
<1>5. Cardinality(B \ A) = Cardinality(B) - Cardinality(B \cap A)
  BY <1>1, FS_Difference
<1> QED
  BY <1>2, <1>3, <1>4, <1>5

LEMMA BytesApart ==
  ASSUME NEW A, NEW B, A \subseteq Bytes, B \subseteq Bytes, A \cap B = {}
  PROVE  /\ Cardinality(A) \in Nat /\ Cardinality(B) \in Nat
         /\ Cardinality(A \cup B) = Cardinality(A) + Cardinality(B)
<1>1. A \subseteq A \cup B /\ A \cup B \subseteq Bytes /\ (A \cup B) \ A = B
  OBVIOUS
<1>2. /\ Cardinality(A) \in Nat /\ Cardinality(A \cup B) \in Nat
      /\ Cardinality((A \cup B) \ A) = Cardinality(A \cup B) - Cardinality(A)
  BY <1>1, BytesLess
<1>3. Cardinality(B) = Cardinality(A \cup B) - Cardinality(A)
  BY <1>1, <1>2
<1>4. Cardinality(B) \in Nat
  BY BytesLess
<1> QED
  BY <1>2, <1>3, <1>4

\* A range of the address space has as many bytes as it is long.
LEMMA RangeCount ==
  ASSUME NEW at \in Nat, NEW len \in Nat \ {0}, at \in Bytes, at + len - 1 \in Bytes
  PROVE  Cardinality({x \in Bytes : at <= x /\ x < at + len}) = len
<1>1. PICK lo, hi \in Int : Bytes = lo .. hi
  BY PoolAssumption, VmmAssumption DEF Bytes
<1>2. {x \in Bytes : at <= x /\ x < at + len} = at .. at + len - 1
  BY <1>1
<1>3. Cardinality(at .. at + len - 1) = IF at > at + len - 1 THEN 0 ELSE at + len - 1 - at + 1
  BY FS_Interval
<1>4. ~ (at > at + len - 1) /\ at + len - 1 - at + 1 = len
  OBVIOUS
<1>5. Cardinality(at .. at + len - 1) = len
  BY <1>3, <1>4
<1> QED
  BY <1>2, <1>5

LEMMA SpanCount ==
  ASSUME NEW bufs, NEW blocks, Shape(bufs, blocks), NEW b \in DOMAIN bufs
  PROVE  Span(bufs[b]) \subseteq Bytes /\ Cardinality(Span(bufs[b])) = bufs[b].size
<1>1. /\ bufs[b].addr \in Nat /\ bufs[b].size \in Nat \ {0}
      /\ End(bufs[b]) = bufs[b].addr + bufs[b].size
  BY ShapeFacts
<1>2. bufs[b].addr \in Bytes /\ bufs[b].addr + bufs[b].size - 1 \in Bytes
  BY <1>1, AddrInBytes
<1> QED
  BY <1>1, <1>2, RangeCount DEF Span

\* No byte is in two buffers.
LEMMA SpansApart ==
  ASSUME NEW bufs, NEW blocks, Shape(bufs, blocks), NEW b \in DOMAIN bufs, NEW c \in DOMAIN bufs,
         NEW x \in Span(bufs[b]), x \in Span(bufs[c])
  PROVE  b = c
<1>1. End(bufs[b]) \in Nat /\ End(bufs[c]) \in Nat /\ bufs[b].addr \in Nat /\ bufs[c].addr \in Nat /\ x \in Nat
  BY ShapeFacts, BytesFinite DEF Span
<1>2. bufs[b].addr <= x /\ x < End(bufs[b]) /\ bufs[c].addr <= x /\ x < End(bufs[c])
  BY DEF Span
<1>3. b # c => End(bufs[b]) <= bufs[c].addr \/ End(bufs[c]) <= bufs[b].addr
  BY DEF Shape, BytesExact
<1> QED
  BY <1>1, <1>2, <1>3

\* Every buffer in use of t lies in one of s.
Within(s, t) ==
  \A c \in DOMAIN t.bufs : t.bufs[c].status \notin FreeStatus =>
    \E d \in DOMAIN s.bufs : /\ s.bufs[d].status \notin FreeStatus
                             /\ s.bufs[d].mem_block = t.bufs[c].mem_block
                             /\ s.bufs[d].addr <= t.bufs[c].addr /\ End(t.bufs[c]) <= End(s.bufs[d])

LEMMA WithinBorder ==
  ASSUME NEW s, NEW t, Shape(s.bufs, s.blocks), Shape(t.bufs, t.blocks), t.blocks = s.blocks,
         Bordered(s), Within(s, t)
  PROVE  Bordered(t)
<1>1. ASSUME NEW c \in DOMAIN t.bufs, t.bufs[c].status \notin FreeStatus
      PROVE  LET blk == t.blocks[t.bufs[c].mem_block]
             IN  0 < blk.min /\ blk.min <= t.bufs[c].addr /\ End(t.bufs[c]) <= blk.max
  <2>1. PICK d \in DOMAIN s.bufs : /\ s.bufs[d].status \notin FreeStatus
                                   /\ s.bufs[d].mem_block = t.bufs[c].mem_block
                                   /\ s.bufs[d].addr <= t.bufs[c].addr /\ End(t.bufs[c]) <= End(s.bufs[d])
    BY <1>1 DEF Within
  <2>2. PICK blk : blk = s.blocks[s.bufs[d].mem_block]
    OBVIOUS
  <2>3. blk.min \in Nat /\ blk.max \in Nat /\ 0 < blk.min /\ blk.min <= s.bufs[d].addr /\ End(s.bufs[d]) <= blk.max
    BY <2>1, <2>2, ShapeFacts DEF Bordered
  <2>4. s.bufs[d].addr \in Nat /\ t.bufs[c].addr \in Nat /\ End(s.bufs[d]) \in Nat /\ End(t.bufs[c]) \in Nat
    BY ShapeFacts
  <2>5. blk.min <= t.bufs[c].addr /\ End(t.bufs[c]) <= blk.max
    BY <2>1, <2>3, <2>4
  <2> QED
    BY <2>1, <2>2, <2>3, <2>5
<1> QED
  BY <1>1 DEF Bordered

\* Statistics that did not change are still right while no more bytes have events and
\* the others are the same.
LEMMA StillRest ==
  ASSUME NEW s, NEW t, CountedRest(s), t.stat = s.stat, Shape(s.bufs, s.blocks), Shape(t.bufs, t.blocks),
         t.blocks = s.blocks, UsedBytes(t) = UsedBytes(s),
         EventBytes(t.bufs) \subseteq EventBytes(s.bufs), Within(s, t)
  PROVE  CountedRest(t)
<1>1. Cardinality(EventBytes(t.bufs)) \in Nat /\ Cardinality(EventBytes(s.bufs)) \in Nat
      /\ Cardinality(EventBytes(t.bufs)) <= Cardinality(EventBytes(s.bufs))
  BY BytesLess DEF EventBytes
<1>2. Bordered(t)
  BY WithinBorder DEF CountedRest
<1>3. s.stat.used_by_event_size \in Int /\ s.stat.used_by_event_size >= Cardinality(EventBytes(s.bufs))
  BY DEF CountedRest, StatFields
<1>4. t.stat.used_by_event_size >= Cardinality(EventBytes(t.bufs))
  BY <1>1, <1>3
<1> QED
  BY <1>2, <1>4 DEF CountedRest

LEMMA StillCounted ==
  ASSUME NEW s, NEW t, Counted(s), t.stat = s.stat, Shape(s.bufs, s.blocks), Shape(t.bufs, t.blocks),
         t.blocks = s.blocks, UsedBytes(t) = UsedBytes(s),
         EventBytes(t.bufs) \subseteq EventBytes(s.bufs), EagerBytes(t.bufs) = EagerBytes(s.bufs),
         Within(s, t)
  PROVE  Counted(t)
BY StillRest DEF Counted, EagerExact

\* The same buffers, blocks, index and statistics.
LEMMA SameCounted ==
  ASSUME NEW s, NEW t, t.bufs = s.bufs, t.blocks = s.blocks, t.addrs = s.addrs, t.stat = s.stat
  PROVE  Counted(s) => Counted(t)
BY DEF Counted, CountedRest, EagerExact, UsedBytes, Bordered

\* Buffers that are where they were have the same bytes.
LEMMA SameSpan ==
  ASSUME NEW b, NEW c, c.addr = b.addr, c.size = b.size
  PROVE  Span(c) = Span(b)
BY DEF Span, End

LEMMA SameUsed ==
  ASSUME NEW s, NEW t, t.addrs = s.addrs,
         \A addr \in DOMAIN s.addrs : Span(t.bufs[s.addrs[addr].buf]) = Span(s.bufs[s.addrs[addr].buf])
  PROVE  UsedBytes(t) = UsedBytes(s)
BY DEF UsedBytes

\* Joining two neighbours keeps the shape.
LEMMA JoinShape ==
  ASSUME NEW bufs, NEW blocks, Shape(bufs, blocks),
         NEW new, NEW l, NEW r, NEW k, Joined(bufs, new, l, r, k)
  PROVE  Shape(new, blocks)
<1> DEFINE D == DOMAIN bufs
           E == DOMAIN new
<1>1. /\ l \in D /\ r \in D /\ l # r /\ k \in {l, r} /\ r # NoBuf
      /\ bufs[l].next = r /\ bufs[r].prev = l
      /\ bufs[r].addr = bufs[l].addr + bufs[l].size
      /\ bufs[r].mem_block = bufs[l].mem_block
  BY NextFacts DEF Joined
<1>2. E = (D \ {l, r}) \cup {k} /\ E \subseteq D
  BY <1>1 DEF Joined
<1>3. \A c \in D : /\ c \in Nat /\ c # 0
                   /\ bufs[c].addr \in Nat /\ bufs[c].size \in Nat /\ bufs[c].size > 0
                   /\ bufs[c].prev \in Nat /\ bufs[c].next \in Nat
                   /\ bufs[c].mem_block \in Nat
                   /\ End(bufs[c]) = bufs[c].addr + bufs[c].size
  BY ShapeFacts
<1>4. /\ new[k].addr = bufs[l].addr
      /\ new[k].size = bufs[l].size + bufs[r].size
      /\ new[k].mem_block = bufs[l].mem_block
      /\ new[k].prev = bufs[l].prev
      /\ new[k].next = bufs[r].next
  BY DEF Joined
<1>5. \A c \in D \ {l, r} :
        /\ new[c].addr = bufs[c].addr
        /\ new[c].size = bufs[c].size
        /\ new[c].mem_block = bufs[c].mem_block
        /\ new[c].next = IF bufs[c].next = l THEN k ELSE bufs[c].next
        /\ new[c].prev = IF bufs[c].prev = r THEN k ELSE bufs[c].prev
  BY DEF Joined
<1>6. /\ End(new[k]) = End(bufs[r])
      /\ \A c \in D \ {l, r} : End(new[c]) = End(bufs[c])
  <2>1. End(new[k]) = bufs[l].addr + (bufs[l].size + bufs[r].size)
    BY <1>4 DEF End
  <2>2. End(bufs[r]) = (bufs[l].addr + bufs[l].size) + bufs[r].size
    BY <1>1, <1>3
  <2>3. \A x, y, z \in Nat : x + (y + z) = (x + y) + z
    OBVIOUS
  <2> QED
    BY <1>1, <1>3, <1>5, <2>1, <2>2, <2>3 DEF End
<1>7. \A c \in E : BufOK(new, blocks, c)
  <2>1. \A c \in E : new[c] \in BufType
    BY DEF Joined
  <2>2. \A c \in D : /\ c \in BufIds
                     /\ bufs[c].mem_block \in DOMAIN blocks
                     /\ bufs[c].mem_block <= bufs[c].addr
                     /\ End(bufs[c]) <= bufs[c].mem_block + blocks[bufs[c].mem_block].size
    BY ShapeFacts
  <2>3. BufOK(new, blocks, k)
    <3>1. new[k].size > 0 /\ k \in D /\ k \in E
      BY <1>1, <1>2, <1>3, <1>4
    <3>2. /\ new[k].mem_block \in DOMAIN blocks
          /\ new[k].mem_block <= new[k].addr
          /\ End(new[k]) <= new[k].mem_block + blocks[new[k].mem_block].size
      BY <1>1, <1>4, <1>6, <2>2
    <3> QED
      BY <2>1, <2>2, <3>1, <3>2 DEF BufOK
  <2>4. ASSUME NEW c \in E, c # k PROVE BufOK(new, blocks, c)
    <3>1. c \in D \ {l, r}
      BY <1>2, <2>4
    <3>2. /\ new[c].addr = bufs[c].addr
          /\ new[c].size = bufs[c].size
          /\ new[c].mem_block = bufs[c].mem_block
          /\ End(new[c]) = End(bufs[c])
      BY <3>1, <1>5, <1>6
    <3> QED
      BY <3>1, <3>2, <2>1, <2>2, <1>3 DEF BufOK
  <2> QED
    BY <2>3, <2>4
<1>8. LinksExact(new, blocks)
  <2> SUFFICES ASSUME NEW b \in E
               PROVE  /\ new[b].next = NoBuf => End(new[b]) = new[b].mem_block + blocks[new[b].mem_block].size
                      /\ new[b].next # NoBuf => /\ new[b].next \in E
                                                /\ new[new[b].next].addr = End(new[b])
                                                /\ new[new[b].next].prev = b
                                                /\ new[new[b].next].mem_block = new[b].mem_block
                      /\ new[b].prev = NoBuf => new[b].addr = new[b].mem_block
                      /\ new[b].prev # NoBuf => new[b].prev \in E /\ new[new[b].prev].next = b
    BY DEF LinksExact
  <2>0. /\ \A c \in D :
             /\ bufs[c].next = NoBuf => End(bufs[c]) = bufs[c].mem_block + blocks[bufs[c].mem_block].size
             /\ bufs[c].prev = NoBuf => bufs[c].addr = bufs[c].mem_block
        /\ \A c \in D : bufs[c].next # NoBuf =>
             /\ bufs[c].next \in D /\ bufs[c].next # c
             /\ bufs[bufs[c].next].addr = End(bufs[c])
             /\ bufs[bufs[c].next].prev = c
             /\ bufs[bufs[c].next].mem_block = bufs[c].mem_block
        /\ \A c \in D : bufs[c].prev # NoBuf =>
             /\ bufs[c].prev \in D /\ bufs[c].prev # c
             /\ bufs[bufs[c].prev].next = c
    <3>1. \A c \in D :
             /\ bufs[c].next = NoBuf => End(bufs[c]) = bufs[c].mem_block + blocks[bufs[c].mem_block].size
             /\ bufs[c].prev = NoBuf => bufs[c].addr = bufs[c].mem_block
      BY DEF Shape, LinksExact
    <3>2. \A c \in D : bufs[c].next # NoBuf =>
             /\ bufs[c].next \in D /\ bufs[c].next # c
             /\ bufs[bufs[c].next].addr = End(bufs[c])
             /\ bufs[bufs[c].next].prev = c
             /\ bufs[bufs[c].next].mem_block = bufs[c].mem_block
      BY NextFacts DEF End
    <3>3. \A c \in D : bufs[c].prev # NoBuf =>
             /\ bufs[c].prev \in D /\ bufs[c].prev # c
             /\ bufs[bufs[c].prev].next = c
      BY PrevFacts
    <3> QED
      BY <3>1, <3>2, <3>3
  <2>1. CASE b = k
    <3>1. new[b].next = NoBuf => End(new[b]) = new[b].mem_block + blocks[new[b].mem_block].size
      <4>1. new[b].next = bufs[r].next /\ new[b].mem_block = bufs[r].mem_block
            /\ End(new[b]) = End(bufs[r])
        BY <1>1, <1>4, <1>6, <2>1
      <4>2. bufs[r].next = NoBuf => End(bufs[r]) = bufs[r].mem_block + blocks[bufs[r].mem_block].size
        BY <1>1, <2>0
      <4> QED
        BY <4>1, <4>2
    <3>2. new[b].next # NoBuf => /\ new[b].next \in E
                                 /\ new[new[b].next].addr = End(new[b])
                                 /\ new[new[b].next].prev = b
                                 /\ new[new[b].next].mem_block = new[b].mem_block
      <4>1. PICK n : n = bufs[r].next
        OBVIOUS
      <4>a. CASE n = NoBuf
        BY <4>a, <4>1, <1>4, <2>1
      <4>b. CASE n # NoBuf
      <5>2. n \in D /\ n # r /\ bufs[n].addr = End(bufs[r]) /\ bufs[n].prev = r
            /\ bufs[n].mem_block = bufs[r].mem_block
        BY <4>b, <4>1, <1>1, <2>0
      <5>3. n # l
        BY <5>2, <1>1, <1>3
      <5>4. n \in E /\ new[n].addr = bufs[n].addr /\ new[n].mem_block = bufs[n].mem_block
            /\ new[n].prev = k
        BY <5>2, <5>3, <1>2, <1>5
      <5> QED
        BY <4>1, <5>2, <5>4, <1>1, <1>4, <1>6, <2>1
      <4> QED
        BY <4>a, <4>b
    <3>3. new[b].prev = NoBuf => new[b].addr = new[b].mem_block
      <4>1. new[b].prev = bufs[l].prev /\ new[b].addr = bufs[l].addr /\ new[b].mem_block = bufs[l].mem_block
        BY <1>1, <1>4, <2>1
      <4>2. bufs[l].prev = NoBuf => bufs[l].addr = bufs[l].mem_block
        BY <1>1, <2>0
      <4> QED
        BY <4>1, <4>2
    <3>4. new[b].prev # NoBuf => new[b].prev \in E /\ new[new[b].prev].next = b
      <4>1. PICK p : p = bufs[l].prev
        OBVIOUS
      <4>a. CASE p = NoBuf
        BY <4>a, <4>1, <1>4, <2>1
      <4>b. CASE p # NoBuf
      <5>2. p \in D /\ p # l /\ bufs[p].next = l
        BY <4>b, <4>1, <1>1, <2>0
      <5>3. p # r
        <6>1. bufs[l].addr = End(bufs[p])
          BY <5>2, <1>1, <1>3, <2>0 DEF NoBuf
        <6> QED
          BY <6>1, <5>2, <1>1, <1>3
      <5>4. p \in E /\ new[p].next = k
        BY <5>2, <5>3, <1>2, <1>5
      <5> QED
        BY <4>1, <5>4, <1>4, <2>1
      <4> QED
        BY <4>a, <4>b
    <3> QED
      BY <3>1, <3>2, <3>3, <3>4
  <2>2. CASE b # k
    <3>0. b \in D \ {l, r}
      BY <1>1, <1>2, <2>2
    <3>1. /\ new[b].addr = bufs[b].addr /\ End(new[b]) = End(bufs[b])
          /\ new[b].mem_block = bufs[b].mem_block
          /\ new[b].next = IF bufs[b].next = l THEN k ELSE bufs[b].next
          /\ new[b].prev = IF bufs[b].prev = r THEN k ELSE bufs[b].prev
      BY <3>0, <1>5, <1>6
    <3>2. l # NoBuf /\ k # NoBuf /\ k \in E
      BY <1>1, <1>2, <1>3 DEF NoBuf
    <3>3. PICK n, p : n = bufs[b].next /\ p = bufs[b].prev
      OBVIOUS
    <3>6. /\ new[b].next = NoBuf => End(new[b]) = new[b].mem_block + blocks[new[b].mem_block].size
          /\ new[b].next # NoBuf => /\ new[b].next \in E
                                    /\ new[new[b].next].addr = End(new[b])
                                    /\ new[new[b].next].prev = b
                                    /\ new[new[b].next].mem_block = new[b].mem_block
      <4>4. CASE n = NoBuf
        <5>1. new[b].next = NoBuf /\ bufs[b].next = NoBuf
          BY <4>4, <3>1, <3>2, <3>3
        <5>2. End(bufs[b]) = bufs[b].mem_block + blocks[bufs[b].mem_block].size
          BY <5>1, <3>0, <2>0
        <5> QED
          BY <5>1, <5>2, <3>1
      <4>5. CASE n = l
        <5>1. new[b].next = k /\ bufs[l].addr = End(bufs[b]) /\ bufs[l].prev = b
              /\ bufs[l].mem_block = bufs[b].mem_block
          BY <3>0, <3>1, <3>2, <3>3, <4>5, <2>0
        <5> QED
          BY <5>1, <3>1, <3>2, <1>4
      <4>6. CASE n # NoBuf /\ n # l
        <5>1. /\ n \in D /\ bufs[n].addr = End(bufs[b]) /\ bufs[n].prev = b
              /\ bufs[n].mem_block = bufs[b].mem_block
          BY <3>0, <3>3, <4>6, <2>0
        <5>2. n # r /\ b # r
          BY <5>1, <3>0, <1>1
        <5>3. n \in E /\ new[n].addr = bufs[n].addr /\ new[n].mem_block = bufs[n].mem_block
              /\ new[n].prev = b
          BY <5>1, <5>2, <4>6, <1>2, <1>5
        <5> QED
          BY <5>1, <5>3, <3>1, <3>3, <4>6
      <4> QED
        BY <4>4, <4>5, <4>6
    <3>7. /\ new[b].prev = NoBuf => new[b].addr = new[b].mem_block
          /\ new[b].prev # NoBuf => new[b].prev \in E /\ new[new[b].prev].next = b
      <4>1. CASE p = NoBuf
        BY <4>1, <3>0, <3>1, <3>2, <3>3, <2>0, <1>1
      <4>2. CASE p = r
        <5>1. new[b].prev = k /\ bufs[r].next = b
          BY <4>2, <3>0, <3>1, <3>3, <2>0, <1>1
        <5> QED
          BY <5>1, <3>2, <1>4
      <4>3. CASE p # NoBuf /\ p # r
        <5>1. p \in D /\ bufs[p].next = b
          BY <4>3, <3>0, <3>3, <2>0
        <5>2. p # l /\ b # l
          BY <5>1, <3>0, <1>1
        <5>3. p \in E /\ new[p].next = b
          BY <5>1, <5>2, <4>3, <1>2, <1>5
        <5> QED
          BY <5>3, <4>3, <3>1, <3>3
      <4> QED
        BY <4>1, <4>2, <4>3
    <3> QED
      BY <3>6, <3>7
  <2> QED
    BY <2>1, <2>2
<1>9. BytesExact(new, blocks)
  <2>1. \A b, c \in D : b # c => End(bufs[b]) <= bufs[c].addr \/ End(bufs[c]) <= bufs[b].addr
    BY DEF Shape, BytesExact
  <2>2. ASSUME NEW c \in D \ {l, r}
        PROVE  End(new[k]) <= new[c].addr \/ End(new[c]) <= new[k].addr
    <3>1. /\ bufs[l].addr + bufs[l].size <= bufs[c].addr
            \/ bufs[c].addr + bufs[c].size <= bufs[l].addr
          /\ bufs[r].addr + bufs[r].size <= bufs[c].addr
            \/ bufs[c].addr + bufs[c].size <= bufs[r].addr
      BY <1>1, <1>3, <2>1
    <3>2. bufs[r].addr + bufs[r].size <= bufs[c].addr \/ bufs[c].addr + bufs[c].size <= bufs[l].addr
      BY <1>1, <1>3, <3>1
    <3> QED
      BY <3>2, <1>1, <1>3, <1>4, <1>5, <1>6
  <2>3. ASSUME NEW b \in E, NEW c \in E, b # c
        PROVE  End(new[b]) <= new[c].addr \/ End(new[c]) <= new[b].addr
    <3>1. CASE b = k
      BY <3>1, <2>2, <2>3, <1>2
    <3>2. CASE c = k
      BY <3>2, <2>2, <2>3, <1>2
    <3>3. CASE b # k /\ c # k
      <4>1. b \in D \ {l, r} /\ c \in D \ {l, r}
        BY <3>3, <1>2
      <4> QED
        BY <4>1, <2>1, <2>3, <1>5, <1>6
    <3> QED
      BY <3>1, <3>2, <3>3
  <2>4. ASSUME NEW base \in DOMAIN blocks, NEW x \in base .. base + blocks[base].size - 1
        PROVE  \E b \in E : new[b].mem_block = base /\ new[b].addr <= x /\ x < End(new[b])
    <3>1. PICK b \in D : bufs[b].mem_block = base /\ bufs[b].addr <= x /\ x < End(bufs[b])
      BY DEF Shape, BytesExact
    <3>2. base \in Nat /\ blocks[base].size \in Nat
      BY BytesFinite DEF Shape, BlocksOK, BlockOK
    <3>3. x \in Int
      BY <3>2
    <3>4. CASE b \in {l, r}
      <4>1. bufs[l].addr <= x /\ x < bufs[r].addr + bufs[r].size
        BY <3>1, <3>3, <3>4, <1>1, <1>3
      <4>2. End(new[k]) = bufs[r].addr + bufs[r].size /\ new[k].addr = bufs[l].addr
            /\ new[k].mem_block = base /\ k \in E
        BY <3>1, <3>4, <1>1, <1>2, <1>3, <1>4, <1>6
      <4> QED
        BY <4>1, <4>2
    <3>5. CASE b \notin {l, r}
      BY <3>1, <3>5, <1>2, <1>5, <1>6
    <3> QED
      BY <3>4, <3>5
  <2> QED
    BY <2>3, <2>4 DEF BytesExact
<1>10. BlocksOK(blocks)
  BY DEF Shape
<1> QED
  BY <1>7, <1>8, <1>9, <1>10 DEF Shape

\* Cutting a buffer in two keeps the shape.
LEMMA CutShape ==
  ASSUME NEW bufs, NEW blocks, Shape(bufs, blocks),
         NEW new, NEW b, NEW k, NEW at, Cut(bufs, new, b, k, at)
  PROVE  Shape(new, blocks)
<1> DEFINE D == DOMAIN bufs
           E == DOMAIN new
<1>1. /\ b \in D /\ k \in BufIds /\ k \notin D /\ at \in Nat
      /\ bufs[b].addr < at /\ at < End(bufs[b])
      /\ E = D \cup {k} /\ b # k /\ k # NoBuf
  BY BytesFinite DEF Cut
<1>2. \A c \in D : /\ c \in BufIds /\ c # 0
                   /\ bufs[c].addr \in Nat /\ bufs[c].size \in Nat /\ bufs[c].size > 0
                   /\ bufs[c].prev \in Nat /\ bufs[c].next \in Nat
                   /\ bufs[c].mem_block \in Nat
                   /\ End(bufs[c]) = bufs[c].addr + bufs[c].size
                   /\ bufs[c].mem_block \in DOMAIN blocks
                   /\ bufs[c].mem_block <= bufs[c].addr
                   /\ End(bufs[c]) <= bufs[c].mem_block + blocks[bufs[c].mem_block].size
  BY ShapeFacts
<1>3. /\ new[b].addr = bufs[b].addr
      /\ new[b].size = at - bufs[b].addr
      /\ new[b].mem_block = bufs[b].mem_block
      /\ new[b].prev = bufs[b].prev
      /\ new[b].next = k
      /\ new[k].addr = at
      /\ new[k].size = End(bufs[b]) - at
      /\ new[k].mem_block = bufs[b].mem_block
      /\ new[k].prev = b
      /\ new[k].next = bufs[b].next
  BY DEF Cut
<1>4. \A c \in D \ {b} :
       /\ new[c].addr = bufs[c].addr
       /\ new[c].size = bufs[c].size
       /\ new[c].mem_block = bufs[c].mem_block
       /\ new[c].next = bufs[c].next
       /\ new[c].prev = IF bufs[c].prev = b THEN k ELSE bufs[c].prev
  BY DEF Cut
<1>5. /\ End(new[b]) = at
      /\ End(new[k]) = End(bufs[b])
      /\ \A c \in D \ {b} : End(new[c]) = End(bufs[c])
  <2>1. End(new[b]) = bufs[b].addr + (at - bufs[b].addr)
    BY <1>3 DEF End
  <2>2. End(new[k]) = at + (End(bufs[b]) - at) /\ End(bufs[b]) \in Nat
    BY <1>1, <1>2, <1>3 DEF End
  <2> QED
    BY <1>1, <1>2, <1>4, <2>1, <2>2 DEF End
<1>6. BlocksOK(blocks)
  BY DEF Shape
<1>7. \A base \in DOMAIN blocks : base \in Nat /\ blocks[base].size \in Nat
  BY <1>6, BytesFinite DEF BlocksOK, BlockOK
<1>8. \A c \in E : BufOK(new, blocks, c)
  <2>1. \A c \in E : new[c] \in BufType
    BY DEF Cut
  <2>2. PICK m, z : m = bufs[b].mem_block /\ z = blocks[m].size
    OBVIOUS
  <2>3. m \in Nat /\ z \in Nat /\ m \in DOMAIN blocks /\ m <= bufs[b].addr /\ End(bufs[b]) <= m + z
        /\ End(bufs[b]) \in Nat
    BY <1>1, <1>2, <1>7, <2>2
  <2>4. BufOK(new, blocks, b)
    <3>1. new[b].size > 0 /\ End(new[b]) <= m + z /\ new[b].mem_block = m /\ m <= new[b].addr
      BY <1>1, <1>2, <1>3, <1>5, <2>2, <2>3
    <3> QED
      BY <3>1, <1>1, <1>2, <2>1, <2>2, <2>3 DEF BufOK
  <2>5. BufOK(new, blocks, k)
    <3>1. new[k].size > 0 /\ End(new[k]) <= m + z /\ new[k].mem_block = m /\ m <= new[k].addr
      BY <1>1, <1>2, <1>3, <1>5, <2>2, <2>3
    <3> QED
      BY <3>1, <1>1, <1>2, <2>1, <2>2, <2>3 DEF BufOK
  <2>6. ASSUME NEW c \in D \ {b} PROVE BufOK(new, blocks, c)
    <3>1. /\ new[c].size = bufs[c].size /\ new[c].addr = bufs[c].addr
          /\ new[c].mem_block = bufs[c].mem_block /\ End(new[c]) = End(bufs[c])
          /\ c \in E
      BY <1>1, <1>4, <1>5
    <3> QED
      BY <3>1, <1>2, <2>1 DEF BufOK
  <2> QED
    BY <2>4, <2>5, <2>6, <1>1
<1>9. LinksExact(new, blocks)
  <2> DEFINE Ok(c) == /\ new[c].next = NoBuf => End(new[c]) = new[c].mem_block + blocks[new[c].mem_block].size
                      /\ new[c].next # NoBuf => /\ new[c].next \in E
                                                /\ new[new[c].next].addr = End(new[c])
                                                /\ new[new[c].next].prev = c
                                                /\ new[new[c].next].mem_block = new[c].mem_block
                      /\ new[c].prev = NoBuf => new[c].addr = new[c].mem_block
                      /\ new[c].prev # NoBuf => new[c].prev \in E /\ new[new[c].prev].next = c
  <2>1. \A c \in D :
          /\ bufs[c].next = NoBuf => End(bufs[c]) = bufs[c].mem_block + blocks[bufs[c].mem_block].size
          /\ bufs[c].prev = NoBuf => bufs[c].addr = bufs[c].mem_block
    BY DEF Shape, LinksExact
  <2>2. \A c \in D : bufs[c].next # NoBuf =>
             /\ bufs[c].next \in D /\ bufs[c].next # c
             /\ bufs[bufs[c].next].addr = End(bufs[c])
             /\ bufs[bufs[c].next].prev = c
             /\ bufs[bufs[c].next].mem_block = bufs[c].mem_block
    BY NextFacts DEF End
  <2>3. \A c \in D : bufs[c].prev # NoBuf =>
             /\ bufs[c].prev \in D /\ bufs[c].prev # c
             /\ bufs[bufs[c].prev].next = c
    BY PrevFacts
  <2>4. Ok(b)
    <3>1. new[b].next = k /\ k # NoBuf /\ k \in E /\ new[k].addr = End(new[b]) /\ new[k].prev = b
          /\ new[k].mem_block = new[b].mem_block
      BY <1>1, <1>3, <1>5
    <3>2. new[b].prev = NoBuf => new[b].addr = new[b].mem_block
      BY <1>1, <1>3, <2>1
    <3>3. new[b].prev # NoBuf => new[b].prev \in E /\ new[new[b].prev].next = b
      <4>1. PICK p : p = bufs[b].prev
        OBVIOUS
      <4>2. CASE p # NoBuf
        <5>1. p \in D \ {b} /\ bufs[p].next = b
          BY <4>1, <4>2, <2>3, <1>1
        <5> QED
          BY <5>1, <4>1, <1>1, <1>3, <1>4
      <4> QED
        BY <4>1, <4>2, <1>3
    <3> QED
      BY <3>1, <3>2, <3>3
  <2>5. Ok(k)
    <3>1. new[k].next = NoBuf => End(new[k]) = new[k].mem_block + blocks[new[k].mem_block].size
      BY <1>1, <1>3, <1>5, <2>1
    <3>2. new[k].next # NoBuf => /\ new[k].next \in E
                                 /\ new[new[k].next].addr = End(new[k])
                                 /\ new[new[k].next].prev = k
                                 /\ new[new[k].next].mem_block = new[k].mem_block
      <4>1. PICK n : n = bufs[b].next
        OBVIOUS
      <4>2. CASE n # NoBuf
        <5>1. n \in D \ {b} /\ bufs[n].addr = End(bufs[b]) /\ bufs[n].prev = b
              /\ bufs[n].mem_block = bufs[b].mem_block
          BY <4>1, <4>2, <2>2, <1>1
        <5>2. new[n].addr = bufs[n].addr /\ new[n].prev = k /\ new[n].mem_block = bufs[n].mem_block
          BY <5>1, <1>4
        <5> QED
          BY <5>1, <5>2, <4>1, <1>1, <1>3, <1>5
      <4> QED
        BY <4>1, <4>2, <1>3
    <3>3. new[k].prev # NoBuf /\ new[k].prev \in E /\ new[new[k].prev].next = k
      BY <1>1, <1>2, <1>3 DEF NoBuf
    <3> QED
      BY <3>1, <3>2, <3>3
  <2>6. ASSUME NEW c \in D \ {b} PROVE Ok(c)
    <3>1. PICK n, p : n = bufs[c].next /\ p = bufs[c].prev
      OBVIOUS
    <3>2. new[c].next = n /\ new[c].mem_block = bufs[c].mem_block /\ new[c].addr = bufs[c].addr
          /\ End(new[c]) = End(bufs[c]) /\ new[c].prev = IF p = b THEN k ELSE p
      BY <3>1, <1>4, <1>5
    <3>3. new[c].next = NoBuf => End(new[c]) = new[c].mem_block + blocks[new[c].mem_block].size
      BY <3>1, <3>2, <2>1
    <3>4. new[c].next # NoBuf => /\ new[c].next \in E
                                 /\ new[new[c].next].addr = End(new[c])
                                 /\ new[new[c].next].prev = c
                                 /\ new[new[c].next].mem_block = new[c].mem_block
      <4>1. CASE n # NoBuf
        <5>1. n \in D /\ bufs[n].addr = End(bufs[c]) /\ bufs[n].prev = c
              /\ bufs[n].mem_block = bufs[c].mem_block
          BY <3>1, <4>1, <2>2
        <5>2. CASE n = b
          BY <5>1, <5>2, <3>2, <1>1, <1>3
        <5>3. CASE n # b
          BY <5>1, <5>3, <3>2, <1>1, <1>4
        <5> QED
          BY <5>2, <5>3
      <4> QED
        BY <3>2, <4>1
    <3>5. new[c].prev = NoBuf => new[c].addr = new[c].mem_block
      BY <3>1, <3>2, <2>1, <1>1
    <3>6. new[c].prev # NoBuf => new[c].prev \in E /\ new[new[c].prev].next = c
      <4>1. CASE p = b
        <5>1. bufs[b].next = c
          BY <3>1, <4>1, <2>3, <1>1, <1>2 DEF NoBuf
        <5> QED
          BY <5>1, <4>1, <3>2, <1>1, <1>3
      <4>2. CASE p # b /\ p # NoBuf
        <5>1. p \in D \ {b} /\ bufs[p].next = c
          BY <3>1, <4>2, <2>3
        <5> QED
          BY <5>1, <4>2, <3>2, <1>1, <1>4
      <4> QED
        BY <4>1, <4>2, <3>2
    <3> QED
      BY <3>3, <3>4, <3>5, <3>6
  <2>7. \A c \in E : Ok(c)
    BY <2>4, <2>5, <2>6, <1>1
  <2> QED
    BY <2>7 DEF LinksExact
<1>10. BytesExact(new, blocks)
  <2>1. \A c, d \in D : c # d => End(bufs[c]) <= bufs[d].addr \/ End(bufs[d]) <= bufs[c].addr
    BY DEF Shape, BytesExact
  <2>2. ASSUME NEW c \in D \ {b}
        PROVE  /\ End(new[b]) <= new[c].addr \/ End(new[c]) <= new[b].addr
               /\ End(new[k]) <= new[c].addr \/ End(new[c]) <= new[k].addr
    <3>1. End(bufs[b]) <= bufs[c].addr \/ End(bufs[c]) <= bufs[b].addr
      BY <2>1, <1>1
    <3>2. End(bufs[c]) \in Nat /\ End(bufs[b]) \in Nat /\ bufs[c].addr \in Nat
      BY <1>1, <1>2
    <3> QED
      BY <3>1, <3>2, <1>1, <1>2, <1>3, <1>4, <1>5
  <2>3. ASSUME NEW c \in E, NEW d \in E, c # d
        PROVE  End(new[c]) <= new[d].addr \/ End(new[d]) <= new[c].addr
    <3>1. CASE c \in {b, k} /\ d \in {b, k}
      BY <3>1, <2>3, <1>1, <1>3, <1>5
    <3>2. CASE c \in {b, k} /\ d \in D \ {b}
      BY <3>2, <2>2
    <3>3. CASE c \in D \ {b} /\ d \in {b, k}
      BY <3>3, <2>2
    <3>4. CASE c \in D \ {b} /\ d \in D \ {b}
      BY <3>4, <2>1, <2>3, <1>4, <1>5
    <3> QED
      BY <3>1, <3>2, <3>3, <3>4, <1>1
  <2>4. ASSUME NEW base \in DOMAIN blocks, NEW x \in base .. base + blocks[base].size - 1
        PROVE  \E c \in E : new[c].mem_block = base /\ new[c].addr <= x /\ x < End(new[c])
    <3>1. PICK c \in D : bufs[c].mem_block = base /\ bufs[c].addr <= x /\ x < End(bufs[c])
      BY DEF Shape, BytesExact
    <3>2. x \in Int
      BY <1>7
    <3>3. CASE c = b /\ x < at
      BY <3>1, <3>2, <3>3, <1>1, <1>3, <1>5
    <3>4. CASE c = b /\ at <= x
      BY <3>1, <3>2, <3>4, <1>1, <1>3, <1>5
    <3>5. CASE c # b
      BY <3>1, <3>5, <1>1, <1>4, <1>5
    <3> QED
      BY <3>2, <3>3, <3>4, <3>5, <1>1
  <2> QED
    BY <2>3, <2>4 DEF BytesExact
<1> QED
  BY <1>6, <1>8, <1>9, <1>10 DEF Shape

\* A new block that is one buffer keeps the shape.
LEMMA NewBlockShape ==
  ASSUME NEW bufs, NEW blocks, Shape(bufs, blocks),
         NEW new, NEW blocks2, NEW k \in BufIds \ DOMAIN bufs, NEW base \in Bytes, NEW z \in Nat \ {0},
         base + z - 1 \in Bytes,
         \A c \in DOMAIN blocks : base + z <= c \/ c + blocks[c].size <= base,
         DOMAIN new = DOMAIN bufs \cup {k},
         \A c \in DOMAIN bufs : new[c] = bufs[c],
         new[k] \in BufType,
         new[k].addr = base, new[k].size = z, new[k].mem_block = base,
         new[k].prev = NoBuf, new[k].next = NoBuf,
         DOMAIN blocks2 = DOMAIN blocks \cup {base},
         \A c \in DOMAIN blocks \ {base} : blocks2[c] = blocks[c],
         BlockOK(blocks2[base]), blocks2[base].size = z
  PROVE  /\ Shape(new, blocks2)
         /\ base \notin DOMAIN blocks
<1> DEFINE D == DOMAIN bufs
<1>1. BlocksOK(blocks) /\ base \in Nat
  BY BytesFinite DEF Shape
<1>2. \A c \in DOMAIN blocks : /\ c \in Nat /\ blocks[c].size \in Nat \ {0}
                               /\ c \in Bytes /\ BlockOK(blocks[c]) /\ c + blocks[c].size - 1 \in Bytes
  BY <1>1, BytesFinite DEF BlocksOK, BlockOK
<1>3. base \notin DOMAIN blocks
  BY <1>1, <1>2
<1>4. \A c \in DOMAIN blocks : blocks2[c] = blocks[c]
  BY <1>3
<1>5. BlocksOK(blocks2)
  BY <1>2, <1>4 DEF BlocksOK
<1>6. \A c \in D : /\ bufs[c].mem_block \in DOMAIN blocks /\ new[c] = bufs[c]
                   /\ blocks2[bufs[c].mem_block] = blocks[bufs[c].mem_block]
                   /\ bufs[c].mem_block <= bufs[c].addr
                   /\ End(bufs[c]) <= bufs[c].mem_block + blocks[bufs[c].mem_block].size
                   /\ bufs[c].addr \in Nat /\ End(bufs[c]) \in Nat /\ bufs[c].mem_block \in Nat
                   /\ bufs[c].addr < End(bufs[c])
  <2>1. ASSUME NEW c \in D PROVE bufs[c].addr \in Nat /\ End(bufs[c]) \in Nat /\ bufs[c].addr < End(bufs[c])
    BY ShapeFacts
  <2> QED
    BY <1>4, <2>1, ShapeFacts
<1>7. End(new[k]) = base + z /\ k # NoBuf
  BY BytesFinite DEF End
<1>8. \A c \in DOMAIN new : BufOK(new, blocks2, c)
  <2>1. ASSUME NEW c \in D PROVE BufOK(new, blocks2, c)
    <3>1. BufOK(bufs, blocks, c)
      BY DEF Shape
    <3> QED
      BY <3>1, <1>6 DEF BufOK
  <2>2. BufOK(new, blocks2, k)
    BY <1>1, <1>7 DEF BufOK
  <2> QED
    BY <2>1, <2>2
<1>9. LinksExact(new, blocks2)
  <2>1. ASSUME NEW c \in D
        PROVE  /\ new[c].next = NoBuf => End(new[c]) = new[c].mem_block + blocks2[new[c].mem_block].size
               /\ new[c].next # NoBuf => /\ new[c].next \in DOMAIN new
                                         /\ new[new[c].next].addr = End(new[c])
                                         /\ new[new[c].next].prev = c
                                         /\ new[new[c].next].mem_block = new[c].mem_block
               /\ new[c].prev = NoBuf => new[c].addr = new[c].mem_block
               /\ new[c].prev # NoBuf => new[c].prev \in DOMAIN new /\ new[new[c].prev].next = c
    <3>1. /\ bufs[c].next = NoBuf => End(bufs[c]) = bufs[c].mem_block + blocks[bufs[c].mem_block].size
          /\ bufs[c].next # NoBuf => /\ bufs[c].next \in D
                                     /\ bufs[bufs[c].next].addr = End(bufs[c])
                                     /\ bufs[bufs[c].next].prev = c
                                     /\ bufs[bufs[c].next].mem_block = bufs[c].mem_block
          /\ bufs[c].prev = NoBuf => bufs[c].addr = bufs[c].mem_block
          /\ bufs[c].prev # NoBuf => bufs[c].prev \in D /\ bufs[bufs[c].prev].next = c
      BY DEF Shape, LinksExact
    <3> QED
      BY <3>1, <1>6
  <2> QED
    BY <2>1, <1>7 DEF LinksExact
<1>10. BytesExact(new, blocks2)
  <2>1. \A b, c \in D : b # c => End(bufs[b]) <= bufs[c].addr \/ End(bufs[c]) <= bufs[b].addr
    BY DEF Shape, BytesExact
  <2>2. ASSUME NEW c \in D
        PROVE  End(new[k]) <= new[c].addr \/ End(new[c]) <= new[k].addr
    <3>1. PICK m, y : m = bufs[c].mem_block /\ y = blocks[m].size
      OBVIOUS
    <3>2. m \in Nat /\ y \in Nat /\ (base + z <= m \/ m + y <= base) /\ m <= bufs[c].addr
          /\ End(bufs[c]) <= m + y
      BY <3>1, <1>2, <1>6
    <3> QED
      BY <3>2, <1>1, <1>6, <1>7
  <2>3. \A b, c \in DOMAIN new : b # c => End(new[b]) <= new[c].addr \/ End(new[c]) <= new[b].addr
    BY <2>1, <2>2, <1>6
  <2>4. ASSUME NEW c \in DOMAIN blocks2, NEW x \in c .. c + blocks2[c].size - 1
        PROVE  \E b \in DOMAIN new : new[b].mem_block = c /\ new[b].addr <= x /\ x < End(new[b])
    <3>1. CASE c = base
      BY <3>1, <1>1, <1>7
    <3>2. CASE c # base
      <4>1. c \in DOMAIN blocks /\ x \in c .. c + blocks[c].size - 1
        BY <3>2, <1>4
      <4>2. PICK b \in D : bufs[b].mem_block = c /\ bufs[b].addr <= x /\ x < End(bufs[b])
        BY <4>1 DEF Shape, BytesExact
      <4> QED
        BY <4>2, <1>6
    <3> QED
      BY <3>1, <3>2
  <2> QED
    BY <2>3, <2>4 DEF BytesExact
<1> QED
  BY <1>3, <1>5, <1>8, <1>9, <1>10 DEF Shape

\* new and blocks2 differ from bufs and blocks in nothing the shape is about.
Alike(bufs, blocks, new, blocks2) ==
  /\ DOMAIN new = DOMAIN bufs
  /\ \A c \in DOMAIN bufs : /\ new[c] \in BufType
                            /\ new[c].addr = bufs[c].addr
                            /\ new[c].size = bufs[c].size
                            /\ new[c].mem_block = bufs[c].mem_block
                            /\ new[c].prev = bufs[c].prev
                            /\ new[c].next = bufs[c].next
  /\ DOMAIN blocks2 = DOMAIN blocks
  /\ \A base \in DOMAIN blocks : /\ BlockOK(blocks2[base])
                                 /\ blocks2[base].size = blocks[base].size

\* Status, events and borders are no part of the shape.
LEMMA AlikeShape ==
  ASSUME NEW bufs, NEW blocks, NEW new, NEW blocks2,
         Shape(bufs, blocks), Alike(bufs, blocks, new, blocks2)
  PROVE  Shape(new, blocks2)
<1> DEFINE D == DOMAIN bufs
<1>1. /\ DOMAIN new = D /\ DOMAIN blocks2 = DOMAIN blocks
      /\ \A c \in D : /\ new[c] \in BufType
                      /\ new[c].addr = bufs[c].addr
                      /\ new[c].size = bufs[c].size
                      /\ new[c].mem_block = bufs[c].mem_block
                      /\ new[c].prev = bufs[c].prev
                      /\ new[c].next = bufs[c].next
                      /\ End(new[c]) = End(bufs[c])
      /\ \A base \in DOMAIN blocks : BlockOK(blocks2[base]) /\ blocks2[base].size = blocks[base].size
  BY DEF Alike, End
<1>2. \A c \in D : BufOK(bufs, blocks, c) /\ bufs[c].mem_block \in DOMAIN blocks
  BY DEF Shape, BufOK
<1>3. \A c \in D : BufOK(new, blocks2, c)
  BY <1>1, <1>2 DEF BufOK
<1>4. BlocksOK(blocks2)
  BY <1>1 DEF Shape, BlocksOK
<1>5. LinksExact(new, blocks2)
  <2>1. LinksExact(bufs, blocks)
    BY DEF Shape
  <2> QED
    BY <1>1, <1>2, <2>1 DEF LinksExact
<1>6. BytesExact(new, blocks2)
  <2>1. BytesExact(bufs, blocks)
    BY DEF Shape
  <2> QED
    BY <1>1, <2>1 DEF BytesExact
<1> QED
  BY <1>1, <1>3, <1>4, <1>5, <1>6 DEF Shape

-----------------------------------------------------------------------------
(* Freeing and merging.                                                    *)

\* t is s but for its buffers and lists.
SameButBufs(s, t) ==
  /\ DOMAIN t = DOMAIN s
  /\ t.blocks = s.blocks /\ t.addrs = s.addrs /\ t.pairs = s.pairs /\ t.stat = s.stat
  /\ t.defrag = s.defrag /\ t.inuse = s.inuse /\ t.vmm = s.vmm

\* c is in new what it was in bufs, but for its neighbours.
SameBuf(bufs, new, c) ==
  /\ new[c].addr = bufs[c].addr
  /\ new[c].size = bufs[c].size
  /\ new[c].mem_block = bufs[c].mem_block
  /\ new[c].stream_id = bufs[c].stream_id
  /\ new[c].status = bufs[c].status
  /\ new[c].events = bufs[c].events

\* new is bufs after b has absorbed neighbours with status st.
Absorbed(bufs, new, b, st) ==
  /\ DOMAIN new \subseteq DOMAIN bufs
  /\ b \in DOMAIN new
  /\ \A c \in DOMAIN new \ {b} : SameBuf(bufs, new, c)
  /\ new[b].mem_block = bufs[b].mem_block
  /\ new[b].stream_id = bufs[b].stream_id
  /\ new[b].status = bufs[b].status
  /\ new[b].events = bufs[b].events
  /\ \A c \in DOMAIN bufs \ DOMAIN new : bufs[c].status = st

\* Buffer b of allocator a is free but not listed yet.
Freeing(s, a, b, st) ==
  /\ Pooled(s)
  /\ b \in DOMAIN s.bufs
  /\ st \in FreeStatus /\ s.bufs[b].status = st
  /\ a \in Allocators /\ Owner(s, b) = a
  /\ \A x \in Allocators : s.lists[x][st] = Listed(s, DOMAIN s.bufs \ {b}, x, st)

\* The lists of the other status stay.
OtherListsSame(s, t, st) ==
  \A x \in Allocators, y \in FreeStatus \ {st} : t.lists[x][y] = s.lists[x][y]

\* Taking a buffer with status st out of the pool and out of its list.
LEMMA Unlisted ==
  ASSUME NEW s, NEW t, NEW a, NEW b, NEW g, NEW st, Freeing(s, a, b, st), Fields \subseteq DOMAIN t,
         g \in DOMAIN s.bufs, g # b, s.bufs[g].status = st, Owner(s, g) = a,
         t.blocks = s.blocks, t.lists = [s.lists EXCEPT ![a][st] = @ \ {g}],
         Shape(t.bufs, t.blocks), Absorbed(s.bufs, t.bufs, b, st),
         DOMAIN t.bufs = DOMAIN s.bufs \ {g}
  PROVE  Freeing(t, a, b, st) /\ OtherListsSame(s, t, st)
<1>1. /\ s.lists \in [Allocators -> [FreeStatus -> SUBSET Nat]] /\ a \in Allocators /\ st \in FreeStatus
      /\ \A x \in Allocators : s.lists[x][st] = Listed(s, DOMAIN s.bufs \ {b}, x, st)
  BY DEF Freeing, Pooled
<1>2. t.lists \in [Allocators -> [FreeStatus -> SUBSET Nat]]
  BY <1>1
<1>3. /\ t.lists[a][st] = s.lists[a][st] \ {g}
      /\ \A x \in Allocators \ {a} : t.lists[x][st] = s.lists[x][st]
  BY <1>1
<1>4. OtherListsSame(s, t, st)
  BY <1>1 DEF OtherListsSame
<1>5. \A c \in DOMAIN t.bufs : t.bufs[c].status = s.bufs[c].status /\ Owner(t, c) = Owner(s, c)
  BY DEF Absorbed, SameBuf, Owner
<1>6. ASSUME NEW x \in Allocators
      PROVE  t.lists[x][st] = Listed(t, DOMAIN t.bufs \ {b}, x, st)
  <2>1. Listed(t, DOMAIN t.bufs \ {b}, x, st) = Listed(s, DOMAIN s.bufs \ {b}, x, st) \ {g}
    BY <1>5 DEF Listed
  <2>2. x # a => g \notin Listed(s, DOMAIN s.bufs \ {b}, x, st)
    BY DEF Listed
  <2>3. CASE x = a
    BY <2>3, <1>1, <1>3, <2>1
  <2>4. CASE x # a
    <3>1. PICK L : L = Listed(s, DOMAIN s.bufs \ {b}, x, st)
      OBVIOUS
    <3>2. g \notin L /\ t.lists[x][st] = s.lists[x][st] /\ s.lists[x][st] = L
      BY <2>2, <2>4, <3>1, <1>1, <1>3
    <3>3. L \ {g} = L
      BY <3>2
    <3> QED
      BY <3>1, <3>2, <3>3, <2>1
  <2> QED
    BY <2>3, <2>4
<1>7. b \in DOMAIN t.bufs /\ t.bufs[b].status = st /\ Owner(t, b) = a
  BY <1>5 DEF Absorbed, Freeing
<1> QED
  BY <1>1, <1>2, <1>4, <1>6, <1>7 DEF Freeing, Pooled

LEMMA MergePrevOK ==
  ASSUME NEW s, NEW a, NEW b, NEW st, Freeing(s, a, b, st),
         \A c \in DOMAIN s.bufs \ {b} : s.bufs[c].next = b \/ Apart(s.bufs, c),
         NEW t, t = MergePrev(s, a, b, st)
  PROVE  /\ Freeing(t, a, b, st) /\ SameButBufs(s, t) /\ OtherListsSame(s, t, st)
         /\ Absorbed(s.bufs, t.bufs, b, st)
         /\ \A c \in DOMAIN t.bufs \ {b} : Apart(t.bufs, c)
<1> DEFINE bufs == s.bufs
           D == DOMAIN s.bufs
<1>1. /\ Shape(s.bufs, s.blocks) /\ Fields \subseteq DOMAIN s /\ b \in D /\ s.bufs[b].status = st
      /\ st \in FreeStatus
  BY DEF Freeing, Pooled
<1>2. PICK p : p = s.bufs[b].prev
  OBVIOUS
<1>3. CASE p = NoBuf \/ s.bufs[p].status # st
  <2>1. t = s
    BY <1>2, <1>3 DEF MergePrev
  <2>2. ASSUME NEW c \in D \ {b} PROVE Apart(s.bufs, c)
    <3>1. CASE s.bufs[c].next = b
      <4>1. s.bufs[b].prev = c /\ c # NoBuf
        BY <3>1, <1>1, NextFacts, ShapeFacts DEF NoBuf
      <4> QED
        BY <4>1, <3>1, <1>1, <1>2, <1>3 DEF Apart
    <3> QED
      BY <3>1
  <2> QED
    BY <2>1, <2>2, <1>1 DEF SameButBufs, OtherListsSame, Absorbed, SameBuf
<1>4. CASE p # NoBuf /\ s.bufs[p].status = st
  <2> DEFINE pp == s.bufs[p].prev
             grown == [s.bufs EXCEPT ![b].prev = pp,
                                     ![b].addr = s.bufs[p].addr,
                                     ![b].size = @ + s.bufs[p].size]
             relinked == IF pp = NoBuf THEN grown ELSE [grown EXCEPT ![pp].next = b]
             new == Without(relinked, p)
  <2>1. t = [s EXCEPT !.bufs = new, !.lists[a][st] = @ \ {p}]
    BY <1>2, <1>4 DEF MergePrev
  <2>2. /\ t.bufs = new /\ t.lists = [s.lists EXCEPT ![a][st] = @ \ {p}]
        /\ SameButBufs(s, t) /\ Fields \subseteq DOMAIN t
    BY <2>1, <1>1 DEF SameButBufs, Fields
  <2>3. /\ p \in D /\ p # b /\ s.bufs[p].next = b
        /\ s.bufs[b].addr = s.bufs[p].addr + s.bufs[p].size
        /\ s.bufs[p].mem_block = s.bufs[b].mem_block
    BY <1>1, <1>2, <1>4, PrevFacts
  <2>4. pp # NoBuf => pp \in D /\ pp # p /\ pp # b /\ s.bufs[pp].next = p
    <3>1. pp # NoBuf => pp \in D /\ pp # p /\ s.bufs[pp].next = p
      BY <2>3, <1>1, PrevFacts
    <3>2. ASSUME pp = b, pp # NoBuf PROVE FALSE
      <4>1. s.bufs[p].addr = s.bufs[b].addr + s.bufs[b].size
        BY <2>3, <3>2, <1>1, PrevFacts
      <4>2. \A c \in {b, p} : s.bufs[c].addr \in Nat /\ s.bufs[c].size \in Nat /\ s.bufs[c].size > 0
        BY <2>3, <1>1, ShapeFacts
      <4> QED
        BY <4>1, <4>2, <2>3
    <3> QED
      BY <3>1, <3>2
  <2>5. \A c \in D : s.bufs[c] \in BufType
    BY <1>1, ShapeFacts
  <2>6. /\ DOMAIN new = D \ {p}
        /\ new[b] = [s.bufs[b] EXCEPT !.prev = pp, !.addr = s.bufs[p].addr, !.size = @ + s.bufs[p].size]
        /\ \A c \in D \ {p, b} : new[c] = IF c = pp THEN [s.bufs[c] EXCEPT !.next = b] ELSE s.bufs[c]
    <3>1. /\ DOMAIN grown = D
          /\ grown[b] = [s.bufs[b] EXCEPT !.prev = pp, !.addr = s.bufs[p].addr, !.size = @ + s.bufs[p].size]
          /\ \A c \in D \ {b} : grown[c] = s.bufs[c]
      BY <1>1, <2>5 DEF BufType
    <3>2. ASSUME NEW c \in D \ {p, b} PROVE c # NoBuf
      BY <1>1, ShapeFacts DEF NoBuf
    <3> HIDE DEF grown
    <3>3. /\ DOMAIN relinked = D
          /\ relinked[b] = grown[b]
          /\ \A c \in D \ {p, b} : relinked[c] = IF c = pp THEN [grown[c] EXCEPT !.next = b] ELSE grown[c]
      BY <3>1, <3>2, <2>3, <2>4, <1>1
    <3> HIDE DEF relinked
    <3> QED
      BY <3>1, <3>3, <2>3, <1>1 DEF Without, Restrict
  <2> HIDE DEF new, grown, relinked
  <2>7. Joined(s.bufs, new, p, b, b)
    <3>1. \A c \in D : /\ bufs[c].next = p <=> (c = pp /\ c # NoBuf)
                       /\ c # b => bufs[c].prev # p
      <4>1. ASSUME NEW c \in D PROVE bufs[c].next = p <=> (c = pp /\ c # NoBuf)
        BY <2>3, <2>4, <1>1, NextFacts, ShapeFacts DEF NoBuf
      <4>2. ASSUME NEW c \in D, c # b PROVE bufs[c].prev # p
        BY <4>2, <2>3, <1>1, <1>4, PrevFacts
      <4> QED
        BY <4>1, <4>2
    <3>2. \A c \in DOMAIN new : new[c] \in BufType
      <4>1. b \in Nat /\ pp \in Nat /\ s.bufs[p].addr \in Nat /\ s.bufs[p].size \in Nat /\ s.bufs[b].size \in Nat
        BY <2>3, <1>1, ShapeFacts
      <4>2. new[b] \in BufType
        <5>1. PICK z \in Nat : z = s.bufs[b].size + s.bufs[p].size
          BY <4>1
        <5>2. new[b] = [s.bufs[b] EXCEPT !.prev = pp, !.addr = s.bufs[p].addr, !.size = z]
          BY <5>1, <2>6
        <5>3. s.bufs[b] \in BufType
          BY <2>5, <1>1
        <5> QED
          BY <5>2, <5>3, <4>1 DEF BufType
      <4>3. ASSUME NEW c \in D \ {p, b} PROVE new[c] \in BufType
        <5>1. s.bufs[c] \in BufType /\ [s.bufs[c] EXCEPT !.next = b] \in BufType
          BY <4>1, <2>5 DEF BufType
        <5> QED
          BY <5>1, <2>6
      <4> QED
        BY <4>2, <4>3, <2>6
    <3>3. /\ new[b].addr = s.bufs[p].addr /\ new[b].prev = s.bufs[p].prev
          /\ new[b].next = s.bufs[b].next /\ new[b].mem_block = s.bufs[p].mem_block
          /\ new[b].size = s.bufs[p].size + s.bufs[b].size
      <4>1. s.bufs[p].size \in Nat /\ s.bufs[b].size \in Nat
        BY <2>3, <1>1, ShapeFacts
      <4>2. new[b].size = s.bufs[b].size + s.bufs[p].size
        BY <2>5, <2>6, <1>1 DEF BufType
      <4>3. /\ new[b].addr = s.bufs[p].addr /\ new[b].prev = s.bufs[p].prev
            /\ new[b].next = s.bufs[b].next /\ new[b].mem_block = s.bufs[b].mem_block
        BY <2>5, <2>6, <1>1 DEF BufType
      <4> QED
        BY <4>1, <4>2, <4>3, <2>3
    <3>4. ASSUME NEW c \in D \ {p, b}
          PROVE  /\ new[c].addr = s.bufs[c].addr
                 /\ new[c].size = s.bufs[c].size
                 /\ new[c].mem_block = s.bufs[c].mem_block
                 /\ new[c].next = IF s.bufs[c].next = p THEN b ELSE s.bufs[c].next
                 /\ new[c].prev = IF s.bufs[c].prev = b THEN b ELSE s.bufs[c].prev
      <4>1. c # NoBuf
        BY <1>1, ShapeFacts DEF NoBuf
      <4> QED
        BY <4>1, <3>1, <2>5, <2>6 DEF BufType
    <3>5. DOMAIN new = (D \ {p, b}) \cup {b} /\ b # NoBuf
      BY <2>3, <2>6, <1>1, ShapeFacts DEF NoBuf
    <3> QED
      BY <3>2, <3>3, <3>4, <3>5, <2>3 DEF Joined
  <2>8. Shape(new, s.blocks)
    BY <2>7, <1>1, JoinShape
  <2>9. Absorbed(s.bufs, new, b, st)
    <3>1. ASSUME NEW c \in D \ {p, b} PROVE SameBuf(s.bufs, new, c)
      BY <2>5, <2>6 DEF SameBuf, BufType
    <3>2. /\ new[b].mem_block = s.bufs[b].mem_block /\ new[b].stream_id = s.bufs[b].stream_id
          /\ new[b].status = s.bufs[b].status /\ new[b].events = s.bufs[b].events
      BY <2>5, <2>6, <1>1 DEF BufType
    <3> QED
      BY <3>1, <3>2, <2>3, <2>6, <1>1, <1>4 DEF Absorbed
  <2>10. Freeing(t, a, b, st) /\ OtherListsSame(s, t, st)
    <3>1. Owner(s, p) = a
      BY <2>3 DEF Freeing, Owner
    <3>2. t.blocks = s.blocks
      BY <2>2 DEF SameButBufs
    <3> QED
      BY <3>1, <3>2, <2>2, <2>3, <2>6, <2>8, <2>9, <1>4, Unlisted
  <2>11. ASSUME NEW c \in D \ {p, b} PROVE Apart(new, c)
    <3>1. s.bufs[c].next = b \/ Apart(s.bufs, c)
      OBVIOUS
    <3>2. s.bufs[c].next # b
      BY <2>3, <2>11, <1>1, <1>2, NextFacts, ShapeFacts DEF NoBuf
    <3>3. CASE c = pp
      <4>0. pp # NoBuf /\ new[c] = [s.bufs[c] EXCEPT !.next = b] /\ s.bufs[c] \in BufType
        <5>1. c # NoBuf
          BY <1>1, ShapeFacts DEF NoBuf
        <5>2. c \in D \ {p, b}
          OBVIOUS
        <5> QED
          BY <5>1, <5>2, <3>3, <2>5, <2>6
      <4>1. new[c].next = b /\ new[c].status = s.bufs[c].status /\ s.bufs[c].next = p
        BY <4>0, <3>3, <2>4 DEF BufType
      <4>2. new[b].status = st
        BY <2>9, <1>1 DEF Absorbed
      <4> QED
        BY <4>1, <4>2, <3>1, <3>2, <1>4 DEF Apart
    <3>4. CASE c # pp
      <4>1. new[c] = s.bufs[c]
        BY <3>4, <2>6
      <4>2. s.bufs[c].next # NoBuf => s.bufs[c].next \in D \ {p, b}
        BY <3>2, <3>4, <2>3, <1>1, NextFacts
      <4>3. s.bufs[c].next # NoBuf => new[s.bufs[c].next].status = s.bufs[s.bufs[c].next].status
        BY <4>2, <2>6, <2>9 DEF Absorbed, SameBuf
      <4> QED
        BY <4>1, <4>3, <3>1, <3>2 DEF Apart
    <3> QED
      BY <3>3, <3>4
  <2> QED
    BY <2>2, <2>6, <2>9, <2>10, <2>11
<1> QED
  BY <1>3, <1>4

LEMMA MergeNextOK ==
  ASSUME NEW s, NEW a, NEW b, NEW st, Freeing(s, a, b, st),
         \A c \in DOMAIN s.bufs \ {b} : Apart(s.bufs, c),
         NEW t, t = MergeNext(s, a, b, st)
  PROVE  /\ Freeing(t, a, b, st) /\ SameButBufs(s, t) /\ OtherListsSame(s, t, st)
         /\ Absorbed(s.bufs, t.bufs, b, st)
         /\ Merged(t.bufs)
<1> DEFINE bufs == s.bufs
           D == DOMAIN s.bufs
<1>1. /\ Shape(s.bufs, s.blocks) /\ Fields \subseteq DOMAIN s /\ b \in D /\ s.bufs[b].status = st
      /\ st \in FreeStatus
  BY DEF Freeing, Pooled
<1>2. PICK n : n = s.bufs[b].next
  OBVIOUS
<1>3. CASE n = NoBuf \/ s.bufs[n].status # st
  <2>1. t = s
    BY <1>2, <1>3 DEF MergeNext
  <2>2. Apart(s.bufs, b)
    BY <1>1, <1>2, <1>3 DEF Apart
  <2> QED
    BY <2>1, <2>2, <1>1 DEF SameButBufs, OtherListsSame, Absorbed, SameBuf, Merged
<1>4. CASE n # NoBuf /\ s.bufs[n].status = st
  <2> DEFINE nn == s.bufs[n].next
             grown == [s.bufs EXCEPT ![b].next = nn, ![b].size = @ + s.bufs[n].size]
             relinked == IF nn = NoBuf THEN grown ELSE [grown EXCEPT ![nn].prev = b]
             new == Without(relinked, n)
  <2>1. t = [s EXCEPT !.bufs = new, !.lists[a][st] = @ \ {n}]
    BY <1>2, <1>4 DEF MergeNext
  <2>2. /\ t.bufs = new /\ t.lists = [s.lists EXCEPT ![a][st] = @ \ {n}]
        /\ SameButBufs(s, t) /\ Fields \subseteq DOMAIN t
    BY <2>1, <1>1 DEF SameButBufs, Fields
  <2>3. /\ n \in D /\ n # b /\ s.bufs[n].prev = b
        /\ s.bufs[n].addr = s.bufs[b].addr + s.bufs[b].size
        /\ s.bufs[n].mem_block = s.bufs[b].mem_block
    BY <1>1, <1>2, <1>4, NextFacts
  <2>4. nn # NoBuf => nn \in D /\ nn # n /\ nn # b /\ s.bufs[nn].prev = n
    <3>1. nn # NoBuf => nn \in D /\ nn # n /\ s.bufs[nn].prev = n
      BY <2>3, <1>1, NextFacts
    <3>2. ASSUME nn = b, nn # NoBuf PROVE FALSE
      <4>1. s.bufs[b].addr = s.bufs[n].addr + s.bufs[n].size
        BY <2>3, <3>2, <1>1, NextFacts
      <4>2. \A c \in {b, n} : s.bufs[c].addr \in Nat /\ s.bufs[c].size \in Nat /\ s.bufs[c].size > 0
        BY <2>3, <1>1, ShapeFacts
      <4> QED
        BY <4>1, <4>2, <2>3
    <3> QED
      BY <3>1, <3>2
  <2>5. \A c \in D : s.bufs[c] \in BufType /\ c # NoBuf
    BY <1>1, ShapeFacts DEF NoBuf
  <2>6. /\ DOMAIN new = D \ {n}
        /\ new[b] = [s.bufs[b] EXCEPT !.next = nn, !.size = @ + s.bufs[n].size]
        /\ \A c \in D \ {n, b} : new[c] = IF c = nn THEN [s.bufs[c] EXCEPT !.prev = b] ELSE s.bufs[c]
    <3>1. /\ DOMAIN grown = D
          /\ grown[b] = [s.bufs[b] EXCEPT !.next = nn, !.size = @ + s.bufs[n].size]
          /\ \A c \in D \ {b} : grown[c] = s.bufs[c]
      BY <1>1, <2>5 DEF BufType
    <3> HIDE DEF grown
    <3>3. /\ DOMAIN relinked = D
          /\ relinked[b] = grown[b]
          /\ \A c \in D \ {n, b} : relinked[c] = IF c = nn THEN [grown[c] EXCEPT !.prev = b] ELSE grown[c]
      BY <3>1, <2>3, <2>4, <2>5, <1>1
    <3> HIDE DEF relinked
    <3> QED
      BY <3>1, <3>3, <2>3, <1>1 DEF Without, Restrict
  <2> HIDE DEF new, grown, relinked
  <2>7. Joined(s.bufs, new, b, n, b)
    <3>1. \A c \in D : /\ bufs[c].prev = n <=> c = nn
                       /\ bufs[c].next # b \/ c = bufs[b].prev
      <4>1. ASSUME NEW c \in D PROVE bufs[c].prev = n <=> c = nn
        BY <2>3, <2>4, <2>5, <1>1, <1>4, PrevFacts
      <4>2. ASSUME NEW c \in D PROVE bufs[c].next # b \/ c = bufs[b].prev
        BY <2>5, <1>1, NextFacts
      <4> QED
        BY <4>1, <4>2
    <3>2. \A c \in DOMAIN new : new[c] \in BufType
      <4>1. b \in Nat /\ nn \in Nat /\ s.bufs[n].size \in Nat /\ s.bufs[b].size \in Nat
        BY <2>3, <1>1, ShapeFacts
      <4>2. new[b] \in BufType
        <5>1. PICK z \in Nat : z = s.bufs[b].size + s.bufs[n].size
          BY <4>1
        <5>2. new[b] = [s.bufs[b] EXCEPT !.next = nn, !.size = z]
          BY <5>1, <2>6
        <5>3. s.bufs[b] \in BufType
          BY <2>5, <1>1
        <5> QED
          BY <5>2, <5>3, <4>1 DEF BufType
      <4>3. ASSUME NEW c \in D \ {n, b} PROVE new[c] \in BufType
        <5>1. s.bufs[c] \in BufType /\ [s.bufs[c] EXCEPT !.prev = b] \in BufType
          BY <4>1, <2>5 DEF BufType
        <5> QED
          BY <5>1, <2>6
      <4> QED
        BY <4>2, <4>3, <2>6
    <3>3. /\ new[b].addr = s.bufs[b].addr /\ new[b].prev = s.bufs[b].prev
          /\ new[b].next = s.bufs[n].next /\ new[b].mem_block = s.bufs[b].mem_block
          /\ new[b].size = s.bufs[b].size + s.bufs[n].size
      BY <2>5, <2>6, <1>1 DEF BufType
    <3>4. ASSUME NEW c \in D \ {b, n}
          PROVE  /\ new[c].addr = s.bufs[c].addr
                 /\ new[c].size = s.bufs[c].size
                 /\ new[c].mem_block = s.bufs[c].mem_block
                 /\ new[c].next = IF s.bufs[c].next = b THEN b ELSE s.bufs[c].next
                 /\ new[c].prev = IF s.bufs[c].prev = n THEN b ELSE s.bufs[c].prev
      <4>1. CASE c = nn
        <5>1. new[c] = [s.bufs[c] EXCEPT !.prev = b] /\ s.bufs[c].prev = n /\ s.bufs[c] \in BufType
          BY <4>1, <3>1, <2>5, <2>6
        <5> QED
          BY <5>1 DEF BufType
      <4>2. CASE c # nn
        <5>1. new[c] = s.bufs[c] /\ s.bufs[c].prev # n
          BY <4>2, <3>1, <2>6
        <5> QED
          BY <5>1
      <4> QED
        BY <4>1, <4>2
    <3>5. DOMAIN new = (D \ {b, n}) \cup {b}
      BY <2>3, <2>6, <1>1
    <3> QED
      BY <3>2, <3>3, <3>4, <3>5, <2>3, <1>1, <1>2, <1>4 DEF Joined
  <2>8. Shape(new, s.blocks)
    BY <2>7, <1>1, JoinShape
  <2>9. Absorbed(s.bufs, new, b, st)
    <3>1. ASSUME NEW c \in D \ {n, b} PROVE SameBuf(s.bufs, new, c)
      BY <2>5, <2>6 DEF SameBuf, BufType
    <3>2. /\ new[b].mem_block = s.bufs[b].mem_block /\ new[b].stream_id = s.bufs[b].stream_id
          /\ new[b].status = s.bufs[b].status /\ new[b].events = s.bufs[b].events
      BY <2>5, <2>6, <1>1 DEF BufType
    <3> QED
      BY <3>1, <3>2, <2>3, <2>6, <1>1, <1>4 DEF Absorbed
  <2>10. Freeing(t, a, b, st) /\ OtherListsSame(s, t, st)
    <3>1. Owner(s, n) = a
      BY <2>3 DEF Freeing, Owner
    <3>2. t.blocks = s.blocks
      BY <2>2 DEF SameButBufs
    <3> QED
      BY <3>1, <3>2, <2>2, <2>3, <2>6, <2>8, <2>9, <1>4, Unlisted
  <2>11. ASSUME NEW c \in D \ {n} PROVE Apart(new, c)
    <3>1. CASE c = b
      <4>1. new[c].next = nn /\ new[c].status = st
        BY <3>1, <2>5, <2>6, <1>1 DEF BufType
      <4>2. Apart(s.bufs, n)
        BY <2>3
      <4>3. nn # NoBuf => new[nn].status = s.bufs[nn].status
        BY <2>4, <2>6, <2>9 DEF Absorbed, SameBuf
      <4> QED
        BY <4>1, <4>2, <4>3, <1>4 DEF Apart
    <3>2. CASE c # b
      <4>1. new[c].next = s.bufs[c].next /\ new[c].status = s.bufs[c].status
        BY <3>2, <2>5, <2>6 DEF BufType
      <4>2. s.bufs[c].next # NoBuf => s.bufs[c].next \in D \ {n}
        BY <3>2, <2>3, <1>1, NextFacts
      <4>3. s.bufs[c].next # NoBuf => new[s.bufs[c].next].status = s.bufs[s.bufs[c].next].status
        BY <4>2, <2>6, <2>9 DEF Absorbed, SameBuf
      <4>4. Apart(s.bufs, c)
        BY <3>2
      <4> QED
        BY <4>1, <4>3, <4>4 DEF Apart
    <3> QED
      BY <3>1, <3>2
  <2> QED
    BY <2>2, <2>6, <2>9, <2>10, <2>11 DEF Merged
<1> QED
  BY <1>3, <1>4

\* The buffers with status st set on b.
Mark(bufs, b, st) == [bufs EXCEPT ![b].status = st]

\* Free of a buffer without events: it absorbs its free neighbours, is listed, and
\* no two neighbours are left that could be merged.
LEMMA FreeOK ==
  ASSUME NEW s, NEW a, NEW b, NEW st, Pooled(s), Merged(s.bufs),
         b \in DOMAIN s.bufs, st \in FreeStatus, a \in Allocators, Owner(s, b) = a,
         s.bufs[b].status # st, s.bufs[b].events = NoEvents,
         \A x \in Allocators : s.lists[x][st] = Listed(s, DOMAIN s.bufs, x, st),
         NEW f, f = Free(s, a, b, st), NEW r, r = f.s
  PROVE  /\ f.freed
         /\ Pooled(r) /\ SameButBufs(s, r) /\ Merged(r.bufs)
         /\ Absorbed(Mark(s.bufs, b, st), r.bufs, b, st)
         /\ \A x \in Allocators : r.lists[x][st] = Listed(r, DOMAIN r.bufs, x, st)
         /\ OtherListsSame(s, r, st)
<1> DEFINE marked == [s EXCEPT !.bufs[b].status = st]
           u == MergePrev(marked, a, b, st)
           v == MergeNext(u, a, b, st)
           t == [v EXCEPT !.lists[a][st] = @ \cup {b}]
<1>1. /\ Shape(s.bufs, s.blocks) /\ Fields \subseteq DOMAIN s
      /\ s.lists \in [Allocators -> [FreeStatus -> SUBSET Nat]]
  BY DEF Pooled
<1>2. IsEventNotUsed(s.bufs[b])
  BY DEF IsEventNotUsed, NoEvents
<1>3. f = [s |-> t, freed |-> TRUE]
  BY <1>2 DEF Free
<1>4. /\ SameButBufs(s, marked) /\ marked.lists = s.lists
      /\ marked.bufs = [s.bufs EXCEPT ![b].status = st]
      /\ Fields \subseteq DOMAIN marked
  BY <1>1 DEF SameButBufs, Fields
<1> HIDE DEF marked
<1>5. /\ DOMAIN marked.bufs = DOMAIN s.bufs
      /\ marked.bufs[b].status = st
      /\ \A c \in DOMAIN s.bufs : /\ marked.bufs[c] \in BufType
                                  /\ marked.bufs[c].addr = s.bufs[c].addr
                                  /\ marked.bufs[c].size = s.bufs[c].size
                                  /\ marked.bufs[c].mem_block = s.bufs[c].mem_block
                                  /\ marked.bufs[c].prev = s.bufs[c].prev
                                  /\ marked.bufs[c].next = s.bufs[c].next
                                  /\ c # b => marked.bufs[c] = s.bufs[c]
  <2>1. \A c \in DOMAIN s.bufs : s.bufs[c] \in BufType
    BY <1>1, ShapeFacts
  <2>2. st \in BufStatus
    BY DEF BufStatus
  <2>3. [s.bufs[b] EXCEPT !.status = st] \in BufType
    BY <2>1, <2>2 DEF BufType
  <2>4. /\ marked.bufs[b] = [s.bufs[b] EXCEPT !.status = st]
        /\ \A c \in DOMAIN s.bufs \ {b} : marked.bufs[c] = s.bufs[c]
    BY <1>4
  <2> QED
    BY <1>4, <2>1, <2>3, <2>4, SMTT(40) DEF BufType
<1>6. Shape(marked.bufs, marked.blocks)
  <2>1. \A base \in DOMAIN s.blocks : BlockOK(s.blocks[base])
    BY <1>1 DEF Shape, BlocksOK
  <2>2. Alike(s.bufs, s.blocks, marked.bufs, marked.blocks)
    BY <2>1, <1>4, <1>5 DEF Alike, SameButBufs
  <2> QED
    BY <2>2, <1>1, AlikeShape
<1>7. Freeing(marked, a, b, st)
  <2>1. \A c \in DOMAIN s.bufs : Owner(marked, c) = Owner(s, c)
    BY <1>4, <1>5 DEF Owner, SameButBufs
  <2>2. ASSUME NEW x \in Allocators
        PROVE  Listed(marked, DOMAIN marked.bufs \ {b}, x, st) = Listed(s, DOMAIN s.bufs, x, st)
    BY <2>1, <1>5 DEF Listed
  <2> QED
    BY <1>1, <1>4, <1>5, <1>6, <2>1, <2>2 DEF Freeing, Pooled
<1>8. ASSUME NEW c \in DOMAIN marked.bufs \ {b}
      PROVE  marked.bufs[c].next = b \/ Apart(marked.bufs, c)
  <2>1. s.bufs[c].next # NoBuf => s.bufs[c].next \in DOMAIN s.bufs
    BY <1>1, <1>5, NextFacts
  <2> QED
    BY <2>1, <1>5 DEF Merged, Apart
<1>9. /\ Freeing(u, a, b, st) /\ SameButBufs(marked, u) /\ OtherListsSame(marked, u, st)
      /\ Absorbed(marked.bufs, u.bufs, b, st)
      /\ \A c \in DOMAIN u.bufs \ {b} : Apart(u.bufs, c)
  BY <1>7, <1>8, MergePrevOK
<1> HIDE DEF u
<1>10. /\ Freeing(v, a, b, st) /\ SameButBufs(u, v) /\ OtherListsSame(u, v, st)
       /\ Absorbed(u.bufs, v.bufs, b, st) /\ Merged(v.bufs)
  BY <1>9, MergeNextOK
<1> HIDE DEF v
<1>11. Absorbed(marked.bufs, v.bufs, b, st)
  <2>1. ASSUME NEW c \in DOMAIN v.bufs \ {b} PROVE SameBuf(marked.bufs, v.bufs, c)
    BY <1>9, <1>10 DEF Absorbed, SameBuf
  <2>2. ASSUME NEW c \in DOMAIN marked.bufs \ DOMAIN v.bufs PROVE marked.bufs[c].status = st
    <3>1. CASE c \in DOMAIN u.bufs
      <4>1. u.bufs[c].status = st /\ c # b
        BY <3>1, <1>10 DEF Absorbed
      <4> QED
        BY <4>1, <3>1, <1>9 DEF Absorbed, SameBuf
    <3>2. CASE c \notin DOMAIN u.bufs
      BY <3>2, <1>9 DEF Absorbed
    <3> QED
      BY <3>1, <3>2
  <2> QED
    BY <2>1, <2>2, <1>9, <1>10 DEF Absorbed
<1>12. /\ Fields \subseteq DOMAIN v /\ v.lists \in [Allocators -> [FreeStatus -> SUBSET Nat]]
       /\ Shape(v.bufs, v.blocks) /\ b \in DOMAIN v.bufs /\ Owner(v, b) = a /\ v.bufs[b].status = st
       /\ \A x \in Allocators : v.lists[x][st] = Listed(v, DOMAIN v.bufs \ {b}, x, st)
  BY <1>10 DEF Freeing, Pooled
<1>13. /\ t.bufs = v.bufs /\ t.lists = [v.lists EXCEPT ![a][st] = @ \cup {b}]
       /\ SameButBufs(v, t) /\ Fields \subseteq DOMAIN t
  BY <1>12 DEF SameButBufs, Fields
<1> HIDE DEF t
<1>14. SameButBufs(s, t)
  BY <1>4, <1>9, <1>10, <1>13 DEF SameButBufs
<1>15. b \in Nat
  BY <1>1, ShapeFacts
<1>16. /\ t.lists \in [Allocators -> [FreeStatus -> SUBSET Nat]]
       /\ t.lists[a][st] = v.lists[a][st] \cup {b}
       /\ \A x \in Allocators \ {a} : t.lists[x][st] = v.lists[x][st]
       /\ OtherListsSame(v, t, st)
  BY <1>12, <1>13, <1>15 DEF OtherListsSame
<1>17. ASSUME NEW x \in Allocators PROVE t.lists[x][st] = Listed(t, DOMAIN t.bufs, x, st)
  <2>1. \A c \in DOMAIN v.bufs : Owner(t, c) = Owner(v, c)
    BY <1>13 DEF Owner, SameButBufs
  <2>2. CASE x = a
    <3>1. Listed(t, DOMAIN t.bufs, x, st) = Listed(v, DOMAIN v.bufs \ {b}, x, st) \cup {b}
      BY <2>1, <2>2, <1>12, <1>13 DEF Listed
    <3> QED
      BY <3>1, <2>2, <1>12, <1>16
  <2>3. CASE x # a
    <3>1. Listed(t, DOMAIN t.bufs, x, st) = Listed(v, DOMAIN v.bufs \ {b}, x, st)
      BY <2>1, <2>3, <1>12, <1>13 DEF Listed
    <3> QED
      BY <3>1, <2>3, <1>12, <1>16
  <2> QED
    BY <2>2, <2>3
<1>18. OtherListsSame(s, t, st)
  BY <1>4, <1>9, <1>10, <1>16 DEF OtherListsSame
<1>19. Pooled(t)
  BY <1>12, <1>13, <1>16 DEF Pooled, SameButBufs
<1>20. r = t /\ f.freed
  BY <1>3
<1>21. Merged(t.bufs) /\ Absorbed(Mark(s.bufs, b, st), t.bufs, b, st)
  BY <1>4, <1>10, <1>11, <1>13 DEF Mark
<1> HIDE DEF v
<1> QED
  BY <1>14, <1>17, <1>18, <1>19, <1>20, <1>21

-----------------------------------------------------------------------------
(* The routines of the pool that free.                                     *)

\* A buffer in use has an index entry of its own.
LEMMA AddrFacts ==
  ASSUME NEW s, NEW X, Pooled(s), AddrsExact(s, X), NEW addr \in DOMAIN s.addrs,
         NEW b, b = s.addrs[addr].buf
  PROVE  /\ b \in DOMAIN s.bufs /\ b \notin X /\ s.bufs[b].addr = addr
         /\ s.bufs[b].status \notin FreeStatus
         /\ s.addrs[addr].alloc = Owner(s, b) /\ Owner(s, b) \in Allocators
         /\ s.bufs[b] \in BufType
<1>1. /\ b \in DOMAIN s.bufs /\ b \notin X /\ s.bufs[b].addr = addr
      /\ s.bufs[b].status \notin FreeStatus
      /\ s.addrs[addr].alloc = Owner(s, b)
  BY DEF AddrsExact
<1>2. s.bufs[b].mem_block \in DOMAIN s.blocks /\ s.bufs[b] \in BufType
  BY <1>1, ShapeFacts DEF Pooled
<1>3. Owner(s, b) \in Allocators
  BY <1>2 DEF Owner, Pooled, Shape, BlocksOK, BlockOK
<1> QED
  BY <1>1, <1>2, <1>3

\* A buffer with events is in new what it was in bufs, and no other has events.
EventsKept(bufs, new) ==
  /\ \A c \in DOMAIN bufs : bufs[c].events # NoEvents =>
        /\ c \in DOMAIN new
        /\ new[c].events = bufs[c].events /\ new[c].stream_id = bufs[c].stream_id
        /\ new[c].addr = bufs[c].addr /\ new[c].size = bufs[c].size
  /\ \A c \in DOMAIN new : new[c].events # NoEvents => c \in DOMAIN bufs /\ bufs[c].events # NoEvents

LEMMA EventsKeptOK ==
  ASSUME NEW s, NEW t, Waiting(s), EventsKept(s.bufs, t.bufs), t.pairs = s.pairs, t.inuse = s.inuse
  PROVE  Waiting(t)
<1> DEFINE D == DOMAIN s.bufs
<1>1. PairsExact(s) /\ InUseHeld(s)
  BY DEF Waiting
<1>2. \A c \in D : s.bufs[c].events # NoEvents =>
        /\ c \in DOMAIN t.bufs
        /\ t.bufs[c].events = s.bufs[c].events /\ t.bufs[c].stream_id = s.bufs[c].stream_id
        /\ t.bufs[c].addr = s.bufs[c].addr /\ t.bufs[c].size = s.bufs[c].size
  BY DEF EventsKept
<1>3. \A c \in DOMAIN t.bufs : t.bufs[c].events # NoEvents => c \in D /\ s.bufs[c].events # NoEvents
  BY DEF EventsKept
<1>4. \A c, w : w \in UserStreams =>
         /\ s.bufs[c].events[w] # <<>> => s.bufs[c].events # NoEvents
         /\ t.bufs[c].events[w] # <<>> => t.bufs[c].events # NoEvents
  BY DEF NoEvents
<1>5. PairsExact(t)
  <2>1. ASSUME NEW w \in UserStreams, NEW m \in Streams
        PROVE  {c \in DOMAIN t.bufs : t.bufs[c].stream_id = m /\ t.bufs[c].events[w] # <<>>}
                 = {c \in D : s.bufs[c].stream_id = m /\ s.bufs[c].events[w] # <<>>}
    BY <1>2, <1>3, <1>4
  <2> QED
    BY <2>1, <1>1 DEF PairsExact
<1>6. InUseHeld(t)
  <2>1. ASSUME ~ FreePartWithEvents, NEW x \in s.inuse PROVE x.user \in UserStreams /\ Held(t.bufs, x)
    <3>1. x.user \in UserStreams /\ Held(s.bufs, x)
      BY <2>1, <1>1 DEF InUseHeld
    <3>2. PICK c \in D : /\ x.byte \in BytesOf(s.bufs[c])
                         /\ x.mem = s.bufs[c].stream_id
                         /\ \E i \in 1 .. Len(s.bufs[c].events[x.user]) : s.bufs[c].events[x.user][i] = x.task
      BY <3>1 DEF Held
    <3>3. s.bufs[c].events[x.user] # <<>>
      BY <3>2
    <3>4. /\ c \in DOMAIN t.bufs /\ t.bufs[c].events = s.bufs[c].events
          /\ t.bufs[c].stream_id = s.bufs[c].stream_id
          /\ BytesOf(t.bufs[c]) = BytesOf(s.bufs[c])
      BY <3>1, <3>3, <1>2, <1>4 DEF BytesOf
    <3> QED
      BY <3>1, <3>2, <3>4 DEF Held
  <2> QED
    BY <2>1 DEF InUseHeld
<1> QED
  BY <1>5, <1>6 DEF Waiting

\* Status and events of a buffer in use do not matter to lists, index and merging.
LEMMA TouchedOK ==
  ASSUME NEW s, NEW t, NEW X, NEW Y, NEW b, NEW buf,
         Calm(s), ListsExact(s, X), AddrsExact(s, Y),
         b \in DOMAIN s.bufs, s.bufs[b].status \notin FreeStatus,
         buf \in BufType, buf.status \notin FreeStatus,
         buf.addr = s.bufs[b].addr, buf.size = s.bufs[b].size, buf.mem_block = s.bufs[b].mem_block,
         buf.prev = s.bufs[b].prev, buf.next = s.bufs[b].next,
         Fields \subseteq DOMAIN t, t.bufs = [s.bufs EXCEPT ![b] = buf],
         t.blocks = s.blocks, t.lists = s.lists, t.addrs = s.addrs
  PROVE  Calm(t) /\ ListsExact(t, X) /\ AddrsExact(t, Y)
<1> DEFINE D == DOMAIN s.bufs
<1>0. Pooled(s) /\ Merged(s.bufs) /\ QuietFree(s.bufs)
  BY DEF Calm
<1>1. /\ DOMAIN t.bufs = D /\ t.bufs[b] = buf
      /\ \A c \in D \ {b} : t.bufs[c] = s.bufs[c]
  OBVIOUS
<1>2. Shape(s.bufs, s.blocks) /\ \A base \in DOMAIN s.blocks : BlockOK(s.blocks[base])
  BY <1>0 DEF Pooled, Shape, BlocksOK
<1>3. \A c \in D : /\ t.bufs[c] \in BufType
                   /\ t.bufs[c].addr = s.bufs[c].addr
                   /\ t.bufs[c].size = s.bufs[c].size
                   /\ t.bufs[c].mem_block = s.bufs[c].mem_block
                   /\ t.bufs[c].prev = s.bufs[c].prev
                   /\ t.bufs[c].next = s.bufs[c].next
                   /\ t.bufs[c].status \in FreeStatus <=> s.bufs[c].status \in FreeStatus
                   /\ s.bufs[c].status \in FreeStatus => t.bufs[c] = s.bufs[c]
                   /\ Owner(t, c) = Owner(s, c)
  <2>1. \A c \in D : s.bufs[c] \in BufType
    BY <1>2, ShapeFacts
  <2> QED
    BY <1>1, <2>1 DEF Owner
<1>4. Shape(t.bufs, t.blocks)
  <2>1. Alike(s.bufs, s.blocks, t.bufs, t.blocks)
    BY <1>1, <1>2, <1>3 DEF Alike
  <2> QED
    BY <2>1, <1>2, AlikeShape
<1>5. Pooled(t)
  BY <1>0, <1>4 DEF Pooled
<1>6. Merged(t.bufs)
  <2>1. ASSUME NEW c \in D PROVE Apart(t.bufs, c)
    <3>1. Apart(s.bufs, c)
      BY <1>0 DEF Merged
    <3>2. s.bufs[c].next # NoBuf => s.bufs[c].next \in D
      BY <1>2, NextFacts
    <3> QED
      BY <3>1, <3>2, <1>3 DEF Apart
  <2> QED
    BY <2>1, <1>1 DEF Merged
<1>7. QuietFree(t.bufs)
  BY <1>0, <1>1, <1>3 DEF QuietFree
<1>8. ListsExact(t, X)
  <2>1. ASSUME NEW a \in Allocators, NEW st \in FreeStatus
        PROVE  Listed(t, DOMAIN t.bufs \ X, a, st) = Listed(s, D \ X, a, st)
    BY <1>1, <1>3 DEF Listed
  <2> QED
    BY <2>1 DEF ListsExact
<1>9. AddrsExact(t, Y)
  BY <1>1, <1>3 DEF AddrsExact
<1> QED
  BY <1>5, <1>6, <1>7, <1>8, <1>9 DEF Calm

\* Nor do they matter to the pages.
LEMMA TouchedPages ==
  ASSUME NEW s, NEW t, NEW b, NEW buf, Paged(s),
         b \in DOMAIN s.bufs, s.bufs[b].status \notin FreeStatus, buf.status \notin FreeStatus,
         t.bufs = [s.bufs EXCEPT ![b] = buf], t.blocks = s.blocks, t.vmm = s.vmm
  PROVE  Paged(t)
<1>1. EagerKept(s.bufs, t.bufs)
  BY DEF EagerKept, FreeStatus
<1> QED
  BY <1>1, SamePages

\* Buffer b, at addr, is in use as before; or it is idle, out of the index and no longer
\* counted.
Uncounted(s, t, b, addr) ==
  \/ /\ t.stat = s.stat /\ t.addrs = s.addrs
     /\ b \in DOMAIN t.bufs /\ t.bufs[b].mem_block = s.bufs[b].mem_block
     /\ t.bufs[b].addr = s.bufs[b].addr /\ t.bufs[b].size = s.bufs[b].size
  \/ /\ t.stat = [s.stat EXCEPT !.used_size = @ - s.bufs[b].size]
     /\ addr \notin DOMAIN t.addrs
     /\ b \in DOMAIN t.bufs /\ t.bufs[b].status = "Idle"

\* What DoFreeTensorMem leaves of the rest of the pool: buffer b may have absorbed
\* idle buffers, and only its address may have left the index.
FreeFrame(s, t, b, addr) ==
  /\ t.blocks = s.blocks /\ t.pairs = s.pairs /\ t.inuse = s.inuse
  /\ DOMAIN t.bufs \subseteq DOMAIN s.bufs
  /\ \A c \in DOMAIN s.bufs \ {b} : s.bufs[c].status # "Idle" =>
        c \in DOMAIN t.bufs /\ SameBuf(s.bufs, t.bufs, c)
  /\ \A c \in DOMAIN t.bufs \ {b} : SameBuf(s.bufs, t.bufs, c)
  /\ DOMAIN t.addrs \subseteq DOMAIN s.addrs
  /\ \A x \in DOMAIN s.addrs \ {addr} : x \in DOMAIN t.addrs /\ t.addrs[x] = s.addrs[x]
  /\ EventsKept(s.bufs, t.bufs)
  /\ t.vmm = s.vmm /\ EagerKept(s.bufs, t.bufs)
  /\ Uncounted(s, t, b, addr)

\* DoFreeTensorMem of an address in the index.
LEMMA DoFreeOK ==
  ASSUME NEW s, NEW addr \in DOMAIN s.addrs, NEW b, b = s.addrs[addr].buf, Kept(s, {b}),
         NEW t, t = DoFreeTensorMem(s, addr)
  PROVE  Kept(t, {}) /\ FreeFrame(s, t, b, addr)
<1> DEFINE D == DOMAIN s.bufs
<1>1. /\ Pooled(s) /\ Merged(s.bufs) /\ QuietFree(s.bufs) /\ Calm(s)
      /\ ListsExact(s, {}) /\ AddrsExact(s, {}) /\ Deferred(s.bufs, {b})
      /\ Fields \subseteq DOMAIN s /\ Shape(s.bufs, s.blocks)
  BY DEF Kept, Calm, Pooled
<1>2. /\ b \in D /\ s.bufs[b].addr = addr /\ s.bufs[b].status \notin FreeStatus
      /\ s.addrs[addr].alloc = Owner(s, b) /\ Owner(s, b) \in Allocators
      /\ s.bufs[b] \in BufType
  BY <1>1, AddrFacts
<1>3. PICK a \in Allocators : a = Owner(s, b)
  BY <1>2
<1>4. PICK f : f = Free(s, a, b, "Idle")
  OBVIOUS
<1>5. t = AfterFree(f, b, addr, s.bufs[b].size)
  BY <1>2, <1>3, <1>4 DEF DoFreeTensorMem
<1>6. s.bufs[b].events \in [UserStreams -> Seq(Nat)]
  BY <1>2 DEF BufType
<1>7. IsEventNotUsed(s.bufs[b]) <=> s.bufs[b].events = NoEvents
  BY <1>6 DEF IsEventNotUsed, NoEvents
<1>8. CASE s.bufs[b].events # NoEvents
  <2>1. f = [s |-> [s EXCEPT !.bufs[b].status = "UsedByEvent"], freed |-> FALSE]
    BY <1>4, <1>7, <1>8 DEF Free
  <2>2. t = [s EXCEPT !.bufs[b].status = "UsedByEvent"]
    BY <2>1, <1>5 DEF AfterFree
  <2>3. PICK buf : buf = [s.bufs[b] EXCEPT !.status = "UsedByEvent"]
    OBVIOUS
  <2>4. /\ buf \in BufType /\ buf.status = "UsedByEvent"
        /\ buf.addr = s.bufs[b].addr /\ buf.size = s.bufs[b].size
        /\ buf.mem_block = s.bufs[b].mem_block
        /\ buf.prev = s.bufs[b].prev /\ buf.next = s.bufs[b].next
        /\ buf.events = s.bufs[b].events /\ buf.stream_id = s.bufs[b].stream_id
    <3>1. "UsedByEvent" \in BufStatus
      BY DEF BufStatus
    <3> QED
      BY <3>1, <2>3, <1>2 DEF BufType
  <2>5. /\ t.bufs = [s.bufs EXCEPT ![b] = buf] /\ t.lists = s.lists /\ SameButBufs(s, t)
        /\ Fields \subseteq DOMAIN t
    BY <2>2, <2>3, <1>1 DEF SameButBufs, Fields
  <2>6. t.blocks = s.blocks /\ t.addrs = s.addrs /\ t.pairs = s.pairs /\ t.inuse = s.inuse
    BY <2>5 DEF SameButBufs
  <2>7. buf.status \notin FreeStatus
    BY <2>4 DEF FreeStatus
  <2>8. Calm(t) /\ ListsExact(t, {}) /\ AddrsExact(t, {})
    BY <2>4, <2>5, <2>6, <2>7, <1>1, <1>2, TouchedOK
  <2>9. /\ DOMAIN t.bufs = D
        /\ \A c \in D : /\ t.bufs[c].stream_id = s.bufs[c].stream_id
                        /\ t.bufs[c].events = s.bufs[c].events
                        /\ t.bufs[c].addr = s.bufs[c].addr
                        /\ t.bufs[c].size = s.bufs[c].size
                        /\ c # b => t.bufs[c] = s.bufs[c]
    BY <2>4, <2>5, <1>2
  <2>10. EventsKept(s.bufs, t.bufs)
    BY <2>9 DEF EventsKept
  <2>12. Deferred(t.bufs, {})
    BY <2>9, <1>1, <1>8 DEF Deferred
  <2>11. t.vmm = s.vmm /\ EagerKept(s.bufs, t.bufs)
    <3>1. s.bufs[b].status # "EagerFree" /\ t.bufs[b].status # "EagerFree"
      BY <2>4, <2>5, <1>2 DEF FreeStatus
    <3> QED
      BY <3>1, <2>5, <2>9 DEF EagerKept, SameButBufs
  <2>14. t.stat = s.stat /\ t.bufs[b].mem_block = s.bufs[b].mem_block
    BY <2>4, <2>5, <1>2 DEF SameButBufs
  <2>15. Uncounted(s, t, b, addr)
    BY <2>6, <2>9, <2>14, <1>2 DEF Uncounted
  <2>13. FreeFrame(s, t, b, addr)
    BY <2>6, <2>9, <2>10, <2>11, <2>15, <1>2 DEF FreeFrame, SameBuf
  <2> QED
    BY <2>8, <2>12, <2>13 DEF Kept
<1>9. CASE s.bufs[b].events = NoEvents
  <2> DEFINE marked == Mark(s.bufs, b, "Idle")
  <2>1. "Idle" \in FreeStatus
    BY DEF FreeStatus
  <2>2. \A x \in Allocators : s.lists[x]["Idle"] = Listed(s, D, x, "Idle")
    BY <2>1, <1>1 DEF ListsExact
  <2>3. PICK u : u = f.s
    OBVIOUS
  <2>4. /\ f.freed
        /\ Pooled(u) /\ SameButBufs(s, u) /\ Merged(u.bufs)
        /\ Absorbed(marked, u.bufs, b, "Idle")
        /\ \A x \in Allocators : u.lists[x]["Idle"] = Listed(u, DOMAIN u.bufs, x, "Idle")
        /\ OtherListsSame(s, u, "Idle")
    <3>1. s.bufs[b].status # "Idle" /\ Owner(s, b) = a
      BY <2>1, <1>2, <1>3
    <3>2. /\ Pooled(s) /\ Merged(s.bufs) /\ b \in DOMAIN s.bufs /\ a \in Allocators
          /\ s.bufs[b].events = NoEvents /\ f = Free(s, a, b, "Idle") /\ u = f.s
      BY <2>3, <1>1, <1>2, <1>3, <1>4, <1>9
    <3> QED
      BY <3>1, <3>2, <2>1, <2>2, FreeOK
  <2>5. /\ DOMAIN marked = D /\ marked[b].status = "Idle"
        /\ marked[b].events = NoEvents
        /\ marked[b].stream_id = s.bufs[b].stream_id
        /\ marked[b].mem_block = s.bufs[b].mem_block
        /\ \A c \in D \ {b} : marked[c] = s.bufs[c]
    BY <1>2, <1>9 DEF BufType, Mark
  <2> HIDE DEF marked
  <2>6. t = [u EXCEPT !.stat.used_size = @ - s.bufs[b].size, !.addrs = Without(@, addr)]
    BY <2>3, <2>4, <1>5 DEF AfterFree
  <2>7. /\ t.bufs = u.bufs /\ t.lists = u.lists /\ t.blocks = u.blocks /\ t.pairs = u.pairs
        /\ t.inuse = u.inuse /\ t.addrs = Without(u.addrs, addr) /\ Fields \subseteq DOMAIN t
        /\ t.vmm = u.vmm
    BY <2>4, <2>6 DEF Pooled, Fields
  <2>8. u.blocks = s.blocks /\ u.addrs = s.addrs /\ u.pairs = s.pairs /\ u.inuse = s.inuse /\ u.vmm = s.vmm
    BY <2>4 DEF SameButBufs
  <2>9. DOMAIN t.addrs = DOMAIN s.addrs \ {addr} /\ \A x \in DOMAIN t.addrs : t.addrs[x] = s.addrs[x]
    BY <2>7, <2>8 DEF Without, Restrict
  <2>10. /\ DOMAIN t.bufs \subseteq D /\ b \in DOMAIN t.bufs
         /\ t.bufs[b].status = "Idle" /\ t.bufs[b].events = NoEvents
         /\ t.bufs[b].mem_block = s.bufs[b].mem_block
         /\ \A c \in DOMAIN t.bufs \ {b} : SameBuf(s.bufs, t.bufs, c)
         /\ \A c \in D \ DOMAIN t.bufs : s.bufs[c].status = "Idle"
    <3>1. /\ DOMAIN u.bufs \subseteq D /\ b \in DOMAIN u.bufs
          /\ \A c \in DOMAIN u.bufs \ {b} : SameBuf(marked, u.bufs, c)
          /\ u.bufs[b].mem_block = marked[b].mem_block
          /\ u.bufs[b].status = marked[b].status
          /\ u.bufs[b].events = marked[b].events
          /\ \A c \in D \ DOMAIN u.bufs : marked[c].status = "Idle"
      BY <2>4, <2>5 DEF Absorbed
    <3>2. \A c \in DOMAIN u.bufs \ {b} : SameBuf(s.bufs, u.bufs, c)
      BY <3>1, <2>5 DEF SameBuf
    <3>3. \A c \in D \ DOMAIN u.bufs : s.bufs[c].status = "Idle"
      BY <3>1, <2>5
    <3> QED
      BY <3>1, <3>2, <3>3, <2>5, <2>7
  <2>11. Pooled(t) /\ Merged(t.bufs)
    BY <2>4, <2>7 DEF Pooled
  <2>12. QuietFree(t.bufs) /\ Deferred(t.bufs, {})
    BY <2>10, <1>1 DEF QuietFree, Deferred, SameBuf
  <2>13. \A c \in DOMAIN t.bufs : Owner(t, c) = Owner(s, c)
    BY <2>7, <2>8, <2>10 DEF Owner, SameBuf
  <2>14. ListsExact(t, {})
    <3>1. ASSUME NEW x \in Allocators, NEW st \in FreeStatus
          PROVE  t.lists[x][st] = Listed(t, DOMAIN t.bufs, x, st)
      <4>1. CASE st = "Idle"
        <5>1. Listed(t, DOMAIN t.bufs, x, st) = Listed(u, DOMAIN u.bufs, x, st)
          BY <2>7 DEF Listed, Owner
        <5> QED
          BY <5>1, <4>1, <2>4, <2>7
      <4>2. CASE st # "Idle"
        <5>1. t.lists[x][st] = s.lists[x][st]
          BY <4>2, <2>4, <2>7 DEF OtherListsSame
        <5>2. s.lists[x][st] = Listed(s, D, x, st)
          BY <1>1 DEF ListsExact
        <5>3. Listed(t, DOMAIN t.bufs, x, st) = Listed(s, D, x, st)
          BY <4>2, <2>10, <2>13, <1>2 DEF Listed, SameBuf
        <5> QED
          BY <5>1, <5>2, <5>3
      <4> QED
        BY <4>1, <4>2
    <3> QED
      BY <3>1 DEF ListsExact
  <2>15. AddrsExact(t, {})
    <3>1. ASSUME NEW x \in DOMAIN t.addrs, NEW c, c = t.addrs[x].buf
          PROVE  /\ c \in DOMAIN t.bufs /\ t.bufs[c].addr = x /\ t.bufs[c].status \notin FreeStatus
                 /\ t.addrs[x].alloc = Owner(t, c)
      <4>1. x \in DOMAIN s.addrs /\ x # addr /\ c = s.addrs[x].buf /\ t.addrs[x] = s.addrs[x]
        BY <3>1, <2>9
      <4>2. /\ c \in D /\ s.bufs[c].addr = x /\ s.bufs[c].status \notin FreeStatus
            /\ s.addrs[x].alloc = Owner(s, c)
        BY <4>1, <1>1, AddrFacts
      <4>3. c # b /\ c \in DOMAIN t.bufs
        BY <4>1, <4>2, <2>1, <2>10, <1>2
      <4> QED
        BY <4>1, <4>2, <4>3, <2>10, <2>13 DEF SameBuf
    <3>2. ASSUME NEW c \in DOMAIN t.bufs, t.bufs[c].status \notin FreeStatus
          PROVE  t.bufs[c].addr \in DOMAIN t.addrs /\ t.addrs[t.bufs[c].addr].buf = c
      <4>1. c # b
        BY <3>2, <2>1, <2>10
      <4>2. t.bufs[c].addr = s.bufs[c].addr /\ s.bufs[c].status \notin FreeStatus /\ c \in D
        BY <4>1, <3>2, <2>10 DEF SameBuf
      <4>3. s.bufs[c].addr \in DOMAIN s.addrs /\ s.addrs[s.bufs[c].addr].buf = c
        BY <4>2, <1>1 DEF AddrsExact
      <4>4. s.bufs[c].addr # addr
        BY <4>1, <4>3
      <4> QED
        BY <4>2, <4>3, <4>4, <2>9
    <3> QED
      BY <3>1, <3>2 DEF AddrsExact
  <2>16. \A c \in D : s.bufs[c].events # NoEvents =>
            c # b /\ c \in DOMAIN t.bufs /\ SameBuf(s.bufs, t.bufs, c)
    BY <2>1, <2>10, <1>1, <1>9 DEF QuietFree
  <2>17. EventsKept(s.bufs, t.bufs)
    BY <2>10, <2>16 DEF EventsKept, SameBuf
  <2>18. EagerKept(s.bufs, t.bufs)
    <3>1. s.bufs[b].status # "EagerFree" /\ t.bufs[b].status # "EagerFree"
      BY <2>10, <1>2 DEF FreeStatus
    <3> QED
      BY <3>1, <2>10 DEF EagerKept, SameBuf
  <2>20. u.stat = s.stat /\ t.stat = [u.stat EXCEPT !.used_size = @ - s.bufs[b].size]
    BY <2>4, <2>6 DEF SameButBufs, Pooled, Fields
  <2>21. Uncounted(s, t, b, addr)
    BY <2>9, <2>10, <2>20 DEF Uncounted
  <2>19. FreeFrame(s, t, b, addr)
    BY <2>7, <2>8, <2>9, <2>10, <2>17, <2>18, <2>21 DEF FreeFrame
  <2> QED
    BY <2>11, <2>12, <2>14, <2>15, <2>19 DEF Kept, Calm
<1> QED
  BY <1>8, <1>9

\* The pages do not change.
LEMMA FreePages ==
  ASSUME NEW s, NEW t, NEW b, NEW addr, FreeFrame(s, t, b, addr), Paged(s)
  PROVE  Paged(t)
BY SamePages DEF FreeFrame

-----------------------------------------------------------------------------
(* Folds.  The provers take no operator as a parameter of a lemma, so the  *)
(* steps of all the folds are one operator, which a tag tells apart.       *)

\* The same buffers with events, and the same eager-free ones.
LEMMA SameEventBytes ==
  ASSUME NEW bufs, NEW new, EventsKept(bufs, new)
  PROVE  EventBytes(new) = EventBytes(bufs)
<1>1. ASSUME NEW x \in Bytes PROVE x \in EventBytes(new) <=> x \in EventBytes(bufs)
  BY DEF EventBytes, EventsKept, Span, End
<1> QED
  BY <1>1 DEF EventBytes

LEMMA SameEagerBytes ==
  ASSUME NEW bufs, NEW new, EagerKept(bufs, new)
  PROVE  EagerBytes(new) = EagerBytes(bufs)
<1>1. ASSUME NEW x \in Bytes PROVE x \in EagerBytes(new) <=> x \in EagerBytes(bufs)
  BY DEF EagerBytes, EagerKept, End
<1> QED
  BY <1>1 DEF EagerBytes

\* What is freed at once is no longer counted.
LEMMA FreeCounted ==
  ASSUME NEW s, NEW addr \in DOMAIN s.addrs, NEW b, b = s.addrs[addr].buf, Kept(s, {b}),
         NEW t, Kept(t, {}), FreeFrame(s, t, b, addr), Counted(s)
  PROVE  Counted(t)
<1>1. /\ Pooled(s) /\ AddrsExact(s, {}) /\ Shape(s.bufs, s.blocks) /\ Shape(t.bufs, t.blocks) /\ t.blocks = s.blocks
  BY DEF Kept, Calm, Pooled, FreeFrame
<1>2. /\ b \in DOMAIN s.bufs /\ s.bufs[b].addr = addr /\ s.bufs[b].status \notin FreeStatus
  BY <1>1, AddrFacts
<1>3. EventBytes(t.bufs) = EventBytes(s.bufs) /\ EagerBytes(t.bufs) = EagerBytes(s.bufs)
  BY SameEventBytes, SameEagerBytes DEF FreeFrame
<1>4. ASSUME NEW a \in DOMAIN s.addrs, NEW c, c = s.addrs[a].buf, a # addr
      PROVE  c # b /\ c \in DOMAIN s.bufs /\ Span(t.bufs[c]) = Span(s.bufs[c])
  <2>1. c \in DOMAIN s.bufs /\ s.bufs[c].addr = a /\ s.bufs[c].status \notin FreeStatus
    BY <1>1, <1>4, AddrFacts
  <2>2. c # b /\ s.bufs[c].status # "Idle"
    BY <2>1, <1>2, <1>4 DEF FreeStatus
  <2>3. SameBuf(s.bufs, t.bufs, c)
    BY <2>1, <2>2 DEF FreeFrame
  <2> QED
    BY <2>1, <2>2, <2>3, SameSpan DEF SameBuf
<1>5. CASE /\ t.stat = s.stat /\ t.addrs = s.addrs
           /\ b \in DOMAIN t.bufs /\ t.bufs[b].mem_block = s.bufs[b].mem_block
           /\ t.bufs[b].addr = s.bufs[b].addr /\ t.bufs[b].size = s.bufs[b].size
  <2>1. Span(t.bufs[b]) = Span(s.bufs[b])
    BY <1>5, SameSpan
  <2>2. UsedBytes(t) = UsedBytes(s)
    BY <2>1, <1>4, <1>5, SameUsed
  <2>3. Within(s, t)
    <3>1. ASSUME NEW c \in DOMAIN t.bufs, t.bufs[c].status \notin FreeStatus
          PROVE  /\ c \in DOMAIN s.bufs /\ s.bufs[c].status \notin FreeStatus
                 /\ s.bufs[c].mem_block = t.bufs[c].mem_block
                 /\ s.bufs[c].addr = t.bufs[c].addr /\ End(t.bufs[c]) = End(s.bufs[c])
      <4>1. CASE c = b
        BY <4>1, <1>2, <1>5 DEF End
      <4>2. CASE c # b
        BY <4>2, <3>1 DEF FreeFrame, SameBuf, End
      <4> QED
        BY <4>1, <4>2
    <3>2. \A c \in DOMAIN s.bufs : s.bufs[c].addr \in Nat /\ End(s.bufs[c]) \in Nat
      BY <1>1, ShapeFacts
    <3> QED
      BY <3>1, <3>2 DEF Within
  <2> QED
    BY <2>2, <2>3, <1>1, <1>3, <1>5, StillCounted
<1>6. CASE /\ t.stat = [s.stat EXCEPT !.used_size = @ - s.bufs[b].size]
           /\ addr \notin DOMAIN t.addrs
           /\ b \in DOMAIN t.bufs /\ t.bufs[b].status = "Idle"
  <2>1. UsedBytes(t) = UsedBytes(s) \ Span(s.bufs[b])
    <3>1. ASSUME NEW x \in UsedBytes(t) PROVE x \in UsedBytes(s) /\ x \notin Span(s.bufs[b])
      <4>1. PICK a \in DOMAIN t.addrs : x \in Span(t.bufs[t.addrs[a].buf])
        BY DEF UsedBytes
      <4>2. a \in DOMAIN s.addrs /\ a # addr /\ t.addrs[a] = s.addrs[a]
        BY <4>1, <1>6 DEF FreeFrame
      <4>3. PICK c : c = s.addrs[a].buf
        OBVIOUS
      <4>4. c # b /\ c \in DOMAIN s.bufs /\ x \in Span(s.bufs[c])
        BY <4>1, <4>2, <4>3, <1>4
      <4>5. x \notin Span(s.bufs[b])
        BY <4>4, <1>1, <1>2, SpansApart
      <4> QED
        BY <4>2, <4>3, <4>4, <4>5 DEF UsedBytes
    <3>2. ASSUME NEW x \in UsedBytes(s), x \notin Span(s.bufs[b]) PROVE x \in UsedBytes(t)
      <4>1. PICK a \in DOMAIN s.addrs : x \in Span(s.bufs[s.addrs[a].buf])
        BY DEF UsedBytes
      <4>2. a # addr
        BY <4>1, <3>2
      <4>3. a \in DOMAIN t.addrs /\ t.addrs[a] = s.addrs[a]
        BY <4>2 DEF FreeFrame
      <4>4. x \in Span(t.bufs[t.addrs[a].buf])
        BY <4>1, <4>2, <4>3, <1>4
      <4> QED
        BY <4>3, <4>4 DEF UsedBytes
    <3> QED
      BY <3>1, <3>2
  <2>2. Span(s.bufs[b]) \subseteq UsedBytes(s) /\ UsedBytes(s) \subseteq Bytes
    BY DEF UsedBytes, Span
  <2>3. s.bufs[b].size \in Nat /\ Cardinality(Span(s.bufs[b])) = s.bufs[b].size
    BY <1>1, <1>2, SpanCount, ShapeFacts
  <2>4. Cardinality(UsedBytes(t)) = Cardinality(UsedBytes(s)) - s.bufs[b].size
    BY <2>1, <2>2, <2>3, BytesLess
  <2>5. Within(s, t)
    <3>1. ASSUME NEW c \in DOMAIN t.bufs, t.bufs[c].status \notin FreeStatus
          PROVE  /\ c \in DOMAIN s.bufs /\ s.bufs[c].status \notin FreeStatus
                 /\ s.bufs[c].mem_block = t.bufs[c].mem_block
                 /\ s.bufs[c].addr = t.bufs[c].addr /\ End(t.bufs[c]) = End(s.bufs[c])
      <4>1. c # b
        BY <3>1, <1>6 DEF FreeStatus
      <4> QED
        BY <4>1, <3>1 DEF FreeFrame, SameBuf, End
    <3>2. \A c \in DOMAIN s.bufs : s.bufs[c].addr \in Nat /\ End(s.bufs[c]) \in Nat
      BY <1>1, ShapeFacts
    <3> QED
      BY <3>1, <3>2 DEF Within
  <2>6. Bordered(t)
    BY <2>5, <1>1, WithinBorder DEF Counted, CountedRest, EagerExact
  <2>7. PICK n : n = s.bufs[b].size
    OBVIOUS
  <2>8. /\ t.stat \in [StatFields -> Int] /\ t.stat.used_size = s.stat.used_size - n
        /\ \A y \in StatFields \ {"used_size"} : t.stat[y] = s.stat[y]
    BY <2>3, <2>7, <1>6 DEF Counted, CountedRest, EagerExact, StatFields
  <2>9. s.stat \in [StatFields -> Int] /\ Peaked(s.stat)
    BY DEF Counted, CountedRest, EagerExact
  <2>10. Peaked(t.stat)
    BY <2>3, <2>7, <2>8, <2>9 DEF Peaked, StatFields
  <2>11. /\ t.stat.alloc_size = s.stat.alloc_size /\ t.stat.used_by_event_size = s.stat.used_by_event_size
         /\ t.stat.eager_free_size = s.stat.eager_free_size /\ t.stat.eager_drift = s.stat.eager_drift
    BY <2>8 DEF StatFields
  <2>12. t.stat.used_size = Cardinality(UsedBytes(t))
    BY <2>4, <2>7, <2>8 DEF Counted, CountedRest, EagerExact
  <2> QED
    BY <2>6, <2>8, <2>10, <2>11, <2>12, <1>1, <1>3 DEF Counted, CountedRest, EagerExact
<1> QED
  BY <1>5, <1>6 DEF FreeFrame, Uncounted

\* Status and events of a buffer in use do not matter to the bytes in use.
LEMMA TouchedBytes ==
  ASSUME NEW s, NEW t, NEW b, NEW buf, Shape(s.bufs, s.blocks), b \in DOMAIN s.bufs,
         s.bufs[b].status \notin FreeStatus, buf.status \notin FreeStatus,
         buf.addr = s.bufs[b].addr, buf.size = s.bufs[b].size, buf.mem_block = s.bufs[b].mem_block,
         t.bufs = [s.bufs EXCEPT ![b] = buf], t.addrs = s.addrs
  PROVE  /\ UsedBytes(t) = UsedBytes(s) /\ EagerBytes(t.bufs) = EagerBytes(s.bufs) /\ Within(s, t)
         /\ EventBytes(t.bufs) = (EventBytes(s.bufs) \ Span(s.bufs[b]))
                                   \cup (IF buf.events # NoEvents THEN Span(s.bufs[b]) ELSE {})
<1>1. /\ DOMAIN t.bufs = DOMAIN s.bufs /\ t.bufs[b] = buf
      /\ \A c \in DOMAIN s.bufs \ {b} : t.bufs[c] = s.bufs[c]
  OBVIOUS
<1>2. \A c : Span(t.bufs[c]) = Span(s.bufs[c])
  <2>1. Span(buf) = Span(s.bufs[b])
    BY SameSpan
  <2>2. ASSUME NEW c, c # b PROVE t.bufs[c] = s.bufs[c]
    BY <2>2
  <2> QED
    BY <2>1, <2>2, <1>1
<1>3. UsedBytes(t) = UsedBytes(s)
  BY <1>2, SameUsed
<1>4. EagerBytes(t.bufs) = EagerBytes(s.bufs)
  <2>1. EagerKept(s.bufs, t.bufs)
    BY <1>1 DEF EagerKept, FreeStatus
  <2> QED
    BY <2>1, SameEagerBytes
<1>5. Within(s, t)
  <2>1. ASSUME NEW c \in DOMAIN t.bufs, t.bufs[c].status \notin FreeStatus
        PROVE  /\ s.bufs[c].status \notin FreeStatus /\ s.bufs[c].mem_block = t.bufs[c].mem_block
               /\ s.bufs[c].addr = t.bufs[c].addr /\ End(t.bufs[c]) = End(s.bufs[c])
    BY <2>1, <1>1 DEF End
  <2>2. \A c \in DOMAIN s.bufs : s.bufs[c].addr \in Nat /\ End(s.bufs[c]) \in Nat
    BY ShapeFacts
  <2> QED
    BY <2>1, <2>2, <1>1 DEF Within
<1>6. ASSUME NEW x \in Bytes
      PROVE  x \in EventBytes(t.bufs) <=>
               \/ x \in EventBytes(s.bufs) /\ x \notin Span(s.bufs[b])
               \/ buf.events # NoEvents /\ x \in Span(s.bufs[b])
  <2>1. CASE x \in Span(s.bufs[b])
    <3>1. \A c \in DOMAIN s.bufs : x \in Span(s.bufs[c]) => c = b
      BY <2>1, SpansApart
    <3> QED
      BY <3>1, <2>1, <1>1, <1>2 DEF EventBytes
  <2>2. CASE x \notin Span(s.bufs[b])
    BY <2>2, <1>1, <1>2 DEF EventBytes
  <2> QED
    BY <2>1, <2>2
<1>7. Span(s.bufs[b]) \subseteq Bytes /\ EventBytes(t.bufs) \subseteq Bytes /\ EventBytes(s.bufs) \subseteq Bytes
  BY DEF Span, EventBytes
<1> QED
  BY <1>3, <1>4, <1>5, <1>6, <1>7

\* Counting memory with events anew.
LEMMA EventsCounted ==
  ASSUME NEW s, NEW t, Counted(s), Shape(s.bufs, s.blocks), Shape(t.bufs, t.blocks),
         t.blocks = s.blocks, UsedBytes(t) = UsedBytes(s), EagerBytes(t.bufs) = EagerBytes(s.bufs), Within(s, t),
         NEW n \in Int, n >= Cardinality(EventBytes(t.bufs)), t.stat = [s.stat EXCEPT !.used_by_event_size = n]
  PROVE  Counted(t)
<1>1. Bordered(t)
  BY WithinBorder DEF Counted, CountedRest, EagerExact
<1>2. /\ t.stat \in [StatFields -> Int] /\ t.stat.used_by_event_size = n
      /\ \A y \in StatFields \ {"used_by_event_size"} : t.stat[y] = s.stat[y]
  BY DEF Counted, CountedRest, EagerExact, StatFields
<1>3. /\ t.stat.used_size = s.stat.used_size /\ t.stat.alloc_size = s.stat.alloc_size
      /\ t.stat.eager_free_size = s.stat.eager_free_size /\ t.stat.eager_drift = s.stat.eager_drift
      /\ t.stat.peak_size = s.stat.peak_size
      /\ t.stat.temp_peak_size = s.stat.temp_peak_size /\ t.stat.temp_used_size = s.stat.temp_used_size
  BY <1>2 DEF StatFields
<1>4. Peaked(t.stat)
  BY <1>3 DEF Counted, CountedRest, EagerExact, Peaked
<1> QED
  BY <1>1, <1>2, <1>3, <1>4 DEF Counted, CountedRest, EagerExact

\* Events dropped without a change of the statistics.
LEMMA DroppedCounted ==
  ASSUME NEW s, NEW t, NEW b, NEW buf, Shape(s.bufs, s.blocks), Shape(t.bufs, t.blocks), b \in DOMAIN s.bufs,
         s.bufs[b].status \notin FreeStatus, buf.status \notin FreeStatus, s.bufs[b].events # NoEvents,
         buf.addr = s.bufs[b].addr, buf.size = s.bufs[b].size, buf.mem_block = s.bufs[b].mem_block,
         t.bufs = [s.bufs EXCEPT ![b] = buf], t.addrs = s.addrs, t.blocks = s.blocks, t.stat = s.stat
  PROVE  Counted(s) => Counted(t)
<1>1. /\ UsedBytes(t) = UsedBytes(s) /\ EagerBytes(t.bufs) = EagerBytes(s.bufs) /\ Within(s, t)
      /\ EventBytes(t.bufs) = (EventBytes(s.bufs) \ Span(s.bufs[b]))
                                \cup (IF buf.events # NoEvents THEN Span(s.bufs[b]) ELSE {})
  BY TouchedBytes
<1>2. Span(s.bufs[b]) \subseteq EventBytes(s.bufs)
  BY DEF EventBytes, Span
<1>3. EventBytes(t.bufs) \subseteq EventBytes(s.bufs)
  BY <1>1, <1>2
<1> QED
  BY <1>1, <1>3, StillCounted

\* The last event of a buffer dropped, and its size no longer counted.
LEMMA WaitedCounted ==
  ASSUME NEW s, NEW t, NEW b, NEW buf, Shape(s.bufs, s.blocks), Shape(t.bufs, t.blocks), b \in DOMAIN s.bufs,
         s.bufs[b].status \notin FreeStatus, buf.status \notin FreeStatus, s.bufs[b].events # NoEvents,
         buf.addr = s.bufs[b].addr, buf.size = s.bufs[b].size, buf.mem_block = s.bufs[b].mem_block,
         buf.events = NoEvents, t.bufs = [s.bufs EXCEPT ![b] = buf], t.addrs = s.addrs, t.blocks = s.blocks,
         t.stat = [s.stat EXCEPT !.used_by_event_size = @ - s.bufs[b].size]
  PROVE  Counted(s) => Counted(t)
<1> SUFFICES ASSUME Counted(s) PROVE Counted(t)
  OBVIOUS
<1>1. /\ UsedBytes(t) = UsedBytes(s) /\ EagerBytes(t.bufs) = EagerBytes(s.bufs) /\ Within(s, t)
      /\ EventBytes(t.bufs) = EventBytes(s.bufs) \ Span(s.bufs[b])
  <2>1. (IF buf.events # NoEvents THEN Span(s.bufs[b]) ELSE {}) = {}
    OBVIOUS
  <2> QED
    BY <2>1, TouchedBytes
<1>2. Span(s.bufs[b]) \subseteq EventBytes(s.bufs) /\ EventBytes(s.bufs) \subseteq Bytes
  BY DEF EventBytes, Span
<1>3. s.bufs[b].size \in Nat /\ Cardinality(Span(s.bufs[b])) = s.bufs[b].size
  BY SpanCount, ShapeFacts
<1>4. /\ Cardinality(EventBytes(t.bufs)) = Cardinality(EventBytes(s.bufs)) - s.bufs[b].size
      /\ Cardinality(EventBytes(s.bufs)) \in Nat
  <2>1. /\ Cardinality(EventBytes(s.bufs) \ Span(s.bufs[b])) = Cardinality(EventBytes(s.bufs)) - Cardinality(Span(s.bufs[b]))
        /\ Cardinality(EventBytes(s.bufs)) \in Nat
    BY <1>2, BytesLess
  <2>2. Cardinality(EventBytes(t.bufs)) = Cardinality(EventBytes(s.bufs) \ Span(s.bufs[b]))
    BY <1>1
  <2> QED
    BY <2>1, <2>2, <1>3
<1>5. PICK n : n = s.stat.used_by_event_size - s.bufs[b].size
  OBVIOUS
<1>6. s.stat.used_by_event_size \in Int /\ s.stat.used_by_event_size >= Cardinality(EventBytes(s.bufs))
  BY DEF Counted, CountedRest, EagerExact, StatFields
<1>7. n \in Int /\ n >= Cardinality(EventBytes(t.bufs))
  BY <1>3, <1>4, <1>5, <1>6
<1>8. t.stat = [s.stat EXCEPT !.used_by_event_size = n]
  BY <1>5
<1> QED
  BY <1>1, <1>7, <1>8, EventsCounted

\* An event recorded: the buffer is counted when that is its first.
LEMMA RecordCounted ==
  ASSUME NEW s, NEW t, NEW b, NEW buf, Shape(s.bufs, s.blocks), Shape(t.bufs, t.blocks), b \in DOMAIN s.bufs,
         s.bufs[b].status \notin FreeStatus, buf.status \notin FreeStatus, buf.events # NoEvents,
         buf.addr = s.bufs[b].addr, buf.size = s.bufs[b].size, buf.mem_block = s.bufs[b].mem_block,
         t.bufs = [s.bufs EXCEPT ![b] = buf], t.addrs = s.addrs, t.blocks = s.blocks,
         NEW more, more = IF s.bufs[b].events = NoEvents THEN s.bufs[b].size ELSE 0,
         t.stat = [s.stat EXCEPT !.used_by_event_size = @ + more]
  PROVE  Counted(s) => Counted(t)
<1> SUFFICES ASSUME Counted(s) PROVE Counted(t)
  OBVIOUS
<1>1. PICK E, F, P : E = EventBytes(s.bufs) /\ F = EventBytes(t.bufs) /\ P = Span(s.bufs[b])
  OBVIOUS
<1>2. /\ UsedBytes(t) = UsedBytes(s) /\ EagerBytes(t.bufs) = EagerBytes(s.bufs) /\ Within(s, t)
      /\ F = (E \ P) \cup P
  <2>1. (IF buf.events # NoEvents THEN Span(s.bufs[b]) ELSE {}) = Span(s.bufs[b])
    OBVIOUS
  <2> QED
    BY <2>1, <1>1, TouchedBytes
<1>3. E \subseteq Bytes /\ P \subseteq Bytes /\ Cardinality(P) = s.bufs[b].size /\ s.bufs[b].size \in Nat
  BY <1>1, SpanCount, ShapeFacts DEF EventBytes
<1>4. Cardinality(F) = Cardinality(E) + more /\ Cardinality(E) \in Nat /\ more \in Nat
  <2>1. CASE s.bufs[b].events = NoEvents
    <3>1. E \cap P = {}
      <4>1. ASSUME NEW x \in P, x \in E PROVE FALSE
        <5>1. PICK c \in DOMAIN s.bufs : s.bufs[c].events # NoEvents /\ x \in Span(s.bufs[c])
          BY <4>1, <1>1 DEF EventBytes
        <5>2. c = b
          BY <5>1, <1>1, SpansApart
        <5> QED
          BY <5>1, <5>2, <2>1
      <4> QED
        BY <4>1
    <3>2. F = E \cup P
      BY <3>1, <1>2
    <3>3. Cardinality(E \cup P) = Cardinality(E) + Cardinality(P) /\ Cardinality(E) \in Nat
      BY <3>1, <1>3, BytesApart
    <3> QED
      BY <3>2, <3>3, <2>1, <1>3
  <2>2. CASE s.bufs[b].events # NoEvents
    <3>1. P \subseteq E
      BY <2>2, <1>1 DEF EventBytes, Span
    <3>2. F = E
      BY <3>1, <1>2
    <3>3. Cardinality(E) \in Nat
      BY <1>3, BytesLess
    <3> QED
      BY <3>2, <3>3, <2>2
  <2> QED
    BY <2>1, <2>2
<1>5. PICK n : n = s.stat.used_by_event_size + more
  OBVIOUS
<1>6. s.stat.used_by_event_size \in Int /\ s.stat.used_by_event_size >= Cardinality(E)
  BY <1>1 DEF Counted, CountedRest, EagerExact, StatFields
<1>7. n \in Int /\ n >= Cardinality(EventBytes(t.bufs))
  <2>1. n \in Int /\ n >= Cardinality(F)
    BY <1>4, <1>5, <1>6
  <2> QED
    BY <2>1, <1>1
<1>8. t.stat = [s.stat EXCEPT !.used_by_event_size = n]
  BY <1>5
<1> QED
  BY <1>2, <1>7, <1>8, EventsCounted

\* Every finite set of numbers has a greatest member.
LEMMA GreatestNumber ==
  ASSUME NEW S, IsFiniteSet(S), S \subseteq Nat, S # {}
  PROVE  Max(S) \in S /\ \A y \in S : Max(S) >= y
<1> DEFINE HasMax(T) == \E x \in T : \A y \in T : x >= y
           Bad == {n \in Nat : \E T \in SUBSET S : T # {} /\ Cardinality(T) = n /\ ~ HasMax(T)}
<1>1. \A T \in SUBSET S : IsFiniteSet(T) /\ Cardinality(T) \in Nat
  BY FS_Subset, FS_CardinalityType
<1>2. ASSUME Bad # {} PROVE FALSE
  <2>1. PICK n \in Bad : \A k \in Bad : n <= k
    BY <1>2, LeastNumber
  <2>2. PICK T \in SUBSET S : T # {} /\ Cardinality(T) = n /\ ~ HasMax(T)
    BY <2>1
  <2>3. PICK x \in T : TRUE
    BY <2>2
  <2>4. /\ T \ {x} \in SUBSET S /\ Cardinality(T \ {x}) = n - 1 /\ n - 1 \in Nat
    <3>1. Cardinality(T \ {x}) = Cardinality(T) - 1
      BY <1>1, <2>2, <2>3, FS_RemoveElement
    <3> QED
      BY <3>1, <1>1, <2>2
  <2>5. CASE T \ {x} = {}
    BY <2>5, <2>2, <2>3
  <2>6. CASE T \ {x} # {}
    <3>1. HasMax(T \ {x})
      BY <2>1, <2>4, <2>6
    <3>2. PICK z \in T \ {x} : \A y \in T \ {x} : z >= y
      BY <3>1
    <3>3. x \in Nat /\ z \in Nat /\ \A y \in T : y \in Nat
      BY <2>2, <2>3, <3>2
    <3>4. CASE z >= x
      <4>1. \A y \in T : z >= y
        BY <3>2, <3>4
      <4> QED
        BY <4>1, <3>2, <2>2
    <3>5. CASE x >= z
      <4>1. \A y \in T : x >= y
        BY <3>2, <3>3, <3>5
      <4> QED
        BY <4>1, <2>2, <2>3
    <3> QED
      BY <3>3, <3>4, <3>5
  <2> QED
    BY <2>5, <2>6
<1>3. HasMax(S)
  <2>1. Cardinality(S) \in Nat
    BY <1>1
  <2> QED
    BY <1>2, <2>1
<1> QED
  BY <1>3 DEF Max

\* One step of FreeIdleMems of allocator a.
IdleStep(t, a, b) ==
  [Free(t, a, b, "EagerFree").s EXCEPT !.stat.eager_free_size = (@ + t.bufs[b].size) % SizeT]

\* The order of a list.
Before(bufs, b, c) ==
  \/ bufs[b].size < bufs[c].size
  \/ bufs[b].size = bufs[c].size /\ bufs[b].addr < bufs[c].addr

\* One piece of AllocContinuousSplit, for entry e whose buffer is first.
CutStep(sizes, e, first, acc, i) ==
  LET new == MemBuf(sizes[i], acc.addr, first.stream_id, first.mem_block, "Used")
  IN  [s |-> InsertBehind(acc.s, acc.prev, new, e.alloc), addr |-> acc.addr + sizes[i], prev |-> NewId(acc.s)]

\* The step of the fold w for member x.
Step(w, acc, x) ==
  CASE w.tag = "sync"   -> SyncBuf(acc, x)
    [] w.tag = "free"   -> DoFreeTensorMem(acc, x)
    [] w.tag = "wait"   -> WaitBuf(acc, x, w.t, w.u, w.m)
    [] w.tag = "idle"   -> IdleStep(acc, w.a, x)
    [] w.tag = "all"    -> FreeIdleMems(acc, x)
    [] w.tag = "waits"  -> WaitPair(acc, w.t, x, w.m)
    [] w.tag = "cut"    -> CutStep(w.sizes, w.e, w.first, acc, x)
    [] w.tag = "sum"    -> acc + w.sizes[x]
    [] w.tag = "double" -> 2 * acc
    [] w.tag = "mmap"   -> MmapPage(acc, x)
    [] w.tag = "unmap"  -> Unmap(acc, x)
    [] w.tag = "evict"  -> EagerFreeDeviceMem(acc, w.bufs[x].addr, w.bufs[x].size)
    [] w.tag = "count"  -> w.sizes[x] + acc

\* The member of T that is taken last.
LastOf(w, T) ==
  CASE w.tag \in {"sync", "free", "wait", "cut", "sum", "mmap"} -> Max(T)
    [] w.tag \in {"all", "waits", "double", "unmap", "evict", "count"} -> CHOOSE x \in T : TRUE
    [] w.tag = "idle" -> CHOOSE c \in T : \A b \in T : b = c \/ Before(w.bufs, b, c)

\* f tells for every subset of S what the steps for its members make of base.
IsFold(f, w, base, S) ==
  f = [T \in SUBSET S |-> IF T = {} THEN base ELSE Step(w, f[T \ {LastOf(w, T)}], LastOf(w, T))]

LEMMA FoldExists ==
  ASSUME NEW w, NEW base, NEW S, IsFiniteSet(S),
         \A T \in SUBSET S : T # {} => LastOf(w, T) \in T
  PROVE  \E f : IsFold(f, w, base, S)
<1> DEFINE Body(f, T) == IF T = {} THEN base ELSE Step(w, f[T \ {LastOf(w, T)}], LastOf(w, T))
           Upto(f, n) == \A T \in SUBSET S : Cardinality(T) <= n => f[T] = Body(f, T)
           Bad == {n \in Nat : ~ \E f : Upto(f, n)}
<1>1. \A T \in SUBSET S : /\ IsFiniteSet(T) /\ Cardinality(T) \in Nat
                          /\ Cardinality(T) = 0 <=> T = {}
                          /\ Cardinality(T) <= Cardinality(S)
  BY FS_Subset, FS_CardinalityType, FS_EmptySet
<1>2. \A T \in SUBSET S : T # {} => /\ T \ {LastOf(w, T)} \in SUBSET S
                                    /\ Cardinality(T \ {LastOf(w, T)}) = Cardinality(T) - 1
  BY <1>1, FS_RemoveElement
<1>3. ASSUME Bad # {} PROVE FALSE
  <2>1. PICK n \in Bad : \A k \in Bad : n <= k
    BY <1>3, LeastNumber
  <2>2. n # 0
    <3> DEFINE g == [T \in SUBSET S |-> base]
    <3>1. Upto(g, 0)
      BY <1>1
    <3> QED
      BY <3>1, <2>1
  <2>3. n \in Nat /\ n - 1 \in Nat /\ n - 1 \notin Bad
    <3>1. n \in Nat
      BY <2>1
    <3>2. n - 1 \in Nat /\ ~ (n <= n - 1)
      BY <3>1, <2>2
    <3> HIDE DEF Bad
    <3> QED
      BY <3>1, <3>2, <2>1
  <2>4. PICK g : Upto(g, n - 1)
    BY <2>3
  <2> DEFINE h == [T \in SUBSET S |-> Body(g, T)]
  <2>5. ASSUME NEW T \in SUBSET S, Cardinality(T) <= n PROVE h[T] = Body(h, T)
    <3>1. CASE T = {}
      BY <3>1
    <3>2. CASE T # {}
      <4>1. PICK U : U = T \ {LastOf(w, T)}
        OBVIOUS
      <4>2. U \in SUBSET S /\ Cardinality(U) <= n - 1
        BY <4>1, <3>2, <2>3, <2>5, <1>1, <1>2
      <4>3. g[U] = Body(g, U) /\ h[U] = Body(g, U)
        BY <4>2, <2>4
      <4>4. h[T] = Step(w, g[U], LastOf(w, T))
        BY <4>1, <3>2
      <4> HIDE DEF h
      <4> QED
        BY <4>1, <4>3, <4>4, <3>2
    <3> QED
      BY <3>1, <3>2
  <2>6. Upto(h, n)
    BY <2>5
  <2> HIDE DEF h
  <2> QED
    BY <2>1, <2>6
<1>4. PICK g : Upto(g, Cardinality(S))
  <2>1. Cardinality(S) \in Nat
    BY <1>1
  <2> QED
    BY <2>1, <1>3
<1> DEFINE h == [T \in SUBSET S |-> g[T]]
<1>5. ASSUME NEW T \in SUBSET S PROVE h[T] = Body(h, T)
  <2>1. h[T] = g[T] /\ g[T] = Body(g, T)
    BY <1>1, <1>4
  <2>2. T # {} => h[T \ {LastOf(w, T)}] = g[T \ {LastOf(w, T)}]
    BY <1>2
  <2> HIDE DEF h
  <2> QED
    BY <2>1, <2>2
<1>6. h = [T \in SUBSET S |-> Body(h, T)]
  BY <1>5
<1> QED
  BY <1>6 DEF IsFold

\* No buffer in use without events, those in X aside, has changed.
Unhurt(s, t, X) ==
  \A c \in DOMAIN s.bufs \ X : s.bufs[c].status = "Used" /\ s.bufs[c].events = NoEvents =>
    c \in DOMAIN t.bufs /\ SameBuf(s.bufs, t.bufs, c)

\* t has the blocks of s, and statistics that are right if those of s are.
Settled(s, t) == t.blocks = s.blocks /\ (Counted(s) => Counted(t))

\* And no address that s has not.
Sealed(s, t) == Settled(s, t) /\ DOMAIN t.addrs \subseteq DOMAIN s.addrs

LEMMA SettledTwice ==
  ASSUME NEW s, NEW t, NEW u, Settled(s, t), Settled(t, u)
  PROVE  Settled(s, u)
BY DEF Settled

LEMMA SealedTwice ==
  ASSUME NEW s, NEW t, NEW u, Sealed(s, t), Sealed(t, u)
  PROVE  Sealed(s, u)
BY SettledTwice DEF Sealed

LEMMA FreeSealed ==
  ASSUME NEW s, NEW addr \in DOMAIN s.addrs, NEW b, b = s.addrs[addr].buf, Kept(s, {b}),
         NEW t, Kept(t, {}), FreeFrame(s, t, b, addr)
  PROVE  Sealed(s, t)
<1>1. Counted(s) => Counted(t)
  BY FreeCounted
<1> QED
  BY <1>1 DEF Sealed, Settled, FreeFrame

\* The same buffers, blocks, index and statistics.
LEMMA SameSealed ==
  ASSUME NEW s, NEW t, t.bufs = s.bufs, t.blocks = s.blocks, t.addrs = s.addrs, t.stat = s.stat
  PROVE  Sealed(s, t)
BY SameCounted DEF Sealed, Settled

\* Byte x is in a block of allocator a.
InBlockOf(blocks, a, x) ==
  \E c \in DOMAIN blocks : blocks[c].owner = a /\ c <= x /\ x < c + blocks[c].size

\* Blocks and adapter are those of base; what has become eager-free is in blocks of a.
Widened(base, acc, a) ==
  /\ acc.vmm = base.vmm /\ acc.blocks = base.blocks
  /\ EagerBytes(base.bufs) \subseteq EagerBytes(acc.bufs)
  /\ \A x \in EagerBytes(acc.bufs) \ EagerBytes(base.bufs) : InBlockOf(base.blocks, a, x)

\* All idle buffers of allocator a but those in R have become eager-free; its idle
\* list is out of date.
Eager(acc, base, a, R) ==
  /\ Calm(acc) /\ AddrsExact(acc, {}) /\ Deferred(acc.bufs, {}) /\ Waiting(acc)
  /\ Unhurt(base, acc, {}) /\ Widened(base, acc, a) /\ Sealed(base, acc)
  /\ \A x \in Allocators : acc.lists[x]["EagerFree"] = Listed(acc, DOMAIN acc.bufs, x, "EagerFree")
  /\ \A x \in Allocators \ {a} : acc.lists[x]["Idle"] = Listed(acc, DOMAIN acc.bufs, x, "Idle")
  /\ R = Listed(acc, DOMAIN acc.bufs, a, "Idle")

\* t is s but for the size of buffer b, which is z.
Trimmed(bufs, old, b, z) ==
  /\ DOMAIN old = DOMAIN bufs
  /\ old[b] = [bufs[b] EXCEPT !.size = z]
  /\ \A c \in DOMAIN bufs \ {b} : old[c] = bufs[c]

SameButSize(s, t, b, z) ==
  /\ Fields \subseteq DOMAIN t
  /\ t.blocks = s.blocks /\ t.lists = s.lists /\ t.addrs = s.addrs
  /\ t.pairs = s.pairs /\ t.inuse = s.inuse /\ t.stat = s.stat /\ t.vmm = s.vmm
  /\ Trimmed(s.bufs, t.bufs, b, z)

\* Buffer p is a piece of the buffer a continuous request was given: it reaches from
\* the end of the first pieces, before of them, to the end of that buffer.
RestOf(w, g, p, before) ==
  /\ p \in DOMAIN g.bufs
  /\ g.bufs[p].status = "Used" /\ g.bufs[p].events = NoEvents
  /\ g.bufs[p].stream_id = w.first.stream_id /\ g.bufs[p].mem_block = w.first.mem_block
  /\ Owner(g, p) = w.e.alloc
  /\ g.bufs[p].addr = w.first.addr + w.sum[before]
  /\ End(g.bufs[p]) = w.first.addr + w.sum[Len(w.sizes)]

\* AllocContinuousSplit behind its i-th piece: acc is a state in order but for the
\* size of that piece, which in that state is all that remains.
CutState(w, acc, i) ==
  /\ acc.addr = w.first.addr + w.sum[i]
  /\ \E g : Good(g) /\ Settled(w.pool, g) /\ RestOf(w, g, acc.prev, i - 1) /\ SameButSize(g, acc.s, acc.prev, w.sizes[i])

\* v is an adapter in order that has reserved the same pages as u.
Remapped(u, v) == AdapterOK(v) /\ DOMAIN v.map = DOMAIN u.map

\* MmapDeviceMem of v behind the pages in T.
Mapping(v, acc, T) ==
  /\ DOMAIN acc = {"v", "done", "ok"} /\ acc.ok \in BOOLEAN
  /\ Remapped(v, acc.v)
  /\ acc.done \subseteq T \ MappedPages(v)
  /\ MappedPages(acc.v) = MappedPages(v) \cup acc.done
  /\ acc.ok => T \subseteq MappedPages(acc.v)

\* Page p lies wholly in the range of len bytes from at on.
PageIn(p, at, len) == at <= p * PageSize /\ p * PageSize + PageSize <= at + len

\* The pages that lie wholly in one of the buffers in T.
PagesWithin(bufs, T) == {p \in Nat : \E b \in T : PageIn(p, bufs[b].addr, bufs[b].size)}

\* The bytes of the spans of the members of T.
Spanned(span, T) == {x \in Bytes : \E c \in T : x \in span[c]}

\* What the steps for the members of T have made of base, out of S.
FoldGood(w, base, S, acc, T) ==
  CASE w.tag = "sync" ->
         /\ Kept(acc, {}) /\ Paged(acc) /\ acc.pairs = base.pairs /\ Unhurt(base, acc, {})
         /\ Sealed(base, acc)
         /\ \A b \in S \ T : b \in DOMAIN acc.bufs /\ acc.bufs[b].events # NoEvents
         /\ \A b \in DOMAIN acc.bufs : acc.bufs[b].events # NoEvents => b \in S \ T
    [] w.tag = "free" ->
         /\ Good(acc) /\ S \ T \subseteq DOMAIN acc.addrs
         /\ Unhurt(base, acc, {base.addrs[x].buf : x \in S}) /\ Sealed(base, acc)
         /\ \A x \in S \ T : acc.addrs[x] = base.addrs[x]
    [] w.tag = "wait" ->
         /\ Good(acc) /\ Unhurt(base, acc, {}) /\ Sealed(base, acc) /\ acc.inuse = base.inuse
         /\ S \ T \subseteq acc.pairs[<<w.u, w.m>>]
    [] w.tag = "idle" -> Eager(acc, base, w.a, S \ T)
    [] w.tag = "all" -> Good(acc) /\ Unhurt(base, acc, {}) /\ Sealed(base, acc)
    [] w.tag = "waits" -> Good(acc) /\ Unhurt(base, acc, {}) /\ Sealed(base, acc)
    [] w.tag = "cut" -> \A i \in 1 .. Len(w.sizes) : T = 2 .. i => CutState(w, acc, i)
    [] w.tag = "sum" -> acc \in Nat
    [] w.tag = "double" -> acc \in Nat /\ acc > Cardinality(T)
    [] w.tag = "mmap" -> Mapping(base.v, acc, T)
    [] w.tag = "unmap" -> Remapped(base, acc) /\ MappedPages(acc) = MappedPages(base) \ T
    [] w.tag = "evict" -> Remapped(base, acc) /\ MappedPages(acc) = MappedPages(base) \ PagesWithin(w.bufs, T)
    [] w.tag = "count" -> acc = Cardinality(Spanned(w.span, T))

\* A fold is good when its base is and every step keeps it so.
LEMMA FoldInduction ==
  ASSUME NEW w, NEW base, NEW S, IsFiniteSet(S),
         \A T \in SUBSET S : T # {} => LastOf(w, T) \in T,
         FoldGood(w, base, S, base, {}),
         \A T \in SUBSET S : \A acc : T # {} /\ FoldGood(w, base, S, acc, T \ {LastOf(w, T)}) =>
            FoldGood(w, base, S, Step(w, acc, LastOf(w, T)), T),
         NEW f, IsFold(f, w, base, S)
  PROVE  FoldGood(w, base, S, f[S], S)
<1> DEFINE Bad == {n \in Nat : \E T \in SUBSET S : Cardinality(T) = n /\ ~ FoldGood(w, base, S, f[T], T)}
<1>1. \A T \in SUBSET S : IsFiniteSet(T) /\ Cardinality(T) \in Nat
  BY FS_Subset, FS_CardinalityType
<1>2. \A T \in SUBSET S : f[T] = IF T = {} THEN base ELSE Step(w, f[T \ {LastOf(w, T)}], LastOf(w, T))
  BY DEF IsFold
<1>3. ASSUME Bad # {} PROVE FALSE
  <2>1. PICK n \in Bad : \A k \in Bad : n <= k
    BY <1>3, LeastNumber
  <2>2. PICK T \in SUBSET S : Cardinality(T) = n /\ ~ FoldGood(w, base, S, f[T], T)
    BY <2>1
  <2>3. T # {}
    BY <2>2, <1>2
  <2>4. PICK x, U : x = LastOf(w, T) /\ U = T \ {x}
    OBVIOUS
  <2>5. x \in T /\ U \in SUBSET S /\ Cardinality(U) = n - 1 /\ n \in Nat /\ n - 1 \in Nat
    <3>1. x \in T /\ U \in SUBSET S
      BY <2>3, <2>4
    <3>2. Cardinality(U) = Cardinality(T) - 1
      BY <3>1, <2>4, <1>1, FS_RemoveElement
    <3> QED
      BY <3>1, <3>2, <2>2, <1>1
  <2>6. FoldGood(w, base, S, f[U], U)
    <3>1. ~ (n <= n - 1)
      BY <2>5
    <3>2. n - 1 \notin Bad
      <4> HIDE DEF Bad
      <4> QED
        BY <3>1, <2>1
    <3> QED
      BY <3>2, <2>5
  <2>7. FoldGood(w, base, S, Step(w, f[U], x), T)
    BY <2>3, <2>4, <2>6
  <2> QED
    BY <2>2, <2>3, <2>4, <2>7, <1>2
<1> QED
  BY <1>1, <1>3

-----------------------------------------------------------------------------
(* SyncAllEvents.                                                          *)

\* Folds in ascending order take the greatest member last.
Ascending == {"sync", "free", "wait", "cut", "sum", "mmap"}

LEMMA LastNumber ==
  ASSUME NEW w, w.tag \in Ascending, NEW T
  PROVE  LastOf(w, T) = Max(T)
BY DEF LastOf, Ascending

LEMMA LastIn ==
  ASSUME NEW w, w.tag \in Ascending, NEW S, IsFiniteSet(S), S \subseteq Nat, NEW T \in SUBSET S, T # {}
  PROVE  LastOf(w, T) \in T
<1>1. IsFiniteSet(T) /\ T \subseteq Nat
  BY FS_Subset
<1> QED
  BY <1>1, LastNumber, GreatestNumber

\* Buffers are a finite set of numbers.
LEMMA BufsFinite ==
  ASSUME NEW s, Pooled(s), NEW S, S \subseteq DOMAIN s.bufs
  PROVE  IsFiniteSet(S) /\ S \subseteq Nat
<1>1. DOMAIN s.bufs \subseteq BufIds
  BY ShapeFacts DEF Pooled
<1>2. IsFiniteSet(BufIds)
  BY BytesFinite, FS_Interval DEF BufIds
<1> QED
  BY <1>1, <1>2, BytesFinite, FS_Subset

\* Every buffer that is not free is in the index.
LEMMA IndexedOK ==
  ASSUME NEW s, NEW b \in DOMAIN s.bufs, AddrsExact(s, {}), s.bufs[b].status \notin FreeStatus
  PROVE  s.bufs[b].addr \in DOMAIN s.addrs /\ s.addrs[s.bufs[b].addr].buf = b
BY DEF AddrsExact

LEMMA SyncBufOK ==
  ASSUME NEW s, NEW b \in DOMAIN s.bufs, Kept(s, {}), Paged(s), s.bufs[b].events # NoEvents,
         NEW r, r = SyncBuf(s, b)
  PROVE  /\ Kept(r, {}) /\ Paged(r) /\ Unhurt(s, r, {}) /\ Sealed(s, r) /\ r.pairs = s.pairs
         /\ \A c \in DOMAIN s.bufs \ {b} : s.bufs[c].events # NoEvents =>
              c \in DOMAIN r.bufs /\ r.bufs[c].events # NoEvents
         /\ \A c \in DOMAIN r.bufs : r.bufs[c].events # NoEvents =>
              c \in DOMAIN s.bufs \ {b} /\ s.bufs[c].events # NoEvents
<1> DEFINE D == DOMAIN s.bufs
           synced == [s EXCEPT !.bufs[b].events = NoEvents]
<1>1. /\ Pooled(s) /\ Calm(s) /\ Merged(s.bufs) /\ QuietFree(s.bufs)
      /\ ListsExact(s, {}) /\ AddrsExact(s, {}) /\ Deferred(s.bufs, {})
      /\ Fields \subseteq DOMAIN s /\ Shape(s.bufs, s.blocks)
  BY DEF Kept, Calm, Pooled
<1>2. /\ s.bufs[b] \in BufType /\ s.bufs[b].status \notin FreeStatus
      /\ s.bufs[b].events \in [UserStreams -> Seq(Nat)]
  <2>1. s.bufs[b] \in BufType
    BY <1>1, ShapeFacts
  <2> QED
    BY <2>1, <1>1 DEF BufType, QuietFree
<1>3. ~ IsEventNotUsed(s.bufs[b])
  BY <1>2 DEF IsEventNotUsed, NoEvents
<1>4. PICK buf : buf = [s.bufs[b] EXCEPT !.events = NoEvents]
  OBVIOUS
<1>5. /\ buf \in BufType /\ buf.status = s.bufs[b].status
      /\ buf.addr = s.bufs[b].addr /\ buf.size = s.bufs[b].size
      /\ buf.mem_block = s.bufs[b].mem_block
      /\ buf.prev = s.bufs[b].prev /\ buf.next = s.bufs[b].next
      /\ buf.events = NoEvents /\ buf.stream_id = s.bufs[b].stream_id
  <2>1. NoEvents \in [UserStreams -> Seq(Nat)]
    BY DEF NoEvents
  <2> QED
    BY <2>1, <1>2, <1>4 DEF BufType
<1>6. /\ synced.bufs = [s.bufs EXCEPT ![b] = buf] /\ synced.lists = s.lists /\ SameButBufs(s, synced)
      /\ Fields \subseteq DOMAIN synced
  BY <1>1, <1>4 DEF SameButBufs, Fields
<1> HIDE DEF synced
<1>7. synced.blocks = s.blocks /\ synced.addrs = s.addrs /\ synced.pairs = s.pairs
  BY <1>6 DEF SameButBufs
<1>8. Calm(synced) /\ ListsExact(synced, {}) /\ AddrsExact(synced, {})
  BY <1>1, <1>2, <1>5, <1>6, <1>7, TouchedOK
<1>9. /\ DOMAIN synced.bufs = D /\ synced.bufs[b] = buf
      /\ \A c \in D \ {b} : synced.bufs[c] = s.bufs[c]
  BY <1>6
<1>10. Kept(synced, {b})
  BY <1>1, <1>8, <1>9 DEF Kept, Deferred
<1>13. Paged(synced)
  BY <1>2, <1>5, <1>6, <1>7, TouchedPages DEF SameButBufs
<1>14. Sealed(s, synced)
  <2>1. synced.stat = s.stat /\ Shape(synced.bufs, synced.blocks)
    BY <1>6, <1>8 DEF SameButBufs, Calm, Pooled
  <2>2. Counted(s) => Counted(synced)
    BY <2>1, <1>1, <1>2, <1>5, <1>6, <1>7, DroppedCounted
  <2> QED
    BY <2>2, <1>7 DEF Sealed, Settled
<1>11. CASE s.bufs[b].status # "UsedByEvent"
  <2>1. r = synced
    BY <1>3, <1>11 DEF SyncBuf, synced
  <2>2. Kept(synced, {})
    BY <1>5, <1>9, <1>10, <1>11 DEF Kept, Deferred
  <2>3. Unhurt(s, synced, {})
    BY <1>5, <1>9 DEF Unhurt, SameBuf
  <2> QED
    BY <2>1, <2>2, <2>3, <1>5, <1>7, <1>9, <1>13, <1>14
<1>12. CASE s.bufs[b].status = "UsedByEvent"
  <2>1. PICK addr : addr = s.bufs[b].addr
    OBVIOUS
  <2>2. r = DoFreeTensorMem(synced, addr)
    BY <2>1, <1>3, <1>12 DEF SyncBuf, synced
  <2>3. addr \in DOMAIN synced.addrs /\ b = synced.addrs[addr].buf
    BY <2>1, <1>1, <1>2, <1>7, IndexedOK
  <2>4. Kept(r, {}) /\ FreeFrame(synced, r, b, addr)
    BY <2>2, <2>3, <1>10, DoFreeOK
  <2>5. Unhurt(s, r, {})
    <3>1. ASSUME NEW c \in D, s.bufs[c].status = "Used" PROVE c \in DOMAIN r.bufs /\ SameBuf(s.bufs, r.bufs, c)
      <4>1. c # b /\ synced.bufs[c] = s.bufs[c] /\ synced.bufs[c].status # "Idle"
        BY <3>1, <1>9, <1>12
      <4>2. c \in DOMAIN r.bufs /\ SameBuf(synced.bufs, r.bufs, c)
        BY <4>1, <2>4, <1>9 DEF FreeFrame
      <4> QED
        BY <4>1, <4>2 DEF SameBuf
    <3> QED
      BY <3>1 DEF Unhurt
  <2>6. r.pairs = s.pairs /\ EventsKept(synced.bufs, r.bufs)
    BY <2>4, <1>7 DEF FreeFrame
  <2>7. Paged(r)
    BY <2>4, <1>13, FreePages
  <2>8. Sealed(s, r)
    <3>1. Sealed(synced, r)
      BY <2>3, <2>4, <1>10, FreeSealed
    <3> QED
      BY <3>1, <1>14, SealedTwice
  <2> QED
    BY <2>4, <2>5, <2>6, <2>7, <2>8, <1>5, <1>9 DEF EventsKept
<1> QED
  BY <1>11, <1>12

LEMMA DoSyncAllEventsOK ==
  ASSUME NEW s, Good(s), NEW r, r = DoSyncAllEvents(s)
  PROVE  Good(r) /\ Unhurt(s, r, {}) /\ Sealed(s, r)
<1> DEFINE S == UNION {s.pairs[p] : p \in DOMAIN s.pairs}
           w == [tag |-> "sync"]
           Def(f) == [T \in SUBSET S |-> IF T = {} THEN s ELSE SyncBuf(f[T \ {Max(T)}], Max(T))]
<1>1. /\ Kept(s, {}) /\ Paged(s) /\ Waiting(s) /\ PairsExact(s) /\ Pooled(s)
  BY DEF Good, Kept, Calm, Waiting
<1>2. ASSUME NEW b PROVE b \in S <=> b \in DOMAIN s.bufs /\ s.bufs[b].events # NoEvents
  <2>1. ASSUME b \in S PROVE b \in DOMAIN s.bufs /\ s.bufs[b].events # NoEvents
    <3>1. PICK p \in DOMAIN s.pairs : b \in s.pairs[p]
      BY <2>1
    <3>2. PICK u \in UserStreams, m \in Streams : p = <<u, m>>
      BY <3>1, <1>1 DEF PairsExact
    <3>3. b \in DOMAIN s.bufs /\ s.bufs[b].events[u] # <<>>
      BY <3>1, <3>2, <1>1 DEF PairsExact
    <3> QED
      BY <3>3 DEF NoEvents
  <2>2. ASSUME b \in DOMAIN s.bufs, s.bufs[b].events # NoEvents PROVE b \in S
    <3>1. s.bufs[b].events \in [UserStreams -> Seq(Nat)] /\ s.bufs[b].stream_id \in Streams
      BY <2>2, <1>1, ShapeFacts DEF BufType, Pooled
    <3>2. PICK u \in UserStreams : s.bufs[b].events[u] # <<>>
      BY <3>1, <2>2 DEF NoEvents
    <3>3. <<u, s.bufs[b].stream_id>> \in DOMAIN s.pairs /\ b \in s.pairs[<<u, s.bufs[b].stream_id>>]
      BY <3>1, <3>2, <2>2, <1>1 DEF PairsExact
    <3> QED
      BY <3>3
  <2> QED
    BY <2>1, <2>2
<1>3. IsFiniteSet(S) /\ S \subseteq Nat
  <2>1. S \subseteq DOMAIN s.bufs
    BY <1>2
  <2> HIDE DEF S
  <2> QED
    BY <2>1, <1>1, BufsFinite
<1>4. PICK g : r = [g[S] EXCEPT !.pairs = [p \in DOMAIN @ |-> {}],
            !.inuse = {}, !.given = @ \cup s.inuse] /\ g = CHOOSE f : f = Def(f)
  BY DEF DoSyncAllEvents, FoldUp, MapThenFoldSet
<1> HIDE DEF S
<1>5. (\A T \in SUBSET S : T # {} => LastOf(w, T) \in T) /\ \A T : LastOf(w, T) = Max(T)
  <2>1. w.tag \in Ascending
    BY DEF Ascending
  <2> HIDE DEF w
  <2>2. ASSUME NEW T \in SUBSET S, T # {} PROVE LastOf(w, T) \in T
    BY <2>1, <2>2, <1>3, LastIn
  <2> QED
    BY <2>1, <2>2, LastNumber
<1>6. \A acc, x : Step(w, acc, x) = SyncBuf(acc, x)
  BY DEF Step
<1>7. \A f : Def(f) = [T \in SUBSET S |-> IF T = {} THEN s ELSE Step(w, f[T \ {LastOf(w, T)}], LastOf(w, T))]
  BY <1>5, <1>6
<1>8. \A f : IsFold(f, w, s, S) <=> f = Def(f)
  BY <1>7 DEF IsFold
<1>9. \E f : f = Def(f)
  BY <1>3, <1>5, <1>8, FoldExists
<1> HIDE DEF Def
<1>10. IsFold(g, w, s, S)
  BY <1>4, <1>8, <1>9
<1>11. FoldGood(w, s, S, s, {})
  BY <1>1, <1>2 DEF FoldGood, Unhurt, SameBuf, Sealed, Settled
<1>12. ASSUME NEW T \in SUBSET S, NEW acc, T # {}, FoldGood(w, s, S, acc, T \ {LastOf(w, T)})
       PROVE  FoldGood(w, s, S, Step(w, acc, LastOf(w, T)), T)
  <2>1. PICK b : b = LastOf(w, T)
    OBVIOUS
  <2>2. /\ Kept(acc, {}) /\ Paged(acc) /\ acc.pairs = s.pairs /\ Unhurt(s, acc, {}) /\ Sealed(s, acc)
        /\ \A c \in S \ (T \ {b}) : c \in DOMAIN acc.bufs /\ acc.bufs[c].events # NoEvents
        /\ \A c \in DOMAIN acc.bufs : acc.bufs[c].events # NoEvents => c \in S \ (T \ {b})
    BY <2>1, <1>12 DEF FoldGood
  <2>3. b \in S /\ b \in T
    BY <2>1, <1>5, <1>12
  <2>4. PICK t : t = SyncBuf(acc, b)
    OBVIOUS
  <2>5. /\ Kept(t, {}) /\ Paged(t) /\ Unhurt(acc, t, {}) /\ Sealed(acc, t) /\ t.pairs = acc.pairs
        /\ \A c \in DOMAIN acc.bufs \ {b} : acc.bufs[c].events # NoEvents =>
             c \in DOMAIN t.bufs /\ t.bufs[c].events # NoEvents
        /\ \A c \in DOMAIN t.bufs : t.bufs[c].events # NoEvents =>
             c \in DOMAIN acc.bufs \ {b} /\ acc.bufs[c].events # NoEvents
    BY <2>2, <2>3, <2>4, SyncBufOK
  <2>6. Unhurt(s, t, {}) /\ Sealed(s, t)
    <3>1. Unhurt(s, t, {})
      BY <2>2, <2>5 DEF Unhurt, SameBuf
    <3> QED
      BY <3>1, <2>2, <2>5, SealedTwice
  <2>7. Step(w, acc, LastOf(w, T)) = t
    BY <2>1, <2>4, <1>6
  <2>8. FoldGood(w, s, S, t, T)
    BY <2>2, <2>3, <2>5, <2>6 DEF FoldGood
  <2> QED
    BY <2>7, <2>8
<1>13. FoldGood(w, s, S, g[S], S)
  BY <1>3, <1>5, <1>10, <1>11, <1>12, FoldInduction
<1>14. PICK t : t = g[S]
  OBVIOUS
<1>15. /\ Kept(t, {}) /\ Paged(t) /\ t.pairs = s.pairs /\ Unhurt(s, t, {}) /\ Sealed(s, t)
       /\ \A b \in DOMAIN t.bufs : t.bufs[b].events = NoEvents
  BY <1>13, <1>14 DEF FoldGood
<1>16. r = [t EXCEPT !.pairs = [p \in DOMAIN @ |-> {}],
            !.inuse = {}, !.given = @ \cup s.inuse]
  BY <1>4, <1>14
<1>17. /\ r.bufs = t.bufs /\ r.blocks = t.blocks /\ r.lists = t.lists /\ r.addrs = t.addrs
       /\ r.pairs = [p \in DOMAIN t.pairs |-> {}] /\ r.inuse = {} /\ r.vmm = t.vmm /\ r.stat = t.stat /\ Fields \subseteq DOMAIN r
  BY <1>15, <1>16 DEF Kept, Calm, Pooled, Fields
<1>18. Kept(r, {})
  BY <1>15, <1>17, SameKept
<1>19. Waiting(r)
  <2>1. \A b \in DOMAIN r.bufs : \A u \in UserStreams : r.bufs[b].events[u] = <<>>
    BY <1>15, <1>17 DEF NoEvents
  <2>2. r.pairs \in [UserStreams \X Streams -> SUBSET Nat]
    BY <1>1, <1>15, <1>17 DEF PairsExact
  <2>3. \A u \in UserStreams, m \in Streams : r.pairs[<<u, m>>] = {}
    BY <1>1, <1>15, <1>17 DEF PairsExact
  <2>4. PairsExact(r)
    BY <2>1, <2>2, <2>3 DEF PairsExact
  <2> QED
    BY <2>4, <1>17 DEF Waiting, InUseHeld
<1>20. Paged(r)
  BY <1>15, <1>17, SamePages DEF EagerKept
<1>21. Sealed(s, r)
  <2>1. Sealed(t, r)
    BY <1>17, SameSealed
  <2> QED
    BY <2>1, <1>15, SealedTwice
<1> QED
  BY <1>15, <1>17, <1>18, <1>19, <1>20, <1>21 DEF Good, Unhurt, SameBuf

-----------------------------------------------------------------------------
(* WaitEvent, for a single user stream.                                    *)

\* The events of tasks after t are in d as in q.
LaterKept(q, t, d) == \A i \in 1 .. Len(q) : q[i] > t => \E j \in 1 .. Len(d) : d[j] = q[i]

\* Events of later tasks are not dropped.
LEMMA DroppedOK ==
  ASSUME NEW q \in Seq(Nat), NEW t \in Nat, NEW d, d = DropWaited(q, t)
  PROVE  d \in Seq(Nat) /\ LaterKept(q, t, d)
<1>6. PICK v : v = t % WaitIds
  OBVIOUS
<1>7. v \in Nat /\ v <= t
  BY <1>6, RequestAssumption
<1> DEFINE done == {i \in 1 .. Len(q) : \A j \in 1 .. i : q[j] <= v}
<1>0. Len(q) \in Nat /\ \A i \in 1 .. Len(q) : q[i] \in Nat
  OBVIOUS
<1>1. PICK k \in 0 .. Len(q) : done = 1 .. k
  <2>1. CASE done = 1 .. Len(q)
    BY <2>1, <1>0
  <2>2. CASE done # 1 .. Len(q)
    <3> DEFINE rest == (1 .. Len(q)) \ done
    <3>1. rest # {} /\ rest \subseteq Nat
      BY <2>2, <1>0
    <3>2. PICK n \in rest : \A y \in rest : n <= y
      <4> HIDE DEF rest
      <4> QED
        BY <3>1, LeastNumber
    <3>3. n \in 1 .. Len(q) /\ n \notin done
      BY <3>2
    <3>4. ASSUME NEW i \in 1 .. Len(q), i < n PROVE i \in done
      BY <3>2, <3>3, <3>4, <1>0
    <3>5. ASSUME NEW i \in done PROVE i < n
      <4>1. i \in 1 .. Len(q) /\ \A j \in 1 .. i : q[j] <= v
        OBVIOUS
      <4>2. CASE n <= i
        <5>1. \A j \in 1 .. n : q[j] <= v
          BY <4>1, <4>2, <3>3, <1>0
        <5> QED
          BY <5>1, <3>3
      <4> QED
        BY <4>1, <4>2, <3>3, <1>0
    <3>6. done \subseteq 1 .. Len(q)
      OBVIOUS
    <3> HIDE DEF done
    <3>7. done = 1 .. (n - 1)
      <4>1. \A i \in done : i \in 1 .. (n - 1)
        BY <3>3, <3>5, <3>6, <1>0
      <4>2. \A i \in 1 .. (n - 1) : i \in done
        BY <3>3, <3>4, <1>0
      <4> QED
        BY <4>1, <4>2
    <3> QED
      BY <3>3, <3>7, <1>0
  <2> QED
    BY <2>1, <2>2
<1>2. Cardinality(done) = k
  <2>1. 1 \in Int /\ k \in Int
    BY <1>0, <1>1
  <2>2. Cardinality(1 .. k) = IF 1 > k THEN 0 ELSE k - 1 + 1
    BY <2>1, FS_Interval
  <2> HIDE DEF done
  <2> QED
    BY <2>1, <2>2, <1>0, <1>1
<1>3. d = SubSeq(q, k + 1, Len(q))
  BY <1>2, <1>6 DEF DropWaited
<1>4. d \in Seq(Nat) /\ Len(d) = Len(q) - k /\ \A j \in 1 .. Len(q) - k : d[j] = q[k + j]
  BY <1>0, <1>1, <1>3
<1>5. ASSUME NEW i \in 1 .. Len(q), q[i] > t PROVE \E j \in 1 .. Len(d) : d[j] = q[i]
  <2>1. i \notin done
    BY <1>5, <1>0, <1>7
  <2>2. i > k /\ i - k \in 1 .. Len(d) /\ k + (i - k) = i
    <3> HIDE DEF done
    <3> QED
      BY <2>1, <1>0, <1>1, <1>4
  <2>3. d[i - k] = q[i]
    BY <2>2, <1>4
  <2> QED
    BY <2>2, <2>3
<1> QED
  BY <1>4, <1>5 DEF LaterKept

\* There is at most one user stream.
OneUser == \A u, v \in UserStreams : u = v

\* What tasks up to t of stream u did with memory of stream m is over.
Over(s, t, u, m) == \A x \in s.inuse : x.user = u /\ x.mem = m => ~ (x.task <= t)

LEMMA WaitBufOK ==
  ASSUME OneUser, NEW s, Good(s), NEW u \in UserStreams, NEW m \in Streams, NEW t \in Nat,
         NEW b, b \in s.pairs[<<u, m>>], Over(s, t, u, m),
         NEW r, r = WaitBuf(s, b, t, u, m)
  PROVE  /\ Good(r) /\ Unhurt(s, r, {}) /\ Sealed(s, r) /\ r.inuse = s.inuse
         /\ s.pairs[<<u, m>>] \ {b} \subseteq r.pairs[<<u, m>>]
<1> DEFINE D == DOMAIN s.bufs
           s1 == [s EXCEPT !.bufs[b].events[u] = DropWaited(@, t)]
           s2 == [s1 EXCEPT !.pairs[<<u, m>>] = @ \ {b},
                            !.stat.used_by_event_size = @ - s.bufs[b].size]
           s3 == [s2 EXCEPT !.pairs = [p \in DOMAIN @ |-> @[p] \ {b}]]
<1>1. /\ Pooled(s) /\ Calm(s) /\ Merged(s.bufs) /\ QuietFree(s.bufs)
      /\ ListsExact(s, {}) /\ AddrsExact(s, {}) /\ Deferred(s.bufs, {})
      /\ Fields \subseteq DOMAIN s /\ Shape(s.bufs, s.blocks)
      /\ PairsExact(s) /\ InUseHeld(s) /\ Paged(s)
  BY DEF Good, Kept, Calm, Pooled, Waiting
<1>2. /\ b \in D /\ s.bufs[b].stream_id = m /\ s.bufs[b].events[u] # <<>>
  BY <1>1 DEF PairsExact
<1>3. /\ s.bufs[b] \in BufType /\ s.bufs[b].events \in [UserStreams -> Seq(Nat)]
      /\ s.bufs[b].events # NoEvents /\ s.bufs[b].status \notin FreeStatus
  <2>1. s.bufs[b] \in BufType
    BY <1>1, <1>2, ShapeFacts
  <2>2. s.bufs[b].events # NoEvents
    BY <1>2 DEF NoEvents
  <2> QED
    BY <2>1, <2>2, <1>1, <1>2 DEF BufType, QuietFree
<1>4. PICK q : q = s.bufs[b].events[u]
  OBVIOUS
<1>5. PICK d : d = DropWaited(q, t)
  OBVIOUS
<1>6. q \in Seq(Nat) /\ d \in Seq(Nat) /\ LaterKept(q, t, d)
  <2>1. q \in Seq(Nat)
    BY <1>3, <1>4
  <2> QED
    BY <2>1, <1>5, DroppedOK
<1>7. PICK buf : buf = [s.bufs[b] EXCEPT !.events[u] = d]
  OBVIOUS
<1>8. /\ buf \in BufType /\ buf.status = s.bufs[b].status
      /\ buf.addr = s.bufs[b].addr /\ buf.size = s.bufs[b].size
      /\ buf.mem_block = s.bufs[b].mem_block
      /\ buf.prev = s.bufs[b].prev /\ buf.next = s.bufs[b].next
      /\ buf.events = [s.bufs[b].events EXCEPT ![u] = d] /\ buf.stream_id = s.bufs[b].stream_id
  <2>1. [s.bufs[b].events EXCEPT ![u] = d] \in [UserStreams -> Seq(Nat)]
    BY <1>3, <1>6
  <2> QED
    BY <2>1, <1>3, <1>7 DEF BufType
<1>9. /\ s1.bufs = [s.bufs EXCEPT ![b] = buf] /\ s1.lists = s.lists /\ SameButBufs(s, s1)
      /\ Fields \subseteq DOMAIN s1
  BY <1>1, <1>4, <1>5, <1>7 DEF SameButBufs, Fields
<1>10. /\ s2.bufs = s1.bufs /\ s2.lists = s1.lists /\ s2.blocks = s1.blocks /\ s2.addrs = s1.addrs
       /\ s2.inuse = s1.inuse /\ s2.pairs = [s1.pairs EXCEPT ![<<u, m>>] = @ \ {b}]
       /\ Fields \subseteq DOMAIN s2 /\ s2.vmm = s1.vmm /\ s3.vmm = s1.vmm
       /\ s2.stat = [s1.stat EXCEPT !.used_by_event_size = @ - s.bufs[b].size] /\ s3.stat = s2.stat
       /\ s3.bufs = s2.bufs /\ s3.lists = s2.lists /\ s3.blocks = s2.blocks /\ s3.addrs = s2.addrs
       /\ s3.inuse = s2.inuse /\ s3.pairs = [p \in DOMAIN s2.pairs |-> s2.pairs[p] \ {b}]
       /\ Fields \subseteq DOMAIN s3
  <2>1. {"bufs", "lists", "blocks", "addrs", "inuse", "pairs", "stat", "vmm"} \subseteq DOMAIN s1
    BY <1>9 DEF Fields
  <2> HIDE DEF s1
  <2> QED
    BY <2>1, <1>9 DEF Fields
<1>11. r = IF ~ IsEventNotUsed(s1.bufs[b]) THEN s1
           ELSE IF s.bufs[b].status = "UsedByEvent" THEN DoFreeTensorMem(s3, s.bufs[b].addr) ELSE s2
  BY DEF WaitBuf
<1> HIDE DEF s1, s2, s3
<1>12. s1.blocks = s.blocks /\ s1.addrs = s.addrs /\ s1.pairs = s.pairs /\ s1.inuse = s.inuse
       /\ s1.vmm = s.vmm /\ s1.stat = s.stat
  BY <1>9 DEF SameButBufs
<1>13. /\ DOMAIN s1.bufs = D /\ s1.bufs[b] = buf
       /\ \A c \in D \ {b} : s1.bufs[c] = s.bufs[c]
  BY <1>2, <1>9
<1>14. Calm(s1) /\ ListsExact(s1, {}) /\ AddrsExact(s1, {})
  BY <1>1, <1>2, <1>3, <1>8, <1>9, <1>12, TouchedOK
<1>21. Paged(s1) /\ Paged(s2) /\ Paged(s3)
  <2>1. buf.status \notin FreeStatus
    BY <1>3, <1>8
  <2>2. Paged(s1)
    BY <2>1, <1>1, <1>2, <1>3, <1>9, <1>12, TouchedPages
  <2>3. EagerKept(s1.bufs, s1.bufs)
    BY DEF EagerKept
  <2> QED
    BY <2>2, <2>3, <1>10, SamePages
<1>22. Sealed(s, s1) /\ (buf.events = NoEvents => Sealed(s, s2) /\ Sealed(s, s3))
  <2>1. buf.status \notin FreeStatus /\ Shape(s1.bufs, s1.blocks)
    BY <1>3, <1>8, <1>14 DEF Calm, Pooled
  <2>2. Counted(s) => Counted(s1)
    BY <2>1, <1>1, <1>2, <1>3, <1>8, <1>9, <1>12, DroppedCounted
  <2>3. ASSUME buf.events = NoEvents PROVE Sealed(s, s2)
    <3>1. /\ s2.bufs = [s.bufs EXCEPT ![b] = buf] /\ s2.addrs = s.addrs /\ s2.blocks = s.blocks
          /\ s2.stat = [s.stat EXCEPT !.used_by_event_size = @ - s.bufs[b].size]
      BY <1>9, <1>10, <1>12
    <3>2. Shape(s2.bufs, s2.blocks)
      BY <2>1, <1>10
    <3>3. Counted(s) => Counted(s2)
      BY <3>1, <3>2, <2>1, <2>3, <1>1, <1>2, <1>3, <1>8, WaitedCounted
    <3> QED
      BY <3>1, <3>3 DEF Sealed, Settled
  <2>4. Sealed(s2, s3)
    BY <1>10, SameSealed
  <2>5. Sealed(s, s1)
    BY <2>2, <1>12 DEF Sealed, Settled
  <2> QED
    BY <2>3, <2>4, <2>5, SealedTwice
<1>15. IsEventNotUsed(buf) <=> d = <<>>
  <2>1. \A v \in UserStreams : v = u /\ buf.events[v] = d
    BY <1>3, <1>8 DEF OneUser
  <2> QED
    BY <2>1 DEF IsEventNotUsed
<1>16. Unhurt(s, s1, {})
  BY <1>3, <1>13 DEF Unhurt, SameBuf
<1>17. ASSUME NEW x \in s.inuse, ~ FreePartWithEvents
       PROVE  /\ x.user \in UserStreams /\ d # <<>> => Held(s1.bufs, x)
              /\ d = <<>> => \E c \in D \ {b} : /\ x.byte \in BytesOf(s.bufs[c])
                                 /\ x.mem = s.bufs[c].stream_id
                                 /\ \E i \in 1 .. Len(s.bufs[c].events[x.user]) : s.bufs[c].events[x.user][i] = x.task
  <2>1. x.user \in UserStreams /\ Held(s.bufs, x)
    BY <1>1, <1>17 DEF InUseHeld
  <2>2. PICK c \in D : /\ x.byte \in BytesOf(s.bufs[c])
                       /\ x.mem = s.bufs[c].stream_id
                       /\ \E i \in 1 .. Len(s.bufs[c].events[x.user]) : s.bufs[c].events[x.user][i] = x.task
    BY <2>1 DEF Held
  <2>3. CASE c # b
    <3>1. s1.bufs[c] = s.bufs[c] /\ c \in DOMAIN s1.bufs
      BY <2>3, <1>13
    <3>2. Held(s1.bufs, x)
      BY <3>1, <2>2 DEF Held
    <3> QED
      BY <3>2, <2>1, <2>2, <2>3
  <2>4. CASE c = b
    <3>1. x.user = u /\ x.mem = m
      BY <2>1, <2>2, <2>4, <1>2 DEF OneUser
    <3>2. PICK i \in 1 .. Len(q) : q[i] = x.task
      BY <3>1, <2>2, <2>4, <1>4
    <3>3. q[i] \in Nat /\ ~ (q[i] <= t)
      BY <3>1, <3>2, <1>6, <1>17 DEF Over
    <3>4. PICK j \in 1 .. Len(d) : d[j] = x.task
      BY <3>2, <3>3, <1>6, SMTT(40) DEF LaterKept
    <3>5. d # <<>>
      BY <3>4
    <3>6. BytesOf(buf) = BytesOf(s.bufs[b]) /\ buf.events[u] = d
      BY <1>3, <1>8 DEF BytesOf
    <3>7. Held(s1.bufs, x)
      <4>1. b \in DOMAIN s1.bufs /\ x.byte \in BytesOf(s1.bufs[b]) /\ x.mem = s1.bufs[b].stream_id
        BY <3>1, <3>6, <2>2, <2>4, <1>2, <1>8, <1>13
      <4>2. s1.bufs[b].events[x.user] = d
        BY <3>1, <3>6, <1>13
      <4>3. \E n \in 1 .. Len(s1.bufs[b].events[x.user]) : s1.bufs[b].events[x.user][n] = x.task
        BY <4>2, <3>4
      <4> QED
        BY <4>1, <4>3 DEF Held
    <3> QED
      BY <3>5, <3>7, <2>1
  <2> QED
    BY <2>3, <2>4
<1>18. s.pairs \in [UserStreams \X Streams -> SUBSET Nat] /\ <<u, m>> \in UserStreams \X Streams
  BY <1>1 DEF PairsExact
<1>19. CASE d # <<>>
  <2>1. r = s1
    BY <1>11, <1>13, <1>15, <1>19
  <2>2. buf.events # NoEvents
    BY <1>3, <1>8, <1>19 DEF NoEvents
  <2>3. Deferred(s1.bufs, {})
    BY <2>2, <1>1, <1>13 DEF Deferred
  <2>4. PairsExact(s1)
    <3>1. ASSUME NEW v \in UserStreams, NEW k \in Streams
          PROVE  {c \in D : s1.bufs[c].stream_id = k /\ s1.bufs[c].events[v] # <<>>}
                   = {c \in D : s.bufs[c].stream_id = k /\ s.bufs[c].events[v] # <<>>}
      <4>1. v = u /\ buf.events[v] = d
        BY <1>3, <1>8 DEF OneUser
      <4>2. \A c \in D : (s1.bufs[c].stream_id = k /\ s1.bufs[c].events[v] # <<>>)
                           <=> (s.bufs[c].stream_id = k /\ s.bufs[c].events[v] # <<>>)
        <5>1. s1.bufs[b].stream_id = s.bufs[b].stream_id /\ s1.bufs[b].events[v] = d /\ s.bufs[b].events[v] # <<>>
          BY <4>1, <1>2, <1>8, <1>13
        <5>2. \A c \in D \ {b} : s1.bufs[c] = s.bufs[c]
          BY <1>13
        <5> QED
          BY <5>1, <5>2, <1>19
      <4> QED
        BY <4>2
    <3> QED
      BY <3>1, <1>1, <1>12, <1>13 DEF PairsExact
  <2>5. InUseHeld(s1)
    BY <1>12, <1>17, <1>19, <1>1 DEF InUseHeld
  <2> QED
    BY <2>1, <2>3, <2>4, <2>5, <1>12, <1>14, <1>16, <1>21, <1>22 DEF Good, Kept, Waiting
<1>20. CASE d = <<>>
  <2>1. buf.events = NoEvents
    <3>1. \A v \in UserStreams : v = u
      BY DEF OneUser
    <3> QED
      BY <3>1, <1>3, <1>8, <1>20 DEF NoEvents
  <2>2. \A p \in DOMAIN s.pairs : p # <<u, m>> => b \notin s.pairs[p]
    <3>1. ASSUME NEW v \in UserStreams, NEW k \in Streams, b \in s.pairs[<<v, k>>] PROVE <<v, k>> = <<u, m>>
      BY <3>1, <1>1, <1>2 DEF PairsExact, OneUser
    <3> QED
      BY <3>1, <1>18
  <2>3. s3.pairs = s2.pairs /\ s2.pairs = [s.pairs EXCEPT ![<<u, m>>] = @ \ {b}]
    <3>1. s2.pairs = [s.pairs EXCEPT ![<<u, m>>] = @ \ {b}]
      BY <1>10, <1>12
    <3>2. \A p \in DOMAIN s2.pairs : s2.pairs[p] \ {b} = s2.pairs[p]
      BY <3>1, <2>2, <1>18
    <3> QED
      BY <3>1, <3>2, <1>10, <1>18
  <2>4. /\ s2.pairs \in [UserStreams \X Streams -> SUBSET Nat]
        /\ s2.pairs[<<u, m>>] = s.pairs[<<u, m>>] \ {b}
        /\ \A p \in UserStreams \X Streams : s2.pairs[p] = s.pairs[p] \ {b}
    BY <2>2, <2>3, <1>18
  <2>5. PairsExact(s2) /\ PairsExact(s3)
    <3>1. ASSUME NEW v \in UserStreams, NEW k \in Streams
          PROVE  s2.pairs[<<v, k>>] = {c \in D : s2.bufs[c].stream_id = k /\ s2.bufs[c].events[v] # <<>>}
      <4>1. s2.pairs[<<v, k>>] = s.pairs[<<v, k>>] \ {b}
        BY <2>4
      <4>2. s.pairs[<<v, k>>] = {c \in D : s.bufs[c].stream_id = k /\ s.bufs[c].events[v] # <<>>}
        BY <1>1 DEF PairsExact
      <4>3. \A c \in D \ {b} : s2.bufs[c] = s.bufs[c]
        BY <1>10, <1>13
      <4>4. s2.bufs[b].events[v] = <<>>
        BY <2>1, <1>10, <1>13 DEF NoEvents
      <4> QED
        BY <4>1, <4>2, <4>3, <4>4
    <3>2. DOMAIN s2.bufs = D /\ s3.bufs = s2.bufs
      BY <1>10, <1>13
    <3> QED
      BY <3>1, <3>2, <2>3, <2>4 DEF PairsExact
  <2>6. InUseHeld(s2) /\ InUseHeld(s3)
    <3>1. ASSUME ~ FreePartWithEvents, NEW x \in s.inuse PROVE x.user \in UserStreams /\ Held(s2.bufs, x)
      <4>1. x.user \in UserStreams
        BY <3>1, <1>1 DEF InUseHeld
      <4>2. PICK c \in D \ {b} : /\ x.byte \in BytesOf(s.bufs[c])
                                 /\ x.mem = s.bufs[c].stream_id
                                 /\ \E i \in 1 .. Len(s.bufs[c].events[x.user]) : s.bufs[c].events[x.user][i] = x.task
        BY <3>1, <1>17, <1>20
      <4>3. s2.bufs[c] = s.bufs[c] /\ c \in DOMAIN s2.bufs
        BY <4>2, <1>10, <1>13
      <4> QED
        BY <4>1, <4>2, <4>3 DEF Held
    <3> QED
      BY <3>1, <1>10, <1>12 DEF InUseHeld
  <2>7. \A z \in {s2, s3} : Calm(z) /\ ListsExact(z, {}) /\ AddrsExact(z, {})
    <3>1. ASSUME NEW z, z.bufs = s1.bufs, z.lists = s1.lists, z.blocks = s1.blocks, z.addrs = s1.addrs,
                 Fields \subseteq DOMAIN z
          PROVE  Calm(z) /\ ListsExact(z, {}) /\ AddrsExact(z, {})
      BY <3>1, <1>14, SameCalm, SameLists, SameAddrs
    <3> QED
      BY <3>1, <1>10
  <2>8. Deferred(s3.bufs, {b}) /\ (s.bufs[b].status # "UsedByEvent" => Deferred(s2.bufs, {}))
    BY <1>1, <1>8, <1>10, <1>13 DEF Deferred
  <2>9. Unhurt(s, s2, {}) /\ Unhurt(s, s3, {})
    BY <1>10, <1>16 DEF Unhurt, SameBuf
  <2>10. IsEventNotUsed(s1.bufs[b])
    BY <1>13, <1>15, <1>20
  <2>11. CASE s.bufs[b].status # "UsedByEvent"
    <3>1. r = s2
      BY <2>10, <2>11, <1>11
    <3> QED
      BY <3>1, <2>1, <2>4, <2>5, <2>6, <2>7, <2>8, <2>9, <2>11, <1>10, <1>12, <1>21, <1>22 DEF Good, Kept, Waiting
  <2>12. CASE s.bufs[b].status = "UsedByEvent"
    <3>1. PICK addr : addr = s.bufs[b].addr
      OBVIOUS
    <3>2. r = DoFreeTensorMem(s3, addr)
      BY <3>1, <2>10, <2>12, <1>11
    <3>3. addr \in DOMAIN s3.addrs /\ b = s3.addrs[addr].buf
      BY <3>1, <1>1, <1>2, <1>3, <1>10, <1>12, IndexedOK
    <3>4. Kept(s3, {b})
      BY <2>7, <2>8 DEF Kept
    <3>5. Kept(r, {}) /\ FreeFrame(s3, r, b, addr)
      BY <3>2, <3>3, <3>4, DoFreeOK
    <3>6. r.pairs = s3.pairs /\ r.inuse = s3.inuse /\ EventsKept(s3.bufs, r.bufs)
      BY <3>5 DEF FreeFrame
    <3>7. Waiting(r)
      BY <3>6, <2>5, <2>6, EventsKeptOK DEF Waiting
    <3>8. Unhurt(s, r, {})
      <4>1. ASSUME NEW c \in D, s.bufs[c].status = "Used", s.bufs[c].events = NoEvents
            PROVE  c \in DOMAIN r.bufs /\ SameBuf(s.bufs, r.bufs, c)
        <5>1. c # b /\ c \in DOMAIN s3.bufs /\ SameBuf(s.bufs, s3.bufs, c)
          BY <4>1, <2>9, <2>12 DEF Unhurt
        <5>2. s3.bufs[c].status # "Idle"
          BY <5>1, <4>1 DEF SameBuf
        <5>3. c \in DOMAIN r.bufs /\ SameBuf(s3.bufs, r.bufs, c)
          BY <5>1, <5>2, <3>5 DEF FreeFrame
        <5> QED
          BY <5>1, <5>3 DEF SameBuf
      <4> QED
        BY <4>1 DEF Unhurt
    <3>9. Paged(r)
      BY <3>5, <1>21, FreePages
    <3>10. Sealed(s, r)
      <4>1. Sealed(s3, r)
        BY <3>3, <3>4, <3>5, FreeSealed
      <4> QED
        BY <4>1, <2>1, <1>22, SealedTwice
    <3> QED
      BY <3>5, <3>6, <3>7, <3>8, <3>9, <3>10, <2>3, <2>4, <1>10, <1>12 DEF Good
  <2> QED
    BY <2>11, <2>12
<1> QED
  BY <1>19, <1>20

LEMMA WaitPairOK ==
  ASSUME OneUser, NEW s, Good(s), NEW u \in UserStreams, NEW m \in Streams, NEW t \in Nat,
         NEW r, r = WaitPair(s, t, u, m)
  PROVE  Good(r) /\ Unhurt(s, r, {}) /\ Sealed(s, r)
<1> DEFINE Ended(x) == x.user = u /\ x.mem = m /\ x.task <= t
           base == [s EXCEPT !.inuse = {x \in @ : ~ Ended(x)}, !.given = {x \in @ : ~ Ended(x)}]
           S == s.pairs[<<u, m>>]
           w == [tag |-> "wait", t |-> t, u |-> u, m |-> m]
           Def(f) == [T \in SUBSET S |-> IF T = {} THEN base ELSE WaitBuf(f[T \ {Max(T)}], Max(T), t, u, m)]
<1>1. /\ Kept(s, {}) /\ Waiting(s) /\ PairsExact(s) /\ InUseHeld(s) /\ Pooled(s) /\ Fields \subseteq DOMAIN s
      /\ Paged(s)
  BY DEF Good, Kept, Calm, Waiting, Pooled
<1>2. /\ base.bufs = s.bufs /\ base.blocks = s.blocks /\ base.lists = s.lists /\ base.addrs = s.addrs
      /\ base.pairs = s.pairs /\ base.vmm = s.vmm /\ base.stat = s.stat /\ Fields \subseteq DOMAIN base
      /\ base.inuse \subseteq s.inuse /\ Over(base, t, u, m)
  BY <1>1 DEF Fields, Over
<1>3. PICK g : r = g[S] /\ g = CHOOSE f : f = Def(f)
  BY DEF WaitPair, FoldUp, MapThenFoldSet
<1> HIDE DEF base
<1>4. Good(base) /\ Unhurt(s, base, {}) /\ Sealed(s, base)
  <2>1. Kept(base, {})
    BY <1>1, <1>2, SameKept
  <2>2. Waiting(base)
    BY <1>1, <1>2 DEF Waiting, PairsExact, InUseHeld
  <2>3. Paged(base)
    BY <1>1, <1>2, SamePages DEF EagerKept
  <2>4. Sealed(s, base)
    BY <1>2, SameSealed
  <2> QED
    BY <2>1, <2>2, <2>3, <2>4, <1>2 DEF Good, Unhurt, SameBuf
<1>5. IsFiniteSet(S) /\ S \subseteq Nat
  <2>1. S \subseteq DOMAIN s.bufs
    BY <1>1 DEF PairsExact
  <2> HIDE DEF S
  <2> QED
    BY <2>1, <1>1, BufsFinite
<1>6. S = base.pairs[<<u, m>>]
  BY <1>2
<1> HIDE DEF S
<1>7. (\A T \in SUBSET S : T # {} => LastOf(w, T) \in T) /\ \A T : LastOf(w, T) = Max(T)
  <2>1. w.tag \in Ascending
    BY DEF Ascending
  <2> HIDE DEF w
  <2>2. ASSUME NEW T \in SUBSET S, T # {} PROVE LastOf(w, T) \in T
    BY <2>1, <2>2, <1>5, LastIn
  <2> QED
    BY <2>1, <2>2, LastNumber
<1>8. \A acc, x : Step(w, acc, x) = WaitBuf(acc, x, t, u, m)
  BY DEF Step
<1>9. \A f : Def(f) = [T \in SUBSET S |-> IF T = {} THEN base ELSE Step(w, f[T \ {LastOf(w, T)}], LastOf(w, T))]
  BY <1>7, <1>8
<1>10. \A f : IsFold(f, w, base, S) <=> f = Def(f)
  BY <1>9 DEF IsFold
<1>11. \E f : f = Def(f)
  BY <1>5, <1>7, <1>10, FoldExists
<1> HIDE DEF Def
<1>12. IsFold(g, w, base, S)
  BY <1>3, <1>10, <1>11
<1>13. \A acc, T : FoldGood(w, base, S, acc, T) <=>
          /\ Good(acc) /\ Unhurt(base, acc, {}) /\ Sealed(base, acc) /\ acc.inuse = base.inuse
          /\ S \ T \subseteq acc.pairs[<<u, m>>]
  BY DEF FoldGood
<1>14. FoldGood(w, base, S, base, {})
  BY <1>4, <1>6, <1>13 DEF Unhurt, SameBuf, Sealed, Settled
<1> HIDE DEF w
<1>15. ASSUME NEW T \in SUBSET S, NEW acc, T # {}, FoldGood(w, base, S, acc, T \ {LastOf(w, T)})
       PROVE  FoldGood(w, base, S, Step(w, acc, LastOf(w, T)), T)
  <2>1. PICK b : b = LastOf(w, T)
    OBVIOUS
  <2>2. /\ Good(acc) /\ Unhurt(base, acc, {}) /\ Sealed(base, acc) /\ acc.inuse = base.inuse
        /\ S \ (T \ {b}) \subseteq acc.pairs[<<u, m>>]
    BY <2>1, <1>13, <1>15
  <2>3. b \in S /\ b \in T
    BY <2>1, <1>7, <1>15
  <2>4. b \in acc.pairs[<<u, m>>] /\ Over(acc, t, u, m)
    BY <2>2, <2>3, <1>2 DEF Over
  <2>5. PICK z : z = WaitBuf(acc, b, t, u, m)
    OBVIOUS
  <2>6. /\ Good(z) /\ Unhurt(acc, z, {}) /\ Sealed(acc, z) /\ z.inuse = acc.inuse
        /\ acc.pairs[<<u, m>>] \ {b} \subseteq z.pairs[<<u, m>>]
    BY <2>2, <2>4, <2>5, WaitBufOK
  <2>7. Unhurt(base, z, {}) /\ Sealed(base, z)
    <3>1. Unhurt(base, z, {})
      BY <2>2, <2>6 DEF Unhurt, SameBuf
    <3> QED
      BY <3>1, <2>2, <2>6, SealedTwice
  <2>8. Step(w, acc, LastOf(w, T)) = z
    BY <2>1, <2>5, <1>8
  <2>9. S \ T \subseteq z.pairs[<<u, m>>]
    BY <2>2, <2>3, <2>6
  <2> QED
    BY <2>2, <2>6, <2>7, <2>8, <2>9, <1>13
<1>16. FoldGood(w, base, S, g[S], S)
  BY <1>5, <1>7, <1>12, <1>14, <1>15, FoldInduction
<1>17. Good(r) /\ Unhurt(base, r, {}) /\ Sealed(base, r)
  BY <1>3, <1>13, <1>16
<1>18. Unhurt(s, r, {})
  BY <1>4, <1>17 DEF Unhurt, SameBuf
<1> QED
  BY <1>4, <1>17, <1>18, SealedTwice

LEMMA WaitAllOK ==
  ASSUME OneUser, NEW s, Good(s), NEW m \in Streams, NEW t \in Nat,
         NEW r, r = WaitPairs(s, t, m)
  PROVE  Good(r) /\ Unhurt(s, r, {}) /\ Sealed(s, r)
<1> DEFINE S == UserStreams
           w == [tag |-> "waits", t |-> t, m |-> m]
           Def(f) == [T \in SUBSET S |-> IF T = {} THEN s
                        ELSE WaitPair(f[T \ {CHOOSE x \in T : TRUE}], t, CHOOSE x \in T : TRUE, m)]
<1>1. PICK g : r = g[S] /\ g = CHOOSE f : f = Def(f)
  BY DEF WaitPairs, FoldSet, MapThenFoldSet
<1>2. IsFiniteSet(S)
  <2>1. CASE S = {}
    BY <2>1, FS_EmptySet
  <2>2. CASE S # {}
    <3>1. PICK u : S = {u}
      BY <2>2 DEF OneUser
    <3> QED
      BY <3>1, FS_Singleton
  <2> QED
    BY <2>1, <2>2
<1>3. \A T : LastOf(w, T) = CHOOSE x \in T : TRUE
  BY DEF LastOf
<1>4. \A T \in SUBSET S : T # {} => LastOf(w, T) \in T
  BY <1>3
<1>5. \A acc, x : Step(w, acc, x) = WaitPair(acc, t, x, m)
  BY DEF Step
<1>6. \A f : Def(f) = [T \in SUBSET S |-> IF T = {} THEN s ELSE Step(w, f[T \ {LastOf(w, T)}], LastOf(w, T))]
  BY <1>3, <1>5
<1>7. \A f : IsFold(f, w, s, S) <=> f = Def(f)
  BY <1>6 DEF IsFold
<1>8. \E f : f = Def(f)
  BY <1>2, <1>4, <1>7, FoldExists
<1> HIDE DEF Def
<1>9. IsFold(g, w, s, S)
  BY <1>1, <1>7, <1>8
<1>10. \A acc, T : FoldGood(w, s, S, acc, T) <=> Good(acc) /\ Unhurt(s, acc, {}) /\ Sealed(s, acc)
  BY DEF FoldGood
<1>11. FoldGood(w, s, S, s, {})
  BY <1>10 DEF Unhurt, SameBuf, Sealed, Settled
<1> HIDE DEF w
<1>12. ASSUME NEW T \in SUBSET S, NEW acc, T # {}, FoldGood(w, s, S, acc, T \ {LastOf(w, T)})
       PROVE  FoldGood(w, s, S, Step(w, acc, LastOf(w, T)), T)
  <2>1. PICK u \in UserStreams : u = LastOf(w, T)
    BY <1>4, <1>12
  <2>2. Good(acc) /\ Unhurt(s, acc, {}) /\ Sealed(s, acc)
    BY <1>10, <1>12
  <2>3. PICK z : z = WaitPair(acc, t, u, m)
    OBVIOUS
  <2>4. Good(z) /\ Unhurt(acc, z, {}) /\ Sealed(acc, z)
    BY <2>2, <2>3, WaitPairOK
  <2>5. Unhurt(s, z, {}) /\ Sealed(s, z)
    <3>1. Unhurt(s, z, {})
      BY <2>2, <2>4 DEF Unhurt, SameBuf
    <3> QED
      BY <3>1, <2>2, <2>4, SealedTwice
  <2> QED
    BY <2>1, <2>3, <2>4, <2>5, <1>5, <1>10
<1>13. FoldGood(w, s, S, g[S], S)
  BY <1>2, <1>4, <1>9, <1>11, <1>12, FoldInduction
<1> QED
  BY <1>1, <1>10, <1>13

-----------------------------------------------------------------------------
(* The pages and handles of the VMM adapter.                               *)

\* Pages and bytes.
LEMMA PageFacts ==
  ASSUME NEW x \in Nat
  PROVE  /\ PageSize \in Nat \ {0} /\ PageOf(x) \in Nat
         /\ PageOf(x) * PageSize <= x /\ x < PageOf(x) * PageSize + PageSize
         /\ x \in PageBytes(PageOf(x))
<1>1. PageSize \in Nat \ {0}
  BY VmmAssumption
<1>2. PICK q \in Nat : q = x \div PageSize
  BY <1>1
<1>3. q * PageSize <= x /\ x < (q + 1) * PageSize /\ (q + 1) * PageSize = q * PageSize + PageSize
  BY <1>1, <1>2
<1> QED
  BY <1>1, <1>2, <1>3 DEF PageOf, PageBytes

\* Pages are in the order of their numbers and do not overlap.
LEMMA PageOrder ==
  ASSUME NEW p \in Nat, NEW q \in Nat
  PROVE  /\ p * PageSize \in Nat
         /\ p < q => p * PageSize + PageSize <= q * PageSize
         /\ p <= q => p * PageSize <= q * PageSize
<1>1. PageSize \in Nat \ {0}
  BY VmmAssumption
<1>2. p < q => (p + 1) * PageSize <= q * PageSize
  BY <1>1
<1>3. (p + 1) * PageSize = p * PageSize + PageSize
  BY <1>1
<1> QED
  BY <1>1, <1>2, <1>3

\* A byte is in one page.
LEMMA PageUnique ==
  ASSUME NEW p \in Nat, NEW x \in PageBytes(p)
  PROVE  x \in Nat /\ PageOf(x) = p
<1>1. PageSize \in Nat \ {0} /\ p * PageSize \in Nat
  BY VmmAssumption, PageOrder
<1>2. x \in Nat /\ p * PageSize <= x /\ x < p * PageSize + PageSize
  BY <1>1 DEF PageBytes
<1>3. PICK q \in Nat : q = PageOf(x) /\ q * PageSize <= x /\ x < q * PageSize + PageSize
  BY <1>2, PageFacts
<1>4. ~ (p < q) /\ ~ (q < p)
  <2>1. p < q => p * PageSize + PageSize <= q * PageSize
    BY PageOrder
  <2>2. q < p => q * PageSize + PageSize <= p * PageSize
    BY PageOrder
  <2>3. q * PageSize \in Nat
    BY PageOrder
  <2> QED
    BY <2>1, <2>2, <2>3, <1>1, <1>2, <1>3
<1> QED
  BY <1>2, <1>3, <1>4

\* What is known of the fields of an adapter in order.
LEMMA AdapterFacts ==
  ASSUME NEW v, AdapterOK(v)
  PROVE  /\ DOMAIN v = {"map", "mapped", "cached", "made"} /\ v.made \in Nat
         /\ \A p \in DOMAIN v.map : p \in Nat /\ v.map[p] \in Nat
         /\ v.map \in [DOMAIN v.map -> Nat]
         /\ MappedPages(v) \subseteq DOMAIN v.map
         /\ v.cached \subseteq 1 .. v.made
         /\ v.mapped = [p \in MappedPages(v) |-> v.map[p]]
         /\ \A p \in MappedPages(v) : v.map[p] \in 1 .. v.made /\ v.map[p] \notin v.cached
         /\ \A p, q \in MappedPages(v) : v.map[p] = v.map[q] => p = q
         /\ \A h \in 1 .. v.made : h \in v.cached \/ \E p \in MappedPages(v) : v.map[p] = h
<1>1. PICK n \in Nat : v.map \in [0 .. n - 1 -> Nat]
  BY DEF AdapterOK
<1>2. DOMAIN v = {"map", "mapped", "cached", "made"} /\ v.made \in Nat /\ HandlesOf(v)
  BY DEF AdapterOK
<1>3. v.mapped = [p \in MappedPages(v) |-> v.map[p]]
  BY <1>2 DEF HandlesOf, Restrict
<1>4. MappedPages(v) \subseteq DOMAIN v.map
  BY DEF MappedPages
<1>5. {v.map[p] : p \in MappedPages(v)} \cap v.cached = {} /\ {v.map[p] : p \in MappedPages(v)} \cup v.cached = 1 .. v.made
  BY <1>2 DEF HandlesOf
<1>6. \A p, q \in MappedPages(v) : v.map[p] = v.map[q] => p = q
  BY <1>2 DEF HandlesOf
<1>7. \A p \in MappedPages(v) : v.map[p] \in {v.map[q] : q \in MappedPages(v)}
  OBVIOUS
<1>8. \A p \in MappedPages(v) : v.map[p] \in 1 .. v.made /\ v.map[p] \notin v.cached
  BY <1>5, <1>7
<1>9. \A h \in 1 .. v.made : h \in v.cached \/ \E p \in MappedPages(v) : v.map[p] = h
  BY <1>5
<1> QED
  BY <1>1, <1>2, <1>3, <1>4, <1>5, <1>6, <1>8, <1>9

\* The handles of adapter w are each in one of the pages in M or in the cache.
HandlesAt(w, M) ==
  /\ w.made \in Nat /\ w.made * PageSize < PhysMem + PageSize
  /\ w.cached \subseteq 1 .. w.made
  /\ w.mapped = [p \in M |-> w.map[p]]
  /\ \A p \in M : w.map[p] \in 1 .. w.made /\ w.map[p] \notin w.cached
  /\ \A p, q \in M : w.map[p] = w.map[q] => p = q
  /\ \A h \in 1 .. w.made : h \in w.cached \/ \E p \in M : w.map[p] = h

\* When an adapter that has reserved the pages of v is in order.
LEMMA AdapterMade ==
  ASSUME NEW v, AdapterOK(v), NEW w, DOMAIN w = DOMAIN v, w.map \in [DOMAIN v.map -> Nat],
         NEW M, M = MappedPages(w), 0 \notin M, HandlesAt(w, M)
  PROVE  Remapped(v, w)
<1>1. PICK n \in Nat : v.map \in [0 .. n - 1 -> Nat]
  BY DEF AdapterOK
<1>2. w.map \in [0 .. n - 1 -> Nat] /\ DOMAIN w.map = DOMAIN v.map
  BY <1>1
<1>3. DOMAIN w = {"map", "mapped", "cached", "made"}
  BY DEF AdapterOK
<1>4. {w.map[p] : p \in M} \cap w.cached = {}
  BY DEF HandlesAt
<1>5. {w.map[p] : p \in M} \cup w.cached = 1 .. w.made
  BY DEF HandlesAt
<1>6. HandlesOf(w)
  BY <1>4, <1>5 DEF HandlesAt, HandlesOf, Restrict
<1> QED
  BY <1>2, <1>3, <1>6 DEF Remapped, AdapterOK, HandlesAt

\* A page that loses its handle.
LEMMA UnmapOK ==
  ASSUME NEW v, AdapterOK(v), NEW p \in MappedPages(v), NEW w, w = Unmap(v, p)
  PROVE  Remapped(v, w) /\ MappedPages(w) = MappedPages(v) \ {p}
<1> DEFINE M == MappedPages(v)
<1>1. /\ DOMAIN v = {"map", "mapped", "cached", "made"} /\ v.made \in Nat
      /\ \A q \in DOMAIN v.map : q \in Nat /\ v.map[q] \in Nat
      /\ v.map \in [DOMAIN v.map -> Nat]
      /\ M \subseteq DOMAIN v.map
      /\ v.cached \subseteq 1 .. v.made
      /\ v.mapped = [q \in M |-> v.map[q]]
      /\ \A q \in M : v.map[q] \in 1 .. v.made /\ v.map[q] \notin v.cached
      /\ \A q, r \in M : v.map[q] = v.map[r] => q = r
      /\ \A h \in 1 .. v.made : h \in v.cached \/ \E q \in M : v.map[q] = h
  BY AdapterFacts
<1>2. /\ w.map = [v.map EXCEPT ![p] = NoHandle] /\ w.cached = v.cached \cup {v.map[p]}
      /\ w.mapped = Without(v.mapped, p) /\ w.made = v.made /\ DOMAIN w = DOMAIN v
  BY <1>1 DEF Unmap
<1>3. NoHandle \in Nat /\ w.map \in [DOMAIN v.map -> Nat] /\ w.map[p] = NoHandle
      /\ \A q \in DOMAIN v.map \ {p} : w.map[q] = v.map[q]
  BY <1>1, <1>2 DEF NoHandle
<1>4. MappedPages(w) = M \ {p}
  BY <1>3 DEF MappedPages
<1>5. w.mapped = [q \in M \ {p} |-> w.map[q]]
  BY <1>1, <1>2, <1>3 DEF Without, Restrict
<1>6. 0 \notin M /\ v.made * PageSize < PhysMem + PageSize
  BY DEF AdapterOK, HandlesOf
<1> HIDE DEF M
<1>7. \A q \in M \ {p} : w.map[q] \in 1 .. w.made /\ w.map[q] \notin w.cached
  BY <1>1, <1>2, <1>3 DEF M
<1>8. \A q, r \in M \ {p} : w.map[q] = w.map[r] => q = r
  BY <1>1, <1>3
<1>9. \A h \in 1 .. w.made : h \in w.cached \/ \E q \in M \ {p} : w.map[q] = h
  BY <1>1, <1>2, <1>3
<1>10. w.cached \subseteq 1 .. w.made
  BY <1>1, <1>2 DEF M
<1>11. PICK N : N = M \ {p}
  OBVIOUS
<1>12. HandlesAt(w, N)
  BY <1>1, <1>2, <1>5, <1>6, <1>7, <1>8, <1>9, <1>10, <1>11 DEF HandlesAt
<1>13. Remapped(v, w)
  BY <1>2, <1>3, <1>4, <1>6, <1>11, <1>12, AdapterMade
<1> QED
  BY <1>4, <1>13 DEF M

\* A page that gets a handle that is in no other place: one of the cache, or a new one.
LEMMA MapOK ==
  ASSUME NEW v, AdapterOK(v), NEW p \in DOMAIN v.map \ MappedPages(v), p # 0, NEW h, NEW w,
         DOMAIN w = DOMAIN v, w.map = [v.map EXCEPT ![p] = h], w.mapped = Put(v.mapped, p, h),
         \/ h \in v.cached /\ w.cached = v.cached \ {h} /\ w.made = v.made
         \/ h = v.made + 1 /\ w.cached = v.cached /\ w.made = v.made + 1 /\ v.made * PageSize < PhysMem
  PROVE  Remapped(v, w) /\ MappedPages(w) = MappedPages(v) \cup {p}
<1> DEFINE M == MappedPages(v)
<1>1. /\ DOMAIN v = {"map", "mapped", "cached", "made"} /\ v.made \in Nat
      /\ \A q \in DOMAIN v.map : q \in Nat /\ v.map[q] \in Nat
      /\ v.map \in [DOMAIN v.map -> Nat]
      /\ M \subseteq DOMAIN v.map
      /\ v.cached \subseteq 1 .. v.made
      /\ v.mapped = [q \in M |-> v.map[q]]
      /\ \A q \in M : v.map[q] \in 1 .. v.made /\ v.map[q] \notin v.cached
      /\ \A q, r \in M : v.map[q] = v.map[r] => q = r
      /\ \A g \in 1 .. v.made : g \in v.cached \/ \E q \in M : v.map[q] = g
  BY AdapterFacts
<1>2. /\ h \in 1 .. w.made /\ w.made \in Nat /\ 1 .. v.made \subseteq 1 .. w.made
      /\ \A g \in 1 .. w.made : g \in 1 .. v.made \/ g = h
      /\ h \notin w.cached /\ w.cached \subseteq 1 .. w.made /\ w.cached \subseteq v.cached
      /\ v.cached \subseteq w.cached \cup {h}
      /\ \A q \in M : v.map[q] # h
  BY <1>1
<1>3. w.map \in [DOMAIN v.map -> Nat] /\ w.map[p] = h
      /\ \A q \in DOMAIN v.map \ {p} : w.map[q] = v.map[q]
  BY <1>1, <1>2
<1>4. h # NoHandle
  BY <1>2 DEF NoHandle
<1>5. MappedPages(w) = M \cup {p}
  BY <1>3, <1>4 DEF MappedPages
<1>6. p \notin M
  OBVIOUS
<1> HIDE DEF M
<1>7. w.mapped = [q \in M \cup {p} |-> w.map[q]]
  BY <1>1, <1>3, <1>6 DEF Put
<1>8. 0 \notin M \cup {p}
  BY DEF AdapterOK, M
<1>9. w.made * PageSize < PhysMem + PageSize
  <2>1. v.made * PageSize < PhysMem + PageSize
    BY DEF AdapterOK, HandlesOf
  <2>2. (v.made + 1) * PageSize = v.made * PageSize + PageSize
    BY <1>1, VmmAssumption
  <2>3. v.made * PageSize \in Nat
    BY <1>1, PageOrder
  <2>4. PageSize \in Nat /\ PhysMem \in Nat
    BY VmmAssumption
  <2> QED
    BY <2>1, <2>2, <2>3, <2>4
<1>10. \A q \in M \cup {p} : w.map[q] \in 1 .. w.made /\ w.map[q] \notin w.cached
  BY <1>1, <1>2, <1>3
<1>11. \A q, r \in M \cup {p} : w.map[q] = w.map[r] => q = r
  BY <1>1, <1>2, <1>3
<1>12. \A g \in 1 .. w.made : g \in w.cached \/ \E q \in M \cup {p} : w.map[q] = g
  <2> TAKE g \in 1 .. w.made
  <2>1. CASE g = h
    BY <2>1, <1>3
  <2>2. CASE g \in v.cached /\ g # h
    BY <2>2, <1>2
  <2>3. CASE g \in 1 .. v.made /\ g \notin v.cached
    <3>1. PICK q \in M : v.map[q] = g
      BY <2>3, <1>1
    <3> QED
      BY <3>1, <1>1, <1>3, <1>6
  <2> QED
    BY <2>1, <2>2, <2>3, <1>2
<1>13. PICK N : N = M \cup {p}
  OBVIOUS
<1>14. HandlesAt(w, N)
  BY <1>2, <1>7, <1>9, <1>10, <1>11, <1>12, <1>13 DEF HandlesAt
<1>15. Remapped(v, w)
  BY <1>3, <1>5, <1>8, <1>13, <1>14, AdapterMade
<1> QED
  BY <1>5, <1>15 DEF M

LEMMA RemappedTwice ==
  ASSUME NEW u, NEW v, NEW w, Remapped(u, v), Remapped(v, w)
  PROVE  Remapped(u, w)
BY DEF Remapped

\* One round of MmapDeviceMem.
LEMMA MmapPageOK ==
  ASSUME NEW v, NEW T, NEW p \in T, p \in DOMAIN v.map, p # 0, NEW acc, Mapping(v, acc, T \ {p}),
         NEW r, r = MmapPage(acc, p)
  PROVE  Mapping(v, r, T)
<1> DEFINE u == acc.v
<1>1. /\ DOMAIN acc = {"v", "done", "ok"} /\ acc.ok \in BOOLEAN /\ Remapped(v, u) /\ AdapterOK(u)
      /\ acc.done \subseteq (T \ {p}) \ MappedPages(v)
      /\ MappedPages(u) = MappedPages(v) \cup acc.done
      /\ acc.ok => T \ {p} \subseteq MappedPages(u)
      /\ p \in DOMAIN u.map
  BY DEF Mapping, Remapped
<1>2. CASE ~ acc.ok \/ u.map[p] # NoHandle
  <2>1. r = acc
    BY <1>2 DEF MmapPage
  <2>2. acc.ok => p \in MappedPages(u)
    BY <1>1, <1>2 DEF MappedPages
  <2> QED
    BY <2>1, <2>2, <1>1 DEF Mapping
<1>3. CASE acc.ok /\ u.map[p] = NoHandle
  <2>1. p \in DOMAIN u.map \ MappedPages(u)
    BY <1>1, <1>3 DEF MappedPages
  <2>2. DOMAIN u = {"map", "mapped", "cached", "made"} /\ u.cached \subseteq 1 .. u.made /\ u.made \in Nat
    BY <1>1, AdapterFacts
  <2>3. ASSUME NEW x, Remapped(u, x), MappedPages(x) = MappedPages(u) \cup {p},
               r = [acc EXCEPT !.v = x, !.done = @ \cup {p}]
        PROVE  Mapping(v, r, T)
    <3>1. /\ DOMAIN r = {"v", "done", "ok"} /\ r.v = x /\ r.done = acc.done \cup {p} /\ r.ok = acc.ok
      BY <2>3, <1>1
    <3>2. Remapped(v, x)
      BY <2>3, <1>1, RemappedTwice
    <3>3. p \notin MappedPages(v)
      BY <2>1, <1>1
    <3> QED
      BY <3>1, <3>2, <3>3, <2>3, <1>1, <1>3 DEF Mapping
  <2>4. CASE u.cached # {}
    <3>1. PICK h : h = Min(u.cached)
      OBVIOUS
    <3>2. h \in u.cached
      BY <3>1, <2>2, <2>4, LeastNumber
    <3>3. PICK x : x = [MapPage(u, p, h) EXCEPT !.cached = @ \ {h}]
      OBVIOUS
    <3>4. /\ DOMAIN x = DOMAIN u /\ x.map = [u.map EXCEPT ![p] = h] /\ x.mapped = Put(u.mapped, p, h)
          /\ x.cached = u.cached \ {h} /\ x.made = u.made
      BY <3>3, <2>2 DEF MapPage
    <3>5. Remapped(u, x) /\ MappedPages(x) = MappedPages(u) \cup {p}
      BY <3>2, <3>4, <2>1, <1>1, MapOK
    <3>6. MapPage(u, p, h).cached = u.cached
      BY <2>2 DEF MapPage
    <3>7. r = [acc EXCEPT !.v = x, !.done = @ \cup {p}]
      BY <3>1, <3>3, <3>6, <2>4, <1>3 DEF MmapPage
    <3> QED
      BY <3>5, <3>7, <2>3
  <2>5. CASE u.cached = {} /\ u.made * PageSize >= PhysMem
    <3>1. r = [acc EXCEPT !.ok = FALSE]
      BY <2>5, <1>3 DEF MmapPage
    <3>2. DOMAIN r = {"v", "done", "ok"} /\ r.v = u /\ r.done = acc.done /\ r.ok = FALSE
      BY <3>1, <1>1
    <3> QED
      BY <3>2, <1>1 DEF Mapping
  <2>6. CASE u.cached = {} /\ ~ (u.made * PageSize >= PhysMem)
    <3>1. PICK h : h = u.made + 1
      OBVIOUS
    <3>2. PICK x : x = [MapPage(u, p, h) EXCEPT !.made = @ + 1]
      OBVIOUS
    <3>3. /\ DOMAIN x = DOMAIN u /\ x.map = [u.map EXCEPT ![p] = h] /\ x.mapped = Put(u.mapped, p, h)
          /\ x.cached = u.cached /\ x.made = u.made + 1
      BY <3>2, <2>2 DEF MapPage
    <3>4. u.made * PageSize < PhysMem
      <4>1. u.made * PageSize \in Nat /\ PhysMem \in Nat
        BY <2>2, PageOrder, VmmAssumption
      <4> QED
        BY <4>1, <2>6
    <3>5. Remapped(u, x) /\ MappedPages(x) = MappedPages(u) \cup {p}
      BY <3>1, <3>3, <3>4, <2>1, <1>1, MapOK
    <3>6. r = [acc EXCEPT !.v = x, !.done = @ \cup {p}]
      BY <3>1, <3>2, <2>6, <1>3 DEF MmapPage
    <3> QED
      BY <3>5, <3>6, <2>3
  <2> QED
    BY <2>4, <2>5, <2>6
<1> QED
  BY <1>1, <1>2, <1>3

\* Pages are a finite set of numbers.
LEMMA PagesFinite ==
  ASSUME NEW v, AdapterOK(v), NEW S, S \subseteq DOMAIN v.map
  PROVE  IsFiniteSet(S) /\ S \subseteq Nat
<1>1. PICK n \in Nat : DOMAIN v.map = 0 .. n - 1
  BY DEF AdapterOK
<1>2. IsFiniteSet(0 .. n - 1)
  <2>1. 0 \in Int /\ n - 1 \in Int
    OBVIOUS
  <2> QED
    BY <2>1, FS_Interval
<1> QED
  BY <1>1, <1>2, FS_Subset

\* Taking the handles of mapped pages away.
LEMMA MoveBackOK ==
  ASSUME NEW v, AdapterOK(v), NEW S, S \subseteq MappedPages(v),
         NEW r, r = MoveBackMappedHandle(v, S)
  PROVE  Remapped(v, r) /\ MappedPages(r) = MappedPages(v) \ S
<1> DEFINE w == [tag |-> "unmap"]
           Def(f) == [T \in SUBSET S |-> IF T = {} THEN v
                        ELSE Unmap(f[T \ {CHOOSE x \in T : TRUE}], CHOOSE x \in T : TRUE)]
<1>1. PICK g : r = g[S] /\ g = CHOOSE f : f = Def(f)
  BY DEF MoveBackMappedHandle, FoldSet, MapThenFoldSet
<1>2. IsFiniteSet(S)
  <2>1. S \subseteq DOMAIN v.map
    BY DEF MappedPages
  <2> QED
    BY <2>1, PagesFinite
<1>3. \A T : LastOf(w, T) = CHOOSE x \in T : TRUE
  BY DEF LastOf
<1>4. \A T \in SUBSET S : T # {} => LastOf(w, T) \in T
  BY <1>3
<1>5. \A acc, x : Step(w, acc, x) = Unmap(acc, x)
  BY DEF Step
<1>6. \A f : Def(f) = [T \in SUBSET S |-> IF T = {} THEN v ELSE Step(w, f[T \ {LastOf(w, T)}], LastOf(w, T))]
  BY <1>3, <1>5
<1>7. \A f : IsFold(f, w, v, S) <=> f = Def(f)
  BY <1>6 DEF IsFold
<1>8. \E f : f = Def(f)
  <2>1. \E f : IsFold(f, w, v, S)
    <3> HIDE DEF w
    <3> QED
      BY <1>2, <1>4, FoldExists
  <2> HIDE DEF Def
  <2> QED
    BY <2>1, <1>7
<1> HIDE DEF Def
<1>9. IsFold(g, w, v, S)
  BY <1>1, <1>7, <1>8
<1>10. \A acc, T : FoldGood(w, v, S, acc, T) <=> Remapped(v, acc) /\ MappedPages(acc) = MappedPages(v) \ T
  BY DEF FoldGood
<1>11. FoldGood(w, v, S, v, {})
  BY <1>10 DEF Remapped
<1> HIDE DEF w
<1>12. ASSUME NEW T \in SUBSET S, NEW acc, T # {}, FoldGood(w, v, S, acc, T \ {LastOf(w, T)})
       PROVE  FoldGood(w, v, S, Step(w, acc, LastOf(w, T)), T)
  <2>1. PICK p \in T : p = LastOf(w, T)
    BY <1>4, <1>12
  <2>2. Remapped(v, acc) /\ MappedPages(acc) = MappedPages(v) \ (T \ {p}) /\ AdapterOK(acc)
    BY <2>1, <1>10, <1>12 DEF Remapped
  <2>3. p \in MappedPages(acc)
    BY <2>2
  <2>4. PICK z : z = Unmap(acc, p)
    OBVIOUS
  <2>5. Remapped(acc, z) /\ MappedPages(z) = MappedPages(acc) \ {p}
    BY <2>2, <2>3, <2>4, UnmapOK
  <2>6. Remapped(v, z) /\ MappedPages(z) = MappedPages(v) \ T
    BY <2>2, <2>5, RemappedTwice
  <2> QED
    BY <2>1, <2>4, <2>6, <1>5, <1>10
<1>13. FoldGood(w, v, S, g[S], S)
  BY <1>2, <1>4, <1>9, <1>11, <1>12, FoldInduction
<1> QED
  BY <1>1, <1>10, <1>13

\* The answer r of MmapDeviceMem for the pages in S.
MmapAnswer(v, r, S) ==
  /\ Remapped(v, r.v)
  /\ r.ok => MappedPages(r.v) = MappedPages(v) \cup S
  /\ ~ r.ok => MappedPages(r.v) = MappedPages(v)

\* MmapDeviceMem of reserved pages: with success they all have handles, without it the
\* pages with handles are the old ones.
LEMMA MmapDeviceOK ==
  ASSUME NEW v, AdapterOK(v), NEW addr \in Nat, NEW size \in Nat \ {0}, NEW S,
         S = PageOf(addr) .. PageOf(addr + size - 1), S \subseteq DOMAIN v.map,
         NEW r, r = MmapDeviceMem(v, addr, size)
  PROVE  MmapAnswer(v, r, S)
<1> DEFINE base == [v |-> v, done |-> {}, ok |-> TRUE]
           w == [tag |-> "mmap"]
           Def(f) == [T \in SUBSET S |-> IF T = {} THEN base ELSE MmapPage(f[T \ {Max(T)}], Max(T))]
<1>1. PICK g : g = CHOOSE f : f = Def(f)
  OBVIOUS
<1>2. PICK acc : acc = g[S]
  OBVIOUS
<1>3. /\ PageOf(addr) = 0 => r = [v |-> v, ok |-> FALSE]
      /\ PageOf(addr) # 0 => r = IF acc.ok THEN [v |-> acc.v, ok |-> TRUE]
                                 ELSE [v |-> MoveBackMappedHandle(acc.v, acc.done), ok |-> FALSE]
  BY <1>1, <1>2 DEF MmapDeviceMem, FoldUp, MapThenFoldSet
<1>4. CASE PageOf(addr) = 0
  BY <1>3, <1>4 DEF Remapped, MmapAnswer
<1>5. CASE PageOf(addr) # 0
  <2>1. IsFiniteSet(S) /\ S \subseteq Nat
    BY PagesFinite
  <2>2. \A p \in S : p # 0 /\ p \in DOMAIN v.map
    <3>1. PageOf(addr) \in Nat
      BY PageFacts
    <3> QED
      BY <3>1, <1>5
  <2>3. (\A T \in SUBSET S : T # {} => LastOf(w, T) \in T) /\ \A T : LastOf(w, T) = Max(T)
    <3>1. w.tag \in Ascending
      BY DEF Ascending
    <3> HIDE DEF w
    <3>2. ASSUME NEW T \in SUBSET S, T # {} PROVE LastOf(w, T) \in T
      BY <3>1, <3>2, <2>1, LastIn
    <3> QED
      BY <3>1, <3>2, LastNumber
  <2>4. \A y, x : Step(w, y, x) = MmapPage(y, x)
    BY DEF Step
  <2>5. \A f : Def(f) = [T \in SUBSET S |-> IF T = {} THEN base ELSE Step(w, f[T \ {LastOf(w, T)}], LastOf(w, T))]
    BY <2>3, <2>4
  <2>6. \A f : IsFold(f, w, base, S) <=> f = Def(f)
    BY <2>5 DEF IsFold
  <2>7. \E f : f = Def(f)
    <3>1. \E f : IsFold(f, w, base, S)
      <4> HIDE DEF w, base
      <4> QED
        BY <2>1, <2>3, FoldExists
    <3> HIDE DEF Def
    <3> QED
      BY <3>1, <2>6
  <2> HIDE DEF Def
  <2>8. IsFold(g, w, base, S)
    BY <1>1, <2>6, <2>7
  <2>9. \A y, T : FoldGood(w, base, S, y, T) <=> Mapping(v, y, T)
    BY DEF FoldGood
  <2>10. FoldGood(w, base, S, base, {})
    <3>1. Mapping(v, base, {})
      BY DEF Mapping, Remapped
    <3> QED
      BY <3>1, <2>9
  <2> HIDE DEF w, base
  <2>11. ASSUME NEW T \in SUBSET S, NEW y, T # {}, FoldGood(w, base, S, y, T \ {LastOf(w, T)})
         PROVE  FoldGood(w, base, S, Step(w, y, LastOf(w, T)), T)
    <3>1. PICK p \in T : p = LastOf(w, T)
      BY <2>3, <2>11
    <3>2. Mapping(v, y, T \ {p}) /\ p \in DOMAIN v.map /\ p # 0
      BY <3>1, <2>2, <2>9, <2>11
    <3>3. Mapping(v, MmapPage(y, p), T)
      BY <3>2, MmapPageOK
    <3> QED
      BY <3>1, <3>3, <2>4, <2>9
  <2>12. FoldGood(w, base, S, acc, S)
    BY <1>2, <2>1, <2>3, <2>8, <2>10, <2>11, FoldInduction
  <2>13. Mapping(v, acc, S)
    BY <2>9, <2>12
  <2>14. /\ acc.ok \in BOOLEAN /\ Remapped(v, acc.v) /\ AdapterOK(acc.v)
         /\ acc.done \subseteq S \ MappedPages(v)
         /\ MappedPages(acc.v) = MappedPages(v) \cup acc.done
         /\ acc.ok => S \subseteq MappedPages(acc.v)
    BY <2>13 DEF Mapping, Remapped
  <2>15. CASE acc.ok
    <3>1. r.v = acc.v /\ r.ok
      BY <2>15, <1>3, <1>5
    <3> QED
      BY <3>1, <2>14, <2>15 DEF MmapAnswer
  <2>16. CASE ~ acc.ok
    <3>1. PICK z : z = MoveBackMappedHandle(acc.v, acc.done)
      OBVIOUS
    <3>2. r.v = z /\ ~ r.ok
      BY <3>1, <2>16, <1>3, <1>5
    <3>3. Remapped(acc.v, z) /\ MappedPages(z) = MappedPages(acc.v) \ acc.done
      BY <3>1, <2>14, MoveBackOK
    <3>4. Remapped(v, z) /\ MappedPages(z) = MappedPages(v)
      BY <3>3, <2>14, RemappedTwice
    <3> QED
      BY <3>2, <3>4 DEF MmapAnswer
  <2> QED
    BY <2>15, <2>16
<1> QED
  BY <1>4, <1>5

\* EagerFreeDeviceMem: the pages wholly in the range lose their handles.
LEMMA EagerFreeOK ==
  ASSUME NEW v, AdapterOK(v), NEW addr, NEW size, NEW r, r = EagerFreeDeviceMem(v, addr, size)
  PROVE  /\ Remapped(v, r)
         /\ MappedPages(r) \subseteq MappedPages(v)
         /\ \A p \in MappedPages(v) : p \in MappedPages(r) <=> ~ PageIn(p, addr, size)
<1> DEFINE in == {p \in DOMAIN v.map : addr <= p * PageSize /\ (p + 1) * PageSize <= addr + size}
<1>1. PICK S : S = {p \in in : v.map[p] # NoHandle}
  OBVIOUS
<1>2. r = MoveBackMappedHandle(v, S)
  BY <1>1 DEF EagerFreeDeviceMem, MoveBackMappedHandle
<1>3. S \subseteq MappedPages(v)
  BY <1>1 DEF MappedPages
<1>4. Remapped(v, r) /\ MappedPages(r) = MappedPages(v) \ S
  BY <1>2, <1>3, MoveBackOK
<1>5. \A p \in MappedPages(v) : p \in Nat /\ p \in DOMAIN v.map /\ v.map[p] # NoHandle
  BY AdapterFacts DEF MappedPages
<1>6. \A p \in Nat : (p + 1) * PageSize = p * PageSize + PageSize
  BY VmmAssumption
<1>7. \A p \in MappedPages(v) : p \in S <=> PageIn(p, addr, size)
  BY <1>1, <1>5, <1>6 DEF PageIn
<1> QED
  BY <1>4, <1>7

\* The end of FreeIdleMems: the eager-free buffers in S lose the pages they hold wholly.
Evict(v, bufs, S) == FoldSet(LAMBDA b, u : EagerFreeDeviceMem(u, bufs[b].addr, bufs[b].size), v, S)

LEMMA EvictOK ==
  ASSUME NEW v, AdapterOK(v), NEW bufs, NEW S, IsFiniteSet(S), NEW r, r = Evict(v, bufs, S)
  PROVE  Remapped(v, r) /\ MappedPages(r) = MappedPages(v) \ PagesWithin(bufs, S)
<1> DEFINE w == [tag |-> "evict", bufs |-> bufs]
           Def(f) == [T \in SUBSET S |-> IF T = {} THEN v
                        ELSE EagerFreeDeviceMem(f[T \ {CHOOSE x \in T : TRUE}],
                               bufs[CHOOSE x \in T : TRUE].addr, bufs[CHOOSE x \in T : TRUE].size)]
<1>1. PICK g : r = g[S] /\ g = CHOOSE f : f = Def(f)
  BY DEF Evict, FoldSet, MapThenFoldSet
<1>2. \A T : LastOf(w, T) = CHOOSE x \in T : TRUE
  BY DEF LastOf
<1>3. \A T \in SUBSET S : T # {} => LastOf(w, T) \in T
  BY <1>2
<1>4. \A acc, x : Step(w, acc, x) = EagerFreeDeviceMem(acc, bufs[x].addr, bufs[x].size)
  BY DEF Step
<1>5. \A f : Def(f) = [T \in SUBSET S |-> IF T = {} THEN v ELSE Step(w, f[T \ {LastOf(w, T)}], LastOf(w, T))]
  BY <1>2, <1>4
<1>6. \A f : IsFold(f, w, v, S) <=> f = Def(f)
  BY <1>5 DEF IsFold
<1>7. \E f : f = Def(f)
  <2>1. \E f : IsFold(f, w, v, S)
    <3> HIDE DEF w
    <3> QED
      BY <1>3, FoldExists
  <2> HIDE DEF Def
  <2> QED
    BY <2>1, <1>6
<1> HIDE DEF Def
<1>8. IsFold(g, w, v, S)
  BY <1>1, <1>6, <1>7
<1>9. \A acc, T : FoldGood(w, v, S, acc, T) <=>
        Remapped(v, acc) /\ MappedPages(acc) = MappedPages(v) \ PagesWithin(bufs, T)
  BY DEF FoldGood
<1>10. FoldGood(w, v, S, v, {})
  <2>1. PagesWithin(bufs, {}) = {}
    BY DEF PagesWithin
  <2> QED
    BY <2>1, <1>9 DEF Remapped
<1> HIDE DEF w
<1>11. ASSUME NEW T \in SUBSET S, NEW acc, T # {}, FoldGood(w, v, S, acc, T \ {LastOf(w, T)})
       PROVE  FoldGood(w, v, S, Step(w, acc, LastOf(w, T)), T)
  <2>1. PICK b \in T : b = LastOf(w, T)
    BY <1>3, <1>11
  <2>2. Remapped(v, acc) /\ MappedPages(acc) = MappedPages(v) \ PagesWithin(bufs, T \ {b}) /\ AdapterOK(acc)
    BY <2>1, <1>9, <1>11 DEF Remapped
  <2>3. PICK z, at, len : z = EagerFreeDeviceMem(acc, at, len) /\ at = bufs[b].addr /\ len = bufs[b].size
    OBVIOUS
  <2>4. /\ Remapped(acc, z)
        /\ MappedPages(z) \subseteq MappedPages(acc)
        /\ \A p \in MappedPages(acc) : p \in MappedPages(z) <=> ~ PageIn(p, at, len)
    <3>1. AdapterOK(acc) /\ z = EagerFreeDeviceMem(acc, at, len)
      BY <2>2, <2>3
    <3>2. Remapped(acc, z)
      BY <3>1, EagerFreeOK
    <3>3. MappedPages(z) \subseteq MappedPages(acc)
      BY <3>1, EagerFreeOK
    <3>4. ASSUME NEW p \in MappedPages(acc) PROVE p \in MappedPages(z) <=> ~ PageIn(p, at, len)
      BY <3>1, EagerFreeOK
    <3> QED
      BY <3>2, <3>3, <3>4
  <2>5. Remapped(v, z)
    BY <2>2, <2>4, RemappedTwice
  <2>6. \A p \in MappedPages(v) : p \in Nat
    BY AdapterFacts
  <2>7. \A p \in Nat : p \in PagesWithin(bufs, T) <=>
          \/ p \in PagesWithin(bufs, T \ {b})
          \/ PageIn(p, at, len)
    BY <2>3 DEF PagesWithin
  <2>8. MappedPages(z) = MappedPages(v) \ PagesWithin(bufs, T)
    <3>1. \A p \in MappedPages(v) : p \in MappedPages(z) <=> p \notin PagesWithin(bufs, T)
      BY <2>2, <2>4, <2>6, <2>7
    <3>2. MappedPages(z) \subseteq MappedPages(v)
      BY <2>2, <2>4
    <3> QED
      BY <3>1, <3>2
  <2> QED
    BY <2>1, <2>3, <2>5, <2>8, <1>4, <1>9
<1>12. FoldGood(w, v, S, g[S], S)
  BY <1>3, <1>8, <1>10, <1>11, FoldInduction
<1> QED
  BY <1>1, <1>9, <1>12

-----------------------------------------------------------------------------
(* New buffers.                                                            *)

\* While a byte is no buffer's first, operator new has an identity left.
LEMMA NewIdOK ==
  ASSUME NEW bufs, NEW blocks, Shape(bufs, blocks), NEW at \in Bytes,
         \A c \in DOMAIN bufs : bufs[c].addr # at,
         NEW s, DOMAIN s.bufs = DOMAIN bufs
  PROVE  NewId(s) \in BufIds \ DOMAIN bufs
<1> DEFINE rest == BufIds \ DOMAIN bufs
<1>1. IsFiniteSet(Bytes) /\ Cardinality(Bytes) \in Nat /\ BufIds \subseteq Nat
  BY BytesFinite
<1>2. IsFiniteSet(BufIds) /\ Cardinality(BufIds) = Cardinality(Bytes)
  <2>1. PICK n \in Nat : n = Cardinality(Bytes)
    BY <1>1
  <2>2. IsFiniteSet(1 .. n) /\ Cardinality(1 .. n) = IF 1 > n THEN 0 ELSE n - 1 + 1
    BY FS_Interval
  <2>3. Cardinality(1 .. n) = n
    BY <2>2
  <2> QED
    BY <2>1, <2>2, <2>3 DEF BufIds
<1>3. ASSUME rest = {} PROVE FALSE
  <2> DEFINE T == Bytes \ {at}
             f == [b \in BufIds |-> bufs[b].addr]
  <2>1. IsFiniteSet(T) /\ Cardinality(T) = Cardinality(Bytes) - 1
    BY <1>1, FS_RemoveElement
  <2>2. BufIds \subseteq DOMAIN bufs
    BY <1>3
  <2>3. \A b \in BufIds : bufs[b].addr \in T
    <3>1. ASSUME NEW b \in BufIds PROVE bufs[b].addr \in T
      <4>1. b \in DOMAIN bufs
        BY <2>2
      <4>2. /\ bufs[b].addr \in Nat /\ bufs[b].size \in Nat /\ bufs[b].size > 0
            /\ End(bufs[b]) = bufs[b].addr + bufs[b].size
        BY <4>1, ShapeFacts
      <4>3. bufs[b].addr \in bufs[b].addr .. End(bufs[b]) - 1
        BY <4>2
      <4> QED
        BY <4>1, <4>3, AddrInBytes
    <3> QED
      BY <3>1
  <2>4. f \in [BufIds -> T]
    BY <2>3
  <2>5. Cardinality(T) < Cardinality(BufIds)
    BY <2>1, <1>1, <1>2
  <2>6. \A b \in BufIds : f[b] = bufs[b].addr
    OBVIOUS
  <2> HIDE DEF T, f
  <2>7. PICK b \in BufIds, c \in BufIds : b # c /\ f[b] = f[c]
    BY <2>1, <2>4, <2>5, <1>2, FS_PigeonHole
  <2>8. b \in DOMAIN bufs /\ c \in DOMAIN bufs /\ bufs[b].addr = bufs[c].addr
    BY <2>2, <2>6, <2>7
  <2>9. End(bufs[b]) <= bufs[c].addr \/ End(bufs[c]) <= bufs[b].addr
    BY <2>7, <2>8 DEF Shape, BytesExact
  <2> QED
    BY <2>8, <2>9, ShapeFacts
<1>4. rest \subseteq Nat /\ NewId(s) = Min(rest)
  BY <1>1 DEF NewId
<1> HIDE DEF rest
<1>5. NewId(s) \in rest
  BY <1>3, <1>4, LeastNumber
<1> QED
  BY <1>5 DEF rest

\* No buffer starts within another.
LEMMA InsideFree ==
  ASSUME NEW bufs, NEW blocks, Shape(bufs, blocks), NEW b \in DOMAIN bufs, NEW at \in Nat,
         bufs[b].addr < at, at < End(bufs[b])
  PROVE  at \in Bytes /\ \A c \in DOMAIN bufs : bufs[c].addr # at
<1>1. /\ bufs[b].addr \in Nat /\ bufs[b].size \in Nat /\ bufs[b].size > 0
      /\ End(bufs[b]) = bufs[b].addr + bufs[b].size
  BY ShapeFacts
<1>2. at \in Bytes
  <2>1. at \in bufs[b].addr .. End(bufs[b]) - 1
    BY <1>1
  <2> QED
    BY <2>1, AddrInBytes
<1>3. ASSUME NEW c \in DOMAIN bufs, bufs[c].addr = at PROVE FALSE
  <2>1. c # b /\ End(bufs[c]) = bufs[c].addr + bufs[c].size /\ bufs[c].size \in Nat /\ bufs[c].size > 0
    BY <1>1, <1>3, ShapeFacts
  <2>2. End(bufs[b]) <= bufs[c].addr \/ End(bufs[c]) <= bufs[b].addr
    BY <2>1 DEF Shape, BytesExact
  <2> QED
    BY <2>1, <2>2, <1>1, <1>3
<1> QED
  BY <1>2, <1>3

\* new is bufs with b cut off at address at, and a buffer k of that length, like b,
\* chained behind it.
Behind(bufs, new, b, k, at, len) ==
  LET n == bufs[b].next
  IN  /\ DOMAIN new = DOMAIN bufs \cup {k}
      /\ new[b] = [bufs[b] EXCEPT !.size = at - bufs[b].addr, !.next = k]
      /\ new[k] = [MemBuf(len, at, bufs[b].stream_id, bufs[b].mem_block, bufs[b].status)
                     EXCEPT !.prev = b, !.next = n]
      /\ n # NoBuf => new[n] = [bufs[n] EXCEPT !.prev = k]
      /\ \A c \in DOMAIN bufs \ {b, n} : new[c] = bufs[c]

\* The buffers of new are those of bufs in all but size and place, and k is like b.
LikeBufs(bufs, new, b, k) ==
  /\ \A c \in DOMAIN bufs : /\ new[c].status = bufs[c].status
                            /\ new[c].stream_id = bufs[c].stream_id
                            /\ new[c].events = bufs[c].events
  /\ new[k].status = bufs[b].status
  /\ new[k].stream_id = bufs[b].stream_id
  /\ new[k].events = NoEvents

LEMMA BehindCut ==
  ASSUME NEW bufs, NEW blocks, Shape(bufs, blocks), NEW b \in DOMAIN bufs, NEW at \in Nat,
         bufs[b].addr < at, at < End(bufs[b]), NEW k \in BufIds \ DOMAIN bufs,
         NEW new, Behind(bufs, new, b, k, at, End(bufs[b]) - at)
  PROVE  Cut(bufs, new, b, k, at) /\ LikeBufs(bufs, new, b, k)
<1> DEFINE D == DOMAIN bufs
           n == bufs[b].next
           len == End(bufs[b]) - at
<1>1. /\ k \in Nat /\ k # 0 /\ k \notin D /\ b \in Nat /\ b \in D
      /\ \A c \in D : bufs[c] \in BufType /\ bufs[c].addr \in Nat /\ bufs[c].size \in Nat
  BY BytesFinite, ShapeFacts DEF NoBuf
<1>2. n # NoBuf => n \in D /\ n # b /\ bufs[n].prev = b
  BY NextFacts
<1>3. ASSUME NEW c \in D \ {b}, bufs[c].prev = b PROVE c = n /\ n # NoBuf
  <2>1. bufs[c].prev # NoBuf
    BY <1>1, <1>3, ShapeFacts DEF NoBuf
  <2>2. bufs[b].next = c
    BY <2>1, <1>3, PrevFacts
  <2> QED
    BY <2>2, <1>3, ShapeFacts DEF NoBuf
<1>4. PICK z \in Nat : z = at - bufs[b].addr /\ z = at - bufs[b].addr
  BY <1>1
<1>5. PICK l \in Nat : l = len
  BY <1>1 DEF End
<1>6. /\ DOMAIN new = D \cup {k}
      /\ new[b] = [bufs[b] EXCEPT !.size = z, !.next = k]
      /\ new[k] = [MemBuf(l, at, bufs[b].stream_id, bufs[b].mem_block, bufs[b].status) EXCEPT !.prev = b, !.next = n]
      /\ n # NoBuf => new[n] = [bufs[n] EXCEPT !.prev = k]
      /\ \A c \in D \ {b, n} : new[c] = bufs[c]
  BY <1>4, <1>5 DEF Behind
<1>7. /\ new[b] \in BufType /\ new[b].addr = bufs[b].addr /\ new[b].size = z
      /\ new[b].mem_block = bufs[b].mem_block /\ new[b].prev = bufs[b].prev /\ new[b].next = k
      /\ new[b].status = bufs[b].status /\ new[b].stream_id = bufs[b].stream_id /\ new[b].events = bufs[b].events
  BY <1>1, <1>6 DEF BufType
<1>8. /\ new[k] \in BufType /\ new[k].addr = at /\ new[k].size = l
      /\ new[k].mem_block = bufs[b].mem_block /\ new[k].prev = b /\ new[k].next = n
      /\ new[k].status = bufs[b].status /\ new[k].stream_id = bufs[b].stream_id /\ new[k].events = NoEvents
  <2>1. NoEvents \in [UserStreams -> Seq(Nat)]
    BY DEF NoEvents
  <2>2. bufs[b].stream_id \in Streams /\ bufs[b].mem_block \in Nat /\ bufs[b].status \in BufStatus /\ n \in Nat
    BY <1>1 DEF BufType
  <2> QED
    BY <2>1, <2>2, <1>1, <1>6 DEF BufType, MemBuf, NoBuf
<1>9. ASSUME NEW c \in D \ {b}
      PROVE  /\ new[c] \in BufType /\ new[c].addr = bufs[c].addr /\ new[c].size = bufs[c].size
             /\ new[c].mem_block = bufs[c].mem_block /\ new[c].next = bufs[c].next
             /\ new[c].prev = IF bufs[c].prev = b THEN k ELSE bufs[c].prev
             /\ new[c].status = bufs[c].status /\ new[c].stream_id = bufs[c].stream_id
             /\ new[c].events = bufs[c].events
  <2>1. CASE c = n
    <3>1. c # NoBuf /\ bufs[c] \in BufType
      BY <1>1, ShapeFacts DEF NoBuf
    <3>2. new[c] = [bufs[c] EXCEPT !.prev = k] /\ bufs[c].prev = b
      BY <3>1, <2>1, <1>2, <1>6
    <3> QED
      BY <3>1, <3>2, <1>1 DEF BufType
  <2>2. CASE c # n
    <3>1. new[c] = bufs[c] /\ bufs[c].prev # b
      BY <2>2, <1>3, <1>6
    <3> QED
      BY <3>1, <1>1
  <2> QED
    BY <2>1, <2>2
<1>10. Cut(bufs, new, b, k, at)
  BY <1>1, <1>4, <1>5, <1>6, <1>7, <1>8, <1>9 DEF Cut
<1>11. LikeBufs(bufs, new, b, k)
  BY <1>1, <1>7, <1>8, <1>9 DEF LikeBufs
<1> QED
  BY <1>10, <1>11

-----------------------------------------------------------------------------
(* Malloc.                                                                 *)

\* A pool state in the middle of an allocation: the buffers in X are in no list,
\* those in Y not in the index.
Nearly(s, X, Y) ==
  /\ Calm(s)
  /\ ListsExact(s, X)
  /\ AddrsExact(s, Y)
  /\ Deferred(s.bufs, {})
  /\ Waiting(s)

\* t differs from s in statistics, pages or the defragmentation flag only.
Same(s, t) ==
  /\ Fields \subseteq DOMAIN t
  /\ t.bufs = s.bufs /\ t.blocks = s.blocks /\ t.lists = s.lists /\ t.addrs = s.addrs
  /\ t.pairs = s.pairs /\ t.inuse = s.inuse

LEMMA SameWaiting ==
  ASSUME NEW s, NEW t, Waiting(s), t.bufs = s.bufs, t.pairs = s.pairs, t.inuse = s.inuse
  PROVE  Waiting(t)
BY DEF Waiting, PairsExact, InUseHeld

LEMMA SameOK ==
  ASSUME NEW s, NEW t, Same(s, t), NEW X, NEW Y, Nearly(s, X, Y)
  PROVE  Nearly(t, X, Y) /\ Unhurt(s, t, {})
<1>1. AddrsExact(t, Y) /\ Waiting(t)
  BY SameAddrs, SameWaiting DEF Nearly, Same
<1>2. Calm(t) /\ ListsExact(t, X)
  BY SameCalm, SameLists DEF Nearly, Same
<1> QED
  BY <1>1, <1>2 DEF Nearly, Same, Unhurt, SameBuf

LEMMA GoodNearly ==
  ASSUME NEW s
  PROVE  Good(s) <=> Nearly(s, {}, {}) /\ Paged(s)
BY DEF Good, Nearly, Kept

\* Buffer b of allocator a is free, in no list, and may have been cut.
Open(s, a, b) ==
  /\ Pooled(s) /\ QuietFree(s.bufs)
  /\ b \in DOMAIN s.bufs /\ s.bufs[b].status \in FreeStatus
  /\ a \in Allocators /\ Owner(s, b) = a
  /\ \A c \in DOMAIN s.bufs \ {b} : Apart(s.bufs, c)
  /\ ListsExact(s, {b})
  /\ AddrsExact(s, {})
  /\ Deferred(s.bufs, {})
  /\ Waiting(s)

\* The answer r is a buffer in use that only the index lacks, and just large enough.
Handed(r, size) ==
  /\ r.buf \in DOMAIN r.s.bufs
  /\ Nearly(r.s, {}, {r.buf})
  /\ r.s.bufs[r.buf].status = "Used" /\ r.s.bufs[r.buf].events = NoEvents
  /\ Owner(r.s, r.buf) = r.alloc
  /\ size <= r.s.bufs[r.buf].size /\ r.s.bufs[r.buf].size < size + AlignSize

\* The border of a block grows to cover a buffer.
LEMMA BorderGrown ==
  ASSUME NEW blk, BlockOK(blk), blk.min \in Nat, blk.max \in Nat, NEW buf, buf.addr \in Nat, buf.size \in Nat,
         0 < buf.addr, NEW border, border = UpdateBorderAddr(blk, buf)
  PROVE  /\ border.min \in Nat /\ border.max \in Nat /\ 0 < border.min
         /\ border.min <= buf.addr /\ End(buf) <= border.max
         /\ blk.max <= border.max /\ (0 < blk.min => border.min <= blk.min)
<1>1. /\ border.min = IF blk.min = 0 THEN buf.addr ELSE Min({blk.min, buf.addr})
      /\ border.max = Max({blk.max, buf.addr + buf.size})
  BY DEF UpdateBorderAddr, BlockOK
<1>2. border.max \in Nat /\ End(buf) <= border.max /\ blk.max <= border.max
  <2>1. PICK h, e \in Int : h = blk.max /\ e = End(buf)
    BY DEF End
  <2>2. border.max = Max({h, e})
    BY <2>1, <1>1 DEF End
  <2>3. border.max \in {h, e} /\ border.max >= h /\ border.max >= e
    BY <2>2, MaxOfTwo
  <2>4. h \in Nat /\ e \in Nat
    BY <2>1 DEF End
  <2> QED
    BY <2>1, <2>3, <2>4
<1>3. CASE blk.min = 0
  BY <1>1, <1>2, <1>3
<1>4. CASE blk.min # 0
  <2>1. border.min \in {blk.min, buf.addr} /\ border.min <= blk.min /\ border.min <= buf.addr
    <3>1. PICK l, e \in Int : l = blk.min /\ e = buf.addr
      OBVIOUS
    <3>2. border.min = Min({l, e})
      BY <3>1, <1>1, <1>4
    <3> QED
      BY <3>1, <3>2, MinOfTwo
  <2> QED
    BY <2>1, <1>2, <1>4
<1> QED
  BY <1>3, <1>4

\* Statistics but eager-free memory are still right when b is handed out.
LEMMA HandOutCounted ==
  ASSUME NEW s, NEW t, NEW b, Shape(s.bufs, s.blocks), AddrsExact(s, {}), b \in DOMAIN s.bufs,
         s.bufs[b].status \in FreeStatus, NEW blk, blk = s.bufs[b].mem_block, NEW border,
         border = UpdateBorderAddr(s.blocks[blk], s.bufs[b]), NEW buf, buf.addr = s.bufs[b].addr,
         buf.size = s.bufs[b].size, buf.mem_block = blk, buf.events = s.bufs[b].events,
         t.bufs = [s.bufs EXCEPT ![b] = buf], t.blocks = [s.blocks EXCEPT ![blk] = border],
         t.addrs = s.addrs, t.stat = s.stat, 0 < s.bufs[b].addr, CountedRest(s)
  PROVE  CountedRest(t)
<1>1. /\ blk \in DOMAIN s.blocks /\ s.bufs[b].addr \in Nat /\ s.bufs[b].size \in Nat
      /\ \A c \in DOMAIN s.bufs : s.bufs[c].mem_block \in DOMAIN s.blocks /\ s.bufs[c].addr \in Nat /\ End(s.bufs[c]) \in Nat
  BY ShapeFacts
<1>2. BlockOK(s.blocks[blk]) /\ \A c \in DOMAIN s.blocks : s.blocks[c].min \in Nat /\ s.blocks[c].max \in Nat
  BY <1>1 DEF Shape, BlocksOK, CountedRest, Bordered
<1>3. /\ border.min \in Nat /\ border.max \in Nat /\ 0 < border.min
      /\ border.min <= s.bufs[b].addr /\ End(s.bufs[b]) <= border.max
      /\ s.blocks[blk].max <= border.max /\ (0 < s.blocks[blk].min => border.min <= s.blocks[blk].min)
  BY <1>1, <1>2, BorderGrown
<1>4. /\ DOMAIN t.bufs = DOMAIN s.bufs /\ t.bufs[b] = buf /\ \A c \in DOMAIN s.bufs \ {b} : t.bufs[c] = s.bufs[c]
      /\ DOMAIN t.blocks = DOMAIN s.blocks /\ t.blocks[blk] = border
      /\ \A c \in DOMAIN s.blocks \ {blk} : t.blocks[c] = s.blocks[c]
  BY <1>1
<1>5. Bordered(t)
  <2>1. \A c \in DOMAIN t.blocks : t.blocks[c].min \in Nat /\ t.blocks[c].max \in Nat
    BY <1>2, <1>3, <1>4
  <2>2. ASSUME NEW c \in DOMAIN t.bufs, t.bufs[c].status \notin FreeStatus
        PROVE  LET x == t.blocks[t.bufs[c].mem_block]
               IN  0 < x.min /\ x.min <= t.bufs[c].addr /\ End(t.bufs[c]) <= x.max
    <3>1. CASE c = b
      BY <3>1, <1>3, <1>4 DEF End
    <3>2. CASE c # b
      <4>1. PICK y : y = s.blocks[s.bufs[c].mem_block]
        OBVIOUS
      <4>2. t.bufs[c] = s.bufs[c] /\ 0 < y.min /\ y.min <= s.bufs[c].addr /\ End(s.bufs[c]) <= y.max
            /\ y.min \in Nat /\ y.max \in Nat
        BY <4>1, <3>2, <2>2, <1>1, <1>2, <1>4 DEF CountedRest, Bordered
      <4>3. CASE s.bufs[c].mem_block = blk
        <5>1. t.blocks[t.bufs[c].mem_block] = border /\ y = s.blocks[blk]
          BY <4>1, <4>2, <4>3, <1>4
        <5>2. border.min <= y.min /\ y.max <= border.max /\ s.bufs[c].addr \in Nat /\ End(s.bufs[c]) \in Nat
          BY <5>1, <4>2, <3>2, <2>2, <1>1, <1>3, <1>4
        <5>3. border.min <= s.bufs[c].addr /\ End(s.bufs[c]) <= border.max
          BY <5>2, <4>2, <1>3
        <5> QED
          BY <5>1, <5>3, <4>2, <1>3
      <4>4. CASE s.bufs[c].mem_block # blk
        BY <4>1, <4>2, <4>4, <1>1, <1>4
      <4> QED
        BY <4>3, <4>4
    <3> QED
      BY <3>1, <3>2
  <2> QED
    BY <2>1, <2>2 DEF Bordered
<1>6. UsedBytes(t) = UsedBytes(s)
  <2>1. \A addr \in DOMAIN s.addrs : s.addrs[addr].buf \in DOMAIN s.bufs \ {b}
    BY DEF AddrsExact
  <2> QED
    BY <2>1, <1>4, SameUsed
<1>7. EventBytes(t.bufs) = EventBytes(s.bufs)
  <2>1. Span(buf) = Span(s.bufs[b])
    BY SameSpan
  <2> QED
    BY <2>1, <1>4 DEF EventBytes
<1>8. BlockBytes(t.blocks) = BlockBytes(s.blocks)
  <2>1. border.size = s.blocks[blk].size
    BY DEF UpdateBorderAddr
  <2> QED
    BY <2>1, <1>4 DEF BlockBytes
<1> QED
  BY <1>5, <1>6, <1>7, <1>8 DEF CountedRest

LEMMA HandOutOK ==
  ASSUME NEW s, NEW a, NEW b, Open(s, a, b), NEW size \in Nat,
         size <= s.bufs[b].size, s.bufs[b].size < size + AlignSize,
         NEW r, r = HandOut(s, a, b)
  PROVE  /\ r.buf = b /\ Handed(r, size) /\ Unhurt(s, r.s, {})
         /\ r.s.vmm = s.vmm /\ DOMAIN r.s.blocks = DOMAIN s.blocks
         /\ \A base \in DOMAIN s.blocks : r.s.blocks[base].size = s.blocks[base].size
         /\ \A x \in Bytes : x \in EagerBytes(r.s.bufs) <=>
              x \in EagerBytes(s.bufs) /\ ~ (s.bufs[b].addr <= x /\ x < End(s.bufs[b]))
         /\ r.s.stat = s.stat /\ r.s.addrs = s.addrs /\ r.s.bufs[b].addr = s.bufs[b].addr
         /\ 0 < s.bufs[b].addr /\ CountedRest(s) => CountedRest(r.s)
<1> DEFINE D == DOMAIN s.bufs
           blk == s.bufs[b].mem_block
<1>1. /\ Pooled(s) /\ QuietFree(s.bufs) /\ b \in D /\ s.bufs[b].status \in FreeStatus
      /\ a \in Allocators /\ Owner(s, b) = a /\ ListsExact(s, {b}) /\ AddrsExact(s, {})
      /\ Deferred(s.bufs, {}) /\ Waiting(s) /\ Fields \subseteq DOMAIN s /\ Shape(s.bufs, s.blocks)
      /\ s.lists \in [Allocators -> [FreeStatus -> SUBSET Nat]]
  BY DEF Open, Pooled
<1>2. PICK t : t = r.s
  OBVIOUS
<1>3. PICK border : border = UpdateBorderAddr(s.blocks[blk], s.bufs[b])
  OBVIOUS
<1>4. PICK buf : buf = [s.bufs[b] EXCEPT !.status = "Used"]
  OBVIOUS
<1>5. /\ r.buf = b /\ r.alloc = a
      /\ t = [s EXCEPT !.bufs[b].status = "Used", !.blocks[blk] = border]
  BY <1>2, <1>3 DEF HandOut, Answer
<1>6. /\ t.bufs = [s.bufs EXCEPT ![b] = buf] /\ t.blocks = [s.blocks EXCEPT ![blk] = border]
      /\ t.lists = s.lists /\ t.addrs = s.addrs /\ t.pairs = s.pairs /\ t.inuse = s.inuse
      /\ Fields \subseteq DOMAIN t /\ t.vmm = s.vmm /\ t.stat = s.stat
  BY <1>1, <1>4, <1>5 DEF Fields
<1>7. s.bufs[b] \in BufType /\ blk \in DOMAIN s.blocks /\ BlockOK(s.blocks[blk])
  <2>1. s.bufs[b] \in BufType /\ blk \in DOMAIN s.blocks
    BY <1>1, ShapeFacts
  <2> QED
    BY <2>1, <1>1 DEF Shape, BlocksOK
<1>8. /\ buf \in BufType /\ buf.status = "Used" /\ buf.addr = s.bufs[b].addr /\ buf.size = s.bufs[b].size
      /\ buf.mem_block = blk /\ buf.prev = s.bufs[b].prev /\ buf.next = s.bufs[b].next
      /\ buf.stream_id = s.bufs[b].stream_id /\ buf.events = s.bufs[b].events
  <2>1. "Used" \in BufStatus
    BY DEF BufStatus
  <2> QED
    BY <2>1, <1>4, <1>7 DEF BufType
<1>9. s.bufs[b].events = NoEvents
  BY <1>1 DEF QuietFree
<1>10. BlockOK(border) /\ border.size = s.blocks[blk].size /\ border.owner = s.blocks[blk].owner
  <2>1. DOMAIN border = DOMAIN s.blocks[blk] /\ border.size = s.blocks[blk].size
        /\ border.owner = s.blocks[blk].owner
    BY <1>3 DEF UpdateBorderAddr
  <2> QED
    BY <2>1, <1>7 DEF BlockOK
<1>11. /\ DOMAIN t.bufs = D /\ t.bufs[b] = buf /\ \A c \in D \ {b} : t.bufs[c] = s.bufs[c]
       /\ DOMAIN t.blocks = DOMAIN s.blocks /\ t.blocks[blk] = border
       /\ \A c \in DOMAIN s.blocks \ {blk} : t.blocks[c] = s.blocks[c]
  BY <1>1, <1>6, <1>7
<1>12. \A c \in D : s.bufs[c] \in BufType /\ s.bufs[c].mem_block \in DOMAIN s.blocks
  BY <1>1, ShapeFacts
<1>13. Shape(t.bufs, t.blocks)
  <2>1. \A base \in DOMAIN s.blocks : BlockOK(s.blocks[base])
    BY <1>1 DEF Shape, BlocksOK
  <2>2. Alike(s.bufs, s.blocks, t.bufs, t.blocks)
    BY <2>1, <1>8, <1>10, <1>11, <1>12 DEF Alike
  <2> QED
    BY <2>2, <1>1, AlikeShape
<1>14. Pooled(t)
  BY <1>1, <1>6, <1>13 DEF Pooled
<1>15. \A c \in D : Owner(t, c) = Owner(s, c)
  BY <1>8, <1>10, <1>11, <1>12 DEF Owner
<1>16. "Used" \notin FreeStatus
  BY DEF FreeStatus
<1>17. Merged(t.bufs)
  <2>1. ASSUME NEW c \in D PROVE Apart(t.bufs, c)
    <3>1. CASE c = b
      BY <3>1, <1>8, <1>11, <1>16 DEF Apart
    <3>2. CASE c # b
      <4>1. Apart(s.bufs, c)
        BY <3>2 DEF Open
      <4>2. t.bufs[c] = s.bufs[c] /\ (s.bufs[c].next # NoBuf => s.bufs[c].next \in D)
        BY <3>2, <1>1, <1>11, NextFacts
      <4>3. CASE s.bufs[c].next = b
        BY <4>2, <4>3, <1>8, <1>11, <1>16 DEF Apart
      <4>4. CASE s.bufs[c].next # b
        BY <4>1, <4>2, <4>4, <1>11 DEF Apart
      <4> QED
        BY <4>3, <4>4
    <3> QED
      BY <3>1, <3>2
  <2> QED
    BY <2>1, <1>11 DEF Merged
<1>18. QuietFree(t.bufs) /\ Deferred(t.bufs, {})
  BY <1>1, <1>8, <1>11, <1>16 DEF QuietFree, Deferred
<1>19. ListsExact(t, {})
  <2>1. ASSUME NEW x \in Allocators, NEW st \in FreeStatus
        PROVE  t.lists[x][st] = Listed(t, DOMAIN t.bufs \ {}, x, st)
    <3>1. Listed(t, DOMAIN t.bufs \ {}, x, st) = Listed(s, D \ {b}, x, st)
      BY <1>8, <1>11, <1>15, <1>16 DEF Listed
    <3> QED
      <4>1. s.lists[x][st] = Listed(s, D \ {b}, x, st)
        BY <1>1 DEF ListsExact
      <4> QED
        BY <4>1, <3>1, <1>6
  <2> QED
    BY <2>1 DEF ListsExact
<1>20. AddrsExact(t, {b})
  <2>1. \A x \in DOMAIN s.addrs : s.addrs[x].buf # b
    BY <1>1 DEF AddrsExact
  <2> QED
    BY <2>1, <1>1, <1>6, <1>11, <1>15 DEF AddrsExact
<1>21. Waiting(t)
  <2>1. EventsKept(s.bufs, t.bufs)
    BY <1>8, <1>9, <1>11 DEF EventsKept
  <2> QED
    BY <2>1, <1>1, <1>6, EventsKeptOK
<1>22. Nearly(t, {}, {b})
  BY <1>14, <1>17, <1>18, <1>19, <1>20, <1>21 DEF Nearly, Calm
<1>23. Unhurt(s, t, {})
  BY <1>1, <1>11, <1>16 DEF Unhurt, SameBuf
<1>24. Handed(r, size)
  BY <1>1, <1>2, <1>5, <1>8, <1>9, <1>11, <1>15, <1>22 DEF Handed
<1>25. ASSUME NEW x \in Bytes
       PROVE  x \in EagerBytes(t.bufs) <=> x \in EagerBytes(s.bufs) /\ ~ (s.bufs[b].addr <= x /\ x < End(s.bufs[b]))
  <2> DEFINE In(m, c) == m[c].status = "EagerFree" /\ m[c].addr <= x /\ x < End(m[c])
  <2>1. x \in Nat
    BY BytesFinite
  <2>2. \A c \in D \ {b} : In(t.bufs, c) <=> In(s.bufs, c)
    BY <1>11
  <2>3. ~ In(t.bufs, b)
    BY <1>8, <1>11
  <2>4. ASSUME NEW c \in D \ {b}, In(s.bufs, c) PROVE ~ (s.bufs[b].addr <= x /\ x < End(s.bufs[b]))
    <3>1. End(s.bufs[b]) <= s.bufs[c].addr \/ End(s.bufs[c]) <= s.bufs[b].addr
      BY <1>1 DEF Shape, BytesExact
    <3>2. /\ s.bufs[b].addr \in Nat /\ s.bufs[c].addr \in Nat
          /\ End(s.bufs[b]) \in Nat /\ End(s.bufs[c]) \in Nat
      BY <1>1, ShapeFacts
    <3> QED
      BY <3>1, <3>2, <2>1, <2>4
  <2>5. In(s.bufs, b) => s.bufs[b].addr <= x /\ x < End(s.bufs[b])
    OBVIOUS
  <2>6. (x \in EagerBytes(t.bufs) <=> \E c \in D : In(t.bufs, c)) /\ (x \in EagerBytes(s.bufs) <=> \E c \in D : In(s.bufs, c))
    BY <1>11 DEF EagerBytes
  <2> HIDE DEF In
  <2> QED
    BY <2>2, <2>3, <2>4, <2>5, <2>6, <1>1
<1>26. DOMAIN t.blocks = DOMAIN s.blocks /\ \A base \in DOMAIN s.blocks : t.blocks[base].size = s.blocks[base].size
  BY <1>10, <1>11
<1>27. 0 < s.bufs[b].addr /\ CountedRest(s) => CountedRest(t)
  <2> SUFFICES ASSUME 0 < s.bufs[b].addr, CountedRest(s) PROVE CountedRest(t)
    OBVIOUS
  <2>1. PICK k : k = blk
    OBVIOUS
  <2>2. /\ k = s.bufs[b].mem_block /\ border = UpdateBorderAddr(s.blocks[k], s.bufs[b])
        /\ t.blocks = [s.blocks EXCEPT ![k] = border] /\ buf.mem_block = k
    BY <2>1, <1>3, <1>6, <1>8
  <2>3. t.bufs = [s.bufs EXCEPT ![b] = buf] /\ t.addrs = s.addrs /\ t.stat = s.stat
    BY <1>6
  <2>4. /\ Shape(s.bufs, s.blocks) /\ AddrsExact(s, {}) /\ b \in DOMAIN s.bufs /\ s.bufs[b].status \in FreeStatus
        /\ buf.addr = s.bufs[b].addr /\ buf.size = s.bufs[b].size /\ buf.events = s.bufs[b].events
    BY <1>1, <1>8
  <2> HIDE DEF D, blk
  <2> QED
    BY <2>2, <2>3, <2>4, HandOutCounted
<1> QED
  BY <1>2, <1>5, <1>6, <1>8, <1>11, <1>23, <1>24, <1>25, <1>26, <1>27

\* Cutting a buffer leaves the eager-free bytes as they are.
LEMMA CutEager ==
  ASSUME NEW bufs, NEW blocks, Shape(bufs, blocks), NEW new, NEW b, NEW k, NEW at,
         Cut(bufs, new, b, k, at), LikeBufs(bufs, new, b, k)
  PROVE  EagerBytes(new) = EagerBytes(bufs)
<1> DEFINE In(m, c, x) == m[c].status = "EagerFree" /\ m[c].addr <= x /\ x < End(m[c])
<1>1. /\ b \in DOMAIN bufs /\ k \notin DOMAIN bufs /\ DOMAIN new = DOMAIN bufs \cup {k}
      /\ at \in Nat /\ bufs[b].addr < at /\ at < End(bufs[b])
      /\ new[b].addr = bufs[b].addr /\ new[b].size = at - bufs[b].addr
      /\ new[k].addr = at /\ new[k].size = End(bufs[b]) - at
      /\ \A c \in DOMAIN bufs \ {b} : new[c].addr = bufs[c].addr /\ new[c].size = bufs[c].size
  BY DEF Cut
<1>2. bufs[b].addr \in Nat /\ bufs[b].size \in Nat /\ End(bufs[b]) = bufs[b].addr + bufs[b].size
  BY <1>1, ShapeFacts
<1>3. End(new[b]) = at /\ End(new[k]) = End(bufs[b])
  BY <1>1, <1>2 DEF End
<1>4. (\A c \in DOMAIN bufs : new[c].status = bufs[c].status) /\ new[k].status = bufs[b].status
  BY DEF LikeBufs
<1>5. \A c \in DOMAIN bufs \ {b} : End(new[c]) = End(bufs[c])
  BY <1>1 DEF End
<1>6. ASSUME NEW x \in Bytes PROVE (\E c \in DOMAIN new : In(new, c, x)) <=> (\E c \in DOMAIN bufs : In(bufs, c, x))
  <2>1. x \in Nat
    BY BytesFinite
  <2>2. \A c \in DOMAIN bufs \ {b} : In(new, c, x) <=> In(bufs, c, x)
    BY <1>1, <1>4, <1>5
  <2>3. In(bufs, b, x) <=> In(new, b, x) \/ In(new, k, x)
    BY <2>1, <1>1, <1>2, <1>3, <1>4
  <2> HIDE DEF In
  <2> QED
    BY <2>2, <2>3, <1>1
<1> QED
  BY <1>6 DEF EagerBytes

\* The bytes of a buffer that is cut are those of its parts.
LEMMA CutSpans ==
  ASSUME NEW bufs, NEW blocks, Shape(bufs, blocks), NEW new, NEW b, NEW k, NEW at, Cut(bufs, new, b, k, at)
  PROVE  /\ \A c \in DOMAIN bufs \ {b} : Span(new[c]) = Span(bufs[c])
         /\ Span(bufs[b]) = Span(new[b]) \cup Span(new[k])
<1>1. /\ b \in DOMAIN bufs /\ at \in Nat /\ bufs[b].addr < at /\ at < End(bufs[b])
      /\ new[b].addr = bufs[b].addr /\ new[b].size = at - bufs[b].addr
      /\ new[k].addr = at /\ new[k].size = End(bufs[b]) - at
      /\ \A c \in DOMAIN bufs \ {b} : new[c].addr = bufs[c].addr /\ new[c].size = bufs[c].size
  BY DEF Cut
<1>2. bufs[b].addr \in Nat /\ bufs[b].size \in Nat /\ End(bufs[b]) = bufs[b].addr + bufs[b].size
  BY <1>1, ShapeFacts
<1>3. End(new[b]) = at /\ End(new[k]) = End(bufs[b])
  BY <1>1, <1>2 DEF End
<1>4. \A c \in DOMAIN bufs \ {b} : Span(new[c]) = Span(bufs[c])
  BY <1>1, SameSpan
<1>5. ASSUME NEW x \in Bytes
      PROVE  bufs[b].addr <= x /\ x < End(bufs[b]) <=>
               \/ new[b].addr <= x /\ x < End(new[b])
               \/ new[k].addr <= x /\ x < End(new[k])
  <2>1. x \in Nat
    BY BytesFinite
  <2> QED
    BY <2>1, <1>1, <1>2, <1>3
<1> QED
  BY <1>4, <1>5 DEF Span

\* Cutting gives no byte an event, and the parts lie in what was cut.
LEMMA CutBytes ==
  ASSUME NEW s, NEW t, Shape(s.bufs, s.blocks), NEW b, NEW k, NEW at,
         Cut(s.bufs, t.bufs, b, k, at), LikeBufs(s.bufs, t.bufs, b, k)
  PROVE  EventBytes(t.bufs) \subseteq EventBytes(s.bufs) /\ Within(s, t)
<1>1. /\ b \in DOMAIN s.bufs /\ k \notin DOMAIN s.bufs /\ DOMAIN t.bufs = DOMAIN s.bufs \cup {k}
      /\ at \in Nat /\ s.bufs[b].addr < at /\ at < End(s.bufs[b])
      /\ t.bufs[b].addr = s.bufs[b].addr /\ t.bufs[b].size = at - s.bufs[b].addr
      /\ t.bufs[k].addr = at /\ t.bufs[k].size = End(s.bufs[b]) - at
      /\ t.bufs[b].mem_block = s.bufs[b].mem_block /\ t.bufs[k].mem_block = s.bufs[b].mem_block
      /\ \A c \in DOMAIN s.bufs \ {b} : /\ t.bufs[c].addr = s.bufs[c].addr /\ t.bufs[c].size = s.bufs[c].size
                                        /\ t.bufs[c].mem_block = s.bufs[c].mem_block
  BY DEF Cut
<1>2. s.bufs[b].addr \in Nat /\ End(s.bufs[b]) \in Nat
  BY <1>1, ShapeFacts
<1>3. End(t.bufs[b]) = at /\ End(t.bufs[k]) = End(s.bufs[b])
  BY <1>1, <1>2 DEF End
<1>4. /\ \A c \in DOMAIN s.bufs : t.bufs[c].status = s.bufs[c].status /\ t.bufs[c].events = s.bufs[c].events
      /\ t.bufs[k].status = s.bufs[b].status /\ t.bufs[k].events = NoEvents
  BY DEF LikeBufs
<1>5. EventBytes(t.bufs) \subseteq EventBytes(s.bufs)
  <2>1. ASSUME NEW c \in DOMAIN t.bufs, t.bufs[c].events # NoEvents
        PROVE  c \in DOMAIN s.bufs /\ s.bufs[c].events # NoEvents /\ Span(t.bufs[c]) \subseteq Span(s.bufs[c])
    <3>1. c \in DOMAIN s.bufs /\ s.bufs[c].events # NoEvents
      BY <2>1, <1>1, <1>4
    <3> QED
      BY <3>1, CutSpans
  <2> QED
    BY <2>1 DEF EventBytes
<1>6. Within(s, t)
  <2>1. ASSUME NEW c \in DOMAIN t.bufs, t.bufs[c].status \notin FreeStatus
        PROVE  \E d \in DOMAIN s.bufs : /\ s.bufs[d].status \notin FreeStatus
                                        /\ s.bufs[d].mem_block = t.bufs[c].mem_block
                                        /\ s.bufs[d].addr <= t.bufs[c].addr /\ End(t.bufs[c]) <= End(s.bufs[d])
    <3>1. CASE c \in {b, k}
      BY <3>1, <2>1, <1>1, <1>2, <1>3, <1>4
    <3>2. CASE c \in DOMAIN s.bufs \ {b}
      <4>1. End(t.bufs[c]) = End(s.bufs[c])
        BY <3>2, <1>1 DEF End
      <4>2. s.bufs[c].addr \in Nat /\ End(s.bufs[c]) \in Nat
        BY <3>2, ShapeFacts
      <4> QED
        BY <4>1, <4>2, <3>2, <2>1, <1>1, <1>4
    <3> QED
      BY <3>1, <3>2, <1>1
  <2> QED
    BY <2>1 DEF Within
<1> QED
  BY <1>5, <1>6

\* The adapter has reserved the pages of a buffer.
LEMMA PagesReserved ==
  ASSUME NEW s, Shape(s.bufs, s.blocks), Paged(s), EnableVmm, NEW b \in DOMAIN s.bufs,
         NEW addr, addr = s.bufs[b].addr, NEW len \in Nat \ {0}, len <= s.bufs[b].size
  PROVE  PageOf(addr) .. PageOf(addr + len - 1) \subseteq DOMAIN s.vmm.map
<1>1. PICK base : base = s.bufs[b].mem_block
  OBVIOUS
<1>2. /\ base \in DOMAIN s.blocks /\ base <= addr /\ addr \in Nat /\ s.bufs[b].size \in Nat
      /\ addr + s.bufs[b].size <= base + s.blocks[base].size
  BY <1>1, ShapeFacts
<1>3. AdapterOK(s.vmm) /\ PagesExact(s.vmm, s.bufs, base, s.blocks[base].size)
  BY <1>2 DEF Paged
<1>4. PICK i \in DOMAIN s.vmm.map, j \in DOMAIN s.vmm.map :
        base = i * PageSize /\ base + s.blocks[base].size = j * PageSize + PageSize
  BY <1>3 DEF PagesExact
<1>5. PICK n \in Nat : DOMAIN s.vmm.map = 0 .. n - 1
  BY <1>3 DEF AdapterOK
<1>6. i \in Nat /\ j \in Nat /\ j <= n - 1
  BY <1>4, <1>5
<1>7. PICK last \in Nat : last = addr + len - 1 /\ last < base + s.blocks[base].size
  <2>1. PICK e \in Nat : e = base + s.blocks[base].size
    BY <1>4, <1>6, PageOrder, VmmAssumption
  <2>2. addr + len - 1 \in Nat /\ addr + len - 1 < e
    BY <2>1, <1>2
  <2> QED
    BY <2>1, <2>2
<1>8. PICK q \in Nat : q = PageOf(addr) /\ q * PageSize <= addr /\ addr < q * PageSize + PageSize
  BY <1>2, PageFacts
<1>9. PICK r \in Nat : r = PageOf(last) /\ r * PageSize <= last /\ last < r * PageSize + PageSize
  BY <1>7, PageFacts
<1>10. i * PageSize \in Nat /\ q * PageSize \in Nat /\ r * PageSize \in Nat /\ j * PageSize \in Nat /\ PageSize \in Nat
  BY <1>6, PageOrder, VmmAssumption
<1>11. ~ (j < r)
  <2>1. j < r => j * PageSize + PageSize <= r * PageSize
    BY <1>6, PageOrder
  <2> QED
    BY <2>1, <1>4, <1>7, <1>9, <1>10
<1> QED
  BY <1>5, <1>6, <1>7, <1>8, <1>9, <1>11

\* Handing out a range of free bytes whose pages have been given handles.
LEMMA HandedPages ==
  ASSUME NEW s, Paged(s), NEW t, AdapterOK(t.vmm), DOMAIN t.vmm.map = DOMAIN s.vmm.map,
         DOMAIN t.blocks = DOMAIN s.blocks,
         \A base \in DOMAIN s.blocks : t.blocks[base].size = s.blocks[base].size,
         NEW addr \in Nat, NEW len \in Nat \ {0},
         \A x \in Bytes : x \in EagerBytes(t.bufs) <=> x \in EagerBytes(s.bufs) /\ ~ (addr <= x /\ x < addr + len),
         \/ MappedPages(t.vmm) = MappedPages(s.vmm) \cup PageOf(addr) .. PageOf(addr + len - 1)
         \/ /\ MappedPages(t.vmm) = MappedPages(s.vmm)
            /\ \A x \in EagerBytes(s.bufs) : ~ (addr <= x /\ x < addr + len)
  PROVE  Paged(t)
<1> DEFINE E == EagerBytes(s.bufs)
           F == EagerBytes(t.bufs)
<1>1. E \subseteq Bytes /\ F \subseteq Bytes
  BY DEF EagerBytes
<1>2. ~ EnableVmm => F = {}
  BY <1>1 DEF Paged
<1>3. ASSUME NEW p \in Nat, p \in MappedPages(s.vmm) <=> ~ (PageBytes(p) \subseteq E)
      PROVE  p \in MappedPages(t.vmm) <=> ~ (PageBytes(p) \subseteq F)
  <2>1. CASE \E x \in PageBytes(p) : addr <= x /\ x < addr + len
    <3>1. PICK x \in PageBytes(p) : addr <= x /\ x < addr + len
      BY <2>1
    <3>2. x \in Nat /\ PageOf(x) = p
      BY PageUnique
    <3>3. x \notin F
      BY <3>1, <1>1
    <3>4. p \in PageOf(addr) .. PageOf(addr + len - 1)
      <4>1. PICK last \in Nat : last = addr + len - 1 /\ x <= last
        BY <3>1, <3>2
      <4>2. PICK q \in Nat : q = PageOf(addr) /\ q * PageSize <= addr /\ addr < q * PageSize + PageSize
        BY PageFacts
      <4>3. PICK r \in Nat : r = PageOf(last) /\ r * PageSize <= last /\ last < r * PageSize + PageSize
        BY <4>1, PageFacts
      <4>4. p * PageSize <= x /\ x < p * PageSize + PageSize
        BY <3>2, PageFacts
      <4>5. p * PageSize \in Nat /\ q * PageSize \in Nat /\ r * PageSize \in Nat /\ PageSize \in Nat
        BY PageOrder, VmmAssumption
      <4>6. p < q => p * PageSize + PageSize <= q * PageSize
        BY PageOrder
      <4>7. r < p => r * PageSize + PageSize <= p * PageSize
        BY PageOrder
      <4>8. q <= p
        BY <4>2, <4>4, <4>5, <4>6, <3>1, <3>2
      <4>9. p <= r
        BY <4>1, <4>3, <4>4, <4>5, <4>7, <3>2
      <4> QED
        BY <4>1, <4>2, <4>3, <4>8, <4>9
    <3>5. p \in MappedPages(t.vmm)
      <4>1. CASE MappedPages(t.vmm) = MappedPages(s.vmm) \cup PageOf(addr) .. PageOf(addr + len - 1)
        BY <4>1, <3>4
      <4>2. CASE MappedPages(t.vmm) = MappedPages(s.vmm) /\ \A y \in E : ~ (addr <= y /\ y < addr + len)
        BY <4>2, <3>1, <1>3
      <4> QED
        BY <4>1, <4>2
    <3> QED
      BY <3>3, <3>5
  <2>2. CASE \A x \in PageBytes(p) : ~ (addr <= x /\ x < addr + len)
    <3>1. p \notin PageOf(addr) .. PageOf(addr + len - 1)
      <4>1. PICK last \in Nat : last = addr + len - 1
        OBVIOUS
      <4>2. PICK q \in Nat : q = PageOf(addr) /\ q * PageSize <= addr /\ addr < q * PageSize + PageSize
        BY PageFacts
      <4>3. PICK r \in Nat : r = PageOf(last) /\ r * PageSize <= last /\ last < r * PageSize + PageSize
        BY <4>1, PageFacts
      <4>4. ASSUME q <= p, p <= r PROVE FALSE
        <5>1. CASE q = p
          <6>1. addr \in PageBytes(p)
            BY <5>1, <4>2, PageFacts
          <6> QED
            BY <6>1, <2>2
        <5>2. CASE q < p
          <6>1. q * PageSize + PageSize <= p * PageSize /\ p * PageSize \in Nat /\ q * PageSize \in Nat /\ PageSize \in Nat \ {0}
            BY <5>2, PageOrder, VmmAssumption
          <6>2. p * PageSize <= r * PageSize /\ r * PageSize \in Nat
            BY <4>4, PageOrder
          <6>3. PICK y : y = p * PageSize
            OBVIOUS
          <6>4. y \in PageBytes(p)
            BY <6>1, <6>3 DEF PageBytes
          <6>5. addr <= y /\ y < addr + len
            BY <6>1, <6>2, <6>3, <4>1, <4>2, <4>3
          <6> QED
            BY <6>4, <6>5, <2>2
        <5> QED
          BY <5>1, <5>2, <4>2, <4>4
      <4> QED
        BY <4>1, <4>2, <4>3, <4>4
    <3>2. p \in MappedPages(t.vmm) <=> p \in MappedPages(s.vmm)
      BY <3>1
    <3>3. PageBytes(p) \subseteq F <=> PageBytes(p) \subseteq E
      BY <2>2, <1>1
    <3> QED
      BY <3>2, <3>3, <1>3
  <2> QED
    BY <2>1, <2>2
<1>4. ASSUME EnableVmm, NEW base \in DOMAIN t.blocks PROVE PagesExact(t.vmm, t.bufs, base, t.blocks[base].size)
  <2>1. PagesExact(s.vmm, s.bufs, base, s.blocks[base].size) /\ AdapterOK(s.vmm)
    BY <1>4 DEF Paged
  <2>2. PICK i \in DOMAIN s.vmm.map, j \in DOMAIN s.vmm.map :
          /\ base = i * PageSize /\ base + s.blocks[base].size = j * PageSize + PageSize
          /\ \A p \in i .. j : p \in MappedPages(s.vmm) <=> ~ (PageBytes(p) \subseteq E)
    BY <2>1 DEF PagesExact
  <2>3. i \in Nat /\ j \in Nat
    BY <2>1, AdapterFacts
  <2>4. \A p \in i .. j : p \in MappedPages(t.vmm) <=> ~ (PageBytes(p) \subseteq F)
    BY <2>2, <2>3, <1>3
  <2>5. t.blocks[base].size = s.blocks[base].size /\ i \in DOMAIN t.vmm.map /\ j \in DOMAIN t.vmm.map
    BY <2>2, <1>4
  <2> QED
    BY <2>2, <2>4, <2>5 DEF PagesExact
<1> QED
  BY <1>2, <1>4 DEF Paged

\* The remainder of a split is chained behind the buffer.
LEMMA SplitBehind ==
  ASSUME NEW bufs, NEW blocks, Shape(bufs, blocks), NEW b \in DOMAIN bufs, NEW size \in Nat,
         NEW k \in BufIds \ DOMAIN bufs, NEW at, at = bufs[b].addr + size, NEW len,
         NEW tail, tail = MemBuf(len, at, bufs[b].stream_id, bufs[b].mem_block, bufs[b].status),
         NEW new, new = Link([Put(bufs, k, tail) EXCEPT ![b].size = size], k, b, bufs[b].next)
  PROVE  Behind(bufs, new, b, k, at, len)
<1> DEFINE D == DOMAIN bufs
           n == bufs[b].next
           put == [Put(bufs, k, tail) EXCEPT ![b].size = size]
<1>1. k \notin D /\ b \in D /\ k # b /\ k # NoBuf /\ b # NoBuf
  BY BytesFinite, ShapeFacts DEF NoBuf
<1>2. n # NoBuf => n \in D /\ n # b
  BY NextFacts
<1>3. n # k
  BY <1>1, <1>2
<1>4. size = at - bufs[b].addr
  BY ShapeFacts
<1>5. /\ DOMAIN put = D \cup {k} /\ put[k] = tail /\ put[b] = [bufs[b] EXCEPT !.size = size]
      /\ \A c \in D \ {b} : put[c] = bufs[c]
  BY <1>1 DEF Put
<1> HIDE DEF put
<1>6. /\ DOMAIN new = D \cup {k}
      /\ new[k] = [tail EXCEPT !.prev = b, !.next = IF n = NoBuf THEN @ ELSE n]
      /\ new[b] = [put[b] EXCEPT !.next = k]
      /\ n # NoBuf => new[n] = [bufs[n] EXCEPT !.prev = k]
      /\ \A c \in D \ {b, n} : new[c] = bufs[c]
  BY <1>1, <1>2, <1>3, <1>5 DEF Link, put
<1>7. new[k] = [tail EXCEPT !.prev = b, !.next = n]
  <2>1. tail.next = NoBuf
    BY DEF MemBuf
  <2> QED
    BY <2>1, <1>6
<1>8. new[b] = [bufs[b] EXCEPT !.size = at - bufs[b].addr, !.next = k]
  BY <1>4, <1>5, <1>6
<1> QED
  BY <1>6, <1>7, <1>8 DEF Behind

\* Cutting a free buffer that is in no list, and listing the remainder.
LEMMA SplitOK ==
  ASSUME NEW s, NEW a, NEW b, Nearly(s, {b}, {}), b \in DOMAIN s.bufs, s.bufs[b].status \in FreeStatus,
         a \in Allocators, Owner(s, b) = a, NEW size \in Nat \ {0}, size <= s.bufs[b].size,
         NEW t, t = Split(s, a, b, size)
  PROVE  /\ Open(t, a, b) /\ Unhurt(s, t, {})
         /\ size <= t.bufs[b].size /\ t.bufs[b].size < size + AlignSize
         /\ t.vmm = s.vmm /\ t.blocks = s.blocks /\ EagerBytes(t.bufs) = EagerBytes(s.bufs)
         /\ t.bufs[b].addr = s.bufs[b].addr /\ t.bufs[b].status = s.bufs[b].status
         /\ t.bufs[b].size = IF s.bufs[b].size - size >= AlignSize THEN size ELSE s.bufs[b].size
         /\ t.stat = s.stat /\ t.addrs = s.addrs /\ (CountedRest(s) => CountedRest(t))
<1> DEFINE D == DOMAIN s.bufs
<1>1. /\ Pooled(s) /\ Merged(s.bufs) /\ QuietFree(s.bufs) /\ ListsExact(s, {b}) /\ AddrsExact(s, {})
      /\ Deferred(s.bufs, {}) /\ Waiting(s) /\ Fields \subseteq DOMAIN s /\ Shape(s.bufs, s.blocks)
      /\ s.lists \in [Allocators -> [FreeStatus -> SUBSET Nat]]
  BY DEF Nearly, Calm, Pooled
<1>2. /\ s.bufs[b].addr \in Nat /\ s.bufs[b].size \in Nat /\ AlignSize \in Nat \ {0} /\ size \in Nat
      /\ End(s.bufs[b]) = s.bufs[b].addr + s.bufs[b].size /\ s.bufs[b] \in BufType
  BY <1>1, ShapeFacts, PoolAssumption
<1>3. CASE s.bufs[b].size - size < AlignSize
  <2>1. t = s
    BY <1>3 DEF Split
  <2>2. Open(s, a, b)
    BY <1>1 DEF Open, Merged
  <2> QED
    BY <2>1, <2>2, <1>2, <1>3 DEF Unhurt, SameBuf
<1>4. CASE ~ (s.bufs[b].size - size < AlignSize)
  <2>1. PICK st \in FreeStatus : st = s.bufs[b].status
    OBVIOUS
  <2>2. PICK at \in Nat : at = s.bufs[b].addr + size
    BY <1>2
  <2>3. s.bufs[b].addr < at /\ at < End(s.bufs[b]) /\ End(s.bufs[b]) - at = s.bufs[b].size - size
    BY <2>2, <1>2, <1>4
  <2>4. at \in Bytes /\ \A c \in D : s.bufs[c].addr # at
    BY <2>3, <1>1, InsideFree
  <2>5. PICK k : k = NewId(s)
    OBVIOUS
  <2>6. k \in BufIds \ D /\ k \in Nat
    <3>1. k \in BufIds \ D
      BY <2>4, <2>5, <1>1, NewIdOK
    <3> QED
      BY <3>1, BytesFinite
  <2>7. PICK len : len = s.bufs[b].size - size
    OBVIOUS
  <2>8. PICK tail : tail = MemBuf(len, at, s.bufs[b].stream_id, s.bufs[b].mem_block, s.bufs[b].status)
    OBVIOUS
  <2>9. PICK new : new = Link([Put(s.bufs, k, tail) EXCEPT ![b].size = size], k, b, s.bufs[b].next)
    OBVIOUS
  <2>10. t = [s EXCEPT !.bufs = new, !.lists[a][st] = @ \cup {k}]
    BY <2>1, <2>2, <2>5, <2>7, <2>8, <2>9, <1>4 DEF Split
  <2>11. /\ t.bufs = new /\ t.lists = [s.lists EXCEPT ![a][st] = @ \cup {k}] /\ t.blocks = s.blocks
         /\ t.addrs = s.addrs /\ t.pairs = s.pairs /\ t.inuse = s.inuse /\ Fields \subseteq DOMAIN t
         /\ t.vmm = s.vmm /\ t.stat = s.stat
    BY <2>10, <1>1 DEF Fields
  <2>12. Behind(s.bufs, new, b, k, at, len)
    BY <2>2, <2>6, <2>8, <2>9, <1>1, SplitBehind
  <2>13. Cut(s.bufs, new, b, k, at) /\ LikeBufs(s.bufs, new, b, k)
    BY <2>3, <2>6, <2>7, <2>12, <1>1, BehindCut
  <2>14. Shape(new, s.blocks)
    BY <2>13, <1>1, CutShape
  <2>15. /\ DOMAIN new = D \cup {k} /\ new[b].size = size /\ new[b].next = k
         /\ new[k].next = s.bufs[b].next /\ new[k].mem_block = s.bufs[b].mem_block
         /\ \A c \in D : new[c].mem_block = s.bufs[c].mem_block /\ new[c].addr = s.bufs[c].addr
         /\ \A c \in D \ {b} : new[c].next = s.bufs[c].next /\ new[c].size = s.bufs[c].size
    BY <2>2, <2>13, <1>2 DEF Cut
  <2>16. /\ \A c \in D : /\ new[c].status = s.bufs[c].status /\ new[c].events = s.bufs[c].events
                         /\ new[c].stream_id = s.bufs[c].stream_id
         /\ new[k].status = st /\ new[k].events = NoEvents
    BY <2>1, <2>13 DEF LikeBufs
  <2>17. Owner(t, k) = a /\ \A c \in D : Owner(t, c) = Owner(s, c)
    BY <2>11, <2>15 DEF Owner
  <2>18. Pooled(t)
    <3>1. t.lists \in [Allocators -> [FreeStatus -> SUBSET Nat]]
      BY <2>6, <2>11, <1>1
    <3> QED
      BY <3>1, <2>11, <2>14 DEF Pooled
  <2>19. QuietFree(t.bufs) /\ Deferred(t.bufs, {})
    <3>1. "UsedByEvent" \notin FreeStatus
      BY DEF FreeStatus
    <3> QED
      BY <3>1, <2>1, <2>11, <2>15, <2>16, <1>1 DEF QuietFree, Deferred
  <2>20. ASSUME NEW c \in DOMAIN t.bufs \ {b} PROVE Apart(t.bufs, c)
    <3>1. CASE c = k
      <4>1. Apart(s.bufs, b) /\ (s.bufs[b].next # NoBuf => s.bufs[b].next \in D)
        BY <1>1, NextFacts DEF Merged
      <4> QED
        BY <4>1, <3>1, <2>1, <2>11, <2>15, <2>16 DEF Apart
    <3>2. CASE c # k
      <4>1. c \in D \ {b}
        BY <3>2, <2>11, <2>15, <2>20
      <4>2. Apart(s.bufs, c) /\ (s.bufs[c].next # NoBuf => s.bufs[c].next \in D)
        BY <4>1, <1>1, NextFacts DEF Merged
      <4> QED
        BY <4>1, <4>2, <2>11, <2>15, <2>16 DEF Apart
    <3> QED
      BY <3>1, <3>2
  <2>21. ListsExact(t, {b})
    <3>1. ASSUME NEW x \in Allocators, NEW y \in FreeStatus
          PROVE  t.lists[x][y] = Listed(t, DOMAIN t.bufs \ {b}, x, y)
      <4>1. s.lists[x][y] = Listed(s, D \ {b}, x, y)
        BY <1>1 DEF ListsExact
      <4>2. CASE x = a /\ y = st
        <5>1. t.lists[x][y] = s.lists[x][y] \cup {k}
          BY <4>2, <2>11, <1>1
        <5>2. Listed(t, DOMAIN t.bufs \ {b}, x, y) = Listed(s, D \ {b}, x, y) \cup {k}
          BY <4>2, <2>6, <2>11, <2>15, <2>16, <2>17 DEF Listed
        <5> QED
          BY <5>1, <5>2, <4>1
      <4>3. CASE ~ (x = a /\ y = st)
        <5>1. t.lists[x][y] = s.lists[x][y]
          BY <4>3, <2>11, <1>1
        <5>2. Listed(t, DOMAIN t.bufs \ {b}, x, y) = Listed(s, D \ {b}, x, y)
          BY <4>3, <2>6, <2>11, <2>15, <2>16, <2>17 DEF Listed
        <5> QED
          BY <5>1, <5>2, <4>1
      <4> QED
        BY <4>2, <4>3
    <3> QED
      BY <3>1 DEF ListsExact
  <2>22. AddrsExact(t, {})
    <3>1. \A c \in D : /\ t.bufs[c].addr = s.bufs[c].addr /\ t.bufs[c].status = s.bufs[c].status
                      /\ Owner(t, c) = Owner(s, c)
      BY <2>11, <2>15, <2>16, <2>17
    <3>2. D \subseteq DOMAIN t.bufs /\ \A c \in DOMAIN t.bufs \ D : t.bufs[c].status \in FreeStatus
      BY <2>1, <2>11, <2>15, <2>16
    <3> QED
      BY <3>1, <3>2, <2>11, <1>1, GrownAddrs
  <2>23. Waiting(t)
    <3>1. s.bufs[b].events = NoEvents
      BY <1>1 DEF QuietFree
    <3>2. EventsKept(s.bufs, t.bufs)
      BY <3>1, <2>11, <2>15, <2>16 DEF EventsKept
    <3> QED
      BY <3>2, <2>11, <1>1, EventsKeptOK
  <2>24. Open(t, a, b)
    BY <2>11, <2>15, <2>16, <2>17, <2>18, <2>19, <2>20, <2>21, <2>22, <2>23 DEF Open
  <2>25. Unhurt(s, t, {})
    <3>1. "Used" \notin FreeStatus
      BY DEF FreeStatus
    <3> QED
      BY <3>1, <2>11, <2>15, <2>16 DEF Unhurt, SameBuf
  <2>26. EagerBytes(t.bufs) = EagerBytes(s.bufs)
    BY <2>11, <2>13, <1>1, CutEager
  <2>27. size <= t.bufs[b].size /\ t.bufs[b].size < size + AlignSize
    BY <2>11, <2>15, <1>2
  <2>28. /\ t.bufs[b].addr = s.bufs[b].addr /\ t.bufs[b].status = s.bufs[b].status
         /\ t.bufs[b].size = IF s.bufs[b].size - size >= AlignSize THEN size ELSE s.bufs[b].size
    BY <2>11, <2>15, <2>16, <1>2, <1>4
  <2>29. CountedRest(s) => CountedRest(t)
    <3>1. Cut(s.bufs, t.bufs, b, k, at) /\ LikeBufs(s.bufs, t.bufs, b, k) /\ Shape(t.bufs, t.blocks)
      BY <2>11, <2>13, <2>14
    <3>2. UsedBytes(t) = UsedBytes(s)
      <4>1. \A addr \in DOMAIN s.addrs : s.addrs[addr].buf \in D \ {b}
        BY <1>1 DEF AddrsExact
      <4>2. \A c \in D \ {b} : Span(t.bufs[c]) = Span(s.bufs[c])
        BY <3>1, <1>1, CutSpans
      <4> QED
        BY <4>1, <4>2, <2>11, SameUsed
    <3>3. EventBytes(t.bufs) \subseteq EventBytes(s.bufs) /\ Within(s, t)
      BY <3>1, <1>1, CutBytes
    <3>4. t.stat = s.stat /\ t.blocks = s.blocks
      BY <2>11
    <3> QED
      BY <3>1, <3>2, <3>3, <3>4, <1>1, StillRest
  <2> QED
    BY <2>11, <2>24, <2>25, <2>26, <2>27, <2>28, <2>29
<1> QED
  BY <1>3, <1>4

\* A free buffer that is in no list is listed again.
LEMMA RelistOK ==
  ASSUME NEW t, NEW a, NEW b, Nearly(t, {b}, {}), Paged(t), b \in DOMAIN t.bufs, a \in Allocators, Owner(t, b) = a,
         NEW st \in FreeStatus, t.bufs[b].status = st,
         NEW z, z = [t EXCEPT !.lists[a][st] = @ \cup {b}]
  PROVE  Good(z) /\ Unhurt(t, z, {})
<1>1. /\ Pooled(t) /\ ListsExact(t, {b}) /\ Calm(t) /\ Merged(t.bufs) /\ QuietFree(t.bufs)
      /\ AddrsExact(t, {}) /\ Deferred(t.bufs, {}) /\ Waiting(t)
      /\ t.lists \in [Allocators -> [FreeStatus -> SUBSET Nat]] /\ Fields \subseteq DOMAIN t
  BY DEF Nearly, Calm, Pooled
<1>2. /\ z.bufs = t.bufs /\ z.lists = [t.lists EXCEPT ![a][st] = @ \cup {b}] /\ z.blocks = t.blocks
      /\ z.addrs = t.addrs /\ z.pairs = t.pairs /\ z.inuse = t.inuse /\ Fields \subseteq DOMAIN z
      /\ z.vmm = t.vmm
  BY <1>1 DEF Fields
<1>3. b \in Nat
  BY <1>1, ShapeFacts DEF Pooled
<1>4. ListsExact(z, {})
  <2>1. ASSUME NEW x \in Allocators, NEW y \in FreeStatus
        PROVE  z.lists[x][y] = Listed(z, DOMAIN z.bufs \ {}, x, y)
    <3>1. t.lists[x][y] = Listed(t, DOMAIN t.bufs \ {b}, x, y)
      BY <1>1 DEF ListsExact
    <3>2. CASE x = a /\ y = st
      <4>1. z.lists[x][y] = t.lists[x][y] \cup {b}
        BY <3>2, <1>1, <1>2
      <4> QED
        BY <4>1, <3>1, <3>2, <1>2 DEF Listed, Owner
    <3>3. CASE ~ (x = a /\ y = st)
      <4>1. z.lists[x][y] = t.lists[x][y]
        BY <3>3, <1>1, <1>2
      <4> QED
        BY <4>1, <3>1, <3>3, <1>2 DEF Listed, Owner
    <3> QED
      BY <3>2, <3>3
  <2> QED
    BY <2>1 DEF ListsExact
<1>5. Pooled(z)
  <2>1. z.lists \in [Allocators -> [FreeStatus -> SUBSET Nat]]
    BY <1>1, <1>2, <1>3
  <2> QED
    BY <2>1, <1>1, <1>2 DEF Pooled
<1>6. AddrsExact(z, {})
  BY <1>1, <1>2, SameAddrs
<1>7. Waiting(z)
  <2>1. Waiting(t) /\ z.bufs = t.bufs /\ z.pairs = t.pairs /\ z.inuse = t.inuse
    BY <1>1, <1>2
  <2> QED
    BY <2>1, SameWaiting
<1>9. Paged(z)
  <2>1. EagerKept(t.bufs, z.bufs)
    BY <1>2 DEF EagerKept
  <2>2. Paged(t) /\ z.vmm = t.vmm /\ z.blocks = t.blocks
    BY <1>2
  <2> QED
    BY <2>1, <2>2, SamePages
<1>8. Good(z)
  BY <1>1, <1>2, <1>4, <1>5, <1>6, <1>7, <1>9 DEF Good, Kept, Calm
<1> QED
  BY <1>2, <1>8 DEF Unhurt, SameBuf

\* t has the blocks of s with their owners, new ones only for allocators in A, no
\* address that s has not, and statistics that are right if those of s are.
GrownFor(s, t, A) ==
  /\ \A c \in DOMAIN s.blocks : c \in DOMAIN t.blocks /\ t.blocks[c].owner = s.blocks[c].owner
  /\ \A c \in DOMAIN t.blocks \ DOMAIN s.blocks : t.blocks[c].owner \in A
  /\ DOMAIN t.addrs \subseteq DOMAIN s.addrs
  /\ Counted(s) => Counted(t)

LEMMA GrownTwice ==
  ASSUME NEW s, NEW t, NEW u, NEW A, GrownFor(s, t, A), GrownFor(t, u, A)
  PROVE  GrownFor(s, u, A)
BY DEF GrownFor

LEMMA SealedGrown ==
  ASSUME NEW s, NEW t, NEW A, Sealed(s, t)
  PROVE  GrownFor(s, t, A)
BY DEF GrownFor, Sealed, Settled

LEMMA GrownMore ==
  ASSUME NEW s, NEW t, NEW A, NEW B, GrownFor(s, t, A), A \subseteq B
  PROVE  GrownFor(s, t, B)
BY DEF GrownFor

\* The idle buffers of every allocator but a are those of s.
OthersIdle(s, t, a) ==
  \A o \in Allocators \ {a} :
    /\ t.lists[o]["Idle"] = s.lists[o]["Idle"]
    /\ \A c \in s.lists[o]["Idle"] : t.bufs[c].size = s.bufs[c].size

\* The allocators without an idle buffer that is large enough.
Tight(s, size) == {a \in Allocators : \A b \in s.lists[a]["Idle"] : s.bufs[b].size < size}

\* Another allocator is as tight as it was.
LEMMA StillTight ==
  ASSUME NEW s, NEW t, NEW a, NEW size, OthersIdle(s, t, a), NEW o \in Tight(t, size), o # a
  PROVE  o \in Tight(s, size)
BY DEF OthersIdle, Tight

\* What an allocation routine makes of s.
Answered(s, r, size) ==
  /\ Unhurt(s, r.s, {})
  /\ r.buf = NoBuf => Good(r.s)
  /\ r.buf # NoBuf => Handed(r, size) /\ Paged(r.s)

\* The page of a byte of a block.
LEMMA PageOfByte ==
  ASSUME EnableVmm, NEW s, Paged(s), NEW base \in DOMAIN s.blocks, base \in Nat, s.blocks[base].size \in Nat,
         NEW x \in Nat, base <= x, x < base + s.blocks[base].size
  PROVE  /\ PageOf(x) \in MappedPages(s.vmm) <=> ~ (PageBytes(PageOf(x)) \subseteq EagerBytes(s.bufs))
         /\ PageBytes(PageOf(x)) \subseteq base .. base + s.blocks[base].size - 1
<1>1. AdapterOK(s.vmm) /\ PagesExact(s.vmm, s.bufs, base, s.blocks[base].size)
  BY DEF Paged
<1>2. PICK i \in DOMAIN s.vmm.map, j \in DOMAIN s.vmm.map :
        /\ base = i * PageSize /\ base + s.blocks[base].size = j * PageSize + PageSize
        /\ \A p \in i .. j : p \in MappedPages(s.vmm) <=> ~ (PageBytes(p) \subseteq EagerBytes(s.bufs))
  BY <1>1 DEF PagesExact
<1>3. i \in Nat /\ j \in Nat /\ PageSize \in Nat \ {0}
  BY <1>1, AdapterFacts, VmmAssumption
<1>4. PICK p \in Nat : p = PageOf(x) /\ p * PageSize <= x /\ x < p * PageSize + PageSize
  BY PageFacts
<1>5. PICK bi, bp, bj \in Nat : bi = i * PageSize /\ bp = p * PageSize /\ bj = j * PageSize
  BY <1>3, PageOrder
<1>6. i <= p
  <2>1. p < i => bp + PageSize <= bi
    BY <1>3, <1>5, PageOrder
  <2> QED
    BY <2>1, <1>2, <1>3, <1>4, <1>5
<1>7. p <= j
  <2>1. j < p => bj + PageSize <= bp
    BY <1>3, <1>5, PageOrder
  <2> QED
    BY <2>1, <1>2, <1>3, <1>4, <1>5
<1>8. bi <= bp /\ bp <= bj
  BY <1>3, <1>5, <1>6, <1>7, PageOrder
<1>9. PageBytes(p) \subseteq base .. base + s.blocks[base].size - 1
  <2>1. PageBytes(p) = bp .. bp + PageSize - 1 /\ base = bi /\ base + s.blocks[base].size = bj + PageSize
    BY <1>2, <1>5 DEF PageBytes
  <2> QED
    BY <2>1, <1>3, <1>8
<1>10. p \in i .. j
  BY <1>3, <1>6, <1>7
<1> QED
  BY <1>2, <1>4, <1>9, <1>10

\* A byte of a buffer that is not eager-free is on a page with a handle.
LEMMA BackedByte ==
  ASSUME EnableVmm, NEW s, Shape(s.bufs, s.blocks), Paged(s), NEW b \in DOMAIN s.bufs, s.bufs[b].status # "EagerFree",
         NEW x \in BytesOf(s.bufs[b])
  PROVE  PageOf(x) \in MappedPages(s.vmm)
<1>1. /\ s.bufs[b].addr \in Nat /\ s.bufs[b].size \in Nat /\ End(s.bufs[b]) = s.bufs[b].addr + s.bufs[b].size
  BY ShapeFacts
<1>2. x \in Nat /\ s.bufs[b].addr <= x /\ x < End(s.bufs[b])
  BY <1>1 DEF BytesOf
<1>3. PICK m : m = s.bufs[b].mem_block
  OBVIOUS
<1>4. m \in DOMAIN s.blocks /\ m \in Nat /\ m <= s.bufs[b].addr /\ End(s.bufs[b]) <= m + s.blocks[m].size
  BY <1>3, ShapeFacts
<1>5. s.blocks[m].size \in Nat
  BY <1>4 DEF Shape, BlocksOK, BlockOK
<1>6. m <= x /\ x < m + s.blocks[m].size
  BY <1>1, <1>2, <1>4, <1>5
<1>7. x \notin EagerBytes(s.bufs)
  <2>1. SUFFICES ASSUME NEW c \in DOMAIN s.bufs, s.bufs[c].status = "EagerFree",
                        s.bufs[c].addr <= x, x < End(s.bufs[c])
                 PROVE  FALSE
    BY DEF EagerBytes
  <2>2. End(s.bufs[b]) <= s.bufs[c].addr \/ End(s.bufs[c]) <= s.bufs[b].addr
    BY <2>1 DEF Shape, BytesExact
  <2>3. s.bufs[c].addr \in Nat /\ End(s.bufs[c]) \in Nat
    BY ShapeFacts
  <2> QED
    BY <2>1, <2>2, <2>3, <1>1, <1>2
<1>8. x \in PageBytes(PageOf(x))
  BY <1>2, PageFacts
<1> QED
  BY <1>2, <1>4, <1>5, <1>6, <1>7, <1>8, PageOfByte

\* Null is not in a buffer in use.
LEMMA NotNull ==
  ASSUME NEW s, Shape(s.bufs, s.blocks), Paged(s), NEW b \in DOMAIN s.bufs, s.bufs[b].status # "EagerFree"
  PROVE  0 < s.bufs[b].addr
<1>1. /\ s.bufs[b].addr \in Nat /\ s.bufs[b].size \in Nat /\ s.bufs[b].size > 0
      /\ End(s.bufs[b]) = s.bufs[b].addr + s.bufs[b].size
  BY ShapeFacts
<1>2. SUFFICES ASSUME s.bufs[b].addr = 0 PROVE FALSE
  BY <1>1
<1>3. CASE EnableVmm
  <2>1. 0 \in BytesOf(s.bufs[b])
    BY <1>1, <1>2 DEF BytesOf
  <2>2. PageOf(0) \in MappedPages(s.vmm)
    BY <2>1, <1>3, BackedByte
  <2>3. PageOf(0) = 0
    BY VmmAssumption DEF PageOf
  <2> QED
    BY <2>2, <2>3 DEF Paged, AdapterOK
<1>4. CASE ~ EnableVmm
  <2>1. 0 \in s.bufs[b].addr .. End(s.bufs[b]) - 1
    BY <1>1, <1>2
  <2>2. 0 \in Bytes
    BY <2>1, AddrInBytes
  <2> QED
    BY <2>2, <1>4, PoolAssumption DEF Bytes
<1> QED
  BY <1>3, <1>4

\* Same buffers and the same pages with handles.
LEMMA RemappedPages ==
  ASSUME NEW s, NEW t, Paged(s), Remapped(s.vmm, t.vmm), MappedPages(t.vmm) = MappedPages(s.vmm),
         t.bufs = s.bufs, t.blocks = s.blocks
  PROVE  Paged(t)
BY DEF Paged, PagesExact, Remapped

\* Statistics with eager-free memory counted anew.
Anew(st, n, d) == [[st EXCEPT !.eager_free_size = n] EXCEPT !.eager_drift = d]

\* Counting eager-free memory anew does not matter to the other statistics.
LEMMA EagerAnew ==
  ASSUME NEW s, NEW t, t.bufs = s.bufs, t.blocks = s.blocks, t.addrs = s.addrs, NEW n \in Int, NEW d \in Int,
         CountedRest(s), t.stat = Anew(s.stat, n, d)
  PROVE  CountedRest(t) /\ t.stat.eager_free_size = n /\ t.stat.eager_drift = d
<1>1. UsedBytes(t) = UsedBytes(s) /\ Bordered(t)
  BY DEF UsedBytes, Bordered, CountedRest
<1>2. /\ t.stat \in [StatFields -> Int] /\ t.stat.eager_free_size = n /\ t.stat.eager_drift = d
      /\ \A y \in StatFields \ {"eager_free_size", "eager_drift"} : t.stat[y] = s.stat[y]
  BY DEF CountedRest, StatFields, Anew
<1>3. /\ t.stat.used_size = s.stat.used_size /\ t.stat.alloc_size = s.stat.alloc_size
      /\ t.stat.used_by_event_size = s.stat.used_by_event_size /\ t.stat.peak_size = s.stat.peak_size
      /\ t.stat.temp_peak_size = s.stat.temp_peak_size /\ t.stat.temp_used_size = s.stat.temp_used_size
  BY <1>2 DEF StatFields
<1>4. Peaked(t.stat)
  BY <1>3 DEF CountedRest, Peaked
<1> QED
  BY <1>1, <1>2, <1>3, <1>4 DEF CountedRest

\* What mem_mapper_ does to the pages of a free buffer.
LEMMA MapperOK ==
  ASSUME NEW s, Shape(s.bufs, s.blocks), Fields \subseteq DOMAIN s, Paged(s), NEW b \in DOMAIN s.bufs,
         s.bufs[b].status = "EagerFree", NEW addr, addr = s.bufs[b].addr,
         NEW len \in Nat \ {0}, len <= s.bufs[b].size, NEW m, m = Mapper(s, addr, len), NEW t, t = m.s
  PROVE  /\ Same(s, t) /\ Remapped(s.vmm, t.vmm)
         /\ m.ok => MappedPages(t.vmm) = MappedPages(s.vmm) \cup PageOf(addr) .. PageOf(addr + len - 1)
         /\ ~ m.ok => MappedPages(t.vmm) = MappedPages(s.vmm)
         /\ CountedRest(s) => /\ CountedRest(t)
                             /\ t.stat.eager_free_size = Wrapped(s.stat.eager_free_size - len)
                             /\ t.stat.eager_drift = s.stat.eager_drift + (IF m.ok THEN 0 ELSE len)
<1>1. /\ addr \in Nat /\ s.bufs[b].size \in Nat /\ s.bufs[b].size > 0
      /\ End(s.bufs[b]) = addr + s.bufs[b].size
  BY ShapeFacts
<1>2. EnableVmm
  <2>1. addr \in s.bufs[b].addr .. End(s.bufs[b]) - 1
    BY <1>1
  <2>2. addr \in Bytes
    BY <2>1, AddrInBytes
  <2>3. addr < End(s.bufs[b]) /\ s.bufs[b].addr <= addr
    BY <1>1
  <2>4. addr \in EagerBytes(s.bufs)
    BY <2>2, <2>3 DEF EagerBytes
  <2> QED
    BY <2>4 DEF Paged
<1>3. PICK x : x = MmapDeviceMem(s.vmm, addr, len)
  OBVIOUS
<1>4. PICK n, d : /\ n = (s.stat.eager_free_size - len) % SizeT
                  /\ d = s.stat.eager_drift + (IF x.ok THEN 0 ELSE len)
  OBVIOUS
<1>11. m = [s |-> [s EXCEPT !.stat.eager_free_size = (@ - len) % SizeT,
                            !.stat.eager_drift = @ + IF x.ok THEN 0 ELSE len, !.vmm = x.v], ok |-> x.ok]
  BY <1>3 DEF Mapper
<1>5. /\ m.ok = x.ok /\ t.vmm = x.v /\ Same(s, t)
      /\ t.stat = Anew(s.stat, n, d)
  <2>1. m.ok = x.ok /\ t = [s EXCEPT !.stat.eager_free_size = (@ - len) % SizeT,
                            !.stat.eager_drift = @ + IF x.ok THEN 0 ELSE len, !.vmm = x.v]
    BY <1>11
  <2>2. t = [s EXCEPT !.stat = [[s.stat EXCEPT !.eager_free_size = n] EXCEPT !.eager_drift = d], !.vmm = x.v]
    BY <2>1, <1>4
  <2> QED
    BY <2>1, <2>2 DEF Same, Fields, Anew
<1>6. PICK S : S = PageOf(addr) .. PageOf(addr + len - 1)
  OBVIOUS
<1>7. S \subseteq DOMAIN s.vmm.map /\ AdapterOK(s.vmm)
  BY <1>2, <1>6, PagesReserved DEF Paged
<1>9. PICK v : v = s.vmm
  OBVIOUS
<1>8. /\ Remapped(s.vmm, x.v)
      /\ x.ok => MappedPages(x.v) = MappedPages(s.vmm) \cup S
      /\ ~ x.ok => MappedPages(x.v) = MappedPages(s.vmm)
  <2>1. /\ AdapterOK(v) /\ addr \in Nat /\ len \in Nat \ {0} /\ S = PageOf(addr) .. PageOf(addr + len - 1)
        /\ S \subseteq DOMAIN v.map /\ x = MmapDeviceMem(v, addr, len)
    BY <1>1, <1>3, <1>6, <1>7, <1>9
  <2>2. MmapAnswer(v, x, S)
    BY <2>1, MmapDeviceOK
  <2> QED
    BY <2>2, <1>9 DEF MmapAnswer
<1>10. CountedRest(s) => CountedRest(t) /\ t.stat.eager_free_size = n /\ t.stat.eager_drift = d
  <2>1. SUFFICES ASSUME CountedRest(s) PROVE CountedRest(t) /\ t.stat.eager_free_size = n /\ t.stat.eager_drift = d
    OBVIOUS
  <2>2. s.stat.eager_free_size \in Int /\ s.stat.eager_drift \in Int
    BY <2>1 DEF CountedRest, StatFields
  <2>3. n \in Int /\ d \in Int
    <3>1. s.stat.eager_free_size - len \in Int
      BY <2>2
    <3>2. n \in Int
      BY <3>1, <1>4, WrapAdd DEF Wrapped
    <3> QED
      BY <3>2, <2>2, <1>4
  <2>4. /\ t.bufs = s.bufs /\ t.blocks = s.blocks /\ t.addrs = s.addrs
        /\ t.stat = Anew(s.stat, n, d)
    BY <1>5 DEF Same
  <2> QED
    BY <2>1, <2>3, <2>4, EagerAnew
<1> QED
  BY <1>4, <1>5, <1>6, <1>8, <1>10 DEF Wrapped

\* The first len bytes of an eager-free buffer are eager-free no longer.
LEMMA EagerLess ==
  ASSUME NEW bufs, NEW blocks, Shape(bufs, blocks), NEW b \in DOMAIN bufs, bufs[b].status = "EagerFree",
         NEW addr, addr = bufs[b].addr, NEW len \in Nat \ {0}, len <= bufs[b].size, NEW new,
         \A x \in Bytes : x \in EagerBytes(new) <=> x \in EagerBytes(bufs) /\ ~ (addr <= x /\ x < addr + len)
  PROVE  /\ Cardinality(EagerBytes(bufs)) = Cardinality(EagerBytes(new)) + len
         /\ Cardinality(EagerBytes(new)) \in Nat
<1>1. addr \in Nat /\ bufs[b].size \in Nat /\ End(bufs[b]) = addr + bufs[b].size
  BY ShapeFacts
<1>2. addr \in Bytes /\ addr + len - 1 \in Bytes
  BY <1>1, AddrInBytes
<1>3. PICK A, B, R : A = EagerBytes(bufs) /\ B = EagerBytes(new) /\ R = {x \in Bytes : addr <= x /\ x < addr + len}
  OBVIOUS
<1>4. Cardinality(R) = len
  BY <1>1, <1>2, <1>3, RangeCount
<1>5. B \subseteq Bytes /\ R \subseteq Bytes /\ B \cap R = {}
  BY <1>3 DEF EagerBytes
<1>6. Cardinality(B) \in Nat /\ Cardinality(B \cup R) = Cardinality(B) + len
  BY <1>4, <1>5, BytesApart
<1>7. R \subseteq A
  <2>1. ASSUME NEW x \in R PROVE x < End(bufs[b]) /\ bufs[b].addr <= x /\ x \in Bytes
    <3>1. x \in Nat /\ x \in Bytes /\ addr <= x /\ x < addr + len
      BY <1>3, BytesFinite
    <3> QED
      BY <3>1, <1>1
  <2> QED
    BY <2>1, <1>3 DEF EagerBytes
<1>8. A = B \cup R
  BY <1>3, <1>7 DEF EagerBytes
<1> QED
  BY <1>3, <1>6, <1>8

LEMMA MapAndSplitOK ==
  ASSUME NEW s, NEW a, NEW b, Nearly(s, {b}, {}), Paged(s), b \in DOMAIN s.bufs, s.bufs[b].status \in FreeStatus,
         a \in Allocators, Owner(s, b) = a, NEW size \in Nat \ {0}, size <= s.bufs[b].size,
         NEW r, r = MapAndSplitMemBuf(s, a, b, size)
  PROVE  /\ Answered(s, r, size) /\ GrownFor(s, r.s, {})
         /\ r.buf = NoBuf => s.bufs[b].status = "EagerFree" /\ OthersIdle(s, r.s, a)
<1>0. PICK addr, len : addr = s.bufs[b].addr /\ len = IF s.bufs[b].size - size >= AlignSize THEN size ELSE s.bufs[b].size
  OBVIOUS
<1>1. PICK m : m = IF s.bufs[b].status = "EagerFree" THEN Mapper(s, addr, len) ELSE [s |-> s, ok |-> TRUE]
  OBVIOUS
<1>2. r = IF m.ok THEN HandOut(Split(m.s, a, b, size), a, b)
          ELSE Answer([m.s EXCEPT !.lists[a]["EagerFree"] = @ \cup {b}], a, NoBuf)
  BY <1>0, <1>1 DEF MapAndSplitMemBuf
<1>3. PICK t : t = m.s
  OBVIOUS
<1>4. Fields \subseteq DOMAIN s /\ Shape(s.bufs, s.blocks)
  BY DEF Nearly, Calm, Pooled
<1>10. /\ addr \in Nat /\ len \in Nat \ {0} /\ len <= s.bufs[b].size /\ s.bufs[b].size \in Nat
       /\ End(s.bufs[b]) = addr + s.bufs[b].size
  BY <1>0, <1>4, ShapeFacts
<1>5. Same(s, t) /\ (m.ok \/ s.bufs[b].status = "EagerFree")
  <2>1. CASE s.bufs[b].status = "EagerFree"
    <3>1. m = Mapper(s, addr, len)
      BY <2>1, <1>1
    <3> QED
      BY <3>1, <2>1, <1>0, <1>3, <1>4, <1>10, MapperOK
  <2>2. CASE s.bufs[b].status # "EagerFree"
    BY <2>2, <1>1, <1>3, <1>4 DEF Same, Fields
  <2> QED
    BY <2>1, <2>2
<1>11. /\ Remapped(s.vmm, t.vmm)
       /\ m.ok => \/ MappedPages(t.vmm) = MappedPages(s.vmm) \cup PageOf(addr) .. PageOf(addr + len - 1)
                  \/ /\ MappedPages(t.vmm) = MappedPages(s.vmm)
                     /\ \A x \in EagerBytes(s.bufs) : ~ (addr <= x /\ x < addr + len)
       /\ ~ m.ok => MappedPages(t.vmm) = MappedPages(s.vmm)
  <2>1. CASE s.bufs[b].status = "EagerFree"
    <3>1. m = Mapper(s, addr, len)
      BY <2>1, <1>1
    <3>2. /\ Same(s, t) /\ Remapped(s.vmm, t.vmm)
          /\ m.ok => MappedPages(t.vmm) = MappedPages(s.vmm) \cup PageOf(addr) .. PageOf(addr + len - 1)
          /\ ~ m.ok => MappedPages(t.vmm) = MappedPages(s.vmm)
          /\ CountedRest(s) => CountedRest(t)
      BY <3>1, <2>1, <1>0, <1>3, <1>4, <1>10, MapperOK
    <3> QED
      BY <3>2
  <2>2. CASE s.bufs[b].status # "EagerFree"
    <3>1. t = s
      BY <2>2, <1>1, <1>3
    <3>2. Remapped(s.vmm, s.vmm)
      BY DEF Remapped, Paged
    <3>3. ASSUME NEW x \in EagerBytes(s.bufs), addr <= x, x < addr + len PROVE FALSE
      <4>1. x \in Nat
        BY BytesFinite DEF EagerBytes
      <4>2. PICK c \in DOMAIN s.bufs : s.bufs[c].status = "EagerFree" /\ s.bufs[c].addr <= x /\ x < End(s.bufs[c])
        BY DEF EagerBytes
      <4>3. c # b /\ s.bufs[c].addr \in Nat /\ End(s.bufs[c]) \in Nat
        BY <4>2, <2>2, <1>4, ShapeFacts
      <4>4. End(s.bufs[b]) <= s.bufs[c].addr \/ End(s.bufs[c]) <= s.bufs[b].addr
        BY <4>3, <1>4 DEF Shape, BytesExact
      <4> QED
        BY <4>1, <4>2, <4>3, <4>4, <3>3, <1>0, <1>10
    <3> QED
      BY <3>1, <3>2, <3>3
  <2> QED
    BY <2>1, <2>2
<1>12. CountedRest(s) =>
         /\ CountedRest(t)
         /\ \/ /\ s.bufs[b].status = "EagerFree"
               /\ t.stat.eager_free_size = Wrapped(s.stat.eager_free_size - len)
               /\ t.stat.eager_drift = s.stat.eager_drift + (IF m.ok THEN 0 ELSE len)
            \/ t.stat = s.stat /\ \A x \in EagerBytes(s.bufs) : ~ (addr <= x /\ x < addr + len)
  <2>1. CASE s.bufs[b].status = "EagerFree"
    <3>1. m = Mapper(s, addr, len)
      BY <2>1, <1>1
    <3> QED
      BY <3>1, <2>1, <1>0, <1>3, <1>4, <1>10, MapperOK
  <2>2. CASE s.bufs[b].status # "EagerFree"
    <3>1. t = s
      BY <2>2, <1>1, <1>3
    <3>2. ASSUME NEW x \in EagerBytes(s.bufs), addr <= x, x < addr + len PROVE FALSE
      <4>1. PICK c \in DOMAIN s.bufs : s.bufs[c].status = "EagerFree" /\ x \in Span(s.bufs[c])
        BY DEF EagerBytes, Span
      <4>2. x \in Bytes /\ x \in Nat
        BY BytesFinite DEF EagerBytes
      <4>3. x \in Span(s.bufs[b])
        BY <4>2, <3>2, <1>0, <1>10 DEF Span
      <4> QED
        BY <4>1, <4>3, <2>2, <1>4, SpansApart
    <3> QED
      BY <3>1, <3>2
  <2> QED
    BY <2>1, <2>2
<1>6. Nearly(t, {b}, {}) /\ Unhurt(s, t, {})
  BY <1>5, SameOK
<1>7. /\ b \in DOMAIN t.bufs /\ t.bufs[b].status \in FreeStatus /\ Owner(t, b) = a
      /\ size <= t.bufs[b].size /\ b # NoBuf /\ b \in Nat
  <2>1. b # NoBuf /\ b \in Nat
    BY ShapeFacts DEF Nearly, Calm, Pooled, NoBuf
  <2> QED
    BY <2>1, <1>5 DEF Same, Owner
<1>8. CASE m.ok
  <2>1. PICK z : z = Split(t, a, b, size)
    OBVIOUS
  <2>2. r = HandOut(z, a, b)
    BY <2>1, <1>2, <1>3, <1>8
  <2>3. /\ Open(z, a, b) /\ Unhurt(t, z, {})
        /\ size <= z.bufs[b].size /\ z.bufs[b].size < size + AlignSize
        /\ z.vmm = t.vmm /\ z.blocks = t.blocks /\ EagerBytes(z.bufs) = EagerBytes(t.bufs)
        /\ z.bufs[b].addr = t.bufs[b].addr
        /\ z.bufs[b].size = IF t.bufs[b].size - size >= AlignSize THEN size ELSE t.bufs[b].size
        /\ z.stat = t.stat /\ z.addrs = t.addrs /\ (CountedRest(t) => CountedRest(z))
    BY <2>1, <1>6, <1>7, SplitOK
  <2>4. /\ r.buf = b /\ Handed(r, size) /\ Unhurt(z, r.s, {})
        /\ r.s.vmm = z.vmm /\ DOMAIN r.s.blocks = DOMAIN z.blocks
        /\ \A base \in DOMAIN z.blocks : r.s.blocks[base].size = z.blocks[base].size
        /\ \A x \in Bytes : x \in EagerBytes(r.s.bufs) <=>
             x \in EagerBytes(z.bufs) /\ ~ (z.bufs[b].addr <= x /\ x < End(z.bufs[b]))
        /\ r.s.bufs[b].addr = z.bufs[b].addr /\ r.s.stat = z.stat
        /\ 0 < z.bufs[b].addr /\ CountedRest(z) => CountedRest(r.s)
    BY <2>2, <2>3, HandOutOK
  <2>6. t.bufs = s.bufs /\ t.blocks = s.blocks
    BY <1>5 DEF Same
  <2>7. z.bufs[b].addr = addr /\ End(z.bufs[b]) = addr + len
    BY <2>3, <2>6, <1>0 DEF End
  <2>8. Paged(r.s)
    <3>1. AdapterOK(r.s.vmm) /\ DOMAIN r.s.vmm.map = DOMAIN s.vmm.map
      BY <2>3, <2>4, <1>11 DEF Remapped
    <3>2. /\ DOMAIN r.s.blocks = DOMAIN s.blocks
          /\ \A base \in DOMAIN s.blocks : r.s.blocks[base].size = s.blocks[base].size
          /\ \A x \in Bytes : x \in EagerBytes(r.s.bufs) <=> x \in EagerBytes(s.bufs) /\ ~ (addr <= x /\ x < addr + len)
      BY <2>3, <2>4, <2>6, <2>7
    <3>3. \/ MappedPages(r.s.vmm) = MappedPages(s.vmm) \cup PageOf(addr) .. PageOf(addr + len - 1)
          \/ /\ MappedPages(r.s.vmm) = MappedPages(s.vmm)
             /\ \A x \in EagerBytes(s.bufs) : ~ (addr <= x /\ x < addr + len)
      BY <2>3, <2>4, <1>8, <1>11
    <3>4. PICK y : y = r.s
      OBVIOUS
    <3> QED
      BY <3>1, <3>2, <3>3, <3>4, <1>10, HandedPages
  <2>5. Unhurt(s, r.s, {})
    BY <2>3, <2>4, <1>6 DEF Unhurt, SameBuf
  <2>10. Counted(s) => Counted(r.s)
    <3>1. SUFFICES ASSUME Counted(s) PROVE Counted(r.s)
      OBVIOUS
    <3>2. 0 < z.bufs[b].addr
      <4>1. Shape(r.s.bufs, r.s.blocks) /\ b \in DOMAIN r.s.bufs /\ r.s.bufs[b].status = "Used"
        BY <2>4 DEF Handed, Nearly, Calm, Pooled
      <4>2. 0 < r.s.bufs[b].addr
        <5>1. PICK y : y = r.s
          OBVIOUS
        <5>2. Shape(y.bufs, y.blocks) /\ Paged(y) /\ b \in DOMAIN y.bufs /\ y.bufs[b].status # "EagerFree"
          BY <5>1, <4>1, <2>8
        <5> QED
          BY <5>1, <5>2, NotNull
      <4> QED
        BY <4>2, <2>4
    <3>3. CountedRest(r.s)
      BY <3>1, <3>2, <2>3, <2>4, <1>12 DEF Counted
    <3>4. PICK new, e, d, k : new = r.s.bufs /\ e = s.stat.eager_free_size /\ d = s.stat.eager_drift
                              /\ k = Cardinality(EagerBytes(s.bufs))
      OBVIOUS
    <3>5. \A x \in Bytes : x \in EagerBytes(new) <=> x \in EagerBytes(s.bufs) /\ ~ (addr <= x /\ x < addr + len)
      BY <3>4, <2>3, <2>4, <2>6, <2>7
    <3>6. e = Wrapped(k - d) /\ d \in Int /\ k \in Nat
      <4>1. Cardinality(EagerBytes(s.bufs)) \in Nat
        BY BytesLess DEF EagerBytes
      <4> QED
        BY <4>1, <3>1, <3>4 DEF Counted, CountedRest, EagerExact, StatFields
    <3>7. r.s.stat = t.stat
      BY <2>3, <2>4
    <3>8. r.s.stat.eager_free_size = Wrapped(Cardinality(EagerBytes(new)) - r.s.stat.eager_drift)
      <4>1. CASE /\ s.bufs[b].status = "EagerFree"
                 /\ t.stat.eager_free_size = Wrapped(s.stat.eager_free_size - len)
                 /\ t.stat.eager_drift = s.stat.eager_drift + (IF m.ok THEN 0 ELSE len)
        <5>1. PICK j : j = Cardinality(EagerBytes(new))
          OBVIOUS
        <5>2. k = j + len /\ j \in Nat
          BY <5>1, <4>1, <3>4, <3>5, <1>0, <1>4, <1>10, EagerLess
        <5>3. Wrapped(e - len) = Wrapped((k - d) - len)
          BY <3>6, <1>10, WrapAdd
        <5>4. (k - d) - len = j - d
          BY <5>2, <3>6, <1>10
        <5>5. r.s.stat.eager_drift = d
          BY <4>1, <3>4, <3>6, <3>7, <1>8
        <5> QED
          BY <5>1, <5>3, <5>4, <5>5, <4>1, <3>4, <3>7
      <4>2. CASE t.stat = s.stat /\ \A x \in EagerBytes(s.bufs) : ~ (addr <= x /\ x < addr + len)
        <5>1. EagerBytes(new) = EagerBytes(s.bufs)
          BY <4>2, <3>5 DEF EagerBytes
        <5> QED
          BY <5>1, <4>2, <3>4, <3>6, <3>7
      <4> QED
        BY <4>1, <4>2, <3>1, <1>12 DEF Counted
    <3> QED
      BY <3>3, <3>4, <3>8 DEF Counted, EagerExact
  <2>9. GrownFor(s, r.s, {})
    <3>1. z.blocks = s.blocks /\ z.addrs = s.addrs /\ Fields \subseteq DOMAIN z
      <4>1. Fields \subseteq DOMAIN t /\ t.addrs = s.addrs
        BY <1>5 DEF Same
      <4>2. z.addrs = t.addrs
        BY <4>1, <2>1 DEF Split, Fields
      <4> QED
        BY <4>1, <4>2, <2>3, <2>6 DEF Open, Pooled
    <3>6. PICK blk, border : blk = z.bufs[b].mem_block /\ border = UpdateBorderAddr(z.blocks[blk], z.bufs[b])
      OBVIOUS
    <3>2. r.s = [z EXCEPT !.bufs[b].status = "Used", !.blocks[blk] = border]
      BY <3>6, <2>2 DEF HandOut, Answer
    <3>3. r.s.addrs = z.addrs /\ r.s.blocks = [z.blocks EXCEPT ![blk] = border]
      BY <3>1, <3>2 DEF Fields
    <3>4. \A c \in DOMAIN s.blocks : "owner" \in DOMAIN s.blocks[c]
      BY <1>4 DEF Shape, BlocksOK, BlockOK
    <3>5. \A c \in DOMAIN s.blocks : r.s.blocks[c].owner = s.blocks[c].owner
      BY <3>1, <3>3, <3>4, <3>6 DEF UpdateBorderAddr
    <3> QED
      BY <3>1, <3>3, <3>5, <2>10 DEF GrownFor
  <2> QED
    BY <2>4, <2>5, <2>8, <2>9, <1>7 DEF Answered
<1>9. CASE ~ m.ok
  <2>1. PICK z : z = [t EXCEPT !.lists[a]["EagerFree"] = @ \cup {b}]
    OBVIOUS
  <2>2. r.s = z /\ r.buf = NoBuf
    BY <2>1, <1>2, <1>3, <1>9 DEF Answer
  <2>3. t.bufs[b].status = "EagerFree" /\ "EagerFree" \in FreeStatus
    BY <1>5, <1>9 DEF Same, FreeStatus
  <2>6. Paged(t)
    BY <1>5, <1>9, <1>11, RemappedPages DEF Same
  <2>4. Good(z) /\ Unhurt(t, z, {})
    BY <2>1, <2>3, <2>6, <1>6, <1>7, RelistOK
  <2>5. Unhurt(s, z, {})
    BY <2>4, <1>6 DEF Unhurt, SameBuf
  <2>7. GrownFor(s, z, {}) /\ OthersIdle(s, z, a)
    <3>1. /\ Fields \subseteq DOMAIN t /\ t.addrs = s.addrs /\ t.blocks = s.blocks /\ t.lists = s.lists
          /\ t.bufs = s.bufs
      BY <1>5 DEF Same
    <3>2. z.addrs = t.addrs /\ z.blocks = t.blocks /\ z.bufs = t.bufs /\ z.stat = t.stat
      BY <3>1, <2>1 DEF Fields
    <3>5. Counted(s) => Counted(t)
      <4>1. SUFFICES ASSUME Counted(s) PROVE Counted(t)
        OBVIOUS
      <4>2. PICK e, d, k : e = s.stat.eager_free_size /\ d = s.stat.eager_drift /\ k = Cardinality(EagerBytes(s.bufs))
        OBVIOUS
      <4>3. e = Wrapped(k - d) /\ d \in Int /\ k \in Nat
        <5>1. Cardinality(EagerBytes(s.bufs)) \in Nat
          BY BytesLess DEF EagerBytes
        <5> QED
          BY <5>1, <4>1, <4>2 DEF Counted, CountedRest, EagerExact, StatFields
      <4>4. s.bufs[b].status = "EagerFree" /\ m = Mapper(s, addr, len)
        BY <1>1, <1>5, <1>9
      <4>5. CountedRest(t) /\ t.stat.eager_free_size = Wrapped(e - len) /\ t.stat.eager_drift = d + len
        <5>1. CountedRest(s)
          BY <4>1 DEF Counted
        <5> QED
          BY <5>1, <4>2, <4>4, <1>0, <1>3, <1>4, <1>9, <1>10, MapperOK
      <4>6. Wrapped(e - len) = Wrapped((k - d) - len) /\ (k - d) - len = k - (d + len)
        BY <4>3, <1>10, WrapAdd
      <4> QED
        BY <4>2, <4>5, <4>6, <3>1 DEF Counted, EagerExact
    <3>4. Counted(s) => Counted(z)
      BY <3>2, <3>5, SameCounted
    <3>3. \A o \in Allocators \ {a} : z.lists[o] = t.lists[o]
      BY <3>1, <2>1 DEF Fields
    <3> QED
      BY <3>1, <3>2, <3>3, <3>4 DEF GrownFor, OthersIdle
  <2>8. s.bufs[b].status = "EagerFree"
    BY <1>5, <1>9
  <2> QED
    BY <2>2, <2>4, <2>5, <2>7, <2>8 DEF Answered
<1> QED
  BY <1>8, <1>9

\* lower_bound finds a candidate that is large enough, or there is none.
LEMMA LowerBoundOK ==
  ASSUME NEW s, Pooled(s), NEW C, C \subseteq DOMAIN s.bufs, NEW size, NEW b, b = LowerBound(s, C, size)
  PROVE  \/ b = NoBuf /\ \A c \in C : ~ (s.bufs[c].size >= size)
         \/ b \in C /\ s.bufs[b].size >= size
<1> DEFINE fit == {x \in C : s.bufs[x].size >= size}
           Best(x) == \A c \in fit : \/ s.bufs[x].size < s.bufs[c].size
                                     \/ s.bufs[x].size = s.bufs[c].size /\ s.bufs[x].addr <= s.bufs[c].addr
<1>1. CASE fit = {}
  BY <1>1 DEF LowerBound
<1>2. CASE fit # {}
  <2>1. \A x \in fit : s.bufs[x].size \in Nat /\ s.bufs[x].addr \in Nat
    BY ShapeFacts DEF Pooled
  <2> DEFINE sizes == {s.bufs[x].size : x \in fit}
  <2>2. sizes \subseteq Nat /\ sizes # {}
    BY <2>1, <1>2
  <2>3. PICK z \in sizes : \A y \in sizes : z <= y
    <3> HIDE DEF sizes
    <3> QED
      BY <2>2, LeastNumber
  <2> DEFINE addrs == {s.bufs[x].addr : x \in {y \in fit : s.bufs[y].size = z}}
  <2>4. addrs \subseteq Nat /\ addrs # {}
    BY <2>1, <2>3
  <2>5. PICK at \in addrs : \A y \in addrs : at <= y
    <3> HIDE DEF addrs
    <3> QED
      BY <2>4, LeastNumber
  <2>6. PICK x \in fit : s.bufs[x].size = z /\ s.bufs[x].addr = at
    BY <2>5
  <2>7. Best(x)
    <3>1. ASSUME NEW c \in fit
          PROVE  \/ s.bufs[x].size < s.bufs[c].size
                 \/ s.bufs[x].size = s.bufs[c].size /\ s.bufs[x].addr <= s.bufs[c].addr
      <4>1. s.bufs[c].size \in sizes /\ s.bufs[c].size \in Nat /\ z \in Nat
        BY <2>1, <2>2, <2>3
      <4>2. z <= s.bufs[c].size
        BY <4>1, <2>3
      <4>3. s.bufs[c].size = z => at <= s.bufs[c].addr
        BY <2>5
      <4> QED
        BY <4>1, <4>2, <4>3, <2>6
    <3> QED
      BY <3>1
  <2>8. \E y \in fit : Best(y)
    BY <2>7
  <2>9. b = CHOOSE y \in fit : Best(y)
    BY <1>2 DEF LowerBound
  <2>10. b \in fit
    BY <2>8, <2>9
  <2> QED
    BY <2>10
<1> QED
  BY <1>1, <1>2

\* Doubling the unit n times gives more than n.
LEMMA DoubledUnitOK ==
  ASSUME NEW n \in Nat
  PROVE  DoubledUnit(n) \in Nat /\ DoubledUnit(n) > n
<1> DEFINE S == 1 .. n
           w == [tag |-> "double"]
           Def(f) == [T \in SUBSET S |-> IF T = {} THEN UnitSize ELSE 2 * f[T \ {CHOOSE x \in T : TRUE}]]
<1>1. PICK g : DoubledUnit(n) = g[S] /\ g = CHOOSE f : f = Def(f)
  BY DEF DoubledUnit, FoldSet, MapThenFoldSet
<1>2. IsFiniteSet(S) /\ Cardinality(S) = n
  <2>1. IsFiniteSet(1 .. n) /\ Cardinality(1 .. n) = IF 1 > n THEN 0 ELSE n - 1 + 1
    BY FS_Interval
  <2> QED
    BY <2>1
<1> HIDE DEF S
<1>3. \A T : LastOf(w, T) = CHOOSE x \in T : TRUE
  BY DEF LastOf
<1>4. \A T \in SUBSET S : T # {} => LastOf(w, T) \in T
  BY <1>3
<1>5. \A acc, x : Step(w, acc, x) = 2 * acc
  BY DEF Step
<1>6. \A f : Def(f) = [T \in SUBSET S |-> IF T = {} THEN UnitSize ELSE Step(w, f[T \ {LastOf(w, T)}], LastOf(w, T))]
  BY <1>3, <1>5
<1>7. \A f : IsFold(f, w, UnitSize, S) <=> f = Def(f)
  BY <1>6 DEF IsFold
<1>8. \E f : f = Def(f)
  <2>1. \E f : IsFold(f, w, UnitSize, S)
    <3> HIDE DEF w
    <3> QED
      BY <1>2, <1>4, FoldExists
  <2> HIDE DEF Def
  <2> QED
    BY <2>1, <1>7
<1> HIDE DEF Def
<1>9. IsFold(g, w, UnitSize, S)
  BY <1>1, <1>7, <1>8
<1>10. \A acc, T : FoldGood(w, UnitSize, S, acc, T) <=> acc \in Nat /\ acc > Cardinality(T)
  BY DEF FoldGood
<1>11. FoldGood(w, UnitSize, S, UnitSize, {})
  BY <1>10, PoolAssumption, FS_EmptySet
<1> HIDE DEF w
<1>12. ASSUME NEW T \in SUBSET S, NEW acc, T # {}, FoldGood(w, UnitSize, S, acc, T \ {LastOf(w, T)})
       PROVE  FoldGood(w, UnitSize, S, Step(w, acc, LastOf(w, T)), T)
  <2>1. PICK x \in T : x = LastOf(w, T)
    BY <1>4, <1>12
  <2>2. IsFiniteSet(T) /\ Cardinality(T) \in Nat /\ Cardinality(T \ {x}) = Cardinality(T) - 1
        /\ Cardinality(T \ {x}) \in Nat
    BY <1>2, <2>1, FS_Subset, FS_CardinalityType, FS_RemoveElement
  <2>3. acc \in Nat /\ acc > Cardinality(T) - 1
    BY <2>1, <2>2, <1>10, <1>12
  <2>4. 2 * acc \in Nat /\ 2 * acc > Cardinality(T)
    BY <2>2, <2>3
  <2> QED
    BY <2>4, <1>5, <1>10
<1>13. FoldGood(w, UnitSize, S, g[S], S)
  BY <1>2, <1>4, <1>9, <1>11, <1>12, FoldInduction
<1> QED
  BY <1>1, <1>2, <1>10, <1>13

LEMMA BlockSizeOK ==
  ASSUME NEW size \in Nat, NEW z, z = CalMemBlockAllocSize(size)
  PROVE  z \in Nat
<1>1. free_mem_size \in Nat
  BY PoolAssumption DEF free_mem_size, SizeMax
<1>2. CASE free_mem_size < size
  BY <1>2 DEF CalMemBlockAllocSize
<1>3. CASE ~ (free_mem_size < size)
  <2> DEFINE N == {n \in 0 .. size : DoubledUnit(n) >= size}
  <2>1. N # {} /\ N \subseteq Nat
    <3>1. DoubledUnit(size) \in Nat /\ DoubledUnit(size) > size
      BY DoubledUnitOK
    <3>2. size \in N
      BY <3>1
    <3> QED
      BY <3>2
  <2>2. Min(N) \in Nat
    <3> HIDE DEF N
    <3> QED
      BY <2>1, LeastNumber
  <2>3. PICK d \in Nat : d = DoubledUnit(Min(N))
    BY <2>2, DoubledUnitOK
  <2>4. z = Min({d, free_mem_size})
    BY <2>3, <1>3 DEF CalMemBlockAllocSize
  <2>5. PICK T : T = {d, free_mem_size}
    OBVIOUS
  <2>6. T \subseteq Nat /\ T # {}
    BY <2>5, <1>1
  <2>7. Min(T) \in T
    BY <2>6, LeastNumber
  <2> QED
    BY <2>4, <2>5, <2>6, <2>7
<1> QED
  BY <1>2, <1>3

\* The statistics after a block of size z was added; with VMM it is eager-free at first.
Expansion(stat, z) ==
  [[stat EXCEPT !.alloc_size = @ + z] EXCEPT !.eager_free_size = Wrapped(@ + (IF EnableVmm THEN z ELSE 0))]

\* t is s with a new block of allocator a, apart from the others.
Expanded(s, t, a, base, z) ==
  /\ base \in Bytes /\ z \in Nat \ {0} /\ base + z - 1 \in Bytes
  /\ \A c \in DOMAIN s.blocks : base + z <= c \/ c + s.blocks[c].size <= base
  /\ t.blocks = Put(s.blocks, base, [size |-> z, owner |-> a, min |-> 0, max |-> 0])
  /\ Fields \subseteq DOMAIN t
  /\ t.bufs = s.bufs /\ t.lists = s.lists /\ t.addrs = s.addrs
  /\ t.pairs = s.pairs /\ t.inuse = s.inuse
  /\ t.vmm = IF EnableVmm THEN AllocPages(s.vmm, z) ELSE s.vmm
  /\ EnableVmm => base = BaseAddr(s.vmm) /\ \E m \in Nat \ {0} : z = m * PageSize
  /\ t.stat = Expansion(s.stat, z)

LEMMA ExpandBlockOK ==
  ASSUME NEW s, Fields \subseteq DOMAIN s, NEW a, NEW size \in Nat,
         NEW x, x = ExpandBlock(s, a, size)
  PROVE  \/ x.block = NoBlock /\ x.s = s
         \/ x.block # NoBlock /\ \E z : Expanded(s, x.s, a, x.block, z)
<1>1. PICK wanted \in Nat : wanted = CalMemBlockAllocSize(size)
  BY BlockSizeOK
<1>2. PICK amount : amount = IF EnableVmm THEN GetRoundUpAlignSize(Max({wanted, PhysMem})) ELSE wanted
  OBVIOUS
<1>3. PICK places : places = BlockPlaces(s, amount)
  OBVIOUS
<1>4. CASE wanted = 0 \/ places = {}
  <2>1. x = [s |-> s, block |-> NoBlock]
    BY <1>1, <1>2, <1>3, <1>4 DEF ExpandBlock
  <2> QED
    BY <2>1
<1>5. CASE wanted # 0 /\ places # {}
  <2>1. PICK base : base = Min(places)
    OBVIOUS
  <2>2. places \subseteq Bytes
    BY <1>3 DEF BlockPlaces
  <2>3. base \in places /\ base \in Nat
    BY <2>1, <2>2, <1>5, BytesFinite, LeastNumber
  <2>4. PICK eager, v : eager = (IF EnableVmm THEN amount ELSE 0) /\ v = (IF EnableVmm THEN AllocPages(s.vmm, amount) ELSE s.vmm) /\ x = [s |-> [s EXCEPT !.blocks = Put(@, base, [size |-> amount, owner |-> a, min |-> 0, max |-> 0]),
                                              !.stat.alloc_size = @ + amount,
                                              !.stat.eager_free_size = (@ + eager) % SizeT,
                                              !.vmm = v],
                                    block |-> base]
    <3>1. x = [s |-> [s EXCEPT !.blocks = Put(@, base, [size |-> amount, owner |-> a, min |-> 0, max |-> 0]),
                               !.stat.alloc_size = @ + amount,
                               !.stat.eager_free_size = (@ + IF EnableVmm THEN amount ELSE 0) % SizeT,
                               !.vmm = IF EnableVmm THEN AllocPages(@, amount) ELSE @],
               block |-> base]
      BY <2>1, <1>1, <1>2, <1>3, <1>5 DEF ExpandBlock
    <3>2. PICK b2 : b2 = Put(s.blocks, base, [size |-> amount, owner |-> a, min |-> 0, max |-> 0])
      OBVIOUS
    <3>3. PICK st2 : st2 = [s EXCEPT !.blocks = b2, !.stat.alloc_size = @ + amount,
                                     !.stat.eager_free_size = (@ + IF EnableVmm THEN amount ELSE 0) % SizeT]
      OBVIOUS
    <3>4. st2.vmm = s.vmm
      BY <3>3 DEF Fields
    <3>5. x = [s |-> [st2 EXCEPT !.vmm = IF EnableVmm THEN AllocPages(@, amount) ELSE @], block |-> base]
      BY <3>1, <3>2, <3>3
    <3>6. x = [s |-> [st2 EXCEPT !.vmm = IF EnableVmm THEN AllocPages(s.vmm, amount) ELSE s.vmm], block |-> base]
      BY <3>4, <3>5
    <3> QED
      BY <3>2, <3>3, <3>6
  <2>5. /\ x.block = base /\ Fields \subseteq DOMAIN x.s
        /\ x.s.blocks = Put(s.blocks, base, [size |-> amount, owner |-> a, min |-> 0, max |-> 0])
        /\ x.s.bufs = s.bufs /\ x.s.lists = s.lists /\ x.s.addrs = s.addrs
        /\ x.s.pairs = s.pairs /\ x.s.inuse = s.inuse /\ x.s.vmm = v /\ x.s.stat = Expansion(s.stat, amount)
    <3>1. PICK info : info = [size |-> amount, owner |-> a, min |-> 0, max |-> 0]
      OBVIOUS
    <3>2. PICK map : map = Put(s.blocks, base, info)
      OBVIOUS
    <3>3. PICK y : y = [s EXCEPT !.blocks = map, !.stat.alloc_size = @ + amount,
                                 !.stat.eager_free_size = (@ + eager) % SizeT, !.vmm = v]
      OBVIOUS
    <3>4. x.block = base /\ x.s = y
      BY <3>1, <3>2, <3>3, <2>4
    <3>5. /\ DOMAIN y = DOMAIN s /\ y.blocks = map /\ y.bufs = s.bufs /\ y.lists = s.lists
          /\ y.addrs = s.addrs /\ y.pairs = s.pairs /\ y.inuse = s.inuse /\ y.vmm = v
      BY <3>3 DEF Fields
    <3>6. y.stat = Expansion(s.stat, amount)
      <4>1. y.stat = [[s.stat EXCEPT !.alloc_size = @ + amount] EXCEPT !.eager_free_size = (@ + eager) % SizeT]
        BY <3>3 DEF Fields
      <4> QED
        BY <4>1, <2>4 DEF Expansion, Wrapped
    <3> QED
      BY <3>1, <3>2, <3>4, <3>5, <3>6
  <2>6. amount \in Nat \ {0} /\ (EnableVmm => \E m \in Nat \ {0} : amount = m * PageSize)
    <3>1. CASE ~ EnableVmm
      BY <3>1, <1>2, <1>5
    <3>2. CASE EnableVmm
      <4>1. PICK T : T = {wanted, PhysMem}
        OBVIOUS
      <4>2. T \subseteq Nat /\ T # {} /\ IsFiniteSet(T) /\ wanted \in T
        <5>1. IsFiniteSet({wanted, PhysMem})
          <6>1. IsFiniteSet({wanted}) /\ {wanted, PhysMem} = {wanted} \cup {PhysMem}
            BY FS_Singleton
          <6> QED
            BY <6>1, FS_AddElement
        <5> QED
          BY <5>1, <4>1, VmmAssumption
      <4>3. Max(T) \in Nat /\ Max(T) >= wanted
        BY <4>2, GreatestNumber
      <4>4. PICK y \in Nat \ {0} : y = Max(T)
        BY <4>3, <1>5
      <4>5. amount = ((y + PageSize - 1) \div PageSize) * PageSize
        BY <4>1, <4>4, <3>2, <1>2 DEF GetRoundUpAlignSize
      <4>6. PICK m : m = (y + PageSize - 1) \div PageSize
        OBVIOUS
      <4>7. m \in Nat \ {0} /\ amount = m * PageSize
        BY <4>4, <4>5, <4>6, VmmAssumption
      <4>8. amount \in Nat \ {0}
        BY <4>5, RoundedUp, VmmAssumption
      <4> QED
        BY <4>7, <4>8
    <3> QED
      BY <3>1, <3>2
  <2>7. base \in Bytes /\ base + amount - 1 \in Bytes /\ (EnableVmm => base = BaseAddr(s.vmm))
        /\ \A c \in DOMAIN s.blocks : base + amount <= c \/ c + s.blocks[c].size <= base
    BY <2>3, <1>3 DEF BlockPlaces
  <2>8. Expanded(s, x.s, a, base, amount)
    BY <2>4, <2>5, <2>6, <2>7 DEF Expanded
  <2>9. base # NoBlock
    BY <2>3 DEF NoBlock
  <2> QED
    BY <2>5, <2>8, <2>9
<1> QED
  BY <1>4, <1>5

\* w is v with m more pages, none of them with a handle.
Reserved(v, w, m) ==
  /\ AdapterOK(w) /\ MappedPages(w) = MappedPages(v)
  /\ \E n \in Nat : /\ DOMAIN v.map = 0 .. n - 1 /\ DOMAIN w.map = 0 .. n + m - 1
                   /\ BaseAddr(v) = n * PageSize

\* Reserving pages gives none of them a handle.
LEMMA AllocPagesOK ==
  ASSUME NEW v, AdapterOK(v), NEW m \in Nat \ {0}, NEW z, z = m * PageSize, NEW w, w = AllocPages(v, z)
  PROVE  Reserved(v, w, m)
<1>1. PICK n \in Nat : v.map \in [0 .. n - 1 -> Nat]
  BY DEF AdapterOK
<1>2. DOMAIN v.map = 0 .. n - 1 /\ PageSize \in Nat \ {0}
  BY <1>1, VmmAssumption
<1>3. BaseAddr(v) = n * PageSize
  <2>1. Cardinality(0 .. n - 1) = n
    BY FS_Interval
  <2> QED
    BY <2>1, <1>2 DEF BaseAddr
<1>4. PageOf(BaseAddr(v)) = n
  <2>1. (n * PageSize) \div PageSize = n
    BY <1>2
  <2> QED
    BY <2>1, <1>3 DEF PageOf
<1>5. PageOf(GetRoundUpAlignSize(z)) = m
  <2>1. (m * PageSize + PageSize - 1) \div PageSize = m
    BY <1>2
  <2>2. (m * PageSize) \div PageSize = m
    BY <1>2
  <2> QED
    BY <2>1, <2>2 DEF PageOf, GetRoundUpAlignSize
<1>6. PICK S : S = n .. n + m - 1
  OBVIOUS
<1>7. w = [v EXCEPT !.map = [p \in DOMAIN @ \cup S |-> IF p \in S THEN NoHandle ELSE @[p]]]
  BY <1>4, <1>5, <1>6 DEF AllocPages
<1>8. DOMAIN v = {"map", "mapped", "cached", "made"} /\ v.made \in Nat /\ HandlesOf(v) /\ 0 \notin MappedPages(v)
  BY DEF AdapterOK
<1>9. /\ DOMAIN w = DOMAIN v /\ w.mapped = v.mapped /\ w.cached = v.cached /\ w.made = v.made
      /\ w.map = [p \in DOMAIN v.map \cup S |-> IF p \in S THEN NoHandle ELSE v.map[p]]
  BY <1>7, <1>8
<1>10. DOMAIN w.map = 0 .. n + m - 1 /\ DOMAIN v.map \cap S = {}
  <2>1. DOMAIN w.map = DOMAIN v.map \cup S
    BY <1>9
  <2>2. 0 .. n - 1 \cup n .. n + m - 1 = 0 .. n + m - 1
    OBVIOUS
  <2>3. (0 .. n - 1) \cap (n .. n + m - 1) = {}
    OBVIOUS
  <2> QED
    BY <2>1, <2>2, <2>3, <1>2, <1>6
<1>11. \A p \in DOMAIN v.map : p \in DOMAIN w.map /\ w.map[p] = v.map[p]
  BY <1>9, <1>10
<1>12. \A p \in DOMAIN w.map : p \notin DOMAIN v.map => w.map[p] = NoHandle
  BY <1>9, <1>10
<1>13. MappedPages(w) = MappedPages(v)
  BY <1>11, <1>12 DEF MappedPages
<1>14. w.map \in [0 .. n + m - 1 -> Nat]
  <2>1. \A p \in DOMAIN w.map : w.map[p] \in Nat
    BY <1>1, <1>11, <1>12 DEF NoHandle
  <2> QED
    BY <2>1, <1>9, <1>10
<1>15. HandlesOf(w)
  <2>1. \A p \in MappedPages(v) : w.map[p] = v.map[p]
    BY <1>11 DEF MappedPages
  <2>2. Restrict(w.map, MappedPages(w)) = Restrict(v.map, MappedPages(v))
    BY <2>1, <1>13 DEF Restrict
  <2>3. {w.map[p] : p \in MappedPages(w)} = {v.map[p] : p \in MappedPages(v)}
    BY <2>1, <1>13
  <2> QED
    BY <2>1, <2>2, <2>3, <1>8, <1>9, <1>13 DEF HandlesOf
<1>16. AdapterOK(w)
  <2>1. \E i \in Nat : w.map \in [0 .. i - 1 -> Nat]
    <3>1. PICK k \in Nat : k = n + m
      OBVIOUS
    <3>2. w.map \in [0 .. k - 1 -> Nat]
      BY <3>1, <1>14
    <3> QED
      BY <3>2
  <2> QED
    BY <2>1, <1>8, <1>9, <1>13, <1>14, <1>15 DEF AdapterOK
<1> QED
  BY <1>2, <1>3, <1>10, <1>13, <1>16 DEF Reserved

\* t is s with a block that is the one buffer k.
BlockAdded(s, t, k, base, z) ==
  /\ base \in Bytes /\ z \in Nat \ {0} /\ base + z - 1 \in Bytes
  /\ t.vmm = IF EnableVmm THEN AllocPages(s.vmm, z) ELSE s.vmm
  /\ EnableVmm => base = BaseAddr(s.vmm) /\ \E m \in Nat \ {0} : z = m * PageSize
  /\ DOMAIN t.bufs = DOMAIN s.bufs \cup {k} /\ k \notin DOMAIN s.bufs
  /\ \A c \in DOMAIN s.bufs : t.bufs[c] = s.bufs[c]
  /\ t.bufs[k].addr = base /\ t.bufs[k].size = z
  /\ DOMAIN t.blocks = DOMAIN s.blocks \cup {base} /\ t.blocks[base].size = z
  /\ \A c \in DOMAIN s.blocks : c # base /\ t.blocks[c] = s.blocks[c]
  /\ \A c \in DOMAIN s.blocks : base + z <= c \/ c + s.blocks[c].size <= base
  /\ t.blocks[base].min = 0 /\ t.blocks[base].max = 0 /\ t.bufs[k].events = NoEvents
  /\ t.addrs = s.addrs /\ t.stat = Expansion(s.stat, z)

\* The pages of a new block: nobody has them yet, and they are eager-free.
LEMMA NewBlockPages ==
  ASSUME NEW s, Paged(s), NEW t, NEW k, NEW base, NEW z, BlockAdded(s, t, k, base, z),
         t.bufs[k].status = IF EnableVmm THEN "EagerFree" ELSE "Idle"
  PROVE  Paged(t)
<1> DEFINE E == EagerBytes(s.bufs)
           F == EagerBytes(t.bufs)
<1>0. /\ base \in Bytes /\ z \in Nat \ {0} /\ base + z - 1 \in Bytes
      /\ t.vmm = IF EnableVmm THEN AllocPages(s.vmm, z) ELSE s.vmm
      /\ EnableVmm => base = BaseAddr(s.vmm) /\ \E m \in Nat \ {0} : z = m * PageSize
  BY DEF BlockAdded
<1>4. /\ DOMAIN t.bufs = DOMAIN s.bufs \cup {k} /\ k \notin DOMAIN s.bufs
      /\ \A c \in DOMAIN s.bufs : t.bufs[c] = s.bufs[c]
      /\ t.bufs[k].addr = base /\ t.bufs[k].size = z
  BY DEF BlockAdded
<1>5. /\ DOMAIN t.blocks = DOMAIN s.blocks \cup {base} /\ t.blocks[base].size = z
      /\ \A c \in DOMAIN s.blocks : c # base /\ t.blocks[c] = s.blocks[c]
  BY DEF BlockAdded
<1>1. base \in Nat /\ End(t.bufs[k]) = base + z
  BY <1>0, <1>4, BytesFinite DEF End
<1>2. CASE ~ EnableVmm
  <2>1. F = E
    BY <1>2, <1>4 DEF EagerBytes, End
  <2>2. t.vmm = s.vmm
    BY <1>0, <1>2
  <2> QED
    BY <2>1, <2>2, <1>2 DEF Paged
<1>3. CASE EnableVmm
  <2>1. base = BaseAddr(s.vmm) /\ AdapterOK(s.vmm) /\ t.vmm = AllocPages(s.vmm, z)
    BY <1>0, <1>3 DEF Paged
  <2>2. PICK m \in Nat \ {0} : z = m * PageSize
    BY <1>0, <1>3
  <2>3. PICK v, w : v = s.vmm /\ w = t.vmm
    OBVIOUS
  <2>12. AdapterOK(v) /\ w = AllocPages(v, z) /\ base = BaseAddr(v)
    BY <2>1, <2>3
  <2>4. AdapterOK(w) /\ MappedPages(w) = MappedPages(v)
        /\ \E n \in Nat : /\ DOMAIN v.map = 0 .. n - 1 /\ DOMAIN w.map = 0 .. n + m - 1
                         /\ BaseAddr(v) = n * PageSize
    <3>1. Reserved(v, w, m)
      BY <2>2, <2>12, AllocPagesOK
    <3> QED
      BY <3>1 DEF Reserved
  <2>5. PICK n \in Nat : /\ DOMAIN v.map = 0 .. n - 1 /\ DOMAIN w.map = 0 .. n + m - 1
                         /\ base = n * PageSize
    BY <2>4, <2>12
  <2>6. \A x \in Bytes : x \in F <=> x \in E \/ (base <= x /\ x < base + z)
    <3>1. t.bufs[k].status = "EagerFree"
      BY <1>3
    <3> QED
      BY <3>1, <1>1, <1>4 DEF EagerBytes
  <2>7. \A x \in Nat : base <= x /\ x < base + z => x \in Bytes
    BY <1>0, <1>1, <1>3, VmmAssumption DEF Bytes
  <2>8. E \subseteq Bytes /\ F \subseteq Bytes
    BY DEF EagerBytes
  <2>9. PagesExact(w, t.bufs, base, z)
    <3>1. n \in DOMAIN w.map /\ n + m - 1 \in DOMAIN w.map /\ n + m - 1 \in Nat
      BY <2>5
    <3>2. base + z = (n + m - 1) * PageSize + PageSize
      BY <2>2, <2>5, VmmAssumption
    <3>3. ASSUME NEW p \in n .. n + m - 1 PROVE p \notin MappedPages(w) /\ PageBytes(p) \subseteq F
      <4>1. p \notin DOMAIN v.map /\ p \in Nat /\ n <= p /\ p <= n + m - 1
        BY <2>5
      <4>2. p \notin MappedPages(w)
        BY <4>1, <2>4 DEF MappedPages
      <4>3. n * PageSize <= p * PageSize /\ p * PageSize <= (n + m - 1) * PageSize /\ p * PageSize \in Nat
        BY <4>1, <3>1, PageOrder
      <4>4. ASSUME NEW x \in PageBytes(p) PROVE x \in F
        <5>1. x \in Nat /\ p * PageSize <= x /\ x <= p * PageSize + PageSize - 1 /\ PageSize \in Nat
          BY <4>3, VmmAssumption DEF PageBytes
        <5>2. (n + m - 1) * PageSize \in Nat
          BY <3>1, PageOrder
        <5>3. base <= x /\ x < base + z
          <6>1. PICK i, j, l \in Nat : i = n * PageSize /\ j = p * PageSize /\ l = (n + m - 1) * PageSize
            BY <5>2, <4>3, <2>5, <1>1
          <6>2. base = i /\ i <= j /\ j <= l /\ base + z = l + PageSize /\ j <= x /\ x <= j + PageSize - 1
            BY <6>1, <5>1, <4>3, <3>2, <2>5
          <6> QED
            BY <6>1, <6>2, <5>1, <1>0, <1>1
        <5> QED
          BY <5>1, <5>3, <2>6, <2>7
      <4> QED
        BY <4>2, <4>4
    <3> QED
      BY <3>1, <3>2, <3>3, <2>5 DEF PagesExact
  <2>10. ASSUME NEW c \in DOMAIN s.blocks PROVE PagesExact(w, t.bufs, c, t.blocks[c].size)
    <3>1. PagesExact(v, s.bufs, c, s.blocks[c].size) /\ t.blocks[c] = s.blocks[c]
      BY <2>3, <1>3, <1>5 DEF Paged
    <3>2. PICK i \in DOMAIN v.map, j \in DOMAIN v.map :
            /\ c = i * PageSize /\ c + s.blocks[c].size = j * PageSize + PageSize
            /\ \A p \in i .. j : p \in MappedPages(v) <=> ~ (PageBytes(p) \subseteq E)
      BY <3>1 DEF PagesExact
    <3>3. i \in DOMAIN w.map /\ j \in DOMAIN w.map /\ i \in Nat /\ j \in Nat /\ j < n
      BY <2>5
    <3>4. ASSUME NEW p \in i .. j PROVE PageBytes(p) \subseteq F <=> PageBytes(p) \subseteq E
      <4>1. p \in Nat /\ p < n
        BY <3>3
      <4>2. p * PageSize + PageSize <= n * PageSize /\ p * PageSize \in Nat
        BY <4>1, PageOrder
      <4>3. \A x \in PageBytes(p) : x < base
        <5>1. PICK i2, j2 \in Nat : i2 = p * PageSize /\ j2 = n * PageSize
          BY <4>2, <2>5, <1>1
        <5>2. i2 + PageSize <= j2 /\ base = j2 /\ PageSize \in Nat /\ PageBytes(p) = i2 .. i2 + PageSize - 1
          BY <5>1, <4>2, <2>5, VmmAssumption DEF PageBytes
        <5> QED
          BY <5>1, <5>2
      <4>4. \A x \in PageBytes(p) : x \in Nat
        BY <4>1, PageUnique
      <4>5. \A x \in PageBytes(p) : x \in F <=> x \in E
        BY <4>3, <4>4, <2>6, <2>8, <1>1
      <4> QED
        BY <4>5
    <3>5. \A p \in i .. j : p \in MappedPages(w) <=> ~ (PageBytes(p) \subseteq F)
      BY <3>2, <3>4, <2>4
    <3> QED
      BY <3>1, <3>2, <3>3, <3>5 DEF PagesExact
  <2>11. \A c \in DOMAIN t.blocks : PagesExact(t.vmm, t.bufs, c, t.blocks[c].size)
    BY <2>3, <2>9, <2>10, <1>5
  <2> QED
    BY <2>3, <2>4, <2>11, <1>3 DEF Paged
<1> QED
  BY <1>2, <1>3

\* The pool with buffer buf, called k.
WithBuf(s, k, buf) == [s EXCEPT !.bufs = Put(@, k, buf)]

\* A new block is a free buffer that is in no list.
LEMMA NewBlockOK ==
  ASSUME NEW s, Good(s), NEW x, NEW a \in Allocators, NEW base, NEW z, Expanded(s, x, a, base, z),
         NEW st \in FreeStatus, NEW k, k = NewId(x), NEW buf, buf = MemBuf(z, base, a[2], base, st),
         NEW t, t = WithBuf(x, k, buf)
  PROVE  /\ Nearly(t, {k}, {}) /\ k \in DOMAIN t.bufs /\ t.bufs[k] = buf /\ Owner(t, k) = a
         /\ Unhurt(s, t, {}) /\ BlockAdded(s, t, k, base, z)
<1> DEFINE D == DOMAIN s.bufs
<1>1. /\ Pooled(s) /\ Merged(s.bufs) /\ QuietFree(s.bufs) /\ ListsExact(s, {}) /\ AddrsExact(s, {})
      /\ Deferred(s.bufs, {}) /\ Waiting(s) /\ Fields \subseteq DOMAIN s /\ Shape(s.bufs, s.blocks)
      /\ s.lists \in [Allocators -> [FreeStatus -> SUBSET Nat]] /\ Paged(s)
  BY DEF Good, Kept, Calm, Pooled
<1>2. /\ base \in Bytes /\ z \in Nat \ {0} /\ base + z - 1 \in Bytes /\ base \in Nat
      /\ \A c \in DOMAIN s.blocks : base + z <= c \/ c + s.blocks[c].size <= base
      /\ x.blocks = Put(s.blocks, base, [size |-> z, owner |-> a, min |-> 0, max |-> 0])
      /\ Fields \subseteq DOMAIN x /\ x.bufs = s.bufs /\ x.lists = s.lists /\ x.addrs = s.addrs
      /\ x.pairs = s.pairs /\ x.inuse = s.inuse
      /\ x.vmm = IF EnableVmm THEN AllocPages(s.vmm, z) ELSE s.vmm
      /\ EnableVmm => base = BaseAddr(s.vmm) /\ \E m \in Nat \ {0} : z = m * PageSize
      /\ x.stat = Expansion(s.stat, z)
  BY BytesFinite DEF Expanded
<1>3. ASSUME NEW c \in D PROVE s.bufs[c].addr # base
  <2>1. PICK blk : blk = s.bufs[c].mem_block
    OBVIOUS
  <2>2. /\ s.bufs[c].addr \in Nat /\ s.bufs[c].size \in Nat /\ s.bufs[c].size > 0 /\ blk \in Nat
        /\ blk \in DOMAIN s.blocks /\ blk <= s.bufs[c].addr
        /\ s.bufs[c].addr + s.bufs[c].size <= blk + s.blocks[blk].size
    BY <2>1, <1>1, ShapeFacts
  <2>3. s.blocks[blk].size \in Nat
    BY <2>2, <1>1 DEF Shape, BlocksOK, BlockOK
  <2>4. base + z <= blk \/ blk + s.blocks[blk].size <= base
    BY <2>2, <1>2
  <2> QED
    BY <2>2, <2>3, <2>4, <1>2
<1>4. k \in BufIds \ D
  BY <1>1, <1>2, <1>3, NewIdOK
<1>5. /\ t.bufs = Put(s.bufs, k, buf) /\ t.blocks = x.blocks /\ t.lists = s.lists /\ t.addrs = s.addrs
      /\ t.pairs = s.pairs /\ t.inuse = s.inuse /\ Fields \subseteq DOMAIN t /\ t.vmm = x.vmm /\ t.stat = x.stat
  BY <1>2 DEF Fields, WithBuf
<1>6. DOMAIN t.bufs = D \cup {k} /\ t.bufs[k] = buf /\ k \notin D /\ \A c \in D : t.bufs[c] = s.bufs[c]
  BY <1>4, <1>5 DEF Put
<1>7. /\ DOMAIN t.blocks = DOMAIN s.blocks \cup {base}
      /\ t.blocks[base] = [size |-> z, owner |-> a, min |-> 0, max |-> 0]
      /\ \A c \in DOMAIN s.blocks \ {base} : t.blocks[c] = s.blocks[c]
  BY <1>2, <1>5 DEF Put
<1>8. /\ buf \in BufType /\ buf.addr = base /\ buf.size = z /\ buf.mem_block = base
      /\ buf.prev = NoBuf /\ buf.next = NoBuf /\ buf.status = st /\ buf.events = NoEvents
  <2>1. NoEvents \in [UserStreams -> Seq(Nat)] /\ st \in BufStatus /\ a[2] \in Streams /\ NoBuf \in Nat
    BY DEF NoEvents, BufStatus, Allocators, NoBuf
  <2> QED
    BY <2>1, <1>2 DEF BufType, MemBuf
<1>9. BlockOK(t.blocks[base]) /\ t.blocks[base].size = z /\ t.blocks[base].owner = a
  BY <1>2, <1>7 DEF BlockOK
<1>10. Shape(t.bufs, t.blocks) /\ base \notin DOMAIN s.blocks
  <2>1. PICK bufs, blocks, new, blocks2 :
          bufs = s.bufs /\ blocks = s.blocks /\ new = t.bufs /\ blocks2 = t.blocks
    OBVIOUS
  <2>2. /\ Shape(bufs, blocks) /\ k \in BufIds \ DOMAIN bufs /\ base \in Bytes /\ z \in Nat \ {0}
        /\ base + z - 1 \in Bytes
        /\ \A c \in DOMAIN blocks : base + z <= c \/ c + blocks[c].size <= base
    BY <2>1, <1>1, <1>2, <1>4
  <2>3. /\ DOMAIN new = DOMAIN bufs \cup {k}
        /\ \A c \in DOMAIN bufs : new[c] = bufs[c]
        /\ new[k] \in BufType
        /\ new[k].addr = base /\ new[k].size = z /\ new[k].mem_block = base
        /\ new[k].prev = NoBuf /\ new[k].next = NoBuf
    BY <2>1, <1>6, <1>8
  <2>4. /\ DOMAIN blocks2 = DOMAIN blocks \cup {base}
        /\ \A c \in DOMAIN blocks \ {base} : blocks2[c] = blocks[c]
        /\ BlockOK(blocks2[base]) /\ blocks2[base].size = z
    BY <2>1, <1>7, <1>9
  <2>5. Shape(new, blocks2) /\ base \notin DOMAIN blocks
    BY <2>2, <2>3, <2>4, NewBlockShape
  <2> QED
    BY <2>1, <2>5
<1>11. Pooled(t)
  BY <1>1, <1>5, <1>10 DEF Pooled
<1>12. Owner(t, k) = a /\ \A c \in D : Owner(t, c) = Owner(s, c)
  <2>1. \A c \in D : s.bufs[c].mem_block \in DOMAIN s.blocks
    BY <1>1, ShapeFacts
  <2> QED
    BY <2>1, <1>6, <1>7, <1>8, <1>9, <1>10 DEF Owner
<1>13. Merged(t.bufs)
  <2>1. ASSUME NEW c \in D PROVE Apart(t.bufs, c)
    <3>1. Apart(s.bufs, c) /\ (s.bufs[c].next # NoBuf => s.bufs[c].next \in D)
      BY <1>1, NextFacts DEF Merged
    <3> QED
      BY <3>1, <1>6 DEF Apart
  <2>2. Apart(t.bufs, k)
    BY <1>6, <1>8 DEF Apart
  <2> QED
    BY <2>1, <2>2, <1>6 DEF Merged
<1>14. QuietFree(t.bufs) /\ Deferred(t.bufs, {})
  <2>1. "UsedByEvent" \notin FreeStatus
    BY DEF FreeStatus
  <2> QED
    BY <2>1, <1>1, <1>6, <1>8 DEF QuietFree, Deferred
<1>15. ListsExact(t, {k})
  <2>1. ASSUME NEW y \in Allocators, NEW v \in FreeStatus
        PROVE  t.lists[y][v] = Listed(t, DOMAIN t.bufs \ {k}, y, v)
    <3>1. s.lists[y][v] = Listed(s, D \ {}, y, v)
      BY <1>1 DEF ListsExact
    <3>2. Listed(t, DOMAIN t.bufs \ {k}, y, v) = Listed(s, D \ {}, y, v)
      BY <1>6, <1>12 DEF Listed
    <3> QED
      BY <3>1, <3>2, <1>5
  <2> QED
    BY <2>1 DEF ListsExact
<1>16. AddrsExact(t, {})
  BY <1>1, <1>5, <1>6, <1>8, <1>12, SMTT(40) DEF AddrsExact
<1>17. Waiting(t)
  <2>1. EventsKept(s.bufs, t.bufs)
    BY <1>6, <1>8 DEF EventsKept
  <2> QED
    BY <2>1, <1>1, <1>5, EventsKeptOK
<1>18. Unhurt(s, t, {})
  BY <1>6 DEF Unhurt, SameBuf
<1>19. BlockAdded(s, t, k, base, z)
  <2>1. \A c \in DOMAIN s.blocks : c # base /\ t.blocks[c] = s.blocks[c]
    BY <1>7, <1>10
  <2>2. t.bufs[k].addr = base /\ t.bufs[k].size = z
    BY <1>6, <1>8
  <2>3. t.vmm = IF EnableVmm THEN AllocPages(s.vmm, z) ELSE s.vmm
    BY <1>2, <1>5
  <2>4. /\ base \in Bytes /\ z \in Nat \ {0} /\ base + z - 1 \in Bytes
        /\ EnableVmm => base = BaseAddr(s.vmm) /\ \E m \in Nat \ {0} : z = m * PageSize
    BY <1>2
  <2>5. t.blocks[base].min = 0 /\ t.blocks[base].max = 0 /\ t.bufs[k].events = NoEvents
    BY <1>6, <1>7, <1>8
  <2>6. /\ t.addrs = s.addrs /\ t.stat = Expansion(s.stat, z)
        /\ \A c \in DOMAIN s.blocks : base + z <= c \/ c + s.blocks[c].size <= base
    BY <1>2, <1>5
  <2> QED
    BY <2>1, <2>2, <2>3, <2>4, <2>5, <2>6, <1>6, <1>7, <1>9 DEF BlockAdded
<1> QED
  BY <1>6, <1>11, <1>12, <1>13, <1>14, <1>15, <1>16, <1>17, <1>18, <1>19 DEF Nearly, Calm

\* The statistics count a new block.
LEMMA NewBlockCounted ==
  ASSUME NEW s, NEW t, NEW k, NEW base, NEW z, Shape(s.bufs, s.blocks), Shape(t.bufs, t.blocks),
         AddrsExact(s, {}), BlockAdded(s, t, k, base, z),
         t.bufs[k].status = IF EnableVmm THEN "EagerFree" ELSE "Idle"
  PROVE  Counted(s) => Counted(t)
<1> SUFFICES ASSUME Counted(s) PROVE Counted(t)
  OBVIOUS
<1>1. /\ base \in Bytes /\ base \in Nat /\ z \in Nat \ {0} /\ base + z - 1 \in Bytes
      /\ DOMAIN t.bufs = DOMAIN s.bufs \cup {k} /\ k \notin DOMAIN s.bufs
      /\ \A c \in DOMAIN s.bufs : t.bufs[c] = s.bufs[c]
      /\ t.bufs[k].addr = base /\ t.bufs[k].size = z /\ t.bufs[k].events = NoEvents
      /\ DOMAIN t.blocks = DOMAIN s.blocks \cup {base} /\ t.blocks[base].size = z
      /\ \A c \in DOMAIN s.blocks : c # base /\ t.blocks[c] = s.blocks[c]
      /\ \A c \in DOMAIN s.blocks : base + z <= c \/ c + s.blocks[c].size <= base
      /\ t.blocks[base].min = 0 /\ t.blocks[base].max = 0
      /\ t.addrs = s.addrs /\ t.stat = Expansion(s.stat, z)
  BY BytesFinite DEF BlockAdded
<1>2. PICK R : R = {x \in Bytes : base <= x /\ x < base + z}
  OBVIOUS
<1>3. R \subseteq Bytes /\ Cardinality(R) = z
  BY <1>1, <1>2, RangeCount
<1>4. t.bufs[k].status \in FreeStatus
  BY DEF FreeStatus
<1>5. Bordered(t)
  <2>1. \A c \in DOMAIN t.blocks : t.blocks[c].min \in Nat /\ t.blocks[c].max \in Nat
    BY <1>1 DEF Counted, CountedRest, EagerExact, Bordered
  <2>2. \A c \in DOMAIN s.bufs : s.bufs[c].mem_block \in DOMAIN s.blocks
    BY ShapeFacts
  <2> QED
    BY <2>1, <2>2, <1>1, <1>4 DEF Counted, CountedRest, EagerExact, Bordered
<1>6. UsedBytes(t) = UsedBytes(s)
  <2>1. \A addr \in DOMAIN s.addrs : s.addrs[addr].buf \in DOMAIN s.bufs
    BY DEF AddrsExact
  <2> QED
    BY <2>1, <1>1, SameUsed
<1>7. EventBytes(t.bufs) = EventBytes(s.bufs)
  BY <1>1 DEF EventBytes
<1>8. Cardinality(BlockBytes(t.blocks)) = Cardinality(BlockBytes(s.blocks)) + z /\ Cardinality(BlockBytes(s.blocks)) \in Nat
  <2>1. BlockBytes(t.blocks) = BlockBytes(s.blocks) \cup R
    BY <1>1, <1>2 DEF BlockBytes
  <2>2. ASSUME NEW x \in R, x \in BlockBytes(s.blocks) PROVE FALSE
    <3>1. PICK c \in DOMAIN s.blocks : c <= x /\ x < c + s.blocks[c].size
      BY <2>2 DEF BlockBytes
    <3>2. x \in Nat /\ c \in Nat /\ s.blocks[c].size \in Nat /\ base <= x /\ x < base + z
      BY <3>1, <1>2, BytesFinite DEF Shape, BlocksOK, BlockOK
    <3>3. base + z <= c \/ c + s.blocks[c].size <= base
      BY <1>1
    <3> QED
      BY <3>1, <3>2, <3>3, <1>1
  <2>3. PICK A : A = BlockBytes(s.blocks)
    OBVIOUS
  <2>4. A \subseteq Bytes /\ A \cap R = {}
    BY <2>2, <2>3 DEF BlockBytes
  <2>5. Cardinality(A) \in Nat /\ Cardinality(A \cup R) = Cardinality(A) + z
    BY <2>4, <1>3, BytesApart
  <2> QED
    BY <2>1, <2>3, <2>5
<1>9. PICK e : e = IF EnableVmm THEN z ELSE 0
  OBVIOUS
<1>10. Cardinality(EagerBytes(t.bufs)) = Cardinality(EagerBytes(s.bufs)) + e /\ Cardinality(EagerBytes(s.bufs)) \in Nat
  <2>1. Cardinality(EagerBytes(s.bufs)) \in Nat
    BY BytesLess DEF EagerBytes
  <2>2. CASE ~ EnableVmm
    <3>1. EagerBytes(t.bufs) = EagerBytes(s.bufs)
      BY <2>2, <1>1 DEF EagerBytes
    <3> QED
      BY <3>1, <2>1, <2>2, <1>9
  <2>3. CASE EnableVmm
    <3>1. PICK A : A = EagerBytes(s.bufs)
      OBVIOUS
    <3>2. R = Span(t.bufs[k])
      BY <1>1, <1>2 DEF Span, End
    <3>3. EagerBytes(t.bufs) = A \cup R
      BY <3>1, <3>2, <2>3, <1>1 DEF EagerBytes, Span
    <3>4. ASSUME NEW x \in R, x \in A PROVE FALSE
      <4>1. PICK c \in DOMAIN s.bufs : x \in Span(s.bufs[c])
        BY <3>1, <3>4 DEF EagerBytes, Span
      <4>2. x \in Span(t.bufs[c]) /\ x \in Span(t.bufs[k]) /\ c \in DOMAIN t.bufs /\ k \in DOMAIN t.bufs /\ c # k
        BY <4>1, <3>2, <3>4, <1>1
      <4> QED
        BY <4>2, SpansApart
    <3>5. A \subseteq Bytes /\ A \cap R = {}
      BY <3>1, <3>4 DEF EagerBytes
    <3>6. Cardinality(A \cup R) = Cardinality(A) + z
      BY <3>5, <1>3, BytesApart
    <3> QED
      BY <3>1, <3>3, <3>6, <2>1, <2>3, <1>9
  <2> QED
    BY <2>2, <2>3
<1>11. PICK f : f = [s.stat EXCEPT !.alloc_size = @ + z]
  OBVIOUS
<1>12. s.stat \in [StatFields -> Int] /\ e \in Int /\ z \in Int
  BY <1>1, <1>9 DEF Counted, CountedRest, EagerExact
<1>13. f \in [StatFields -> Int] /\ f.alloc_size = s.stat.alloc_size + z /\ \A y \in StatFields \ {"alloc_size"} : f[y] = s.stat[y]
  BY <1>11, <1>12 DEF StatFields
<1>14. PICK n : n = Wrapped(f.eager_free_size + e)
  OBVIOUS
<1>19. t.stat = [f EXCEPT !.eager_free_size = n]
  BY <1>1, <1>9, <1>11, <1>14 DEF Expansion
<1>20. n \in Int /\ f.eager_free_size = s.stat.eager_free_size /\ s.stat.eager_free_size \in Int
  <2>1. f.eager_free_size = s.stat.eager_free_size /\ s.stat.eager_free_size \in Int
    BY <1>12, <1>13 DEF StatFields
  <2>2. PICK x \in Int : x = f.eager_free_size + e
    BY <2>1, <1>12
  <2>3. n = Wrapped(x) /\ Wrapped(x) \in Nat
    BY <2>2, <1>14, WrapAdd
  <2> QED
    BY <2>1, <2>3
<1>15. /\ t.stat \in [StatFields -> Int] /\ t.stat.eager_free_size = n
       /\ \A y \in StatFields \ {"eager_free_size"} : t.stat[y] = f[y]
  BY <1>13, <1>19, <1>20 DEF StatFields
<1>16. /\ t.stat.used_size = s.stat.used_size /\ t.stat.alloc_size = s.stat.alloc_size + z
       /\ t.stat.used_by_event_size = s.stat.used_by_event_size /\ t.stat.peak_size = s.stat.peak_size
       /\ t.stat.temp_peak_size = s.stat.temp_peak_size /\ t.stat.temp_used_size = s.stat.temp_used_size
       /\ t.stat.eager_drift = s.stat.eager_drift
  BY <1>13, <1>15 DEF StatFields
<1>17. Peaked(t.stat)
  BY <1>16 DEF Counted, CountedRest, EagerExact, Peaked
<1>18. t.stat.alloc_size = Cardinality(BlockBytes(t.blocks))
  <2>1. s.stat.alloc_size = Cardinality(BlockBytes(s.blocks))
    BY DEF Counted, CountedRest
  <2> QED
    BY <2>1, <1>8, <1>16
<1>21. EagerExact(t.stat, t.bufs)
  <2>1. PICK c, d : c = Cardinality(EagerBytes(s.bufs)) /\ d = s.stat.eager_drift
    OBVIOUS
  <2>2. c \in Nat /\ d \in Int /\ s.stat.eager_free_size = Wrapped(c - d)
    BY <2>1, <1>10, <1>12 DEF Counted, EagerExact, StatFields
  <2>3. n = Wrapped((c - d) + e) /\ (c - d) + e = (c + e) - d
    BY <2>2, <1>12, <1>14, <1>20, WrapAdd
  <2> QED
    BY <2>1, <2>3, <1>10, <1>15, <1>16 DEF EagerExact
<1> QED
  BY <1>5, <1>6, <1>7, <1>15, <1>16, <1>17, <1>18, <1>21 DEF Counted, CountedRest

LEMMA MallocExpandOK ==
  ASSUME NEW s, Good(s), NEW a \in Allocators, NEW size \in Nat \ {0},
         NEW r, r = MallocExpandBlock(s, a, size)
  PROVE  Answered(s, r, size) /\ GrownFor(s, r.s, {a}) /\ (r.buf = NoBuf => OthersIdle(s, r.s, a))
<1>1. PICK x : x = ExpandBlock(s, a, size)
  OBVIOUS
<1>2. r = IF x.block = NoBlock THEN Answer(x.s, a, NoBuf) ELSE EnterBlock(x.s, a, NewId(x.s), x.block, size)
  BY <1>1 DEF MallocExpandBlock
<1>3. Fields \subseteq DOMAIN s /\ size \in Nat
  BY DEF Good, Kept, Calm, Pooled
<1>4. CASE x.block = NoBlock
  <2>1. x.s = s
    BY <1>1, <1>3, <1>4, ExpandBlockOK
  <2>2. r.s = s /\ r.buf = NoBuf
    BY <2>1, <1>2, <1>4 DEF Answer
  <2> QED
    BY <2>2 DEF Answered, Unhurt, SameBuf, GrownFor, OthersIdle
<1>5. CASE x.block # NoBlock
  <2>1. PICK z : Expanded(s, x.s, a, x.block, z)
    BY <1>1, <1>3, <1>5, ExpandBlockOK
  <2>2. PICK base, e, k, st : base = x.block /\ e = x.s /\ k = NewId(e) /\ st = IF EnableVmm THEN "EagerFree" ELSE "Idle"
    OBVIOUS
  <2>3. st \in FreeStatus
    BY <2>2 DEF FreeStatus
  <2>4. PICK buf : buf = MemBuf(z, base, a[2], base, st)
    OBVIOUS
  <2>5. PICK t : t = WithBuf(e, k, buf)
    OBVIOUS
  <2>6. Expanded(s, e, a, base, z) /\ e.blocks[base].size = z
    BY <2>1, <2>2 DEF Expanded, Put
  <2>7. r = IF z < size THEN Answer([t EXCEPT !.lists[a][st] = @ \cup {k}], a, NoBuf)
            ELSE MapAndSplitMemBuf(t, a, k, size)
    <3>1. buf.size = z
      BY <2>4 DEF MemBuf
    <3> QED
      BY <3>1, <2>2, <2>4, <2>5, <2>6, <1>2, <1>5 DEF EnterBlock, WithBuf
  <2>8. /\ Nearly(t, {k}, {}) /\ k \in DOMAIN t.bufs /\ t.bufs[k] = buf /\ Owner(t, k) = a
        /\ Unhurt(s, t, {}) /\ BlockAdded(s, t, k, base, z)
    BY <2>2, <2>3, <2>4, <2>5, <2>6, NewBlockOK
  <2>9. buf.status = st /\ buf.size = z /\ z \in Nat
    BY <2>4, <2>6 DEF MemBuf, Expanded
  <2>12. Paged(t)
    <3>1. t.bufs[k].status = IF EnableVmm THEN "EagerFree" ELSE "Idle"
      BY <2>2, <2>8, <2>9
    <3>2. Paged(s) /\ BlockAdded(s, t, k, base, z)
      BY <2>8 DEF Good
    <3> QED
      BY <3>1, <3>2, NewBlockPages
  <2>13. /\ Fields \subseteq DOMAIN t /\ t.addrs = s.addrs /\ t.lists = s.lists
         /\ \A o \in Allocators : \A c \in s.lists[o]["Idle"] : t.bufs[c].size = s.bufs[c].size
    <3>1. Fields \subseteq DOMAIN e /\ e.bufs = s.bufs /\ e.addrs = s.addrs /\ e.lists = s.lists
      BY <2>6 DEF Expanded
    <3>2. Fields \subseteq DOMAIN t /\ t.addrs = e.addrs /\ t.lists = e.lists /\ t.bufs = Put(e.bufs, k, buf)
      BY <3>1, <2>5 DEF WithBuf, Fields
    <3>3. k \notin DOMAIN s.bufs
      BY <2>8 DEF BlockAdded
    <3>4. \A o \in Allocators : s.lists[o]["Idle"] \subseteq DOMAIN s.bufs
      BY DEF Good, Kept, Calm, ListsExact, Listed, FreeStatus
    <3> QED
      BY <3>1, <3>2, <3>3, <3>4 DEF Put
  <2>14. GrownFor(s, t, {a})
    <3>1. e.blocks = Put(s.blocks, base, [size |-> z, owner |-> a, min |-> 0, max |-> 0]) /\ t.blocks = e.blocks
      BY <2>5, <2>6 DEF Expanded, WithBuf, Fields
    <3>2. \A c \in DOMAIN s.blocks : c # base
      BY <2>8 DEF BlockAdded
    <3>3. t.bufs[k].status = IF EnableVmm THEN "EagerFree" ELSE "Idle"
      BY <2>2, <2>8, <2>9
    <3>4. Shape(s.bufs, s.blocks) /\ Shape(t.bufs, t.blocks) /\ AddrsExact(s, {})
      BY <2>8 DEF Good, Kept, Nearly, Calm, Pooled
    <3>5. Counted(s) => Counted(t)
      BY <3>3, <3>4, <2>8, NewBlockCounted
    <3> QED
      BY <3>1, <3>2, <3>5, <2>13 DEF GrownFor, Put
  <2>10. CASE z < size
    <3>1. PICK y : y = [t EXCEPT !.lists[a][st] = @ \cup {k}]
      OBVIOUS
    <3>2. Good(y) /\ Unhurt(t, y, {})
      BY <3>1, <2>3, <2>8, <2>9, <2>12, RelistOK
    <3>3. r.s = y /\ r.buf = NoBuf
      BY <3>1, <2>7, <2>10 DEF Answer
    <3>4. Unhurt(s, y, {})
      BY <3>2, <2>8 DEF Unhurt, SameBuf
    <3>5. y.addrs = t.addrs /\ y.blocks = t.blocks /\ y.bufs = t.bufs /\ y.stat = t.stat
          /\ \A o \in Allocators \ {a} : y.lists[o] = t.lists[o]
      BY <3>1, <2>13 DEF Fields
    <3>6. GrownFor(s, y, {a})
      BY <3>5, <2>14, SameCounted DEF GrownFor
    <3>7. OthersIdle(s, y, a)
      BY <3>5, <2>13 DEF OthersIdle
    <3> QED
      BY <3>2, <3>3, <3>4, <3>6, <3>7 DEF Answered
  <2>11. CASE ~ (z < size)
    <3>1. r = MapAndSplitMemBuf(t, a, k, size)
      BY <2>7, <2>11
    <3>2. size <= t.bufs[k].size /\ t.bufs[k].status \in FreeStatus
      BY <2>3, <2>8, <2>9, <2>11
    <3>3. Answered(t, r, size) /\ GrownFor(t, r.s, {}) /\ (r.buf = NoBuf => OthersIdle(t, r.s, a))
      BY <3>1, <3>2, <2>8, <2>12, MapAndSplitOK
    <3>4. Unhurt(s, r.s, {})
      BY <3>3, <2>8 DEF Answered, Unhurt, SameBuf
    <3>5. GrownFor(s, r.s, {a})
      BY <3>3, <2>14, GrownMore, GrownTwice
    <3>6. r.buf = NoBuf => OthersIdle(s, r.s, a)
      BY <3>3, <2>13 DEF OthersIdle
    <3> QED
      BY <3>3, <3>4, <3>5, <3>6 DEF Answered
  <2> QED
    BY <2>10, <2>11
<1> QED
  BY <1>4, <1>5

\* The pool with b out of a list.
Delisted(s, a, st, b) == [s EXCEPT !.lists[a][st] = @ \ {b}]

\* A free buffer leaves its list.
LEMMA DelistOK ==
  ASSUME NEW s, Good(s), NEW a \in Allocators, NEW st \in FreeStatus, NEW b \in s.lists[a][st],
         NEW t, t = Delisted(s, a, st, b)
  PROVE  /\ Nearly(t, {b}, {}) /\ b \in DOMAIN t.bufs /\ t.bufs[b].status = st /\ Owner(t, b) = a
         /\ t.bufs = s.bufs /\ Unhurt(s, t, {}) /\ Paged(t)
<1>1. /\ Pooled(s) /\ ListsExact(s, {}) /\ Merged(s.bufs) /\ QuietFree(s.bufs)
      /\ AddrsExact(s, {}) /\ Deferred(s.bufs, {}) /\ Waiting(s) /\ Paged(s)
      /\ s.lists \in [Allocators -> [FreeStatus -> SUBSET Nat]] /\ Fields \subseteq DOMAIN s
  BY DEF Good, Kept, Calm, Pooled
<1>2. /\ t.bufs = s.bufs /\ t.lists = [s.lists EXCEPT ![a][st] = @ \ {b}] /\ t.blocks = s.blocks
      /\ t.addrs = s.addrs /\ t.pairs = s.pairs /\ t.inuse = s.inuse /\ Fields \subseteq DOMAIN t
      /\ t.vmm = s.vmm
  BY <1>1 DEF Fields, Delisted
<1>3. b \in DOMAIN s.bufs /\ s.bufs[b].status = st /\ Owner(s, b) = a
  BY <1>1 DEF ListsExact, Listed
<1>4. ListsExact(t, {b})
  <2>1. ASSUME NEW x \in Allocators, NEW y \in FreeStatus
        PROVE  t.lists[x][y] = Listed(t, DOMAIN t.bufs \ {b}, x, y)
    <3>1. s.lists[x][y] = Listed(s, DOMAIN s.bufs \ {}, x, y)
      BY <1>1 DEF ListsExact
    <3>2. CASE x = a /\ y = st
      <4>1. t.lists[x][y] = s.lists[x][y] \ {b}
        BY <3>2, <1>1, <1>2
      <4> QED
        BY <4>1, <3>1, <3>2, <1>2 DEF Listed, Owner
    <3>3. CASE ~ (x = a /\ y = st)
      <4>1. t.lists[x][y] = s.lists[x][y]
        BY <3>3, <1>1, <1>2
      <4> QED
        BY <4>1, <3>1, <3>3, <1>2, <1>3 DEF Listed, Owner
    <3> QED
      BY <3>2, <3>3
  <2> QED
    BY <2>1 DEF ListsExact
<1>5. Pooled(t)
  <2>1. t.lists \in [Allocators -> [FreeStatus -> SUBSET Nat]]
    BY <1>1, <1>2
  <2> QED
    BY <2>1, <1>1, <1>2 DEF Pooled
<1>6. AddrsExact(t, {})
  BY <1>1, <1>2, SameAddrs
<1>7. Waiting(t)
  BY <1>1, <1>2, SameWaiting
<1>8. Nearly(t, {b}, {})
  BY <1>1, <1>2, <1>4, <1>5, <1>6, <1>7 DEF Nearly, Calm
<1>9. Owner(t, b) = a
  BY <1>2, <1>3 DEF Owner
<1>10. Paged(t)
  <2>1. EagerKept(s.bufs, t.bufs)
    BY <1>2 DEF EagerKept
  <2>2. Paged(s) /\ t.vmm = s.vmm /\ t.blocks = s.blocks
    BY <1>1, <1>2
  <2> QED
    BY <2>1, <2>2, SamePages
<1> QED
  BY <1>2, <1>3, <1>8, <1>9, <1>10 DEF Unhurt, SameBuf

LEMMA MallocOK ==
  ASSUME NEW s, Good(s), NEW a \in Allocators, NEW size \in Nat \ {0},
         NEW r, r = Malloc(s, a, size)
  PROVE  /\ Answered(s, r, size) /\ GrownFor(s, r.s, {a} \cap Tight(s, size))
         /\ r.buf = NoBuf => a \in Tight(s, size) /\ OthersIdle(s, r.s, a)
<1>1. CASE ~ \E c \in DOMAIN s.blocks : s.blocks[c].owner = a
  <2>1. r = MallocExpandBlock(s, a, size)
    BY <1>1 DEF Malloc
  <2>2. Shape(s.bufs, s.blocks) /\ ListsExact(s, {})
    BY DEF Good, Kept, Calm, Pooled
  <2>3. s.lists[a]["Idle"] = {}
    <3>1. \A b \in DOMAIN s.bufs : s.bufs[b].mem_block \in DOMAIN s.blocks
      BY <2>2, ShapeFacts
    <3> QED
      BY <3>1, <2>2, <1>1 DEF ListsExact, Listed, Owner, FreeStatus
  <2>4. a \in Tight(s, size)
    BY <2>3 DEF Tight
  <2>5. Answered(s, r, size) /\ GrownFor(s, r.s, {a}) /\ (r.buf = NoBuf => OthersIdle(s, r.s, a))
    BY <2>1, MallocExpandOK
  <2>6. GrownFor(s, r.s, {a} \cap Tight(s, size))
    BY <2>4, <2>5, GrownMore
  <2> QED
    BY <2>4, <2>5, <2>6
<1>2. CASE \E c \in DOMAIN s.blocks : s.blocks[c].owner = a
  <2>1. PICK idle, eager : /\ idle = LowerBound(s, s.lists[a]["Idle"], size)
                           /\ eager = LowerBound(s, s.lists[a]["EagerFree"], size)
    OBVIOUS
  <2>2. PICK b, st : b = (IF idle # NoBuf THEN idle ELSE eager) /\ st = (IF idle # NoBuf THEN "Idle" ELSE "EagerFree")
    OBVIOUS
  <2>3. r = IF b = NoBuf THEN Answer(s, a, NoBuf)
            ELSE MapAndSplitMemBuf([s EXCEPT !.lists[a][st] = @ \ {b}], a, b, size)
    BY <2>1, <2>2, <1>2 DEF Malloc
  <2>6. \A st0 \in FreeStatus : Pooled(s) /\ s.lists[a][st0] \subseteq DOMAIN s.bufs
    BY DEF Good, Kept, Calm, ListsExact, Listed
  <2>7. ASSUME idle = NoBuf PROVE a \in Tight(s, size)
    <3>1. Pooled(s) /\ s.lists[a]["Idle"] \subseteq DOMAIN s.bufs
      BY <2>6 DEF FreeStatus
    <3>2. NoBuf \notin DOMAIN s.bufs /\ \A c \in DOMAIN s.bufs : s.bufs[c].size \in Nat
      BY <3>1, ShapeFacts DEF Pooled, NoBuf
    <3>3. \A c \in s.lists[a]["Idle"] : ~ (s.bufs[c].size >= size)
      BY <3>1, <3>2, <2>1, <2>7, LowerBoundOK
    <3>4. \A c \in s.lists[a]["Idle"] : s.bufs[c].size < size
      BY <3>1, <3>2, <3>3
    <3> QED
      BY <3>4 DEF Tight
  <2>4. CASE b = NoBuf
    <3>1. r.s = s /\ r.buf = NoBuf
      BY <2>3, <2>4 DEF Answer
    <3>2. idle = NoBuf
      BY <2>2, <2>4
    <3> QED
      BY <3>1, <3>2, <2>7 DEF Answered, Unhurt, SameBuf, GrownFor, OthersIdle
  <2>5. CASE b # NoBuf
    <3>1. st \in FreeStatus
      BY <2>2 DEF FreeStatus
    <3>2. b = LowerBound(s, s.lists[a][st], size)
      BY <2>1, <2>2, <2>5
    <3>3. Pooled(s) /\ s.lists[a][st] \subseteq DOMAIN s.bufs
      BY <3>1 DEF Good, Kept, Calm, ListsExact, Listed
    <3>4. b \in s.lists[a][st] /\ s.bufs[b].size >= size
      BY <3>2, <3>3, <2>5, LowerBoundOK
    <3>5. PICK t : t = Delisted(s, a, st, b)
      OBVIOUS
    <3>6. /\ Nearly(t, {b}, {}) /\ b \in DOMAIN t.bufs /\ t.bufs[b].status = st /\ Owner(t, b) = a
          /\ t.bufs = s.bufs /\ Unhurt(s, t, {}) /\ Paged(t)
      BY <3>1, <3>4, <3>5, DelistOK
    <3>7. r = MapAndSplitMemBuf(t, a, b, size)
      BY <3>5, <2>3, <2>5 DEF Delisted
    <3>8. size <= t.bufs[b].size /\ t.bufs[b].status \in FreeStatus
      <4>1. t.bufs[b].size \in Nat
        BY <3>3, <3>4, <3>6, ShapeFacts DEF Pooled
      <4> QED
        BY <4>1, <3>1, <3>4, <3>6
    <3>9. /\ Answered(t, r, size) /\ GrownFor(t, r.s, {})
          /\ r.buf = NoBuf => t.bufs[b].status = "EagerFree" /\ OthersIdle(t, r.s, a)
      BY <3>6, <3>7, <3>8, MapAndSplitOK
    <3>10. Unhurt(s, r.s, {})
      BY <3>6, <3>9 DEF Answered, Unhurt, SameBuf
    <3>11. /\ t.addrs = s.addrs /\ t.blocks = s.blocks /\ t.bufs = s.bufs /\ t.stat = s.stat
           /\ \A o \in Allocators \ {a} : t.lists[o] = s.lists[o]
      <4>1. Fields \subseteq DOMAIN s /\ s.lists \in [Allocators -> [FreeStatus -> SUBSET Nat]]
        BY DEF Good, Kept, Calm, Pooled
      <4> QED
        BY <4>1, <3>5 DEF Delisted, Fields
    <3>12. GrownFor(s, r.s, {a} \cap Tight(s, size))
      BY <3>9, <3>11, SameCounted DEF GrownFor
    <3>13. ASSUME r.buf = NoBuf PROVE a \in Tight(s, size) /\ OthersIdle(s, r.s, a)
      <4>1. OthersIdle(s, r.s, a)
        BY <3>9, <3>11, <3>13 DEF OthersIdle
      <4>2. st # "Idle"
        BY <3>6, <3>9, <3>13
      <4> QED
        BY <4>1, <4>2, <2>2, <2>7
    <3> QED
      BY <3>9, <3>10, <3>12, <3>13 DEF Answered
  <2> QED
    BY <2>4, <2>5
<1> QED
  BY <1>1, <1>2

-----------------------------------------------------------------------------
(* Eager freeing.                                                          *)

\* An idle buffer that becomes eager-free and absorbs eager-free neighbours.
LEMMA AbsorbedPages ==
  ASSUME NEW s, NEW t, NEW base, NEW a, NEW b, Widened(base, s, a), Shape(s.bufs, s.blocks), Shape(t.bufs, t.blocks),
         t.vmm = s.vmm, t.blocks = s.blocks, b \in DOMAIN s.bufs, s.bufs[b].status # "EagerFree", Owner(s, b) = a,
         DOMAIN t.bufs \subseteq DOMAIN s.bufs, b \in DOMAIN t.bufs, t.bufs[b].status = "EagerFree",
         t.bufs[b].mem_block = s.bufs[b].mem_block, \A c \in DOMAIN t.bufs \ {b} : SameBuf(s.bufs, t.bufs, c)
  PROVE  Widened(base, t, a)
<1>1. /\ s.vmm = base.vmm /\ s.blocks = base.blocks /\ EagerBytes(base.bufs) \subseteq EagerBytes(s.bufs)
      /\ \A x \in EagerBytes(s.bufs) \ EagerBytes(base.bufs) : InBlockOf(base.blocks, a, x)
  BY DEF Widened
<1>2. ASSUME NEW x \in EagerBytes(s.bufs) PROVE x \in EagerBytes(t.bufs)
  <2>1. x \in Bytes /\ x \in Nat
    BY BytesFinite DEF EagerBytes
  <2>2. PICK c \in DOMAIN s.bufs : s.bufs[c].status = "EagerFree" /\ s.bufs[c].addr <= x /\ x < End(s.bufs[c])
    BY DEF EagerBytes
  <2>3. PICK m : m = s.bufs[c].mem_block
    OBVIOUS
  <2>4. /\ m \in DOMAIN s.blocks /\ m <= s.bufs[c].addr /\ End(s.bufs[c]) <= m + s.blocks[m].size /\ m \in Nat
        /\ s.bufs[c].addr \in Nat /\ End(s.bufs[c]) = s.bufs[c].addr + s.bufs[c].size /\ s.bufs[c].size \in Nat
    BY <2>3, ShapeFacts
  <2>5. s.blocks[m].size \in Nat
    BY <2>4 DEF Shape, BlocksOK, BlockOK
  <2>6. x \in m .. m + s.blocks[m].size - 1
    BY <2>1, <2>2, <2>4, <2>5
  <2>7. PICK d \in DOMAIN t.bufs : t.bufs[d].addr <= x /\ x < End(t.bufs[d])
    BY <2>4, <2>6 DEF Shape, BytesExact
  <2>8. CASE d = b
    BY <2>1, <2>7, <2>8 DEF EagerBytes
  <2>9. CASE d # b
    <3>1. SameBuf(s.bufs, t.bufs, d) /\ d \in DOMAIN s.bufs
      BY <2>9
    <3>2. s.bufs[d].addr <= x /\ x < End(s.bufs[d]) /\ s.bufs[d].addr \in Nat /\ s.bufs[d].size \in Nat
      BY <3>1, <2>7, ShapeFacts DEF SameBuf, End
    <3>3. d # c => End(s.bufs[d]) <= s.bufs[c].addr \/ End(s.bufs[c]) <= s.bufs[d].addr
      BY <3>1 DEF Shape, BytesExact
    <3>4. End(s.bufs[d]) \in Nat
      BY <3>2 DEF End
    <3>5. d = c
      BY <3>2, <3>3, <3>4, <2>1, <2>2, <2>4
    <3> QED
      BY <3>1, <3>5, <2>1, <2>2, <2>7 DEF EagerBytes, SameBuf
  <2> QED
    BY <2>8, <2>9
<1>3. ASSUME NEW x \in EagerBytes(t.bufs), x \notin EagerBytes(s.bufs) PROVE InBlockOf(base.blocks, a, x)
  <2>1. x \in Bytes /\ x \in Nat
    BY BytesFinite DEF EagerBytes
  <2>2. PICK c \in DOMAIN t.bufs : t.bufs[c].status = "EagerFree" /\ t.bufs[c].addr <= x /\ x < End(t.bufs[c])
    BY DEF EagerBytes
  <2>3. c = b
    <3>1. SUFFICES ASSUME c # b PROVE FALSE
      OBVIOUS
    <3>2. SameBuf(s.bufs, t.bufs, c) /\ c \in DOMAIN s.bufs
      BY <3>1
    <3>3. s.bufs[c].status = "EagerFree" /\ s.bufs[c].addr <= x /\ x < End(s.bufs[c])
      BY <3>2, <2>2 DEF SameBuf, End
    <3> QED
      BY <3>2, <3>3, <2>1, <1>3 DEF EagerBytes
  <2>4. PICK m : m = t.bufs[b].mem_block
    OBVIOUS
  <2>5. /\ m \in DOMAIN t.blocks /\ m <= t.bufs[b].addr /\ End(t.bufs[b]) <= m + t.blocks[m].size /\ m \in Nat
        /\ t.bufs[b].addr \in Nat /\ End(t.bufs[b]) = t.bufs[b].addr + t.bufs[b].size /\ t.bufs[b].size \in Nat
    BY <2>4, ShapeFacts
  <2>6. t.blocks[m].size \in Nat
    BY <2>5 DEF Shape, BlocksOK, BlockOK
  <2>7. m <= x /\ x < m + t.blocks[m].size
    BY <2>1, <2>2, <2>3, <2>5, <2>6
  <2>8. t.blocks[m].owner = a
    BY <2>4 DEF Owner
  <2> QED
    BY <2>5, <2>7, <2>8, <1>1 DEF InBlockOf
<1>4. t.vmm = base.vmm /\ t.blocks = base.blocks
  BY <1>1
<1>5. EagerBytes(base.bufs) \subseteq EagerBytes(t.bufs)
  BY <1>1, <1>2
<1>6. \A x \in EagerBytes(t.bufs) \ EagerBytes(base.bufs) : InBlockOf(base.blocks, a, x)
  BY <1>1, <1>3
<1> QED
  BY <1>4, <1>5, <1>6 DEF Widened

\* The bytes of an idle buffer b that became eager-free are counted.
LEMMA EagerCounted ==
  ASSUME NEW s, NEW z, NEW b, NEW a, Pooled(s), AddrsExact(s, {}), QuietFree(s.bufs), Shape(z.bufs, z.blocks),
         z.blocks = s.blocks, z.addrs = s.addrs, Widened(s, z, a), b \in DOMAIN s.bufs, s.bufs[b].status = "Idle",
         DOMAIN z.bufs \subseteq DOMAIN s.bufs, b \in DOMAIN z.bufs,
         z.bufs[b].status = "EagerFree", z.bufs[b].events = NoEvents,
         \A c \in DOMAIN z.bufs \ {b} : SameBuf(s.bufs, z.bufs, c),
         \A c \in DOMAIN s.bufs \ DOMAIN z.bufs : s.bufs[c].status = "EagerFree",
         z.stat = [s.stat EXCEPT !.eager_free_size = Wrapped(@ + s.bufs[b].size)]
  PROVE  Counted(s) => Counted(z)
<1> SUFFICES ASSUME Counted(s) PROVE Counted(z)
  OBVIOUS
<1>1. Shape(s.bufs, s.blocks) /\ EagerBytes(s.bufs) \subseteq EagerBytes(z.bufs)
  BY DEF Pooled, Widened
<1>2. \A c \in DOMAIN s.bufs : s.bufs[c].status \notin FreeStatus =>
        c # b /\ c \in DOMAIN z.bufs /\ SameBuf(s.bufs, z.bufs, c)
  BY DEF FreeStatus
<1>3. UsedBytes(z) = UsedBytes(s)
  <2>1. ASSUME NEW addr \in DOMAIN s.addrs PROVE Span(z.bufs[s.addrs[addr].buf]) = Span(s.bufs[s.addrs[addr].buf])
    <3>1. PICK c : c = s.addrs[addr].buf
      OBVIOUS
    <3>2. c \in DOMAIN s.bufs /\ s.bufs[c].status \notin FreeStatus
      BY <3>1, AddrFacts
    <3>3. SameBuf(s.bufs, z.bufs, c)
      BY <3>2, <1>2
    <3> QED
      BY <3>1, <3>3, SameSpan DEF SameBuf
  <2> QED
    BY <2>1, SameUsed
<1>4. EventBytes(z.bufs) = EventBytes(s.bufs)
  <2>1. \A c \in DOMAIN s.bufs : s.bufs[c].events # NoEvents => s.bufs[c].status \notin FreeStatus
    BY DEF QuietFree
  <2>2. EventsKept(s.bufs, z.bufs)
    BY <2>1, <1>2 DEF EventsKept, SameBuf
  <2> QED
    BY <2>2, SameEventBytes
<1>5. Within(s, z)
  <2>1. ASSUME NEW c \in DOMAIN z.bufs, z.bufs[c].status \notin FreeStatus
        PROVE  /\ c \in DOMAIN s.bufs /\ s.bufs[c].status \notin FreeStatus
               /\ s.bufs[c].mem_block = z.bufs[c].mem_block
               /\ s.bufs[c].addr = z.bufs[c].addr /\ End(z.bufs[c]) = End(s.bufs[c])
    <3>1. c # b
      BY <2>1 DEF FreeStatus
    <3> QED
      BY <3>1, <2>1 DEF SameBuf, End
  <2>2. \A c \in DOMAIN s.bufs : s.bufs[c].addr \in Nat /\ End(s.bufs[c]) \in Nat
    BY <1>1, ShapeFacts
  <2> QED
    BY <2>1, <2>2 DEF Within
<1>6. ASSUME NEW x \in Span(s.bufs[b]) PROVE x \in EagerBytes(z.bufs) /\ x \notin EagerBytes(s.bufs)
  <2>1. x \in Bytes /\ x \in Nat /\ s.bufs[b].addr <= x /\ x < End(s.bufs[b])
    BY BytesFinite DEF Span
  <2>2. PICK m : m = s.bufs[b].mem_block
    OBVIOUS
  <2>3. /\ m \in DOMAIN s.blocks /\ m <= s.bufs[b].addr /\ End(s.bufs[b]) <= m + s.blocks[m].size /\ m \in Nat
        /\ s.bufs[b].addr \in Nat /\ End(s.bufs[b]) \in Nat
    BY <2>2, <1>1, ShapeFacts
  <2>4. s.blocks[m].size \in Nat
    BY <2>3, <1>1 DEF Shape, BlocksOK, BlockOK
  <2>5. x \in m .. m + s.blocks[m].size - 1
    BY <2>1, <2>3, <2>4
  <2>6. PICK d \in DOMAIN z.bufs : z.bufs[d].addr <= x /\ x < End(z.bufs[d])
    BY <2>3, <2>5 DEF Shape, BytesExact
  <2>7. d = b
    <3>1. SUFFICES ASSUME d # b PROVE FALSE
      OBVIOUS
    <3>2. d \in DOMAIN s.bufs /\ x \in Span(s.bufs[d])
      BY <3>1, <2>1, <2>6 DEF SameBuf, Span, End
    <3> QED
      BY <3>1, <3>2, <1>1, SpansApart
  <2>8. x \in EagerBytes(z.bufs)
    BY <2>1, <2>6, <2>7 DEF EagerBytes
  <2>9. ASSUME NEW c \in DOMAIN s.bufs, s.bufs[c].status = "EagerFree", s.bufs[c].addr <= x, x < End(s.bufs[c]) PROVE FALSE
    <3>1. x \in Span(s.bufs[c]) /\ c # b
      BY <2>1, <2>9 DEF Span
    <3> QED
      BY <3>1, <1>1, SpansApart
  <2> QED
    BY <2>8, <2>9 DEF EagerBytes
<1>7. PICK A, B, E, n : A = EagerBytes(s.bufs) /\ B = Span(s.bufs[b]) /\ E = EagerBytes(z.bufs) /\ n = s.bufs[b].size
  OBVIOUS
<1>17. ASSUME NEW x \in EagerBytes(z.bufs), x \notin Span(s.bufs[b]) PROVE x \in EagerBytes(s.bufs)
  <2>1. x \in Bytes /\ x \in Nat
    BY BytesFinite DEF EagerBytes
  <2>2. PICK c \in DOMAIN z.bufs : z.bufs[c].status = "EagerFree" /\ x \in Span(z.bufs[c])
    BY DEF EagerBytes, Span
  <2>3. CASE c # b
    <3>1. c \in DOMAIN s.bufs /\ s.bufs[c].status = "EagerFree" /\ s.bufs[c].addr <= x /\ x < End(s.bufs[c])
      BY <2>2, <2>3 DEF SameBuf, Span, End
    <3> QED
      BY <3>1, <2>1 DEF EagerBytes
  <2>4. CASE c = b
    <3>1. PICK m : m = z.bufs[c].mem_block
      OBVIOUS
    <3>2. /\ m \in DOMAIN s.blocks /\ m <= z.bufs[c].addr /\ End(z.bufs[c]) <= m + s.blocks[m].size /\ m \in Nat
          /\ z.bufs[c].addr \in Nat /\ End(z.bufs[c]) \in Nat
      BY <3>1, ShapeFacts
    <3>3. s.blocks[m].size \in Nat
      BY <3>2, <1>1 DEF Shape, BlocksOK, BlockOK
    <3>4. x \in m .. m + s.blocks[m].size - 1
      BY <3>2, <3>3, <2>1, <2>2 DEF Span
    <3>5. PICK d \in DOMAIN s.bufs : s.bufs[d].addr <= x /\ x < End(s.bufs[d])
      BY <3>2, <3>4, <1>1 DEF Shape, BytesExact
    <3>6. d # b
      BY <3>5, <2>1, <1>17 DEF Span
    <3>7. d \notin DOMAIN z.bufs
      <4>1. SUFFICES ASSUME d \in DOMAIN z.bufs PROVE FALSE
        OBVIOUS
      <4>2. x \in Span(z.bufs[d])
        BY <4>1, <3>5, <3>6, <2>1 DEF SameBuf, Span, End
      <4> QED
        BY <4>1, <4>2, <3>6, <2>2, <2>4, SpansApart
    <3> QED
      BY <3>5, <3>7, <2>1 DEF EagerBytes
  <2> QED
    BY <2>3, <2>4
<1>8. A \subseteq Bytes /\ B \subseteq Bytes /\ E = A \cup B /\ A \cap B = {}
  BY <1>1, <1>6, <1>7, <1>17 DEF EagerBytes, Span
<1>9. n \in Nat /\ Cardinality(B) = n
  BY <1>1, <1>7, SpanCount, ShapeFacts
<1>10. Cardinality(A) \in Nat /\ Cardinality(E) = Cardinality(A) + n
  BY <1>8, <1>9, BytesApart
<1>11. Bordered(z)
  BY <1>1, <1>5, WithinBorder DEF Counted, CountedRest, EagerExact
<1>12. /\ s.stat \in [StatFields -> Int] /\ s.stat.eager_free_size \in Int /\ s.stat.eager_drift \in Int
       /\ s.stat.eager_free_size = Wrapped(Cardinality(A) - s.stat.eager_drift)
  BY <1>7 DEF Counted, CountedRest, EagerExact, StatFields
<1>18. PICK e : e = Wrapped(s.stat.eager_free_size + n)
  OBVIOUS
<1>19. e \in Int /\ z.stat = [s.stat EXCEPT !.eager_free_size = e]
  BY <1>7, <1>9, <1>12, <1>18, WrapAdd
<1>13. /\ z.stat \in [StatFields -> Int] /\ z.stat.eager_free_size = e
       /\ \A y \in StatFields \ {"eager_free_size"} : z.stat[y] = s.stat[y]
  BY <1>12, <1>19 DEF StatFields
<1>14. /\ z.stat.used_size = s.stat.used_size /\ z.stat.alloc_size = s.stat.alloc_size
       /\ z.stat.used_by_event_size = s.stat.used_by_event_size /\ z.stat.peak_size = s.stat.peak_size
       /\ z.stat.temp_peak_size = s.stat.temp_peak_size /\ z.stat.temp_used_size = s.stat.temp_used_size
       /\ z.stat.eager_drift = s.stat.eager_drift
  BY <1>13 DEF StatFields
<1>15. Peaked(z.stat)
  BY <1>14 DEF Counted, CountedRest, EagerExact, Peaked
<1>16. EagerExact(z.stat, z.bufs)
  <2>1. PICK c, d : c = Cardinality(A) /\ d = s.stat.eager_drift
    OBVIOUS
  <2>2. e = Wrapped((c - d) + n) /\ (c - d) + n = (c + n) - d
    BY <2>1, <1>9, <1>10, <1>12, <1>18, WrapAdd
  <2> QED
    BY <2>1, <2>2, <1>7, <1>10, <1>13, <1>14 DEF EagerExact
<1> QED
  BY <1>3, <1>4, <1>7, <1>11, <1>13, <1>14, <1>15, <1>16 DEF Counted, CountedRest

LEMMA IdleStepOK ==
  ASSUME NEW s, NEW base, NEW a \in Allocators, NEW R, Eager(s, base, a, R), NEW b \in R,
         NEW z, z = IdleStep(s, a, b)
  PROVE  Eager(z, base, a, R \ {b})
<1> DEFINE D == DOMAIN s.bufs
           marked == Mark(s.bufs, b, "EagerFree")
<1>1. /\ Pooled(s) /\ Merged(s.bufs) /\ QuietFree(s.bufs) /\ AddrsExact(s, {}) /\ Deferred(s.bufs, {})
      /\ Waiting(s) /\ Unhurt(base, s, {}) /\ R = Listed(s, D, a, "Idle") /\ Fields \subseteq DOMAIN s
      /\ \A x \in Allocators : s.lists[x]["EagerFree"] = Listed(s, D, x, "EagerFree")
      /\ \A x \in Allocators \ {a} : s.lists[x]["Idle"] = Listed(s, D, x, "Idle")
      /\ Shape(s.bufs, s.blocks) /\ Widened(base, s, a) /\ Sealed(base, s)
  BY DEF Eager, Calm, Pooled
<1>2. b \in D /\ s.bufs[b].status = "Idle" /\ Owner(s, b) = a
  BY <1>1 DEF Listed
<1>3. s.bufs[b].events = NoEvents /\ s.bufs[b] \in BufType
      /\ "EagerFree" \in FreeStatus /\ "Idle" \in FreeStatus /\ s.bufs[b].status # "EagerFree"
      /\ "Used" \notin FreeStatus /\ "UsedByEvent" \notin FreeStatus
  BY <1>1, <1>2, ShapeFacts DEF QuietFree, FreeStatus
<1>4. PICK f : f = Free(s, a, b, "EagerFree")
  OBVIOUS
<1>5. PICK u : u = f.s
  OBVIOUS
<1>6. /\ Pooled(u) /\ SameButBufs(s, u) /\ Merged(u.bufs)
      /\ Absorbed(marked, u.bufs, b, "EagerFree")
      /\ \A x \in Allocators : u.lists[x]["EagerFree"] = Listed(u, DOMAIN u.bufs, x, "EagerFree")
      /\ OtherListsSame(s, u, "EagerFree")
  BY <1>1, <1>2, <1>3, <1>4, <1>5, FreeOK
<1>7. /\ DOMAIN marked = D /\ marked[b].status = "EagerFree" /\ marked[b].events = NoEvents
      /\ marked[b].mem_block = s.bufs[b].mem_block
      /\ \A c \in D \ {b} : marked[c] = s.bufs[c]
  BY <1>2, <1>3 DEF BufType, Mark
<1> HIDE DEF marked
<1>8. u.blocks = s.blocks /\ u.addrs = s.addrs /\ u.pairs = s.pairs /\ u.inuse = s.inuse /\ u.vmm = s.vmm
  BY <1>6 DEF SameButBufs
<1>9. PICK y : z = [u EXCEPT !.stat.eager_free_size = (@ + y) % SizeT] /\ y = s.bufs[b].size
  BY <1>4, <1>5 DEF IdleStep
<1>10. Same(u, z)
  BY <1>6, <1>9 DEF Same, Pooled, Fields
<1>11. /\ z.bufs = u.bufs /\ z.blocks = s.blocks /\ z.lists = u.lists /\ z.addrs = s.addrs
       /\ z.pairs = s.pairs /\ z.inuse = s.inuse /\ Fields \subseteq DOMAIN z
  BY <1>8, <1>10 DEF Same
<1>12. /\ DOMAIN z.bufs \subseteq D /\ b \in DOMAIN z.bufs
       /\ z.bufs[b].status = "EagerFree" /\ z.bufs[b].events = NoEvents
       /\ z.bufs[b].mem_block = s.bufs[b].mem_block
       /\ \A c \in DOMAIN z.bufs \ {b} : SameBuf(s.bufs, z.bufs, c)
       /\ \A c \in D \ DOMAIN z.bufs : s.bufs[c].status = "EagerFree"
  <2>1. /\ DOMAIN u.bufs \subseteq D /\ b \in DOMAIN u.bufs
        /\ \A c \in DOMAIN u.bufs \ {b} : SameBuf(marked, u.bufs, c)
        /\ u.bufs[b].mem_block = marked[b].mem_block
        /\ u.bufs[b].status = marked[b].status
        /\ u.bufs[b].events = marked[b].events
        /\ \A c \in D \ DOMAIN u.bufs : marked[c].status = "EagerFree"
    BY <1>6, <1>7 DEF Absorbed
  <2>2. \A c \in DOMAIN u.bufs \ {b} : SameBuf(s.bufs, u.bufs, c)
    BY <2>1, <1>7 DEF SameBuf
  <2>3. \A c \in D \ DOMAIN u.bufs : s.bufs[c].status = "EagerFree"
    BY <2>1, <1>7
  <2> QED
    BY <2>1, <2>2, <2>3, <1>7, <1>11
<1>13. \A c \in D : s.bufs[c].status # "EagerFree" /\ c # b => c \in DOMAIN z.bufs /\ SameBuf(s.bufs, z.bufs, c)
  BY <1>12
<1>14. Pooled(z) /\ Merged(z.bufs)
  BY <1>6, <1>8, <1>11 DEF Pooled
<1>15. QuietFree(z.bufs) /\ Deferred(z.bufs, {})
  BY <1>1, <1>3, <1>12 DEF QuietFree, Deferred, SameBuf
<1>16. \A c \in DOMAIN z.bufs : Owner(z, c) = Owner(s, c)
  BY <1>11, <1>12 DEF Owner, SameBuf
<1>17. AddrsExact(z, {})
  <2>1. ASSUME NEW x \in DOMAIN z.addrs, NEW c, c = z.addrs[x].buf
        PROVE  /\ c \in DOMAIN z.bufs /\ z.bufs[c].addr = x /\ z.bufs[c].status \notin FreeStatus
               /\ z.addrs[x].alloc = Owner(z, c)
    <3>1. /\ c \in D /\ s.bufs[c].addr = x /\ s.bufs[c].status \notin FreeStatus
          /\ z.addrs[x].alloc = Owner(s, c)
      BY <2>1, <1>1, <1>11, AddrFacts
    <3>2. c # b /\ s.bufs[c].status # "EagerFree"
      BY <3>1, <1>2, <1>3
    <3> QED
      BY <3>1, <3>2, <1>13, <1>16 DEF SameBuf
  <2>2. ASSUME NEW c \in DOMAIN z.bufs, z.bufs[c].status \notin FreeStatus
        PROVE  z.bufs[c].addr \in DOMAIN z.addrs /\ z.addrs[z.bufs[c].addr].buf = c
    <3>1. c # b
      BY <2>2, <1>3, <1>12
    <3>2. z.bufs[c].addr = s.bufs[c].addr /\ s.bufs[c].status \notin FreeStatus /\ c \in D
      BY <3>1, <2>2, <1>12 DEF SameBuf
    <3> QED
      BY <3>2, <1>1, <1>11 DEF AddrsExact
  <2> QED
    BY <2>1, <2>2 DEF AddrsExact
<1>18. Waiting(z)
  <2>1. \A c \in D : s.bufs[c].events # NoEvents => c # b /\ s.bufs[c].status # "EagerFree"
    BY <1>1, <1>3 DEF QuietFree
  <2>2. EventsKept(s.bufs, z.bufs)
    BY <2>1, <1>12, <1>13 DEF EventsKept, SameBuf
  <2> QED
    BY <2>2, <1>1, <1>11, EventsKeptOK
<1>19. Unhurt(base, z, {})
  BY <1>1, <1>2, <1>13 DEF Unhurt, SameBuf
<1>20. \A x \in Allocators : z.lists[x]["EagerFree"] = Listed(z, DOMAIN z.bufs, x, "EagerFree")
  BY <1>6, <1>8, <1>11 DEF Listed, Owner
<1>21. ASSUME NEW x \in Allocators \ {a} PROVE z.lists[x]["Idle"] = Listed(z, DOMAIN z.bufs, x, "Idle")
  <2>1. z.lists[x]["Idle"] = s.lists[x]["Idle"]
    BY <1>3, <1>6, <1>11 DEF OtherListsSame
  <2>2. Listed(z, DOMAIN z.bufs, x, "Idle") = Listed(s, D, x, "Idle")
    BY <1>2, <1>12, <1>13, <1>16 DEF Listed, SameBuf
  <2> QED
    BY <2>1, <2>2, <1>1
<1>22. R \ {b} = Listed(z, DOMAIN z.bufs, a, "Idle")
  BY <1>1, <1>2, <1>12, <1>13, <1>16 DEF Listed, SameBuf
<1>23. z.vmm = s.vmm
  <2>1. z.vmm = u.vmm
    BY <1>6, <1>9 DEF Pooled, Fields
  <2> QED
    BY <2>1, <1>8
<1>24. Widened(base, z, a)
  <2>1. Shape(z.bufs, z.blocks) /\ z.blocks = s.blocks
    BY <1>11, <1>14 DEF Pooled
  <2> QED
    BY <2>1, <1>1, <1>2, <1>3, <1>12, <1>23, AbsorbedPages
<1>25. Sealed(base, z)
  <2>1. Sealed(s, z)
    <3>1. u.stat = s.stat /\ z.stat = [u.stat EXCEPT !.eager_free_size = Wrapped(@ + y)]
      BY <1>6, <1>9 DEF SameButBufs, Pooled, Fields, Wrapped
    <3>2. Shape(z.bufs, z.blocks) /\ Widened(s, s, a)
      BY <1>14 DEF Pooled, Widened
    <3>3. Widened(s, z, a)
      BY <3>2, <1>1, <1>2, <1>3, <1>11, <1>12, <1>23, AbsorbedPages
    <3>4. z.stat = [s.stat EXCEPT !.eager_free_size = Wrapped(@ + s.bufs[b].size)]
      BY <3>1, <1>9
    <3>5. Counted(s) => Counted(z)
      BY <3>2, <3>3, <3>4, <1>1, <1>2, <1>11, <1>12, EagerCounted
    <3> QED
      BY <3>5, <1>11 DEF Sealed, Settled
  <2> QED
    BY <2>1, <1>1, SealedTwice
<1> QED
  BY <1>14, <1>15, <1>17, <1>18, <1>19, <1>20, <1>21, <1>22, <1>24, <1>25 DEF Eager, Calm

\* A set of buffers has one that comes last in the order of a list.
LEMMA LastIdle ==
  ASSUME NEW s, Pooled(s), NEW w, w.tag = "idle", w.bufs = s.bufs, NEW T, T \subseteq DOMAIN s.bufs, T # {}
  PROVE  LastOf(w, T) \in T
<1>1. /\ IsFiniteSet(T) /\ T \subseteq Nat
      /\ \A x \in T : s.bufs[x].size \in Nat /\ s.bufs[x].addr \in Nat /\ s.bufs[x].size > 0
                      /\ End(s.bufs[x]) = s.bufs[x].addr + s.bufs[x].size
  BY BufsFinite, ShapeFacts DEF Pooled
<1>2. PICK hi \in Nat : \A x \in T : s.bufs[x].size <= hi /\ s.bufs[x].addr <= hi
  <2> DEFINE H == {n \in Nat : n \in Bytes \/ (\E m \in Bytes : n = m + 1)}
  <2>1. PICK lo, top \in Int : Bytes = lo .. top /\ lo >= 0
    BY PoolAssumption, VmmAssumption DEF Bytes
  <2>2. ASSUME NEW x \in T PROVE s.bufs[x].addr \in lo .. top /\ s.bufs[x].addr + s.bufs[x].size - 1 \in lo .. top
    <3>1. \A y \in s.bufs[x].addr .. End(s.bufs[x]) - 1 : y \in Bytes
      BY AddrInBytes DEF Pooled
    <3>2. s.bufs[x].addr \in s.bufs[x].addr .. End(s.bufs[x]) - 1
          /\ s.bufs[x].addr + s.bufs[x].size - 1 \in s.bufs[x].addr .. End(s.bufs[x]) - 1
      BY <1>1
    <3> QED
      BY <3>1, <3>2, <2>1
  <2>3. PICK x \in T : TRUE
    OBVIOUS
  <2>4. top + 1 \in Nat
    BY <2>1, <2>2, <2>3
  <2>5. \A y \in T : s.bufs[y].size <= top + 1 /\ s.bufs[y].addr <= top + 1
    BY <2>1, <2>2, <1>1, SMTT(40)
  <2> QED
    BY <2>4, <2>5
<1> DEFINE Least == {hi - s.bufs[x].size : x \in T}
<1>3. Least \subseteq Nat /\ Least # {}
  BY <1>1, <1>2
<1>4. PICK z \in Least : \A y \in Least : z <= y
  <2> HIDE DEF Least
  <2> QED
    BY <1>3, LeastNumber
<1> DEFINE First == {hi - s.bufs[x].addr : x \in {y \in T : hi - s.bufs[y].size = z}}
<1>5. First \subseteq Nat /\ First # {}
  BY <1>1, <1>2, <1>4
<1>6. PICK at \in First : \A y \in First : at <= y
  <2> HIDE DEF First
  <2> QED
    BY <1>5, LeastNumber
<1>7. PICK c \in T : hi - s.bufs[c].size = z /\ hi - s.bufs[c].addr = at
  BY <1>6
<1>8. ASSUME NEW b \in T, b # c PROVE Before(s.bufs, b, c)
  <2>1. /\ s.bufs[b].size \in Nat /\ s.bufs[b].addr \in Nat /\ s.bufs[c].size \in Nat /\ s.bufs[c].addr \in Nat
        /\ s.bufs[b].size > 0 /\ s.bufs[c].size > 0
    BY <1>1
  <2>2. z <= hi - s.bufs[b].size
    BY <1>4
  <2>3. hi - s.bufs[b].size = z => at <= hi - s.bufs[b].addr
    BY <1>6
  <2>4. s.bufs[b].addr # s.bufs[c].addr
    <3>1. End(s.bufs[b]) <= s.bufs[c].addr \/ End(s.bufs[c]) <= s.bufs[b].addr
      BY <1>8 DEF Pooled, Shape, BytesExact
    <3> QED
      BY <3>1, <2>1, <1>1
  <2> QED
    BY <2>1, <2>2, <2>3, <2>4, <1>2, <1>7 DEF Before
<1>9. \E y \in T : \A b \in T : b = y \/ Before(s.bufs, b, y)
  BY <1>8
<1>10. LastOf(w, T) = CHOOSE y \in T : \A b \in T : b = y \/ Before(s.bufs, b, y)
  BY DEF LastOf
<1> QED
  BY <1>9, <1>10

\* Free neighbours are merged, so a page that is wholly eager-free is in one buffer.
LEMMA EagerRun ==
  ASSUME NEW bufs, NEW blocks, Shape(bufs, blocks), Merged(bufs), NEW p \in Nat, PageBytes(p) \subseteq EagerBytes(bufs),
         NEW c \in DOMAIN bufs, bufs[c].status = "EagerFree",
         NEW x \in PageBytes(p), bufs[c].addr <= x, x < End(bufs[c]),
         bufs[c].mem_block <= p * PageSize,
         p * PageSize + PageSize <= bufs[c].mem_block + blocks[bufs[c].mem_block].size
  PROVE  PageIn(p, bufs[c].addr, bufs[c].size)
<1>1. PICK lo \in Nat : lo = p * PageSize /\ PageSize \in Nat \ {0} /\ PageBytes(p) = lo .. lo + PageSize - 1
  BY PageOrder, VmmAssumption DEF PageBytes
<1>2. /\ bufs[c].addr \in Nat /\ bufs[c].size \in Nat /\ bufs[c].size > 0 /\ bufs[c].mem_block \in Nat
      /\ End(bufs[c]) = bufs[c].addr + bufs[c].size /\ bufs[c].mem_block <= bufs[c].addr
      /\ x \in Nat /\ lo <= x /\ x < lo + PageSize
  BY <1>1, ShapeFacts
<1>3. ASSUME NEW y \in PageBytes(p)
      PROVE  \E d \in DOMAIN bufs : bufs[d].status = "EagerFree" /\ bufs[d].addr <= y /\ y < End(bufs[d])
  BY DEF EagerBytes
<1>4. "EagerFree" \in FreeStatus
  BY DEF FreeStatus
<1>5. bufs[c].addr <= lo
  <2>1. SUFFICES ASSUME lo < bufs[c].addr PROVE FALSE
    BY <1>1, <1>2
  <2>2. PICK y : y = bufs[c].addr - 1
    OBVIOUS
  <2>3. y \in PageBytes(p) /\ y \in Nat
    BY <2>1, <2>2, <1>1, <1>2
  <2>4. PICK d \in DOMAIN bufs : bufs[d].status = "EagerFree" /\ bufs[d].addr <= y /\ y < End(bufs[d])
    BY <2>3, <1>3
  <2>5. bufs[c].prev # NoBuf
    <3>1. bufs[c].mem_block < bufs[c].addr
      BY <2>1, <1>1, <1>2
    <3> QED
      BY <3>1, <1>2 DEF Shape, LinksExact
  <2>6. PICK q \in DOMAIN bufs : q = bufs[c].prev /\ bufs[q].next = c /\ bufs[c].addr = bufs[q].addr + bufs[q].size
    BY <2>5, PrevFacts
  <2>7. bufs[q].addr \in Nat /\ bufs[q].size \in Nat /\ bufs[q].size > 0 /\ End(bufs[q]) = bufs[q].addr + bufs[q].size
    BY ShapeFacts
  <2>8. bufs[d].addr \in Nat /\ bufs[d].size \in Nat /\ End(bufs[d]) = bufs[d].addr + bufs[d].size
    BY ShapeFacts
  <2>9. d # q => End(bufs[d]) <= bufs[q].addr \/ End(bufs[q]) <= bufs[d].addr
    BY DEF Shape, BytesExact
  <2>10. d = q
    BY <2>2, <2>3, <2>4, <2>6, <2>7, <2>8, <2>9, <1>2
  <2>11. Apart(bufs, q) /\ c # NoBuf
    BY ShapeFacts DEF Merged, NoBuf
  <2> QED
    BY <2>4, <2>6, <2>10, <2>11, <1>4 DEF Apart
<1>6. lo + PageSize <= End(bufs[c])
  <2>1. SUFFICES ASSUME End(bufs[c]) < lo + PageSize PROVE FALSE
    BY <1>1, <1>2
  <2>2. PICK y : y = End(bufs[c])
    OBVIOUS
  <2>3. y \in PageBytes(p) /\ y \in Nat
    BY <2>1, <2>2, <1>1, <1>2
  <2>4. PICK d \in DOMAIN bufs : bufs[d].status = "EagerFree" /\ bufs[d].addr <= y /\ y < End(bufs[d])
    BY <2>3, <1>3
  <2>5. bufs[c].next # NoBuf
    <3>1. End(bufs[c]) # bufs[c].mem_block + blocks[bufs[c].mem_block].size
      <4>1. blocks[bufs[c].mem_block].size \in Nat
        BY ShapeFacts DEF Shape, BlocksOK, BlockOK
      <4> QED
        BY <4>1, <2>1, <1>1, <1>2
    <3> QED
      BY <3>1 DEF Shape, LinksExact
  <2>6. PICK q \in DOMAIN bufs : q = bufs[c].next /\ bufs[q].addr = bufs[c].addr + bufs[c].size
    BY <2>5, NextFacts
  <2>7. bufs[q].addr \in Nat /\ bufs[q].size \in Nat /\ bufs[q].size > 0 /\ End(bufs[q]) = bufs[q].addr + bufs[q].size
    BY ShapeFacts
  <2>8. bufs[d].addr \in Nat /\ bufs[d].size \in Nat /\ End(bufs[d]) = bufs[d].addr + bufs[d].size
    BY ShapeFacts
  <2>9. d # q => End(bufs[d]) <= bufs[q].addr \/ End(bufs[q]) <= bufs[d].addr
    BY DEF Shape, BytesExact
  <2>10. d = q
    BY <2>2, <2>3, <2>4, <2>6, <2>7, <2>8, <2>9, <1>2
  <2>11. Apart(bufs, c)
    BY DEF Merged
  <2> QED
    BY <2>4, <2>5, <2>6, <2>10, <2>11, <1>4 DEF Apart
<1> QED
  BY <1>1, <1>2, <1>5, <1>6 DEF PageIn

\* No byte is in two blocks.
LEMMA BlockUnique ==
  ASSUME NEW bufs, NEW blocks, Shape(bufs, blocks), NEW b \in DOMAIN blocks, NEW c \in DOMAIN blocks, NEW x \in Nat,
         b <= x, x < b + blocks[b].size, c <= x, x < c + blocks[c].size
  PROVE  b = c
<1>1. b \in Nat /\ c \in Nat /\ blocks[b].size \in Nat /\ blocks[c].size \in Nat
  BY BytesFinite DEF Shape, BlocksOK, BlockOK
<1>2. x \in b .. b + blocks[b].size - 1 /\ x \in c .. c + blocks[c].size - 1
  BY <1>1
<1>3. PICK d \in DOMAIN bufs : bufs[d].mem_block = b /\ bufs[d].addr <= x /\ x < End(bufs[d])
  BY <1>2 DEF Shape, BytesExact
<1>4. PICK e \in DOMAIN bufs : bufs[e].mem_block = c /\ bufs[e].addr <= x /\ x < End(bufs[e])
  BY <1>2 DEF Shape, BytesExact
<1>5. d # e => End(bufs[d]) <= bufs[e].addr \/ End(bufs[e]) <= bufs[d].addr
  BY DEF Shape, BytesExact
<1>6. /\ bufs[d].addr \in Nat /\ End(bufs[d]) \in Nat /\ bufs[e].addr \in Nat /\ End(bufs[e]) \in Nat
  BY ShapeFacts
<1> QED
  BY <1>3, <1>4, <1>5, <1>6

\* The pages that eager freeing takes the handles of are those that are now eager-free.
LEMMA EvictedPages ==
  ASSUME EnableVmm, NEW s, Paged(s), NEW t, NEW a, Widened(s, t, a), Shape(t.bufs, t.blocks), Merged(t.bufs),
         NEW r, r.bufs = t.bufs, r.blocks = t.blocks, Remapped(t.vmm, r.vmm),
         MappedPages(r.vmm) = MappedPages(t.vmm) \ PagesWithin(t.bufs, Listed(t, DOMAIN t.bufs, a, "EagerFree"))
  PROVE  Paged(r)
<1> DEFINE E == EagerBytes(s.bufs)
           F == EagerBytes(t.bufs)
           L == Listed(t, DOMAIN t.bufs, a, "EagerFree")
<1>1. /\ t.vmm = s.vmm /\ t.blocks = s.blocks /\ E \subseteq F
      /\ \A x \in F \ E : InBlockOf(t.blocks, a, x)
  BY DEF Widened
<1>2. AdapterOK(r.vmm) /\ DOMAIN r.vmm.map = DOMAIN s.vmm.map
  BY <1>1 DEF Remapped
<1>3. ASSUME NEW p \in PagesWithin(t.bufs, L) PROVE PageBytes(p) \subseteq F
  <2>1. PICK c \in L : PageIn(p, t.bufs[c].addr, t.bufs[c].size) /\ p \in Nat
    BY DEF PagesWithin
  <2>2. c \in DOMAIN t.bufs /\ t.bufs[c].status = "EagerFree"
    BY DEF Listed
  <2>3. t.bufs[c].addr \in Nat /\ t.bufs[c].size \in Nat /\ End(t.bufs[c]) = t.bufs[c].addr + t.bufs[c].size
    BY <2>2, ShapeFacts
  <2>4. ASSUME NEW x \in PageBytes(p) PROVE x \in F
    <3>1. x \in Nat /\ p * PageSize \in Nat /\ PageSize \in Nat
      BY <2>1, PageUnique, PageOrder, VmmAssumption
    <3>2. p * PageSize <= x /\ x <= p * PageSize + PageSize - 1
      BY <3>1 DEF PageBytes
    <3>3. t.bufs[c].addr <= x /\ x < End(t.bufs[c])
      BY <3>1, <3>2, <2>1, <2>3 DEF PageIn
    <3>4. x \in Bytes
      <4>1. x \in t.bufs[c].addr .. End(t.bufs[c]) - 1
        BY <3>1, <3>3, <2>3
      <4> QED
        BY <4>1, <2>2, AddrInBytes
    <3> QED
      BY <3>3, <3>4, <2>2 DEF EagerBytes
  <2> QED
    BY <2>4
<1>4. ASSUME NEW base \in DOMAIN t.blocks PROVE PagesExact(r.vmm, r.bufs, base, r.blocks[base].size)
  <2>1. PagesExact(s.vmm, s.bufs, base, t.blocks[base].size) /\ AdapterOK(s.vmm)
    BY <1>1 DEF Paged
  <2>2. PICK i \in DOMAIN s.vmm.map, j \in DOMAIN s.vmm.map :
          /\ base = i * PageSize /\ base + t.blocks[base].size = j * PageSize + PageSize
          /\ \A p \in i .. j : p \in MappedPages(s.vmm) <=> ~ (PageBytes(p) \subseteq E)
    BY <2>1 DEF PagesExact
  <2>3. i \in Nat /\ j \in Nat
    BY <2>1, AdapterFacts
  <2>4. ASSUME NEW p \in i .. j PROVE p \in MappedPages(r.vmm) <=> ~ (PageBytes(p) \subseteq F)
    <3>1. p \in Nat /\ i <= p /\ p <= j
      BY <2>3
    <3>2. p \in MappedPages(r.vmm) <=> ~ (PageBytes(p) \subseteq E) /\ p \notin PagesWithin(t.bufs, L)
      BY <2>2, <1>1
    <3>3. ASSUME PageBytes(p) \subseteq F, ~ (PageBytes(p) \subseteq E) PROVE p \in PagesWithin(t.bufs, L)
      <4>1. PICK x \in PageBytes(p) : x \in F /\ x \notin E
        BY <3>3
      <4>2. PICK m \in DOMAIN t.blocks : t.blocks[m].owner = a /\ m <= x /\ x < m + t.blocks[m].size
        BY <4>1, <1>1 DEF InBlockOf
      <4>3. PICK lo \in Nat : lo = p * PageSize /\ PageSize \in Nat \ {0} /\ PageBytes(p) = lo .. lo + PageSize - 1
        BY <3>1, PageOrder, VmmAssumption DEF PageBytes
      <4>4. base <= lo /\ lo + PageSize <= base + t.blocks[base].size /\ base \in Nat /\ base + t.blocks[base].size \in Nat
        <5>1. PICK bi, bj \in Nat : bi = i * PageSize /\ bj = j * PageSize
          BY <2>3, PageOrder
        <5>2. bi <= lo /\ lo <= bj
          BY <5>1, <4>3, <3>1, <2>3, PageOrder
        <5> QED
          BY <5>1, <5>2, <4>3, <2>2
      <4>5. x \in Nat /\ base <= x /\ x < base + t.blocks[base].size
        BY <4>3, <4>4
      <4>6. base = m
        BY <4>2, <4>5, BlockUnique
      <4>7. PICK c \in DOMAIN t.bufs : t.bufs[c].status = "EagerFree" /\ t.bufs[c].addr <= x /\ x < End(t.bufs[c])
        BY <4>1 DEF EagerBytes
      <4>8. t.bufs[c].mem_block = base
        <5>1. PICK n : n = t.bufs[c].mem_block
          OBVIOUS
        <5>2. /\ n \in DOMAIN t.blocks /\ n \in Nat /\ n <= t.bufs[c].addr /\ t.bufs[c].addr \in Nat /\ End(t.bufs[c]) \in Nat
              /\ End(t.bufs[c]) <= n + t.blocks[n].size /\ t.blocks[n].size \in Nat
          BY <5>1, ShapeFacts DEF Shape, BlocksOK, BlockOK
        <5>3. n <= x /\ x < n + t.blocks[n].size
          BY <5>2, <4>5, <4>7
        <5>4. n = base
          BY <5>2, <5>3, <4>5, BlockUnique
        <5> QED
          BY <5>1, <5>4
      <4>9. PageIn(p, t.bufs[c].addr, t.bufs[c].size)
        <5>1. t.bufs[c].mem_block <= p * PageSize
              /\ p * PageSize + PageSize <= t.bufs[c].mem_block + t.blocks[t.bufs[c].mem_block].size
          BY <4>3, <4>4, <4>8
        <5>2. PICK bufs, blocks : bufs = t.bufs /\ blocks = t.blocks
          OBVIOUS
        <5>3. PageIn(p, bufs[c].addr, bufs[c].size)
          BY <5>1, <5>2, <4>7, <3>1, <3>3, EagerRun
        <5> QED
          BY <5>2, <5>3
      <4>10. c \in L
        BY <4>2, <4>6, <4>7, <4>8 DEF Listed, Owner
      <4> HIDE DEF L
      <4> QED
        BY <4>9, <4>10, <3>1 DEF PagesWithin
    <3>4. PageBytes(p) \subseteq E => PageBytes(p) \subseteq F
      BY <1>1
    <3> QED
      BY <3>2, <3>3, <3>4, <1>3
  <2>5. i \in DOMAIN r.vmm.map /\ j \in DOMAIN r.vmm.map
    BY <1>2
  <2> QED
    BY <2>2, <2>4, <2>5 DEF PagesExact
<1> QED
  BY <1>2, <1>4 DEF Paged

LEMMA FreeIdleMemsOK ==
  ASSUME EnableVmm, NEW s, Good(s), NEW a \in Allocators, NEW r, r = FreeIdleMems(s, a)
  PROVE  Good(r) /\ Unhurt(s, r, {}) /\ Sealed(s, r)
<1> DEFINE S == s.lists[a]["Idle"]
           w == [tag |-> "idle", a |-> a, bufs |-> s.bufs]
           Pick(T) == CHOOSE c \in T : \A b \in T : b = c \/ Before(s.bufs, b, c)
           Def(f) == [T \in SUBSET S |-> IF T = {} THEN s ELSE IdleStep(f[T \ {Pick(T)}], a, Pick(T))]
<1>1. /\ Calm(s) /\ Pooled(s) /\ ListsExact(s, {}) /\ AddrsExact(s, {}) /\ Deferred(s.bufs, {}) /\ Waiting(s) /\ Paged(s)
      /\ "Idle" \in FreeStatus /\ "EagerFree" \in FreeStatus
  BY DEF Good, Kept, Calm, FreeStatus
<1>2. PICK g : /\ g = CHOOSE f : f = Def(f)
               /\ r = [g[S] EXCEPT !.lists[a]["Idle"] = {},
                                   !.vmm = Evict(@, g[S].bufs, g[S].lists[a]["EagerFree"])]
  BY DEF FreeIdleMems, MapThenFoldSet, FoldSet, IdleStep, Before, Evict
<1>3. S = Listed(s, DOMAIN s.bufs, a, "Idle")
  BY <1>1 DEF ListsExact
<1>4. S \subseteq DOMAIN s.bufs
  BY <1>3 DEF Listed
<1>5. IsFiniteSet(S)
  <2> HIDE DEF S
  <2> QED
    BY <1>1, <1>4, BufsFinite
<1> HIDE DEF S
<1>6. \A T : LastOf(w, T) = Pick(T)
  BY DEF LastOf
<1>7. ASSUME NEW T \in SUBSET S, T # {} PROVE LastOf(w, T) \in T
  <2>1. w.tag = "idle" /\ w.bufs = s.bufs
    OBVIOUS
  <2>2. T \subseteq DOMAIN s.bufs
    BY <1>4
  <2> HIDE DEF w
  <2> QED
    BY <2>1, <2>2, <1>1, <1>7, LastIdle
<1>8. \A acc, x : Step(w, acc, x) = IdleStep(acc, a, x)
  BY DEF Step
<1>9. \A f : Def(f) = [T \in SUBSET S |-> IF T = {} THEN s ELSE Step(w, f[T \ {LastOf(w, T)}], LastOf(w, T))]
  <2> HIDE DEF w, Pick
  <2> QED
    BY <1>6, <1>8
<1>10. \A f : IsFold(f, w, s, S) <=> f = Def(f)
  BY <1>9 DEF IsFold
<1>11. \E f : f = Def(f)
  <2>1. \E f : IsFold(f, w, s, S)
    <3> HIDE DEF w
    <3> QED
      BY <1>5, <1>7, FoldExists
  <2> HIDE DEF Def
  <2> QED
    BY <2>1, <1>10
<1> HIDE DEF Def
<1>12. IsFold(g, w, s, S)
  BY <1>2, <1>10, <1>11
<1>13. \A acc, T : FoldGood(w, s, S, acc, T) <=> Eager(acc, s, a, S \ T)
  BY DEF FoldGood
<1>14. FoldGood(w, s, S, s, {})
  <2>1. \A x \in Allocators, st \in FreeStatus : s.lists[x][st] = Listed(s, DOMAIN s.bufs, x, st)
    BY <1>1 DEF ListsExact
  <2>2. Unhurt(s, s, {})
    BY DEF Unhurt, SameBuf
  <2>3. Eager(s, s, a, S)
    BY <2>1, <2>2, <1>1, <1>3 DEF Eager, Widened, Sealed, Settled
  <2> QED
    BY <2>3, <1>13
<1> HIDE DEF w
<1>15. ASSUME NEW T \in SUBSET S, NEW acc, T # {}, FoldGood(w, s, S, acc, T \ {LastOf(w, T)})
       PROVE  FoldGood(w, s, S, Step(w, acc, LastOf(w, T)), T)
  <2>1. PICK b : b = LastOf(w, T)
    OBVIOUS
  <2>2. b \in T /\ b \in S
    BY <2>1, <1>7, <1>15
  <2>3. PICK R : R = S \ (T \ {b})
    OBVIOUS
  <2>4. Eager(acc, s, a, R) /\ b \in R /\ R \ {b} = S \ T
    BY <2>1, <2>2, <2>3, <1>13, <1>15
  <2>5. PICK z : z = IdleStep(acc, a, b)
    OBVIOUS
  <2>6. Eager(z, s, a, R \ {b})
    BY <2>4, <2>5, IdleStepOK
  <2> QED
    BY <2>1, <2>4, <2>5, <2>6, <1>8, <1>13
<1>16. FoldGood(w, s, S, g[S], S)
  BY <1>5, <1>7, <1>12, <1>14, <1>15, FoldInduction
<1>17. PICK t : t = g[S]
  OBVIOUS
<1>18. Eager(t, s, a, {})
  BY <1>13, <1>16, <1>17
<1>19. r = [t EXCEPT !.lists[a]["Idle"] = {}, !.vmm = Evict(@, t.bufs, t.lists[a]["EagerFree"])]
  BY <1>2, <1>17
<1>20. /\ Pooled(t) /\ Fields \subseteq DOMAIN t /\ t.lists \in [Allocators -> [FreeStatus -> SUBSET Nat]]
       /\ Merged(t.bufs) /\ QuietFree(t.bufs) /\ AddrsExact(t, {}) /\ Deferred(t.bufs, {}) /\ Waiting(t)
       /\ Unhurt(s, t, {}) /\ Widened(s, t, a) /\ Sealed(s, t)
       /\ \A x \in Allocators : t.lists[x]["EagerFree"] = Listed(t, DOMAIN t.bufs, x, "EagerFree")
       /\ \A x \in Allocators \ {a} : t.lists[x]["Idle"] = Listed(t, DOMAIN t.bufs, x, "Idle")
       /\ {} = Listed(t, DOMAIN t.bufs, a, "Idle")
  BY <1>18 DEF Eager, Calm, Pooled
<1>21. /\ r.bufs = t.bufs /\ r.blocks = t.blocks /\ r.addrs = t.addrs /\ r.pairs = t.pairs /\ r.inuse = t.inuse
       /\ r.stat = t.stat
       /\ r.lists = [t.lists EXCEPT ![a]["Idle"] = {}] /\ Fields \subseteq DOMAIN r
  BY <1>19, <1>20 DEF Fields
<1>22. ListsExact(r, {})
  <2>1. ASSUME NEW x \in Allocators, NEW y \in FreeStatus
        PROVE  r.lists[x][y] = Listed(r, DOMAIN r.bufs \ {}, x, y)
    <3>1. Listed(r, DOMAIN r.bufs \ {}, x, y) = Listed(t, DOMAIN t.bufs, x, y)
      BY <1>21 DEF Listed, Owner
    <3>2. r.lists[x][y] = IF x = a /\ y = "Idle" THEN {} ELSE t.lists[x][y]
      BY <1>1, <1>20, <1>21
    <3>3. y \in {"Idle", "EagerFree"}
      BY DEF FreeStatus
    <3> QED
      BY <3>1, <3>2, <3>3, <1>20
  <2> QED
    BY <2>1 DEF ListsExact
<1>23. Pooled(r)
  <2>1. r.lists \in [Allocators -> [FreeStatus -> SUBSET Nat]]
    BY <1>1, <1>20, <1>21
  <2> QED
    BY <2>1, <1>20, <1>21 DEF Pooled
<1>24. AddrsExact(r, {}) /\ Waiting(r)
  <2>1. AddrsExact(r, {})
    BY <1>20, <1>21, SameAddrs
  <2>2. Waiting(r)
    BY <1>20, <1>21, SameWaiting
  <2> QED
    BY <2>1, <2>2
<1>26. Paged(r)
  <2>1. PICK L : L = Listed(t, DOMAIN t.bufs, a, "EagerFree")
    OBVIOUS
  <2>2. t.lists[a]["EagerFree"] = L
    BY <2>1, <1>20
  <2>3. r.vmm = Evict(t.vmm, t.bufs, L)
    <3>1. PICK l : l = [t EXCEPT !.lists[a]["Idle"] = {}]
      OBVIOUS
    <3>2. r = [l EXCEPT !.vmm = Evict(l.vmm, t.bufs, L)] /\ l.vmm = t.vmm /\ DOMAIN l = DOMAIN t
      BY <3>1, <2>2, <1>19
    <3> QED
      BY <3>2, <1>20 DEF Fields
  <2>4. IsFiniteSet(L)
    <3>1. L \subseteq DOMAIN t.bufs
      BY <2>1 DEF Listed
    <3> QED
      BY <3>1, <1>20, BufsFinite
  <2>5. PICK u : u = t.vmm
    OBVIOUS
  <2>6. AdapterOK(u) /\ r.vmm = Evict(u, t.bufs, L)
    BY <2>3, <2>5, <1>1, <1>20 DEF Paged, Widened
  <2>7. Remapped(u, r.vmm) /\ MappedPages(r.vmm) = MappedPages(u) \ PagesWithin(t.bufs, L)
    BY <2>4, <2>6, EvictOK
  <2>8. Shape(t.bufs, t.blocks)
    BY <1>20 DEF Pooled
  <2> QED
    BY <2>1, <2>5, <2>7, <2>8, <1>1, <1>20, <1>21, EvictedPages
<1>25. Good(r)
  BY <1>20, <1>21, <1>22, <1>23, <1>24, <1>26 DEF Good, Kept, Calm
<1>27. Sealed(s, r)
  <2>1. Sealed(t, r)
    BY <1>21, SameSealed
  <2> QED
    BY <2>1, <1>20, SealedTwice
<1> QED
  BY <1>20, <1>21, <1>25, <1>27 DEF Unhurt, SameBuf

\* FreeIdleMemsByEagerFree visits every allocator.
LEMMA FreeAllIdleOK ==
  ASSUME EnableVmm, IsFiniteSet(Streams), NEW s, Good(s), NEW r, r = FreeIdleMemsByEagerFree(s)
  PROVE  Good(r) /\ Unhurt(s, r, {}) /\ Sealed(s, r)
<1> DEFINE S == Allocators
           w == [tag |-> "all"]
           Def(f) == [T \in SUBSET S |-> IF T = {} THEN s
                        ELSE FreeIdleMems(f[T \ {CHOOSE x \in T : TRUE}], CHOOSE x \in T : TRUE)]
<1>1. PICK g : r = [g[S] EXCEPT !.defrag = TRUE] /\ g = CHOOSE f : f = Def(f)
  BY DEF FreeIdleMemsByEagerFree, FoldSet, MapThenFoldSet
<1>2. IsFiniteSet(S)
  <2>1. IsFiniteSet(BOOLEAN)
    <3>1. IsFiniteSet({TRUE}) /\ BOOLEAN = {TRUE} \cup {FALSE}
      BY FS_Singleton
    <3> QED
      BY <3>1, FS_AddElement
  <2> QED
    BY <2>1, FS_Product DEF Allocators
<1> HIDE DEF S
<1>3. \A T : LastOf(w, T) = CHOOSE x \in T : TRUE
  BY DEF LastOf
<1>4. \A T \in SUBSET S : T # {} => LastOf(w, T) \in T
  BY <1>3
<1>5. \A acc, x : Step(w, acc, x) = FreeIdleMems(acc, x)
  BY DEF Step
<1>6. \A f : Def(f) = [T \in SUBSET S |-> IF T = {} THEN s ELSE Step(w, f[T \ {LastOf(w, T)}], LastOf(w, T))]
  BY <1>3, <1>5
<1>7. \A f : IsFold(f, w, s, S) <=> f = Def(f)
  BY <1>6 DEF IsFold
<1>8. \E f : f = Def(f)
  <2>1. \E f : IsFold(f, w, s, S)
    <3> HIDE DEF w
    <3> QED
      BY <1>2, <1>4, FoldExists
  <2> HIDE DEF Def
  <2> QED
    BY <2>1, <1>7
<1> HIDE DEF Def
<1>9. IsFold(g, w, s, S)
  BY <1>1, <1>7, <1>8
<1>10. \A acc, T : FoldGood(w, s, S, acc, T) <=> Good(acc) /\ Unhurt(s, acc, {}) /\ Sealed(s, acc)
  BY DEF FoldGood
<1>11. FoldGood(w, s, S, s, {})
  BY <1>10 DEF Unhurt, SameBuf, Sealed, Settled
<1> HIDE DEF w
<1>12. ASSUME NEW T \in SUBSET S, NEW acc, T # {}, FoldGood(w, s, S, acc, T \ {LastOf(w, T)})
       PROVE  FoldGood(w, s, S, Step(w, acc, LastOf(w, T)), T)
  <2>1. PICK a \in Allocators : a = LastOf(w, T)
    BY <1>4, <1>12 DEF S
  <2>2. Good(acc) /\ Unhurt(s, acc, {}) /\ Sealed(s, acc)
    BY <1>10, <1>12
  <2>3. PICK z : z = FreeIdleMems(acc, a)
    OBVIOUS
  <2>4. Good(z) /\ Unhurt(acc, z, {}) /\ Sealed(acc, z)
    BY <2>2, <2>3, FreeIdleMemsOK
  <2>5. Unhurt(s, z, {}) /\ Sealed(s, z)
    <3>1. Unhurt(s, z, {})
      BY <2>2, <2>4 DEF Unhurt, SameBuf
    <3> QED
      BY <3>1, <2>2, <2>4, SealedTwice
  <2> QED
    BY <2>1, <2>3, <2>4, <2>5, <1>5, <1>10
<1>13. FoldGood(w, s, S, g[S], S)
  BY <1>2, <1>4, <1>9, <1>11, <1>12, FoldInduction
<1>14. PICK t : t = g[S]
  OBVIOUS
<1>15. Good(t) /\ Unhurt(s, t, {}) /\ Sealed(s, t) /\ r = [t EXCEPT !.defrag = TRUE]
  BY <1>1, <1>10, <1>13, <1>14
<1>16. Fields \subseteq DOMAIN t
  BY <1>15 DEF Good, Kept, Calm, Pooled
<1>17. Same(t, r)
  BY <1>15, <1>16 DEF Same, Fields
<1>19. Paged(r)
  <2>1. Paged(t) /\ r.vmm = t.vmm /\ r.blocks = t.blocks /\ r.bufs = t.bufs
    BY <1>15, <1>16 DEF Fields, Good
  <2>2. EagerKept(t.bufs, r.bufs)
    BY <2>1 DEF EagerKept
  <2> QED
    BY <2>1, <2>2, SamePages
<1>18. Good(r) /\ Unhurt(t, r, {})
  BY <1>15, <1>17, <1>19, SameOK, GoodNearly
<1>20. Unhurt(s, r, {})
  BY <1>15, <1>18 DEF Unhurt, SameBuf
<1>21. Sealed(t, r)
  <2>1. r.stat = t.stat
    BY <1>15, <1>16 DEF Fields
  <2> QED
    BY <2>1, <1>17, SameSealed DEF Same
<1> QED
  BY <1>15, <1>18, <1>20, <1>21, SealedTwice
=============================================================================
