------------------------------- MODULE MemPool -------------------------------
(***************************************************************************)
(* AbstractDynamicMemPool (memory/abstract_dynamic_memory_pool.cc): the    *)
(* public operations of the dynamic memory pool, one action each.  lock_   *)
(* is held for the whole of every operation, so an operation is one step;  *)
(* AllocContinuousTensorMem alone drops the lock half way and is two.      *)
(***************************************************************************)
EXTENDS MemBufAllocator

CONSTANTS
  Sizes,         \* sizes clients ask for
  Persistence,   \* values of from_persistent_mem clients use
  SizeLists,     \* size lists of AllocContinuousTensorMem
  MaxTask,       \* bound on task ids
  MaxEventSize,  \* bound on used_by_event_size_
  WaitIds,       \* number of values of uint32_t, in which WaitEvent takes task ids
  MaxEagerDrift, \* bound on what failed mappings may take off eager_free_size_
  FreePartWithEvents,  \* may FreePartTensorMems meet buffers with events?
  StatResets     \* do clients reset the maximum statistics?

ASSUME RequestAssumption ==
  /\ IsFiniteSet(Streams)
  /\ Sizes \subseteq Nat
  /\ Persistence \subseteq BOOLEAN
  /\ SizeLists \subseteq Seq(Nat \ {0}) \ {<<>>}
  /\ MaxTask \in Nat
  /\ WaitIds \in Nat \ {0}

VARIABLES
  pool,   \* the pool state: see MemBufAllocator
  task,   \* latest task id launched on each user stream
  cont    \* an AllocContinuousTensorMem between its two critical sections

vars == <<pool, task, cont>>

NoStat == [used_size |-> 0, peak_size |-> 0, alloc_size |-> 0,
           used_by_event_size |-> 0, eager_free_size |-> 0, eager_drift |-> 0,
           temp_used_size |-> 0, temp_used_by_event_size |-> 0,
           temp_peak_size |-> 0, temp_alloc_size |-> 0]

EmptyPool ==
  [bufs   |-> [i \in {} |-> MemBuf(0, 0, 0, 0, "Idle")],
   blocks |-> [i \in {} |-> 0],
   lists  |-> [a \in Allocators |-> [st \in FreeStatus |-> {}]],
   addrs  |-> [i \in {} |-> 0],
   pairs  |-> [p \in UserStreams \X Streams |-> {}],
   stat   |-> NoStat,
   defrag |-> FALSE,
   inuse  |-> {},
   given  |-> {},
   vmm    |-> EmptyVmm]

NoCont == [addr |-> 0, sizes |-> <<>>]

-----------------------------------------------------------------------------
(* Routines shared by the public operations.                               *)

AlignMemorySize(size) ==
  IF size = 0 THEN AlignSize ELSE ((size + AlignSize - 1) \div AlignSize) * AlignSize

\* MemStat::UpdatePeakSize
UpdatePeakSize(st) ==
  [st EXCEPT !.peak_size = Max({@, st.used_size}),
             !.temp_peak_size = Max({@, st.used_size - st.temp_used_size})]

\* Accounts for the size after merging.
AfterFreeMutant(f, b, addr, size) ==
  IF f.freed THEN [f.s EXCEPT !.stat.used_size = @ - f.s.bufs[b].size,
                              !.addrs = Without(@, addr)]
  ELSE f.s

\* Leaves the freed address in the index.
AfterFreeKeepsAddr(f, b, addr, size) ==
  IF f.freed THEN [f.s EXCEPT !.stat.used_size = @ - size] ELSE f.s

\* DoFreeTensorMem behind its call of Free, f the outcome of that call: the
\* statistics and the index change only if the buffer was freed at once.
AfterFree(f, b, addr, size) ==
  IF f.freed THEN [f.s EXCEPT !.stat.used_size = @ - size, !.addrs = Without(@, addr)]
  ELSE f.s

\* DoFreeTensorMem: an unknown address is ignored.
DoFreeTensorMem(s, addr) ==
  LET e == s.addrs[addr]
  IN  IF addr \notin DOMAIN s.addrs THEN s
      ELSE AfterFree(Free(s, e.alloc, e.buf, "Idle"), e.buf, addr, s.bufs[e.buf].size)

\* EventBase::SyncAllEvents on one buffer, which drops its events (QueryEvent and
\* SyncEvent are commented out), then free it if it only waited for them.
SyncBuf(s, b) ==
  LET synced == [s EXCEPT !.bufs[b].events = NoEvents]
  IN  IF IsEventNotUsed(s.bufs[b]) THEN s
      ELSE IF s.bufs[b].status = "UsedByEvent"
      THEN DoFreeTensorMem(synced, s.bufs[b].addr)
      ELSE synced

\* used_by_event_size_ is left as it is, and no device task is waited for.
DoSyncAllEvents(s) ==
  LET carry == UNION {s.pairs[p] : p \in DOMAIN s.pairs}
      all   == FoldUp(SyncBuf, s, carry)
  IN  [all EXCEPT !.pairs = [p \in DOMAIN @ |-> {}],
                  !.inuse = {}, !.given = @ \cup s.inuse]

\* FreeIdleMemsByEagerFree of the pool: every allocator in turn.
FreeIdleMemsByEagerFree(s) ==
  [FoldSet(LAMBDA a, t : FreeIdleMems(t, a), s, Allocators) EXCEPT !.defrag = TRUE]

\* The answer r, or what another attempt makes of the state r left.
OrElse(r, Retry(_)) == IF r.buf # NoBuf THEN r ELSE Retry(r.s)

\* mem_stat_ after a successful AllocMemBuf.
CountUsed(r) ==
  LET used == [r.s.stat EXCEPT !.used_size = @ + r.s.bufs[r.buf].size]
  IN  IF r.buf = NoBuf THEN r ELSE [r EXCEPT !.s.stat = UpdatePeakSize(used)]

\* AllocMemBuf: own allocator; for persistent requests without VMM the common
\* allocator; with VMM eager-free everything idle and retry; a new block; and
\* last, synchronise all events and retry.  sync is SyncAllStreams' answer.
AllocMemBuf(s, size, persistent, sid, sync) ==
  LET own   == <<persistent, sid>>
      other == ~ EnableVmm /\ persistent
      from  == IF other THEN <<FALSE, sid>> ELSE own
      Common(t) == IF other THEN Malloc(t, from, size) ELSE Answer(t, own, NoBuf)
      Idle(t)   == IF EnableVmm THEN Malloc(FreeIdleMemsByEagerFree(t), from, size)
                   ELSE Answer(t, from, NoBuf)
      Expand(t) == MallocExpandBlock(t, from, size)
      Synced(t) == Malloc(DoSyncAllEvents(t), from, size)
      Harder(t) == IF EnableVmm /\ ~ sync THEN Answer(t, from, NoBuf)
                   ELSE OrElse(OrElse(Idle(t), Expand), Synced)
  IN  CountUsed(OrElse(OrElse(Malloc(s, own, size), Common), Harder))

\* AllocTensorMem: the new state and the address, 0 on failure.
DoAllocTensorMem(s, size, persistent, sid, sync) ==
  LET Enter(r, addr) ==
        [s |-> [r.s EXCEPT !.addrs = Emplace(@, addr, [buf |-> r.buf, alloc |-> r.alloc])],
         addr |-> addr]
      Publish(r) == IF r.buf = NoBuf THEN [s |-> r.s, addr |-> 0]
                    ELSE Enter(r, r.s.bufs[r.buf].addr)
  IN  Publish(AllocMemBuf(s, AlignMemorySize(size), persistent, sid, sync))

-----------------------------------------------------------------------------
(* The public operations.                                                  *)

AllocTensorMem(size, persistent, sid, sync) ==
  /\ pool.stat.eager_drift <= MaxEagerDrift
  /\ pool' = DoAllocTensorMem(pool, size, persistent, sid, sync).s
  /\ UNCHANGED <<task, cont>>

FreeTensorMem(addr) ==
  /\ pool' = DoFreeTensorMem(pool, addr)
  /\ UNCHANGED <<task, cont>>

\* A new piece of a buffer in use: chained behind prev and entered into the index.
InsertBehind(s, prev, piece, alloc) ==
  LET b == NewId(s)
  IN  [s EXCEPT !.bufs = Link(Put(@, b, piece), b, prev, s.bufs[prev].next),
                !.addrs = Emplace(@, piece.addr, [buf |-> b, alloc |-> alloc])]

\* AllocContinuousTensorMem up to the end of its inner AllocTensorMem.
AllocContinuousBegin(sizes, sid, sync) ==
  LET total == FoldLeft(+, 0, sizes)
  IN  /\ cont = NoCont
      /\ pool.stat.eager_drift <= MaxEagerDrift
      /\ \E r \in {DoAllocTensorMem(pool, total, FALSE, sid, sync)} :
           /\ pool' = r.s
           /\ cont' = IF r.addr = 0 \/ Len(sizes) = 1 THEN NoCont
                      ELSE [addr |-> r.addr, sizes |-> sizes]
      /\ UNCHANGED task

\* The second critical section: cut the buffer into the pieces asked for.
\* total_size is the sum of the sizes, so no piece gets the alignment slack.
AllocContinuousSplit ==
  LET e     == pool.addrs[cont.addr]
      first == pool.bufs[e.buf]
      cut(acc, i) ==
        LET new == MemBuf(cont.sizes[i], acc.addr, first.stream_id, first.mem_block, "Used")
        IN  [s |-> InsertBehind(acc.s, acc.prev, new, e.alloc),
             addr |-> acc.addr + cont.sizes[i], prev |-> NewId(acc.s)]
      start == [s |-> [pool EXCEPT !.bufs[e.buf].size = cont.sizes[1]],
                addr |-> cont.addr + cont.sizes[1], prev |-> e.buf]
  IN  /\ cont # NoCont
      /\ pool' = IF cont.addr \in DOMAIN pool.addrs
                 THEN FoldUp(cut, start, 2 .. Len(cont.sizes)).s
                 ELSE pool
      /\ cont' = NoCont
      /\ UNCHANGED task

\* One iteration of the keep loop of DoFreePartTensorMems, for a range that
\* starts in candidate buffer b.
KeepPart(s, cands, b, keep) ==
  LET buf  == s.bufs[b]
      own  == s.addrs[buf.addr].alloc
      end  == buf.addr + buf.size
      keep_end == keep.addr + keep.size
      k    == IF keep.addr = buf.addr THEN b ELSE NewId(s)
      Piece(size, addr) == MemBuf(size, addr, buf.stream_id, buf.mem_block, buf.status)
      kept == IF k = b
              THEN [s EXCEPT !.bufs[b].size = keep.size]
              ELSE [InsertBehind(s, b, Piece(keep.size, keep.addr), own)
                      EXCEPT !.bufs[b].size = keep.addr - buf.addr]
      free == IF k = b THEN cands \ {buf.addr} ELSE cands
  IN  IF keep_end >= end
      THEN [s |-> kept, cands |-> free]
      ELSE [s |-> InsertBehind(kept, k, Piece(end - keep_end, keep_end), own),
            cands |-> free \cup {keep_end}]

\* DoFreePartTensorMems: keep the given range, free the rest of the buffers.
DoFreePart(s, free_addrs, keep) ==
  LET cands == free_addrs \cap DOMAIN s.addrs
      below == {a \in cands : a <= keep.addr}
      b     == s.addrs[Max(below)].buf
      whole == [s |-> s, cands |-> cands]
      split == IF below = {} THEN whole
               ELSE IF keep.addr >= s.bufs[b].addr + s.bufs[b].size THEN whole
               ELSE KeepPart(s, cands, b, keep)
  IN  FoldUp(DoFreeTensorMem, split.s, split.cands)

\* A client gives up buffers it holds but keeps one range inside one of them.
FreePartTensorMems(free_addrs, keep) ==
  /\ \A a \in free_addrs :
       /\ pool.bufs[pool.addrs[a].buf].status = "Used"
       /\ FreePartWithEvents \/ IsEventNotUsed(pool.bufs[pool.addrs[a].buf])
  /\ cont.addr \notin free_addrs
  /\ pool' = DoFreePart(pool, free_addrs, keep)
  /\ UNCHANGED <<task, cont>>

\* RecordEvent for one address: task t of stream u uses the buffer.
RecordEvent(t, u, addr) ==
  LET b   == pool.addrs[addr].buf
      buf == pool.bufs[b]
  IN  /\ buf.status = "Used"
      /\ addr # cont.addr
      /\ t >= task[u]
      /\ pool.stat.used_by_event_size + buf.size <= MaxEventSize
      /\ Len(buf.events[u]) < MaxTask
      /\ pool' = [pool EXCEPT
           !.stat.used_by_event_size = @ + IF IsEventNotUsed(buf) THEN buf.size ELSE 0,
           !.bufs[b].events[u] = Append(@, t),
           !.pairs[<<u, buf.stream_id>>] = @ \cup {b},
           !.inuse = @ \cup {[byte |-> x, user |-> u, mem |-> buf.stream_id, task |-> t] :
                               x \in BytesOf(buf)}]
      /\ task' = [task EXCEPT ![u] = t]
      /\ UNCHANGED cont

\* EventBase::WaitEvent: drop the leading events up to task t, which its
\* parameter cuts to 32 bits.
DropWaited(events, t) ==
  LET done == {i \in 1 .. Len(events) : \A j \in 1 .. i : events[j] <= t % WaitIds}
  IN  SubSeq(events, Cardinality(done) + 1, Len(events))

\* Forgets to free what only waited for its events.
WaitBufNoFree(s, b, t, u, m) ==
  LET s1 == [s EXCEPT !.bufs[b].events[u] = DropWaited(@, t)]
  IN  IF ~ IsEventNotUsed(s1.bufs[b]) THEN s1
      ELSE [s1 EXCEPT !.pairs[<<u, m>>] = @ \ {b},
                      !.stat.used_by_event_size = @ - s.bufs[b].size]

\* Gives the size back although later events are pending.
WaitBufEarly(s, b, t, u, m) ==
  LET s1 == [s EXCEPT !.bufs[b].events[u] = DropWaited(@, t),
                      !.stat.used_by_event_size = @ - s.bufs[b].size]
      s3 == [s1 EXCEPT !.pairs = [p \in DOMAIN @ |-> @[p] \ {b}]]
  IN  IF ~ IsEventNotUsed(s1.bufs[b]) THEN s1
      ELSE IF s.bufs[b].status = "UsedByEvent"
      THEN DoFreeTensorMem(s3, s.bufs[b].addr)
      ELSE s3

\* What both WaitEvent overloads do with one buffer of stream pair <<u, m>>.
WaitBuf(s, b, t, u, m) ==
  LET s1 == [s EXCEPT !.bufs[b].events[u] = DropWaited(@, t)]
      s2 == [s1 EXCEPT !.pairs[<<u, m>>] = @ \ {b},
                       !.stat.used_by_event_size = @ - s.bufs[b].size]
      s3 == [s2 EXCEPT !.pairs = [p \in DOMAIN @ |-> @[p] \ {b}]]
  IN  IF ~ IsEventNotUsed(s1.bufs[b]) THEN s1
      ELSE IF s.bufs[b].status = "UsedByEvent"
      THEN DoFreeTensorMem(s3, s.bufs[b].addr)
      ELSE s2

\* Both overloads walk a copy of the pair's set.
WaitPair(s, t, u, m) ==
  LET step(acc, b) == WaitBuf(acc, b, t, u, m)
      Ended(x) == x.user = u /\ x.mem = m /\ x.task <= t
  IN  FoldUp(step, [s EXCEPT !.inuse = {x \in @ : ~ Ended(x)}, !.given = {x \in @ : ~ Ended(x)}],
             s.pairs[<<u, m>>])

\* WaitEvent(task, user stream, memory stream).
WaitEvent(t, u, m) ==
  /\ pool' = WaitPair(pool, t, u, m)
  /\ UNCHANGED <<task, cont>>

\* WaitEvent(task, memory stream): every user stream's pair with m.
WaitPairs(s, t, m) == FoldSet(LAMBDA u, acc : WaitPair(acc, t, u, m), s, UserStreams)

WaitEventAll(t, m) ==
  /\ pool' = WaitPairs(pool, t, m)
  /\ UNCHANGED <<task, cont>>

SyncAllEvents ==
  /\ pool' = DoSyncAllEvents(pool)
  /\ UNCHANGED <<task, cont>>

\* DefragMemory: only with VMM, and only after an eager free since the last one.
DefragMemory ==
  /\ EnableVmm
  /\ pool.defrag
  /\ pool' = [FreeIdleMemsByEagerFree(pool) EXCEPT !.defrag = FALSE]
  /\ UNCHANGED <<task, cont>>

ResetMaxMemReserved ==
  /\ StatResets
  /\ pool' = [pool EXCEPT !.stat.temp_alloc_size = pool.stat.alloc_size]
  /\ UNCHANGED <<task, cont>>

ResetMaxMemAllocated ==
  /\ StatResets
  /\ pool' = [pool EXCEPT !.stat.temp_used_size = pool.stat.used_size,
                          !.stat.temp_used_by_event_size = pool.stat.used_by_event_size,
                          !.stat.temp_peak_size = 0]
  /\ UNCHANGED <<task, cont>>

\* ReleaseDeviceRes: every buffer, block, list and statistic goes, and the events
\* with them; what a task does to memory given back to the device is no longer the
\* pool's.  The adapter is not told: FreeDeviceMem does not know its blocks.
ReleaseDeviceRes ==
  /\ cont = NoCont
  /\ pool' = [EmptyPool EXCEPT !.defrag = pool.defrag, !.vmm = pool.vmm]
  /\ UNCHANGED <<task, cont>>

Init ==
  /\ pool = EmptyPool
  /\ task = [u \in UserStreams |-> 1]
  /\ cont = NoCont

Next ==
  \/ \E size \in Sizes, p \in Persistence, sid \in Streams, sync \in BOOLEAN :
       AllocTensorMem(size, p, sid, sync)
  \/ \E addr \in DOMAIN pool.addrs : addr # cont.addr /\ FreeTensorMem(addr)
  \/ \E sizes \in SizeLists, sid \in Streams, sync \in BOOLEAN :
       AllocContinuousBegin(sizes, sid, sync)
  \/ AllocContinuousSplit
  \/ \E addr \in DOMAIN pool.addrs :
       \E keep \in [addr : BytesOf(pool.bufs[pool.addrs[addr].buf]), size : Sizes \ {0}] :
         /\ keep.addr + keep.size <= addr + pool.bufs[pool.addrs[addr].buf].size
         /\ FreePartTensorMems({addr}, keep)
  \/ \E addr \in DOMAIN pool.addrs, u \in UserStreams, t \in 1 .. MaxTask : RecordEvent(t, u, addr)
  \/ \E t \in 1 .. MaxTask, u \in UserStreams, m \in Streams : WaitEvent(t, u, m)
  \/ \E t \in 1 .. MaxTask, m \in Streams : WaitEventAll(t, m)
  \/ SyncAllEvents
  \/ DefragMemory
  \/ ResetMaxMemReserved
  \/ ResetMaxMemAllocated
  \/ ReleaseDeviceRes

Spec == Init /\ [][Next]_vars
-----------------------------------------------------------------------------
(* Correctness.                                                            *)

Live == DOMAIN pool.bufs
SizeOf(set) == SumFunction([b \in set |-> pool.bufs[b].size])
WithStatus(sts) == {b \in Live : pool.bufs[b].status \in sts}

\* "Memory block is composed of memory buf" (dynamic_memory_pool.h): the
\* buffers of a block are disjoint and cover it, and prev_/next_ chain them in
\* address order whatever sequence of splits and merges went before.
BlockComposedOfBufs ==
  /\ \A base \in DOMAIN pool.blocks :
       LET in == {b \in Live : pool.bufs[b].mem_block = base}
       IN  /\ UNION {BytesOf(pool.bufs[b]) : b \in in} = base .. base + pool.blocks[base].size - 1
           /\ \A b, c \in in : b # c => BytesOf(pool.bufs[b]) \cap BytesOf(pool.bufs[c]) = {}
  /\ \A b \in Live :
       LET n   == pool.bufs[b].next
           end == pool.bufs[b].addr + pool.bufs[b].size
           blk == pool.bufs[b].mem_block
       IN  IF n = NoBuf
           THEN end = blk + pool.blocks[blk].size
           ELSE /\ pool.bufs[n].addr = end
                /\ pool.bufs[n].prev = b
                /\ pool.bufs[n].mem_block = blk

\* Merging in Free is complete: no two neighbours are both idle or both
\* eager-free, so a request is refused only when no merge could satisfy it.
NoAdjacentFree ==
  \A b \in Live : LET n == pool.bufs[b].next
                  IN  n # NoBuf /\ pool.bufs[b].status \in FreeStatus
                        => pool.bufs[n].status # pool.bufs[b].status

\* addr_mem_buf_allocators_ lists exactly the buffers that are not free, each
\* under its own address and with the allocator that owns its block; the two
\* lists of an allocator hold exactly its idle and eager-free buffers.
IndexesExact ==
  /\ DOMAIN pool.addrs = {pool.bufs[b].addr : b \in Live \ WithStatus(FreeStatus)}
  /\ \A addr \in DOMAIN pool.addrs :
       LET e == pool.addrs[addr]
       IN  /\ e.buf \in Live
           /\ pool.bufs[e.buf].addr = addr
           /\ pool.blocks[pool.bufs[e.buf].mem_block].owner = e.alloc
  /\ \A a \in Allocators, st \in FreeStatus :
       pool.lists[a][st] = {b \in WithStatus({st}) : pool.blocks[pool.bufs[b].mem_block].owner = a}

\* used_size_ and alloc_size_ are what the buffers in use and the blocks add up
\* to, whatever splits, merges and resets came before; the recorded peaks are
\* never below what is in use, and the border of a block (ActualPeakSize) covers
\* every buffer handed out of it.
SizesExact ==
  /\ pool.stat.used_size = SizeOf(Live \ WithStatus(FreeStatus))
  /\ pool.stat.alloc_size = AllocatedMem(pool)
  /\ pool.stat.peak_size >= pool.stat.used_size
  /\ pool.stat.temp_peak_size >= pool.stat.used_size - pool.stat.temp_used_size
  /\ \A b \in Live \ WithStatus(FreeStatus) :
       LET blk == pool.blocks[pool.bufs[b].mem_block]
       IN  blk.min <= pool.bufs[b].addr /\ pool.bufs[b].addr + pool.bufs[b].size <= blk.max

Occupied(x) == \E b \in Live \ WithStatus(FreeStatus) : x.byte \in BytesOf(pool.bufs[b])

\* Memory whose event is recorded is neither idle nor eager-free before the event
\* is waited for, or dropped by SyncAllEvents: Free defers to them.
EventsProtect == \A x \in pool.inuse : Occupied(x)

\* Memory a device task may still touch is neither idle nor eager-free: what
\* EventsProtect says, and SyncAllEvents too waits before it drops an event
\* ("Sync event if event is not arrived.", dynamic_memory_pool.cc).
EventSafety == \A x \in pool.inuse \cup pool.given : Occupied(x)

\* A buffer given back while events were pending is still reachable for
\* WaitEvent: it has an event and the pair of that event lists it.  Otherwise
\* nothing would ever free it.
DeferredFreeReachable ==
  \A b \in WithStatus({"UsedByEvent"}) :
    \E u \in UserStreams : /\ pool.bufs[b].events[u] # <<>>
                           /\ b \in pool.pairs[<<u, pool.bufs[b].stream_id>>]

\* stream_pair_mem_bufs_ refers to a buffer only while that buffer is alive and
\* carries an event.  True of one user stream only: with two, WaitEvent takes a
\* buffer that is still used out of one pair and leaves it in the other
\* (MemPool_v_pairs.cfg).
PairsAreLive ==
  \A p \in DOMAIN pool.pairs : \A b \in pool.pairs[p] :
    b \in Live /\ ~ IsEventNotUsed(pool.bufs[b])

\* How the two counters that drift do so: used_by_event_size_ is never below the
\* memory that events refer to; and eager_free_size_, which the mapper lowers
\* before a mapping can fail, is short of the eager-free memory by exactly the
\* failed mappings, and wraps below zero when they exceed it.
CountersDrift ==
  /\ pool.stat.used_by_event_size >= SizeOf({b \in Live : ~ IsEventNotUsed(pool.bufs[b])})
  /\ pool.stat.eager_free_size
       = (SizeOf(WithStatus({"EagerFree"})) - pool.stat.eager_drift) % SizeT

\* Memory in use is backed: a buffer that is not eager-free has a handle on every
\* page it touches, also pages it shares with eager-free neighbours, and the
\* address handed out is not null.
Backed ==
  /\ 0 \notin DOMAIN pool.addrs
  /\ EnableVmm => \A b \in Live \ WithStatus({"EagerFree"}) :
       \A x \in BytesOf(pool.bufs[b]) : PageOf(x) \in MappedPages(pool.vmm)

\* Physical memory is neither lost nor given out twice, whatever mappings fail
\* half way, and a page of a live block keeps its handle only for a buffer that
\* is not eager-free: no failed mapping and no eager free leaves one behind.
HandlesExact ==
  /\ HandlesOf(pool.vmm)
  /\ \A base \in DOMAIN pool.blocks : \A x \in base .. base + pool.blocks[base].size - 1 :
       EnableVmm /\ PageOf(x) \in MappedPages(pool.vmm) =>
         \E b \in Live \ WithStatus({"EagerFree"}) :
           \E y \in BytesOf(pool.bufs[b]) : PageOf(y) = PageOf(x)

\* Fragmentation never makes the pool take a new block from the device when
\* an idle buffer of the same allocator was large enough for the request.
ExpandOnlyWhenNeeded ==
  [][\A base \in DOMAIN pool'.blocks \ DOMAIN pool.blocks :
       \A b \in pool.lists[pool'.blocks[base].owner]["Idle"] :
         \A addr \in DOMAIN pool'.addrs \ DOMAIN pool.addrs :
           pool.bufs[b].size < pool'.bufs[pool'.addrs[addr].buf].size]_vars
=============================================================================
