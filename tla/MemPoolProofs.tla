--------------------------- MODULE MemPoolProofs ----------------------------
(***************************************************************************)
(* Proofs about the memory pool: its blocks stay composed of buffers, its  *)
(* lists and its address index exact, free neighbours merged, memory with  *)
(* pending events out of the free lists, memory in use on pages with a     *)
(* handle, the handles of the VMM adapter each in one place and the        *)
(* statistics right; and a block is taken only when no idle buffer would   *)
(* do.                                                                     *)
(***************************************************************************)
EXTENDS MemPoolLemmas

-----------------------------------------------------------------------------
(* AllocTensorMem.                                                         *)

\* One attempt after another.
LEMMA RetryOK ==
  ASSUME NEW s, NEW t, NEW r, NEW size, Unhurt(s, t, {}), Answered(t, r, size)
  PROVE  Answered(s, r, size)
<1>1. Unhurt(s, r.s, {})
  BY DEF Answered, Unhurt, SameBuf
<1> QED
  BY <1>1 DEF Answered

\* What the routines answer has the fields of an answer.
Whole(r) == {"s", "alloc", "buf"} \subseteq DOMAIN r

LEMMA WholeAnswer ==
  ASSUME NEW s, NEW a, NEW size
  PROVE  /\ \A b : Whole(Answer(s, a, b))
         /\ \A b : Whole(MapAndSplitMemBuf(s, a, b, size))
         /\ Whole(MallocExpandBlock(s, a, size))
         /\ Whole(Malloc(s, a, size))
<1>1. \A t, b : Whole(Answer(t, a, b))
  BY DEF Whole, Answer
<1>2. \A t, b : Whole(HandOut(t, a, b))
  BY <1>1 DEF HandOut
<1>3. \A t, b : Whole(MapAndSplitMemBuf(t, a, b, size))
  <2> TAKE t, b
  <2>1. PICK m : m = IF t.bufs[b].status = "EagerFree"
                     THEN Mapper(t, t.bufs[b].addr, IF t.bufs[b].size - size >= AlignSize THEN size ELSE t.bufs[b].size)
                     ELSE [s |-> t, ok |-> TRUE]
    OBVIOUS
  <2>2. MapAndSplitMemBuf(t, a, b, size) =
          IF m.ok THEN HandOut(Split(m.s, a, b, size), a, b)
          ELSE Answer([m.s EXCEPT !.lists[a]["EagerFree"] = @ \cup {b}], a, NoBuf)
    BY <2>1 DEF MapAndSplitMemBuf
  <2>3. CASE m.ok
    BY <2>2, <2>3, <1>2
  <2>4. CASE ~ m.ok
    BY <2>2, <2>4, <1>1
  <2> QED
    BY <2>3, <2>4
<1>4. \A t, b, c : Whole(EnterBlock(t, a, b, c, size))
  BY <1>1, <1>3 DEF EnterBlock
<1>5. Whole(MallocExpandBlock(s, a, size))
  BY <1>1, <1>4 DEF MallocExpandBlock
<1>6. Whole(Malloc(s, a, size))
  BY <1>1, <1>3, <1>5 DEF Malloc
<1> QED
  BY <1>1, <1>3, <1>5, <1>6

\* The statistics with n more bytes in use.
UsedMore(stat, n) == UpdatePeakSize([stat EXCEPT !.used_size = @ + n])

\* The answer r leaves the state x, but for counting what it hands out.
Tallied(x, r) ==
  /\ r.s.bufs = x.bufs /\ r.s.blocks = x.blocks /\ r.s.addrs = x.addrs
  /\ r.s.stat = IF r.buf = NoBuf THEN x.stat ELSE UsedMore(x.stat, x.bufs[r.buf].size)

\* Counting what was handed out changes the statistics alone.
LEMMA CountUsedOK ==
  ASSUME NEW s, NEW x, NEW size, Answered(s, x, size), Whole(x), NEW r, r = CountUsed(x)
  PROVE  Answered(s, r, size) /\ Whole(r) /\ Tallied(x.s, r)
<1>1. CASE x.buf = NoBuf
  BY <1>1 DEF CountUsed, Tallied
<1>2. CASE x.buf # NoBuf
  <2>1. Handed(x, size)
    BY <1>2 DEF Answered
  <2>2. PICK t : t = x.s
    OBVIOUS
  <2>3. Fields \subseteq DOMAIN t /\ Nearly(t, {}, {x.buf})
    BY <2>1, <2>2 DEF Handed, Nearly, Calm, Pooled
  <2>4. PICK st : r = [x EXCEPT !.s.stat = st] /\ st = UsedMore(t.stat, t.bufs[x.buf].size)
    <3>1. PICK n : n = t.bufs[x.buf].size
      OBVIOUS
    <3>2. PICK w : w = UpdatePeakSize([x.s.stat EXCEPT !.used_size = @ + n])
      OBVIOUS
    <3>3. r = [x EXCEPT !.s.stat = w]
      <4>1. r = [x EXCEPT !.s.stat = UpdatePeakSize([x.s.stat EXCEPT !.used_size = @ + x.s.bufs[x.buf].size])]
        BY <1>2 DEF CountUsed
      <4>2. w = UpdatePeakSize([x.s.stat EXCEPT !.used_size = @ + x.s.bufs[x.buf].size])
        BY <3>1, <3>2, <2>2
      <4> QED
        BY <4>1, <4>2
    <3> QED
      BY <3>1, <3>2, <3>3, <2>2 DEF UsedMore
  <2>5. PICK y : y = [t EXCEPT !.stat = st]
    OBVIOUS
  <2>6. r.s = y /\ r.buf = x.buf /\ r.alloc = x.alloc /\ Whole(r)
    BY <2>2, <2>4, <2>5 DEF Whole
  <2>7. Same(t, y)
    BY <2>3, <2>5 DEF Same, Fields
  <2>8. Nearly(y, {}, {x.buf}) /\ Unhurt(t, y, {})
    BY <2>3, <2>7, SameOK
  <2>9. Unhurt(s, y, {})
    BY <2>2, <2>8 DEF Answered, Unhurt, SameBuf
  <2>10. y.bufs = t.bufs /\ y.blocks = t.blocks /\ y.addrs = t.addrs
    BY <2>7 DEF Same
  <2>11. Handed(r, size)
    BY <2>1, <2>2, <2>6, <2>8, <2>10 DEF Handed, Owner
  <2>12. Paged(y)
    <3>1. Paged(t) /\ y.vmm = t.vmm /\ y.bufs = t.bufs /\ y.blocks = t.blocks
      BY <1>2, <2>2, <2>3, <2>5 DEF Answered, Fields
    <3> QED
      BY <3>1, EagerPages
  <2>13. Tallied(t, r)
    <3>1. y.stat = st
      BY <2>3, <2>5 DEF Fields
    <3> QED
      BY <3>1, <1>2, <2>4, <2>6, <2>10 DEF Tallied
  <2> QED
    BY <1>2, <2>2, <2>6, <2>9, <2>11, <2>12, <2>13 DEF Answered
<1> QED
  BY <1>1, <1>2

LEMMA AllocMemBufOK ==
  ASSUME EnableVmm => IsFiniteSet(Streams), NEW s, Good(s), NEW size \in Nat \ {0}, NEW persistent \in BOOLEAN,
         NEW sid \in Streams, NEW sync, NEW r, r = AllocMemBuf(s, size, persistent, sid, sync)
  PROVE  Answered(s, r, size) /\ \E x : GrownFor(s, x, Tight(s, size)) /\ Tallied(x, r)
<1>1. PICK own, other, from : /\ own = <<persistent, sid>> /\ other = (~ EnableVmm /\ persistent)
                              /\ from = IF other THEN <<FALSE, sid>> ELSE own
  OBVIOUS
<1>2. own \in Allocators /\ from \in Allocators
  BY <1>1 DEF Allocators
<1>3. PICK r1 : r1 = Malloc(s, own, size)
  OBVIOUS
<1>4. PICK r2 : r2 = IF r1.buf # NoBuf THEN r1
                     ELSE IF other THEN Malloc(r1.s, from, size) ELSE Answer(r1.s, own, NoBuf)
  OBVIOUS
<1>5. PICK r3 : r3 = IF EnableVmm THEN Malloc(FreeIdleMemsByEagerFree(r2.s), from, size)
                     ELSE Answer(r2.s, from, NoBuf)
  OBVIOUS
<1>6. PICK r4 : r4 = IF r3.buf # NoBuf THEN r3 ELSE MallocExpandBlock(r3.s, from, size)
  OBVIOUS
<1>7. PICK r5 : r5 = IF r4.buf # NoBuf THEN r4 ELSE Malloc(DoSyncAllEvents(r4.s), from, size)
  OBVIOUS
<1>8. PICK r6 : r6 = IF r2.buf # NoBuf THEN r2
                     ELSE IF EnableVmm /\ ~ sync THEN Answer(r2.s, from, NoBuf) ELSE r5
  OBVIOUS
<1>9. r = CountUsed(r6)
  BY <1>1, <1>3, <1>4, <1>5, <1>6, <1>7, <1>8 DEF AllocMemBuf, OrElse
<1>10. ASSUME NEW t, Good(t), NEW x, x = Answer(t, from, NoBuf) \/ x = Answer(t, own, NoBuf)
       PROVE  Answered(t, x, size)
  <2>1. x.s = t /\ x.buf = NoBuf
    BY <1>10 DEF Answer
  <2> QED
    BY <2>1, <1>10 DEF Answered, Unhurt, SameBuf
<1>11. Answered(s, r1, size)
  BY <1>2, <1>3, MallocOK
<1>12. Answered(s, r2, size)
  <2>1. CASE r1.buf # NoBuf
    BY <2>1, <1>4, <1>11
  <2>2. CASE r1.buf = NoBuf
    <3>1. Good(r1.s) /\ Unhurt(s, r1.s, {})
      BY <2>2, <1>11 DEF Answered
    <3>2. Answered(r1.s, r2, size)
      <4>1. CASE other
        BY <4>1, <3>1, <2>2, <1>2, <1>4, MallocOK
      <4>2. CASE ~ other
        BY <4>2, <3>1, <2>2, <1>4, <1>10
      <4> QED
        BY <4>1, <4>2
    <3> QED
      BY <3>1, <3>2, RetryOK
  <2> QED
    BY <2>1, <2>2
<1>13. ASSUME r2.buf = NoBuf PROVE Answered(s, r5, size)
  <2>1. Good(r2.s) /\ Unhurt(s, r2.s, {})
    BY <1>12, <1>13 DEF Answered
  <2>2. Answered(r2.s, r3, size)
    <3>1. CASE EnableVmm
      <4>1. PICK t : t = FreeIdleMemsByEagerFree(r2.s)
        OBVIOUS
      <4>2. Good(t) /\ Unhurt(r2.s, t, {})
        BY <4>1, <3>1, <2>1, FreeAllIdleOK
      <4>3. Answered(t, r3, size)
        BY <4>1, <4>2, <3>1, <1>2, <1>5, MallocOK
      <4> QED
        BY <4>2, <4>3, RetryOK
    <3>2. CASE ~ EnableVmm
      BY <3>2, <2>1, <1>5, <1>10
    <3> QED
      BY <3>1, <3>2
  <2>3. Answered(s, r3, size)
    BY <2>1, <2>2, RetryOK
  <2>4. Answered(s, r4, size)
    <3>1. CASE r3.buf # NoBuf
      BY <3>1, <2>3, <1>6
    <3>2. CASE r3.buf = NoBuf
      <4>1. Good(r3.s) /\ Unhurt(s, r3.s, {}) /\ r4 = MallocExpandBlock(r3.s, from, size)
        BY <3>2, <2>3, <1>6 DEF Answered
      <4>2. Answered(r3.s, r4, size)
        BY <4>1, <1>2, MallocExpandOK
      <4> QED
        BY <4>1, <4>2, RetryOK
    <3> QED
      BY <3>1, <3>2
  <2>5. CASE r4.buf # NoBuf
    BY <2>5, <2>4, <1>7
  <2>6. CASE r4.buf = NoBuf
    <3>1. PICK t : t = DoSyncAllEvents(r4.s)
      OBVIOUS
    <3>2. Good(r4.s) /\ Unhurt(s, r4.s, {}) /\ r5 = Malloc(t, from, size)
      BY <3>1, <2>4, <2>6, <1>7 DEF Answered
    <3>3. Good(t) /\ Unhurt(r4.s, t, {})
      BY <3>1, <3>2, DoSyncAllEventsOK
    <3>4. Answered(t, r5, size)
      BY <3>2, <3>3, <1>2, MallocOK
    <3>5. Answered(r4.s, r5, size)
      BY <3>3, <3>4, RetryOK
    <3> QED
      BY <3>2, <3>5, RetryOK
  <2> QED
    BY <2>5, <2>6
<1>14. Answered(s, r6, size)
  <2>1. CASE r2.buf # NoBuf
    BY <2>1, <1>8, <1>12
  <2>2. CASE r2.buf = NoBuf
    <3>1. Good(r2.s) /\ Unhurt(s, r2.s, {})
      BY <2>2, <1>12 DEF Answered
    <3>2. CASE EnableVmm /\ ~ sync
      <4>1. Answered(r2.s, r6, size)
        BY <3>1, <3>2, <2>2, <1>8, <1>10
      <4> QED
        BY <4>1, <3>1, RetryOK
    <3>3. CASE ~ (EnableVmm /\ ~ sync)
      BY <3>3, <2>2, <1>8, <1>13
    <3> QED
      BY <3>2, <3>3
  <2> QED
    BY <2>1, <2>2
<1>15. Whole(r6)
  BY <1>3, <1>4, <1>5, <1>6, <1>7, <1>8, WholeAnswer
<1>16. PICK T : T = Tight(s, size)
  OBVIOUS
<1>17. GrownFor(s, r1.s, T) /\ (r1.buf = NoBuf => own \in T)
  <2>1. GrownFor(s, r1.s, {own} \cap T) /\ (r1.buf = NoBuf => own \in T)
    BY <1>2, <1>3, <1>16, MallocOK
  <2> QED
    BY <2>1, GrownMore
<1>18. GrownFor(s, r2.s, T) /\ (r2.buf = NoBuf => from \in T)
  <2>1. CASE r1.buf # NoBuf
    BY <2>1, <1>4, <1>17
  <2>2. CASE r1.buf = NoBuf /\ ~ other
    <3>1. r2.s = r1.s /\ from = own
      BY <2>2, <1>1, <1>4 DEF Answer
    <3> QED
      BY <3>1, <2>2, <1>17
  <2>3. CASE r1.buf = NoBuf /\ other
    <3>1. from # own /\ r2 = Malloc(r1.s, from, size)
      BY <2>3, <1>1, <1>4
    <3>2. Good(r1.s)
      BY <2>3, <1>11 DEF Answered
    <3>3. /\ GrownFor(r1.s, r2.s, {from} \cap Tight(r1.s, size))
          /\ r2.buf = NoBuf => from \in Tight(r1.s, size)
      BY <3>1, <3>2, <1>2, MallocOK
    <3>4. OthersIdle(s, r1.s, own)
      BY <2>3, <1>2, <1>3, MallocOK
    <3>5. from \in Tight(r1.s, size) => from \in T
      BY <3>1, <3>4, <1>16, StillTight
    <3>6. {from} \cap Tight(r1.s, size) \subseteq T
      BY <3>5
    <3>7. GrownFor(r1.s, r2.s, T)
      BY <3>3, <3>6, GrownMore
    <3>8. GrownFor(s, r2.s, T)
      BY <3>7, <1>17, GrownTwice
    <3> QED
      BY <3>3, <3>5, <3>8
  <2> QED
    BY <2>1, <2>2, <2>3
<1>19. ASSUME r2.buf = NoBuf PROVE GrownFor(s, r5.s, T)
  <2>1. Good(r2.s) /\ from \in T
    BY <1>12, <1>18, <1>19 DEF Answered
  <2>2. ASSUME NEW t, Good(t), NEW x, x = Malloc(t, from, size) \/ x = MallocExpandBlock(t, from, size)
        PROVE  GrownFor(t, x.s, T) /\ (x.buf = NoBuf => Good(x.s))
    <3>1. CASE x = Malloc(t, from, size)
      <4>1. Answered(t, x, size) /\ GrownFor(t, x.s, {from} \cap Tight(t, size))
        BY <3>1, <2>2, <1>2, MallocOK
      <4>2. GrownFor(t, x.s, T)
        BY <4>1, <2>1, GrownMore
      <4> QED
        BY <4>1, <4>2 DEF Answered
    <3>2. CASE x = MallocExpandBlock(t, from, size)
      <4>1. Answered(t, x, size) /\ GrownFor(t, x.s, {from})
        BY <3>2, <2>2, <1>2, MallocExpandOK
      <4>2. GrownFor(t, x.s, T)
        BY <4>1, <2>1, GrownMore
      <4> QED
        BY <4>1, <4>2 DEF Answered
    <3> QED
      BY <2>2, <3>1, <3>2
  <2>3. GrownFor(s, r3.s, T) /\ (r3.buf = NoBuf => Good(r3.s))
    <3>1. CASE EnableVmm
      <4>1. PICK t : t = FreeIdleMemsByEagerFree(r2.s)
        OBVIOUS
      <4>2. Good(t) /\ Sealed(r2.s, t)
        BY <4>1, <3>1, <2>1, FreeAllIdleOK
      <4>3. GrownFor(t, r3.s, T) /\ (r3.buf = NoBuf => Good(r3.s))
        BY <4>1, <4>2, <3>1, <2>2, <1>5
      <4>4. GrownFor(s, t, T)
        BY <4>2, <1>18, SealedGrown, GrownTwice
      <4> QED
        BY <4>3, <4>4, GrownTwice
    <3>2. CASE ~ EnableVmm
      <4>1. r3.s = r2.s
        BY <3>2, <1>5 DEF Answer
      <4> QED
        BY <4>1, <2>1, <1>18
    <3> QED
      BY <3>1, <3>2
  <2>4. GrownFor(s, r4.s, T) /\ (r4.buf = NoBuf => Good(r4.s))
    <3>1. CASE r3.buf # NoBuf
      BY <3>1, <2>3, <1>6
    <3>2. CASE r3.buf = NoBuf
      <4>1. GrownFor(r3.s, r4.s, T) /\ (r4.buf = NoBuf => Good(r4.s))
        BY <3>2, <2>2, <2>3, <1>6
      <4> QED
        BY <4>1, <2>3, GrownTwice
    <3> QED
      BY <3>1, <3>2
  <2>5. CASE r4.buf # NoBuf
    BY <2>4, <2>5, <1>7
  <2>6. CASE r4.buf = NoBuf
    <3>1. PICK t : t = DoSyncAllEvents(r4.s)
      OBVIOUS
    <3>2. Good(t) /\ Sealed(r4.s, t)
      BY <3>1, <2>4, <2>6, DoSyncAllEventsOK
    <3>3. GrownFor(t, r5.s, T)
      BY <3>1, <3>2, <2>2, <2>6, <1>7
    <3>4. GrownFor(s, t, T)
      BY <3>2, <2>4, SealedGrown, GrownTwice
    <3> QED
      BY <3>3, <3>4, GrownTwice
  <2> QED
    BY <2>5, <2>6
<1>20. GrownFor(s, r6.s, T)
  <2>1. CASE r2.buf # NoBuf
    BY <2>1, <1>8, <1>18
  <2>2. CASE r2.buf = NoBuf /\ EnableVmm /\ ~ sync
    <3>1. r6.s = r2.s
      BY <2>2, <1>8 DEF Answer
    <3> QED
      BY <3>1, <1>18
  <2>3. CASE r2.buf = NoBuf /\ ~ (EnableVmm /\ ~ sync)
    BY <2>3, <1>8, <1>19
  <2> QED
    BY <2>1, <2>2, <2>3
<1>21. Answered(s, r, size) /\ Tallied(r6.s, r)
  BY <1>9, <1>14, <1>15, CountUsedOK
<1> QED
  BY <1>16, <1>20, <1>21

\* A buffer in use is entered into the index under its address.
Entry(s, b) == [buf |-> b, alloc |-> Owner(s, b)]

Entered(s, b) == [s EXCEPT !.addrs = Emplace(@, s.bufs[b].addr, Entry(s, b))]

Entering(s, t, X, Y, Z, b) ==
  /\ Nearly(s, X, Y)
  /\ b \in DOMAIN s.bufs /\ b \in Y /\ s.bufs[b].status \notin FreeStatus
  /\ Z = Y \ {b}
  /\ t = Entered(s, b)

IsEntered(s, t, X, Z, b) ==
  /\ Nearly(t, X, Z) /\ Unhurt(s, t, {})
  /\ t.bufs = s.bufs /\ t.blocks = s.blocks /\ t.pairs = s.pairs /\ t.inuse = s.inuse
  /\ DOMAIN t.addrs = DOMAIN s.addrs \cup {s.bufs[b].addr}
  /\ t.addrs[s.bufs[b].addr] = Entry(s, b)
  /\ \A x \in DOMAIN s.addrs : t.addrs[x] = s.addrs[x]

LEMMA EnterOK ==
  ASSUME NEW s, NEW X, NEW Y, NEW Z, NEW b, NEW t, Entering(s, t, X, Y, Z, b)
  PROVE  IsEntered(s, t, X, Z, b)
<1>0. PICK addr, e : /\ Z = Y \ {b} /\ addr = s.bufs[b].addr /\ e = Entry(s, b)
                        /\ b \in DOMAIN s.bufs /\ b \in Y /\ s.bufs[b].status \notin FreeStatus
  BY DEF Entering
<1>1. /\ Calm(s) /\ ListsExact(s, X) /\ AddrsExact(s, Y) /\ Deferred(s.bufs, {}) /\ Waiting(s)
  BY DEF Entering, Nearly
<1>2. Fields \subseteq DOMAIN s /\ Shape(s.bufs, s.blocks) /\ Pooled(s)
  BY <1>1 DEF Calm, Pooled
<1>3. /\ Fields \subseteq DOMAIN t
      /\ t.bufs = s.bufs /\ t.blocks = s.blocks /\ t.lists = s.lists /\ t.pairs = s.pairs /\ t.inuse = s.inuse
      /\ t.addrs = Emplace(s.addrs, addr, e)
  BY <1>0, <1>2 DEF Entering, Entered, Fields
<1>4. addr \notin DOMAIN s.addrs
  <2> SUFFICES ASSUME addr \in DOMAIN s.addrs PROVE FALSE
    OBVIOUS
  <2>1. PICK c : c = s.addrs[addr].buf
    OBVIOUS
  <2>2. c \in DOMAIN s.bufs \ Y /\ s.bufs[c].addr = addr
    BY <1>0, <2>1, <1>1 DEF AddrsExact
  <2>3. c # b
    BY <1>0, <2>2
  <2>4. End(s.bufs[b]) <= s.bufs[c].addr \/ End(s.bufs[c]) <= s.bufs[b].addr
    BY <1>0, <2>2, <2>3, <1>2 DEF Shape, BytesExact
  <2>5. /\ s.bufs[b].addr \in Nat /\ s.bufs[b].size \in Nat /\ s.bufs[b].size > 0
        /\ End(s.bufs[b]) = s.bufs[b].addr + s.bufs[b].size
    BY <1>0, <1>2, ShapeFacts
  <2>6. /\ s.bufs[c].addr \in Nat /\ s.bufs[c].size \in Nat /\ s.bufs[c].size > 0
        /\ End(s.bufs[c]) = s.bufs[c].addr + s.bufs[c].size
    BY <1>0, <2>2, <1>2, ShapeFacts
  <2> QED
    BY <1>0, <2>2, <2>4, <2>5, <2>6
<1>5. t.addrs = Put(s.addrs, addr, e)
  BY <1>0, <1>3, <1>4 DEF Emplace
<1>6. /\ DOMAIN t.addrs = DOMAIN s.addrs \cup {addr}
      /\ t.addrs[addr] = e
      /\ \A x \in DOMAIN s.addrs : t.addrs[x] = s.addrs[x]
  BY <1>0, <1>4, <1>5 DEF Put
<1>7. AddrsExact(t, Z)
  <2>1. ASSUME NEW x \in DOMAIN t.addrs
        PROVE  /\ t.addrs[x].buf \in DOMAIN t.bufs \ Z
               /\ t.bufs[t.addrs[x].buf].addr = x
               /\ t.bufs[t.addrs[x].buf].status \notin FreeStatus
               /\ t.addrs[x].alloc = Owner(t, t.addrs[x].buf)
    <3>1. CASE x = addr
      <4>1. t.addrs[x] = e /\ e.buf = b /\ e.alloc = Owner(s, b)
        BY <3>1, <1>0, <1>6 DEF Entry
      <4>2. Owner(t, b) = Owner(s, b) /\ b \notin Z
        BY <1>0, <1>3 DEF Owner
      <4> QED
        BY <4>1, <4>2, <3>1, <1>0, <1>3
    <3>2. CASE x \in DOMAIN s.addrs
      <4>1. PICK d : d = s.addrs[x] /\ d = t.addrs[x]
        BY <1>0, <3>2, <1>6
      <4>2. /\ d.buf \in DOMAIN s.bufs \ Y
            /\ s.bufs[d.buf].addr = x
            /\ s.bufs[d.buf].status \notin FreeStatus
            /\ d.alloc = Owner(s, d.buf)
        BY <1>0, <4>1, <3>2, <1>1 DEF AddrsExact
      <4>3. Owner(t, d.buf) = Owner(s, d.buf) /\ d.buf \notin Z
        BY <4>2, <1>0, <1>3 DEF Owner
      <4> QED
        BY <1>0, <4>1, <4>2, <4>3, <1>3
    <3> QED
      BY <1>0, <3>1, <3>2, <1>6
  <2>2. ASSUME NEW c \in DOMAIN t.bufs \ Z, t.bufs[c].status \notin FreeStatus
        PROVE  t.bufs[c].addr \in DOMAIN t.addrs /\ t.addrs[t.bufs[c].addr].buf = c
    <3>1. CASE c = b
      BY <3>1, <1>0, <1>3, <1>6 DEF Entry
    <3>2. CASE c # b
      <4>1. c \in DOMAIN s.bufs \ Y /\ s.bufs[c].status \notin FreeStatus
        BY <3>2, <2>2, <1>0, <1>3
      <4>2. s.bufs[c].addr \in DOMAIN s.addrs /\ s.addrs[s.bufs[c].addr].buf = c
        BY <1>0, <4>1, <1>1 DEF AddrsExact
      <4> QED
        BY <1>0, <4>2, <1>3, <1>6
    <3> QED
      BY <1>0, <3>1, <3>2
  <2> QED
    BY <1>0, <2>1, <2>2 DEF AddrsExact
<1>8. ListsExact(t, X)
  <2>1. \A S, a, st : Listed(t, S, a, st) = Listed(s, S, a, st)
    BY <1>3 DEF Listed, Owner
  <2> QED
    BY <2>1, <1>1, <1>3 DEF ListsExact
<1>9. Calm(t)
  BY <1>0, <1>1, <1>3 DEF Calm, Pooled
<1>10. Waiting(t)
  BY <1>0, <1>1, <1>3, SameWaiting
<1>11. Deferred(t.bufs, {}) /\ Unhurt(s, t, {})
  BY <1>0, <1>1, <1>3 DEF Unhurt, SameBuf
<1> QED
  BY <1>0, <1>3, <1>4, <1>6, <1>7, <1>8, <1>9, <1>10, <1>11 DEF Nearly, IsEntered

\* What is handed out is counted when it is in the index.
LEMMA EnterCounted ==
  ASSUME NEW x, NEW t, NEW b, NEW addr, Shape(x.bufs, x.blocks), AddrsExact(x, {b}), b \in DOMAIN x.bufs,
         t.bufs = x.bufs, t.blocks = x.blocks, DOMAIN t.addrs = DOMAIN x.addrs \cup {addr},
         t.addrs[addr].buf = b, \A c \in DOMAIN x.addrs : t.addrs[c] = x.addrs[c],
         t.stat = UsedMore(x.stat, x.bufs[b].size), Counted(x)
  PROVE  Counted(t)
<1>1. PICK A, B, n : A = UsedBytes(x) /\ B = Span(x.bufs[b]) /\ n = x.bufs[b].size
  OBVIOUS
<1>2. n \in Nat /\ B \subseteq Bytes /\ Cardinality(B) = n
  BY <1>1, SpanCount, ShapeFacts
<1>3. UsedBytes(t) = A \cup B
  <2>1. \A y \in Bytes : (\E c \in DOMAIN t.addrs : y \in Span(t.bufs[t.addrs[c].buf])) <=>
                         (\E c \in DOMAIN x.addrs : y \in Span(x.bufs[x.addrs[c].buf])) \/ y \in B
    BY <1>1
  <2> QED
    BY <2>1, <1>1, <1>2 DEF UsedBytes
<1>4. A \subseteq Bytes /\ A \cap B = {}
  <2>1. ASSUME NEW y \in A, y \in B PROVE FALSE
    <3>1. PICK c \in DOMAIN x.addrs : y \in Span(x.bufs[x.addrs[c].buf])
      BY <2>1, <1>1 DEF UsedBytes
    <3>2. x.addrs[c].buf \in DOMAIN x.bufs /\ x.addrs[c].buf # b
      BY DEF AddrsExact
    <3> QED
      BY <3>1, <3>2, <2>1, <1>1, SpansApart
  <2> QED
    BY <2>1, <1>1 DEF UsedBytes
<1>5. Cardinality(A) \in Nat /\ Cardinality(A \cup B) = Cardinality(A) + n
  BY <1>2, <1>4, BytesApart
<1>6. x.stat \in [StatFields -> Int] /\ x.stat.used_size = Cardinality(A)
  BY <1>1 DEF Counted, CountedRest, EagerExact
<1>7. PICK f : f = [x.stat EXCEPT !.used_size = @ + n]
  OBVIOUS
<1>8. f \in [StatFields -> Int] /\ f.used_size = x.stat.used_size + n /\ \A y \in StatFields \ {"used_size"} : f[y] = x.stat[y]
  BY <1>2, <1>6, <1>7 DEF StatFields
<1>9. PICK h, k \in Int : h = f.used_size /\ k = f.used_size - f.temp_used_size
  BY <1>8 DEF StatFields
<1>10. PICK p, q : p = Max({f.peak_size, h}) /\ q = Max({f.temp_peak_size, k})
  OBVIOUS
<1>11. p \in Int /\ q \in Int /\ p >= h /\ q >= k
  <2>1. f.peak_size \in Int /\ f.temp_peak_size \in Int
    BY <1>8 DEF StatFields
  <2>2. PICK l, m \in Int : l = f.peak_size /\ m = f.temp_peak_size
    BY <2>1
  <2>3. p = Max({l, h}) /\ q = Max({m, k})
    BY <2>2, <1>10
  <2>4. p \in {l, h} /\ p >= h
    BY <2>3, MaxOfTwo
  <2>5. q \in {m, k} /\ q >= k
    BY <2>3, MaxOfTwo
  <2> QED
    BY <2>4, <2>5
<1>12. t.stat = [f EXCEPT !.peak_size = p, !.temp_peak_size = q]
  <2>1. t.stat = UpdatePeakSize(f)
    BY <1>1, <1>7 DEF UsedMore
  <2>2. UpdatePeakSize(f) = [f EXCEPT !.peak_size = Max({@, f.used_size}), !.temp_peak_size = Max({@, f.used_size - f.temp_used_size})]
    BY DEF UpdatePeakSize
  <2>3. UpdatePeakSize(f) = [f EXCEPT !.peak_size = Max({f.peak_size, h}), !.temp_peak_size = Max({f.temp_peak_size, k})]
    BY <2>2, <1>8, <1>9 DEF StatFields
  <2> QED
    BY <2>1, <2>3, <1>10
<1>13. /\ t.stat \in [StatFields -> Int] /\ t.stat.peak_size = p /\ t.stat.temp_peak_size = q
       /\ \A y \in StatFields \ {"peak_size", "temp_peak_size"} : t.stat[y] = f[y]
  <2>1. PICK g : g = [f EXCEPT !.peak_size = p]
    OBVIOUS
  <2>2. g \in [StatFields -> Int] /\ g.peak_size = p /\ \A y \in StatFields \ {"peak_size"} : g[y] = f[y]
    BY <2>1, <1>8, <1>11 DEF StatFields
  <2>3. t.stat = [g EXCEPT !.temp_peak_size = q]
    BY <2>1, <1>12
  <2>4. /\ t.stat \in [StatFields -> Int] /\ t.stat.temp_peak_size = q
        /\ \A y \in StatFields \ {"temp_peak_size"} : t.stat[y] = g[y]
    BY <2>2, <2>3, <1>11 DEF StatFields
  <2>5. t.stat.peak_size = p
    BY <2>2, <2>4 DEF StatFields
  <2> QED
    BY <2>2, <2>4, <2>5
<1>14. /\ t.stat.used_size = h /\ t.stat.temp_used_size = f.temp_used_size
       /\ t.stat.alloc_size = x.stat.alloc_size /\ t.stat.used_by_event_size = x.stat.used_by_event_size
       /\ t.stat.eager_free_size = x.stat.eager_free_size /\ t.stat.eager_drift = x.stat.eager_drift
  BY <1>8, <1>9, <1>13 DEF StatFields
<1>15. Peaked(t.stat)
  BY <1>9, <1>11, <1>13, <1>14 DEF Peaked
<1>16. t.stat.used_size = Cardinality(UsedBytes(t))
  <2>1. h = Cardinality(A) + n
    BY <1>6, <1>8, <1>9
  <2> QED
    BY <2>1, <1>3, <1>5, <1>14
<1>17. Bordered(t)
  BY DEF Counted, CountedRest, EagerExact, Bordered
<1> QED
  BY <1>13, <1>14, <1>15, <1>16, <1>17 DEF Counted, CountedRest, EagerExact

\* A size rounded up for the allocator.
LEMMA AlignedSize ==
  ASSUME NEW size \in Nat
  PROVE  /\ AlignMemorySize(size) \in Nat \ {0}
         /\ AlignSize = 1 /\ size # 0 => AlignMemorySize(size) = size
<1>1. AlignSize \in Nat \ {0}
  BY PoolAssumption
<1>2. CASE size = 0
  BY <1>1, <1>2 DEF AlignMemorySize
<1>3. CASE size # 0
  <2>1. AlignMemorySize(size) = ((size + AlignSize - 1) \div AlignSize) * AlignSize
    BY <1>3 DEF AlignMemorySize
  <2>2. AlignMemorySize(size) \in Nat \ {0}
    BY <1>1, <1>3, <2>1, RoundedUp
  <2>3. ASSUME AlignSize = 1 PROVE AlignMemorySize(size) = size
    <3>1. AlignMemorySize(size) = ((size + 1 - 1) \div 1) * 1
      BY <2>1, <2>3
    <3>2. \A n \in Nat : ((n + 1 - 1) \div 1) * 1 = n
      OBVIOUS
    <3> QED
      BY <3>1, <3>2
  <2> QED
    BY <2>2, <2>3
<1> QED
  BY <1>2, <1>3

\* A step from s to t takes a block only if no idle buffer of its allocator would do for
\* what it hands out.
Thrifty(s, t) ==
  \A base \in DOMAIN t.blocks \ DOMAIN s.blocks : \A b \in s.lists[t.blocks[base].owner]["Idle"] :
    \A addr \in DOMAIN t.addrs \ DOMAIN s.addrs : s.bufs[b].size < t.bufs[t.addrs[addr].buf].size

\* The address answered is that of a new buffer of at least the size asked for.
LEMMA DoAllocOK ==
  ASSUME EnableVmm => IsFiniteSet(Streams), NEW s, Good(s), NEW size \in Nat, NEW persistent \in BOOLEAN,
         NEW sid \in Streams, NEW sync, NEW r, r = DoAllocTensorMem(s, size, persistent, sid, sync)
  PROVE  /\ Good(r.s) /\ Unhurt(s, r.s, {}) /\ Thrifty(s, r.s) /\ (Counted(s) => Counted(r.s))
         /\ r.addr # 0 => /\ r.addr \in DOMAIN r.s.addrs
                          /\ LET buf == r.s.bufs[r.s.addrs[r.addr].buf]
                             IN  /\ buf.status = "Used" /\ buf.events = NoEvents
                                 /\ AlignMemorySize(size) <= buf.size
                                 /\ buf.size < AlignMemorySize(size) + AlignSize
<1>1. PICK z : z = AlignMemorySize(size)
  OBVIOUS
<1>2. z \in Nat \ {0}
  BY <1>1, AlignedSize
<1>3. PICK x : x = AllocMemBuf(s, z, persistent, sid, sync)
  OBVIOUS
<1>7. Answered(s, x, z) /\ \E y : GrownFor(s, y, Tight(s, z)) /\ Tallied(y, x)
  BY <1>2, <1>3, AllocMemBufOK
<1>8. PICK g : GrownFor(s, g, Tight(s, z)) /\ Tallied(g, x)
  BY <1>7
<1>4. /\ Answered(s, x, z) /\ DOMAIN x.s.addrs \subseteq DOMAIN s.addrs
      /\ \A c \in DOMAIN x.s.blocks \ DOMAIN s.blocks : x.s.blocks[c].owner \in Tight(s, z)
  BY <1>7, <1>8 DEF GrownFor, Tallied
<1>5. CASE x.buf = NoBuf
  <2>1. r.s = x.s /\ r.addr = 0
    BY <1>1, <1>3, <1>5 DEF DoAllocTensorMem
  <2>2. Thrifty(s, x.s)
    BY <1>4 DEF Thrifty
  <2>3. Counted(s) => Counted(x.s)
    <3>1. Counted(s) => Counted(g)
      BY <1>8 DEF GrownFor
    <3>2. PICK w : w = x.s
      OBVIOUS
    <3>3. w.bufs = g.bufs /\ w.blocks = g.blocks /\ w.addrs = g.addrs /\ w.stat = g.stat
      BY <3>2, <1>5, <1>8 DEF Tallied
    <3>4. Counted(g) => Counted(w)
      BY <3>3, SameCounted
    <3> QED
      BY <3>1, <3>2, <3>4
  <2> QED
    BY <2>1, <2>2, <2>3, <1>4, <1>5 DEF Answered
<1>6. CASE x.buf # NoBuf
  <2>1. PICK y, b, addr, e : /\ y = x.s /\ b = x.buf /\ addr = y.bufs[b].addr
                             /\ e = [buf |-> b, alloc |-> x.alloc]
    OBVIOUS
  <2>2. PICK t : t = [y EXCEPT !.addrs = Emplace(@, addr, e)]
    OBVIOUS
  <2>3. r = [s |-> t, addr |-> addr]
    BY <1>1, <1>3, <1>6, <2>1, <2>2 DEF DoAllocTensorMem
  <2>4. /\ b \in DOMAIN y.bufs /\ Nearly(y, {}, {b}) /\ y.bufs[b].status = "Used"
        /\ y.bufs[b].events = NoEvents /\ x.alloc = Owner(y, b)
        /\ z <= y.bufs[b].size /\ y.bufs[b].size < z + AlignSize
        /\ Unhurt(s, y, {}) /\ Paged(y)
    BY <1>4, <1>6, <2>1 DEF Answered, Handed
  <2>5. y.bufs[b].status \notin FreeStatus /\ b \in {b} /\ t = Entered(y, b) /\ e = Entry(y, b)
    BY <2>1, <2>2, <2>4 DEF FreeStatus, Entry, Entered
  <2>6. /\ Nearly(t, {}, {}) /\ Unhurt(y, t, {}) /\ t.bufs = y.bufs
        /\ addr \in DOMAIN t.addrs /\ t.addrs[addr] = e /\ t.blocks = y.blocks
        /\ DOMAIN t.addrs = DOMAIN y.addrs \cup {addr} /\ \A c \in DOMAIN y.addrs : t.addrs[c] = y.addrs[c]
    <3>1. PICK X, Y : Y = {b} /\ X = {}
      OBVIOUS
    <3>2. Nearly(y, X, Y) /\ b \in Y /\ b \in DOMAIN y.bufs /\ X = Y \ {b}
      BY <3>1, <2>4
    <3>3. Entering(y, t, X, Y, X, b)
      BY <3>2, <2>5 DEF Entering
    <3>4. IsEntered(y, t, X, X, b)
      BY <3>3, EnterOK
    <3> QED
      BY <3>1, <3>4, <2>1, <2>5 DEF IsEntered
  <2>10. Paged(t)
    <3>1. t.vmm = y.vmm
      BY <2>2, <2>4 DEF Nearly, Calm, Pooled, Fields
    <3> QED
      BY <3>1, <2>4, <2>6, EagerPages
  <2>7. Good(t)
    BY <2>6, <2>10, GoodNearly
  <2>8. Unhurt(s, t, {})
    BY <2>4, <2>6 DEF Unhurt
  <2>9. t.bufs[t.addrs[addr].buf] = y.bufs[b]
    BY <2>1, <2>6
  <2>11. Thrifty(s, t)
    <3>1. \A c \in DOMAIN t.addrs \ DOMAIN s.addrs : t.bufs[t.addrs[c].buf] = y.bufs[b]
      BY <2>1, <2>6, <2>9, <1>4
    <3>2. \A base \in DOMAIN t.blocks \ DOMAIN s.blocks : t.blocks[base].owner \in Tight(s, z)
      BY <2>1, <2>6, <1>4
    <3>3. y.bufs[b].size \in Nat /\ \A a \in Allocators : \A c \in s.lists[a]["Idle"] : s.bufs[c].size \in Nat
      <4>1. Shape(y.bufs, y.blocks) /\ Shape(s.bufs, s.blocks) /\ ListsExact(s, {})
        BY <2>4 DEF Nearly, Good, Kept, Calm, Pooled
      <4>2. \A a \in Allocators : s.lists[a]["Idle"] \subseteq DOMAIN s.bufs
        BY <4>1 DEF ListsExact, Listed, FreeStatus
      <4> QED
        BY <4>1, <4>2, <2>4, ShapeFacts
    <3>4. ASSUME NEW a \in Tight(s, z), NEW c \in s.lists[a]["Idle"] PROVE s.bufs[c].size < y.bufs[b].size
      <4>1. s.bufs[c].size < z /\ s.bufs[c].size \in Nat
        BY <3>3, <3>4 DEF Tight
      <4> QED
        BY <4>1, <3>3, <2>4, <1>2
    <3> QED
      BY <3>1, <3>2, <3>4 DEF Thrifty
  <2>12. Counted(s) => Counted(t)
    <3>1. SUFFICES ASSUME Counted(g) PROVE Counted(t)
      BY <1>8 DEF GrownFor
    <3>2. /\ y.bufs = g.bufs /\ y.blocks = g.blocks /\ y.addrs = g.addrs
          /\ y.stat = UsedMore(g.stat, g.bufs[b].size)
      BY <2>1, <1>6, <1>8 DEF Tallied
    <3>3. t.stat = y.stat
      BY <2>2, <2>4 DEF Nearly, Calm, Pooled, Fields
    <3>4. Shape(y.bufs, y.blocks) /\ AddrsExact(y, {b})
      BY <2>4 DEF Nearly, Calm, Pooled
    <3>5. AddrsExact(g, {b})
      <4>1. PICK Y : Y = {b}
        OBVIOUS
      <4>2. AddrsExact(y, Y) /\ g.bufs = y.bufs /\ g.blocks = y.blocks /\ g.addrs = y.addrs
        BY <4>1, <3>2, <3>4
      <4> QED
        BY <4>1, <4>2, SameAddrs
    <3>6. /\ t.bufs = g.bufs /\ t.blocks = g.blocks /\ DOMAIN t.addrs = DOMAIN g.addrs \cup {addr}
          /\ t.addrs[addr].buf = b /\ \A c \in DOMAIN g.addrs : t.addrs[c] = g.addrs[c]
          /\ t.stat = UsedMore(g.stat, g.bufs[b].size) /\ b \in DOMAIN g.bufs /\ Shape(g.bufs, g.blocks)
      BY <3>2, <3>3, <3>4, <2>1, <2>4, <2>6
    <3> QED
      BY <3>1, <3>5, <3>6, EnterCounted
  <2> QED
    BY <1>1, <2>3, <2>4, <2>6, <2>7, <2>8, <2>9, <2>11, <2>12
<1> QED
  BY <1>5, <1>6

-----------------------------------------------------------------------------
(* RecordEvent.                                                            *)

\* Buffer b gets one more event.
WithEvent(s, b, u, t) == [s.bufs[b] EXCEPT !.events[u] = Append(@, t)]

\* r is s with that event of buffer b recorded, whatever the statistics.
Recorded(s, r, b, u, t) ==
  LET buf == WithEvent(s, b, u, t)
  IN  /\ Fields \subseteq DOMAIN r
      /\ r.bufs = [s.bufs EXCEPT ![b] = buf]
      /\ r.blocks = s.blocks /\ r.lists = s.lists /\ r.addrs = s.addrs /\ r.vmm = s.vmm
      /\ r.pairs = [s.pairs EXCEPT ![<<u, buf.stream_id>>] = @ \cup {b}]
      /\ r.inuse = s.inuse \cup {[byte |-> x, user |-> u, mem |-> buf.stream_id, task |-> t] : x \in BytesOf(buf)}

LEMMA RecordOK ==
  ASSUME NEW s, Good(s), NEW b \in DOMAIN s.bufs, s.bufs[b].status = "Used",
         NEW u \in UserStreams, NEW t \in Nat, NEW r, Recorded(s, r, b, u, t)
  PROVE  Good(r) /\ Unhurt(s, r, {b})
<1>20. PICK buf : buf = WithEvent(s, b, u, t)
  OBVIOUS
<1>21. /\ Fields \subseteq DOMAIN r /\ r.bufs = [s.bufs EXCEPT ![b] = buf]
       /\ r.blocks = s.blocks /\ r.lists = s.lists /\ r.addrs = s.addrs /\ r.vmm = s.vmm
       /\ r.pairs = [s.pairs EXCEPT ![<<u, buf.stream_id>>] = @ \cup {b}]
       /\ r.inuse = s.inuse \cup {[byte |-> x, user |-> u, mem |-> buf.stream_id, task |-> t] : x \in BytesOf(buf)}
  BY <1>20 DEF Recorded
<1> DEFINE q == s.bufs[b].events[u]
<1>1. /\ Calm(s) /\ ListsExact(s, {}) /\ AddrsExact(s, {}) /\ Deferred(s.bufs, {}) /\ Waiting(s) /\ Paged(s)
  BY DEF Good, Kept
<1>2. Pooled(s) /\ Shape(s.bufs, s.blocks)
  BY <1>1 DEF Calm, Pooled
<1>3. s.bufs[b] \in BufType
  BY <1>2, ShapeFacts
<1>4. q \in Seq(Nat) /\ s.bufs[b].events \in [UserStreams -> Seq(Nat)] /\ s.bufs[b].stream_id \in Streams
  BY <1>3 DEF BufType
<1>5. /\ Append(q, t) \in Seq(Nat) /\ Len(Append(q, t)) = Len(q) + 1 /\ Len(q) \in Nat
      /\ Append(q, t)[Len(q) + 1] = t
      /\ \A i \in 1 .. Len(q) : Append(q, t)[i] = q[i]
  BY <1>4
<1>6. PICK ev : ev = [s.bufs[b].events EXCEPT ![u] = Append(q, t)]
  OBVIOUS
<1>7. ev \in [UserStreams -> Seq(Nat)] /\ ev[u] = Append(q, t)
      /\ \A v \in UserStreams \ {u} : ev[v] = s.bufs[b].events[v]
  BY <1>4, <1>5, <1>6
<1>8. buf = [s.bufs[b] EXCEPT !.events = ev]
  BY <1>3, <1>6, <1>20 DEF WithEvent, BufType
<1>9. /\ buf \in BufType /\ buf.events = ev /\ buf.status = "Used" /\ buf.stream_id = s.bufs[b].stream_id
      /\ buf.addr = s.bufs[b].addr /\ buf.size = s.bufs[b].size /\ buf.mem_block = s.bufs[b].mem_block
      /\ buf.prev = s.bufs[b].prev /\ buf.next = s.bufs[b].next
  BY <1>3, <1>7, <1>8 DEF BufType
<1>10. s.bufs[b].status \notin FreeStatus /\ buf.status \notin FreeStatus
  BY <1>9 DEF FreeStatus
<1>11. Calm(r) /\ ListsExact(r, {}) /\ AddrsExact(r, {})
  BY <1>1, <1>9, <1>10, <1>21, TouchedOK
<1>12. /\ DOMAIN r.bufs = DOMAIN s.bufs /\ r.bufs[b] = buf
       /\ \A c \in DOMAIN s.bufs \ {b} : r.bufs[c] = s.bufs[c]
  BY <1>21
<1>13. Deferred(r.bufs, {})
  <2> SUFFICES ASSUME NEW c \in DOMAIN r.bufs, r.bufs[c].status = "UsedByEvent"
               PROVE  r.bufs[c].events # NoEvents
    BY DEF Deferred
  <2>1. c # b
    BY <1>9, <1>12
  <2>2. r.bufs[c] = s.bufs[c] /\ c \in DOMAIN s.bufs \ {}
    BY <2>1, <1>12
  <2> QED
    BY <2>2, <1>1 DEF Deferred
<1>14. ev[u] # <<>>
  <2>1. Len(ev[u]) = Len(q) + 1 /\ Len(q) \in Nat
    BY <1>5, <1>7
  <2>2. Len(<<>>) = 0
    OBVIOUS
  <2> QED
    BY <2>1, <2>2
<1>15. PairsExact(r)
  <2>1. /\ s.pairs \in [UserStreams \X Streams -> SUBSET Nat]
        /\ \A v \in UserStreams, m \in Streams :
             s.pairs[<<v, m>>] = {c \in DOMAIN s.bufs : s.bufs[c].stream_id = m /\ s.bufs[c].events[v] # <<>>}
    BY <1>1 DEF Waiting, PairsExact
  <2>2. PICK m0 : m0 = s.bufs[b].stream_id
    OBVIOUS
  <2>3. m0 \in Streams /\ <<u, m0>> \in UserStreams \X Streams /\ r.pairs = [s.pairs EXCEPT ![<<u, m0>>] = @ \cup {b}]
    BY <2>2, <1>4, <1>9, <1>21
  <2>4. b \in Nat
    BY <1>2, ShapeFacts
  <2>5. r.pairs \in [UserStreams \X Streams -> SUBSET Nat]
    <3>1. PICK p \in UserStreams \X Streams : p = <<u, m0>>
      BY <2>3
    <3>2. s.pairs[p] \cup {b} \in SUBSET Nat
      BY <2>1, <2>4
    <3>3. r.pairs = [s.pairs EXCEPT ![p] = s.pairs[p] \cup {b}]
      BY <2>3, <3>1
    <3> QED
      BY <2>1, <3>2, <3>3
  <2>6. ASSUME NEW v \in UserStreams, NEW m \in Streams
        PROVE  r.pairs[<<v, m>>] = {c \in DOMAIN r.bufs : r.bufs[c].stream_id = m /\ r.bufs[c].events[v] # <<>>}
    <3>1. s.pairs[<<v, m>>] = {c \in DOMAIN s.bufs : s.bufs[c].stream_id = m /\ s.bufs[c].events[v] # <<>>}
      BY <2>1
    <3>2. CASE v = u /\ m = m0
      <4>1. r.pairs[<<v, m>>] = s.pairs[<<v, m>>] \cup {b}
        BY <3>2, <2>1, <2>3
      <4>2. r.bufs[b].stream_id = m /\ r.bufs[b].events[v] # <<>>
        BY <3>2, <2>2, <1>9, <1>12, <1>14
      <4> QED
        BY <4>1, <4>2, <3>1, <1>12
    <3>3. CASE v # u \/ m # m0
      <4>1. r.pairs[<<v, m>>] = s.pairs[<<v, m>>]
        BY <3>3, <2>1, <2>3
      <4>2. (r.bufs[b].stream_id = m /\ r.bufs[b].events[v] # <<>>)
              <=> (s.bufs[b].stream_id = m /\ s.bufs[b].events[v] # <<>>)
        BY <3>3, <2>2, <1>7, <1>9, <1>12
      <4> QED
        BY <4>1, <4>2, <3>1, <1>12
    <3> QED
      BY <3>2, <3>3
  <2> QED
    BY <2>5, <2>6 DEF PairsExact
<1>16. InUseHeld(r)
  <2> SUFFICES ASSUME ~ FreePartWithEvents, NEW x \in r.inuse
               PROVE  x.user \in UserStreams /\ Held(r.bufs, x)
    BY DEF InUseHeld
  <2>1. BytesOf(buf) = BytesOf(s.bufs[b])
    BY <1>9 DEF BytesOf
  <2>2. CASE x \in s.inuse
    <3>1. x.user \in UserStreams /\ Held(s.bufs, x)
      BY <2>2, <1>1 DEF Waiting, InUseHeld
    <3>2. PICK c \in DOMAIN s.bufs : /\ x.byte \in BytesOf(s.bufs[c]) /\ x.mem = s.bufs[c].stream_id
                                     /\ \E i \in 1 .. Len(s.bufs[c].events[x.user]) :
                                          s.bufs[c].events[x.user][i] = x.task
      BY <3>1 DEF Held
    <3>3. CASE c # b
      BY <3>1, <3>2, <3>3, <1>12 DEF Held
    <3>4. CASE c = b
      <4>1. PICK i \in 1 .. Len(s.bufs[b].events[x.user]) : s.bufs[b].events[x.user][i] = x.task
        BY <3>2, <3>4
      <4>2. i \in 1 .. Len(ev[x.user]) /\ ev[x.user][i] = x.task
        <5>1. CASE x.user = u
          BY <5>1, <4>1, <1>5, <1>7
        <5>2. CASE x.user # u
          BY <5>2, <4>1, <3>1, <1>7
        <5> QED
          BY <5>1, <5>2
      <4>3. x.byte \in BytesOf(r.bufs[b]) /\ x.mem = r.bufs[b].stream_id /\ r.bufs[b].events = ev
        BY <3>2, <3>4, <2>1, <1>9, <1>12
      <4> QED
        BY <4>2, <4>3, <3>1, <1>12 DEF Held
    <3> QED
      BY <3>3, <3>4
  <2>3. CASE x \notin s.inuse
    <3>1. PICK y \in BytesOf(buf) : x = [byte |-> y, user |-> u, mem |-> buf.stream_id, task |-> t]
      BY <2>3, <1>21
    <3>2. x.byte = y /\ x.user = u /\ x.mem = buf.stream_id /\ x.task = t
      BY <3>1
    <3>3. Len(q) + 1 \in 1 .. Len(ev[u]) /\ ev[u][Len(q) + 1] = t
      BY <1>5, <1>7
    <3>4. r.bufs[b] = buf /\ buf.events = ev /\ b \in DOMAIN r.bufs
      BY <1>9, <1>12
    <3> QED
      BY <3>1, <3>2, <3>3, <3>4 DEF Held
  <2> QED
    BY <2>2, <2>3
<1>17. Unhurt(s, r, {b})
  BY <1>12 DEF Unhurt, SameBuf
<1>18. Paged(r)
  BY <1>1, <1>10, <1>21, TouchedPages
<1> QED
  BY <1>11, <1>13, <1>15, <1>16, <1>17, <1>18 DEF Good, Kept, Waiting

-----------------------------------------------------------------------------
(* FreeTensorMem.                                                          *)

LEMMA FreeTensorOK ==
  ASSUME NEW s, Good(s), NEW addr \in DOMAIN s.addrs, NEW b, b = s.addrs[addr].buf,
         NEW t, t = DoFreeTensorMem(s, addr)
  PROVE  /\ Good(t) /\ Unhurt(s, t, {b}) /\ Sealed(s, t) /\ DOMAIN t.addrs \subseteq DOMAIN s.addrs
         /\ \A x \in DOMAIN s.addrs \ {addr} : x \in DOMAIN t.addrs /\ t.addrs[x] = s.addrs[x]
<1>1. Kept(s, {}) /\ Waiting(s) /\ Paged(s)
  BY DEF Good
<1>2. Kept(s, {b})
  BY <1>1 DEF Kept, Deferred
<1>3. Kept(t, {}) /\ FreeFrame(s, t, b, addr)
  BY <1>2, DoFreeOK
<1>4. EventsKept(s.bufs, t.bufs) /\ t.pairs = s.pairs /\ t.inuse = s.inuse
  BY <1>3 DEF FreeFrame
<1>5. Waiting(t)
  BY <1>1, <1>4, EventsKeptOK
<1>6. Unhurt(s, t, {b})
  BY <1>3 DEF FreeFrame, Unhurt
<1>7. Paged(t)
  BY <1>1, <1>3, FreePages
<1>8. Sealed(s, t)
  BY <1>2, <1>3, FreeSealed
<1> QED
  BY <1>3, <1>5, <1>6, <1>7, <1>8 DEF Good, FreeFrame

-----------------------------------------------------------------------------
(* FreePartTensorMems.                                                     *)

\* Buffer b is in use and may be cut: memory its events protect stays in it.
Cuttable(s, b) ==
  /\ s.bufs[b].status = "Used"
  /\ FreePartWithEvents \/ s.bufs[b].events = NoEvents

\* t is s with b cut at that address, and nothing else changed.
CutOnly(s, t, b, k, at) ==
  /\ b \in DOMAIN s.bufs /\ Cuttable(s, b)
  /\ Fields \subseteq DOMAIN t
  /\ t.blocks = s.blocks /\ t.lists = s.lists /\ t.addrs = s.addrs
  /\ t.pairs = s.pairs /\ t.inuse = s.inuse
  /\ Cut(s.bufs, t.bufs, b, k, at)
  /\ LikeBufs(s.bufs, t.bufs, b, k)

\* A buffer in use is cut; the part behind it is not in the index yet.
LEMMA CutUsedOK ==
  ASSUME NEW s, NEW Y, Nearly(s, {}, Y), NEW b, NEW t, NEW k, NEW at, CutOnly(s, t, b, k, at)
  PROVE  Nearly(t, {}, Y \cup {k}) /\ Unhurt(s, t, {b}) /\ Owner(t, k) = Owner(s, b)
<1> DEFINE D == DOMAIN s.bufs
<1>0. /\ b \in DOMAIN s.bufs /\ s.bufs[b].status = "Used" /\ (~ FreePartWithEvents => s.bufs[b].events = NoEvents)
      /\ Fields \subseteq DOMAIN t /\ t.blocks = s.blocks /\ t.lists = s.lists /\ t.addrs = s.addrs
      /\ t.pairs = s.pairs /\ t.inuse = s.inuse
      /\ Cut(s.bufs, t.bufs, b, k, at) /\ LikeBufs(s.bufs, t.bufs, b, k)
  BY DEF Cuttable, CutOnly
<1>1. /\ Pooled(s) /\ Merged(s.bufs) /\ QuietFree(s.bufs) /\ ListsExact(s, {}) /\ AddrsExact(s, Y)
      /\ Deferred(s.bufs, {}) /\ Waiting(s) /\ Shape(s.bufs, s.blocks)
      /\ s.lists \in [Allocators -> [FreeStatus -> SUBSET Nat]]
  BY DEF Nearly, Calm, Pooled
<1>2. /\ k \notin D /\ b \in D /\ k # b /\ DOMAIN t.bufs = D \cup {k}
      /\ t.bufs[k].mem_block = s.bufs[b].mem_block
      /\ \A c \in D : t.bufs[c].mem_block = s.bufs[c].mem_block /\ t.bufs[c].addr = s.bufs[c].addr
      /\ \A c \in D \ {b} : t.bufs[c].next = s.bufs[c].next /\ t.bufs[c].size = s.bufs[c].size
  BY <1>0 DEF Cut
<1>3. /\ \A c \in D : /\ t.bufs[c].status = s.bufs[c].status /\ t.bufs[c].events = s.bufs[c].events
                      /\ t.bufs[c].stream_id = s.bufs[c].stream_id
      /\ t.bufs[k].status = "Used" /\ t.bufs[k].events = NoEvents
  BY <1>0 DEF LikeBufs
<1>4. Owner(t, k) = Owner(s, b) /\ \A c \in D : Owner(t, c) = Owner(s, c)
  BY <1>0, <1>2 DEF Owner
<1>5. Shape(t.bufs, t.blocks)
  BY <1>0, <1>1, CutShape
<1>6. Pooled(t)
  BY <1>0, <1>1, <1>5 DEF Pooled
<1>7. "Used" \notin FreeStatus /\ "UsedByEvent" \notin FreeStatus
  BY DEF FreeStatus
<1>8. QuietFree(t.bufs) /\ Deferred(t.bufs, {})
  BY <1>1, <1>2, <1>3, <1>7 DEF QuietFree, Deferred
<1>9. Merged(t.bufs)
  <2> SUFFICES ASSUME NEW c \in DOMAIN t.bufs PROVE Apart(t.bufs, c)
    BY DEF Merged
  <2>1. CASE c \in {b, k}
    BY <2>1, <1>0, <1>3, <1>7 DEF Apart
  <2>2. CASE c \notin {b, k}
    <3>1. c \in D \ {b}
      BY <2>2, <1>2
    <3>2. Apart(s.bufs, c) /\ (s.bufs[c].next # NoBuf => s.bufs[c].next \in D)
      BY <3>1, <1>1, NextFacts DEF Merged
    <3> QED
      BY <3>1, <3>2, <1>2, <1>3 DEF Apart
  <2> QED
    BY <2>1, <2>2
<1>10. ListsExact(t, {})
  <2>1. ASSUME NEW x \in Allocators, NEW y \in FreeStatus
        PROVE  t.lists[x][y] = Listed(t, DOMAIN t.bufs \ {}, x, y)
    <3>1. s.lists[x][y] = Listed(s, D \ {}, x, y)
      BY <1>1 DEF ListsExact
    <3>2. Listed(t, DOMAIN t.bufs \ {}, x, y) = Listed(s, D \ {}, x, y)
      BY <1>2, <1>3, <1>4, <1>7 DEF Listed
    <3> QED
      BY <3>1, <3>2, <1>0
  <2> QED
    BY <2>1 DEF ListsExact
<1>11. AddrsExact(t, Y \cup {k})
  <2>1. ASSUME NEW x \in DOMAIN t.addrs
        PROVE  /\ t.addrs[x].buf \in DOMAIN t.bufs \ (Y \cup {k})
               /\ t.bufs[t.addrs[x].buf].addr = x
               /\ t.bufs[t.addrs[x].buf].status \notin FreeStatus
               /\ t.addrs[x].alloc = Owner(t, t.addrs[x].buf)
    <3>1. PICK d : x \in DOMAIN s.addrs /\ d = s.addrs[x] /\ d = t.addrs[x]
      BY <1>0
    <3>2. /\ d.buf \in D \ Y /\ s.bufs[d.buf].addr = x
          /\ s.bufs[d.buf].status \notin FreeStatus /\ d.alloc = Owner(s, d.buf)
      BY <3>1, <1>1 DEF AddrsExact
    <3>3. d.buf \in D /\ d.buf # k
      BY <3>2, <1>2
    <3> QED
      BY <3>1, <3>2, <3>3, <1>2, <1>3, <1>4
  <2>2. ASSUME NEW c \in DOMAIN t.bufs \ (Y \cup {k}), t.bufs[c].status \notin FreeStatus
        PROVE  t.bufs[c].addr \in DOMAIN t.addrs /\ t.addrs[t.bufs[c].addr].buf = c
    <3>1. c \in D \ Y /\ s.bufs[c].status \notin FreeStatus /\ t.bufs[c].addr = s.bufs[c].addr
      BY <2>2, <1>2, <1>3
    <3> QED
      BY <3>1, <1>0, <1>1 DEF AddrsExact
  <2> QED
    BY <2>1, <2>2 DEF AddrsExact
<1>12. PairsExact(t)
  <2>1. /\ s.pairs \in [UserStreams \X Streams -> SUBSET Nat]
        /\ \A u \in UserStreams, m \in Streams :
             s.pairs[<<u, m>>] = {c \in D : s.bufs[c].stream_id = m /\ s.bufs[c].events[u] # <<>>}
    BY <1>1 DEF Waiting, PairsExact
  <2>2. \A u \in UserStreams : t.bufs[k].events[u] = <<>>
    BY <1>3 DEF NoEvents
  <2>3. ASSUME NEW u \in UserStreams, NEW m \in Streams
        PROVE  {c \in D : s.bufs[c].stream_id = m /\ s.bufs[c].events[u] # <<>>}
                 = {c \in DOMAIN t.bufs : t.bufs[c].stream_id = m /\ t.bufs[c].events[u] # <<>>}
    BY <2>2, <1>2, <1>3
  <2> QED
    BY <2>1, <2>3, <1>0 DEF PairsExact
<1>13. InUseHeld(t)
  <2> SUFFICES ASSUME ~ FreePartWithEvents, NEW x \in t.inuse
               PROVE  x.user \in UserStreams /\ Held(t.bufs, x)
    BY DEF InUseHeld
  <2>1. x.user \in UserStreams /\ Held(s.bufs, x)
    BY <1>0, <1>1 DEF Waiting, InUseHeld
  <2>2. PICK c \in D : /\ x.byte \in BytesOf(s.bufs[c]) /\ x.mem = s.bufs[c].stream_id
                       /\ \E i \in 1 .. Len(s.bufs[c].events[x.user]) : s.bufs[c].events[x.user][i] = x.task
    BY <2>1 DEF Held
  <2>3. c # b
    <3>1. s.bufs[b].events[x.user] = <<>>
      BY <2>1, <1>0 DEF NoEvents
    <3>2. 1 .. Len(<<>>) = {}
      OBVIOUS
    <3> QED
      BY <3>1, <3>2, <2>2
  <2>4. BytesOf(t.bufs[c]) = BytesOf(s.bufs[c])
    BY <2>3, <1>2 DEF BytesOf
  <2>5. c \in DOMAIN t.bufs /\ t.bufs[c].stream_id = s.bufs[c].stream_id /\ t.bufs[c].events = s.bufs[c].events
    BY <1>2, <1>3
  <2> QED
    BY <2>1, <2>2, <2>4, <2>5 DEF Held
<1>14. Unhurt(s, t, {b})
  BY <1>2, <1>3 DEF Unhurt, SameBuf
<1>15. Calm(t) /\ Waiting(t)
  BY <1>6, <1>8, <1>9, <1>12, <1>13 DEF Calm, Waiting
<1> QED
  BY <1>4, <1>8, <1>10, <1>11, <1>14, <1>15 DEF Nearly

\* The buffers at several addresses are freed one after another.
LEMMA FreeAllOK ==
  ASSUME NEW s, Good(s), NEW S, S \subseteq DOMAIN s.addrs, IsFiniteSet(S), S \subseteq Nat,
         NEW r, r = FoldUp(DoFreeTensorMem, s, S)
  PROVE  Good(r) /\ Unhurt(s, r, {s.addrs[x].buf : x \in S}) /\ Sealed(s, r)
<1> DEFINE w == [tag |-> "free"]
           U == {s.addrs[x].buf : x \in S}
           Def(f) == [T \in SUBSET S |-> IF T = {} THEN s ELSE DoFreeTensorMem(f[T \ {Max(T)}], Max(T))]
<1>1. PICK g : r = g[S] /\ g = CHOOSE f : f = Def(f)
  BY DEF FoldUp, MapThenFoldSet
<1>2. (\A T \in SUBSET S : T # {} => LastOf(w, T) \in T) /\ \A T : LastOf(w, T) = Max(T)
  <2>1. w.tag \in Ascending
    BY DEF Ascending
  <2> HIDE DEF w
  <2>2. ASSUME NEW T \in SUBSET S, T # {} PROVE LastOf(w, T) \in T
    BY <2>1, <2>2, LastIn
  <2> QED
    BY <2>1, <2>2, LastNumber
<1>3. \A acc, x : Step(w, acc, x) = DoFreeTensorMem(acc, x)
  BY DEF Step
<1>4. \A f : Def(f) = [T \in SUBSET S |-> IF T = {} THEN s ELSE Step(w, f[T \ {LastOf(w, T)}], LastOf(w, T))]
  BY <1>2, <1>3
<1>5. \A f : IsFold(f, w, s, S) <=> f = Def(f)
  BY <1>4 DEF IsFold
<1>6. \E f : f = Def(f)
  BY <1>2, <1>5, FoldExists
<1> HIDE DEF Def
<1>7. IsFold(g, w, s, S)
  BY <1>1, <1>5, <1>6
<1>8. \A acc, T : FoldGood(w, s, S, acc, T) <=>
         /\ Good(acc) /\ S \ T \subseteq DOMAIN acc.addrs /\ Unhurt(s, acc, U) /\ Sealed(s, acc)
         /\ \A x \in S \ T : acc.addrs[x] = s.addrs[x]
  BY DEF FoldGood
<1>9. FoldGood(w, s, S, s, {})
  BY <1>8 DEF Unhurt, SameBuf, Sealed, Settled
<1> HIDE DEF w
<1>10. ASSUME NEW T \in SUBSET S, NEW acc, T # {}, FoldGood(w, s, S, acc, T \ {LastOf(w, T)})
       PROVE  FoldGood(w, s, S, Step(w, acc, LastOf(w, T)), T)
  <2>1. PICK x : x = LastOf(w, T)
    OBVIOUS
  <2>2. /\ Good(acc) /\ S \ (T \ {x}) \subseteq DOMAIN acc.addrs /\ Unhurt(s, acc, U) /\ Sealed(s, acc)
        /\ \A y \in S \ (T \ {x}) : acc.addrs[y] = s.addrs[y]
    BY <2>1, <1>8, <1>10
  <2>3. x \in S /\ x \in T
    BY <2>1, <1>2, <1>10
  <2>4. PICK b : b = s.addrs[x].buf
    OBVIOUS
  <2>5. x \in DOMAIN acc.addrs /\ b = acc.addrs[x].buf /\ b \in U
    BY <2>2, <2>3, <2>4
  <2> HIDE DEF U
  <2>6. PICK z : z = DoFreeTensorMem(acc, x)
    OBVIOUS
  <2>7. /\ Good(z) /\ Unhurt(acc, z, {b}) /\ Sealed(acc, z)
        /\ \A y \in DOMAIN acc.addrs \ {x} : y \in DOMAIN z.addrs /\ z.addrs[y] = acc.addrs[y]
    <3>1. Good(acc) /\ x \in DOMAIN acc.addrs /\ b = acc.addrs[x].buf
      BY <2>2, <2>5
    <3> QED
      BY <3>1, <2>6, FreeTensorOK
  <2>8. Unhurt(s, z, U) /\ Sealed(s, z)
    <3>1. Unhurt(s, z, U)
      BY <2>2, <2>5, <2>7 DEF Unhurt, SameBuf
    <3> QED
      BY <3>1, <2>2, <2>7, SealedTwice
  <2>9. S \ T \subseteq DOMAIN z.addrs /\ \A y \in S \ T : z.addrs[y] = s.addrs[y]
    BY <2>2, <2>3, <2>7
  <2>10. Step(w, acc, LastOf(w, T)) = z
    BY <2>1, <2>6, <1>3
  <2> QED
    BY <2>7, <2>8, <2>9, <2>10, <1>8
<1>11. FoldGood(w, s, S, g[S], S)
  BY <1>2, <1>7, <1>9, <1>10, FoldInduction
<1> QED
  BY <1>1, <1>8, <1>11

\* bufs with another size of b.
Resized(bufs, b, len) == [bufs EXCEPT ![b].size = len]

\* The range kept, or what is behind it, is chained behind the buffer it is cut from.
LEMMA KeepBehind ==
  ASSUME NEW bufs, NEW blocks, Shape(bufs, blocks), NEW b \in DOMAIN bufs, NEW at,
         NEW k \in BufIds \ DOMAIN bufs, NEW len, NEW z, z = at - bufs[b].addr,
         NEW mid, mid = MemBuf(len, at, bufs[b].stream_id, bufs[b].mem_block, bufs[b].status),
         NEW new, \/ new = Resized(Link(Put(bufs, k, mid), k, b, bufs[b].next), b, z)
                  \/ \E old : Trimmed(bufs, old, b, z) /\ new = Link(Put(old, k, mid), k, b, bufs[b].next)
  PROVE  Behind(bufs, new, b, k, at, len)
<1> DEFINE D == DOMAIN bufs
           n == bufs[b].next
<1>1. k \notin D /\ b \in D /\ k # b /\ k # NoBuf /\ b # NoBuf
  BY BytesFinite, ShapeFacts DEF NoBuf
<1>2. n # NoBuf => n \in D /\ n # b
  BY NextFacts
<1>3. n # k
  BY <1>1, <1>2
<1>4. mid.next = NoBuf
  BY DEF MemBuf
<1>5. ASSUME NEW old, DOMAIN old = D, NEW put, put = Put(old, k, mid), NEW c,
             \A d \in D \ {b} : old[d] = bufs[d], c = Link(put, k, b, n)
      PROVE  /\ DOMAIN c = D \cup {k}
             /\ c[k] = [mid EXCEPT !.prev = b, !.next = n]
             /\ c[b] = [old[b] EXCEPT !.next = k]
             /\ n # NoBuf => c[n] = [bufs[n] EXCEPT !.prev = k]
             /\ \A d \in D \ {b, n} : c[d] = bufs[d]
  <2>1. /\ DOMAIN put = D \cup {k} /\ put[k] = mid /\ put[b] = old[b]
        /\ \A d \in D \ {b} : put[d] = bufs[d]
    BY <1>1, <1>5 DEF Put
  <2>2. /\ DOMAIN c = D \cup {k}
        /\ c[k] = [mid EXCEPT !.prev = b, !.next = IF n = NoBuf THEN @ ELSE n]
        /\ c[b] = [put[b] EXCEPT !.next = k]
        /\ n # NoBuf => c[n] = [bufs[n] EXCEPT !.prev = k]
        /\ \A d \in D \ {b, n} : c[d] = bufs[d]
    BY <1>1, <1>2, <1>3, <1>5, <2>1 DEF Link
  <2>3. c[k] = [mid EXCEPT !.prev = b, !.next = n]
    BY <1>4, <2>2
  <2> QED
    BY <2>1, <2>2, <2>3
<1>6. CASE new = Resized(Link(Put(bufs, k, mid), k, b, n), b, z)
  <2>1. PICK put : put = Put(bufs, k, mid)
    OBVIOUS
  <2>2. PICK c : c = Link(put, k, b, n)
    OBVIOUS
  <2>3. /\ DOMAIN c = D \cup {k}
        /\ c[k] = [mid EXCEPT !.prev = b, !.next = n]
        /\ c[b] = [bufs[b] EXCEPT !.next = k]
        /\ n # NoBuf => c[n] = [bufs[n] EXCEPT !.prev = k]
        /\ \A d \in D \ {b, n} : c[d] = bufs[d]
    BY <1>5, <2>1, <2>2
  <2>4. new = [c EXCEPT ![b].size = z]
    BY <1>6, <2>1, <2>2 DEF Resized
  <2>5. /\ DOMAIN new = D \cup {k} /\ new[k] = c[k] /\ new[b] = [c[b] EXCEPT !.size = z]
        /\ \A d \in D \ {b} : new[d] = c[d]
    BY <1>1, <2>3, <2>4
  <2>6. new[b] = [bufs[b] EXCEPT !.size = z, !.next = k]
    BY <2>3, <2>5
  <2> QED
    BY <1>2, <2>3, <2>5, <2>6 DEF Behind
<1>7. CASE \E old : Trimmed(bufs, old, b, z) /\ new = Link(Put(old, k, mid), k, b, n)
  <2>1. PICK old : Trimmed(bufs, old, b, z) /\ new = Link(Put(old, k, mid), k, b, n)
    BY <1>7
  <2>2. DOMAIN old = D /\ old[b] = [bufs[b] EXCEPT !.size = z] /\ \A d \in D \ {b} : old[d] = bufs[d]
    BY <2>1 DEF Trimmed
  <2>3. /\ DOMAIN new = D \cup {k}
        /\ new[k] = [mid EXCEPT !.prev = b, !.next = n]
        /\ new[b] = [old[b] EXCEPT !.next = k]
        /\ n # NoBuf => new[n] = [bufs[n] EXCEPT !.prev = k]
        /\ \A d \in D \ {b, n} : new[d] = bufs[d]
    <3>1. PICK put : put = Put(old, k, mid)
      OBVIOUS
    <3>2. /\ DOMAIN old = D /\ put = Put(old, k, mid) /\ (\A d \in D \ {b} : old[d] = bufs[d])
          /\ new = Link(put, k, b, n)
      BY <2>1, <2>2, <3>1
    <3> QED
      BY <1>5, <3>2
  <2>4. new[b] = [bufs[b] EXCEPT !.size = z, !.next = k]
    BY <2>2, <2>3
  <2> QED
    BY <2>3, <2>4 DEF Behind
<1> QED
  BY <1>6, <1>7

LEMMA ResizedBehind ==
  ASSUME NEW bufs, NEW new, NEW b, NEW k, NEW at, NEW len, Behind(bufs, new, b, k, at, len),
         k \notin DOMAIN bufs, b \in DOMAIN bufs, bufs[b].next # NoBuf => bufs[b].next \in DOMAIN bufs,
         NEW len2, NEW g, g = Resized(new, k, len2)
  PROVE  Behind(bufs, g, b, k, at, len2) /\ Trimmed(g, new, k, len)
<1> DEFINE n == bufs[b].next
<1>1. /\ DOMAIN new = DOMAIN bufs \cup {k}
      /\ new[b] = [bufs[b] EXCEPT !.size = at - bufs[b].addr, !.next = k]
      /\ new[k] = [MemBuf(len, at, bufs[b].stream_id, bufs[b].mem_block, bufs[b].status)
                     EXCEPT !.prev = b, !.next = n]
      /\ n # NoBuf => new[n] = [bufs[n] EXCEPT !.prev = k]
      /\ \A c \in DOMAIN bufs \ {b, n} : new[c] = bufs[c]
  BY DEF Behind
<1>2. /\ DOMAIN g = DOMAIN new /\ g[k] = [new[k] EXCEPT !.size = len2]
      /\ \A c \in DOMAIN bufs : g[c] = new[c]
  BY <1>1 DEF Resized
<1>3. PICK sid, blk, st : sid = bufs[b].stream_id /\ blk = bufs[b].mem_block /\ st = bufs[b].status
  OBVIOUS
<1>4. new[k] = [size |-> len, addr |-> at, stream_id |-> sid, mem_block |-> blk, status |-> st,
                prev |-> b, next |-> n, events |-> NoEvents]
  BY <1>1, <1>3 DEF MemBuf
<1>5. g[k] = [size |-> len2, addr |-> at, stream_id |-> sid, mem_block |-> blk, status |-> st,
              prev |-> b, next |-> n, events |-> NoEvents]
  BY <1>2, <1>4
<1>6. g[k] = [MemBuf(len2, at, sid, blk, st) EXCEPT !.prev = b, !.next = n]
  <2>1. PICK m : m = MemBuf(len2, at, sid, blk, st)
    OBVIOUS
  <2>2. m = [size |-> len2, addr |-> at, stream_id |-> sid, mem_block |-> blk, status |-> st,
             prev |-> NoBuf, next |-> NoBuf, events |-> NoEvents]
    BY <2>1 DEF MemBuf
  <2>3. PICK h : h = [m EXCEPT !.prev = b, !.next = n]
    OBVIOUS
  <2>4. h = [size |-> len2, addr |-> at, stream_id |-> sid, mem_block |-> blk, status |-> st,
             prev |-> b, next |-> n, events |-> NoEvents]
    BY <2>2, <2>3
  <2>5. g[k] = [m EXCEPT !.prev = b, !.next = n]
    BY <2>3, <2>4, <1>5
  <2> QED
    BY <2>1, <2>5
<1>7. new[k] = [g[k] EXCEPT !.size = len]
  BY <1>4, <1>5
<1>8. Behind(bufs, g, b, k, at, len2)
  BY <1>1, <1>2, <1>3, <1>6 DEF Behind
<1>9. Trimmed(g, new, k, len)
  BY <1>1, <1>2, <1>7 DEF Trimmed
<1> QED
  BY <1>8, <1>9

\* A buffer in use ends at an address, and a buffer of that length behind it is indexed.
CutAt(s, t, b, k, at, len) ==
  /\ Fields \subseteq DOMAIN t
  /\ t.blocks = s.blocks /\ t.lists = s.lists /\ t.pairs = s.pairs /\ t.inuse = s.inuse
  /\ t.stat = s.stat /\ t.vmm = s.vmm
  /\ t.addrs = Emplace(s.addrs, at, [buf |-> k, alloc |-> Owner(s, b)])
  /\ Behind(s.bufs, t.bufs, b, k, at, len)

Cutting(s, t, b, k, at, len) ==
  /\ b \in DOMAIN s.bufs /\ Cuttable(s, b)
  /\ at \in Nat /\ s.bufs[b].addr < at /\ at < End(s.bufs[b])
  /\ k \in BufIds \ DOMAIN s.bufs
  /\ len = End(s.bufs[b]) - at
  /\ CutAt(s, t, b, k, at, len)

\* What the cut leaves.
IsCut(s, t, b, k, at, len) ==
  /\ Good(t) /\ Unhurt(s, t, {b}) /\ Settled(s, t)
  /\ DOMAIN t.bufs = DOMAIN s.bufs \cup {k}
  /\ t.bufs[k].addr = at /\ t.bufs[k].size = len
  /\ t.bufs[k].status = "Used" /\ t.bufs[k].events = NoEvents
  /\ t.bufs[k].stream_id = s.bufs[b].stream_id /\ t.bufs[k].mem_block = s.bufs[b].mem_block
  /\ Owner(t, k) = Owner(s, b)
  /\ at \in DOMAIN t.addrs /\ t.addrs[at].buf = k
  /\ \A x \in DOMAIN s.addrs : x \in DOMAIN t.addrs /\ t.addrs[x] = s.addrs[x]

LEMMA CutAtOK ==
  ASSUME NEW s, Good(s), NEW b, NEW at, NEW k, NEW len, NEW t, Cutting(s, t, b, k, at, len)
  PROVE  IsCut(s, t, b, k, at, len)
<1>0. /\ b \in DOMAIN s.bufs /\ Cuttable(s, b)
      /\ at \in Nat /\ s.bufs[b].addr < at /\ at < End(s.bufs[b])
      /\ k \in BufIds \ DOMAIN s.bufs
      /\ len = End(s.bufs[b]) - at
      /\ CutAt(s, t, b, k, at, len)
  BY DEF Cutting
<1>1. Nearly(s, {}, {}) /\ Shape(s.bufs, s.blocks) /\ Fields \subseteq DOMAIN s
  <2>1. Nearly(s, {}, {})
    BY GoodNearly
  <2> QED
    BY <2>1 DEF Nearly, Calm, Pooled
<1>2. Cut(s.bufs, t.bufs, b, k, at) /\ LikeBufs(s.bufs, t.bufs, b, k)
  BY <1>0, <1>1, BehindCut DEF CutAt
<1>3. PICK y : y = [t EXCEPT !.addrs = s.addrs]
  OBVIOUS
<1>4. /\ Fields \subseteq DOMAIN y /\ y.bufs = t.bufs /\ y.blocks = s.blocks /\ y.lists = s.lists
      /\ y.addrs = s.addrs /\ y.pairs = s.pairs /\ y.inuse = s.inuse
  BY <1>0, <1>3 DEF CutAt, Fields
<1>5. Cut(s.bufs, y.bufs, b, k, at) /\ LikeBufs(s.bufs, y.bufs, b, k)
  BY <1>2, <1>4
<1>6. PICK Y : Y = {k}
  OBVIOUS
<1>7. Nearly(y, {}, Y) /\ Unhurt(s, y, {b}) /\ Owner(y, k) = Owner(s, b)
  <2>1. PICK X : X = {} /\ Nearly(s, {}, X)
    BY <1>1
  <2>2. Nearly(y, {}, X \cup {k}) /\ Unhurt(s, y, {b}) /\ Owner(y, k) = Owner(s, b)
    <3>1. Nearly(s, {}, X) /\ CutOnly(s, y, b, k, at)
      BY <1>0, <1>4, <1>5, <2>1 DEF CutOnly
    <3> QED
      BY <3>1, CutUsedOK
  <2>3. X \cup {k} = Y
    BY <2>1, <1>6
  <2> QED
    BY <2>2, <2>3
<1>8. /\ k \in DOMAIN y.bufs /\ y.bufs[k].status = "Used" /\ y.bufs[k].events = NoEvents
      /\ y.bufs[k].stream_id = s.bufs[b].stream_id /\ y.bufs[k].mem_block = s.bufs[b].mem_block
      /\ y.bufs[k].addr = at /\ y.bufs[k].size = len
      /\ DOMAIN y.bufs = DOMAIN s.bufs \cup {k} /\ y.bufs[b].size = at - s.bufs[b].addr
  BY <1>0, <1>5 DEF Cut, LikeBufs, Cuttable
<1>9. y.bufs[k].status \notin FreeStatus
  BY <1>8 DEF FreeStatus
<1>10. PICK z : z = Entered(y, k)
  OBVIOUS
<1>11. PICK e : e = Entry(y, k)
  OBVIOUS
<1>12. e = [buf |-> k, alloc |-> Owner(s, b)]
  BY <1>7, <1>11 DEF Entry
<1>13. z = [y EXCEPT !.addrs = Emplace(s.addrs, at, e)]
  BY <1>4, <1>8, <1>10, <1>11 DEF Entered
<1>14. IsEntered(y, z, {}, {}, k)
  <2>1. PICK X : X = {} /\ X = Y \ {k} /\ Nearly(y, X, Y)
    BY <1>6, <1>7
  <2>2. Entering(y, z, X, Y, X, k)
    BY <2>1, <1>6, <1>8, <1>9, <1>10 DEF Entering
  <2>3. IsEntered(y, z, X, X, k)
    BY <2>2, EnterOK
  <2> QED
    BY <2>1, <2>3
<1>15. /\ Nearly(z, {}, {}) /\ z.bufs = y.bufs /\ z.blocks = y.blocks
       /\ DOMAIN z.addrs = DOMAIN y.addrs \cup {at} /\ z.addrs[at] = e
       /\ \A x \in DOMAIN y.addrs : z.addrs[x] = y.addrs[x]
  BY <1>8, <1>11, <1>14 DEF IsEntered
<1>16. Same(z, t)
  <2>1. Fields \subseteq DOMAIN t /\ t.blocks = s.blocks /\ t.lists = s.lists /\ t.pairs = s.pairs
        /\ t.inuse = s.inuse /\ t.addrs = Emplace(s.addrs, at, e)
    BY <1>0, <1>12 DEF CutAt
  <2>2. z.bufs = y.bufs /\ z.blocks = y.blocks /\ z.lists = y.lists /\ z.pairs = y.pairs /\ z.inuse = y.inuse
        /\ z.addrs = Emplace(s.addrs, at, e)
    BY <1>4, <1>13 DEF Fields
  <2> QED
    BY <2>1, <2>2, <1>4 DEF Same
<1>17. Nearly(t, {}, {}) /\ Unhurt(z, t, {})
  BY <1>15, <1>16, SameOK
<1>24. Paged(t)
  <2>1. EagerBytes(t.bufs) = EagerBytes(s.bufs)
    BY <1>1, <1>2, CutEager
  <2>2. Paged(s) /\ t.vmm = s.vmm /\ t.blocks = s.blocks
    BY <1>0 DEF CutAt, Good
  <2> QED
    BY <2>1, <2>2, EagerPages
<1>18. Good(t)
  BY <1>17, <1>24, GoodNearly
<1>19. Unhurt(s, t, {b})
  BY <1>4, <1>7 DEF Unhurt
<1>20. t.addrs = z.addrs /\ t.bufs = y.bufs /\ t.blocks = y.blocks
  BY <1>0, <1>4, <1>16 DEF Same, CutAt
<1>21. Owner(t, k) = Owner(s, b)
  BY <1>7, <1>20 DEF Owner
<1>22. at \in DOMAIN t.addrs /\ t.addrs[at] = e /\ e.buf = k
  BY <1>12, <1>15, <1>20
<1>23. \A x \in DOMAIN s.addrs : x \in DOMAIN t.addrs /\ t.addrs[x] = s.addrs[x]
  BY <1>4, <1>15, <1>20
<1>25. Settled(s, t)
  <2>1. UsedBytes(t) = UsedBytes(s)
    <3>1. s.bufs[b].addr \in DOMAIN s.addrs /\ s.addrs[s.bufs[b].addr].buf = b
      <4>1. s.bufs[b].status \notin FreeStatus /\ AddrsExact(s, {})
        BY <1>0, <1>1 DEF Cuttable, FreeStatus, Nearly
      <4> QED
        BY <4>1, <1>0, IndexedOK
    <3>2. /\ \A c \in DOMAIN s.bufs \ {b} : Span(t.bufs[c]) = Span(s.bufs[c])
          /\ Span(s.bufs[b]) = Span(t.bufs[b]) \cup Span(t.bufs[k])
      BY <1>1, <1>2, CutSpans
    <3>3. \A x \in DOMAIN s.addrs : s.addrs[x].buf \in DOMAIN s.bufs
      BY <1>1 DEF Nearly, AddrsExact
    <3>4. DOMAIN t.addrs = DOMAIN s.addrs \cup {at} /\ t.addrs[at].buf = k
      BY <1>4, <1>15, <1>20, <1>22
    <3>5. ASSUME NEW x \in Bytes, NEW g \in DOMAIN s.addrs, x \in Span(s.bufs[s.addrs[g].buf])
          PROVE  \E h \in DOMAIN t.addrs : x \in Span(t.bufs[t.addrs[h].buf])
      <4>1. CASE s.addrs[g].buf = b
        BY <4>1, <3>5, <3>2, <3>4, <1>23
      <4>2. CASE s.addrs[g].buf # b
        BY <4>2, <3>5, <3>2, <3>3, <1>23
      <4> QED
        BY <4>1, <4>2
    <3>6. ASSUME NEW x \in Bytes, NEW g \in DOMAIN t.addrs, x \in Span(t.bufs[t.addrs[g].buf])
          PROVE  \E h \in DOMAIN s.addrs : x \in Span(s.bufs[s.addrs[h].buf])
      <4>1. CASE t.addrs[g].buf = k
        BY <4>1, <3>6, <3>1, <3>2
      <4>2. CASE g \in DOMAIN s.addrs
        <5>1. t.addrs[g] = s.addrs[g] /\ s.addrs[g].buf \in DOMAIN s.bufs
          BY <4>2, <3>3, <1>23
        <5> QED
          BY <5>1, <4>2, <3>6, <3>2
      <4> QED
        BY <4>1, <4>2, <3>4
    <3> QED
      BY <3>5, <3>6 DEF UsedBytes
  <2>2. EventBytes(t.bufs) \subseteq EventBytes(s.bufs) /\ Within(s, t)
    BY <1>1, <1>2, CutBytes
  <2>3. EagerBytes(t.bufs) = EagerBytes(s.bufs)
    BY <1>1, <1>2, CutEager
  <2>4. Shape(t.bufs, t.blocks) /\ t.blocks = s.blocks /\ t.stat = s.stat
    BY <1>0, <1>17 DEF Nearly, Calm, Pooled, CutAt
  <2>5. Counted(s) => Counted(t)
    BY <2>1, <2>2, <2>3, <2>4, <1>1, StillCounted
  <2> QED
    BY <2>4, <2>5 DEF Settled
<1> QED
  BY <1>8, <1>18, <1>19, <1>20, <1>21, <1>22, <1>23, <1>25 DEF IsCut

\* A piece of buffer b.
PieceOf(s, b, len, at) == MemBuf(len, at, s.bufs[b].stream_id, s.bufs[b].mem_block, s.bufs[b].status)

LEMMA PieceAddr ==
  ASSUME NEW s, NEW b, NEW len, NEW at
  PROVE  PieceOf(s, b, len, at).addr = at
BY DEF PieceOf, MemBuf

\* A piece is inserted behind a buffer that was made shorter before.
LEMMA InsertCut ==
  ASSUME NEW s, Pooled(s), NEW b \in DOMAIN s.bufs, NEW at, NEW len, NEW k \in BufIds \ DOMAIN s.bufs,
         NEW z, z = at - s.bufs[b].addr, NEW y, SameButSize(s, y, b, z), k = NewId(y),
         NEW piece, piece = PieceOf(s, b, len, at), NEW own, own = Owner(s, b),
         NEW t, t = InsertBehind(y, b, piece, own)
  PROVE  CutAt(s, t, b, k, at, len)
<1>1. Shape(s.bufs, s.blocks) /\ piece.addr = at
  BY PieceAddr DEF Pooled
<1>2. /\ Fields \subseteq DOMAIN y
      /\ y.blocks = s.blocks /\ y.lists = s.lists /\ y.addrs = s.addrs
      /\ y.pairs = s.pairs /\ y.inuse = s.inuse /\ y.stat = s.stat /\ y.vmm = s.vmm
      /\ Trimmed(s.bufs, y.bufs, b, z)
  BY DEF SameButSize
<1>3. y.bufs[b].next = s.bufs[b].next
  <2>1. "next" \in DOMAIN s.bufs[b] /\ y.bufs[b] = [s.bufs[b] EXCEPT !.size = z]
    BY <1>1, <1>2, ShapeFacts DEF BufType, Trimmed
  <2> QED
    BY <2>1
<1>4. t = [y EXCEPT !.bufs = Link(Put(y.bufs, k, piece), k, b, s.bufs[b].next),
                    !.addrs = Emplace(s.addrs, at, [buf |-> k, alloc |-> own])]
  BY <1>1, <1>2, <1>3 DEF InsertBehind
<1>5. /\ Fields \subseteq DOMAIN t
      /\ t.blocks = s.blocks /\ t.lists = s.lists /\ t.pairs = s.pairs /\ t.inuse = s.inuse
      /\ t.stat = s.stat /\ t.vmm = s.vmm
      /\ t.addrs = Emplace(s.addrs, at, [buf |-> k, alloc |-> own])
      /\ t.bufs = Link(Put(y.bufs, k, piece), k, b, s.bufs[b].next)
  BY <1>2, <1>4 DEF Fields
<1>6. \E old : Trimmed(s.bufs, old, b, z) /\ t.bufs = Link(Put(old, k, piece), k, b, s.bufs[b].next)
  BY <1>2, <1>5
<1>7. piece = MemBuf(len, at, s.bufs[b].stream_id, s.bufs[b].mem_block, s.bufs[b].status)
  BY DEF PieceOf
<1>8. Behind(s.bufs, t.bufs, b, k, at, len)
  BY <1>1, <1>6, <1>7, KeepBehind
<1> QED
  BY <1>5, <1>8 DEF CutAt

\* A piece is inserted, and the buffer before it made shorter after that.
LEMMA KeepCut ==
  ASSUME NEW s, Pooled(s), NEW b \in DOMAIN s.bufs, NEW at, NEW len, NEW k \in BufIds \ DOMAIN s.bufs,
         NEW z, z = at - s.bufs[b].addr, k = NewId(s),
         NEW piece, piece = PieceOf(s, b, len, at), NEW own, own = Owner(s, b),
         NEW y, y = InsertBehind(s, b, piece, own), NEW t, t = [y EXCEPT !.bufs[b].size = z]
  PROVE  CutAt(s, t, b, k, at, len)
<1>1. Shape(s.bufs, s.blocks) /\ piece.addr = at /\ Fields \subseteq DOMAIN s
  BY PieceAddr DEF Pooled
<1>2. y = [s EXCEPT !.bufs = Link(Put(s.bufs, k, piece), k, b, s.bufs[b].next),
                    !.addrs = Emplace(s.addrs, at, [buf |-> k, alloc |-> own])]
  BY <1>1 DEF InsertBehind
<1>3. /\ Fields \subseteq DOMAIN y
      /\ y.blocks = s.blocks /\ y.lists = s.lists /\ y.pairs = s.pairs /\ y.inuse = s.inuse
      /\ y.stat = s.stat /\ y.vmm = s.vmm
      /\ y.addrs = Emplace(s.addrs, at, [buf |-> k, alloc |-> own])
      /\ y.bufs = Link(Put(s.bufs, k, piece), k, b, s.bufs[b].next)
  BY <1>1, <1>2 DEF Fields
<1>4. /\ Fields \subseteq DOMAIN t
      /\ t.blocks = s.blocks /\ t.lists = s.lists /\ t.pairs = s.pairs /\ t.inuse = s.inuse
      /\ t.stat = s.stat /\ t.vmm = s.vmm
      /\ t.addrs = Emplace(s.addrs, at, [buf |-> k, alloc |-> own])
      /\ t.bufs = Resized(Link(Put(s.bufs, k, piece), k, b, s.bufs[b].next), b, z)
  BY <1>3 DEF Fields, Resized
<1>5. piece = MemBuf(len, at, s.bufs[b].stream_id, s.bufs[b].mem_block, s.bufs[b].status)
  BY DEF PieceOf
<1>6. Behind(s.bufs, t.bufs, b, k, at, len)
  <2>1. PICK bufs, new : bufs = s.bufs /\ new = t.bufs
    OBVIOUS
  <2>2. /\ Shape(bufs, s.blocks) /\ b \in DOMAIN bufs /\ k \in BufIds \ DOMAIN bufs /\ z = at - bufs[b].addr
        /\ piece = MemBuf(len, at, bufs[b].stream_id, bufs[b].mem_block, bufs[b].status)
        /\ \/ new = Resized(Link(Put(bufs, k, piece), k, b, bufs[b].next), b, z)
           \/ \E old : Trimmed(bufs, old, b, z) /\ new = Link(Put(old, k, piece), k, b, bufs[b].next)
    BY <2>1, <1>1, <1>4, <1>5
  <2>3. Behind(bufs, new, b, k, at, len)
    BY <2>2, KeepBehind
  <2> QED
    BY <2>1, <2>3
<1> QED
  BY <1>4, <1>6 DEF CutAt

\* A state with a hole behind a new buffer is a state without one but for a size.
LEMMA GhostCut ==
  ASSUME NEW s, Pooled(s), NEW b \in DOMAIN s.bufs, NEW at, NEW len, NEW k, k \notin DOMAIN s.bufs,
         NEW t, CutAt(s, t, b, k, at, len), NEW len2
  PROVE  \E g : CutAt(s, g, b, k, at, len2) /\ SameButSize(g, t, k, len)
<1>1. Shape(s.bufs, s.blocks) /\ (s.bufs[b].next # NoBuf => s.bufs[b].next \in DOMAIN s.bufs)
  BY NextFacts DEF Pooled
<1>2. PICK new : new = Resized(t.bufs, k, len2)
  OBVIOUS
<1>3. Behind(s.bufs, new, b, k, at, len2) /\ Trimmed(new, t.bufs, k, len)
  BY <1>1, <1>2, ResizedBehind DEF CutAt
<1>4. PICK g : g = [t EXCEPT !.bufs = new]
  OBVIOUS
<1>5. /\ Fields \subseteq DOMAIN g /\ g.bufs = new
      /\ g.blocks = t.blocks /\ g.lists = t.lists /\ g.addrs = t.addrs /\ g.pairs = t.pairs /\ g.inuse = t.inuse
      /\ g.stat = t.stat /\ g.vmm = t.vmm
  BY <1>4 DEF CutAt, Fields
<1>6. CutAt(s, g, b, k, at, len2)
  BY <1>3, <1>5 DEF CutAt
<1>7. SameButSize(g, t, k, len)
  BY <1>3, <1>5 DEF CutAt, SameButSize
<1> QED
  BY <1>6, <1>7

\* A state whose sizes are right after all.
LEMMA SameSizeOK ==
  ASSUME NEW s, Good(s), NEW b \in DOMAIN s.bufs, s.bufs[b].status = "Used",
         NEW t, SameButSize(s, t, b, s.bufs[b].size)
  PROVE  Good(t) /\ Unhurt(s, t, {}) /\ Settled(s, t) /\ t.addrs = s.addrs
<1>1. /\ Fields \subseteq DOMAIN t
      /\ t.blocks = s.blocks /\ t.lists = s.lists /\ t.addrs = s.addrs
      /\ t.pairs = s.pairs /\ t.inuse = s.inuse /\ t.vmm = s.vmm
      /\ DOMAIN t.bufs = DOMAIN s.bufs
      /\ t.bufs[b] = [s.bufs[b] EXCEPT !.size = s.bufs[b].size]
      /\ \A c \in DOMAIN s.bufs \ {b} : t.bufs[c] = s.bufs[c]
  BY DEF SameButSize, Trimmed
<1>2. /\ Calm(s) /\ Pooled(s) /\ Shape(s.bufs, s.blocks) /\ ListsExact(s, {}) /\ AddrsExact(s, {})
      /\ Deferred(s.bufs, {}) /\ Waiting(s) /\ Paged(s) /\ Merged(s.bufs) /\ QuietFree(s.bufs)
      /\ s.lists \in [Allocators -> [FreeStatus -> SUBSET Nat]]
  BY DEF Good, Kept, Calm, Pooled
<1>3. s.bufs[b] \in BufType
  BY <1>2, ShapeFacts
<1>4. t.bufs[b] = s.bufs[b]
  BY <1>1, <1>3 DEF BufType
<1>5. \A c \in DOMAIN s.bufs : t.bufs[c] = s.bufs[c]
  BY <1>1, <1>4
<1>6. Alike(s.bufs, s.blocks, t.bufs, t.blocks)
  BY <1>1, <1>2, <1>5, ShapeFacts DEF Alike, Shape, BlocksOK
<1>7. Shape(t.bufs, t.blocks)
  BY <1>2, <1>6, AlikeShape
<1>8. \A c \in DOMAIN s.bufs : s.bufs[c].next # NoBuf => s.bufs[c].next \in DOMAIN s.bufs
  BY <1>2, NextFacts
<1>9. Merged(t.bufs) /\ QuietFree(t.bufs) /\ Deferred(t.bufs, {})
  BY <1>1, <1>2, <1>5, <1>8 DEF Merged, Apart, QuietFree, Deferred
<1>10. Calm(t)
  BY <1>1, <1>2, <1>7, <1>9 DEF Calm, Pooled
<1>11. \A c \in DOMAIN s.bufs : Owner(t, c) = Owner(s, c)
  BY <1>1, <1>5 DEF Owner
<1>12. ListsExact(t, {})
  <2>1. ASSUME NEW x \in Allocators, NEW y \in FreeStatus
        PROVE  t.lists[x][y] = Listed(t, DOMAIN t.bufs \ {}, x, y)
    <3>1. s.lists[x][y] = Listed(s, DOMAIN s.bufs \ {}, x, y)
      BY <1>2 DEF ListsExact
    <3>2. Listed(t, DOMAIN t.bufs \ {}, x, y) = Listed(s, DOMAIN s.bufs \ {}, x, y)
      BY <1>1, <1>5, <1>11 DEF Listed
    <3> QED
      BY <3>1, <3>2, <1>1
  <2> QED
    BY <2>1 DEF ListsExact
<1>13. AddrsExact(t, {})
  BY <1>1, <1>2, <1>5, <1>11 DEF AddrsExact
<1>14. EventsKept(s.bufs, t.bufs)
  BY <1>1, <1>5 DEF EventsKept
<1>15. Waiting(t)
  BY <1>1, <1>2, <1>14, EventsKeptOK
<1>16. Unhurt(s, t, {})
  BY <1>1, <1>5 DEF Unhurt, SameBuf
<1>17. Paged(t)
  <2>1. EagerKept(s.bufs, t.bufs)
    BY <1>1, <1>5 DEF EagerKept
  <2> QED
    BY <2>1, <1>1, <1>2, SamePages
<1>18. Settled(s, t)
  <2>1. t.stat = s.stat
    BY DEF SameButSize
  <2>2. EagerBytes(t.bufs) = EagerBytes(s.bufs)
    <3>1. EagerKept(s.bufs, t.bufs)
      BY <1>1, <1>5 DEF EagerKept
    <3> QED
      BY <3>1, SameEagerBytes
  <2>3. EventBytes(t.bufs) = EventBytes(s.bufs)
    BY <1>14, SameEventBytes
  <2>4. UsedBytes(t) = UsedBytes(s)
    <3>1. \A x \in DOMAIN s.addrs : t.bufs[s.addrs[x].buf] = s.bufs[s.addrs[x].buf]
      BY <1>2, <1>5 DEF AddrsExact
    <3> QED
      BY <3>1, <1>1, SameUsed
  <2>5. Within(s, t)
    <3>1. \A c \in DOMAIN s.bufs : s.bufs[c].addr \in Nat /\ End(s.bufs[c]) \in Nat
      BY <1>2, ShapeFacts
    <3> QED
      BY <3>1, <1>1, <1>5 DEF Within
  <2>6. Counted(s) => Counted(t)
    BY <2>1, <2>2, <2>3, <2>4, <2>5, <1>1, <1>2, <1>7, StillCounted
  <2> QED
    BY <2>6, <1>1 DEF Settled
<1> QED
  BY <1>18, <1>1, <1>9, <1>10, <1>12, <1>13, <1>15, <1>16, <1>17 DEF Good, Kept, Settled

\* What KeepPart leaves: the pool in order, and the addresses to free those of the
\* buffer that was cut and of buffers cut off it.
Parted(s, b, x) ==
  /\ Good(x.s) /\ Unhurt(s, x.s, {b}) /\ Settled(s, x.s)
  /\ x.cands \subseteq DOMAIN x.s.addrs
  /\ IsFiniteSet(x.cands) /\ x.cands \subseteq Nat
  /\ \A y \in x.cands : x.s.addrs[y].buf = b \/ x.s.addrs[y].buf \notin DOMAIN s.bufs

LEMMA KeepPartOK ==
  ASSUME NEW s, Good(s), NEW addr \in DOMAIN s.addrs, NEW b, b = s.addrs[addr].buf, Cuttable(s, b),
         NEW ka \in Nat, NEW kz \in Nat \ {0}, addr <= ka, ka + kz <= End(s.bufs[b]),
         NEW keep, keep.addr = ka, keep.size = kz, NEW x, x = KeepPart(s, {addr}, b, keep)
  PROVE  Parted(s, b, x)
<1>1. /\ Pooled(s) /\ Shape(s.bufs, s.blocks) /\ AddrsExact(s, {}) /\ Fields \subseteq DOMAIN s
  BY DEF Good, Kept, Calm, Pooled
<1>2. b \in DOMAIN s.bufs /\ s.bufs[b].addr = addr /\ s.addrs[addr].alloc = Owner(s, b)
  BY <1>1, AddrFacts
<1>3. /\ addr \in Nat /\ s.bufs[b].size \in Nat /\ s.bufs[b].size > 0
      /\ End(s.bufs[b]) = addr + s.bufs[b].size /\ s.bufs[b] \in BufType
  BY <1>1, <1>2, ShapeFacts
<1>4. PICK e \in Nat : e = End(s.bufs[b]) /\ addr < e /\ e = s.bufs[b].addr + s.bufs[b].size
  BY <1>2, <1>3, SMTT(40)
<1>5. PICK ke \in Nat : ke = ka + kz /\ ke <= e /\ ka < ke
  BY <1>4
<1>6. PICK own : own = Owner(s, b) /\ own = s.addrs[s.bufs[b].addr].alloc
  BY <1>2
<1>7. PICK k : k = IF keep.addr = s.bufs[b].addr THEN b ELSE NewId(s)
  OBVIOUS
<1>8. PICK mid, last : /\ mid = MemBuf(keep.size, keep.addr, s.bufs[b].stream_id, s.bufs[b].mem_block, s.bufs[b].status)
                       /\ last = MemBuf(e - ke, ke, s.bufs[b].stream_id, s.bufs[b].mem_block, s.bufs[b].status)
  OBVIOUS
<1>9. PICK kept : kept = IF k = b THEN [s EXCEPT !.bufs[b].size = keep.size]
                         ELSE [InsertBehind(s, b, mid, own) EXCEPT !.bufs[b].size = keep.addr - s.bufs[b].addr]
  OBVIOUS
<1>10. PICK free : free = IF k = b THEN {addr} \ {s.bufs[b].addr} ELSE {addr}
  OBVIOUS
<1>11. x = IF ke >= e THEN [s |-> kept, cands |-> free]
           ELSE [s |-> InsertBehind(kept, k, last, own), cands |-> free \cup {ke}]
  <2>1. s.bufs[b].addr + s.bufs[b].size = e /\ keep.addr + keep.size = ke
    BY <1>4, <1>5
  <2>2. x = LET buf == s.bufs[b]
                Piece(size, at) == MemBuf(size, at, buf.stream_id, buf.mem_block, buf.status)
            IN  IF ke >= e THEN [s |-> kept, cands |-> free]
                ELSE [s |-> InsertBehind(kept, k, Piece(e - ke, ke), own), cands |-> free \cup {ke}]
    <3>1. x = KeepPart(s, {addr}, b, keep)
      OBVIOUS
    <3> QED
      BY <3>1, <2>1, <1>6, <1>7, <1>8, <1>9, <1>10, ZenonT(60) DEF KeepPart
  <2> QED
    BY <2>2, <1>8
<1>23. ke >= e => x.s = kept /\ x.cands = free
  BY <1>11
<1>24. ~ (ke >= e) => x.s = InsertBehind(kept, k, last, own) /\ x.cands = free \cup {ke}
  <2>1. PICK y, z : y = InsertBehind(kept, k, last, own) /\ z = free \cup {ke}
    OBVIOUS
  <2>2. x = IF ke >= e THEN [s |-> kept, cands |-> free] ELSE [s |-> y, cands |-> z]
    BY <2>1, <1>11
  <2> QED
    BY <2>1, <2>2
<1>12. IsFiniteSet({}) /\ IsFiniteSet({addr}) /\ IsFiniteSet({ke}) /\ IsFiniteSet({addr} \cup {ke})
  BY FS_EmptySet, FS_Singleton, FS_AddElement
<1>13. ASSUME ka # addr PROVE k = NewId(s) /\ k \in BufIds \ DOMAIN s.bufs /\ k # b
  <2>1. ka \in Nat /\ s.bufs[b].addr < ka /\ ka < End(s.bufs[b])
    BY <1>2, <1>3, <1>4, <1>5, <1>13
  <2>2. ka \in Bytes /\ \A c \in DOMAIN s.bufs : s.bufs[c].addr # ka
    BY <2>1, <1>1, <1>2, InsideFree
  <2>3. k = NewId(s)
    BY <1>2, <1>7, <1>13
  <2>4. k \in BufIds \ DOMAIN s.bufs
    BY <2>2, <2>3, <1>1, NewIdOK
  <2> QED
    BY <2>3, <2>4, <1>2
<1>14. ASSUME ka = addr
       PROVE  k = b /\ SameButSize(s, kept, b, kz) /\ free = {}
  <2>1. k = b /\ kept = [s EXCEPT !.bufs[b].size = kz] /\ free = {}
    BY <1>2, <1>7, <1>9, <1>10, <1>14
  <2>2. /\ Fields \subseteq DOMAIN kept /\ kept.bufs = [s.bufs EXCEPT ![b].size = kz]
        /\ kept.blocks = s.blocks /\ kept.lists = s.lists /\ kept.addrs = s.addrs
        /\ kept.pairs = s.pairs /\ kept.inuse = s.inuse
    BY <2>1, <1>1 DEF Fields
  <2>3. Trimmed(s.bufs, kept.bufs, b, kz)
    BY <2>2, <1>2 DEF Trimmed
  <2> QED
    BY <2>1, <2>2, <2>3 DEF SameButSize
<1>15. last = PieceOf(s, b, e - ke, ke) /\ mid = PieceOf(s, b, kz, ka)
  BY <1>8 DEF PieceOf
<1>16. ASSUME ka # addr
       PROVE  CutAt(s, kept, b, k, ka, kz) /\ free = {addr}
  <2>1. k = NewId(s) /\ k \in BufIds \ DOMAIN s.bufs /\ k # b
    BY <1>13, <1>16
  <2>2. PICK z, y : z = ka - s.bufs[b].addr /\ y = InsertBehind(s, b, mid, own)
    OBVIOUS
  <2>3. kept = [y EXCEPT !.bufs[b].size = z] /\ free = {addr}
    BY <2>1, <2>2, <1>9, <1>10
  <2> QED
    BY <2>1, <2>2, <2>3, <1>1, <1>2, <1>6, <1>15, KeepCut
<1>17. CASE ka = addr /\ ke >= e
  <2>1. kz = s.bufs[b].size /\ x.s = kept /\ x.cands = {}
    <3>1. kz = s.bufs[b].size
      BY <1>2, <1>3, <1>4, <1>5, <1>17
    <3> QED
      BY <3>1, <1>14, <1>17, <1>23
  <2>2. SameButSize(s, kept, b, s.bufs[b].size) /\ s.bufs[b].status = "Used"
    BY <2>1, <1>14, <1>17 DEF Cuttable
  <2>3. Good(kept) /\ Unhurt(s, kept, {}) /\ Settled(s, kept)
    BY <2>2, <1>2, SameSizeOK
  <2> QED
    BY <2>1, <2>3, <1>12 DEF Parted, Unhurt
<1>18. CASE ka = addr /\ ~ (ke >= e)
  <2>1. k = b /\ x.s = InsertBehind(kept, b, last, own) /\ x.cands = {ke}
    BY <1>14, <1>18, <1>24
  <2>2. ke \in Nat /\ s.bufs[b].addr < ke /\ ke < End(s.bufs[b]) /\ kz = ke - s.bufs[b].addr
    BY <1>2, <1>3, <1>4, <1>5, <1>18
  <2>3. ke \in Bytes /\ \A c \in DOMAIN s.bufs : s.bufs[c].addr # ke
    BY <2>2, <1>1, <1>2, InsideFree
  <2>4. PICK l : l = NewId(kept)
    OBVIOUS
  <2>5. SameButSize(s, kept, b, kz) /\ DOMAIN kept.bufs = DOMAIN s.bufs
    BY <1>14, <1>18 DEF SameButSize, Trimmed
  <2>6. l \in BufIds \ DOMAIN s.bufs
    BY <2>3, <2>4, <2>5, <1>1, NewIdOK
  <2>7. PICK t : t = x.s
    OBVIOUS
  <2>8. PICK len : len = e - ke
    OBVIOUS
  <2>9. CutAt(s, t, b, l, ke, len)
    <3>1. last = PieceOf(s, b, len, ke) /\ t = InsertBehind(kept, b, last, own) /\ own = Owner(s, b)
      BY <2>1, <2>7, <2>8, <1>6, <1>15
    <3> QED
      BY <3>1, <2>2, <2>4, <2>5, <2>6, <1>1, <1>2, InsertCut
  <2>10. len = End(s.bufs[b]) - ke
    BY <2>8, <1>4
  <2>11. Good(t) /\ Unhurt(s, t, {b}) /\ Settled(s, t) /\ ke \in DOMAIN t.addrs /\ t.addrs[ke].buf = l
    <3>1. Cutting(s, t, b, l, ke, len)
      BY <2>2, <2>6, <2>9, <2>10, <1>2 DEF Cutting
    <3>2. IsCut(s, t, b, l, ke, len)
      BY <3>1, CutAtOK
    <3> QED
      BY <3>2 DEF IsCut
  <2> QED
    BY <2>1, <2>6, <2>7, <2>11, <1>12 DEF Parted
<1>19. CASE ka # addr
  <2>1. k = NewId(s) /\ k \in BufIds \ DOMAIN s.bufs /\ k # b
    BY <1>13, <1>19
  <2>2. CutAt(s, kept, b, k, ka, kz) /\ free = {addr}
    BY <1>16, <1>19
  <2>8. PICK rest : rest = End(s.bufs[b]) - ka
    OBVIOUS
  <2>3. PICK g : CutAt(s, g, b, k, ka, rest) /\ SameButSize(g, kept, k, kz)
    BY <2>1, <2>2, <1>1, <1>2, GhostCut
  <2>4. ka \in Nat /\ s.bufs[b].addr < ka /\ ka < End(s.bufs[b])
    BY <1>2, <1>3, <1>4, <1>5, <1>19
  <2>5. /\ Good(g) /\ Unhurt(s, g, {b}) /\ Settled(s, g)
        /\ DOMAIN g.bufs = DOMAIN s.bufs \cup {k}
        /\ g.bufs[k].addr = ka /\ g.bufs[k].size = rest
        /\ g.bufs[k].status = "Used" /\ g.bufs[k].events = NoEvents
        /\ g.bufs[k].stream_id = s.bufs[b].stream_id /\ g.bufs[k].mem_block = s.bufs[b].mem_block
        /\ Owner(g, k) = Owner(s, b)
        /\ \A y \in DOMAIN s.addrs : y \in DOMAIN g.addrs /\ g.addrs[y] = s.addrs[y]
    <3>1. Cutting(s, g, b, k, ka, rest)
      BY <2>1, <2>3, <2>4, <2>8, <1>2 DEF Cutting
    <3>2. IsCut(s, g, b, k, ka, rest)
      BY <3>1, CutAtOK
    <3> QED
      BY <3>2 DEF IsCut
  <2>6. CASE ke >= e
    <3>1. kz = g.bufs[k].size
      BY <2>5, <2>6, <2>8, <1>4, <1>5
    <3>2. x.s = kept /\ x.cands = {addr}
      BY <2>2, <2>6, <1>23
    <3>3. Good(kept) /\ Unhurt(g, kept, {}) /\ Settled(g, kept) /\ kept.addrs = g.addrs
      <4>1. k \in DOMAIN g.bufs /\ SameButSize(g, kept, k, g.bufs[k].size) /\ Good(g) /\ g.bufs[k].status = "Used"
        BY <2>3, <2>5, <3>1
      <4> QED
        BY <4>1, SameSizeOK
    <3>4. Unhurt(s, kept, {b}) /\ Settled(s, kept)
      <4>1. Unhurt(s, kept, {b})
        BY <2>5, <3>3 DEF Unhurt, SameBuf
      <4> QED
        BY <4>1, <2>5, <3>3, SettledTwice
    <3>5. addr \in DOMAIN kept.addrs /\ kept.addrs[addr].buf = b /\ {addr} \subseteq Nat
      BY <2>5, <3>3, <1>3
    <3> QED
      BY <3>2, <3>3, <3>4, <3>5, <1>12 DEF Parted
  <2>7. CASE ~ (ke >= e)
    <3>1. PICK l, t, len : l = NewId(kept) /\ t = x.s /\ len = e - ke
      OBVIOUS
    <3>2. t = InsertBehind(kept, k, last, own) /\ x.cands = {addr} \cup {ke}
      BY <2>2, <2>7, <3>1, <1>24
    <3>3. Pooled(g) /\ Shape(g.bufs, g.blocks) /\ k \in DOMAIN g.bufs
      BY <2>5 DEF Good, Kept, Calm, Pooled
    <3>4. End(g.bufs[k]) = e /\ g.bufs[k].addr < ke /\ ke < End(g.bufs[k]) /\ kz = ke - g.bufs[k].addr
      <4>1. g.bufs[k].addr = ka /\ rest = e - ka /\ End(g.bufs[k]) = ka + rest
        BY <2>5, <2>8, <1>4 DEF End
      <4>2. ka + (e - ka) = e /\ ka < ke /\ ke < e /\ kz = ke - ka
        BY <2>4, <2>7, <1>4, <1>5
      <4> QED
        BY <4>1, <4>2
    <3>5. ke \in Bytes /\ \A c \in DOMAIN g.bufs : g.bufs[c].addr # ke
      BY <3>3, <3>4, InsideFree
    <3>6. SameButSize(g, kept, k, kz) /\ DOMAIN kept.bufs = DOMAIN g.bufs
      BY <2>3 DEF SameButSize, Trimmed
    <3>7. l \in BufIds \ DOMAIN g.bufs
      BY <3>1, <3>3, <3>5, <3>6, NewIdOK
    <3>8. last = PieceOf(g, k, len, ke) /\ own = Owner(g, k)
      <4>1. g.bufs[k].status = s.bufs[b].status
        BY <2>5 DEF Cuttable
      <4> QED
        BY <4>1, <2>5, <3>1, <1>6, <1>8 DEF PieceOf
    <3>9. CutAt(g, t, k, l, ke, len)
      BY <3>1, <3>2, <3>3, <3>4, <3>6, <3>7, <3>8, InsertCut
    <3>10. len = End(g.bufs[k]) - ke
      BY <3>1, <3>4
    <3>11. Cuttable(g, k)
      BY <2>5 DEF Cuttable
    <3>12. /\ Good(t) /\ Unhurt(g, t, {k}) /\ Settled(g, t) /\ ke \in DOMAIN t.addrs /\ t.addrs[ke].buf = l
           /\ \A y \in DOMAIN g.addrs : y \in DOMAIN t.addrs /\ t.addrs[y] = g.addrs[y]
      <4>1. Cutting(g, t, k, l, ke, len)
        BY <3>3, <3>4, <3>7, <3>9, <3>10, <3>11 DEF Cutting
      <4>2. IsCut(g, t, k, l, ke, len)
        BY <4>1, <2>5, CutAtOK
      <4> QED
        BY <4>2 DEF IsCut
    <3>13. Unhurt(s, t, {b}) /\ Settled(s, t)
      <4>1. Unhurt(s, t, {b})
        BY <2>1, <2>5, <3>12 DEF Unhurt, SameBuf
      <4> QED
        BY <4>1, <2>5, <3>12, SettledTwice
    <3>14. addr \in DOMAIN t.addrs /\ t.addrs[addr].buf = b /\ l \notin DOMAIN s.bufs
      BY <2>5, <3>7, <3>12
    <3> QED
      BY <3>1, <3>2, <3>12, <3>13, <3>14, <1>3, <1>12 DEF Parted
  <2> QED
    BY <2>6, <2>7
<1> QED
  BY <1>17, <1>18, <1>19

\* A client gives up a buffer but keeps a range of it.
LEMMA FreePartOK ==
  ASSUME NEW s, Good(s), NEW addr \in DOMAIN s.addrs, NEW b, b = s.addrs[addr].buf, Cuttable(s, b),
         NEW keep, keep.addr \in BytesOf(s.bufs[b]), keep.size \in Nat \ {0},
         keep.addr + keep.size <= addr + s.bufs[b].size,
         NEW r, r = DoFreePart(s, {addr}, keep)
  PROVE  Good(r) /\ Unhurt(s, r, {b}) /\ Settled(s, r)
<1>1. /\ Pooled(s) /\ Shape(s.bufs, s.blocks) /\ AddrsExact(s, {})
  BY DEF Good, Kept, Calm, Pooled
<1>2. b \in DOMAIN s.bufs /\ s.bufs[b].addr = addr
  BY <1>1, AddrFacts
<1>3. /\ addr \in Nat /\ s.bufs[b].size \in Nat /\ End(s.bufs[b]) = addr + s.bufs[b].size
  BY <1>1, <1>2, ShapeFacts
<1>4. PICK ka, kz : ka = keep.addr /\ kz = keep.size
  OBVIOUS
<1>5. ka \in Nat /\ kz \in Nat \ {0} /\ addr <= ka /\ ka + kz <= End(s.bufs[b]) /\ ~ (ka >= addr + s.bufs[b].size)
  BY <1>2, <1>3, <1>4 DEF BytesOf
<1>6. PICK x : x = KeepPart(s, {addr}, b, keep)
  OBVIOUS
<1>7. Parted(s, b, x)
  BY <1>4, <1>5, <1>6, KeepPartOK
<1>8. r = FoldUp(DoFreeTensorMem, x.s, x.cands)
  <2>1. {addr} \cap DOMAIN s.addrs = {addr} /\ {a \in {addr} : a <= ka} = {addr} /\ {addr} # {}
    BY <1>5
  <2>2. Max({addr}) = addr
    <3>1. Max({addr}) \in {addr}
      BY <1>3, FS_Singleton, GreatestNumber
    <3> QED
      BY <3>1
  <2> QED
    BY <2>1, <2>2, <1>2, <1>4, <1>5, <1>6 DEF DoFreePart
<1>9. PICK t, S : t = x.s /\ S = x.cands
  OBVIOUS
<1>10. /\ Good(t) /\ S \subseteq DOMAIN t.addrs /\ IsFiniteSet(S) /\ S \subseteq Nat /\ Unhurt(s, t, {b}) /\ Settled(s, t)
       /\ \A y \in S : t.addrs[y].buf = b \/ t.addrs[y].buf \notin DOMAIN s.bufs
  BY <1>7, <1>9 DEF Parted
<1>11. r = FoldUp(DoFreeTensorMem, t, S)
  BY <1>8, <1>9
<1>12. Good(r) /\ Unhurt(t, r, {t.addrs[y].buf : y \in S}) /\ Sealed(t, r)
  BY <1>10, <1>11, FreeAllOK
<1>13. Unhurt(s, r, {b})
  <2> SUFFICES ASSUME NEW c \in DOMAIN s.bufs \ {b}, s.bufs[c].status = "Used" /\ s.bufs[c].events = NoEvents
               PROVE  c \in DOMAIN r.bufs /\ SameBuf(s.bufs, r.bufs, c)
    BY DEF Unhurt
  <2>1. c \in DOMAIN t.bufs /\ SameBuf(s.bufs, t.bufs, c)
    BY <1>10 DEF Unhurt
  <2>2. c \notin {t.addrs[y].buf : y \in S}
    BY <1>10
  <2>3. c \in DOMAIN r.bufs /\ SameBuf(t.bufs, r.bufs, c)
    BY <1>12, <2>1, <2>2 DEF Unhurt, SameBuf
  <2> QED
    BY <2>1, <2>3 DEF SameBuf
<1>14. Settled(s, r)
  BY <1>10, <1>12, SettledTwice DEF Sealed
<1> QED
  BY <1>12, <1>13, <1>14

-----------------------------------------------------------------------------
(* AllocContinuousTensorMem.                                               *)

\* sum tells for every i what the first i sizes add up to.
Partial(sizes, sum) ==
  /\ sum \in [0 .. Len(sizes) -> Nat]
  /\ sum[0] = 0
  /\ \A i \in 1 .. Len(sizes) : sum[i] = sum[i - 1] + sizes[i]

\* What std::accumulate answers is the last partial sum.
LEMMA PartialSums ==
  ASSUME NEW sizes \in Seq(Nat \ {0})
  PROVE  \E sum : Partial(sizes, sum) /\ Total(sizes) = sum[Len(sizes)]
<1>1. PICK n \in Nat : n = Len(sizes) /\ DOMAIN sizes = 1 .. n
  OBVIOUS
<1>2. \A i \in 1 .. n : sizes[i] \in Nat \ {0}
  BY <1>1
<1> DEFINE S == 1 .. n
           w == [tag |-> "sum", sizes |-> sizes]
           Def(f) == [T \in SUBSET S |-> IF T = {} THEN 0 ELSE f[T \ {Max(T)}] + sizes[Max(T)]]
<1>0. PICK total : total = FoldLeft(+, 0, sizes) /\ total = Total(sizes)
  BY DEF Total
<1>3. PICK g : total = g[S] /\ g = CHOOSE f : f = Def(f)
  BY <1>0, <1>1 DEF FoldLeft, MapThenFoldSet
<1>4. IsFiniteSet(S) /\ S \subseteq Nat
  <2>1. 1 \in Int /\ n \in Int
    OBVIOUS
  <2>2. IsFiniteSet(S)
    BY <2>1, FS_Interval
  <2> QED
    BY <2>2
<1>5. (\A T \in SUBSET S : T # {} => LastOf(w, T) \in T) /\ \A T : LastOf(w, T) = Max(T)
  <2>1. w.tag \in Ascending
    BY DEF Ascending
  <2> HIDE DEF w, S
  <2>2. ASSUME NEW T \in SUBSET S, T # {} PROVE LastOf(w, T) \in T
    BY <2>1, <2>2, <1>4, LastIn
  <2> QED
    BY <2>1, <2>2, LastNumber
<1>6. \A acc, x : Step(w, acc, x) = acc + sizes[x]
  BY DEF Step
<1>7. \A f : Def(f) = [T \in SUBSET S |-> IF T = {} THEN 0 ELSE Step(w, f[T \ {LastOf(w, T)}], LastOf(w, T))]
  BY <1>5, <1>6
<1>8. \A f : IsFold(f, w, 0, S) <=> f = Def(f)
  BY <1>7 DEF IsFold
<1>9. \E f : f = Def(f)
  <2> HIDE DEF w, Def, S
  <2> QED
    BY <1>4, <1>5, <1>8, FoldExists
<1>10. g = Def(g)
  <2> HIDE DEF Def
  <2> QED
    BY <1>3, <1>9
<1>11. g[{}] = 0
  BY <1>10
<1>12. ASSUME NEW i \in 1 .. n PROVE g[1 .. i] = g[1 .. (i - 1)] + sizes[i]
  <2>1. PICK T : T = 1 .. i
    OBVIOUS
  <2>2. T \in SUBSET S /\ T # {} /\ T \subseteq Nat /\ IsFiniteSet(T) /\ i \in T /\ \A y \in T : y <= i
    <3>1. 1 \in Int /\ i \in Int
      OBVIOUS
    <3>2. IsFiniteSet(T)
      BY <2>1, <3>1, FS_Interval
    <3>3. \A y \in T : y \in S /\ y \in Nat /\ y <= i
      BY <2>1, <1>1
    <3>4. i \in T
      BY <2>1
    <3> HIDE DEF S
    <3> QED
      BY <3>2, <3>3, <3>4
  <2>3. Max(T) \in T /\ \A y \in T : Max(T) >= y
    BY <2>2, GreatestNumber
  <2>4. Max(T) = i
    <3>1. PICK x : x = Max(T)
      OBVIOUS
    <3>2. x \in Nat /\ x <= i /\ x >= i /\ i \in Nat
      BY <2>2, <2>3, <3>1
    <3> QED
      BY <3>1, <3>2
  <2>5. T \ {i} = 1 .. (i - 1)
    BY <2>1
  <2>6. g[T] = g[T \ {Max(T)}] + sizes[Max(T)]
    <3> HIDE DEF S
    <3> QED
      BY <2>2, <1>10
  <2> QED
    BY <2>1, <2>4, <2>5, <2>6
<1> DEFINE sum == [i \in 0 .. n |-> g[1 .. i]]
<1>13. sum[0] = 0
  <2>1. 1 .. 0 = {}
    OBVIOUS
  <2> QED
    BY <2>1, <1>1, <1>11
<1>14. ASSUME NEW i \in 1 .. n PROVE sum[i] = sum[i - 1] + sizes[i]
  <2>1. i \in 0 .. n /\ i - 1 \in 0 .. n
    BY <1>1
  <2> QED
    BY <2>1, <1>12
<1>15. sum[n] = total
  BY <1>1, <1>3
<1>16. DOMAIN sum = 0 .. n /\ sum = [i \in 0 .. n |-> sum[i]]
  OBVIOUS
<1> HIDE DEF sum
<1>17. \A i \in 0 .. n : sum[i] \in Nat
  <2> DEFINE Bad == {i \in 0 .. n : sum[i] \notin Nat}
  <2>1. ASSUME Bad # {} PROVE FALSE
    <3>0. Bad \subseteq Nat
      BY <1>1
    <3>1. PICK i \in Bad : \A j \in Bad : i <= j
      <4> HIDE DEF Bad
      <4> QED
        BY <3>0, <2>1, LeastNumber
    <3>2. i # 0 /\ i \in 1 .. n /\ i - 1 \in 0 .. n /\ ~ (i <= i - 1)
      BY <3>1, <1>1, <1>13
    <3>3. sum[i - 1] \in Nat
      BY <3>1, <3>2
    <3>4. sum[i] \in Nat
      BY <3>2, <3>3, <1>2, <1>14
    <3> QED
      BY <3>1, <3>4
  <2> QED
    BY <2>1
<1>18. sum \in [0 .. n -> Nat]
  BY <1>16, <1>17
<1>19. Partial(sizes, sum)
  BY <1>1, <1>13, <1>14, <1>18 DEF Partial
<1> QED
  BY <1>0, <1>1, <1>15, <1>19

\* Pieces are not empty, so the sums grow.
LEMMA SumsGrow ==
  ASSUME NEW sizes \in Seq(Nat \ {0}), NEW sum, Partial(sizes, sum),
         NEW i \in 0 .. Len(sizes), NEW j \in 0 .. Len(sizes), i < j
  PROVE  sum[i] < sum[j]
<1>1. PICK n \in Nat : n = Len(sizes) /\ \A x \in 1 .. n : sizes[x] \in Nat \ {0}
  OBVIOUS
<1>2. (\A x \in 0 .. n : sum[x] \in Nat) /\ \A x \in 1 .. n : sum[x] = sum[x - 1] + sizes[x]
  BY <1>1 DEF Partial
<1> DEFINE Bad == {x \in 0 .. n : i < x /\ ~ (sum[i] < sum[x])}
<1>3. ASSUME Bad # {} PROVE FALSE
  <2>0. Bad \subseteq Nat
    BY <1>1
  <2>1. PICK x \in Bad : \A y \in Bad : x <= y
    <3> HIDE DEF Bad
    <3> QED
      BY <2>0, <1>3, LeastNumber
  <2>2. x \in 1 .. n /\ x - 1 \in 0 .. n /\ ~ (x <= x - 1) /\ i <= x - 1 /\ x \in 0 .. n
    BY <2>1, <1>1
  <2>7. PICK p : p = x - 1
    OBVIOUS
  <2>6. p \in 0 .. n /\ sum[p] \in Nat /\ sum[x] \in Nat /\ sum[i] \in Nat /\ sum[x] = sum[p] + sizes[x]
        /\ sizes[x] \in Nat /\ sizes[x] > 0
    <3>1. sum[x] = sum[p] + sizes[x] /\ p \in 0 .. n /\ i \in 0 .. n
      BY <2>2, <2>7, <1>1, <1>2
    <3>2. sizes[x] \in Nat \ {0}
      BY <2>2, <1>1
    <3> QED
      BY <3>1, <3>2, <2>2, <1>2
  <2>3. sum[p] < sum[x]
    BY <2>6
  <2>4. sum[i] <= sum[p]
    <3>1. CASE i = p
      BY <3>1, <2>6
    <3>2. CASE i < p
      <4>1. p \notin Bad
        <5> HIDE DEF Bad
        <5> QED
          BY <2>1, <2>2, <2>7
      <4>2. sum[i] < sum[p]
        BY <4>1, <3>2, <2>6
      <4> QED
        BY <4>2, <2>6
    <3> QED
      BY <3>1, <3>2, <2>2, <2>6, <2>7
  <2>5. sum[i] < sum[x]
    BY <2>3, <2>4, <2>6
  <2> QED
    BY <2>1, <2>5
<1> QED
  BY <1>1, <1>3

\* The buffer of a continuous request, its pieces and their partial sums.
Pieces(w) ==
  /\ w.tag = "cut"
  /\ w.sizes \in Seq(Nat \ {0}) /\ Len(w.sizes) > 1
  /\ Partial(w.sizes, w.sum)
  /\ w.first.addr \in Nat

\* Numbers of a cut.
LEMMA PieceNumbers ==
  ASSUME NEW w, Pieces(w), NEW i \in 2 .. Len(w.sizes), NEW j, j = i - 1, NEW h, h = j - 1
  PROVE  /\ w.first.addr \in Nat
         /\ {h, j, i, Len(w.sizes)} \subseteq 0 .. Len(w.sizes)
         /\ w.sum[h] \in Nat /\ w.sum[j] \in Nat /\ w.sum[i] \in Nat /\ w.sum[Len(w.sizes)] \in Nat
         /\ w.sum[j] = w.sum[h] + w.sizes[j] /\ w.sum[i] = w.sum[j] + w.sizes[i]
         /\ w.sizes[j] \in Nat /\ w.sizes[i] \in Nat
         /\ w.sum[h] < w.sum[j] /\ w.sum[j] < w.sum[Len(w.sizes)]
<1>1. PICK n, sum, sizes : n = Len(w.sizes) /\ sum = w.sum /\ sizes = w.sizes
  OBVIOUS
<1>2. /\ sizes \in Seq(Nat \ {0}) /\ n = Len(sizes) /\ n \in Nat /\ Partial(sizes, sum) /\ w.first.addr \in Nat
  BY <1>1 DEF Pieces
<1>3. h \in 0 .. n /\ j \in 0 .. n /\ i \in 0 .. n /\ n \in 0 .. n /\ j \in 1 .. n /\ i \in 1 .. n /\ h < j /\ j < n
  BY <1>1, <1>2
<1>4. \A x \in 1 .. n : sizes[x] \in Nat
  BY <1>2
<1>5. (\A x \in 0 .. n : sum[x] \in Nat) /\ \A x \in 1 .. n : sum[x] = sum[x - 1] + sizes[x]
  BY <1>2 DEF Partial
<1>6. sum[j] = sum[h] + sizes[j] /\ sum[i] = sum[j] + sizes[i]
  BY <1>3, <1>5
<1>7. sum[h] < sum[j] /\ sum[j] < sum[n]
  BY <1>2, <1>3, SumsGrow
<1> QED
  BY <1>1, <1>2, <1>3, <1>4, <1>5, <1>6, <1>7

\* One more piece.
LEMMA CutStepOK ==
  ASSUME NEW w, Pieces(w), NEW i \in 2 .. Len(w.sizes), NEW acc, CutState(w, acc, i - 1),
         NEW r, r = CutStep(w.sizes, w.e, w.first, acc, i)
  PROVE  CutState(w, r, i)
<1>1. PICK j, h, n, a0 : j = i - 1 /\ h = j - 1 /\ n = Len(w.sizes) /\ a0 = w.first.addr
  OBVIOUS
<1>2. PICK p, at, y : p = acc.prev /\ at = acc.addr /\ y = acc.s
  OBVIOUS
<1>3. at = a0 + w.sum[j] /\ \E g : Good(g) /\ Settled(w.pool, g) /\ RestOf(w, g, p, h) /\ SameButSize(g, y, p, w.sizes[j])
  BY <1>1, <1>2 DEF CutState
<1>4. PICK g : Good(g) /\ Settled(w.pool, g) /\ RestOf(w, g, p, h) /\ SameButSize(g, y, p, w.sizes[j])
  BY <1>3
<1>5. /\ p \in DOMAIN g.bufs /\ g.bufs[p].status = "Used" /\ g.bufs[p].events = NoEvents
      /\ g.bufs[p].stream_id = w.first.stream_id /\ g.bufs[p].mem_block = w.first.mem_block
      /\ Owner(g, p) = w.e.alloc
      /\ g.bufs[p].addr = a0 + w.sum[h] /\ End(g.bufs[p]) = a0 + w.sum[n]
  BY <1>1, <1>4 DEF RestOf
<1>6. /\ a0 \in Nat /\ w.sum[h] \in Nat /\ w.sum[j] \in Nat /\ w.sum[i] \in Nat /\ w.sum[n] \in Nat
      /\ w.sum[j] = w.sum[h] + w.sizes[j] /\ w.sum[i] = w.sum[j] + w.sizes[i]
      /\ w.sizes[j] \in Nat /\ w.sizes[i] \in Nat
      /\ w.sum[h] < w.sum[j] /\ w.sum[j] < w.sum[n]
  BY <1>1, PieceNumbers
<1>7. PICK z, len, rest : z = w.sizes[j] /\ len = w.sizes[i] /\ rest = End(g.bufs[p]) - at
  OBVIOUS
<1>8. /\ at \in Nat /\ g.bufs[p].addr < at /\ at < End(g.bufs[p])
      /\ z = at - g.bufs[p].addr /\ at + rest = a0 + w.sum[n] /\ at + len = a0 + w.sum[i]
  <2>1. PICK sh, sj, si, sn, ga, ge : /\ sh = w.sum[h] /\ sj = w.sum[j] /\ si = w.sum[i] /\ sn = w.sum[n]
                                       /\ ga = g.bufs[p].addr /\ ge = End(g.bufs[p])
    OBVIOUS
  <2>2. /\ a0 \in Nat /\ sh \in Nat /\ sj \in Nat /\ si \in Nat /\ sn \in Nat /\ z \in Nat /\ len \in Nat
        /\ sj = sh + z /\ si = sj + len /\ sh < sj /\ sj < sn
        /\ ga = a0 + sh /\ ge = a0 + sn /\ at = a0 + sj /\ rest = ge - at
    BY <2>1, <1>3, <1>5, <1>6, <1>7
  <2>3. at \in Nat /\ ga < at /\ at < ge /\ z = at - ga /\ at + rest = a0 + sn /\ at + len = a0 + si
    BY <2>2
  <2> QED
    BY <2>1, <2>3
<1>9. Pooled(g) /\ Shape(g.bufs, g.blocks)
  BY <1>4 DEF Good, Kept, Calm, Pooled
<1>10. at \in Bytes /\ \A c \in DOMAIN g.bufs : g.bufs[c].addr # at
  BY <1>5, <1>8, <1>9, InsideFree
<1>11. PICK k : k = NewId(y)
  OBVIOUS
<1>12. DOMAIN y.bufs = DOMAIN g.bufs /\ SameButSize(g, y, p, z)
  BY <1>4, <1>7 DEF SameButSize, Trimmed
<1>13. k \in BufIds \ DOMAIN g.bufs
  BY <1>9, <1>10, <1>11, <1>12, NewIdOK
<1>14. PICK piece, own : piece = PieceOf(g, p, len, at) /\ own = Owner(g, p)
  OBVIOUS
<1>15. PICK t : t = InsertBehind(y, p, piece, own)
  OBVIOUS
<1>16. r = [s |-> t, addr |-> at + len, prev |-> k]
  <2>1. piece = MemBuf(w.sizes[i], at, w.first.stream_id, w.first.mem_block, "Used") /\ own = w.e.alloc
    BY <1>5, <1>7, <1>14 DEF PieceOf
  <2> QED
    BY <2>1, <1>2, <1>7, <1>11, <1>15 DEF CutStep
<1>17. CutAt(g, t, p, k, at, len)
  BY <1>5, <1>8, <1>9, <1>11, <1>12, <1>13, <1>14, <1>15, InsertCut
<1>18. PICK x : CutAt(g, x, p, k, at, rest) /\ SameButSize(x, t, k, len)
  BY <1>5, <1>9, <1>13, <1>17, GhostCut
<1>19. Cutting(g, x, p, k, at, rest)
  BY <1>5, <1>7, <1>8, <1>13, <1>18 DEF Cutting, Cuttable
<1>20. IsCut(g, x, p, k, at, rest)
  BY <1>4, <1>19, CutAtOK
<1>21. /\ Good(x) /\ Settled(g, x) /\ k \in DOMAIN x.bufs /\ x.bufs[k].addr = at /\ x.bufs[k].size = rest
       /\ x.bufs[k].status = "Used" /\ x.bufs[k].events = NoEvents
       /\ x.bufs[k].stream_id = g.bufs[p].stream_id /\ x.bufs[k].mem_block = g.bufs[p].mem_block
       /\ Owner(x, k) = Owner(g, p)
  BY <1>20 DEF IsCut
<1>22. End(x.bufs[k]) = a0 + w.sum[n]
  BY <1>8, <1>21 DEF End
<1>23. RestOf(w, x, k, j)
  BY <1>1, <1>3, <1>5, <1>21, <1>22 DEF RestOf
<1>24. r.s = t /\ r.addr = a0 + w.sum[i] /\ r.prev = k
  BY <1>8, <1>16
<1>26. Settled(w.pool, x)
  BY <1>4, <1>21, SettledTwice
<1>25. \E f : Good(f) /\ Settled(w.pool, f) /\ RestOf(w, f, r.prev, i - 1) /\ SameButSize(f, r.s, r.prev, w.sizes[i])
  BY <1>1, <1>7, <1>18, <1>21, <1>23, <1>24, <1>26
<1> QED
  BY <1>1, <1>24, <1>25 DEF CutState

\* Cutting the buffer of a continuous request into its pieces leaves the pool in order.
LEMMA SplitPiecesOK ==
  ASSUME NEW w, Pieces(w), NEW base, CutState(w, base, 1),
         NEW S, S = 2 .. Len(w.sizes), NEW g, IsFold(g, w, base, S)
  PROVE  Good(g[S].s) /\ Settled(w.pool, g[S].s)
<1>1. PICK n \in Nat : n = Len(w.sizes) /\ n > 1
  BY DEF Pieces
<1>2. S = 2 .. n /\ IsFiniteSet(S) /\ S \subseteq Nat /\ w.tag = "cut"
  <2>1. 2 \in Int /\ n \in Int
    OBVIOUS
  <2>2. IsFiniteSet(2 .. n)
    BY <2>1, FS_Interval
  <2> QED
    BY <2>2, <1>1 DEF Pieces
<1>3. w.tag \in Ascending /\ \A T \in SUBSET S : T # {} => LastOf(w, T) \in T /\ LastOf(w, T) = Max(T)
  <2>1. w.tag \in Ascending
    BY <1>2 DEF Ascending
  <2> QED
    BY <2>1, <1>2, LastIn, LastNumber
<1>4. \A acc, x : Step(w, acc, x) = CutStep(w.sizes, w.e, w.first, acc, x)
  BY <1>2 DEF Step
<1>5. \A acc, T : FoldGood(w, base, S, acc, T) <=> \A i \in 1 .. n : T = 2 .. i => CutState(w, acc, i)
  BY <1>1, <1>2 DEF FoldGood
<1>6. FoldGood(w, base, S, base, {})
  <2>1. \A i \in 1 .. n : {} = 2 .. i => i = 1
    <3>1. \A i \in 1 .. n : i # 1 => 2 \in 2 .. i
      OBVIOUS
    <3> QED
      BY <3>1
  <2> QED
    BY <2>1, <1>5
<1>7. ASSUME NEW T \in SUBSET S, NEW acc, T # {}, FoldGood(w, base, S, acc, T \ {LastOf(w, T)})
      PROVE  FoldGood(w, base, S, Step(w, acc, LastOf(w, T)), T)
  <2> SUFFICES ASSUME NEW i \in 1 .. n, T = 2 .. i
               PROVE  CutState(w, Step(w, acc, LastOf(w, T)), i)
    BY <1>5
  <2>1. PICK l : l = LastOf(w, T)
    OBVIOUS
  <2>2. l \in T /\ l = Max(T) /\ IsFiniteSet(T) /\ T \subseteq Nat
    BY <2>1, <1>2, <1>3, <1>7, FS_Subset
  <2>3. \A y \in T : l >= y
    BY <2>2, <1>7, GreatestNumber
  <2>4. i \in T
    BY <1>7
  <2>5. l = i
    <3>1. l >= i /\ l <= i /\ l \in Nat /\ i \in Nat
      BY <2>2, <2>3, <2>4
    <3> QED
      BY <3>1
  <2>6. T \ {i} = 2 .. (i - 1) /\ i - 1 \in 1 .. n /\ i \in 2 .. n
    BY <2>4
  <2>7. CutState(w, acc, i - 1)
    BY <2>1, <2>5, <2>6, <1>5, <1>7
  <2>8. PICK r : r = CutStep(w.sizes, w.e, w.first, acc, i)
    OBVIOUS
  <2>9. CutState(w, r, i)
    BY <2>6, <2>7, <2>8, <1>1, CutStepOK
  <2> QED
    BY <2>1, <2>5, <2>8, <2>9, <1>4
<1>8. FoldGood(w, base, S, g[S], S)
  BY <1>2, <1>3, <1>6, <1>7, FoldInduction
<1>9. CutState(w, g[S], n)
  <2>1. n \in 1 .. n
    BY <1>1
  <2> QED
    BY <2>1, <1>2, <1>5, <1>8
<1>10. PICK r, p, m : r = g[S] /\ p = r.prev /\ m = n - 1
  OBVIOUS
<1>11. PICK x : Good(x) /\ Settled(w.pool, x) /\ RestOf(w, x, p, m) /\ SameButSize(x, r.s, p, w.sizes[n])
  BY <1>9, <1>10 DEF CutState
<1>12. /\ p \in DOMAIN x.bufs /\ x.bufs[p].status = "Used"
       /\ x.bufs[p].addr = w.first.addr + w.sum[m] /\ End(x.bufs[p]) = w.first.addr + w.sum[n]
  BY <1>1, <1>11 DEF RestOf
<1>13. /\ w.first.addr \in Nat /\ w.sum[m] \in Nat /\ w.sum[n] \in Nat
       /\ w.sum[n] = w.sum[m] + w.sizes[n] /\ w.sizes[n] \in Nat
  <2>1. n \in 2 .. Len(w.sizes)
    BY <1>1
  <2>2. PICK h : h = m - 1
    OBVIOUS
  <2> QED
    BY <2>1, <2>2, <1>1, <1>10, PieceNumbers
<1>14. x.bufs[p].size = w.sizes[n]
  <2>1. x.bufs[p].size \in Nat /\ End(x.bufs[p]) = x.bufs[p].addr + x.bufs[p].size
    BY <1>11, <1>12, ShapeFacts DEF Good, Kept, Calm, Pooled
  <2> QED
    BY <2>1, <1>12, <1>13, SMTT(40)
<1>15. PICK t : t = r.s
  OBVIOUS
<1>16. Good(t) /\ Settled(w.pool, t)
  <2>1. SameButSize(x, t, p, x.bufs[p].size)
    BY <1>11, <1>14, <1>15
  <2> QED
    BY <2>1, <1>11, <1>12, SameSizeOK, SettledTwice
<1> QED
  BY <1>10, <1>15, <1>16

\* The pages, statistics and flags say nothing about whether a pool is in order.
LEMMA SameGood ==
  ASSUME NEW s, Good(s), NEW t, Same(s, t), t.vmm = s.vmm
  PROVE  Good(t) /\ Unhurt(s, t, {})
<1>1. Nearly(s, {}, {})
  BY GoodNearly
<1>2. Nearly(t, {}, {}) /\ Unhurt(s, t, {})
  BY <1>1, SameOK
<1>3. Paged(t)
  BY EagerPages DEF Good, Same
<1> QED
  BY <1>2, <1>3, GoodNearly

\* A pool without memory is in order.
LEMMA EmptyOK ==
  ASSUME NEW t, Same(EmptyPool, t), AdapterOK(t.vmm)
  PROVE  Good(t)
<1>1. /\ Fields \subseteq DOMAIN t /\ DOMAIN t.bufs = {} /\ DOMAIN t.blocks = {} /\ DOMAIN t.addrs = {}
      /\ t.lists = [a \in Allocators |-> [st \in FreeStatus |-> {}]]
      /\ t.pairs = [p \in UserStreams \X Streams |-> {}] /\ t.inuse = {}
  BY DEF Same, EmptyPool
<1>2. Shape(t.bufs, t.blocks)
  BY <1>1 DEF Shape, BlocksOK, LinksExact, BytesExact
<1>3. t.lists \in [Allocators -> [FreeStatus -> SUBSET Nat]]
  BY <1>1
<1>4. Calm(t)
  BY <1>1, <1>2, <1>3 DEF Calm, Pooled, Merged, QuietFree
<1>5. ListsExact(t, {})
  BY <1>1 DEF ListsExact, Listed
<1>6. AddrsExact(t, {}) /\ Deferred(t.bufs, {})
  BY <1>1 DEF AddrsExact, Deferred
<1>7. PairsExact(t)
  BY <1>1 DEF PairsExact
<1>8. InUseHeld(t)
  BY <1>1 DEF InUseHeld
<1>9. Paged(t)
  BY <1>1 DEF Paged, EagerBytes
<1> QED
  BY <1>4, <1>5, <1>6, <1>7, <1>8, <1>9 DEF Good, Kept, Waiting

\* And its statistics are right.
LEMMA EmptyCounted ==
  ASSUME NEW t, Same(EmptyPool, t), t.stat = NoStat
  PROVE  Counted(t)
<1>1. DOMAIN t.bufs = {} /\ DOMAIN t.blocks = {} /\ DOMAIN t.addrs = {}
  BY DEF Same, EmptyPool
<1>2. UsedBytes(t) = {} /\ EventBytes(t.bufs) = {} /\ EagerBytes(t.bufs) = {} /\ BlockBytes(t.blocks) = {}
  BY <1>1 DEF UsedBytes, EventBytes, EagerBytes, BlockBytes
<1>3. Cardinality({}) = 0
  BY FS_EmptySet
<1>4. t.stat \in [StatFields -> Int]
  BY DEF NoStat, StatFields
<1>5. /\ t.stat.used_size = 0 /\ t.stat.alloc_size = 0 /\ t.stat.used_by_event_size = 0
      /\ t.stat.eager_free_size = 0 /\ t.stat.eager_drift = 0 /\ t.stat.peak_size = 0 /\ t.stat.temp_peak_size = 0 /\ t.stat.temp_used_size = 0
  BY DEF NoStat
<1>6. Peaked(t.stat)
  BY <1>5 DEF Peaked
<1>7. Bordered(t)
  BY <1>1 DEF Bordered
<1>8. Wrapped(0 - 0) = 0
  BY PoolAssumption DEF Wrapped
<1> QED
  BY <1>2, <1>3, <1>4, <1>5, <1>6, <1>7, <1>8 DEF Counted, CountedRest, EagerExact

\* What an operation leaves alone is still there for the second half of
\* AllocContinuousTensorMem.
LEMMA ContKept ==
  ASSUME NEW s, Good(s), NEW t, Good(t), NEW X, Unhurt(s, t, X), NEW c, ContOK(s, c),
         c # NoCont => s.addrs[c.addr].buf \notin X
  PROVE  ContOK(t, c)
<1> SUFFICES ASSUME c # NoCont PROVE ContOK(t, c)
  BY DEF ContOK
<1>1. PICK b, addr : b = s.addrs[addr].buf /\ addr = c.addr
  OBVIOUS
<1>2. /\ addr \in DOMAIN s.addrs /\ c.sizes \in SizeLists /\ Len(c.sizes) > 1
      /\ s.bufs[b].status = "Used" /\ s.bufs[b].events = NoEvents /\ s.bufs[b].size = Total(c.sizes)
  BY <1>1 DEF ContOK
<1>3. b \in DOMAIN s.bufs /\ s.bufs[b].addr = addr
  BY <1>1, <1>2 DEF Good, Kept, AddrsExact
<1>4. b \in DOMAIN t.bufs /\ SameBuf(s.bufs, t.bufs, b)
  BY <1>1, <1>2, <1>3 DEF Unhurt
<1>5. /\ t.bufs[b].addr = addr /\ t.bufs[b].status = "Used" /\ t.bufs[b].events = NoEvents
      /\ t.bufs[b].size = Total(c.sizes)
  BY <1>2, <1>3, <1>4 DEF SameBuf
<1>6. addr \in DOMAIN t.addrs /\ t.addrs[addr].buf = b
  <2>1. t.bufs[b].status \notin FreeStatus
    BY <1>5 DEF FreeStatus
  <2> QED
    BY <2>1, <1>4, <1>5, IndexedOK DEF Good, Kept
<1> QED
  BY <1>1, <1>2, <1>5, <1>6 DEF ContOK

\* Two addresses are of two buffers.
LEMMA OtherBuf ==
  ASSUME NEW s, Good(s), NEW x \in DOMAIN s.addrs, NEW y \in DOMAIN s.addrs, x # y
  PROVE  s.addrs[x].buf # s.addrs[y].buf
BY DEF Good, Kept, AddrsExact

\* A continuous request that was answered got a buffer of exactly the size of its
\* pieces: nothing is rounded.
LEMMA ContBeginOK ==
  ASSUME AlignSize = 1, NEW s, Good(s), NEW sizes \in SizeLists, Len(sizes) # 1,
         NEW sid \in Streams, NEW sync, NEW r, r = DoAllocTensorMem(s, Total(sizes), FALSE, sid, sync),
         r.addr # 0, NEW c, c = [addr |-> r.addr, sizes |-> sizes]
  PROVE  ContOK(r.s, c)
<1>1. sizes \in Seq(Nat \ {0}) /\ Len(sizes) > 1 /\ Len(sizes) \in Nat
  <2>1. sizes \in Seq(Nat \ {0}) /\ sizes # <<>>
    BY RequestAssumption
  <2>2. Len(sizes) \in Nat /\ Len(sizes) # 0
    BY <2>1
  <2>3. PICK n : n = Len(sizes)
    OBVIOUS
  <2>4. n \in Nat /\ n # 0 /\ n # 1
    BY <2>2, <2>3
  <2>5. n > 1
    BY <2>4
  <2> QED
    BY <2>1, <2>3, <2>4, <2>5
<1>2. PICK sum : Partial(sizes, sum) /\ Total(sizes) = sum[Len(sizes)]
  BY <1>1, PartialSums
<1>3. PICK n, total : n = Len(sizes) /\ total = Total(sizes)
  OBVIOUS
<1>4. n \in Nat /\ 0 \in 0 .. n /\ n \in 0 .. n /\ 0 < n
  BY <1>1, <1>3
<1>5. sum[0] < sum[n]
  BY <1>1, <1>2, <1>3, <1>4, SumsGrow
<1>6. total \in Nat /\ total # 0
  BY <1>2, <1>3, <1>4, <1>5 DEF Partial
<1>7. AlignMemorySize(total) = total
  BY <1>6, AlignedSize
<1>8. PICK t, addr, buf : t = r.s /\ addr = r.addr /\ buf = t.bufs[t.addrs[addr].buf]
  OBVIOUS
<1>9. Good(t) /\ addr \in DOMAIN t.addrs /\ buf.status = "Used" /\ buf.events = NoEvents
      /\ total <= buf.size /\ buf.size < total + 1
  <2>1. FALSE \in BOOLEAN /\ r = DoAllocTensorMem(s, total, FALSE, sid, sync) /\ (EnableVmm => IsFiniteSet(Streams))
    BY <1>3, RequestAssumption
  <2>2. /\ Good(r.s)
        /\ r.addr # 0 => /\ r.addr \in DOMAIN r.s.addrs
                         /\ LET b == r.s.bufs[r.s.addrs[r.addr].buf]
                            IN  /\ b.status = "Used" /\ b.events = NoEvents
                                /\ AlignMemorySize(total) <= b.size
                                /\ b.size < AlignMemorySize(total) + AlignSize
    BY <2>1, <1>6, DoAllocOK
  <2> QED
    BY <2>2, <1>7, <1>8
<1>10. buf.size = total
  <2>1. PICK b : b = t.addrs[addr].buf
    OBVIOUS
  <2>2. b \in DOMAIN t.bufs /\ Shape(t.bufs, t.blocks)
    BY <2>1, <1>9 DEF Good, Kept, AddrsExact, Calm, Pooled
  <2>3. t.bufs[b].size \in Nat /\ buf = t.bufs[b]
    BY <2>1, <2>2, <1>8, ShapeFacts
  <2> QED
    BY <2>3, <1>6, <1>9
<1> QED
  BY <1>1, <1>3, <1>8, <1>9, <1>10 DEF ContOK

\* The second half of AllocContinuousTensorMem.
LEMMA ContSplitOK ==
  ASSUME PoolInv, AllocContinuousSplit
  PROVE  Good(pool') /\ Settled(pool, pool')
<1>1. PICK s, addr, sizes : s = pool /\ addr = cont.addr /\ sizes = cont.sizes
  OBVIOUS
<1>2. PICK e, b : e = s.addrs[addr] /\ b = e.buf
  OBVIOUS
<1>3. PICK first : first = s.bufs[b]
  OBVIOUS
<1>4. /\ Good(s) /\ addr \in DOMAIN s.addrs /\ sizes \in SizeLists /\ Len(sizes) > 1
      /\ first.status = "Used" /\ first.events = NoEvents /\ first.size = Total(sizes)
  BY <1>1, <1>2, <1>3 DEF PoolInv, ContOK, AllocContinuousSplit
<1>5. /\ b \in DOMAIN s.bufs /\ first.addr = addr /\ e.alloc = Owner(s, b)
      /\ Shape(s.bufs, s.blocks) /\ Fields \subseteq DOMAIN s
  BY <1>2, <1>3, <1>4 DEF Good, Kept, AddrsExact, Calm, Pooled
<1>6. first \in BufType /\ addr \in Nat /\ first.size \in Nat /\ End(first) = addr + first.size
  BY <1>3, <1>5, ShapeFacts
<1>7. sizes \in Seq(Nat \ {0})
  BY <1>4, RequestAssumption
<1>8. PICK sum : Partial(sizes, sum) /\ Total(sizes) = sum[Len(sizes)]
  BY <1>7, PartialSums
<1>9. PICK w : w = [tag |-> "cut", sizes |-> sizes, e |-> e, first |-> first, sum |-> sum, pool |-> s]
  OBVIOUS
<1>10. w.tag = "cut" /\ w.sizes = sizes /\ w.e = e /\ w.first = first /\ w.sum = sum /\ w.pool = s
  BY <1>9
<1>11. Pieces(w)
  BY <1>4, <1>5, <1>6, <1>7, <1>8, <1>10 DEF Pieces
<1>12. PICK y, base : /\ y = [s EXCEPT !.bufs[b].size = sizes[1]]
                      /\ base = [s |-> y, addr |-> addr + sizes[1], prev |-> b]
  OBVIOUS
<1>13. SameButSize(s, y, b, sizes[1])
  <2>1. /\ Fields \subseteq DOMAIN y /\ y.bufs = [s.bufs EXCEPT ![b].size = sizes[1]]
        /\ y.blocks = s.blocks /\ y.lists = s.lists /\ y.addrs = s.addrs
        /\ y.pairs = s.pairs /\ y.inuse = s.inuse /\ y.stat = s.stat /\ y.vmm = s.vmm
    BY <1>5, <1>12 DEF Fields
  <2>2. Trimmed(s.bufs, y.bufs, b, sizes[1])
    BY <2>1, <1>5 DEF Trimmed
  <2> QED
    BY <2>1, <2>2 DEF SameButSize
<1>14. sum[0] = 0 /\ sum[1] = sizes[1] /\ sizes[1] \in Nat
  <2>1. 1 \in 1 .. Len(sizes)
    BY <1>4, <1>7
  <2>2. sum[1] = sum[1 - 1] + sizes[1] /\ sum[0] = 0
    BY <2>1, <1>8 DEF Partial
  <2>3. sizes[1] \in Nat /\ 1 - 1 = 0
    BY <2>1, <1>7
  <2> QED
    BY <2>2, <2>3
<1>15. RestOf(w, s, b, 0)
  <2>1. first.addr + sum[0] = first.addr
    BY <1>5, <1>6, <1>14
  <2>2. End(first) = first.addr + sum[Len(sizes)]
    BY <1>4, <1>5, <1>6, <1>8
  <2> QED
    BY <2>1, <2>2, <1>3, <1>4, <1>5, <1>10 DEF RestOf
<1>16. CutState(w, base, 1)
  <2>1. base.s = y /\ base.prev = b /\ base.addr = w.first.addr + w.sum[1]
    BY <1>5, <1>10, <1>12, <1>14
  <2>2. 1 - 1 = 0
    OBVIOUS
  <2>3. \E g : Good(g) /\ Settled(w.pool, g) /\ RestOf(w, g, base.prev, 1 - 1) /\ SameButSize(g, base.s, base.prev, w.sizes[1])
    BY <2>1, <2>2, <1>4, <1>10, <1>13, <1>15 DEF Settled
  <2> QED
    BY <2>1, <2>3 DEF CutState
<1>17. PICK S : S = 2 .. Len(sizes)
  OBVIOUS
<1> DEFINE e0 == pool.addrs[cont.addr]
           start == [s |-> [pool EXCEPT !.bufs[e0.buf].size = cont.sizes[1]],
                     addr |-> cont.addr + cont.sizes[1], prev |-> e0.buf]
           Def(f) == [T \in SUBSET (2 .. Len(cont.sizes)) |->
                        IF T = {} THEN start
                        ELSE CutStep(cont.sizes, e0, pool.bufs[e0.buf], f[T \ {Max(T)}], Max(T))]
<1>0. PICK g : pool' = g[2 .. Len(cont.sizes)].s /\ g = CHOOSE f : f = Def(f)
  <2>1. cont.addr \in DOMAIN pool.addrs
    BY <1>1, <1>4
  <2> QED
    BY <2>1 DEF AllocContinuousSplit, FoldUp, MapThenFoldSet, CutStep
<1>18. pool' = g[S].s
  BY <1>0, <1>1, <1>17
<1>19. IsFiniteSet(S) /\ S \subseteq Nat
  <2>1. 2 \in Int /\ Len(sizes) \in Int
    BY <1>7
  <2>2. IsFiniteSet(2 .. Len(sizes))
    BY <2>1, FS_Interval
  <2> QED
    BY <2>1, <2>2, <1>17
<1>20. (\A T \in SUBSET S : T # {} => LastOf(w, T) \in T) /\ \A T : LastOf(w, T) = Max(T)
  <2>1. w.tag \in Ascending
    BY <1>10 DEF Ascending
  <2> QED
    BY <2>1, <1>19, LastIn, LastNumber
<1>21. \A acc, x : Step(w, acc, x) = CutStep(sizes, e, first, acc, x)
  BY <1>10 DEF Step
<1>27. /\ e0 = e /\ pool.bufs[e0.buf] = first /\ cont.sizes = sizes /\ start = base
       /\ 2 .. Len(cont.sizes) = S
  BY <1>1, <1>2, <1>3, <1>12, <1>17
<1> HIDE DEF e0, start
<1>22. \A f : Def(f) = [T \in SUBSET S |-> IF T = {} THEN base ELSE Step(w, f[T \ {LastOf(w, T)}], LastOf(w, T))]
  BY <1>20, <1>21, <1>27
<1>23. \A f : IsFold(f, w, base, S) <=> f = Def(f)
  BY <1>22 DEF IsFold
<1> HIDE DEF Def
<1>24. \E f : f = Def(f)
  BY <1>19, <1>20, <1>23, FoldExists
<1>25. IsFold(g, w, base, S)
  BY <1>0, <1>23, <1>24
<1>26. Good(g[S].s) /\ Settled(w.pool, g[S].s)
  <2>1. S = 2 .. Len(w.sizes)
    BY <1>10, <1>17
  <2> QED
    BY <2>1, <1>11, <1>16, <1>25, SplitPiecesOK
<1> QED
  BY <1>1, <1>10, <1>18, <1>26

-----------------------------------------------------------------------------
(* The invariant is inductive.                                             *)

\* Continuous requests are made with sizes the alignment leaves alone.
AlignedRequests == SizeLists # {} => AlignSize = 1

LEMMA InitOK == Init => PoolInv
<1> SUFFICES ASSUME Init PROVE PoolInv
  OBVIOUS
<1>1. Same(EmptyPool, pool)
  BY DEF Init, Same, EmptyPool, Fields
<1>4. AdapterOK(pool.vmm)
  <2>1. PICK v : v = EmptyVmm
    OBVIOUS
  <2>2. /\ DOMAIN v = {"map", "mapped", "cached", "made"} /\ v.made = 0 /\ v.cached = {}
        /\ v.map = <<>> /\ v.mapped = <<>>
    BY <2>1 DEF EmptyVmm
  <2>3. DOMAIN v.map = {} /\ v.map \in [{} -> Nat]
    BY <2>2
  <2>4. MappedPages(v) = {}
    BY <2>3 DEF MappedPages
  <2>5. v.mapped = Restrict(v.map, MappedPages(v))
    BY <2>2, <2>4 DEF Restrict
  <2>6. HandlesOf(v)
    <3>1. 1 .. v.made = {} /\ v.made * PageSize < PhysMem + PageSize
      BY <2>2, VmmAssumption
    <3> QED
      BY <3>1, <2>2, <2>4, <2>5 DEF HandlesOf
  <2>7. \E n \in Nat : v.map \in [0 .. n - 1 -> Nat]
    <3>1. 0 .. 0 - 1 = {} /\ 0 \in Nat
      OBVIOUS
    <3> QED
      BY <3>1, <2>3
  <2>8. AdapterOK(v)
    BY <2>2, <2>4, <2>6, <2>7 DEF AdapterOK
  <2> QED
    BY <2>1, <2>8 DEF Init, EmptyPool
<1>2. Good(pool)
  BY <1>1, <1>4, EmptyOK
<1>3. ContOK(pool, cont)
  BY DEF Init, ContOK
<1>5. Counted(pool)
  BY <1>1, EmptyCounted DEF Init, EmptyPool
<1> QED
  BY <1>2, <1>3, <1>5 DEF PoolInv

\* An operation that hurts no buffer the continuous request holds.
LEMMA KeepsInv ==
  ASSUME PoolInv, cont' = cont, Good(pool'), NEW X, Unhurt(pool, pool', X),
         cont # NoCont => pool.addrs[cont.addr].buf \notin X, Counted(pool) => Counted(pool')
  PROVE  PoolInv'
<1>1. PICK s, t, c : s = pool /\ t = pool' /\ c = cont
  OBVIOUS
<1>2. Good(s) /\ Good(t) /\ ContOK(s, c) /\ Unhurt(s, t, X) /\ (c # NoCont => s.addrs[c.addr].buf \notin X)
  BY <1>1 DEF PoolInv
<1>3. ContOK(t, c)
  BY <1>2, ContKept
<1>4. Counted(pool')
  BY DEF PoolInv
<1> QED
  BY <1>1, <1>2, <1>3, <1>4 DEF PoolInv

\* A step that takes no block is thrifty.
LEMMA SettledThrifty ==
  ASSUME NEW s, NEW t, Settled(s, t)
  PROVE  Thrifty(s, t)
BY DEF Settled, Thrifty

\* The buffer of the continuous request is not that at another address.
LEMMA ContElsewhere ==
  ASSUME PoolInv, NEW addr \in DOMAIN pool.addrs, addr # cont.addr
  PROVE  cont # NoCont => pool.addrs[cont.addr].buf \notin {pool.addrs[addr].buf}
<1> SUFFICES ASSUME cont # NoCont PROVE pool.addrs[cont.addr].buf # pool.addrs[addr].buf
  OBVIOUS
<1>1. Good(pool) /\ cont.addr \in DOMAIN pool.addrs
  BY DEF PoolInv, ContOK
<1> QED
  BY <1>1, OtherBuf

LEMMA AllocStep ==
  ASSUME PoolInv, NEW size \in Sizes, NEW p \in Persistence, NEW sid \in Streams, NEW sync,
         AllocTensorMem(size, p, sid, sync)
  PROVE  PoolInv' /\ Thrifty(pool, pool')
<1>1. PICK r : r = DoAllocTensorMem(pool, size, p, sid, sync)
  OBVIOUS
<1>2. pool' = r.s /\ cont' = cont
  BY <1>1 DEF AllocTensorMem
<1>3. size \in Nat /\ p \in BOOLEAN /\ Good(pool) /\ (EnableVmm => IsFiniteSet(Streams))
  BY RequestAssumption DEF PoolInv
<1>4. Good(r.s) /\ Unhurt(pool, r.s, {}) /\ Thrifty(pool, r.s) /\ (Counted(pool) => Counted(r.s))
  BY <1>1, <1>3, DoAllocOK
<1> QED
  BY <1>2, <1>4, KeepsInv

LEMMA FreeStep ==
  ASSUME PoolInv, NEW addr \in DOMAIN pool.addrs, addr # cont.addr, FreeTensorMem(addr)
  PROVE  PoolInv' /\ Thrifty(pool, pool')
<1>1. PICK s, t, b : s = pool /\ t = pool' /\ b = s.addrs[addr].buf
  OBVIOUS
<1>2. Good(s) /\ addr \in DOMAIN s.addrs /\ t = DoFreeTensorMem(s, addr) /\ cont' = cont
  BY <1>1 DEF PoolInv, FreeTensorMem
<1>3. Good(t) /\ Unhurt(s, t, {b}) /\ Settled(s, t)
  BY <1>1, <1>2, FreeTensorOK DEF Sealed
<1>5. Thrifty(s, t) /\ (Counted(s) => Counted(t))
  BY <1>3, SettledThrifty DEF Settled
<1>4. cont # NoCont => pool.addrs[cont.addr].buf \notin {b}
  BY <1>1, ContElsewhere
<1> QED
  BY <1>1, <1>2, <1>3, <1>4, <1>5, KeepsInv

LEMMA ContinuousBeginStep ==
  ASSUME AlignedRequests, PoolInv, NEW sizes \in SizeLists, NEW sid \in Streams, NEW sync,
         AllocContinuousBegin(sizes, sid, sync)
  PROVE  PoolInv' /\ Thrifty(pool, pool')
<1>1. PICK total : total = Total(sizes)
  OBVIOUS
<1>2. PICK r : r = DoAllocTensorMem(pool, total, FALSE, sid, sync)
  OBVIOUS
<1>3. /\ pool' = r.s
      /\ cont' = IF r.addr = 0 \/ Len(sizes) = 1 THEN NoCont ELSE [addr |-> r.addr, sizes |-> sizes]
  BY <1>1, <1>2 DEF AllocContinuousBegin, Total
<1>4. Good(pool) /\ (EnableVmm => IsFiniteSet(Streams)) /\ AlignSize = 1
  BY RequestAssumption DEF PoolInv, AlignedRequests
<1>5. total \in Nat
  <2>1. sizes \in Seq(Nat \ {0})
    BY RequestAssumption
  <2>2. PICK sum : Partial(sizes, sum) /\ total = sum[Len(sizes)]
    BY <2>1, <1>1, PartialSums
  <2>3. Len(sizes) \in Nat
    BY <2>1
  <2>4. Len(sizes) \in 0 .. Len(sizes)
    BY <2>3
  <2> QED
    BY <2>2, <2>4 DEF Partial
<1>6. Good(r.s) /\ Thrifty(pool, r.s) /\ (Counted(pool) => Counted(r.s))
  <2>1. FALSE \in BOOLEAN
    OBVIOUS
  <2> QED
    BY <2>1, <1>2, <1>4, <1>5, DoAllocOK
<1>7. ContOK(r.s, cont')
  <2>1. CASE r.addr = 0 \/ Len(sizes) = 1
    BY <2>1, <1>3 DEF ContOK
  <2>2. CASE r.addr # 0 /\ Len(sizes) # 1
    <3>1. PICK c : c = [addr |-> r.addr, sizes |-> sizes]
      OBVIOUS
    <3>2. r = DoAllocTensorMem(pool, Total(sizes), FALSE, sid, sync) /\ cont' = c
      BY <1>1, <1>2, <1>3, <2>2, <3>1
    <3> QED
      BY <3>1, <3>2, <2>2, <1>4, ContBeginOK
  <2> QED
    BY <2>1, <2>2
<1> QED
  BY <1>3, <1>6, <1>7 DEF PoolInv

LEMMA ContinuousSplitStep ==
  ASSUME PoolInv, AllocContinuousSplit
  PROVE  PoolInv' /\ Thrifty(pool, pool')
<1>1. Good(pool') /\ Thrifty(pool, pool') /\ cont' = NoCont /\ (Counted(pool) => Counted(pool'))
  <2>1. Good(pool') /\ Settled(pool, pool')
    BY ContSplitOK
  <2> QED
    BY <2>1, SettledThrifty DEF AllocContinuousSplit, Settled
<1> QED
  BY <1>1 DEF PoolInv, ContOK

LEMMA FreePartStep ==
  ASSUME PoolInv, NEW addr \in DOMAIN pool.addrs,
         NEW keep \in [addr : BytesOf(pool.bufs[pool.addrs[addr].buf]), size : Sizes \ {0}],
         keep.addr + keep.size <= addr + pool.bufs[pool.addrs[addr].buf].size,
         FreePartTensorMems({addr}, keep)
  PROVE  PoolInv' /\ Thrifty(pool, pool')
<1>1. PICK s, t, b : s = pool /\ t = pool' /\ b = s.addrs[addr].buf
  OBVIOUS
<1>2. /\ Good(s) /\ addr \in DOMAIN s.addrs /\ t = DoFreePart(s, {addr}, keep) /\ cont' = cont
      /\ s.bufs[b].status = "Used" /\ (FreePartWithEvents \/ IsEventNotUsed(s.bufs[b])) /\ cont.addr # addr
  BY <1>1 DEF PoolInv, FreePartTensorMems
<1>3. b \in DOMAIN s.bufs /\ Shape(s.bufs, s.blocks)
  BY <1>1, <1>2 DEF Good, Kept, AddrsExact, Calm, Pooled
<1>4. s.bufs[b] \in BufType
  BY <1>3, ShapeFacts
<1>5. IsEventNotUsed(s.bufs[b]) => s.bufs[b].events = NoEvents
  BY <1>4 DEF BufType, IsEventNotUsed, NoEvents
<1>6. Cuttable(s, b)
  BY <1>2, <1>5 DEF Cuttable
<1>7. keep.addr \in BytesOf(s.bufs[b]) /\ keep.size \in Nat \ {0} /\ keep.addr + keep.size <= addr + s.bufs[b].size
  BY <1>1, RequestAssumption
<1>8. Good(t) /\ Unhurt(s, t, {b}) /\ Settled(s, t)
  BY <1>1, <1>2, <1>6, <1>7, FreePartOK
<1>10. Thrifty(s, t) /\ (Counted(s) => Counted(t))
  BY <1>8, SettledThrifty DEF Settled
<1>9. cont # NoCont => pool.addrs[cont.addr].buf \notin {b}
  BY <1>1, <1>2, ContElsewhere
<1> QED
  BY <1>1, <1>2, <1>8, <1>9, <1>10, KeepsInv

LEMMA RecordStep ==
  ASSUME PoolInv, NEW addr \in DOMAIN pool.addrs, NEW u \in UserStreams, NEW t \in 1 .. MaxTask,
         RecordEvent(t, u, addr)
  PROVE  PoolInv' /\ Thrifty(pool, pool')
<1>1. PICK s, r, b : s = pool /\ r = pool' /\ b = s.addrs[addr].buf
  OBVIOUS
<1>2. Good(s) /\ addr \in DOMAIN s.addrs /\ s.bufs[b].status = "Used" /\ addr # cont.addr /\ cont' = cont
  BY <1>1 DEF PoolInv, RecordEvent
<1>3. /\ b \in DOMAIN s.bufs /\ Shape(s.bufs, s.blocks) /\ Fields \subseteq DOMAIN s
      /\ s.pairs \in [UserStreams \X Streams -> SUBSET Nat]
  BY <1>1, <1>2 DEF Good, Kept, AddrsExact, Calm, Pooled, Waiting, PairsExact
<1>4. s.bufs[b] \in BufType
  BY <1>3, ShapeFacts
<1>5. PICK buf : buf = WithEvent(s, b, u, t)
  OBVIOUS
<1>6. /\ buf.stream_id = s.bufs[b].stream_id /\ buf.addr = s.bufs[b].addr /\ buf.size = s.bufs[b].size
  BY <1>4, <1>5 DEF WithEvent, BufType
<1>7. BytesOf(buf) = BytesOf(s.bufs[b])
  BY <1>6 DEF BytesOf
<1>20. PICK more : more = IF s.bufs[b].events = NoEvents THEN s.bufs[b].size ELSE 0
  OBVIOUS
<1>21. PICK stat : stat = [s.stat EXCEPT !.used_by_event_size = @ + more]
  OBVIOUS
<1>8. r = [s EXCEPT
           !.stat = stat,
           !.bufs[b].events[u] = Append(@, t),
           !.pairs[<<u, s.bufs[b].stream_id>>] = @ \cup {b},
           !.inuse = @ \cup {[byte |-> x, user |-> u, mem |-> s.bufs[b].stream_id, task |-> t] :
                               x \in BytesOf(s.bufs[b])}]
  <2>1. IsEventNotUsed(s.bufs[b]) <=> s.bufs[b].events = NoEvents
    BY <1>4 DEF BufType, IsEventNotUsed, NoEvents
  <2>2. more = IF IsEventNotUsed(s.bufs[b]) THEN s.bufs[b].size ELSE 0
    BY <2>1, <1>20
  <2> QED
    BY <2>2, <1>1, <1>21 DEF RecordEvent
<1>9. /\ Fields \subseteq DOMAIN r /\ r.bufs = [s.bufs EXCEPT ![b] = buf]
      /\ r.blocks = s.blocks /\ r.lists = s.lists /\ r.addrs = s.addrs /\ r.vmm = s.vmm
      /\ r.pairs = [s.pairs EXCEPT ![<<u, buf.stream_id>>] = @ \cup {b}]
      /\ r.inuse = s.inuse \cup {[byte |-> x, user |-> u, mem |-> buf.stream_id, task |-> t] : x \in BytesOf(buf)}
  <2>1. r.bufs = [s.bufs EXCEPT ![b] = buf]
    BY <1>3, <1>5, <1>8 DEF WithEvent, Fields
  <2>2. r.inuse = s.inuse \cup {[byte |-> x, user |-> u, mem |-> s.bufs[b].stream_id, task |-> t] :
                                  x \in BytesOf(s.bufs[b])}
    BY <1>3, <1>8 DEF Fields
  <2>3. r.pairs = [s.pairs EXCEPT ![<<u, s.bufs[b].stream_id>>] = @ \cup {b}]
    BY <1>3, <1>8 DEF Fields
  <2>4. Fields \subseteq DOMAIN r /\ r.blocks = s.blocks /\ r.lists = s.lists /\ r.addrs = s.addrs /\ r.vmm = s.vmm
    BY <1>3, <1>8 DEF Fields
  <2> QED
    BY <2>1, <2>2, <2>3, <2>4, <1>6, <1>7
<1>10. t \in Nat
  OBVIOUS
<1>11. Good(r) /\ Unhurt(s, r, {b})
  <2>1. Recorded(s, r, b, u, t)
    BY <1>5, <1>9 DEF Recorded
  <2> QED
    BY <2>1, <1>2, <1>3, <1>10, RecordOK
<1>12. cont # NoCont => pool.addrs[cont.addr].buf \notin {b}
  BY <1>1, <1>2, ContElsewhere
<1>13. Thrifty(s, r)
  BY <1>9 DEF Thrifty
<1>14. Counted(s) => Counted(r)
  <2>1. /\ buf.status = "Used" /\ buf.mem_block = s.bufs[b].mem_block
        /\ buf.events = [s.bufs[b].events EXCEPT ![u] = Append(@, t)]
    BY <1>2, <1>4, <1>5 DEF WithEvent, BufType
  <2>2. s.bufs[b].events \in [UserStreams -> Seq(Nat)]
    BY <1>4 DEF BufType
  <2>3. buf.events # NoEvents
    <3>1. buf.events[u] = Append(s.bufs[b].events[u], t) /\ s.bufs[b].events[u] \in Seq(Nat)
      BY <2>1, <2>2
    <3>2. buf.events[u] # <<>>
      BY <3>1, <1>10
    <3> QED
      BY <3>2 DEF NoEvents
  <2>4. s.bufs[b].status \notin FreeStatus /\ buf.status \notin FreeStatus
    BY <2>1, <1>2 DEF FreeStatus
  <2>5. r.stat = [s.stat EXCEPT !.used_by_event_size = @ + more]
    BY <1>3, <1>8, <1>21 DEF Fields
  <2>6. Shape(r.bufs, r.blocks)
    BY <1>11 DEF Good, Kept, Calm, Pooled
  <2>7. /\ Shape(s.bufs, s.blocks) /\ b \in DOMAIN s.bufs /\ r.bufs = [s.bufs EXCEPT ![b] = buf]
        /\ r.addrs = s.addrs /\ r.blocks = s.blocks
        /\ buf.addr = s.bufs[b].addr /\ buf.size = s.bufs[b].size /\ buf.mem_block = s.bufs[b].mem_block
    BY <2>1, <1>3, <1>6, <1>9
  <2> QED
    BY <2>3, <2>4, <2>5, <2>6, <2>7, <1>20, RecordCounted
<1> QED
  BY <1>1, <1>2, <1>11, <1>12, <1>13, <1>14, KeepsInv

LEMMA WaitStep ==
  ASSUME OneUser, PoolInv, NEW t \in 1 .. MaxTask, NEW m \in Streams,
         \/ WaitEventAll(t, m)
         \/ \E u \in UserStreams : WaitEvent(t, u, m)
  PROVE  PoolInv' /\ Thrifty(pool, pool')
<1>1. Good(pool) /\ t \in Nat
  BY DEF PoolInv
<1>2. CASE WaitEventAll(t, m)
  <2>1. pool' = WaitPairs(pool, t, m) /\ cont' = cont
    BY <1>2 DEF WaitEventAll
  <2>2. Good(pool') /\ Unhurt(pool, pool', {}) /\ Settled(pool, pool')
    BY <2>1, <1>1, WaitAllOK DEF Sealed
  <2>3. Thrifty(pool, pool') /\ (Counted(pool) => Counted(pool'))
    BY <2>2, SettledThrifty DEF Settled
  <2> QED
    BY <2>1, <2>2, <2>3, KeepsInv
<1>3. CASE \E u \in UserStreams : WaitEvent(t, u, m)
  <2>1. PICK u \in UserStreams : pool' = WaitPair(pool, t, u, m) /\ cont' = cont
    BY <1>3 DEF WaitEvent
  <2>2. Good(pool') /\ Unhurt(pool, pool', {}) /\ Settled(pool, pool')
    BY <2>1, <1>1, WaitPairOK DEF Sealed
  <2>3. Thrifty(pool, pool') /\ (Counted(pool) => Counted(pool'))
    BY <2>2, SettledThrifty DEF Settled
  <2> QED
    BY <2>1, <2>2, <2>3, KeepsInv
<1> QED
  BY <1>2, <1>3

LEMMA SyncStep ==
  ASSUME PoolInv, SyncAllEvents
  PROVE  PoolInv' /\ Thrifty(pool, pool')
<1>1. Good(pool) /\ pool' = DoSyncAllEvents(pool) /\ cont' = cont
  BY DEF PoolInv, SyncAllEvents
<1>2. Good(pool') /\ Unhurt(pool, pool', {}) /\ Settled(pool, pool')
  BY <1>1, DoSyncAllEventsOK DEF Sealed
<1>3. Thrifty(pool, pool') /\ (Counted(pool) => Counted(pool'))
  BY <1>2, SettledThrifty DEF Settled
<1> QED
  BY <1>1, <1>2, <1>3, KeepsInv

LEMMA DefragStep ==
  ASSUME PoolInv, DefragMemory
  PROVE  PoolInv' /\ Thrifty(pool, pool')
<1>1. PICK y : y = FreeIdleMemsByEagerFree(pool)
  OBVIOUS
<1>2. EnableVmm /\ Good(pool) /\ pool' = [y EXCEPT !.defrag = FALSE] /\ cont' = cont
  BY <1>1 DEF PoolInv, DefragMemory
<1>3. Good(y) /\ Unhurt(pool, y, {}) /\ Sealed(pool, y)
  BY <1>1, <1>2, RequestAssumption, FreeAllIdleOK
<1>4. Fields \subseteq DOMAIN y
  BY <1>3 DEF Good, Kept, Calm, Pooled
<1>5. Same(y, pool') /\ pool'.vmm = y.vmm
  BY <1>2, <1>4 DEF Same, Fields
<1>6. Good(pool') /\ Unhurt(y, pool', {})
  BY <1>3, <1>5, SameGood
<1>7. Unhurt(pool, pool', {})
  BY <1>3, <1>5 DEF Unhurt, Same
<1>8. Thrifty(pool, pool') /\ (Counted(pool) => Counted(pool'))
  <2>1. pool'.stat = y.stat
    BY <1>2, <1>4 DEF Fields
  <2>2. Counted(y) => Counted(pool')
    BY <2>1, <1>5, SameCounted DEF Same
  <2>3. Settled(pool, pool')
    BY <2>2, <1>3, <1>5 DEF Sealed, Settled, Same
  <2> QED
    BY <2>3, SettledThrifty DEF Settled
<1> QED
  BY <1>2, <1>6, <1>7, <1>8, KeepsInv

LEMMA ResetStep ==
  ASSUME PoolInv, ResetMaxMemReserved \/ ResetMaxMemAllocated
  PROVE  PoolInv' /\ Thrifty(pool, pool')
<1>1. Good(pool) /\ Fields \subseteq DOMAIN pool
  BY DEF PoolInv, Good, Kept, Calm, Pooled
<1>2. PICK stat : pool' = [pool EXCEPT !.stat = stat] /\ cont' = cont
  <2>1. CASE ResetMaxMemReserved
    BY <2>1, <1>1 DEF ResetMaxMemReserved
  <2>2. CASE ResetMaxMemAllocated
    BY <2>2, <1>1 DEF ResetMaxMemAllocated
  <2> QED
    BY <2>1, <2>2
<1>3. Same(pool, pool') /\ pool'.vmm = pool.vmm
  BY <1>1, <1>2 DEF Same, Fields
<1>4. Good(pool') /\ Unhurt(pool, pool', {})
  BY <1>1, <1>3, SameGood
<1>5. Thrifty(pool, pool')
  BY <1>3 DEF Thrifty, Same
<1>6. Counted(pool')
  <2>1. /\ Counted(pool) /\ pool'.bufs = pool.bufs /\ pool'.blocks = pool.blocks /\ pool'.addrs = pool.addrs
    BY <1>3 DEF PoolInv, Same
  <2>2. UsedBytes(pool') = UsedBytes(pool) /\ Bordered(pool')
    BY <2>1 DEF UsedBytes, Bordered, Counted, CountedRest, EagerExact
  <2>3. /\ pool.stat \in [StatFields -> Int] /\ Peaked(pool.stat)
        /\ \A y \in StatFields : pool.stat[y] \in Int
    BY <2>1 DEF Counted, CountedRest, EagerExact
  <2>4. /\ pool'.stat \in [StatFields -> Int]
        /\ pool'.stat.used_size = pool.stat.used_size /\ pool'.stat.alloc_size = pool.stat.alloc_size
        /\ pool'.stat.used_by_event_size = pool.stat.used_by_event_size
        /\ pool'.stat.eager_free_size = pool.stat.eager_free_size /\ pool'.stat.eager_drift = pool.stat.eager_drift
        /\ Peaked(pool'.stat)
    <3>1. CASE ResetMaxMemReserved
      <4>1. pool'.stat = [pool.stat EXCEPT !.temp_alloc_size = pool.stat.alloc_size]
        BY <3>1, <1>1 DEF ResetMaxMemReserved, Fields
      <4> QED
        BY <4>1, <2>3 DEF StatFields, Peaked
    <3>2. CASE ResetMaxMemAllocated
      <4>1. pool'.stat = [pool.stat EXCEPT !.temp_used_size = pool.stat.used_size,
                                           !.temp_used_by_event_size = pool.stat.used_by_event_size,
                                           !.temp_peak_size = 0]
        BY <3>2, <1>1 DEF ResetMaxMemAllocated, Fields
      <4>2. pool'.stat \in [StatFields -> Int]
        <5>1. pool.stat.used_size \in Int /\ pool.stat.used_by_event_size \in Int
          BY <2>3 DEF StatFields
        <5>2. PICK f : f = [pool.stat EXCEPT !.temp_used_size = pool.stat.used_size]
          OBVIOUS
        <5>3. PICK g : g = [f EXCEPT !.temp_used_by_event_size = pool.stat.used_by_event_size]
          OBVIOUS
        <5>4. f \in [StatFields -> Int] /\ g \in [StatFields -> Int]
          BY <5>1, <5>2, <5>3, <2>3
        <5>5. pool'.stat = [g EXCEPT !.temp_peak_size = 0]
          BY <4>1, <5>2, <5>3
        <5> QED
          BY <5>4, <5>5
      <4>3. /\ pool'.stat.used_size = pool.stat.used_size /\ pool'.stat.alloc_size = pool.stat.alloc_size
            /\ pool'.stat.used_by_event_size = pool.stat.used_by_event_size
            /\ pool'.stat.eager_free_size = pool.stat.eager_free_size /\ pool'.stat.eager_drift = pool.stat.eager_drift
            /\ pool'.stat.peak_size = pool.stat.peak_size /\ pool'.stat.temp_peak_size = 0
            /\ pool'.stat.temp_used_size = pool.stat.used_size
        BY <4>1, <2>3 DEF StatFields
      <4>4. pool.stat.used_size \in Int
        BY <2>3 DEF StatFields
      <4>5. Peaked(pool'.stat)
        BY <4>3, <4>4, <2>3 DEF Peaked
      <4> QED
        BY <4>2, <4>3, <4>5
    <3> QED
      BY <3>1, <3>2
  <2> QED
    BY <2>1, <2>2, <2>4 DEF Counted, CountedRest, EagerExact
<1> QED
  BY <1>2, <1>4, <1>5, <1>6, KeepsInv

LEMMA ReleaseStep ==
  ASSUME PoolInv, ReleaseDeviceRes
  PROVE  PoolInv' /\ Thrifty(pool, pool')
<1>1. /\ pool' = [EmptyPool EXCEPT !.defrag = pool.defrag, !.vmm = pool.vmm]
      /\ cont = NoCont /\ cont' = cont
  BY DEF ReleaseDeviceRes
<1>2. Same(EmptyPool, pool') /\ AdapterOK(pool'.vmm)
  <2>1. AdapterOK(pool.vmm)
    BY DEF PoolInv, Good, Paged
  <2> QED
    BY <2>1, <1>1 DEF Same, EmptyPool, Fields
<1>3. Good(pool')
  BY <1>2, EmptyOK
<1>4. Thrifty(pool, pool')
  BY <1>2 DEF Thrifty, Same, EmptyPool
<1>5. Counted(pool')
  BY <1>1, <1>2, EmptyCounted DEF EmptyPool
<1> QED
  BY <1>1, <1>3, <1>4, <1>5 DEF PoolInv, ContOK

LEMMA NextOK ==
  ASSUME OneUser, AlignedRequests, PoolInv, [Next]_vars
  PROVE  PoolInv' /\ Thrifty(pool, pool')
<1>1. CASE \E size \in Sizes, p \in Persistence, sid \in Streams, sync \in BOOLEAN :
             AllocTensorMem(size, p, sid, sync)
  BY <1>1, AllocStep
<1>2. CASE \E addr \in DOMAIN pool.addrs : addr # cont.addr /\ FreeTensorMem(addr)
  BY <1>2, FreeStep
<1>3. CASE \E sizes \in SizeLists, sid \in Streams, sync \in BOOLEAN : AllocContinuousBegin(sizes, sid, sync)
  BY <1>3, ContinuousBeginStep
<1>4. CASE AllocContinuousSplit
  BY <1>4, ContinuousSplitStep
<1>5. CASE \E addr \in DOMAIN pool.addrs :
             \E keep \in [addr : BytesOf(pool.bufs[pool.addrs[addr].buf]), size : Sizes \ {0}] :
               /\ keep.addr + keep.size <= addr + pool.bufs[pool.addrs[addr].buf].size
               /\ FreePartTensorMems({addr}, keep)
  BY <1>5, FreePartStep
<1>6. CASE \E addr \in DOMAIN pool.addrs, u \in UserStreams, t \in 1 .. MaxTask : RecordEvent(t, u, addr)
  BY <1>6, RecordStep
<1>7. CASE \/ \E t \in 1 .. MaxTask, u \in UserStreams, m \in Streams : WaitEvent(t, u, m)
           \/ \E t \in 1 .. MaxTask, m \in Streams : WaitEventAll(t, m)
  BY <1>7, WaitStep
<1>8. CASE SyncAllEvents
  BY <1>8, SyncStep
<1>9. CASE DefragMemory
  BY <1>9, DefragStep
<1>10. CASE ResetMaxMemReserved \/ ResetMaxMemAllocated
  BY <1>10, ResetStep
<1>11. CASE ReleaseDeviceRes
  BY <1>11, ReleaseStep
<1>12. CASE UNCHANGED vars
  BY <1>12 DEF vars, PoolInv, Thrifty
<1> QED
  BY <1>1, <1>2, <1>3, <1>4, <1>5, <1>6, <1>7, <1>8, <1>9, <1>10, <1>11, <1>12 DEF Next

-----------------------------------------------------------------------------
(* The theorems.                                                           *)

\* Whatever sequence of public operations went before, the pool is in order: the
\* inductive invariant from which the properties follow.
THEOREM PoolInvariant ==
  ASSUME OneUser, AlignedRequests
  PROVE  Spec => []PoolInv
<1>1. Init => PoolInv
  BY InitOK
<1>2. PoolInv /\ [Next]_vars => PoolInv'
  BY NextOK
<1> QED
  BY <1>1, <1>2, PTL DEF Spec

\* What the invariant says of the state of the pool.
LEMMA InvFacts ==
  ASSUME PoolInv
  PROVE  /\ Shape(pool.bufs, pool.blocks) /\ Merged(pool.bufs) /\ QuietFree(pool.bufs)
         /\ ListsExact(pool, {}) /\ AddrsExact(pool, {}) /\ Deferred(pool.bufs, {})
         /\ PairsExact(pool) /\ InUseHeld(pool) /\ Paged(pool)
BY DEF PoolInv, Good, Kept, Calm, Pooled, Waiting

\* The sizes of disjoint spans of memory add up to the number of their bytes.
LEMMA SumOfSpans ==
  ASSUME NEW S, IsFiniteSet(S), NEW sizes, NEW span, DOMAIN sizes = S,
         \A c \in S : span[c] \subseteq Bytes /\ Cardinality(span[c]) = sizes[c],
         \A b, c \in S : b # c => span[b] \cap span[c] = {}
  PROVE  SumFunction(sizes) = Cardinality(Spanned(span, S))
<1> DEFINE w == [tag |-> "count", sizes |-> sizes, span |-> span]
           Def(f) == [T \in SUBSET S |-> IF T = {} THEN 0
                        ELSE sizes[CHOOSE x \in T : TRUE] + f[T \ {CHOOSE x \in T : TRUE}]]
<1>1. PICK g : SumFunction(sizes) = g[S] /\ g = CHOOSE f : f = Def(f)
  BY DEF SumFunction, SumFunctionOnSet, FoldFunctionOnSet, MapThenFoldSet
<1>2. \A T : LastOf(w, T) = CHOOSE x \in T : TRUE
  BY DEF LastOf
<1>3. \A T \in SUBSET S : T # {} => LastOf(w, T) \in T
  BY <1>2
<1>4. \A acc, x : Step(w, acc, x) = sizes[x] + acc
  BY DEF Step
<1>5. \A f : Def(f) = [T \in SUBSET S |-> IF T = {} THEN 0 ELSE Step(w, f[T \ {LastOf(w, T)}], LastOf(w, T))]
  BY <1>2, <1>4
<1>6. \A f : IsFold(f, w, 0, S) <=> f = Def(f)
  <2> HIDE DEF Def, w
  <2> QED
    BY <1>5, Zenon DEF IsFold
<1>7. \E f : f = Def(f)
  <2>1. \E f : IsFold(f, w, 0, S)
    <3> HIDE DEF w
    <3> QED
      BY <1>3, FoldExists
  <2> HIDE DEF Def
  <2> QED
    BY <2>1, <1>6
<1> HIDE DEF Def
<1>8. IsFold(g, w, 0, S)
  BY <1>1, <1>6, <1>7
<1>9. \A acc, T : FoldGood(w, 0, S, acc, T) <=> acc = Cardinality(Spanned(span, T))
  BY DEF FoldGood
<1>10. FoldGood(w, 0, S, 0, {})
  <2>1. Spanned(span, {}) = {}
    BY DEF Spanned
  <2> QED
    BY <2>1, <1>9, FS_EmptySet
<1> HIDE DEF w
<1>11. ASSUME NEW T \in SUBSET S, NEW acc, T # {}, FoldGood(w, 0, S, acc, T \ {LastOf(w, T)})
       PROVE  FoldGood(w, 0, S, Step(w, acc, LastOf(w, T)), T)
  <2>1. PICK c \in T : c = LastOf(w, T)
    BY <1>3, <1>11
  <2>2. PICK A, B : A = span[c] /\ B = Spanned(span, T \ {c})
    OBVIOUS
  <2>3. A \subseteq Bytes /\ B \subseteq Bytes /\ Cardinality(A) = sizes[c]
    BY <2>2 DEF Spanned
  <2>4. A \cap B = {}
    BY <2>2 DEF Spanned
  <2>5. A \cup B = Spanned(span, T)
    BY <2>2, <2>3 DEF Spanned
  <2>6. Cardinality(A \cup B) = Cardinality(A) + Cardinality(B)
    BY <2>3, <2>4, BytesApart
  <2>7. acc = Cardinality(B)
    BY <2>1, <2>2, <1>9, <1>11
  <2>8. sizes[c] + acc = Cardinality(Spanned(span, T))
    BY <2>3, <2>5, <2>6, <2>7
  <2>9. Step(w, acc, LastOf(w, T)) = Cardinality(Spanned(span, T))
    BY <2>1, <2>8, <1>4, Zenon
  <2> QED
    BY <2>9, <1>9, Zenon
<1>12. FoldGood(w, 0, S, g[S], S)
  BY <1>3, <1>8, <1>10, <1>11, FoldInduction
<1> QED
  BY <1>1, <1>9, <1>12

\* The sizes of a set of buffers.
LEMMA BufSizes ==
  ASSUME PoolInv, NEW S, S \subseteq Live
  PROVE  SizeOf(S) = Cardinality({x \in Bytes : \E b \in S : x \in Span(pool.bufs[b])})
<1>1. PICK sizes, span : sizes = [b \in S |-> pool.bufs[b].size] /\ span = [b \in S |-> Span(pool.bufs[b])]
  OBVIOUS
<1>2. Shape(pool.bufs, pool.blocks) /\ Pooled(pool)
  BY DEF PoolInv, Good, Kept, Calm, Pooled
<1>3. IsFiniteSet(S)
  BY <1>2, BufsFinite DEF Live
<1>4. \A b \in S : b \in DOMAIN pool.bufs
  BY DEF Live
<1>5. \A b \in S : span[b] \subseteq Bytes /\ Cardinality(span[b]) = sizes[b]
  BY <1>1, <1>2, <1>4, SpanCount
<1>6. ASSUME NEW b \in S, NEW c \in S, b # c PROVE span[b] \cap span[c] = {}
  BY <1>1, <1>2, <1>4, <1>6, SpansApart
<1>7. DOMAIN sizes = S
  BY <1>1
<1>8. SumFunction(sizes) = Cardinality(Spanned(span, S))
  BY <1>3, <1>5, <1>6, <1>7, SumOfSpans
<1>9. Spanned(span, S) = {x \in Bytes : \E b \in S : x \in Span(pool.bufs[b])}
  BY <1>1 DEF Spanned
<1> QED
  BY <1>1, <1>8, <1>9 DEF SizeOf

\* The sizes of the blocks.
LEMMA BlockSizes ==
  ASSUME PoolInv
  PROVE  AllocatedMem(pool) = Cardinality(BlockBytes(pool.blocks))
<1>1. PICK bufs, blocks : bufs = pool.bufs /\ blocks = pool.blocks
  OBVIOUS
<1>2. Shape(bufs, blocks)
  BY <1>1, InvFacts
<1> DEFINE S == DOMAIN blocks
<1>3. PICK sizes, span : /\ sizes = [c \in S |-> blocks[c].size]
                         /\ span = [c \in S |-> {x \in Bytes : c <= x /\ x < c + blocks[c].size}]
  OBVIOUS
<1>4. \A c \in S : /\ c \in Bytes /\ c \in Nat /\ blocks[c].size \in Nat \ {0}
                   /\ c + blocks[c].size - 1 \in Bytes
  BY <1>2, BytesFinite DEF Shape, BlocksOK, BlockOK
<1>5. IsFiniteSet(S)
  BY <1>4, BytesFinite, FS_Subset
<1>6. \A c \in S : span[c] \subseteq Bytes /\ Cardinality(span[c]) = sizes[c]
  BY <1>3, <1>4, RangeCount
<1>7. ASSUME NEW c \in S, NEW d \in S, NEW x \in Bytes, x \in span[c], x \in span[d] PROVE c = d
  <2>1. x \in Nat /\ c <= x /\ x < c + blocks[c].size /\ d <= x /\ x < d + blocks[d].size
    BY <1>3, <1>7, BytesFinite
  <2>2. x \in c .. c + blocks[c].size - 1 /\ x \in d .. d + blocks[d].size - 1
    BY <2>1, <1>4
  <2>3. PICK b \in DOMAIN bufs : bufs[b].mem_block = c /\ bufs[b].addr <= x /\ x < End(bufs[b])
    BY <2>2, <1>2 DEF Shape, BytesExact
  <2>4. PICK e \in DOMAIN bufs : bufs[e].mem_block = d /\ bufs[e].addr <= x /\ x < End(bufs[e])
    BY <2>2, <1>2 DEF Shape, BytesExact
  <2>5. x \in Span(bufs[b]) /\ x \in Span(bufs[e])
    BY <2>3, <2>4 DEF Span
  <2>6. b = e
    BY <2>5, <1>2, SpansApart
  <2> QED
    BY <2>3, <2>4, <2>6
<1>8. \A c, d \in S : c # d => span[c] \cap span[d] = {}
  BY <1>6, <1>7
<1>9. DOMAIN sizes = S
  BY <1>3
<1> HIDE DEF S
<1>10. SumFunction(sizes) = Cardinality(Spanned(span, S))
  BY <1>5, <1>6, <1>8, <1>9, SumOfSpans
<1>11. Spanned(span, S) = BlockBytes(blocks)
  BY <1>3 DEF S, Spanned, BlockBytes
<1> QED
  BY <1>1, <1>3, <1>10, <1>11 DEF S, AllocatedMem

\* Free and FreeIdleMemsByEagerFree merge completely: no two neighbours are both idle
\* or both eager-free.
THEOREM MergingComplete ==
  ASSUME OneUser, AlignedRequests
  PROVE  Spec => []NoAdjacentFree
<1>1. PoolInv => NoAdjacentFree
  BY InvFacts DEF NoAdjacentFree, Live, Merged, Apart
<1> QED
  BY <1>1, PoolInvariant, PTL

\* The address index and the free lists tell exactly which buffers are in use and
\* which are free, and whose they are.
THEOREM IndexesStayExact ==
  ASSUME OneUser, AlignedRequests
  PROVE  Spec => []IndexesExact
<1>1. ASSUME PoolInv PROVE IndexesExact
  <2>1. AddrsExact(pool, {}) /\ ListsExact(pool, {})
    BY <1>1, InvFacts
  <2>2. \A b : b \in Live \ WithStatus(FreeStatus) <=> b \in DOMAIN pool.bufs \ {} /\ pool.bufs[b].status \notin FreeStatus
    BY DEF Live, WithStatus
  <2>3. ASSUME NEW addr \in DOMAIN pool.addrs
        PROVE  /\ pool.addrs[addr].buf \in Live \ WithStatus(FreeStatus)
               /\ pool.bufs[pool.addrs[addr].buf].addr = addr
               /\ pool.blocks[pool.bufs[pool.addrs[addr].buf].mem_block].owner = pool.addrs[addr].alloc
    BY <2>1, <2>2 DEF AddrsExact, Owner
  <2>4. ASSUME NEW b \in Live \ WithStatus(FreeStatus) PROVE pool.bufs[b].addr \in DOMAIN pool.addrs
    BY <2>1, <2>2 DEF AddrsExact
  <2>5. DOMAIN pool.addrs = {pool.bufs[b].addr : b \in Live \ WithStatus(FreeStatus)}
    BY <2>3, <2>4
  <2>6. ASSUME NEW a \in Allocators, NEW st \in FreeStatus
        PROVE  pool.lists[a][st] = {b \in WithStatus({st}) : pool.blocks[pool.bufs[b].mem_block].owner = a}
    <3>1. pool.lists[a][st] = Listed(pool, DOMAIN pool.bufs \ {}, a, st)
      BY <2>1 DEF ListsExact
    <3> QED
      BY <3>1 DEF Listed, Owner, WithStatus, Live
  <2> QED
    BY <2>3, <2>5, <2>6 DEF IndexesExact
<1> QED
  BY <1>1, PoolInvariant, PTL

\* The buffers of a block are disjoint, cover it and are chained in address order, after
\* any sequence of splits and merges.
THEOREM BlocksStayComposed ==
  ASSUME OneUser, AlignedRequests
  PROVE  Spec => []BlockComposedOfBufs
<1>1. ASSUME PoolInv PROVE BlockComposedOfBufs
  <2>1. Shape(pool.bufs, pool.blocks)
    BY <1>1, InvFacts
  <2>2. PICK bufs, blocks : bufs = pool.bufs /\ blocks = pool.blocks
    OBVIOUS
  <2>3. Shape(bufs, blocks) /\ Live = DOMAIN bufs
    BY <2>1, <2>2 DEF Live
  <2>4. \A b \in DOMAIN bufs : /\ bufs[b].addr \in Nat /\ bufs[b].size \in Nat /\ bufs[b].size > 0
                               /\ End(bufs[b]) = bufs[b].addr + bufs[b].size
                               /\ bufs[b].mem_block \in Nat /\ bufs[b].mem_block <= bufs[b].addr
                               /\ bufs[b].mem_block \in DOMAIN blocks
                               /\ End(bufs[b]) <= bufs[b].mem_block + blocks[bufs[b].mem_block].size
    BY <2>3, ShapeFacts
  <2>5. \A base \in DOMAIN blocks : base \in Nat /\ blocks[base].size \in Nat
    BY <2>3, BytesFinite DEF Shape, BlocksOK, BlockOK
  <2>6. ASSUME NEW base \in DOMAIN blocks, NEW in, in = {b \in DOMAIN bufs : bufs[b].mem_block = base}
        PROVE  /\ UNION {BytesOf(bufs[b]) : b \in in} = base .. base + blocks[base].size - 1
               /\ \A b, c \in in : b # c => BytesOf(bufs[b]) \cap BytesOf(bufs[c]) = {}
    <3>1. ASSUME NEW x, NEW b \in in, x \in BytesOf(bufs[b]) PROVE x \in base .. base + blocks[base].size - 1
      <4>1. b \in DOMAIN bufs /\ bufs[b].mem_block = base
        BY <2>6
      <4> QED
        BY <4>1, <3>1, <2>4, <2>5 DEF BytesOf
    <3>2. ASSUME NEW x \in base .. base + blocks[base].size - 1 PROVE \E b \in in : x \in BytesOf(bufs[b])
      <4>1. PICK b \in DOMAIN bufs : bufs[b].mem_block = base /\ bufs[b].addr <= x /\ x < End(bufs[b])
        BY <2>3 DEF Shape, BytesExact
      <4>2. b \in in /\ x \in Int
        BY <4>1, <2>5, <2>6
      <4>3. x \in BytesOf(bufs[b])
        BY <4>1, <4>2, <2>4 DEF BytesOf
      <4> QED
        BY <4>2, <4>3
    <3>3. ASSUME NEW b \in in, NEW c \in in, b # c PROVE BytesOf(bufs[b]) \cap BytesOf(bufs[c]) = {}
      <4>1. b \in DOMAIN bufs /\ c \in DOMAIN bufs
        BY <2>6
      <4>2. End(bufs[b]) <= bufs[c].addr \/ End(bufs[c]) <= bufs[b].addr
        BY <4>1, <3>3, <2>3 DEF Shape, BytesExact
      <4> QED
        BY <4>1, <4>2, <2>4 DEF BytesOf
    <3> QED
      BY <3>1, <3>2, <3>3
  <2>7. ASSUME NEW b \in DOMAIN bufs
        PROVE  IF bufs[b].next = NoBuf
               THEN bufs[b].addr + bufs[b].size = bufs[b].mem_block + blocks[bufs[b].mem_block].size
               ELSE /\ bufs[bufs[b].next].addr = bufs[b].addr + bufs[b].size
                    /\ bufs[bufs[b].next].prev = b
                    /\ bufs[bufs[b].next].mem_block = bufs[b].mem_block
    <3>1. /\ bufs[b].next = NoBuf => End(bufs[b]) = bufs[b].mem_block + blocks[bufs[b].mem_block].size
          /\ bufs[b].next # NoBuf => /\ bufs[bufs[b].next].addr = End(bufs[b])
                                     /\ bufs[bufs[b].next].prev = b
                                     /\ bufs[bufs[b].next].mem_block = bufs[b].mem_block
      BY <2>3 DEF Shape, LinksExact
    <3> QED
      BY <3>1 DEF End
  <2>8. ASSUME NEW base \in DOMAIN pool.blocks
        PROVE  LET in == {b \in Live : pool.bufs[b].mem_block = base}
               IN  /\ UNION {BytesOf(pool.bufs[b]) : b \in in} = base .. base + pool.blocks[base].size - 1
                   /\ \A b, c \in in : b # c => BytesOf(pool.bufs[b]) \cap BytesOf(pool.bufs[c]) = {}
    <3>1. PICK in : in = {b \in DOMAIN bufs : bufs[b].mem_block = base}
      OBVIOUS
    <3>2. base \in DOMAIN blocks /\ in = {b \in Live : pool.bufs[b].mem_block = base}
      BY <3>1, <2>2, <2>3
    <3>3. /\ UNION {BytesOf(bufs[b]) : b \in in} = base .. base + blocks[base].size - 1
          /\ \A b, c \in in : b # c => BytesOf(bufs[b]) \cap BytesOf(bufs[c]) = {}
      BY <3>1, <3>2, <2>6
    <3>4. /\ UNION {BytesOf(pool.bufs[b]) : b \in in} = base .. base + pool.blocks[base].size - 1
          /\ \A b, c \in in : b # c => BytesOf(pool.bufs[b]) \cap BytesOf(pool.bufs[c]) = {}
      BY <3>3, <2>2
    <3> QED
      BY <3>2, <3>4
  <2>9. ASSUME NEW b \in Live
        PROVE  IF pool.bufs[b].next = NoBuf
               THEN pool.bufs[b].addr + pool.bufs[b].size
                      = pool.bufs[b].mem_block + pool.blocks[pool.bufs[b].mem_block].size
               ELSE /\ pool.bufs[pool.bufs[b].next].addr = pool.bufs[b].addr + pool.bufs[b].size
                    /\ pool.bufs[pool.bufs[b].next].prev = b
                    /\ pool.bufs[pool.bufs[b].next].mem_block = pool.bufs[b].mem_block
    BY <2>2, <2>3, <2>7
  <2> QED
    BY <2>8, <2>9 DEF BlockComposedOfBufs
<1> QED
  BY <1>1, PoolInvariant, PTL

\* A buffer given back while its events were pending has such an event, and
\* stream_pair_mem_bufs_ leads WaitEvent to it.
THEOREM DeferredStayReachable ==
  ASSUME OneUser, AlignedRequests
  PROVE  Spec => []DeferredFreeReachable
<1>1. ASSUME PoolInv PROVE DeferredFreeReachable
  <2> SUFFICES ASSUME NEW b \in DOMAIN pool.bufs, pool.bufs[b].status = "UsedByEvent"
               PROVE  \E u \in UserStreams : /\ pool.bufs[b].events[u] # <<>>
                                             /\ b \in pool.pairs[<<u, pool.bufs[b].stream_id>>]
    BY DEF DeferredFreeReachable, WithStatus, Live
  <2>1. Shape(pool.bufs, pool.blocks) /\ Deferred(pool.bufs, {}) /\ PairsExact(pool)
    BY <1>1, InvFacts
  <2>2. pool.bufs[b].events # NoEvents
    BY <2>1 DEF Deferred
  <2>3. pool.bufs[b] \in BufType
    BY <2>1, ShapeFacts
  <2>4. pool.bufs[b].events \in [UserStreams -> Seq(Nat)] /\ pool.bufs[b].stream_id \in Streams
    BY <2>3 DEF BufType
  <2>5. PICK u \in UserStreams : pool.bufs[b].events[u] # <<>>
    BY <2>2, <2>4 DEF NoEvents
  <2>6. b \in pool.pairs[<<u, pool.bufs[b].stream_id>>]
    BY <2>1, <2>4, <2>5 DEF PairsExact
  <2> QED
    BY <2>5, <2>6
<1> QED
  BY <1>1, PoolInvariant, PTL

\* While the event of a device task is recorded, and neither waited for nor dropped by
\* SyncAllEvents or ReleaseDeviceRes, the memory it uses is in a buffer that is not free:
\* provided FreePartTensorMems is not called on a buffer with events, which the code does
\* not prevent.
THEOREM EventsProtectMemory ==
  ASSUME OneUser, AlignedRequests, ~ FreePartWithEvents
  PROVE  Spec => []EventsProtect
<1>1. ASSUME PoolInv PROVE EventsProtect
  <2> SUFFICES ASSUME NEW x \in pool.inuse
               PROVE  \E b \in Live \ WithStatus(FreeStatus) : x.byte \in BytesOf(pool.bufs[b])
    BY DEF EventsProtect, Occupied
  <2>1. InUseHeld(pool) /\ QuietFree(pool.bufs)
    BY <1>1, InvFacts
  <2>2. x.user \in UserStreams /\ Held(pool.bufs, x)
    BY <2>1 DEF InUseHeld
  <2>3. PICK b \in DOMAIN pool.bufs : /\ x.byte \in BytesOf(pool.bufs[b])
                                      /\ \E i \in 1 .. Len(pool.bufs[b].events[x.user]) : TRUE
    BY <2>2 DEF Held
  <2>4. pool.bufs[b].status \notin FreeStatus
    <3>1. SUFFICES ASSUME pool.bufs[b].events = NoEvents PROVE FALSE
      BY <2>1 DEF QuietFree
    <3>2. pool.bufs[b].events[x.user] = <<>>
      BY <3>1, <2>2 DEF NoEvents
    <3>3. 1 .. Len(<<>>) = {}
      OBVIOUS
    <3> QED
      BY <3>2, <3>3, <2>3
  <2> QED
    BY <2>3, <2>4 DEF Live, WithStatus
<1> QED
  BY <1>1, PoolInvariant, PTL

\* Memory that is in use or idle is backed by physical pages, also where it shares a page
\* with eager-free memory, and null is never handed out.
THEOREM MemoryStaysBacked ==
  ASSUME OneUser, AlignedRequests
  PROVE  Spec => []Backed
<1>1. ASSUME PoolInv PROVE Backed
  <2>1. Shape(pool.bufs, pool.blocks) /\ Paged(pool) /\ AddrsExact(pool, {})
    BY <1>1, InvFacts
  <2>2. ASSUME EnableVmm, NEW b \in Live \ WithStatus({"EagerFree"}), NEW x \in BytesOf(pool.bufs[b])
        PROVE  PageOf(x) \in MappedPages(pool.vmm)
    <3>1. PICK s : s = pool
      OBVIOUS
    <3>2. b \in DOMAIN s.bufs /\ s.bufs[b].status # "EagerFree"
      BY <3>1 DEF Live, WithStatus
    <3>3. PageOf(x) \in MappedPages(s.vmm)
      BY <3>1, <3>2, <2>1, <2>2, BackedByte
    <3> QED
      BY <3>1, <3>3
  <2>3. 0 \notin DOMAIN pool.addrs
    <3>1. SUFFICES ASSUME 0 \in DOMAIN pool.addrs PROVE FALSE
      OBVIOUS
    <3>2. PICK b \in DOMAIN pool.bufs : pool.bufs[b].addr = 0 /\ pool.bufs[b].status \notin FreeStatus
      BY <3>1, <2>1 DEF AddrsExact
    <3>3. pool.bufs[b].status # "EagerFree"
      BY <3>2 DEF FreeStatus
    <3>4. 0 < pool.bufs[b].addr
      BY <3>3, <2>1, NotNull
    <3> QED
      BY <3>2, <3>4
  <2> QED
    BY <2>2, <2>3 DEF Backed
<1> QED
  BY <1>1, PoolInvariant, PTL

\* Every physical handle is on one page or in the cache, and a page of a block has one
\* only for memory that is not eager-free: a mapping that fails half way gives back all it
\* took.
THEOREM HandlesStayExact ==
  ASSUME OneUser, AlignedRequests
  PROVE  Spec => []HandlesExact
<1>1. ASSUME PoolInv PROVE HandlesExact
  <2>1. PICK s : s = pool
    OBVIOUS
  <2>2. Shape(s.bufs, s.blocks) /\ Paged(s)
    BY <1>1, <2>1, InvFacts
  <2>3. HandlesOf(s.vmm)
    BY <2>2 DEF Paged, AdapterOK
  <2>4. ASSUME EnableVmm, NEW base \in DOMAIN s.blocks, NEW x \in base .. base + s.blocks[base].size - 1,
               PageOf(x) \in MappedPages(s.vmm)
        PROVE  \E b \in DOMAIN s.bufs : /\ s.bufs[b].status # "EagerFree"
                                        /\ \E y \in BytesOf(s.bufs[b]) : PageOf(y) = PageOf(x)
    <3>1. base \in Nat /\ s.blocks[base].size \in Nat
      BY <2>2, BytesFinite DEF Shape, BlocksOK, BlockOK
    <3>2. x \in Nat /\ base <= x /\ x < base + s.blocks[base].size
      BY <3>1
    <3>3. PICK p \in Nat : p = PageOf(x)
      BY <3>2, PageFacts
    <3>4. ~ (PageBytes(p) \subseteq EagerBytes(s.bufs)) /\ PageBytes(p) \subseteq base .. base + s.blocks[base].size - 1
      BY <3>1, <3>2, <3>3, <2>2, <2>4, PageOfByte
    <3>5. PICK y \in PageBytes(p) : y \notin EagerBytes(s.bufs)
      BY <3>4
    <3>6. PICK b \in DOMAIN s.bufs : s.bufs[b].addr <= y /\ y < End(s.bufs[b])
      BY <3>4, <3>5, <2>2 DEF Shape, BytesExact
    <3>7. y \in Nat /\ PageOf(y) = p
      BY PageUnique
    <3>8. s.bufs[b].addr \in Nat /\ s.bufs[b].size \in Nat /\ End(s.bufs[b]) = s.bufs[b].addr + s.bufs[b].size
      BY <2>2, ShapeFacts
    <3>9. y \in BytesOf(s.bufs[b]) /\ y \in s.bufs[b].addr .. End(s.bufs[b]) - 1
      BY <3>6, <3>7, <3>8 DEF BytesOf
    <3>10. y \in Bytes
      BY <3>9, <2>2, AddrInBytes
    <3>11. s.bufs[b].status # "EagerFree"
      BY <3>5, <3>6, <3>10 DEF EagerBytes
    <3> QED
      BY <3>3, <3>7, <3>9, <3>11
  <2>5. \A b : b \in Live \ WithStatus({"EagerFree"}) <=> b \in DOMAIN s.bufs /\ s.bufs[b].status # "EagerFree"
    BY <2>1 DEF Live, WithStatus
  <2> QED
    BY <2>1, <2>3, <2>4, <2>5 DEF HandlesExact
<1> QED
  BY <1>1, PoolInvariant, PTL

\* AllocMemBuf takes a block from the device for an allocator only when none of the
\* allocator's idle buffers is as large as what the request gets, whichever of its
\* attempts (own list, common list, eager free, synchronising) succeeds in the end.
THEOREM ExpandsOnlyWhenNeeded ==
  ASSUME OneUser, AlignedRequests
  PROVE  Spec => ExpandOnlyWhenNeeded
<1>1. PoolInv /\ [Next]_vars => [Thrifty(pool, pool')]_vars
  BY NextOK
<1>2. [Thrifty(pool, pool')]_vars =>
        [\A base \in DOMAIN pool'.blocks \ DOMAIN pool.blocks :
           \A b \in pool.lists[pool'.blocks[base].owner]["Idle"] :
             \A addr \in DOMAIN pool'.addrs \ DOMAIN pool.addrs :
               pool.bufs[b].size < pool'.bufs[pool'.addrs[addr].buf].size]_vars
  BY DEF Thrifty
<1> QED
  BY <1>1, <1>2, PoolInvariant, PTL DEF Spec, ExpandOnlyWhenNeeded

\* The statistics are what the buffers in use and the blocks add up to, the recorded
\* peaks are never below what is in use, and the border of a block covers every buffer
\* handed out of it, after any sequence of splits, merges and resets.
THEOREM SizesStayExact ==
  ASSUME OneUser, AlignedRequests
  PROVE  Spec => []SizesExact
<1>1. ASSUME PoolInv PROVE SizesExact
  <2>1. PICK S : S = Live \ WithStatus(FreeStatus)
    OBVIOUS
  <2>2. \A b : b \in S <=> b \in DOMAIN pool.bufs /\ pool.bufs[b].status \notin FreeStatus
    BY <2>1 DEF Live, WithStatus
  <2>3. AddrsExact(pool, {}) /\ Counted(pool) /\ Shape(pool.bufs, pool.blocks)
    BY <1>1, InvFacts DEF PoolInv
  <2>4. UsedBytes(pool) = {x \in Bytes : \E b \in S : x \in Span(pool.bufs[b])}
    <3>1. \A addr \in DOMAIN pool.addrs : pool.addrs[addr].buf \in S
      BY <2>2, <2>3 DEF AddrsExact
    <3>2. \A b \in S : \E addr \in DOMAIN pool.addrs : pool.addrs[addr].buf = b
      BY <2>2, <2>3 DEF AddrsExact
    <3> QED
      BY <3>1, <3>2 DEF UsedBytes
  <2>5. pool.stat.used_size = SizeOf(S)
    <3>1. S \subseteq Live
      BY <2>1
    <3>2. SizeOf(S) = Cardinality({x \in Bytes : \E b \in S : x \in Span(pool.bufs[b])})
      BY <3>1, <1>1, BufSizes
    <3>3. pool.stat.used_size = Cardinality(UsedBytes(pool))
      BY <2>3 DEF Counted, CountedRest, EagerExact
    <3> QED
      BY <3>2, <3>3, <2>4
  <2>6. pool.stat.alloc_size = AllocatedMem(pool)
    BY <1>1, <2>3, BlockSizes DEF Counted, CountedRest, EagerExact
  <2>7. /\ pool.stat.peak_size >= pool.stat.used_size
        /\ pool.stat.temp_peak_size >= pool.stat.used_size - pool.stat.temp_used_size
    BY <2>3 DEF Counted, CountedRest, EagerExact, Peaked
  <2>8. ASSUME NEW b \in S
        PROVE  LET blk == pool.blocks[pool.bufs[b].mem_block]
               IN  blk.min <= pool.bufs[b].addr /\ pool.bufs[b].addr + pool.bufs[b].size <= blk.max
    BY <2>2, <2>3 DEF Counted, CountedRest, EagerExact, Bordered, End
  <2> QED
    BY <2>1, <2>5, <2>6, <2>7, <2>8 DEF SizesExact
<1> QED
  BY <1>1, PoolInvariant, PTL

\* used_by_event_size_ is never below the memory that events refer to, and
\* eager_free_size_ is the eager-free memory less the mappings that have failed, as an
\* unsigned number.
THEOREM CountersDriftSo ==
  ASSUME OneUser, AlignedRequests
  PROVE  Spec => []CountersDrift
<1>1. ASSUME PoolInv PROVE CountersDrift
  <2>1. Counted(pool) /\ Shape(pool.bufs, pool.blocks)
    BY <1>1, InvFacts DEF PoolInv
  <2>2. PICK S, E : S = {b \in Live : ~ IsEventNotUsed(pool.bufs[b])} /\ E = WithStatus({"EagerFree"})
    OBVIOUS
  <2>3. S \subseteq Live /\ E \subseteq Live
    BY <2>2 DEF WithStatus
  <2>4. EventBytes(pool.bufs) = {x \in Bytes : \E b \in S : x \in Span(pool.bufs[b])}
    <3>1. ASSUME NEW b \in DOMAIN pool.bufs
          PROVE  pool.bufs[b].events # NoEvents <=> ~ IsEventNotUsed(pool.bufs[b])
      <4>1. pool.bufs[b] \in BufType
        BY <2>1, ShapeFacts
      <4>2. pool.bufs[b].events \in [UserStreams -> Seq(Nat)]
        BY <4>1 DEF BufType
      <4> QED
        BY <4>2 DEF NoEvents, IsEventNotUsed
    <3> QED
      BY <3>1, <2>2 DEF EventBytes, Live
  <2>5. EagerBytes(pool.bufs) = {x \in Bytes : \E b \in E : x \in Span(pool.bufs[b])}
    BY <2>2 DEF EagerBytes, Span, WithStatus, Live
  <2>6. SizeOf(S) = Cardinality(EventBytes(pool.bufs)) /\ SizeOf(E) = Cardinality(EagerBytes(pool.bufs))
    BY <1>1, <2>3, <2>4, <2>5, BufSizes
  <2>7. /\ pool.stat.used_by_event_size >= Cardinality(EventBytes(pool.bufs))
        /\ pool.stat.eager_free_size = (Cardinality(EagerBytes(pool.bufs)) - pool.stat.eager_drift) % SizeT
    BY <2>1 DEF Counted, CountedRest, EagerExact, Wrapped
  <2> QED
    BY <2>2, <2>6, <2>7 DEF CountersDrift
<1> QED
  BY <1>1, PoolInvariant, PTL
=============================================================================
