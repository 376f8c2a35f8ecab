-------------------------- MODULE FusedEngineProofs --------------------------
(***************************************************************************)
(* Proofs about FusedEngine, for every set of calls, every backend the     *)
(* assumptions admit and every width of the counter, in four parts.        *)
(*                                                                         *)
(* Inv is what the cursors, the cache count and the counter are at each    *)
(* stage of a call.  It rests on what the cache counts of PolyCache keep:  *)
(* their range, the window boundary, and never more blocks than the stream *)
(* has.  Contents adds what the buffer and the MAC's stream hold.  From    *)
(* both follow the refinement of InPlaceAead, and a bound on the steps.    *)
(***************************************************************************)
EXTENDS FusedEngine, SequenceTheorems, TLAPS

Stages == {"start", "bulk", "medium", "weave", "drain", "tail", "finish", "done"}

\* The stages of process() between its prologue and its epilogue.
Inside == {"bulk", "medium", "weave", "drain", "tail"}

MacBlock == [blk: {"aad", "msg", "len", "none"}, at: Int, content: Int]

Types ==
    /\ call \in Calls
    /\ pc \in Stages
    /\ off \in Nat /\ off <= Units
    /\ poly_off \in Nat /\ poly_off <= Units
    /\ ctr \in 0..(CtrMod - 1)
    /\ msg \in [0..(Units - 1) -> Int]
    /\ mac \in Seq(MacBlock)
    /\ partial \in MacBlock
    /\ cached \in 0..CacheSize
    /\ cached <= Len(mac)

\* Nothing has happened before the first step.
AtStart == pc = "start" => mac = << >> /\ off = 0 /\ poly_off = 0 /\ ctr = 0 /\ partial = None

\* Both cursors lie within the whole units while work is left, the keystream
\* cursor on a block boundary with its counter, the MAC on a window boundary.
Aligned ==
    pc \in Inside =>
        /\ off % 4 = 0 \/ (off = Units /\ pc \in {"drain", "tail"})
        /\ off <= Full \/ pc \in {"drain", "tail"}
        /\ poly_off <= Full
        /\ ctr = Wrap(1 + Blocks(off))
        /\ cached % 4 = 0
        /\ partial = None

\* What the bulk loop leaves a fused sealing kernel, which handles less than
\* 512 bytes at the end.
MediumLeft ==
    /\ pc = "weave" => Ops.fused_medium
    /\ Seal /\ Ops.fused_medium =>
         /\ pc = "medium" => Full - off < 64
         /\ pc = "weave" => Full - off < 32

\* The tail has taken both cursors to the end.
AtEnd == pc \in {"finish", "done"} => off = Units /\ poly_off = Units

Inv ==
    /\ Types
    /\ AtStart
    /\ Aligned
    /\ CursorOrder
    /\ MediumLeft
    /\ AtEnd
    /\ ContractsKept

-----------------------------------------------------------------------------
(* The cache counts of PolyCache.                                           *)

\* update never reports more blocks than the cache holds, nor more than the
\* stream has (poly1305/mod.rs, update; pending_blocks "0..=8").
LEMMA UpdateBounds ==
    ASSUME NEW kind \in PolyKinds, NEW c \in 0..CacheSize, NEW n \in Nat
    PROVE  /\ AfterUpdate(kind, c, n) \in 0..CacheSize
           /\ AfterUpdate(kind, c, n) <= c + n
    BY DEF AfterUpdate, PolyKinds, CacheSize

\* A window boundary is at most three blocks away.
LEMMA AlignGapRange ==
    ASSUME NEW m \in Nat
    PROVE  AlignGap(m) \in 0..3
    BY DEF AlignGap

\* The prologue's update of AlignGap blocks puts the stream on a window
\* boundary, whatever the AAD has left in the cache (aead.rs, "brings the poly
\* stream to a 64-byte boundary").
THEOREM AlignGapAligns ==
    ASSUME NEW kind \in PolyKinds, NEW c \in 0..CacheSize, kind = "soft" => c = 0
    PROVE  AfterUpdate(kind, c, AlignGap(c)) % 4 = 0
    <1>1. CASE kind = "soft"
        BY <1>1 DEF AfterUpdate
    <1>2. CASE kind # "soft"
        <2>1. c \in {0, 1, 2, 3, 4, 5, 6, 7, 8}
            BY DEF CacheSize
        <2>2. QED
            BY <1>2, <2>1 DEF AfterUpdate, AlignGap, CacheSize
    <1>3. QED
        BY <1>1, <1>2

\* absorb_blocks keeps the window boundary it is called on.
LEMMA AbsorbBlocksBounds ==
    ASSUME NEW kind \in PolyKinds, NEW c \in 0..CacheSize, NEW w \in Nat, c % 4 = 0
    PROVE  /\ AfterAbsorbBlocks(kind, c, w) \in 0..CacheSize
           /\ AfterAbsorbBlocks(kind, c, w) % 4 = 0
           /\ AfterAbsorbBlocks(kind, c, w) <= c + 4 * w
    <1>1. CASE kind = "pair"
        <2>1. c = 0 \/ c = 4 \/ c = 8
            BY DEF CacheSize
        <2>2. QED
            BY <1>1, <2>1 DEF AfterAbsorbBlocks, CacheSize
    <1>2. CASE kind # "pair"
        BY <1>2 DEF AfterAbsorbBlocks, CacheSize
    <1>3. QED
        BY <1>1, <1>2

\* The same of absorb4, once or in a row.
LEMMA Absorb4Bounds ==
    ASSUME NEW kind \in PolyKinds, NEW c \in 0..CacheSize, NEW w \in Nat, c % 4 = 0
    PROVE  /\ AfterAbsorb4(kind, c) \in {0, 4}
           /\ AfterAbsorb4s(kind, c, w) \in 0..CacheSize
           /\ AfterAbsorb4s(kind, c, w) % 4 = 0
           /\ AfterAbsorb4s(kind, c, w) <= c + 4 * w
    <1>1. AfterAbsorb4(kind, c) \in {0, 4}
        BY DEF AfterAbsorb4
    <1>2. CASE w = 0
        BY <1>1, <1>2 DEF AfterAbsorb4s, CacheSize
    <1>3. CASE w # 0
        BY <1>1, <1>3, AbsorbBlocksBounds DEF AfterAbsorb4s
    <1>4. QED
        BY <1>2, <1>3

\* update_tail stays within the cache and the stream.
LEMMA UpdateTailBounds ==
    ASSUME NEW kind \in PolyKinds, NEW c \in 0..CacheSize, NEW n \in Nat, c % 4 = 0
    PROVE  /\ AfterUpdateTail(kind, c, n) \in 0..CacheSize
           /\ AfterUpdateTail(kind, c, n) <= c + n
    <1> DEFINE w == n \div 4
               d == AfterAbsorb4s(kind, c, w)
    <1>1. w \in Nat /\ n % 4 \in Nat /\ n = 4 * w + (n % 4)
        OBVIOUS
    <1>2. d \in 0..CacheSize /\ d <= c + 4 * w
        BY <1>1, Absorb4Bounds
    <1>3. /\ AfterUpdate(kind, d, n % 4) \in 0..CacheSize
          /\ AfterUpdate(kind, d, n % 4) <= d + (n % 4)
        BY <1>1, <1>2, UpdateBounds
    <1>4. AfterUpdateTail(kind, c, n) = AfterUpdate(kind, d, n % 4)
        BY DEF AfterUpdateTail
    <1> HIDE DEF d, w
    <1>5. QED
        BY <1>1, <1>2, <1>3, <1>4 DEF CacheSize

-----------------------------------------------------------------------------
(* Arithmetic.                                                              *)

\* Multiples of 4 add up.
LEMMA Mod4Sum ==
    ASSUME NEW a \in Nat, NEW b \in Nat, a % 4 = 0, b % 4 = 0
    PROVE  (a + b) % 4 = 0
    OBVIOUS

\* Rounding down to windows and to pairs of windows.
LEMMA FloorFacts ==
    ASSUME NEW n \in Nat
    PROVE  /\ Floor4(n) \in Nat /\ Floor4(n) <= n /\ n - Floor4(n) < 4 /\ Floor4(n) % 4 = 0
           /\ Floor8(n) \in Nat /\ Floor8(n) <= n /\ Floor8(n) % 8 = 0 /\ Floor8(n) % 4 = 0
    BY DEF Floor4, Floor8

\* The whole units below a position.
LEMMA WholeFacts ==
    ASSUME NEW p \in Nat, Full \in Nat
    PROVE  /\ Whole(p) \in Nat /\ Whole(p) <= p /\ Whole(p) <= Full
           /\ \A q \in Nat : q <= p /\ q <= Full => q <= Whole(p)
    BY DEF Whole

-----------------------------------------------------------------------------
(* The constants of a call.                                                 *)

\* The lengths of a call.
LEMMA CallFacts ==
    ASSUME call \in Calls
    PROVE  /\ Seal \in BOOLEAN
           /\ call.aad \in Nat
           /\ call.part \in BOOLEAN
           /\ Full \in Nat
           /\ Units \in Nat
           /\ Full <= Units
           /\ Units <= Full + 1
           /\ call.part <=> Units # Full
           /\ Units <= 4 * (CtrMod - 1)
           /\ CtrMod \in Nat /\ CtrMod > 16
    BY CallsAssumption, CtrModAssumption DEF CallRecord, Seal, Full, Units, MaxLen

\* The backend of a call.
LEMMA OpsFacts ==
    ASSUME call \in Calls
    PROVE  /\ Batch \in Nat /\ Batch >= 4 /\ Batch % 4 = 0
           /\ Ops.poly \in PolyKinds
           /\ Ops.fused_seal \in BOOLEAN
           /\ Ops.fused_open \in BOOLEAN
           /\ Ops.fused_medium \in BOOLEAN
           /\ Ops.fused_seal \/ Ops.fused_open \/ Ops.fused_medium =>
                  Ops.poly = "pair" /\ Batch = 64
           /\ Ops.direct_seal_max \in 0..60
           /\ \A b \in 0..3 : Ops.ks_advance[b] \in 0..5
    <1>1. Ops \in Backends
        BY CallsAssumption DEF CallRecord, Ops
    <1>2. QED
        BY <1>1, BackendsAssumption DEF Batch

\* A step leaves the call alone, so all of its constants.
LEMMA SameCall ==
    ASSUME call' = call
    PROVE  /\ Seal' = Seal /\ Ops' = Ops /\ Batch' = Batch
           /\ Full' = Full /\ Units' = Units
    BY DEF Seal, Ops, Batch, Full, Units

-----------------------------------------------------------------------------
(* Sequences.                                                               *)

\* Folding past the cache keeps the stream a sequence and adds the blocks' length.
LEMMA FoldedDirectType ==
    ASSUME NEW S, NEW s \in Seq(S), NEW b \in Seq(S), NEW c \in 0..Len(s)
    PROVE  /\ FoldedDirect(s, c, b) \in Seq(S)
           /\ Len(FoldedDirect(s, c, b)) = Len(s) + Len(b)
    <1> DEFINE h == Len(s) - c
    <1>0. Len(s) \in Nat /\ h \in 0..Len(s)
        OBVIOUS
    <1>1. /\ SubSeq(s, 1, h) \in Seq(S)
          /\ Len(SubSeq(s, 1, h)) = h
        BY <1>0, SubSeqProperties
    <1>2. /\ SubSeq(s, h + 1, Len(s)) \in Seq(S)
          /\ Len(SubSeq(s, h + 1, Len(s))) = c
        BY <1>0, SubSeqProperties
    <1>3. FoldedDirect(s, c, b) = SubSeq(s, 1, h) \o b \o SubSeq(s, h + 1, Len(s))
        BY DEF FoldedDirect
    <1> HIDE DEF h
    <1>4. SubSeq(s, 1, h) \o b \in Seq(S) /\ Len(SubSeq(s, 1, h) \o b) = h + Len(b)
        BY <1>1, ConcatProperties
    <1>5. /\ FoldedDirect(s, c, b) \in Seq(S)
          /\ Len(FoldedDirect(s, c, b)) = h + Len(b) + c
        BY <1>2, <1>3, <1>4, ConcatProperties
    <1>6. h + Len(b) + c = Len(s) + Len(b)
        BY <1>0 DEF h
    <1>7. QED
        BY <1>5, <1>6

\* Blocks read from the buffer.
LEMMA ReadType ==
    ASSUME NEW m, m \in [0..(Units - 1) -> Int], call \in Calls,
           NEW from \in Nat, NEW n \in Nat, from + n <= Units
    PROVE  /\ Read(m, from, n) \in Seq(MacBlock)
           /\ Len(Read(m, from, n)) = n
    <1>0. Units \in Nat
        BY CallFacts
    <1>1. \A i \in 1..n : MsgBlock(m, from + i - 1) \in MacBlock
        BY <1>0 DEF MsgBlock, MacBlock
    <1>2. QED
        BY <1>1 DEF Read

\* Blocks of the AAD.
LEMMA AadType ==
    ASSUME NEW n \in Nat
    PROVE  /\ AadBlocks(n) \in Seq(MacBlock)
           /\ Len(AadBlocks(n)) = n
    <1>1. \A i \in 1..n : AadBlock(i - 1) \in MacBlock
        BY DEF AadBlock, MacBlock, Pristine
    <1>2. QED
        BY <1>1 DEF AadBlocks

\* The single blocks.
LEMMA BlockTypes ==
    ASSUME NEW m, m \in [0..(Units - 1) -> Int], call \in Calls
    PROVE  None \in MacBlock /\ LengthsBlock \in MacBlock /\ PartialOf(m) \in MacBlock
    <1>1. None \in MacBlock /\ LengthsBlock \in MacBlock
        BY DEF None, LengthsBlock, MacBlock, Pristine
    <1>2. call.part => Full \in 0..(Units - 1)
        BY CallFacts DEF Units
    <1>3. QED
        BY <1>1, <1>2 DEF PartialOf, MsgBlock, MacBlock

-----------------------------------------------------------------------------
(* The counter.                                                             *)

\* The counter stays within its width when a step adds no more than one turn.
LEMMA WrapRange ==
    ASSUME NEW c \in Nat, c < 2 * CtrMod
    PROVE  Wrap(c) \in 0..(CtrMod - 1)
    BY CtrModAssumption DEF Wrap

\* A stretch of the message needs no more blocks than it has units.
LEMMA BlocksBound ==
    ASSUME NEW n \in Nat
    PROVE  /\ Blocks(n) \in Nat
           /\ \A k \in Nat : n <= 4 * k => Blocks(n) <= k
    BY DEF Blocks

\* Encrypting n units from a block boundary leads from the counter of one
\* cursor to the counter of the next, the wrap at the very end included.
LEMMA CounterStep ==
    ASSUME NEW o \in Nat, NEW n \in Nat, o % 4 = 0, o + n <= 4 * (CtrMod - 1)
    PROVE  Wrap(Wrap(1 + Blocks(o)) + Blocks(n)) = Wrap(1 + Blocks(o + n))
    <1>1. Blocks(o + n) = Blocks(o) + Blocks(n)
        BY DEF Blocks
    <1>2. Blocks(o) \in Nat /\ Blocks(n) \in Nat
        BY BlocksBound
    <1>3. Blocks(o) + Blocks(n) <= CtrMod - 1
        <2>1. CtrMod - 1 \in Nat
            BY CtrModAssumption
        <2>2. Blocks(o + n) <= CtrMod - 1
            BY <2>1, BlocksBound
        <2>3. QED
            BY <1>1, <2>2
    <1>4. n = 0 => Blocks(n) = 0
        BY DEF Blocks
    <1>5. n > 0 => Blocks(n) > 0
        BY DEF Blocks
    <1>6. QED
        BY <1>1, <1>2, <1>3, <1>4, <1>5, CtrModAssumption DEF Wrap

\* XORing keeps the buffer's domain and its kind of content.
LEMMA XoredType ==
    ASSUME NEW m, m \in [0..(Units - 1) -> Int],
           NEW from \in Nat, NEW n \in Nat, NEW c \in Nat
    PROVE  Xored(m, from, n, c) \in [0..(Units - 1) -> Int]
    <1>1. ASSUME NEW u \in 0..(Units - 1), from <= u
          PROVE  XorUnit(m[u], KsUnit(c, u - from)) \in Int
        <2>1. KsUnit(c, u - from) \in Int
            BY <1>1, CtrModAssumption DEF KsUnit, Wrap
        <2>2. QED
            BY <2>1 DEF XorUnit, Pristine, Garbled
    <1>2. QED
        BY <1>1 DEF Xored

-----------------------------------------------------------------------------
(* The two halves of every step.                                            *)

\* XORing whole blocks, or up to the end, from a block boundary.
LEMMA EncryptStep ==
    ASSUME Types, call' = call, ctr = Wrap(1 + Blocks(off)), off % 4 = 0,
           NEW n \in Nat, off + n <= Units, Encrypt(n)
    PROVE  /\ off' = off + n
           /\ ctr' = Wrap(1 + Blocks(off'))
           /\ ctr' \in 0..(CtrMod - 1)
           /\ msg' \in [0..(Units - 1) -> Int]
    <1>1. off' = off + n /\ ctr' = Wrap(ctr + Blocks(n)) /\ msg' = Xored(msg, off, n, ctr)
        BY DEF Encrypt, Advanced
    <1>2. Units <= 4 * (CtrMod - 1) /\ CtrMod \in Nat /\ CtrMod > 16 /\ Units \in Nat
        BY CallFacts DEF Types
    <1>3. off \in Nat /\ ctr \in 0..(CtrMod - 1) /\ ctr \in Nat
        BY <1>2 DEF Types
    <1>4. ctr' = Wrap(1 + Blocks(off'))
        <2>1. off + n <= 4 * (CtrMod - 1)
            BY <1>2, <1>3
        <2>2. Wrap(Wrap(1 + Blocks(off)) + Blocks(n)) = Wrap(1 + Blocks(off + n))
            BY <1>3, <2>1, CounterStep
        <2>3. QED
            BY <1>1, <2>2
    <1>5. Blocks(n) \in Nat /\ Blocks(n) <= CtrMod - 1
        BY <1>2, <1>3, BlocksBound
    <1>6. ctr' \in 0..(CtrMod - 1)
        BY <1>1, <1>2, <1>3, <1>5, WrapRange
    <1>7. QED
        BY <1>1, <1>3, <1>4, <1>6, XoredType DEF Types

\* Absorbing whole windows at a window boundary.
LEMMA AbsorbStep ==
    ASSUME Types, cached % 4 = 0, partial = None,
           NEW m, m \in [0..(Units - 1) -> Int],
           NEW n \in Nat, n % 4 = 0, poly_off + n <= Full, Absorb(m, n)
    PROVE  /\ poly_off' = poly_off + n
           /\ mac' \in Seq(MacBlock)
           /\ cached' \in 0..CacheSize
           /\ cached' % 4 = 0
           /\ cached' <= Len(mac')
           /\ AbsorbContract(n) = {}
    <1>1. Full \in Nat /\ Full <= Units /\ Ops.poly \in PolyKinds
        BY CallFacts, OpsFacts DEF Types
    <1>2. poly_off' = poly_off + n /\ mac' = mac \o Read(m, poly_off, n)
        BY DEF Absorb
    <1>3. Read(m, poly_off, n) \in Seq(MacBlock) /\ Len(Read(m, poly_off, n)) = n
        <2>1. poly_off \in Nat /\ poly_off + n <= Units /\ call \in Calls
            BY <1>1, CallFacts DEF Types
        <2>2. QED
            BY <2>1, ReadType
    <1>4. mac' \in Seq(MacBlock) /\ Len(mac') = Len(mac) + n
        BY <1>2, <1>3, ConcatProperties DEF Types
    <1>5. cached' = IF n > 0 THEN AfterAbsorbBlocks(Ops.poly, cached, n \div 4) ELSE cached
        BY DEF Absorb
    <1>6. n \div 4 \in Nat /\ 4 * (n \div 4) = n
        OBVIOUS
    <1>7. /\ AfterAbsorbBlocks(Ops.poly, cached, n \div 4) \in 0..CacheSize
          /\ AfterAbsorbBlocks(Ops.poly, cached, n \div 4) % 4 = 0
          /\ AfterAbsorbBlocks(Ops.poly, cached, n \div 4) <= cached + n
        BY <1>1, <1>6, AbsorbBlocksBounds DEF Types
    <1>8. cached' \in 0..CacheSize /\ cached' % 4 = 0 /\ cached' <= cached + n
        BY <1>5, <1>7 DEF Types, CacheSize
    <1>9. cached' <= Len(mac')
        <2>1. cached <= Len(mac) /\ Len(mac) \in Nat /\ cached \in Nat
            BY LenProperties DEF Types, CacheSize
        <2>2. QED
            BY <1>4, <1>8, <2>1 DEF CacheSize
    <1>10. AbsorbContract(n) = {}
        BY <1>1 DEF AbsorbContract, Broken, WindowAligned, InBounds, Types
    <1>11. QED
        BY <1>2, <1>4, <1>8, <1>9, <1>10

\* Folding blocks straight from the buffer.
LEMMA FoldStep ==
    ASSUME Types, NEW m, m \in [0..(Units - 1) -> Int],
           NEW n \in Nat, poly_off + n <= Full
    PROVE  /\ FoldedDirect(mac, cached, Read(m, poly_off, n)) \in Seq(MacBlock)
           /\ cached <= Len(FoldedDirect(mac, cached, Read(m, poly_off, n)))
    <1>1. poly_off \in Nat /\ poly_off + n <= Units /\ call \in Calls
        BY CallFacts DEF Types
    <1>2. Read(m, poly_off, n) \in Seq(MacBlock) /\ Len(Read(m, poly_off, n)) = n
        BY <1>1, ReadType
    <1>3. mac \in Seq(MacBlock) /\ cached \in 0..Len(mac) /\ Len(mac) \in Nat
        BY LenProperties DEF Types, CacheSize
    <1>4. /\ FoldedDirect(mac, cached, Read(m, poly_off, n)) \in Seq(MacBlock)
          /\ Len(FoldedDirect(mac, cached, Read(m, poly_off, n))) = Len(mac) + n
        BY <1>2, <1>3, FoldedDirectType
    <1>5. QED
        BY <1>3, <1>4

\* A step that stays inside the loop and its kernels keeps the invariant when
\* it keeps each of its parts.
LEMMA StaysInside ==
    ASSUME call' = call, call \in Calls, pc' \in Inside,
           off' \in Nat, off' <= Units, poly_off' \in Nat, poly_off' <= Full,
           ctr' \in 0..(CtrMod - 1), ctr' = Wrap(1 + Blocks(off')),
           msg' \in [0..(Units - 1) -> Int], mac' \in Seq(MacBlock), partial' = None,
           cached' \in 0..CacheSize, cached' % 4 = 0, cached' <= Len(mac'),
           off' % 4 = 0 \/ (off' = Units /\ pc' \in {"drain", "tail"}),
           off' <= Full \/ pc' \in {"drain", "tail"},
           IF Seal THEN poly_off' <= off' ELSE off' <= poly_off',
           pc' = "weave" => Ops.fused_medium,
           Seal /\ Ops.fused_medium =>
               /\ pc' = "medium" => Full - off' < 64
               /\ pc' = "weave" => Full - off' < 32,
           broken' = {}
    PROVE  Inv'
    <1>1. Seal' = Seal /\ Ops' = Ops /\ Full' = Full /\ Units' = Units
        BY SameCall
    <1>2. Full \in Nat /\ Full <= Units /\ Units \in Nat
        BY CallFacts
    <1>3. Types'
        <2>1. None \in MacBlock
            BY DEF None, MacBlock, Pristine
        <2>2. pc' \in Stages
            BY DEF Inside, Stages
        <2>3. QED
            BY <1>1, <1>2, <2>1, <2>2 DEF Types
    <1>4. AtStart' /\ AtEnd'
        BY DEF AtStart, AtEnd, Inside
    <1>5. Aligned'
        BY <1>1 DEF Aligned, Blocks, Wrap
    <1>6. CursorOrder'
        BY <1>1 DEF CursorOrder
    <1>7. MediumLeft'
        BY <1>1 DEF MediumLeft
    <1>8. ContractsKept'
        BY DEF ContractsKept
    <1>9. QED
        BY <1>3, <1>4, <1>5, <1>6, <1>7, <1>8 DEF Inv

-----------------------------------------------------------------------------
(* The bulk loop.                                                           *)

\* What holds inside, in one place.
Here ==
    /\ Types /\ call \in Calls
    /\ off \in Nat /\ off <= Units /\ poly_off \in Nat /\ poly_off <= Full
    /\ ctr \in 0..(CtrMod - 1) /\ ctr = Wrap(1 + Blocks(off))
    /\ cached % 4 = 0 /\ cached \in 0..8 /\ cached <= Len(mac)
    /\ mac \in Seq(MacBlock)
    /\ msg \in [0..(Units - 1) -> Int]
    /\ partial = None /\ Pending = cached
    /\ broken = {}

Sizes ==
    /\ Full \in Nat /\ Full <= Units /\ Units \in Nat /\ Units <= Full + 1
    /\ Batch \in Nat /\ Batch >= 4 /\ Batch % 4 = 0

\* What the invariant says between the prologue and the epilogue.
LEMMA InsideFacts ==
    ASSUME Inv, pc \in Inside
    PROVE  /\ Here
           /\ Sizes
           /\ IF Seal THEN poly_off <= off ELSE off <= poly_off
           /\ pc \in {"bulk", "medium", "weave"} => off <= Full /\ off % 4 = 0
    <1>1. call \in Calls
        BY DEF Inv, Types
    <1>2. Sizes
        BY <1>1, CallFacts, OpsFacts DEF Sizes
    <1>3. partial = None /\ cached \in 0..8 /\ Pending = cached
        BY DEF Inv, Types, Aligned, Pending, CacheSize
    <1>4. QED
        BY <1>1, <1>2, <1>3 DEF Here, Inv, Types, Aligned, CursorOrder, ContractsKept, Inside

\* A fused seal batch.
LEMMA SealBulkInv ==
    ASSUME Inv, SealBulk
    PROVE  Inv'
    <1>1. /\ pc = "bulk" /\ pc' = "bulk" /\ call' = call /\ partial' = partial
          /\ Seal /\ BatchLeft /\ SealFusible /\ Encrypt(Batch)
        BY DEF SealBulk
    <1>2. pc \in Inside /\ pc' \in Inside
        BY <1>1 DEF Inside
    <1>3. Here /\ Sizes /\ poly_off <= off /\ off <= Full /\ off % 4 = 0
        BY <1>1, <1>2, InsideFacts
    <1>4. /\ off + Batch <= Full /\ off + Batch <= Units
          /\ poly_off + Batch <= off /\ poly_off + Batch <= Full /\ cached = 0
        BY <1>1, <1>3 DEF BatchLeft, SealFusible, Here, Sizes
    <1>5. /\ off' = off + Batch
          /\ ctr' = Wrap(1 + Blocks(off')) /\ ctr' \in 0..(CtrMod - 1)
          /\ msg' \in [0..(Units - 1) -> Int]
        BY <1>1, <1>3, <1>4, EncryptStep DEF Here, Sizes
    <1>6. /\ poly_off' = poly_off + Batch
          /\ mac' \in Seq(MacBlock)
          /\ cached' \in 0..CacheSize /\ cached' % 4 = 0 /\ cached' <= Len(mac')
          /\ broken' = {}
        <2>1. CASE Ops.fused_seal
            <3>1. /\ mac' = FoldedDirect(mac, cached, Read(msg, poly_off, Batch))
                  /\ poly_off' = poly_off + Batch
                  /\ broken' = broken \cup Broken(InBounds(poly_off, Batch), "read out of bounds")
                  /\ cached' = cached
                BY <2>1 DEF SealBulk
            <3>2. broken' = {}
                BY <1>3, <1>4, <3>1 DEF InBounds, Broken, Here, Sizes
            <3>3. mac' \in Seq(MacBlock) /\ cached <= Len(mac')
                BY <1>3, <1>4, <3>1, FoldStep DEF Here, Sizes
            <3>4. QED
                BY <1>3, <3>1, <3>2, <3>3 DEF Here, CacheSize
        <2>2. CASE ~Ops.fused_seal
            <3>1. Absorb(msg', Batch) /\ broken' = broken \cup AbsorbContract(Batch)
                BY <2>2 DEF SealBulk
            <3>2. QED
                BY <1>3, <1>4, <1>5, <3>1, AbsorbStep DEF Here, Sizes
        <2>3. QED
            BY <2>1, <2>2
    <1>7. /\ off' \in Nat /\ off' <= Full /\ off' <= Units /\ off' % 4 = 0
          /\ poly_off' \in Nat /\ poly_off' <= Full /\ poly_off' <= off'
        <2>1. off' = off + Batch /\ poly_off' = poly_off + Batch
            BY <1>5, <1>6
        <2>2. off \in Nat /\ poly_off \in Nat /\ off % 4 = 0
            BY <1>3 DEF Here
        <2>3. QED
            BY <1>3, <1>4, <2>1, <2>2, Mod4Sum DEF Sizes
    <1>8. QED
        BY <1>1, <1>2, <1>3, <1>5, <1>6, <1>7, StaysInside DEF Here

\* The keystream half of a step on a block boundary.
LEMMA EncryptInside ==
    ASSUME Inv, pc \in {"bulk", "medium", "weave"}, call' = call,
           NEW n \in Nat, off + n <= Units, Encrypt(n)
    PROVE  /\ off' = off + n /\ off' \in Nat /\ off' <= Units
           /\ ctr' = Wrap(1 + Blocks(off')) /\ ctr' \in 0..(CtrMod - 1)
           /\ msg' \in [0..(Units - 1) -> Int]
           /\ n % 4 = 0 => off' % 4 = 0
    <1>1. pc \in Inside
        BY DEF Inside
    <1>2. Here /\ off % 4 = 0
        BY <1>1, InsideFacts
    <1>3. off' = off + n /\ off \in Nat
        BY <1>2 DEF Encrypt, Here
    <1>4. n % 4 = 0 => off' % 4 = 0
        BY <1>2, <1>3, Mod4Sum
    <1>5. QED
        BY <1>2, <1>3, <1>4, EncryptStep DEF Here

\* The keystream half of a step that leaves it alone.
LEMMA KeystreamStays ==
    ASSUME Inv, pc \in Inside, UNCHANGED <<call, off, ctr, msg>>
    PROVE  /\ off' = off /\ off' \in Nat /\ off' <= Units
           /\ ctr' = Wrap(1 + Blocks(off')) /\ ctr' \in 0..(CtrMod - 1)
           /\ msg' \in [0..(Units - 1) -> Int]
    BY InsideFacts DEF Here

\* The MAC half of a step that absorbs whole windows.
LEMMA AbsorbInside ==
    ASSUME Inv, pc \in Inside,
           NEW m, m \in [0..(Units - 1) -> Int],
           NEW n \in Nat, n % 4 = 0, poly_off + n <= Full, Absorb(m, n)
    PROVE  /\ poly_off' = poly_off + n /\ poly_off' \in Nat /\ poly_off' <= Full
           /\ mac' \in Seq(MacBlock)
           /\ cached' \in 0..CacheSize /\ cached' % 4 = 0 /\ cached' <= Len(mac')
           /\ AbsorbContract(n) = {}
    <1>1. Here
        BY InsideFacts
    <1>2. poly_off' = poly_off + n /\ poly_off \in Nat
        BY <1>1 DEF Absorb, Here
    <1>3. poly_off' \in Nat /\ poly_off' <= Full
        BY <1>2
    <1>4. /\ mac' \in Seq(MacBlock)
          /\ cached' \in 0..CacheSize /\ cached' % 4 = 0 /\ cached' <= Len(mac')
          /\ AbsorbContract(n) = {}
        BY <1>1, AbsorbStep DEF Here
    <1>5. QED
        BY <1>2, <1>3, <1>4

\* The MAC half of a step whose kernel folds n units past the cache.
LEMMA FoldInside ==
    ASSUME Inv, pc \in Inside,
           NEW m, m \in [0..(Units - 1) -> Int],
           NEW n \in Nat, poly_off + n <= Full,
           mac' = FoldedDirect(mac, cached, Read(m, poly_off, n)),
           poly_off' = poly_off + n, cached' = cached
    PROVE  /\ poly_off' \in Nat /\ poly_off' <= Full
           /\ mac' \in Seq(MacBlock)
           /\ cached' \in 0..CacheSize /\ cached' % 4 = 0 /\ cached' <= Len(mac')
    <1>1. Here
        BY InsideFacts
    <1>2. mac' \in Seq(MacBlock) /\ cached <= Len(mac')
        BY <1>1, FoldStep DEF Here
    <1>3. QED
        BY <1>1, <1>2 DEF Here, CacheSize

\* The MAC half of a step that leaves it alone.
LEMMA MacStays ==
    ASSUME Inv, pc \in Inside, UNCHANGED <<poly_off, mac, cached>>
    PROVE  /\ poly_off' = poly_off /\ poly_off' \in Nat /\ poly_off' <= Full
           /\ mac' \in Seq(MacBlock)
           /\ cached' \in 0..CacheSize /\ cached' % 4 = 0 /\ cached' <= Len(mac')
    BY InsideFacts DEF Here, CacheSize

\* What an unfused sealing step absorbs are whole windows below the batch it
\* has just written.
LEMMA CatchUpFacts ==
    ASSUME NEW b \in Nat
    PROVE  SealCatchUp(b) \in Nat /\ SealCatchUp(b) <= b /\ SealCatchUp(b) % 4 = 0
    BY DEF SealCatchUp, Floor4, Floor8

\* An unfused seal step.
LEMMA SealStepInv ==
    ASSUME Inv, SealStep
    PROVE  Inv'
    <1> DEFINE n == SealCatchUp(off - poly_off)
    <1>1. /\ pc = "bulk" /\ pc' = "bulk" /\ call' = call /\ partial' = partial
          /\ Seal /\ BatchLeft /\ Encrypt(Batch)
        BY DEF SealStep
    <1>2. /\ Absorb(msg', n)
          /\ broken' = broken \cup AbsorbContract(n)
                              \cup Broken(poly_off <= off, "cursor underflow")
        BY DEF SealStep
    <1>3. pc \in Inside /\ pc' \in Inside
        BY <1>1 DEF Inside
    <1>4. Here /\ Sizes /\ poly_off <= off /\ off <= Full
        BY <1>1, <1>3, InsideFacts
    <1>5. off + Batch <= Full /\ off + Batch <= Units /\ off - poly_off \in Nat
        BY <1>1, <1>4 DEF BatchLeft, Here, Sizes
    <1>6. n \in Nat /\ n % 4 = 0 /\ n <= off - poly_off
        BY <1>5, CatchUpFacts
    <1> HIDE DEF n
    <1>7. poly_off + n <= Full /\ poly_off + n <= off
        BY <1>4, <1>6 DEF Here, Sizes
    <1>8. /\ off' = off + Batch /\ off' \in Nat /\ off' <= Units /\ off' % 4 = 0
          /\ ctr' = Wrap(1 + Blocks(off')) /\ ctr' \in 0..(CtrMod - 1)
          /\ msg' \in [0..(Units - 1) -> Int]
        BY <1>1, <1>4, <1>5, EncryptInside DEF Sizes
    <1>9. /\ poly_off' = poly_off + n /\ poly_off' \in Nat /\ poly_off' <= Full
          /\ mac' \in Seq(MacBlock)
          /\ cached' \in 0..CacheSize /\ cached' % 4 = 0 /\ cached' <= Len(mac')
          /\ AbsorbContract(n) = {}
        BY <1>2, <1>3, <1>6, <1>7, <1>8, AbsorbInside
    <1>10. broken' = {}
        BY <1>2, <1>4, <1>9 DEF Broken, Here
    <1>11. off' <= Full /\ poly_off' <= off'
        <2>1. off' = off + Batch /\ poly_off' = poly_off + n
            BY <1>8, <1>9
        <2>2. QED
            BY <1>4, <1>5, <1>7, <2>1 DEF Here, Sizes
    <1>12. QED
        BY <1>1, <1>3, <1>4, <1>8, <1>9, <1>10, <1>11, StaysInside DEF Here

\* Pairing a lone window before the fused open run.
LEMMA OpenPairInv ==
    ASSUME Inv, OpenPair
    PROVE  Inv'
    <1>1. /\ pc = "bulk" /\ ~Seal /\ NeedsPairing /\ Absorb(msg, 4)
          /\ broken' = broken \cup AbsorbContract(4)
          /\ UNCHANGED <<call, pc, off, ctr, msg, partial>>
        BY DEF OpenPair
    <1>2. pc \in Inside
        BY <1>1 DEF Inside
    <1>3. Here /\ Sizes /\ off <= poly_off /\ off <= Full /\ off % 4 = 0
        BY <1>1, <1>2, InsideFacts
    <1>4. poly_off + 4 <= Full
        BY <1>1 DEF NeedsPairing
    <1>5. /\ off' = off /\ off' \in Nat /\ off' <= Units
          /\ ctr' = Wrap(1 + Blocks(off')) /\ ctr' \in 0..(CtrMod - 1)
          /\ msg' \in [0..(Units - 1) -> Int]
        BY <1>1, <1>2, KeystreamStays
    <1>6. /\ poly_off' = poly_off + 4 /\ poly_off' \in Nat /\ poly_off' <= Full
          /\ mac' \in Seq(MacBlock)
          /\ cached' \in 0..CacheSize /\ cached' % 4 = 0 /\ cached' <= Len(mac')
          /\ AbsorbContract(4) = {}
        BY <1>1, <1>2, <1>3, <1>4, AbsorbInside DEF Here
    <1>7. broken' = {}
        BY <1>1, <1>3, <1>6 DEF Here
    <1>8. off' <= poly_off' /\ off' <= Full /\ off' % 4 = 0
        <2>1. off' = off /\ poly_off' = poly_off + 4
            BY <1>5, <1>6
        <2>2. QED
            BY <1>3, <2>1 DEF Here, Sizes
    <1>9. QED
        BY <1>1, <1>2, <1>3, <1>5, <1>6, <1>7, <1>8, StaysInside DEF Here

\* A fused open batch.
LEMMA OpenBulkInv ==
    ASSUME Inv, OpenBulk
    PROVE  Inv'
    <1>1. /\ pc = "bulk" /\ ~Seal /\ BatchLeft /\ OpenFusible /\ Encrypt(Batch)
          /\ mac' = FoldedDirect(mac, cached, Read(msg, poly_off, Batch))
          /\ poly_off' = poly_off + Batch
          /\ UNCHANGED <<call, pc, cached, partial>>
        BY DEF OpenBulk
    <1>2. broken' = broken \cup Broken(InBounds(poly_off, Batch), "read out of bounds")
        BY DEF OpenBulk
    <1>3. pc \in Inside
        BY <1>1 DEF Inside
    <1>4. Here /\ Sizes /\ off <= poly_off /\ off <= Full
        BY <1>1, <1>3, InsideFacts
    <1>5. off + Batch <= Full /\ off + Batch <= Units /\ poly_off + Batch <= Full
        BY <1>1, <1>4 DEF BatchLeft, OpenFusible, Here, Sizes
    <1>6. /\ off' = off + Batch /\ off' \in Nat /\ off' <= Units /\ off' % 4 = 0
          /\ ctr' = Wrap(1 + Blocks(off')) /\ ctr' \in 0..(CtrMod - 1)
          /\ msg' \in [0..(Units - 1) -> Int]
        BY <1>1, <1>4, <1>5, EncryptInside DEF Sizes
    <1>7. /\ poly_off' \in Nat /\ poly_off' <= Full
          /\ mac' \in Seq(MacBlock)
          /\ cached' \in 0..CacheSize /\ cached' % 4 = 0 /\ cached' <= Len(mac')
        BY <1>1, <1>3, <1>4, <1>5, FoldInside DEF Here, Sizes
    <1>8. broken' = {}
        BY <1>2, <1>4, <1>5 DEF InBounds, Broken, Here, Sizes
    <1>9. off' <= poly_off' /\ off' <= Full
        <2>1. off' = off + Batch /\ poly_off' = poly_off + Batch
            BY <1>1, <1>6
        <2>2. QED
            BY <1>4, <1>5, <2>1 DEF Here, Sizes
    <1>10. QED
        BY <1>1, <1>3, <1>4, <1>6, <1>7, <1>8, <1>9, StaysInside DEF Here

\* How far an opening MAC leads: whole windows, within the whole units.
LEMMA AheadFacts ==
    ASSUME Sizes, off \in Nat, poly_off \in Nat, poly_off <= Full
    PROVE  OpenAhead \in Nat /\ OpenAhead % 4 = 0 /\ poly_off + OpenAhead <= Full
    <1> DEFINE ahead == Least(off + 2 * Batch, Units)
    <1>1. ahead \in Nat
        BY DEF Least, Sizes
    <1> HIDE DEF ahead
    <1>2. CASE poly_off < ahead
        <2>1. Full \in Nat
            BY DEF Sizes
        <2>2. Whole(ahead) \in Nat /\ Whole(ahead) <= Full /\ poly_off <= Whole(ahead)
            BY <1>1, <1>2, <2>1, WholeFacts
        <2>3. Whole(ahead) - poly_off \in Nat
            BY <2>2
        <2>4. OpenAhead = Floor4(Whole(ahead) - poly_off)
            BY <1>2 DEF OpenAhead, ahead
        <2>5. OpenAhead \in Nat /\ OpenAhead % 4 = 0 /\ OpenAhead <= Whole(ahead) - poly_off
            BY <2>3, <2>4, FloorFacts
        <2>6. QED
            BY <2>1, <2>2, <2>5
    <1>3. CASE ~(poly_off < ahead)
        <2>1. OpenAhead = 0
            BY <1>3 DEF OpenAhead, ahead
        <2>2. QED
            BY <2>1
    <1>4. QED
        BY <1>2, <1>3

\* An unfused open step.
LEMMA OpenStepInv ==
    ASSUME Inv, OpenStep
    PROVE  Inv'
    <1> DEFINE n == OpenAhead
               xor_end == Least(off + Batch, Floor4(poly_off + n))
    <1>1. /\ pc = "bulk" /\ ~Seal /\ BatchLeft /\ ~Ops.fused_medium /\ Absorb(msg, n)
          /\ broken' = broken \cup AbsorbContract(n)
          /\ UNCHANGED <<call, partial>>
        BY DEF OpenStep
    <1>2. \/ xor_end <= off /\ pc' = "medium" /\ UNCHANGED <<off, ctr, msg>>
          \/ ~(xor_end <= off) /\ pc' = "bulk" /\ Encrypt(xor_end - off)
        BY DEF OpenStep
    <1>3. pc \in Inside /\ pc' \in Inside /\ pc' \in {"bulk", "medium"}
        BY <1>1, <1>2 DEF Inside
    <1>4. Here /\ Sizes /\ off <= poly_off /\ off <= Full /\ off % 4 = 0
        BY <1>1, <1>3, InsideFacts
    <1>5. n \in Nat /\ n % 4 = 0 /\ poly_off + n <= Full
        BY <1>4, AheadFacts DEF Here
    <1>6. off + Batch <= Full /\ off \in Nat /\ poly_off \in Nat /\ off + Batch \in Nat
        BY <1>1, <1>4 DEF BatchLeft, Here, Sizes
    <1>7. /\ xor_end \in Nat /\ xor_end <= Full /\ xor_end <= poly_off + n
          /\ xor_end % 4 = 0
        <2>1. /\ Floor4(poly_off + n) \in Nat /\ Floor4(poly_off + n) <= poly_off + n
              /\ Floor4(poly_off + n) % 4 = 0
            <3>1. poly_off + n \in Nat
                BY <1>5, <1>6
            <3>2. QED
                BY <3>1, FloorFacts
        <2>2. (off + Batch) % 4 = 0
            BY <1>4, <1>6, Mod4Sum DEF Sizes
        <2>3. xor_end = off + Batch \/ xor_end = Floor4(poly_off + n)
            BY DEF Least
        <2>4. xor_end <= off + Batch /\ xor_end <= Floor4(poly_off + n)
            BY <1>6, <2>1 DEF Least
        <2> HIDE DEF xor_end, n
        <2>5. QED
            BY <1>4, <1>5, <1>6, <2>1, <2>2, <2>3, <2>4 DEF Sizes
    <1> HIDE DEF n, xor_end
    <1>8. /\ off' \in Nat /\ off' <= Units /\ off' <= Full /\ off' % 4 = 0
          /\ ctr' = Wrap(1 + Blocks(off')) /\ ctr' \in 0..(CtrMod - 1)
          /\ msg' \in [0..(Units - 1) -> Int]
          /\ off' <= poly_off + n
        <2>1. CASE xor_end <= off
            <3>1. UNCHANGED <<call, off, ctr, msg>>
                BY <1>1, <1>2, <2>1
            <3>2. off' = off /\ off <= poly_off + n
                BY <1>4, <1>5, <1>6, <3>1
            <3>3. QED
                BY <1>3, <1>4, <3>1, <3>2, KeystreamStays
        <2>2. CASE ~(xor_end <= off)
            <3>1. Encrypt(xor_end - off)
                BY <1>2, <2>2
            <3>2. xor_end - off \in Nat /\ off + (xor_end - off) = xor_end /\ xor_end <= Units
                BY <1>4, <1>6, <1>7, <2>2 DEF Sizes
            <3>3. /\ off' = off + (xor_end - off) /\ off' \in Nat /\ off' <= Units
                  /\ ctr' = Wrap(1 + Blocks(off')) /\ ctr' \in 0..(CtrMod - 1)
                  /\ msg' \in [0..(Units - 1) -> Int]
                BY <1>1, <3>1, <3>2, EncryptInside
            <3>4. off' = xor_end
                BY <3>2, <3>3
            <3>5. QED
                BY <1>7, <3>3, <3>4
        <2>3. QED
            BY <2>1, <2>2
    <1>9. /\ poly_off' = poly_off + n /\ poly_off' \in Nat /\ poly_off' <= Full
          /\ mac' \in Seq(MacBlock)
          /\ cached' \in 0..CacheSize /\ cached' % 4 = 0 /\ cached' <= Len(mac')
          /\ AbsorbContract(n) = {}
        BY <1>1, <1>3, <1>4, <1>5, AbsorbInside DEF Here
    <1>10. broken' = {}
        BY <1>1, <1>4, <1>9 DEF Here
    <1>11. QED
        BY <1>1, <1>3, <1>4, <1>8, <1>9, <1>10, StaysInside DEF Here

\* Leaving the bulk loop.
LEMMA LeaveBulkInv ==
    ASSUME Inv, LeaveBulk
    PROVE  Inv'
    <1>1. /\ pc = "bulk" /\ pc' = "medium" /\ (Seal => ~BatchLeft)
          /\ UNCHANGED <<call, off, poly_off, ctr, msg, mac, cached, partial, broken>>
        BY DEF LeaveBulk
    <1>2. pc \in Inside /\ pc' \in Inside
        BY <1>1 DEF Inside
    <1>3. Here /\ Sizes /\ off <= Full /\ off % 4 = 0 /\ (IF Seal THEN poly_off <= off ELSE off <= poly_off)
        BY <1>1, <1>2, InsideFacts
    <1>4. Seal /\ Ops.fused_medium => Full - off' < 64
        <2>1. Ops.fused_medium => Batch = 64
            BY <1>3, OpsFacts DEF Here
        <2>2. off' = off /\ off \in Nat /\ Full \in Nat
            BY <1>1, <1>3 DEF Here, Sizes
        <2>3. QED
            BY <1>1, <2>1, <2>2 DEF BatchLeft
    <1>5. /\ off' \in Nat /\ off' <= Units
          /\ ctr' = Wrap(1 + Blocks(off')) /\ ctr' \in 0..(CtrMod - 1)
          /\ msg' \in [0..(Units - 1) -> Int]
        BY <1>1, <1>2, KeystreamStays
    <1>6. /\ poly_off' \in Nat /\ poly_off' <= Full
          /\ mac' \in Seq(MacBlock)
          /\ cached' \in 0..CacheSize /\ cached' % 4 = 0 /\ cached' <= Len(mac')
        BY <1>1, <1>2, MacStays
    <1>7. QED
        BY <1>1, <1>2, <1>3, <1>4, <1>5, <1>6, StaysInside DEF Here

\* No medium kernel.
LEMMA SkipMediumInv ==
    ASSUME Inv, SkipMedium
    PROVE  Inv'
    <1>1. /\ pc = "medium" /\ pc' = "drain"
          /\ UNCHANGED <<call, off, poly_off, ctr, msg, mac, cached, partial, broken>>
        BY DEF SkipMedium
    <1>2. pc \in Inside /\ pc' \in Inside
        BY <1>1 DEF Inside
    <1>3. Here /\ Sizes /\ off <= Full /\ off % 4 = 0 /\ (IF Seal THEN poly_off <= off ELSE off <= poly_off)
        BY <1>1, <1>2, InsideFacts
    <1>4. /\ off' \in Nat /\ off' <= Units
          /\ ctr' = Wrap(1 + Blocks(off')) /\ ctr' \in 0..(CtrMod - 1)
          /\ msg' \in [0..(Units - 1) -> Int]
        BY <1>1, <1>2, KeystreamStays
    <1>5. /\ poly_off' \in Nat /\ poly_off' <= Full
          /\ mac' \in Seq(MacBlock)
          /\ cached' \in 0..CacheSize /\ cached' % 4 = 0 /\ cached' <= Len(mac')
        BY <1>1, <1>2, MacStays
    <1>6. QED
        BY <1>1, <1>2, <1>3, <1>4, <1>5, StaysInside DEF Here

-----------------------------------------------------------------------------
(* The fused medium path.                                                   *)

\* A backend with medium kernels folds pairs in batches of 64 units.
LEMMA MediumFacts ==
    ASSUME Inv, pc = "medium", MediumNeeded
    PROVE  /\ Ops.fused_medium
           /\ Seal => Full - off < 64
    BY DEF Inv, MediumLeft, MediumNeeded

\* Normalising the cache below a limit within the message.
LEMMA NormalisedInside ==
    ASSUME Inv, pc \in Inside,
           NEW m, m \in [0..(Units - 1) -> Int],
           NEW limit \in Nat, limit <= Full, Normalised(m, limit)
    PROVE  /\ poly_off' \in Nat /\ poly_off' <= Full
           /\ mac' \in Seq(MacBlock)
           /\ cached' \in 0..CacheSize /\ cached' % 4 = 0 /\ cached' <= Len(mac')
           /\ poly_off' = poly_off \/ (poly_off' = poly_off + 4 /\ poly_off' <= limit)
           /\ poly_off <= poly_off'
           /\ Pairs(limit) => AbsorbContract(4) = {}
    <1>1. Here /\ Sizes
        BY InsideFacts
    <1>2. CASE Pairs(limit)
        <2>1. Absorb(m, 4) /\ poly_off + 4 <= limit
            BY <1>2 DEF Normalised, Pairs
        <2>2. poly_off + 4 <= Full
            BY <1>1, <2>1 DEF Here, Sizes
        <2>3. /\ poly_off' = poly_off + 4 /\ poly_off' \in Nat /\ poly_off' <= Full
              /\ mac' \in Seq(MacBlock)
              /\ cached' \in 0..CacheSize /\ cached' % 4 = 0 /\ cached' <= Len(mac')
              /\ AbsorbContract(4) = {}
            BY <2>1, <2>2, AbsorbInside
        <2>4. poly_off <= poly_off' /\ poly_off' <= limit
            <3>1. poly_off \in Nat /\ poly_off' = poly_off + 4
                BY <1>1, <2>3 DEF Here
            <3>2. QED
                BY <2>1, <3>1
        <2>5. QED
            BY <2>3, <2>4
    <1>3. CASE ~Pairs(limit)
        <2>1. /\ cached' = IF Pending = 8 THEN AfterAbsorbBlocks(Ops.poly, cached, 0) ELSE cached
              /\ mac' = mac /\ poly_off' = poly_off
            BY <1>3 DEF Normalised
        <2>2. /\ AfterAbsorbBlocks(Ops.poly, cached, 0) \in 0..CacheSize
              /\ AfterAbsorbBlocks(Ops.poly, cached, 0) % 4 = 0
              /\ AfterAbsorbBlocks(Ops.poly, cached, 0) <= cached
            <3>1. Ops.poly \in PolyKinds /\ cached \in 0..CacheSize /\ cached % 4 = 0
                BY <1>1, OpsFacts DEF Here, CacheSize
            <3>2. /\ AfterAbsorbBlocks(Ops.poly, cached, 0) \in 0..CacheSize
                  /\ AfterAbsorbBlocks(Ops.poly, cached, 0) % 4 = 0
                  /\ AfterAbsorbBlocks(Ops.poly, cached, 0) <= cached + 4 * 0
                BY <3>1, AbsorbBlocksBounds
            <3>3. QED
                BY <3>1, <3>2 DEF CacheSize
        <2>3. cached' \in 0..CacheSize /\ cached' % 4 = 0 /\ cached' <= cached
            BY <1>1, <2>1, <2>2 DEF Here, CacheSize
        <2>4. cached' <= Len(mac')
            <3>1. Len(mac) \in Nat /\ cached \in Nat /\ cached <= Len(mac) /\ mac' = mac
                BY <1>1, <2>1, LenProperties DEF Here
            <3>2. QED
                BY <2>3, <3>1 DEF CacheSize
        <2>5. QED
            BY <1>1, <1>3, <2>1, <2>3, <2>4 DEF Here
    <1>4. QED
        BY <1>2, <1>3

\* The medium seal's batch ahead.
LEMMA SealMediumAheadInv ==
    ASSUME Inv, SealMediumAhead
    PROVE  Inv'
    <1>1. /\ pc = "medium" /\ pc' = "weave" /\ MediumNeeded /\ Seal
          /\ IF Full - off >= 32 THEN Encrypt(32) ELSE UNCHANGED <<off, ctr, msg>>
          /\ Normalised(msg', off')
          /\ broken' = broken \cup (IF Pairs(off') THEN AbsorbContract(4) ELSE {})
          /\ UNCHANGED <<call, partial>>
        BY DEF SealMediumAhead
    <1>2. pc \in Inside /\ pc' \in Inside
        BY <1>1 DEF Inside
    <1>3. Here /\ Sizes /\ poly_off <= off /\ off <= Full /\ off % 4 = 0
        BY <1>1, <1>2, InsideFacts
    <1>4. Ops.fused_medium /\ Full - off < 64
        BY <1>1, MediumFacts
    <1>5. off \in Nat /\ Full \in Nat /\ Units \in Nat /\ poly_off \in Nat /\ Full <= Units
        BY <1>3 DEF Here, Sizes
    <1>6. /\ off' \in Nat /\ off' <= Units /\ off' % 4 = 0
          /\ ctr' = Wrap(1 + Blocks(off')) /\ ctr' \in 0..(CtrMod - 1)
          /\ msg' \in [0..(Units - 1) -> Int]
          /\ off <= off' /\ off' <= Full /\ Full - off' < 32
        <2>1. CASE Full - off >= 32
            <3>1. Encrypt(32) /\ off + 32 <= Full /\ off + 32 <= Units
                BY <1>1, <1>5, <2>1
            <3>2. /\ off' = off + 32 /\ off' \in Nat /\ off' <= Units /\ off' % 4 = 0
                  /\ ctr' = Wrap(1 + Blocks(off')) /\ ctr' \in 0..(CtrMod - 1)
                  /\ msg' \in [0..(Units - 1) -> Int]
                BY <1>1, <3>1, EncryptInside
            <3>3. off' = off + 32
                BY <3>2
            <3>4. off <= off' /\ off' <= Full /\ Full - off' < 32
                BY <1>4, <1>5, <3>1, <3>3
            <3>5. QED
                BY <3>2, <3>4
        <2>2. CASE ~(Full - off >= 32)
            <3>1. UNCHANGED <<call, off, ctr, msg>>
                BY <1>1, <2>2
            <3>2. Full - off < 32
                BY <1>5, <2>2
            <3>3. QED
                BY <1>2, <1>3, <1>5, <3>1, <3>2, KeystreamStays
        <2>3. QED
            BY <2>1, <2>2
    <1>7. /\ poly_off' \in Nat /\ poly_off' <= Full
          /\ mac' \in Seq(MacBlock)
          /\ cached' \in 0..CacheSize /\ cached' % 4 = 0 /\ cached' <= Len(mac')
          /\ poly_off' = poly_off \/ (poly_off' = poly_off + 4 /\ poly_off' <= off')
          /\ Pairs(off') => AbsorbContract(4) = {}
        BY <1>1, <1>2, <1>6, NormalisedInside
    <1>8. broken' = {}
        BY <1>1, <1>3, <1>7 DEF Here
    <1>9. poly_off' <= off'
        BY <1>3, <1>5, <1>6, <1>7
    <1>10. QED
        BY <1>1, <1>2, <1>3, <1>4, <1>6, <1>7, <1>8, <1>9, StaysInside DEF Here

\* The medium open's normalisation.
LEMMA OpenMediumEnterInv ==
    ASSUME Inv, OpenMediumEnter
    PROVE  Inv'
    <1>1. /\ pc = "medium" /\ pc' = "weave" /\ MediumNeeded /\ ~Seal
          /\ Normalised(msg, Full)
          /\ broken' = broken \cup (IF Pairs(Full) THEN AbsorbContract(4) ELSE {})
          /\ UNCHANGED <<call, off, ctr, msg, partial>>
        BY DEF OpenMediumEnter
    <1>2. pc \in Inside /\ pc' \in Inside
        BY <1>1 DEF Inside
    <1>3. Here /\ Sizes /\ off <= poly_off /\ off <= Full /\ off % 4 = 0
        BY <1>1, <1>2, InsideFacts
    <1>4. Ops.fused_medium
        BY <1>1, MediumFacts
    <1>5. /\ off' = off /\ off' \in Nat /\ off' <= Units
          /\ ctr' = Wrap(1 + Blocks(off')) /\ ctr' \in 0..(CtrMod - 1)
          /\ msg' \in [0..(Units - 1) -> Int]
        BY <1>1, <1>2, KeystreamStays
    <1>6. /\ poly_off' \in Nat /\ poly_off' <= Full
          /\ mac' \in Seq(MacBlock)
          /\ cached' \in 0..CacheSize /\ cached' % 4 = 0 /\ cached' <= Len(mac')
          /\ poly_off <= poly_off'
          /\ Pairs(Full) => AbsorbContract(4) = {}
        <2>1. Full \in Nat /\ Full <= Full /\ msg \in [0..(Units - 1) -> Int]
            BY <1>3 DEF Here, Sizes
        <2>2. QED
            BY <1>1, <1>2, <2>1, NormalisedInside
    <1>7. broken' = {}
        BY <1>1, <1>3, <1>6 DEF Here
    <1>8. off' <= poly_off' /\ off' <= Full /\ off' % 4 = 0
        <2>1. off' = off /\ off \in Nat /\ poly_off \in Nat /\ poly_off' \in Nat
            BY <1>3, <1>5, <1>6 DEF Here
        <2>2. QED
            BY <1>3, <1>6, <2>1
    <1>9. QED
        BY <1>1, <1>2, <1>3, <1>4, <1>5, <1>6, <1>7, <1>8, StaysInside DEF Here

\* A steady iteration of the medium open.
LEMMA OpenMediumWeaveInv ==
    ASSUME Inv, OpenMediumWeave
    PROVE  Inv'
    <1>1. /\ pc = "weave" /\ ~Seal /\ OpenWeaveSteady /\ Encrypt(32)
          /\ mac' = FoldedDirect(mac, cached, Read(msg, poly_off, 32))
          /\ poly_off' = poly_off + 32
          /\ UNCHANGED <<call, pc, cached, partial, broken>>
        BY DEF OpenMediumWeave
    <1>2. pc \in Inside
        BY <1>1 DEF Inside
    <1>3. Here /\ Sizes /\ off <= poly_off /\ off <= Full
        BY <1>1, <1>2, InsideFacts
    <1>4. Ops.fused_medium
        BY <1>1 DEF Inv, MediumLeft
    <1>5. off + 32 <= Full /\ off + 32 <= Units /\ poly_off + 32 <= Full
        BY <1>1, <1>3 DEF OpenWeaveSteady, Here, Sizes
    <1>6. /\ off' = off + 32 /\ off' \in Nat /\ off' <= Units /\ off' % 4 = 0
          /\ ctr' = Wrap(1 + Blocks(off')) /\ ctr' \in 0..(CtrMod - 1)
          /\ msg' \in [0..(Units - 1) -> Int]
        BY <1>1, <1>5, EncryptInside
    <1>7. /\ poly_off' \in Nat /\ poly_off' <= Full
          /\ mac' \in Seq(MacBlock)
          /\ cached' \in 0..CacheSize /\ cached' % 4 = 0 /\ cached' <= Len(mac')
        BY <1>1, <1>2, <1>3, <1>5, FoldInside DEF Here
    <1>8. off' <= poly_off' /\ off' <= Full
        <2>1. off' = off + 32 /\ poly_off' = poly_off + 32
            BY <1>1, <1>6
        <2>2. QED
            BY <1>3, <1>5, <2>1 DEF Here, Sizes
    <1>9. QED
        BY <1>1, <1>2, <1>3, <1>4, <1>6, <1>7, <1>8, StaysInside DEF Here

\* How many pairs of windows lie below a limit.
LEMMA PairsFacts ==
    ASSUME NEW limit \in Nat, poly_off \in Nat
    PROVE  /\ PairsUpTo(limit) \in Nat
           /\ poly_off <= limit => poly_off + 8 * PairsUpTo(limit) <= limit
           /\ ~(poly_off <= limit) => PairsUpTo(limit) = 0
    BY DEF PairsUpTo

\* The medium seal's woven batch.
LEMMA SealMediumWeaveInv ==
    ASSUME Inv, SealMediumWeave
    PROVE  Inv'
    <1> DEFINE idle == off = Units \/ (Full - off < 12 /\ SealRounds = 0)
               n == 8 * SealRounds
    <1>1. /\ pc = "weave" /\ pc' = "drain" /\ Seal
          /\ UNCHANGED <<call, cached, partial>>
        BY DEF SealMediumWeave
    <1>2. pc \in Inside /\ pc' \in Inside
        BY <1>1 DEF Inside
    <1>3. Here /\ Sizes /\ poly_off <= off /\ off <= Full /\ off % 4 = 0
        BY <1>1, <1>2, InsideFacts
    <1>4. Full - off < 32
        <2>1. Ops.fused_medium
            BY <1>1 DEF Inv, MediumLeft
        <2>2. QED
            BY <1>1, <2>1 DEF Inv, MediumLeft
    <1>5. /\ off \in Nat /\ poly_off \in Nat /\ Full \in Nat /\ Units \in Nat
          /\ Full <= Units /\ Units <= Full + 1 /\ off <= Units /\ poly_off <= Full
        BY <1>3 DEF Here, Sizes
    <1>6. CASE idle
        <2>1. UNCHANGED <<call, off, poly_off, ctr, msg, mac, cached, broken>>
            BY <1>1, <1>6 DEF SealMediumWeave
        <2>2. /\ off' = off /\ off' \in Nat /\ off' <= Units
              /\ ctr' = Wrap(1 + Blocks(off')) /\ ctr' \in 0..(CtrMod - 1)
              /\ msg' \in [0..(Units - 1) -> Int]
            BY <1>2, <2>1, KeystreamStays
        <2>3. /\ poly_off' \in Nat /\ poly_off' <= Full
              /\ mac' \in Seq(MacBlock)
              /\ cached' \in 0..CacheSize /\ cached' % 4 = 0 /\ cached' <= Len(mac')
            BY <1>2, <2>1, MacStays
        <2>4. off' <= Full /\ off' % 4 = 0 /\ poly_off' <= off' /\ broken' = {} /\ partial' = None
            BY <1>1, <1>3, <2>1 DEF Here
        <2>5. QED
            BY <1>1, <1>2, <1>3, <2>2, <2>3, <2>4, StaysInside DEF Here
    <1>7. CASE ~idle
        <2>1. /\ mac' = FoldedDirect(mac, cached, Read(msg, poly_off, n))
              /\ poly_off' = poly_off + n
              /\ Encrypt(Units - off)
              /\ broken' = broken
                   \cup Broken(poly_off <= off, "cursor underflow")
                   \cup Broken(Units - off <= 32, "kernel too narrow")
            BY <1>7 DEF SealMediumWeave
        <2>2. n \in Nat /\ poly_off + n <= off /\ poly_off + n <= Full
            <3>1. /\ PairsUpTo(off) \in Nat /\ poly_off + 8 * PairsUpTo(off) <= off
                  /\ PairsUpTo(Full) \in Nat
                BY <1>3, <1>5, PairsFacts
            <3>2. SealRounds \in Nat /\ SealRounds <= PairsUpTo(off)
                BY <3>1 DEF SealRounds, Least
            <3>3. QED
                BY <1>3, <1>5, <3>1, <3>2
        <2> HIDE DEF n
        <2> DEFINE k == Units - off
        <2>3. k \in Nat /\ off + k = Units /\ off + k <= Units /\ k <= 32
            BY <1>4, <1>5
        <2>4. Encrypt(k)
            BY <2>1
        <2> HIDE DEF k
        <2>5. /\ off' = off + k /\ off' \in Nat /\ off' <= Units
              /\ ctr' = Wrap(1 + Blocks(off')) /\ ctr' \in 0..(CtrMod - 1)
              /\ msg' \in [0..(Units - 1) -> Int]
            BY <1>1, <2>3, <2>4, EncryptInside
        <2>6. off' = Units
            BY <2>3, <2>5
        <2>7. /\ poly_off' \in Nat /\ poly_off' <= Full
              /\ mac' \in Seq(MacBlock)
              /\ cached' \in 0..CacheSize /\ cached' % 4 = 0 /\ cached' <= Len(mac')
            BY <1>1, <1>2, <1>3, <2>1, <2>2, FoldInside DEF Here
        <2>8. broken' = {}
            BY <1>3, <2>1, <2>3 DEF Broken, Here, k
        <2>9. poly_off' <= off'
            BY <1>5, <2>6, <2>7
        <2>10. partial' = None
            BY <1>1, <1>3 DEF Here
        <2>11. QED
            BY <1>1, <1>2, <1>3, <2>5, <2>6, <2>7, <2>8, <2>9, <2>10, StaysInside DEF Here
    <1>8. QED
        BY <1>6, <1>7

\* The medium open's partial batch.
LEMMA OpenMediumLastInv ==
    ASSUME Inv, OpenMediumLast
    PROVE  Inv'
    <1> DEFINE go == /\ off < Units /\ Units - off <= 32
                     /\ OpenStoredEnd - off >= 24 \/ OpenLastRounds > 0
               n == 8 * OpenLastRounds
    <1>1. /\ pc = "weave" /\ pc' = "drain" /\ ~Seal
          /\ UNCHANGED <<call, cached, partial>>
        BY DEF OpenMediumLast
    <1>2. pc \in Inside /\ pc' \in Inside
        BY <1>1 DEF Inside
    <1>3. Here /\ Sizes /\ off <= poly_off /\ off <= Full /\ off % 4 = 0
        BY <1>1, <1>2, InsideFacts
    <1>4. /\ off \in Nat /\ poly_off \in Nat /\ Full \in Nat /\ Units \in Nat
          /\ Full <= Units /\ Units <= Full + 1 /\ off <= Units /\ poly_off <= Full
        BY <1>3 DEF Here, Sizes
    <1>5. CASE ~go
        <2>1. UNCHANGED <<call, off, poly_off, ctr, msg, mac, cached, broken>>
            BY <1>1, <1>5 DEF OpenMediumLast
        <2>2. /\ off' = off /\ off' \in Nat /\ off' <= Units
              /\ ctr' = Wrap(1 + Blocks(off')) /\ ctr' \in 0..(CtrMod - 1)
              /\ msg' \in [0..(Units - 1) -> Int]
            BY <1>2, <2>1, KeystreamStays
        <2>3. /\ poly_off' \in Nat /\ poly_off' <= Full
              /\ mac' \in Seq(MacBlock)
              /\ cached' \in 0..CacheSize /\ cached' % 4 = 0 /\ cached' <= Len(mac')
            BY <1>2, <2>1, MacStays
        <2>4. off' <= Full /\ off' % 4 = 0 /\ off' <= poly_off' /\ broken' = {} /\ partial' = None
            BY <1>1, <1>3, <2>1 DEF Here
        <2>5. QED
            BY <1>1, <1>2, <1>3, <2>2, <2>3, <2>4, StaysInside DEF Here
    <1>6. CASE go
        <2>1. /\ mac' = FoldedDirect(mac, cached, Read(msg, poly_off, n))
              /\ poly_off' = poly_off + n
              /\ Encrypt(OpenStored)
              /\ broken' = broken
                   \cup Broken(off <= OpenStoredEnd, "cursor underflow")
                   \cup Broken(OpenStored <= 32, "kernel too narrow")
            BY <1>6 DEF OpenMediumLast
        <2>2. n \in Nat /\ poly_off + n <= Full
            <3>1. PairsUpTo(Full) \in Nat /\ poly_off + 8 * PairsUpTo(Full) <= Full
                BY <1>4, PairsFacts
            <3>2. OpenLastRounds \in Nat /\ OpenLastRounds <= PairsUpTo(Full)
                BY <3>1 DEF OpenLastRounds, Least
            <3>3. QED
                BY <1>4, <3>1, <3>2
        <2>3. OpenStoredEnd = Least(poly_off + n, Units)
            BY DEF OpenStoredEnd
        <2> HIDE DEF n
        <2>4. /\ OpenStoredEnd \in Nat /\ off <= OpenStoredEnd /\ OpenStoredEnd <= Units
              /\ OpenStoredEnd <= poly_off + n
            BY <1>3, <1>4, <2>2, <2>3 DEF Least
        <2>5. OpenStoredEnd - off \in Nat
            BY <1>4, <2>4
        <2>6. /\ OpenStored \in Nat /\ OpenStored <= OpenStoredEnd - off
              /\ OpenStored % 4 = 0 \/ off + OpenStored = Units
            <3>1. CASE OpenStoredEnd = Units
                <4>1. OpenStored = OpenStoredEnd - off
                    BY <3>1 DEF OpenStored
                <4>2. QED
                    BY <1>4, <2>4, <2>5, <3>1, <4>1
            <3>2. CASE OpenStoredEnd # Units
                <4>1. OpenStored = Floor4(OpenStoredEnd - off)
                    BY <3>2 DEF OpenStored
                <4>2. QED
                    BY <2>5, <4>1, FloorFacts
            <3>3. QED
                BY <3>1, <3>2
        <2>7. off + OpenStored <= Units /\ off + OpenStored <= poly_off + n /\ OpenStored <= 32
            BY <1>4, <1>6, <2>2, <2>4, <2>6
        <2>8. /\ off' = off + OpenStored /\ off' \in Nat /\ off' <= Units
              /\ ctr' = Wrap(1 + Blocks(off')) /\ ctr' \in 0..(CtrMod - 1)
              /\ msg' \in [0..(Units - 1) -> Int]
              /\ OpenStored % 4 = 0 => off' % 4 = 0
            BY <1>1, <2>1, <2>6, <2>7, EncryptInside
        <2>9. /\ poly_off' \in Nat /\ poly_off' <= Full
              /\ mac' \in Seq(MacBlock)
              /\ cached' \in 0..CacheSize /\ cached' % 4 = 0 /\ cached' <= Len(mac')
            BY <1>1, <1>2, <1>3, <2>1, <2>2, FoldInside DEF Here
        <2>10. broken' = {}
            BY <1>3, <2>1, <2>4, <2>7 DEF Broken, Here
        <2>11. off' <= poly_off' /\ partial' = None /\ (off' % 4 = 0 \/ off' = Units)
            BY <1>1, <1>3, <2>1, <2>6, <2>7, <2>8 DEF Here
        <2>12. QED
            BY <1>1, <1>2, <1>3, <2>8, <2>9, <2>10, <2>11, StaysInside DEF Here
    <1>7. QED
        BY <1>5, <1>6

\* Draining what the seal left behind.
LEMMA DrainLagInv ==
    ASSUME Inv, DrainLag
    PROVE  Inv'
    <1> DEFINE n == IF poly_off < off THEN Floor4(Whole(off) - poly_off) ELSE 0
    <1>1. /\ pc = "drain" /\ pc' = "tail"
          /\ Absorb(msg, n) /\ broken' = broken \cup AbsorbContract(n)
          /\ UNCHANGED <<call, off, ctr, msg, partial>>
        BY DEF DrainLag
    <1>2. pc \in Inside /\ pc' \in Inside
        BY <1>1 DEF Inside
    <1>3. Here /\ Sizes /\ (IF Seal THEN poly_off <= off ELSE off <= poly_off)
        BY <1>1, <1>2, InsideFacts
    <1>4. off % 4 = 0 \/ off = Units
        BY <1>2 DEF Inv, Aligned
    <1>5. /\ off \in Nat /\ poly_off \in Nat /\ Full \in Nat /\ Units \in Nat
          /\ off <= Units /\ poly_off <= Full
        BY <1>3 DEF Here, Sizes
    <1>6. /\ n \in Nat /\ n % 4 = 0 /\ poly_off + n <= Full
          /\ n = 0 \/ poly_off + n <= off
        <2>1. CASE poly_off < off
            <3>1. Whole(off) \in Nat /\ Whole(off) <= off /\ Whole(off) <= Full /\ poly_off <= Whole(off)
                BY <1>5, <2>1, WholeFacts
            <3>2. Whole(off) - poly_off \in Nat
                BY <1>5, <3>1
            <3>3. n \in Nat /\ n % 4 = 0 /\ n <= Whole(off) - poly_off
                BY <2>1, <3>2, FloorFacts
            <3> HIDE DEF n
            <3>4. QED
                BY <1>5, <3>1, <3>3
        <2>2. CASE ~(poly_off < off)
            BY <1>5, <2>2
        <2>3. QED
            BY <2>1, <2>2
    <1> HIDE DEF n
    <1>7. /\ off' = off /\ off' \in Nat /\ off' <= Units
          /\ ctr' = Wrap(1 + Blocks(off')) /\ ctr' \in 0..(CtrMod - 1)
          /\ msg' \in [0..(Units - 1) -> Int]
        BY <1>1, <1>2, KeystreamStays
    <1>8. /\ poly_off' = poly_off + n /\ poly_off' \in Nat /\ poly_off' <= Full
          /\ mac' \in Seq(MacBlock)
          /\ cached' \in 0..CacheSize /\ cached' % 4 = 0 /\ cached' <= Len(mac')
          /\ AbsorbContract(n) = {}
        <2>1. msg \in [0..(Units - 1) -> Int]
            BY <1>3 DEF Here
        <2>2. QED
            BY <1>1, <1>2, <1>6, <2>1, AbsorbInside
    <1>9. broken' = {} /\ partial' = None
        BY <1>1, <1>3, <1>8 DEF Here
    <1>10. IF Seal THEN poly_off' <= off' ELSE off' <= poly_off'
        <2>1. off' = off /\ poly_off' = poly_off + n
            BY <1>7, <1>8
        <2>2. QED
            BY <1>3, <1>5, <1>6, <2>1
    <1>11. QED
        BY <1>1, <1>2, <1>3, <1>4, <1>7, <1>8, <1>9, <1>10, StaysInside DEF Here

-----------------------------------------------------------------------------
(* The tail.                                                                *)

\* A step that ends the message keeps the invariant when it keeps the types.
LEMMA ReachesEnd ==
    ASSUME call' = call, call \in Calls, pc' \in {"finish", "done"},
           off' = Units, poly_off' = Units,
           ctr' \in 0..(CtrMod - 1),
           msg' \in [0..(Units - 1) -> Int], mac' \in Seq(MacBlock), partial' \in MacBlock,
           cached' \in 0..CacheSize, cached' <= Len(mac'),
           broken' = {}
    PROVE  Inv'
    <1>1. Seal' = Seal /\ Ops' = Ops /\ Full' = Full /\ Units' = Units
        BY SameCall
    <1>2. Units \in Nat
        BY CallFacts
    <1>3. Types'
        <2>1. pc' \in Stages
            BY DEF Stages
        <2>2. QED
            BY <1>1, <1>2, <2>1 DEF Types
    <1>4. pc' \notin Inside /\ pc' # "start"
        BY DEF Inside
    <1>5. AtStart' /\ Aligned' /\ MediumLeft'
        BY <1>4 DEF AtStart, Aligned, MediumLeft, Inside
    <1>6. CursorOrder' /\ AtEnd' /\ ContractsKept'
        BY <1>1, <1>4 DEF CursorOrder, AtEnd, ContractsKept, Inside
    <1>7. QED
        BY <1>3, <1>5, <1>6 DEF Inv

\* Adding n blocks one way or another keeps the cache within the stream.
LEMMA CacheWithin ==
    ASSUME NEW s \in Seq(MacBlock), NEW b \in Seq(MacBlock),
           NEW c \in Nat, c <= Len(s), NEW d \in Nat, d <= c + Len(b)
    PROVE  /\ s \o b \in Seq(MacBlock)
           /\ d <= Len(s \o b)
    <1>1. s \o b \in Seq(MacBlock) /\ Len(s \o b) = Len(s) + Len(b)
        BY ConcatProperties
    <1>2. Len(s) \in Nat /\ Len(b) \in Nat
        BY LenProperties
    <1>3. QED
        BY <1>1, <1>2

\* The rest of the message.
LEMMA FinishCursorsInv ==
    ASSUME Inv, FinishCursors
    PROVE  Inv'
    <1> DEFINE work == off < Units \/ poly_off < Units
               k == Units - off
               rest == Full - poly_off
    <1>1. /\ pc = "tail" /\ pc' = "finish" /\ call' = call
          /\ IF off < Units THEN Encrypt(k) ELSE UNCHANGED <<off, ctr, msg>>
          /\ IF work THEN AbsorbRest(IF Seal THEN msg' ELSE msg)
             ELSE UNCHANGED <<poly_off, mac, cached, partial, broken>>
        BY DEF FinishCursors
    <1>2. pc \in Inside
        BY <1>1 DEF Inside
    <1>3. Here /\ Sizes
        BY <1>2, InsideFacts
    <1>4. off % 4 = 0 \/ off = Units
        BY <1>2 DEF Inv, Aligned
    <1>5. /\ off \in Nat /\ poly_off \in Nat /\ Full \in Nat /\ Units \in Nat
          /\ off <= Units /\ poly_off <= Full /\ Full <= Units
          /\ cached \in 0..CacheSize /\ cached % 4 = 0
        BY <1>3 DEF Here, Sizes, CacheSize
    <1>6. /\ off' = Units /\ ctr' \in 0..(CtrMod - 1)
          /\ msg' \in [0..(Units - 1) -> Int]
        <2>1. CASE off < Units
            <3>1. k \in Nat /\ off + k = Units /\ off + k <= Units /\ off % 4 = 0
                BY <1>4, <1>5, <2>1
            <3>2. Encrypt(k)
                BY <1>1, <2>1
            <3> HIDE DEF k
            <3>3. /\ off' = off + k /\ ctr' \in 0..(CtrMod - 1)
                  /\ msg' \in [0..(Units - 1) -> Int]
                BY <1>1, <1>3, <3>1, <3>2, EncryptStep DEF Here
            <3>4. QED
                BY <3>1, <3>3
        <2>2. CASE ~(off < Units)
            <3>1. UNCHANGED <<off, ctr, msg>> /\ off = Units
                BY <1>1, <1>5, <2>2
            <3>2. QED
                BY <1>3, <3>1 DEF Here
        <2>3. QED
            BY <2>1, <2>2
    <1>7. /\ poly_off' = Units
          /\ mac' \in Seq(MacBlock) /\ partial' \in MacBlock
          /\ cached' \in 0..CacheSize /\ cached' <= Len(mac')
          /\ broken' = {}
        <2>1. CASE work
            <3> DEFINE m == IF Seal THEN msg' ELSE msg
            <3>1. /\ mac' = mac \o Read(m, poly_off, rest)
                  /\ cached' = AfterUpdateTail(Ops.poly, cached, rest)
                  /\ partial' = PartialOf(m)
                  /\ poly_off' = Units
                  /\ broken' = broken
                       \cup Broken(WindowAligned(cached), "window not aligned")
                       \cup Broken(poly_off <= Full, "slice out of bounds")
                BY <1>1, <2>1 DEF AbsorbRest
            <3>2. m \in [0..(Units - 1) -> Int] /\ call \in Calls
                BY <1>3, <1>6 DEF Here
            <3> HIDE DEF m
            <3>3. partial' \in MacBlock
                BY <3>1, <3>2, BlockTypes
            <3>4. broken' = {}
                BY <1>3, <1>5, <3>1 DEF Broken, WindowAligned, Here
            <3>5. rest \in Nat /\ poly_off + rest <= Units
                BY <1>5
            <3> HIDE DEF rest
            <3>6. Read(m, poly_off, rest) \in Seq(MacBlock) /\ Len(Read(m, poly_off, rest)) = rest
                BY <1>5, <3>2, <3>5, ReadType
            <3>7. cached' \in 0..CacheSize /\ cached' <= cached + rest
                BY <1>5, <3>1, <3>2, <3>5, UpdateTailBounds, OpsFacts
            <3>8. mac \in Seq(MacBlock) /\ cached \in Nat /\ cached' \in Nat /\ cached <= Len(mac)
                BY <1>3, <3>7 DEF Here, CacheSize
            <3>9. mac' \in Seq(MacBlock) /\ cached' <= Len(mac')
                BY <3>1, <3>6, <3>7, <3>8, CacheWithin
            <3>10. QED
                BY <3>1, <3>3, <3>4, <3>7, <3>9
        <2>2. CASE ~work
            <3>1. UNCHANGED <<poly_off, mac, cached, partial, broken>> /\ poly_off = Units
                BY <1>1, <1>5, <2>2
            <3>2. None \in MacBlock
                BY DEF None, MacBlock, Pristine
            <3>3. QED
                BY <1>3, <1>5, <3>1, <3>2 DEF Here
        <2>3. QED
            BY <2>1, <2>2
    <1>8. QED
        BY <1>1, <1>3, <1>6, <1>7, ReachesEnd DEF Here

\* Padding and lengths.
LEMMA FinishInv ==
    ASSUME Inv, Finish
    PROVE  Inv'
    <1> DEFINE padded == IF partial = None THEN << >> ELSE <<partial>>
               added == padded \o <<LengthsBlock>>
    <1>1. /\ pc = "finish" /\ pc' = "done"
          /\ mac' = mac \o padded \o <<LengthsBlock>>
          /\ cached' = AfterUpdate(Ops.poly, cached, Len(padded) + 1)
          /\ partial' = None
          /\ broken' = broken \cup Broken(off = Units /\ poly_off = Units, "cursors not at the end")
          /\ UNCHANGED <<call, off, poly_off, ctr, msg>>
        BY DEF Finish
    <1>2. Types /\ off = Units /\ poly_off = Units /\ broken = {} /\ call \in Calls
        BY <1>1 DEF Inv, AtEnd, ContractsKept, Types
    <1>3. /\ mac \in Seq(MacBlock) /\ partial \in MacBlock
          /\ cached \in 0..CacheSize /\ cached \in Nat /\ cached <= Len(mac)
        BY <1>2 DEF Types, CacheSize
    <1>4. LengthsBlock \in MacBlock /\ None \in MacBlock
        BY DEF LengthsBlock, None, MacBlock, Pristine
    <1>5. padded \in Seq(MacBlock) /\ Len(padded) \in Nat
        BY <1>3
    <1>6. <<LengthsBlock>> \in Seq(MacBlock) /\ Len(<<LengthsBlock>>) = 1
        BY <1>4
    <1> HIDE DEF padded
    <1>7. added \in Seq(MacBlock) /\ Len(added) = Len(padded) + 1
        BY <1>5, <1>6, ConcatProperties
    <1>8. mac' = mac \o added
        <2> DEFINE last == <<LengthsBlock>>
        <2>1. mac' = (mac \o padded) \o last
            BY <1>1
        <2>2. mac \in Seq(MacBlock) /\ padded \in Seq(MacBlock) /\ last \in Seq(MacBlock)
            BY <1>3, <1>5, <1>6
        <2>3. added = padded \o last
            OBVIOUS
        <2> HIDE DEF last, added
        <2>4. QED
            BY <2>1, <2>2, <2>3, ConcatAssociative
    <1> HIDE DEF added
    <1>9. cached' \in 0..CacheSize /\ cached' \in Nat /\ cached' <= cached + Len(added)
        <2>1. Len(padded) + 1 \in Nat /\ Ops.poly \in PolyKinds
            BY <1>2, <1>5, OpsFacts
        <2>2. cached' \in 0..CacheSize /\ cached' <= cached + (Len(padded) + 1)
            BY <1>1, <1>3, <2>1, UpdateBounds
        <2>3. QED
            BY <1>7, <2>2 DEF CacheSize
    <1>10. mac' \in Seq(MacBlock) /\ cached' <= Len(mac')
        BY <1>3, <1>7, <1>8, <1>9, CacheWithin
    <1>11. broken' = {}
        BY <1>1, <1>2 DEF Broken
    <1>12. ctr' \in 0..(CtrMod - 1) /\ msg' \in [0..(Units - 1) -> Int]
        BY <1>1, <1>2 DEF Types
    <1>13. QED
        BY <1>1, <1>2, <1>4, <1>9, <1>10, <1>11, <1>12, ReachesEnd

-----------------------------------------------------------------------------
(* The paths that start a call.                                             *)

\* A call that starts: nothing done, and the AAD about to be absorbed.
LEMMA StartFacts ==
    ASSUME Inv, pc = "start"
    PROVE  /\ call \in Calls /\ Sizes /\ call.aad \in Nat
           /\ off = 0 /\ poly_off = 0 /\ ctr = 0 /\ partial = None /\ broken = {}
           /\ msg \in [0..(Units - 1) -> Int]
           /\ None \in MacBlock
           /\ Ops.poly \in PolyKinds
           /\ AadCached \in 0..CacheSize /\ AadCached \in Nat /\ AadCached <= call.aad
           /\ Ops.poly = "soft" => AadCached = 0
    <1>1. call \in Calls /\ off = 0 /\ poly_off = 0 /\ ctr = 0 /\ partial = None /\ broken = {}
        BY DEF Inv, Types, AtStart, ContractsKept
    <1>2. Sizes /\ call.aad \in Nat /\ Ops.poly \in PolyKinds
        BY <1>1, CallFacts, OpsFacts DEF Sizes
    <1>3. AadCached \in 0..CacheSize /\ AadCached <= 0 + call.aad
        BY <1>2, UpdateBounds DEF AadCached, CacheSize
    <1>4. Ops.poly = "soft" => AadCached = 0
        BY DEF AadCached, AfterUpdate
    <1>5. AadCached \in Nat /\ AadCached <= call.aad
        BY <1>2, <1>3 DEF CacheSize
    <1>6. None \in MacBlock
        BY DEF None, MacBlock, Pristine
    <1>7. QED
        BY <1>1, <1>2, <1>3, <1>4, <1>5, <1>6 DEF Inv, Types

\* The prologue's alignment of the MAC: onto a window boundary.
LEMMA AlignFacts ==
    ASSUME Inv, pc = "start"
    PROVE  /\ AlignGap(AadCached) \in 0..3
           /\ AfterUpdate(Ops.poly, AadCached, AlignGap(AadCached)) \in 0..CacheSize
           /\ AfterUpdate(Ops.poly, AadCached, AlignGap(AadCached))
                  <= AadCached + AlignGap(AadCached)
           /\ AfterUpdate(Ops.poly, AadCached, AlignGap(AadCached)) % 4 = 0
    <1>1. /\ Ops.poly \in PolyKinds /\ AadCached \in 0..CacheSize /\ AadCached \in Nat
          /\ Ops.poly = "soft" => AadCached = 0
        BY StartFacts
    <1>2. AlignGap(AadCached) \in 0..3 /\ AlignGap(AadCached) \in Nat
        BY <1>1, AlignGapRange
    <1>3. QED
        BY <1>1, <1>2, UpdateBounds, AlignGapAligns

\* The stream after the AAD and n units of the message.
LEMMA AadThenRead ==
    ASSUME call \in Calls, NEW m, m \in [0..(Units - 1) -> Int],
           NEW n \in Nat, n <= Units
    PROVE  /\ AadBlocks(call.aad) \o Read(m, 0, n) \in Seq(MacBlock)
           /\ Len(AadBlocks(call.aad) \o Read(m, 0, n)) = call.aad + n
    <1>1. call.aad \in Nat
        BY CallFacts
    <1>2. AadBlocks(call.aad) \in Seq(MacBlock) /\ Len(AadBlocks(call.aad)) = call.aad
        BY <1>1, AadType
    <1>3. Read(m, 0, n) \in Seq(MacBlock) /\ Len(Read(m, 0, n)) = n
        <2>1. 0 \in Nat /\ 0 + n <= Units
            OBVIOUS
        <2>2. QED
            BY <2>1, ReadType
    <1> DEFINE b == AadBlocks(call.aad)
               r == Read(m, 0, n)
    <1>4. b \in Seq(MacBlock) /\ r \in Seq(MacBlock) /\ Len(b) = call.aad /\ Len(r) = n
        BY <1>2, <1>3
    <1> HIDE DEF b, r
    <1>5. b \o r \in Seq(MacBlock) /\ Len(b \o r) = Len(b) + Len(r)
        BY <1>4, ConcatProperties
    <1>6. QED
        BY <1>4, <1>5 DEF b, r

\* A message of at most one block.
LEMMA TinyInv ==
    ASSUME Inv, Tiny
    PROVE  Inv'
    <1> DEFINE ct == IF Seal THEN msg' ELSE msg
    <1>1. /\ pc = "start" /\ pc' = "finish" /\ off' = Units /\ poly_off' = Units
          /\ ctr' = Wrap(ctr + 2)
          /\ msg' = Xored(msg, 0, Units, 1)
          /\ mac' = AadBlocks(call.aad) \o Read(ct, 0, Full)
          /\ partial' = PartialOf(ct)
          /\ cached' = AfterUpdate(Ops.poly, AadCached, Full)
          /\ UNCHANGED <<call, broken>>
        BY DEF Tiny, Advanced
    <1>2. /\ call \in Calls /\ Sizes /\ ctr = 0 /\ broken = {} /\ Ops.poly \in PolyKinds
          /\ AadCached \in 0..CacheSize /\ AadCached \in Nat /\ AadCached <= call.aad
          /\ call.aad \in Nat /\ msg \in [0..(Units - 1) -> Int]
        BY <1>1, StartFacts
    <1>3. msg' \in [0..(Units - 1) -> Int]
        BY <1>1, <1>2, XoredType DEF Sizes
    <1>4. ct \in [0..(Units - 1) -> Int]
        BY <1>2, <1>3
    <1> HIDE DEF ct
    <1>5. ctr' \in 0..(CtrMod - 1)
        BY <1>1, <1>2, CtrModAssumption DEF Wrap
    <1>6. partial' \in MacBlock
        BY <1>1, <1>2, <1>4, BlockTypes
    <1>7. mac' \in Seq(MacBlock) /\ Len(mac') = call.aad + Full
        BY <1>1, <1>2, <1>4, AadThenRead DEF Sizes
    <1>8. cached' \in 0..CacheSize /\ cached' <= AadCached + Full
        BY <1>1, <1>2, UpdateBounds DEF Sizes
    <1>9. cached' <= Len(mac')
        BY <1>2, <1>7, <1>8 DEF Sizes, CacheSize
    <1>10. QED
        BY <1>1, <1>2, <1>3, <1>5, <1>6, <1>7, <1>8, <1>9, ReachesEnd

\* The small sweep folds at a window boundary and leaves a cache within its size.
LEMMA SweepFacts ==
    ASSUME Inv, pc = "start"
    PROVE  /\ SweepCached \in 0..CacheSize
           /\ SweepCached <= call.aad + Units + 1
           /\ SweepWindows > 0 => AfterUpdate(Ops.poly, AadCached, SweepGap) % 4 = 0
    <1> DEFINE gap == AlignGap(AadCached)
               aligned == AfterUpdate(Ops.poly, AadCached, SweepGap)
               folded == AfterAbsorb4s(Ops.poly, aligned, SweepWindows)
               rest == Units - SweepGap - 4 * SweepWindows
    <1>1. /\ call.aad \in Nat /\ AadCached <= call.aad /\ AadCached \in Nat
          /\ AadCached \in 0..CacheSize /\ Ops.poly \in PolyKinds
          /\ Full \in Nat /\ Units \in Nat /\ Full <= Units
        BY StartFacts DEF Sizes
    <1>2. gap \in 0..3 /\ gap \in Nat
        BY AlignFacts
    <1>3. SweepCached = AfterUpdate(Ops.poly, folded, rest + 1)
        BY DEF SweepCached
    <1>4. /\ SweepGap \in Nat /\ SweepWindows \in Nat
          /\ SweepGap + 4 * SweepWindows <= Full
          /\ SweepWindows > 0 => SweepGap = gap
        BY <1>1, <1>2 DEF SweepGap, SweepWindows
    <1>5. aligned \in 0..CacheSize /\ aligned <= AadCached + SweepGap
        BY <1>1, <1>4, UpdateBounds
    <1>6. SweepWindows > 0 => aligned % 4 = 0
        BY <1>4, AlignFacts
    <1> HIDE DEF aligned
    <1>7. folded \in 0..CacheSize /\ folded <= aligned + 4 * SweepWindows
        <2>1. CASE SweepWindows > 0
            BY <1>1, <1>4, <1>5, <1>6, <2>1, Absorb4Bounds
        <2>2. CASE ~(SweepWindows > 0)
            <3>1. SweepWindows = 0
                BY <1>4, <2>2
            <3>2. QED
                BY <1>5, <3>1 DEF AfterAbsorb4s, CacheSize
        <2>3. QED
            BY <2>1, <2>2
    <1>8. rest + 1 \in Nat
        BY <1>1, <1>4
    <1> HIDE DEF folded
    <1>9. SweepCached \in 0..CacheSize /\ SweepCached <= folded + (rest + 1)
        BY <1>1, <1>3, <1>7, <1>8, UpdateBounds
    <1>10. SweepCached <= call.aad + Units + 1
        BY <1>1, <1>4, <1>5, <1>7, <1>9 DEF CacheSize
    <1>11. QED
        BY <1>6, <1>9, <1>10 DEF aligned

\* A message of two or three blocks.
LEMMA SmallInv ==
    ASSUME Inv, Small
    PROVE  Inv'
    <1> DEFINE ct == IF Seal THEN msg' ELSE msg
               stream == AadBlocks(call.aad) \o Read(ct, 0, Units)
    <1>1. /\ pc = "start" /\ pc' = "done" /\ off' = Units /\ poly_off' = Units
          /\ Units > 4 /\ Units <= SmallMax
          /\ ctr' = Wrap(ctr + Ops.ks_advance[Blocks(Units)])
          /\ msg' = Xored(msg, 0, Units, 1)
          /\ mac' = stream \o <<LengthsBlock>>
          /\ cached' = SweepCached
          /\ UNCHANGED <<call, partial>>
        BY DEF Small, Advanced
    <1>2. broken' = broken \cup
             Broken(SweepWindows > 0 => AfterUpdate(Ops.poly, AadCached, SweepGap) % 4 = 0,
                    "window not aligned")
        BY DEF Small
    <1>3. /\ call \in Calls /\ Sizes /\ ctr = 0 /\ broken = {} /\ partial = None
          /\ None \in MacBlock /\ call.aad \in Nat /\ msg \in [0..(Units - 1) -> Int]
        BY <1>1, StartFacts
    <1>4. msg' \in [0..(Units - 1) -> Int]
        BY <1>1, <1>3, XoredType DEF Sizes
    <1>5. ct \in [0..(Units - 1) -> Int]
        BY <1>3, <1>4
    <1> HIDE DEF ct
    <1>6. stream \in Seq(MacBlock) /\ Len(stream) = call.aad + Units
        <2>1. Units \in Nat /\ Units <= Units
            BY <1>3 DEF Sizes
        <2>2. QED
            BY <1>3, <1>5, <2>1, AadThenRead
    <1> HIDE DEF stream
    <1>7. mac' \in Seq(MacBlock) /\ Len(mac') = call.aad + Units + 1
        <2> DEFINE last == <<LengthsBlock>>
        <2>1. last \in Seq(MacBlock) /\ Len(last) = 1
            BY DEF LengthsBlock, MacBlock, Pristine
        <2> HIDE DEF last
        <2>2. stream \o last \in Seq(MacBlock) /\ Len(stream \o last) = Len(stream) + Len(last)
            BY <1>6, <2>1, ConcatProperties
        <2>3. QED
            BY <1>1, <1>6, <2>1, <2>2 DEF last
    <1>8. SweepCached \in 0..CacheSize /\ SweepCached <= call.aad + Units + 1 /\ broken' = {}
        BY <1>1, <1>2, <1>3, SweepFacts DEF Broken
    <1>9. ctr' \in 0..(CtrMod - 1)
        <2>1. Blocks(Units) \in 0..3
            BY <1>1, <1>3 DEF Blocks, SmallMax, Sizes
        <2>2. Ops.ks_advance[Blocks(Units)] \in 0..5
            BY <1>3, <2>1, OpsFacts
        <2>3. QED
            BY <1>1, <1>3, <2>2, CtrModAssumption DEF Wrap
    <1>10. cached' \in 0..CacheSize /\ cached' <= Len(mac')
        BY <1>1, <1>7, <1>8
    <1>11. QED
        BY <1>1, <1>3, <1>4, <1>7, <1>8, <1>9, <1>10, ReachesEnd

\* A message the direct kernel seals whole.
LEMMA SealDirectInv ==
    ASSUME Inv, SealDirect
    PROVE  Inv'
    <1> DEFINE s == AlignGap(AadCached)
               aligned == AfterUpdate(Ops.poly, AadCached, s)
    <1>1. /\ pc = "start" /\ pc' = "finish" /\ off' = Units /\ poly_off' = Units
          /\ Units > SmallMax /\ GoesDirect
          /\ ctr' = 1 + Blocks(Units)
          /\ msg' = Xored(msg, 0, Units, 1)
          /\ mac' = AadBlocks(call.aad) \o Read(msg', 0, Full)
          /\ partial' = PartialOf(msg')
          /\ cached' = AfterUpdateTail(Ops.poly, aligned, Full - s)
          /\ broken' = broken
               \cup Broken(1 + Blocks(Units) <= DirectBlocks, "kernel too narrow")
               \cup Broken(aligned % 4 = 0, "window not aligned")
          /\ UNCHANGED call
        BY DEF SealDirect
    <1>2. /\ call \in Calls /\ Sizes /\ broken = {} /\ call.aad \in Nat
          /\ AadCached \in Nat /\ AadCached <= call.aad /\ Ops.poly \in PolyKinds
          /\ msg \in [0..(Units - 1) -> Int]
        BY <1>1, StartFacts
    <1>3. s \in 0..3 /\ aligned \in 0..CacheSize /\ aligned <= AadCached + s /\ aligned % 4 = 0
        BY <1>1, AlignFacts
    <1> HIDE DEF aligned, s
    <1>4. Units \in Nat /\ Full \in Nat /\ Units > 12 /\ Units <= 60 /\ Units <= Full + 1
        <2>1. Ops.direct_seal_max \in 0..60
            BY <1>2, OpsFacts
        <2>2. Units > 12 /\ Units <= Ops.direct_seal_max
            BY <1>1 DEF GoesDirect, SmallMax
        <2>3. Units \in Nat /\ Full \in Nat /\ Units <= Full + 1
            BY <1>2 DEF Sizes
        <2>4. Ops.direct_seal_max <= 60 /\ Ops.direct_seal_max \in Nat
            BY <2>1
        <2>5. QED
            BY <2>2, <2>3, <2>4
    <1>5. 1 + Blocks(Units) <= DirectBlocks /\ 1 + Blocks(Units) \in 0..16
        BY <1>4 DEF Blocks, DirectBlocks
    <1>6. ctr' \in 0..(CtrMod - 1)
        <2>1. ctr' = 1 + Blocks(Units)
            BY <1>1
        <2>2. QED
            BY <1>5, <2>1, CtrModAssumption
    <1>7. broken' = {}
        BY <1>1, <1>2, <1>3, <1>5 DEF Broken
    <1>8. msg' \in [0..(Units - 1) -> Int]
        BY <1>1, <1>2, XoredType DEF Sizes
    <1>9. partial' \in MacBlock
        BY <1>1, <1>2, <1>8, BlockTypes
    <1>10. mac' \in Seq(MacBlock) /\ Len(mac') = call.aad + Full
        BY <1>1, <1>2, <1>8, AadThenRead DEF Sizes
    <1>11. Full - s \in Nat
        BY <1>3, <1>4
    <1>12. cached' \in 0..CacheSize /\ cached' <= aligned + (Full - s)
        BY <1>1, <1>2, <1>3, <1>11, UpdateTailBounds
    <1>13. cached' <= Len(mac')
        BY <1>2, <1>3, <1>4, <1>10, <1>12 DEF CacheSize
    <1>14. QED
        BY <1>1, <1>2, <1>6, <1>7, <1>8, <1>9, <1>10, <1>12, <1>13, ReachesEnd

\* The first block's keystream leaves the counter on the second's.
LEMMA AfterFirstBlock ==
    ASSUME ctr = 0, ctr' = Wrap(ctr + 2), off' = 4
    PROVE  ctr' = Wrap(1 + Blocks(off')) /\ ctr' \in 0..(CtrMod - 1)
    <1>1. Blocks(4) = 1
        BY DEF Blocks
    <1>2. QED
        BY <1>1, CtrModAssumption DEF Wrap

\* The seal prologue.
LEMMA PrologueSealInv ==
    ASSUME Inv, PrologueSeal
    PROVE  Inv'
    <1> DEFINE s == AlignGap(AadCached)
    <1>1. /\ pc = "start" /\ pc' = "bulk" /\ off' = 4 /\ poly_off' = s /\ Seal
          /\ Units > SmallMax
          /\ ctr' = Wrap(ctr + 2)
          /\ msg' = Xored(msg, 0, 4, 1)
          /\ mac' = AadBlocks(call.aad) \o Read(msg', 0, s)
          /\ cached' = AfterUpdate(Ops.poly, AadCached, s)
          /\ UNCHANGED <<call, partial, broken>>
        BY DEF PrologueSeal, Advanced
    <1>2. /\ call \in Calls /\ Sizes /\ broken = {} /\ partial = None /\ ctr = 0
          /\ call.aad \in Nat /\ AadCached \in Nat /\ AadCached <= call.aad
          /\ msg \in [0..(Units - 1) -> Int]
        BY <1>1, StartFacts
    <1>3. /\ s \in 0..3 /\ cached' \in 0..CacheSize /\ cached' <= AadCached + s
          /\ cached' % 4 = 0
        BY <1>1, AlignFacts
    <1> HIDE DEF s
    <1>4. Units \in Nat /\ Full \in Nat /\ Full >= 12 /\ Full <= Units /\ s \in Nat /\ s <= Units
        BY <1>1, <1>2, <1>3 DEF SmallMax, Sizes
    <1>5. msg' \in [0..(Units - 1) -> Int]
        BY <1>1, <1>2, XoredType
    <1>6. mac' \in Seq(MacBlock) /\ Len(mac') = call.aad + s
        BY <1>1, <1>2, <1>4, <1>5, AadThenRead
    <1>7. cached' <= Len(mac')
        BY <1>2, <1>3, <1>4, <1>6 DEF CacheSize
    <1>8. ctr' = Wrap(1 + Blocks(off')) /\ ctr' \in 0..(CtrMod - 1)
        BY <1>1, <1>2, AfterFirstBlock
    <1>9. /\ off' \in Nat /\ off' <= Units /\ off' <= Full /\ off' % 4 = 0
          /\ poly_off' \in Nat /\ poly_off' <= Full /\ poly_off' <= off'
        BY <1>1, <1>3, <1>4
    <1>10. pc' \in Inside
        BY <1>1 DEF Inside
    <1>11. QED
        BY <1>1, <1>2, <1>3, <1>5, <1>6, <1>7, <1>8, <1>9, <1>10, StaysInside

\* The open prologue.
LEMMA PrologueOpenInv ==
    ASSUME Inv, PrologueOpen
    PROVE  Inv'
    <1> DEFINE s == AlignGap(AadCached)
               aligned == AfterUpdate(Ops.poly, AadCached, s)
    <1>1. /\ pc = "start" /\ pc' = "bulk" /\ off' = 4 /\ poly_off' = s + 4 /\ ~Seal
          /\ Units > SmallMax
          /\ ctr' = Wrap(ctr + 2)
          /\ msg' = Xored(msg, 0, 4, 1)
          /\ mac' = AadBlocks(call.aad) \o Read(msg, 0, s + 4)
          /\ cached' = AfterAbsorb4(Ops.poly, aligned)
          /\ broken' = broken
               \cup Broken(aligned % 4 = 0, "window not aligned")
               \cup Broken(InBounds(s, 4), "slice out of bounds")
          /\ UNCHANGED <<call, partial>>
        BY DEF PrologueOpen, Advanced
    <1>2. /\ call \in Calls /\ Sizes /\ broken = {} /\ partial = None /\ ctr = 0
          /\ call.aad \in Nat /\ Ops.poly \in PolyKinds
          /\ msg \in [0..(Units - 1) -> Int]
        BY <1>1, StartFacts
    <1>3. s \in 0..3 /\ aligned \in 0..CacheSize /\ aligned % 4 = 0
        BY <1>1, AlignFacts
    <1> HIDE DEF s, aligned
    <1>4. /\ Units \in Nat /\ Full \in Nat /\ Full >= 12 /\ Full <= Units
          /\ s \in Nat /\ s + 4 \in Nat /\ s + 4 <= Full /\ s + 4 <= Units
        <2>1. Units > 12
            BY <1>1 DEF SmallMax
        <2>2. QED
            BY <1>2, <1>3, <2>1 DEF Sizes
    <1>5. msg' \in [0..(Units - 1) -> Int]
        BY <1>1, <1>2, XoredType
    <1>6. mac' \in Seq(MacBlock) /\ Len(mac') = call.aad + (s + 4)
        BY <1>1, <1>2, <1>4, AadThenRead
    <1>7. cached' \in {0, 4}
        BY <1>1, <1>2, <1>3, Absorb4Bounds
    <1>8. cached' \in 0..CacheSize /\ cached' % 4 = 0 /\ cached' <= Len(mac')
        <2>1. call.aad \in Nat /\ Len(mac') = call.aad + (s + 4)
            BY <1>2, <1>6
        <2>2. cached' = 0 \/ cached' = 4
            BY <1>7
        <2>3. QED
            BY <1>4, <2>1, <2>2 DEF CacheSize
    <1>9. ctr' = Wrap(1 + Blocks(off')) /\ ctr' \in 0..(CtrMod - 1)
        BY <1>1, <1>2, AfterFirstBlock
    <1>10. /\ off' \in Nat /\ off' <= Units /\ off' <= Full /\ off' % 4 = 0
           /\ poly_off' \in Nat /\ poly_off' <= Full /\ off' <= poly_off'
        <2>1. off' = 4 /\ poly_off' = s + 4
            BY <1>1
        <2>2. QED
            BY <1>4, <2>1
    <1>11. broken' = {}
        BY <1>1, <1>2, <1>3, <1>4 DEF Broken, InBounds
    <1>12. pc' \in Inside
        BY <1>1 DEF Inside
    <1>13. QED
        BY <1>1, <1>2, <1>5, <1>6, <1>8, <1>9, <1>10, <1>11, <1>12, StaysInside

-----------------------------------------------------------------------------
(* The theorems.                                                            *)

\* The invariant holds of a fresh call.
LEMMA InitInv ==
    ASSUME Init
    PROVE  Inv
    <1>1. /\ call \in Calls /\ pc = "start" /\ off = 0 /\ poly_off = 0 /\ ctr = 0
          /\ msg = [u \in 0..(Units - 1) |-> Pristine]
          /\ mac = << >> /\ cached = 0 /\ partial = None /\ broken = {}
        BY DEF Init
    <1>2. Units \in Nat
        BY <1>1, CallFacts
    <1>3. None \in MacBlock /\ << >> \in Seq(MacBlock) /\ Len(<< >>) = 0
        BY DEF None, MacBlock, Pristine
    <1>4. msg \in [0..(Units - 1) -> Int]
        BY <1>1 DEF Pristine
    <1>5. Types
        BY <1>1, <1>2, <1>3, <1>4, CtrModAssumption DEF Types, Stages, CacheSize
    <1>6. AtStart /\ Aligned /\ CursorOrder /\ MediumLeft /\ AtEnd /\ ContractsKept
        BY <1>1 DEF AtStart, Aligned, Inside, CursorOrder, MediumLeft, AtEnd, ContractsKept
    <1>7. QED
        BY <1>5, <1>6 DEF Inv

\* A stutter keeps it.
LEMMA StutterInv ==
    ASSUME Inv, UNCHANGED vars
    PROVE  Inv'
    <1>1. /\ call' = call /\ pc' = pc /\ off' = off /\ poly_off' = poly_off /\ ctr' = ctr
          /\ msg' = msg /\ mac' = mac /\ cached' = cached /\ partial' = partial
          /\ broken' = broken
        BY DEF vars
    <1>2. Seal' = Seal /\ Ops' = Ops /\ Full' = Full /\ Units' = Units
        BY <1>1, SameCall
    <1>3. Types' /\ AtStart'
        BY <1>1, <1>2 DEF Inv, Types, AtStart
    <1>4. Aligned'
        BY <1>1, <1>2 DEF Inv, Aligned, Wrap, Blocks
    <1>5. CursorOrder' /\ MediumLeft' /\ AtEnd' /\ ContractsKept'
        BY <1>1, <1>2 DEF Inv, CursorOrder, MediumLeft, AtEnd, ContractsKept
    <1>6. QED
        BY <1>3, <1>4, <1>5 DEF Inv

\* Every step keeps it.
LEMMA NextInv ==
    ASSUME Inv, Next
    PROVE  Inv'
    BY TinyInv, SmallInv, SealDirectInv, PrologueSealInv, PrologueOpenInv, SealBulkInv,
       SealStepInv, OpenPairInv, OpenBulkInv, OpenStepInv, LeaveBulkInv, SkipMediumInv,
       SealMediumAheadInv, SealMediumWeaveInv, OpenMediumEnterInv, OpenMediumWeaveInv,
       OpenMediumLastInv, DrainLagInv, FinishCursorsInv, FinishInv
       DEF Next

\* The invariant the others follow from: the cursors, the cache count, the
\* counter and the contracts at every stage of process().
THEOREM InvHolds == Spec => []Inv
    <1>1. Init => Inv
        BY InitInv
    <1>2. Inv /\ [Next]_vars => Inv'
        BY NextInv, StutterInv
    <1>3. QED
        BY <1>1, <1>2, PTL DEF Spec

\* Type correctness.
THEOREM TypesHold == Spec => []TypeOK
    <1>1. Inv => TypeOK
        <2> SUFFICES ASSUME Inv PROVE TypeOK
            OBVIOUS
        <2>1. Types
            BY DEF Inv
        <2>2. Units \in Nat
            BY <2>1, CallFacts DEF Types
        <2>3. pc \in {"start", "bulk", "medium", "weave", "drain", "tail", "finish", "done"}
            BY <2>1 DEF Types, Stages
        <2>4. off \in 0..Units /\ poly_off \in 0..Units
            BY <2>1, <2>2 DEF Types
        <2>5. Len(mac) >= cached
            BY <2>1, LenProperties DEF Types, CacheSize
        <2>6. QED
            BY <2>1, <2>3, <2>4, <2>5 DEF TypeOK, Types
    <1>2. QED
        BY <1>1, InvHolds, PTL

\* No step of any call breaks a contract of what it calls: every window the
\* MAC absorbs is aligned and lies within the message, no cursor subtraction
\* underflows, no kernel is asked for more than its width (aead.rs,
\* poly1305/mod.rs, chacha/avx512.rs).
THEOREM ContractsHold == Spec => []ContractsKept
    <1>1. Inv => ContractsKept
        BY DEF Inv
    <1>2. QED
        BY <1>1, InvHolds, PTL

\* A sealing MAC never overtakes the cipher and an opening one never falls
\* behind it, for any length, AAD and backend (aead.rs, the cursor comment).
THEOREM CursorsOrdered == Spec => []CursorOrder
    <1>1. Inv => CursorOrder
        BY DEF Inv
    <1>2. QED
        BY <1>1, InvHolds, PTL

\* Wherever a kernel takes over, the counter is that of the cursor's block,
\* for every width of the counter (chacha/mod.rs, advance; aead.rs, MAX_LEN).
THEOREM CounterFollows == Spec => []CounterMatchesCursor
    <1>1. Inv => CounterMatchesCursor
        BY DEF Inv, Aligned, Inside, CounterMatchesCursor
    <1>2. QED
        BY <1>1, InvHolds, PTL

-----------------------------------------------------------------------------
(* What a call does to its bytes.  Inv speaks of cursors; Contents says     *)
(* that the buffer is a function of the keystream cursor, and the stream of *)
(* the MAC cursor.  StreamInOrder, CallComplete and KeystreamOnce follow    *)
(* from both, and so does the refinement of InPlaceAead, whose every        *)
(* variable is a function of the call and of one cursor.                    *)

-----------------------------------------------------------------------------
(* What the buffer and the stream hold.                                     *)

\* The buffer once the keystream has come to position o.
Buffer(o) == [u \in 0..(Units - 1) |-> IF u < o THEN 4 + u ELSE Pristine]

Written == msg = Buffer(off)

\* The stream the MAC has hashed at each stage; the partial unit waits outside
\* it between the tail and the epilogue.
Hashed ==
    /\ pc \in Inside => mac = Stream(call.aad + poly_off)
    /\ pc = "finish" =>
         /\ mac = Stream(call.aad + Full)
         /\ partial = IF call.part THEN StreamBlock(call.aad + Full + 1) ELSE None
    /\ pc = "done" => mac = Stream(call.aad + Units + 1) /\ partial = None

\* Where a medium kernel is about to fold past the cache, the cache is empty,
\* or there is nothing left to fold past it.
Parked ==
    pc = "weave" =>
        \/ cached = 0
        \/ cached = 4 /\ (IF Seal THEN off ELSE Full) - poly_off < 4

Contents == Written /\ Hashed /\ Parked

-----------------------------------------------------------------------------
(* The keystream.                                                           *)

\* From a block boundary of the message on, the counter of that block gives
\* every unit its own keystream unit, up to the end of the counter's width.
LEMMA OwnUnit ==
    ASSUME call \in Calls, NEW o \in Nat, o % 4 = 0,
           NEW u \in Nat, o <= u, u < Units
    PROVE  KsUnit(Wrap(1 + Blocks(o)), u - o) = 4 + u
    <1> DEFINE j == u - o
               d == j \div 4
               r == j % 4
               b == o \div 4
    <1>1. Units \in Nat /\ Units <= 4 * (CtrMod - 1) /\ CtrMod \in Nat
        BY CallFacts
    <1>2. j \in Nat /\ d \in Nat /\ r \in 0..3 /\ j = 4 * d + r
        OBVIOUS
    <1>3. b \in Nat /\ o = 4 * b /\ Blocks(o) = b
        BY DEF Blocks
    <1>4. KsUnit(Wrap(1 + Blocks(o)), j) = 4 * Wrap(Wrap(1 + Blocks(o)) + d) + r
        BY DEF KsUnit
    <1>5. u = 4 * (b + d) + r
        BY <1>2, <1>3
    <1> HIDE DEF d, r, b
    <1>6. 1 + b + d < CtrMod
        BY <1>1, <1>2, <1>3, <1>5
    <1>7. Wrap(1 + Blocks(o)) = 1 + b /\ Wrap((1 + b) + d) = 1 + b + d
        BY <1>1, <1>2, <1>3, <1>6 DEF Wrap
    <1>8. KsUnit(Wrap(1 + Blocks(o)), j) = 4 * (1 + b + d) + r
        BY <1>4, <1>7
    <1>9. QED
        BY <1>2, <1>3, <1>5, <1>8

\* XORing n units at the cursor carries the buffer from one cursor to the next.
LEMMA XoredBuffer ==
    ASSUME call \in Calls, NEW o \in Nat, o % 4 = 0, NEW n \in Nat, o + n <= Units
    PROVE  Xored(Buffer(o), o, n, Wrap(1 + Blocks(o))) = Buffer(o + n)
    <1> DEFINE c == Wrap(1 + Blocks(o))
    <1>1. Units \in Nat
        BY CallFacts
    <1>2. ASSUME NEW u \in 0..(Units - 1)
          PROVE  (IF o <= u /\ u < o + n
                  THEN XorUnit(Buffer(o)[u], KsUnit(c, u - o))
                  ELSE Buffer(o)[u]) = Buffer(o + n)[u]
        <2>1. u \in Nat /\ u < Units
            BY <1>1
        <2>2. /\ Buffer(o)[u] = IF u < o THEN 4 + u ELSE Pristine
              /\ Buffer(o + n)[u] = IF u < o + n THEN 4 + u ELSE Pristine
            BY DEF Buffer
        <2>3. CASE o <= u /\ u < o + n
            <3>1. KsUnit(c, u - o) = 4 + u
                BY <2>1, <2>3, OwnUnit
            <3>2. Buffer(o)[u] = Pristine /\ Buffer(o + n)[u] = 4 + u
                BY <2>1, <2>2, <2>3
            <3>3. QED
                BY <2>3, <3>1, <3>2 DEF XorUnit
        <2>4. CASE ~(o <= u /\ u < o + n)
            BY <2>1, <2>2, <2>4
        <2>5. QED
            BY <2>3, <2>4
    <1>3. DOMAIN Buffer(o) = 0..(Units - 1)
        BY DEF Buffer
    <1>4. Xored(Buffer(o), o, n, c) =
              [u \in 0..(Units - 1) |-> IF o <= u /\ u < o + n
                                        THEN XorUnit(Buffer(o)[u], KsUnit(c, u - o))
                                        ELSE Buffer(o)[u]]
        BY <1>3 DEF Xored
    <1> HIDE DEF c
    <1>5. Buffer(o + n) = [u \in 0..(Units - 1) |-> Buffer(o + n)[u]]
        BY DEF Buffer
    <1>6. Xored(Buffer(o), o, n, c) = Buffer(o + n)
        BY <1>2, <1>4, <1>5
    <1>7. QED
        BY <1>6 DEF c

\* The same from the first block, where every path starts.
LEMMA XoredFirst ==
    ASSUME call \in Calls, NEW n \in Nat, n <= Units
    PROVE  Xored(Buffer(0), 0, n, 1) = Buffer(n)
    <1>1. Wrap(1 + Blocks(0)) = 1
        BY CtrModAssumption DEF Blocks, Wrap
    <1>2. 0 \in Nat /\ 0 % 4 = 0 /\ 0 + n = n
        OBVIOUS
    <1>3. Xored(Buffer(0), 0, n, Wrap(1 + Blocks(0))) = Buffer(0 + n)
        BY <1>2, XoredBuffer
    <1>4. QED
        BY <1>1, <1>2, <1>3

\* A step that encrypts n units.
LEMMA EncryptWrites ==
    ASSUME Types, Written, ctr = Wrap(1 + Blocks(off)), off % 4 = 0,
           NEW n \in Nat, off + n <= Units, Encrypt(n)
    PROVE  off' = off + n /\ msg' = Buffer(off')
    <1>1. off' = off + n /\ msg' = Xored(msg, off, n, ctr)
        BY DEF Encrypt
    <1>2. call \in Calls /\ off \in Nat
        BY DEF Types
    <1>3. Xored(Buffer(off), off, n, Wrap(1 + Blocks(off))) = Buffer(off + n)
        BY <1>2, XoredBuffer
    <1>4. QED
        BY <1>1, <1>3 DEF Written

-----------------------------------------------------------------------------
(* The stream.                                                              *)

\* The stream is a sequence of blocks.
LEMMA StreamType ==
    ASSUME call \in Calls, NEW n \in Nat
    PROVE  /\ Stream(n) \in Seq(MacBlock)
           /\ Len(Stream(n)) = n
           /\ \A i \in 1..n : Stream(n)[i] = StreamBlock(i)
    <1>1. call.aad \in Nat /\ Units \in Nat /\ Seal \in BOOLEAN
        BY CallFacts
    <1>2. \A i \in 1..n : StreamBlock(i) \in MacBlock
        BY <1>1 DEF StreamBlock, AadBlock, LengthsBlock, Ciphertext, MacBlock, Pristine
    <1>3. QED
        BY <1>2 DEF Stream

\* Extending the stream by the blocks that come next.
LEMMA StreamExtends ==
    ASSUME call \in Calls, NEW n \in Nat, NEW k \in Nat,
           NEW b \in Seq(MacBlock), Len(b) = k,
           \A i \in 1..k : b[i] = StreamBlock(n + i)
    PROVE  Stream(n) \o b = Stream(n + k)
    <1>1. /\ Stream(n) \in Seq(MacBlock) /\ Len(Stream(n)) = n
          /\ \A i \in 1..n : Stream(n)[i] = StreamBlock(i)
        BY StreamType
    <1>2. /\ Stream(n + k) \in Seq(MacBlock) /\ Len(Stream(n + k)) = n + k
          /\ \A i \in 1..(n + k) : Stream(n + k)[i] = StreamBlock(i)
        <2>1. n + k \in Nat
            OBVIOUS
        <2>2. QED
            BY <2>1, StreamType
    <1> DEFINE s == Stream(n)
               t == Stream(n + k)
    <1> HIDE DEF s, t
    <1>3. /\ s \o b \in Seq(MacBlock) /\ Len(s \o b) = n + k
          /\ \A i \in 1..(n + k) : (s \o b)[i] = IF i <= n THEN s[i] ELSE b[i - n]
        <2>1. s \in Seq(MacBlock) /\ Len(s) = n
            BY <1>1 DEF s
        <2>2. QED
            BY <2>1, ConcatProperties
    <1>4. ASSUME NEW i \in 1..(n + k)
          PROVE  (s \o b)[i] = t[i]
        <2>1. t[i] = StreamBlock(i)
            BY <1>2 DEF t
        <2>2. CASE i <= n
            <3>1. i \in 1..n
                BY <2>2
            <3>2. QED
                BY <1>1, <1>3, <2>1, <2>2, <3>1 DEF s
        <2>3. CASE ~(i <= n)
            <3>1. i - n \in 1..k /\ n + (i - n) = i
                BY <2>3
            <3>2. b[i - n] = StreamBlock(n + (i - n))
                BY <3>1
            <3>3. (s \o b)[i] = b[i - n]
                BY <1>3, <2>3
            <3>4. QED
                BY <2>1, <3>1, <3>2, <3>3
        <2>4. QED
            BY <2>2, <2>3
    <1>5. t \in Seq(MacBlock) /\ Len(t) = n + k
        BY <1>2 DEF t
    <1>6. s \o b = t
        BY <1>3, <1>4, <1>5, SeqEqual
    <1>7. QED
        BY <1>6 DEF s, t

\* Units read on the side where they are ciphertext come next in the stream.
LEMMA ReadExtends ==
    ASSUME call \in Calls, NEW o \in Nat, NEW from \in Nat, NEW n \in Nat,
           from + n <= Units,
           IF Seal THEN n = 0 \/ from + n <= o ELSE n = 0 \/ o <= from
    PROVE  Stream(call.aad + from) \o Read(Buffer(o), from, n)
             = Stream(call.aad + (from + n))
    <1> DEFINE b == Read(Buffer(o), from, n)
    <1>1. call.aad \in Nat /\ Units \in Nat /\ Seal \in BOOLEAN
        BY CallFacts
    <1>2. Buffer(o) \in [0..(Units - 1) -> Int]
        BY <1>1 DEF Buffer, Pristine
    <1>3. b \in Seq(MacBlock) /\ Len(b) = n
        BY <1>2, ReadType
    <1>4. ASSUME NEW i \in 1..n
          PROVE  b[i] = StreamBlock((call.aad + from) + i)
        <2> DEFINE u == from + i - 1
                   p == (call.aad + from) + i
        <2>1. u \in 0..(Units - 1) /\ p \in Nat /\ p > call.aad
              /\ p <= call.aad + Units /\ p - call.aad - 1 = u
            BY <1>1
        <2>2. b[i] = [blk |-> "msg", at |-> u, content |-> Buffer(o)[u]]
            BY DEF Read, MsgBlock
        <2>3. Buffer(o)[u] = Ciphertext(u)
            <3>1. Buffer(o)[u] = IF u < o THEN 4 + u ELSE Pristine
                BY <2>1 DEF Buffer
            <3>2. Seal => u < o
                OBVIOUS
            <3>3. ~Seal => ~(u < o)
                OBVIOUS
            <3>4. QED
                BY <1>1, <3>1, <3>2, <3>3 DEF Ciphertext
        <2>4. StreamBlock(p) = [blk |-> "msg", at |-> p - call.aad - 1,
                                content |-> Ciphertext(p - call.aad - 1)]
            BY <1>1, <2>1 DEF StreamBlock
        <2> HIDE DEF u
        <2>5. QED
            BY <2>1, <2>2, <2>3, <2>4
    <1> HIDE DEF b
    <1>5. call.aad + from \in Nat
        BY <1>1
    <1>6. Stream(call.aad + from) \o b = Stream((call.aad + from) + n)
        BY <1>3, <1>4, <1>5, StreamExtends
    <1>7. (call.aad + from) + n = call.aad + (from + n)
        BY <1>1
    <1>8. QED
        BY <1>6, <1>7 DEF b

\* The AAD starts the stream.
LEMMA AadStarts ==
    ASSUME call \in Calls
    PROVE  AadBlocks(call.aad) = Stream(call.aad)
    <1>1. call.aad \in Nat
        BY CallFacts
    <1>2. QED
        BY <1>1 DEF AadBlocks, Stream, StreamBlock

\* The lengths block ends it.
LEMMA LengthsEnd ==
    ASSUME call \in Calls
    PROVE  Stream(call.aad + Units) \o <<LengthsBlock>> = Stream(call.aad + Units + 1)
    <1> DEFINE n == call.aad + Units
               b == <<LengthsBlock>>
    <1>1. call.aad \in Nat /\ Units \in Nat
        BY CallFacts
    <1>2. n \in Nat
        BY <1>1
    <1>3. b \in Seq(MacBlock) /\ Len(b) = 1
        BY DEF LengthsBlock, MacBlock, Pristine
    <1>4. StreamBlock(n + 1) = LengthsBlock
        BY <1>1 DEF StreamBlock
    <1>5. \A i \in 1..1 : b[i] = StreamBlock(n + i)
        BY <1>4
    <1> HIDE DEF n, b
    <1>6. 1 \in Nat /\ Stream(n) \o b = Stream(n + 1)
        BY <1>2, <1>3, <1>5, StreamExtends
    <1>7. QED
        BY <1>6 DEF n, b

\* The padded rest of the message comes after its whole units.
LEMMA PartialComes ==
    ASSUME call \in Calls, call.part
    PROVE  /\ StreamBlock(call.aad + Full + 1) \in MacBlock
           /\ StreamBlock(call.aad + Full + 1).blk = "msg"
           /\ Stream(call.aad + Full) \o <<StreamBlock(call.aad + Full + 1)>>
                = Stream(call.aad + Units)
    <1> DEFINE n == call.aad + Full
               b == <<StreamBlock(n + 1)>>
    <1>1. call.aad \in Nat /\ Full \in Nat /\ Units = Full + 1 /\ Seal \in BOOLEAN
        BY CallFacts DEF Units
    <1>2. n \in Nat /\ n + 1 = call.aad + Units
        BY <1>1
    <1>3. StreamBlock(n + 1) \in MacBlock /\ StreamBlock(n + 1).blk = "msg"
        BY <1>1 DEF StreamBlock, Ciphertext, MacBlock, Pristine
    <1>4. b \in Seq(MacBlock) /\ Len(b) = 1 /\ \A i \in 1..1 : b[i] = StreamBlock(n + i)
        BY <1>3
    <1> HIDE DEF n, b
    <1>5. 1 \in Nat /\ Stream(n) \o b = Stream(n + 1)
        BY <1>2, <1>4, StreamExtends
    <1>6. QED
        BY <1>2, <1>3, <1>5 DEF n, b

\* What the wrapper holds back of the message is that block.
LEMMA PartialIs ==
    ASSUME call \in Calls, NEW o \in Nat, IF Seal THEN Units <= o ELSE o <= Full
    PROVE  PartialOf(Buffer(o)) =
               IF call.part THEN StreamBlock(call.aad + Full + 1) ELSE None
    <1>1. /\ call.aad \in Nat /\ Full \in Nat /\ Seal \in BOOLEAN
          /\ call.part => Units = Full + 1
        BY CallFacts DEF Units
    <1>2. CASE call.part
        <2>1. Buffer(o)[Full] = Ciphertext(Full)
            BY <1>1, <1>2 DEF Buffer, Ciphertext
        <2>2. StreamBlock(call.aad + Full + 1) =
                  [blk |-> "msg", at |-> Full, content |-> Ciphertext(Full)]
            <3> DEFINE p == call.aad + Full + 1
            <3>1. ~(p <= call.aad) /\ p <= call.aad + Units /\ p - call.aad - 1 = Full
                BY <1>1, <1>2
            <3> HIDE DEF p
            <3>2. StreamBlock(p) = [blk |-> "msg", at |-> Full, content |-> Ciphertext(Full)]
                BY <3>1 DEF StreamBlock
            <3>3. QED
                BY <3>2 DEF p
        <2>3. QED
            BY <1>2, <2>1, <2>2 DEF PartialOf, MsgBlock
    <1>3. CASE ~call.part
        BY <1>3 DEF PartialOf
    <1>4. QED
        BY <1>2, <1>3

\* Folding past an empty cache appends.
LEMMA FoldedEmpty ==
    ASSUME NEW s \in Seq(MacBlock), NEW b \in Seq(MacBlock)
    PROVE  FoldedDirect(s, 0, b) = s \o b
    <1>1. Len(s) \in Nat /\ Len(s) - 0 = Len(s)
        OBVIOUS
    <1>2. FoldedDirect(s, 0, b) = SubSeq(s, 1, Len(s)) \o b \o SubSeq(s, Len(s) + 1, Len(s))
        BY <1>1 DEF FoldedDirect
    <1>3. SubSeq(s, 1, Len(s)) = s
        BY SubSeqFull
    <1>4. SubSeq(s, Len(s) + 1, Len(s)) = << >>
        BY <1>1, SubSeqEmpty
    <1>5. s \o b \in Seq(MacBlock)
        BY ConcatProperties
    <1>6. (s \o b) \o << >> = s \o b
        BY <1>5, ConcatEmptySeq
    <1>7. QED
        BY <1>2, <1>3, <1>4, <1>6

\* Folding nothing changes nothing.
LEMMA FoldedNothing ==
    ASSUME NEW s \in Seq(MacBlock), NEW c \in 0..Len(s)
    PROVE  FoldedDirect(s, c, << >>) = s
    <1> DEFINE h == Len(s) - c
    <1>1. Len(s) \in Nat /\ h \in 0..Len(s) /\ h \in Nat
        OBVIOUS
    <1>2. FoldedDirect(s, c, << >>) = SubSeq(s, 1, h) \o << >> \o SubSeq(s, h + 1, Len(s))
        BY DEF FoldedDirect
    <1> HIDE DEF h
    <1>3. SubSeq(s, 1, h) \in Seq(MacBlock)
        BY <1>1, SubSeqProperties
    <1>4. SubSeq(s, 1, h) \o << >> = SubSeq(s, 1, h)
        BY <1>3, ConcatEmptySeq
    <1>5. SubSeq(s, 1, h) \o SubSeq(s, h + 1, Len(s)) = SubSeq(s, 1, Len(s))
        <2>1. 1 \in 1..(Len(s) + 1) /\ h \in (1 - 1)..Len(s) /\ Len(s) \in h..Len(s)
            BY <1>1
        <2>2. QED
            BY <2>1, ConcatAdjacentSubSeq
    <1>6. SubSeq(s, 1, Len(s)) = s
        BY SubSeqFull
    <1>7. QED
        BY <1>2, <1>4, <1>5, <1>6

\* How much of the whole stream the MAC has, the partial unit included once
\* the tail has handed it over.
Taken ==
    IF pc = "start" THEN 0
    ELSE IF pc \in Inside THEN call.aad + poly_off
    ELSE IF pc = "finish" THEN call.aad + Units ELSE call.aad + Units + 1

\* No cursor ever moves back.
Forward == call' = call /\ off <= off' /\ Taken <= Taken'

\* A step inside the loop and its kernels.
LEMMA InsideContents ==
    ASSUME call' = call, pc' \in Inside, msg' = Buffer(off'),
           mac' = Stream(call.aad + poly_off'), Parked'
    PROVE  Contents'
    <1>1. Seal' = Seal /\ Ops' = Ops /\ Full' = Full /\ Units' = Units
        BY SameCall
    <1>2. Written'
        BY <1>1 DEF Written, Buffer
    <1>3. Hashed'
        BY <1>1 DEF Hashed, Inside, Stream, StreamBlock, Ciphertext
    <1>4. QED
        BY <1>2, <1>3 DEF Contents

\* A step that hands over to the epilogue.
LEMMA FinishContents ==
    ASSUME call' = call, pc' = "finish", msg' = Buffer(off'),
           mac' = Stream(call.aad + Full),
           partial' = IF call.part THEN StreamBlock(call.aad + Full + 1) ELSE None
    PROVE  Contents'
    <1>1. Seal' = Seal /\ Ops' = Ops /\ Full' = Full /\ Units' = Units
        BY SameCall
    <1>2. Written'
        BY <1>1 DEF Written, Buffer
    <1>3. Hashed'
        BY <1>1 DEF Hashed, Inside, Stream, StreamBlock, Ciphertext
    <1>4. Parked'
        BY DEF Parked
    <1>5. QED
        BY <1>2, <1>3, <1>4 DEF Contents

\* The step that completes the stream.
LEMMA DoneContents ==
    ASSUME call' = call, pc' = "done", msg' = Buffer(off'),
           mac' = Stream(call.aad + Units + 1), partial' = None
    PROVE  Contents'
    <1>1. Seal' = Seal /\ Ops' = Ops /\ Full' = Full /\ Units' = Units
        BY SameCall
    <1>2. Written'
        BY <1>1 DEF Written, Buffer
    <1>3. Hashed'
        BY <1>1 DEF Hashed, Inside, Stream, StreamBlock, Ciphertext
    <1>4. Parked'
        BY DEF Parked
    <1>5. QED
        BY <1>2, <1>3, <1>4 DEF Contents

\* Nor does the stream, when the MAC cursor does not.
LEMMA InsideForward ==
    ASSUME call' = call, call \in Calls, pc \in Inside, pc' \in Inside,
           off <= off', poly_off \in Nat, poly_off' \in Nat, poly_off <= poly_off'
    PROVE  Forward
    <1>1. call.aad \in Nat
        BY CallFacts
    <1>2. pc # "start" /\ pc' # "start"
        BY DEF Inside
    <1>3. Taken = call.aad + poly_off
        BY <1>2 DEF Taken
    <1>4. Taken' = call.aad + poly_off'
        BY <1>2 DEF Taken, Inside
    <1>5. QED
        BY <1>1, <1>3, <1>4 DEF Forward

\* The MAC half of a step that absorbs n units of a buffer, each on the side
\* where it is ciphertext.
LEMMA AbsorbHashes ==
    ASSUME Inv, Contents, pc \in Inside, NEW o \in Nat, NEW n \in Nat,
           poly_off + n <= Full, n = 0 \/ IF Seal THEN poly_off + n <= o ELSE o <= poly_off,
           Absorb(Buffer(o), n)
    PROVE  mac' = Stream(call.aad + poly_off') /\ poly_off' = poly_off + n
    <1>1. poly_off' = poly_off + n /\ mac' = mac \o Read(Buffer(o), poly_off, n)
        BY DEF Absorb
    <1>2. call \in Calls /\ poly_off \in Nat /\ Full <= Units /\ Full \in Nat /\ Units \in Nat
        BY InsideFacts DEF Here, Sizes
    <1>3. mac = Stream(call.aad + poly_off)
        BY DEF Contents, Hashed
    <1>4. poly_off + n <= Units
        BY <1>2
    <1>5. Stream(call.aad + poly_off) \o Read(Buffer(o), poly_off, n)
            = Stream(call.aad + (poly_off + n))
        BY <1>2, <1>4, ReadExtends
    <1>6. QED
        BY <1>1, <1>3, <1>5

\* The MAC half of a step whose kernel folds n units past the cache.
LEMMA FoldHashes ==
    ASSUME Inv, Contents, pc \in Inside, NEW o \in Nat, NEW n \in Nat,
           poly_off + n <= Full, IF Seal THEN n = 0 \/ poly_off + n <= o ELSE o <= poly_off,
           cached = 0 \/ n = 0,
           mac' = FoldedDirect(mac, cached, Read(Buffer(o), poly_off, n)),
           poly_off' = poly_off + n
    PROVE  mac' = Stream(call.aad + poly_off')
    <1>1. /\ call \in Calls /\ poly_off \in Nat /\ Full <= Units /\ Full \in Nat /\ Units \in Nat
          /\ mac \in Seq(MacBlock) /\ cached \in 0..8 /\ cached <= Len(mac)
        BY InsideFacts DEF Here, Sizes
    <1>2. mac = Stream(call.aad + poly_off)
        BY DEF Contents, Hashed
    <1>3. poly_off + n <= Units
        BY <1>1
    <1>4. CASE n = 0
        <2>1. Read(Buffer(o), poly_off, n) = << >>
            BY <1>4 DEF Read
        <2>2. cached \in 0..Len(mac)
            BY <1>1, LenProperties
        <2>3. mac' = mac
            BY <1>1, <2>1, <2>2, FoldedNothing
        <2>4. poly_off' = poly_off
            BY <1>1, <1>4
        <2>5. QED
            BY <1>2, <2>3, <2>4
    <1>5. CASE n # 0
        <2>1. Stream(call.aad + poly_off) \o Read(Buffer(o), poly_off, n)
                = Stream(call.aad + (poly_off + n))
            BY <1>1, <1>3, <1>5, ReadExtends
        <2>2. Read(Buffer(o), poly_off, n) \in Seq(MacBlock)
            <3>1. Buffer(o) \in [0..(Units - 1) -> Int]
                BY <1>1 DEF Buffer, Pristine
            <3>2. QED
                BY <1>1, <1>3, <3>1, ReadType
        <2>3. cached = 0
            BY <1>5
        <2>4. mac' = mac \o Read(Buffer(o), poly_off, n)
            BY <1>1, <2>2, <2>3, FoldedEmpty
        <2>5. QED
            BY <1>2, <2>1, <2>4
    <1>6. QED
        BY <1>4, <1>5

\* A fused seal batch.
LEMMA SealBulkContents ==
    ASSUME Inv, Contents, SealBulk
    PROVE  Contents' /\ Forward
    <1>1. /\ pc = "bulk" /\ pc' = "bulk" /\ call' = call
          /\ Seal /\ BatchLeft /\ SealFusible /\ Encrypt(Batch)
        BY DEF SealBulk
    <1>2. pc \in Inside /\ pc' \in Inside
        BY <1>1 DEF Inside
    <1>3. Here /\ Sizes /\ poly_off <= off /\ off <= Full /\ off % 4 = 0
        BY <1>1, <1>2, InsideFacts
    <1>4. /\ off + Batch <= Units /\ off + Batch \in Nat
          /\ poly_off + Batch <= off /\ poly_off + Batch <= Full /\ cached = 0
        BY <1>1, <1>3 DEF BatchLeft, SealFusible, Here, Sizes
    <1>5. off' = off + Batch /\ msg' = Buffer(off') /\ msg = Buffer(off)
        BY <1>1, <1>3, <1>4, EncryptWrites DEF Here, Sizes, Contents, Written
    <1>6. mac' = Stream(call.aad + poly_off') /\ poly_off' = poly_off + Batch
        <2>1. CASE Ops.fused_seal
            <3>1. /\ mac' = FoldedDirect(mac, cached, Read(msg, poly_off, Batch))
                  /\ poly_off' = poly_off + Batch
                BY <2>1 DEF SealBulk
            <3>2. QED
                BY <1>1, <1>2, <1>3, <1>4, <1>5, <3>1, FoldHashes DEF Here, Sizes
        <2>2. CASE ~Ops.fused_seal
            <3>1. Absorb(Buffer(off'), Batch)
                BY <1>5, <2>2 DEF SealBulk
            <3>2. off' \in Nat /\ poly_off + Batch <= off'
                BY <1>3, <1>4, <1>5 DEF Here, Sizes
            <3>3. QED
                BY <1>1, <1>2, <1>3, <1>4, <3>1, <3>2, AbsorbHashes DEF Sizes
        <2>3. QED
            BY <2>1, <2>2
    <1>7. Parked'
        BY <1>1 DEF Parked
    <1>8. Contents'
        BY <1>1, <1>2, <1>5, <1>6, <1>7, InsideContents
    <1>9. /\ off <= off' /\ poly_off <= poly_off' /\ poly_off \in Nat /\ poly_off' \in Nat
          /\ call \in Calls
        BY <1>3, <1>5, <1>6 DEF Here, Sizes
    <1>10. QED
        BY <1>1, <1>2, <1>8, <1>9, InsideForward

\* An unfused seal step.
LEMMA SealStepContents ==
    ASSUME Inv, Contents, SealStep
    PROVE  Contents' /\ Forward
    <1> DEFINE n == SealCatchUp(off - poly_off)
    <1>1. /\ pc = "bulk" /\ pc' = "bulk" /\ call' = call
          /\ Seal /\ BatchLeft /\ Encrypt(Batch) /\ Absorb(msg', n)
        BY DEF SealStep
    <1>2. pc \in Inside /\ pc' \in Inside
        BY <1>1 DEF Inside
    <1>3. Here /\ Sizes /\ poly_off <= off /\ off <= Full /\ off % 4 = 0
        BY <1>1, <1>2, InsideFacts
    <1>4. off + Batch <= Units /\ off - poly_off \in Nat
        BY <1>1, <1>3 DEF BatchLeft, Here, Sizes
    <1>5. n \in Nat /\ n <= off - poly_off
        BY <1>4, CatchUpFacts
    <1> HIDE DEF n
    <1>6. off' = off + Batch /\ msg' = Buffer(off')
        BY <1>1, <1>3, <1>4, EncryptWrites DEF Here, Sizes, Contents
    <1>7. off' \in Nat /\ poly_off + n <= Full /\ poly_off + n <= off' /\ off <= off'
        BY <1>3, <1>5, <1>6 DEF Here, Sizes
    <1>8. mac' = Stream(call.aad + poly_off') /\ poly_off' = poly_off + n
        <2>1. Absorb(Buffer(off'), n)
            BY <1>1, <1>6
        <2>2. QED
            BY <1>1, <1>2, <1>5, <1>7, <2>1, AbsorbHashes
    <1>9. Parked'
        BY <1>1 DEF Parked
    <1>10. Contents'
        BY <1>1, <1>2, <1>6, <1>8, <1>9, InsideContents
    <1>11. poly_off <= poly_off' /\ poly_off \in Nat /\ poly_off' \in Nat /\ call \in Calls
        BY <1>3, <1>5, <1>8 DEF Here
    <1>12. QED
        BY <1>1, <1>2, <1>7, <1>10, <1>11, InsideForward

\* Pairing a lone window before the fused open run.
LEMMA OpenPairContents ==
    ASSUME Inv, Contents, OpenPair
    PROVE  Contents' /\ Forward
    <1>1. /\ pc = "bulk" /\ ~Seal /\ NeedsPairing /\ Absorb(msg, 4)
          /\ UNCHANGED <<call, pc, off, msg>>
        BY DEF OpenPair
    <1>2. pc \in Inside /\ pc' \in Inside
        BY <1>1 DEF Inside
    <1>3. Here /\ Sizes /\ off <= poly_off
        BY <1>1, <1>2, InsideFacts
    <1>4. msg = Buffer(off) /\ off \in Nat /\ 4 \in Nat
        BY <1>3 DEF Contents, Written, Here
    <1>5. mac' = Stream(call.aad + poly_off') /\ poly_off' = poly_off + 4
        <2>1. Absorb(Buffer(off), 4) /\ poly_off + 4 <= Full
            BY <1>1, <1>4 DEF NeedsPairing
        <2>2. QED
            BY <1>1, <1>2, <1>3, <1>4, <2>1, AbsorbHashes
    <1>6. Parked' /\ msg' = Buffer(off')
        BY <1>1, <1>4 DEF Parked
    <1>7. Contents'
        BY <1>1, <1>2, <1>5, <1>6, InsideContents
    <1>8. poly_off <= poly_off' /\ poly_off \in Nat /\ poly_off' \in Nat /\ call \in Calls /\ off <= off'
        BY <1>1, <1>3, <1>5 DEF Here
    <1>9. QED
        BY <1>1, <1>2, <1>7, <1>8, InsideForward

\* A fused open batch.
LEMMA OpenBulkContents ==
    ASSUME Inv, Contents, OpenBulk
    PROVE  Contents' /\ Forward
    <1>1. /\ pc = "bulk" /\ ~Seal /\ BatchLeft /\ OpenFusible /\ Encrypt(Batch)
          /\ mac' = FoldedDirect(mac, cached, Read(msg, poly_off, Batch))
          /\ poly_off' = poly_off + Batch
          /\ UNCHANGED <<call, pc>>
        BY DEF OpenBulk
    <1>2. pc \in Inside /\ pc' \in Inside
        BY <1>1 DEF Inside
    <1>3. Here /\ Sizes /\ off <= poly_off /\ off <= Full /\ off % 4 = 0
        BY <1>1, <1>2, InsideFacts
    <1>4. off + Batch <= Units /\ poly_off + Batch <= Full /\ cached = 0
        BY <1>1, <1>3 DEF BatchLeft, OpenFusible, Here, Sizes
    <1>5. off' = off + Batch /\ msg' = Buffer(off') /\ msg = Buffer(off)
        BY <1>1, <1>3, <1>4, EncryptWrites DEF Here, Sizes, Contents, Written
    <1>6. mac' = Stream(call.aad + poly_off')
        BY <1>1, <1>2, <1>3, <1>4, <1>5, FoldHashes DEF Here, Sizes
    <1>7. Parked'
        BY <1>1 DEF Parked
    <1>8. Contents'
        BY <1>1, <1>2, <1>5, <1>6, <1>7, InsideContents
    <1>9. /\ off <= off' /\ poly_off <= poly_off' /\ poly_off \in Nat /\ poly_off' \in Nat
          /\ call \in Calls
        BY <1>1, <1>3, <1>5 DEF Here, Sizes
    <1>10. QED
        BY <1>1, <1>2, <1>8, <1>9, InsideForward

\* An unfused open step.
LEMMA OpenStepContents ==
    ASSUME Inv, Contents, OpenStep
    PROVE  Contents' /\ Forward
    <1> DEFINE n == OpenAhead
               xor_end == Least(off + Batch, Floor4(poly_off + n))
    <1>1. /\ pc = "bulk" /\ ~Seal /\ BatchLeft /\ Absorb(msg, n) /\ call' = call
        BY DEF OpenStep
    <1>2. \/ xor_end <= off /\ pc' = "medium" /\ UNCHANGED <<off, ctr, msg>>
          \/ ~(xor_end <= off) /\ pc' = "bulk" /\ Encrypt(xor_end - off)
        BY DEF OpenStep
    <1>3. pc \in Inside /\ pc' \in Inside /\ pc' # "weave"
        BY <1>1, <1>2 DEF Inside
    <1>4. Here /\ Sizes /\ off <= poly_off /\ off <= Full /\ off % 4 = 0
        BY <1>1, <1>3, InsideFacts
    <1>5. n \in Nat /\ poly_off + n <= Full
        BY <1>4, AheadFacts DEF Here
    <1>6. off + Batch <= Full /\ off \in Nat /\ poly_off \in Nat /\ off + Batch \in Nat
          /\ Full <= Units /\ Full \in Nat /\ Units \in Nat
        BY <1>1, <1>4 DEF BatchLeft, Here, Sizes
    <1>7. xor_end \in Nat /\ xor_end <= Units
        <2>1. poly_off + n \in Nat
            BY <1>5, <1>6
        <2>2. Floor4(poly_off + n) \in Nat
            BY <2>1, FloorFacts
        <2>3. QED
            BY <1>6, <2>2 DEF Least
    <1> HIDE DEF n, xor_end
    <1>8. msg = Buffer(off)
        BY DEF Contents, Written
    <1>9. msg' = Buffer(off') /\ off <= off'
        <2>1. CASE xor_end <= off
            BY <1>2, <1>6, <1>8, <2>1
        <2>2. CASE ~(xor_end <= off)
            <3> DEFINE k == xor_end - off
            <3>1. Encrypt(k)
                BY <1>2, <2>2
            <3>2. k \in Nat /\ off + k <= Units
                BY <1>6, <1>7, <2>2
            <3> HIDE DEF k
            <3>3. off' = off + k /\ msg' = Buffer(off')
                BY <1>4, <3>1, <3>2, EncryptWrites DEF Here, Contents
            <3>4. QED
                BY <1>6, <3>2, <3>3
        <2>3. QED
            BY <2>1, <2>2
    <1>10. mac' = Stream(call.aad + poly_off') /\ poly_off' = poly_off + n
        BY <1>1, <1>3, <1>4, <1>5, <1>6, <1>8, AbsorbHashes
    <1>11. Parked'
        BY <1>3 DEF Parked
    <1>12. Contents'
        BY <1>1, <1>3, <1>9, <1>10, <1>11, InsideContents
    <1>13. poly_off <= poly_off' /\ poly_off' \in Nat /\ call \in Calls
        BY <1>4, <1>5, <1>6, <1>10 DEF Here
    <1>14. QED
        BY <1>1, <1>3, <1>6, <1>9, <1>12, <1>13, InsideForward

\* A step that only moves on to a stage other than the medium weave.
LEMMA PassesContents ==
    ASSUME Inv, Contents, pc \in Inside, pc' \in Inside, pc' # "weave",
           UNCHANGED <<call, off, poly_off, msg, mac>>
    PROVE  Contents' /\ Forward
    <1>1. Here
        BY InsideFacts
    <1>2. msg' = Buffer(off') /\ mac' = Stream(call.aad + poly_off') /\ Parked'
        BY DEF Contents, Written, Hashed, Parked
    <1>3. Contents'
        BY <1>2, InsideContents
    <1>4. off <= off' /\ poly_off <= poly_off' /\ poly_off \in Nat /\ poly_off' \in Nat /\ call \in Calls
        BY <1>1 DEF Here
    <1>5. QED
        BY <1>3, <1>4, InsideForward

\* Leaving the bulk loop.
LEMMA LeaveBulkContents ==
    ASSUME Inv, Contents, LeaveBulk
    PROVE  Contents' /\ Forward
    BY PassesContents DEF LeaveBulk, Inside

\* No medium kernel.
LEMMA SkipMediumContents ==
    ASSUME Inv, Contents, SkipMedium
    PROVE  Contents' /\ Forward
    BY PassesContents DEF SkipMedium, Inside

\* Normalising the cache: the MAC half, and what it leaves for the weave.
LEMMA NormalisedHashes ==
    ASSUME Inv, Contents, pc \in Inside, Ops.fused_medium,
           NEW o \in Nat, NEW limit \in Nat, limit <= Full,
           IF Seal THEN limit <= o ELSE o <= poly_off,
           Normalised(Buffer(o), limit)
    PROVE  /\ mac' = Stream(call.aad + poly_off')
           /\ poly_off <= poly_off' /\ poly_off' \in Nat
           /\ cached' = 0 \/ (cached' = 4 /\ limit - poly_off' < 4)
    <1>1. Here /\ Sizes
        BY InsideFacts
    <1>2. Ops.poly = "pair"
        BY <1>1, OpsFacts DEF Here
    <1>3. cached = 0 \/ cached = 4 \/ cached = 8
        BY <1>1 DEF Here
    <1>4. /\ poly_off \in Nat /\ Pending = cached /\ mac = Stream(call.aad + poly_off)
          /\ Full \in Nat
        BY <1>1 DEF Contents, Hashed, Here, Sizes
    <1>5. CASE Pairs(limit)
        <2>1. Absorb(Buffer(o), 4) /\ poly_off + 4 <= limit /\ cached = 4
            BY <1>4, <1>5 DEF Normalised, Pairs
        <2>2. 4 \in Nat /\ poly_off + 4 <= Full /\ (Seal => poly_off + 4 <= o)
            BY <1>4, <2>1
        <2>3. mac' = Stream(call.aad + poly_off') /\ poly_off' = poly_off + 4
            BY <2>1, <2>2, AbsorbHashes
        <2>4. cached' = AfterAbsorbBlocks(Ops.poly, 4, 4 \div 4)
            BY <2>1 DEF Absorb
        <2>5. cached' = 0
            BY <1>2, <2>4 DEF AfterAbsorbBlocks
        <2>6. QED
            BY <1>4, <2>3, <2>5
    <1>6. CASE ~Pairs(limit)
        <2>1. /\ cached' = IF Pending = 8 THEN AfterAbsorbBlocks(Ops.poly, cached, 0) ELSE cached
              /\ mac' = mac /\ poly_off' = poly_off
            BY <1>6 DEF Normalised
        <2>2. AfterAbsorbBlocks(Ops.poly, 8, 0) = 0
            BY <1>2 DEF AfterAbsorbBlocks
        <2>3. cached = 4 => limit - poly_off < 4
            BY <1>4, <1>6 DEF Pairs
        <2>4. QED
            BY <1>3, <1>4, <2>1, <2>2, <2>3
    <1>7. QED
        BY <1>5, <1>6

\* The medium seal's batch ahead.
LEMMA SealMediumAheadContents ==
    ASSUME Inv, Contents, SealMediumAhead
    PROVE  Contents' /\ Forward
    <1>1. /\ pc = "medium" /\ pc' = "weave" /\ MediumNeeded /\ Seal
          /\ IF Full - off >= 32 THEN Encrypt(32) ELSE UNCHANGED <<off, ctr, msg>>
          /\ Normalised(msg', off')
          /\ call' = call
        BY DEF SealMediumAhead
    <1>2. pc \in Inside /\ pc' \in Inside
        BY <1>1 DEF Inside
    <1>3. Here /\ Sizes /\ off <= Full /\ off % 4 = 0
        BY <1>1, <1>2, InsideFacts
    <1>4. Ops.fused_medium
        BY <1>1, MediumFacts
    <1>5. off \in Nat /\ Full \in Nat /\ Units \in Nat /\ Full <= Units /\ poly_off \in Nat
        BY <1>3 DEF Here, Sizes
    <1>6. msg' = Buffer(off') /\ off' \in Nat /\ off <= off' /\ off' <= Full
        <2>1. CASE Full - off >= 32
            <3>1. Encrypt(32) /\ off + 32 <= Full /\ off + 32 <= Units /\ 32 \in Nat
                BY <1>1, <1>5, <2>1
            <3>2. off' = off + 32 /\ msg' = Buffer(off')
                BY <1>3, <3>1, EncryptWrites DEF Here, Contents
            <3>3. QED
                BY <1>5, <3>1, <3>2
        <2>2. CASE ~(Full - off >= 32)
            BY <1>1, <1>3, <1>5, <2>2 DEF Contents, Written
        <2>3. QED
            BY <2>1, <2>2
    <1>7. Normalised(Buffer(off'), off')
        BY <1>1, <1>6
    <1>8. /\ mac' = Stream(call.aad + poly_off')
          /\ poly_off <= poly_off' /\ poly_off' \in Nat
          /\ cached' = 0 \/ (cached' = 4 /\ off' - poly_off' < 4)
        <2>1. off' <= off'
            BY <1>6
        <2>2. QED
            BY <1>1, <1>2, <1>4, <1>6, <1>7, <2>1, NormalisedHashes
    <1>9. Parked'
        BY <1>1, <1>8, SameCall DEF Parked
    <1>10. Contents'
        BY <1>1, <1>2, <1>6, <1>8, <1>9, InsideContents
    <1>11. QED
        BY <1>1, <1>2, <1>3, <1>5, <1>6, <1>8, <1>10, InsideForward DEF Here

\* The medium open's normalisation.
LEMMA OpenMediumEnterContents ==
    ASSUME Inv, Contents, OpenMediumEnter
    PROVE  Contents' /\ Forward
    <1>1. /\ pc = "medium" /\ pc' = "weave" /\ MediumNeeded /\ ~Seal
          /\ Normalised(msg, Full)
          /\ UNCHANGED <<call, off, msg>>
        BY DEF OpenMediumEnter
    <1>2. pc \in Inside /\ pc' \in Inside
        BY <1>1 DEF Inside
    <1>3. Here /\ Sizes /\ off <= poly_off
        BY <1>1, <1>2, InsideFacts
    <1>4. Ops.fused_medium
        BY <1>1, MediumFacts
    <1>5. msg = Buffer(off) /\ off \in Nat /\ Full \in Nat /\ Full <= Full /\ poly_off \in Nat
        BY <1>3 DEF Contents, Written, Here, Sizes
    <1>6. Normalised(Buffer(off), Full)
        BY <1>1, <1>5
    <1>7. /\ mac' = Stream(call.aad + poly_off')
          /\ poly_off <= poly_off' /\ poly_off' \in Nat
          /\ cached' = 0 \/ (cached' = 4 /\ Full - poly_off' < 4)
        BY <1>1, <1>2, <1>3, <1>4, <1>5, <1>6, NormalisedHashes
    <1>8. Parked'
        BY <1>1, <1>7, SameCall DEF Parked
    <1>9. msg' = Buffer(off') /\ off <= off'
        BY <1>1, <1>5
    <1>10. Contents'
        BY <1>1, <1>2, <1>7, <1>8, <1>9, InsideContents
    <1>11. QED
        BY <1>1, <1>2, <1>3, <1>5, <1>7, <1>9, <1>10, InsideForward DEF Here

\* A steady iteration of the medium open: nothing is parked where it runs.
LEMMA OpenMediumWeaveContents ==
    ASSUME Inv, Contents, OpenMediumWeave
    PROVE  Contents' /\ Forward
    <1>1. /\ pc = "weave" /\ ~Seal /\ OpenWeaveSteady /\ Encrypt(32)
          /\ mac' = FoldedDirect(mac, cached, Read(msg, poly_off, 32))
          /\ poly_off' = poly_off + 32
          /\ UNCHANGED <<call, pc, cached>>
        BY DEF OpenMediumWeave
    <1>2. pc \in Inside /\ pc' \in Inside
        BY <1>1 DEF Inside
    <1>3. Here /\ Sizes /\ off <= poly_off /\ off <= Full /\ off % 4 = 0
        BY <1>1, <1>2, InsideFacts
    <1>4. /\ off \in Nat /\ poly_off \in Nat /\ 32 \in Nat /\ off + 32 <= Units
          /\ poly_off + 32 <= Full /\ Full - poly_off >= 32
        BY <1>1, <1>3 DEF OpenWeaveSteady, Here, Sizes
    <1>5. cached = 0
        <2>1. cached = 0 \/ Full - poly_off < 4
            BY <1>1 DEF Contents, Parked
        <2>2. QED
            BY <1>3, <1>4, <2>1 DEF Sizes
    <1>6. off' = off + 32 /\ msg' = Buffer(off') /\ msg = Buffer(off)
        BY <1>1, <1>3, <1>4, EncryptWrites DEF Here, Contents, Written
    <1>7. mac' = Stream(call.aad + poly_off')
        BY <1>1, <1>2, <1>3, <1>4, <1>5, <1>6, FoldHashes
    <1>8. Parked'
        BY <1>1, <1>5 DEF Parked
    <1>9. Contents'
        BY <1>1, <1>2, <1>6, <1>7, <1>8, InsideContents
    <1>10. off <= off' /\ poly_off <= poly_off' /\ poly_off' \in Nat
        BY <1>1, <1>4, <1>6
    <1>11. QED
        BY <1>1, <1>2, <1>3, <1>4, <1>9, <1>10, InsideForward DEF Here

\* The medium seal's woven batch: a parked window leaves it no pair to fold.
LEMMA SealMediumWeaveContents ==
    ASSUME Inv, Contents, SealMediumWeave
    PROVE  Contents' /\ Forward
    <1> DEFINE idle == off = Units \/ (Full - off < 12 /\ SealRounds = 0)
               n == 8 * SealRounds
    <1>1. pc = "weave" /\ pc' = "drain" /\ Seal /\ call' = call
        BY DEF SealMediumWeave
    <1>2. pc \in Inside /\ pc' \in Inside /\ pc' # "weave"
        BY <1>1 DEF Inside
    <1>3. Here /\ Sizes /\ poly_off <= off /\ off <= Full /\ off % 4 = 0
        BY <1>1, <1>2, InsideFacts
    <1>4. CASE idle
        <2>1. UNCHANGED <<call, off, poly_off, msg, mac>>
            BY <1>1, <1>4 DEF SealMediumWeave
        <2>2. QED
            BY <1>2, <2>1, PassesContents
    <1>5. CASE ~idle
        <2> DEFINE k == Units - off
        <2>1. /\ mac' = FoldedDirect(mac, cached, Read(msg, poly_off, n))
              /\ poly_off' = poly_off + n
              /\ Encrypt(k)
            BY <1>5 DEF SealMediumWeave
        <2>2. /\ off \in Nat /\ poly_off \in Nat /\ Full \in Nat /\ Units \in Nat
              /\ Full <= Units /\ off <= Units
            BY <1>3 DEF Here, Sizes
        <2>3. /\ PairsUpTo(off) \in Nat /\ poly_off + 8 * PairsUpTo(off) <= off
              /\ PairsUpTo(Full) \in Nat
            BY <1>3, <2>2, PairsFacts
        <2>4. SealRounds \in Nat /\ SealRounds <= PairsUpTo(off)
            BY <2>3 DEF SealRounds, Least
        <2>5. cached = 0 \/ SealRounds = 0
            <3>1. cached = 0 \/ off - poly_off < 4
                BY <1>1 DEF Contents, Parked
            <3>2. off - poly_off < 4 => SealRounds = 0
                BY <2>2, <2>3, <2>4
            <3>3. QED
                BY <3>1, <3>2
        <2>6. /\ n \in Nat /\ poly_off + n <= off /\ poly_off + n <= Full
              /\ cached = 0 \/ n = 0
            BY <1>3, <2>2, <2>3, <2>4, <2>5
        <2>7. k \in Nat /\ off + k = Units /\ off + k <= Units
            BY <2>2
        <2> HIDE DEF k, n
        <2>8. off' = off + k /\ msg' = Buffer(off') /\ msg = Buffer(off)
            BY <1>3, <2>1, <2>7, EncryptWrites DEF Here, Contents, Written
        <2>9. mac' = Stream(call.aad + poly_off')
            BY <1>1, <1>2, <2>1, <2>2, <2>6, <2>8, FoldHashes
        <2>10. Parked'
            BY <1>2 DEF Parked
        <2>11. Contents'
            BY <1>1, <1>2, <2>8, <2>9, <2>10, InsideContents
        <2>12. off <= off' /\ poly_off <= poly_off' /\ poly_off' \in Nat
            BY <2>1, <2>2, <2>6, <2>7, <2>8
        <2>13. QED
            BY <1>1, <1>2, <1>3, <2>2, <2>11, <2>12, InsideForward DEF Here
    <1>6. QED
        BY <1>4, <1>5

\* The medium open's partial batch.
LEMMA OpenMediumLastContents ==
    ASSUME Inv, Contents, OpenMediumLast
    PROVE  Contents' /\ Forward
    <1> DEFINE go == /\ off < Units /\ Units - off <= 32
                     /\ OpenStoredEnd - off >= 24 \/ OpenLastRounds > 0
               n == 8 * OpenLastRounds
    <1>1. pc = "weave" /\ pc' = "drain" /\ ~Seal /\ call' = call
        BY DEF OpenMediumLast
    <1>2. pc \in Inside /\ pc' \in Inside /\ pc' # "weave"
        BY <1>1 DEF Inside
    <1>3. Here /\ Sizes /\ off <= poly_off /\ off <= Full /\ off % 4 = 0
        BY <1>1, <1>2, InsideFacts
    <1>4. CASE ~go
        <2>1. UNCHANGED <<call, off, poly_off, msg, mac>>
            BY <1>1, <1>4 DEF OpenMediumLast
        <2>2. QED
            BY <1>2, <2>1, PassesContents
    <1>5. CASE go
        <2>1. /\ mac' = FoldedDirect(mac, cached, Read(msg, poly_off, n))
              /\ poly_off' = poly_off + n
              /\ Encrypt(OpenStored)
            BY <1>5 DEF OpenMediumLast
        <2>2. /\ off \in Nat /\ poly_off \in Nat /\ Full \in Nat /\ Units \in Nat
              /\ Full <= Units /\ off <= Units /\ poly_off <= Full
            BY <1>3 DEF Here, Sizes
        <2>3. PairsUpTo(Full) \in Nat /\ poly_off + 8 * PairsUpTo(Full) <= Full
            BY <2>2, PairsFacts
        <2>4. OpenLastRounds \in Nat /\ OpenLastRounds <= PairsUpTo(Full)
            BY <2>3 DEF OpenLastRounds, Least
        <2>5. cached = 0 \/ OpenLastRounds = 0
            <3>1. cached = 0 \/ Full - poly_off < 4
                BY <1>1 DEF Contents, Parked
            <3>2. Full - poly_off < 4 => OpenLastRounds = 0
                BY <2>2, <2>3, <2>4
            <3>3. QED
                BY <3>1, <3>2
        <2>6. OpenStoredEnd = Least(poly_off + n, Units)
            BY DEF OpenStoredEnd
        <2>7. n \in Nat /\ poly_off + n <= Full /\ (cached = 0 \/ n = 0)
            BY <2>2, <2>3, <2>4, <2>5
        <2> HIDE DEF n
        <2>8. OpenStoredEnd \in Nat /\ off <= OpenStoredEnd /\ OpenStoredEnd <= Units
            BY <1>3, <2>2, <2>6, <2>7 DEF Least
        <2>9. OpenStoredEnd - off \in Nat
            BY <2>2, <2>8
        <2>10. OpenStored \in Nat /\ OpenStored <= OpenStoredEnd - off
            <3> DEFINE d == OpenStoredEnd - off
            <3>1. Floor4(d) \in Nat /\ Floor4(d) <= d
                BY <2>9, FloorFacts
            <3>2. OpenStored = d \/ OpenStored = Floor4(d)
                BY DEF OpenStored
            <3> HIDE DEF d
            <3>3. d \in Nat /\ OpenStored \in Nat /\ OpenStored <= d
                BY <2>9, <3>1, <3>2 DEF d
            <3>4. QED
                BY <3>3 DEF d
        <2>11. off + OpenStored <= Units
            BY <2>2, <2>8, <2>10
        <2>12. off' = off + OpenStored /\ msg' = Buffer(off') /\ msg = Buffer(off)
            BY <1>3, <2>1, <2>10, <2>11, EncryptWrites DEF Here, Contents, Written
        <2>13. mac' = Stream(call.aad + poly_off')
            BY <1>1, <1>2, <1>3, <2>1, <2>2, <2>7, <2>12, FoldHashes
        <2>14. Parked'
            BY <1>2 DEF Parked
        <2>15. Contents'
            BY <1>1, <1>2, <2>12, <2>13, <2>14, InsideContents
        <2>16. off <= off' /\ poly_off <= poly_off' /\ poly_off' \in Nat
            BY <2>1, <2>2, <2>7, <2>10, <2>12
        <2>17. QED
            BY <1>1, <1>2, <1>3, <2>2, <2>15, <2>16, InsideForward DEF Here
    <1>6. QED
        BY <1>4, <1>5

\* Draining what the seal left behind.
LEMMA DrainLagContents ==
    ASSUME Inv, Contents, DrainLag
    PROVE  Contents' /\ Forward
    <1> DEFINE n == IF poly_off < off THEN Floor4(Whole(off) - poly_off) ELSE 0
    <1>1. /\ pc = "drain" /\ pc' = "tail" /\ Absorb(msg, n)
          /\ UNCHANGED <<call, off, msg>>
        BY DEF DrainLag
    <1>2. pc \in Inside /\ pc' \in Inside
        BY <1>1 DEF Inside
    <1>3. Here /\ Sizes /\ (IF Seal THEN poly_off <= off ELSE off <= poly_off)
        BY <1>1, <1>2, InsideFacts
    <1>4. /\ off \in Nat /\ poly_off \in Nat /\ Full \in Nat /\ poly_off <= Full
          /\ msg = Buffer(off)
        BY <1>3 DEF Here, Sizes, Contents, Written
    <1>5. /\ n \in Nat /\ poly_off + n <= Full /\ (n = 0 \/ poly_off + n <= off)
          /\ ~Seal => n = 0
        <2>1. CASE poly_off < off
            <3>1. Whole(off) \in Nat /\ Whole(off) <= off /\ Whole(off) <= Full /\ poly_off <= Whole(off)
                BY <1>4, <2>1, WholeFacts
            <3>2. Whole(off) - poly_off \in Nat
                BY <1>4, <3>1
            <3>3. n \in Nat /\ n <= Whole(off) - poly_off
                BY <2>1, <3>2, FloorFacts
            <3>4. Seal
                BY <1>3, <1>4, <2>1
            <3> HIDE DEF n
            <3>5. QED
                BY <1>4, <3>1, <3>3, <3>4
        <2>2. CASE ~(poly_off < off)
            BY <1>4, <2>2
        <2>3. QED
            BY <2>1, <2>2
    <1> HIDE DEF n
    <1>6. mac' = Stream(call.aad + poly_off') /\ poly_off' = poly_off + n
        <2>1. Absorb(Buffer(off), n)
            BY <1>1, <1>4
        <2>2. n = 0 \/ IF Seal THEN poly_off + n <= off ELSE off <= poly_off
            BY <1>5
        <2>3. QED
            BY <1>2, <1>4, <1>5, <2>1, <2>2, AbsorbHashes
    <1>7. Parked' /\ msg' = Buffer(off')
        BY <1>1, <1>4 DEF Parked
    <1>8. Contents'
        BY <1>1, <1>2, <1>6, <1>7, InsideContents
    <1>9. poly_off <= poly_off' /\ poly_off' \in Nat /\ off <= off'
        BY <1>1, <1>4, <1>5, <1>6
    <1>10. QED
        BY <1>1, <1>2, <1>3, <1>4, <1>8, <1>9, InsideForward DEF Here

\* A step out of the loop and its kernels reaches the end of both cursors.
LEMMA EndForward ==
    ASSUME call' = call, call \in Calls, pc \in Inside \/ pc = "start",
           pc' = "finish" \/ pc' = "done",
           off \in Nat, off <= Units, off' = Units, poly_off \in Nat, poly_off <= Units
    PROVE  Forward
    <1>1. call.aad \in Nat /\ Units \in Nat
        BY CallFacts
    <1>2. Units' = Units
        BY SameCall
    <1>3. Taken \in Nat /\ Taken <= call.aad + Units
        BY <1>1 DEF Taken, Inside
    <1>4. Taken' \in {call.aad + Units, call.aad + Units + 1}
        BY <1>2 DEF Taken, Inside
    <1>5. Taken <= Taken'
        BY <1>1, <1>3, <1>4
    <1>6. QED
        BY <1>5 DEF Forward

\* The rest of the message.
LEMMA FinishCursorsContents ==
    ASSUME Inv, Contents, FinishCursors
    PROVE  Contents' /\ Forward
    <1> DEFINE work == off < Units \/ poly_off < Units
               k == Units - off
               rest == Full - poly_off
    <1>1. /\ pc = "tail" /\ pc' = "finish" /\ call' = call
          /\ IF off < Units THEN Encrypt(k) ELSE UNCHANGED <<off, ctr, msg>>
          /\ IF work THEN AbsorbRest(IF Seal THEN msg' ELSE msg)
             ELSE UNCHANGED <<poly_off, mac, cached, partial, broken>>
        BY DEF FinishCursors
    <1>2. pc \in Inside
        BY <1>1 DEF Inside
    <1>3. Here /\ Sizes /\ (IF Seal THEN poly_off <= off ELSE off <= poly_off)
        BY <1>2, InsideFacts
    <1>4. off % 4 = 0 \/ off = Units
        BY <1>2 DEF Inv, Aligned
    <1>5. /\ off \in Nat /\ poly_off \in Nat /\ Full \in Nat /\ Units \in Nat
          /\ off <= Units /\ poly_off <= Full /\ Full <= Units /\ poly_off <= Units
          /\ call \in Calls /\ partial = None
        BY <1>3 DEF Here, Sizes
    <1>6. msg = Buffer(off) /\ mac = Stream(call.aad + poly_off)
        BY <1>2 DEF Contents, Written, Hashed
    <1>7. off' = Units /\ msg' = Buffer(off')
        <2>1. CASE off < Units
            <3>1. k \in Nat /\ off + k = Units /\ off + k <= Units /\ off % 4 = 0
                BY <1>4, <1>5, <2>1
            <3>2. Encrypt(k)
                BY <1>1, <2>1
            <3> HIDE DEF k
            <3>3. off' = off + k /\ msg' = Buffer(off')
                BY <1>3, <3>1, <3>2, EncryptWrites DEF Here, Contents
            <3>4. QED
                BY <3>1, <3>3
        <2>2. CASE ~(off < Units)
            BY <1>1, <1>5, <1>6, <2>2
        <2>3. QED
            BY <2>1, <2>2
    <1>8. /\ mac' = Stream(call.aad + Full)
          /\ partial' = IF call.part THEN StreamBlock(call.aad + Full + 1) ELSE None
        <2>1. CASE work
            <3> DEFINE o == IF Seal THEN Units ELSE off
            <3>1. o \in Nat /\ (IF Seal THEN Units <= o ELSE o <= poly_off /\ o <= Full)
                BY <1>3, <1>5
            <3>2. (IF Seal THEN msg' ELSE msg) = Buffer(o)
                BY <1>6, <1>7
            <3>3. AbsorbRest(Buffer(o))
                BY <1>1, <2>1, <3>2
            <3> HIDE DEF o
            <3>4. mac' = mac \o Read(Buffer(o), poly_off, rest) /\ partial' = PartialOf(Buffer(o))
                BY <3>3 DEF AbsorbRest
            <3>5. rest \in Nat /\ poly_off + rest = Full /\ poly_off + rest <= Units
                BY <1>5
            <3> HIDE DEF rest
            <3>6. IF Seal THEN rest = 0 \/ poly_off + rest <= o ELSE rest = 0 \/ o <= poly_off
                BY <1>5, <3>1, <3>5
            <3>7. Stream(call.aad + poly_off) \o Read(Buffer(o), poly_off, rest)
                    = Stream(call.aad + (poly_off + rest))
                BY <1>5, <3>1, <3>5, <3>6, ReadExtends
            <3>8. IF Seal THEN Units <= o ELSE o <= Full
                BY <3>1
            <3>9. PartialOf(Buffer(o)) =
                    IF call.part THEN StreamBlock(call.aad + Full + 1) ELSE None
                BY <1>5, <3>1, <3>8, PartialIs
            <3>10. QED
                BY <1>6, <3>4, <3>5, <3>7, <3>9
        <2>2. CASE ~work
            <3>1. mac' = mac /\ partial' = None /\ poly_off = Units /\ Full = Units
                BY <1>1, <1>5, <2>2
            <3>2. ~call.part
                BY <1>5, <3>1, CallFacts
            <3>3. QED
                BY <1>6, <3>1, <3>2
        <2>3. QED
            BY <2>1, <2>2
    <1>9. Contents'
        BY <1>1, <1>7, <1>8, FinishContents
    <1>10. QED
        BY <1>1, <1>2, <1>5, <1>7, <1>9, EndForward

\* The stream with what the wrapper holds back.
LEMMA WithPartial ==
    ASSUME Contents, pc = "finish", call \in Calls
    PROVE  mac \o (IF partial = None THEN << >> ELSE <<partial>>) = Stream(call.aad + Units)
    <1>1. /\ mac = Stream(call.aad + Full)
          /\ partial = IF call.part THEN StreamBlock(call.aad + Full + 1) ELSE None
        BY DEF Contents, Hashed
    <1>2. CASE call.part
        <2>1. partial = StreamBlock(call.aad + Full + 1) /\ partial.blk = "msg"
            BY <1>1, <1>2, PartialComes
        <2>2. partial # None
            BY <2>1 DEF None
        <2>3. mac \o <<partial>> = Stream(call.aad + Units)
            BY <1>1, <1>2, <2>1, PartialComes
        <2>4. QED
            BY <2>2, <2>3
    <1>3. CASE ~call.part
        <2>1. partial = None /\ Full = Units /\ call.aad + Full \in Nat
            BY <1>1, <1>3, CallFacts
        <2>2. mac \in Seq(MacBlock)
            BY <1>1, <2>1, StreamType
        <2>3. mac \o << >> = mac
            BY <2>2, ConcatEmptySeq
        <2>4. QED
            BY <1>1, <2>1, <2>3
    <1>4. QED
        BY <1>2, <1>3

\* Padding and lengths.
LEMMA FinishStepContents ==
    ASSUME Inv, Contents, Finish
    PROVE  Contents' /\ Forward
    <1> DEFINE padded == IF partial = None THEN << >> ELSE <<partial>>
    <1>1. /\ pc = "finish" /\ pc' = "done"
          /\ mac' = (mac \o padded) \o <<LengthsBlock>>
          /\ partial' = None
          /\ UNCHANGED <<call, off, poly_off, msg>>
        BY DEF Finish
    <1>2. call \in Calls /\ off = Units /\ off \in Nat
        BY <1>1 DEF Inv, Types, AtEnd
    <1>3. mac \o padded = Stream(call.aad + Units)
        BY <1>1, <1>2, WithPartial
    <1> HIDE DEF padded
    <1>4. mac' = Stream(call.aad + Units + 1)
        BY <1>1, <1>2, <1>3, LengthsEnd
    <1>5. msg' = Buffer(off')
        BY <1>1 DEF Contents, Written
    <1>6. Contents'
        BY <1>1, <1>4, <1>5, DoneContents
    <1>7. call.aad \in Nat /\ Units \in Nat /\ Units' = Units
        BY <1>1, <1>2, CallFacts, SameCall
    <1>8. Taken = call.aad + Units /\ Taken' = call.aad + Units + 1
        BY <1>1, <1>7 DEF Taken, Inside
    <1>9. QED
        BY <1>1, <1>2, <1>6, <1>7, <1>8 DEF Forward

-----------------------------------------------------------------------------
(* The paths that start a call.                                             *)

\* A call that starts has written nothing and hashed nothing.
LEMMA StartContents ==
    ASSUME Inv, Contents, pc = "start"
    PROVE  /\ call \in Calls /\ call.aad \in Nat /\ off = 0 /\ poly_off = 0
           /\ partial = None /\ msg = Buffer(0)
           /\ Full \in Nat /\ Units \in Nat /\ Full <= Units /\ Units <= Full + 1
    BY StartFacts DEF Sizes, Contents, Written

\* The AAD and n units of a buffer, each on the side where it is ciphertext.
LEMMA AadThenUnits ==
    ASSUME call \in Calls, NEW o \in Nat, NEW n \in Nat, n <= Units,
           IF Seal THEN n <= o ELSE o = 0
    PROVE  AadBlocks(call.aad) \o Read(Buffer(o), 0, n) = Stream(call.aad + n)
    <1>1. 0 \in Nat /\ 0 + n = n /\ call.aad \in Nat /\ call.aad + 0 = call.aad
        BY CallFacts
    <1>2. IF Seal THEN n = 0 \/ 0 + n <= o ELSE n = 0 \/ o <= 0
        OBVIOUS
    <1>3. Stream(call.aad + 0) \o Read(Buffer(o), 0, n) = Stream(call.aad + (0 + n))
        BY <1>1, <1>2, ReadExtends
    <1>4. QED
        BY <1>1, <1>3, AadStarts

\* A message of at most one block.
LEMMA TinyContents ==
    ASSUME Inv, Contents, Tiny
    PROVE  Contents' /\ Forward
    <1> DEFINE ct == IF Seal THEN msg' ELSE msg
               o == IF Seal THEN Units ELSE 0
    <1>1. /\ pc = "start" /\ pc' = "finish" /\ off' = Units /\ call' = call
          /\ msg' = Xored(msg, 0, Units, 1)
          /\ mac' = AadBlocks(call.aad) \o Read(ct, 0, Full)
          /\ partial' = PartialOf(ct)
        BY DEF Tiny
    <1>2. /\ call \in Calls /\ off = 0 /\ poly_off = 0 /\ msg = Buffer(0)
          /\ Full \in Nat /\ Units \in Nat /\ Full <= Units
        BY <1>1, StartContents
    <1>3. msg' = Buffer(off')
        BY <1>1, <1>2, XoredFirst
    <1>4. ct = Buffer(o) /\ o \in Nat /\ (IF Seal THEN Full <= o /\ Units <= o ELSE o = 0 /\ o <= Full)
        BY <1>1, <1>2, <1>3
    <1> HIDE DEF ct, o
    <1>5. mac' = Stream(call.aad + Full)
        BY <1>1, <1>2, <1>4, AadThenUnits
    <1>6. partial' = IF call.part THEN StreamBlock(call.aad + Full + 1) ELSE None
        BY <1>1, <1>2, <1>4, PartialIs
    <1>7. Contents'
        BY <1>1, <1>3, <1>5, <1>6, FinishContents
    <1>8. QED
        BY <1>1, <1>2, <1>7, EndForward

\* A message of two or three blocks.
LEMMA SmallContents ==
    ASSUME Inv, Contents, Small
    PROVE  Contents' /\ Forward
    <1> DEFINE ct == IF Seal THEN msg' ELSE msg
               o == IF Seal THEN Units ELSE 0
    <1>1. /\ pc = "start" /\ pc' = "done" /\ off' = Units /\ call' = call /\ partial' = partial
          /\ msg' = Xored(msg, 0, Units, 1)
          /\ mac' = (AadBlocks(call.aad) \o Read(ct, 0, Units)) \o <<LengthsBlock>>
        BY DEF Small
    <1>2. /\ call \in Calls /\ off = 0 /\ poly_off = 0 /\ msg = Buffer(0) /\ partial = None
          /\ Units \in Nat
        BY <1>1, StartContents
    <1>3. msg' = Buffer(off')
        BY <1>1, <1>2, XoredFirst
    <1>4. ct = Buffer(o) /\ o \in Nat /\ (IF Seal THEN Units <= o ELSE o = 0)
        BY <1>1, <1>2, <1>3
    <1> HIDE DEF ct, o
    <1>5. AadBlocks(call.aad) \o Read(ct, 0, Units) = Stream(call.aad + Units)
        <2>1. Units <= Units
            BY <1>2
        <2>2. QED
            BY <1>2, <1>4, <2>1, AadThenUnits
    <1>6. mac' = Stream(call.aad + Units + 1)
        BY <1>1, <1>2, <1>5, LengthsEnd
    <1>7. Contents'
        BY <1>1, <1>2, <1>3, <1>6, DoneContents
    <1>8. QED
        BY <1>1, <1>2, <1>7, EndForward

\* A message the direct kernel seals whole.
LEMMA SealDirectContents ==
    ASSUME Inv, Contents, SealDirect
    PROVE  Contents' /\ Forward
    <1>1. /\ pc = "start" /\ pc' = "finish" /\ off' = Units /\ call' = call /\ Seal
          /\ msg' = Xored(msg, 0, Units, 1)
          /\ mac' = AadBlocks(call.aad) \o Read(msg', 0, Full)
          /\ partial' = PartialOf(msg')
        BY DEF SealDirect, GoesDirect
    <1>2. /\ call \in Calls /\ off = 0 /\ poly_off = 0 /\ msg = Buffer(0)
          /\ Full \in Nat /\ Units \in Nat /\ Full <= Units
        BY <1>1, StartContents
    <1>3. msg' = Buffer(off') /\ msg' = Buffer(Units)
        BY <1>1, <1>2, XoredFirst
    <1>4. mac' = Stream(call.aad + Full)
        BY <1>1, <1>2, <1>3, AadThenUnits
    <1>5. partial' = IF call.part THEN StreamBlock(call.aad + Full + 1) ELSE None
        BY <1>1, <1>2, <1>3, PartialIs
    <1>6. Contents'
        BY <1>1, <1>3, <1>4, <1>5, FinishContents
    <1>7. QED
        BY <1>1, <1>2, <1>6, EndForward

\* A step that enters the bulk loop.
LEMMA EnterForward ==
    ASSUME call' = call, call \in Calls, pc = "start", pc' = "bulk",
           off = 0, off' \in Nat, poly_off' \in Nat
    PROVE  Forward
    <1>1. call.aad \in Nat
        BY CallFacts
    <1>2. Taken = 0 /\ Taken' = call.aad + poly_off'
        BY DEF Taken, Inside
    <1>3. QED
        BY <1>1, <1>2 DEF Forward

\* The seal prologue.
LEMMA PrologueSealContents ==
    ASSUME Inv, Contents, PrologueSeal
    PROVE  Contents' /\ Forward
    <1> DEFINE s == AlignGap(AadCached)
    <1>1. /\ pc = "start" /\ pc' = "bulk" /\ off' = 4 /\ poly_off' = s /\ Seal /\ call' = call
          /\ Units > 12
          /\ msg' = Xored(msg, 0, 4, 1)
          /\ mac' = AadBlocks(call.aad) \o Read(msg', 0, s)
        BY DEF PrologueSeal, SmallMax
    <1>2. call \in Calls /\ off = 0 /\ msg = Buffer(0) /\ Units \in Nat
        BY <1>1, StartContents
    <1>3. s \in 0..3
        BY <1>1, AlignFacts
    <1> HIDE DEF s
    <1>4. s \in Nat /\ s <= 4 /\ s <= Units /\ 4 <= Units /\ 4 \in Nat
        BY <1>1, <1>2, <1>3
    <1>5. msg' = Buffer(off') /\ msg' = Buffer(4)
        BY <1>1, <1>2, <1>4, XoredFirst
    <1>6. mac' = Stream(call.aad + poly_off')
        BY <1>1, <1>2, <1>4, <1>5, AadThenUnits
    <1>7. Parked' /\ pc' \in Inside
        BY <1>1 DEF Parked, Inside
    <1>8. Contents'
        BY <1>1, <1>5, <1>6, <1>7, InsideContents
    <1>9. QED
        BY <1>1, <1>2, <1>4, <1>8, EnterForward

\* The open prologue.
LEMMA PrologueOpenContents ==
    ASSUME Inv, Contents, PrologueOpen
    PROVE  Contents' /\ Forward
    <1> DEFINE s == AlignGap(AadCached)
    <1>1. /\ pc = "start" /\ pc' = "bulk" /\ off' = 4 /\ poly_off' = s + 4 /\ ~Seal
          /\ call' = call /\ Units > 12
          /\ msg' = Xored(msg, 0, 4, 1)
          /\ mac' = AadBlocks(call.aad) \o Read(msg, 0, s + 4)
        BY DEF PrologueOpen, SmallMax
    <1>2. call \in Calls /\ off = 0 /\ msg = Buffer(0) /\ Units \in Nat
        BY <1>1, StartContents
    <1>3. s \in 0..3
        BY <1>1, AlignFacts
    <1> HIDE DEF s
    <1>4. s + 4 \in Nat /\ s + 4 <= Units /\ 4 <= Units /\ 4 \in Nat /\ 0 \in Nat
        BY <1>1, <1>2, <1>3
    <1>5. msg' = Buffer(off')
        BY <1>1, <1>2, <1>4, XoredFirst
    <1>6. mac' = Stream(call.aad + poly_off')
        BY <1>1, <1>2, <1>4, AadThenUnits
    <1>7. Parked' /\ pc' \in Inside
        BY <1>1 DEF Parked, Inside
    <1>8. Contents'
        BY <1>1, <1>5, <1>6, <1>7, InsideContents
    <1>9. QED
        BY <1>1, <1>2, <1>4, <1>8, EnterForward

-----------------------------------------------------------------------------
(* Buffer and stream over a whole call.                                     *)

\* A fresh call.
LEMMA InitContents ==
    ASSUME Init
    PROVE  Contents
    <1>1. /\ call \in Calls /\ pc = "start" /\ off = 0
          /\ msg = [u \in 0..(Units - 1) |-> Pristine]
        BY DEF Init
    <1>2. Units \in Nat
        BY <1>1, CallFacts
    <1>3. msg = Buffer(off)
        BY <1>1, <1>2 DEF Buffer
    <1>4. QED
        BY <1>1, <1>3 DEF Contents, Written, Hashed, Parked, Inside

\* Every step.
LEMMA NextContents ==
    ASSUME Inv, Contents, Next
    PROVE  Contents' /\ Forward
    BY TinyContents, SmallContents, SealDirectContents, PrologueSealContents, PrologueOpenContents, SealBulkContents,
       SealStepContents, OpenPairContents, OpenBulkContents, OpenStepContents, LeaveBulkContents, SkipMediumContents,
       SealMediumAheadContents, SealMediumWeaveContents, OpenMediumEnterContents, OpenMediumWeaveContents,
       OpenMediumLastContents, DrainLagContents, FinishCursorsContents, FinishStepContents
       DEF Next

\* A stutter.
LEMMA StutterContents ==
    ASSUME Contents, UNCHANGED vars
    PROVE  Contents'
    <1>1. /\ call' = call /\ pc' = pc /\ off' = off /\ poly_off' = poly_off
          /\ msg' = msg /\ mac' = mac /\ cached' = cached /\ partial' = partial
        BY DEF vars
    <1>2. Seal' = Seal /\ Full' = Full /\ Units' = Units
        BY <1>1, SameCall
    <1>3. Written'
        BY <1>1, <1>2 DEF Contents, Written, Buffer
    <1>4. Hashed'
        BY <1>1, <1>2 DEF Contents, Hashed, Inside, Stream, StreamBlock, Ciphertext
    <1>5. Parked'
        BY <1>1, <1>2 DEF Contents, Parked
    <1>6. QED
        BY <1>3, <1>4, <1>5 DEF Contents

\* The invariant together with what buffer and stream hold.
LEMMA ContentsHold == Spec => [](Inv /\ Contents)
    <1>1. Init => Inv /\ Contents
        BY InitInv, InitContents
    <1>2. Inv /\ Contents /\ [Next]_vars => Inv' /\ Contents'
        BY NextInv, StutterInv, NextContents, StutterContents
    <1>3. QED
        BY <1>1, <1>2, PTL DEF Spec

\* At every point of every call the MAC has hashed a prefix of the stream of
\* RFC 8439, each block read on the side of its XOR where it is ciphertext,
\* whatever fused kernels fold past the cache.
THEOREM StreamHolds == Spec => []StreamInOrder
    <1>1. Inv /\ Contents => StreamInOrder
        <2> SUFFICES ASSUME Inv, Contents PROVE StreamInOrder
            OBVIOUS
        <2>1. /\ call \in Calls /\ call.aad \in Nat /\ Full \in Nat /\ Units \in Nat
              /\ poly_off \in Nat /\ pc \in Stages
            BY CallFacts DEF Inv, Types
        <2>2. \E n \in Nat : mac = Stream(n)
            <3>1. CASE pc = "start"
                <4>1. mac = << >>
                    BY <3>1 DEF Inv, AtStart
                <4>2. Stream(0) \in Seq(MacBlock) /\ Len(Stream(0)) = 0
                    BY <2>1, StreamType
                <4>3. Stream(0) = << >>
                    BY <4>2, EmptySeq
                <4>4. QED
                    BY <4>1, <4>3
            <3>2. CASE pc \in Inside
                BY <2>1, <3>2 DEF Contents, Hashed
            <3>3. CASE pc = "finish"
                BY <2>1, <3>3 DEF Contents, Hashed
            <3>4. CASE pc = "done"
                BY <2>1, <3>4 DEF Contents, Hashed
            <3>5. QED
                BY <2>1, <3>1, <3>2, <3>3, <3>4 DEF Stages, Inside
        <2>3. PICK n \in Nat : mac = Stream(n)
            BY <2>2
        <2>4. Len(mac) = n
            BY <2>1, <2>3, StreamType
        <2>5. QED
            BY <2>3, <2>4 DEF StreamInOrder
    <1>2. QED
        BY <1>1, ContentsHold, PTL

\* A finished call of any length, by any backend, has MACed the whole stream
\* and left every unit XORed with its own keystream unit.
THEOREM CallCompletes == Spec => []CallComplete
    <1>1. Inv /\ Contents => CallComplete
        <2> SUFFICES ASSUME Inv, Contents, pc = "done"
                     PROVE  /\ mac = Stream(call.aad + Units + 1)
                            /\ msg = [u \in 0..(Units - 1) |-> 4 + u]
            BY DEF CallComplete
        <2>1. Units \in Nat
            BY CallFacts DEF Inv, Types
        <2>2. off = Units /\ msg = Buffer(off) /\ mac = Stream(call.aad + Units + 1)
            BY DEF Inv, AtEnd, Contents, Written, Hashed
        <2>3. \A u \in 0..(Units - 1) : u < Units
            BY <2>1
        <2>4. QED
            BY <2>2, <2>3 DEF Buffer
    <1>2. QED
        BY <1>1, ContentsHold, PTL

\* No unit is ever XORed twice, nor with any keystream unit but its own, up to
\* the last block the counter's width admits (aead.rs, MAX_LEN).
THEOREM KeystreamIsOnce == Spec => KeystreamOnce
    <1> DEFINE Once == \A u \in DOMAIN msg : /\ msg[u] # Pristine => msg'[u] = msg[u]
                                             /\ msg'[u] \in {Pristine, 4 + u}
    <1>1. Inv /\ Contents /\ [Next]_vars => [Once]_vars
        <2> SUFFICES ASSUME Inv, Contents, Next PROVE Once
            OBVIOUS
        <2>1. Contents' /\ call' = call /\ off <= off'
            BY NextContents DEF Forward
        <2>2. Inv' /\ Units' = Units
            BY <2>1, NextInv, SameCall
        <2>3. msg = Buffer(off) /\ msg' = Buffer(off')
            BY <2>1, <2>2 DEF Contents, Written, Buffer
        <2>4. off \in Nat /\ off' \in Nat /\ Units \in Nat
            BY <2>2, CallFacts DEF Inv, Types
        <2>5. ASSUME NEW u \in 0..(Units - 1)
              PROVE  /\ Buffer(off)[u] # Pristine => Buffer(off')[u] = Buffer(off)[u]
                     /\ Buffer(off')[u] \in {Pristine, 4 + u}
            <3>1. /\ Buffer(off)[u] = IF u < off THEN 4 + u ELSE Pristine
                  /\ Buffer(off')[u] = IF u < off' THEN 4 + u ELSE Pristine
                BY DEF Buffer
            <3>2. u < off => u < off'
                BY <2>1, <2>4
            <3>3. QED
                BY <3>1, <3>2
        <2>6. DOMAIN msg = 0..(Units - 1)
            BY <2>3 DEF Buffer
        <2>7. QED
            BY <2>3, <2>5, <2>6
    <1>2. KeystreamOnce <=> [][Once]_vars
        BY DEF KeystreamOnce
    <1> HIDE DEF Once
    <1>3. QED
        BY <1>1, <1>2, ContentsHold, PTL DEF Spec

-----------------------------------------------------------------------------
(* The sealing loop and its cache.                                          *)

\* A batch of a backend that folds windows in pairs is whole pairs.
LEMMA PairBatch ==
    ASSUME call \in Calls, Ops.poly = "pair"
    PROVE  Batch % 8 = 0
    <1>1. Ops \in Backends
        BY CallsAssumption DEF CallRecord, Ops
    <1>2. QED
        BY <1>1, BackendsAssumption DEF Batch

\* Absorbing as many windows as bring the pairs to an end empties the cache.
LEMMA AbsorbEmpties ==
    ASSUME NEW kind \in PolyKinds, NEW c \in {0, 4, 8}, NEW n \in Nat, n > 0, n % 4 = 0,
           kind = "pair" => (n + (IF c = 4 THEN 4 ELSE 0)) % 8 = 0
    PROVE  AfterAbsorbBlocks(kind, c, n \div 4) = 0
    <1>1. n \div 4 \in Nat /\ n = 4 * (n \div 4) /\ n \div 4 # 0
        OBVIOUS
    <1> DEFINE w == n \div 4
    <1>2. w \in Nat /\ n = 4 * w /\ w # 0
        BY <1>1
    <1> HIDE DEF w
    <1>3. CASE kind = "pair"
        <2>1. (w + (IF c = 4 THEN 1 ELSE 0)) % 2 # 1
            BY <1>2, <1>3
        <2>2. QED
            BY <1>3, <2>1 DEF AfterAbsorbBlocks, w
    <1>4. CASE kind # "pair"
        BY <1>2, <1>4 DEF AfterAbsorbBlocks, w
    <1>5. QED
        BY <1>3, <1>4

\* The unfused sealing step absorbs up to the batch before the one it writes,
\* and leaves the cache empty whenever it absorbs.
LEMMA CatchUpPairs ==
    ASSUME NEW b \in Nat, cached \in {0, 4, 8}, partial = None
    PROVE  SealCatchUp(b) = 0
             \/ (SealCatchUp(b) + (IF cached = 4 THEN 4 ELSE 0)) % 8 = 0
    BY DEF SealCatchUp, Floor4, Floor8, Pending

\* Sealing in the bulk loop, the MAC stays one batch behind the keystream, so
\* that it never reads a store still in flight, and whenever it absorbs it
\* leaves the cache empty, so that the fused run can start.
THEOREM SealLags == Spec => SealLagsOneBatch
    <1> DEFINE Lags == pc = "bulk" /\ Seal /\ off' > off =>
                           /\ poly_off' <= off
                           /\ poly_off' > poly_off => cached' = 0
    <1>1. Inv /\ [Next]_vars => [Lags]_vars
        <2> SUFFICES ASSUME Inv, Next, pc = "bulk", Seal
                     PROVE  off' > off => /\ poly_off' <= off
                                          /\ poly_off' > poly_off => cached' = 0
            OBVIOUS
        <2>1. Here /\ Sizes /\ poly_off <= off /\ Ops.poly \in PolyKinds
            BY InsideFacts, OpsFacts DEF Inside, Here
        <2>2. cached \in {0, 4, 8} /\ Pending = cached /\ partial = None
            BY <2>1 DEF Here
        <2>3. CASE SealBulk
            <3>1. SealFusible
                BY <2>3 DEF SealBulk
            <3>2. cached = 0 /\ poly_off + Batch <= off /\ Batch > 0 /\ Batch \in Nat
                BY <2>1, <3>1 DEF SealFusible, Here, Sizes
            <3>3. poly_off' = poly_off + Batch
                BY <2>3 DEF SealBulk, Absorb
            <3>4. cached' = 0
                <4>1. CASE Ops.fused_seal
                    BY <2>3, <3>2, <4>1 DEF SealBulk
                <4>2. CASE ~Ops.fused_seal
                    <5>1. cached' = AfterAbsorbBlocks(Ops.poly, 0, Batch \div 4)
                        BY <2>3, <3>2, <4>2 DEF SealBulk, Absorb
                    <5>2. Batch % 4 = 0 /\ (Ops.poly = "pair" => (Batch + 0) % 8 = 0)
                        BY <2>1, PairBatch DEF Sizes, Here
                    <5>3. QED
                        BY <2>1, <3>2, <5>1, <5>2, AbsorbEmpties
                <4>3. QED
                    BY <4>1, <4>2
            <3>5. QED
                BY <3>2, <3>3, <3>4
        <2>4. CASE SealStep
            <3> DEFINE n == SealCatchUp(off - poly_off)
            <3>1. Absorb(msg', n)
                BY <2>4 DEF SealStep
            <3>2. off - poly_off \in Nat /\ off \in Nat /\ poly_off \in Nat
                BY <2>1 DEF Here
            <3>3. n \in Nat /\ n <= off - poly_off /\ n % 4 = 0
                BY <3>2, CatchUpFacts
            <3>4. n = 0 \/ (n + (IF cached = 4 THEN 4 ELSE 0)) % 8 = 0
                BY <2>2, <3>2, CatchUpPairs
            <3> HIDE DEF n
            <3>5. poly_off' = poly_off + n /\ (n > 0 => cached' = AfterAbsorbBlocks(Ops.poly, cached, n \div 4))
                BY <3>1 DEF Absorb
            <3>6. poly_off' <= off /\ (poly_off' > poly_off => n > 0)
                BY <3>2, <3>3, <3>5
            <3>7. n > 0 => cached' = 0
                <4> SUFFICES ASSUME n > 0 PROVE cached' = 0
                    OBVIOUS
                <4>1. (n + (IF cached = 4 THEN 4 ELSE 0)) % 8 = 0
                    BY <3>3, <3>4
                <4>2. AfterAbsorbBlocks(Ops.poly, cached, n \div 4) = 0
                    BY <2>1, <2>2, <3>3, <4>1, AbsorbEmpties
                <4>3. QED
                    BY <3>5, <4>2
            <3>8. QED
                BY <3>6, <3>7
        <2>5. CASE LeaveBulk
            <3>1. off' = off /\ off \in Nat
                BY <2>1, <2>5 DEF LeaveBulk, Here
            <3>2. QED
                BY <3>1
        <2>6. SealBulk \/ SealStep \/ LeaveBulk
            BY DEF Next, Tiny, Small, SealDirect, PrologueSeal, PrologueOpen, OpenPair, OpenBulk,
                   OpenStep, SkipMedium, SealMediumAhead, SealMediumWeave, OpenMediumEnter,
                   OpenMediumWeave, OpenMediumLast, DrainLag, FinishCursors, Finish
        <2>7. QED
            BY <2>3, <2>4, <2>5, <2>6
    <1>2. SealLagsOneBatch <=> [][Lags]_vars
        BY DEF SealLagsOneBatch
    <1> HIDE DEF Lags
    <1>3. QED
        BY <1>1, <1>2, InvHolds, PTL DEF Spec

-----------------------------------------------------------------------------
(* The promise.                                                             *)

\* The refinement mapping.
JobOf(c) == [seal |-> c.seal, aad |-> c.aad, units |-> c.full + (IF c.part THEN 1 ELSE 0)]
Job    == [seal |-> Seal, aad |-> call.aad, units |-> Units]
Text   == [u \in DOMAIN msg |-> Side(u, msg[u])]
FoundIn(s, i) == [at |-> StreamIndex(s[i]),
                  side |-> IF s[i].blk = "msg" THEN Side(s[i].at, s[i].content) ELSE "fixed"]
Found  == [i \in DOMAIN MacInput |-> FoundIn(MacInput, i)]

\* What it comes to: both images depend on the call and on one cursor each.
TextAt(o) == [u \in 0..(Units - 1) |-> IF u < o THEN "out" ELSE "in"]

BlockAt(i) ==
    [at |-> i, side |-> IF i \in (call.aad + 1)..(call.aad + Units)
                        THEN (IF Seal THEN "out" ELSE "in") ELSE "fixed"]

FoundAt(n) == [i \in 1..n |-> BlockAt(i)]

\* The stream the MAC has, the partial unit included, is its first Taken blocks.
LEMMA InputIs ==
    ASSUME Inv, Contents
    PROVE  /\ MacInput = Stream(Taken)
           /\ Taken \in Nat /\ Taken <= call.aad + Units + 1
    <1>1. /\ call \in Calls /\ call.aad \in Nat /\ Full \in Nat /\ Units \in Nat
          /\ poly_off \in Nat /\ poly_off <= Units /\ pc \in Stages
        BY CallFacts DEF Inv, Types
    <1>2. Taken \in Nat /\ Taken <= call.aad + Units + 1
        BY <1>1 DEF Taken
    <1>3. CASE pc = "start"
        <2>1. mac = << >> /\ partial = None
            BY <1>3 DEF Inv, AtStart
        <2>2. Stream(0) \in Seq(MacBlock) /\ Len(Stream(0)) = 0
            BY <1>1, StreamType
        <2>3. Stream(0) = << >>
            BY <2>2, EmptySeq
        <2>4. << >> \o << >> = << >>
            BY EmptySeq, ConcatEmptySeq
        <2>5. Taken = 0
            BY <1>3 DEF Taken
        <2>6. QED
            BY <1>2, <2>1, <2>3, <2>4, <2>5 DEF MacInput
    <1>4. CASE pc \in Inside
        <2>1. mac = Stream(call.aad + poly_off) /\ partial = None /\ mac \in Seq(MacBlock)
            BY <1>4 DEF Contents, Hashed, Inv, Aligned, Types
        <2>2. mac \o << >> = mac
            BY <2>1, ConcatEmptySeq
        <2>3. Taken = call.aad + poly_off
            BY <1>4 DEF Taken, Inside
        <2>4. QED
            BY <1>2, <2>1, <2>2, <2>3 DEF MacInput
    <1>5. CASE pc = "finish"
        <2>1. Taken = call.aad + Units
            BY <1>5 DEF Taken, Inside
        <2>2. QED
            BY <1>1, <1>2, <1>5, <2>1, WithPartial DEF MacInput
    <1>6. CASE pc = "done"
        <2>1. mac = Stream(call.aad + Units + 1) /\ partial = None /\ mac \in Seq(MacBlock)
            BY <1>6 DEF Contents, Hashed, Inv, Types
        <2>2. mac \o << >> = mac
            BY <2>1, ConcatEmptySeq
        <2>3. Taken = call.aad + Units + 1
            BY <1>6 DEF Taken, Inside
        <2>4. QED
            BY <1>2, <2>1, <2>2, <2>3 DEF MacInput
    <1>7. QED
        BY <1>1, <1>3, <1>4, <1>5, <1>6 DEF Stages, Inside

\* What the MAC finds in block i of the stream.
LEMMA FoundBlock ==
    ASSUME call \in Calls, NEW s, NEW i \in 1..(call.aad + Units + 1), s[i] = StreamBlock(i)
    PROVE  FoundIn(s, i) = BlockAt(i)
    <1>1. call.aad \in Nat /\ Units \in Nat /\ Seal \in BOOLEAN
        BY CallFacts
    <1>2. CASE i <= call.aad
        <2>1. s[i] = [blk |-> "aad", at |-> i - 1, content |-> Pristine]
            BY <1>2 DEF StreamBlock, AadBlock
        <2>2. s[i].blk = "aad" /\ s[i].at = i - 1
            BY <2>1
        <2>3. StreamIndex(s[i]) = i
            BY <2>2 DEF StreamIndex
        <2>4. i \notin (call.aad + 1)..(call.aad + Units)
            BY <1>1, <1>2
        <2>5. QED
            BY <2>2, <2>3, <2>4 DEF FoundIn, BlockAt
    <1>3. CASE ~(i <= call.aad) /\ i <= call.aad + Units
        <2> DEFINE u == i - call.aad - 1
        <2>1. s[i] = [blk |-> "msg", at |-> u, content |-> Ciphertext(u)]
            BY <1>3 DEF StreamBlock
        <2>2. s[i].blk = "msg" /\ s[i].at = u /\ s[i].content = Ciphertext(u)
            BY <2>1
        <2>3. u \in Nat /\ call.aad + u + 1 = i
            BY <1>1, <1>3
        <2> HIDE DEF u
        <2>4. StreamIndex(s[i]) = i
            BY <2>2, <2>3 DEF StreamIndex
        <2>5. Side(u, Ciphertext(u)) = IF Seal THEN "out" ELSE "in"
            BY <2>3 DEF Side, Ciphertext, Pristine
        <2>6. i \in (call.aad + 1)..(call.aad + Units)
            BY <1>1, <1>3
        <2>7. QED
            BY <2>2, <2>4, <2>5, <2>6 DEF FoundIn, BlockAt
    <1>4. CASE ~(i <= call.aad) /\ ~(i <= call.aad + Units)
        <2>1. s[i] = [blk |-> "len", at |-> 0, content |-> Pristine]
            BY <1>4 DEF StreamBlock, LengthsBlock
        <2>2. s[i].blk = "len"
            BY <2>1
        <2>3. i = call.aad + Units + 1
            BY <1>1, <1>4
        <2>4. StreamIndex(s[i]) = i
            BY <2>2, <2>3 DEF StreamIndex
        <2>5. i \notin (call.aad + 1)..(call.aad + Units)
            BY <1>1, <1>4
        <2>6. QED
            BY <2>2, <2>4, <2>5 DEF FoundIn, BlockAt
    <1>5. QED
        BY <1>2, <1>3, <1>4

\* The images of the buffer and of the stream.
LEMMA Mapped ==
    ASSUME Inv, Contents
    PROVE  /\ Text = TextAt(off)
           /\ Found = FoundAt(Taken)
           /\ Len(MacInput) = Taken
    <1>1. call \in Calls /\ Units \in Nat /\ off \in Nat /\ call.aad \in Nat
        BY CallFacts DEF Inv, Types
    <1>2. /\ MacInput = Stream(Taken) /\ Taken \in Nat /\ Taken <= call.aad + Units + 1
        BY InputIs
    <1>3. /\ Len(MacInput) = Taken /\ MacInput \in Seq(MacBlock)
          /\ \A i \in 1..Taken : MacInput[i] = StreamBlock(i)
        BY <1>1, <1>2, StreamType
    <1>4. DOMAIN MacInput = 1..Taken
        BY <1>3, LenProperties
    <1>5. \A i \in 1..Taken : FoundIn(MacInput, i) = BlockAt(i)
        <2> SUFFICES ASSUME NEW i \in 1..Taken
                     PROVE  FoundIn(MacInput, i) = BlockAt(i)
            OBVIOUS
        <2>1. i \in 1..(call.aad + Units + 1) /\ MacInput[i] = StreamBlock(i)
            BY <1>1, <1>2, <1>3
        <2>2. QED
            BY <1>1, <2>1, FoundBlock
    <1>6. Found = FoundAt(Taken)
        BY <1>4, <1>5 DEF Found, FoundAt
    <1>7. msg = Buffer(off) /\ DOMAIN msg = 0..(Units - 1)
        BY DEF Contents, Written, Buffer
    <1>8. \A u \in 0..(Units - 1) : Side(u, msg[u]) = IF u < off THEN "out" ELSE "in"
        BY <1>1, <1>7 DEF Buffer, Side, Pristine
    <1>9. Text = TextAt(off)
        BY <1>7, <1>8 DEF Text, TextAt
    <1>10. QED
        BY <1>3, <1>6, <1>9

\* Which of the two leads, and that the lengths come last.
Leads ==
    /\ Seal  => Taken <= call.aad + off \/ off = Units
    /\ ~Seal => call.aad + off <= Taken \/ off = 0
    /\ Taken = call.aad + Units + 1 => off = Units

\* It follows from the order of the cursors.
LEMMA LeadsHolds ==
    ASSUME Inv
    PROVE  Leads
    <1>1. /\ call.aad \in Nat /\ Full \in Nat /\ Units \in Nat /\ off \in Nat
          /\ poly_off \in Nat /\ poly_off <= Units /\ pc \in Stages
        BY CallFacts DEF Inv, Types
    <1>2. CASE pc = "start"
        BY <1>1, <1>2 DEF Leads, Taken, Inv, AtStart
    <1>3. CASE pc \in Inside
        <2>1. IF Seal THEN poly_off <= off ELSE off <= poly_off
            BY <1>3, InsideFacts
        <2>2. Taken = call.aad + poly_off
            BY <1>3 DEF Taken, Inside
        <2>3. QED
            BY <1>1, <2>1, <2>2 DEF Leads
    <1>4. CASE pc \in {"finish", "done"}
        <2>1. off = Units
            BY <1>4 DEF Inv, AtEnd
        <2>2. Taken = call.aad + Units \/ Taken = call.aad + Units + 1
            BY <1>4 DEF Taken, Inside
        <2>3. QED
            BY <1>1, <2>1, <2>2 DEF Leads
    <1>5. QED
        BY <1>1, <1>2, <1>3, <1>4 DEF Stages, Inside

\* A fresh call is a fresh promise.
LEMMA InitPromised ==
    ASSUME Init
    PROVE  Promise!Init
    <1>1. Inv /\ Contents
        BY InitInv, InitContents
    <1>2. call \in Calls /\ pc = "start" /\ off = 0
        BY DEF Init
    <1>3. Text = TextAt(0) /\ Found = FoundAt(0) /\ Len(MacInput) = 0
        BY <1>1, <1>2, Mapped DEF Taken
    <1>4. Job = JobOf(call)
        BY DEF Job, JobOf, Seal, Units, Full
    <1>5. Job \in {JobOf(c) : c \in Calls}
        BY <1>2, <1>4
    <1>6. FoundAt(0) = << >>
        BY DEF FoundAt
    <1>7. Units \in Nat
        BY <1>2, CallFacts
    <1>8. TextAt(0) = [u \in 0..(Units - 1) |-> "in"]
        BY <1>7 DEF TextAt
    <1>9. QED
        BY <1>2, <1>3, <1>5, <1>6, <1>8 DEF Promise!Init, Job, JobOf, Text, Found, FoundIn

\* Carrying the buffer on.
LEMMA TextMoves ==
    ASSUME call \in Calls, NEW o \in Nat, NEW p \in Nat, o <= p, p <= Units
    PROVE  TextAt(p) = [u \in DOMAIN TextAt(o) |-> IF o <= u /\ u < p THEN "out" ELSE TextAt(o)[u]]
    <1>1. Units \in Nat
        BY CallFacts
    <1>2. DOMAIN TextAt(o) = 0..(Units - 1)
        BY DEF TextAt
    <1>3. \A u \in 0..(Units - 1) :
              (IF u < p THEN "out" ELSE "in")
                = (IF o <= u /\ u < p THEN "out" ELSE TextAt(o)[u])
        BY <1>1 DEF TextAt
    <1>4. QED
        BY <1>2, <1>3 DEF TextAt

\* Taking more of the stream.
LEMMA FoundGrows ==
    ASSUME NEW S, NEW n \in Nat, NEW k \in Nat, \A i \in 1..(n + k) : BlockAt(i) \in S
    PROVE  FoundAt(n + k) = FoundAt(n) \o [i \in 1..k |-> BlockAt(n + i)]
    <1> DEFINE s == FoundAt(n)
               b == [i \in 1..k |-> BlockAt(n + i)]
               t == FoundAt(n + k)
    <1>1. s \in Seq(S) /\ Len(s) = n /\ \A i \in 1..n : s[i] = BlockAt(i)
        <2>1. \A i \in 1..n : BlockAt(i) \in S
            OBVIOUS
        <2>2. QED
            BY <2>1 DEF FoundAt
    <1>2. b \in Seq(S) /\ Len(b) = k /\ \A i \in 1..k : b[i] = BlockAt(n + i)
        <2>1. \A i \in 1..k : BlockAt(n + i) \in S
            OBVIOUS
        <2>2. QED
            BY <2>1
    <1>3. t \in Seq(S) /\ Len(t) = n + k /\ \A i \in 1..(n + k) : t[i] = BlockAt(i)
        BY DEF FoundAt
    <1> HIDE DEF s, b, t
    <1>4. /\ s \o b \in Seq(S) /\ Len(s \o b) = n + k
          /\ \A i \in 1..(n + k) : (s \o b)[i] = IF i <= n THEN s[i] ELSE b[i - n]
        BY <1>1, <1>2, ConcatProperties
    <1>5. ASSUME NEW i \in 1..(n + k)
          PROVE  (s \o b)[i] = t[i]
        <2>1. CASE i <= n
            BY <1>1, <1>3, <1>4, <2>1
        <2>2. CASE ~(i <= n)
            <3>1. i - n \in 1..k /\ n + (i - n) = i
                BY <2>2
            <3>2. b[i - n] = BlockAt(n + (i - n))
                BY <1>2, <3>1
            <3>3. QED
                BY <1>3, <1>4, <2>2, <3>1, <3>2
        <2>3. QED
            BY <2>1, <2>2
    <1>6. s \o b = t
        BY <1>3, <1>4, <1>5, SeqEqual
    <1>7. QED
        BY <1>6 DEF s, b, t

\* The parts of the promise under the mapping.
LEMMA PromiseParts ==
    /\ Job.seal = Seal /\ Job.aad = call.aad /\ Job.units = Units
    /\ Promise!Total = call.aad + Units + 1
    /\ Promise!MessageBlocks = (call.aad + 1)..(call.aad + Units)
    /\ Promise!CiphertextSide = IF Seal THEN "out" ELSE "in"
    /\ \A i : Promise!UnitOf(i) = i - call.aad - 1
    BY DEF Job, Promise!Total, Promise!MessageBlocks, Promise!UnitOf, Promise!CiphertextSide

\* What a block is found as, in the buffer of the side the MAC reads.
LEMMA TakenIs ==
    ASSUME call \in Calls, NEW o \in Nat, NEW i \in Nat,
           i \in (call.aad + 1)..(call.aad + Units) =>
               IF Seal THEN i - call.aad - 1 < o ELSE o <= i - call.aad - 1
    PROVE  Promise!Taken(TextAt(o), i) = BlockAt(i)
    <1>1. call.aad \in Nat /\ Units \in Nat /\ Seal \in BOOLEAN
        BY CallFacts
    <1> DEFINE u == i - call.aad - 1
    <1>2. Promise!Taken(TextAt(o), i) =
             [at |-> i, side |-> IF i \in (call.aad + 1)..(call.aad + Units)
                                 THEN TextAt(o)[u] ELSE "fixed"]
        BY PromiseParts DEF Promise!Taken
    <1>3. CASE i \in (call.aad + 1)..(call.aad + Units)
        <2>1. u \in 0..(Units - 1)
            BY <1>1, <1>3
        <2>2. TextAt(o)[u] = IF u < o THEN "out" ELSE "in"
            BY <2>1 DEF TextAt
        <2>3. (u < o) <=> Seal
            BY <1>1, <1>3, <2>1
        <2>4. TextAt(o)[u] = IF Seal THEN "out" ELSE "in"
            BY <2>2, <2>3
        <2> HIDE DEF u
        <2>5. QED
            BY <1>2, <1>3, <2>4 DEF BlockAt
    <1>4. CASE i \notin (call.aad + 1)..(call.aad + Units)
        BY <1>2, <1>4 DEF BlockAt
    <1>5. QED
        BY <1>3, <1>4

\* The image of a state, in one predicate.
Image ==
    /\ Text = TextAt(off)
    /\ Found = FoundAt(Taken)
    /\ Len(MacInput) = Taken
    /\ Taken \in Nat /\ Taken <= call.aad + Units + 1
    /\ Leads

\* The invariant gives it.
LEMMA ImageHolds == Inv /\ Contents => Image
    BY Mapped, InputIs, LeadsHolds DEF Image

\* Every step keeps the promise.
LEMMA StepPromised ==
    ASSUME Inv, Contents, Next
    PROVE  Promise!Step
    <1> DEFINE t2 == Taken'
               o2 == off'
    <1>1. Inv' /\ Contents' /\ call' = call /\ off <= o2 /\ Taken <= t2
        BY NextInv, NextContents DEF Forward
    <1>2. Seal' = Seal /\ Units' = Units
        BY <1>1, SameCall
    <1>3. /\ call \in Calls /\ call.aad \in Nat /\ Units \in Nat /\ Seal \in BOOLEAN
          /\ off \in Nat /\ o2 \in Nat /\ o2 <= Units
        BY <1>1, <1>2, CallFacts DEF Inv, Types
    <1>4. Taken \in Nat /\ Text = TextAt(off) /\ Found = FoundAt(Taken) /\ Len(MacInput) = Taken
        BY Mapped, InputIs
    <1>5. /\ t2 \in Nat /\ t2 <= call.aad + Units + 1
          /\ Text' = TextAt(o2) /\ Found' = FoundAt(t2) /\ Len(MacInput)' = t2
        <2>1. Image'
            BY <1>1, ImageHolds, PTL
        <2>2. TextAt(off)' = TextAt(o2) /\ FoundAt(Taken)' = FoundAt(t2)
            BY <1>1, <1>2 DEF TextAt, FoundAt, BlockAt
        <2>3. QED
            BY <1>1, <1>2, <2>1, <2>2 DEF Image
    <1>6. Leads /\ (Seal  => t2 <= call.aad + o2 \/ o2 = Units)
                /\ (~Seal => call.aad + o2 <= t2 \/ o2 = 0)
                /\ (t2 = call.aad + Units + 1 => o2 = Units)
        <2>1. Leads
            BY LeadsHolds
        <2>2. Image'
            BY <1>1, ImageHolds, PTL
        <2>3. QED
            BY <1>1, <1>2, <2>1, <2>2 DEF Image, Leads
    <1> HIDE DEF t2, o2
    <1> DEFINE from == IF Seal THEN o2 ELSE off
    <1>7. ASSUME NEW i \in (Taken + 1)..t2, i \in (call.aad + 1)..(call.aad + Units)
          PROVE  IF Seal THEN i - call.aad - 1 < o2 ELSE off <= i - call.aad - 1
        <2>1. CASE Seal
            BY <1>3, <1>4, <1>5, <1>6, <1>7, <2>1
        <2>2. CASE ~Seal
            <3>1. call.aad + off <= Taken \/ off = 0
                BY <1>6, <2>2 DEF Leads
            <3>2. QED
                BY <1>3, <1>4, <1>5, <1>7, <2>2, <3>1
        <2>3. QED
            BY <2>1, <2>2
    <1>8. ~Seal => \A u \in off..(o2 - 1) : call.aad + u + 1 <= t2
        BY <1>3, <1>5, <1>6
    <1>9. TextAt(o2) = [u \in DOMAIN TextAt(off) |->
                            IF off <= u /\ u < o2 THEN "out" ELSE TextAt(off)[u]]
        BY <1>1, <1>3, TextMoves DEF o2
    <1>10. FoundAt(t2) = FoundAt(Taken) \o
             [k \in 1..(t2 - Taken) |-> Promise!Taken(TextAt(from), Taken + k)]
        <2> DEFINE d == t2 - Taken
                   S == [at : Nat, side : {"in", "out", "fixed"}]
        <2>1. d \in Nat /\ Taken + d = t2
            BY <1>1, <1>4, <1>5
        <2>2. \A i \in 1..(Taken + d) : BlockAt(i) \in S
            BY <1>4, <2>1 DEF BlockAt
        <2> HIDE DEF S, d
        <2>3. FoundAt(Taken + d) = FoundAt(Taken) \o [k \in 1..d |-> BlockAt(Taken + k)]
            BY <1>4, <2>1, <2>2, FoundGrows
        <2>4. from \in Nat
            BY <1>3
        <2>5. \A i \in (Taken + 1)..t2 : Promise!Taken(TextAt(from), i) = BlockAt(i)
            <3> SUFFICES ASSUME NEW i \in (Taken + 1)..t2
                         PROVE  Promise!Taken(TextAt(from), i) = BlockAt(i)
                OBVIOUS
            <3>1. i \in Nat
                BY <1>4, <1>5
            <3>2. i \in (call.aad + 1)..(call.aad + Units) =>
                      IF Seal THEN i - call.aad - 1 < from ELSE from <= i - call.aad - 1
                BY <1>7
            <3> HIDE DEF from
            <3>3. QED
                BY <1>3, <2>4, <3>1, <3>2, TakenIs
        <2> HIDE DEF from
        <2>6. \A k \in 1..d : Promise!Taken(TextAt(from), Taken + k) = BlockAt(Taken + k)
            <3>1. \A k \in 1..d : Taken + k \in (Taken + 1)..t2
                BY <1>4, <2>1
            <3>2. QED
                BY <2>5, <3>1
        <2>7. [k \in 1..d |-> Promise!Taken(TextAt(from), Taken + k)]
                = [k \in 1..d |-> BlockAt(Taken + k)]
            BY <2>6
        <2>8. QED
            BY <2>1, <2>3, <2>7 DEF d
    <1>11. Job' = Job
        BY <1>1, <1>2 DEF Job
    <1> USE DEF o2, t2
    <1>12. /\ off' \in off..Job.units
           /\ Len(MacInput)' \in Len(MacInput)..Promise!Total
        BY <1>1, <1>3, <1>4, <1>5, PromiseParts
    <1>13. \A i \in (Len(MacInput) + 1)..Len(MacInput)' :
             /\ i \in Promise!MessageBlocks =>
                   IF Job.seal THEN Promise!UnitOf(i) < off' ELSE off <= Promise!UnitOf(i)
             /\ i = Promise!Total => off' = Job.units
        BY <1>3, <1>4, <1>5, <1>6, <1>7, PromiseParts
    <1>14. ~Job.seal => \A u \in off..(off' - 1) : Job.aad + u + 1 <= Len(MacInput)'
        BY <1>5, <1>8, PromiseParts
    <1>15. Text' = [u \in DOMAIN Text |-> IF off <= u /\ u < off' THEN "out" ELSE Text[u]]
        BY <1>4, <1>5, <1>9
    <1>16. Found' = Found \o [k \in 1..(Len(MacInput)' - Len(MacInput)) |->
                 Promise!Taken(IF Job.seal THEN Text' ELSE Text, Len(MacInput) + k)]
        <2>1. (IF Job.seal THEN Text' ELSE Text) = TextAt(from)
            BY <1>4, <1>5, PromiseParts
        <2> HIDE DEF from
        <2>2. QED
            BY <1>4, <1>5, <1>10, <2>1
    <1>17. QED
        BY <1>11, <1>12, <1>13, <1>14, <1>15, <1>16, Zenon
           DEF Promise!Step, Job, Text, Found, FoundIn

\* A stutter is one of the promise.
LEMMA StutterPromised ==
    ASSUME UNCHANGED vars
    PROVE  UNCHANGED Promise!vars
    <1>1. /\ call' = call /\ off' = off /\ msg' = msg /\ mac' = mac /\ partial' = partial
        BY DEF vars
    <1>2. Seal' = Seal /\ Units' = Units
        BY <1>1, SameCall
    <1>3. MacInput' = MacInput
        BY <1>1 DEF MacInput
    <1>4. QED
        BY <1>1, <1>2, <1>3 DEF Promise!vars, Side, StreamIndex

\* Every path of every backend, for any lengths, implements the one promise:
\* no unit is output before its turn, the MAC takes the stream in order, each
\* block from the side where it is ciphertext, and closes it last.
THEOREM EngineImplements == Spec => Implements
    <1>1. Init => Promise!Init
        BY InitPromised
    <1>2. Inv /\ Contents /\ [Next]_vars => [Promise!Step]_(Promise!vars)
        BY StepPromised, StutterPromised
    <1>3. QED
        BY <1>1, <1>2, ContentsHold, PTL DEF Spec, Implements, Promise!Spec
-----------------------------------------------------------------------------
(* Progress.                                                                *)

\* How far a stage lies from the start of process().
StageOf(s) ==
    CASE s = "start" -> 0 [] s = "bulk" -> 1 [] s = "medium" -> 2 [] s = "weave" -> 3
      [] s = "drain" -> 4 [] s = "tail" -> 5 [] s = "finish" -> 6 [] OTHER -> 7

\* More steps than a call has left: each ends a stage or moves a cursor.
StepsLeft == (7 - StageOf(pc)) + (Units - off) + (Units - poly_off)

\* One more iteration of the bulk loop moves a cursor.
LEMMA BulkMoves ==
    ASSUME Inv, pc = "bulk",
           SealBulk \/ SealStep \/ OpenPair \/ OpenBulk \/ OpenStep
    PROVE  \/ pc' = "medium"
           \/ pc' = "bulk" /\ (off' > off \/ poly_off' > poly_off)
    <1>1. Here /\ Sizes
        BY InsideFacts DEF Inside
    <1>2. /\ off \in Nat /\ poly_off \in Nat /\ poly_off <= Full /\ Batch \in Nat /\ Batch > 0
        BY <1>1 DEF Here, Sizes
    <1>3. CASE SealBulk
        <2>1. off' = off + Batch /\ pc' = pc
            BY <1>3 DEF SealBulk, Encrypt
        <2>2. QED
            BY <1>2, <2>1
    <1>4. CASE SealStep
        <2>1. off' = off + Batch /\ pc' = pc
            BY <1>4 DEF SealStep, Encrypt
        <2>2. QED
            BY <1>2, <2>1
    <1>5. CASE OpenPair
        <2>1. poly_off' = poly_off + 4 /\ pc' = pc
            BY <1>5 DEF OpenPair, Absorb
        <2>2. QED
            BY <1>2, <2>1
    <1>6. CASE OpenBulk
        <2>1. off' = off + Batch /\ pc' = pc
            BY <1>6 DEF OpenBulk, Encrypt
        <2>2. QED
            BY <1>2, <2>1
    <1>7. CASE OpenStep
        <2> DEFINE e == Least(off + Batch, Floor4(poly_off + OpenAhead))
        <2>1. \/ pc' = "medium"
              \/ ~(e <= off) /\ pc' = "bulk" /\ off' = off + (e - off)
            BY <1>7 DEF OpenStep, Encrypt
        <2>2. OpenAhead \in Nat
            BY <1>1, <1>2, AheadFacts
        <2>3. e \in Nat
            BY <1>2, <2>2 DEF Least, Floor4
        <2> HIDE DEF e
        <2>4. QED
            BY <1>2, <2>1, <2>3
    <1>8. QED
        BY <1>3, <1>4, <1>5, <1>6, <1>7

\* A step ends a stage, or repeats one with a cursor moved.
LEMMA StageEnds ==
    ASSUME Inv, Next
    PROVE  \/ StageOf(pc') > StageOf(pc)
           \/ pc' = pc /\ (off' > off \/ poly_off' > poly_off)
    <1>1. CASE Tiny \/ Small \/ SealDirect \/ PrologueSeal \/ PrologueOpen
        <2>1. pc = "start" /\ pc' \in {"bulk", "finish", "done"}
            BY <1>1 DEF Tiny, Small, SealDirect, PrologueSeal, PrologueOpen
        <2>2. QED
            BY <2>1 DEF StageOf
    <1>2. CASE SealBulk \/ SealStep \/ OpenPair \/ OpenBulk \/ OpenStep
        <2>1. pc = "bulk"
            BY <1>2 DEF SealBulk, SealStep, OpenPair, OpenBulk, OpenStep
        <2>2. pc' = "medium" \/ (pc' = "bulk" /\ (off' > off \/ poly_off' > poly_off))
            BY <1>2, <2>1, BulkMoves
        <2>3. QED
            BY <2>1, <2>2 DEF StageOf
    <1>3. CASE LeaveBulk \/ SkipMedium \/ SealMediumAhead \/ OpenMediumEnter
        BY <1>3 DEF LeaveBulk, SkipMedium, SealMediumAhead, OpenMediumEnter, StageOf
    <1>4. CASE OpenMediumWeave
        <2>1. pc = "weave" /\ pc' = pc /\ off' = off + 32
            BY <1>4 DEF OpenMediumWeave, Encrypt
        <2>2. off \in Nat
            BY DEF Inv, Types
        <2>3. QED
            BY <2>1, <2>2
    <1>5. CASE SealMediumWeave \/ OpenMediumLast
        <2>1. pc = "weave" /\ pc' = "drain"
            BY <1>5 DEF SealMediumWeave, OpenMediumLast
        <2>2. QED
            BY <2>1 DEF StageOf
    <1>6. CASE DrainLag \/ FinishCursors \/ Finish
        <2>1. <<pc, pc'>> \in {<<"drain", "tail">>, <<"tail", "finish">>, <<"finish", "done">>}
            BY <1>6 DEF DrainLag, FinishCursors, Finish
        <2>2. QED
            BY <2>1 DEF StageOf
    <1>7. QED
        BY <1>1, <1>2, <1>3, <1>4, <1>5, <1>6 DEF Next

\* The MAC cursor never moves back either.
LEMMA MacForward ==
    ASSUME Inv, Contents, Next
    PROVE  poly_off <= poly_off'
    <1>1. Inv' /\ Forward
        BY NextInv, NextContents
    <1>2. call' = call /\ Taken <= Taken' /\ Units' = Units
        BY <1>1, SameCall DEF Forward
    <1>3. /\ call \in Calls /\ poly_off \in Nat /\ poly_off' \in Nat
          /\ poly_off <= Units /\ pc \in Stages /\ pc' \in Stages
        BY <1>1, <1>2 DEF Inv, Types
    <1>4. call.aad \in Nat
        BY <1>3, CallFacts
    <1>5. CASE pc = "start"
        BY <1>3, <1>5 DEF Inv, AtStart
    <1>6. CASE pc \in Inside /\ pc' \in Inside
        <2>1. Taken = call.aad + poly_off /\ Taken' = call.aad + poly_off'
            BY <1>2, <1>6 DEF Taken, Inside
        <2>2. QED
            BY <1>2, <1>3, <1>4, <2>1
    <1>7. CASE pc' \in {"finish", "done"}
        <2>1. poly_off' = Units
            BY <1>1, <1>2, <1>7 DEF Inv, AtEnd
        <2>2. QED
            BY <1>3, <2>1
    <1>8. pc' # "start" /\ (pc \in {"finish", "done"} => pc' \in {"finish", "done"})
        <2>1. pc' = pc \/ StageOf(pc') > StageOf(pc)
            BY StageEnds
        <2>2. pc # "done" /\ (pc = "finish" => pc' = "done") /\ (pc = "start" => pc' # "start")
            BY DEF Next, Tiny, Small, SealDirect, PrologueSeal, PrologueOpen, SealBulk, SealStep,
                   OpenPair, OpenBulk, OpenStep, LeaveBulk, SkipMedium, SealMediumAhead,
                   SealMediumWeave, OpenMediumEnter, OpenMediumWeave, OpenMediumLast, DrainLag,
                   FinishCursors, Finish
        <2>3. QED
            BY <1>3, <2>1, <2>2 DEF StageOf, Stages
    <1>9. QED
        BY <1>3, <1>5, <1>6, <1>7, <1>8 DEF Stages, Inside

\* A sum of what is left falls when one part falls by enough.
LEMMA SumFalls ==
    ASSUME NEW n \in Nat, NEW a \in 0..7, NEW b \in 0..7,
           NEW x \in Nat, NEW y \in Nat, NEW p \in Nat, NEW q \in Nat,
           x <= p, y <= q, p <= n, q <= n,
           b > a \/ (b = a /\ (p > x \/ q > y))
    PROVE  /\ (7 - b) + (n - p) + (n - q) \in Nat
           /\ (7 - b) + (n - p) + (n - q) < (7 - a) + (n - x) + (n - y)
    <1>1. 7 - b >= 0 /\ n - p >= 0 /\ n - q >= 0
        OBVIOUS
    <1>2. 7 - b <= 7 - a /\ n - p <= n - x /\ n - q <= n - y
        OBVIOUS
    <1>3. 7 - b < 7 - a \/ n - p < n - x \/ n - q < n - y
        OBVIOUS
    <1>4. QED
        BY <1>1, <1>2, <1>3

\* Every iteration of every loop of process() and of the fused kernels brings
\* the call nearer to its end: a call of n units takes at most 2 n + 7 steps,
\* on any backend (the loop guards of aead.rs; an open step that cannot move
\* the keystream leaves the loop).
THEOREM EveryStepNearer ==
    Spec => [][StepsLeft' \in Nat /\ StepsLeft' < StepsLeft]_vars
    <1>1. Inv /\ Contents /\ Next => StepsLeft' \in Nat /\ StepsLeft' < StepsLeft
        <2> SUFFICES ASSUME Inv, Contents, Next
                     PROVE  StepsLeft' \in Nat /\ StepsLeft' < StepsLeft
            OBVIOUS
        <2>1. Inv' /\ call' = call /\ off <= off' /\ poly_off <= poly_off'
            BY NextInv, NextContents, MacForward DEF Forward
        <2>2. Units' = Units /\ Units \in Nat
            BY <2>1, SameCall, CallFacts DEF Inv, Types
        <2>3. /\ off \in Nat /\ off' \in Nat /\ off' <= Units
              /\ poly_off \in Nat /\ poly_off' \in Nat /\ poly_off' <= Units
            BY <2>1, <2>2 DEF Inv, Types
        <2>4. StageOf(pc) \in 0..7 /\ StageOf(pc') \in 0..7
            BY DEF StageOf
        <2>5. \/ StageOf(pc') > StageOf(pc)
              \/ StageOf(pc') = StageOf(pc) /\ (off' > off \/ poly_off' > poly_off)
            BY StageEnds
        <2>6. StepsLeft' = (7 - StageOf(pc')) + (Units - off') + (Units - poly_off')
            BY <2>2 DEF StepsLeft
        <2> DEFINE a == StageOf(pc)
                   b == StageOf(pc')
        <2>7. a \in 0..7 /\ b \in 0..7 /\ (b > a \/ (b = a /\ (off' > off \/ poly_off' > poly_off)))
            BY <2>4, <2>5
        <2>8. /\ StepsLeft = (7 - a) + (Units - off) + (Units - poly_off)
              /\ StepsLeft' = (7 - b) + (Units - off') + (Units - poly_off')
            BY <2>6 DEF StepsLeft
        <2> HIDE DEF a, b
        <2>9. /\ (7 - b) + (Units - off') + (Units - poly_off') \in Nat
              /\ (7 - b) + (Units - off') + (Units - poly_off')
                    < (7 - a) + (Units - off) + (Units - poly_off)
            BY <2>1, <2>2, <2>3, <2>7, SumFalls
        <2>10. QED
            BY <2>8, <2>9
    <1>2. Inv /\ Contents /\ [Next]_vars => [StepsLeft' \in Nat /\ StepsLeft' < StepsLeft]_vars
        BY <1>1
    <1>3. QED
        BY <1>2, ContentsHold, PTL DEF Spec
=============================================================================
