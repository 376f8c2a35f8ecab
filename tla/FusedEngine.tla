------------------------------ MODULE FusedEngine ----------------------------
(***************************************************************************)
(* The fused ChaCha20-Poly1305 pipeline: `process<O, SEAL>` of             *)
(* src/src/aead.rs, for every backend `O`, both directions, one call.      *)
(*                                                                         *)
(* Two cursors walk one message buffer in place: `off`, up to where the    *)
(* keystream has been XORed in, and `poly_off`, up to where the MAC has    *)
(* absorbed.  What makes the code hard is that the two walk on different   *)
(* grids (the AAD shifts the MAC's 64-byte windows), that the MAC keeps    *)
(* blocks back in a cache which fused kernels bypass, and that a byte must *)
(* be MACed as ciphertext: after the XOR when sealing, before it when      *)
(* opening.                                                                *)
(*                                                                         *)
(* Lengths are counted in units of 16 bytes (one Poly1305 block), the      *)
(* message being `full` whole units and possibly one partial unit.  Every  *)
(* cursor of the code is a multiple of 16 bytes or the end of the message, *)
(* so nothing is lost.  A ChaCha20 block is 4 units.                       *)
(***************************************************************************)
EXTENDS Integers, Sequences, PolyCache

CONSTANTS
    Calls,      \* the calls to explore, see CallRecord
    Backends,   \* records of BackendOps!OpsRecord
    CtrMod      \* values of the block counter (2^32 in the code)

\* Largest message the counter addresses, MAX_LEN; the API refuses len >= MAX_LEN.
MaxLen == 4 * (CtrMod - 1)

CallRecord ==
    [ops: Backends, seal: BOOLEAN, aad: Nat, full: Nat, part: BOOLEAN]

ASSUME CtrModAssumption == CtrMod \in Nat /\ CtrMod > 16

\* The six backends of BackendOps satisfy it: only AVX-512 IFMA has fused
\* kernels and folds windows in pairs, and its batch is 64 units.
ASSUME BackendsAssumption ==
    \A b \in Backends :
        /\ b.batch \in Nat \ {0} /\ b.batch % 4 = 0
        /\ b.batch = 4 => b.poly = "soft"
        /\ b.poly = "pair" => b.batch % 8 = 0
        /\ b.poly \in PolyKinds
        /\ b.fused_seal \in BOOLEAN
        /\ b.fused_open \in BOOLEAN
        /\ b.fused_medium \in BOOLEAN
        /\ b.fused_seal \/ b.fused_open \/ b.fused_medium =>
               b.poly = "pair" /\ b.batch = 64
        /\ b.direct_seal_max \in 0..60
        /\ b.ks_advance \in [0..3 -> 0..5]

ASSUME CallsAssumption ==
    /\ Calls \subseteq CallRecord
    /\ \A c \in Calls : c.full < MaxLen

VARIABLES
    call,      \* the arguments of this call
    pc,        \* where process() stands
    off,       \* keystream cursor
    poly_off,  \* MAC cursor
    ctr,       \* state.words[12]
    msg,       \* per unit, which keystream unit has been XORed in
    mac,       \* the blocks the MAC has taken, in the order it hashes them
    cached,    \* how many of the last blocks of mac are still in the cache
    partial,   \* the wrapper's pending partial block, or None
    broken     \* contracts a call has broken: a debug_assert, a slice bound...

vars == <<call, pc, off, poly_off, ctr, msg, mac, cached, partial, broken>>

Seal  == call.seal
Ops   == call.ops
Batch == Ops.batch
Full  == call.full

\* msg.len(), a partial unit counting as one.
Units == Full + (IF call.part THEN 1 ELSE 0)

SmallMax == 12   \* SMALL_MAX, 192 bytes

\* The whole units below position p (the end of the message may be partial).
Whole(p) == IF p <= Full THEN p ELSE Full

Floor4(n) == n - (n % 4)
Floor8(n) == n - (n % 8)
Least(a, b) == IF a <= b THEN a ELSE b

----------------------------------------------------------------------------
(* Keystream: the content of a unit is the keystream unit XORed into it.    *)

Pristine == -1
Garbled  == -2

Wrap(c) == IF c < CtrMod THEN c ELSE c - CtrMod

\* State::advance, wrapping.
Advanced(k) == Wrap(ctr + k)

\* ChaCha20 blocks a stretch of n units uses.
Blocks(n) == (n + 3) \div 4

\* Keystream unit j counted from block counter c.
KsUnit(c, j) == 4 * Wrap(c + (j \div 4)) + (j % 4)

XorUnit(content, k) ==
    IF content = Pristine THEN k ELSE IF content = k THEN Pristine ELSE Garbled

\* XOR n units from position `from`, block counter c on its first unit.
Xored(m, from, n, c) ==
    [u \in DOMAIN m |-> IF from <= u /\ u < from + n
                        THEN XorUnit(m[u], KsUnit(c, u - from))
                        ELSE m[u]]

----------------------------------------------------------------------------
(* The MAC stream.                                                          *)

AadBlock(i)   == [blk |-> "aad", at |-> i, content |-> Pristine]
MsgBlock(m, u) == [blk |-> "msg", at |-> u, content |-> m[u]]
LengthsBlock  == [blk |-> "len", at |-> 0, content |-> Pristine]
None          == [blk |-> "none", at |-> 0, content |-> Pristine]

AadBlocks(n) == [i \in 1..n |-> AadBlock(i - 1)]

\* n whole units of buffer m read from position `from`.
Read(m, from, n) == [i \in 1..n |-> MsgBlock(m, from + i - 1)]

\* A fused kernel folds blocks into H while c blocks sit in the cache: the
\* cached ones are hashed after them.
FoldedDirect(stream, c, blocks) ==
    LET h == Len(stream) - c
    IN  SubSeq(stream, 1, h) \o blocks \o SubSeq(stream, h + 1, Len(stream))

\* Poly::pending_blocks: cached blocks plus a partial one.
Pending == cached + (IF partial = None THEN 0 ELSE 1)

\* poly_with_aad_at: the zero-padded AAD through update.
AadCached == AfterUpdate(Ops.poly, 0, call.aad)

\* The partial unit of the message, once update has seen it.
PartialOf(m) == IF call.part THEN MsgBlock(m, Full) ELSE None

----------------------------------------------------------------------------
(* Contracts: what debug_assert, slice indexing, unsigned subtraction and   *)
(* the raw-pointer kernels demand of their callers.                         *)

Broken(ok, what) == IF ok THEN {} ELSE {what}

\* msg[from..from + n] of whole units.
InBounds(from, n) == 0 <= from /\ 0 <= n /\ from + n <= Full

\* absorb4 / absorb_blocks / update_tail: no partial block, window boundary.
WindowAligned(c) == partial = None /\ c % 4 = 0

----------------------------------------------------------------------------
Init ==
    /\ call \in Calls
    /\ pc = "start"
    /\ off = 0
    /\ poly_off = 0
    /\ ctr = 0
    /\ msg = [u \in 0..(Units - 1) |-> Pristine]
    /\ mac = << >>
    /\ cached = 0
    /\ partial = None
    /\ broken = {}

\* Message of at most one block.  gen_key_xor2 derives the MAC key from block
\* 0 and keystream block 1; the MAC takes the ciphertext side of the XOR.
Tiny ==
    /\ pc = "start"
    /\ Units <= 4
    /\ ctr' = Advanced(2)
    /\ msg' = Xored(msg, 0, Units, 1)
    /\ LET ct == IF Seal THEN msg' ELSE msg
       IN  /\ mac' = AadBlocks(call.aad) \o Read(ct, 0, Full)
           /\ partial' = PartialOf(ct)
    /\ cached' = AfterUpdate(Ops.poly, AadCached, Full)
    /\ off' = Units
    /\ poly_off' = Units
    /\ pc' = "finish"
    /\ UNCHANGED <<call, broken>>

\* mac_small_sweep's walk over the windows of a small message: the units it
\* aligns with, the windows it folds, then whole units and the padded rest.
SweepGap     == IF Full >= AlignGap(AadCached) THEN AlignGap(AadCached) ELSE 0
SweepWindows == IF Full >= AlignGap(AadCached)
                THEN (Full - SweepGap) \div 4 ELSE 0
SweepCached ==
    LET aligned == AfterUpdate(Ops.poly, AadCached, SweepGap)
        folded  == AfterAbsorb4s(Ops.poly, aligned, SweepWindows)
        rest    == Units - SweepGap - 4 * SweepWindows
    IN  AfterUpdate(Ops.poly, folded, rest + 1)   \* and the lengths block

\* Message of two or three blocks: one kernel call for the key and the whole
\* keystream, one MAC sweep that pads and appends the lengths itself.
Small ==
    /\ pc = "start"
    /\ Units > 4
    /\ Units <= SmallMax
    /\ ctr' = Advanced(Ops.ks_advance[Blocks(Units)])
    /\ msg' = Xored(msg, 0, Units, 1)
    /\ LET ct == IF Seal THEN msg' ELSE msg
       IN  mac' = AadBlocks(call.aad) \o Read(ct, 0, Units) \o <<LengthsBlock>>
    /\ cached' = SweepCached
    /\ broken' = broken \cup
         Broken(SweepWindows > 0 =>
                    AfterUpdate(Ops.poly, AadCached, SweepGap) % 4 = 0,
                "window not aligned")
    /\ off' = Units
    /\ poly_off' = Units
    /\ pc' = "done"
    /\ UNCHANGED <<call, partial>>

GoesDirect == Seal /\ Ops.direct_seal_max > 0 /\ Units <= Ops.direct_seal_max

\* ChaCha20 blocks seal_direct's kernel computes: three or four quads of two,
\* or one batch of sixteen.
DirectBlocks == IF Units <= 20 THEN 6 ELSE IF Units <= 28 THEN 8 ELSE 16

\* Whole-message seal: one kernel makes the key (block 0) and the ciphertext,
\* then the MAC runs over the finished buffer.
SealDirect ==
    /\ pc = "start"
    /\ Units > SmallMax
    /\ GoesDirect
    /\ ctr' = 1 + Blocks(Units)
    /\ msg' = Xored(msg, 0, Units, 1)
    /\ mac' = AadBlocks(call.aad) \o Read(msg', 0, Full)
    /\ partial' = PartialOf(msg')
    /\ LET s == AlignGap(AadCached)
           aligned == AfterUpdate(Ops.poly, AadCached, s)
       IN  /\ cached' = AfterUpdateTail(Ops.poly, aligned, Full - s)
           /\ broken' = broken
                \cup Broken(1 + Blocks(Units) <= DirectBlocks, "kernel too narrow")
                \cup Broken(aligned % 4 = 0, "window not aligned")
    /\ off' = Units
    /\ poly_off' = Units
    /\ pc' = "finish"
    /\ UNCHANGED call

\* Mutant: the prologue's kernel leaves the cursor on the block it has XORed.
PrologueSealTwice ==
    /\ pc = "start"
    /\ Seal
    /\ Units > SmallMax
    /\ ~GoesDirect
    /\ LET s == AlignGap(AadCached)
       IN  /\ msg' = Xored(msg, 0, 4, 1)
           /\ mac' = AadBlocks(call.aad) \o Read(msg', 0, s)
           /\ cached' = AfterUpdate(Ops.poly, AadCached, s)
           /\ poly_off' = s
    /\ ctr' = Advanced(1)
    /\ off' = 0
    /\ pc' = "bulk"
    /\ UNCHANGED <<call, partial, broken>>

\* Bulk prologue, seal: block 1 goes straight into the message; the MAC takes
\* only the units that align its windows.
PrologueSeal ==
    /\ pc = "start"
    /\ Seal
    /\ Units > SmallMax
    /\ ~GoesDirect
    /\ LET s == AlignGap(AadCached)
       IN  /\ msg' = Xored(msg, 0, 4, 1)
           /\ mac' = AadBlocks(call.aad) \o Read(msg', 0, s)
           /\ cached' = AfterUpdate(Ops.poly, AadCached, s)
           /\ poly_off' = s
    /\ ctr' = Advanced(2)
    /\ off' = 4
    /\ pc' = "bulk"
    /\ UNCHANGED <<call, partial, broken>>

\* Mutant: the MAC only aligns, block 1 is XORed in over units it has not read.
PrologueOpenXorFirst ==
    /\ pc = "start"
    /\ ~Seal
    /\ Units > SmallMax
    /\ LET s == AlignGap(AadCached)
       IN  /\ mac' = AadBlocks(call.aad) \o Read(msg, 0, s)
           /\ cached' = AfterUpdate(Ops.poly, AadCached, s)
           /\ poly_off' = s
    /\ msg' = Xored(msg, 0, 4, 1)
    /\ ctr' = Advanced(2)
    /\ off' = 4
    /\ pc' = "bulk"
    /\ UNCHANGED <<call, partial, broken>>

\* Bulk prologue, open: the MAC aligns and takes one window before block 1,
\* parked in ks1, is XORed in.
PrologueOpen ==
    /\ pc = "start"
    /\ ~Seal
    /\ Units > SmallMax
    /\ LET s == AlignGap(AadCached)
           aligned == AfterUpdate(Ops.poly, AadCached, s)
       IN  /\ mac' = AadBlocks(call.aad) \o Read(msg, 0, s + 4)
           /\ cached' = AfterAbsorb4(Ops.poly, aligned)
           /\ poly_off' = s + 4
           /\ broken' = broken
                \cup Broken(aligned % 4 = 0, "window not aligned")
                \cup Broken(InBounds(s, 4), "slice out of bounds")
    /\ msg' = Xored(msg, 0, 4, 1)
    /\ ctr' = Advanced(2)
    /\ off' = 4
    /\ pc' = "bulk"
    /\ UNCHANGED <<call, partial>>

----------------------------------------------------------------------------
(* The bulk loop.                                                           *)

\* Mutant: the loop guard lets a batch start one block before it fits.
BatchLeftEarly == Full - off + 4 >= Batch

BatchLeft == Full - off >= Batch

\* XOR one stretch of n units at the keystream cursor.
Encrypt(n) ==
    /\ msg' = Xored(msg, off, n, ctr)
    /\ ctr' = Advanced(Blocks(n))
    /\ off' = off + n

\* Absorb n units (whole windows) of buffer m at the MAC cursor.
Absorb(m, n) ==
    /\ mac' = mac \o Read(m, poly_off, n)
    /\ cached' = IF n > 0 THEN AfterAbsorbBlocks(Ops.poly, cached, n \div 4)
                 ELSE cached
    /\ poly_off' = poly_off + n

AbsorbContract(n) ==
    IF n = 0 THEN {}
    ELSE Broken(WindowAligned(cached), "window not aligned")
         \cup Broken(InBounds(poly_off, n), "slice out of bounds")

\* Mutant: the fused run starts over a cache that still holds a window.
SealFusibleOverCache == off - poly_off >= Batch

SealFusible == Pending = 0 /\ off - poly_off >= Batch

\* One batch of seal_bulk.  The loop inside repeats the engine's own guard, so
\* one iteration of it is one iteration of the engine's loop.
SealBulk ==
    /\ pc = "bulk"
    /\ Seal
    /\ BatchLeft
    /\ SealFusible
    /\ Encrypt(Batch)
    /\ IF Ops.fused_seal
       THEN /\ mac' = FoldedDirect(mac, cached, Read(msg, poly_off, Batch))
            /\ poly_off' = poly_off + Batch
            /\ broken' = broken \cup Broken(InBounds(poly_off, Batch), "read out of bounds")
            /\ UNCHANGED cached
       ELSE /\ Absorb(msg', Batch)
            /\ broken' = broken \cup AbsorbContract(Batch)
    /\ UNCHANGED <<call, pc, partial>>

\* Mutant: only whole windows, whatever the cache is left with.
SealCatchUpUnpaired(behind) == Floor4(behind)

\* How much an unfused seal step absorbs of the `behind` units that lie below
\* the batch just written: whole windows, so many that the cache ends empty.
SealCatchUp(behind) ==
    LET base == Floor4(behind)
    IN  IF Pending % 8 = 4 /\ base >= 4
        THEN Floor8(base - 4) + 4
        ELSE Floor8(base)

\* An unfused seal step: encrypt a batch, absorb up to the batch's start.
SealStep ==
    /\ pc = "bulk"
    /\ Seal
    /\ BatchLeft
    /\ ~SealFusible
    /\ Encrypt(Batch)
    /\ LET n == SealCatchUp(off - poly_off)
       IN  /\ Absorb(msg', n)
           /\ broken' = broken
                \cup AbsorbContract(n)
                \cup Broken(poly_off <= off, "cursor underflow")
    /\ UNCHANGED <<call, pc, partial>>

\* Fused open: a lone cached window is paired first.
NeedsPairing == Ops.fused_open /\ Pending % 8 = 4 /\ poly_off + 4 <= Full

OpenPair ==
    /\ pc = "bulk"
    /\ ~Seal
    /\ BatchLeft
    /\ NeedsPairing
    /\ Absorb(msg, 4)
    /\ broken' = broken \cup AbsorbContract(4)
    /\ UNCHANGED <<call, pc, off, ctr, msg, partial>>

OpenFusible == Ops.fused_open /\ Pending = 0 /\ Full - poly_off >= Batch

\* Mutant: the kernel stores the plaintext before it loads the MAC's units.
OpenBulkStoreFirst ==
    /\ pc = "bulk"
    /\ ~Seal
    /\ BatchLeft
    /\ ~NeedsPairing
    /\ OpenFusible
    /\ Encrypt(Batch)
    /\ mac' = FoldedDirect(mac, cached, Read(msg', poly_off, Batch))
    /\ poly_off' = poly_off + Batch
    /\ broken' = broken \cup Broken(InBounds(poly_off, Batch), "read out of bounds")
    /\ UNCHANGED <<call, pc, cached, partial>>

\* One batch of open_bulk: the kernel loads the MAC's units before it stores
\* the plaintext, so the MAC reads the buffer as it was.
OpenBulk ==
    /\ pc = "bulk"
    /\ ~Seal
    /\ BatchLeft
    /\ ~NeedsPairing
    /\ OpenFusible
    /\ mac' = FoldedDirect(mac, cached, Read(msg, poly_off, Batch))
    /\ poly_off' = poly_off + Batch
    /\ Encrypt(Batch)
    /\ broken' = broken \cup Broken(InBounds(poly_off, Batch), "read out of bounds")
    /\ UNCHANGED <<call, pc, cached, partial>>

\* Units the MAC takes ahead of the keystream: up to two batches past it.
OpenAhead ==
    LET ahead == Least(off + 2 * Batch, Units)
    IN  IF poly_off < ahead THEN Floor4(Whole(ahead) - poly_off) ELSE 0

\* The MAC leads, the keystream follows to the last block boundary the MAC
\* has passed.  The code leaves the loop if that is no progress.
OpenStep ==
    /\ pc = "bulk"
    /\ ~Seal
    /\ BatchLeft
    /\ ~NeedsPairing
    /\ ~OpenFusible
    /\ ~Ops.fused_medium
    /\ LET n == OpenAhead
           xor_end == Least(off + Batch, Floor4(poly_off + n))
       IN  /\ Absorb(msg, n)
           /\ broken' = broken \cup AbsorbContract(n)
           /\ IF xor_end <= off
              THEN pc' = "medium" /\ UNCHANGED <<off, ctr, msg>>
              ELSE pc' = "bulk" /\ Encrypt(xor_end - off)
    /\ UNCHANGED <<call, partial>>

\* Mutant: the fused medium path does not take over from the bulk loop.
LeaveBulkSpinning ==
    /\ pc = "bulk"
    /\ ~BatchLeft
    /\ pc' = "medium"
    /\ UNCHANGED <<call, off, poly_off, ctr, msg, mac, cached, partial, broken>>

\* Out of full batches, or the fused medium path takes over.
LeaveBulk ==
    /\ pc = "bulk"
    /\ \/ ~BatchLeft
       \/ ~Seal /\ ~NeedsPairing /\ ~OpenFusible /\ Ops.fused_medium
    /\ pc' = "medium"
    /\ UNCHANGED <<call, off, poly_off, ctr, msg, mac, cached, partial, broken>>

----------------------------------------------------------------------------
(* The fused medium path: 512-byte (32-unit) kernels for what the bulk loop *)
(* leaves.  Only a backend with FUSED_MEDIUM takes it.                      *)

MediumNeeded ==
    Ops.fused_medium /\ (off < Units \/ (~Seal /\ poly_off < Units))

SkipMedium ==
    /\ pc = "medium"
    /\ ~MediumNeeded
    /\ pc' = "drain"
    /\ UNCHANGED <<call, off, poly_off, ctr, msg, mac, cached, partial, broken>>

\* The kernel's match on pending_blocks(): fold a lone window with the next
\* one when that lies below `limit`, fold a full cache, else leave it.
Pairs(limit) == Pending = 4 /\ poly_off + 4 <= limit

Normalised(m, limit) ==
    IF Pairs(limit) THEN Absorb(m, 4)
    ELSE /\ cached' = IF Pending = 8 THEN AfterAbsorbBlocks(Ops.poly, cached, 0)
                      ELSE cached
         /\ UNCHANGED <<mac, poly_off>>

\* seal_medium, first half: encrypt 512 bytes ahead if there are as many,
\* then normalise the cache over what is ciphertext by now.
SealMediumAhead ==
    /\ pc = "medium"
    /\ MediumNeeded
    /\ Seal
    /\ IF Full - off >= 32 THEN Encrypt(32) ELSE UNCHANGED <<off, ctr, msg>>
    /\ Normalised(msg', off')
    /\ broken' = broken
         \cup (IF Pairs(off') THEN AbsorbContract(4) ELSE {})
    /\ pc' = "weave"
    /\ UNCHANGED <<call, partial>>

\* Whole pairs of windows between the MAC cursor and position `limit`.
PairsUpTo(limit) == IF poly_off <= limit THEN (limit - poly_off) \div 8 ELSE 0

\* seal_medium, second half: the rest of the message, the MAC woven in over
\* up to 8 pairs of windows, straight from the buffer.
SealRounds == Least(Least(PairsUpTo(off), PairsUpTo(Full)), 8)

SealMediumWeave ==
    /\ pc = "weave"
    /\ Seal
    /\ IF off = Units \/ (Full - off < 12 /\ SealRounds = 0)
       THEN UNCHANGED <<off, poly_off, ctr, msg, mac, broken>>
       ELSE /\ mac' = FoldedDirect(mac, cached, Read(msg, poly_off, 8 * SealRounds))
            /\ poly_off' = poly_off + 8 * SealRounds
            /\ Encrypt(Units - off)
            /\ broken' = broken
                 \cup Broken(poly_off <= off, "cursor underflow")
                 \cup Broken(Units - off <= 32, "kernel too narrow")
    /\ pc' = "drain"
    /\ UNCHANGED <<call, cached, partial>>

\* open_medium, entry.
OpenMediumEnter ==
    /\ pc = "medium"
    /\ MediumNeeded
    /\ ~Seal
    /\ Normalised(msg, Full)
    /\ broken' = broken \cup (IF Pairs(Full) THEN AbsorbContract(4) ELSE {})
    /\ pc' = "weave"
    /\ UNCHANGED <<call, off, ctr, msg, partial>>

OpenWeaveSteady == Full - off >= 32 /\ Full - poly_off >= 32

\* open_medium, one steady iteration: 512 bytes of MAC before 512 of XOR.
OpenMediumWeave ==
    /\ pc = "weave"
    /\ ~Seal
    /\ OpenWeaveSteady
    /\ mac' = FoldedDirect(mac, cached, Read(msg, poly_off, 32))
    /\ poly_off' = poly_off + 32
    /\ Encrypt(32)
    /\ UNCHANGED <<call, pc, cached, partial, broken>>

\* The last batch stores up to where the MAC has come: to a block boundary,
\* or to the end of the message.
OpenLastRounds == Least(PairsUpTo(Full), 4)
OpenStoredEnd  == Least(poly_off + 8 * OpenLastRounds, Units)

\* Mutant: the last batch stores up to the MAC cursor, inside a ChaCha block.
OpenStoredAnywhere == OpenStoredEnd - off

OpenStored     ==
    LET stored == OpenStoredEnd - off
    IN  IF OpenStoredEnd = Units THEN stored ELSE Floor4(stored)

\* open_medium, the partial tail batch.
OpenMediumLast ==
    /\ pc = "weave"
    /\ ~Seal
    /\ ~OpenWeaveSteady
    /\ IF /\ off < Units /\ Units - off <= 32
          /\ OpenStoredEnd - off >= 24 \/ OpenLastRounds > 0
       THEN /\ mac' = FoldedDirect(mac, cached, Read(msg, poly_off, 8 * OpenLastRounds))
            /\ poly_off' = poly_off + 8 * OpenLastRounds
            /\ Encrypt(OpenStored)
            /\ broken' = broken
                 \cup Broken(off <= OpenStoredEnd, "cursor underflow")
                 \cup Broken(OpenStored <= 32, "kernel too narrow")
       ELSE UNCHANGED <<off, poly_off, ctr, msg, mac, broken>>
    /\ pc' = "drain"
    /\ UNCHANGED <<call, cached, partial>>

----------------------------------------------------------------------------
(* The tail.                                                                *)

\* Absorb the whole windows the seal left behind its keystream cursor.
DrainLag ==
    /\ pc = "drain"
    /\ LET n == IF poly_off < off THEN Floor4(Whole(off) - poly_off) ELSE 0
       IN  /\ Absorb(msg, n)
           /\ broken' = broken \cup AbsorbContract(n)
    /\ pc' = "tail"
    /\ UNCHANGED <<call, off, ctr, msg, partial>>

\* update_tail over the rest of buffer m.
AbsorbRest(m) ==
    /\ mac' = mac \o Read(m, poly_off, Full - poly_off)
    /\ cached' = AfterUpdateTail(Ops.poly, cached, Full - poly_off)
    /\ partial' = PartialOf(m)
    /\ poly_off' = Units
    /\ broken' = broken
         \cup Broken(WindowAligned(cached), "window not aligned")
         \cup Broken(poly_off <= Full, "slice out of bounds")

\* The rest of both cursors: seal encrypts first, open absorbs first.
FinishCursors ==
    /\ pc = "tail"
    /\ IF off < Units THEN Encrypt(Units - off) ELSE UNCHANGED <<off, ctr, msg>>
    /\ IF off < Units \/ poly_off < Units
       THEN AbsorbRest(IF Seal THEN msg' ELSE msg)
       ELSE UNCHANGED <<poly_off, mac, cached, partial, broken>>
    /\ pc' = "finish"
    /\ UNCHANGED call

\* Mutant: no zero padding, the partial block is dropped.
FinishUnpadded ==
    /\ pc = "finish"
    /\ mac' = Append(mac, LengthsBlock)
    /\ cached' = AfterUpdate(Ops.poly, cached, 1)
    /\ partial' = None
    /\ broken' = broken
         \cup Broken(off = Units /\ poly_off = Units, "cursors not at the end")
    /\ pc' = "done"
    /\ UNCHANGED <<call, off, poly_off, ctr, msg>>

\* finish_tag: zero padding completes a partial block, then the lengths
\* block; finalize_into asserts that nothing partial is left.
Finish ==
    /\ pc = "finish"
    /\ LET padded == IF partial = None THEN << >> ELSE <<partial>>
       IN  /\ mac' = mac \o padded \o <<LengthsBlock>>
           /\ cached' = AfterUpdate(Ops.poly, cached, Len(padded) + 1)
    /\ partial' = None
    /\ broken' = broken
         \cup Broken(off = Units /\ poly_off = Units, "cursors not at the end")
    /\ pc' = "done"
    /\ UNCHANGED <<call, off, poly_off, ctr, msg>>

Next ==
    \/ Tiny
    \/ Small
    \/ SealDirect
    \/ PrologueSeal
    \/ PrologueOpen
    \/ SealBulk
    \/ SealStep
    \/ OpenPair
    \/ OpenBulk
    \/ OpenStep
    \/ LeaveBulk
    \/ SkipMedium
    \/ SealMediumAhead
    \/ SealMediumWeave
    \/ OpenMediumEnter
    \/ OpenMediumWeave
    \/ OpenMediumLast
    \/ DrainLag
    \/ FinishCursors
    \/ Finish

\* A call runs on one thread and never waits: it takes its next step.
Spec == Init /\ [][Next]_vars /\ WF_vars(Next)

----------------------------------------------------------------------------
(* Properties.                                                              *)

TypeOK ==
    /\ call \in Calls
    /\ pc \in {"start", "bulk", "medium", "weave", "drain", "tail", "finish", "done"}
    /\ off \in 0..Units
    /\ poly_off \in 0..Units
    /\ ctr \in 0..(CtrMod - 1)
    /\ msg \in [0..(Units - 1) -> Int]
    /\ cached \in 0..CacheSize
    /\ Len(mac) >= cached

\* RFC 8439 names the blocks of the MAC stream: the AAD, the ciphertext, both
\* padded, and the lengths.  Ciphertext is the message with the keystream of
\* block 1 onward XORed in (seal), or the message as received (open).
Ciphertext(u) == IF Seal THEN 4 + u ELSE Pristine

StreamBlock(i) ==
    IF i <= call.aad THEN AadBlock(i - 1)
    ELSE IF i <= call.aad + Units
         THEN [blk |-> "msg", at |-> i - call.aad - 1,
               content |-> Ciphertext(i - call.aad - 1)]
         ELSE LengthsBlock

Stream(n) == [i \in 1..n |-> StreamBlock(i)]

\* At every point the MAC has hashed a prefix of that stream: no block is
\* lost, doubled or hashed out of order behind the cache, and none was read
\* on the wrong side of its XOR (aead.rs, the cursor comment of process()).
StreamInOrder == mac = Stream(Len(mac))

\* No step breaks a contract of what it calls: window alignment, slice
\* bounds, cursor subtraction, kernel width (the debug_asserts and contract
\* comments of aead.rs, poly1305/mod.rs and chacha/avx512.rs).
ContractsKept == broken = {}

\* A finished call has MACed the whole stream and XORed every unit once with
\* its own keystream unit; the buffer is the ciphertext (seal) or the
\* plaintext (open).
CallComplete ==
    pc = "done" =>
        /\ mac = Stream(call.aad + Units + 1)
        /\ msg = [u \in 0..(Units - 1) |-> 4 + u]

\* Before the end of the message the keystream cursor sits on a ChaCha block
\* boundary, and the counter is that block's: no kernel hand-over skips or
\* repeats a block.
CounterMatchesCursor ==
    pc \in {"bulk", "medium", "weave", "drain", "tail"} =>
        /\ off % 4 = 0 \/ off = Units
        /\ ctr = Wrap(1 + Blocks(off))

\* Seal keeps the MAC at or behind the keystream cursor, open at or ahead of
\* it (aead.rs: "seal keeps poly at or behind the xor cursor").
CursorOrder ==
    pc \in {"bulk", "medium", "weave", "drain", "tail"} =>
        IF Seal THEN poly_off <= off ELSE off <= poly_off

\* Every unit is XORed at most once, and with its own keystream unit only:
\* never with another unit's, never with the block that made the MAC key, not
\* even when the counter reaches the end of its width (aead.rs, MAX_LEN).
KeystreamOnce ==
    [][\A u \in DOMAIN msg :
          /\ msg[u] # Pristine => msg'[u] = msg[u]
          /\ msg'[u] \in {Pristine, 4 + u}]_vars

\* The unfused seal loop leaves the MAC one batch behind, so that it never
\* reads a store still in flight, and leaves the cache empty whenever it
\* absorbs, so that the fused run can start (aead.rs, the seal step).
SealLagsOneBatch ==
    [][pc = "bulk" /\ Seal /\ off' > off =>
          /\ poly_off' <= off
          /\ poly_off' > poly_off => cached' = 0]_vars

\* What the engine promises, without its paths: InPlaceAead, the buffer seen
\* by side and the stream by what the MAC found.
Side(u, content) ==
    CASE content = Pristine -> "in" [] content = 4 + u -> "out" [] OTHER -> "garbled"

MacInput == mac \o (IF partial = None THEN << >> ELSE <<partial>>)

StreamIndex(b) ==
    CASE b.blk = "aad" -> b.at + 1
      [] b.blk = "msg" -> call.aad + b.at + 1
      [] OTHER -> call.aad + Units + 1

Promise ==
    INSTANCE InPlaceAead WITH
        Jobs <- {[seal |-> c.seal, aad |-> c.aad,
                  units |-> c.full + (IF c.part THEN 1 ELSE 0)] : c \in Calls},
        job <- [seal |-> Seal, aad |-> call.aad, units |-> Units],
        x <- off,
        a <- Len(MacInput),
        text <- [u \in DOMAIN msg |-> Side(u, msg[u])],
        hashed <- [i \in DOMAIN MacInput |->
                      [at |-> StreamIndex(MacInput[i]),
                       side |-> IF MacInput[i].blk = "msg"
                                THEN Side(MacInput[i].at, MacInput[i].content)
                                ELSE "fixed"]]

\* Every path of every backend implements the one promise (aead.rs, process).
Implements == Promise!Spec

\* Every call ends: the loop guards always let one of the cursors move on.
Terminates == <>(pc = "done")
=============================================================================
