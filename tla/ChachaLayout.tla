---------------------------- MODULE ChachaLayout ----------------------------
(***************************************************************************)
(* How the vector kernels of src/src/chacha lay the words of several       *)
(* ChaCha20 blocks out over registers, and get them back in order.  The    *)
(* scalar code names the four words of each quarter round; a vector kernel *)
(* applies one quarter round to whole registers, so which words meet is a  *)
(* matter of where they lie:                                               *)
(*                                                                         *)
(*   "row"   a register is a row of 4 words of one block (sse2, and the    *)
(*           single-block kernels of neon and avx512); the diagonals come  *)
(*           from rotating rows against each other;                        *)
(*   "neonrow" the same with other rotations;                              *)
(*   "quad"  a register is a row of two blocks (avx2, avx512);             *)
(*   "word"  a register is one word of 4 (neon) or 16 (avx512) blocks; the *)
(*           blocks come out through a transposition.                      *)
(*                                                                         *)
(* A cell <<c, w>> is word w of the block whose counter is c.  What a      *)
(* quarter round computes is left out: only its operands are tracked.      *)
(*                                                                         *)
(* A kernel stores all its blocks ("whole"), or those that a message has   *)
(* left ("partial": seal_medium, open_medium).  Or its first block is the  *)
(* key of Poly1305 and the next are the message's ("key_xor2":             *)
(* gen_key_xor2, "direct": seal_direct), or go raw to a buffer of the      *)
(* message's blocks ("small": gen_ks_small).  Messages are measured in     *)
(* words: byte masks are scaled by four.                                   *)
(***************************************************************************)
EXTENDS Integers, Sequences

CONSTANTS
    Kernels,   \* records [layout, groups, lanes, store], see KernelRecord
    Tails,     \* words a message may have beyond its whole blocks
    Bases,     \* counters a kernel may be called with, but those of the key
    CtrMod     \* values of the block counter (2^32 in the code)

\* groups: sets of registers worked on side by side, as many as registers
\* allow; lanes: of a register.  A kernel that makes the key needs a block more.
KernelRecord ==
    [layout: {"neonrow"}, groups: {1}, lanes: {4}, store: {"whole"}]
    \cup [layout: {"row"}, groups: Nat \ {0}, lanes: {4}, store: {"whole"}]
    \cup [layout: {"row"}, groups: Nat \ {0, 1}, lanes: {4}, store: {"key_xor2", "small"}]
    \cup [layout: {"quad"}, groups: Nat \ {0}, lanes: {8},
          store: {"whole", "partial", "direct", "key_xor2", "small"}]
    \cup [layout: {"word"}, groups: {1}, lanes: {4, 16}, store: {"whole"}]
    \cup [layout: {"word"}, groups: {1}, lanes: {16}, store: {"direct"}]

ASSUME KernelsAssumption == Kernels \subseteq KernelRecord
ASSUME TailsAssumption == Tails \subseteq 0..15
ASSUME BasesAssumption == CtrMod \in Nat \ {0} /\ Bases \subseteq 1..(CtrMod - 1)

VARIABLES
    kernel,   \* the kernel at work
    base,     \* state.words[12] at the call
    pc,       \* "column", "to_cols", "diagonal", "to_rows", "emit", "done"
    double,   \* double rounds done
    regs,     \* regs[group][register][lane]: the cell it holds
    applied,  \* operands of the quarter rounds of the last round
    len,      \* words of the message the kernel is given
    out,      \* out[p]: the cell that word p of the message gets
    loaded,   \* words of the message that are read
    key       \* words handed out as the key of Poly1305

stored == <<len, out, loaded, key>>
vars == <<kernel, base, pc, double, regs, applied, stored>>

Lanes  == 0..(kernel.lanes - 1)
Groups == 0..(kernel.groups - 1)

RowMajor == kernel.layout # "word"

NumBlocks ==
    CASE kernel.layout = "word" -> kernel.lanes
      [] kernel.layout = "quad" -> 2 * kernel.groups
      [] OTHER -> kernel.groups

Blocks == 0..(NumBlocks - 1)

----------------------------------------------------------------------------
(* Loading: the counter row says whose block a lane is.                     *)

\* The counter k blocks on from the state's, wrapping.
Counter(k) == (base + k) % CtrMod

\* Mutant: added to a row that has the state's counter already, it is counted
\* twice, "which only worked by accident at counter 0" (avx512.rs, ctr_row).
QuadCounterTwice(g, l) == Counter(base + 2 * g + (l \div 4))

\* avx2 and avx512 ctr_row: base + 2k in the low half, one more in the high.
QuadCounter(g, l) == Counter(2 * g + (l \div 4))

\* sse2 ctr_row: base + k in the row of group k.
RowCounter(g) == Counter(g)

\* setup16 and neon rounds4: lane L counts base + L.
WordCounter(l) == Counter(l)

LoadedCell(g, r, l) ==
    CASE kernel.layout = "word" -> <<WordCounter(l), r>>
      [] kernel.layout = "quad" -> <<QuadCounter(g, l), 4 * r + (l % 4)>>
      [] OTHER -> <<RowCounter(g), 4 * r + l>>

Loaded ==
    [g \in Groups |-> [r \in (IF RowMajor THEN 0..3 ELSE 0..15) |->
        [l \in Lanes |-> LoadedCell(g, r, l)]]]

----------------------------------------------------------------------------
(* Quarter rounds.                                                          *)

\* column_round and diagonal_round of the scalar code, RFC 8439's.
ColumnWords   == {<<0, 4, 8, 12>>, <<1, 5, 9, 13>>, <<2, 6, 10, 14>>, <<3, 7, 11, 15>>}
DiagonalWords == {<<0, 5, 10, 15>>, <<1, 6, 11, 12>>, <<2, 7, 8, 13>>, <<3, 4, 9, 14>>}

\* The registers that the quarter rounds of a round are applied to: dr16 and
\* neon double_round name them, the rows are always a, b, c, d.
ColumnRegs   == IF RowMajor THEN {<<0, 1, 2, 3>>} ELSE ColumnWords
DiagonalRegs ==
    IF RowMajor THEN {<<0, 1, 2, 3>>}
    ELSE {<<0, 5, 10, 15>>, <<1, 6, 11, 12>>, <<2, 7, 8, 13>>, <<3, 4, 9, 14>>}

\* The operands of vector quarter rounds on the register quadruples qs.
Operands(qs) ==
    {[i \in 1..4 |-> regs[p[1]][p[2][i]][p[3]]] : p \in Groups \X qs \X Lanes}

\* What a round is to operate on: the same words, of every block.
OfEveryBlock(words) ==
    {[i \in 1..4 |-> <<Counter(p[1]), p[2][i]>>] : p \in Blocks \X words}

\* _mm_shuffle_epi32 within each 128-bit lane; vextq on a row with itself.
Shuffled(row, sel) ==
    [l \in DOMAIN row |-> row[4 * (l \div 4) + sel[(l % 4) + 1]]]

RotL1 == <<1, 2, 3, 0>>   \* 0b_00_11_10_01, vext 1
RotL2 == <<2, 3, 0, 1>>   \* 0b_01_00_11_10, vext 2
RotL3 == <<3, 0, 1, 2>>   \* 0b_10_01_00_11, vext 3
Still == <<0, 1, 2, 3>>

\* to_cols of sse2, avx2 and avx512 turns a, c and d, and leaves b.
ToColsX86 == <<RotL3, Still, RotL1, RotL2>>

\* The neon single-block kernel turns b, c and d.
ToColsNeon == <<Still, RotL1, RotL2, RotL3>>

\* Mutant: to_rows with the selectors of c and d exchanged.
ToRowsExchanged == <<RotL1, Still, RotL2, RotL3>>

\* to_rows turns them back.
ToRowsX86 == <<RotL1, Still, RotL3, RotL2>>
ToRowsNeon == <<Still, RotL3, RotL2, RotL1>>

Turned(sels) ==
    [g \in Groups |-> [r \in 0..3 |-> Shuffled(regs[g][r], sels[r + 1])]]

----------------------------------------------------------------------------
(* Emission.                                                                *)

\* _mm_unpacklo/hi_epi32 and vzip1q/vzip2q_u32 (h = 0 or 1): interleave the
\* low or high word pairs of each 128-bit lane.
Zip32(v, w, h) ==
    [l \in DOMAIN v |->
        LET src == 4 * (l \div 4) + 2 * h + (l % 4) \div 2
        IN  IF l % 2 = 0 THEN v[src] ELSE w[src]]

\* _mm_unpacklo/hi_epi64 and vzip1q/vzip2q_u64.
Zip64(v, w, h) ==
    [l \in DOMAIN v |->
        LET src == 4 * (l \div 4) + 2 * h + (l % 2)
        IN  IF l % 4 < 2 THEN v[src] ELSE w[src]]

\* tr4z and emit_xor_group: result j of the 4x4 transposition of a word group
\* holds, in 128-bit lane L, the group's words of block 4L + j.
Transposed(w0, w1, w2, w3, j) ==
    LET t == Zip32(w0, w1, j \div 2)
        u == Zip32(w2, w3, j \div 2)
    IN  Zip64(t, u, j % 2)

\* emit16, emit16o and emit16k gather block b from lane b / 4 of piece b % 4
\* of each word group; neon stores piece b of group g at block b, 16 g bytes in.
WordEmitted(b, w) ==
    LET x == regs[0]
        g == 4 * (w \div 4)
    IN  Transposed(x[g], x[g + 1], x[g + 2], x[g + 3], b % 4)[4 * (b \div 4) + (w % 4)]

\* seal_direct repeats the third quad in the fourth slot after rounds3.
Slot(g) == IF g < kernel.groups THEN g ELSE kernel.groups - 1

\* emit_xor_quad, emit_lo, emit_hi: _mm256_permute2f128 with 0x20 takes the
\* low halves of two rows, with 0x31 the high halves.
QuadEmitted(b, w) == regs[Slot(b \div 2)][w \div 4][4 * (b % 2) + (w % 4)]

\* emit_xor_block: the rows of a block in order.
RowEmitted(b, w) == regs[b][w \div 4][w % 4]

\* Word w of block b of the kernel, as it is stored.
Emitted(b, w) ==
    CASE kernel.layout = "word" -> WordEmitted(b, w)
      [] kernel.layout = "quad" -> QuadEmitted(b, w)
      [] OTHER -> RowEmitted(b, w)

Whole(i) == (16 * i)..(16 * i + 15)

\* Mutant: the second half is masked as the first.
MaskedTwice(i, k) ==
    LET k0 == IF k < 8 THEN k ELSE 8
    IN  {16 * i + w : w \in 0..(k0 - 1)} \cup {16 * i + 8 + w : w \in 0..(k0 - 1)}

\* The masked store of k words of block i: store_blk has a mask for each half
\* of a block, emit16k one for all of it.
Masked(i, k) ==
    LET k0 == IF k < 8 THEN k ELSE 8
    IN  IF kernel.layout = "word" THEN {16 * i + w : w \in 0..(k - 1)}
        ELSE {16 * i + w : w \in 0..(k0 - 1)} \cup {16 * i + 8 + w : w \in 0..(k - k0 - 1)}

\* What is read before: no load is masked.
LoadedForMask(i, k) ==
    IF k = 0 THEN {}
    ELSE IF kernel.layout # "word" /\ k <= 8 THEN (16 * i)..(16 * i + 7)
    ELSE Whole(i)

\* seal_direct: rounds3, rounds4 or seal_direct_k1 by the message's length.
DirectShape(n) ==
    IF n <= 5 * 16 THEN <<"quad", 3>>
    ELSE IF n <= 7 * 16 THEN <<"quad", 4>>
    ELSE <<"word", 1>>

\* gen_ks_small: a block for the key and one for the message, or four.
SmallGroups(n) ==
    CASE kernel.layout = "quad" -> IF n <= 16 THEN 1 ELSE 2
      [] kernel.layout = "row"  -> IF n <= 16 THEN 2 ELSE 4

\* Is the first block the key?  Such a kernel is the first of its state.
KeyFirst == kernel.store \in {"direct", "key_xor2", "small"}

\* The block that lies over the first of the message.
Ahead == IF KeyFirst THEN 1 ELSE 0

\* SMALL_MAX, the caller's keystream buffer: of it, gen_ks_small gets the
\* blocks of the message.
SmallMax == 3 * 16

\* The messages a kernel is given by its callers.
Given(n) ==
    CASE kernel.store = "whole"   -> n = 16 * NumBlocks
      [] kernel.store = "partial" -> n \in 1..(16 * NumBlocks)
      [] kernel.store = "direct"  -> /\ n \in (3 * 16 + 1)..(15 * 16)
                                     /\ DirectShape(n) = <<kernel.layout, kernel.groups>>
      [] kernel.store = "key_xor2" -> n = 16
      [] kernel.store = "small"    -> /\ n \in {0, 16, 32, 48}
                                      /\ SmallGroups(n) = kernel.groups

\* The words stored for nfull blocks and k words: sse2 gen_ks_small stores all
\* the blocks it has after the first.
Stored(nfull, k) ==
    IF kernel.store = "small" /\ kernel.layout = "row" /\ nfull > 1
    THEN 0..(16 * (kernel.groups - 1) - 1)
    ELSE (UNION {Whole(i) : i \in 0..(nfull - 1)}) \cup Masked(nfull, k)

\* The words read for them: raw keystream reads none.
Read(nfull, k) ==
    IF kernel.store = "small" THEN {}
    ELSE (UNION {Whole(i) : i \in 0..(nfull - 1)}) \cup LoadedForMask(nfull, k)

----------------------------------------------------------------------------
Init ==
    /\ kernel \in Kernels
    /\ base \in (IF KeyFirst THEN {0} ELSE Bases)
    /\ pc = "column"
    /\ double = 0
    /\ regs = Loaded
    /\ applied = {}
    /\ len = 0
    /\ out = << >>
    /\ loaded = {}
    /\ key = << >>

ColumnRound ==
    /\ pc = "column"
    /\ applied' = Operands(ColumnRegs)
    /\ pc' = IF RowMajor THEN "to_cols" ELSE "diagonal"
    /\ UNCHANGED <<kernel, base, double, regs, stored>>

ToCols ==
    /\ pc = "to_cols"
    /\ regs' = Turned(IF kernel.layout = "neonrow" THEN ToColsNeon ELSE ToColsX86)
    /\ pc' = "diagonal"
    /\ UNCHANGED <<kernel, base, double, applied, stored>>

\* Ten double rounds.
AfterDouble == IF double' = 10 THEN "emit" ELSE "column"

DiagonalRound ==
    /\ pc = "diagonal"
    /\ applied' = Operands(DiagonalRegs)
    /\ IF RowMajor
       THEN pc' = "to_rows" /\ UNCHANGED double
       ELSE double' = double + 1 /\ pc' = AfterDouble
    /\ UNCHANGED <<kernel, base, regs, stored>>

ToRows ==
    /\ pc = "to_rows"
    /\ regs' = Turned(IF kernel.layout = "neonrow" THEN ToRowsNeon ELSE ToRowsX86)
    /\ double' = double + 1
    /\ pc' = AfterDouble
    /\ UNCHANGED <<kernel, base, applied, stored>>

\* The original registers are added, lane by lane, and the message gets nfull
\* whole blocks and a masked one.
Emit ==
    /\ pc = "emit"
    /\ \E nfull \in 0..NumBlocks, k \in Tails :
          /\ Given(16 * nfull + k)
          /\ len' = 16 * nfull + k
          /\ out' = [p \in Stored(nfull, k) |-> Emitted(p \div 16 + Ahead, p % 16)]
          /\ loaded' = Read(nfull, k)
    /\ key' = IF KeyFirst THEN [w \in 0..7 |-> Emitted(0, w)] ELSE key
    /\ pc' = "done"
    /\ UNCHANGED <<kernel, base, double, regs, applied>>

Next == ColumnRound \/ ToCols \/ DiagonalRound \/ ToRows \/ Emit

Spec == Init /\ [][Next]_vars

----------------------------------------------------------------------------
(* Properties.                                                              *)

\* Every round of every kernel applies exactly the scalar code's quarter
\* rounds to every block, columns and diagonals in turn: no lane meets words
\* of two blocks, none is left out (soft.rs rounds, the reference of the
\* kernels' tests).
RoundsAreScalar ==
    [][/\ pc = "column" => applied' = OfEveryBlock(ColumnWords)
       /\ pc = "diagonal" => applied' = OfEveryBlock(DiagonalWords)]_vars

\* When the feed-forward adds the original registers, every word is back in
\* the lane it was loaded into, after twenty rounds.
FeedForwardAligned == pc = "emit" => regs = Loaded

\* Word p of the message meets its own word of the keystream, counted from the
\* state's counter, whatever that is; where the first block is the key of
\* Poly1305, the key is the first half of the block of counter 0 and the message
\* starts with counter 1 (xor_batch8, xor_quad2, xor_quad, xor_batch4, xor_pair,
\* xor_batch16, emit_partial, gen_key_xor2, gen_ks_small, seal_direct).
BlocksInOrder ==
    pc = "done" =>
        /\ \A p \in DOMAIN out : out[p] = <<Counter(p \div 16 + Ahead), p % 16>>
        /\ KeyFirst => key = [w \in 0..7 |-> <<0, w>>]

\* Whatever is left of the message, in whole blocks and a partial one on either
\* side of the middle of a block, is stored and nothing past it is; the raw
\* keystream of a small message stays in the caller's buffer (avx512.rs,
\* store_blk, emit_partial, emit16k: masked partial; gen_ks_small).
StoresCoverMessage ==
    pc = "done" =>
        /\ 0..(len - 1) \subseteq DOMAIN out
        /\ DOMAIN out \subseteq 0..((IF kernel.store = "small" THEN SmallMax ELSE len) - 1)

\* What the comment on store_blk says of partial tails: memory past the message
\* is never touched.
TailsInside == pc = "done" => loaded \subseteq 0..(len - 1)

\* "gen_ks_small writes exactly the first n >= msg.len() bytes" (aead.rs, the
\* SAFETY comment of the small path), n being what the slice passed holds.
KsExact == pc = "done" /\ kernel.store = "small" => DOMAIN out = 0..(len - 1)
=============================================================================
