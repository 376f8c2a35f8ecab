------------------------------ MODULE PolyCache ------------------------------
(***************************************************************************)
(* How many whole 16-byte blocks a Poly1305 backend keeps deferred in its  *)
(* `cached` buffer (`num_cached`, what `pending_blocks()` returns) after   *)
(* each absorbing operation.  Three families of backend exist:             *)
(*                                                                         *)
(*   "soft"   never defers (src/src/poly1305/soft.rs);                     *)
(*   "drain"  defers up to 8 blocks and empties the cache before it folds  *)
(*            a 64-byte window (src/src/poly1305/avx2.rs and neon.rs);     *)
(*   "pair"   defers up to 8 blocks and folds windows two at a time, so a  *)
(*            lone window waits in the cache (src/src/poly1305/ifma.rs).   *)
(*                                                                         *)
(* Counts are blocks of 16 bytes; a window is 4 of them.                   *)
(***************************************************************************)
EXTENDS Integers

PolyKinds == {"soft", "drain", "pair"}

CacheSize == 8

\* absorb_block: a full cache is folded first, then the block is parked.
AfterBlock(kind, c) ==
    IF kind = "soft" THEN 0 ELSE IF c = CacheSize THEN 1 ELSE c + 1

\* Poly::update with n whole blocks: n calls of absorb_block, in closed form
\* (MCFusedEngine compares it with AfterBlock iterated).
AfterUpdate(kind, c, n) ==
    IF kind = "soft" \/ c + n = 0
    THEN 0
    ELSE ((c + n - 1) % CacheSize) + 1

\* absorb4: one window at a 64-byte aligned position (c % 4 = 0).
AfterAbsorb4(kind, c) == IF kind = "pair" /\ c # 4 THEN 4 ELSE 0

\* absorb_blocks with w windows.
AfterAbsorbBlocks(kind, c, w) ==
    CASE kind = "pair" -> IF (w + (IF c = 4 THEN 1 ELSE 0)) % 2 = 1 THEN 4 ELSE 0
      [] kind = "drain" /\ w = 0 -> c
      [] OTHER -> 0

\* w calls of absorb4 in a row.
AfterAbsorb4s(kind, c, w) == IF w = 0 THEN c ELSE AfterAbsorbBlocks(kind, c, w)

\* Poly::update_tail with n whole blocks: the whole windows through
\* absorb_blocks, the rest through update.
AfterUpdateTail(kind, c, n) ==
    AfterUpdate(kind, AfterAbsorb4s(kind, c, n \div 4), n % 4)

\* Mutant: the remainder itself instead of what is missing to a window.
AlignGapPast(m) == m % 4

\* Blocks that bring a stream with m pending blocks to a window boundary.
AlignGap(m) == (4 - (m % 4)) % 4
=============================================================================
