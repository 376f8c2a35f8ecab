------------------------------ MODULE BackendOps -----------------------------
(***************************************************************************)
(* The six implementations of the `Ops` trait that the engine is           *)
(* monomorphised for: one record each.  Lengths are in units of 16 bytes,  *)
(* so a ChaCha20 block is 4 units.  `ks_advance[b]` is what gen_ks_small   *)
(* adds to the block counter when it is asked for b keystream blocks.      *)
(***************************************************************************)
EXTENDS Integers, PolyCache

OpsRecord ==
    [name: STRING, batch: Nat, poly: PolyKinds, fused_seal: BOOLEAN, fused_open: BOOLEAN,
     fused_medium: BOOLEAN, direct_seal_max: Nat, ks_advance: [0..3 -> Nat]]

\* The avx2, avx512 and sse2 kernels round the counter up to the 4-block quad.
QuadKsAdvance == [b \in 0..3 |-> IF b <= 1 THEN 1 + b ELSE 4]

Unfused(name, batch, poly, ks_advance) ==
    [name |-> name, batch |-> batch, poly |-> poly, fused_seal |-> FALSE, fused_open |-> FALSE,
     fused_medium |-> FALSE, direct_seal_max |-> 0, ks_advance |-> ks_advance]

SoftKsAdvance == [b \in 0..3 |-> 1 + b]

\* Key block, then a throw-away single block or a batch of four.
NeonKsAdvance == [b \in 0..3 |-> IF b <= 1 THEN 2 ELSE 5]

SoftOps   == Unfused("soft", 4, "soft", SoftKsAdvance)
Sse2Ops   == Unfused("sse2", 16, "soft", QuadKsAdvance)
NeonOps   == Unfused("neon", 16, "drain", NeonKsAdvance)
Avx2Ops   == Unfused("avx2", 32, "drain", QuadKsAdvance)
Avx512Ops == Unfused("avx512", 64, "drain", QuadKsAdvance)

Avx512IfmaOps ==
    [name |-> "avx512-ifma", batch |-> 64, poly |-> "pair", fused_seal |-> TRUE, fused_open |-> TRUE,
     fused_medium |-> TRUE, direct_seal_max |-> 60, ks_advance |-> QuadKsAdvance]

AllOps == {SoftOps, Sse2Ops, NeonOps, Avx2Ops, Avx512Ops, Avx512IfmaOps}
=============================================================================
