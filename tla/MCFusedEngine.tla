---------------------------- MODULE MCFusedEngine ----------------------------
(***************************************************************************)
(* Calls for TLC: every backend with message lengths around each boundary  *)
(* of its paths, every residue of the AAD that moves the windows.          *)
(***************************************************************************)
EXTENDS FusedEngine, BackendOps

CallsOf(ops, fulls, aads) ==
    [ops: {ops}, seal: BOOLEAN, aad: aads, full: fulls, part: BOOLEAN]

\* Tiny, small and direct paths and their boundaries (4, 12 and 60 units).
ShortCalls(ops) == CallsOf(ops, 0..14, {0, 1, 2, 3, 4, 7, 8, 9})

\* The longest messages the counter admits, up to MAX_LEN less one byte.
LongestCalls(ops) == CallsOf(ops, (MaxLen - 2)..(MaxLen - 1), {0, 3})

\* The batches of the wide backends: the entry of the bulk loop and of its
\* fused run, and their last batch.
WideFulls == (15..37) \cup (58..76) \cup (90..102) \cup (122..140) \cup (186..204)

MCCalls ==
    (UNION {ShortCalls(ops) : ops \in AllOps})
    \cup (UNION {LongestCalls(ops) : ops \in AllOps})
    \cup CallsOf(SoftOps, 15..24, 0..4)
    \cup CallsOf(Sse2Ops, 15..52, 0..4)
    \cup CallsOf(NeonOps, 15..60, 0..8)
    \cup CallsOf(Avx2Ops, 15..106, {0, 1, 2, 3, 4, 8})
    \cup CallsOf(Avx512Ops, WideFulls, {0, 1, 3, 4})
    \cup CallsOf(Avx512IfmaOps, WideFulls, 0..8)

\* A thinner set, for the questions one call answers.
MCFewCalls ==
    UNION {CallsOf(ops, {0, 4, 5, 12}, {0, 3}) : ops \in AllOps}
    \cup CallsOf(SoftOps, {15, 16, 20}, {0, 3})
    \cup CallsOf(Sse2Ops, {15, 20, 33, 36, 52}, {0, 3})
    \cup CallsOf(NeonOps, {15, 20, 33, 36, 52, 68}, {0, 1, 3, 4})
    \cup CallsOf(Avx2Ops, {20, 36, 40, 68, 69, 99, 100, 132}, {0, 1, 3, 4})
    \cup CallsOf(Avx512Ops, {20, 68, 71, 131, 132, 135, 196}, {0, 1, 3, 4})
    \cup CallsOf(Avx512IfmaOps,
                 {15, 27, 44, 59, 60, 61, 68, 71, 75, 99, 131, 132, 135, 140, 196, 230},
                 {0, 1, 2, 3, 4, 5, 8})

\* The closed form of Poly::update is its loop over absorb_block.
UpdateLoop(kind, c) ==
    LET after[n \in 0..20] == IF n = 0 THEN c ELSE AfterBlock(kind, after[n - 1])
    IN  after

ASSUME UpdateIsItsLoop ==
    \A kind \in PolyKinds, n \in 0..20 :
        \A c \in (IF kind = "soft" THEN {0} ELSE 0..CacheSize) :
            AfterUpdate(kind, c, n) = UpdateLoop(kind, c)[n]

=============================================================================
