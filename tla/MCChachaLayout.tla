--------------------------- MODULE MCChachaLayout ---------------------------
EXTENDS ChachaLayout

Kernel(layout, groups, lanes, store) ==
    [layout |-> layout, groups |-> groups, lanes |-> lanes, store |-> store]

\* sse2 xor_single, xor_pair, xor_batch4; the single-block kernels of neon and
\* avx512; avx2 and avx512 xor_quad, xor_quad2, rounds3, xor_batch8; neon
\* xor_batch4; avx512 xor_batch16.  Then the avx512 kernels whose stores depend
\* on the message, and gen_key_xor2 and gen_ks_small of sse2, avx2 and avx512.
AllKernels ==
    {Kernel("row", g, 4, "whole") : g \in {1, 2, 4}}
    \cup {Kernel("neonrow", 1, 4, "whole")}
    \cup {Kernel("quad", g, 8, "whole") : g \in 1..4}
    \cup {Kernel("word", 1, 4, "whole"), Kernel("word", 1, 16, "whole")}
    \cup {Kernel("quad", 4, 8, "partial")}
    \cup {Kernel("quad", 3, 8, "direct"), Kernel("quad", 4, 8, "direct"),
          Kernel("word", 1, 16, "direct")}
    \cup {Kernel("row", 2, 4, "key_xor2"), Kernel("quad", 1, 8, "key_xor2")}
    \cup {Kernel("row", g, 4, "small") : g \in {2, 4}}
    \cup {Kernel("quad", g, 8, "small") : g \in {1, 2}}

\* With the kernels above, every case there is.
AllTails == 0..15
=============================================================================
