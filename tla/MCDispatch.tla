------------------------------ MODULE MCDispatch -----------------------------
(***************************************************************************)
(* Build environments for TLC: auto builds of every architecture, and      *)
(* forced builds with one flag, the right or the wrong one, or two.        *)
(***************************************************************************)
EXTENDS Dispatch

CONSTANTS t1, t2

MCThreads == {t1, t2}

\* Feature sets a compiler and a CPU can report: each implies the former.
FeatureSets ==
    {{}, {"avx2"}, {"avx2", "avx512f"}, {"avx2", "avx512f", "avx512vl"},
     {"avx2", "avx512f", "avx512ifma"}, Features}

X86(std, avx512, target, flags) ==
    [arch |-> "x86_64", std |-> std, avx512 |-> avx512, target |-> target,
     neon |-> FALSE, flags |-> flags]

Elsewhere(arch, std, neon, flags) ==
    [arch |-> arch, std |-> std, avx512 |-> FALSE, target |-> {}, neon |-> neon,
     flags |-> flags]

OneFlag == {<<name>> : name \in Names \cup {"bogus"}}
TwoFlags == {<<"soft", "avx512">>, <<"avx512", "soft">>, <<"bogus", "sse2">>, <<"sse2", "bogus">>}

MCBuilds ==
    {X86(std, avx512, target, flags) :
        std \in BOOLEAN, avx512 \in BOOLEAN, target \in FeatureSets,
        flags \in {<< >>} \cup OneFlag \cup TwoFlags}
    \cup {Elsewhere("aarch64", std, neon, flags) :
        std \in BOOLEAN, neon \in BOOLEAN, flags \in {<< >>} \cup OneFlag}
    \cup {Elsewhere("other", std, FALSE, flags) :
        std \in BOOLEAN, flags \in {<< >>} \cup OneFlag}
=============================================================================
