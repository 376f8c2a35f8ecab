------------------------------- MODULE Dispatch ------------------------------
(***************************************************************************)
(* Which backend a call runs on: what build.rs compiles, what detect()     *)
(* answers, and the one relaxed atomic, KIND, in which racing threads      *)
(* publish the answer (src/build.rs, src/src/backend.rs).                  *)
(*                                                                         *)
(* KIND is modelled by the order of the values stored in it (its           *)
(* modification order).  A relaxed load returns any value of that order    *)
(* that is not older than the last one this thread has seen.               *)
(***************************************************************************)
EXTENDS Integers, Sequences, FiniteSets, SequencesExt

CONSTANTS
    Threads,    \* threads that call the crate
    MaxCalls,   \* bound: calls each thread makes
    Builds      \* the build environments to explore, subset of BuildEnv

Features == {"avx2", "avx512f", "avx512vl", "avx512ifma"}
Names    == {"soft", "sse2", "avx2", "avx512", "neon"}

BuildEnv ==
    [arch: {"x86_64", "aarch64", "other"}, std: BOOLEAN, avx512: BOOLEAN,
     target: SUBSET Features,      \* target features given to the compiler
     neon: BOOLEAN,                \* aarch64: the toolchain's neon feature
     flags: Seq(Names \cup {"bogus"})]  \* chacha20poly1305_backend flags, in order

ASSUME MaxCallsAssumption == MaxCalls \in Nat
ASSUME BuildsAssumption == Builds \subseteq BuildEnv

VARIABLES
    env,     \* the build environment
    cpu,     \* x86 features of the machine that runs the binary
    phase,   \* "build", "failed" (no binary) or "run"
    compiled,\* backends in the binary
    order,   \* values of KIND in modification order, the first is 0
    seen,    \* per thread, position in order of the last value it has seen
    at,      \* per thread, where in current() it stands
    reg,     \* per thread, the local variable k
    probes,  \* per thread, how often it has run detect()
    used,    \* every Kind a call has run on
    calls    \* per thread, calls made

vars == <<env, cpu, phase, compiled, order, seen, at, reg, probes, used, calls>>

----------------------------------------------------------------------------
(* build.rs                                                                 *)

RequiredArch(b) ==
    CASE b = "soft" -> "any" [] b = "neon" -> "aarch64" [] OTHER -> "x86_64"

RequiredFeatures(b) ==
    CASE b = "avx2" -> {"avx2"}
      [] b = "avx512" -> {"avx2", "avx512f", "avx512vl"}
      [] OTHER -> {}

FitsArch(b) == RequiredArch(b) \in {"any", env.arch}

Forced == env.flags # << >>

\* The last flag wins.
ForcedName == Last(env.flags)

BuildFails ==
    /\ Forced
    /\ \/ ForcedName \notin Names
       \/ ForcedName = "avx512" /\ ~env.avx512
       \/ ~FitsArch(ForcedName)
       \/ ~(RequiredFeatures(ForcedName) \subseteq env.target)

CompiledBackends ==
    IF Forced THEN {ForcedName}
    ELSE {b \in Names : FitsArch(b) /\ (b = "avx512" => env.avx512)}

----------------------------------------------------------------------------
(* backend.rs                                                               *)

\* Kind as u8: ids are distinct and 0 means "not yet detected".
KindId == [k \in {"avx2", "avx512", "soft", "neon", "sse2", "avx512-ifma"} |->
              CASE k = "avx2" -> 1 [] k = "avx512" -> 2 [] k = "soft" -> 3
                [] k = "neon" -> 4 [] k = "sse2" -> 5 [] OTHER -> 6]

Kinds == DOMAIN KindId

\* FORCED, a compile-time constant.
ForcedKind ==
    IF ForcedName = "avx512" /\ "avx512ifma" \in env.target
    THEN "avx512-ifma" ELSE ForcedName

\* Mutant: "all AVX-512 CPUs have AVX2".
X86TierNoAvx2(features) ==
    IF "avx512" \in compiled /\ {"avx512f", "avx512vl"} \subseteq features
    THEN IF "avx512ifma" \in features THEN "avx512-ifma" ELSE "avx512"
    ELSE IF "avx2" \in features THEN "avx2" ELSE "sse2"

\* The x86-64 tiers, from a set of features.
X86Tier(features) ==
    IF "avx512" \in compiled /\ {"avx512f", "avx512vl", "avx2"} \subseteq features
    THEN IF "avx512ifma" \in features THEN "avx512-ifma" ELSE "avx512"
    ELSE IF "avx2" \in features THEN "avx2" ELSE "sse2"

\* detect(): the CPU's features with std, the compiler's without.
Detected ==
    CASE env.arch = "x86_64"  -> X86Tier(IF env.std THEN cpu ELSE env.target)
      [] env.arch = "aarch64" -> IF env.std \/ env.neon THEN "neon" ELSE "soft"
      [] OTHER                -> "soft"

\* Mutant: the arm of a variant added later is missing.
KnownKindsNoIfma ==
    CASE env.arch = "x86_64" ->
           {"avx2", "sse2"} \cup (IF "avx512" \in compiled THEN {"avx512"} ELSE {})
      [] env.arch = "aarch64" -> {"neon"}
      [] OTHER -> {}

\* kind_from_u8: ids this binary does not know are the soft backend.
KnownKinds ==
    CASE env.arch = "x86_64" ->
           {"avx2", "sse2"} \cup
           (IF "avx512" \in compiled THEN {"avx512", "avx512-ifma"} ELSE {})
      [] env.arch = "aarch64" -> {"neon"}
      [] OTHER -> {}

KindFromId(id) ==
    IF \E k \in KnownKinds : KindId[k] = id
    THEN CHOOSE k \in KnownKinds : KindId[k] = id
    ELSE "soft"

\* What the module of a backend needs to be in the binary, and its entry
\* points' #[target_feature] of the machine.
ModuleOf(kind) == IF kind = "avx512-ifma" THEN "avx512" ELSE kind

EntryFeatures(kind) ==
    CASE kind = "avx2" -> {"avx2"}
      [] kind = "avx512" -> {"avx512f", "avx512vl", "avx2"}
      [] kind = "avx512-ifma" -> {"avx512f", "avx512vl", "avx512ifma", "avx2"}
      [] OTHER -> {}

----------------------------------------------------------------------------
Init ==
    /\ env \in Builds
    /\ cpu \in SUBSET Features
    /\ env.target \subseteq cpu            \* else the binary may not run here
    /\ env.arch = "x86_64" \/ cpu = {}
    /\ phase = "build"
    /\ compiled = {}
    /\ order = <<0>>
    /\ seen = [t \in Threads |-> 1]
    /\ at = [t \in Threads |-> "idle"]
    /\ reg = [t \in Threads |-> 0]
    /\ probes = [t \in Threads |-> 0]
    /\ used = {}
    /\ calls = [t \in Threads |-> 0]

\* build.rs main
Build ==
    /\ phase = "build"
    /\ IF BuildFails
       THEN phase' = "failed" /\ UNCHANGED compiled
       ELSE phase' = "run" /\ compiled' = CompiledBackends
    /\ UNCHANGED <<env, cpu, order, seen, at, reg, probes, used, calls>>

\* The call runs on `kind`.
RunOn(t, kind) ==
    /\ used' = used \cup {kind}
    /\ calls' = [calls EXCEPT ![t] = @ + 1]
    /\ at' = [at EXCEPT ![t] = "idle"]

\* Forced mode: current() is a constant.
CallForced(t) ==
    /\ phase = "run" /\ Forced
    /\ at[t] = "idle" /\ calls[t] < MaxCalls
    /\ RunOn(t, ForcedKind)
    /\ UNCHANGED <<env, cpu, phase, compiled, order, seen, reg, probes>>

\* Auto mode: the relaxed load of KIND.
Load(t) ==
    /\ phase = "run" /\ ~Forced
    /\ at[t] = "idle" /\ calls[t] < MaxCalls
    /\ \E i \in seen[t]..Len(order) :
          /\ seen' = [seen EXCEPT ![t] = i]
          /\ reg' = [reg EXCEPT ![t] = order[i]]
          /\ at' = [at EXCEPT ![t] = IF order[i] = 0 THEN "detect" ELSE "call"]
    /\ UNCHANGED <<env, cpu, phase, compiled, order, probes, used, calls>>

\* Mutant: KIND holds an in-progress mark, an unknown id, during the probe.
DetectMarked(t) ==
    /\ at[t] = "detect"
    /\ reg' = [reg EXCEPT ![t] = KindId[Detected]]
    /\ order' = Append(order, 255)
    /\ seen' = [seen EXCEPT ![t] = Len(order')]
    /\ probes' = [probes EXCEPT ![t] = @ + 1]
    /\ at' = [at EXCEPT ![t] = "store"]
    /\ UNCHANGED <<env, cpu, phase, compiled, used, calls>>

\* k was 0: this thread probes, whatever other threads do meanwhile.
Detect(t) ==
    /\ at[t] = "detect"
    /\ reg' = [reg EXCEPT ![t] = KindId[Detected]]
    /\ probes' = [probes EXCEPT ![t] = @ + 1]
    /\ at' = [at EXCEPT ![t] = "store"]
    /\ UNCHANGED <<env, cpu, phase, compiled, order, seen, used, calls>>

\* Mutant: fetch_add, the same as a store unless two threads race.
StoreAdded(t) ==
    /\ at[t] = "store"
    /\ order' = Append(order, Last(order) + reg[t])
    /\ seen' = [seen EXCEPT ![t] = Len(order')]
    /\ at' = [at EXCEPT ![t] = "call"]
    /\ UNCHANGED <<env, cpu, phase, compiled, reg, probes, used, calls>>

\* Mutant: the answer is used and not published.
StoreForgotten(t) ==
    /\ at[t] = "store"
    /\ at' = [at EXCEPT ![t] = "call"]
    /\ UNCHANGED <<env, cpu, phase, compiled, order, seen, reg, probes, used, calls>>

\* Mutant: compare-exchange from 0, retried without a new load.
StoreExchanged(t) ==
    /\ at[t] = "store"
    /\ Last(order) = 0
    /\ order' = Append(order, reg[t])
    /\ seen' = [seen EXCEPT ![t] = Len(order')]
    /\ at' = [at EXCEPT ![t] = "call"]
    /\ UNCHANGED <<env, cpu, phase, compiled, reg, probes, used, calls>>

\* The relaxed store of the answer.
Store(t) ==
    /\ at[t] = "store"
    /\ order' = Append(order, reg[t])
    /\ seen' = [seen EXCEPT ![t] = Len(order')]
    /\ at' = [at EXCEPT ![t] = "call"]
    /\ UNCHANGED <<env, cpu, phase, compiled, reg, probes, used, calls>>

\* The call itself, on what the local k says.
Call(t) ==
    /\ at[t] = "call"
    /\ RunOn(t, KindFromId(reg[t]))
    /\ UNCHANGED <<env, cpu, phase, compiled, order, seen, reg, probes>>

Next ==
    \/ Build
    \/ \E t \in Threads : CallForced(t)
    \/ \E t \in Threads : Load(t)
    \/ \E t \in Threads : Detect(t)
    \/ \E t \in Threads : Store(t)
    \/ \E t \in Threads : Call(t)

\* Nothing in current() waits: some thread can always take its next step
\* until all calls are made.
Spec == Init /\ [][Next]_vars /\ WF_vars(Next)

----------------------------------------------------------------------------
TypeOK ==
    /\ env \in Builds
    /\ cpu \subseteq Features
    /\ phase \in {"build", "failed", "run"}
    /\ compiled \subseteq Names
    /\ \A i \in DOMAIN order : order[i] \in 0..6
    /\ seen \in [Threads -> DOMAIN order]
    /\ at \in [Threads -> {"idle", "detect", "store", "call"}]
    /\ reg \in [Threads -> 0..6]
    /\ probes \in [Threads -> Nat]
    /\ used \subseteq Kinds
    /\ calls \in [Threads -> 0..MaxCalls]

\* All calls of a process run on one backend, however the threads' loads and
\* stores of KIND interleave: what one thread seals, another opens on the
\* same code (backend.rs, current()).
OneBackend == Cardinality(used) <= 1

\* No call enters a backend that is not in the binary, or whose entry points
\* enable a feature this CPU lacks (the SAFETY contract of Kind::seal/open).
OnlyRunnable ==
    \A k \in used : ModuleOf(k) \in compiled /\ EntryFeatures(k) \subseteq cpu

\* A thread probes the CPU at most once: after its own store, no load gives
\* it the 0 of "not yet detected" again.
ProbesOnce == \A t \in Threads : probes[t] <= 1

\* An auto build with std uses the widest tier that is both compiled in and
\* supported; a forced build uses the backend it was told to.
Width(kind) ==
    CASE kind = "soft" -> 0 [] kind \in {"sse2", "neon"} -> 1
      [] kind = "avx2" -> 2 [] kind = "avx512" -> 3 [] OTHER -> 4

Widest ==
    \A k \in used :
        IF Forced THEN ModuleOf(k) = ForcedName
        ELSE env.std =>
            \A j \in Kinds :
                ModuleOf(j) \in compiled /\ EntryFeatures(j) \subseteq cpu
                    => Width(j) <= Width(k)

\* Once published, the answer is never taken back or changed.
PublishedForGood ==
    [][\A i \in DOMAIN order : order[i] # 0 => order'[Len(order')] = order[i]]_vars

\* "`std`: runtime CPU detection (otherwise scalar backend)" (README.md, the
\* table of features).
NoStdIsScalar == ~env.std /\ ~Forced => used \subseteq {"soft"}

\* Every call is answered once the build succeeds.
AllCallsMade ==
    <>(phase = "failed" \/ \A t \in Threads : calls[t] = MaxCalls)
=============================================================================
