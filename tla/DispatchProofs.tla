---------------------------- MODULE DispatchProofs ----------------------------
(***************************************************************************)
(* Proofs about Dispatch, for any number of threads and calls and every    *)
(* build environment.  The argument: once the build is done, detect() is a *)
(* function of things that no longer change, so every value ever stored in *)
(* KIND is that one answer, and a thread that has stored it can never load *)
(* the initial 0 again.                                                    *)
(***************************************************************************)
EXTENDS Dispatch, SequenceTheorems, FiniteSetTheorems, TLAPS

\* What detect() answers, as KIND holds it, and what a call then runs on.
Answer == KindId[Detected]
Chosen == IF Forced THEN ForcedKind ELSE KindFromId(Answer)

Steps == {"idle", "detect", "store", "call"}

\* Before the binary runs, nothing has been loaded, stored or called.
Unbuilt ==
    phase # "run" =>
        /\ order = <<0>>
        /\ used = {}
        /\ \A t \in Threads : at[t] = "idle" /\ probes[t] = 0

\* The modification order of KIND: the initial 0, then the answer.
KindOrder ==
    /\ order \in Seq(0..6)
    /\ Len(order) >= 1
    /\ order[1] = 0
    /\ \A i \in 2..Len(order) : order[i] = Answer

\* Where a thread is in current(), and what it has seen of KIND by then.
ThreadOK(t) ==
    /\ at[t] \in Steps
    /\ seen[t] \in 1..Len(order)
    /\ probes[t] \in {0, 1}
    /\ probes[t] = 1 => at[t] = "store" \/ seen[t] > 1
    /\ at[t] = "detect" => probes[t] = 0
    /\ at[t] \in {"store", "call"} => reg[t] = Answer
    /\ ~Forced \/ at[t] = "idle"

Registers == /\ seen \in [Threads -> Nat]
             /\ at \in [Threads -> Steps]
             /\ reg \in [Threads -> Nat]
             /\ probes \in [Threads -> Nat]

\* What the build has put in the binary, and what the machine must have.
Binary ==
    /\ env \in BuildEnv
    /\ env.target \subseteq cpu
    /\ env.arch = "x86_64" \/ cpu = {}
    /\ phase = "run" => compiled = CompiledBackends /\ ~BuildFails

Inv ==
    /\ Registers
    /\ Binary
    /\ Unbuilt
    /\ KindOrder
    /\ \A t \in Threads : ThreadOK(t)
    /\ used \subseteq {Chosen}

-----------------------------------------------------------------------------

\* detect() always has an answer, and never the 0 of "not yet detected".
LEMMA AnswerRange == Answer \in 1..6
    <1>1. Detected \in Kinds
        BY DEF Detected, X86Tier, Kinds, KindId
    <1>2. \A k \in Kinds : KindId[k] \in 1..6
        BY DEF Kinds, KindId
    <1>3. QED
        BY <1>1, <1>2 DEF Answer

\* A step that leaves the build, the machine and the binary alone leaves the
\* answer alone.
LEMMA SameAnswer ==
    ASSUME env' = env, cpu' = cpu, compiled' = compiled
    PROVE  Answer' = Answer /\ Chosen' = Chosen /\ Forced' = Forced
    BY DEF Answer, Chosen, Forced, ForcedKind, ForcedName, KindFromId, KnownKinds,
           Detected, X86Tier

\* Such a step leaves what the build has done alone.
LEMMA SameBinary ==
    ASSUME Binary, env' = env, cpu' = cpu, compiled' = compiled, phase' = phase
    PROVE  Binary'
    BY DEF Binary, CompiledBackends, BuildFails, Forced, ForcedName, FitsArch

\* The invariant holds before the build.
LEMMA InitInv ==
    ASSUME Init
    PROVE  Inv
    <1>1. order = <<0>> /\ Len(order) = 1 /\ order[1] = 0 /\ order \in Seq(0..6)
        BY DEF Init
    <1>2. Registers
        BY DEF Init, Registers, Steps
    <1>3. Binary
        BY BuildsAssumption DEF Init, Binary
    <1>4. Unbuilt
        BY DEF Init, Unbuilt
    <1>5. KindOrder
        BY <1>1 DEF KindOrder
    <1>6. \A t \in Threads : ThreadOK(t)
        BY <1>1 DEF Init, ThreadOK, Steps
    <1>7. used \subseteq {Chosen}
        BY DEF Init
    <1>8. QED
        BY <1>2, <1>3, <1>4, <1>5, <1>6, <1>7 DEF Inv

\* The build step: KIND and the threads are as they were initially.
LEMMA BuildInv ==
    ASSUME Inv, Build
    PROVE  Inv'
    <1>1. /\ phase = "build" /\ env' = env /\ cpu' = cpu /\ order' = order /\ seen' = seen
          /\ at' = at /\ reg' = reg /\ probes' = probes /\ used' = used
        BY DEF Build
    <1>2. order = <<0>> /\ used = {} /\ \A t \in Threads : at[t] = "idle" /\ probes[t] = 0
        BY <1>1 DEF Inv, Unbuilt
    <1>3. Registers'
        BY <1>1 DEF Inv, Registers
    <1>4. Binary'
        <2>1. CASE BuildFails
            BY <1>1, <2>1 DEF Build, Inv, Binary
        <2>2. CASE ~BuildFails
            <3>1. phase' = "run" /\ compiled' = CompiledBackends
                BY <2>2 DEF Build
            <3>2. CompiledBackends' = CompiledBackends /\ BuildFails' = BuildFails
                BY <1>1 DEF CompiledBackends, BuildFails, Forced, ForcedName, FitsArch
            <3>3. QED
                BY <1>1, <2>2, <3>1, <3>2 DEF Inv, Binary
        <2>3. QED
            BY <2>1, <2>2
    <1>5. Unbuilt'
        BY <1>1, <1>2 DEF Unbuilt
    <1>6. Len(order) = 1 /\ order[1] = 0 /\ order \in Seq(0..6)
        BY <1>2
    <1>7. KindOrder'
        BY <1>1, <1>6 DEF KindOrder
    <1>8. ASSUME NEW t \in Threads
          PROVE  ThreadOK(t)'
        <2>1. ThreadOK(t) /\ at[t] = "idle" /\ probes[t] = 0
            BY <1>2 DEF Inv
        <2>2. QED
            BY <1>1, <2>1 DEF ThreadOK
    <1>9. used' \subseteq {Chosen}'
        BY <1>1, <1>2
    <1>10. QED
        BY <1>3, <1>4, <1>5, <1>7, <1>8, <1>9 DEF Inv

\* A thread's step that stores nothing: only its own thread's place changes.
LEMMA ThreadStepInv ==
    ASSUME Inv, NEW t \in Threads, phase = "run",
           UNCHANGED <<env, cpu, phase, compiled, order>>,
           Registers', ThreadOK(t)', used' \subseteq {Chosen},
           \A u \in Threads \ {t} : /\ seen'[u] = seen[u] /\ at'[u] = at[u]
                                    /\ reg'[u] = reg[u] /\ probes'[u] = probes[u]
    PROVE  Inv'
    <1>1. Answer' = Answer /\ Chosen' = Chosen /\ Forced' = Forced
        BY SameAnswer
    <1>2. Binary'
        BY SameBinary DEF Inv
    <1>3. Unbuilt'
        BY DEF Unbuilt
    <1>4. KindOrder'
        BY <1>1 DEF Inv, KindOrder
    <1>5. ASSUME NEW u \in Threads
          PROVE  ThreadOK(u)'
        <2>1. CASE u = t
            BY <2>1
        <2>2. CASE u # t
            BY <1>1, <2>2 DEF Inv, ThreadOK
        <2>3. QED
            BY <2>1, <2>2
    <1>6. QED
        BY <1>1, <1>2, <1>3, <1>4, <1>5 DEF Inv

\* A forced call.
LEMMA CallForcedInv ==
    ASSUME Inv, NEW t \in Threads, CallForced(t)
    PROVE  Inv'
    <1>1. /\ phase = "run" /\ Forced /\ at[t] = "idle"
          /\ UNCHANGED <<env, cpu, phase, compiled, order, seen, reg, probes>>
          /\ used' = used \cup {ForcedKind}
          /\ at' = [at EXCEPT ![t] = "idle"]
        BY DEF CallForced, RunOn
    <1>2. at \in [Threads -> Steps] /\ Registers
        BY DEF Inv, Registers
    <1>3. at' = at
        BY <1>1, <1>2
    <1>4. Registers'
        BY <1>1, <1>2, <1>3 DEF Registers
    <1>5. Answer' = Answer /\ Forced' = Forced
        BY <1>1, SameAnswer
    <1>6. ThreadOK(t)'
        BY <1>1, <1>3, <1>5 DEF Inv, ThreadOK
    <1>7. used' \subseteq {Chosen}
        BY <1>1 DEF Inv, Chosen
    <1>8. QED
        BY <1>1, <1>3, <1>4, <1>6, <1>7, ThreadStepInv

\* A load: what it returns is the initial 0, or the answer.
LEMMA LoadInv ==
    ASSUME Inv, NEW t \in Threads, Load(t)
    PROVE  Inv'
    <1>1. PICK i \in seen[t]..Len(order) :
              /\ seen' = [seen EXCEPT ![t] = i]
              /\ reg' = [reg EXCEPT ![t] = order[i]]
              /\ at' = [at EXCEPT ![t] = IF order[i] = 0 THEN "detect" ELSE "call"]
        BY DEF Load
    <1>2. /\ phase = "run" /\ ~Forced /\ at[t] = "idle"
          /\ UNCHANGED <<env, cpu, phase, compiled, order, probes, used>>
        BY DEF Load
    <1>3. Registers /\ ThreadOK(t) /\ KindOrder /\ used \subseteq {Chosen}
        BY DEF Inv
    <1>4. Len(order) \in Nat
        BY <1>3 DEF KindOrder
    <1>5. i \in 1..Len(order) /\ i \in Nat /\ i >= seen[t] /\ seen[t] \in Nat
        BY <1>1, <1>3, <1>4 DEF ThreadOK
    <1>6. order[i] \in 0..6 /\ (i # 1 => order[i] = Answer) /\ (i = 1 => order[i] = 0)
        <2>1. i # 1 => i \in 2..Len(order)
            BY <1>4, <1>5
        <2>2. order[i] \in 0..6
            BY <1>3, <1>5 DEF KindOrder
        <2>3. QED
            BY <1>3, <2>1, <2>2 DEF KindOrder
    <1>7. Registers'
        <2>1. /\ seen \in [Threads -> Nat] /\ at \in [Threads -> Steps]
              /\ reg \in [Threads -> Nat] /\ probes \in [Threads -> Nat]
            BY <1>3 DEF Registers
        <2>2. seen' \in [Threads -> Nat]
            BY <1>1, <1>5, <2>1
        <2>3. at' \in [Threads -> Steps]
            BY <1>1, <2>1 DEF Steps
        <2>4. order[i] \in Nat
            BY <1>6
        <2>5. reg' \in [Threads -> Nat]
            BY <1>1, <2>1, <2>4
        <2>6. QED
            BY <1>2, <2>1, <2>2, <2>3, <2>5 DEF Registers
    <1>8. Answer' = Answer /\ Forced' = Forced /\ Answer # 0
        BY <1>2, SameAnswer, AnswerRange
    <1>9. ThreadOK(t)'
        <2>1. /\ seen'[t] = i /\ reg'[t] = order[i] /\ probes'[t] = probes[t]
              /\ at'[t] = IF order[i] = 0 THEN "detect" ELSE "call"
            BY <1>1, <1>2, <1>3 DEF Registers
        <2>2. at'[t] \in Steps
            BY <2>1 DEF Steps
        <2>3. probes[t] \in {0, 1} /\ (probes[t] = 1 => seen[t] > 1)
            BY <1>2, <1>3 DEF ThreadOK
        <2>4. probes[t] = 1 => i > 1
            BY <1>5, <2>3
        <2>5. order[i] = 0 => i = 1
            BY <1>6, <1>8
        <2>6. order[i] = 0 => probes[t] = 0
            BY <2>3, <2>4, <2>5
        <2>7. order[i] # 0 => order[i] = Answer
            BY <1>6
        <2>8. QED
            BY <1>2, <1>5, <1>8, <2>1, <2>2, <2>3, <2>4, <2>6, <2>7 DEF ThreadOK
    <1>10. \A u \in Threads \ {t} : /\ seen'[u] = seen[u] /\ at'[u] = at[u]
                                    /\ reg'[u] = reg[u] /\ probes'[u] = probes[u]
        BY <1>1, <1>2, <1>3 DEF Registers
    <1>11. QED
        BY <1>2, <1>3, <1>7, <1>9, <1>10, ThreadStepInv
\* The probe.
LEMMA DetectInv ==
    ASSUME Inv, NEW t \in Threads, Detect(t)
    PROVE  Inv'
    <1>1. /\ at[t] = "detect"
          /\ reg' = [reg EXCEPT ![t] = Answer]
          /\ probes' = [probes EXCEPT ![t] = @ + 1]
          /\ at' = [at EXCEPT ![t] = "store"]
          /\ UNCHANGED <<env, cpu, phase, compiled, order, seen, used>>
        BY DEF Detect, Answer
    <1>2. Registers /\ ThreadOK(t) /\ used \subseteq {Chosen} /\ Unbuilt
        BY DEF Inv
    <1>3. phase = "run"
        BY <1>1, <1>2 DEF Unbuilt
    <1>4. /\ seen \in [Threads -> Nat] /\ at \in [Threads -> Steps]
          /\ reg \in [Threads -> Nat] /\ probes \in [Threads -> Nat]
        BY <1>2 DEF Registers
    <1>5. Answer \in Nat
        BY AnswerRange
    <1>6. Registers'
        <2>1. at' \in [Threads -> Steps]
            BY <1>1, <1>4 DEF Steps
        <2>2. reg' \in [Threads -> Nat]
            BY <1>1, <1>4, <1>5
        <2>3. probes' \in [Threads -> Nat]
            BY <1>1, <1>4
        <2>4. QED
            BY <1>1, <1>4, <2>1, <2>2, <2>3 DEF Registers
    <1>7. Answer' = Answer /\ Chosen' = Chosen /\ Forced' = Forced
        BY <1>1, SameAnswer
    <1>8. ThreadOK(t)'
        <2>1. at'[t] = "store" /\ reg'[t] = Answer /\ probes'[t] = probes[t] + 1
            BY <1>1, <1>4
        <2>2. probes[t] = 0 /\ ~Forced /\ seen[t] \in 1..Len(order)
            BY <1>1, <1>2 DEF ThreadOK
        <2>3. QED
            BY <1>1, <1>7, <2>1, <2>2 DEF ThreadOK, Steps
    <1>9. \A u \in Threads \ {t} : /\ seen'[u] = seen[u] /\ at'[u] = at[u]
                                   /\ reg'[u] = reg[u] /\ probes'[u] = probes[u]
        BY <1>1, <1>4
    <1>10. QED
        BY <1>1, <1>2, <1>3, <1>6, <1>8, <1>9, ThreadStepInv

\* The store: it adds the answer to the values of KIND, whatever other
\* threads have stored since this one loaded 0.
LEMMA StoreInv ==
    ASSUME Inv, NEW t \in Threads, Store(t)
    PROVE  Inv'
    <1>1. /\ at[t] = "store"
          /\ order' = Append(order, reg[t])
          /\ seen' = [seen EXCEPT ![t] = Len(order')]
          /\ at' = [at EXCEPT ![t] = "call"]
          /\ UNCHANGED <<env, cpu, phase, compiled, reg, probes, used>>
        BY DEF Store
    <1>2. Registers /\ KindOrder /\ used \subseteq {Chosen} /\ Unbuilt /\ reg[t] = Answer
        BY <1>1 DEF Inv, ThreadOK
    <1>3. phase = "run" /\ phase' = "run"
        BY <1>1, <1>2 DEF Unbuilt
    <1>4. /\ seen \in [Threads -> Nat] /\ at \in [Threads -> Steps]
          /\ reg \in [Threads -> Nat] /\ probes \in [Threads -> Nat]
        BY <1>2 DEF Registers
    <1>5. Answer' = Answer /\ Chosen' = Chosen /\ Forced' = Forced /\ Answer \in 0..6
        BY <1>1, SameAnswer, AnswerRange
    <1>6. order \in Seq(0..6) /\ Len(order) \in Nat /\ Len(order) >= 1
        BY <1>2 DEF KindOrder
    <1>7. /\ order' \in Seq(0..6)
          /\ Len(order') = Len(order) + 1
          /\ \A i \in 1..Len(order) : order'[i] = order[i]
          /\ order'[Len(order) + 1] = Answer
        BY <1>1, <1>2, <1>5, <1>6, AppendProperties
    <1>8. KindOrder'
        <2>1. order'[1] = 0
            BY <1>2, <1>6, <1>7 DEF KindOrder
        <2>2. ASSUME NEW i \in 2..Len(order')
              PROVE  order'[i] = Answer
            <3>1. CASE i = Len(order) + 1
                BY <1>7, <3>1
            <3>2. CASE i # Len(order) + 1
                <4>1. i \in 1..Len(order) /\ i \in 2..Len(order)
                    BY <1>6, <1>7, <2>2, <3>2
                <4>2. QED
                    BY <1>2, <1>7, <4>1 DEF KindOrder
            <3>3. QED
                BY <3>1, <3>2
        <2>3. QED
            BY <1>5, <1>6, <1>7, <2>1, <2>2 DEF KindOrder
    <1>9. Registers'
        <2>1. at' \in [Threads -> Steps]
            BY <1>1, <1>4 DEF Steps
        <2>2. seen' \in [Threads -> Nat]
            BY <1>1, <1>4, <1>6, <1>7
        <2>3. QED
            BY <1>1, <1>4, <2>1, <2>2 DEF Registers
    <1>10. ASSUME NEW u \in Threads
           PROVE  ThreadOK(u)'
        <2>0. ThreadOK(u)
            BY DEF Inv
        <2>1. CASE u = t
            <3>1. seen'[t] = Len(order') /\ at'[t] = "call" /\ reg'[t] = Answer
                BY <1>1, <1>2, <1>4
            <3>2. Len(order') \in 1..Len(order') /\ Len(order') > 1
                BY <1>6, <1>7
            <3>3. probes[t] \in {0, 1} /\ ~Forced
                BY <1>1, <2>0, <2>1 DEF ThreadOK
            <3>4. QED
                BY <1>1, <1>5, <2>1, <3>1, <3>2, <3>3 DEF ThreadOK, Steps
        <2>2. CASE u # t
            <3>1. /\ seen'[u] = seen[u] /\ at'[u] = at[u]
                  /\ reg'[u] = reg[u] /\ probes'[u] = probes[u]
                BY <1>1, <1>4, <2>2
            <3>2. seen[u] \in 1..Len(order')
                <4>1. seen[u] \in 1..Len(order)
                    BY <2>0 DEF ThreadOK
                <4>2. QED
                    BY <1>6, <1>7, <4>1
            <3>3. QED
                BY <1>5, <2>0, <3>1, <3>2 DEF ThreadOK
        <2>3. QED
            BY <2>1, <2>2
    <1>11. Binary'
        BY <1>1, SameBinary DEF Inv
    <1>12. Unbuilt'
        BY <1>3 DEF Unbuilt
    <1>13. used' \subseteq {Chosen}'
        BY <1>1, <1>2, <1>5
    <1>14. QED
        BY <1>8, <1>9, <1>10, <1>11, <1>12, <1>13 DEF Inv

\* The call: on what the thread's own copy of the answer says.
LEMMA CallInv ==
    ASSUME Inv, NEW t \in Threads, Call(t)
    PROVE  Inv'
    <1>1. /\ at[t] = "call"
          /\ used' = used \cup {KindFromId(reg[t])}
          /\ at' = [at EXCEPT ![t] = "idle"]
          /\ UNCHANGED <<env, cpu, phase, compiled, order, seen, reg, probes>>
        BY DEF Call, RunOn
    <1>2. Registers /\ ThreadOK(t) /\ used \subseteq {Chosen} /\ Unbuilt
        BY DEF Inv
    <1>3. phase = "run" /\ reg[t] = Answer /\ ~Forced
        BY <1>1, <1>2 DEF Unbuilt, ThreadOK
    <1>4. /\ seen \in [Threads -> Nat] /\ at \in [Threads -> Steps]
          /\ reg \in [Threads -> Nat] /\ probes \in [Threads -> Nat]
        BY <1>2 DEF Registers
    <1>5. at' \in [Threads -> Steps] /\ at'[t] = "idle"
        BY <1>1, <1>4 DEF Steps
    <1>6. Registers'
        BY <1>1, <1>4, <1>5 DEF Registers
    <1>7. Answer' = Answer /\ Forced' = Forced
        BY <1>1, SameAnswer
    <1>8. ThreadOK(t)'
        BY <1>1, <1>2, <1>5, <1>7 DEF ThreadOK, Steps
    <1>9. used' \subseteq {Chosen}
        BY <1>1, <1>2, <1>3 DEF Chosen
    <1>10. \A u \in Threads \ {t} : at'[u] = at[u]
        BY <1>1, <1>4
    <1>11. QED
        BY <1>1, <1>3, <1>6, <1>8, <1>9, <1>10, ThreadStepInv

\* A stutter.
LEMMA StutterInv ==
    ASSUME Inv, UNCHANGED <<env, cpu, phase, compiled, order, seen, at, reg, probes, used>>
    PROVE  Inv'
    <1>1. Answer' = Answer /\ Chosen' = Chosen /\ Forced' = Forced
        BY SameAnswer
    <1>2. Binary'
        BY SameBinary DEF Inv
    <1>3. ASSUME NEW t \in Threads
          PROVE  ThreadOK(t)'
        <2>1. ThreadOK(t)
            BY DEF Inv
        <2>2. QED
            BY <1>1, <2>1 DEF ThreadOK
    <1>4. QED
        BY <1>1, <1>2, <1>3 DEF Inv, Registers, Unbuilt, KindOrder

\* Every step keeps the invariant.
LEMMA NextInv ==
    ASSUME Inv, [Next]_vars
    PROVE  Inv'
    <1>1. CASE Next
        BY <1>1, BuildInv, CallForcedInv, LoadInv, DetectInv, StoreInv, CallInv DEF Next
    <1>2. CASE UNCHANGED vars
        BY <1>2, StutterInv DEF vars
    <1>3. QED
        BY <1>1, <1>2

\* However threads race through current(), KIND holds only the initial 0 and
\* the one answer of detect() (backend.rs, current).
THEOREM InvHolds == Spec => []Inv
    <1>1. Inv /\ [Next]_vars => Inv'
        BY NextInv
    <1>2. QED
        BY <1>1, InitInv, PTL DEF Spec

\* All calls of the process, on every thread, run on the same backend.
THEOREM OneBackendHolds == Spec => []OneBackend
    <1>1. Inv => OneBackend
        <2>1. SUFFICES ASSUME used \subseteq {Chosen}
                       PROVE  Cardinality(used) <= 1
            BY DEF Inv, OneBackend
        <2>2. IsFiniteSet({Chosen}) /\ Cardinality({Chosen}) = 1
            BY FS_Singleton
        <2>3. Cardinality(used) <= Cardinality({Chosen})
            BY <2>1, <2>2, FS_Subset
        <2>4. QED
            BY <2>2, <2>3
    <1>2. QED
        BY <1>1, InvHolds, PTL

\* No thread probes the CPU twice.
THEOREM ProbesOnceHolds == Spec => []ProbesOnce
    <1>1. Inv => ProbesOnce
        BY DEF Inv, ThreadOK, ProbesOnce
    <1>2. QED
        BY <1>1, InvHolds, PTL

\* Once an answer is in KIND, the newest value of KIND stays that answer.
THEOREM PublishedHolds == Spec => PublishedForGood
    <1>1. Inv /\ Inv' /\ [Next]_vars =>
            [\A i \in DOMAIN order : order[i] # 0 => order'[Len(order')] = order[i]]_vars
        <2>1. SUFFICES ASSUME Inv, Inv', [Next]_vars,
                              NEW i \in DOMAIN order, order[i] # 0, vars' # vars
                       PROVE  order'[Len(order')] = order[i]
            OBVIOUS
        <2>2. KindOrder /\ KindOrder'
            BY <2>1 DEF Inv
        <2>3. order \in Seq(0..6) /\ Len(order) \in Nat /\ i \in 1..Len(order)
            BY <2>1, <2>2 DEF KindOrder
        <2>4. i \in 2..Len(order)
            <3>1. i # 1
                BY <2>1, <2>2 DEF KindOrder
            <3>2. QED
                BY <2>3, <3>1
        <2>5. order[i] = Answer
            BY <2>2, <2>4 DEF KindOrder
        <2>6. Len(order) > 1
            BY <2>3, <2>4
        <2>7. phase = "run"
            BY <2>1, <2>6 DEF Inv, Unbuilt
        <2>8. order' = order \/ \E t \in Threads : order' = Append(order, reg[t])
            BY <2>1 DEF Next, Build, CallForced, Load, Detect, Store, Call
        <2>9. Len(order') \in Nat /\ Len(order') >= Len(order)
            BY <2>3, <2>8, AppendProperties
        <2>10. Len(order') \in 2..Len(order')
            BY <2>6, <2>9, <2>3
        <2>11. order'[Len(order')] = Answer'
            BY <2>2, <2>10 DEF KindOrder
        <2>12. env' = env /\ cpu' = cpu /\ compiled' = compiled
            BY <2>1, <2>7 DEF Next, Build, CallForced, Load, Detect, Store, Call
        <2>13. QED
            BY <2>5, <2>11, <2>12, SameAnswer
    <1>2. QED
        BY <1>1, InvHolds, PTL DEF Spec, PublishedForGood
-----------------------------------------------------------------------------
(* What runs is in the binary and the machine can run it.                   *)

\* Ids are distinct: an id names its kind.
LEMMA IdsDistinct ==
    ASSUME NEW j \in Kinds, NEW k \in Kinds, KindId[j] = KindId[k]
    PROVE  j = k
    BY DEF Kinds, KindId

\* The tier detect() picks on x86-64 is in the binary, and the features it was
\* picked from are enough for its entry points.
LEMMA TierRuns ==
    ASSUME NEW features, {"avx2", "sse2"} \subseteq compiled
    PROVE  /\ X86Tier(features) \in Kinds
           /\ X86Tier(features) \in {"avx2", "sse2"} \/ "avx512" \in compiled
           /\ X86Tier(features) \in {"avx2", "sse2", "avx512", "avx512-ifma"}
           /\ ModuleOf(X86Tier(features)) \in compiled
           /\ EntryFeatures(X86Tier(features)) \subseteq features
    <1> DEFINE tier == X86Tier(features)
    <1>1. tier \in {"avx2", "sse2", "avx512", "avx512-ifma"}
        BY DEF X86Tier
    <1>2. CASE tier = "avx512-ifma"
        <2>1. "avx512" \in compiled /\ {"avx512f", "avx512vl", "avx2", "avx512ifma"} \subseteq features
            BY <1>2 DEF X86Tier
        <2>2. QED
            BY <1>2, <2>1 DEF Kinds, KindId, ModuleOf, EntryFeatures
    <1>3. CASE tier = "avx512"
        <2>1. "avx512" \in compiled /\ {"avx512f", "avx512vl", "avx2"} \subseteq features
            BY <1>3 DEF X86Tier
        <2>2. QED
            BY <1>3, <2>1 DEF Kinds, KindId, ModuleOf, EntryFeatures
    <1>4. CASE tier = "avx2"
        <2>1. "avx2" \in features
            BY <1>4 DEF X86Tier
        <2>2. QED
            BY <1>4, <2>1 DEF Kinds, KindId, ModuleOf, EntryFeatures
    <1>5. CASE tier = "sse2"
        BY <1>5 DEF Kinds, KindId, ModuleOf, EntryFeatures
    <1>6. QED
        BY <1>1, <1>2, <1>3, <1>4, <1>5

\* Auto mode: kind_from_u8 gives back what detect() answered.
LEMMA RoundTrip ==
    ASSUME Binary, phase = "run", ~Forced
    PROVE  KindFromId(Answer) = Detected
    <1>1. compiled = {b \in Names : FitsArch(b) /\ (b = "avx512" => env.avx512)}
        BY DEF Binary, CompiledBackends
    <1>2. ASSUME Detected \in KnownKinds
          PROVE  KindFromId(Answer) = Detected
        <2>1. KnownKinds \subseteq Kinds
            BY DEF KnownKinds, Kinds, KindId
        <2>2. \A k \in KnownKinds : KindId[k] = Answer => k = Detected
            BY <1>2, <2>1, IdsDistinct DEF Answer
        <2>3. QED
            BY <1>2, <2>2 DEF KindFromId, Answer
    <1>3. CASE env.arch = "x86_64"
        <2>1. {"avx2", "sse2"} \subseteq compiled
            BY <1>1, <1>3 DEF Names, FitsArch, RequiredArch
        <2>2. Detected = X86Tier(IF env.std THEN cpu ELSE env.target)
            BY <1>3 DEF Detected
        <2>3. /\ Detected \in {"avx2", "sse2"} \/ "avx512" \in compiled
              /\ Detected \in {"avx2", "sse2", "avx512", "avx512-ifma"}
            BY <2>1, <2>2, TierRuns
        <2>4. Detected \in KnownKinds
            BY <1>3, <2>3 DEF KnownKinds
        <2>5. QED
            BY <1>2, <2>4
    <1>4. ASSUME Detected = "soft", env.arch # "x86_64"
          PROVE  KindFromId(Answer) = Detected
        <2>1. Answer = 3
            BY <1>4 DEF Answer, KindId
        <2>2. \A k \in KnownKinds : k = "neon"
            BY <1>4 DEF KnownKinds
        <2>3. KindId["neon"] = 4
            BY DEF KindId
        <2>4. ~\E k \in KnownKinds : KindId[k] = Answer
            BY <2>1, <2>2, <2>3
        <2>5. QED
            BY <1>4, <2>4 DEF KindFromId
    <1>5. CASE env.arch = "aarch64"
        <2>1. Detected \in {"neon", "soft"}
            BY <1>5 DEF Detected
        <2>2. KnownKinds = {"neon"}
            BY <1>5 DEF KnownKinds
        <2>3. QED
            BY <1>2, <1>4, <1>5, <2>1, <2>2
    <1>6. CASE env.arch \notin {"x86_64", "aarch64"}
        BY <1>4, <1>6 DEF Detected
    <1>7. QED
        BY <1>3, <1>5, <1>6

\* No call enters a backend that is not in the binary or that this CPU
\* cannot run: the SAFETY contract of Kind::seal and Kind::open, for every
\* build, every machine and every race.
THEOREM OnlyRunnableHolds == Spec => []OnlyRunnable
    <1>1. Inv => OnlyRunnable
        <2>1. SUFFICES ASSUME Inv, NEW k \in used
                       PROVE  ModuleOf(k) \in compiled /\ EntryFeatures(k) \subseteq cpu
            BY DEF OnlyRunnable
        <2>2. k = Chosen /\ phase = "run" /\ Binary
            BY <2>1 DEF Inv, Unbuilt
        <2>3. /\ compiled = CompiledBackends /\ ~BuildFails
              /\ env.target \subseteq cpu
              /\ env.arch = "x86_64" \/ cpu = {}
              /\ env \in BuildEnv
            BY <2>2 DEF Binary
        <2>4. CASE Forced
            <3>1. /\ compiled = {ForcedName} /\ k = ForcedKind
                  /\ ForcedName \in Names
                  /\ RequiredFeatures(ForcedName) \subseteq cpu
                BY <2>2, <2>3, <2>4 DEF Chosen, CompiledBackends, BuildFails
            <3>2. CASE ForcedName = "avx512" /\ "avx512ifma" \in env.target
                <4>1. k = "avx512-ifma"
                    BY <3>1, <3>2 DEF ForcedKind
                <4>2. {"avx2", "avx512f", "avx512vl"} \subseteq cpu /\ "avx512ifma" \in cpu
                    BY <2>3, <3>1, <3>2 DEF RequiredFeatures
                <4>3. QED
                    BY <3>1, <3>2, <4>1, <4>2 DEF ModuleOf, EntryFeatures
            <3>3. CASE ~(ForcedName = "avx512" /\ "avx512ifma" \in env.target)
                <4>1. k = ForcedName /\ k # "avx512-ifma"
                    BY <3>1, <3>3 DEF ForcedKind, Names
                <4>2. EntryFeatures(k) \subseteq RequiredFeatures(k)
                    BY <4>1 DEF EntryFeatures, RequiredFeatures
                <4>3. QED
                    BY <3>1, <4>1, <4>2 DEF ModuleOf
            <3>4. QED
                BY <3>2, <3>3
        <2>5. CASE ~Forced
            <3>1. k = Detected
                BY <2>2, <2>5, RoundTrip DEF Chosen
            <3>2. compiled = {b \in Names : FitsArch(b) /\ (b = "avx512" => env.avx512)}
                BY <2>3, <2>5 DEF CompiledBackends
            <3>3. CASE env.arch = "x86_64"
                <4>1. {"avx2", "sse2"} \subseteq compiled
                    BY <3>2, <3>3 DEF Names, FitsArch, RequiredArch
                <4>2. k = X86Tier(IF env.std THEN cpu ELSE env.target)
                    BY <3>1, <3>3 DEF Detected
                <4>3. (IF env.std THEN cpu ELSE env.target) \subseteq cpu
                    BY <2>3
                <4>4. QED
                    BY <4>1, <4>2, <4>3, TierRuns
            <3>4. CASE env.arch # "x86_64"
                <4>1. k = "soft" \/ (k = "neon" /\ env.arch = "aarch64")
                    BY <3>1, <3>4 DEF Detected
                <4>2. "soft" \in compiled /\ (env.arch = "aarch64" => "neon" \in compiled)
                    BY <3>2 DEF Names, FitsArch, RequiredArch
                <4>3. QED
                    BY <4>1, <4>2 DEF ModuleOf, EntryFeatures
            <3>5. QED
                BY <3>3, <3>4
        <2>6. QED
            BY <2>4, <2>5
    <1>2. QED
        BY <1>1, InvHolds, PTL
-----------------------------------------------------------------------------
(* The widest tier.                                                         *)

\* What detect() picks on x86-64 is as wide as anything the binary holds and
\* these features allow, NEON aside, which no x86-64 binary holds.
LEMMA TierWidest ==
    ASSUME NEW features, NEW j \in Kinds, j # "neon",
           ModuleOf(j) \in compiled, EntryFeatures(j) \subseteq features
    PROVE  Width(j) <= Width(X86Tier(features))
    <1>1. j \in {"avx2", "avx512", "soft", "sse2", "avx512-ifma"}
        BY DEF Kinds, KindId
    <1>2. X86Tier(features) \in {"sse2", "avx2", "avx512", "avx512-ifma"}
        BY DEF X86Tier
    <1>3. CASE j = "avx512-ifma"
        <2>1. "avx512" \in compiled /\ {"avx512f", "avx512vl", "avx512ifma", "avx2"} \subseteq features
            BY <1>3 DEF ModuleOf, EntryFeatures
        <2>2. X86Tier(features) = "avx512-ifma"
            BY <2>1 DEF X86Tier
        <2>3. QED
            BY <1>3, <2>2 DEF Width
    <1>4. CASE j = "avx512"
        <2>1. "avx512" \in compiled /\ {"avx512f", "avx512vl", "avx2"} \subseteq features
            BY <1>4 DEF ModuleOf, EntryFeatures
        <2>2. X86Tier(features) \in {"avx512-ifma", "avx512"}
            BY <2>1 DEF X86Tier
        <2>3. QED
            BY <1>4, <2>2 DEF Width
    <1>5. CASE j = "avx2"
        <2>1. "avx2" \in features
            BY <1>5 DEF EntryFeatures
        <2>2. X86Tier(features) \in {"avx512-ifma", "avx512", "avx2"}
            BY <2>1 DEF X86Tier
        <2>3. QED
            BY <1>5, <2>2 DEF Width
    <1>6. CASE j \in {"soft", "sse2"}
        BY <1>2, <1>6 DEF Width
    <1>7. QED
        BY <1>1, <1>3, <1>4, <1>5, <1>6

\* A forced build runs the module it was told to.
LEMMA ForcedRuns ==
    ASSUME Binary, phase = "run", Forced
    PROVE  /\ ModuleOf(Chosen) = ForcedName
           /\ Chosen \in Kinds
    <1>1. ForcedName \in Names /\ Chosen = ForcedKind
        BY DEF Binary, BuildFails, Chosen
    <1>2. CASE ForcedName = "avx512" /\ "avx512ifma" \in env.target
        <2>1. ForcedKind = "avx512-ifma"
            BY <1>2 DEF ForcedKind
        <2>2. QED
            BY <1>1, <1>2, <2>1 DEF ModuleOf, Kinds, KindId
    <1>3. CASE ~(ForcedName = "avx512" /\ "avx512ifma" \in env.target)
        <2>1. ForcedKind = ForcedName
            BY <1>3 DEF ForcedKind
        <2>2. QED
            BY <1>1, <2>1 DEF ModuleOf, Kinds, KindId, Names
    <1>4. QED
        BY <1>2, <1>3

\* An auto build with std runs a tier as wide as any it holds and the CPU has.
LEMMA AutoRunsWidest ==
    ASSUME Binary, phase = "run", ~Forced, env.std, NEW j \in Kinds,
           ModuleOf(j) \in compiled, EntryFeatures(j) \subseteq cpu
    PROVE  Width(j) <= Width(Detected)
    <1>1. /\ compiled = {b \in Names : FitsArch(b) /\ (b = "avx512" => env.avx512)}
          /\ env \in BuildEnv
        BY DEF Binary, CompiledBackends
    <1>2. FitsArch(ModuleOf(j))
        BY <1>1
    <1>3. j \in {"avx2", "avx512", "soft", "neon", "sse2", "avx512-ifma"}
        BY DEF Kinds, KindId
    <1>4. CASE env.arch = "x86_64"
        <2>1. j # "neon"
            BY <1>2, <1>4 DEF FitsArch, RequiredArch, ModuleOf
        <2>2. Detected = X86Tier(cpu)
            BY <1>4 DEF Detected
        <2>3. QED
            BY <2>1, <2>2, TierWidest
    <1>5. CASE env.arch # "x86_64"
        <2>1. j \in {"soft", "neon"}
            BY <1>2, <1>3, <1>5 DEF FitsArch, RequiredArch, ModuleOf
        <2>2. j = "neon" => env.arch = "aarch64"
            BY <1>2 DEF FitsArch, RequiredArch, ModuleOf
        <2>3. Detected = IF env.arch = "aarch64" THEN "neon" ELSE "soft"
            BY <1>5 DEF Detected
        <2>4. QED
            BY <2>1, <2>2, <2>3 DEF Width
    <1>6. QED
        BY <1>4, <1>5

\* A forced build runs what it was told to, and an auto build with std the
\* widest tier that the binary holds and the CPU supports, whichever thread
\* called and whichever thread's probe it read (backend.rs, detect).
THEOREM WidestHolds == Spec => []Widest
    <1>1. Inv => Widest
        <2>1. SUFFICES ASSUME Inv, NEW k \in used
                       PROVE  IF Forced THEN ModuleOf(k) = ForcedName
                              ELSE env.std =>
                                  \A j \in Kinds :
                                      ModuleOf(j) \in compiled /\ EntryFeatures(j) \subseteq cpu
                                          => Width(j) <= Width(k)
            BY DEF Widest
        <2>2. k = Chosen /\ phase = "run" /\ Binary
            BY <2>1 DEF Inv, Unbuilt
        <2>3. CASE Forced
            BY <2>2, <2>3, ForcedRuns
        <2>4. CASE ~Forced
            <3>1. k = Detected
                BY <2>2, <2>4, RoundTrip DEF Chosen
            <3>2. QED
                BY <2>2, <2>4, <3>1, AutoRunsWidest
        <2>5. QED
            BY <2>3, <2>4
    <1>2. QED
        BY <1>1, InvHolds, PTL

-----------------------------------------------------------------------------
(* Types.                                                                   *)

\* What Inv leaves out of TypeOK, and why no call is one too many: a thread
\* that has begun a call has one left.
Types ==
    /\ env \in Builds
    /\ cpu \subseteq Features
    /\ phase \in {"build", "failed", "run"}
    /\ compiled \subseteq Names
    /\ reg \in [Threads -> 0..6]
    /\ calls \in [Threads -> 0..MaxCalls]
    /\ \A t \in Threads : at[t] # "idle" => calls[t] < MaxCalls

\* Finishing a call that was begun, or begun and finished at once.
LEMMA RunOnTypes ==
    ASSUME Inv, Types, NEW t \in Threads, NEW kind, RunOn(t, kind), calls[t] < MaxCalls
    PROVE  /\ calls' \in [Threads -> 0..MaxCalls]
           /\ \A u \in Threads : at'[u] # "idle" => calls'[u] < MaxCalls
    <1>1. /\ calls' = [calls EXCEPT ![t] = calls[t] + 1]
          /\ at' = [at EXCEPT ![t] = "idle"]
          /\ calls \in [Threads -> 0..MaxCalls] /\ at \in [Threads -> Steps]
        BY DEF RunOn, Types, Inv, Registers
    <1>2. calls[t] + 1 \in 0..MaxCalls
        BY <1>1, MaxCallsAssumption
    <1>3. QED
        BY <1>1, <1>2 DEF Types

\* Every step keeps the types.
LEMMA NextTypes ==
    ASSUME Inv, Types, [Next]_vars
    PROVE  Types'
    <1>0. at \in [Threads -> Steps] /\ reg \in [Threads -> 0..6]
        BY DEF Inv, Registers, Types
    <1>1. CASE Build
        <2>1. UNCHANGED <<env, cpu, at, reg, calls>>
            BY <1>1 DEF Build
        <2>2. phase' \in {"build", "failed", "run"} /\ compiled' \subseteq Names
            <3>1. ~BuildFails => CompiledBackends \subseteq Names
                BY DEF BuildFails, CompiledBackends
            <3>2. QED
                BY <1>1, <3>1 DEF Build, Types
        <2>3. QED
            BY <2>1, <2>2 DEF Types
    <1>2. ASSUME NEW t \in Threads, CallForced(t)
          PROVE  Types'
        <2>1. UNCHANGED <<env, cpu, phase, compiled, reg>> /\ calls[t] < MaxCalls
            BY <1>2 DEF CallForced
        <2>2. RunOn(t, ForcedKind)
            BY <1>2 DEF CallForced
        <2>3. QED
            BY <2>1, <2>2, RunOnTypes DEF Types
    <1>3. ASSUME NEW t \in Threads, Load(t)
          PROVE  Types'
        <2>1. UNCHANGED <<env, cpu, phase, compiled, calls>> /\ calls[t] < MaxCalls
            BY <1>3 DEF Load
        <2>2. PICK i \in seen[t]..Len(order) :
                  /\ reg' = [reg EXCEPT ![t] = order[i]]
                  /\ at' = [at EXCEPT ![t] = IF order[i] = 0 THEN "detect" ELSE "call"]
            BY <1>3 DEF Load
        <2>3. order \in Seq(0..6) /\ seen[t] \in 1..Len(order)
            BY DEF Inv, KindOrder, ThreadOK
        <2>4. order[i] \in 0..6
            BY <2>2, <2>3
        <2>5. reg' \in [Threads -> 0..6]
            BY <1>0, <2>2, <2>4
        <2>6. \A u \in Threads : at'[u] # "idle" => calls'[u] < MaxCalls
            BY <1>0, <2>1, <2>2 DEF Types
        <2>7. QED
            BY <2>1, <2>5, <2>6 DEF Types
    <1>4. ASSUME NEW t \in Threads, Detect(t)
          PROVE  Types'
        <2>1. /\ UNCHANGED <<env, cpu, phase, compiled, calls>> /\ at[t] = "detect"
              /\ reg' = [reg EXCEPT ![t] = Answer]
              /\ at' = [at EXCEPT ![t] = "store"]
            BY <1>4 DEF Detect, Answer
        <2>2. Answer \in 0..6
            BY AnswerRange
        <2>3. reg' \in [Threads -> 0..6]
            BY <1>0, <2>1, <2>2
        <2>4. \A u \in Threads : at'[u] # "idle" => calls'[u] < MaxCalls
            BY <1>0, <2>1 DEF Types
        <2>5. QED
            BY <2>1, <2>3, <2>4 DEF Types
    <1>5. ASSUME NEW t \in Threads, Store(t)
          PROVE  Types'
        <2>1. /\ UNCHANGED <<env, cpu, phase, compiled, calls, reg>> /\ at[t] = "store"
              /\ at' = [at EXCEPT ![t] = "call"]
            BY <1>5 DEF Store
        <2>2. \A u \in Threads : at'[u] # "idle" => calls'[u] < MaxCalls
            BY <1>0, <2>1 DEF Types
        <2>3. QED
            BY <2>1, <2>2 DEF Types
    <1>6. ASSUME NEW t \in Threads, Call(t)
          PROVE  Types'
        <2>1. /\ UNCHANGED <<env, cpu, phase, compiled, reg>> /\ at[t] = "call"
              /\ RunOn(t, KindFromId(reg[t]))
            BY <1>6 DEF Call
        <2>2. calls[t] < MaxCalls
            BY <2>1 DEF Types
        <2>3. QED
            BY <2>1, <2>2, RunOnTypes DEF Types
    <1>7. CASE UNCHANGED vars
        BY <1>7 DEF vars, Types
    <1>8. QED
        BY <1>1, <1>2, <1>3, <1>4, <1>5, <1>6, <1>7 DEF Next

\* Every kind a call runs on is one the crate knows.
LEMMA ChosenKnown ==
    ASSUME Binary, phase = "run"
    PROVE  Chosen \in Kinds
    <1>1. CASE Forced
        BY <1>1, ForcedRuns
    <1>2. CASE ~Forced
        <2>1. Detected \in Kinds
            BY DEF Detected, X86Tier, Kinds, KindId
        <2>2. QED
            BY <1>2, <2>1, RoundTrip DEF Chosen
    <1>3. QED
        BY <1>1, <1>2

LEMMA InitTypes == Init => Types
    <1> SUFFICES ASSUME Init PROVE Types
        OBVIOUS
    <1>1. reg \in [Threads -> 0..6] /\ calls \in [Threads -> 0..MaxCalls]
        BY MaxCallsAssumption DEF Init
    <1>2. QED
        BY <1>1 DEF Init, Types

\* Types, for any number of threads, calls and build environments.
THEOREM TypeHolds == Spec => []TypeOK
    <1>1. Init => Types
        BY InitTypes
    <1>2. Inv /\ Types /\ [Next]_vars => Types'
        BY NextTypes
    <1>3. Inv /\ Types => TypeOK
        <2>1. SUFFICES ASSUME Inv, Types
                       PROVE  TypeOK
            OBVIOUS
        <2>2. order \in Seq(0..6) /\ DOMAIN order = 1..Len(order)
            BY <2>1 DEF Inv, KindOrder
        <2>3. seen \in [Threads -> DOMAIN order]
            BY <2>1, <2>2 DEF Inv, Registers, ThreadOK
        <2>4. used \subseteq Kinds
            <3>1. CASE phase = "run"
                BY <2>1, <3>1, ChosenKnown DEF Inv
            <3>2. CASE phase # "run"
                BY <2>1, <3>2 DEF Inv, Unbuilt
            <3>3. QED
                BY <3>1, <3>2
        <2>5. QED
            BY <2>1, <2>2, <2>3, <2>4 DEF TypeOK, Types, Inv, Registers, Steps
    <1>4. QED
        BY <1>1, <1>2, <1>3, InvHolds, PTL DEF Spec
----------------------------------------------------------------------------
(* No call waits: what a thread has done of its calls, in steps of current().*)

Rank(a) == IF a = "detect" THEN 1 ELSE IF a = "store" THEN 2 ELSE IF a = "call" THEN 3 ELSE 0

Turn(t) == 4 * calls[t] + Rank(at[t])

\* A step of thread t: its turn comes on, within the calls it makes, and no
\* other thread is set back or moved.
Advances(t) ==
    /\ Turn(t)' \in (Turn(t) + 1)..(4 * MaxCalls)
    /\ \A u \in Threads \ {t} : Turn(u)' = Turn(u)

\* What a thread does to its own place changes its turn alone.
LEMMA OthersStay ==
    ASSUME NEW t \in Threads, NEW a, NEW c,
           at \in [Threads -> Steps], calls \in [Threads -> 0..MaxCalls],
           at' = [at EXCEPT ![t] = a], calls' = [calls EXCEPT ![t] = c]
    PROVE  Turn(t)' = 4 * c + Rank(a) /\ \A u \in Threads \ {t} : Turn(u)' = Turn(u)
    <1>1. at'[t] = a /\ calls'[t] = c
        OBVIOUS
    <1>2. \A u \in Threads \ {t} : at'[u] = at[u] /\ calls'[u] = calls[u]
        OBVIOUS
    <1>3. QED
        BY <1>1, <1>2 DEF Turn, Rank

\* Every step of the binary brings one thread on by at least one of the four
\* steps a call of current() has, to the end of its calls at most, and leaves
\* the others where they are: a call ends after four steps of its own thread,
\* whatever the others do in between (backend.rs, current()).
THEOREM CallsNeverWait ==
    Spec => [][phase = "run" => \E t \in Threads : Advances(t)]_vars
    <1>1. Inv /\ Types /\ [Next]_vars => [phase = "run" => \E t \in Threads : Advances(t)]_vars
        <2> SUFFICES ASSUME Inv, Types, Next, phase = "run"
                     PROVE  \E t \in Threads : Advances(t)
            OBVIOUS
        <2>1. at \in [Threads -> Steps] /\ calls \in [Threads -> 0..MaxCalls] /\ MaxCalls \in Nat
            BY MaxCallsAssumption DEF Inv, Registers, Types
        <2>2. ASSUME NEW t \in Threads, NEW a \in Steps, NEW c \in 0..MaxCalls,
                     at' = [at EXCEPT ![t] = a], calls' = [calls EXCEPT ![t] = c],
                     4 * c + Rank(a) \in (Turn(t) + 1)..(4 * MaxCalls)
              PROVE  Advances(t)
            BY <2>1, <2>2, OthersStay DEF Advances
        <2>3. ASSUME NEW t \in Threads
              PROVE  calls[t] = calls[t] /\ calls = [calls EXCEPT ![t] = calls[t]]
            BY <2>1
        <2>4. CASE Build
            BY <2>4 DEF Build
        <2>5. CASE \E t \in Threads : CallForced(t)
            <3>1. PICK t \in Threads : CallForced(t)
                BY <2>5
            <3> DEFINE c == calls[t] + 1
            <3>2. /\ at[t] = "idle" /\ calls[t] \in 0..MaxCalls /\ calls[t] < MaxCalls
                  /\ at' = [at EXCEPT ![t] = "idle"] /\ calls' = [calls EXCEPT ![t] = c]
                BY <2>1, <3>1 DEF CallForced, RunOn
            <3>3. c \in 0..MaxCalls /\ 4 * c + Rank("idle") \in (Turn(t) + 1)..(4 * MaxCalls)
                BY <2>1, <3>2 DEF Turn, Rank
            <3>4. "idle" \in Steps
                BY DEF Steps
            <3> HIDE DEF c
            <3>5. Advances(t)
                BY <2>2, <3>2, <3>3, <3>4
            <3>6. QED
                BY <3>5
        <2>6. CASE \E t \in Threads : Load(t)
            <3>1. PICK t \in Threads : Load(t)
                BY <2>6
            <3>2. PICK i \in seen[t]..Len(order) :
                      at' = [at EXCEPT ![t] = IF order[i] = 0 THEN "detect" ELSE "call"]
                BY <3>1 DEF Load
            <3> DEFINE a == IF order[i] = 0 THEN "detect" ELSE "call"
                       c == calls[t]
            <3>3. /\ at[t] = "idle" /\ c \in 0..MaxCalls /\ c < MaxCalls
                  /\ calls' = calls /\ a \in {"detect", "call"}
                BY <2>1, <3>1 DEF Load
            <3>4. calls' = [calls EXCEPT ![t] = c] /\ at' = [at EXCEPT ![t] = a]
                BY <2>3, <3>2, <3>3
            <3> HIDE DEF a
            <3>5. a \in Steps /\ 4 * c + Rank(a) \in (Turn(t) + 1)..(4 * MaxCalls)
                BY <2>1, <3>3 DEF Turn, Rank, Steps
            <3> HIDE DEF c
            <3>6. Advances(t)
                BY <2>2, <3>3, <3>4, <3>5
            <3>7. QED
                BY <3>6
        <2>7. CASE \E t \in Threads : Detect(t)
            <3>1. PICK t \in Threads : Detect(t)
                BY <2>7
            <3> DEFINE c == calls[t]
            <3>2. /\ at[t] = "detect" /\ c \in 0..MaxCalls /\ c < MaxCalls
                  /\ at' = [at EXCEPT ![t] = "store"] /\ calls' = [calls EXCEPT ![t] = c]
                BY <2>1, <2>3, <3>1 DEF Detect, Types
            <3>3. "store" \in Steps /\ 4 * c + Rank("store") \in (Turn(t) + 1)..(4 * MaxCalls)
                BY <2>1, <3>2 DEF Turn, Rank, Steps
            <3> HIDE DEF c
            <3>4. Advances(t)
                BY <2>2, <3>2, <3>3
            <3>5. QED
                BY <3>4
        <2>8. CASE \E t \in Threads : Store(t)
            <3>1. PICK t \in Threads : Store(t)
                BY <2>8
            <3> DEFINE c == calls[t]
            <3>2. /\ at[t] = "store" /\ c \in 0..MaxCalls /\ c < MaxCalls
                  /\ at' = [at EXCEPT ![t] = "call"] /\ calls' = [calls EXCEPT ![t] = c]
                BY <2>1, <2>3, <3>1 DEF Store, Types
            <3>3. "call" \in Steps /\ 4 * c + Rank("call") \in (Turn(t) + 1)..(4 * MaxCalls)
                BY <2>1, <3>2 DEF Turn, Rank, Steps
            <3> HIDE DEF c
            <3>4. Advances(t)
                BY <2>2, <3>2, <3>3
            <3>5. QED
                BY <3>4
        <2>9. CASE \E t \in Threads : Call(t)
            <3>1. PICK t \in Threads : Call(t)
                BY <2>9
            <3> DEFINE c == calls[t] + 1
            <3>2. /\ at[t] = "call" /\ calls[t] \in 0..MaxCalls /\ calls[t] < MaxCalls
                  /\ at' = [at EXCEPT ![t] = "idle"] /\ calls' = [calls EXCEPT ![t] = c]
                BY <2>1, <3>1 DEF Call, RunOn, Types
            <3>3. c \in 0..MaxCalls /\ 4 * c + Rank("idle") \in (Turn(t) + 1)..(4 * MaxCalls)
                BY <2>1, <3>2 DEF Turn, Rank
            <3>4. "idle" \in Steps
                BY DEF Steps
            <3> HIDE DEF c
            <3>5. Advances(t)
                BY <2>2, <3>2, <3>3, <3>4
            <3>6. QED
                BY <3>5
        <2>10. QED
            BY <2>4, <2>5, <2>6, <2>7, <2>8, <2>9 DEF Next
    <1>2. Init => Types
        BY InitTypes
    <1>3. Inv /\ Types /\ [Next]_vars => Types'
        BY NextTypes
    <1>4. QED
        BY <1>1, <1>2, <1>3, InvHolds, PTL DEF Spec
=============================================================================
