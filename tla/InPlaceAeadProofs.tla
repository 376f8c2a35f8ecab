-------------------------- MODULE InPlaceAeadProofs ---------------------------
(***************************************************************************)
(* Proofs about InPlaceAead, for every set of jobs.  The inductive         *)
(* invariant says what the buffer is on either side of the cursor, and     *)
(* how far apart the two cursors may be.                                   *)
(***************************************************************************)
EXTENDS InPlaceAead, SequenceTheorems, TLAPS

\* The buffer is output below the cursor and input above it.
Sides == text = [u \in 0..(job.units - 1) |-> IF u < x THEN "out" ELSE "in"]

\* Sealing, every block the MAC has taken is written; opening, every unit
\* written has been taken; a closed stream has everything written.
Apart ==
    /\ job.seal => \A i \in 1..a : i \in MessageBlocks => UnitOf(i) < x
    /\ ~job.seal => \A u \in 0..(x - 1) : job.aad + u + 1 <= a
    /\ a = Total => x = job.units

Block == [at : Int, side : {"in", "out", "fixed"}]

Inv ==
    /\ job \in Jobs
    /\ x \in 0..job.units
    /\ a \in 0..Total
    /\ hashed \in Seq(Block)
    /\ Sides
    /\ Apart
    /\ OnlyCiphertext

\* The fields of a job.
LEMMA JobTypes ==
    ASSUME job \in Jobs
    PROVE  job.seal \in BOOLEAN /\ job.aad \in Nat /\ job.units \in Nat
    BY JobsAssumption DEF JobRecord

\* The invariant holds of a fresh call.
LEMMA InitInv ==
    ASSUME Init
    PROVE  Inv
    <1>1. job.seal \in BOOLEAN /\ job.aad \in Nat /\ job.units \in Nat
        BY JobTypes DEF Init
    <1>2. Total \in Nat /\ Total > 0
        BY <1>1 DEF Total
    <1>3. x = 0 /\ a = 0 /\ hashed = << >> /\ job \in Jobs
        BY DEF Init
    <1>4. Sides
        BY <1>1 DEF Init, Sides
    <1>5. Apart
        BY <1>1, <1>2, <1>3 DEF Apart
    <1>6. OnlyCiphertext
        BY <1>3 DEF OnlyCiphertext
    <1>7. QED
        BY <1>1, <1>2, <1>3, <1>4, <1>5, <1>6 DEF Inv

\* Positions between two cursors.
LEMMA Between ==
    ASSUME NEW p \in Nat, NEW q \in Nat, p <= q
    PROVE  /\ q - p \in Nat
           /\ p + (q - p) = q
           /\ \A k \in 1..(q - p) : p + k \in (p + 1)..q /\ p + k \in Int
           /\ \A u \in 0..(q - 1) : u >= p => u \in p..(q - 1)
    OBVIOUS

\* What a sequence is after n more elements.
LEMMA Extended ==
    ASSUME NEW S, NEW h \in Seq(S), NEW n \in Nat, NEW f \in [1..n -> S]
    PROVE  /\ h \o f \in Seq(S)
           /\ Len(h \o f) = Len(h) + n
           /\ \A i \in 1..Len(h) : (h \o f)[i] = h[i]
           /\ \A k \in 1..n : (h \o f)[Len(h) + k] = f[k]
    <1>1. f \in Seq(S) /\ Len(f) = n
        OBVIOUS
    <1>2. Len(h) \in Nat
        OBVIOUS
    <1>3. /\ h \o f \in Seq(S)
          /\ Len(h \o f) = Len(h) + Len(f)
          /\ \A i \in 1..(Len(h) + Len(f)) :
                (h \o f)[i] = IF i <= Len(h) THEN h[i] ELSE f[i - Len(h)]
        BY <1>1, ConcatProperties
    <1>4. \A i \in 1..Len(h) : (h \o f)[i] = h[i]
        BY <1>1, <1>2, <1>3
    <1>5. ASSUME NEW k \in 1..n
          PROVE  (h \o f)[Len(h) + k] = f[k]
        <2>1. /\ Len(h) + k \in 1..(Len(h) + Len(f))
              /\ ~(Len(h) + k <= Len(h))
              /\ (Len(h) + k) - Len(h) = k
            BY <1>1, <1>2, <1>5
        <2>2. QED
            BY <1>3, <2>1
    <1>6. QED
        BY <1>1, <1>3, <1>4, <1>5

\* Every step keeps it.
LEMMA StepInv ==
    ASSUME Inv, Step
    PROVE  Inv'
    <1> DEFINE source == IF job.seal THEN text' ELSE text
               taken == [k \in 1..(a' - a) |-> Taken(source, a + k)]
               n == a' - a
    <1> HIDE DEF source, taken, n
    <1>1. job.seal \in BOOLEAN /\ job.aad \in Nat /\ job.units \in Nat /\ job' = job
        BY JobTypes DEF Inv, Step
    <1>2. /\ x \in Nat /\ x' \in Nat /\ x <= x' /\ x' <= job.units
          /\ a \in Nat /\ a' \in Nat /\ a <= a' /\ a' <= Total
          /\ Total \in Nat /\ Total' = Total
        <2>1. x \in 0..job.units /\ a \in 0..Total
            BY DEF Inv
        <2>2. x' \in x..job.units /\ a' \in a..Total
            BY DEF Step
        <2>3. Total \in Nat /\ Total' = Total
            BY <1>1 DEF Total
        <2>4. QED
            BY <1>1, <2>1, <2>2, <2>3
    <1>3. Sides'
        <2>1. /\ text = [u \in 0..(job.units - 1) |-> IF u < x THEN "out" ELSE "in"]
              /\ text' = [u \in DOMAIN text |->
                             IF x <= u /\ u < x' THEN "out" ELSE text[u]]
            BY DEF Inv, Sides, Step
        <2>2. \A u \in 0..(job.units - 1) :
                  text'[u] = IF u < x' THEN "out" ELSE "in"
            BY <1>1, <1>2, <2>1
        <2>3. text' = [u \in 0..(job.units - 1) |-> IF u < x' THEN "out" ELSE "in"]
            BY <2>1, <2>2
        <2>4. QED
            BY <1>1, <2>3 DEF Sides
    <1>4. /\ MessageBlocks' = MessageBlocks
          /\ \A i : UnitOf(i)' = UnitOf(i)
          /\ CiphertextSide' = CiphertextSide
        BY <1>1 DEF MessageBlocks, UnitOf, CiphertextSide
    <1>5. \A i \in (a + 1)..a' :
              /\ i \in MessageBlocks =>
                    IF job.seal THEN UnitOf(i) < x' ELSE x <= UnitOf(i)
              /\ i = Total => x' = job.units
        BY DEF Step
    <1>6. Apart'
        <2>1. ASSUME job.seal, NEW i \in 1..a', i \in MessageBlocks
              PROVE  UnitOf(i) < x'
            <3>1. CASE i <= a
                <4>1. UnitOf(i) < x
                    BY <1>2, <2>1, <3>1 DEF Inv, Apart
                <4>2. UnitOf(i) \in Int
                    BY <1>1 DEF UnitOf
                <4>3. QED
                    BY <1>2, <4>1, <4>2
            <3>2. CASE i > a
                BY <1>2, <1>5, <2>1, <3>2
            <3>3. QED
                BY <1>2, <3>1, <3>2
        <2>2. ASSUME ~job.seal, NEW u \in 0..(x' - 1)
              PROVE  job.aad + u + 1 <= a'
            <3>1. CASE u < x
                <4>1. job.aad + u + 1 <= a
                    BY <1>2, <2>2, <3>1 DEF Inv, Apart
                <4>2. QED
                    BY <1>1, <1>2, <4>1
            <3>2. CASE u >= x
                <4>1. \A v \in x..(x' - 1) : job.aad + v + 1 <= a'
                    BY <2>2 DEF Step
                <4>2. u \in x..(x' - 1)
                    <5>1. x \in Nat /\ x' \in Nat /\ x <= x'
                        BY <1>2
                    <5>2. u \in 0..(x' - 1) /\ u >= x
                        BY <2>2, <3>2
                    <5>3. QED
                        BY <5>1, <5>2, Between
                <4>3. QED
                    BY <4>1, <4>2
            <3>3. QED
                BY <1>2, <3>1, <3>2
        <2>3. ASSUME a' = Total
              PROVE  x' = job.units
            <3>1. CASE a = Total
                BY <1>1, <1>2, <3>1 DEF Inv, Apart
            <3>2. CASE a # Total
                BY <1>2, <1>5, <2>3, <3>2
            <3>3. QED
                BY <3>1, <3>2
        <2>4. QED
            BY <1>1, <1>2, <1>4, <2>1, <2>2, <2>3 DEF Apart
    <1>7. ASSUME NEW i \in (a + 1)..a'
          PROVE  Taken(source, i) =
                     [at |-> i,
                      side |-> IF i \in MessageBlocks THEN CiphertextSide ELSE "fixed"]
        <2>1. CASE i \in MessageBlocks
            <3>1. UnitOf(i) \in 0..(job.units - 1)
                BY <1>1, <2>1 DEF MessageBlocks, UnitOf
            <3>2. CASE job.seal
                <4>1. UnitOf(i) < x'
                    BY <1>5, <1>7, <2>1, <3>2
                <4>2. text'[UnitOf(i)] = "out"
                    BY <1>1, <1>3, <3>1, <4>1 DEF Sides
                <4>3. QED
                    BY <2>1, <3>2, <4>2 DEF Taken, source, CiphertextSide
            <3>3. CASE ~job.seal
                <4>1. ~(UnitOf(i) < x)
                    BY <1>2, <1>5, <1>7, <2>1, <3>1, <3>3
                <4>2. text[UnitOf(i)] = "in"
                    BY <3>1, <4>1 DEF Inv, Sides
                <4>3. QED
                    BY <2>1, <3>3, <4>2 DEF Taken, source, CiphertextSide
            <3>4. QED
                BY <3>2, <3>3
        <2>2. CASE i \notin MessageBlocks
            BY <2>2 DEF Taken
        <2>3. QED
            BY <2>1, <2>2
    <1>8. /\ hashed' = hashed \o taken
          /\ hashed \in Seq(Block) /\ Len(hashed) = a
        BY DEF Inv, Step, OnlyCiphertext, taken, source
    <1>9. n \in Nat /\ a + n = a' /\ \A k \in 1..n : a + k \in (a + 1)..a' /\ a + k \in Int
        <2>1. a \in Nat /\ a' \in Nat /\ a <= a'
            BY <1>2
        <2>2. QED
            BY <2>1, Between DEF n
    <1>10. \A k \in 1..n : taken[k] =
               [at |-> a + k,
                side |-> IF a + k \in MessageBlocks THEN CiphertextSide ELSE "fixed"]
        BY <1>7, <1>9 DEF taken, n
    <1>11. taken \in [1..n -> Block]
        <2>1. CiphertextSide \in {"in", "out"}
            BY DEF CiphertextSide
        <2>2. ASSUME NEW k \in 1..n
              PROVE  taken[k] \in Block
            <3>1. a + k \in Int
                BY <1>9
            <3>2. CASE a + k \in MessageBlocks
                <4>1. taken[k] = [at |-> a + k, side |-> CiphertextSide]
                    BY <1>10, <3>2
                <4>2. QED
                    BY <2>1, <3>1, <4>1 DEF Block
            <3>3. CASE a + k \notin MessageBlocks
                <4>1. taken[k] = [at |-> a + k, side |-> "fixed"]
                    BY <1>10, <3>3
                <4>2. QED
                    BY <3>1, <4>1 DEF Block
            <3>4. QED
                BY <3>2, <3>3
        <2>3. QED
            BY <2>2 DEF taken, n
    <1>12. /\ hashed' \in Seq(Block) /\ Len(hashed') = a'
           /\ \A i \in 1..a : hashed'[i] = hashed[i]
           /\ \A k \in 1..n : hashed'[a + k] = taken[k]
        <2>1. n \in Nat /\ a + n = a'
            BY <1>9
        <2>2. /\ hashed \o taken \in Seq(Block)
              /\ Len(hashed \o taken) = Len(hashed) + n
              /\ \A i \in 1..Len(hashed) : (hashed \o taken)[i] = hashed[i]
              /\ \A k \in 1..n : (hashed \o taken)[Len(hashed) + k] = taken[k]
            <3>1. hashed \in Seq(Block)
                BY <1>8
            <3>2. QED
                BY <1>11, <2>1, <3>1, Extended
        <2>3. QED
            BY <1>8, <2>1, <2>2
    <1>13. OnlyCiphertext'
        <2>0. a \in Nat /\ a' \in Nat /\ a + n = a' /\ n \in Nat
            BY <1>2, <1>9
        <2>1. ASSUME NEW i \in 1..a'
              PROVE  hashed'[i] =
                        [at |-> i,
                         side |-> IF i \in MessageBlocks THEN CiphertextSide ELSE "fixed"]
            <3>1. CASE i \in 1..a
                <4>1. hashed'[i] = hashed[i]
                    BY <1>12, <3>1
                <4>2. QED
                    BY <3>1, <4>1 DEF Inv, OnlyCiphertext
            <3>2. CASE i \notin 1..a
                <4>1. PICK k \in 1..n : i = a + k
                    <5>1. i - a \in 1..n /\ i = a + (i - a)
                        BY <2>0, <2>1, <3>2
                    <5>2. QED
                        BY <5>1
                <4>2. hashed'[i] = taken[k]
                    BY <1>12, <4>1
                <4>3. QED
                    BY <1>10, <4>1, <4>2
            <3>3. QED
                BY <3>1, <3>2
        <2>2. QED
            BY <1>4, <1>12, <2>1 DEF OnlyCiphertext
    <1>14. QED
        BY <1>1, <1>2, <1>3, <1>6, <1>12, <1>13 DEF Inv, Step

\* A stutter keeps the invariant.
LEMMA StutterInv ==
    ASSUME Inv, UNCHANGED vars
    PROVE  Inv'
    BY DEF Inv, vars, Sides, Apart, OnlyCiphertext, Total, MessageBlocks, UnitOf,
           CiphertextSide

\* The cursors and the buffer stay in step throughout a call (aead.rs, process).
THEOREM InvHolds == Spec => []Inv
    <1>1. Inv /\ [Step]_vars => Inv'
        BY StepInv, StutterInv
    <1>2. QED
        BY <1>1, InitInv, PTL DEF Spec

\* The MAC of every call takes ciphertext only and in the order of the
\* stream, whatever the steps the two cursors move by (aead.rs, process).
THEOREM CiphertextOnly == Spec => []OnlyCiphertext
    <1>1. Inv => OnlyCiphertext
        BY DEF Inv
    <1>2. QED
        BY <1>1, InvHolds, PTL

\* A closed stream means a finished buffer (aead.rs, process).
THEOREM NoneLeft == Spec => []NothingLeft
    <1>1. Inv => NothingLeft
        <2>1. SUFFICES ASSUME Inv, a = Total, NEW u \in DOMAIN text
                       PROVE  text[u] = "out"
            BY DEF NothingLeft
        <2>2. x = job.units /\ job.units \in Nat
            BY <2>1, JobTypes DEF Inv, Apart
        <2>3. QED
            BY <2>1, <2>2 DEF Inv, Sides
    <1>2. QED
        BY <1>1, InvHolds, PTL
=============================================================================
