------------------------------ MODULE InPlaceAead -----------------------------
(***************************************************************************)
(* What a fused call promises, without backends, windows, caches or        *)
(* counters: one buffer is carried from its input side to its output side  *)
(* by a cursor that only moves forward, and a MAC takes the stream of RFC  *)
(* 8439 (AAD, ciphertext, lengths) block by block, each ciphertext block   *)
(* from the buffer on the side where it is ciphertext.  FusedEngine is     *)
(* shown to implement it.                                                  *)
(***************************************************************************)
EXTENDS Integers, Sequences

CONSTANT Jobs    \* calls: direction, blocks of AAD, units of message

JobRecord == [seal: BOOLEAN, aad: Nat, units: Nat]

ASSUME JobsAssumption == Jobs \subseteq JobRecord

VARIABLES
    job,
    x,       \* units below x hold the output
    a,       \* blocks of the stream the MAC has taken
    text,    \* per unit, "in" or "out"
    hashed   \* the blocks as the MAC found them

vars == <<job, x, a, text, hashed>>

\* Blocks of the whole stream.
Total == job.aad + job.units + 1

\* The message unit block i of the stream covers, for i in MessageBlocks.
MessageBlocks == (job.aad + 1)..(job.aad + job.units)
UnitOf(i) == i - job.aad - 1

\* Block i as the MAC finds it in buffer t.
Taken(t, i) ==
    [at |-> i, side |-> IF i \in MessageBlocks THEN t[UnitOf(i)] ELSE "fixed"]

\* The side of the buffer that is ciphertext.
CiphertextSide == IF job.seal THEN "out" ELSE "in"

Init ==
    /\ job \in Jobs
    /\ x = 0
    /\ a = 0
    /\ text = [u \in 0..(job.units - 1) |-> "in"]
    /\ hashed = << >>

\* Mutant: the MAC reads a store that is still in flight, as it was before.
StepInFlight ==
    /\ x' \in x..job.units
    /\ a' \in a..Total
    /\ \A i \in (a + 1)..a' :
          /\ i \in MessageBlocks =>
                IF job.seal THEN UnitOf(i) < x' ELSE x <= UnitOf(i)
          /\ i = Total => x' = job.units
    /\ ~job.seal => \A u \in x..(x' - 1) : job.aad + u + 1 <= a'
    /\ text' = [u \in DOMAIN text |-> IF x <= u /\ u < x' THEN "out" ELSE text[u]]
    /\ hashed' = hashed \o [k \in 1..(a' - a) |-> Taken(text, a + k)]
    /\ UNCHANGED job

\* Mutant: the lengths block may come before the rest of the message is written.
StepClosesEarly ==
    /\ x' \in x..job.units
    /\ a' \in a..Total
    /\ \A i \in (a + 1)..a' :
          /\ i \in MessageBlocks =>
                IF job.seal THEN UnitOf(i) < x' ELSE x <= UnitOf(i)
    /\ ~job.seal => \A u \in x..(x' - 1) : job.aad + u + 1 <= a'
    /\ text' = [u \in DOMAIN text |-> IF x <= u /\ u < x' THEN "out" ELSE text[u]]
    /\ hashed' = hashed \o
         [k \in 1..(a' - a) |-> Taken(IF job.seal THEN text' ELSE text, a + k)]
    /\ UNCHANGED job

\* Both cursors move on.  A sealing MAC stays behind the cipher and reads
\* what it has written; an opening one reads what it has yet to overwrite.
\* The lengths block ends the stream once the message is through.
Step ==
    /\ x' \in x..job.units
    /\ a' \in a..Total
    /\ \A i \in (a + 1)..a' :
          /\ i \in MessageBlocks =>
                IF job.seal THEN UnitOf(i) < x' ELSE x <= UnitOf(i)
          /\ i = Total => x' = job.units
    /\ ~job.seal => \A u \in x..(x' - 1) : job.aad + u + 1 <= a'
    /\ text' = [u \in DOMAIN text |-> IF x <= u /\ u < x' THEN "out" ELSE text[u]]
    /\ hashed' = hashed \o
         [k \in 1..(a' - a) |-> Taken(IF job.seal THEN text' ELSE text, a + k)]
    /\ UNCHANGED job

Spec == Init /\ [][Step]_vars

\* Every block the MAC has taken was ciphertext when it was taken, and the
\* blocks came in the order of the stream: the tag authenticates exactly what
\* the other side will see (aead.rs, "MAC eats the produced ciphertext" and
\* "MAC eats the received ciphertext").
OnlyCiphertext ==
    /\ Len(hashed) = a
    /\ \A i \in 1..a :
          hashed[i] = [at |-> i,
                       side |-> IF i \in MessageBlocks THEN CiphertextSide ELSE "fixed"]

\* A stream that is complete leaves no unit of the buffer behind.
NothingLeft == a = Total => \A u \in DOMAIN text : text[u] = "out"
=============================================================================
