------------------------------- MODULE Horner --------------------------------
(***************************************************************************)
(* What every Poly1305 backend promises: RFC 8439 evaluates the blocks of  *)
(* the stream by Horner's rule, a := (a + block) * r, and makes one tag.   *)
(***************************************************************************)
EXTENDS PolyValues

CONSTANT MaxTaken   \* most blocks one step takes

VARIABLES
    taken,   \* blocks taken so far
    value,   \* their evaluation
    open     \* whether the tag is still to be made

hvars == <<taken, value, open>>

HInit == taken = 0 /\ value = Zero /\ open = TRUE

\* k blocks: each step adds a block and multiplies by r, so that the blocks
\* already there gain a factor r per block.
Take(k) ==
    /\ open
    /\ taken' = taken + k
    /\ value' = Plus(Times(value, k), {<<b, taken + k + 1 - b>> : b \in (taken + 1)..(taken + k)})
    /\ UNCHANGED open

\* The tag: the evaluation itself, once.
Close ==
    /\ open
    /\ open' = FALSE
    /\ UNCHANGED <<taken, value>>

HNext == (\E k \in 1..MaxTaken : Take(k)) \/ Close

HSpec == HInit /\ [][HNext]_hvars
=============================================================================
