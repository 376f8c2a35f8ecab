----------------------------- MODULE PolyLanes -------------------------------
(***************************************************************************)
(* The Poly1305 backends (`Backend` of src/src/poly1305/mod.rs): scalar    *)
(* "soft", "avx2" and "neon" with 4 accumulator lanes, "ifma" with 8.      *)
(*                                                                         *)
(* A vectorised backend does not follow Horner's rule.  It defers blocks   *)
(* in a cache, deals them out to lanes that advance by r^4 or r^8, and     *)
(* only at the end weighs each lane with the power that its blocks lack    *)
(* and folds what the cache still holds.  Whatever mixture of absorbing    *)
(* calls the engine makes, every block must end with the exponent the RFC  *)
(* gives it.                                                               *)
(*                                                                         *)
(* Blocks are numbered 1, 2, ... in the order they are absorbed; values    *)
(* are those of PolyValues.  A window is 64 bytes, four blocks.            *)
(***************************************************************************)
EXTENDS PolyValues, Sequences, PolyCache

CONSTANTS
    Backends,    \* backends to explore
    MaxBlocks,   \* bound: blocks of one stream
    MaxWindows   \* bound: windows of one absorb_blocks call

ASSUME BackendsAssumption == Backends \subseteq {"soft", "avx2", "neon", "ifma"}

ASSUME BoundsAssumption == MaxBlocks \in Nat /\ MaxWindows \in Nat

VARIABLES
    backend,  \* which backend this is
    pc,       \* "stream", in a bulk run "bulk", folding the cache "fold", "done"
    n,        \* blocks absorbed
    cached,   \* the deferred blocks, cached[..num_cached]
    lanes,    \* the lane accumulators: P, h, H
    live,     \* initialized.is_some(), lanes.is_some(), has_h
    regs,     \* the accumulators a bulk run holds in registers
    left,     \* windows left of a bulk run
    acc,      \* the value finalize_into folds into
    owed,     \* factors r that finalize_into multiplies in at its end
    tag       \* the value the tag is made of

vars == <<backend, pc, n, cached, lanes, live, regs, left, acc, owed, tag>>

\* The model of the cache that the engine is checked with.
PolyKind ==
    CASE backend = "soft" -> "soft" [] backend = "ifma" -> "pair" [] OTHER -> "drain"

LaneCount == CASE backend = "soft" -> 1 [] backend = "ifma" -> 8 [] OTHER -> 4

Lanes == 0..(LaneCount - 1)

Empty == [l \in Lanes |-> Zero]

\* The next k blocks of the stream.
Fresh(k) == [i \in 1..k |-> n + i]

----------------------------------------------------------------------------
(* Lane arithmetic: folding a group g of LaneCount blocks into lanes v.     *)

\* Avx2Poly::advance: P := R^4 * P + blocks; the first group is only loaded.
Avx2Advance(v, on, g) ==
    [l \in 0..3 |-> IF on THEN Plus(Times(v[l], 4), Block(g[l + 1])) ELSE Block(g[l + 1])]

\* neon step: h := h * r^4 + blocks, from a zero h.
NeonStep(v, g) == [l \in 0..3 |-> Plus(Times(v[l], 4), Block(g[l + 1]))]

\* LANE_POS: the position in its group of the block that load8's transpose
\* puts in lane l.
LanePos == [l \in 0..7 |-> IF l % 2 = 0 THEN l \div 2 ELSE 4 + l \div 2]

Load8(g) == [l \in 0..7 |-> Block(g[LanePos[l] + 1])]

\* One round on a live stream: H := H * r^8 + T.
IfmaRound(v, g) == [l \in 0..7 |-> Plus(Times(v[l], 8), Load8(g)[l])]

\* process8: the round, or only the load of the first group.
Process8(v, on, g) == IF on THEN IfmaRound(v, g) ELSE Load8(g)

\* One group into the lanes, as the backend does it.
Folded(v, on, g) ==
    CASE backend = "avx2" -> Avx2Advance(v, on, g)
      [] backend = "neon" -> NeonStep(v, g)
      [] OTHER -> Process8(v, on, g)

Groups(s) == Len(s) \div LaneCount

Group(s, i) == SubSeq(s, (i - 1) * LaneCount + 1, i * LaneCount)

\* The whole groups of s folded in order (s is at most a full cache, so at
\* most two groups of four).
FoldedAll(v, on, s) ==
    CASE Groups(s) = 0 -> v
      [] Groups(s) = 1 -> Folded(v, on, Group(s, 1))
      [] OTHER -> Folded(Folded(v, on, Group(s, 1)), TRUE, Group(s, 2))

----------------------------------------------------------------------------
(* Lane weights at the end of the stream.                                   *)

\* SpacedMultiplier4x130: (x3, x2, x1, x0) to (x3 R^4, x2 R^3, x1 R^2, x0 R),
\* x3 being the oldest block of a group.
Avx2Weight == [l \in 0..3 |-> 4 - l]

\* t := lane 0, then three times t := t * r + the next lane; a last factor r
\* follows after the blocks of the cache.
NeonWeight == [l \in 0..3 |-> 3 - l]

\* Mutant: the powers r^8 down to r^1 in lane order.
IfmaWeightInOrder == [l \in 0..7 |-> 8 - l]

\* The columns that build_lanes puts, r^(8 - LANE_POS[l]) for lane l.
IfmaWeight ==
    [l \in 0..7 |-> CASE l = 0 -> 8 [] l = 1 -> 4 [] l = 2 -> 7 [] l = 3 -> 3
                      [] l = 4 -> 6 [] l = 5 -> 2 [] l = 6 -> 5 [] l = 7 -> 1]

Weight(l) ==
    CASE backend = "soft" -> 0
      [] backend = "avx2" -> Avx2Weight[l]
      [] backend = "neon" -> NeonWeight[l]
      [] OTHER -> IfmaWeight[l]

Collapsed(v) == Sum([l \in Lanes |-> Times(v[l], Weight(l))])

----------------------------------------------------------------------------
Init ==
    /\ backend \in Backends
    /\ pc = "stream"
    /\ n = 0
    /\ cached = << >>
    /\ lanes = Empty
    /\ live = FALSE
    /\ regs = Empty
    /\ left = 0
    /\ acc = Zero
    /\ owed = 0
    /\ tag = Zero

\* The scalar backend: h := (h + m) * r for every block (absorb4 and
\* absorb_blocks are loops of this).
SoftAbsorbBlock ==
    /\ pc = "stream"
    /\ backend = "soft"
    /\ n < MaxBlocks
    /\ n' = n + 1
    /\ lanes' = [l \in Lanes |-> Times(Plus(lanes[l], Block(n + 1)), 1)]
    /\ UNCHANGED <<backend, pc, cached, live, regs, left, acc, owed, tag>>

\* Mutant: the cache is never drained.
AbsorbBlockParking ==
    /\ pc = "stream"
    /\ backend # "soft"
    /\ n < MaxBlocks
    /\ n' = n + 1
    /\ cached' = cached \o Fresh(1)
    /\ UNCHANGED <<backend, pc, lanes, live, regs, left, acc, owed, tag>>

\* absorb_block: a full cache is folded into the lanes, then the block parks.
AbsorbBlock ==
    /\ pc = "stream"
    /\ backend # "soft"
    /\ n < MaxBlocks
    /\ n' = n + 1
    /\ IF Len(cached) = CacheSize
       THEN /\ lanes' = FoldedAll(lanes, live, cached)
            /\ live' = TRUE
            /\ cached' = Fresh(1)
       ELSE /\ cached' = cached \o Fresh(1)
            /\ UNCHANGED <<lanes, live>>
    /\ UNCHANGED <<backend, pc, regs, left, acc, owed, tag>>

\* A window may follow: it starts on a 64-byte boundary of the stream
\* (FusedEngine!ContractsKept), and the bound leaves room for it.
WindowFits == Len(cached) % 4 = 0 /\ n + 4 <= MaxBlocks

\* Mutant: the window overtakes the blocks in the cache.
DrainAbsorb4Overtaking ==
    /\ pc = "stream"
    /\ backend \in {"avx2", "neon"}
    /\ WindowFits
    /\ n' = n + 4
    /\ lanes' = FoldedAll(Folded(lanes, live, Fresh(4)), TRUE, cached)
    /\ live' = TRUE
    /\ cached' = << >>
    /\ UNCHANGED <<backend, pc, regs, left, acc, owed, tag>>

\* absorb4 of avx2 and neon: the cache is drained, then the window folded.
DrainAbsorb4 ==
    /\ pc = "stream"
    /\ backend \in {"avx2", "neon"}
    /\ WindowFits
    /\ n' = n + 4
    /\ lanes' = Folded(FoldedAll(lanes, live, cached),
                       live \/ Len(cached) > 0, Fresh(4))
    /\ live' = TRUE
    /\ cached' = << >>
    /\ UNCHANGED <<backend, pc, regs, left, acc, owed, tag>>

\* Mutant: the window joins a cached half group and both wait.
IfmaAbsorb4Waiting ==
    /\ pc = "stream"
    /\ backend = "ifma"
    /\ WindowFits
    /\ n' = n + 4
    /\ IF Len(cached) = CacheSize
       THEN /\ lanes' = Process8(lanes, live, cached)
            /\ live' = TRUE
            /\ cached' = Fresh(4)
       ELSE /\ cached' = cached \o Fresh(4)
            /\ UNCHANGED <<lanes, live>>
    /\ UNCHANGED <<backend, pc, regs, left, acc, owed, tag>>

\* absorb4 of ifma: a cached half group is fused with the window; otherwise
\* the window waits in the cache, after a full one is processed.
IfmaAbsorb4 ==
    /\ pc = "stream"
    /\ backend = "ifma"
    /\ WindowFits
    /\ n' = n + 4
    /\ IF Len(cached) = 4
       THEN /\ lanes' = Process8(lanes, live, cached \o Fresh(4))
            /\ live' = TRUE
            /\ cached' = << >>
       ELSE /\ lanes' = FoldedAll(lanes, live, cached)
            /\ live' = (live \/ Len(cached) = CacheSize)
            /\ cached' = Fresh(4)
    /\ UNCHANGED <<backend, pc, regs, left, acc, owed, tag>>

\* absorb_blocks_bulk, entry, with w windows: a full cache is processed, a
\* half group is fused with the first window, and if a group is left the
\* accumulators go into registers -- on a fresh stream by loading the first
\* group, with no round.
BulkEnter(w) ==
    /\ pc = "stream"
    /\ backend = "ifma"
    /\ Len(cached) % 4 = 0
    /\ n + 4 * w <= MaxBlocks
    /\ LET fuse == Len(cached) = 4 /\ w > 0
           v    == IF fuse THEN Process8(lanes, live, cached \o Fresh(4))
                   ELSE FoldedAll(lanes, live, cached)
           on   == live \/ fuse \/ Len(cached) = CacheSize
           rest == IF fuse THEN w - 1 ELSE w
           load == rest >= 2 /\ ~on
       IN  /\ lanes' = v
           /\ cached' = IF Len(cached) = 4 /\ ~fuse THEN cached ELSE << >>
           /\ live' = (on \/ load)
           /\ regs' = IF load THEN Load8(Fresh(8)) ELSE v
           /\ n' = n + (IF fuse THEN 4 ELSE 0) + (IF load THEN 8 ELSE 0)
           /\ left' = IF load THEN rest - 2 ELSE rest
    /\ pc' = "bulk"
    /\ UNCHANGED <<backend, acc, owed, tag>>

\* One round in registers.
BulkRound ==
    /\ pc = "bulk"
    /\ left >= 2
    /\ regs' = IfmaRound(regs, Fresh(8))
    /\ n' = n + 8
    /\ left' = left - 2
    /\ UNCHANGED <<backend, pc, cached, lanes, live, acc, owed, tag>>

\* Mutant: the registers are written back only after a round, so a group
\* that was only loaded is lost.
BulkLeaveForgetting ==
    /\ pc = "bulk"
    /\ left < 2
    /\ lanes' = IF \E l \in Lanes : \E p \in regs[l] : p[2] > 0
                THEN regs ELSE lanes
    /\ n' = n + 4 * left
    /\ cached' = IF left = 1 THEN Fresh(4) ELSE cached
    /\ left' = 0
    /\ regs' = Empty
    /\ pc' = "stream"
    /\ UNCHANGED <<backend, live, acc, owed, tag>>

\* absorb_blocks_bulk, exit: write the registers back, cache a lone window.
BulkLeave ==
    /\ pc = "bulk"
    /\ left < 2
    /\ lanes' = regs
    /\ n' = n + 4 * left
    /\ cached' = IF left = 1 THEN Fresh(4) ELSE cached
    /\ left' = 0
    /\ regs' = Empty
    /\ pc' = "stream"
    /\ UNCHANGED <<backend, live, acc, owed, tag>>

\* A fused ChaCha20 kernel folds a group straight from the message
\* (FusedEngine!SealBulk and the others, over an empty cache): ensure_stream,
\* then a round that multiplies a zero H on a fresh stream.
FusedRound ==
    /\ pc = "stream"
    /\ backend = "ifma"
    /\ cached = << >>
    /\ n + 8 <= MaxBlocks
    /\ n' = n + 8
    /\ lanes' = IfmaRound(IF live THEN lanes ELSE Empty, Fresh(8))
    /\ live' = TRUE
    /\ UNCHANGED <<backend, pc, cached, regs, left, acc, owed, tag>>

----------------------------------------------------------------------------
(* finalize_into.                                                           *)

SoftFinalize ==
    /\ pc = "stream"
    /\ backend = "soft"
    /\ tag' = lanes[0]
    /\ pc' = "done"
    /\ UNCHANGED <<backend, n, cached, lanes, live, regs, left, acc, owed>>

\* avx2 and ifma: the weighted lanes, if there are any.
FinalizeLanes ==
    /\ pc = "stream"
    /\ backend \in {"avx2", "ifma"}
    /\ acc' = IF live THEN Collapsed(lanes) ELSE Zero
    /\ live' = FALSE
    /\ pc' = "fold"
    /\ UNCHANGED <<backend, n, cached, lanes, regs, left, owed, tag>>

\* neon: whole groups of the cache go through the lanes if these exist; what
\* is left folds behind them with the last factor r still owed.
NeonFinalizeLanes ==
    /\ pc = "stream"
    /\ backend = "neon"
    /\ IF live
       THEN /\ acc' = Collapsed(FoldedAll(lanes, TRUE, cached))
            /\ cached' = SubSeq(cached, 4 * Groups(cached) + 1, Len(cached))
            /\ owed' = 1
       ELSE /\ acc' = Zero
            /\ UNCHANGED <<cached, owed>>
    /\ live' = FALSE
    /\ pc' = "fold"
    /\ UNCHANGED <<backend, n, lanes, regs, left, tag>>

\* avx2: p := (p + B0) * r^2 + B1 * r, and the rest of the cache moves down.
FoldPair ==
    /\ pc = "fold"
    /\ backend = "avx2"
    /\ Len(cached) >= 2
    /\ acc' = Plus(Times(Plus(acc, Block(cached[1])), 2), Times(Block(cached[2]), 1))
    /\ cached' = SubSeq(cached, 3, Len(cached))
    /\ UNCHANGED <<backend, pc, n, lanes, live, regs, left, owed, tag>>

\* One block: (t + m) * r; on the neon lanes path t * r + m.
FoldBlock ==
    /\ pc = "fold"
    /\ cached # << >>
    /\ backend = "avx2" => Len(cached) = 1
    /\ acc' = IF owed = 1 THEN Plus(Times(acc, 1), Block(cached[1]))
              ELSE Times(Plus(acc, Block(cached[1])), 1)
    /\ cached' = Tail(cached)
    /\ UNCHANGED <<backend, pc, n, lanes, live, regs, left, owed, tag>>

\* The cache is empty: multiply in what is owed.
EmitTag ==
    /\ pc = "fold"
    /\ cached = << >>
    /\ tag' = Times(acc, owed)
    /\ owed' = 0
    /\ pc' = "done"
    /\ UNCHANGED <<backend, n, cached, lanes, live, regs, left, acc>>

Next ==
    \/ SoftAbsorbBlock
    \/ AbsorbBlock
    \/ DrainAbsorb4
    \/ IfmaAbsorb4
    \/ \E w \in 0..MaxWindows : BulkEnter(w)
    \/ BulkRound
    \/ BulkLeave
    \/ FusedRound
    \/ SoftFinalize
    \/ FinalizeLanes
    \/ NeonFinalizeLanes
    \/ FoldPair
    \/ FoldBlock
    \/ EmitTag

Spec == Init /\ [][Next]_vars

----------------------------------------------------------------------------
(* Properties.                                                              *)

IsValue(v) == v \subseteq (1..MaxBlocks) \X (0..MaxBlocks)

TypeOK ==
    /\ backend \in Backends
    /\ pc \in {"stream", "bulk", "fold", "done"}
    /\ n \in 0..MaxBlocks
    /\ Len(cached) \in 0..CacheSize
    /\ \A i \in DOMAIN cached : cached[i] \in 1..n
    /\ live \in BOOLEAN
    /\ left \in 0..MaxWindows
    /\ owed \in {0, 1}
    /\ \A l \in Lanes : IsValue(lanes[l]) /\ IsValue(regs[l])
    /\ IsValue(acc) /\ IsValue(tag)

\* The tag is the evaluation of all the blocks by Horner's rule: each block
\* exactly once, with the exponent the RFC gives it, whatever calls brought it
\* and wherever it was when the stream ended (Backend::finalize_into).
TagIsHorner == pc = "done" => tag = Evaluated(n)

\* The cache holds the newest blocks, in order; the lanes hold the others,
\* each lane those of the place in a group that its weight makes up for, the
\* newest group bare and each older one a factor r^LaneCount higher
\* (Avx2Poly::drain_cache, neon step, ifma process8 and build_lanes).
Streamed == n - Len(cached)

Position(l) == LaneCount - Weight(l) - (IF backend = "neon" THEN 1 ELSE 0)

Dealt(l) ==
    {<<b, Streamed - LaneCount + 1 + Position(l) - b>> :
        b \in {x \in 1..Streamed : (x - 1) % LaneCount = Position(l)}}

CacheIsNewest == cached = [i \in 1..Len(cached) |-> Streamed + i]

LanesDealt ==
    /\ pc \in {"stream", "bulk"} /\ backend # "soft" =>
           /\ Streamed % LaneCount = 0
           /\ live = (Streamed > 0)
           /\ \A l \in Lanes : (IF pc = "bulk" THEN regs ELSE lanes)[l] = Dealt(l)
    /\ CacheIsNewest

\* The counts that FusedEngine and PolyCache reason with are those of the
\* backends: every absorbing call leaves as many blocks deferred as they say.
CountsAgree ==
    [][/\ AbsorbBlock \/ SoftAbsorbBlock =>
              Len(cached') = AfterBlock(PolyKind, Len(cached))
       /\ DrainAbsorb4 \/ IfmaAbsorb4 =>
              Len(cached') = AfterAbsorb4(PolyKind, Len(cached))
       /\ \A w \in 0..MaxWindows : BulkEnter(w) =>
              (IF left' % 2 = 1 THEN 4 ELSE Len(cached'))
                  = AfterAbsorbBlocks(PolyKind, Len(cached), w)]_vars

\* What the stream would hash to if it ended now.
WithCache(v) ==
    Plus(Times(v, Len(cached)),
         {<<cached[i], Len(cached) + 1 - i>> : i \in DOMAIN cached})

Outcome ==
    CASE pc = "stream" -> WithCache(Times(Collapsed(lanes), IF backend = "neon" THEN 1 ELSE 0))
      [] pc = "bulk"   -> WithCache(Collapsed(regs))
      [] pc = "fold"   -> WithCache(Times(acc, owed))
      [] OTHER         -> tag

Abstract ==
    INSTANCE Horner WITH
        MaxTaken <- 4 * MaxWindows + 8,
        taken <- n, value <- Outcome, open <- (pc # "done")

\* Every backend implements the evaluation by Horner's rule: each call takes
\* its blocks, finalize_into makes the tag of all of them.
ImplementsHorner == Abstract!HSpec
=============================================================================
