---------------------------- MODULE PolyLanesProofs --------------------------
(***************************************************************************)
(* Proofs about PolyLanes, for streams and windows of any length.  The     *)
(* argument: every value a backend holds is a set of blocks whose          *)
(* exponents go down by one per block, so it is given by the blocks and    *)
(* one number.  The lanes hold the blocks of their place in a group, the   *)
(* weights add what the places lack, and so the lanes and the cache        *)
(* together are at all times the evaluation of the stream so far.          *)
(***************************************************************************)
EXTENDS PolyLanes, SequenceTheorems, TLAPS

(* Values of consecutive exponents.                                         *)

\* The blocks of S, block b with exponent c - b.
Terms(S, c) == {<<b, c - b>> : b \in S}

\* A factor r^k, on a value without doubled terms.
LEMMA TimesTerms ==
    ASSUME NEW S \in SUBSET Int, NEW c \in Int, NEW k \in Int, \A b \in S : b <= c
    PROVE  Times(Terms(S, c), k) = Terms(S, c + k)
    <1>1. ASSUME NEW b \in S
          PROVE  /\ <<b, c - b>>[1] = b
                 /\ (IF <<b, c - b>>[2] = Twice THEN Twice ELSE <<b, c - b>>[2] + k) = (c + k) - b
        BY DEF Twice
    <1>2. ASSUME NEW p \in Terms(S, c)
          PROVE  <<p[1], IF p[2] = Twice THEN Twice ELSE p[2] + k>> \in Terms(S, c + k)
        <2>1. PICK b \in S : p = <<b, c - b>>
            BY DEF Terms
        <2>2. QED
            BY <1>1, <2>1 DEF Terms
    <1>3. ASSUME NEW b \in S
          PROVE  \E p \in Terms(S, c) :
                     <<b, (c + k) - b>> = <<p[1], IF p[2] = Twice THEN Twice ELSE p[2] + k>>
        <2>1. <<b, c - b>> \in Terms(S, c)
            BY DEF Terms
        <2>2. QED
            BY <1>1, <2>1
    <1>4. Terms(S, c + k) \subseteq Times(Terms(S, c), k)
        BY <1>3 DEF Terms, Times
    <1>5. Times(Terms(S, c), k) \subseteq Terms(S, c + k)
        BY <1>2 DEF Times
    <1>6. QED
        BY <1>4, <1>5

\* Values of different blocks have no term in common.
LEMMA TermsApart ==
    ASSUME NEW S, NEW T, NEW c, NEW d, S \cap T = {}
    PROVE  Terms(S, c) \cap Terms(T, d) = {}
    BY DEF Terms

\* Adding other blocks doubles nothing.
LEMMA PlusTerms ==
    ASSUME NEW S, NEW T, NEW c, S \cap T = {}
    PROVE  Plus(Terms(S, c), Terms(T, c)) = Terms(S \cup T, c)
    <1>1. Terms(S, c) \cap Terms(T, c) = {}
        BY TermsApart
    <1>2. Doubled(Terms(S, c) \cap Terms(T, c)) = {}
        BY <1>1 DEF Doubled
    <1>3. Terms(S, c) \cup Terms(T, c) = Terms(S \cup T, c)
        BY DEF Terms
    <1>4. QED
        BY <1>2, <1>3 DEF Plus

\* One block on its own.
LEMMA BlockTerms ==
    ASSUME NEW b \in Int
    PROVE  Block(b) = Terms({b}, b)
    BY DEF Block, Terms

\* A sum of parts of one stream is the value of all their blocks.
LEMMA SumTerms ==
    ASSUME NEW D, NEW B, NEW c,
           \A l \in D : \A k \in D : l # k => B[l] \cap B[k] = {}
    PROVE  Sum([l \in D |-> Terms(B[l], c)]) = Terms(UNION {B[l] : l \in D}, c)
    <1> DEFINE vs == [l \in D |-> Terms(B[l], c)]
               pairs == {q \in (DOMAIN vs) \X (DOMAIN vs) : q[1] # q[2]}
               shared == UNION {vs[q[1]] \cap vs[q[2]] : q \in pairs}
    <1>1. ASSUME NEW q \in pairs
          PROVE  vs[q[1]] \cap vs[q[2]] = {}
        <2>1. q[1] \in D /\ q[2] \in D /\ q[1] # q[2]
            OBVIOUS
        <2>2. vs[q[1]] = Terms(B[q[1]], c) /\ vs[q[2]] = Terms(B[q[2]], c)
            BY <2>1
        <2>3. B[q[1]] \cap B[q[2]] = {}
            BY <2>1
        <2>4. QED
            BY <2>2, <2>3, TermsApart
    <1>2. shared = {}
        <2>1. ASSUME NEW x \in shared
              PROVE  FALSE
            <3>1. PICK q \in pairs : x \in vs[q[1]] \cap vs[q[2]]
                OBVIOUS
            <3>2. QED
                BY <1>1, <3>1
        <2>2. QED
            BY <2>1
    <1>3. Doubled(shared) = {}
        BY <1>2 DEF Doubled
    <1>4. UNION {vs[l] : l \in DOMAIN vs} = Terms(UNION {B[l] : l \in D}, c)
        BY DEF Terms
    <1>5. Sum(vs) = (UNION {vs[l] : l \in DOMAIN vs}) \cup Doubled(shared)
        BY DEF Sum
    <1>6. QED
        BY <1>3, <1>4, <1>5

\* The evaluation by Horner's rule, and what k more blocks make of it.
LEMMA EvaluatedTerms ==
    ASSUME NEW m \in Nat
    PROVE  Evaluated(m) = Terms(1..m, m + 1)
    BY DEF Evaluated, Terms

LEMMA EvaluatedGrows ==
    ASSUME NEW m \in Nat, NEW k \in Nat
    PROVE  Plus(Times(Evaluated(m), k), Terms((m + 1)..(m + k), m + k + 1)) = Evaluated(m + k)
    <1>1. Times(Evaluated(m), k) = Terms(1..m, m + 1 + k)
        BY EvaluatedTerms, TimesTerms
    <1>2. (1..m) \cap ((m + 1)..(m + k)) = {} /\ (1..m) \cup ((m + 1)..(m + k)) = 1..(m + k)
        OBVIOUS
    <1>3. Plus(Terms(1..m, m + k + 1), Terms((m + 1)..(m + k), m + k + 1)) = Terms(1..(m + k), m + k + 1)
        BY <1>2, PlusTerms
    <1>4. m + 1 + k = m + k + 1
        OBVIOUS
    <1>5. QED
        BY <1>1, <1>3, <1>4, EvaluatedTerms
\* One block more, before the factor r that follows it.
LEMMA AddBlock ==
    ASSUME NEW m \in Nat
    PROVE  Plus(Terms(1..m, m + 1), Block(m + 1)) = Terms(1..(m + 1), m + 1)
    <1> DEFINE T == {m + 1}
               c == m + 1
    <1>1. c \in Int /\ (1..m) \cap T = {} /\ (1..m) \cup T = 1..c
        OBVIOUS
    <1>2. Block(c) = Terms(T, c)
        BY <1>1, BlockTerms
    <1> HIDE DEF T, c
    <1>3. Plus(Terms(1..m, c), Terms(T, c)) = Terms((1..m) \cup T, c)
        BY <1>1, PlusTerms
    <1>4. Plus(Terms(1..m, c), Block(c)) = Terms(1..c, c)
        BY <1>1, <1>2, <1>3
    <1>5. QED
        BY <1>4 DEF c

-----------------------------------------------------------------------------
(* What the lanes hold after m blocks.                                      *)

Vector == backend \in {"avx2", "neon", "ifma"}

\* The factor r that neon leaves to the end.
Late == IF backend = "neon" THEN 1 ELSE 0

\* The blocks of lane l, those of its place in a group, and the number its
\* exponents go down from.
LaneBlocks(m, l) == {b \in 1..m : (b - 1) % LaneCount = Position(l)}
LaneTop(m, l) == m - LaneCount + 1 + Position(l)

Dealing(m) == [l \in Lanes |-> Terms(LaneBlocks(m, l), LaneTop(m, l))]

\* The eight lanes of ifma, one by one.
LEMMA IfmaPlaces ==
    ASSUME backend = "ifma", NEW l \in 0..7
    PROVE  /\ Weight(l) = IfmaWeight[l]
           /\ IfmaWeight[l] \in 1..8
           /\ Position(l) = LanePos[l]
           /\ LanePos[l] \in 0..7
           /\ Position(l) + Weight(l) = 8
    <1>1. Weight(l) = IfmaWeight[l]
        BY DEF Weight
    <1>2. l \in {0, 1, 2, 3, 4, 5, 6, 7}
        OBVIOUS
    <1>3. IfmaWeight[l] \in 1..8 /\ LanePos[l] \in 0..7 /\ LanePos[l] = 8 - IfmaWeight[l]
        BY <1>2 DEF IfmaWeight, LanePos
    <1>4. Position(l) = 8 - IfmaWeight[l]
        BY <1>1, <1>3 DEF Position, LaneCount
    <1>5. QED
        BY <1>1, <1>3, <1>4

\* The four lanes of avx2 and neon are in the order of the group.
LEMMA FourPlaces ==
    ASSUME backend \in {"avx2", "neon"}, NEW l \in 0..3
    PROVE  /\ Position(l) = l
           /\ Weight(l) \in 0..4
           /\ Position(l) + Weight(l) = 4 - Late
    <1>1. CASE backend = "avx2"
        BY <1>1 DEF Position, Weight, Late, LaneCount, Avx2Weight
    <1>2. CASE backend = "neon"
        BY <1>2 DEF Position, Weight, Late, LaneCount, NeonWeight
    <1>3. QED
        BY <1>1, <1>2

LEMMA LaneCounts ==
    ASSUME Vector
    PROVE  /\ LaneCount \in {4, 8}
           /\ backend = "ifma" => LaneCount = 8 /\ Lanes = 0..7
           /\ backend # "ifma" => LaneCount = 4 /\ Lanes = 0..3
    BY DEF Vector, LaneCount, Lanes

\* Each lane has a place in the group, its weight makes up for the place, and
\* every place has one lane.
LEMMA Places ==
    ASSUME Vector, NEW l \in Lanes
    PROVE  /\ Position(l) \in 0..(LaneCount - 1)
           /\ Weight(l) \in 0..8
           /\ Position(l) + Weight(l) = LaneCount - Late
    <1>1. CASE backend = "ifma"
        BY <1>1, LaneCounts, IfmaPlaces DEF Late
    <1>2. CASE backend # "ifma"
        BY <1>2, LaneCounts, FourPlaces DEF Vector
    <1>3. QED
        BY <1>1, <1>2

LEMMA PlacesDistinct ==
    ASSUME Vector, NEW l \in Lanes, NEW k \in Lanes, Position(l) = Position(k)
    PROVE  l = k
    <1>1. CASE backend = "ifma"
        <2>1. LanePos[l] = LanePos[k] /\ l \in 0..7 /\ k \in 0..7
            BY <1>1, LaneCounts, IfmaPlaces
        <2>2. l \in {0, 1, 2, 3, 4, 5, 6, 7} /\ k \in {0, 1, 2, 3, 4, 5, 6, 7}
            BY <2>1
        <2>3. QED
            BY <2>1, <2>2 DEF LanePos
    <1>2. CASE backend # "ifma"
        BY <1>2, LaneCounts, FourPlaces DEF Vector
    <1>3. QED
        BY <1>1, <1>2

LEMMA PlacesAll ==
    ASSUME Vector, NEW p \in 0..(LaneCount - 1)
    PROVE  \E l \in Lanes : Position(l) = p
    <1>1. CASE backend = "ifma"
        <2>1. p \in {0, 1, 2, 3, 4, 5, 6, 7}
            BY <1>1, LaneCounts
        <2>2. \E l \in 0..7 : LanePos[l] = p
            <3>1. /\ LanePos[0] = 0 /\ LanePos[1] = 4 /\ LanePos[2] = 1 /\ LanePos[3] = 5
                  /\ LanePos[4] = 2 /\ LanePos[5] = 6 /\ LanePos[6] = 3 /\ LanePos[7] = 7
                BY DEF LanePos
            <3>2. QED
                BY <2>1, <3>1
        <2>3. QED
            BY <1>1, <2>2, LaneCounts, IfmaPlaces
    <1>2. CASE backend # "ifma"
        BY <1>2, LaneCounts, FourPlaces DEF Vector
    <1>3. QED
        BY <1>1, <1>2

\* After whole groups, the newest block of a lane is bare.
LEMMA LaneBelow ==
    ASSUME Vector, NEW m \in Nat, m % LaneCount = 0, NEW l \in Lanes, NEW b \in LaneBlocks(m, l)
    PROVE  b \in 1..m /\ b <= LaneTop(m, l) /\ LaneTop(m, l) - b \in Nat
    <1>1. b \in 1..m /\ (b - 1) % LaneCount = Position(l) /\ Position(l) \in 0..(LaneCount - 1)
        BY Places DEF LaneBlocks
    <1>2. b <= m - LaneCount + 1 + Position(l)
        <2>1. CASE LaneCount = 4
            BY <1>1, <2>1
        <2>2. CASE LaneCount = 8
            BY <1>1, <2>2
        <2>3. QED
            BY <2>1, <2>2, LaneCounts
    <1>3. QED
        BY <1>1, <1>2, LaneCounts DEF LaneTop

\* The next group adds to each lane the block of its place.
LEMMA LaneGrows ==
    ASSUME Vector, NEW m \in Nat, m % LaneCount = 0, NEW l \in Lanes
    PROVE  /\ (m + LaneCount) % LaneCount = 0
           /\ LaneBlocks(m + LaneCount, l) = LaneBlocks(m, l) \cup {m + Position(l) + 1}
           /\ LaneBlocks(m, l) \cap {m + Position(l) + 1} = {}
           /\ LaneTop(m, l) + LaneCount = m + Position(l) + 1
           /\ LaneTop(m + LaneCount, l) = m + Position(l) + 1
           /\ LaneTop(m, l) \in Int
    <1> DEFINE p == Position(l)
    <1>1. p \in 0..(LaneCount - 1) /\ LaneCount \in {4, 8}
        BY Places, LaneCounts
    <1> HIDE DEF p
    <1>2. ASSUME NEW b \in 1..(m + LaneCount)
          PROVE  (b - 1) % LaneCount = p <=>
                     (b \in 1..m /\ (b - 1) % LaneCount = p) \/ b = m + p + 1
        <2>1. CASE LaneCount = 4
            BY <1>1, <2>1
        <2>2. CASE LaneCount = 8
            BY <1>1, <2>2
        <2>3. QED
            BY <1>1, <2>1, <2>2
    <1>3. m + p + 1 \in 1..(m + LaneCount) /\ m + p + 1 \notin 1..m /\ 1..m \subseteq 1..(m + LaneCount)
        BY <1>1
    <1>4. (m + LaneCount) % LaneCount = 0
        BY <1>1
    <1>5. LaneBlocks(m + LaneCount, l) = LaneBlocks(m, l) \cup {m + p + 1}
        BY <1>2, <1>3 DEF LaneBlocks, p
    <1>6. LaneBlocks(m, l) \cap {m + p + 1} = {}
        BY <1>3 DEF LaneBlocks
    <1>7. QED
        BY <1>1, <1>4, <1>5, <1>6 DEF LaneTop, p

\* A lane advances by one group: a factor r^LaneCount, and the block of its
\* place.
LEMMA LaneStep ==
    ASSUME Vector, NEW m \in Nat, m % LaneCount = 0, NEW l \in Lanes
    PROVE  /\ Plus(Times(Dealing(m)[l], LaneCount), Block(m + Position(l) + 1))
                  = Dealing(m + LaneCount)[l]
           /\ m = 0 => Block(m + Position(l) + 1) = Dealing(m + LaneCount)[l]
    <1> DEFINE S == LaneBlocks(m, l)
               c == LaneTop(m, l)
               b == m + Position(l) + 1
    <1>1. /\ LaneBlocks(m + LaneCount, l) = S \cup {b} /\ S \cap {b} = {}
          /\ c + LaneCount = b /\ LaneTop(m + LaneCount, l) = b /\ c \in Int
        BY LaneGrows
    <1>2. Position(l) \in Int /\ LaneCount \in Int /\ b \in Int
        BY Places, LaneCounts
    <1>3. S \in SUBSET Int /\ \A x \in S : x <= c
        BY LaneBelow
    <1>4. Dealing(m)[l] = Terms(S, c) /\ Dealing(m + LaneCount)[l] = Terms(S \cup {b}, b)
        BY <1>1 DEF Dealing
    <1>5. Times(Terms(S, c), LaneCount) = Terms(S, b)
        <2>1. Times(Terms(S, c), LaneCount) = Terms(S, c + LaneCount)
            BY <1>1, <1>2, <1>3, TimesTerms
        <2>2. QED
            BY <1>1, <2>1
    <1>6. Block(b) = Terms({b}, b)
        BY <1>2, BlockTerms
    <1>7. Plus(Terms(S, b), Terms({b}, b)) = Terms(S \cup {b}, b)
        BY <1>1, PlusTerms
    <1>8. m = 0 => S = {}
        BY DEF LaneBlocks
    <1>9. m = 0 => Terms(S \cup {b}, b) = Terms({b}, b)
        BY <1>8
    <1>10. QED
        BY <1>4, <1>5, <1>6, <1>7, <1>9

-----------------------------------------------------------------------------
(* Folding groups, and collapsing the lanes.                                *)

\* Before the first block the lanes are empty.
LEMMA DealingNothing ==
    ASSUME Vector
    PROVE  Dealing(0) = Empty
    <1>1. \A l \in Lanes : LaneBlocks(0, l) = {}
        BY DEF LaneBlocks
    <1>2. \A l \in Lanes : Terms(LaneBlocks(0, l), LaneTop(0, l)) = Zero
        BY <1>1 DEF Terms, Zero
    <1>3. QED
        BY <1>2 DEF Dealing, Empty

\* One group into the lanes, as each backend does it: by a first load, or by a
\* round, which on lanes that are still empty comes to the same.
LEMMA FoldGroup ==
    ASSUME Vector, NEW m \in Nat, m % LaneCount = 0, NEW on \in BOOLEAN, on \/ m = 0,
           NEW g, \A i \in 1..LaneCount : g[i] = m + i
    PROVE  Folded(Dealing(m), on, g) = Dealing(m + LaneCount)
    <1> DEFINE d == Dealing(m)
               after == Dealing(m + LaneCount)
    <1>1. ASSUME NEW l \in Lanes
          PROVE  /\ Plus(Times(d[l], LaneCount), Block(m + Position(l) + 1)) = after[l]
                 /\ m = 0 => Block(m + Position(l) + 1) = after[l]
                 /\ g[Position(l) + 1] = m + Position(l) + 1
        <2>1. Position(l) + 1 \in 1..LaneCount
            BY Places, LaneCounts
        <2>2. g[Position(l) + 1] = m + (Position(l) + 1)
            BY <2>1
        <2>3. m + (Position(l) + 1) = m + Position(l) + 1
            BY <2>1, LaneCounts, Places
        <2>4. QED
            BY <2>2, <2>3, LaneStep
    <1>2. after = [l \in Lanes |-> after[l]]
        BY DEF Dealing
    <1> HIDE DEF d, after
    <1>3. CASE backend = "avx2"
        <2>1. /\ LaneCount = 4 /\ Lanes = 0..3
              /\ \A l \in 0..3 : Position(l) = l
            BY <1>3, LaneCounts, FourPlaces
        <2>2. ASSUME NEW l \in 0..3
              PROVE  (IF on THEN Plus(Times(d[l], 4), Block(g[l + 1])) ELSE Block(g[l + 1])) = after[l]
            BY <1>1, <2>1
        <2>3. Folded(d, on, g) = Avx2Advance(d, on, g)
            BY <1>3 DEF Folded
        <2>4. Avx2Advance(d, on, g) = [l \in 0..3 |-> after[l]]
            BY <2>2 DEF Avx2Advance
        <2>5. QED
            BY <1>2, <2>1, <2>3, <2>4 DEF d, after
    <1>4. CASE backend = "neon"
        <2>1. /\ LaneCount = 4 /\ Lanes = 0..3
              /\ \A l \in 0..3 : Position(l) = l
            BY <1>4, LaneCounts, FourPlaces
        <2>2. ASSUME NEW l \in 0..3
              PROVE  Plus(Times(d[l], 4), Block(g[l + 1])) = after[l]
            BY <1>1, <2>1
        <2>3. Folded(d, on, g) = NeonStep(d, g)
            BY <1>4 DEF Folded
        <2>4. NeonStep(d, g) = [l \in 0..3 |-> after[l]]
            BY <2>2 DEF NeonStep
        <2>5. QED
            BY <1>2, <2>1, <2>3, <2>4 DEF d, after
    <1>5. CASE backend = "ifma"
        <2>1. /\ LaneCount = 8 /\ Lanes = 0..7
              /\ \A l \in 0..7 : Position(l) = LanePos[l]
            BY <1>5, LaneCounts, IfmaPlaces
        <2>2. ASSUME NEW l \in 0..7
              PROVE  /\ Load8(g)[l] = Block(g[Position(l) + 1])
                     /\ Plus(Times(d[l], 8), Load8(g)[l]) = after[l]
                     /\ m = 0 => Load8(g)[l] = after[l]
            <3>1. Load8(g)[l] = Block(g[Position(l) + 1])
                BY <2>1 DEF Load8
            <3>2. QED
                BY <1>1, <2>1, <3>1
        <2>3. Folded(d, on, g) = IF on THEN IfmaRound(d, g) ELSE Load8(g)
            BY <1>5 DEF Folded, Process8
        <2>4. IfmaRound(d, g) = [l \in 0..7 |-> after[l]]
            BY <2>2 DEF IfmaRound
        <2>5. ~on => Load8(g) = [l \in 0..7 |-> after[l]]
            <3>1. Load8(g) = [l \in 0..7 |-> Load8(g)[l]]
                BY DEF Load8
            <3>2. QED
                BY <2>2, <3>1
        <2>6. QED
            BY <1>2, <2>1, <2>3, <2>4, <2>5 DEF d, after
    <1>6. QED
        BY <1>3, <1>4, <1>5 DEF Vector

\* The weighted lanes are the evaluation of what they hold, for neon with a
\* factor r still owed.
LEMMA CollapsedDealing ==
    ASSUME Vector, NEW m \in Nat, m % LaneCount = 0
    PROVE  Collapsed(Dealing(m)) = Terms(1..m, m + 1 - Late)
    <1> DEFINE B == [l \in Lanes |-> LaneBlocks(m, l)]
               c == m + 1 - Late
    <1>1. ASSUME NEW l \in Lanes
          PROVE  Times(Dealing(m)[l], Weight(l)) = Terms(B[l], c)
        <2>1. /\ LaneTop(m, l) \in Int /\ Weight(l) \in 0..8
              /\ Position(l) \in 0..(LaneCount - 1) /\ LaneCount \in Int /\ Late \in {0, 1}
              /\ Position(l) + Weight(l) = LaneCount - Late
            BY LaneGrows, Places, LaneCounts DEF Late
        <2>2. LaneTop(m, l) + Weight(l) = c
            BY <2>1 DEF LaneTop
        <2>3. LaneBlocks(m, l) \in SUBSET Int /\ \A b \in LaneBlocks(m, l) : b <= LaneTop(m, l)
            BY LaneBelow
        <2>4. Times(Terms(LaneBlocks(m, l), LaneTop(m, l)), Weight(l)) = Terms(LaneBlocks(m, l), c)
            <3> DEFINE S == LaneBlocks(m, l)
                       t == LaneTop(m, l)
                       w == Weight(l)
            <3>1. S \in SUBSET Int /\ t \in Int /\ w \in Int /\ t + w = c /\ \A b \in S : b <= t
                BY <2>1, <2>2, <2>3
            <3> HIDE DEF S, t, w, c
            <3>2. Times(Terms(S, t), w) = Terms(S, t + w)
                BY <3>1, TimesTerms
            <3>3. QED
                BY <3>1, <3>2 DEF S, t, w
        <2>5. QED
            BY <2>4 DEF Dealing
    <1>2. ASSUME NEW l \in Lanes, NEW k \in Lanes, l # k
          PROVE  B[l] \cap B[k] = {}
        BY <1>2, PlacesDistinct DEF LaneBlocks
    <1>3. UNION {B[l] : l \in Lanes} = 1..m
        <2>1. ASSUME NEW b \in 1..m
              PROVE  \E l \in Lanes : b \in B[l]
            <3>1. (b - 1) % LaneCount \in 0..(LaneCount - 1)
                BY LaneCounts
            <3>2. PICK l \in Lanes : Position(l) = (b - 1) % LaneCount
                BY <3>1, PlacesAll
            <3>3. QED
                BY <3>2 DEF LaneBlocks
        <2>2. \A l \in Lanes : B[l] \subseteq 1..m
            BY DEF LaneBlocks
        <2>3. QED
            BY <2>1, <2>2
    <1> HIDE DEF B, c
    <1>4. [l \in Lanes |-> Times(Dealing(m)[l], Weight(l))] = [l \in Lanes |-> Terms(B[l], c)]
        BY <1>1
    <1>5. Sum([l \in Lanes |-> Terms(B[l], c)]) = Terms(UNION {B[l] : l \in Lanes}, c)
        BY <1>2, SumTerms
    <1>6. QED
        BY <1>3, <1>4, <1>5 DEF Collapsed, c
\* The whole groups of the cache, oldest first.
LEMMA FoldCache ==
    ASSUME Vector, NEW m \in Nat, m % LaneCount = 0, NEW on \in BOOLEAN, on \/ m = 0,
           NEW s \in Seq(Nat), Len(s) \in 0..8, \A i \in 1..Len(s) : s[i] = m + i
    PROVE  FoldedAll(Dealing(m), on, s) = Dealing(m + LaneCount * Groups(s))
    <1>1. /\ LaneCount \in {4, 8} /\ Groups(s) = Len(s) \div LaneCount
          /\ LaneCount = 8 => Groups(s) \in {0, 1}
          /\ Groups(s) \in {0, 1, 2} /\ LaneCount * Groups(s) <= Len(s)
        <2>1. Groups(s) = Len(s) \div LaneCount /\ LaneCount \in {4, 8}
            BY LaneCounts DEF Groups
        <2> DEFINE k == Len(s)
        <2>2. k \in 0..8
            OBVIOUS
        <2> HIDE DEF k
        <2>3. /\ k \div 4 \in {0, 1, 2} /\ 4 * (k \div 4) <= k
              /\ k \div 8 \in {0, 1} /\ 8 * (k \div 8) <= k
            BY <2>2
        <2>4. CASE LaneCount = 4
            BY <2>1, <2>3, <2>4 DEF k
        <2>5. CASE LaneCount = 8
            BY <2>1, <2>3, <2>5 DEF k
        <2>6. QED
            BY <2>1, <2>4, <2>5
    <1>2. ASSUME NEW k \in {1, 2}, k <= Groups(s)
          PROVE  \A i \in 1..LaneCount : Group(s, k)[i] = m + (k - 1) * LaneCount + i
        <2> DEFINE first == (k - 1) * LaneCount + 1
                   last == k * LaneCount
        <2>1. /\ first \in 1..(Len(s) + 1) /\ last \in 0..Len(s)
              /\ last - first + 1 = LaneCount /\ first \in Nat /\ LaneCount \in {4, 8}
              /\ first = (k - 1) * LaneCount + 1 /\ last <= Len(s)
            <3>1. k = 1 \/ k = 2
                OBVIOUS
            <3>2. QED
                BY <1>1, <1>2, <3>1
        <2> HIDE DEF first, last
        <2>2. \A i \in 1..(last - first + 1) : SubSeq(s, first, last)[i] = s[first + i - 1]
            BY <2>1, SubSeqProperties
        <2>3. ASSUME NEW i \in 1..LaneCount
              PROVE  Group(s, k)[i] = m + (k - 1) * LaneCount + i
            <3>1. Group(s, k)[i] = s[first + i - 1]
                BY <2>1, <2>2 DEF Group, first, last
            <3>2. first + i - 1 \in 1..Len(s) /\ first + i - 1 = (k - 1) * LaneCount + i
                BY <2>1
            <3>3. s[first + i - 1] = m + ((k - 1) * LaneCount + i)
                BY <3>2
            <3>4. m + ((k - 1) * LaneCount + i) = m + (k - 1) * LaneCount + i
                BY <2>1
            <3>5. QED
                BY <3>1, <3>3, <3>4
        <2>4. QED
            BY <2>3
    <1>3. CASE Groups(s) = 0
        <2>1. m + LaneCount * Groups(s) = m
            BY <1>1, <1>3
        <2>2. QED
            BY <1>3, <2>1 DEF FoldedAll
    <1>4. ASSUME Groups(s) # 0
          PROVE  Folded(Dealing(m), on, Group(s, 1)) = Dealing(m + LaneCount)
        <2>1. \A i \in 1..LaneCount : Group(s, 1)[i] = m + i
            BY <1>1, <1>2, <1>4
        <2>2. QED
            BY <2>1, FoldGroup
    <1>5. CASE Groups(s) = 1
        <2>1. m + LaneCount * Groups(s) = m + LaneCount
            BY <1>1, <1>5
        <2>2. QED
            BY <1>4, <1>5, <2>1 DEF FoldedAll
    <1>6. CASE Groups(s) = 2
        <2>1. /\ m + LaneCount * Groups(s) = (m + LaneCount) + LaneCount
              /\ m + LaneCount \in Nat /\ (m + LaneCount) % LaneCount = 0
            <3>1. CASE LaneCount = 4
                BY <1>6, <3>1
            <3>2. CASE LaneCount = 8
                BY <1>6, <3>2
            <3>3. QED
                BY <1>1, <3>1, <3>2
        <2>2. \A i \in 1..LaneCount : Group(s, 2)[i] = (m + LaneCount) + i
            BY <1>1, <1>2, <1>6
        <2>3. Folded(Dealing(m + LaneCount), TRUE, Group(s, 2)) = Dealing((m + LaneCount) + LaneCount)
            BY <2>1, <2>2, FoldGroup
        <2>4. FoldedAll(Dealing(m), on, s)
                  = Folded(Folded(Dealing(m), on, Group(s, 1)), TRUE, Group(s, 2))
            BY <1>6 DEF FoldedAll
        <2>5. Groups(s) # 0
            BY <1>6
        <2>6. QED
            BY <1>4, <2>1, <2>3, <2>4, <2>5
    <1>7. QED
        BY <1>1, <1>3, <1>5, <1>6

-----------------------------------------------------------------------------
(* The invariant.                                                           *)

\* What the lanes must hold now.
DealtNow == Dealing(Streamed)

Scalars ==
    /\ backend \in {"soft", "avx2", "neon", "ifma"}
    /\ pc \in {"stream", "bulk", "fold", "done"}
    /\ n \in 0..MaxBlocks
    /\ live \in BOOLEAN
    /\ left \in 0..MaxWindows
    /\ owed \in {0, 1}

\* The cache holds the newest blocks.
CacheKept ==
    /\ cached \in Seq(Nat)
    /\ Len(cached) \in 0..CacheSize
    /\ Len(cached) <= n
    /\ \A i \in 1..Len(cached) : cached[i] = Streamed + i

\* Between calls the lanes hold whole groups, all of the blocks that are not
\* in the cache.
Streaming ==
    pc = "stream" =>
        /\ owed = 0
        /\ backend = "soft" => cached = << >> /\ lanes = [l \in Lanes |-> Evaluated(n)]
        /\ backend # "soft" =>
            /\ Streamed % LaneCount = 0
            /\ live <=> Streamed > 0
            /\ lanes = DealtNow

\* In a bulk run the registers do, and its windows fit behind them.
Bulk ==
    pc = "bulk" =>
        /\ backend = "ifma"
        /\ owed = 0
        /\ Streamed % LaneCount = 0
        /\ live <=> Streamed > 0
        /\ regs = DealtNow
        /\ left > 0 => cached = << >>
        /\ left >= 2 => live
        /\ n + 4 * left <= MaxBlocks

\* In finalize_into the accumulator does, for neon short of a factor r.
Folding ==
    pc = "fold" =>
        /\ backend # "soft"
        /\ owed = 1 => backend = "neon"
        /\ acc = Terms(1..Streamed, Streamed + 1 - owed)

Finished == pc = "done" => cached = << >> /\ tag = Evaluated(n)

Inv == Scalars /\ CacheKept /\ Streaming /\ Bulk /\ Folding /\ Finished

-----------------------------------------------------------------------------
(* The next blocks, and the cache with them.                                *)

LEMMA FreshIs ==
    ASSUME n \in Nat, NEW k \in Nat
    PROVE  /\ Fresh(k) \in Seq(Nat)
           /\ Len(Fresh(k)) = k
           /\ \A i \in 1..k : Fresh(k)[i] = n + i
    <1>1. \A i \in 1..k : n + i \in Nat
        OBVIOUS
    <1>2. QED
        BY <1>1 DEF Fresh

LEMMA CacheThenFresh ==
    ASSUME Inv, NEW k \in Nat
    PROVE  /\ cached \o Fresh(k) \in Seq(Nat)
           /\ Len(cached \o Fresh(k)) = Len(cached) + k
           /\ \A i \in 1..(Len(cached) + k) : (cached \o Fresh(k))[i] = Streamed + i
    <1>1. /\ cached \in Seq(Nat) /\ n \in Nat /\ Len(cached) \in Nat /\ Streamed = n - Len(cached)
          /\ \A i \in 1..Len(cached) : cached[i] = Streamed + i
        BY DEF Inv, Scalars, CacheKept, Streamed
    <1>2. /\ Fresh(k) \in Seq(Nat) /\ Len(Fresh(k)) = k
          /\ \A i \in 1..k : Fresh(k)[i] = n + i
        BY <1>1, FreshIs
    <1>3. /\ cached \o Fresh(k) \in Seq(Nat)
          /\ Len(cached \o Fresh(k)) = Len(cached) + k
          /\ \A i \in 1..(Len(cached) + k) :
                 (cached \o Fresh(k))[i] = IF i <= Len(cached) THEN cached[i] ELSE Fresh(k)[i - Len(cached)]
        BY <1>1, <1>2, ConcatProperties
    <1>4. ASSUME NEW i \in 1..(Len(cached) + k)
          PROVE  (cached \o Fresh(k))[i] = Streamed + i
        <2>1. CASE i <= Len(cached)
            BY <1>1, <1>3, <2>1
        <2>2. CASE ~(i <= Len(cached))
            <3>1. i - Len(cached) \in 1..k
                BY <1>1, <2>2
            <3>2. QED
                BY <1>1, <1>2, <1>3, <2>2, <3>1
        <2>3. QED
            BY <2>1, <2>2
    <1>5. QED
        BY <1>3, <1>4

\* What the lanes are dealt depends on the backend and on the blocks that are
\* out of the cache.
LEMMA DealtIs ==
    ASSUME Vector, Streamed \in Nat, NEW l \in Lanes
    PROVE  Dealt(l) = Terms(LaneBlocks(Streamed, l), LaneTop(Streamed, l))
    <1> DEFINE S == LaneBlocks(Streamed, l)
               c == LaneTop(Streamed, l)
    <1>1. S = {x \in 1..Streamed : (x - 1) % LaneCount = Position(l)} /\ S \subseteq Int
        BY DEF LaneBlocks
    <1>2. \A b \in S : Streamed - LaneCount + 1 + Position(l) - b = c - b
        BY <1>1, Places, LaneCounts DEF LaneTop
    <1> HIDE DEF S, c
    <1>3. Dealt(l) = {<<b, Streamed - LaneCount + 1 + Position(l) - b>> : b \in S}
        BY <1>1 DEF Dealt
    <1>4. QED
        BY <1>2, <1>3 DEF Terms, S, c

LEMMA SameBackend ==
    ASSUME backend' = backend
    PROVE  /\ LaneCount' = LaneCount /\ Lanes' = Lanes /\ Vector' = Vector
           /\ \A l : Position(l)' = Position(l)
    BY DEF Position, Weight, LaneCount, Lanes, Vector

LEMMA DealtNext ==
    ASSUME backend' = backend, NEW m, Streamed' = m
    PROVE  DealtNow' = Dealing(m)
    <1>1. ASSUME NEW l
          PROVE  Terms(LaneBlocks(Streamed, l), LaneTop(Streamed, l))' = Terms(LaneBlocks(m, l), LaneTop(m, l))
        <2>1. LaneBlocks(Streamed, l)' = LaneBlocks(m, l)
            BY SameBackend DEF LaneBlocks
        <2>2. LaneTop(Streamed, l)' = LaneTop(m, l)
            BY SameBackend DEF LaneTop
        <2>3. QED
            BY <2>1, <2>2 DEF Terms
    <1>2. DealtNow' = [l \in Lanes' |-> Terms(LaneBlocks(Streamed, l), LaneTop(Streamed, l))']
        BY DEF DealtNow, Dealing
    <1>3. QED
        BY <1>1, <1>2, SameBackend DEF Dealing
-----------------------------------------------------------------------------
(* The steps.                                                               *)

LEMMA InitInv ==
    ASSUME Init
    PROVE  Inv
    <1>0. /\ backend \in Backends /\ pc = "stream" /\ n = 0 /\ cached = << >> /\ live = FALSE
          /\ left = 0 /\ owed = 0 /\ lanes = Empty
        BY DEF Init
    <1>1. Scalars
        <2>1. backend \in {"soft", "avx2", "neon", "ifma"}
            BY <1>0, BackendsAssumption
        <2>2. n \in 0..MaxBlocks /\ left \in 0..MaxWindows
            BY <1>0, BoundsAssumption
        <2>3. QED
            BY <1>0, <2>1, <2>2 DEF Scalars
    <1>2. CacheKept
        BY <1>0 DEF CacheKept, CacheSize
    <1>3. Streamed = 0
        <2>1. Len(cached) = 0 /\ n = 0
            BY <1>0
        <2>2. QED
            BY <2>1 DEF Streamed
    <1>4. Streaming
        <2>1. CASE backend = "soft"
            <3>1. Evaluated(n) = Zero
                BY <1>0 DEF Evaluated, Zero
            <3>2. QED
                BY <1>0, <2>1, <3>1 DEF Streaming, Empty
        <2>2. CASE backend # "soft"
            <3>1. Vector
                BY <1>1, <2>2 DEF Scalars, Vector
            <3>2. DealtNow = Empty /\ Streamed % LaneCount = 0
                BY <1>3, <3>1, DealingNothing, LaneCounts DEF DealtNow
            <3>3. QED
                BY <1>0, <1>3, <2>2, <3>2 DEF Streaming
        <2>3. QED
            BY <2>1, <2>2
    <1>5. QED
        BY <1>0, <1>1, <1>2, <1>4 DEF Inv, Bulk, Folding, Finished

\* A step that ends between calls, m blocks being in the lanes.
LEMMA ToStream ==
    ASSUME Inv, Vector, NEW m \in Nat, m % LaneCount = 0,
           backend' = backend, pc' = "stream", owed' = 0, left' \in 0..MaxWindows,
           cached' \in Seq(Nat), Len(cached') \in 0..8,
           \A i \in 1..Len(cached') : cached'[i] = m + i,
           n' = m + Len(cached'), n' <= MaxBlocks,
           live' \in BOOLEAN, live' <=> m > 0, lanes' = Dealing(m)
    PROVE  Streamed' = m /\ Inv'
    <1>1. Streamed' = m /\ Len(cached') \in Nat
        BY DEF Streamed
    <1>2. DealtNow' = Dealing(m) /\ LaneCount' = LaneCount
        BY <1>1, DealtNext, SameBackend
    <1>3. Scalars'
        BY BoundsAssumption DEF Inv, Scalars
    <1>4. CacheKept'
        BY <1>1 DEF CacheKept, CacheSize
    <1>5. Streaming'
        BY <1>1, <1>2 DEF Streaming, Vector
    <1>6. QED
        BY <1>1, <1>3, <1>4, <1>5 DEF Inv, Bulk, Folding, Finished

\* A step that ends in a bulk run, m blocks being in the registers.
LEMMA ToBulk ==
    ASSUME Inv, backend = "ifma", NEW m \in Nat, m % LaneCount = 0,
           backend' = backend, pc' = "bulk", owed' = 0, left' \in 0..MaxWindows,
           cached' \in Seq(Nat), Len(cached') \in 0..8,
           \A i \in 1..Len(cached') : cached'[i] = m + i,
           n' = m + Len(cached'), n' + 4 * left' <= MaxBlocks,
           live' \in BOOLEAN, live' <=> m > 0, regs' = Dealing(m),
           left' > 0 => cached' = << >>, left' >= 2 => live'
    PROVE  Streamed' = m /\ Inv'
    <1>1. Streamed' = m /\ Len(cached') \in Nat
        BY DEF Streamed
    <1>2. DealtNow' = Dealing(m) /\ LaneCount' = LaneCount
        BY <1>1, DealtNext, SameBackend
    <1>3. Scalars'
        BY BoundsAssumption DEF Inv, Scalars
    <1>4. CacheKept'
        BY <1>1 DEF CacheKept, CacheSize
    <1>5. Bulk'
        BY <1>1, <1>2 DEF Bulk
    <1>6. QED
        BY <1>1, <1>3, <1>4, <1>5 DEF Inv, Streaming, Folding, Finished

\* What the invariant says between calls of a vectorised backend.
LEMMA AtStream ==
    ASSUME Inv, pc = "stream", backend # "soft"
    PROVE  /\ Vector /\ owed = 0 /\ left \in 0..MaxWindows
           /\ n \in Nat /\ Streamed \in Nat /\ Len(cached) \in 0..8 /\ n = Streamed + Len(cached)
           /\ cached \in Seq(Nat) /\ \A i \in 1..Len(cached) : cached[i] = Streamed + i
           /\ Streamed % LaneCount = 0 /\ live \in BOOLEAN /\ (live <=> Streamed > 0) /\ lanes = Dealing(Streamed)
           /\ n <= MaxBlocks
    BY BoundsAssumption DEF Inv, Scalars, CacheKept, CacheSize, Streaming, Streamed, Vector, DealtNow

\* The cache into the lanes.
LEMMA CacheFolds ==
    ASSUME Inv, pc = "stream", backend # "soft"
    PROVE  FoldedAll(lanes, live, cached) = Dealing(Streamed + LaneCount * Groups(cached))
    BY AtStream, FoldCache

\* The scalar backend.
LEMMA SoftAbsorbBlockInv ==
    ASSUME Inv, SoftAbsorbBlock
    PROVE  Inv'
    <1>1. /\ pc = "stream" /\ backend = "soft" /\ n < MaxBlocks /\ n' = n + 1
          /\ lanes' = [l \in Lanes |-> Times(Plus(lanes[l], Block(n + 1)), 1)]
          /\ UNCHANGED <<backend, pc, cached, live, regs, left, acc, owed, tag>>
        BY DEF SoftAbsorbBlock
    <1>2. /\ n \in Nat /\ n' \in 0..MaxBlocks /\ cached = << >> /\ owed = 0
          /\ lanes = [l \in Lanes |-> Evaluated(n)]
        BY <1>1, BoundsAssumption DEF Inv, Scalars, Streaming
    <1>3. Times(Plus(Evaluated(n), Block(n + 1)), 1) = Evaluated(n + 1)
        <2> DEFINE c == n + 1
        <2>1. Evaluated(n) = Terms(1..n, c)
            BY <1>2, EvaluatedTerms
        <2>2. Plus(Terms(1..n, c), Block(c)) = Terms(1..c, c)
            BY <1>2, AddBlock
        <2>3. c \in Int /\ c \in Nat /\ \A b \in 1..c : b <= c
            BY <1>2
        <2> HIDE DEF c
        <2>4. Times(Terms(1..c, c), 1) = Terms(1..c, c + 1)
            BY <2>3, TimesTerms
        <2>5. Evaluated(c) = Terms(1..c, c + 1)
            BY <2>3, EvaluatedTerms
        <2>6. QED
            BY <2>1, <2>2, <2>4, <2>5 DEF c
    <1>4. lanes' = [l \in Lanes' |-> Evaluated(n)']
        <2>1. Lanes' = Lanes /\ Evaluated(n)' = Evaluated(n + 1)
            BY <1>1, SameBackend DEF Evaluated
        <2>2. \A l \in Lanes : lanes[l] = Evaluated(n)
            BY <1>2
        <2>3. QED
            BY <1>1, <1>3, <2>1, <2>2
    <1>5. Scalars' /\ CacheKept'
        BY <1>1, <1>2 DEF Inv, Scalars, CacheKept, CacheSize, Streamed
    <1>6. Streaming'
        BY <1>1, <1>2, <1>4 DEF Streaming
    <1>7. QED
        BY <1>1, <1>5, <1>6 DEF Inv, Bulk, Folding, Finished

\* One block: it parks, behind a cache that was folded if it was full.
LEMMA AbsorbBlockInv ==
    ASSUME Inv, AbsorbBlock
    PROVE  Inv'
    <1>1. /\ pc = "stream" /\ backend # "soft" /\ n < MaxBlocks /\ n' = n + 1
          /\ UNCHANGED <<backend, pc, left, owed>>
        BY DEF AbsorbBlock
    <1> DEFINE s == Streamed
    <1>2. /\ Vector /\ owed = 0 /\ left \in 0..MaxWindows
          /\ n \in Nat /\ s \in Nat /\ Len(cached) \in 0..8 /\ n = s + Len(cached)
          /\ s % LaneCount = 0 /\ live \in BOOLEAN /\ (live <=> s > 0) /\ lanes = Dealing(s)
        BY <1>1, AtStream
    <1> HIDE DEF s
    <1>3. n' <= MaxBlocks
        BY <1>1, <1>2, BoundsAssumption
    <1>4. CASE Len(cached) = 8
        <2>1. /\ lanes' = FoldedAll(lanes, live, cached) /\ live' = TRUE /\ cached' = Fresh(1)
            BY <1>4 DEF AbsorbBlock, CacheSize
        <2>2. LaneCount * Groups(cached) = 8 /\ n % LaneCount = 0
            <3>1. CASE LaneCount = 4
                BY <1>2, <1>4, <3>1 DEF Groups
            <3>2. CASE LaneCount = 8
                BY <1>2, <1>4, <3>2 DEF Groups
            <3>3. QED
                BY <1>2, <3>1, <3>2, LaneCounts
        <2>3. lanes' = Dealing(n)
            BY <1>1, <1>2, <1>4, <2>1, <2>2, CacheFolds DEF s
        <2>4. /\ cached' \in Seq(Nat) /\ Len(cached') = 1
              /\ \A i \in 1..Len(cached') : cached'[i] = n + i
            BY <1>2, <2>1, FreshIs
        <2>5. live' \in BOOLEAN /\ (live' <=> n > 0)
            BY <1>2, <1>4, <2>1
        <2>6. QED
            BY <1>1, <1>2, <1>3, <2>2, <2>3, <2>4, <2>5, ToStream
    <1>5. CASE Len(cached) # 8
        <2>1. cached' = cached \o Fresh(1) /\ UNCHANGED <<lanes, live>>
            BY <1>5 DEF AbsorbBlock, CacheSize
        <2>2. /\ cached' \in Seq(Nat) /\ Len(cached') = Len(cached) + 1
              /\ \A i \in 1..Len(cached') : cached'[i] = s + i
            BY <2>1, CacheThenFresh DEF s
        <2>3. Len(cached') \in 0..8 /\ n' = s + Len(cached')
            <3> DEFINE c == Len(cached)
                       d == Len(cached')
            <3>1. d = c + 1 /\ c \in 0..8 /\ c # 8 /\ n = s + c /\ s \in Nat /\ n' = n + 1
                BY <1>1, <1>2, <1>5, <2>2
            <3> HIDE DEF c, d
            <3>2. d \in 0..8 /\ n' = s + d
                BY <3>1
            <3>3. QED
                BY <3>2 DEF d
        <2>4. QED
            BY <1>1, <1>2, <1>3, <2>1, <2>2, <2>3, ToStream
    <1>6. QED
        BY <1>4, <1>5

\* A window on avx2 and neon: the cache, then the window.
LEMMA DrainAbsorb4Inv ==
    ASSUME Inv, DrainAbsorb4
    PROVE  Inv'
    <1>1. /\ pc = "stream" /\ backend \in {"avx2", "neon"} /\ n' = n + 4
          /\ Len(cached) % 4 = 0 /\ n + 4 <= MaxBlocks
          /\ lanes' = Folded(FoldedAll(lanes, live, cached), live \/ Len(cached) > 0, Fresh(4))
          /\ live' = TRUE /\ cached' = << >>
          /\ UNCHANGED <<backend, pc, left, owed>>
        BY DEF DrainAbsorb4, WindowFits
    <1> DEFINE s == Streamed
    <1>2. /\ Vector /\ owed = 0 /\ left \in 0..MaxWindows
          /\ n \in Nat /\ s \in Nat /\ Len(cached) \in 0..8 /\ n = s + Len(cached)
          /\ s % LaneCount = 0 /\ live \in BOOLEAN /\ (live <=> s > 0) /\ lanes = Dealing(s) /\ LaneCount = 4
        BY <1>1, AtStream, LaneCounts
    <1>3. s + 4 * Groups(cached) = n /\ n % 4 = 0
        BY <1>1, <1>2 DEF Groups
    <1>4. FoldedAll(lanes, live, cached) = Dealing(n)
        BY <1>1, <1>2, <1>3, CacheFolds
    <1>5. (live \/ Len(cached) > 0) \in BOOLEAN /\ ((live \/ Len(cached) > 0) \/ n = 0)
        BY <1>2
    <1>6. \A i \in 1..4 : Fresh(4)[i] = n + i
        BY <1>2, FreshIs
    <1>7. Folded(Dealing(n), live \/ Len(cached) > 0, Fresh(4)) = Dealing(n + 4)
        <2> DEFINE on == live \/ Len(cached) > 0
                   g == Fresh(4)
        <2>1. on \in BOOLEAN /\ (on \/ n = 0) /\ \A i \in 1..LaneCount : g[i] = n + i
            BY <1>2, <1>5, <1>6
        <2> HIDE DEF on, g
        <2>2. Folded(Dealing(n), on, g) = Dealing(n + LaneCount)
            BY <1>2, <1>3, <2>1, FoldGroup
        <2>3. QED
            BY <1>2, <2>2 DEF on, g
    <1>8. /\ n + 4 \in Nat /\ (n + 4) % LaneCount = 0 /\ cached' \in Seq(Nat) /\ Len(cached') = 0
          /\ n' = n + 4 + Len(cached') /\ live' \in BOOLEAN /\ (live' <=> n + 4 > 0) /\ lanes' = Dealing(n + 4)
        BY <1>1, <1>2, <1>3, <1>4, <1>7
    <1>9. QED
        BY <1>1, <1>2, <1>8, ToStream
\* One group of eight into the ifma lanes: process8, by a round or by a load.
LEMMA IfmaFolds ==
    ASSUME backend = "ifma", NEW m \in Nat, m % 8 = 0, NEW on \in BOOLEAN, on \/ m = 0,
           NEW g, \A i \in 1..8 : g[i] = m + i
    PROVE  /\ Process8(Dealing(m), on, g) = Dealing(m + 8)
           /\ on => IfmaRound(Dealing(m), g) = Dealing(m + 8)
           /\ ~on => Load8(g) = Dealing(m + 8)
    <1>1. Vector /\ LaneCount = 8
        BY LaneCounts DEF Vector
    <1>2. Folded(Dealing(m), on, g) = Dealing(m + 8)
        BY <1>1, FoldGroup
    <1>3. Folded(Dealing(m), on, g) = Process8(Dealing(m), on, g)
        BY DEF Folded
    <1>4. Process8(Dealing(m), on, g) = IF on THEN IfmaRound(Dealing(m), g) ELSE Load8(g)
        BY DEF Process8
    <1>5. QED
        BY <1>2, <1>3, <1>4

\* A cache that is empty or half full stays as it is when the lanes take its
\* whole groups, a full one goes.
LEMMA IfmaCacheFolds ==
    ASSUME Inv, pc = "stream", backend = "ifma", Len(cached) % 4 = 0
    PROVE  FoldedAll(lanes, live, cached)
               = IF Len(cached) = 8 THEN Dealing(n) ELSE Dealing(Streamed)
    <1>1. FoldedAll(lanes, live, cached) = Dealing(Streamed + 8 * (Len(cached) \div 8))
        BY CacheFolds, LaneCounts, AtStream DEF Groups
    <1>2. Len(cached) \in 0..8 /\ n = Streamed + Len(cached) /\ Streamed \in Nat
        BY AtStream
    <1>3. Streamed + 8 * (Len(cached) \div 8) = IF Len(cached) = 8 THEN n ELSE Streamed
        <2> DEFINE c == Len(cached)
                   s == Streamed
        <2>1. c \in 0..8 /\ n = s + c /\ s \in Nat
            BY <1>2
        <2> HIDE DEF c, s
        <2>2. s + 8 * (c \div 8) = IF c = 8 THEN n ELSE s
            BY <2>1
        <2>3. QED
            BY <2>2 DEF c, s
    <1>4. QED
        BY <1>1, <1>3

\* A window on ifma: with a half group it makes a group, else it waits.
LEMMA IfmaAbsorb4Inv ==
    ASSUME Inv, IfmaAbsorb4
    PROVE  Inv'
    <1>1. /\ pc = "stream" /\ backend = "ifma" /\ n' = n + 4
          /\ Len(cached) % 4 = 0 /\ n + 4 <= MaxBlocks
          /\ UNCHANGED <<backend, pc, left, owed>>
        BY DEF IfmaAbsorb4, WindowFits
    <1> DEFINE s == Streamed
               c == Len(cached)
    <1>2. /\ Vector /\ owed = 0 /\ left \in 0..MaxWindows /\ LaneCount = 8
          /\ n \in Nat /\ s \in Nat /\ c \in 0..8 /\ n = s + c /\ c % 4 = 0
          /\ s % 8 = 0 /\ live \in BOOLEAN /\ (live <=> s > 0) /\ lanes = Dealing(s)
        BY <1>1, AtStream, LaneCounts
    <1>3. /\ FoldedAll(lanes, live, cached) = IF c = 8 THEN Dealing(n) ELSE Dealing(s)
          /\ \A i \in 1..(c + 4) : (cached \o Fresh(4))[i] = s + i
        BY <1>1, IfmaCacheFolds, CacheThenFresh
    <1>4. /\ Fresh(4) \in Seq(Nat) /\ Len(Fresh(4)) = 4
          /\ \A i \in 1..4 : Fresh(4)[i] = n + i
        BY <1>2, FreshIs
    <1>5. CASE c = 4
        <2>1. lanes' = Process8(lanes, live, cached \o Fresh(4)) /\ live' = TRUE /\ cached' = << >>
            BY <1>5 DEF IfmaAbsorb4
        <2> HIDE DEF s, c
        <2>2. Process8(Dealing(s), live, cached \o Fresh(4)) = Dealing(s + 8)
            <3> DEFINE g == cached \o Fresh(4)
            <3>0. \A i \in 1..(c + 4) : g[i] = s + i
                BY <1>3
            <3> HIDE DEF g
            <3>1. (\A i \in 1..8 : g[i] = s + i) /\ (live \/ s = 0)
                BY <1>2, <1>5, <3>0
            <3>2. Process8(Dealing(s), live, g) = Dealing(s + 8)
                BY <1>1, <1>2, <3>1, IfmaFolds
            <3>3. QED
                BY <3>2 DEF g
        <2>3. /\ s + 8 \in Nat /\ (s + 8) % LaneCount = 0 /\ cached' \in Seq(Nat) /\ Len(cached') = 0
              /\ n' = s + 8 + Len(cached') /\ live' \in BOOLEAN /\ (live' <=> s + 8 > 0)
              /\ lanes' = Dealing(s + 8) /\ n' <= MaxBlocks
            BY <1>1, <1>2, <1>5, <2>1, <2>2
        <2>4. QED
            BY <1>1, <1>2, <2>3, ToStream
    <1>6. CASE c # 4
        <2>0. /\ lanes' = FoldedAll(lanes, live, cached) /\ (live' = (live \/ c = 8))
              /\ cached' = Fresh(4)
            BY <1>6 DEF IfmaAbsorb4, CacheSize
        <2>1. /\ lanes' = FoldedAll(lanes, live, cached)
              /\ live' \in BOOLEAN /\ (live' <=> live \/ c = 8)
              /\ cached' = Fresh(4)
            BY <2>0, Zenon
        <2> HIDE DEF s, c
        <2>2. (c = 0 \/ c = 8) /\ n % LaneCount = 0 /\ (c = 0 => n = s)
            BY <1>2, <1>6
        <2>3. lanes' = Dealing(n)
            BY <1>3, <2>1, <2>2
        <2>4. live' \in BOOLEAN /\ (live' <=> n > 0)
            BY <1>2, <2>1, <2>2
        <2>5. /\ cached' \in Seq(Nat) /\ Len(cached') \in 0..8 /\ n' = n + Len(cached') /\ n' <= MaxBlocks
              /\ \A i \in 1..Len(cached') : cached'[i] = n + i
            <3>1. /\ cached' \in Seq(Nat) /\ Len(cached') = 4
                  /\ \A i \in 1..4 : cached'[i] = n + i
                BY <1>4, <2>1
            <3>2. QED
                BY <1>1, <3>1
        <2>6. QED
            BY <1>1, <1>2, <2>2, <2>3, <2>4, <2>5, ToStream
    <1>7. QED
        BY <1>5, <1>6

\* A bulk run begins: the three ways a cache of whole windows goes, each on a
\* fresh stream and on one with live lanes.
LEMMA BulkEnterInv ==
    ASSUME Inv, NEW w \in 0..MaxWindows, BulkEnter(w)
    PROVE  Inv'
    <1> DEFINE s == Streamed
               c == Len(cached)
               fuse == c = 4 /\ w > 0
               v == IF fuse THEN Process8(lanes, live, cached \o Fresh(4))
                    ELSE FoldedAll(lanes, live, cached)
               on == live \/ fuse \/ c = 8
               rest == IF fuse THEN w - 1 ELSE w
               load == rest >= 2 /\ ~on
    <1>0. live' = (on \/ load)
        BY DEF BulkEnter, CacheSize
    <1>1. /\ pc = "stream" /\ backend = "ifma" /\ c % 4 = 0 /\ n + 4 * w <= MaxBlocks
          /\ cached' = (IF c = 4 /\ ~fuse THEN cached ELSE << >>)
          /\ live' \in BOOLEAN /\ (live' <=> on \/ load)
          /\ regs' = (IF load THEN Load8(Fresh(8)) ELSE v)
          /\ n' = n + (IF fuse THEN 4 ELSE 0) + (IF load THEN 8 ELSE 0)
          /\ left' = (IF load THEN rest - 2 ELSE rest)
          /\ pc' = "bulk" /\ backend' = backend /\ owed' = owed
        <2>1. live' \in BOOLEAN /\ (live' <=> on \/ load)
            BY <1>0, Zenon
        <2>2. QED
            BY <2>1 DEF BulkEnter, CacheSize
    <1>2. /\ owed = 0 /\ w \in Nat /\ w <= MaxWindows /\ Vector /\ LaneCount = 8
          /\ n \in Nat /\ s \in Nat /\ c \in 0..8 /\ n = s + c
          /\ s % 8 = 0 /\ live \in BOOLEAN /\ (live <=> s > 0) /\ lanes = Dealing(s)
        BY <1>1, AtStream, LaneCounts, BoundsAssumption
    <1>3. /\ FoldedAll(lanes, live, cached) = IF c = 8 THEN Dealing(n) ELSE Dealing(s)
          /\ \A i \in 1..(c + 4) : (cached \o Fresh(4))[i] = s + i
          /\ cached \in Seq(Nat) /\ \A i \in 1..c : cached[i] = s + i
        BY <1>1, IfmaCacheFolds, CacheThenFresh, AtStream
    <1>4. \A i \in 1..8 : Fresh(8)[i] = n + i
        BY <1>2, FreshIs
    <1>5. c = 0 \/ c = 4 \/ c = 8
        <2>1. c \in 0..8 /\ c % 4 = 0
            BY <1>1, <1>2
        <2> HIDE DEF c
        <2>2. QED
            BY <2>1
    <1>6. CASE fuse
        <2>1. Process8(Dealing(s), live, cached \o Fresh(4)) = Dealing(s + 8)
            <3> DEFINE g == cached \o Fresh(4)
            <3>3. \A i \in 1..(c + 4) : g[i] = s + i
                BY <1>3
            <3>4. c = 4
                BY <1>6
            <3> HIDE DEF c, s, g
            <3>1. (\A i \in 1..8 : g[i] = s + i) /\ (live \/ s = 0)
                BY <1>2, <3>3, <3>4
            <3>2. Process8(Dealing(s), live, g) = Dealing(s + 8)
                BY <1>1, <1>2, <3>1, IfmaFolds
            <3>5. QED
                BY <3>2 DEF g
        <2>2. /\ cached' = << >> /\ live' = TRUE /\ left' = w - 1 /\ n' = n + 4
              /\ regs' = Process8(lanes, live, cached \o Fresh(4))
            <3>1. on /\ ~load /\ rest = w - 1 /\ v = Process8(lanes, live, cached \o Fresh(4))
                BY <1>6
            <3> HIDE DEF fuse, v, on, rest, load, c
            <3>2. QED
                BY <1>1, <1>2, <1>6, <3>1
        <2> HIDE DEF s, c
        <2>3. c = 4 /\ w > 0
            BY <1>6
        <2>4. /\ s + 8 \in Nat /\ (s + 8) % LaneCount = 0 /\ cached' \in Seq(Nat) /\ Len(cached') = 0
              /\ n' = s + 8 + Len(cached') /\ n' + 4 * left' <= MaxBlocks
              /\ left' \in 0..MaxWindows
              /\ live' \in BOOLEAN /\ (live' <=> s + 8 > 0) /\ regs' = Dealing(s + 8)
            BY <1>1, <1>2, <2>1, <2>2, <2>3, BoundsAssumption
        <2>5. QED
            BY <1>1, <1>2, <2>2, <2>4, ToBulk
    <1>7. CASE ~fuse /\ load
        <2>1. ~live /\ c # 8 /\ c # 4 /\ rest = w /\ w >= 2
            BY <1>2, <1>7
        <2>2. c = 0 /\ s = 0 /\ n = 0
            BY <1>2, <1>5, <2>1
        <2>3. /\ cached' = << >> /\ live' = TRUE /\ left' = w - 2 /\ n' = 8
              /\ regs' = Load8(Fresh(8))
            <3> HIDE DEF fuse, v, on, rest, load, c
            <3>1. QED
                BY <1>1, <1>2, <1>7, <2>1, <2>2
        <2>4. Load8(Fresh(8)) = Dealing(8)
            <3> DEFINE g == Fresh(8)
            <3>1. \A i \in 1..8 : g[i] = 0 + i
                BY <1>4, <2>2
            <3> HIDE DEF g
            <3>2. FALSE \in BOOLEAN /\ (FALSE \/ 0 = 0) /\ 0 % 8 = 0 /\ 0 \in Nat
                OBVIOUS
            <3>4. ~FALSE => Load8(g) = Dealing(0 + 8)
                BY <1>1, <3>1, <3>2, IfmaFolds
            <3>5. 0 + 8 = 8
                OBVIOUS
            <3>6. QED
                BY <3>4, <3>5 DEF g
        <2>5. /\ 8 \in Nat /\ 8 % LaneCount = 0 /\ cached' \in Seq(Nat) /\ Len(cached') = 0
              /\ n' = 8 + Len(cached') /\ n' + 4 * left' <= MaxBlocks
              /\ left' \in 0..MaxWindows
              /\ live' \in BOOLEAN /\ (live' <=> 8 > 0) /\ regs' = Dealing(8)
            <3> HIDE DEF s, c
            <3>1. w >= 2
                BY <2>1
            <3>2. QED
                BY <1>1, <1>2, <2>2, <2>3, <2>4, <3>1, BoundsAssumption
        <2>6. QED
            BY <1>1, <1>2, <2>3, <2>5, ToBulk
    <1>8. CASE ~fuse /\ ~load
        <2>1. /\ cached' = (IF c = 4 THEN cached ELSE << >>)
              /\ live' \in BOOLEAN /\ (live' <=> live \/ c = 8)
              /\ left' = w /\ n' = n /\ regs' = FoldedAll(lanes, live, cached)
              /\ (c = 4 => w = 0) /\ (w >= 2 => live \/ c = 8)
            BY <1>1, <1>2, <1>8
        <2>2. left' \in 0..MaxWindows /\ owed' = 0 /\ pc' = "bulk" /\ backend' = backend
            BY <1>1, <1>2, <2>1
        <2> HIDE DEF s, c
        <2>3. CASE c = 8
            <3>1. /\ n % LaneCount = 0 /\ regs' = Dealing(n) /\ cached' = << >>
                BY <1>2, <1>3, <2>1, <2>3
            <3>2. /\ cached' \in Seq(Nat) /\ Len(cached') = 0 /\ n' = n + Len(cached')
                  /\ n' + 4 * left' <= MaxBlocks /\ live' \in BOOLEAN /\ (live' <=> n > 0)
                  /\ (left' >= 2 => live')
                <4>1. Len(cached') = 0 /\ cached' \in Seq(Nat)
                    BY <3>1
                <4>2. n > 0 /\ n' = n /\ left' = w
                    BY <1>2, <2>1, <2>3
                <4>3. QED
                    BY <1>1, <1>2, <2>1, <2>3, <4>1, <4>2
            <3>3. \A i \in 1..Len(cached') : cached'[i] = n + i
                BY <3>2
            <3>4. left' > 0 => cached' = << >>
                BY <3>1
            <3>5. Len(cached') \in 0..8
                BY <3>2
            <3>6. QED
                BY <1>1, <1>2, <2>2, <3>1, <3>2, <3>3, <3>4, <3>5, ToBulk
        <2>4. CASE c # 8
            <3>1. regs' = Dealing(s) /\ live' = live /\ s % LaneCount = 0
                BY <1>2, <1>3, <2>1, <2>4
            <3>2. /\ cached' \in Seq(Nat) /\ Len(cached') = c
                  /\ \A i \in 1..Len(cached') : cached'[i] = s + i
                  /\ (left' > 0 => cached' = << >>)
                <4>1. CASE c = 4
                    <5>1. cached' = cached /\ left' = 0 /\ Len(cached) = c
                        BY <2>1, <4>1 DEF c
                    <5>2. QED
                        BY <1>3, <5>1
                <4>2. CASE c = 0
                    BY <1>2, <2>1, <4>2
                <4>3. QED
                    BY <1>5, <2>4, <4>1, <4>2
            <3>3. /\ n' = s + Len(cached') /\ Len(cached') \in 0..8
                  /\ n' + 4 * left' <= MaxBlocks /\ (left' >= 2 => live')
                  /\ live' \in BOOLEAN /\ (live' <=> s > 0)
                BY <1>1, <1>2, <2>1, <2>4, <3>1, <3>2
            <3>4. QED
                BY <1>1, <1>2, <2>2, <3>1, <3>2, <3>3, ToBulk
        <2>5. QED
            BY <2>3, <2>4
    <1>9. QED
        BY <1>6, <1>7, <1>8
\* A round in registers.
LEMMA BulkRoundInv ==
    ASSUME Inv, BulkRound
    PROVE  Inv'
    <1> DEFINE s == Streamed
    <1>1. /\ pc = "bulk" /\ left >= 2 /\ regs' = IfmaRound(regs, Fresh(8))
          /\ n' = n + 8 /\ left' = left - 2
          /\ UNCHANGED <<backend, pc, cached, live, owed>>
        BY DEF BulkRound
    <1>2. /\ backend = "ifma" /\ owed = 0 /\ cached = << >> /\ live = TRUE
          /\ left \in 0..MaxWindows /\ n \in Nat /\ n + 4 * left <= MaxBlocks
          /\ regs = Dealing(s) /\ s % LaneCount = 0
        BY <1>1, BoundsAssumption DEF Inv, Scalars, Bulk, DealtNow
    <1>3. s = n /\ LaneCount = 8
        <2>1. Len(cached) = 0
            BY <1>2
        <2>2. QED
            BY <1>2, <2>1 DEF Streamed, LaneCount
    <1> HIDE DEF s
    <1>4. \A i \in 1..8 : Fresh(8)[i] = n + i
        BY <1>2, FreshIs
    <1>5. IfmaRound(Dealing(n), Fresh(8)) = Dealing(n + 8)
        <2> DEFINE g == Fresh(8)
        <2>1. (\A i \in 1..8 : g[i] = n + i) /\ n % 8 = 0 /\ TRUE \in BOOLEAN
            BY <1>2, <1>3, <1>4
        <2> HIDE DEF g
        <2>2. TRUE => IfmaRound(Dealing(n), g) = Dealing(n + 8)
            BY <1>2, <2>1, IfmaFolds
        <2>3. QED
            BY <2>2 DEF g
    <1>6. /\ n + 8 \in Nat /\ (n + 8) % LaneCount = 0 /\ n' + 4 * left' <= MaxBlocks
          /\ left' \in 0..MaxWindows /\ live' \in BOOLEAN /\ (live' <=> n + 8 > 0)
        BY <1>1, <1>2, <1>3, BoundsAssumption
    <1>7. cached' \in Seq(Nat) /\ Len(cached') = 0 /\ n' = n + 8 + Len(cached')
        BY <1>1, <1>2
    <1>8. regs' = Dealing(n + 8) /\ cached' = << >> /\ live' = TRUE
        BY <1>1, <1>2, <1>3, <1>5
    <1>9. QED
        BY <1>1, <1>2, <1>6, <1>7, <1>8, ToBulk

\* The end of a bulk run: the registers back, a lone window to the cache.
LEMMA BulkLeaveInv ==
    ASSUME Inv, BulkLeave
    PROVE  Inv'
    <1> DEFINE s == Streamed
    <1>1. /\ pc = "bulk" /\ left < 2 /\ lanes' = regs /\ n' = n + 4 * left /\ left' = 0
          /\ cached' = (IF left = 1 THEN Fresh(4) ELSE cached)
          /\ pc' = "stream" /\ UNCHANGED <<backend, live, owed>>
        BY DEF BulkLeave
    <1>2. /\ backend = "ifma" /\ owed = 0 /\ (left > 0 => cached = << >>)
          /\ live \in BOOLEAN /\ (live <=> s > 0)
          /\ left \in 0..MaxWindows /\ n \in Nat /\ n + 4 * left <= MaxBlocks
          /\ regs = Dealing(s) /\ s % LaneCount = 0
        BY <1>1, BoundsAssumption DEF Inv, Scalars, Bulk, DealtNow
    <1>3. /\ cached \in Seq(Nat) /\ Len(cached) \in 0..8 /\ s \in Nat /\ n = s + Len(cached)
          /\ \A i \in 1..Len(cached) : cached[i] = s + i
        BY <1>2 DEF Inv, CacheKept, CacheSize, Streamed
    <1> HIDE DEF s
    <1>4. Vector /\ 0 \in 0..MaxWindows
        BY <1>2, BoundsAssumption DEF Vector
    <1>5. CASE left = 1
        <2>1. s = n
            <3>1. Len(cached) = 0
                BY <1>2, <1>5
            <3>2. QED
                BY <1>3, <3>1
        <2>2. /\ Fresh(4) \in Seq(Nat) /\ Len(Fresh(4)) = 4
              /\ \A i \in 1..4 : Fresh(4)[i] = n + i
            BY <1>2, FreshIs
        <2>3. /\ cached' \in Seq(Nat) /\ Len(cached') = 4
              /\ \A i \in 1..4 : cached'[i] = n + i
            BY <1>1, <1>5, <2>2
        <2>4. /\ Len(cached') \in 0..8 /\ n' = n + Len(cached') /\ n' <= MaxBlocks
              /\ \A i \in 1..Len(cached') : cached'[i] = n + i
            <3>1. n' = n + 4 /\ n' <= MaxBlocks
                BY <1>1, <1>2, <1>5
            <3>2. QED
                BY <2>3, <3>1
        <2>5. n % LaneCount = 0 /\ lanes' = Dealing(n) /\ live' \in BOOLEAN /\ (live' <=> n > 0)
            BY <1>1, <1>2, <2>1
        <2>6. QED
            BY <1>1, <1>2, <1>4, <2>3, <2>4, <2>5, ToStream
    <1>6. CASE left = 0
        <2>1. /\ cached' = cached /\ n' = n /\ lanes' = Dealing(s) /\ live' = live
            BY <1>1, <1>2, <1>6
        <2>2. n' <= MaxBlocks
            BY <1>2, <1>6, <2>1
        <2>3. QED
            BY <1>1, <1>2, <1>3, <1>4, <2>1, <2>2, ToStream
    <1>7. QED
        BY <1>1, <1>2, <1>5, <1>6

\* A group straight from a fused kernel.
LEMMA FusedRoundInv ==
    ASSUME Inv, FusedRound
    PROVE  Inv'
    <1> DEFINE s == Streamed
    <1>1. /\ pc = "stream" /\ backend = "ifma" /\ cached = << >> /\ n + 8 <= MaxBlocks /\ n' = n + 8
          /\ lanes' = IfmaRound(IF live THEN lanes ELSE Empty, Fresh(8))
          /\ live' = TRUE
          /\ UNCHANGED <<backend, pc, cached, left, owed>>
        BY DEF FusedRound
    <1>2. /\ Vector /\ owed = 0 /\ left \in 0..MaxWindows /\ LaneCount = 8
          /\ n \in Nat /\ s \in Nat /\ n = s + Len(cached)
          /\ s % LaneCount = 0 /\ live \in BOOLEAN /\ (live <=> s > 0) /\ lanes = Dealing(s)
        BY <1>1, AtStream, LaneCounts
    <1>3. s = n
        <2>1. Len(cached) = 0
            BY <1>1
        <2>2. QED
            BY <1>2, <2>1
    <1> HIDE DEF s
    <1>4. (IF live THEN lanes ELSE Empty) = Dealing(n)
        <2>1. CASE live
            BY <1>2, <1>3, <2>1
        <2>2. CASE ~live
            <3>1. n = 0
                BY <1>2, <1>3, <2>2
            <3>2. QED
                BY <1>2, <2>2, <3>1, DealingNothing
        <2>3. QED
            BY <2>1, <2>2
    <1>5. IfmaRound(Dealing(n), Fresh(8)) = Dealing(n + 8)
        <2> DEFINE g == Fresh(8)
        <2>1. (\A i \in 1..8 : g[i] = n + i) /\ n % 8 = 0 /\ TRUE \in BOOLEAN
            BY <1>2, <1>3, FreshIs
        <2> HIDE DEF g
        <2>2. TRUE => IfmaRound(Dealing(n), g) = Dealing(n + 8)
            BY <1>1, <1>2, <2>1, IfmaFolds
        <2>3. QED
            BY <2>2 DEF g
    <1>6. /\ n + 8 \in Nat /\ (n + 8) % LaneCount = 0 /\ n' <= MaxBlocks
          /\ live' \in BOOLEAN /\ (live' <=> n + 8 > 0)
        BY <1>1, <1>2, <1>3
    <1>7. cached' \in Seq(Nat) /\ Len(cached') = 0 /\ n' = n + 8 + Len(cached')
        BY <1>1, <1>2
    <1>8. lanes' = Dealing(n + 8)
        BY <1>1, <1>4, <1>5
    <1>9. QED
        BY <1>1, <1>2, <1>6, <1>7, <1>8, ToStream

\* A step of finalize_into that leaves the blocks of the stream alone.
LEMMA ToFold ==
    ASSUME Inv, backend # "soft", NEW m \in Nat,
           backend' = backend, pc' = "fold", n' = n, left' = left, live' \in BOOLEAN,
           owed' \in {0, 1}, owed' = 1 => backend = "neon",
           cached' \in Seq(Nat), Len(cached') \in 0..8,
           \A i \in 1..Len(cached') : cached'[i] = m + i,
           n = m + Len(cached'),
           acc' = Terms(1..m, m + 1 - owed')
    PROVE  Streamed' = m /\ Inv'
    <1>1. Streamed' = m /\ Len(cached') \in Nat
        BY DEF Streamed
    <1>2. Scalars'
        BY DEF Inv, Scalars
    <1>3. CacheKept'
        BY <1>1 DEF CacheKept, CacheSize
    <1>4. Folding'
        BY <1>1 DEF Folding
    <1>5. QED
        BY <1>1, <1>2, <1>3, <1>4 DEF Inv, Streaming, Bulk, Finished

LEMMA SoftFinalizeInv ==
    ASSUME Inv, SoftFinalize
    PROVE  Inv'
    <1>1. /\ pc = "stream" /\ backend = "soft" /\ tag' = lanes[0] /\ pc' = "done"
          /\ UNCHANGED <<backend, n, cached, lanes, live, regs, left, acc, owed>>
        BY DEF SoftFinalize
    <1>2. cached = << >> /\ lanes = [l \in Lanes |-> Evaluated(n)] /\ 0 \in Lanes
        BY <1>1 DEF Inv, Streaming, Lanes, LaneCount
    <1>3. tag' = Evaluated(n)
        BY <1>1, <1>2
    <1>4. Evaluated(n)' = Evaluated(n)
        BY <1>1 DEF Evaluated
    <1>5. Scalars' /\ CacheKept'
        BY <1>1 DEF Inv, Scalars, CacheKept, Streamed
    <1>6. QED
        BY <1>1, <1>2, <1>3, <1>4, <1>5 DEF Inv, Streaming, Bulk, Folding, Finished

\* The weighted lanes of avx2 and ifma.
LEMMA FinalizeLanesInv ==
    ASSUME Inv, FinalizeLanes
    PROVE  Inv'
    <1> DEFINE s == Streamed
    <1>1. /\ pc = "stream" /\ backend \in {"avx2", "ifma"} /\ live' = FALSE /\ pc' = "fold"
          /\ acc' = (IF live THEN Collapsed(lanes) ELSE Zero)
          /\ UNCHANGED <<backend, n, cached, lanes, regs, left, owed, tag>>
        BY DEF FinalizeLanes
    <1>2. /\ Vector /\ owed = 0
          /\ n \in Nat /\ s \in Nat /\ Len(cached) \in 0..8 /\ n = s + Len(cached)
          /\ cached \in Seq(Nat) /\ \A i \in 1..Len(cached) : cached[i] = s + i
          /\ s % LaneCount = 0 /\ live \in BOOLEAN /\ (live <=> s > 0) /\ lanes = Dealing(s)
        BY <1>1, AtStream
    <1> HIDE DEF s
    <1>3. acc' = Terms(1..s, s + 1 - 0)
        <2>1. CASE live
            <3>1. Collapsed(Dealing(s)) = Terms(1..s, s + 1 - Late) /\ Late = 0
                BY <1>1, <1>2, CollapsedDealing DEF Late
            <3>2. QED
                BY <1>1, <1>2, <2>1, <3>1
        <2>2. CASE ~live
            <3>1. 1..s = {}
                BY <1>2, <2>2
            <3>2. Terms(1..s, s + 1 - 0) = Zero
                BY <3>1 DEF Terms, Zero
            <3>3. QED
                BY <1>1, <2>2, <3>2
        <2>3. QED
            BY <2>1, <2>2
    <1>4. /\ owed' \in {0, 1} /\ owed' = 0 /\ live' \in BOOLEAN /\ cached' = cached
          /\ acc' = Terms(1..s, s + 1 - owed')
        BY <1>1, <1>2, <1>3
    <1>5. QED
        BY <1>1, <1>2, <1>4, ToFold

\* What is left of the cache when its first j blocks are gone.
LEMMA CacheRest ==
    ASSUME Inv, NEW j \in 0..Len(cached)
    PROVE  /\ SubSeq(cached, j + 1, Len(cached)) \in Seq(Nat)
           /\ Len(SubSeq(cached, j + 1, Len(cached))) = Len(cached) - j
           /\ \A i \in 1..(Len(cached) - j) :
                  SubSeq(cached, j + 1, Len(cached))[i] = Streamed + j + i
    <1> DEFINE s == Streamed
               c == Len(cached)
               a == j + 1
               rest == SubSeq(cached, a, c)
    <1>1. /\ c \in 0..8 /\ s \in Int /\ j \in Nat /\ j <= c
          /\ \A i \in 1..c : cached[i] \in Nat /\ cached[i] = s + i
        BY DEF Inv, Scalars, CacheKept, CacheSize, Streamed
    <1> HIDE DEF s, c
    <1>2. /\ a \in Int /\ c \in Int /\ c - a + 1 = c - j
          /\ (IF a <= c THEN c - a + 1 ELSE 0) = c - j
          /\ \A i \in a..c : i \in 1..c
          /\ \A i \in 1..(c - j) : a + i - 1 \in 1..c /\ s + (a + i - 1) = s + j + i
        BY <1>1
    <1> HIDE DEF a
    <1>3. \A i \in a..c : cached[i] \in Nat
        BY <1>1, <1>2
    <1>4. /\ rest \in Seq(Nat)
          /\ Len(rest) = (IF a <= c THEN c - a + 1 ELSE 0)
          /\ \A i \in 1..(c - a + 1) : rest[i] = cached[a + i - 1]
        BY <1>2, <1>3, SubSeqProperties
    <1> HIDE DEF rest
    <1>5. \A i \in 1..(c - j) : rest[i] = s + j + i
        BY <1>1, <1>2, <1>4
    <1>6. QED
        BY <1>2, <1>4, <1>5 DEF rest, a, c, s

\* The weighted lanes of neon, a factor r short, with the whole groups of the
\* cache if there are lanes at all.
LEMMA NeonFinalizeLanesInv ==
    ASSUME Inv, NeonFinalizeLanes
    PROVE  Inv'
    <1> DEFINE s == Streamed
               c == Len(cached)
               k == Groups(cached)
    <1>1. /\ pc = "stream" /\ backend = "neon" /\ live' = FALSE /\ pc' = "fold"
          /\ UNCHANGED <<backend, n, lanes, regs, left, tag>>
        BY DEF NeonFinalizeLanes
    <1>2. /\ Vector /\ owed = 0 /\ LaneCount = 4
          /\ n \in Nat /\ s \in Nat /\ c \in 0..8 /\ n = s + c
          /\ cached \in Seq(Nat) /\ \A i \in 1..c : cached[i] = s + i
          /\ s % LaneCount = 0 /\ live \in BOOLEAN /\ (live <=> s > 0) /\ lanes = Dealing(s)
        BY <1>1, AtStream, LaneCounts
    <1>3. FoldedAll(lanes, live, cached) = Dealing(s + 4 * k)
        BY <1>1, <1>2, CacheFolds
    <1>4. k = c \div 4
        BY <1>2 DEF Groups
    <1> HIDE DEF s, c, k
    <1>5. k \in 0..2 /\ 4 * k <= c /\ (s + 4 * k) % 4 = 0 /\ s + 4 * k \in Nat
        BY <1>2, <1>4
    <1>6. CASE live
        <2> DEFINE m == s + 4 * k
        <2>1. /\ acc' = Collapsed(FoldedAll(lanes, TRUE, cached))
              /\ cached' = SubSeq(cached, 4 * k + 1, c) /\ owed' = 1
            BY <1>6 DEF NeonFinalizeLanes, k, c
        <2>2. acc' = Terms(1..m, m + 1 - 1)
            <3>1. live = TRUE
                BY <1>2, <1>6
            <3>2. FoldedAll(lanes, TRUE, cached) = Dealing(m)
                BY <1>3, <3>1
            <3>3. Collapsed(Dealing(m)) = Terms(1..m, m + 1 - Late) /\ Late = 1
                BY <1>1, <1>2, <1>5, CollapsedDealing DEF Late
            <3>4. QED
                BY <2>1, <3>2, <3>3
        <2>3. /\ cached' \in Seq(Nat) /\ Len(cached') = c - 4 * k
              /\ \A i \in 1..(c - 4 * k) : cached'[i] = m + i
            <3> DEFINE j == 4 * k
            <3>1. j \in 0..Len(cached)
                BY <1>2, <1>5 DEF c
            <3> HIDE DEF j
            <3>2. QED
                BY <2>1, <3>1, CacheRest DEF j, c, s
        <2>4. \A i \in 1..Len(cached') : cached'[i] = m + i
            BY <2>3
        <2>5. Len(cached') \in 0..8 /\ n = m + Len(cached') /\ m \in Nat
            BY <1>2, <1>5, <2>3
        <2> HIDE DEF m
        <2>6. QED
            BY <1>1, <2>1, <2>2, <2>3, <2>4, <2>5, ToFold
    <1>7. CASE ~live
        <2>1. acc' = Zero /\ cached' = cached /\ owed' = owed
            BY <1>7 DEF NeonFinalizeLanes
        <2>2. s = 0
            BY <1>2, <1>7
        <2>3. 1..s = {}
            BY <2>2
        <2>4. Terms(1..s, s + 1 - owed') = Zero
            BY <2>3 DEF Terms, Zero
        <2>5. QED
            BY <1>1, <1>2, <2>1, <2>4, ToFold DEF c
    <1>8. QED
        BY <1>6, <1>7

\* avx2 takes two blocks of the cache at a time.
LEMMA FoldPairInv ==
    ASSUME Inv, FoldPair
    PROVE  Inv'
    <1> DEFINE m == Streamed
               c == Len(cached)
    <1>1. /\ pc = "fold" /\ backend = "avx2" /\ c >= 2
          /\ acc' = Plus(Times(Plus(acc, Block(cached[1])), 2), Times(Block(cached[2]), 1))
          /\ cached' = SubSeq(cached, 3, c)
          /\ UNCHANGED <<backend, pc, n, lanes, live, regs, left, owed, tag>>
        BY DEF FoldPair
    <1>2. /\ owed = 0 /\ acc = Terms(1..m, m + 1 - owed) /\ live \in BOOLEAN
          /\ n \in Nat /\ m \in Nat /\ c \in 0..8 /\ n = m + c
          /\ \A i \in 1..c : cached[i] = m + i
        BY <1>1, BoundsAssumption DEF Inv, Scalars, CacheKept, CacheSize, Folding, Streamed
    <1>3. /\ cached' \in Seq(Nat) /\ Len(cached') = c - 2
          /\ \A i \in 1..(c - 2) : cached'[i] = m + 2 + i
        <2> DEFINE j == 2
        <2>1. j \in 0..c /\ j + 1 = 3
            BY <1>1, <1>2
        <2> HIDE DEF j
        <2>2. QED
            BY <1>1, <2>1, CacheRest DEF j
    <1> HIDE DEF m, c
    <1>4. cached[1] = m + 1 /\ cached[2] = m + 2
        BY <1>1, <1>2
    <1>5. acc' = Terms(1..(m + 2), m + 2 + 1 - owed')
        <2> DEFINE a == m + 1
                   b == m + 2
                   d == m + 3
        <2>1. /\ a \in Nat /\ b \in Nat /\ d \in Nat /\ a + 2 = d /\ b + 1 = d /\ m + 1 - 0 = a
              /\ m + 2 + 1 - 0 = d /\ a + 1 = b
              /\ \A x \in 1..a : x <= a
              /\ \A x \in {b} : x <= b
              /\ (1..a) \cap {b} = {} /\ (1..a) \cup {b} = 1..b
            BY <1>2
        <2>2. Plus(Terms(1..m, a), Block(a)) = Terms(1..a, a)
            BY <1>2, AddBlock
        <2> HIDE DEF a, b, d
        <2>3. Times(Terms(1..a, a), 2) = Terms(1..a, d)
            <3>1. Times(Terms(1..a, a), 2) = Terms(1..a, a + 2)
                BY <2>1, TimesTerms
            <3>2. QED
                BY <2>1, <3>1
        <2>4. Times(Block(b), 1) = Terms({b}, d)
            <3>1. Block(b) = Terms({b}, b)
                BY <2>1, BlockTerms
            <3>2. Times(Terms({b}, b), 1) = Terms({b}, b + 1)
                BY <2>1, TimesTerms
            <3>3. QED
                BY <2>1, <3>1, <3>2
        <2>5. Plus(Terms(1..a, d), Terms({b}, d)) = Terms(1..b, d)
            <3>1. Plus(Terms(1..a, d), Terms({b}, d)) = Terms((1..a) \cup {b}, d)
                BY <2>1, PlusTerms
            <3>2. QED
                BY <2>1, <3>1
        <2>6. acc = Terms(1..m, a) /\ cached[1] = a /\ cached[2] = b
            BY <1>2, <1>4, <2>1 DEF a, b
        <2>7. acc' = Terms(1..b, d) /\ owed' = 0
            BY <1>1, <1>2, <2>2, <2>3, <2>4, <2>5, <2>6
        <2>8. QED
            BY <2>1, <2>7 DEF b
    <1>6. /\ m + 2 \in Nat /\ Len(cached') \in 0..8 /\ n = m + 2 + Len(cached')
          /\ \A i \in 1..Len(cached') : cached'[i] = m + 2 + i
        BY <1>1, <1>2, <1>3
    <1>7. owed' \in {0, 1} /\ owed' # 1 /\ live' \in BOOLEAN
        BY <1>1, <1>2
    <1>8. QED
        BY <1>1, <1>3, <1>5, <1>6, <1>7, ToFold

\* One block of the cache.
LEMMA FoldBlockInv ==
    ASSUME Inv, FoldBlock
    PROVE  Inv'
    <1> DEFINE m == Streamed
               c == Len(cached)
    <1>1. /\ pc = "fold" /\ cached # << >>
          /\ acc' = (IF owed = 1 THEN Plus(Times(acc, 1), Block(cached[1]))
                     ELSE Times(Plus(acc, Block(cached[1])), 1))
          /\ cached' = Tail(cached)
          /\ UNCHANGED <<backend, pc, n, lanes, live, regs, left, owed, tag>>
        BY DEF FoldBlock
    <1>2. /\ backend # "soft" /\ owed \in {0, 1} /\ (owed = 1 => backend = "neon")
          /\ acc = Terms(1..m, m + 1 - owed) /\ live \in BOOLEAN
          /\ n \in Nat /\ m \in Nat /\ c \in 0..8 /\ n = m + c /\ cached \in Seq(Nat)
          /\ \A i \in 1..c : cached[i] = m + i
        BY <1>1, BoundsAssumption DEF Inv, Scalars, CacheKept, CacheSize, Folding, Streamed
    <1>3. /\ cached' \in Seq(Nat) /\ Len(cached') = c - 1
          /\ \A i \in 1..(c - 1) : cached'[i] = cached[i + 1]
        BY <1>1, <1>2, HeadTailProperties
    <1>4. c \in 1..8 /\ cached[1] = m + 1
        BY <1>1, <1>2
    <1> HIDE DEF m, c
    <1>5. acc' = Terms(1..(m + 1), m + 1 + 1 - owed')
        <2> DEFINE a == m + 1
        <2>1. /\ a \in Nat /\ m + 1 - 0 = a /\ m + 1 - 1 = m /\ m + 1 + 1 - 0 = a + 1 /\ m + 1 + 1 - 1 = a
              /\ \A x \in 1..a : x <= a
              /\ \A x \in 1..m : x <= m
            BY <1>2
        <2>2. Plus(Terms(1..m, a), Block(a)) = Terms(1..a, a)
            BY <1>2, AddBlock
        <2>3. Times(Terms(1..m, m), 1) = Terms(1..m, a)
            BY <1>2, <2>1, TimesTerms
        <2> HIDE DEF a
        <2>4. Times(Terms(1..a, a), 1) = Terms(1..a, a + 1)
            BY <2>1, TimesTerms
        <2>5. cached[1] = a
            BY <1>4 DEF a
        <2>6. CASE owed = 0
            BY <1>1, <1>2, <2>1, <2>2, <2>4, <2>5, <2>6 DEF a
        <2>7. CASE owed = 1
            BY <1>1, <1>2, <2>1, <2>2, <2>3, <2>5, <2>7 DEF a
        <2>8. QED
            BY <1>2, <2>6, <2>7
    <1>6. /\ m + 1 \in Nat /\ Len(cached') \in 0..8 /\ n = m + 1 + Len(cached')
          /\ \A i \in 1..Len(cached') : cached'[i] = m + 1 + i
        <2>1. \A i \in 1..(c - 1) : i + 1 \in 1..c /\ m + (i + 1) = m + 1 + i
            BY <1>2, <1>4
        <2>2. \A i \in 1..(c - 1) : cached'[i] = m + 1 + i
            BY <1>2, <1>3, <2>1
        <2>3. QED
            BY <1>2, <1>3, <1>4, <2>2
    <1>7. QED
        BY <1>1, <1>2, <1>3, <1>5, <1>6, ToFold

\* The tag.
LEMMA EmitTagInv ==
    ASSUME Inv, EmitTag
    PROVE  Inv'
    <1>1. /\ pc = "fold" /\ cached = << >> /\ tag' = Times(acc, owed) /\ owed' = 0 /\ pc' = "done"
          /\ UNCHANGED <<backend, n, cached, lanes, live, regs, left, acc>>
        BY DEF EmitTag
    <1>2. n \in Nat /\ owed \in {0, 1} /\ acc = Terms(1..Streamed, Streamed + 1 - owed)
        BY <1>1, BoundsAssumption DEF Inv, Scalars, Folding
    <1>3. Streamed = n
        <2>1. Len(cached) = 0
            BY <1>1
        <2>2. QED
            BY <1>2, <2>1 DEF Streamed
    <1>4. Times(acc, owed) = Evaluated(n)
        <2> DEFINE c == n + 1 - owed
        <2>1. c \in Int /\ owed \in Int /\ c + owed = n + 1 /\ \A b \in 1..n : b <= c
            BY <1>2
        <2>2. acc = Terms(1..n, c)
            BY <1>2, <1>3
        <2> HIDE DEF c
        <2>3. Times(Terms(1..n, c), owed) = Terms(1..n, c + owed)
            BY <1>2, <2>1, TimesTerms
        <2>4. QED
            BY <1>2, <2>1, <2>2, <2>3, EvaluatedTerms
    <1>5. tag' = Evaluated(n)'
        BY <1>1, <1>4 DEF Evaluated
    <1>6. Scalars' /\ CacheKept'
        BY <1>1 DEF Inv, Scalars, CacheKept, Streamed
    <1>7. QED
        BY <1>1, <1>5, <1>6 DEF Inv, Streaming, Bulk, Folding, Finished

LEMMA StutterInv ==
    ASSUME Inv, UNCHANGED vars
    PROVE  Inv'
    <1>1. /\ UNCHANGED <<backend, pc, n, cached, lanes, live, regs, left, acc, owed, tag>>
        BY DEF vars
    <1>2. Streamed' = Streamed /\ Evaluated(n)' = Evaluated(n) /\ Lanes' = Lanes /\ LaneCount' = LaneCount
        BY <1>1, SameBackend DEF Streamed, Evaluated
    <1>3. DealtNow' = DealtNow
        BY <1>1, <1>2, DealtNext DEF DealtNow
    <1>4. Scalars' /\ CacheKept' /\ Folding' /\ Finished'
        BY <1>1, <1>2 DEF Inv, Scalars, CacheKept, Folding, Finished
    <1>5. Streaming' /\ Bulk'
        BY <1>1, <1>2, <1>3 DEF Inv, Streaming, Bulk
    <1>6. QED
        BY <1>4, <1>5 DEF Inv

\* Every step keeps the invariant.
LEMMA NextInv ==
    ASSUME Inv, [Next]_vars
    PROVE  Inv'
    <1>1. CASE Next
        BY <1>1, SoftAbsorbBlockInv, AbsorbBlockInv, DrainAbsorb4Inv, IfmaAbsorb4Inv, BulkEnterInv,
           BulkRoundInv, BulkLeaveInv, FusedRoundInv, SoftFinalizeInv, FinalizeLanesInv,
           NeonFinalizeLanesInv, FoldPairInv, FoldBlockInv, EmitTagInv DEF Next
    <1>2. CASE UNCHANGED vars
        BY <1>2, StutterInv
    <1>3. QED
        BY <1>1, <1>2

\* Lanes, cache and accumulator hold what they should, whatever calls bring
\* the blocks (poly1305/avx2.rs, neon.rs, ifma.rs).
THEOREM InvHolds == Spec => []Inv
    <1>1. Inv /\ [Next]_vars => Inv'
        BY NextInv
    <1>2. QED
        BY <1>1, InitInv, PTL DEF Spec

\* The tag is the evaluation of all blocks by Horner's rule (finalize_into).
THEOREM TagHolds == Spec => []TagIsHorner
    <1>1. Inv => TagIsHorner
        BY DEF Inv, Finished, TagIsHorner
    <1>2. QED
        BY <1>1, InvHolds, PTL
\* The cache holds the newest blocks and the lanes, or the registers of a bulk
\* run, all the others, each in the lane whose weight makes up for its place
\* in its group.
THEOREM LanesHold == Spec => []LanesDealt
    <1>1. Inv => LanesDealt
        <2>1. SUFFICES ASSUME Inv
                       PROVE  LanesDealt
            OBVIOUS
        <2>2. CacheIsNewest
            <3>1. cached \in Seq(Nat) /\ \A i \in 1..Len(cached) : cached[i] = Streamed + i
                BY <2>1 DEF Inv, CacheKept
            <3>2. cached = [i \in 1..Len(cached) |-> cached[i]]
                BY <3>1
            <3>3. QED
                BY <3>1, <3>2 DEF CacheIsNewest
        <2>3. ASSUME pc \in {"stream", "bulk"}, backend # "soft"
              PROVE  /\ Streamed % LaneCount = 0
                     /\ live = (Streamed > 0)
                     /\ \A l \in Lanes : (IF pc = "bulk" THEN regs ELSE lanes)[l] = Dealt(l)
            <3>1. /\ Streamed % LaneCount = 0 /\ live \in BOOLEAN /\ (live <=> Streamed > 0)
                  /\ (IF pc = "bulk" THEN regs ELSE lanes) = Dealing(Streamed)
                BY <2>1, <2>3 DEF Inv, Scalars, Streaming, Bulk, DealtNow
            <3>2. Vector /\ Streamed \in Nat
                BY <2>1, <2>3, BoundsAssumption DEF Inv, Scalars, CacheKept, Vector, Streamed, CacheSize
            <3>3. \A l \in Lanes : Dealing(Streamed)[l] = Dealt(l)
                BY <3>2, DealtIs DEF Dealing
            <3>4. live = (Streamed > 0)
                <4> DEFINE some == Streamed > 0
                <4>1. live \in BOOLEAN /\ some \in BOOLEAN /\ (live <=> some)
                    BY <3>1
                <4> HIDE DEF some
                <4>2. live = some
                    BY <4>1
                <4>3. QED
                    BY <4>2 DEF some
            <3>5. QED
                BY <3>1, <3>3, <3>4
        <2>4. QED
            BY <2>2, <2>3 DEF LanesDealt
    <1>2. QED
        BY <1>1, InvHolds, PTL

-----------------------------------------------------------------------------
(* The counts of PolyCache.                                                 *)

\* After every absorbing call a backend defers as many blocks as PolyCache, and
\* with it the engine, counts.
THEOREM CountsHold == Spec => CountsAgree
    <1> DEFINE c == Len(cached)
               Counted ==
                   /\ AbsorbBlock \/ SoftAbsorbBlock =>
                          Len(cached') = AfterBlock(PolyKind, Len(cached))
                   /\ DrainAbsorb4 \/ IfmaAbsorb4 =>
                          Len(cached') = AfterAbsorb4(PolyKind, Len(cached))
                   /\ \A w \in 0..MaxWindows : BulkEnter(w) =>
                          (IF left' % 2 = 1 THEN 4 ELSE Len(cached'))
                              = AfterAbsorbBlocks(PolyKind, Len(cached), w)
    <1>1. Inv => [Counted]_vars
        <2>1. SUFFICES ASSUME Inv
                       PROVE  Counted
            OBVIOUS
        <2>2. c \in 0..8 /\ n \in Nat /\ cached \in Seq(Nat)
            BY <2>1, BoundsAssumption DEF Inv, Scalars, CacheKept, CacheSize
        <2>3. Len(<< >>) = 0 /\ Len(Fresh(1)) = 1 /\ Len(Fresh(4)) = 4
              /\ Len(cached \o Fresh(1)) = c + 1
            BY <2>1, <2>2, FreshIs, CacheThenFresh
        <2>4. ASSUME AbsorbBlock
              PROVE  Len(cached') = AfterBlock(PolyKind, c)
            <3>1. /\ backend # "soft"
                  /\ cached' = IF c = 8 THEN Fresh(1) ELSE cached \o Fresh(1)
                BY <2>4 DEF AbsorbBlock, CacheSize
            <3>2. PolyKind # "soft"
                BY <3>1 DEF PolyKind
            <3>3. QED
                BY <2>3, <3>1, <3>2 DEF AfterBlock, CacheSize
        <2>5. ASSUME SoftAbsorbBlock
              PROVE  Len(cached') = AfterBlock(PolyKind, c)
            <3>1. backend = "soft" /\ cached' = cached /\ cached = << >>
                BY <2>1, <2>5 DEF SoftAbsorbBlock, Inv, Streaming
            <3>2. PolyKind = "soft"
                BY <3>1 DEF PolyKind
            <3>3. QED
                BY <2>3, <3>1, <3>2 DEF AfterBlock
        <2>6. ASSUME DrainAbsorb4
              PROVE  Len(cached') = AfterAbsorb4(PolyKind, c)
            <3>1. backend \in {"avx2", "neon"} /\ cached' = << >>
                BY <2>6 DEF DrainAbsorb4
            <3>2. PolyKind = "drain"
                BY <3>1 DEF PolyKind
            <3>3. QED
                BY <2>3, <3>1, <3>2 DEF AfterAbsorb4
        <2>7. ASSUME IfmaAbsorb4
              PROVE  Len(cached') = AfterAbsorb4(PolyKind, c)
            <3>1. /\ backend = "ifma"
                  /\ cached' = IF c = 4 THEN << >> ELSE Fresh(4)
                BY <2>7 DEF IfmaAbsorb4
            <3>2. PolyKind = "pair"
                BY <3>1 DEF PolyKind
            <3>3. QED
                <4>1. CASE c = 4
                    BY <2>3, <3>1, <3>2, <4>1 DEF AfterAbsorb4
                <4>2. CASE c # 4
                    <5>1. cached' = Fresh(4)
                        BY <3>1, <4>2
                    <5>2. Len(cached') = 4
                        BY <2>3, <5>1
                    <5>3. QED
                        BY <3>2, <4>2, <5>2 DEF AfterAbsorb4
                <4>3. QED
                    BY <4>1, <4>2
        <2>8. ASSUME NEW w \in 0..MaxWindows, BulkEnter(w)
              PROVE  (IF left' % 2 = 1 THEN 4 ELSE Len(cached')) = AfterAbsorbBlocks(PolyKind, c, w)
            <3> DEFINE fuse == c = 4 /\ w > 0
                       on == live \/ fuse \/ c = 8
                       rest == IF fuse THEN w - 1 ELSE w
                       load == rest >= 2 /\ ~on
                       parity == left' % 2
            <3>1. /\ backend = "ifma" /\ c % 4 = 0
                  /\ cached' = (IF c = 4 /\ ~fuse THEN cached ELSE << >>)
                  /\ left' = (IF load THEN rest - 2 ELSE rest)
                BY <2>8 DEF BulkEnter, CacheSize
            <3>2. PolyKind = "pair" /\ w \in Nat
                BY <3>1 DEF PolyKind
            <3> HIDE DEF c
            <3>3. CASE fuse
                <4>1. left' = w - 1 /\ cached' = << >> /\ w \in Nat \ {0} /\ c = 4
                    BY <3>1, <3>2, <3>3
                <4>2. (w - 1) % 2 = 1 <=> (w + 1) % 2 = 1
                    BY <4>1
                <4>3. QED
                    BY <2>3, <3>2, <4>1, <4>2 DEF AfterAbsorbBlocks
            <3>4. CASE ~fuse /\ c = 4
                <4>1. w = 0 /\ cached' = cached /\ left' = 0
                    BY <3>1, <3>2, <3>4
                <4>2. Len(cached') = 4
                    BY <3>4, <4>1 DEF c
                <4>3. QED
                    BY <3>2, <3>4, <4>1, <4>2 DEF AfterAbsorbBlocks
            <3>5. CASE c # 4
                <4>1. /\ cached' = << >> /\ (left' = w \/ left' = w - 2)
                    BY <3>1, <3>2, <3>5
                <4>2. left' % 2 = 1 <=> w % 2 = 1
                    BY <3>2, <4>1
                <4>3. w + 0 = w
                    BY <3>2
                <4>4. QED
                    BY <2>3, <3>2, <3>5, <4>1, <4>2, <4>3 DEF AfterAbsorbBlocks
            <3>6. QED
                BY <3>3, <3>4, <3>5
        <2>9. QED
            BY <2>4, <2>5, <2>6, <2>7, <2>8
    <1>2. QED
        BY <1>1, InvHolds, PTL DEF CountsAgree

-----------------------------------------------------------------------------
(* Types.                                                                   *)

\* A run of the stream's blocks is a value.
LEMMA RunIsValue ==
    ASSUME NEW m \in 0..MaxBlocks, NEW d \in {0, 1}
    PROVE  IsValue(Terms(1..m, m + 1 - d))
    <1>1. ASSUME NEW b \in 1..m
          PROVE  <<b, m + 1 - d - b>> \in (1..MaxBlocks) \X (0..MaxBlocks)
        BY BoundsAssumption
    <1>2. QED
        BY <1>1 DEF IsValue, Terms

\* So is what a lane holds.
LEMMA LaneIsValue ==
    ASSUME Vector, NEW m \in 0..MaxBlocks, m % LaneCount = 0, NEW l \in Lanes
    PROVE  IsValue(Dealing(m)[l])
    <1>1. ASSUME NEW b \in LaneBlocks(m, l)
          PROVE  <<b, LaneTop(m, l) - b>> \in (1..MaxBlocks) \X (0..MaxBlocks)
        <2>1. b \in 1..m /\ LaneTop(m, l) - b \in Nat /\ m \in Nat
            BY LaneBelow, BoundsAssumption
        <2>2. LaneTop(m, l) <= m /\ LaneTop(m, l) \in Int
            BY <2>1, Places, LaneCounts DEF LaneTop
        <2>3. QED
            BY <2>1, <2>2, BoundsAssumption
    <1>2. QED
        BY <1>1 DEF IsValue, Terms, Dealing

LEMMA NothingIsValue == IsValue(Zero) /\ \A l \in Lanes : IsValue(Empty[l])
    BY DEF IsValue, Zero, Empty

\* What the invariant says each place holds is a value.
Held ==
    /\ pc = "stream" => \A l \in Lanes : IsValue(lanes[l])
    /\ pc = "bulk" => \A l \in Lanes : IsValue(regs[l])
    /\ pc = "fold" => IsValue(acc)
    /\ pc = "done" => IsValue(tag)

LEMMA HeldValues == Inv => Held
    <1> SUFFICES ASSUME Inv
                 PROVE  Held
        OBVIOUS
    <1>1. n \in 0..MaxBlocks /\ Streamed \in 0..MaxBlocks /\ owed \in {0, 1}
        BY BoundsAssumption DEF Inv, Scalars, CacheKept, CacheSize, Streamed
    <1>2. IsValue(Evaluated(n))
        <2>1. n \in Nat /\ n + 1 - 0 = n + 1
            BY <1>1, BoundsAssumption
        <2>2. QED
            BY <1>1, <2>1, RunIsValue, EvaluatedTerms
    <1>3. ASSUME Streamed % LaneCount = 0, backend # "soft", NEW l \in Lanes
          PROVE  IsValue(DealtNow[l])
        <2>1. Vector
            BY <1>3 DEF Inv, Scalars, Vector
        <2>2. QED
            BY <1>1, <1>3, <2>1, LaneIsValue DEF DealtNow
    <1>4. pc = "stream" => \A l \in Lanes : IsValue(lanes[l])
        BY <1>2, <1>3 DEF Inv, Streaming
    <1>5. pc = "bulk" => \A l \in Lanes : IsValue(regs[l])
        BY <1>3 DEF Inv, Bulk
    <1>6. pc = "fold" => IsValue(acc)
        BY <1>1, RunIsValue DEF Inv, Folding
    <1>7. QED
        BY <1>2, <1>4, <1>5, <1>6 DEF Inv, Finished, Held

Types ==
    /\ backend \in Backends
    /\ \A l \in Lanes : IsValue(lanes[l]) /\ IsValue(regs[l])
    /\ IsValue(acc)
    /\ IsValue(tag)

\* A bulk run keeps what the lanes held, or the group it made of it.
LEMMA BulkEnterValues ==
    ASSUME Inv, NEW w \in 0..MaxWindows, BulkEnter(w)
    PROVE  \A l \in Lanes : IsValue(lanes'[l])
    <1> DEFINE s == Streamed
               c == Len(cached)
               fuse == c = 4 /\ w > 0
    <1>1. /\ pc = "stream" /\ backend = "ifma" /\ c % 4 = 0 /\ n + 4 * w <= MaxBlocks
          /\ lanes' = (IF fuse THEN Process8(lanes, live, cached \o Fresh(4))
                       ELSE FoldedAll(lanes, live, cached))
        BY DEF BulkEnter
    <1>2. /\ w \in Nat /\ Vector /\ LaneCount = 8
          /\ n \in Nat /\ s \in Nat /\ c \in 0..8 /\ n = s + c /\ n <= MaxBlocks
          /\ s % 8 = 0 /\ live \in BOOLEAN /\ (live <=> s > 0) /\ lanes = Dealing(s)
        BY <1>1, AtStream, LaneCounts
    <1>3. CASE fuse
        <2> DEFINE g == cached \o Fresh(4)
        <2>1. \A i \in 1..(c + 4) : g[i] = s + i
            BY CacheThenFresh
        <2>2. c = 4 /\ w > 0 /\ lanes' = Process8(lanes, live, g)
            BY <1>1, <1>3
        <2> HIDE DEF g, s, c
        <2>3. (\A i \in 1..8 : g[i] = s + i) /\ (live \/ s = 0)
            BY <1>2, <2>1, <2>2
        <2>4. lanes' = Dealing(s + 8)
            BY <1>1, <1>2, <2>2, <2>3, IfmaFolds
        <2>5. s + 8 \in 0..MaxBlocks /\ (s + 8) % LaneCount = 0
            BY <1>1, <1>2, <2>2, BoundsAssumption
        <2>6. QED
            BY <1>2, <2>4, <2>5, LaneIsValue
    <1>4. CASE ~fuse
        <2>1. lanes' = IF c = 8 THEN Dealing(n) ELSE Dealing(s)
            BY <1>1, <1>4, IfmaCacheFolds
        <2> HIDE DEF s, c
        <2>2. s \in 0..MaxBlocks /\ n \in 0..MaxBlocks /\ s % LaneCount = 0 /\ (c = 8 => n % LaneCount = 0)
            BY <1>2, BoundsAssumption
        <2>3. QED
            BY <1>2, <2>1, <2>2, LaneIsValue
    <1>5. QED
        BY <1>3, <1>4
\* Every place of a value is left alone, emptied, or filled with what the
\* invariant says it holds next.
LEMMA NextTypes ==
    ASSUME Inv, Inv', Types, [Next]_vars
    PROVE  Types'
    <1> DEFINE At(v) == \A l \in Lanes : IsValue(v[l])
    <1>1. backend' = backend /\ Lanes' = Lanes /\ \A v : IsValue(v)' = IsValue(v)
        <2>1. backend' = backend
            BY DEF Next, vars, SoftAbsorbBlock, AbsorbBlock, DrainAbsorb4, IfmaAbsorb4, BulkEnter,
                   BulkRound, BulkLeave, FusedRound, SoftFinalize, FinalizeLanes, NeonFinalizeLanes,
                   FoldPair, FoldBlock, EmitTag
        <2>2. QED
            BY <2>1, SameBackend DEF IsValue
    <1>2. /\ pc' = "stream" => At(lanes')
          /\ pc' = "bulk" => At(regs')
          /\ pc' = "fold" => IsValue(acc')
          /\ pc' = "done" => IsValue(tag')
        <2>1. Held'
            BY HeldValues, PTL
        <2>2. QED
            BY <1>1, <2>1 DEF Held, IsValue
    <1>3. At(lanes) /\ At(regs) /\ IsValue(acc) /\ IsValue(tag) /\ At(Empty) /\ IsValue(Zero)
        BY NothingIsValue DEF Types
    <1>4. /\ lanes' = lanes \/ pc' = "stream" \/ \E w \in 0..MaxWindows : BulkEnter(w)
          /\ regs' = regs \/ regs' = Empty \/ pc' = "bulk"
          /\ acc' = acc \/ pc' = "fold"
          /\ tag' = tag \/ pc' = "done"
        BY DEF Next, vars, SoftAbsorbBlock, AbsorbBlock, DrainAbsorb4, IfmaAbsorb4, BulkEnter,
               BulkRound, BulkLeave, FusedRound, SoftFinalize, FinalizeLanes, NeonFinalizeLanes,
               FoldPair, FoldBlock, EmitTag
    <1>5. At(lanes')
        BY <1>2, <1>3, <1>4, BulkEnterValues
    <1>6. At(regs') /\ IsValue(acc') /\ IsValue(tag')
        BY <1>2, <1>3, <1>4
    <1>7. QED
        BY <1>1, <1>4, <1>5, <1>6 DEF Types

\* Types, for any bounds.
THEOREM TypeHolds == Spec => []TypeOK
    <1>1. Init => Types
        BY NothingIsValue DEF Init, Types
    <1>2. Inv /\ Inv' /\ Types /\ [Next]_vars => Types'
        BY NextTypes
    <1>3. Inv /\ Types => TypeOK
        <2>1. SUFFICES ASSUME Inv, Types
                       PROVE  TypeOK
            OBVIOUS
        <2>2. /\ Len(cached) \in 0..CacheSize
              /\ \A i \in DOMAIN cached : cached[i] \in 1..n
            <3>1. /\ cached \in Seq(Nat) /\ Len(cached) \in 0..8 /\ n \in Nat
                  /\ n = Streamed + Len(cached) /\ Streamed \in Nat
                  /\ \A i \in 1..Len(cached) : cached[i] = Streamed + i
                BY <2>1, BoundsAssumption DEF Inv, Scalars, CacheKept, CacheSize, Streamed
            <3>2. \A i \in 1..Len(cached) : Streamed + i \in 1..n
                BY <3>1
            <3>3. QED
                BY <3>1, <3>2 DEF CacheSize
        <2>3. QED
            BY <2>1, <2>2 DEF TypeOK, Types, Inv, Scalars
    <1>4. QED
        BY <1>1, <1>2, <1>3, InvHolds, PTL DEF Spec

-----------------------------------------------------------------------------
(* The refinement of Horner.                                                *)

\* What the cache adds to the evaluation of the others.
LEMMA WithCacheIs ==
    ASSUME Inv
    PROVE  WithCache(Evaluated(Streamed)) = Evaluated(n)
    <1> DEFINE s == Streamed
               c == Len(cached)
               parked == {<<cached[i], c + 1 - i>> : i \in DOMAIN cached}
    <1>1. /\ s \in Nat /\ c \in Nat /\ n = s + c /\ DOMAIN cached = 1..c
          /\ \A i \in 1..c : cached[i] = s + i
        BY BoundsAssumption DEF Inv, Scalars, CacheKept, CacheSize, Streamed
    <1>2. parked = Terms((s + 1)..(s + c), s + c + 1)
        <2> HIDE DEF s, c
        <2>1. ASSUME NEW i \in 1..c
              PROVE  /\ s + i \in (s + 1)..(s + c)
                     /\ <<cached[i], c + 1 - i>> = <<s + i, s + c + 1 - (s + i)>>
            BY <1>1
        <2>2. ASSUME NEW b \in (s + 1)..(s + c)
              PROVE  b - s \in 1..c /\ <<cached[b - s], c + 1 - (b - s)>> = <<b, (s + c + 1) - b>>
            <3>1. b - s \in 1..c /\ s + (b - s) = b /\ c + 1 - (b - s) = (s + c + 1) - b
                BY <1>1
            <3>2. QED
                BY <1>1, <3>1
        <2>3. parked \subseteq Terms((s + 1)..(s + c), s + c + 1)
            BY <1>1, <2>1 DEF Terms
        <2>4. Terms((s + 1)..(s + c), s + c + 1) \subseteq parked
            <3>1. ASSUME NEW b \in (s + 1)..(s + c)
                  PROVE  <<b, (s + c + 1) - b>> \in parked
                <4>1. b - s \in DOMAIN cached
                    BY <1>1, <2>2
                <4>2. <<cached[b - s], c + 1 - (b - s)>> \in parked
                    BY <4>1
                <4>3. QED
                    BY <2>2, <4>2
            <3> HIDE DEF parked
            <3>2. ASSUME NEW e \in Terms((s + 1)..(s + c), s + c + 1)
                  PROVE  e \in parked
                <4>1. PICK b \in (s + 1)..(s + c) : e = <<b, (s + c + 1) - b>>
                    BY DEF Terms
                <4>2. QED
                    BY <3>1, <4>1
            <3>3. QED
                BY <3>2
        <2>5. QED
            BY <2>3, <2>4
    <1>3. WithCache(Evaluated(s)) = Plus(Times(Evaluated(s), c), parked)
        BY DEF WithCache
    <1> HIDE DEF s, c, parked
    <1>4. Plus(Times(Evaluated(s), c), Terms((s + 1)..(s + c), s + c + 1)) = Evaluated(s + c)
        BY <1>1, EvaluatedGrows
    <1>5. QED
        BY <1>1, <1>2, <1>3, <1>4 DEF s

\* If the stream ended now, the tag would be the evaluation of its blocks.
LEMMA OutcomeIs == Inv => Outcome = Evaluated(n)
    <1> SUFFICES ASSUME Inv
                 PROVE  Outcome = Evaluated(n)
        OBVIOUS
    <1> DEFINE s == Streamed
    <1>1. s \in Nat /\ n \in Nat /\ WithCache(Evaluated(s)) = Evaluated(n)
        BY WithCacheIs, BoundsAssumption DEF Inv, Scalars, CacheKept, CacheSize, Streamed
    <1>2. ASSUME NEW d \in {0, 1}
          PROVE  Times(Terms(1..s, s + 1 - d), d) = Evaluated(s)
        <2> DEFINE c == s + 1 - d
        <2>1. s \in Int /\ d \in Int /\ c \in Int /\ c + d = s + 1 /\ \A b \in 1..s : b <= c
            BY <1>1
        <2> HIDE DEF s, c
        <2>2. Times(Terms(1..s, c), d) = Terms(1..s, c + d)
            BY <2>1, TimesTerms
        <2>3. QED
            BY <1>1, <2>1, <2>2, EvaluatedTerms DEF c
    <1>3. CASE pc = "stream" /\ backend = "soft"
        <2> DEFINE B == [l \in Lanes |-> 1..n]
                   c == n + 1
        <2>1. /\ cached = << >> /\ lanes = [l \in Lanes |-> Evaluated(n)]
              /\ Lanes = {0} /\ \A l \in Lanes : Weight(l) = 0
            BY <1>3 DEF Inv, Streaming, Lanes, LaneCount, Weight
        <2>2. s = n
            <3>1. Len(cached) = 0
                BY <2>1
            <3>2. QED
                BY <1>1, <3>1 DEF Streamed
        <2>3. Times(Evaluated(n), 0) = Terms(1..n, c) /\ Evaluated(n) = Terms(1..n, c)
            <3>1. c \in Int /\ c + 0 = c /\ \A b \in 1..n : b <= c
                BY <1>1
            <3> HIDE DEF c
            <3>2. Times(Terms(1..n, c), 0) = Terms(1..n, c + 0)
                BY <1>1, <3>1, TimesTerms
            <3>3. Evaluated(n) = Terms(1..n, c)
                BY <1>1, EvaluatedTerms DEF c
            <3>4. QED
                BY <3>1, <3>2, <3>3
        <2>4. [l \in Lanes |-> Times(lanes[l], Weight(l))] = [l \in Lanes |-> Terms(B[l], c)]
            BY <2>1, <2>3
        <2>5. \A l \in Lanes : \A k \in Lanes : l # k => B[l] \cap B[k] = {}
            BY <2>1
        <2>6. UNION {B[l] : l \in Lanes} = 1..n
            BY <2>1
        <2> HIDE DEF B, c
        <2>7. Sum([l \in Lanes |-> Terms(B[l], c)]) = Terms(UNION {B[l] : l \in Lanes}, c)
            BY <2>5, SumTerms
        <2>8. Collapsed(lanes) = Evaluated(n)
            BY <2>3, <2>4, <2>6, <2>7 DEF Collapsed
        <2>9. Outcome = WithCache(Times(Collapsed(lanes), 0))
            BY <1>3 DEF Outcome
        <2>10. QED
            BY <1>1, <2>2, <2>3, <2>8, <2>9
    <1>4. CASE pc = "stream" /\ backend # "soft"
        <2>1. Collapsed(lanes) = Terms(1..s, s + 1 - Late) /\ Late \in {0, 1}
            BY <1>4, AtStream, CollapsedDealing DEF Late
        <2>2. Outcome = WithCache(Times(Collapsed(lanes), Late))
            BY <1>4 DEF Outcome, Late
        <2>3. QED
            BY <1>1, <1>2, <2>1, <2>2
    <1>5. CASE pc = "bulk"
        <2>1. backend = "ifma" /\ regs = Dealing(s) /\ s % LaneCount = 0
            BY <1>5 DEF Inv, Bulk, DealtNow
        <2>2. Collapsed(regs) = Terms(1..s, s + 1 - Late) /\ Late = 0
            BY <1>1, <2>1, CollapsedDealing DEF Late, Vector
        <2>3. s + 1 - 0 = s + 1
            BY <1>1
        <2>4. Collapsed(regs) = Evaluated(s)
            BY <1>1, <2>2, <2>3, EvaluatedTerms
        <2>5. QED
            BY <1>1, <1>5, <2>4 DEF Outcome
    <1>6. CASE pc = "fold"
        <2>1. acc = Terms(1..s, s + 1 - owed) /\ owed \in {0, 1}
            BY <1>6 DEF Inv, Folding, Scalars
        <2>2. QED
            BY <1>1, <1>2, <1>6, <2>1 DEF Outcome
    <1>7. CASE pc \notin {"stream", "bulk", "fold"}
        <2>1. tag = Evaluated(n)
            BY <1>7 DEF Inv, Finished, Scalars
        <2>2. QED
            BY <1>7, <2>1 DEF Outcome
    <1>8. QED
        BY <1>3, <1>4, <1>5, <1>6, <1>7
\* Every step takes some blocks of the stream, at most those of one call, or
\* makes the tag.
LEMMA TakesOrCloses ==
    ASSUME Inv, Next
    PROVE  /\ pc # "done"
           /\ \/ pc' # "done" /\ \E k \in 0..(4 * MaxWindows + 8) : n' = n + k
              \/ pc' = "done" /\ n' = n
    <1>1. n \in Nat /\ left \in Nat /\ MaxWindows \in Nat
        BY BoundsAssumption DEF Inv, Scalars
    <1>2. ASSUME NEW k \in {0, 1, 4, 8}, n' = n + k, pc # "done", pc' # "done"
          PROVE  /\ pc # "done"
                 /\ pc' # "done" /\ \E j \in 0..(4 * MaxWindows + 8) : n' = n + j
        <2>1. k \in 0..(4 * MaxWindows + 8)
            BY <1>1
        <2>2. QED
            BY <1>2, <2>1
    <1>3. n + 0 = n
        BY <1>1
    <1>4. CASE SoftAbsorbBlock \/ AbsorbBlock
        BY <1>2, <1>4 DEF SoftAbsorbBlock, AbsorbBlock
    <1>5. CASE DrainAbsorb4 \/ IfmaAbsorb4
        BY <1>2, <1>5 DEF DrainAbsorb4, IfmaAbsorb4
    <1>6. ASSUME NEW w \in 0..MaxWindows, BulkEnter(w)
          PROVE  \E k \in {0, 4, 8} : n' = n + k /\ pc = "stream" /\ pc' = "bulk"
        <2> DEFINE fuse == Len(cached) = 4 /\ w > 0
                   on == live \/ fuse \/ Len(cached) = CacheSize
                   rest == IF fuse THEN w - 1 ELSE w
                   load == rest >= 2 /\ ~on
        <2>1. /\ pc = "stream" /\ pc' = "bulk"
              /\ n' = n + (IF fuse THEN 4 ELSE 0) + (IF load THEN 8 ELSE 0)
            BY <1>6 DEF BulkEnter
        <2>2. ~(fuse /\ load)
            OBVIOUS
        <2> HIDE DEF fuse, load
        <2>3. n' = n + 0 \/ n' = n + 4 \/ n' = n + 8
            BY <1>1, <2>1, <2>2
        <2>4. QED
            BY <2>1, <2>3
    <1>7. CASE \E w \in 0..MaxWindows : BulkEnter(w)
        <2>1. PICK k \in {0, 4, 8} : n' = n + k /\ pc = "stream" /\ pc' = "bulk"
            BY <1>6, <1>7
        <2>2. QED
            BY <1>2, <2>1
    <1>8. CASE BulkRound \/ FusedRound
        BY <1>2, <1>8 DEF BulkRound, FusedRound
    <1>9. CASE BulkLeave
        <2>1. /\ left < 2 /\ n' = n + 4 * left /\ pc = "bulk" /\ pc' = "stream"
            BY <1>9 DEF BulkLeave
        <2>2. n' = n + 0 \/ n' = n + 4
            BY <1>1, <2>1
        <2>3. QED
            BY <1>2, <2>1, <2>2
    <1>10. CASE FinalizeLanes \/ NeonFinalizeLanes \/ FoldPair \/ FoldBlock
        <2>1. n' = n /\ pc # "done" /\ pc' # "done"
            BY <1>10 DEF FinalizeLanes, NeonFinalizeLanes, FoldPair, FoldBlock
        <2>2. QED
            BY <1>2, <1>3, <2>1
    <1>11. CASE SoftFinalize \/ EmitTag
        BY <1>11 DEF SoftFinalize, EmitTag
    <1>12. QED
        BY <1>4, <1>5, <1>7, <1>8, <1>9, <1>10, <1>11 DEF Next

LEMMA InitAbstract ==
    ASSUME Init
    PROVE  Abstract!HInit
    <1>1. n = 0 /\ pc = "stream" /\ Outcome = Evaluated(0)
        BY InitInv, OutcomeIs DEF Init
    <1>2. Evaluated(0) = Zero
        BY DEF Evaluated, Zero
    <1>3. Zero = Abstract!Zero
        BY DEF Zero, Abstract!Zero
    <1>4. QED
        BY <1>1, <1>2, <1>3 DEF Abstract!HInit

LEMMA StepAbstract ==
    ASSUME Inv, Inv', Next
    PROVE  [Abstract!HNext]_(Abstract!hvars)
    <1>1. Outcome = Evaluated(n) /\ Outcome' = Evaluated(n')
        <2>1. (Outcome = Evaluated(n))'
            BY OutcomeIs, PTL
        <2>2. QED
            BY <2>1, OutcomeIs DEF Evaluated
    <1>2. n \in Nat /\ pc # "done"
        BY TakesOrCloses, BoundsAssumption DEF Inv, Scalars
    <1>3. CASE pc' = "done" /\ n' = n
        BY <1>1, <1>2, <1>3 DEF Abstract!HNext, Abstract!Close
    <1>4. ASSUME pc' # "done", n' = n
          PROVE  UNCHANGED Abstract!hvars
        BY <1>1, <1>2, <1>4 DEF Abstract!hvars
    <1>5. ASSUME pc' # "done", NEW k \in 1..(4 * MaxWindows + 8), n' = n + k
          PROVE  Abstract!Take(k)
        <2>1. k \in Nat
            OBVIOUS
        <2>2. Plus(Times(Evaluated(n), k), Terms((n + 1)..(n + k), n + k + 1)) = Evaluated(n + k)
            BY <1>2, <2>1, EvaluatedGrows
        <2>3. Terms((n + 1)..(n + k), n + k + 1) = {<<b, n + k + 1 - b>> : b \in (n + 1)..(n + k)}
            <3> DEFINE c == n + k + 1
                       S == (n + 1)..(n + k)
            <3>1. \A b \in S : c - b = n + k + 1 - b
                BY <1>2, <2>1
            <3> HIDE DEF c, S
            <3>2. Terms(S, c) = {<<b, n + k + 1 - b>> : b \in S}
                BY <3>1 DEF Terms
            <3>3. QED
                BY <3>2 DEF c, S
        <2>4. Outcome' = Plus(Times(Outcome, k), {<<b, n + k + 1 - b>> : b \in (n + 1)..(n + k)})
            BY <1>1, <1>5, <2>2, <2>3
        <2>5. \A v, w : Abstract!Plus(v, w) = Plus(v, w) /\ Abstract!Times(v, k) = Times(v, k)
            BY DEF Abstract!Plus, Plus, Abstract!Times, Times, Abstract!Doubled, Doubled, Abstract!Twice, Twice
        <2>6. QED
            BY <1>2, <1>5, <2>4, <2>5 DEF Abstract!Take
    <1>6. CASE pc' # "done" /\ \E k \in 0..(4 * MaxWindows + 8) : n' = n + k
        <2>1. PICK k \in 0..(4 * MaxWindows + 8) : n' = n + k
            BY <1>6
        <2>2. CASE k = 0
            <3>1. n' = n
                BY <1>2, <2>1, <2>2
            <3>2. QED
                BY <1>4, <1>6, <3>1
        <2>3. CASE k # 0
            <3>1. k \in 1..(4 * MaxWindows + 8)
                BY <2>3
            <3>2. QED
                BY <1>5, <1>6, <2>1, <3>1 DEF Abstract!HNext
        <2>4. QED
            BY <2>2, <2>3
    <1>7. QED
        BY <1>3, <1>6, TakesOrCloses

LEMMA StutterAbstract ==
    ASSUME Inv, Inv', UNCHANGED vars
    PROVE  UNCHANGED Abstract!hvars
    <1>1. Outcome = Evaluated(n) /\ Outcome' = Evaluated(n')
        <2>1. (Outcome = Evaluated(n))'
            BY OutcomeIs, PTL
        <2>2. QED
            BY <2>1, OutcomeIs DEF Evaluated
    <1>2. n' = n /\ pc' = pc
        BY DEF vars
    <1>3. QED
        BY <1>1, <1>2 DEF Abstract!hvars

\* Every backend implements the evaluation by Horner's rule of RFC 8439: each
\* call takes its blocks in order, finalize_into makes the tag of all of them,
\* and no call changes what came before it (Backend of poly1305/mod.rs).
THEOREM LanesImplementHorner == Spec => ImplementsHorner
    <1>1. Init => Abstract!HInit
        BY InitAbstract
    <1>2. Inv /\ Inv' /\ [Next]_vars => [Abstract!HNext]_(Abstract!hvars)
        BY StepAbstract, StutterAbstract
    <1>3. QED
        BY <1>1, <1>2, InvHolds, PTL DEF Spec, ImplementsHorner, Abstract!HSpec
=============================================================================
