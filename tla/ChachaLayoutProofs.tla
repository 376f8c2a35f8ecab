-------------------------- MODULE ChachaLayoutProofs --------------------------
(***************************************************************************)
(* Proofs about ChachaLayout, for any number of register groups and any    *)
(* message lengths a kernel is given.  In a row layout lane l of row r     *)
(* holds a word of column l % 4; the turns between the rounds only move    *)
(* words within a row's 128-bit lanes, by rotations that undo each other.  *)
(***************************************************************************)
EXTENDS ChachaLayout, TLAPS

Stages == {"column", "to_cols", "diagonal", "to_rows", "emit", "done"}

\* The block that lane l of group g belongs to, in a row layout.
RowBlock(g, l) == IF kernel.layout = "quad" THEN 2 * g + (l \div 4) ELSE g

\* The selectors of the kernel at work.
ToCols4 == IF kernel.layout = "neonrow" THEN ToColsNeon ELSE ToColsX86
ToRows4 == IF kernel.layout = "neonrow" THEN ToRowsNeon ELSE ToRowsX86

\* The registers between to_cols and to_rows.
Slanted == [g \in Groups |-> [r \in 0..3 |-> Shuffled(Loaded[g][r], ToCols4[r + 1])]]

\* Where the words are at each stage of a double round.
Placed ==
    /\ pc \in {"column", "to_cols", "emit", "done"} => regs = Loaded
    /\ pc \in {"diagonal", "to_rows"} => regs = IF RowMajor THEN Slanted ELSE Loaded
    /\ pc \in {"to_cols", "to_rows"} => RowMajor

Inv ==
    /\ kernel \in Kernels
    /\ pc \in Stages
    /\ KeyFirst => base = 0
    /\ Placed
    /\ BlocksInOrder
    /\ StoresCoverMessage

----------------------------------------------------------------------------
(* Kernels.                                                                 *)

\* What the table of kernels says.
LEMMA KernelFacts ==
    ASSUME kernel \in Kernels
    PROVE  /\ kernel.layout \in {"row", "neonrow", "quad", "word"}
           /\ kernel.groups \in Nat /\ kernel.groups > 0
           /\ kernel.lanes \in {4, 8, 16}
           /\ kernel.layout \in {"row", "neonrow"} => kernel.lanes = 4
           /\ kernel.layout = "quad" => kernel.lanes = 8
           /\ kernel.layout = "word" =>
                 /\ kernel.groups = 1 /\ kernel.lanes \in {4, 16}
                 /\ kernel.store = "whole" \/ (kernel.store = "direct" /\ kernel.lanes = 16)
           /\ kernel.layout = "neonrow" => kernel.groups = 1 /\ kernel.store = "whole"
           /\ kernel.layout = "row" =>
                 \/ kernel.store = "whole"
                 \/ kernel.store \in {"key_xor2", "small"} /\ kernel.groups > 1
           /\ kernel.store \in {"whole", "partial", "direct", "key_xor2", "small"}
    <1>1. kernel \in KernelRecord
        BY KernelsAssumption
    <1>2. QED
        BY <1>1 DEF KernelRecord

\* Groups, lanes and blocks are numbered from 0.
LEMMA Numbers ==
    ASSUME kernel \in Kernels
    PROVE  /\ Groups = 0..(kernel.groups - 1) /\ Lanes = 0..(kernel.lanes - 1)
           /\ kernel.layout = "word" => Groups = {0} /\ NumBlocks = kernel.lanes /\ Blocks = Lanes
           /\ kernel.layout = "quad" => NumBlocks = 2 * kernel.groups
           /\ kernel.layout \in {"row", "neonrow"} => NumBlocks = kernel.groups
           /\ NumBlocks \in Nat /\ NumBlocks > 0
    <1>1. CASE kernel.layout = "word"
        BY <1>1, KernelFacts DEF Groups, Lanes, NumBlocks, Blocks
    <1>2. CASE kernel.layout = "quad"
        BY <1>2, KernelFacts DEF Groups, Lanes, NumBlocks
    <1>3. CASE kernel.layout \in {"row", "neonrow"}
        BY <1>3, KernelFacts DEF Groups, Lanes, NumBlocks
    <1>4. QED
        BY <1>1, <1>2, <1>3, KernelFacts

\* A lane of a row belongs to a block of the kernel.
LEMMA RowBlockIn ==
    ASSUME kernel \in Kernels, RowMajor, NEW g \in Groups, NEW l \in Lanes
    PROVE  RowBlock(g, l) \in Blocks
    <1>1. CASE kernel.layout = "quad"
        <2>1. g \in 0..(kernel.groups - 1) /\ l \in 0..7 /\ kernel.groups \in Nat
            BY <1>1, KernelFacts DEF Groups, Lanes
        <2>2. 2 * g + (l \div 4) \in 0..(2 * kernel.groups - 1)
            BY <2>1
        <2>3. QED
            BY <1>1, <2>2, Numbers DEF RowBlock, Blocks
    <1>2. CASE kernel.layout # "quad"
        BY <1>2, KernelFacts, Numbers DEF RowBlock, Blocks, Groups, RowMajor
    <1>3. QED
        BY <1>1, <1>2

\* Every column of every block lies in some lane.
LEMMA RowBlockAll ==
    ASSUME kernel \in Kernels, RowMajor, NEW b \in Blocks, NEW c \in 0..3
    PROVE  \E g \in Groups, l \in Lanes : RowBlock(g, l) = b /\ l % 4 = c
    <1>1. CASE kernel.layout = "quad"
        <2> DEFINE g == b \div 2
                   l == 4 * (b % 2) + c
        <2>1. b \in 0..(2 * kernel.groups - 1) /\ kernel.groups \in Nat
            BY <1>1, KernelFacts, Numbers DEF Blocks
        <2>2. g \in 0..(kernel.groups - 1) /\ l \in 0..7
            BY <2>1
        <2>3. 2 * g + (l \div 4) = b /\ l % 4 = c
            BY <2>1
        <2>4. g \in Groups /\ l \in Lanes
            BY <1>1, <2>2, KernelFacts DEF Groups, Lanes
        <2> HIDE DEF g, l
        <2>5. RowBlock(g, l) = b
            BY <1>1, <2>3 DEF RowBlock
        <2>6. QED
            BY <2>3, <2>4, <2>5
    <1>2. CASE kernel.layout # "quad"
        <2>1. kernel.lanes = 4 /\ NumBlocks = kernel.groups
            BY <1>2, KernelFacts, Numbers DEF RowMajor
        <2>2. b \in Groups /\ c \in Lanes /\ c % 4 = c
            BY <2>1, KernelFacts DEF Groups, Lanes, Blocks
        <2>3. RowBlock(b, c) = b
            BY <1>2 DEF RowBlock
        <2>4. QED
            BY <2>2, <2>3
    <1>3. QED
        BY <1>1, <1>2

\* What a row holds when it is loaded.
LEMMA LoadedRow ==
    ASSUME kernel \in Kernels, RowMajor, NEW g \in Groups, NEW r \in 0..3
    PROVE  Loaded[g][r] = [l \in Lanes |-> <<Counter(RowBlock(g, l)), 4 * r + (l % 4)>>]
    <1>1. Loaded[g][r] = [l \in Lanes |-> LoadedCell(g, r, l)]
        BY DEF Loaded
    <1>2. ASSUME NEW l \in Lanes
          PROVE  LoadedCell(g, r, l) = <<Counter(RowBlock(g, l)), 4 * r + (l % 4)>>
        <2>1. CASE kernel.layout = "quad"
            BY <2>1 DEF LoadedCell, RowBlock, QuadCounter
        <2>2. CASE kernel.layout # "quad"
            <3>1. l \in 0..3
                BY <2>2, KernelFacts DEF RowMajor, Lanes
            <3>2. l % 4 = l
                BY <3>1
            <3>3. QED
                BY <2>2, <3>2 DEF LoadedCell, RowBlock, RowCounter, RowMajor
        <2>3. QED
            BY <2>1, <2>2
    <1>3. QED
        BY <1>1, <1>2

\* What a register of one word holds.
LEMMA LoadedWord ==
    ASSUME kernel \in Kernels, ~RowMajor, NEW r \in 0..15
    PROVE  Loaded[0][r] = [l \in Lanes |-> <<Counter(l), r>>]
    <1>1. 0 \in Groups /\ kernel.layout = "word"
        BY Numbers DEF RowMajor
    <1>2. QED
        BY <1>1 DEF Loaded, LoadedCell, WordCounter, RowMajor

----------------------------------------------------------------------------
(* Turns.                                                                   *)

\* A selector stays within a 128-bit lane, and what to_cols does to a row
\* to_rows undoes.
LEMMA SelectorsUndo ==
    ASSUME NEW r \in 0..3, NEW c \in 0..3
    PROVE  /\ ToCols4[r + 1][c + 1] \in 0..3
           /\ ToRows4[r + 1][c + 1] \in 0..3
           /\ ToCols4[r + 1][ToRows4[r + 1][c + 1] + 1] = c
    <1>1. ASSUME NEW s \in {RotL1, RotL2, RotL3, Still}
          PROVE  s[c + 1] \in 0..3
        BY <1>1 DEF RotL1, RotL2, RotL3, Still
    <1>2. /\ RotL1[RotL3[c + 1] + 1] = c /\ RotL3[RotL1[c + 1] + 1] = c
          /\ RotL2[RotL2[c + 1] + 1] = c /\ Still[Still[c + 1] + 1] = c
        BY DEF RotL1, RotL2, RotL3, Still
    <1> DEFINE s == ToCols4[r + 1]
               t == ToRows4[r + 1]
    <1>3. <<s, t>> \in {<<RotL3, RotL1>>, <<Still, Still>>, <<RotL1, RotL3>>, <<RotL2, RotL2>>}
        BY DEF ToCols4, ToRows4, ToColsNeon, ToColsX86, ToRowsNeon, ToRowsX86
    <1> HIDE DEF s, t
    <1>4. s[c + 1] \in 0..3 /\ t[c + 1] \in 0..3 /\ s[t[c + 1] + 1] = c
        BY <1>1, <1>2, <1>3
    <1>5. QED
        BY <1>4 DEF s, t

\* The source of a lane lies in the same 128-bit lane, so in the same block.
LEMMA SourceLane ==
    ASSUME kernel \in Kernels, RowMajor, NEW g \in Groups, NEW l \in Lanes, NEW v \in 0..3
    PROVE  /\ 4 * (l \div 4) + v \in Lanes
           /\ (4 * (l \div 4) + v) % 4 = v
           /\ RowBlock(g, 4 * (l \div 4) + v) = RowBlock(g, l)
    <1>1. l \in Nat /\ l < kernel.lanes /\ kernel.lanes \in {4, 8}
        BY KernelFacts DEF Lanes, RowMajor
    <1>2. /\ 4 * (l \div 4) + v \in 0..(kernel.lanes - 1)
          /\ (4 * (l \div 4) + v) % 4 = v /\ (4 * (l \div 4) + v) \div 4 = l \div 4
        BY <1>1
    <1>3. QED
        BY <1>2 DEF Lanes, RowBlock

\* What a turned row holds.
LEMMA SlantedRow ==
    ASSUME kernel \in Kernels, RowMajor, NEW g \in Groups, NEW r \in 0..3
    PROVE  Slanted[g][r] =
             [l \in Lanes |-> <<Counter(RowBlock(g, l)), 4 * r + ToCols4[r + 1][(l % 4) + 1]>>]
    <1> DEFINE s == ToCols4[r + 1]
               row == Loaded[g][r]
    <1>1. Slanted[g][r] = Shuffled(row, s)
        BY DEF Slanted
    <1>2. row = [l \in Lanes |-> <<Counter(RowBlock(g, l)), 4 * r + (l % 4)>>]
        BY LoadedRow
    <1>3. \A c \in 0..3 : s[c + 1] \in 0..3
        BY SelectorsUndo
    <1>4. Lanes \subseteq Nat
        BY DEF Lanes
    <1> HIDE DEF row, s
    <1>5. Shuffled(row, s) = [l \in Lanes |-> row[4 * (l \div 4) + s[(l % 4) + 1]]]
        BY <1>2 DEF Shuffled
    <1>6. ASSUME NEW l \in Lanes
          PROVE  row[4 * (l \div 4) + s[(l % 4) + 1]] = <<Counter(RowBlock(g, l)), 4 * r + s[(l % 4) + 1]>>
        <2>1. s[(l % 4) + 1] \in 0..3
            BY <1>3, <1>4
        <2> DEFINE v == s[(l % 4) + 1]
                   m == 4 * (l \div 4) + v
        <2>2. m \in Lanes /\ m % 4 = v /\ RowBlock(g, m) = RowBlock(g, l)
            BY <2>1, SourceLane
        <2> HIDE DEF m
        <2>3. row[m] = <<Counter(RowBlock(g, l)), 4 * r + v>>
            BY <1>2, <2>2
        <2>4. QED
            BY <2>3 DEF m
    <1>7. Shuffled(row, s) = [l \in Lanes |-> <<Counter(RowBlock(g, l)), 4 * r + s[(l % 4) + 1]>>]
        BY <1>5, <1>6
    <1>8. QED
        BY <1>1, <1>7 DEF s

\* to_cols.
LEMMA TurnsOver ==
    ASSUME regs = Loaded
    PROVE  Turned(ToCols4) = Slanted
    BY DEF Turned, Slanted

\* to_rows brings every word back.
LEMMA TurnsBack ==
    ASSUME kernel \in Kernels, RowMajor, regs = Slanted
    PROVE  Turned(ToRows4) = Loaded
    <1>1. ASSUME NEW g \in Groups, NEW r \in 0..3
          PROVE  Shuffled(regs[g][r], ToRows4[r + 1]) = Loaded[g][r]
        <2> DEFINE s == ToCols4[r + 1]
                   t == ToRows4[r + 1]
                   row == Slanted[g][r]
        <2>1. row = [l \in Lanes |-> <<Counter(RowBlock(g, l)), 4 * r + s[(l % 4) + 1]>>]
            BY SlantedRow
        <2>2. \A c \in 0..3 : t[c + 1] \in 0..3 /\ s[t[c + 1] + 1] = c
            BY SelectorsUndo
        <2>3. Lanes \subseteq Nat
            BY DEF Lanes
        <2> HIDE DEF s, t, row
        <2>4. Shuffled(row, t) = [l \in Lanes |-> row[4 * (l \div 4) + t[(l % 4) + 1]]]
            BY <2>1 DEF Shuffled
        <2>5. ASSUME NEW l \in Lanes
              PROVE  row[4 * (l \div 4) + t[(l % 4) + 1]] = <<Counter(RowBlock(g, l)), 4 * r + (l % 4)>>
            <3> DEFINE v == t[(l % 4) + 1]
                       m == 4 * (l \div 4) + v
            <3>1. v \in 0..3 /\ s[v + 1] = l % 4
                BY <2>2, <2>3
            <3>2. m \in Lanes /\ m % 4 = v /\ RowBlock(g, m) = RowBlock(g, l)
                BY <3>1, SourceLane
            <3> HIDE DEF m, v
            <3>3. row[m] = <<Counter(RowBlock(g, l)), 4 * r + s[v + 1]>>
                BY <2>1, <3>2
            <3>4. QED
                BY <3>1, <3>3 DEF m, v
        <2>6. Shuffled(row, t) = [l \in Lanes |-> <<Counter(RowBlock(g, l)), 4 * r + (l % 4)>>]
            BY <2>4, <2>5
        <2>7. Shuffled(row, t) = Loaded[g][r]
            BY <2>6, LoadedRow
        <2>8. QED
            BY <2>7 DEF row, t
    <1>2. Loaded = [g \in Groups |-> [r \in 0..3 |-> Loaded[g][r]]]
        BY DEF Loaded
    <1>3. Turned(ToRows4) = [g \in Groups |-> [r \in 0..3 |-> Loaded[g][r]]]
        BY <1>1 DEF Turned
    <1>4. QED
        BY <1>2, <1>3
----------------------------------------------------------------------------
(* Quarter rounds.                                                          *)

\* The four quarter rounds of a round by their first word.
Column   == [c \in 0..3 |-> <<c, 4 + c, 8 + c, 12 + c>>]
Diagonal == [c \in 0..3 |-> <<c, 4 + ((c + 1) % 4), 8 + ((c + 2) % 4), 12 + ((c + 3) % 4)>>]

LEMMA ColumnWordsAre == ColumnWords = {Column[c] : c \in 0..3}
    <1>1. /\ Column[0] = <<0, 4, 8, 12>> /\ Column[1] = <<1, 5, 9, 13>>
          /\ Column[2] = <<2, 6, 10, 14>> /\ Column[3] = <<3, 7, 11, 15>>
        BY DEF Column
    <1>2. 0..3 = {0, 1, 2, 3}
        OBVIOUS
    <1>3. QED
        BY <1>1, <1>2 DEF ColumnWords

LEMMA DiagonalWordsAre == DiagonalWords = {Diagonal[c] : c \in 0..3}
    <1>1. /\ Diagonal[0] = <<0, 5, 10, 15>> /\ Diagonal[1] = <<1, 6, 11, 12>>
          /\ Diagonal[2] = <<2, 7, 8, 13>> /\ Diagonal[3] = <<3, 4, 9, 14>>
        BY DEF Diagonal
    <1>2. 0..3 = {0, 1, 2, 3}
        OBVIOUS
    <1>3. QED
        BY <1>1, <1>2 DEF DiagonalWords

\* What a vector quarter round meets, and what it is to meet, one by one.
LEMMA OperandIn ==
    ASSUME NEW qs, NEW x
    PROVE  x \in Operands(qs) <=>
             \E g \in Groups : \E q \in qs : \E l \in Lanes : x = [i \in 1..4 |-> regs[g][q[i]][l]]
    <1>1. ASSUME x \in Operands(qs)
          PROVE  \E g \in Groups : \E q \in qs : \E l \in Lanes : x = [i \in 1..4 |-> regs[g][q[i]][l]]
        <2>1. PICK p \in Groups \X qs \X Lanes : x = [i \in 1..4 |-> regs[p[1]][p[2][i]][p[3]]]
            BY <1>1 DEF Operands
        <2>2. p[1] \in Groups /\ p[2] \in qs /\ p[3] \in Lanes
            OBVIOUS
        <2>3. QED
            BY <2>1, <2>2
    <1>2. ASSUME NEW g \in Groups, NEW q \in qs, NEW l \in Lanes,
                 x = [i \in 1..4 |-> regs[g][q[i]][l]]
          PROVE  x \in Operands(qs)
        <2> DEFINE p == <<g, q, l>>
        <2>1. p \in Groups \X qs \X Lanes /\ p[1] = g /\ p[2] = q /\ p[3] = l
            OBVIOUS
        <2> HIDE DEF p
        <2>2. x = [i \in 1..4 |-> regs[p[1]][p[2][i]][p[3]]]
            BY <1>2, <2>1
        <2>3. QED
            BY <2>1, <2>2 DEF Operands
    <1>3. QED
        BY <1>1, <1>2

LEMMA DueIn ==
    ASSUME NEW words, NEW x
    PROVE  x \in OfEveryBlock(words) <=>
             \E b \in Blocks : \E w \in words : x = [i \in 1..4 |-> <<Counter(b), w[i]>>]
    <1>1. ASSUME x \in OfEveryBlock(words)
          PROVE  \E b \in Blocks : \E w \in words : x = [i \in 1..4 |-> <<Counter(b), w[i]>>]
        <2>1. PICK p \in Blocks \X words : x = [i \in 1..4 |-> <<Counter(p[1]), p[2][i]>>]
            BY <1>1 DEF OfEveryBlock
        <2>2. p[1] \in Blocks /\ p[2] \in words
            OBVIOUS
        <2>3. QED
            BY <2>1, <2>2
    <1>2. ASSUME NEW b \in Blocks, NEW w \in words, x = [i \in 1..4 |-> <<Counter(b), w[i]>>]
          PROVE  x \in OfEveryBlock(words)
        <2> DEFINE p == <<b, w>>
        <2>1. p \in Blocks \X words /\ p[1] = b /\ p[2] = w
            OBVIOUS
        <2> HIDE DEF p
        <2>2. x = [i \in 1..4 |-> <<Counter(p[1]), p[2][i]>>]
            BY <1>2, <2>1
        <2>3. QED
            BY <2>1, <2>2 DEF OfEveryBlock
    <1>3. QED
        BY <1>1, <1>2

\* A row kernel applies one vector quarter round: if each lane holds the words
\* of one quarter round of its block, and each quarter round is in some column,
\* the operands are those of every block.
LEMMA RowOperands ==
    ASSUME kernel \in Kernels, RowMajor,
           NEW W, NEW pick \in [0..3 -> 0..3],
           \A d \in 0..3 : \E c \in 0..3 : pick[c] = d,
           \A g \in Groups : \A l \in Lanes : \A i \in 1..4 :
               regs[g][i - 1][l] = <<Counter(RowBlock(g, l)), W[pick[l % 4]][i]>>
    PROVE  Operands({<<0, 1, 2, 3>>}) = OfEveryBlock({W[d] : d \in 0..3})
    <1> DEFINE q == <<0, 1, 2, 3>>
               words == {W[d] : d \in 0..3}
               met(g, l) == [i \in 1..4 |-> regs[g][q[i]][l]]
               due(b, w) == [i \in 1..4 |-> <<Counter(b), w[i]>>]
    <1>1. ASSUME NEW x
          PROVE  x \in Operands({q}) <=> \E g \in Groups : \E l \in Lanes : x = met(g, l)
        BY OperandIn
    <1>2. ASSUME NEW x
          PROVE  x \in OfEveryBlock(words) <=> \E b \in Blocks : \E w \in words : x = due(b, w)
        BY DueIn
    <1>3. ASSUME NEW g \in Groups, NEW l \in Lanes
          PROVE  met(g, l) = due(RowBlock(g, l), W[pick[l % 4]])
        <2>1. ASSUME NEW i \in 1..4
              PROVE  regs[g][q[i]][l] = <<Counter(RowBlock(g, l)), W[pick[l % 4]][i]>>
            <3>1. q[i] = i - 1
                OBVIOUS
            <3>2. QED
                BY <3>1
        <2>2. QED
            BY <2>1
    <1>4. \A l \in Lanes : l % 4 \in 0..3
        BY DEF Lanes
    <1> HIDE DEF met, due, words
    <1>5. Operands({q}) \subseteq OfEveryBlock(words)
        <2>1. ASSUME NEW g \in Groups, NEW l \in Lanes
              PROVE  met(g, l) \in OfEveryBlock(words)
            <3>1. RowBlock(g, l) \in Blocks
                BY RowBlockIn
            <3>2. W[pick[l % 4]] \in words
                BY <1>4 DEF words
            <3>3. QED
                BY <1>2, <1>3, <3>1, <3>2
        <2>2. QED
            BY <1>1, <2>1
    <1>6. OfEveryBlock(words) \subseteq Operands({q})
        <2>1. ASSUME NEW b \in Blocks, NEW w \in words
              PROVE  due(b, w) \in Operands({q})
            <3>1. PICK d \in 0..3 : w = W[d]
                BY DEF words
            <3>2. PICK c \in 0..3 : pick[c] = d
                OBVIOUS
            <3>3. PICK g \in Groups, l \in Lanes : RowBlock(g, l) = b /\ l % 4 = c
                BY RowBlockAll
            <3>4. met(g, l) = due(b, w)
                BY <1>3, <3>1, <3>2, <3>3
            <3>5. QED
                BY <1>1, <3>4
        <2>2. QED
            BY <1>2, <2>1
    <1>7. QED
        BY <1>5, <1>6 DEF words

\* A register of one word of every block meets the same of every other.
LEMMA WordOperands ==
    ASSUME kernel \in Kernels, ~RowMajor, regs = Loaded,
           NEW words, \A w \in words : \A i \in 1..4 : w[i] \in 0..15
    PROVE  Operands(words) = OfEveryBlock(words)
    <1> DEFINE met(w, l) == [i \in 1..4 |-> regs[0][w[i]][l]]
               due(b, w) == [i \in 1..4 |-> <<Counter(b), w[i]>>]
    <1>1. Groups = {0} /\ Blocks = Lanes
        BY Numbers DEF RowMajor
    <1>2. ASSUME NEW x
          PROVE  x \in Operands(words) <=> \E w \in words : \E l \in Lanes : x = met(w, l)
        BY <1>1, OperandIn
    <1>3. ASSUME NEW x
          PROVE  x \in OfEveryBlock(words) <=> \E l \in Lanes : \E w \in words : x = due(l, w)
        BY <1>1, DueIn
    <1>4. ASSUME NEW w \in words, NEW l \in Lanes
          PROVE  met(w, l) = due(l, w)
        <2>1. ASSUME NEW i \in 1..4
              PROVE  regs[0][w[i]][l] = <<Counter(l), w[i]>>
            <3>1. w[i] \in 0..15
                OBVIOUS
            <3> DEFINE r == w[i]
            <3> HIDE DEF r
            <3>2. r \in 0..15
                BY <3>1 DEF r
            <3>3. regs[0][r] = [m \in Lanes |-> <<Counter(m), r>>]
                BY <3>2, LoadedWord
            <3>4. regs[0][r][l] = <<Counter(l), r>>
                BY <3>3
            <3>5. QED
                BY <3>4 DEF r
        <2>2. QED
            BY <2>1
    <1> HIDE DEF met, due
    <1>5. QED
        BY <1>2, <1>3, <1>4

\* The words of the scalar code's quarter rounds are words of a block.
LEMMA RoundWords ==
    /\ \A w \in ColumnWords : \A i \in 1..4 : w[i] \in 0..15
    /\ \A w \in DiagonalWords : \A i \in 1..4 : w[i] \in 0..15
    BY DEF ColumnWords, DiagonalWords

\* A column round of any kernel.
LEMMA ColumnsMeet ==
    ASSUME kernel \in Kernels, regs = Loaded
    PROVE  Operands(ColumnRegs) = OfEveryBlock(ColumnWords)
    <1>1. CASE RowMajor
        <2> DEFINE pick == [c \in 0..3 |-> c]
        <2>1. pick \in [0..3 -> 0..3] /\ \A d \in 0..3 : \E c \in 0..3 : pick[c] = d
            OBVIOUS
        <2>2. ASSUME NEW g \in Groups, NEW l \in Lanes, NEW i \in 1..4
              PROVE  regs[g][i - 1][l] = <<Counter(RowBlock(g, l)), Column[pick[l % 4]][i]>>
            <3>1. i - 1 \in 0..3 /\ l % 4 \in 0..3
                BY DEF Lanes
            <3>2. regs[g][i - 1][l] = <<Counter(RowBlock(g, l)), 4 * (i - 1) + (l % 4)>>
                <4> DEFINE r == i - 1
                <4>1. r \in 0..3
                    BY <3>1
                <4> HIDE DEF r
                <4>2. Loaded[g][r] = [m \in Lanes |-> <<Counter(RowBlock(g, m)), 4 * r + (m % 4)>>]
                    BY <1>1, <4>1, LoadedRow
                <4>3. Loaded[g][r][l] = <<Counter(RowBlock(g, l)), 4 * r + (l % 4)>>
                    BY <4>2
                <4>4. QED
                    BY <4>3 DEF r
            <3>3. Column[l % 4][i] = 4 * (i - 1) + (l % 4)
                BY <3>1 DEF Column
            <3>4. QED
                BY <3>1, <3>2, <3>3
        <2> HIDE DEF pick
        <2>3. Operands({<<0, 1, 2, 3>>}) = OfEveryBlock({Column[d] : d \in 0..3})
            BY <1>1, <2>1, <2>2, RowOperands
        <2>4. QED
            BY <1>1, <2>3, ColumnWordsAre DEF ColumnRegs
    <1>2. CASE ~RowMajor
        BY <1>2, WordOperands, RoundWords DEF ColumnRegs
    <1>3. QED
        BY <1>1, <1>2

\* The word a turned row has where it meets the others: the lane's diagonal,
\* which on x86 is the one before its number, as the rows a and not b turn.
LEMMA TurnedWord ==
    ASSUME NEW c \in 0..3, NEW i \in 1..4
    PROVE  4 * (i - 1) + ToCols4[i][c + 1] =
             Diagonal[IF kernel.layout = "neonrow" THEN c ELSE (c + 3) % 4][i]
    <1>1. CASE kernel.layout = "neonrow"
        <2>1. 4 * (i - 1) + ToColsNeon[i][c + 1] = Diagonal[c][i]
            BY DEF ToColsNeon, RotL1, RotL2, RotL3, Still, Diagonal
        <2>2. QED
            BY <1>1, <2>1 DEF ToCols4
    <1>2. CASE kernel.layout # "neonrow"
        <2>1. 4 * (i - 1) + ToColsX86[i][c + 1] = Diagonal[(c + 3) % 4][i]
            BY DEF ToColsX86, RotL1, RotL2, RotL3, Still, Diagonal
        <2>2. QED
            BY <1>2, <2>1 DEF ToCols4
    <1>3. QED
        BY <1>1, <1>2

\* A diagonal round of any kernel.
LEMMA DiagonalsMeet ==
    ASSUME kernel \in Kernels, regs = IF RowMajor THEN Slanted ELSE Loaded
    PROVE  Operands(DiagonalRegs) = OfEveryBlock(DiagonalWords)
    <1>1. CASE RowMajor
        <2> DEFINE pick == [c \in 0..3 |->
                              IF kernel.layout = "neonrow" THEN c ELSE (c + 3) % 4]
        <2>1. pick \in [0..3 -> 0..3]
            OBVIOUS
        <2>2. ASSUME NEW d \in 0..3
              PROVE  \E c \in 0..3 : pick[c] = d
            <3>1. d \in 0..3 /\ (d + 1) % 4 \in 0..3 /\ (((d + 1) % 4) + 3) % 4 = d
                OBVIOUS
            <3>2. CASE kernel.layout = "neonrow"
                <4>1. pick[d] = d
                    BY <3>2
                <4>2. QED
                    BY <4>1
            <3>3. CASE kernel.layout # "neonrow"
                <4>1. pick[(d + 1) % 4] = d
                    BY <3>1, <3>3
                <4>2. QED
                    BY <3>1, <4>1
            <3>4. QED
                BY <3>2, <3>3
        <2>3. ASSUME NEW g \in Groups, NEW l \in Lanes, NEW i \in 1..4
              PROVE  regs[g][i - 1][l] = <<Counter(RowBlock(g, l)), Diagonal[pick[l % 4]][i]>>
            <3>1. i - 1 \in 0..3 /\ l % 4 \in 0..3 /\ (i - 1) + 1 = i
                BY DEF Lanes
            <3>2. regs[g][i - 1][l] = <<Counter(RowBlock(g, l)), 4 * (i - 1) + ToCols4[i][(l % 4) + 1]>>
                <4> DEFINE r == i - 1
                <4>1. r \in 0..3 /\ r + 1 = i
                    BY <3>1
                <4> HIDE DEF r
                <4>2. Slanted[g][r] =
                        [m \in Lanes |-> <<Counter(RowBlock(g, m)), 4 * r + ToCols4[r + 1][(m % 4) + 1]>>]
                    BY <1>1, <4>1, SlantedRow
                <4>3. Slanted[g][r][l] = <<Counter(RowBlock(g, l)), 4 * r + ToCols4[i][(l % 4) + 1]>>
                    BY <4>1, <4>2
                <4>4. QED
                    BY <1>1, <4>3 DEF r
            <3>3. 4 * (i - 1) + ToCols4[i][(l % 4) + 1] = Diagonal[pick[l % 4]][i]
                BY <3>1, TurnedWord
            <3>4. QED
                BY <3>1, <3>2, <3>3
        <2> HIDE DEF pick
        <2>4. Operands({<<0, 1, 2, 3>>}) = OfEveryBlock({Diagonal[d] : d \in 0..3})
            BY <1>1, <2>1, <2>2, <2>3, RowOperands
        <2>5. QED
            BY <1>1, <2>4, DiagonalWordsAre DEF DiagonalRegs
    <1>2. CASE ~RowMajor
        <2>1. Operands(DiagonalWords) = OfEveryBlock(DiagonalWords)
            BY <1>2, WordOperands, RoundWords
        <2>2. DiagonalRegs = DiagonalWords
            BY <1>2 DEF DiagonalRegs, DiagonalWords
        <2>3. QED
            BY <2>1, <2>2
    <1>3. QED
        BY <1>1, <1>2
----------------------------------------------------------------------------
(* Emission.                                                                *)

\* A row kernel: the halves of two rows, or the rows themselves.
LEMMA RowEmittedIs ==
    ASSUME kernel \in Kernels, RowMajor, regs = Loaded, NEW b \in Blocks, NEW w \in 0..15
    PROVE  Emitted(b, w) = <<Counter(b), w>>
    <1> DEFINE g == IF kernel.layout = "quad" THEN b \div 2 ELSE b
               l == IF kernel.layout = "quad" THEN 4 * (b % 2) + (w % 4) ELSE w % 4
               r == w \div 4
    <1>1. r \in 0..3 /\ 4 * r + (w % 4) = w /\ w % 4 \in 0..3 /\ (w % 4) % 4 = w % 4
        OBVIOUS
    <1>2. /\ g \in Groups /\ l \in Lanes /\ l % 4 = w % 4
          /\ RowBlock(g, l) = b /\ Emitted(b, w) = regs[g][r][l]
        <2>1. CASE kernel.layout = "quad"
            <3>1. b \in 0..(2 * kernel.groups - 1) /\ kernel.groups \in Nat /\ Lanes = 0..7
                <4>1. kernel.groups \in Nat /\ kernel.lanes = 8
                    BY <2>1, KernelFacts
                <4>2. NumBlocks = 2 * kernel.groups /\ Lanes = 0..(kernel.lanes - 1)
                    BY <2>1, Numbers
                <4>3. QED
                    BY <4>1, <4>2 DEF Blocks
            <3>2. b \div 2 \in 0..(kernel.groups - 1) /\ b \div 2 < kernel.groups
                BY <3>1
            <3>3. /\ 4 * (b % 2) + (w % 4) \in 0..7
                  /\ (4 * (b % 2) + (w % 4)) % 4 = w % 4
                  /\ 2 * (b \div 2) + ((4 * (b % 2) + (w % 4)) \div 4) = b
                BY <1>1, <3>1
            <3>4. Slot(b \div 2) = b \div 2
                BY <3>2 DEF Slot
            <3>5. Emitted(b, w) = regs[g][r][l]
                BY <2>1, <3>4 DEF Emitted, QuadEmitted
            <3>6. QED
                BY <2>1, <3>1, <3>2, <3>3, <3>5 DEF Groups, RowBlock
        <2>2. CASE kernel.layout # "quad"
            <3>1. Blocks = Groups /\ Lanes = 0..3
                BY <2>2, KernelFacts, Numbers DEF Blocks, RowMajor
            <3>2. QED
                BY <1>1, <2>2, <3>1 DEF RowBlock, Emitted, RowEmitted, RowMajor
        <2>3. QED
            BY <2>1, <2>2
    <1> HIDE DEF g, l, r
    <1>3. Loaded[g][r] = [m \in Lanes |-> <<Counter(RowBlock(g, m)), 4 * r + (m % 4)>>]
        BY <1>1, <1>2, LoadedRow
    <1>4. QED
        BY <1>1, <1>2, <1>3

\* Numbers of a 128-bit lane.
LEMMA InQuad ==
    ASSUME NEW B \in Nat, NEW c \in 0..3
    PROVE  /\ 4 * B + c \in Nat
           /\ (4 * B + c) \div 4 = B
           /\ (4 * B + c) % 4 = c
           /\ (4 * B + c) % 2 = c % 2
    <1>1. c \in {0, 1, 2, 3}
        OBVIOUS
    <1>2. 4 * B + c \in Nat
        OBVIOUS
    <1>3. (4 * B + c) \div 4 = B
        BY <1>1
    <1>4. (4 * B + c) % 4 = c
        BY <1>1
    <1>5. (4 * B + c) % 2 = c % 2
        BY <1>1
    <1>6. QED
        BY <1>2, <1>3, <1>4, <1>5

\* A 128-bit lane that a register has one word of it has whole.
LEMMA QuadInLanes ==
    ASSUME kernel \in Kernels, ~RowMajor, NEW B \in Nat, NEW j \in 0..3, NEW c \in 0..3,
           4 * B + j \in Lanes
    PROVE  4 * B + c \in Lanes
    <1>1. kernel.lanes = 4 \/ kernel.lanes = 16
        BY KernelFacts DEF RowMajor
    <1>2. CASE kernel.lanes = 4
        BY <1>2 DEF Lanes
    <1>3. CASE kernel.lanes = 16
        BY <1>3 DEF Lanes
    <1>4. QED
        BY <1>1, <1>2, <1>3

\* The 4x4 transposition of a word group: lane l gets word l % 4 of the group
\* from lane b, where b is the block of piece j in the lane's quad.
LEMMA TransposedIs ==
    ASSUME kernel \in Kernels, ~RowMajor, NEW b \in Lanes, NEW l \in Lanes, NEW j \in 0..3,
           NEW B \in Nat, NEW c \in 0..3, b = 4 * B + j, l = 4 * B + c,
           NEW v0, NEW v1, NEW v2, NEW v3, DOMAIN v0 = Lanes, DOMAIN v2 = Lanes
    PROVE  Transposed(v0, v1, v2, v3, j)[l] =
             IF c < 2 THEN IF c % 2 = 0 THEN v0[b] ELSE v1[b]
             ELSE IF c % 2 = 0 THEN v2[b] ELSE v3[b]
    <1> DEFINE h == j \div 2
               t == Zip32(v0, v1, h)
               u == Zip32(v2, v3, h)
               d == 2 * (j % 2) + (c % 2)
               m == 4 * B + d
    <1>1. d \in 0..3 /\ d % 2 = c % 2 /\ d \div 2 = j % 2
        OBVIOUS
    <1>2. l \div 4 = B /\ l % 4 = c /\ l % 2 = c % 2
        BY InQuad
    <1>3. m \div 4 = B /\ m % 4 = d /\ m % 2 = d % 2
        BY <1>1, InQuad
    <1>4. m \in Lanes
        BY <1>1, QuadInLanes
    <1>5. m = 4 * B + 2 * (j % 2) + (c % 2)
        OBVIOUS
    <1>6. b = 4 * B + 2 * h + (j % 2)
        OBVIOUS
    <1>7. Transposed(v0, v1, v2, v3, j) = Zip64(t, u, j % 2)
        BY DEF Transposed
    <1>8. DOMAIN t = Lanes
        BY DEF Zip32
    <1> HIDE DEF d, m, h
    <1>9. b = 4 * (m \div 4) + 2 * h + (m % 4) \div 2
        BY <1>1, <1>3, <1>6
    <1>10. t[m] = IF c % 2 = 0 THEN v0[b] ELSE v1[b]
        BY <1>1, <1>3, <1>4, <1>9 DEF Zip32
    <1>11. u[m] = IF c % 2 = 0 THEN v2[b] ELSE v3[b]
        BY <1>1, <1>3, <1>4, <1>9 DEF Zip32
    <1> HIDE DEF t, u
    <1>12. Zip64(t, u, j % 2)[l] = IF c < 2 THEN t[m] ELSE u[m]
        <2>1. m = 4 * (l \div 4) + 2 * (j % 2) + (l % 2)
            BY <1>2, <1>5
        <2>2. Zip64(t, u, j % 2)[l] = IF l % 4 < 2 THEN t[m] ELSE u[m]
            BY <1>8, <2>1 DEF Zip64
        <2>3. QED
            BY <1>2, <2>2
    <1>13. QED
        BY <1>7, <1>10, <1>11, <1>12

\* A kernel of whole words.
LEMMA WordEmittedIs ==
    ASSUME kernel \in Kernels, ~RowMajor, regs = Loaded, NEW b \in Blocks, NEW w \in 0..15
    PROVE  Emitted(b, w) = <<Counter(b), w>>
    <1> DEFINE x == regs[0]
               g == 4 * (w \div 4)
               l == 4 * (b \div 4) + (w % 4)
               y == Transposed(x[g], x[g + 1], x[g + 2], x[g + 3], b % 4)
    <1>1. Blocks = Lanes /\ b \in Lanes /\ b \in Nat
        BY Numbers DEF RowMajor, Lanes
    <1>2. g \in {0, 4, 8, 12} /\ w % 4 \in 0..3 /\ g + (w % 4) = w
        OBVIOUS
    <1>3. b \div 4 \in Nat /\ b % 4 \in 0..3 /\ 4 * (b \div 4) + (b % 4) = b
        BY <1>1
    <1>4. 4 * (b \div 4) + (b % 4) \in Lanes
        BY <1>1, <1>3
    <1>5. Emitted(b, w) = y[l]
        BY DEF Emitted, WordEmitted, RowMajor
    <1>6. \A r \in 0..15 : x[r] = [m \in Lanes |-> <<Counter(m), r>>]
        BY LoadedWord
    <1>7. l \in Lanes
        BY <1>2, <1>3, <1>4, QuadInLanes
    <1>8. ASSUME NEW B \in Nat, NEW j \in 0..3, NEW c \in 0..3, b \div 4 = B, b % 4 = j, w % 4 = c
          PROVE  y[l] = <<Counter(b), w>>
        <2>1. b = 4 * B + j /\ l = 4 * B + c /\ w = g + c
            BY <1>2, <1>3, <1>8
        <2> DEFINE v0 == x[g]
                   v1 == x[g + 1]
                   v2 == x[g + 2]
                   v3 == x[g + 3]
        <2>2. y = Transposed(v0, v1, v2, v3, j)
            BY <1>8
        <2> HIDE DEF x, y, l
        <2>3. /\ v0 = [m \in Lanes |-> <<Counter(m), g>>] /\ v1 = [m \in Lanes |-> <<Counter(m), g + 1>>]
              /\ v2 = [m \in Lanes |-> <<Counter(m), g + 2>>] /\ v3 = [m \in Lanes |-> <<Counter(m), g + 3>>]
            <3>1. g \in 0..15 /\ g + 1 \in 0..15 /\ g + 2 \in 0..15 /\ g + 3 \in 0..15
                BY <1>2
            <3> HIDE DEF g
            <3>2. QED
                BY <1>6, <3>1
        <2> HIDE DEF v0, v1, v2, v3, g
        <2>4. DOMAIN v0 = Lanes /\ DOMAIN v2 = Lanes
            BY <2>3
        <2>5. Transposed(v0, v1, v2, v3, j)[l] =
                IF c < 2 THEN IF c % 2 = 0 THEN v0[b] ELSE v1[b]
                ELSE IF c % 2 = 0 THEN v2[b] ELSE v3[b]
            BY <1>1, <1>7, <2>1, <2>4, TransposedIs
        <2>6. /\ v0[b] = <<Counter(b), g>> /\ v1[b] = <<Counter(b), g + 1>>
              /\ v2[b] = <<Counter(b), g + 2>> /\ v3[b] = <<Counter(b), g + 3>>
            BY <1>1, <2>3
        <2>7. (IF c < 2 THEN IF c % 2 = 0 THEN v0[b] ELSE v1[b]
               ELSE IF c % 2 = 0 THEN v2[b] ELSE v3[b]) = <<Counter(b), g + c>>
            <3>1. g \in Nat /\ (c = 0 \/ c = 1 \/ c = 2 \/ c = 3)
                BY <1>2
            <3>2. CASE c = 0
                BY <2>6, <3>1, <3>2
            <3>3. CASE c = 1
                BY <2>6, <3>1, <3>3
            <3>4. CASE c = 2
                BY <2>6, <3>1, <3>4
            <3>5. CASE c = 3
                BY <2>6, <3>1, <3>5
            <3>6. QED
                BY <3>1, <3>2, <3>3, <3>4, <3>5
        <2>8. QED
            BY <2>1, <2>2, <2>5, <2>7
    <1>9. QED
        BY <1>2, <1>3, <1>5, <1>8

\* Every word of every block comes out where it belongs.
LEMMA EmittedIs ==
    ASSUME kernel \in Kernels, regs = Loaded, NEW b \in Blocks, NEW w \in 0..15
    PROVE  Emitted(b, w) = <<Counter(b), w>>
    BY RowEmittedIs, WordEmittedIs
----------------------------------------------------------------------------
(* Stores.                                                                  *)

\* The two masks of a partial block make one run of words.
LEMMA MaskedIs ==
    ASSUME NEW i \in Nat, NEW k \in 0..15
    PROVE  Masked(i, k) = (16 * i)..(16 * i + k - 1)
    <1> DEFINE k0 == IF k < 8 THEN k ELSE 8
               a == 16 * i
               run(b, m) == {b + w : w \in 0..(m - 1)}
    <1>1. ASSUME NEW b \in Nat, NEW m \in Nat, NEW p
          PROVE  p \in run(b, m) <=> p \in Nat /\ b <= p /\ p < b + m
        <2>1. ASSUME p \in Nat, b <= p, p < b + m
              PROVE  p \in run(b, m)
            <3>1. p - b \in 0..(m - 1) /\ b + (p - b) = p
                BY <2>1
            <3>2. QED
                BY <3>1
        <2>2. QED
            BY <2>1
    <1>2. a \in Nat /\ k \in Nat /\ k0 \in Nat /\ a + 8 \in Nat /\ k - k0 \in Nat
        OBVIOUS
    <1>3. Masked(i, k) = IF kernel.layout = "word" THEN run(a, k)
                         ELSE run(a, k0) \cup run(a + 8, k - k0)
        BY DEF Masked
    <1>4. (16 * i)..(16 * i + k - 1) = a..(a + k - 1)
        OBVIOUS
    <1>5. k0 = (IF k < 8 THEN k ELSE 8)
        OBVIOUS
    <1> HIDE DEF run, a, k0
    <1>6. ASSUME NEW p
          PROVE  p \in Masked(i, k) <=> p \in a..(a + k - 1)
        <2>1. p \in a..(a + k - 1) <=> p \in Nat /\ a <= p /\ p < a + k
            BY <1>2
        <2>2. CASE kernel.layout = "word"
            BY <1>1, <1>2, <1>3, <2>1, <2>2
        <2>3. CASE kernel.layout # "word"
            <3>1. p \in run(a, k0) <=> p \in Nat /\ a <= p /\ p < a + k0
                BY <1>1, <1>2
            <3>2. p \in run(a + 8, k - k0) <=> p \in Nat /\ a + 8 <= p /\ p < (a + 8) + (k - k0)
                BY <1>1, <1>2
            <3>3. CASE k < 8
                <4>1. k0 = k
                    BY <1>5, <3>3
                <4>2. QED
                    BY <1>2, <1>3, <2>1, <2>3, <3>1, <3>2, <4>1
            <3>4. CASE ~(k < 8)
                <4>1. k0 = 8 /\ k >= 8
                    BY <1>5, <3>4
                <4>2. QED
                    BY <1>2, <1>3, <2>1, <2>3, <3>1, <3>2, <4>1
            <3>5. QED
                BY <3>3, <3>4
        <2>4. QED
            BY <2>2, <2>3
    <1>7. QED
        BY <1>4, <1>6

\* Whole blocks and a partial one are the first words of the message.
LEMMA FirstWords ==
    ASSUME NEW nfull \in Nat, NEW k \in 0..15, NEW n, n = 16 * nfull + k
    PROVE  (UNION {Whole(i) : i \in 0..(nfull - 1)}) \cup Masked(nfull, k) = 0..(n - 1)
    <1> DEFINE whole == UNION {Whole(i) : i \in 0..(nfull - 1)}
    <1>1. whole = 0..(16 * nfull - 1)
        <2>1. ASSUME NEW p \in whole
              PROVE  p \in 0..(16 * nfull - 1)
            <3>1. PICK i \in 0..(nfull - 1) : p \in Whole(i)
                OBVIOUS
            <3>2. QED
                BY <3>1 DEF Whole
        <2>2. ASSUME NEW p \in 0..(16 * nfull - 1)
              PROVE  p \in whole
            <3>1. p \div 16 \in 0..(nfull - 1)
                OBVIOUS
            <3>2. p \in Whole(p \div 16)
                BY DEF Whole
            <3>3. QED
                BY <3>1, <3>2
        <2>3. QED
            BY <2>1, <2>2
    <1>2. Masked(nfull, k) = (16 * nfull)..(16 * nfull + k - 1)
        BY MaskedIs
    <1> HIDE DEF whole
    <1>3. 0..(16 * nfull - 1) \cup (16 * nfull)..(16 * nfull + k - 1) = 0..(n - 1)
        OBVIOUS
    <1>4. whole \cup Masked(nfull, k) = 0..(n - 1)
        BY <1>1, <1>2, <1>3
    <1>5. QED
        BY <1>4 DEF whole

\* What its callers give a kernel fits in the blocks it has, the key's apart.
LEMMA GivenFits ==
    ASSUME kernel \in Kernels, NEW n \in Nat, Given(n)
    PROVE  /\ Ahead \in 0..1
           /\ n <= 16 * (NumBlocks - Ahead)
           /\ kernel.store = "small" => n \in {0, 16, 32, 48}
           /\ kernel.store = "small" /\ kernel.layout = "row" /\ n > 16 => kernel.groups = 4
    <1>1. kernel.groups \in Nat /\ kernel.groups > 0 /\ NumBlocks \in Nat
        BY KernelFacts, Numbers
    <1>2. CASE kernel.store = "whole"
        BY <1>1, <1>2 DEF Given, Ahead, KeyFirst
    <1>3. CASE kernel.store = "partial"
        BY <1>1, <1>3 DEF Given, Ahead, KeyFirst
    <1>4. CASE kernel.store = "direct"
        <2>1. Ahead = 1 /\ n <= 240 /\ DirectShape(n) = <<kernel.layout, kernel.groups>>
            BY <1>4 DEF Given, Ahead, KeyFirst
        <2>2. CASE n <= 80
            <3>1. kernel.layout = "quad" /\ kernel.groups = 3
                <4>1. DirectShape(n) = <<"quad", 3>>
                    <5>1. n <= 5 * 16
                        BY <2>2
                    <5>2. QED
                        BY <5>1 DEF DirectShape
                <4>2. <<kernel.layout, kernel.groups>> = <<"quad", 3>>
                    BY <2>1, <4>1
                <4>3. QED
                    BY <4>2
            <3>2. QED
                BY <1>4, <2>1, <2>2, <3>1, Numbers
        <2>3. CASE n > 80 /\ n <= 112
            <3>1. kernel.layout = "quad" /\ kernel.groups = 4
                <4>1. DirectShape(n) = <<"quad", 4>>
                    BY <2>3 DEF DirectShape
                <4>2. <<kernel.layout, kernel.groups>> = <<"quad", 4>>
                    BY <2>1, <4>1
                <4>3. QED
                    BY <4>2
            <3>2. QED
                BY <1>4, <2>1, <2>3, <3>1, Numbers
        <2>4. CASE n > 112
            <3>1. kernel.layout = "word"
                BY <2>1, <2>4 DEF DirectShape
            <3>2. NumBlocks = 16
                BY <1>4, <3>1, Numbers, KernelFacts
            <3>3. QED
                BY <1>4, <2>1, <3>2
        <2>5. QED
            BY <2>2, <2>3, <2>4
    <1>5. CASE kernel.store = "key_xor2"
        <2>1. Ahead = 1 /\ n = 16
            BY <1>5 DEF Given, Ahead, KeyFirst
        <2>2. NumBlocks >= 2
            <3>1. CASE kernel.layout = "quad"
                BY <1>1, <3>1, Numbers
            <3>2. CASE kernel.layout = "row"
                BY <1>1, <1>5, <3>2, Numbers, KernelFacts
            <3>3. QED
                BY <1>5, <3>1, <3>2, KernelFacts
        <2>3. QED
            BY <1>1, <1>5, <2>1, <2>2
    <1>6. CASE kernel.store = "small"
        <2>1. Ahead = 1 /\ n \in {0, 16, 32, 48} /\ SmallGroups(n) = kernel.groups
            BY <1>6 DEF Given, Ahead, KeyFirst
        <2>2. CASE kernel.layout = "quad"
            <3>1. kernel.groups = IF n <= 16 THEN 1 ELSE 2
                BY <2>1, <2>2 DEF SmallGroups
            <3>2. NumBlocks = 2 * kernel.groups
                BY <2>2, Numbers
            <3>3. QED
                BY <1>1, <2>1, <2>2, <3>1, <3>2
        <2>3. CASE kernel.layout = "row"
            <3>1. kernel.groups = IF n <= 16 THEN 2 ELSE 4
                BY <2>1, <2>3 DEF SmallGroups
            <3>2. NumBlocks = kernel.groups
                BY <2>3, Numbers
            <3>3. QED
                BY <1>1, <2>1, <2>3, <3>1, <3>2
        <2>4. QED
            BY <1>6, <2>2, <2>3, KernelFacts
    <1>7. QED
        BY <1>2, <1>3, <1>4, <1>5, <1>6, KernelFacts

\* Every word of the message is stored, from a block that the kernel has, and
\* nothing past it but what the buffer of the small message has room for.
LEMMA StoredIs ==
    ASSUME kernel \in Kernels, NEW nfull \in Nat, NEW k \in 0..15, NEW n,
           n = 16 * nfull + k, Given(n)
    PROVE  /\ 0..(n - 1) \subseteq Stored(nfull, k)
           /\ Stored(nfull, k) \subseteq
                 0..((IF kernel.store = "small" THEN SmallMax ELSE n) - 1)
           /\ \A p \in Stored(nfull, k) : p \in Nat /\ p \div 16 + Ahead \in Blocks
    <1>1. /\ Ahead \in 0..1 /\ n \in Nat
          /\ n <= 16 * (NumBlocks - Ahead)
          /\ kernel.store = "small" => n \in {0, 16, 32, 48}
          /\ kernel.store = "small" /\ kernel.layout = "row" /\ n > 16 => kernel.groups = 4
        BY GivenFits
    <1>2. NumBlocks \in Nat
        BY Numbers
    <1>3. ASSUME NEW e \in Nat, e <= 16 * (NumBlocks - Ahead), NEW p \in 0..(e - 1)
          PROVE  p \in Nat /\ p \div 16 + Ahead \in Blocks
        <2>1. p \div 16 \in Nat /\ p \div 16 < NumBlocks - Ahead
            BY <1>1, <1>2, <1>3
        <2>2. QED
            BY <1>1, <1>2, <2>1 DEF Blocks
    <1>4. CASE kernel.store = "small" /\ kernel.layout = "row" /\ nfull > 1
        <2>1. n > 16 /\ n <= 48
            BY <1>1, <1>4
        <2>2. kernel.groups = 4 /\ NumBlocks = 4 /\ Ahead = 1
            BY <1>1, <1>4, <2>1, Numbers DEF Ahead, KeyFirst
        <2>3. Stored(nfull, k) = 0..47
            BY <1>4, <2>2 DEF Stored
        <2>4. \A p \in 0..47 : p \in Nat /\ p \div 16 + Ahead \in Blocks
            <3>1. ASSUME NEW p \in 0..(48 - 1)
                  PROVE  p \in Nat /\ p \div 16 + Ahead \in Blocks
                BY <2>2 DEF Blocks
            <3>2. QED
                BY <3>1
        <2>5. QED
            BY <1>1, <1>4, <2>1, <2>3, <2>4 DEF SmallMax
    <1>5. CASE ~(kernel.store = "small" /\ kernel.layout = "row" /\ nfull > 1)
        <2>1. Stored(nfull, k) = 0..(n - 1)
            <3>1. Stored(nfull, k) = (UNION {Whole(i) : i \in 0..(nfull - 1)}) \cup Masked(nfull, k)
                BY <1>5 DEF Stored
            <3>2. QED
                BY <3>1, FirstWords
        <2>2. \A p \in 0..(n - 1) : p \in Nat /\ p \div 16 + Ahead \in Blocks
            BY <1>1, <1>3
        <2>3. 0..(n - 1) \subseteq 0..((IF kernel.store = "small" THEN SmallMax ELSE n) - 1)
            BY <1>1 DEF SmallMax
        <2>4. QED
            BY <2>1, <2>2, <2>3
    <1>6. QED
        BY <1>4, <1>5
----------------------------------------------------------------------------
(* Steps.                                                                   *)

\* Only the kernel says what is loaded and how it is turned.
LEMMA SameKernel ==
    ASSUME kernel' = kernel, base' = base
    PROVE  /\ Loaded' = Loaded
           /\ Slanted' = Slanted
           /\ RowMajor' = RowMajor
           /\ Ahead' = Ahead
           /\ KeyFirst' = KeyFirst
           /\ \A k : Counter(k)' = Counter(k)
    <1>1. Groups' = Groups /\ Lanes' = Lanes /\ RowMajor' = RowMajor /\ ToCols4' = ToCols4
        BY DEF Groups, Lanes, RowMajor, ToCols4
    <1>2. ASSUME NEW g, NEW r, NEW l
          PROVE  LoadedCell(g, r, l)' = LoadedCell(g, r, l)
        BY DEF LoadedCell, QuadCounter, RowCounter, WordCounter, Counter
    <1>3. Loaded' = Loaded
        BY <1>1, <1>2 DEF Loaded
    <1>4. Slanted' = Slanted
        BY <1>1, <1>3 DEF Slanted
    <1>5. KeyFirst' = KeyFirst /\ Ahead' = Ahead
        BY DEF KeyFirst, Ahead
    <1>6. \A k : Counter(k)' = Counter(k)
        BY DEF Counter
    <1>7. QED
        BY <1>1, <1>3, <1>4, <1>5, <1>6

\* The first block of a fresh state is block 0.
LEMMA FirstCounter ==
    ASSUME base = 0
    PROVE  Counter(0) = 0
    BY BasesAssumption DEF Counter

\* Only the emission ends a kernel.
LEMMA NotDone ==
    ASSUME pc' # "done"
    PROVE  BlocksInOrder' /\ StoresCoverMessage'
    BY DEF BlocksInOrder, StoresCoverMessage

LEMMA InitInv == Init => Inv
    BY DEF Init, Inv, Stages, Placed, BlocksInOrder, StoresCoverMessage

LEMMA ColumnRoundInv == Inv /\ ColumnRound => Inv'
    <1> SUFFICES ASSUME Inv, ColumnRound PROVE Inv'
        OBVIOUS
    <1>1. pc = "column" /\ kernel' = kernel /\ base' = base /\ regs' = regs
          /\ pc' = IF RowMajor THEN "to_cols" ELSE "diagonal"
        BY DEF ColumnRound
    <1>2. regs = Loaded /\ kernel \in Kernels
        BY <1>1 DEF Inv, Placed
    <1>3. Placed'
        BY <1>1, <1>2, SameKernel DEF Placed
    <1>4. pc' \in Stages /\ pc' # "done"
        BY <1>1 DEF Stages
    <1>5. QED
        BY <1>1, <1>2, <1>3, <1>4, SameKernel, NotDone DEF Inv

LEMMA ToColsInv == Inv /\ ToCols => Inv'
    <1> SUFFICES ASSUME Inv, ToCols PROVE Inv'
        OBVIOUS
    <1>1. pc = "to_cols" /\ kernel' = kernel /\ base' = base /\ pc' = "diagonal" /\ regs' = Turned(ToCols4)
        BY DEF ToCols, ToCols4
    <1>2. regs = Loaded /\ RowMajor /\ kernel \in Kernels
        BY <1>1 DEF Inv, Placed
    <1>3. regs' = Slanted
        BY <1>1, <1>2, TurnsOver
    <1>4. Placed'
        BY <1>1, <1>2, <1>3, SameKernel DEF Placed
    <1>5. QED
        BY <1>1, <1>2, <1>4, SameKernel, NotDone DEF Inv, Stages

LEMMA DiagonalRoundInv == Inv /\ DiagonalRound => Inv'
    <1> SUFFICES ASSUME Inv, DiagonalRound PROVE Inv'
        OBVIOUS
    <1>1. pc = "diagonal" /\ kernel' = kernel /\ base' = base /\ regs' = regs
        BY DEF DiagonalRound
    <1>2. kernel \in Kernels /\ regs = IF RowMajor THEN Slanted ELSE Loaded
        BY <1>1 DEF Inv, Placed
    <1>3. IF RowMajor THEN pc' = "to_rows" ELSE pc' \in {"emit", "column"}
        BY DEF DiagonalRound, AfterDouble
    <1>4. Placed'
        BY <1>1, <1>2, <1>3, SameKernel DEF Placed
    <1>5. pc' \in Stages /\ pc' # "done"
        BY <1>3 DEF Stages
    <1>6. QED
        BY <1>1, <1>2, <1>4, <1>5, SameKernel, NotDone DEF Inv

LEMMA ToRowsInv == Inv /\ ToRows => Inv'
    <1> SUFFICES ASSUME Inv, ToRows PROVE Inv'
        OBVIOUS
    <1>1. pc = "to_rows" /\ kernel' = kernel /\ base' = base /\ pc' \in {"emit", "column"} /\ regs' = Turned(ToRows4)
        BY DEF ToRows, ToRows4, AfterDouble
    <1>2. kernel \in Kernels /\ RowMajor /\ regs = Slanted
        BY <1>1 DEF Inv, Placed
    <1>3. regs' = Loaded
        BY <1>1, <1>2, TurnsBack
    <1>4. Placed'
        BY <1>1, <1>3, SameKernel DEF Placed
    <1>5. pc' \in Stages /\ pc' # "done"
        BY <1>1 DEF Stages
    <1>6. QED
        BY <1>1, <1>2, <1>4, <1>5, SameKernel, NotDone DEF Inv

LEMMA EmitInv == Inv /\ Emit => Inv'
    <1> SUFFICES ASSUME Inv, Emit PROVE Inv'
        OBVIOUS
    <1>1. pc = "emit" /\ kernel' = kernel /\ base' = base /\ regs' = regs /\ pc' = "done"
        BY DEF Emit
    <1>2. kernel \in Kernels /\ regs = Loaded
        BY <1>1 DEF Inv, Placed
    <1>3. Placed'
        BY <1>1, <1>2, SameKernel DEF Placed
    <1>4. PICK nfull \in 0..NumBlocks, k \in Tails :
             /\ Given(16 * nfull + k)
             /\ len' = 16 * nfull + k
             /\ out' = [p \in Stored(nfull, k) |-> Emitted(p \div 16 + Ahead, p % 16)]
        BY DEF Emit
    <1>5. nfull \in Nat /\ k \in 0..15
        BY <1>2, <1>4, Numbers, TailsAssumption
    <1>6. /\ 0..(len' - 1) \subseteq Stored(nfull, k)
          /\ Stored(nfull, k) \subseteq
                0..((IF kernel.store = "small" THEN SmallMax ELSE len') - 1)
          /\ \A p \in Stored(nfull, k) : p \in Nat /\ p \div 16 + Ahead \in Blocks
        BY <1>2, <1>4, <1>5, StoredIs
    <1>7. StoresCoverMessage'
        <2>1. DOMAIN out' = Stored(nfull, k)
            BY <1>4
        <2>2. SmallMax' = SmallMax
            BY DEF SmallMax
        <2>3. QED
            BY <1>1, <1>6, <2>1, <2>2 DEF StoresCoverMessage
    <1>8. BlocksInOrder'
        <2>1. ASSUME NEW p \in DOMAIN out'
              PROVE  out'[p] = <<Counter(p \div 16 + Ahead), p % 16>>
            <3>1. p \in Stored(nfull, k) /\ out'[p] = Emitted(p \div 16 + Ahead, p % 16)
                BY <1>4
            <3>2. p \div 16 + Ahead \in Blocks /\ p % 16 \in 0..15
                BY <1>6, <3>1
            <3>3. QED
                BY <1>2, <3>1, <3>2, EmittedIs
        <2>2. ASSUME KeyFirst
              PROVE  key' = [w \in 0..7 |-> <<0, w>>]
            <3> base = 0
                BY <2>2 DEF Inv
            <3>1. key' = [w \in 0..7 |-> Emitted(0, w)]
                BY <2>2 DEF Emit
            <3>2. 0 \in Blocks
                BY <1>2, Numbers DEF Blocks
            <3>3. \A w \in 0..7 : Emitted(0, w) = <<Counter(0), w>>
                BY <1>2, <3>2, EmittedIs
            <3>4. QED
                BY <3>1, <3>3, FirstCounter
        <2>3. QED
            BY <1>1, <2>1, <2>2, SameKernel DEF BlocksInOrder
    <1>9. QED
        BY <1>1, <1>2, <1>3, <1>7, <1>8, SameKernel DEF Inv, Stages

LEMMA NextInv == Inv /\ [Next]_vars => Inv'
    <1>1. Inv /\ UNCHANGED vars => Inv'
        <2> SUFFICES ASSUME Inv, UNCHANGED vars PROVE Inv'
            OBVIOUS
        <2>1. kernel' = kernel /\ base' = base /\ pc' = pc /\ regs' = regs /\ len' = len /\ out' = out /\ key' = key
            BY DEF vars, stored
        <2>2. Placed'
            BY <2>1, SameKernel DEF Inv, Placed
        <2>3. BlocksInOrder'
            BY <2>1, SameKernel DEF Inv, BlocksInOrder
        <2>4. StoresCoverMessage'
            BY <2>1 DEF Inv, StoresCoverMessage, SmallMax
        <2>5. QED
            BY <2>1, <2>2, <2>3, <2>4, SameKernel DEF Inv
    <1>2. QED
        BY <1>1, ColumnRoundInv, ToColsInv, DiagonalRoundInv, ToRowsInv, EmitInv DEF Next

----------------------------------------------------------------------------
(* Theorems.                                                                *)

\* The invariant: at each stage of a double round every word is where the
\* kernel's layout has it then.
THEOREM InvHolds == Spec => []Inv
    <1>1. QED
        BY InitInv, NextInv, PTL DEF Spec

\* Every round of every kernel applies exactly the scalar code's quarter rounds
\* to every block, columns and diagonals in turn, for any number of register
\* groups (soft.rs, rounds; sse2.rs, avx2.rs, avx512.rs, neon.rs, the round
\* macros).
THEOREM RoundsHold == Spec => RoundsAreScalar
    <1> DEFINE Scalar == /\ pc = "column" => applied' = OfEveryBlock(ColumnWords)
                         /\ pc = "diagonal" => applied' = OfEveryBlock(DiagonalWords)
    <1>1. Inv /\ [Next]_vars => [Scalar]_vars
        <2> SUFFICES ASSUME Inv, Next PROVE Scalar
            OBVIOUS
        <2>1. kernel \in Kernels /\ Placed
            BY DEF Inv
        <2>2. ASSUME pc = "column"
              PROVE  applied' = OfEveryBlock(ColumnWords)
            <3>1. applied' = Operands(ColumnRegs)
                BY <2>2 DEF Next, ColumnRound, ToCols, DiagonalRound, ToRows, Emit
            <3>2. regs = Loaded
                BY <2>1, <2>2 DEF Placed
            <3>3. QED
                BY <2>1, <3>1, <3>2, ColumnsMeet
        <2>3. ASSUME pc = "diagonal"
              PROVE  applied' = OfEveryBlock(DiagonalWords)
            <3>1. applied' = Operands(DiagonalRegs)
                BY <2>3 DEF Next, ColumnRound, ToCols, DiagonalRound, ToRows, Emit
            <3>2. regs = IF RowMajor THEN Slanted ELSE Loaded
                BY <2>1, <2>3 DEF Placed
            <3>3. QED
                BY <2>1, <3>1, <3>2, DiagonalsMeet
        <2>4. QED
            BY <2>2, <2>3
    <1>2. RoundsAreScalar <=> [][Scalar]_vars
        BY DEF RoundsAreScalar
    <1> HIDE DEF Scalar
    <1>3. QED
        BY <1>1, <1>2, InvHolds, PTL DEF Spec

\* After the rounds every word is back in the lane it was loaded into, so that
\* the feed-forward adds the original state word by word.
THEOREM FeedForwardHolds == Spec => []FeedForwardAligned
    <1>1. Inv => FeedForwardAligned
        BY DEF Inv, Placed, FeedForwardAligned
    <1>2. QED
        BY <1>1, InvHolds, PTL

\* Every word of a message meets its own word of the keystream, whatever the
\* layout, the transposition that undoes it and the blocks the message leaves,
\* and the key of Poly1305 is the first half of block 0.
THEOREM OrderHolds == Spec => []BlocksInOrder
    <1>1. Inv => BlocksInOrder
        BY DEF Inv
    <1>2. QED
        BY <1>1, InvHolds, PTL

\* What a kernel stores is the message, whole, and nothing past it; the raw
\* keystream of a small message does not leave the buffer it is made in.
THEOREM CoverHolds == Spec => []StoresCoverMessage
    <1>1. Inv => StoresCoverMessage
        BY DEF Inv
    <1>2. QED
        BY <1>1, InvHolds, PTL
===============================================================================
