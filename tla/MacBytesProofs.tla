---------------------------- MODULE MacBytesProofs ---------------------------
(***************************************************************************)
(* Proofs about MacBytes, for messages and AAD of every length and every   *)
(* way to cut them.  The invariant is that what the wrapper has passed on  *)
(* and what it holds back are the first bytes of mac_data; each absorbing  *)
(* operation preserves that for any segment that comes next in mac_data.   *)
(***************************************************************************)
EXTENDS MacBytes, SequenceTheorems, TLAPS

Byte  == {"zero", "aad", "text", "aad length", "text length"} \X Nat
Block == [1..16 -> Byte]

Wrapper == [have: 0..15, pending: Block, blocks: Seq(Block)]

Count(p) == 16 * Len(p.blocks) + p.have

\* What the wrapper p was given are the first bytes of mac_data.
Matches(p) ==
    /\ \A i \in 1..Len(p.blocks), j \in 1..16 :
          p.blocks[i][j] = MacData(16 * (i - 1) + j)
    /\ \A j \in 1..p.have : p.pending[j] = MacData(16 * Len(p.blocks) + j)

\* The segment s is what comes next after the first c bytes of mac_data.
Follows(s, c) == \A j \in 1..Len(s) : s[j] = MacData(c + j)

----------------------------------------------------------------------------
(* The wrapper.                                                             *)

\* The blocks of a segment.
LEMMA ChunksOf ==
    ASSUME NEW s \in Seq(Byte)
    PROVE  /\ Chunks(s) \in Seq(Block)
           /\ Len(Chunks(s)) = Len(s) \div 16
           /\ \A i \in 1..Len(Chunks(s)), j \in 1..16 :
                 /\ 16 * (i - 1) + j \in 1..Len(s)
                 /\ Chunks(s)[i][j] = s[16 * (i - 1) + j]
    <1> DEFINE n == Len(s) \div 16
    <1>1. Len(s) \in Nat /\ n \in Nat /\ 16 * n <= Len(s)
        OBVIOUS
    <1>2. \A i \in 1..n, j \in 1..16 : 16 * (i - 1) + j \in 1..Len(s)
        <2> HIDE DEF n
        <2>1. QED
            BY <1>1
    <1>3. \A i \in 1..n : [j \in 1..16 |-> s[16 * (i - 1) + j]] \in Block
        <2> SUFFICES ASSUME NEW i \in 1..n
                     PROVE  [j \in 1..16 |-> s[16 * (i - 1) + j]] \in Block
            OBVIOUS
        <2>1. \A j \in 1..16 : s[16 * (i - 1) + j] \in Byte
            <3> HIDE DEF n
            <3>1. QED
                BY <1>2
        <2>2. QED
            BY <2>1 DEF Block
    <1>4. Chunks(s) \in [1..n -> Block]
        BY <1>3 DEF Chunks
    <1>5. Chunks(s) \in Seq(Block) /\ Len(Chunks(s)) = n
        <2> HIDE DEF n
        <2>1. QED
            BY <1>1, <1>4
    <1>6. \A i \in 1..n, j \in 1..16 : Chunks(s)[i][j] = s[16 * (i - 1) + j]
        BY DEF Chunks
    <1>7. QED
        BY <1>2, <1>5, <1>6

\* Blocks that match, and after them those of a segment that comes next.
LEMMA Appended ==
    ASSUME NEW b \in Seq(Block), NEW s \in Seq(Byte),
           \A i \in 1..Len(b), j \in 1..16 : b[i][j] = MacData(16 * (i - 1) + j),
           Follows(s, 16 * Len(b))
    PROVE  LET c == b \o Chunks(s)
           IN  /\ c \in Seq(Block)
               /\ Len(c) = Len(b) + (Len(s) \div 16)
               /\ \A i \in 1..Len(c), j \in 1..16 : c[i][j] = MacData(16 * (i - 1) + j)
    <1> DEFINE d == Chunks(s)
               c == b \o d
               n == Len(b)
    <1>1. /\ d \in Seq(Block) /\ Len(d) = Len(s) \div 16
          /\ \A i \in 1..Len(d), j \in 1..16 :
                16 * (i - 1) + j \in 1..Len(s) /\ d[i][j] = s[16 * (i - 1) + j]
        BY ChunksOf
    <1>2. n \in Nat /\ Len(d) \in Nat
        BY <1>1
    <1>3. /\ c \in Seq(Block) /\ Len(c) = n + Len(d)
          /\ \A i \in 1..(n + Len(d)) : c[i] = IF i <= n THEN b[i] ELSE d[i - n]
        <2> HIDE DEF d
        <2>1. QED
            BY <1>1, ConcatProperties
    <1>4. ASSUME NEW i \in 1..(n + Len(d)), NEW j \in 1..16
          PROVE  c[i][j] = MacData(16 * (i - 1) + j)
        <2> HIDE DEF c, d
        <2>1. CASE i <= n
            <3>1. i \in 1..Len(b) /\ c[i] = b[i]
                BY <1>2, <1>3, <2>1
            <3>2. QED
                BY <3>1
        <2>2. CASE i > n
            <3>1. i - n \in 1..Len(d) /\ c[i] = d[i - n]
                BY <1>2, <1>3, <2>2
            <3> DEFINE q == 16 * ((i - n) - 1) + j
            <3>2. q \in 1..Len(s) /\ d[i - n][j] = s[q]
                BY <1>1, <3>1
            <3>3. s[q] = MacData(16 * n + q)
                <4> HIDE DEF q
                <4>1. QED
                    BY <3>2 DEF Follows
            <3>4. 16 * n + q = 16 * (i - 1) + j
                BY <1>2
            <3>5. QED
                <4> HIDE DEF q
                <4>1. QED
                    BY <3>1, <3>2, <3>3, <3>4
        <2>3. QED
            BY <1>2, <2>1, <2>2
    <1>5. QED
        <2> HIDE DEF c, d
        <2>1. QED
            BY <1>1, <1>3, <1>4 DEF c, d

\* The pending block with n bytes of s after its first h.
Fill(h, pend, s, n) ==
    [j \in 1..16 |-> IF h < j /\ j <= h + n THEN s[j - h] ELSE pend[j]]

\* The segment s without its first n bytes.
Rest(s, n) == [j \in 1..(Len(s) - n) |-> s[n + j]]

\* A block of the last m bytes of r.
Last(r, m) == [j \in 1..16 |-> IF j <= m THEN r[Len(r) - m + j] ELSE Zero]

LEMMA FillMatches ==
    ASSUME NEW h \in 0..15, NEW l \in Nat, NEW n \in 0..l, h + n <= 16,
           NEW s \in [1..l -> Byte], NEW pend \in Block, NEW at \in Nat,
           \A j \in 1..h : pend[j] = MacData(at + j),
           \A j \in 1..l : s[j] = MacData((at + h) + j)
    PROVE  /\ Fill(h, pend, s, n) \in Block
           /\ \A j \in 1..(h + n) : Fill(h, pend, s, n)[j] = MacData(at + j)
    <1>1. \A j \in 1..16 : h < j /\ j <= h + n => j - h \in 1..l
        OBVIOUS
    <1>2. \A j \in 1..16 : (IF h < j /\ j <= h + n THEN s[j - h] ELSE pend[j]) \in Byte
        BY <1>1 DEF Block
    <1>3. Fill(h, pend, s, n) \in Block
        BY <1>2 DEF Fill, Block
    <1>4. ASSUME NEW j \in 1..(h + n)
          PROVE  Fill(h, pend, s, n)[j] = MacData(at + j)
        <2>1. j \in 1..16
            OBVIOUS
        <2>2. CASE j <= h
            <3>1. Fill(h, pend, s, n)[j] = pend[j]
                BY <2>1, <2>2 DEF Fill
            <3>2. j \in 1..h
                BY <2>2
            <3>3. QED
                BY <3>1, <3>2
        <2>3. CASE h < j
            <3>1. Fill(h, pend, s, n)[j] = s[j - h]
                BY <2>1, <2>3 DEF Fill
            <3>2. j - h \in 1..l /\ (at + h) + (j - h) = at + j
                BY <2>1, <2>3
            <3>3. s[j - h] = MacData((at + h) + (j - h))
                BY <3>2
            <3>4. QED
                BY <3>1, <3>2, <3>3
        <2>4. QED
            BY <2>1, <2>2, <2>3
    <1>5. QED
        BY <1>3, <1>4

LEMMA RestFollows ==
    ASSUME NEW l \in Nat, NEW n \in 0..l, NEW s \in [1..l -> Byte], Len(s) = l,
           NEW at \in Nat, \A j \in 1..l : s[j] = MacData(at + j)
    PROVE  /\ Rest(s, n) \in Seq(Byte) /\ Len(Rest(s, n)) = l - n
           /\ Follows(Rest(s, n), at + n)
    <1> DEFINE r == Rest(s, n)
    <1>1. l - n \in Nat /\ \A j \in 1..(l - n) : n + j \in 1..l /\ at + (n + j) = (at + n) + j
        OBVIOUS
    <1>2. r = [j \in 1..(l - n) |-> s[n + j]]
        BY DEF Rest
    <1>3. r \in [1..(l - n) -> Byte]
        BY <1>1, <1>2
    <1>4. r \in Seq(Byte) /\ Len(r) = l - n
        <2> HIDE DEF r
        <2>1. QED
            BY <1>1, <1>3
    <1>5. \A j \in 1..(l - n) : r[j] = MacData((at + n) + j)
        <2> SUFFICES ASSUME NEW j \in 1..(l - n)
                     PROVE  r[j] = MacData((at + n) + j)
            OBVIOUS
        <2>1. r[j] = s[n + j]
            BY <1>2
        <2>2. s[n + j] = MacData(at + (n + j))
            BY <1>1
        <2>3. QED
            BY <1>1, <2>1, <2>2
    <1>6. QED
        BY <1>4, <1>5 DEF Follows

LEMMA LastMatches ==
    ASSUME NEW k \in Nat, NEW m \in 0..15, m <= k, NEW r \in [1..k -> Byte], Len(r) = k,
           NEW at \in Nat, \A j \in 1..k : r[j] = MacData(at + j)
    PROVE  /\ Last(r, m) \in Block
           /\ \A j \in 1..m : Last(r, m)[j] = MacData((at + k - m) + j)
    <1>1. \A j \in 1..m : k - m + j \in 1..k /\ at + (k - m + j) = (at + k - m) + j
        OBVIOUS
    <1>2. \A j \in 1..16 : (IF j <= m THEN r[k - m + j] ELSE Zero) \in Byte
        <2>1. Zero \in Byte
            BY DEF Zero, Byte
        <2>2. \A j \in 1..16 : j <= m => j \in 1..m
            OBVIOUS
        <2>3. QED
            BY <1>1, <2>1, <2>2
    <1>3. Last(r, m) = [j \in 1..16 |-> IF j <= m THEN r[k - m + j] ELSE Zero]
        BY DEF Last
    <1>4. Last(r, m) \in Block
        BY <1>2, <1>3 DEF Block
    <1>5. ASSUME NEW j \in 1..m
          PROVE  Last(r, m)[j] = MacData((at + k - m) + j)
        <2>1. Last(r, m)[j] = r[k - m + j]
            BY <1>3
        <2>2. QED
            BY <1>1, <2>1
    <1>6. QED
        BY <1>4, <1>5

\* Poly::update takes the whole segment, wherever the block boundaries fall.
LEMMA UpdateTakes ==
    ASSUME NEW p \in Wrapper, NEW s \in Seq(Byte), Matches(p), Follows(s, Count(p))
    PROVE  /\ Update(p, s) \in Wrapper
           /\ Matches(Update(p, s))
           /\ Count(Update(p, s)) = Count(p) + Len(s)
    <1> DEFINE h     == p.have
               l     == Len(s)
               n     == Joined(p, s)
               bs    == p.blocks
               a     == Len(bs)
               at    == 16 * a
               f     == Fill(h, p.pending, s, n)
               r     == Rest(s, n)
               k     == Len(r)
               m     == k % 16
               first == IF h > 0 THEN <<f>> ELSE << >>
               b     == bs \o first
               lb    == Len(b)
               last  == IF m = 0 THEN f ELSE Last(r, m)
               c     == b \o Chunks(r)
               lc    == Len(c)
               u     == Update(p, s)
    <1>1. /\ l \in Nat /\ h \in 0..15 /\ a \in Nat /\ at = 16 * a /\ at \in Nat
          /\ p.pending \in Block /\ bs \in Seq(Block) /\ s \in [1..l -> Byte]
          /\ Count(p) = at + h
        BY DEF Wrapper, Count
    <1>2. /\ n \in 0..l
          /\ h = 0 => n = 0
          /\ h > 0 => n = l \/ h + n = 16
          /\ h + n <= 16
        <2>1. n = IF h = 0 THEN 0 ELSE IF 16 - h <= l THEN 16 - h ELSE l
            BY DEF Joined
        <2> HIDE DEF h, l, n
        <2>2. QED
            BY <1>1, <2>1
    <1>3. f \in Block /\ \A j \in 1..(h + n) : f[j] = MacData(at + j)
        <2>1. \A j \in 1..h : p.pending[j] = MacData(at + j)
            BY DEF Matches
        <2>2. \A j \in 1..l : s[j] = MacData((at + h) + j)
            BY <1>1 DEF Follows
        <2> HIDE DEF h, l, n, at
        <2>3. QED
            BY <1>1, <1>2, <2>1, <2>2, FillMatches
    <1>4. r \in Seq(Byte) /\ k = l - n /\ Follows(r, (at + h) + n)
        <2>1. \A j \in 1..l : s[j] = MacData((at + h) + j)
            BY <1>1 DEF Follows
        <2>2. Len(s) = l
            OBVIOUS
        <2> HIDE DEF h, l, n, at
        <2>3. at + h \in Nat
            BY <1>1
        <2>4. QED
            BY <1>1, <1>2, <2>1, <2>2, <2>3, RestFollows
    <1>5. u = IF h > 0 /\ h + n < 16
              THEN [p EXCEPT !.pending = f, !.have = h + n]
              ELSE [have |-> m, pending |-> last, blocks |-> bs \o first \o Chunks(r)]
        BY DEF Update, Fill, Rest, Last
    <1>6. CASE h > 0 /\ h + n < 16
        <2> HIDE DEF h, l, n, bs, a, at, f, r, u
        <2>1. u = [p EXCEPT !.pending = f, !.have = h + n]
            BY <1>5, <1>6
        <2>2. n = l /\ h + n \in 0..15
            BY <1>1, <1>2, <1>6
        <2>3. /\ u \in Wrapper
              /\ u.have = h + n /\ u.pending = f /\ u.blocks = bs
            BY <1>3, <2>1, <2>2 DEF Wrapper, bs
        <2>4. Matches(u)
            <3>1. \A i \in 1..Len(bs), j \in 1..16 : bs[i][j] = MacData(16 * (i - 1) + j)
                BY DEF Matches, bs
            <3>2. \A j \in 1..(h + n) : f[j] = MacData(16 * Len(bs) + j)
                BY <1>3 DEF a, at
            <3>3. QED
                BY <2>3, <3>1, <3>2 DEF Matches
        <2>5. Count(u) = at + (h + n)
            BY <2>3 DEF Count, at, a
        <2>6. QED
            BY <1>1, <2>2, <2>3, <2>4, <2>5 DEF l, u
    <1>7. CASE ~(h > 0 /\ h + n < 16)
        <2>1. h > 0 => h + n = 16
            <3> HIDE DEF h, l, n
            <3>1. QED
                BY <1>1, <1>2, <1>7
        <2> DEFINE lf == Len(first)
        <2>2. /\ first \in Seq(Block) /\ lf = (IF h > 0 THEN 1 ELSE 0)
              /\ h > 0 => first[1] = f
            <3> HIDE DEF f, h
            <3>1. QED
                BY <1>3
        <2>3. /\ b \in Seq(Block) /\ lb = a + lf
              /\ \A i \in 1..lb : b[i] = IF i <= a THEN bs[i] ELSE first[i - a]
            <3>1. bs \in Seq(Block)
                BY <1>1
            <3> HIDE DEF first, bs
            <3>2. /\ b \in Seq(Block) /\ Len(b) = Len(bs) + Len(first)
                  /\ \A i \in 1..(Len(bs) + Len(first)) :
                        b[i] = IF i <= Len(bs) THEN bs[i] ELSE first[i - Len(bs)]
                BY <2>2, <3>1, ConcatProperties
            <3>3. QED
                BY <3>2
        <2>4. 16 * lb = (at + h) + n
            <3>1. h \in 0..15 /\ a \in Nat /\ at = 16 * a
                BY <1>1
            <3>2. lf = (IF h > 0 THEN 1 ELSE 0) /\ lb = a + lf
                BY <2>2, <2>3
            <3> HIDE DEF h, n, a, at, lb, lf
            <3>3. QED
                BY <1>2, <2>1, <3>1, <3>2
        <2>5. ASSUME NEW i \in 1..lb, NEW j \in 1..16
              PROVE  b[i][j] = MacData(16 * (i - 1) + j)
            <3>1. CASE i <= a
                <4>1. b[i] = bs[i] /\ i \in 1..a
                    <5> HIDE DEF h, a, b, bs, first, lb, lf
                    <5>1. QED
                        BY <1>1, <2>2, <2>3, <3>1
                <4>2. bs[i][j] = MacData(16 * (i - 1) + j)
                    BY <4>1 DEF Matches
                <4>3. QED
                    BY <4>1, <4>2
            <3>2. CASE i > a
                <4>1. h > 0 /\ i = a + 1 /\ b[i] = f
                    <5> HIDE DEF h, a, b, bs, first, f, lb, lf
                    <5>1. QED
                        BY <1>1, <2>2, <2>3, <3>2
                <4>2. f[j] = MacData(at + j)
                    <5> HIDE DEF h, n, a, at, f, lb
                    <5>1. QED
                        BY <1>3, <2>1, <4>1
                <4>3. 16 * (i - 1) + j = at + j
                    <5>1. i = a + 1 /\ a \in Nat /\ at = 16 * a
                        BY <1>1, <4>1
                    <5> HIDE DEF a, at, lb
                    <5>2. QED
                        BY <5>1
                <4>4. QED
                    BY <4>1, <4>2, <4>3
            <3>3. i \in Nat /\ a \in Nat
                BY <1>1
            <3>4. i <= a \/ i > a
                <4> HIDE DEF a, lb
                <4>1. QED
                    BY <3>3
            <3>5. QED
                BY <3>1, <3>2, <3>4
        <2>6. /\ c \in Seq(Block) /\ lc = lb + (k \div 16)
              /\ \A i \in 1..lc, j \in 1..16 : c[i][j] = MacData(16 * (i - 1) + j)
            <3>1. Follows(r, 16 * lb)
                <4> HIDE DEF h, n, at, lb, r
                <4>1. QED
                    BY <1>4, <2>4
            <3> HIDE DEF b, r
            <3>2. QED
                BY <1>4, <2>3, <2>5, <3>1, Appended DEF lb
        <2>7. /\ k \in Nat /\ m \in 0..15 /\ m <= k
              /\ 16 * lc + m = 16 * lb + k
              /\ 16 * lb \in Nat /\ 16 * lb + k - m = 16 * lc
            <3>1. b \in Seq(Block) /\ r \in Seq(Byte)
                BY <1>4, <2>3
            <3>2. lb \in Nat /\ k \in Nat
                <4> HIDE DEF b, r
                <4>1. QED
                    BY <3>1
            <3>3. lc = lb + (k \div 16)
                BY <2>6
            <3> HIDE DEF lb, lc, k
            <3>4. QED
                BY <3>2, <3>3
        <2>8. last \in Block /\ \A j \in 1..m : last[j] = MacData(16 * lc + j)
            <3>1. CASE m = 0
                <4>1. last = f
                    BY <3>1
                <4>2. \A j \in 1..m : FALSE
                    <5> HIDE DEF m
                    <5>1. QED
                        BY <3>1
                <4>3. QED
                    <5> HIDE DEF last, m, f, lc
                    <5>1. QED
                        BY <1>3, <4>1, <4>2
            <3>2. CASE m # 0
                <4>1. last = Last(r, m)
                    BY <3>2
                <4>2. r \in [1..k -> Byte] /\ Len(r) = k
                    <5> HIDE DEF r
                    <5>1. QED
                        BY <1>4
                <4>3. \A j \in 1..k : r[j] = MacData(16 * lb + j)
                    <5>1. Follows(r, 16 * lb)
                        <6> HIDE DEF h, n, at, lb, r
                        <6>1. QED
                            BY <1>4, <2>4
                    <5> HIDE DEF r, lb
                    <5>2. QED
                        BY <5>1 DEF Follows
                <4> HIDE DEF r, k, m, lb, lc, last
                <4>4. /\ Last(r, m) \in Block
                      /\ \A j \in 1..m :
                            Last(r, m)[j] = MacData((16 * lb + k - m) + j)
                    BY <2>7, <4>2, <4>3, LastMatches
                <4>5. QED
                    BY <2>7, <4>1, <4>4
            <3>3. QED
                BY <3>1, <3>2
        <2>9. u = [have |-> m, pending |-> last, blocks |-> c]
            <3> HIDE DEF h, n, m, last, bs, first, r, f, u
            <3>1. QED
                BY <1>5, <1>7
        <2> HIDE DEF h, l, n, bs, a, at, f, r, k, m, first, lf, b, lb, last, c, lc, u
        <2>10. u \in Wrapper
            BY <2>6, <2>7, <2>8, <2>9 DEF Wrapper
        <2>11. u.have = m /\ u.pending = last /\ u.blocks = c
            BY <2>9
        <2>12. Matches(u)
            BY <2>6, <2>8, <2>11 DEF Matches, lc
        <2>13. Count(u) = 16 * lc + m
            BY <2>11 DEF Count, lc
        <2>14. Count(u) = (at + h) + l
            BY <1>1, <1>2, <1>4, <2>4, <2>7, <2>13
        <2>15. QED
            BY <1>1, <2>10, <2>12, <2>14 DEF l, u
    <1>8. QED
        BY <1>6, <1>7

\* absorb4 and absorb_blocks do so only when nothing is pending.
LEMMA WindowsTake ==
    ASSUME NEW p \in Wrapper, p.have = 0, NEW s \in Seq(Byte), Len(s) % 16 = 0,
           Matches(p), Follows(s, Count(p))
    PROVE  /\ Windows(p, s) \in Wrapper
           /\ Matches(Windows(p, s))
           /\ Count(Windows(p, s)) = Count(p) + Len(s)
    <1> DEFINE bs == p.blocks
               a  == Len(bs)
               c  == bs \o Chunks(s)
               l  == Len(s)
               lc == Len(c)
               w  == Windows(p, s)
    <1>1. bs \in Seq(Block) /\ a \in Nat /\ l \in Nat /\ Count(p) = 16 * a + 0
        BY DEF Wrapper, Count
    <1>2. /\ \A i \in 1..Len(bs), j \in 1..16 : bs[i][j] = MacData(16 * (i - 1) + j)
          /\ Follows(s, 16 * Len(bs))
        <2>1. Count(p) = 16 * Len(bs)
            BY <1>1
        <2>2. QED
            BY <2>1 DEF Matches
    <1>3. /\ c \in Seq(Block) /\ lc = a + (l \div 16)
          /\ \A i \in 1..lc, j \in 1..16 : c[i][j] = MacData(16 * (i - 1) + j)
        <2> HIDE DEF bs
        <2>1. QED
            BY <1>1, <1>2, Appended
    <1>4. w = [p EXCEPT !.blocks = c]
        BY DEF Windows
    <1> HIDE DEF bs, c, w
    <1>5. w \in Wrapper /\ w.have = 0 /\ w.blocks = c
        BY <1>3, <1>4 DEF Wrapper
    <1>6. Matches(w)
        BY <1>3, <1>5 DEF Matches
    <1>7. Count(w) = 16 * lc + 0
        BY <1>5 DEF Count
    <1>8. 16 * lc = 16 * a + l
        <2>1. lc = a + (l \div 16) /\ l % 16 = 0
            BY <1>3
        <2> HIDE DEF a, l, lc
        <2>2. QED
            BY <1>1, <2>1
    <1>9. QED
        <2>1. Count(w) = Count(p) + l
            <3> HIDE DEF a, l, lc
            <3>1. QED
                BY <1>1, <1>7, <1>8
        <2>2. QED
            BY <1>5, <1>6, <2>1 DEF w

----------------------------------------------------------------------------
(* The segments of a message.                                               *)

LEMMA PadFills ==
    ASSUME NEW n \in Nat
    PROVE  /\ Pad(n) \in 0..15 /\ (n + Pad(n)) % 16 = 0
           /\ n % 16 # 0 => Pad(n) = 16 - (n % 16)
    BY DEF Pad

Sizes == aad_len \in Nat /\ ct_len \in Nat

LEMMA Places ==
    ASSUME Sizes
    PROVE  /\ Ahead \in Nat /\ Ahead % 16 = 0 /\ aad_len <= Ahead
           /\ Ahead = aad_len + Pad(aad_len)
           /\ End \in Nat /\ End % 16 = 0 /\ Ahead + ct_len <= End
           /\ End = Ahead + ct_len + Pad(ct_len)
    <1>1. Pad(aad_len) \in 0..15 /\ (aad_len + Pad(aad_len)) % 16 = 0
        BY PadFills DEF Sizes
    <1>2. Pad(ct_len) \in 0..15 /\ (ct_len + Pad(ct_len)) % 16 = 0
        BY PadFills DEF Sizes
    <1> DEFINE d == Pad(aad_len)
               e == Pad(ct_len)
    <1>3. Ahead = aad_len + d /\ End = (aad_len + d) + ct_len + e
        BY DEF Ahead, End
    <1> HIDE DEF d, e
    <1>4. /\ d \in 0..15 /\ (aad_len + d) % 16 = 0
          /\ e \in 0..15 /\ (ct_len + e) % 16 = 0
        BY <1>1, <1>2 DEF d, e
    <1>5. /\ Ahead \in Nat /\ Ahead % 16 = 0 /\ aad_len <= Ahead
          /\ End \in Nat /\ Ahead + ct_len <= End /\ End = Ahead + ct_len + e
        BY <1>3, <1>4 DEF Sizes
    <1>6. End % 16 = 0
        <2> DEFINE x == (aad_len + d) \div 16
                   y == (ct_len + e) \div 16
        <2>1. x \in Nat /\ y \in Nat /\ aad_len + d = 16 * x /\ ct_len + e = 16 * y
            BY <1>4 DEF Sizes
        <2> HIDE DEF x, y
        <2>2. End = 16 * (x + y)
            BY <1>3, <1>4, <2>1 DEF Sizes
        <2>3. QED
            BY <2>1, <2>2
    <1>7. QED
        BY <1>3, <1>5, <1>6 DEF d, e

LEMMA BytesAre ==
    \A n \in Nat : /\ <<"aad", n>> \in Byte
                   /\ <<"text", n>> \in Byte
                   /\ <<"aad length", n>> \in Byte
                   /\ <<"text length", n>> \in Byte
    BY DEF Byte

LEMMA SegmentIs ==
    ASSUME NEW n \in Nat, NEW s \in [1..n -> Byte]
    PROVE  s \in Seq(Byte) /\ Len(s) = n
    OBVIOUS

LEMMA AadFollows ==
    ASSUME Sizes
    PROVE  Aad \in Seq(Byte) /\ Len(Aad) = aad_len /\ Follows(Aad, 0)
    <1>0. \A j \in 1..aad_len : <<"aad", j>> \in Byte
        <2>1. \A j \in 1..aad_len : j \in Nat
            BY DEF Sizes
        <2>2. QED
            BY ONLY <2>1, BytesAre, Zenon
    <1>1. Aad \in [1..aad_len -> Byte]
        BY <1>0 DEF Aad
    <1>2. Aad \in Seq(Byte) /\ Len(Aad) = aad_len
        BY <1>1 DEF Sizes
    <1>3. \A j \in 1..aad_len : Aad[j] = MacData(0 + j)
        BY DEF Sizes, Aad, MacData
    <1>4. QED
        BY <1>2, <1>3 DEF Follows

LEMMA TextFollows ==
    ASSUME Sizes, NEW from \in Nat, NEW n \in Nat, from + n <= ct_len
    PROVE  /\ Text(from, n) \in Seq(Byte) /\ Len(Text(from, n)) = n
           /\ Follows(Text(from, n), Ahead + from)
    <1> DEFINE t == Text(from, n)
    <1>0. \A j \in 1..n : <<"text", from + j>> \in Byte
        <2>1. \A j \in 1..n : from + j \in Nat
            OBVIOUS
        <2>2. QED
            BY ONLY <2>1, BytesAre, Zenon
    <1>1. t \in [1..n -> Byte]
        BY <1>0 DEF Text
    <1>2. t \in Seq(Byte) /\ Len(t) = n
        <2> HIDE DEF t
        <2>1. QED
            BY <1>1
    <1>3. \A j \in 1..n : t[j] = <<"text", from + j>>
        BY DEF Text
    <1>4. \A j \in 1..n : MacData(Ahead + from + j) = <<"text", from + j>>
        <2> SUFFICES ASSUME NEW j \in 1..n
                     PROVE  MacData(Ahead + from + j) = <<"text", from + j>>
            OBVIOUS
        <2> DEFINE p == Ahead + from + j
        <2>1. /\ ~(p <= aad_len) /\ ~(p <= Ahead) /\ p <= Ahead + ct_len
              /\ p - Ahead = from + j
            BY Places DEF Sizes
        <2> HIDE DEF p
        <2>2. MacData(p) = <<"text", p - Ahead>>
            BY <2>1 DEF MacData
        <2>3. QED
            BY <2>1, <2>2 DEF p
    <1>5. QED
        BY <1>2, <1>3, <1>4 DEF Follows

LEMMA ZerosAre ==
    ASSUME NEW n \in Nat
    PROVE  Zeros(n) \in Seq(Byte) /\ Len(Zeros(n)) = n /\ \A j \in 1..n : Zeros(n)[j] = Zero
    <1>1. Zeros(n) \in [1..n -> Byte]
        BY DEF Zeros, Zero, Byte
    <1>2. \A j \in 1..n : Zeros(n)[j] = Zero
        BY DEF Zeros
    <1>3. QED
        BY <1>1, <1>2

LEMMA PaddingFollows ==
    ASSUME Sizes
    PROVE  /\ Follows(Zeros(Pad(aad_len)), aad_len)
           /\ Follows(Zeros(Pad(ct_len)), Ahead + ct_len)
    <1>1. Pad(aad_len) \in 0..15 /\ Pad(ct_len) \in 0..15
        BY PadFills DEF Sizes
    <1>2. \A j \in 1..Pad(aad_len) : MacData(aad_len + j) = Zero
        <2> SUFFICES ASSUME NEW j \in 1..Pad(aad_len)
                     PROVE  MacData(aad_len + j) = Zero
            OBVIOUS
        <2> DEFINE p == aad_len + j
                   d == Pad(aad_len)
        <2>1. Ahead = aad_len + d /\ d \in 0..15 /\ j \in 1..d
            BY <1>1, Places
        <2> HIDE DEF d
        <2>2. ~(p <= aad_len) /\ p <= Ahead
            BY <2>1 DEF Sizes
        <2> HIDE DEF p
        <2>3. MacData(p) = Zero
            BY <2>2 DEF MacData
        <2>4. QED
            BY <2>3 DEF p
    <1>3. \A j \in 1..Pad(ct_len) : MacData(Ahead + ct_len + j) = Zero
        <2> SUFFICES ASSUME NEW j \in 1..Pad(ct_len)
                     PROVE  MacData(Ahead + ct_len + j) = Zero
            OBVIOUS
        <2> DEFINE p == Ahead + ct_len + j
                   d == Pad(ct_len)
        <2>1. /\ End = Ahead + ct_len + d /\ d \in 0..15 /\ j \in 1..d
              /\ Ahead \in Nat /\ aad_len <= Ahead
            BY <1>1, Places
        <2> HIDE DEF d
        <2>2. ~(p <= aad_len) /\ ~(p <= Ahead) /\ ~(p <= Ahead + ct_len) /\ p <= End
            BY <2>1 DEF Sizes
        <2> HIDE DEF p
        <2>3. MacData(p) = Zero
            BY <2>2 DEF MacData
        <2>4. QED
            BY <2>3 DEF p
    <1>4. \A n \in 0..15 : /\ Len(Zeros(n)) = n
                           /\ \A j \in 1..n : Zeros(n)[j] = Zero
        BY ZerosAre
    <1>5. Follows(Zeros(Pad(aad_len)), aad_len)
        BY <1>1, <1>2, <1>4 DEF Follows
    <1>6. Follows(Zeros(Pad(ct_len)), Ahead + ct_len)
        BY <1>1, <1>3, <1>4 DEF Follows
    <1>7. QED
        BY <1>5, <1>6

LEMMA LengthsFollow ==
    ASSUME Sizes
    PROVE  Lengths \in Seq(Byte) /\ Len(Lengths) = 16 /\ Follows(Lengths, End)
    <1>0. \A j \in 1..16 :
             (IF j <= 8 THEN <<"aad length", j>> ELSE <<"text length", j - 8>>) \in Byte
        <2>1. \A j \in 1..16 : <<"aad length", j>> \in Byte
            <3>1. \A j \in 1..16 : j \in Nat
                OBVIOUS
            <3>2. QED
                BY ONLY <3>1, BytesAre, Zenon
        <2>2. \A j \in 1..16 : j > 8 => <<"text length", j - 8>> \in Byte
            <3>1. \A j \in 1..16 : j > 8 => j - 8 \in Nat
                OBVIOUS
            <3>2. QED
                BY ONLY <3>1, BytesAre, Zenon
        <2>3. QED
            <3>1. \A j \in 1..16 : j <= 8 \/ j > 8
                OBVIOUS
            <3>2. QED
                BY ONLY <2>1, <2>2, <3>1, Zenon
    <1>1. Lengths \in [1..16 -> Byte]
        BY <1>0 DEF Lengths
    <1>2. Lengths \in Seq(Byte) /\ Len(Lengths) = 16
        BY <1>1, SegmentIs
    <1>3. \A j \in 1..16 : MacData(End + j) = Lengths[j]
        <2> SUFFICES ASSUME NEW j \in 1..16
                     PROVE  MacData(End + j) = Lengths[j]
            OBVIOUS
        <2> DEFINE p == End + j
        <2>1. /\ ~(p <= aad_len) /\ ~(p <= Ahead) /\ ~(p <= Ahead + ct_len) /\ ~(p <= End)
              /\ p - End = j
            BY Places DEF Sizes
        <2> HIDE DEF p
        <2>2. MacData(p) = Lengths[p - End]
            BY <2>1 DEF MacData
        <2>3. QED
            BY <2>1, <2>2 DEF p
    <1>4. QED
        BY <1>2, <1>3 DEF Follows

\* The assembled tail block of the short sweep: the last bytes and their padding.
LEMMA TailFollows ==
    ASSUME Sizes, NEW from \in Nat, from % 16 = 0, NEW m \in 1..15, from + m = ct_len,
           NEW t, t = [j \in 1..16 |-> IF j <= m THEN Text(from, m)[j] ELSE Zero]
    PROVE  t \in Seq(Byte) /\ Len(t) = 16 /\ Follows(t, Ahead + from)
           /\ Ahead + from + 16 = End
    <1>1. Ahead + from + 16 = End
        <2>1. ct_len % 16 = m
            BY DEF Sizes
        <2>2. Pad(ct_len) = 16 - m
            BY <2>1, PadFills DEF Sizes
        <2>3. End = Ahead + ct_len + Pad(ct_len) /\ Ahead \in Nat
            BY Places
        <2>4. QED
            BY <2>2, <2>3 DEF Sizes
    <1>2. \A j \in 1..m : Text(from, m)[j] = MacData(Ahead + from + j) /\ Text(from, m)[j] \in Byte
        <2>1. /\ Text(from, m) \in Seq(Byte) /\ Len(Text(from, m)) = m
              /\ Follows(Text(from, m), Ahead + from)
            <3>1. m \in Nat /\ from + m <= ct_len
                BY DEF Sizes
            <3>2. QED
                BY <3>1, TextFollows
        <2>2. QED
            BY <2>1 DEF Follows
    <1>3. Zero \in Byte
        BY DEF Zero, Byte
    <1>4. ASSUME NEW j \in 1..16
          PROVE  t[j] \in Byte /\ t[j] = MacData(Ahead + from + j)
        <2>1. CASE j <= m
            <3>1. t[j] = Text(from, m)[j] /\ j \in 1..m
                BY <2>1
            <3>2. QED
                BY <1>2, <3>1
        <2>2. CASE j > m
            <3>1. t[j] = Zero
                BY <2>2
            <3> DEFINE p == Ahead + from + j
            <3>2. Ahead \in Nat /\ aad_len <= Ahead
                BY Places
            <3>3. ~(p <= aad_len) /\ ~(p <= Ahead) /\ ~(p <= Ahead + ct_len) /\ p <= End
                BY <1>1, <2>2, <3>2 DEF Sizes
            <3> HIDE DEF p
            <3>4. MacData(p) = Zero
                BY <3>3 DEF MacData
            <3>5. QED
                BY <1>3, <3>1, <3>4 DEF p
        <2>3. QED
            BY <2>1, <2>2
    <1>5. t \in [1..16 -> Byte]
        BY <1>4
    <1>6. t \in Seq(Byte) /\ Len(t) = 16
        BY <1>5, SegmentIs
    <1>7. QED
        BY <1>1, <1>4, <1>6 DEF Follows

\* The next n bytes of the ciphertext, by update.
LEMMA TakesNext ==
    ASSUME Sizes, NEW p \in Wrapper, Matches(p), NEW from \in Nat,
           Count(p) = Ahead + from, NEW n \in Nat, from + n <= ct_len,
           NEW q, q = Update(p, Text(from, n))
    PROVE  q \in Wrapper /\ Matches(q) /\ Count(q) = Ahead + (from + n)
    <1>1. /\ Text(from, n) \in Seq(Byte) /\ Len(Text(from, n)) = n
          /\ Follows(Text(from, n), Count(p))
        BY TextFollows
    <1>2. q \in Wrapper /\ Matches(q) /\ Count(q) = Count(p) + n
        BY <1>1, UpdateTakes
    <1>3. Ahead \in Nat
        BY Places
    <1>4. QED
        BY <1>2, <1>3

\* A wrapper that took whole blocks holds nothing back.
LEMMA NothingHeld ==
    ASSUME NEW p \in Wrapper, Count(p) % 16 = 0
    PROVE  p.have = 0
    <1> DEFINE h == p.have
               a == Len(p.blocks)
               x == Count(p)
    <1>1. h \in 0..15 /\ a \in Nat
        BY DEF Wrapper
    <1>2. x = 16 * a + h /\ x % 16 = 0
        BY DEF Count
    <1> HIDE DEF h, a, x
    <1>3. h = 0
        BY <1>1, <1>2
    <1>4. QED
        BY <1>3 DEF h

LEMMA SumAligned ==
    ASSUME NEW a \in Nat, NEW b \in Nat, a % 16 = 0, b % 16 = 0
    PROVE  (a + b) % 16 = 0
    <1> DEFINE x == a \div 16
               y == b \div 16
    <1>1. x \in Nat /\ y \in Nat /\ a = 16 * x /\ b = 16 * y
        OBVIOUS
    <1> HIDE DEF x, y
    <1>2. a + b = 16 * (x + y)
        BY <1>1
    <1>3. QED
        BY <1>1, <1>2

\* The next n bytes of the ciphertext, by windows past the pending block.
LEMMA WindowsNext ==
    ASSUME Sizes, NEW p \in Wrapper, Matches(p), NEW from \in Nat, from % 16 = 0,
           Count(p) = Ahead + from, NEW n \in Nat, n % 16 = 0, from + n <= ct_len,
           NEW q, q = Windows(p, Text(from, n))
    PROVE  q \in Wrapper /\ Matches(q) /\ Count(q) = Ahead + (from + n)
    <1>1. Ahead \in Nat /\ Ahead % 16 = 0
        BY Places
    <1>2. Count(p) % 16 = 0
        BY <1>1, SumAligned
    <1>3. p.have = 0
        BY <1>2, NothingHeld
    <1>4. /\ Text(from, n) \in Seq(Byte) /\ Len(Text(from, n)) = n
          /\ Follows(Text(from, n), Count(p))
        BY TextFollows
    <1>5. Len(Text(from, n)) % 16 = 0
        BY <1>4
    <1>6. q \in Wrapper /\ Matches(q) /\ Count(q) = Count(p) + n
        BY <1>3, <1>4, <1>5, WindowsTake
    <1>7. QED
        BY <1>1, <1>6

\* The lengths, after everything else.
LEMMA LengthsLast ==
    ASSUME Sizes, NEW p \in Wrapper, Matches(p), Count(p) = End,
           NEW q, q = Update(p, Lengths)
    PROVE  q \in Wrapper /\ Matches(q) /\ Count(q) = End + 16
    BY LengthsFollow, UpdateTakes

----------------------------------------------------------------------------
(* The invariant: what was taken matches mac_data as far as the cursor      *)
(* says, and where windows follow the cursor is on a block boundary.        *)

Streaming == {"text", "windows", "sweep_windows", "sweep_blocks", "finish"}

TypeInv ==
    /\ Sizes
    /\ pc \in Streaming \cup {"aad", "done"}
    /\ off \in Nat /\ off <= ct_len
    /\ poly \in Wrapper

Cursor ==
    /\ pc = "aad" => Count(poly) = 0 /\ off = 0
    /\ pc = "text" => off = 0
    /\ pc \in Streaming => Count(poly) = Ahead + off
    /\ pc \in {"windows", "sweep_windows", "sweep_blocks"} => off % 16 = 0
    /\ pc = "finish" => off = ct_len
    /\ pc = "done" => Count(poly) = End + 16

Inv == TypeInv /\ Matches(poly) /\ Cursor

\* A step that leaves the message alone leaves mac_data alone.
LEMMA SameData ==
    ASSUME UNCHANGED <<aad_len, ct_len>>, Matches(poly')
    PROVE  Matches(poly)' /\ Ahead' = Ahead /\ End' = End /\ (Sizes => Sizes')
    <1>1. Ahead' = Ahead /\ End' = End
        BY DEF Ahead, End, Pad
    <1>2. \A p : MacData(p)' = MacData(p)
        BY <1>1 DEF MacData, Lengths, Zero
    <1>3. Matches(poly)'
        BY <1>2 DEF Matches
    <1>4. QED
        BY <1>1, <1>3 DEF Sizes

LEMMA InitInv ==
    ASSUME Init
    PROVE  Inv
    <1>1. Sizes
        BY LensAssumption DEF Init, Sizes
    <1>2. Zeros(16) \in Block
        <2>1. Zero \in Byte
            BY DEF Zero, Byte
        <2>2. QED
            BY <2>1 DEF Zeros, Block
    <1>3. poly \in Wrapper /\ poly.have = 0 /\ poly.blocks = << >>
        BY <1>2 DEF Init, Wrapper
    <1>4. Matches(poly) /\ Count(poly) = 0
        BY <1>3 DEF Matches, Count
    <1>5. QED
        BY <1>1, <1>3, <1>4 DEF Init, Inv, TypeInv, Cursor, Streaming, Sizes

\* One step of the invariant: from what the step did to the wrapper.
LEMMA Kept ==
    ASSUME Inv, UNCHANGED <<aad_len, ct_len>>, poly' \in Wrapper, Matches(poly'),
           pc' \in Streaming, off' \in Nat, off' <= ct_len, Count(poly') = Ahead + off',
           pc' = "text" => off' = 0,
           pc' \in {"windows", "sweep_windows", "sweep_blocks"} => off' % 16 = 0,
           pc' = "finish" => off' = ct_len
    PROVE  Inv'
    <1>1. Matches(poly)' /\ Ahead' = Ahead /\ End' = End /\ Sizes'
        BY SameData DEF Inv, TypeInv
    <1>2. TypeInv'
        BY <1>1 DEF TypeInv
    <1>3. Count(poly)' = Count(poly')
        BY DEF Count
    <1>4. Cursor'
        BY <1>1, <1>3 DEF Cursor, Streaming
    <1>5. QED
        BY <1>1, <1>2, <1>4 DEF Inv

LEMMA Finished ==
    ASSUME Inv, UNCHANGED <<aad_len, ct_len>>, poly' \in Wrapper, Matches(poly'),
           pc' = "done", off' \in Nat, off' <= ct_len, Count(poly') = End + 16
    PROVE  Inv'
    <1>1. Matches(poly)' /\ Ahead' = Ahead /\ End' = End /\ Sizes'
        BY SameData DEF Inv, TypeInv
    <1>2. TypeInv'
        BY <1>1 DEF TypeInv
    <1>3. Count(poly)' = Count(poly')
        BY DEF Count
    <1>4. Cursor'
        BY <1>1, <1>3 DEF Cursor, Streaming
    <1>5. QED
        BY <1>1, <1>2, <1>4 DEF Inv

LEMMA AbsorbAadStep ==
    ASSUME Inv, AbsorbAad
    PROVE  Inv'
    <1> DEFINE z == Zeros(Pad(aad_len))
               p == Update(poly, Aad)
               q == Update(p, z)
    <1>1. /\ Sizes /\ poly \in Wrapper /\ Matches(poly)
          /\ Count(poly) = 0 /\ off = 0 /\ ct_len \in Nat
        BY DEF Inv, TypeInv, Cursor, AbsorbAad, Sizes
    <1>2. p \in Wrapper /\ Matches(p) /\ Count(p) = aad_len
        <2>1. Aad \in Seq(Byte) /\ Len(Aad) = aad_len /\ Follows(Aad, Count(poly))
            BY <1>1, AadFollows
        <2>2. p \in Wrapper /\ Matches(p) /\ Count(p) = Count(poly) + Len(Aad)
            BY <1>1, <2>1, UpdateTakes
        <2>3. QED
            BY <1>1, <2>1, <2>2 DEF Sizes
    <1>3. q \in Wrapper /\ Matches(q) /\ Count(q) = Ahead
        <2>1. Pad(aad_len) \in 0..15
            BY <1>1, PadFills DEF Sizes
        <2>2. z \in Seq(Byte) /\ Len(z) = Pad(aad_len)
            <3>1. \A n \in 0..15 : Zeros(n) \in Seq(Byte) /\ Len(Zeros(n)) = n
                BY ZerosAre
            <3>2. QED
                BY <2>1, <3>1
        <2>3. Follows(z, Count(p))
            BY <1>1, <1>2, PaddingFollows
        <2> HIDE DEF p, z
        <2>4. q \in Wrapper /\ Matches(q) /\ Count(q) = Count(p) + Len(z)
            BY <1>2, <2>2, <2>3, UpdateTakes
        <2>5. Ahead = aad_len + Pad(aad_len)
            BY <1>1, Places
        <2>6. QED
            BY <1>2, <2>2, <2>4, <2>5
    <1>4. poly' = q /\ pc' = "text" /\ UNCHANGED <<aad_len, ct_len, off>>
        BY DEF AbsorbAad, Goes
    <1>5. Ahead \in Nat
        BY <1>1, Places
    <1> HIDE DEF q
    <1>6. QED
        BY <1>1, <1>3, <1>4, <1>5, Kept DEF Streaming

\* A step that takes n more bytes of the ciphertext with update.
LEMMA TakesStep ==
    ASSUME Inv, pc \in Streaming, NEW n \in Nat, off + n <= ct_len, Takes(n),
           UNCHANGED <<aad_len, ct_len>>
    PROVE  /\ poly' \in Wrapper /\ Matches(poly') /\ Count(poly') = Ahead + off'
           /\ off' = off + n /\ off' \in Nat
    <1>1. /\ Sizes /\ poly \in Wrapper /\ Matches(poly)
          /\ off \in Nat /\ Count(poly) = Ahead + off
        BY DEF Inv, TypeInv, Cursor
    <1>2. poly' = Update(poly, Text(off, n)) /\ off' = off + n
        BY DEF Takes
    <1>3. poly' \in Wrapper /\ Matches(poly') /\ Count(poly') = Ahead + (off + n)
        BY <1>1, <1>2, TakesNext
    <1>4. QED
        BY <1>1, <1>2, <1>3

\* A step that takes n more bytes of the ciphertext with windows.
LEMMA WindowsStep ==
    ASSUME Inv, pc \in {"windows", "sweep_windows"}, NEW n \in Nat, n % 16 = 0,
           off + n <= ct_len, poly' = Windows(poly, Text(off, n)), off' = off + n,
           UNCHANGED <<aad_len, ct_len>>
    PROVE  /\ poly' \in Wrapper /\ Matches(poly') /\ Count(poly') = Ahead + off'
           /\ off' \in Nat /\ off' % 16 = 0
    <1>1. /\ Sizes /\ poly \in Wrapper /\ Matches(poly)
          /\ off \in Nat /\ off % 16 = 0 /\ Count(poly) = Ahead + off
        BY DEF Inv, TypeInv, Cursor, Streaming
    <1>2. poly' \in Wrapper /\ Matches(poly') /\ Count(poly') = Ahead + (off + n)
        BY <1>1, WindowsNext
    <1>3. (off + n) % 16 = 0
        BY <1>1, SumAligned
    <1>4. QED
        BY <1>1, <1>2, <1>3

LEMMA TinyStep ==
    ASSUME Inv, Tiny
    PROVE  Inv'
    <1>1. off = 0 /\ ct_len \in Nat /\ pc \in Streaming
        BY DEF Inv, TypeInv, Cursor, Tiny, Sizes, Streaming
    <1>2. Takes(ct_len) /\ pc' = "finish" /\ UNCHANGED <<aad_len, ct_len>>
        BY DEF Tiny, Goes
    <1>3. /\ poly' \in Wrapper /\ Matches(poly') /\ Count(poly') = Ahead + off'
          /\ off' = off + ct_len /\ off' \in Nat
        BY <1>1, <1>2, TakesStep
    <1>4. off' = ct_len
        BY <1>1, <1>3
    <1>5. QED
        BY <1>1, <1>2, <1>3, <1>4, Kept DEF Streaming

LEMMA AlignStep ==
    ASSUME Inv, NEW s \in Gaps, Align(s) \/ SweepAlign(s)
    PROVE  Inv'
    <1>1. /\ off = 0 /\ ct_len \in Nat /\ pc \in Streaming /\ pc = "text"
          /\ s \in Nat /\ s % 16 = 0 /\ s < 64 /\ ct_len > 64
        BY DEF Inv, TypeInv, Cursor, Align, SweepAlign, Sizes, Streaming, Gaps
    <1>2. /\ Takes(s) /\ pc' \in {"windows", "sweep_windows"}
          /\ UNCHANGED <<aad_len, ct_len>>
        <2>1. ct_len >= s
            BY <1>1
        <2>2. QED
            BY <2>1 DEF Align, SweepAlign, Goes
    <1>3. off + s <= ct_len
        BY <1>1
    <1>4. /\ poly' \in Wrapper /\ Matches(poly') /\ Count(poly') = Ahead + off'
          /\ off' = off + s /\ off' \in Nat
        BY <1>1, <1>2, <1>3, TakesStep
    <1>5. off' % 16 = 0 /\ off' <= ct_len
        BY <1>1, <1>4
    <1>6. QED
        BY <1>2, <1>4, <1>5, Kept DEF Streaming

LEMMA AbsorbWindowsStep ==
    ASSUME Inv, NEW n \in Nat, AbsorbWindows(n)
    PROVE  Inv'
    <1>1. /\ pc = "windows" /\ off + 64 * n <= ct_len /\ pc' = "windows"
          /\ poly' = Windows(poly, Text(off, 64 * n)) /\ off' = off + 64 * n
          /\ UNCHANGED <<aad_len, ct_len>>
        BY DEF AbsorbWindows, Goes
    <1>2. 64 * n \in Nat /\ (64 * n) % 16 = 0
        OBVIOUS
    <1>3. /\ poly' \in Wrapper /\ Matches(poly') /\ Count(poly') = Ahead + off'
          /\ off' \in Nat /\ off' % 16 = 0
        BY <1>1, <1>2, WindowsStep
    <1>4. QED
        BY <1>1, <1>3, Kept DEF Streaming

LEMMA UpdateTailStep ==
    ASSUME Inv, UpdateTail
    PROVE  Inv'
    <1> DEFINE k == Floor64(ct_len - off)
               m == ct_len - off - k
               w == Windows(poly, Text(off, k))
               q == Update(w, Text(off + k, m))
    <1>1. /\ Sizes /\ poly \in Wrapper /\ Matches(poly) /\ pc = "windows"
          /\ off \in Nat /\ off <= ct_len /\ off % 16 = 0 /\ Count(poly) = Ahead + off
          /\ ct_len \in Nat
        BY DEF Inv, TypeInv, Cursor, UpdateTail, Streaming, Sizes
    <1>2. /\ poly' = q /\ off' = ct_len /\ pc' = "finish"
          /\ UNCHANGED <<aad_len, ct_len>>
        BY DEF UpdateTail, Goes
    <1>3. k \in Nat /\ k % 16 = 0 /\ off + k <= ct_len /\ off + k \in Nat
        BY <1>1 DEF Floor64
    <1>4. m \in Nat /\ (off + k) + m = ct_len
        <2> HIDE DEF k
        <2>1. QED
            BY <1>1, <1>3
    <1>5. w \in Wrapper /\ Matches(w) /\ Count(w) = Ahead + (off + k)
        <2> HIDE DEF k
        <2>1. QED
            BY <1>1, <1>3, WindowsNext
    <1>6. q \in Wrapper /\ Matches(q) /\ Count(q) = Ahead + ((off + k) + m)
        <2>1. (off + k) + m <= ct_len
            <3> HIDE DEF k, m
            <3>1. QED
                BY <1>1, <1>3, <1>4
        <2> HIDE DEF k, m, w
        <2>2. QED
            BY <1>1, <1>3, <1>4, <1>5, <2>1, TakesNext
    <1> HIDE DEF k, m, w, q
    <1>7. Count(q) = Ahead + ct_len
        BY <1>4, <1>6
    <1>8. QED
        BY <1>1, <1>2, <1>6, <1>7, Kept DEF Streaming

LEMMA SweepWindowStep ==
    ASSUME Inv, SweepWindow
    PROVE  Inv'
    <1>1. /\ pc = "sweep_windows" /\ off \in Nat /\ ct_len \in Nat /\ off <= ct_len
          /\ off % 16 = 0 /\ poly \in Wrapper /\ Matches(poly) /\ Count(poly) = Ahead + off
        BY DEF Inv, TypeInv, Cursor, SweepWindow, Streaming, Sizes
    <1>2. CASE ct_len - off >= 64
        <2>1. /\ poly' = Windows(poly, Text(off, 64)) /\ off' = off + 64
              /\ pc' = "sweep_windows" /\ UNCHANGED <<aad_len, ct_len>>
            BY <1>2 DEF SweepWindow, Goes
        <2>2. off + 64 <= ct_len /\ 64 \in Nat /\ 64 % 16 = 0
            BY <1>1, <1>2
        <2>3. /\ poly' \in Wrapper /\ Matches(poly') /\ Count(poly') = Ahead + off'
              /\ off' \in Nat /\ off' % 16 = 0
            BY <1>1, <2>1, <2>2, WindowsStep
        <2>4. QED
            BY <2>1, <2>2, <2>3, Kept DEF Streaming
    <1>3. CASE ~(ct_len - off >= 64)
        <2>1. /\ poly' = poly /\ off' = off
              /\ pc' = "sweep_blocks" /\ UNCHANGED <<aad_len, ct_len>>
            BY <1>3 DEF SweepWindow, Goes
        <2>2. QED
            BY <1>1, <2>1, Kept DEF Streaming
    <1>4. QED
        BY <1>2, <1>3

LEMMA SweepBlockStep ==
    ASSUME Inv, SweepBlock
    PROVE  Inv'
    <1>1. /\ pc = "sweep_blocks" /\ off \in Nat /\ ct_len \in Nat /\ off % 16 = 0
          /\ ct_len - off >= 16 /\ pc \in Streaming
        BY DEF Inv, TypeInv, Cursor, SweepBlock, Streaming, Sizes
    <1>2. Takes(16) /\ pc' = "sweep_blocks" /\ UNCHANGED <<aad_len, ct_len>>
        BY DEF SweepBlock, Goes
    <1>3. off + 16 <= ct_len /\ 16 \in Nat
        BY <1>1
    <1>4. /\ poly' \in Wrapper /\ Matches(poly') /\ Count(poly') = Ahead + off'
          /\ off' = off + 16 /\ off' \in Nat
        BY <1>1, <1>2, <1>3, TakesStep
    <1>5. off' % 16 = 0 /\ off' <= ct_len
        BY <1>1, <1>3, <1>4
    <1>6. QED
        BY <1>2, <1>4, <1>5, Kept DEF Streaming

LEMMA SweepTailStep ==
    ASSUME Inv, SweepTail
    PROVE  Inv'
    <1> DEFINE m == ct_len - off
               t == [j \in 1..16 |-> IF j <= m THEN Text(off, m)[j] ELSE Zero]
               p == IF m > 0 THEN Update(poly, t) ELSE poly
    <1>1. /\ Sizes /\ poly \in Wrapper /\ Matches(poly) /\ pc = "sweep_blocks"
          /\ off \in Nat /\ off <= ct_len /\ off % 16 = 0 /\ Count(poly) = Ahead + off
          /\ ct_len \in Nat
        BY DEF Inv, TypeInv, Cursor, SweepTail, Streaming, Sizes
    <1>2. /\ m < 16 /\ poly' = Update(p, Lengths) /\ off' = ct_len /\ pc' = "done"
          /\ UNCHANGED <<aad_len, ct_len>>
        BY DEF SweepTail, Goes
    <1>3. m \in 0..15 /\ off + m = ct_len
        BY <1>1, <1>2
    <1>4. p \in Wrapper /\ Matches(p) /\ Count(p) = End
        <2>1. CASE m > 0
            <3>1. m \in 1..15
                <4> HIDE DEF m
                <4>1. QED
                    BY <1>3, <2>1
            <3>2. /\ t \in Seq(Byte) /\ Len(t) = 16 /\ Follows(t, Ahead + off)
                  /\ Ahead + off + 16 = End
                <4> HIDE DEF m
                <4>1. QED
                    BY <1>1, <1>3, <3>1, TailFollows
            <3>3. p = Update(poly, t)
                BY <2>1
            <3>4. Ahead \in Nat
                BY <1>1, Places
            <3> HIDE DEF t, p, m
            <3>5. p \in Wrapper /\ Matches(p) /\ Count(p) = Count(poly) + 16
                BY <1>1, <3>2, <3>3, UpdateTakes
            <3>6. QED
                BY <1>1, <3>2, <3>4, <3>5
        <2>2. CASE m = 0
            <3>1. p = poly /\ off = ct_len
                BY <1>1, <2>2
            <3>2. Ahead + ct_len = End
                <4>1. ct_len % 16 = 0
                    BY <1>1, <3>1
                <4>2. Pad(ct_len) = 0
                    BY <4>1 DEF Pad
                <4>3. End = Ahead + ct_len + Pad(ct_len) /\ Ahead \in Nat
                    BY <1>1, Places
                <4>4. QED
                    BY <1>1, <4>2, <4>3
            <3>3. QED
                BY <1>1, <3>1, <3>2
        <2>3. QED
            <3> HIDE DEF m
            <3>1. QED
                BY <1>3, <2>1, <2>2
    <1> HIDE DEF p
    <1>5. poly' \in Wrapper /\ Matches(poly') /\ Count(poly') = End + 16
        BY <1>1, <1>2, <1>4, LengthsLast
    <1>6. QED
        BY <1>1, <1>2, <1>5, Finished

LEMMA FinishTagStep ==
    ASSUME Inv, FinishTag
    PROVE  Inv'
    <1> DEFINE z == Zeros(Pad(ct_len))
               p == Update(poly, z)
    <1>1. /\ Sizes /\ poly \in Wrapper /\ Matches(poly)
          /\ off = ct_len /\ ct_len \in Nat /\ Count(poly) = Ahead + ct_len
        BY DEF Inv, TypeInv, Cursor, FinishTag, Streaming, Sizes
    <1>2. /\ poly' = Update(p, Lengths) /\ off' = off /\ pc' = "done"
          /\ UNCHANGED <<aad_len, ct_len>>
        BY DEF FinishTag, Goes
    <1>3. p \in Wrapper /\ Matches(p) /\ Count(p) = End
        <2>1. Pad(ct_len) \in 0..15
            BY <1>1, PadFills
        <2>2. z \in Seq(Byte) /\ Len(z) = Pad(ct_len)
            <3>1. \A n \in 0..15 : Zeros(n) \in Seq(Byte) /\ Len(Zeros(n)) = n
                BY ZerosAre
            <3>2. QED
                BY <2>1, <3>1
        <2>3. Follows(z, Count(poly))
            BY <1>1, PaddingFollows
        <2> HIDE DEF z
        <2>4. p \in Wrapper /\ Matches(p) /\ Count(p) = Count(poly) + Len(z)
            BY <1>1, <2>2, <2>3, UpdateTakes
        <2>5. End = Ahead + ct_len + Pad(ct_len)
            BY <1>1, Places
        <2>6. QED
            BY <1>1, <2>2, <2>4, <2>5
    <1> HIDE DEF p
    <1>4. poly' \in Wrapper /\ Matches(poly') /\ Count(poly') = End + 16
        BY <1>1, <1>2, <1>3, LengthsLast
    <1>5. QED
        BY <1>1, <1>2, <1>4, Finished

LEMMA NextInv ==
    ASSUME Inv, [Next]_vars
    PROVE  Inv'
    <1>1. CASE UNCHANGED vars
        <2>1. /\ UNCHANGED <<aad_len, ct_len>> /\ poly' = poly /\ off' = off /\ pc' = pc
              /\ Matches(poly')
            BY <1>1 DEF vars, Inv
        <2>2. Matches(poly)' /\ Ahead' = Ahead /\ End' = End /\ Sizes'
            BY <2>1, SameData DEF Inv, TypeInv
        <2>3. Count(poly)' = Count(poly)
            BY <2>1 DEF Count
        <2>4. QED
            BY <2>1, <2>2, <2>3 DEF Inv, TypeInv, Cursor
    <1>2. CASE AbsorbAad
        BY <1>2, AbsorbAadStep
    <1>3. CASE Tiny
        BY <1>3, TinyStep
    <1>4. CASE \E s \in Gaps : Align(s) \/ SweepAlign(s)
        BY <1>4, AlignStep
    <1>5. CASE \E n \in 1..(ct_len \div 64) : AbsorbWindows(n)
        BY <1>5, AbsorbWindowsStep
    <1>6. CASE UpdateTail
        BY <1>6, UpdateTailStep
    <1>7. CASE SweepWindow
        BY <1>7, SweepWindowStep
    <1>8. CASE SweepBlock
        BY <1>8, SweepBlockStep
    <1>9. CASE SweepTail
        BY <1>9, SweepTailStep
    <1>10. CASE FinishTag
        BY <1>10, FinishTagStep
    <1>11. QED
        BY <1>1, <1>2, <1>3, <1>4, <1>5, <1>6, <1>7, <1>8, <1>9, <1>10 DEF Next

\* The invariant holds of every message.
THEOREM Invariance == Spec => []Inv
    <1>1. Init => Inv
        BY InitInv
    <1>2. Inv /\ [Next]_vars => Inv'
        BY NextInv
    <1>3. QED
        BY <1>1, <1>2, PTL DEF Spec

\* However a message is cut, Poly1305 gets mac_data: no byte is dropped, doubled
\* or moved by update or by the windows that bypass it.
THEOREM NothingDroppedHolds == Spec => []NothingDropped
    <1>1. Inv => NothingDropped
        <2> SUFFICES ASSUME Inv
                     PROVE  NothingDropped
            OBVIOUS
        <2>1. Taken = Count(poly)
            BY DEF Taken, Count
        <2>2. pc \notin {"aad", "done"} => pc \in Streaming
            BY DEF Inv, TypeInv, Streaming
        <2>3. QED
            BY <2>1, <2>2 DEF Inv, Cursor, Matches, NothingDropped
    <1>2. QED
        BY <1>1, Invariance, PTL

\* No path reaches the windows or the tag with bytes still pending.
THEOREM NothingPendingHolds == Spec => []NothingPending
    <1>1. Inv => NothingPending
        <2> SUFFICES ASSUME Inv
                     PROVE  NothingPending
            OBVIOUS
        <2>1. Taken = Count(poly)
            BY DEF Taken, Count
        <2>2. Sizes /\ poly \in Wrapper /\ off \in Nat
            BY DEF Inv, TypeInv
        <2>3. /\ Ahead \in Nat /\ Ahead % 16 = 0
              /\ End \in Nat /\ End % 16 = 0
            BY <2>2, Places
        <2>4. CASE pc \in {"windows", "sweep_windows"}
            <3>1. Count(poly) = Ahead + off /\ off % 16 = 0
                BY <2>4 DEF Inv, Cursor, Streaming
            <3>2. Count(poly) % 16 = 0
                BY <2>2, <2>3, <3>1, SumAligned
            <3>3. QED
                BY <2>2, <2>4, <3>2, NothingHeld DEF NothingPending
        <2>5. CASE pc = "done"
            <3>1. Count(poly) = End + 16
                BY <2>5 DEF Inv, Cursor
            <3>2. Count(poly) % 16 = 0
                BY <2>3, <3>1
            <3>3. QED
                BY <2>1, <2>2, <2>5, <3>1, <3>2, NothingHeld DEF NothingPending
        <2>6. CASE pc \notin {"windows", "sweep_windows", "done"}
            BY <2>6 DEF NothingPending
        <2>7. QED
            BY <2>4, <2>5, <2>6
    <1>2. QED
        BY <1>1, Invariance, PTL
=============================================================================
