---------------------------- MODULE AeadApiProofs ----------------------------
(***************************************************************************)
(* Proofs about AeadApi, for every set of callers, every size of block,    *)
(* tag and counter, and calls without bound.  The invariant says where the *)
(* bytes of every buffer can come from: a tag byte from a message that was *)
(* sealed, a mask from a keystream that was applied.                       *)
(***************************************************************************)
EXTENDS AeadApi, SequenceTheorems, TLAPS

IsBytes(B) ==
    /\ B \in Seq({B[p] : p \in 1..Len(B)})
    /\ \A p \in 1..Len(B) : B[p] = <<B[p][1], B[p][2]>>

\* What a tag of the sealed message s is computed from.
TagInput(s) == [stream |-> Stream(s.ctx), aad |-> s.ctx.aad, over |-> s.cipher]

\* A byte that can exist once the messages S are sealed and the keystreams U
\* are applied.
ByteFrom(S, U, b) ==
    /\ b[1][1] = "tag" => \E s \in S : b[1][2] = TagInput(s)
    /\ \A m \in b[2] : m = <<"noise">> \/ \E u \in U : u[2] = m[1]

From(S, U, B) == IsBytes(B) /\ \A p \in 1..Len(B) : ByteFrom(S, U, B[p])

----------------------------------------------------------------------------
(* Sequences of bytes.                                                      *)

\* A sequence given by its elements.
LEMMA MadeBytes ==
    ASSUME NEW n \in Nat, NEW X, NEW B \in [1..n -> X],
           \A p \in 1..n : B[p] = <<B[p][1], B[p][2]>>
    PROVE  IsBytes(B) /\ Len(B) = n
    <1>1. B \in Seq(X) /\ Len(B) = n
        OBVIOUS
    <1>2. B \in [1..n -> {B[p] : p \in 1..n}]
        OBVIOUS
    <1>3. B \in Seq({B[p] : p \in 1..n})
        BY <1>2
    <1>4. QED
        BY <1>1, <1>3 DEF IsBytes

\* What is known of any sequence of bytes.
LEMMA BytesFacts ==
    ASSUME NEW B, IsBytes(B)
    PROVE  /\ Len(B) \in Nat
           /\ DOMAIN B = 1..Len(B)
           /\ B = [p \in 1..Len(B) |-> B[p]]
    BY LenProperties DEF IsBytes

\* Two sequences of bytes are equal when their elements are.
LEMMA BytesEqual ==
    ASSUME NEW A, NEW B, IsBytes(A), IsBytes(B), Len(A) = Len(B),
           \A p \in 1..Len(A) : A[p] = B[p]
    PROVE  A = B
    <1>1. A = [p \in 1..Len(A) |-> A[p]] /\ B = [p \in 1..Len(A) |-> B[p]]
        BY BytesFacts
    <1>2. QED
        BY <1>1

\* A keystream XORed in changes masks only.
LEMMA XoredBytes ==
    ASSUME NEW B, IsBytes(B), NEW s
    PROVE  /\ IsBytes(Xored(B, s))
           /\ Len(Xored(B, s)) = Len(B)
           /\ \A p \in 1..Len(B) :
                 Xored(B, s)[p] = XorByte(B[p], KeystreamByte(s, p))
    <1> DEFINE X == Xored(B, s)
    <1>1. Len(B) \in Nat
        BY BytesFacts
    <1>2. \A p \in 1..Len(B) : X[p] = XorByte(B[p], KeystreamByte(s, p))
        BY DEF Xored
    <1>3. \A p \in 1..Len(B) : X[p] = <<X[p][1], X[p][2]>>
        BY <1>2 DEF XorByte
    <1>4. X \in [1..Len(B) -> {X[p] : p \in 1..Len(B)}]
        BY DEF Xored
    <1>5. IsBytes(X) /\ Len(X) = Len(B)
        BY <1>1, <1>3, <1>4, MadeBytes
    <1>6. QED
        BY <1>2, <1>5

\* XORed in twice, it is gone.
LEMMA XoredTwice ==
    ASSUME NEW B, IsBytes(B), NEW s
    PROVE  Xored(Xored(B, s), s) = B
    <1> DEFINE X == Xored(B, s)
               Y == Xored(X, s)
    <1>1. IsBytes(X) /\ Len(X) = Len(B)
        BY XoredBytes
    <1>2. IsBytes(Y) /\ Len(Y) = Len(B)
        BY <1>1, XoredBytes
    <1>3. ASSUME NEW p \in 1..Len(B)
          PROVE  Y[p] = B[p]
        <2> DEFINE k == KeystreamByte(s, p)
        <2>1. X[p] = XorByte(B[p], k)
            BY XoredBytes
        <2>2. Y[p] = XorByte(X[p], k)
            BY <1>1, XoredBytes
        <2>3. /\ X[p][1] = B[p][1]
              /\ X[p][2] = (B[p][2] \ {k}) \cup ({k} \ B[p][2])
            BY <2>1 DEF XorByte
        <2>4. /\ Y[p][1] = B[p][1]
              /\ Y[p][2] = (X[p][2] \ {k}) \cup ({k} \ X[p][2])
              /\ Y[p] = <<Y[p][1], Y[p][2]>>
            BY <2>2, <2>3 DEF XorByte
        <2>5. Y[p][2] = B[p][2]
            BY <2>3, <2>4
        <2>6. B[p] = <<B[p][1], B[p][2]>>
            BY DEF IsBytes
        <2>7. QED
            BY <2>4, <2>5, <2>6
    <1>4. QED
        BY <1>2, <1>3, BytesEqual

\* Bytes one after the other.
LEMMA ConcatBytes ==
    ASSUME NEW A, NEW B, IsBytes(A), IsBytes(B)
    PROVE  /\ IsBytes(A \o B)
           /\ Len(A \o B) = Len(A) + Len(B)
           /\ \A p \in 1..Len(A) : (A \o B)[p] = A[p]
           /\ \A p \in 1..Len(B) : (A \o B)[Len(A) + p] = B[p]
           /\ \A p \in 1..(Len(A) + Len(B)) : p > Len(A) =>
                 p - Len(A) \in 1..Len(B) /\ (A \o B)[p] = B[p - Len(A)]
    <1> DEFINE X == {A[p] : p \in 1..Len(A)} \cup {B[p] : p \in 1..Len(B)}
               n == Len(A) + Len(B)
    <1>1. Len(A) \in Nat /\ Len(B) \in Nat
        BY BytesFacts
    <1>2. A \in Seq(X) /\ B \in Seq(X)
        BY SeqMonotonic DEF IsBytes
    <1>3. /\ A \o B \in Seq(X) /\ Len(A \o B) = n
          /\ \A p \in 1..n : (A \o B)[p] = IF p <= Len(A) THEN A[p] ELSE B[p - Len(A)]
        BY <1>2, ConcatProperties
    <1>4. A \o B \in [1..n -> X]
        BY <1>3, LenProperties
    <1>5. \A p \in 1..n : p > Len(A) => p - Len(A) \in 1..Len(B)
        BY <1>1
    <1>6. \A p \in 1..Len(A) : p \in 1..n /\ p <= Len(A)
        BY <1>1
    <1>7. \A p \in 1..Len(B) : /\ Len(A) + p \in 1..n /\ ~(Len(A) + p <= Len(A))
                               /\ (Len(A) + p) - Len(A) = p
        BY <1>1
    <1>8. \A p \in 1..n : (A \o B)[p] = <<(A \o B)[p][1], (A \o B)[p][2]>>
        <2> SUFFICES ASSUME NEW p \in 1..n
                     PROVE  (A \o B)[p] = <<(A \o B)[p][1], (A \o B)[p][2]>>
            OBVIOUS
        <2>1. CASE p <= Len(A)
            <3>1. p \in 1..Len(A) /\ (A \o B)[p] = A[p]
                BY <1>1, <1>3, <2>1
            <3>2. QED
                BY <3>1 DEF IsBytes
        <2>2. CASE p > Len(A)
            <3>1. p - Len(A) \in 1..Len(B) /\ (A \o B)[p] = B[p - Len(A)]
                BY <1>1, <1>3, <1>5, <2>2
            <3>2. QED
                BY <3>1 DEF IsBytes
        <2>3. QED
            BY <1>1, <2>1, <2>2
    <1>9. IsBytes(A \o B)
        <2> HIDE DEF X, n
        <2>1. n \in Nat
            BY <1>1 DEF n
        <2>2. QED
            BY <1>4, <1>8, <2>1, MadeBytes
    <1>10. \A p \in 1..n : p > Len(A) => (A \o B)[p] = B[p - Len(A)]
        BY <1>1, <1>3
    <1>11. QED
        BY <1>3, <1>5, <1>6, <1>7, <1>9, <1>10

\* A stretch of bytes.
LEMMA SubBytes ==
    ASSUME NEW B, IsBytes(B), NEW i \in 1..(Len(B) + 1), NEW j \in 0..Len(B)
    PROVE  /\ IsBytes(SubSeq(B, i, j))
           /\ Len(SubSeq(B, i, j)) = IF i <= j THEN j - i + 1 ELSE 0
           /\ \A p \in 1..(j - i + 1) :
                 i + p - 1 \in 1..Len(B) /\ SubSeq(B, i, j)[p] = B[i + p - 1]
    <1> DEFINE X == {B[p] : p \in 1..Len(B)}
               D == SubSeq(B, i, j)
               n == IF i <= j THEN j - i + 1 ELSE 0
    <1>1. Len(B) \in Nat
        BY BytesFacts
    <1>2. \A p \in i..j : B[p] \in X
        BY <1>1
    <1>3. /\ D \in Seq(X) /\ Len(D) = n
          /\ \A p \in 1..(j - i + 1) : D[p] = B[i + p - 1]
        BY <1>1, <1>2, SubSeqProperties
    <1>4. \A p \in 1..(j - i + 1) : i + p - 1 \in 1..Len(B)
        BY <1>1
    <1>5. n \in Nat /\ \A p \in 1..n : p \in 1..(j - i + 1)
        BY <1>1
    <1>6. \A p \in 1..n : D[p] = <<D[p][1], D[p][2]>>
        BY <1>3, <1>4, <1>5 DEF IsBytes
    <1>7. D \in [1..n -> X]
        BY <1>3, LenProperties
    <1>8. IsBytes(D)
        <2> HIDE DEF X, D, n
        <2>1. QED
            BY <1>5, <1>6, <1>7, MadeBytes
    <1>9. QED
        BY <1>3, <1>4, <1>8

\* A tag.
LEMMA TagBytes ==
    ASSUME NEW c, NEW B
    PROVE  /\ IsBytes(TagOf(c, B))
           /\ Len(TagOf(c, B)) = TagLen
           /\ \A j \in 1..TagLen :
                 TagOf(c, B)[j] =
                   << <<"tag", [stream |-> Stream(c), aad |-> c.aad, over |-> B], j>>, {} >>
    <1> DEFINE t == TagOf(c, B)
    <1>1. TagLen \in Nat
        BY SizesAssumption
    <1>2. \A j \in 1..TagLen :
             t[j] = << <<"tag", [stream |-> Stream(c), aad |-> c.aad, over |-> B], j>>, {} >>
        BY DEF TagOf
    <1>3. \A j \in 1..TagLen : t[j] = <<t[j][1], t[j][2]>>
        BY <1>2
    <1>4. t \in [1..TagLen -> {t[j] : j \in 1..TagLen}]
        BY DEF TagOf
    <1>5. QED
        BY <1>1, <1>2, <1>3, <1>4, MadeBytes

\* Bytes that have been through no call.
LEMMA FreshBytes ==
    ASSUME NEW n \in Nat, NEW name
    PROVE  /\ IsBytes(Fresh(name, n))
           /\ Len(Fresh(name, n)) = n
           /\ \A p \in 1..n : Fresh(name, n)[p] = << <<name, "-", p>>, {} >>
    <1> DEFINE f == Fresh(name, n)
    <1>1. \A p \in 1..n : f[p] = << <<name, "-", p>>, {} >>
        BY DEF Fresh
    <1>2. \A p \in 1..n : f[p] = <<f[p][1], f[p][2]>>
        BY <1>1
    <1>3. f \in [1..n -> {f[p] : p \in 1..n}]
        BY DEF Fresh
    <1>4. QED
        BY <1>1, <1>2, <1>3, MadeBytes

\* One byte of a buffer changed.
LEMMA ExceptBytes ==
    ASSUME NEW B, IsBytes(B), NEW q \in 1..Len(B), NEW k
    PROVE  LET E == [B EXCEPT ![q] = XorByte(@, k)]
           IN  /\ IsBytes(E)
               /\ Len(E) = Len(B)
               /\ \A p \in 1..Len(B) : E[p] = IF p = q THEN XorByte(B[q], k) ELSE B[p]
    <1> DEFINE E == [B EXCEPT ![q] = XorByte(@, k)]
    <1>1. Len(B) \in Nat /\ DOMAIN B = 1..Len(B)
        BY BytesFacts
    <1>2. \A p \in 1..Len(B) : E[p] = IF p = q THEN XorByte(B[q], k) ELSE B[p]
        BY <1>1, BytesFacts
    <1>3. ASSUME NEW p \in 1..Len(B)
          PROVE  E[p] = <<E[p][1], E[p][2]>>
        <2> HIDE DEF E
        <2>1. CASE p = q
            BY <1>2, <2>1 DEF XorByte
        <2>2. CASE p # q
            BY <1>2, <2>2 DEF IsBytes
        <2>3. QED
            BY <2>1, <2>2
    <1>4. E \in [1..Len(B) -> {E[p] : p \in 1..Len(B)}]
        BY <1>1, BytesFacts
    <1>5. IsBytes(E) /\ Len(E) = Len(B)
        <2> HIDE DEF E
        <2>1. QED
            BY <1>1, <1>3, <1>4, MadeBytes
    <1>6. QED
        BY <1>2, <1>5

----------------------------------------------------------------------------
(* Where bytes come from.                                                   *)

\* More sealed, more applied: a byte that could exist still can.
LEMMA FromMore ==
    ASSUME NEW S, NEW U, NEW S2, NEW U2, NEW B,
           S \subseteq S2, U \subseteq U2, From(S, U, B)
    PROVE  From(S2, U2, B)
    <1>1. ASSUME NEW b, ByteFrom(S, U, b)
          PROVE  ByteFrom(S2, U2, b)
        BY <1>1 DEF ByteFrom
    <1>2. QED
        BY <1>1 DEF From

\* A keystream that is applied.
LEMMA FromXored ==
    ASSUME NEW S, NEW U, NEW B, From(S, U, B), NEW u \in U
    PROVE  From(S, U, Xored(B, u[2]))
    <1>1. IsBytes(B)
        BY DEF From
    <1>2. ASSUME NEW p \in 1..Len(B)
          PROVE  ByteFrom(S, U, XorByte(B[p], KeystreamByte(u[2], p)))
        <2> DEFINE k == KeystreamByte(u[2], p)
                   b == XorByte(B[p], k)
        <2>1. ByteFrom(S, U, B[p])
            BY DEF From
        <2>2. k[1] = u[2]
            BY DEF KeystreamByte
        <2>3. b[1] = B[p][1] /\ b[2] = (B[p][2] \ {k}) \cup ({k} \ B[p][2])
            BY DEF XorByte
        <2>4. \A m \in b[2] : m \in B[p][2] \/ m = k
            BY <2>3
        <2>5. QED
            <3> HIDE DEF k, b
            <3>1. \A m \in b[2] : m = <<"noise">> \/ \E v \in U : v[2] = m[1]
                BY <2>1, <2>2, <2>4 DEF ByteFrom
            <3>2. QED
                BY <2>1, <2>3, <3>1 DEF ByteFrom, k, b
    <1>3. QED
        BY <1>1, <1>2, XoredBytes DEF From

LEMMA FromConcat ==
    ASSUME NEW S, NEW U, NEW A, NEW B, From(S, U, A), From(S, U, B)
    PROVE  From(S, U, A \o B)
    <1>1. IsBytes(A) /\ IsBytes(B)
        BY DEF From
    <1>2. ASSUME NEW p \in 1..(Len(A) + Len(B))
          PROVE  ByteFrom(S, U, (A \o B)[p])
        <2>1. Len(A) \in Nat /\ Len(B) \in Nat
            BY <1>1, BytesFacts
        <2>2. CASE p <= Len(A)
            <3>1. p \in 1..Len(A)
                BY <2>1, <2>2
            <3>2. QED
                BY <1>1, <3>1, ConcatBytes DEF From
        <2>3. CASE p > Len(A)
            BY <1>1, <2>3, ConcatBytes DEF From
        <2>4. QED
            BY <2>1, <2>2, <2>3
    <1>3. IsBytes(A \o B) /\ Len(A \o B) = Len(A) + Len(B)
        BY <1>1, ConcatBytes
    <1>4. QED
        BY <1>2, <1>3 DEF From

LEMMA FromSub ==
    ASSUME NEW S, NEW U, NEW B, From(S, U, B),
           NEW i \in 1..(Len(B) + 1), NEW j \in 0..Len(B)
    PROVE  From(S, U, SubSeq(B, i, j))
    <1> DEFINE D == SubSeq(B, i, j)
    <1>1. IsBytes(B)
        BY DEF From
    <1>2. Len(B) \in Nat
        BY <1>1, BytesFacts
    <1>3. /\ IsBytes(D)
          /\ Len(D) = IF i <= j THEN j - i + 1 ELSE 0
          /\ \A p \in 1..(j - i + 1) : i + p - 1 \in 1..Len(B) /\ D[p] = B[i + p - 1]
        BY <1>1, SubBytes
    <1>4. \A p \in 1..Len(D) : p \in 1..(j - i + 1)
        BY <1>2, <1>3
    <1>5. \A p \in 1..Len(D) : ByteFrom(S, U, D[p])
        <2> HIDE DEF D
        <2>1. QED
            BY <1>3, <1>4 DEF From
    <1>6. QED
        BY <1>3, <1>5 DEF From

\* The tag of a message that has been sealed.
LEMMA FromTag ==
    ASSUME NEW S, NEW U, NEW c, NEW B, NEW s \in S,
           Stream(s.ctx) = Stream(c), s.ctx.aad = c.aad, s.cipher = B
    PROVE  From(S, U, TagOf(c, B))
    <1> DEFINE t == TagOf(c, B)
               T == [stream |-> Stream(c), aad |-> c.aad, over |-> B]
    <1>1. /\ IsBytes(t) /\ Len(t) = TagLen
          /\ \A j \in 1..TagLen : t[j] = << <<"tag", T, j>>, {} >>
        BY TagBytes
    <1>2. TagInput(s) = T
        BY DEF TagInput
    <1>3. \A j \in 1..TagLen : ByteFrom(S, U, t[j])
        <2> HIDE DEF t, T
        <2>1. QED
            BY <1>1, <1>2 DEF ByteFrom
    <1>4. QED
        BY <1>1, <1>3 DEF From

LEMMA FromFresh ==
    ASSUME NEW S, NEW U, NEW n \in Nat, NEW name, name # "tag"
    PROVE  From(S, U, Fresh(name, n))
    <1> DEFINE f == Fresh(name, n)
    <1>1. /\ IsBytes(f) /\ Len(f) = n
          /\ \A p \in 1..n : f[p] = << <<name, "-", p>>, {} >>
        BY FreshBytes
    <1>2. \A p \in 1..n : ByteFrom(S, U, f[p])
        <2> HIDE DEF f
        <2>1. QED
            BY <1>1 DEF ByteFrom
    <1>3. QED
        BY <1>1, <1>2 DEF From

\* Laying bytes over the head of a buffer leaves its length and its tail.
LEMMA OverKeeps ==
    ASSUME NEW A, NEW D, IsBytes(A), IsBytes(D), Len(A) <= Len(D)
    PROVE  /\ Len(Over(A, D)) = Len(D)
           /\ \A p \in 1..Len(D) : p > Len(A) => Over(A, D)[p] = D[p]
    <1>1. /\ Len(A) \in Nat /\ Len(D) \in Nat
          /\ Len(D) - (Len(A) + 1) + 1 = Len(D) - Len(A)
        BY BytesFacts
    <1> DEFINE R == SubSeq(D, Len(A) + 1, Len(D))
    <1>2. /\ IsBytes(R)
          /\ Len(R) = Len(D) - Len(A)
          /\ \A p \in 1..(Len(D) - Len(A)) : R[p] = D[Len(A) + p]
        BY <1>1, SubBytes
    <1>3. Over(A, D) = A \o R
        BY DEF Over
    <1>4. /\ Len(A \o R) = Len(D)
          /\ \A p \in 1..Len(D) : p > Len(A) =>
                p - Len(A) \in 1..Len(R) /\ (A \o R)[p] = R[p - Len(A)]
        <2> HIDE DEF R
        <2>1. Len(A) + Len(R) = Len(D)
            BY <1>1, <1>2
        <2>2. QED
            BY <1>2, <2>1, ConcatBytes
    <1>5. ASSUME NEW p \in 1..Len(D), p > Len(A)
          PROVE  (A \o R)[p] = D[p]
        <2> HIDE DEF R
        <2>1. p - Len(A) \in 1..(Len(D) - Len(A)) /\ Len(A) + (p - Len(A)) = p
            BY <1>1, <1>5
        <2>2. QED
            BY <1>2, <1>4, <1>5, <2>1
    <1>6. QED
        BY <1>3, <1>4, <1>5

\* What lies in it afterwards came from where the head and the tail did.
LEMMA OverBytes ==
    ASSUME NEW S, NEW U, NEW A, NEW D, From(S, U, A), From(S, U, D), Len(A) <= Len(D)
    PROVE  From(S, U, Over(A, D))
    <1> DEFINE R == SubSeq(D, Len(A) + 1, Len(D))
    <1>1. IsBytes(A) /\ IsBytes(D)
        BY DEF From
    <1>2. Len(A) \in Nat /\ Len(D) \in Nat
        BY <1>1, BytesFacts
    <1>3. Len(A) + 1 \in 1..(Len(D) + 1) /\ Len(D) \in 0..Len(D)
        BY <1>2
    <1>4. From(S, U, R)
        BY <1>1, <1>3, SubBytes, FromSub
    <1>5. Over(A, D) = A \o R
        BY DEF Over
    <1>6. QED
        BY <1>4, <1>5, FromConcat

\* A wire comes apart into the ciphertext and the tag it was put together of.
LEMMA WireParts ==
    ASSUME NEW B, IsBytes(B), Len(B) >= TagLen
    PROVE  LET n == Len(B) - TagLen
               H == SubSeq(B, 1, n)
               T == SubSeq(B, n + 1, Len(B))
           IN  /\ n \in 0..Len(B) /\ n + 1 \in 1..(Len(B) + 1)
               /\ IsBytes(H) /\ Len(H) = n
               /\ IsBytes(T) /\ Len(T) = TagLen
               /\ B = H \o T
    <1> DEFINE n == Len(B) - TagLen
               H == SubSeq(B, 1, n)
               T == SubSeq(B, n + 1, Len(B))
    <1>1. Len(B) \in Nat /\ TagLen \in Nat \ {0}
        BY BytesFacts, SizesAssumption
    <1>2. n \in 0..Len(B) /\ n + 1 \in 1..(Len(B) + 1) /\ 1 \in 1..(Len(B) + 1)
          /\ Len(B) \in 0..Len(B)
        BY <1>1
    <1>3. /\ IsBytes(H)
          /\ Len(H) = IF 1 <= n THEN n - 1 + 1 ELSE 0
          /\ \A p \in 1..(n - 1 + 1) : H[p] = B[1 + p - 1]
        <2> HIDE DEF n
        <2>1. QED
            BY <1>2, SubBytes
    <1>4. /\ IsBytes(T)
          /\ Len(T) = IF n + 1 <= Len(B) THEN Len(B) - (n + 1) + 1 ELSE 0
          /\ \A p \in 1..(Len(B) - (n + 1) + 1) : T[p] = B[(n + 1) + p - 1]
        <2> HIDE DEF n
        <2>1. QED
            BY <1>2, SubBytes
    <1>5. /\ Len(H) = n /\ Len(T) = TagLen /\ n + TagLen = Len(B)
          /\ n \in Nat /\ Len(H) + Len(T) = Len(B)
        <2> HIDE DEF H, T
        <2>1. n \in Nat /\ Len(H) = n
            BY <1>1, <1>2, <1>3
        <2>2. Len(T) = TagLen /\ n + TagLen = Len(B)
            BY <1>1, <1>4
        <2>3. QED
            BY <2>1, <2>2
    <1>6. /\ IsBytes(H \o T) /\ Len(H \o T) = Len(B)
          /\ \A p \in 1..Len(H) : (H \o T)[p] = H[p]
          /\ \A p \in 1..Len(B) : p > Len(H) => (H \o T)[p] = T[p - Len(H)]
        <2> HIDE DEF H, T, n
        <2>1. QED
            BY <1>3, <1>4, <1>5, ConcatBytes
    <1>7. ASSUME NEW p \in 1..Len(B)
          PROVE  (H \o T)[p] = B[p]
        <2> HIDE DEF H, T, n
        <2>1. CASE p <= n
            <3>1. p \in 1..(n - 1 + 1) /\ p \in 1..Len(H) /\ 1 + p - 1 = p
                BY <1>5, <2>1
            <3>2. QED
                BY <1>3, <1>6, <3>1
        <2>2. CASE p > n
            <3>1. /\ p - n \in 1..(Len(B) - (n + 1) + 1)
                  /\ (n + 1) + (p - n) - 1 = p
                BY <1>1, <1>5, <2>2
            <3>2. (H \o T)[p] = T[p - n]
                BY <1>5, <1>6, <2>2
            <3>3. T[p - n] = B[(n + 1) + (p - n) - 1]
                BY <1>4, <3>1
            <3>4. QED
                BY <3>1, <3>2, <3>3
        <2>3. QED
            BY <1>1, <1>5, <2>1, <2>2
    <1>8. B = H \o T
        <2> HIDE DEF H, T, n
        <2>1. QED
            BY <1>6, <1>7, BytesEqual
    <1>9. QED
        BY <1>2, <1>3, <1>4, <1>5, <1>8

----------------------------------------------------------------------------
(* The invariant.                                                           *)

Buffers ==
    /\ From(sealed, applied, buf)
    /\ From(sealed, applied, dst)
    /\ From(sealed, applied, tag) /\ Len(tag) = TagLen

\* What was sealed is what a seal makes of its message.
SealedRight ==
    \A s \in sealed :
        /\ s.ctx \in contexts
        /\ IsBytes(s.plain)
        /\ Len(s.plain) < MaxLen
        /\ s.cipher = Xored(s.plain, Stream(s.ctx))

History ==
    /\ calls \in Nat
    /\ contexts \in Sessions
    /\ SealedRight
    /\ \A o \in opened : o.ctx \in contexts
    /\ OpenedWasSealed
    /\ \A u \in applied : u[1] \in Nat /\ u[1] < calls
    /\ MaskedUnlessReused

\* After a failed append the buffer is a ciphertext.
AppendFailed ==
    result.res = "BufferError" =>
        \E s \in sealed : s.ctx = result.ctx /\ s.cipher = buf

Inv == Buffers /\ History /\ AppendFailed

\* Histories only grow.
Grows == sealed \subseteq sealed' /\ applied \subseteq applied'

\* A buffer that a step leaves alone stays good.
LEMMA Kept ==
    ASSUME Grows, NEW B, From(sealed, applied, B)
    PROVE  From(sealed', applied', B)
    BY FromMore DEF Grows

\* A step that uses no keystream keeps the history.
LEMMA IdleStep ==
    ASSUME History, calls' = calls + 1, UNCHANGED <<contexts, sealed, opened, applied>>
    PROVE  History' /\ Grows
    <1>1. Grows
        BY DEF Grows
    <1>2. SealedRight'
        BY DEF History, SealedRight
    <1>3. OpenedWasSealed' /\ MaskedUnlessReused'
        BY DEF History, OpenedWasSealed, MaskedUnlessReused
    <1>4. calls' \in Nat /\ \A u \in applied' : u[1] \in Nat /\ u[1] < calls'
        BY DEF History
    <1>5. QED
        BY <1>1, <1>2, <1>3, <1>4 DEF History

\* A seal.
LEMMA SealStep ==
    ASSUME History, NEW c \in contexts, NEW B, NEW out,
           From(sealed, applied, B), ~TooLong(B), out = Xored(B, Stream(c)),
           calls' = calls + 1, contexts' = contexts, Seals(c, B, out)
    PROVE  /\ History' /\ Grows
           /\ From(sealed', applied', out)
           /\ From(sealed', applied', TagOf(c, out))
           /\ [ctx |-> c, plain |-> B, cipher |-> out] \in sealed'
    <1> DEFINE r == [ctx |-> c, plain |-> B, cipher |-> out]
               v == <<calls, Stream(c)>>
    <1>1. /\ sealed' = sealed \cup {r}
          /\ applied' = applied \cup {v}
          /\ opened' = opened
        BY DEF Seals
    <1>2. IsBytes(B) /\ Len(B) \in Nat
        BY BytesFacts DEF From
    <1>3. MaxLen \in Int
        BY SizesAssumption DEF MaxLen
    <1>4. Grows
        BY <1>1 DEF Grows
    <1>5. v \in applied' /\ v[2] = Stream(c) /\ v[1] = calls
        BY <1>1
    <1>6. From(sealed', applied', out)
        <2> HIDE DEF v
        <2>1. From(sealed', applied', B)
            BY <1>4, Kept
        <2>2. From(sealed', applied', Xored(B, v[2]))
            BY <1>5, <2>1, FromXored
        <2>3. QED
            BY <1>5, <2>2
    <1>7. r \in sealed' /\ r.ctx = c /\ r.plain = B /\ r.cipher = out
        BY <1>1
    <1>8. From(sealed', applied', TagOf(c, out))
        <2> HIDE DEF r
        <2>1. QED
            BY <1>7, FromTag
    <1>9. SealedRight'
        <2>1. Len(B) < MaxLen
            BY <1>2, <1>3 DEF TooLong
        <2>2. QED
            <3> HIDE DEF r
            <3>1. QED
                BY <1>1, <1>2, <1>7, <2>1 DEF History, SealedRight, MaxLen
    <1>10. OpenedWasSealed'
        BY <1>1 DEF History, OpenedWasSealed
    <1>11. calls' \in Nat /\ \A u \in applied' : u[1] \in Nat /\ u[1] < calls'
        BY <1>1 DEF History
    <1>12. MaskedUnlessReused'
        <2> SUFFICES ASSUME NEW s \in sealed',
                            \A u, w \in applied' :
                               u[2] = Stream(s.ctx) /\ w[2] = Stream(s.ctx) => u = w
                     PROVE  /\ Len(s.cipher) = Len(s.plain)
                            /\ \A p \in DOMAIN s.cipher :
                                  KeystreamByte(Stream(s.ctx), p) \in s.cipher[p][2]
            BY DEF MaskedUnlessReused
        <2>1. CASE s \in sealed
            BY <1>1, <2>1 DEF History, MaskedUnlessReused
        <2>2. CASE s = r
            <3> DEFINE st == Stream(c)
            <3>1. s.ctx = c /\ s.plain = B /\ s.cipher = out
                BY <1>7, <2>2
            <3>2. \A u \in applied : u[2] # st
                <4> SUFFICES ASSUME NEW u \in applied, u[2] = st
                             PROVE  FALSE
                    OBVIOUS
                <4>1. u = v
                    <5> HIDE DEF v
                    <5>1. u \in applied'
                        BY <1>1
                    <5>2. QED
                        BY <1>5, <3>1, <5>1
                <4>2. u[1] < calls /\ calls \in Nat
                    BY DEF History
                <4>3. QED
                    BY <1>5, <4>1, <4>2
            <3>3. /\ IsBytes(out) /\ Len(out) = Len(B)
                  /\ \A p \in 1..Len(B) : out[p] = XorByte(B[p], KeystreamByte(st, p))
                BY <1>2, XoredBytes
            <3>4. ASSUME NEW p \in 1..Len(B)
                  PROVE  KeystreamByte(st, p) \in out[p][2]
                <4> DEFINE k == KeystreamByte(st, p)
                <4>1. k[1] = st /\ k # <<"noise">>
                    BY DEF KeystreamByte
                <4>2. k \notin B[p][2]
                    <5> HIDE DEF k, st
                    <5>1. QED
                        BY <3>2, <4>1 DEF From, ByteFrom
                <4>3. out[p][2] = (B[p][2] \ {k}) \cup ({k} \ B[p][2])
                    BY <3>3 DEF XorByte
                <4>4. QED
                    BY <4>2, <4>3
            <3>5. DOMAIN out = 1..Len(B)
                BY <3>3, BytesFacts
            <3>6. QED
                <4> HIDE DEF r
                <4>1. QED
                    BY <3>1, <3>3, <3>4, <3>5
        <2>3. QED
            BY <1>1, <2>1, <2>2
    <1>13. QED
        <2> HIDE DEF r, v
        <2>1. QED
            BY <1>1, <1>4, <1>6, <1>7, <1>8, <1>9, <1>10, <1>11, <1>12 DEF History, r

\* A tag that authenticates a ciphertext was made when that was sealed.
LEMMA AuthenticSealed ==
    ASSUME SealedRight, NEW c, NEW B, NEW t, From(sealed, applied, t), Authentic(c, B, t)
    PROVE  \E s \in sealed :
              /\ Stream(s.ctx) = Stream(c) /\ s.ctx.aad = c.aad
              /\ s.cipher = B /\ s.plain = Xored(B, Stream(c))
    <1> DEFINE T == [stream |-> Stream(c), aad |-> c.aad, over |-> B]
    <1>1. t = TagOf(c, B)
        BY DEF Authentic
    <1>2. 1 \in 1..TagLen
        BY SizesAssumption
    <1>3. Len(t) = TagLen /\ t[1] = << <<"tag", T, 1>>, {} >>
        BY <1>1, <1>2, TagBytes
    <1>4. PICK s \in sealed : T = TagInput(s)
        <2> HIDE DEF T
        <2>1. ByteFrom(sealed, applied, t[1])
            BY <1>2, <1>3 DEF From
        <2>2. QED
            BY <1>3, <2>1 DEF ByteFrom
    <1>5. Stream(s.ctx) = Stream(c) /\ s.ctx.aad = c.aad /\ s.cipher = B
        <2>1. T.stream = Stream(c) /\ T.aad = c.aad /\ T.over = B
            OBVIOUS
        <2>2. /\ TagInput(s).stream = Stream(s.ctx)
              /\ TagInput(s).aad = s.ctx.aad
              /\ TagInput(s).over = s.cipher
            BY DEF TagInput
        <2>3. QED
            <3> HIDE DEF T
            <3>1. QED
                BY <1>4, <2>1, <2>2
    <1>6. IsBytes(s.plain) /\ s.cipher = Xored(s.plain, Stream(s.ctx))
        BY DEF SealedRight
    <1>7. Xored(s.cipher, Stream(s.ctx)) = s.plain
        BY <1>6, XoredTwice
    <1>8. QED
        BY <1>5, <1>7

\* An open, successful or not.
LEMMA OpenStep ==
    ASSUME History, NEW c \in contexts, NEW B, NEW t,
           From(sealed, applied, B), From(sealed, applied, t),
           calls' = calls + 1, contexts' = contexts,
           Opens(c, B, t, Xored(B, Stream(c)))
    PROVE  History' /\ Grows /\ From(sealed', applied', Xored(B, Stream(c)))
    <1> DEFINE v == <<calls, Stream(c)>>
               o == [ctx |-> c, cipher |-> B, plain |-> Xored(B, Stream(c))]
    <1>1. /\ sealed' = sealed
          /\ applied' = applied \cup {v}
          /\ opened' = IF Authentic(c, B, t) THEN opened \cup {o} ELSE opened
        BY DEF Opens
    <1>2. Grows
        BY <1>1 DEF Grows
    <1>3. v \in applied' /\ v[2] = Stream(c) /\ v[1] = calls
        BY <1>1
    <1>4. From(sealed', applied', Xored(B, Stream(c)))
        <2> HIDE DEF v
        <2>1. From(sealed', applied', B)
            BY <1>2, Kept
        <2>2. From(sealed', applied', Xored(B, v[2]))
            BY <1>3, <2>1, FromXored
        <2>3. QED
            BY <1>3, <2>2
    <1>5. SealedRight'
        BY <1>1 DEF History, SealedRight
    <1>6. o.ctx = c /\ o.cipher = B /\ o.plain = Xored(B, Stream(c))
        OBVIOUS
    <1>7. OpenedWasSealed' /\ \A x \in opened' : x.ctx \in contexts'
        <2> HIDE DEF o
        <2>1. CASE ~Authentic(c, B, t)
            BY <1>1, <2>1 DEF History, OpenedWasSealed
        <2>2. CASE Authentic(c, B, t)
            <3>1. \E s \in sealed :
                     /\ Stream(s.ctx) = Stream(o.ctx) /\ s.ctx.aad = o.ctx.aad
                     /\ s.cipher = o.cipher /\ s.plain = o.plain
                BY <1>6, <2>2, AuthenticSealed DEF History
            <3>2. QED
                BY <1>1, <1>6, <2>2, <3>1 DEF History, OpenedWasSealed
        <2>3. QED
            BY <2>1, <2>2
    <1>8. calls' \in Nat /\ \A u \in applied' : u[1] \in Nat /\ u[1] < calls'
        BY <1>1 DEF History
    <1>9. MaskedUnlessReused'
        BY <1>1 DEF History, MaskedUnlessReused
    <1>10. QED
        BY <1>1, <1>2, <1>4, <1>5, <1>7, <1>8, <1>9 DEF History

\* The parts of a wire are good bytes.
LEMMA Parts ==
    ASSUME Buffers, HasTag
    PROVE  /\ From(sealed, applied, Body)
           /\ From(sealed, applied, Trailer) /\ Len(Trailer) = TagLen
           /\ buf = Body \o Trailer
    <1> DEFINE n == Len(buf) - TagLen
    <1>1. IsBytes(buf) /\ Len(buf) >= TagLen
        BY DEF Buffers, From, HasTag
    <1>2. Len(buf) \in Nat
        BY <1>1, BytesFacts
    <1>3. /\ n \in 0..Len(buf) /\ n + 1 \in 1..(Len(buf) + 1)
          /\ Len(SubSeq(buf, n + 1, Len(buf))) = TagLen
          /\ buf = SubSeq(buf, 1, n) \o SubSeq(buf, n + 1, Len(buf))
        BY <1>1, WireParts
    <1>4. 1 \in 1..(Len(buf) + 1) /\ Len(buf) \in 0..Len(buf)
        BY <1>2
    <1>5. /\ From(sealed, applied, SubSeq(buf, 1, n))
          /\ From(sealed, applied, SubSeq(buf, n + 1, Len(buf)))
        <2> HIDE DEF n
        <2>1. QED
            BY <1>3, <1>4, FromSub DEF Buffers
    <1>6. QED
        BY <1>3, <1>5 DEF Body, Trailer

\* A refused call.
LEMMA RefuseStep ==
    ASSUME Inv, NEW op, NEW c, NEW res, res # "BufferError", Refuses(op, c, res)
    PROVE  Inv'
    <1>1. /\ calls' = calls + 1
          /\ UNCHANGED <<contexts, buf, dst, tag, sealed, opened, applied>>
          /\ result'.res = res
        BY DEF Refuses, Returns
    <1>2. History' /\ Grows
        BY <1>1, IdleStep DEF Inv
    <1>3. Buffers'
        BY <1>1 DEF Inv, Buffers
    <1>4. AppendFailed'
        BY <1>1 DEF AppendFailed
    <1>5. QED
        BY <1>2, <1>3, <1>4 DEF Inv

----------------------------------------------------------------------------
(* Every action keeps the invariant.                                        *)

\* What the invariant says of the caller's buffers.
LEMMA InvFacts ==
    ASSUME Inv
    PROVE  /\ History /\ SealedRight
           /\ From(sealed, applied, buf) /\ IsBytes(buf)
           /\ From(sealed, applied, dst) /\ IsBytes(dst)
           /\ From(sealed, applied, tag) /\ IsBytes(tag) /\ Len(tag) = TagLen
           /\ calls \in Nat
    BY DEF Inv, Buffers, History, From

\* A step whose new buffers are good and that reports no failed append.
LEMMA BuffersStep ==
    ASSUME Inv, History', Grows,
           buf' = buf \/ From(sealed', applied', buf'),
           dst' = dst \/ From(sealed', applied', dst'),
           tag' = tag \/ (From(sealed', applied', tag') /\ Len(tag') = TagLen),
           result'.res # "BufferError"
    PROVE  Inv'
    <1>1. /\ From(sealed', applied', buf) /\ From(sealed', applied', dst)
          /\ From(sealed', applied', tag)
        BY InvFacts, Kept
    <1>2. Buffers'
        BY <1>1, InvFacts DEF Buffers
    <1>3. AppendFailed'
        BY DEF AppendFailed
    <1>4. QED
        BY <1>2, <1>3 DEF Inv

LEMMA EncryptInPlaceDetachedStep ==
    ASSUME Inv, NEW c \in contexts, EncryptInPlaceDetached(c)
    PROVE  Inv'
    <1> DEFINE out == Xored(buf, Stream(c))
    <1>1. CASE Refuses("encrypt_in_place_detached", c, "MessageTooLong")
        BY <1>1, RefuseStep
    <1>2. CASE /\ ~TooLong(buf)
               /\ Returns("encrypt_in_place_detached", c, "Ok")
               /\ buf' = out /\ tag' = TagOf(c, buf')
               /\ Seals(c, buf, buf') /\ UNCHANGED dst
        <2>1. /\ calls' = calls + 1 /\ contexts' = contexts
              /\ result'.res # "BufferError"
            BY <1>2 DEF Returns, Verdict
        <2>2. /\ History' /\ Grows
              /\ From(sealed', applied', out) /\ From(sealed', applied', TagOf(c, out))
            BY <1>2, <2>1, InvFacts, SealStep
        <2>3. QED
            BY <1>2, <2>1, <2>2, TagBytes, BuffersStep
    <1>3. QED
        BY <1>1, <1>2 DEF EncryptInPlaceDetached

LEMMA DecryptInPlaceDetachedStep ==
    ASSUME Inv, NEW c \in contexts, DecryptInPlaceDetached(c)
    PROVE  Inv'
    <1> DEFINE out == Xored(buf, Stream(c))
    <1>1. CASE Refuses("decrypt_in_place_detached", c, "MessageTooLong")
        BY <1>1, RefuseStep
    <1>2. CASE /\ Returns("decrypt_in_place_detached", c, Verdict(c, buf, tag))
               /\ buf' = out /\ Opens(c, buf, tag, buf') /\ UNCHANGED <<dst, tag>>
        <2>1. /\ calls' = calls + 1 /\ contexts' = contexts
              /\ result'.res # "BufferError"
            BY <1>2 DEF Returns, Verdict
        <2>2. History' /\ Grows /\ From(sealed', applied', out)
            BY <1>2, <2>1, InvFacts, OpenStep
        <2>3. QED
            BY <1>2, <2>1, <2>2, BuffersStep
    <1>3. QED
        BY <1>1, <1>2 DEF DecryptInPlaceDetached

LEMMA DecryptSplitStep ==
    ASSUME Inv, NEW c \in contexts, DecryptSplit(c)
    PROVE  Inv'
    <1> DEFINE out == Xored(Body, Stream(c))
    <1>1. CASE \/ Refuses("decrypt_split", c, "InvalidLength")
               \/ Refuses("decrypt_split", c, "MessageTooLong")
        BY <1>1, RefuseStep
    <1>2. CASE /\ HasTag
               /\ Returns("decrypt_split", c, Verdict(c, Body, Trailer))
               /\ buf' = out \o Trailer
               /\ Opens(c, Body, Trailer, out) /\ UNCHANGED <<dst, tag>>
        <2>1. /\ calls' = calls + 1 /\ contexts' = contexts
              /\ result'.res # "BufferError"
            BY <1>2 DEF Returns, Verdict
        <2>2. From(sealed, applied, Body) /\ From(sealed, applied, Trailer)
            BY <1>2, Parts DEF Inv
        <2>3. History' /\ Grows /\ From(sealed', applied', out)
            BY <1>2, <2>1, <2>2, InvFacts, OpenStep
        <2>4. From(sealed', applied', buf')
            BY <1>2, <2>2, <2>3, Kept, FromConcat
        <2>5. QED
            BY <1>2, <2>1, <2>3, <2>4, BuffersStep
    <1>3. QED
        BY <1>1, <1>2 DEF DecryptSplit

LEMMA EncryptInPlaceStep ==
    ASSUME Inv, NEW c \in contexts, EncryptInPlace(c)
    PROVE  Inv'
    <1> DEFINE out == Xored(buf, Stream(c))
    <1>1. CASE Refuses("encrypt_in_place", c, "MessageTooLong")
        BY <1>1, RefuseStep
    <1>2. CASE /\ ~TooLong(buf) /\ Seals(c, buf, out)
               /\ Returns("encrypt_in_place", c, "Ok")
               /\ buf' = out \o TagOf(c, out) /\ UNCHANGED <<dst, tag>>
        <2>1. /\ calls' = calls + 1 /\ contexts' = contexts
              /\ result'.res # "BufferError"
            BY <1>2 DEF Returns, Verdict
        <2>2. /\ History' /\ Grows
              /\ From(sealed', applied', out) /\ From(sealed', applied', TagOf(c, out))
            BY <1>2, <2>1, InvFacts, SealStep
        <2>3. From(sealed', applied', buf')
            BY <1>2, <2>2, FromConcat
        <2>4. QED
            BY <1>2, <2>1, <2>2, <2>3, BuffersStep
    <1>3. CASE /\ ~TooLong(buf) /\ Seals(c, buf, out)
               /\ Returns("encrypt_in_place", c, "BufferError")
               /\ buf' = out /\ UNCHANGED <<dst, tag>>
        <2>1. /\ calls' = calls + 1 /\ contexts' = contexts
              /\ result'.res = "BufferError" /\ result'.ctx = c
            BY <1>3 DEF Returns
        <2>2. /\ History' /\ Grows
              /\ From(sealed', applied', out)
              /\ [ctx |-> c, plain |-> buf, cipher |-> out] \in sealed'
            BY <1>3, <2>1, InvFacts, SealStep
        <2>3. From(sealed', applied', dst) /\ From(sealed', applied', tag)
            BY <2>2, InvFacts, Kept
        <2>4. Buffers'
            BY <1>3, <2>2, <2>3, InvFacts DEF Buffers
        <2>5. AppendFailed'
            BY <1>3, <2>1, <2>2 DEF AppendFailed
        <2>6. QED
            BY <2>2, <2>4, <2>5 DEF Inv
    <1>4. QED
        BY <1>1, <1>2, <1>3 DEF EncryptInPlace

LEMMA DecryptInPlaceStep ==
    ASSUME Inv, NEW c \in contexts, DecryptInPlace(c)
    PROVE  Inv'
    <1> DEFINE out == Xored(Body, Stream(c))
    <1>1. CASE \/ Refuses("decrypt_in_place", c, "InvalidLength")
               \/ Refuses("decrypt_in_place", c, "MessageTooLong")
        BY <1>1, RefuseStep
    <1>2. CASE /\ HasTag
               /\ Returns("decrypt_in_place", c, Verdict(c, Body, Trailer))
               /\ Opens(c, Body, Trailer, out)
               /\ buf' = IF Authentic(c, Body, Trailer) THEN out ELSE out \o Trailer
               /\ UNCHANGED <<dst, tag>>
        <2>1. /\ calls' = calls + 1 /\ contexts' = contexts
              /\ result'.res # "BufferError"
            BY <1>2 DEF Returns, Verdict
        <2>2. From(sealed, applied, Body) /\ From(sealed, applied, Trailer)
            BY <1>2, Parts DEF Inv
        <2>3. History' /\ Grows /\ From(sealed', applied', out)
            BY <1>2, <2>1, <2>2, InvFacts, OpenStep
        <2>4. From(sealed', applied', out \o Trailer)
            BY <2>2, <2>3, Kept, FromConcat
        <2>5. From(sealed', applied', buf')
            BY <1>2, <2>3, <2>4
        <2>6. QED
            BY <1>2, <2>1, <2>3, <2>5, BuffersStep
    <1>3. QED
        BY <1>1, <1>2 DEF DecryptInPlace

\* Lengths of the caller's slices.
LEMMA Fits ==
    ASSUME Inv, Len(dst) >= Len(buf)
    PROVE  Len(buf) \in Nat /\ Len(dst) \in Nat /\ Len(buf) <= Len(dst)
    BY InvFacts, BytesFacts

LEMMA EncryptIntoDetachedStep ==
    ASSUME Inv, NEW c \in contexts, EncryptIntoDetached(c)
    PROVE  Inv'
    <1> DEFINE out == Xored(buf, Stream(c))
    <1>1. CASE Refuses("encrypt_into_detached", c, "InvalidLength")
        BY <1>1, RefuseStep
    <1>2. CASE /\ Len(dst) >= Len(buf)
               /\ Returns("encrypt_into_detached", c, "MessageTooLong")
               /\ dst' = Over(buf, dst)
               /\ UNCHANGED <<buf, tag, sealed, opened, applied>>
        <2>1. /\ calls' = calls + 1 /\ contexts' = contexts
              /\ result'.res # "BufferError"
            BY <1>2 DEF Returns, Verdict
        <2>2. History' /\ Grows
            BY <1>2, <2>1, InvFacts, IdleStep
        <2>3. From(sealed, applied, Over(buf, dst))
            BY <1>2, InvFacts, OverBytes, Fits
        <2>4. From(sealed', applied', dst')
            BY <1>2, <2>2, <2>3, Kept
        <2>5. QED
            BY <1>2, <2>1, <2>2, <2>4, BuffersStep
    <1>3. CASE /\ Len(dst) >= Len(buf) /\ ~TooLong(buf)
               /\ Returns("encrypt_into_detached", c, "Ok")
               /\ dst' = Over(out, dst) /\ tag' = TagOf(c, out)
               /\ Seals(c, buf, out) /\ UNCHANGED buf
        <2>1. /\ calls' = calls + 1 /\ contexts' = contexts
              /\ result'.res # "BufferError"
            BY <1>3 DEF Returns, Verdict
        <2>2. /\ History' /\ Grows
              /\ From(sealed', applied', out) /\ From(sealed', applied', TagOf(c, out))
            BY <1>3, <2>1, InvFacts, SealStep
        <2>3. Len(out) <= Len(dst) /\ From(sealed', applied', dst)
            BY <1>3, <2>2, InvFacts, XoredBytes, Kept, Fits
        <2>4. From(sealed', applied', dst')
            BY <1>3, <2>2, <2>3, OverBytes
        <2>5. QED
            BY <1>3, <2>1, <2>2, <2>4, TagBytes, BuffersStep
    <1>4. QED
        BY <1>1, <1>2, <1>3 DEF EncryptIntoDetached

LEMMA DecryptIntoDetachedStep ==
    ASSUME Inv, NEW c \in contexts, DecryptIntoDetached(c)
    PROVE  Inv'
    <1> DEFINE out == Xored(buf, Stream(c))
    <1>1. CASE Refuses("decrypt_into_detached", c, "InvalidLength")
        BY <1>1, RefuseStep
    <1>2. CASE /\ Len(dst) >= Len(buf)
               /\ Returns("decrypt_into_detached", c, "MessageTooLong")
               /\ dst' = Over(buf, dst)
               /\ UNCHANGED <<buf, tag, sealed, opened, applied>>
        <2>1. /\ calls' = calls + 1 /\ contexts' = contexts
              /\ result'.res # "BufferError"
            BY <1>2 DEF Returns, Verdict
        <2>2. History' /\ Grows
            BY <1>2, <2>1, InvFacts, IdleStep
        <2>3. From(sealed, applied, Over(buf, dst))
            BY <1>2, InvFacts, OverBytes, Fits
        <2>4. From(sealed', applied', dst')
            BY <1>2, <2>2, <2>3, Kept
        <2>5. QED
            BY <1>2, <2>1, <2>2, <2>4, BuffersStep
    <1>3. CASE /\ Len(dst) >= Len(buf)
               /\ Returns("decrypt_into_detached", c, Verdict(c, buf, tag))
               /\ dst' = Over(out, dst)
               /\ Opens(c, buf, tag, out) /\ UNCHANGED <<buf, tag>>
        <2>1. /\ calls' = calls + 1 /\ contexts' = contexts
              /\ result'.res # "BufferError"
            BY <1>3 DEF Returns, Verdict
        <2>2. History' /\ Grows /\ From(sealed', applied', out)
            BY <1>3, <2>1, InvFacts, OpenStep
        <2>3. Len(out) <= Len(dst) /\ From(sealed', applied', dst)
            BY <1>3, <2>2, InvFacts, XoredBytes, Kept, Fits
        <2>4. From(sealed', applied', dst')
            BY <1>3, <2>2, <2>3, OverBytes
        <2>5. QED
            BY <1>3, <2>1, <2>2, <2>4, TagBytes, BuffersStep
    <1>4. QED
        BY <1>1, <1>2, <1>3 DEF DecryptIntoDetached

LEMMA EncryptStep ==
    ASSUME Inv, NEW c \in contexts, Encrypt(c)
    PROVE  Inv'
    <1> DEFINE out == Xored(buf, Stream(c))
    <1>1. CASE Refuses("encrypt", c, "MessageTooLong")
        BY <1>1, RefuseStep
    <1>2. CASE /\ ~TooLong(buf)
               /\ Returns("encrypt", c, "Ok")
               /\ dst' = out \o TagOf(c, out)
               /\ Seals(c, buf, out) /\ UNCHANGED <<buf, tag>>
        <2>1. /\ calls' = calls + 1 /\ contexts' = contexts
              /\ result'.res # "BufferError"
            BY <1>2 DEF Returns, Verdict
        <2>2. /\ History' /\ Grows
              /\ From(sealed', applied', out) /\ From(sealed', applied', TagOf(c, out))
            BY <1>2, <2>1, InvFacts, SealStep
        <2>3. From(sealed', applied', dst')
            BY <1>2, <2>2, FromConcat
        <2>4. QED
            BY <1>2, <2>1, <2>2, <2>3, BuffersStep
    <1>3. QED
        BY <1>1, <1>2 DEF Encrypt

LEMMA DecryptStep ==
    ASSUME Inv, NEW c \in contexts, Decrypt(c)
    PROVE  Inv'
    <1> DEFINE out == Xored(Body, Stream(c))
    <1>1. CASE \/ Refuses("decrypt", c, "InvalidLength")
               \/ Refuses("decrypt", c, "MessageTooLong")
        BY <1>1, RefuseStep
    <1>2. CASE /\ HasTag
               /\ Returns("decrypt", c, Verdict(c, Body, Trailer))
               /\ dst' = IF Authentic(c, Body, Trailer) THEN out ELSE dst
               /\ Opens(c, Body, Trailer, out) /\ UNCHANGED <<buf, tag>>
        <2>1. /\ calls' = calls + 1 /\ contexts' = contexts
              /\ result'.res # "BufferError"
            BY <1>2 DEF Returns, Verdict
        <2>2. From(sealed, applied, Body) /\ From(sealed, applied, Trailer)
            BY <1>2, Parts DEF Inv
        <2>3. History' /\ Grows /\ From(sealed', applied', out)
            BY <1>2, <2>1, <2>2, InvFacts, OpenStep
        <2>4. dst' = dst \/ From(sealed', applied', dst')
            BY <1>2, <2>3
        <2>5. QED
            BY <1>2, <2>1, <2>3, <2>4, BuffersStep
    <1>3. QED
        BY <1>1, <1>2 DEF Decrypt

LEMMA EncryptInOutDetachedStep ==
    ASSUME Inv, NEW c \in contexts, EncryptInOutDetached(c)
    PROVE  Inv'
    <1> DEFINE out == Xored(buf, Stream(c))
    <1>1. CASE /\ Returns("encrypt_inout_detached", c, "AeadError")
               /\ dst' = buf
               /\ UNCHANGED <<buf, tag, sealed, opened, applied>>
        <2>1. /\ calls' = calls + 1 /\ contexts' = contexts
              /\ result'.res # "BufferError"
            BY <1>1 DEF Returns, Verdict
        <2>2. History' /\ Grows
            BY <1>1, <2>1, InvFacts, IdleStep
        <2>3. From(sealed', applied', dst')
            BY <1>1, <2>2, InvFacts, Kept
        <2>4. QED
            BY <1>1, <2>1, <2>2, <2>3, BuffersStep
    <1>2. CASE /\ ~TooLong(buf)
               /\ Returns("encrypt_inout_detached", c, "Ok")
               /\ dst' = out /\ tag' = TagOf(c, dst')
               /\ Seals(c, buf, dst') /\ UNCHANGED buf
        <2>1. /\ calls' = calls + 1 /\ contexts' = contexts
              /\ result'.res # "BufferError"
            BY <1>2 DEF Returns, Verdict
        <2>2. /\ History' /\ Grows
              /\ From(sealed', applied', out) /\ From(sealed', applied', TagOf(c, out))
            BY <1>2, <2>1, InvFacts, SealStep
        <2>3. QED
            BY <1>2, <2>1, <2>2, TagBytes, BuffersStep
    <1>3. QED
        BY <1>1, <1>2 DEF EncryptInOutDetached

LEMMA DecryptInOutDetachedStep ==
    ASSUME Inv, NEW c \in contexts, DecryptInOutDetached(c)
    PROVE  Inv'
    <1> DEFINE out == Xored(buf, Stream(c))
    <1>1. CASE /\ Returns("decrypt_inout_detached", c, "AeadError")
               /\ dst' = buf
               /\ UNCHANGED <<buf, tag, sealed, opened, applied>>
        <2>1. /\ calls' = calls + 1 /\ contexts' = contexts
              /\ result'.res # "BufferError"
            BY <1>1 DEF Returns, Verdict
        <2>2. History' /\ Grows
            BY <1>1, <2>1, InvFacts, IdleStep
        <2>3. From(sealed', applied', dst')
            BY <1>1, <2>2, InvFacts, Kept
        <2>4. QED
            BY <1>1, <2>1, <2>2, <2>3, BuffersStep
    <1>2. CASE /\ Returns("decrypt_inout_detached", c,
                          IF Authentic(c, buf, tag) THEN "Ok" ELSE "AeadError")
               /\ dst' = out
               /\ Opens(c, buf, tag, dst') /\ UNCHANGED <<buf, tag>>
        <2>1. /\ calls' = calls + 1 /\ contexts' = contexts
              /\ result'.res # "BufferError"
            BY <1>2 DEF Returns, Verdict
        <2>2. History' /\ Grows /\ From(sealed', applied', out)
            BY <1>2, <2>1, InvFacts, OpenStep
        <2>3. QED
            BY <1>2, <2>1, <2>2, TagBytes, BuffersStep
    <1>3. QED
        BY <1>1, <1>2 DEF DecryptInOutDetached

\* The caller's own steps.
LEMMA MoveStep ==
    ASSUME Inv, SplitTag \/ JoinTag \/ Adopt \/ Damage
    PROVE  Inv'
    <1>1. /\ calls' = calls + 1 /\ UNCHANGED <<contexts, sealed, opened, applied>>
          /\ result'.res # "BufferError"
        BY DEF SplitTag, JoinTag, Adopt, Damage, Moves
    <1>2. History' /\ Grows
        BY <1>1, InvFacts, IdleStep
    <1>3. CASE SplitTag
        <2>1. HasTag /\ buf' = Body /\ tag' = Trailer /\ dst' = dst
            BY <1>3 DEF SplitTag
        <2>2. /\ From(sealed, applied, Body) /\ From(sealed, applied, Trailer)
              /\ Len(Trailer) = TagLen
            BY <2>1, Parts DEF Inv
        <2>3. QED
            BY <1>1, <1>2, <2>1, <2>2, Kept, BuffersStep
    <1>4. CASE JoinTag
        <2>1. buf' = buf \o tag /\ UNCHANGED <<dst, tag>>
            BY <1>4 DEF JoinTag
        <2>2. From(sealed, applied, buf \o tag)
            BY InvFacts, FromConcat
        <2>3. QED
            BY <1>1, <1>2, <2>1, <2>2, Kept, BuffersStep
    <1>5. CASE Adopt
        <2>1. buf' = dst /\ UNCHANGED <<dst, tag>>
            BY <1>5 DEF Adopt
        <2>2. QED
            BY <1>1, <1>2, <2>1, InvFacts, Kept, BuffersStep
    <1>6. CASE Damage
        <2>1. PICK p \in DOMAIN buf : buf' = [buf EXCEPT ![p] = XorByte(@, <<"noise">>)]
            BY <1>6 DEF Damage
        <2>2. p \in 1..Len(buf)
            BY InvFacts, BytesFacts
        <2>3. /\ IsBytes(buf') /\ Len(buf') = Len(buf)
              /\ \A q \in 1..Len(buf) :
                    buf'[q] = IF q = p THEN XorByte(buf[p], <<"noise">>) ELSE buf[q]
            <3> DEFINE E == [buf EXCEPT ![p] = XorByte(@, <<"noise">>)]
            <3>1. /\ IsBytes(E) /\ Len(E) = Len(buf)
                  /\ \A q \in 1..Len(buf) :
                        E[q] = IF q = p THEN XorByte(buf[p], <<"noise">>) ELSE buf[q]
                BY <2>2, InvFacts, ExceptBytes
            <3>2. buf' = E
                BY <2>1
            <3>3. QED
                <4> HIDE DEF E
                <4>1. QED
                    BY <3>1, <3>2
        <2>4. ByteFrom(sealed, applied, XorByte(buf[p], <<"noise">>))
            <3>1. ByteFrom(sealed, applied, buf[p])
                BY <2>2, InvFacts DEF From
            <3>2. QED
                BY <3>1 DEF ByteFrom, XorByte
        <2>5. \A q \in 1..Len(buf) : ByteFrom(sealed, applied, buf'[q])
            BY <2>3, <2>4, InvFacts DEF From
        <2>6. From(sealed, applied, buf')
            BY <2>3, <2>5 DEF From
        <2>7. UNCHANGED <<dst, tag>>
            BY <1>6 DEF Damage
        <2>8. QED
            BY <1>1, <1>2, <2>6, <2>7, Kept, BuffersStep
    <1>7. QED
        BY <1>3, <1>4, <1>5, <1>6

----------------------------------------------------------------------------
(* The theorems.                                                            *)

LEMMA InitInv ==
    ASSUME Init
    PROVE  Inv
    <1>1. PICK n \in Lengths : buf = Fresh("text", n)
        BY DEF Init
    <1>2. PICK m \in Lengths : dst = Fresh("room", m)
        BY DEF Init
    <1>3. n \in Nat /\ m \in Nat /\ TagLen \in Nat
        BY SizesAssumption
    <1>4. Buffers
        BY <1>1, <1>2, <1>3, FromFresh, FreshBytes DEF Init, Buffers
    <1>5. sealed = {} /\ opened = {} /\ applied = {} /\ calls = 0 /\ contexts \in Sessions
        BY DEF Init
    <1>6. History
        BY <1>5 DEF History, SealedRight, OpenedWasSealed, MaskedUnlessReused
    <1>7. AppendFailed
        BY DEF Init, AppendFailed
    <1>8. QED
        BY <1>4, <1>6, <1>7 DEF Inv

LEMMA CallStep ==
    ASSUME Inv, NEW c \in contexts, Call(c)
    PROVE  Inv'
    BY EncryptInPlaceDetachedStep, DecryptInPlaceDetachedStep, DecryptSplitStep,
       EncryptInPlaceStep, DecryptInPlaceStep, EncryptIntoDetachedStep,
       DecryptIntoDetachedStep, EncryptStep, DecryptStep,
       EncryptInOutDetachedStep, DecryptInOutDetachedStep DEF Call

LEMMA NextInv ==
    ASSUME Inv, [Next]_vars
    PROVE  Inv'
    <1>1. CASE UNCHANGED vars
        <2>1. Buffers'
            BY <1>1 DEF vars, Inv, Buffers
        <2>2. History'
            BY <1>1 DEF vars, Inv, History, SealedRight, OpenedWasSealed, MaskedUnlessReused
        <2>3. AppendFailed'
            BY <1>1 DEF vars, Inv, AppendFailed
        <2>4. QED
            BY <2>1, <2>2, <2>3 DEF Inv
    <1>2. CASE \E c \in contexts : Call(c)
        BY <1>2, CallStep
    <1>3. CASE SplitTag \/ JoinTag \/ Adopt \/ Damage
        BY <1>3, MoveStep
    <1>4. QED
        BY <1>1, <1>2, <1>3 DEF Next

\* The invariant holds throughout.
THEOREM Invariance == Spec => []Inv
    <1>1. Init => Inv
        BY InitInv
    <1>2. Inv /\ [Next]_vars => Inv'
        BY NextInv
    <1>3. QED
        BY <1>1, <1>2, PTL DEF Spec

\* A call that reports success has handed out the plaintext of a message sealed
\* under the same key, nonce and AAD, after any sequence of calls.
THEOREM OpenedWasSealedHolds == Spec => []OpenedWasSealed
    <1>1. Inv => OpenedWasSealed
        BY DEF Inv, History
    <1>2. QED
        BY <1>1, Invariance, PTL

\* A ciphertext whose nonce was used for no other call is masked byte for byte.
THEOREM MaskedHolds == Spec => []MaskedUnlessReused
    <1>1. Inv => MaskedUnlessReused
        BY DEF Inv, History
    <1>2. QED
        BY <1>1, Invariance, PTL

----------------------------------------------------------------------------
(* What a step may do.                                                      *)

\* A call says what it was.
LEMMA CallsNamed ==
    ASSUME NEW c, Call(c)
    PROVE  /\ calls' = calls + 1 /\ result'.ctx = c /\ contexts' = contexts
           /\ \/ EncryptInPlaceDetached(c) /\ result'.op = "encrypt_in_place_detached"
              \/ DecryptInPlaceDetached(c) /\ result'.op = "decrypt_in_place_detached"
              \/ DecryptSplit(c) /\ result'.op = "decrypt_split"
              \/ EncryptInPlace(c) /\ result'.op = "encrypt_in_place"
              \/ DecryptInPlace(c) /\ result'.op = "decrypt_in_place"
              \/ EncryptIntoDetached(c) /\ result'.op = "encrypt_into_detached"
              \/ DecryptIntoDetached(c) /\ result'.op = "decrypt_into_detached"
              \/ Encrypt(c) /\ result'.op = "encrypt"
              \/ Decrypt(c) /\ result'.op = "decrypt"
              \/ EncryptInOutDetached(c) /\ result'.op = "encrypt_inout_detached"
              \/ DecryptInOutDetached(c) /\ result'.op = "decrypt_inout_detached"
    <1>1. ASSUME NEW op, NEW res, Returns(op, c, res)
          PROVE  calls' = calls + 1 /\ result'.ctx = c /\ contexts' = contexts /\ result'.op = op
        BY <1>1 DEF Returns
    <1>2. ASSUME NEW op, NEW res, Refuses(op, c, res)
          PROVE  calls' = calls + 1 /\ result'.ctx = c /\ contexts' = contexts /\ result'.op = op
        BY <1>1, <1>2 DEF Refuses
    <1>3. CASE EncryptInPlaceDetached(c)
        BY <1>1, <1>2, <1>3 DEF EncryptInPlaceDetached
    <1>4. CASE DecryptInPlaceDetached(c)
        BY <1>1, <1>2, <1>4 DEF DecryptInPlaceDetached
    <1>5. CASE DecryptSplit(c)
        BY <1>1, <1>2, <1>5 DEF DecryptSplit
    <1>6. CASE EncryptInPlace(c)
        BY <1>1, <1>2, <1>6 DEF EncryptInPlace
    <1>7. CASE DecryptInPlace(c)
        BY <1>1, <1>2, <1>7 DEF DecryptInPlace
    <1>8. CASE EncryptIntoDetached(c)
        BY <1>1, <1>2, <1>8 DEF EncryptIntoDetached
    <1>9. CASE DecryptIntoDetached(c)
        BY <1>1, <1>2, <1>9 DEF DecryptIntoDetached
    <1>10. CASE Encrypt(c)
        BY <1>1, <1>2, <1>10 DEF Encrypt
    <1>11. CASE Decrypt(c)
        BY <1>1, <1>2, <1>11 DEF Decrypt
    <1>12. CASE EncryptInOutDetached(c)
        BY <1>1, <1>2, <1>12 DEF EncryptInOutDetached
    <1>13. CASE DecryptInOutDetached(c)
        BY <1>1, <1>2, <1>13 DEF DecryptInOutDetached
    <1>14. QED
        BY <1>3, <1>4, <1>5, <1>6, <1>7, <1>8, <1>9, <1>10, <1>11, <1>12, <1>13 DEF Call

\* A step that is no call has a name of its own.
LEMMA MovesNamed ==
    ASSUME SplitTag \/ JoinTag \/ Adopt \/ Damage
    PROVE  result'.op \in {"split_tag", "join", "adopt", "damage"}
    BY DEF SplitTag, JoinTag, Adopt, Damage, Moves

\* A step whose operation is one of the API's is a call.
LEMMA StepIsCall ==
    ASSUME [Next]_vars, calls' # calls, result'.op \in InPlaceOps \cup IntoOps \cup WireOpens
    PROVE  \E c \in contexts : Call(c)
    BY MovesNamed DEF Next, vars, InPlaceOps, IntoOps, WireOpens

\* The parts of two sequences put together.
LEMMA CutBytes ==
    ASSUME NEW A, NEW B, IsBytes(A), IsBytes(B)
    PROVE  /\ SubSeq(A \o B, 1, Len(A)) = A
           /\ SubSeq(A \o B, Len(A) + 1, Len(A) + Len(B)) = B
    <1> DEFINE W == A \o B
               H == SubSeq(W, 1, Len(A))
               T == SubSeq(W, Len(A) + 1, Len(A) + Len(B))
               i == Len(A) + 1
               n == Len(A) + Len(B)
    <1>1. Len(A) \in Nat /\ Len(B) \in Nat
        BY BytesFacts
    <1>2. /\ IsBytes(W) /\ Len(W) = n
          /\ \A p \in 1..Len(A) : W[p] = A[p]
          /\ \A p \in 1..Len(B) : W[Len(A) + p] = B[p]
        BY ConcatBytes
    <1>3. /\ 1 \in 1..(Len(W) + 1) /\ Len(A) \in 0..Len(W)
          /\ i \in 1..(Len(W) + 1) /\ n \in 0..Len(W)
        BY <1>1, <1>2
    <1>4. /\ IsBytes(H) /\ Len(H) = IF 1 <= Len(A) THEN Len(A) - 1 + 1 ELSE 0
          /\ \A p \in 1..(Len(A) - 1 + 1) : H[p] = W[1 + p - 1]
        <2> HIDE DEF W
        <2>1. QED
            BY <1>2, <1>3, SubBytes
    <1>5. /\ IsBytes(T) /\ Len(T) = IF i <= n THEN n - i + 1 ELSE 0
          /\ \A p \in 1..(n - i + 1) : T[p] = W[i + p - 1]
        <2> HIDE DEF W, i, n
        <2>1. QED
            BY <1>2, <1>3, SubBytes DEF i, n
    <1>6. Len(H) = Len(A) /\ \A p \in 1..Len(A) : H[p] = A[p]
        <2> HIDE DEF W, H, T
        <2>1. QED
            BY <1>1, <1>2, <1>4
    <1>7. Len(T) = Len(B) /\ \A p \in 1..Len(B) : T[p] = B[p]
        <2> HIDE DEF W, H, T
        <2>1. Len(T) = Len(B)
            BY <1>1, <1>5
        <2>2. ASSUME NEW p \in 1..Len(B)
              PROVE  T[p] = B[p]
            <3>1. p \in 1..(n - i + 1) /\ i + p - 1 = Len(A) + p
                BY <1>1
            <3>2. QED
                BY <1>2, <1>5, <3>1
        <2>3. QED
            BY <2>1, <2>2
    <1>8. H = A /\ T = B
        <2> HIDE DEF W, H, T
        <2>1. QED
            BY <1>4, <1>5, <1>6, <1>7, BytesEqual
    <1>9. QED
        BY <1>8

\* After a failed append the same call again gives the plaintext back.
THEOREM RetryUndoesSealHolds == Spec => RetryUndoesSeal
    <1>1. ASSUME Inv, [Next]_vars, calls' # calls,
                 result.res = "BufferError",
                 result'.op = "encrypt_in_place", result'.res # "MessageTooLong",
                 result'.ctx = result.ctx
          PROVE  \E s \in sealed :
                    /\ s.ctx = result.ctx
                    /\ s.cipher = buf
                    /\ SubSeq(buf', 1, Len(buf)) = s.plain
        <2>1. PICK c \in contexts : Call(c)
            BY <1>1, StepIsCall DEF InPlaceOps
        <2>2. EncryptInPlace(c) /\ result'.ctx = c
            BY <1>1, <2>1, CallsNamed
        <2>3. PICK s \in sealed : s.ctx = result.ctx /\ s.cipher = buf
            BY <1>1 DEF Inv, AppendFailed
        <2> DEFINE out == Xored(buf, Stream(c))
        <2>4. out = s.plain /\ IsBytes(s.plain) /\ Len(buf) = Len(s.plain)
            <3>1. IsBytes(s.plain) /\ s.cipher = Xored(s.plain, Stream(c))
                BY <1>1, <2>2, <2>3, InvFacts DEF SealedRight
            <3>2. QED
                BY <2>3, <3>1, XoredTwice, XoredBytes
        <2>5. buf' = out \o TagOf(c, out) \/ buf' = out
            <3>1. ~Refuses("encrypt_in_place", c, "MessageTooLong")
                BY <1>1 DEF Refuses, Returns
            <3>2. QED
                BY <2>2, <3>1 DEF EncryptInPlace
        <2>6. SubSeq(buf', 1, Len(buf)) = s.plain
            <3>1. IsBytes(TagOf(c, out))
                BY TagBytes
            <3>2. CASE buf' = out \o TagOf(c, out)
                <4> HIDE DEF out
                <4>1. IsBytes(out) /\ Len(out) = Len(buf)
                    BY <2>4
                <4>2. SubSeq(out \o TagOf(c, out), 1, Len(out)) = out
                    BY <3>1, <4>1, CutBytes
                <4>3. QED
                    BY <2>4, <3>2, <4>1, <4>2
            <3>3. CASE buf' = out
                <4>1. Len(s.plain) \in Nat /\ SubSeq(s.plain, 1, Len(s.plain)) = s.plain
                    BY <2>4, SubSeqFull DEF IsBytes
                <4>2. QED
                    BY <2>4, <3>3, <4>1
            <3>4. QED
                BY <2>5, <3>2, <3>3
        <2>7. QED
            BY <2>3, <2>6
    <1>2. Inv /\ [Next]_vars =>
            [/\ calls' # calls
             /\ result.res = "BufferError"
             /\ result'.op = "encrypt_in_place" /\ result'.res # "MessageTooLong"
             /\ result'.ctx = result.ctx
             => \E s \in sealed :
                   /\ s.ctx = result.ctx
                   /\ s.cipher = buf
                   /\ SubSeq(buf', 1, Len(buf)) = s.plain]_vars
        BY <1>1
    <1>3. QED
        BY <1>2, Invariance, PTL DEF Spec, RetryUndoesSeal

----------------------------------------------------------------------------

\* Where a call in place may take bytes off the buffer.
LEMMA DropsTag ==
    ASSUME Inv, NEW c \in contexts, Call(c), result'.op \in InPlaceOps, Len(buf') < Len(buf)
    PROVE  \E s \in sealed :
              /\ buf = s.cipher \o TagOf(s.ctx, s.cipher)
              /\ buf' = s.plain
    <1>1. /\ IsBytes(buf) /\ Len(buf) \in Nat
          /\ \A s : IsBytes(Xored(buf, s)) /\ Len(Xored(buf, s)) = Len(buf)
        BY InvFacts, BytesFacts, XoredBytes
    <1>2. ASSUME NEW op, NEW res, Refuses(op, c, res)
          PROVE  FALSE
        BY <1>1, <1>2 DEF Refuses
    <1>3. ASSUME HasTag
          PROVE  /\ Len(Xored(Body, Stream(c)) \o Trailer) = Len(buf)
                 /\ buf = Body \o Trailer
        <2>1. /\ IsBytes(Body) /\ IsBytes(Trailer) /\ buf = Body \o Trailer
            BY <1>3, Parts DEF Inv, From
        <2>2. IsBytes(Xored(Body, Stream(c))) /\ Len(Xored(Body, Stream(c))) = Len(Body)
            BY <2>1, XoredBytes
        <2>3. /\ Len(Xored(Body, Stream(c)) \o Trailer)
                    = Len(Xored(Body, Stream(c))) + Len(Trailer)
              /\ Len(Body \o Trailer) = Len(Body) + Len(Trailer)
            BY <2>1, <2>2, ConcatBytes
        <2>4. QED
            BY <2>1, <2>2, <2>3
    <1>4. ASSUME EncryptInPlaceDetached(c) \/ DecryptInPlaceDetached(c)
          PROVE  FALSE
        BY <1>1, <1>2, <1>4 DEF EncryptInPlaceDetached, DecryptInPlaceDetached
    <1>5. ASSUME DecryptSplit(c)
          PROVE  FALSE
        BY <1>1, <1>2, <1>3, <1>5 DEF DecryptSplit
    <1>6. ASSUME EncryptInPlace(c)
          PROVE  FALSE
        <2> DEFINE out == Xored(buf, Stream(c))
        <2>1. buf' = out \o TagOf(c, out) \/ buf' = out
            BY <1>2, <1>6 DEF EncryptInPlace
        <2>2. IsBytes(out) /\ Len(out) = Len(buf)
            BY <1>1
        <2>3. IsBytes(TagOf(c, out)) /\ Len(TagOf(c, out)) = TagLen
            BY TagBytes
        <2>4. Len(out \o TagOf(c, out)) = Len(buf) + TagLen
            <3> HIDE DEF out
            <3>1. QED
                BY <2>2, <2>3, ConcatBytes
        <2>5. QED
            BY <1>1, <2>1, <2>2, <2>4, SizesAssumption
    <1>7. CASE DecryptInPlace(c)
        <2> DEFINE out == Xored(Body, Stream(c))
        <2>1. /\ HasTag
              /\ buf' = IF Authentic(c, Body, Trailer) THEN out ELSE out \o Trailer
            BY <1>2, <1>7 DEF DecryptInPlace
        <2>2. Authentic(c, Body, Trailer)
            BY <1>1, <1>3, <2>1
        <2>3. From(sealed, applied, Trailer)
            BY <2>1, Parts DEF Inv
        <2>4. PICK s \in sealed :
                 /\ Stream(s.ctx) = Stream(c) /\ s.ctx.aad = c.aad
                 /\ s.cipher = Body /\ s.plain = out
            BY <2>2, <2>3, InvFacts, AuthenticSealed
        <2>5. TagOf(s.ctx, s.cipher) = Trailer
            BY <2>2, <2>4 DEF Authentic, TagOf
        <2>6. QED
            BY <1>3, <2>1, <2>2, <2>4, <2>5
    <1>8. QED
        BY <1>4, <1>5, <1>6, <1>7, CallsNamed DEF InPlaceOps

\* The only bytes a call takes off a buffer are those of a tag that
\* authenticated what is left.
THEOREM OnlyTagsDroppedHolds == Spec => OnlyTagsDropped
    <1>1. Inv /\ [Next]_vars =>
            [/\ calls' # calls
             /\ result'.op \in InPlaceOps
             /\ Len(buf') < Len(buf)
             => \E s \in sealed :
                   /\ buf = s.cipher \o TagOf(s.ctx, s.cipher)
                   /\ buf' = s.plain]_vars
        BY StepIsCall, DropsTag
    <1>2. QED
        BY <1>1, Invariance, PTL DEF Spec, OnlyTagsDropped

\* What a call leaves alone.
LEMMA Footprint ==
    ASSUME Inv, NEW c \in contexts, Call(c)
    PROVE  /\ result'.op \in IntoOps =>
                 /\ buf' = buf
                 /\ Len(dst') = Len(dst)
                 /\ \A p \in DOMAIN dst : p > Len(buf) => dst'[p] = dst[p]
           /\ result'.op \in InPlaceOps => dst' = dst
    <1>1. /\ From(sealed, applied, buf) /\ From(sealed, applied, dst)
          /\ IsBytes(buf) /\ IsBytes(dst)
          /\ Len(buf) \in Nat /\ Len(dst) \in Nat /\ DOMAIN dst = 1..Len(dst)
        BY InvFacts, BytesFacts
    <1>2. ASSUME NEW op, NEW res, Refuses(op, c, res)
          PROVE  buf' = buf /\ dst' = dst
        BY <1>2 DEF Refuses
    <1>3. ASSUME Len(dst) >= Len(buf)
          PROVE  /\ Len(Over(buf, dst)) = Len(dst)
                 /\ \A p \in 1..Len(dst) : p > Len(buf) => Over(buf, dst)[p] = dst[p]
        <2>1. Len(buf) <= Len(dst)
            BY <1>1, <1>3
        <2>2. QED
            BY <1>1, <2>1, OverKeeps
    <1>4. ASSUME Len(dst) >= Len(buf)
          PROVE  LET d == Over(Xored(buf, Stream(c)), dst) IN
                 /\ Len(d) = Len(dst)
                 /\ \A p \in 1..Len(dst) : p > Len(buf) => d[p] = dst[p]
        <2> DEFINE out == Xored(buf, Stream(c))
        <2>1. IsBytes(out) /\ Len(out) = Len(buf)
            BY <1>1, XoredBytes
        <2>2. Len(out) <= Len(dst)
            BY <1>1, <1>4, <2>1
        <2>3. /\ Len(Over(out, dst)) = Len(dst)
              /\ \A p \in 1..Len(dst) : p > Len(out) => Over(out, dst)[p] = dst[p]
            <3> HIDE DEF out
            <3>1. QED
                BY <1>1, <2>1, <2>2, OverKeeps
        <2>4. QED
            BY <2>1, <2>3
    <1>5. CASE EncryptIntoDetached(c) /\ result'.op = "encrypt_into_detached"
        BY <1>1, <1>2, <1>3, <1>4, <1>5 DEF EncryptIntoDetached, InPlaceOps
    <1>6. CASE DecryptIntoDetached(c) /\ result'.op = "decrypt_into_detached"
        BY <1>1, <1>2, <1>3, <1>4, <1>6 DEF DecryptIntoDetached, InPlaceOps
    <1>7. CASE EncryptInOutDetached(c) /\ result'.op = "encrypt_inout_detached"
        <2>1. /\ Len(dst) = Len(buf) /\ buf' = buf
              /\ dst' = buf \/ dst' = Xored(buf, Stream(c))
            BY <1>7 DEF EncryptInOutDetached
        <2>2. Len(dst') = Len(dst)
            BY <1>1, <2>1, XoredBytes
        <2>3. QED
            BY <1>1, <1>7, <2>1, <2>2 DEF InPlaceOps
    <1>8. CASE DecryptInOutDetached(c) /\ result'.op = "decrypt_inout_detached"
        <2>1. /\ Len(dst) = Len(buf) /\ buf' = buf
              /\ dst' = buf \/ dst' = Xored(buf, Stream(c))
            BY <1>8 DEF DecryptInOutDetached
        <2>2. Len(dst') = Len(dst)
            BY <1>1, <2>1, XoredBytes
        <2>3. QED
            BY <1>1, <1>8, <2>1, <2>2 DEF InPlaceOps
    <1>9. CASE result'.op \in InPlaceOps
        <2>1. dst' = dst
            <3>1. CASE EncryptInPlaceDetached(c)
                BY <1>2, <3>1 DEF EncryptInPlaceDetached
            <3>2. CASE DecryptInPlaceDetached(c)
                BY <1>2, <3>2 DEF DecryptInPlaceDetached
            <3>3. CASE DecryptSplit(c)
                BY <1>2, <3>3 DEF DecryptSplit
            <3>4. CASE EncryptInPlace(c)
                BY <1>2, <3>4 DEF EncryptInPlace
            <3>5. CASE DecryptInPlace(c)
                BY <1>2, <3>5 DEF DecryptInPlace
            <3>6. QED
                BY <1>9, <3>1, <3>2, <3>3, <3>4, <3>5, CallsNamed DEF InPlaceOps
        <2>2. QED
            BY <1>9, <2>1 DEF InPlaceOps, IntoOps
    <1>10. QED
        BY <1>5, <1>6, <1>7, <1>8, <1>9, CallsNamed DEF InPlaceOps, IntoOps

\* A call out of place never writes its source nor the headroom of its output,
\* and a call in place leaves the output slice alone.
THEOREM InsideFootprintHolds == Spec => InsideFootprint
    <1>1. Inv /\ [Next]_vars =>
            [calls' # calls =>
               /\ result'.op \in IntoOps =>
                     /\ buf' = buf
                     /\ Len(dst') = Len(dst)
                     /\ \A p \in DOMAIN dst : p > Len(buf) => dst'[p] = dst[p]
               /\ result'.op \in InPlaceOps => dst' = dst]_vars
        BY StepIsCall, Footprint
    <1>2. QED
        BY <1>1, Invariance, PTL DEF Spec, InsideFootprint

\* What is known of a message that was sealed.
LEMMA SealedFacts ==
    ASSUME Inv, NEW s \in sealed
    PROVE  LET T == TagOf(s.ctx, s.cipher) IN
           /\ IsBytes(s.plain) /\ Len(s.plain) \in Nat
           /\ IsBytes(s.cipher) /\ Len(s.cipher) = Len(s.plain)
           /\ ~TooLong(s.cipher)
           /\ Xored(s.cipher, Stream(s.ctx)) = s.plain
           /\ SubSeq(s.plain, 1, Len(s.plain)) = s.plain
           /\ IsBytes(T) /\ Len(T) = TagLen /\ TagLen \in Nat
    <1>1. /\ IsBytes(s.plain) /\ Len(s.plain) < MaxLen
          /\ s.cipher = Xored(s.plain, Stream(s.ctx))
        BY InvFacts DEF SealedRight
    <1>2. /\ IsBytes(s.cipher) /\ Len(s.cipher) = Len(s.plain)
          /\ Len(s.plain) \in Nat
        BY <1>1, XoredBytes, BytesFacts
    <1>3. ~TooLong(s.cipher)
        BY <1>1, <1>2, SizesAssumption DEF TooLong, MaxLen
    <1>4. Xored(s.cipher, Stream(s.ctx)) = s.plain
        BY <1>1, XoredTwice
    <1>5. SubSeq(s.plain, 1, Len(s.plain)) = s.plain
        BY <1>1, SubSeqFull DEF IsBytes
    <1>6. /\ IsBytes(TagOf(s.ctx, s.cipher)) /\ Len(TagOf(s.ctx, s.cipher)) = TagLen
          /\ TagLen \in Nat
        BY TagBytes, SizesAssumption
    <1>7. QED
        BY <1>1, <1>2, <1>3, <1>4, <1>5, <1>6

\* A call that opens what was sealed under the same context.
LEMMA OpensSeal ==
    ASSUME Inv, NEW c \in contexts, Call(c), NEW s \in sealed,
           s.ctx = c,
           result'.op \in DetachedOpens \cup WireOpens,
           IF result'.op \in WireOpens
           THEN buf = s.cipher \o TagOf(s.ctx, s.cipher)
           ELSE buf = s.cipher /\ tag = TagOf(s.ctx, s.cipher),
           result'.op = "decrypt_into_detached" => Len(dst) >= Len(buf)
    PROVE  /\ result'.res = "Ok"
           /\ SubSeq(Delivered, 1, Len(s.plain)) = s.plain
    <1> DEFINE P == s.plain
               C == s.cipher
               T == TagOf(c, C)
               k == Stream(c)
    <1>1. /\ IsBytes(P) /\ Len(P) \in Nat
          /\ IsBytes(C) /\ Len(C) = Len(P)
          /\ ~TooLong(C) /\ Xored(C, k) = P
          /\ SubSeq(P, 1, Len(P)) = P
          /\ IsBytes(T) /\ Len(T) = TagLen /\ TagLen \in Nat
          /\ Authentic(c, C, T)
        BY SealedFacts DEF Authentic
    <1>2. ASSUME buf = C \o T
          PROVE  HasTag /\ Body = C /\ Trailer = T
        <2>1. Len(buf) = Len(C) + TagLen
            BY <1>1, <1>2, ConcatBytes
        <2>2. HasTag /\ Len(buf) - TagLen = Len(C)
            BY <1>1, <2>1 DEF HasTag
        <2>3. /\ SubSeq(buf, 1, Len(C)) = C
              /\ SubSeq(buf, Len(C) + 1, Len(C) + Len(T)) = T
            <3> HIDE DEF C, T
            <3>1. QED
                BY <1>1, <1>2, CutBytes
        <2>4. QED
            BY <1>1, <2>1, <2>2, <2>3 DEF Body, Trailer
    <1>3. ASSUME NEW R, IsBytes(R)
          PROVE  SubSeq(P \o R, 1, Len(P)) = P
        BY <1>1, <1>3, CutBytes
    <1>4. ASSUME NEW op, NEW res, Returns(op, c, res)
          PROVE  result'.op = op /\ result'.res = res
        BY <1>4 DEF Returns
    <1> HIDE DEF P, C, T, k
    <1>5. CASE DecryptInPlaceDetached(c) /\ result'.op = "decrypt_in_place_detached"
        <2>1. buf = C /\ tag = T
            BY <1>5 DEF WireOpens, C, T
        <2>2. result'.res = "Ok" /\ buf' = P
            BY <1>1, <1>4, <1>5, <2>1 DEF DecryptInPlaceDetached, Verdict, k
        <2>3. QED
            BY <1>1, <1>5, <2>2 DEF Delivered, InPlaceOps, P
    <1>6. CASE DecryptIntoDetached(c) /\ result'.op = "decrypt_into_detached"
        <2>1. buf = C /\ tag = T /\ Len(dst) >= Len(buf)
            BY <1>6 DEF WireOpens, C, T
        <2>2. Len(dst) \in Nat
            BY InvFacts, BytesFacts
        <2>3. result'.res = "Ok" /\ dst' = Over(P, dst)
            BY <1>1, <1>4, <1>6, <2>1, <2>2 DEF DecryptIntoDetached, Verdict, k
        <2>4. IsBytes(SubSeq(dst, Len(P) + 1, Len(dst)))
            <3>1. Len(P) + 1 \in 1..(Len(dst) + 1) /\ Len(dst) \in 0..Len(dst)
                BY <1>1, <2>1, <2>2
            <3>2. QED
                BY <3>1, InvFacts, SubBytes
        <2>5. SubSeq(dst', 1, Len(P)) = P
            BY <1>3, <2>3, <2>4 DEF Over
        <2>6. QED
            BY <1>6, <2>3, <2>5 DEF Delivered, InPlaceOps, P
    <1>7. CASE DecryptInOutDetached(c) /\ result'.op = "decrypt_inout_detached"
        <2>1. buf = C /\ tag = T
            BY <1>7 DEF WireOpens, C, T
        <2>2. result'.res = "Ok" /\ dst' = P
            BY <1>1, <1>4, <1>7, <2>1 DEF DecryptInOutDetached, k
        <2>3. QED
            BY <1>1, <1>7, <2>2 DEF Delivered, InPlaceOps, P
    <1>8. CASE DecryptSplit(c) /\ result'.op = "decrypt_split"
        <2>1. HasTag /\ Body = C /\ Trailer = T
            BY <1>2, <1>8 DEF WireOpens, C, T
        <2>2. result'.res = "Ok" /\ buf' = P \o T
            BY <1>1, <1>4, <1>8, <2>1 DEF DecryptSplit, Verdict, k
        <2>3. SubSeq(buf', 1, Len(P)) = P
            BY <1>1, <1>3, <2>2
        <2>4. QED
            BY <1>8, <2>2, <2>3 DEF Delivered, InPlaceOps, P
    <1>9. CASE DecryptInPlace(c) /\ result'.op = "decrypt_in_place"
        <2>1. HasTag /\ Body = C /\ Trailer = T
            BY <1>2, <1>9 DEF WireOpens, C, T
        <2>2. result'.res = "Ok" /\ buf' = P
            BY <1>1, <1>4, <1>9, <2>1 DEF DecryptInPlace, Verdict, k
        <2>3. QED
            BY <1>1, <1>9, <2>2 DEF Delivered, InPlaceOps, P
    <1>10. CASE Decrypt(c) /\ result'.op = "decrypt"
        <2>1. HasTag /\ Body = C /\ Trailer = T
            BY <1>2, <1>10 DEF WireOpens, C, T
        <2>2. result'.res = "Ok" /\ dst' = P
            BY <1>1, <1>4, <1>10, <2>1 DEF Decrypt, Verdict, k
        <2>3. QED
            BY <1>1, <1>10, <2>2 DEF Delivered, InPlaceOps, P
    <1>11. QED
        BY <1>5, <1>6, <1>7, <1>8, <1>9, <1>10, CallsNamed DEF DetachedOpens, WireOpens

\* A message sealed by any entry point opens with any other that takes its
\* layout, and gives the plaintext back.
THEOREM SealedOpensHolds == Spec => SealedOpens
    <1>1. ASSUME Inv, [Next]_vars, NEW s \in sealed,
                 /\ calls' # calls
                 /\ result'.op \in DetachedOpens \cup WireOpens
                 /\ result'.ctx = s.ctx
                 /\ IF result'.op \in WireOpens
                    THEN buf = s.cipher \o TagOf(s.ctx, s.cipher)
                    ELSE buf = s.cipher /\ tag = TagOf(s.ctx, s.cipher)
                 /\ result'.op = "decrypt_into_detached" => Len(dst) >= Len(buf)
          PROVE  /\ result'.res = "Ok"
                 /\ SubSeq(Delivered, 1, Len(s.plain)) = s.plain
        <2>1. PICK c \in contexts : Call(c)
            BY <1>1, StepIsCall DEF DetachedOpens, WireOpens, InPlaceOps, IntoOps
        <2>2. s.ctx = c
            BY <1>1, <2>1, CallsNamed
        <2>3. QED
            BY <1>1, <2>1, <2>2, OpensSeal
    <1>2. Inv /\ [Next]_vars =>
            [\A s \in sealed :
                /\ calls' # calls
                /\ result'.op \in DetachedOpens \cup WireOpens
                /\ result'.ctx = s.ctx
                /\ IF result'.op \in WireOpens
                   THEN buf = s.cipher \o TagOf(s.ctx, s.cipher)
                   ELSE buf = s.cipher /\ tag = TagOf(s.ctx, s.cipher)
                /\ result'.op = "decrypt_into_detached" => Len(dst) >= Len(buf)
                => /\ result'.res = "Ok"
                   /\ SubSeq(Delivered, 1, Len(s.plain)) = s.plain]_vars
        BY <1>1
    <1>3. QED
        BY <1>2, Invariance, PTL DEF Spec, SealedOpens

\* A number is made up again of its quotient and its remainder.
LEMMA QuotientRemainder ==
    ASSUME NEW a \in Nat, NEW b \in Nat, b > 0
    PROVE  /\ a \div b \in Nat /\ a % b \in 0..(b - 1)
           /\ a = b * (a \div b) + (a % b)
    <1>1. a = b * (a \div b) + (a % b)
        OBVIOUS
    <1>2. a \div b \in Nat /\ a % b \in 0..(b - 1)
        OBVIOUS
    <1>3. QED
        BY <1>1, <1>2

\* The blocks of a message that is not too long are numbered from 1, below the
\* counter's modulus.
LEMMA CounterInRange ==
    ASSUME NEW p \in Nat \ {0}, p <= MaxLen
    PROVE  CounterAt(p) = 1 + (p - 1) \div Block /\ CounterAt(p) # 0
    <1> DEFINE q == (p - 1) \div Block
               r == (p - 1) % Block
               m == CtrMod - 1
    <1>1. Block \in Nat \ {0} /\ CtrMod \in Nat \ {0} /\ m \in Nat /\ p - 1 \in Nat
        BY SizesAssumption
    <1>2. q \in Nat /\ r \in 0..(Block - 1) /\ p - 1 = Block * q + r
        <2>1. Block > 0
            BY <1>1
        <2>2. QED
            BY <1>1, <2>1, QuotientRemainder
    <1>3. p - 1 < m * Block
        BY <1>1 DEF MaxLen
    <1>4. q < m
        <2> HIDE DEF q, r, m
        <2>1. SUFFICES ASSUME q >= m
                       PROVE  FALSE
            BY <1>1, <1>2
        <2>2. PICK d \in Nat : q = m + d
            <3>1. q - m \in Nat /\ q = m + (q - m)
                BY <1>1, <1>2, <2>1
            <3>2. QED
                BY <3>1
        <2>3. Block * q = m * Block + Block * d /\ Block * d \in Nat
            BY <1>1, <2>2
        <2>4. m * Block \in Nat /\ Block * q \in Nat
            BY <1>1, <1>2
        <2>5. QED
            BY <1>1, <1>2, <1>3, <2>3, <2>4
    <1>5. 1 + q \in 1..(CtrMod - 1)
        BY <1>1, <1>2, <1>4
    <1>6. (1 + q) % CtrMod = 1 + q
        <2> HIDE DEF q
        <2>1. QED
            BY <1>1, <1>5
    <1>7. QED
        BY <1>5, <1>6 DEF CounterAt

\* A keystream names the cipher, the key and the whole nonce.
LEMMA StreamsDiffer ==
    ASSUME NEW c \in ContextRecord, NEW d \in ContextRecord, Stream(c) = Stream(d)
    PROVE  c.cipher = d.cipher /\ c.key = d.key /\ c.nonce = d.nonce
    <1>1. /\ c.cipher \in {"ietf", "x"} /\ d.cipher \in {"ietf", "x"}
          /\ c.nonce = <<c.nonce[1], c.nonce[2]>>
          /\ d.nonce = <<d.nonce[1], d.nonce[2]>>
        BY DEF ContextRecord
    <1>2. Stream(c)[1] = Stream(d)[1] /\ Stream(c)[2] = Stream(d)[2]
        OBVIOUS
    <1>3. Stream(c)[1][1] = Stream(d)[1][1]
        BY <1>2
    <1>4. c.cipher = d.cipher
        BY <1>1, <1>3 DEF Stream
    <1>5. CASE c.cipher = "ietf"
        <2>1. /\ Stream(c)[1][2] = c.key /\ Stream(d)[1][2] = d.key
              /\ Stream(c)[2] = c.nonce /\ Stream(d)[2] = d.nonce
            BY <1>4, <1>5 DEF Stream
        <2>2. QED
            BY <1>2, <1>4, <2>1
    <1>6. CASE c.cipher = "x"
        <2>1. /\ Stream(c)[1][2] = c.key /\ Stream(d)[1][2] = d.key
              /\ Stream(c)[1][3] = c.nonce[1] /\ Stream(d)[1][3] = d.nonce[1]
              /\ Stream(c)[2][2] = c.nonce[2] /\ Stream(d)[2][2] = d.nonce[2]
            BY <1>4, <1>6 DEF Stream
        <2>2. c.key = d.key /\ c.nonce[1] = d.nonce[1] /\ c.nonce[2] = d.nonce[2]
            BY <1>2, <2>1
        <2>3. QED
            BY <1>1, <1>4, <2>2
    <1>7. QED
        BY <1>1, <1>5, <1>6

\* Two bytes meet one byte of a keystream only at one place of messages of one
\* cipher, key and nonce, and none meets the block that keys Poly1305.
THEOREM NoKeystreamTwiceHolds == Spec => []NoKeystreamTwice
    <1>1. Inv => NoKeystreamTwice
        <2>1. SUFFICES ASSUME Inv, NEW s \in sealed, NEW t \in sealed,
                              NEW p \in DOMAIN s.plain, NEW q \in DOMAIN t.plain
                       PROVE  /\ KeystreamByte(Stream(s.ctx), p) = KeystreamByte(Stream(t.ctx), q) =>
                                    /\ p = q
                                    /\ s.ctx.cipher = t.ctx.cipher
                                    /\ s.ctx.key = t.ctx.key
                                    /\ s.ctx.nonce = t.ctx.nonce
                              /\ CounterAt(p) # 0
            BY DEF NoKeystreamTwice
        <2>2. ASSUME NEW x \in sealed, NEW i \in DOMAIN x.plain
              PROVE  /\ x.ctx \in ContextRecord
                     /\ i \in Nat \ {0} /\ i <= MaxLen
            <3>1. x.ctx \in contexts /\ contexts \in Sessions
                BY <2>1, InvFacts DEF History, SealedRight
            <3>2. IsBytes(x.plain) /\ Len(x.plain) < MaxLen
                BY <2>1, InvFacts DEF SealedRight
            <3>3. DOMAIN x.plain = 1..Len(x.plain) /\ Len(x.plain) \in Nat
                BY <3>2, BytesFacts
            <3>4. MaxLen \in Int
                BY SizesAssumption DEF MaxLen
            <3>5. QED
                BY <2>2, <3>1, <3>2, <3>3, <3>4, SessionsAssumption
        <2>3. /\ p \in Nat \ {0} /\ q \in Nat \ {0}
              /\ CounterAt(p) = 1 + (p - 1) \div Block /\ CounterAt(p) # 0
              /\ CounterAt(q) = 1 + (q - 1) \div Block
            BY <2>2, CounterInRange
        <2>4. ASSUME KeystreamByte(Stream(s.ctx), p) = KeystreamByte(Stream(t.ctx), q)
              PROVE  /\ p = q
                     /\ s.ctx.cipher = t.ctx.cipher
                     /\ s.ctx.key = t.ctx.key
                     /\ s.ctx.nonce = t.ctx.nonce
            <3> DEFINE x == (p - 1) \div Block
                       y == (q - 1) \div Block
                       u == (p - 1) % Block
                       v == (q - 1) % Block
            <3>1. /\ Stream(s.ctx) = Stream(t.ctx)
                  /\ CounterAt(p) = CounterAt(q)
                  /\ u = v
                BY <2>4 DEF KeystreamByte
            <3>2. /\ p - 1 = Block * x + u /\ x \in Nat
                  /\ q - 1 = Block * y + v /\ y \in Nat
                <4>1. Block \in Nat /\ Block > 0 /\ p - 1 \in Nat /\ q - 1 \in Nat
                    BY <2>3, SizesAssumption
                <4>2. QED
                    BY <4>1, QuotientRemainder
            <3>3. 1 + x = 1 + y
                BY <2>3, <3>1
            <3>4. p = q
                <4> HIDE DEF x, y, u, v
                <4>1. x = y
                    BY <3>2, <3>3
                <4>2. p - 1 = q - 1
                    BY <3>1, <3>2, <4>1
                <4>3. QED
                    BY <2>3, <4>2
            <3>5. QED
                BY <2>2, <3>1, <3>4, StreamsDiffer
        <2>5. QED
            BY <2>3, <2>4
    <1>2. QED
        BY <1>1, Invariance, PTL
----------------------------------------------------------------------------
(* The types.                                                               *)

\* Every step of the caller counts, up to the bound.
LEMMA StepsCounted ==
    ASSUME Inv, Next
    PROVE  calls < MaxCalls /\ calls' = calls + 1 /\ contexts' = contexts
    <1>1. ASSUME NEW op, NEW c, NEW res, Returns(op, c, res)
          PROVE  calls < MaxCalls
        BY <1>1 DEF Returns
    <1>2. ASSUME NEW op, NEW c, NEW res, Refuses(op, c, res)
          PROVE  calls < MaxCalls
        BY <1>1, <1>2 DEF Refuses
    <1>3. ASSUME NEW c \in contexts, Call(c)
          PROVE  calls < MaxCalls
        <2>1. CASE EncryptInPlaceDetached(c) \/ DecryptInPlaceDetached(c) \/ DecryptSplit(c)
            BY <1>1, <1>2, <2>1
               DEF EncryptInPlaceDetached, DecryptInPlaceDetached, DecryptSplit
        <2>2. CASE EncryptInPlace(c) \/ DecryptInPlace(c)
            BY <1>1, <1>2, <2>2 DEF EncryptInPlace, DecryptInPlace
        <2>3. CASE EncryptIntoDetached(c) \/ DecryptIntoDetached(c)
            BY <1>1, <1>2, <2>3 DEF EncryptIntoDetached, DecryptIntoDetached
        <2>4. CASE Encrypt(c) \/ Decrypt(c)
            BY <1>1, <1>2, <2>4 DEF Encrypt, Decrypt
        <2>5. CASE EncryptInOutDetached(c) \/ DecryptInOutDetached(c)
            BY <1>1, <1>2, <2>5 DEF EncryptInOutDetached, DecryptInOutDetached
        <2>6. QED
            BY <1>3, <2>1, <2>2, <2>3, <2>4, <2>5 DEF Call
    <1>4. ASSUME NEW c \in contexts, Call(c)
          PROVE  calls' = calls + 1 /\ contexts' = contexts
        BY <1>4, CallsNamed
    <1>5. CASE SplitTag \/ JoinTag \/ Adopt \/ Damage
        BY <1>5 DEF SplitTag, JoinTag, Adopt, Damage, Moves
    <1>6. QED
        BY <1>3, <1>4, <1>5 DEF Next

\* A sequence of pairs is a sequence of bytes.
LEMMA PairsAreBytes ==
    ASSUME NEW B, IsBytes(B)
    PROVE  Bytes(B)
    <1>1. DOMAIN B = 1..Len(B) /\ Len(B) \in Nat
        BY BytesFacts
    <1>2. ASSUME NEW p \in DOMAIN B
          PROVE  Len(B[p]) = 2
        <2>1. B[p] = <<B[p][1], B[p][2]>>
            BY <1>1, <1>2 DEF IsBytes
        <2>2. ASSUME NEW x, NEW y
              PROVE  Len(<<x, y>>) = 2
            OBVIOUS
        <2>3. Len(<<B[p][1], B[p][2]>>) = 2
            BY <2>2
        <2>4. QED
            BY <2>1, <2>3
    <1>3. QED
        BY <1>1, <1>2 DEF Bytes

\* Every buffer is a sequence of bytes, a tag has its length, and whatever was
\* sealed or opened was so under a context of the caller's.
THEOREM TypeHolds == Spec => []TypeOK
    <1>1. Init => calls \in 0..MaxCalls
        BY SizesAssumption DEF Init
    <1>2. Inv /\ calls \in 0..MaxCalls /\ [Next]_vars => (calls \in 0..MaxCalls)'
        <2>1. SUFFICES ASSUME Inv, calls \in 0..MaxCalls, [Next]_vars
                       PROVE  calls' \in 0..MaxCalls
            OBVIOUS
        <2>2. CASE Next
            BY <2>1, <2>2, StepsCounted, SizesAssumption
        <2>3. CASE UNCHANGED vars
            BY <2>1, <2>3 DEF vars
        <2>4. QED
            BY <2>1, <2>2, <2>3
    <1>3. Inv /\ calls \in 0..MaxCalls => TypeOK
        <2>1. SUFFICES ASSUME Inv, calls \in 0..MaxCalls
                       PROVE  TypeOK
            OBVIOUS
        <2>2. Bytes(buf) /\ Bytes(dst) /\ Bytes(tag) /\ Len(tag) = TagLen
            BY <2>1, InvFacts, PairsAreBytes
        <2>3. \A s \in sealed \cup opened : s.ctx \in contexts
            BY <2>1 DEF Inv, History, SealedRight
        <2>4. QED
            BY <2>1, <2>2, <2>3 DEF TypeOK
    <1>4. QED
        BY <1>1, <1>2, <1>3, Invariance, PTL DEF Spec
=============================================================================
