----------------------------- MODULE PolyValues ------------------------------
(***************************************************************************)
(* Symbolic values modulo 2^130 - 5.  A Poly1305 accumulator is a sum of   *)
(* message blocks, each times a power of the key r: it is kept as the set  *)
(* of its terms, <<b, e>> for block number b times r^e.  This is the       *)
(* algebra the vectorised backends rearrange; the limbs that represent a   *)
(* value, and their carries, are left out.                                 *)
(***************************************************************************)
EXTENDS Integers

Zero == {}

\* A freshly loaded block.
Block(b) == {<<b, 0>>}

\* The exponent that marks a block whose very same term was added twice.
Twice == -1

Doubled(terms) == {<<p[1], Twice>> : p \in terms}

\* v * r^k.
Times(v, k) == {<<p[1], IF p[2] = Twice THEN Twice ELSE p[2] + k>> : p \in v}

Plus(v, w) == v \cup w \cup Doubled(v \cap w)

\* The sum of the values vs[l], l \in DOMAIN vs.
Sum(vs) ==
    LET pairs == {q \in (DOMAIN vs) \X (DOMAIN vs) : q[1] # q[2]}
    IN  (UNION {vs[l] : l \in DOMAIN vs})
        \cup Doubled(UNION {vs[q[1]] \cap vs[q[2]] : q \in pairs})

\* The blocks 1..m by Horner's rule.
Evaluated(m) == {<<b, m + 1 - b>> : b \in 1..m}
=============================================================================
