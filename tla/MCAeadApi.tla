----------------------------- MODULE MCAeadApi ------------------------------
(***************************************************************************)
(* Callers that use two contexts with one thing different: the AAD, a part *)
(* of the nonce, or the cipher.                                            *)
(***************************************************************************)
EXTENDS AeadApi

Context(cipher, head, tail, aad) ==
    [cipher |-> cipher, key |-> "k", nonce |-> <<head, tail>>, aad |-> aad]

MCSessions ==
    LET x == Context("x", "m", "n", "a") IN
    {{x, Context("x", "m", "n", "b")}, {x, Context("x", "m", "o", "a")},
     {x, Context("x", "l", "n", "a")}, {x, Context("ietf", "m", "n", "a")}}
=============================================================================
