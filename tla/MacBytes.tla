------------------------------ MODULE MacBytes -------------------------------
(***************************************************************************)
(* What Poly1305 is given, byte by byte: the wrapper Poly of               *)
(* src/src/poly1305/mod.rs, which joins segments of any length into blocks *)
(* of 16 bytes, and the functions of src/src/aead.rs that feed it one      *)
(* message: the padded AAD, the ciphertext in segments that differ from    *)
(* path to path, the padding and the lengths.                              *)
(*                                                                         *)
(* FusedEngine decides which segments a backend cuts the message into and  *)
(* counts whole blocks; here the cuts are any that it may make, and the    *)
(* contents are followed.  The ciphertext is what it is when it is read.   *)
(***************************************************************************)
EXTENDS Integers, Sequences

CONSTANTS AadLens, TextLens   \* in bytes

ASSUME LensAssumption == AadLens \subseteq Nat /\ TextLens \subseteq Nat

VARIABLES
    aad_len, ct_len,  \* of this message
    pc,
    off,              \* bytes of ciphertext taken
    poly              \* the wrapper: have, pending, and the blocks it passed on

vars == <<aad_len, ct_len, pc, off, poly>>

Zero == <<"zero", 0>>

Zeros(n) == [j \in 1..n |-> Zero]
Aad      == [j \in 1..aad_len |-> <<"aad", j>>]

\* n bytes of the message from offset `from`.
Text(from, n) == [j \in 1..n |-> <<"text", from + j>>]

\* The two lengths, 8 bytes each.
Lengths ==
    [j \in 1..16 |-> IF j <= 8 THEN <<"aad length", j>> ELSE <<"text length", j - 8>>]

\* aad_pad, ct_pad
Pad(n) == (16 - (n % 16)) % 16

Floor64(n) == n - (n % 64)

----------------------------------------------------------------------------
(* The wrapper.                                                             *)

\* as_chunks::<16>
Chunks(s) == [i \in 1..(Len(s) \div 16) |-> [j \in 1..16 |-> s[16 * (i - 1) + j]]]

\* Mutant: as many bytes as are pending, as the BUGFIX comment says it was.
JoinedAsPending(p, s) == IF p.have <= Len(s) THEN p.have ELSE Len(s)

\* Bytes of s that go to a pending partial block.
Joined(p, s) ==
    IF p.have = 0 THEN 0
    ELSE IF 16 - p.have <= Len(s) THEN 16 - p.have ELSE Len(s)

\* Poly::update
Update(p, s) ==
    LET n      == Joined(p, s)
        filled == [j \in 1..16 |->
                      IF p.have < j /\ j <= p.have + n THEN s[j - p.have] ELSE p.pending[j]]
        rest   == [j \in 1..(Len(s) - n) |-> s[n + j]]
        rem    == Len(rest) % 16
    IN  IF p.have > 0 /\ p.have + n < 16
        THEN [p EXCEPT !.pending = filled, !.have = p.have + n]
        ELSE [have    |-> rem,
              pending |-> IF rem = 0 THEN filled
                          ELSE [j \in 1..16 |->
                                  IF j <= rem THEN rest[Len(rest) - rem + j] ELSE Zero],
              blocks  |-> p.blocks \o (IF p.have > 0 THEN <<filled>> ELSE << >>)
                                   \o Chunks(rest)]

\* absorb4, absorb_blocks: whole windows, past the partial block.
Windows(p, s) == [p EXCEPT !.blocks = @ \o Chunks(s)]

----------------------------------------------------------------------------
Init ==
    /\ aad_len \in AadLens
    /\ ct_len \in TextLens
    /\ pc = "aad"
    /\ off = 0
    /\ poly = [have |-> 0, pending |-> Zeros(16), blocks |-> << >>]

Goes(next) == pc' = next /\ UNCHANGED <<aad_len, ct_len>>

\* Takes the next n bytes of the message with update.
Takes(n) == poly' = Update(poly, Text(off, n)) /\ off' = off + n

\* poly_with_aad_at
AbsorbAad ==
    /\ pc = "aad"
    /\ poly' = Update(Update(poly, Aad), Zeros(Pad(aad_len)))
    /\ Goes("text")
    /\ UNCHANGED off

\* process(), at most a block.
Tiny ==
    /\ pc = "text" /\ ct_len <= 64
    /\ Takes(ct_len)
    /\ Goes("finish")

\* The bytes that bring the blocks waiting in the backend to a window.
Gaps == {0, 16, 32, 48}

\* The bulk prologue and seal_direct.
Align(s) ==
    /\ pc = "text" /\ ct_len > 192
    /\ Takes(s)
    /\ Goes("windows")

\* Bulk and medium kernels, and the drain before the tail.
AbsorbWindows(n) ==
    /\ pc = "windows" /\ off + 64 * n <= ct_len
    /\ poly' = Windows(poly, Text(off, 64 * n))
    /\ off' = off + 64 * n
    /\ Goes("windows")

\* update_tail over the rest of the message.
UpdateTail ==
    LET bulk == Floor64(ct_len - off) IN
    /\ pc = "windows"
    /\ poly' = Update(Windows(poly, Text(off, bulk)), Text(off + bulk, ct_len - off - bulk))
    /\ off' = ct_len
    /\ Goes("finish")

\* mac_small_sweep.
SweepAlign(s) ==
    /\ pc = "text" /\ 64 < ct_len /\ ct_len <= 192
    /\ IF ct_len >= s
       THEN Takes(s) /\ Goes("sweep_windows")
       ELSE Goes("sweep_blocks") /\ UNCHANGED <<off, poly>>

SweepWindow ==
    /\ pc = "sweep_windows"
    /\ IF ct_len - off >= 64
       THEN /\ poly' = Windows(poly, Text(off, 64))
            /\ off' = off + 64
            /\ Goes("sweep_windows")
       ELSE Goes("sweep_blocks") /\ UNCHANGED <<off, poly>>

SweepBlock ==
    /\ pc = "sweep_blocks" /\ ct_len - off >= 16
    /\ Takes(16)
    /\ Goes("sweep_blocks")

\* Mutant: the rest of the message goes in without its padding.
SweepTailBare ==
    /\ pc = "sweep_blocks" /\ ct_len - off < 16
    /\ poly' = Update(Update(poly, Text(off, ct_len - off)), Lengths)
    /\ off' = ct_len
    /\ Goes("done")

\* The assembled tail: the rest of the message padded, and the lengths.
SweepTail ==
    LET rem  == ct_len - off
        tail == [j \in 1..16 |-> IF j <= rem THEN Text(off, rem)[j] ELSE Zero]
    IN  /\ pc = "sweep_blocks" /\ rem < 16
        /\ poly' = Update(IF rem > 0 THEN Update(poly, tail) ELSE poly, Lengths)
        /\ off' = ct_len
        /\ Goes("done")

\* finish_tag
FinishTag ==
    /\ pc = "finish"
    /\ poly' = Update(Update(poly, Zeros(Pad(ct_len))), Lengths)
    /\ Goes("done")
    /\ UNCHANGED off

Next ==
    \/ AbsorbAad
    \/ Tiny
    \/ \E s \in Gaps : Align(s) \/ SweepAlign(s)
    \/ \E n \in 1..(ct_len \div 64) : AbsorbWindows(n)
    \/ UpdateTail
    \/ SweepWindow \/ SweepBlock \/ SweepTail
    \/ FinishTag

Spec == Init /\ [][Next]_vars

----------------------------------------------------------------------------
(* Properties.                                                              *)

Ahead == aad_len + Pad(aad_len)           \* where the ciphertext starts
End   == Ahead + ct_len + Pad(ct_len)     \* where the lengths start

\* Byte p of mac_data in RFC 8439 section 2.8: AAD, ciphertext, both padded to
\* 16 bytes with zeros, and their lengths.
MacData(p) ==
    IF p <= aad_len THEN <<"aad", p>>
    ELSE IF p <= Ahead THEN Zero
    ELSE IF p <= Ahead + ct_len THEN <<"text", p - Ahead>>
    ELSE IF p <= End THEN Zero
    ELSE Lengths[p - End]

Taken == 16 * Len(poly.blocks) + poly.have

\* However the message is cut, no byte is dropped, doubled or moved: the blocks
\* passed on and the pending bytes are the first bytes of mac_data, as many as
\* the cursor says (poly1305/mod.rs, the BUGFIX comments of update).
NothingDropped ==
    /\ \A i \in 1..Len(poly.blocks), j \in 1..16 :
          poly.blocks[i][j] = MacData(16 * (i - 1) + j)
    /\ \A j \in 1..poly.have : poly.pending[j] = MacData(16 * Len(poly.blocks) + j)
    /\ pc \notin {"aad", "done"} => Taken = Ahead + off

\* Windows bypass the pending block and the tag leaves it out, so it must be
\* empty there: each path pads exactly once (poly1305/mod.rs, debug_assert of
\* absorb4, absorb_blocks, update_tail and finalize_into).
NothingPending ==
    /\ pc \in {"windows", "sweep_windows", "done"} => poly.have = 0
    /\ pc = "done" => Taken = End + 16
=============================================================================
