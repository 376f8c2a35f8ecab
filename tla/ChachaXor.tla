----------------------------- MODULE ChachaXor ------------------------------
(***************************************************************************)
(* `Ops::chacha_xor` of src/src/backend/*.rs: XOR a stretch of the message *)
(* with the keystream.  Each backend runs loops one after the other, each  *)
(* calling a kernel of its own over a raw pointer into the buffer while    *)
(* what is left is long enough; the rest, of less than a block, goes to    *)
(* the scalar code.                                                        *)
(*                                                                         *)
(* What a loop asks of the rest, what its kernel stores, by what the       *)
(* kernel advances the counter and by what the loop moves the cursor are   *)
(* numbers that the code writes down in four places, in two files, and so  *)
(* does this module.                                                       *)
(*                                                                         *)
(* The buffer is counted in ChaCha20 blocks of 64 bytes, the last perhaps  *)
(* partial.  A kernel XORs block i of its window with the block of counter *)
(* base + i, as ChachaLayout shows of the vector kernels.                  *)
(***************************************************************************)
EXTENDS Integers, Sequences

CONSTANTS
    Backends,   \* backends to explore
    MaxBlocks,  \* bound: whole blocks of one call
    CtrMod      \* values of the block counter (2^32 in the code)

BackendNames == {"soft", "sse2", "neon", "avx2", "avx512"}

ASSUME BackendsAssumption == Backends \subseteq BackendNames

ASSUME BoundsAssumption ==
    /\ MaxBlocks \in Nat
    /\ CtrMod \in Nat /\ CtrMod > MaxBlocks + 1

VARIABLES
    backend,  \* whose chacha_xor this is
    full,     \* whole blocks of the buffer
    part,     \* whether a partial block follows
    start,    \* the counter at the call
    loop,     \* the loop that runs, one past the last for the scalar code
    off,      \* blocks done
    ctr,      \* state.words[12]
    buf,      \* per block, the counter of the keystream block XORed in
    raw       \* blocks of memory, from the buffer's first, that kernels stored

call == <<backend, full, part, start>>
vars == <<call, loop, off, ctr, buf, raw>>

\* Blocks of the buffer, a partial one included.
Length == full + (IF part THEN 1 ELSE 0)

Pristine == -1
Garbled  == -2

\* State::advance, wrapping.
Plus(c, k) == IF c + k < CtrMod THEN c + k ELSE c + k - CtrMod

----------------------------------------------------------------------------
(* The kernels: the blocks they load and store at the pointer they get, and *)
(* what they give to State::advance.                                        *)

XorBatch16 == [stores |-> 16, advances |-> 16]  \* avx512
XorBatch8  == [stores |-> 8,  advances |-> 8]   \* avx2, avx512
XorQuad2   == [stores |-> 4,  advances |-> 4]   \* avx2, avx512
XorQuad    == [stores |-> 2,  advances |-> 2]   \* avx2, avx512
XorBatch4  == [stores |-> 4,  advances |-> 4]   \* sse2, neon

\* Mutant: advances as the batch of four that it was copied from.
XorPairByFour == [stores |-> 2, advances |-> 4]

XorPair    == [stores |-> 2,  advances |-> 2]   \* sse2
XorSingle  == [stores |-> 1,  advances |-> 1]   \* all four

(* The loops of each backend, in the order of the code: what has to be left *)
(* of the buffer, the kernel, and the step of the cursor.                   *)

Loop(needs, kernel, skips) == [needs |-> needs, kernel |-> kernel, skips |-> skips]

Avx512Loops ==
    <<Loop(16, XorBatch16, 16), Loop(8, XorBatch8, 8), Loop(4, XorQuad2, 4),
      Loop(2, XorQuad, 2), Loop(1, XorSingle, 1)>>

\* Mutant: the second loop is the first's copy with another guard.
Avx2LoopsCopied ==
    <<Loop(8, XorBatch8, 8), Loop(4, XorBatch8, 8), Loop(2, XorQuad, 2),
      Loop(1, XorSingle, 1)>>

Avx2Loops ==
    <<Loop(8, XorBatch8, 8), Loop(4, XorQuad2, 4), Loop(2, XorQuad, 2),
      Loop(1, XorSingle, 1)>>

Sse2Loops == <<Loop(4, XorBatch4, 4), Loop(2, XorPair, 2), Loop(1, XorSingle, 1)>>

NeonLoops == <<Loop(4, XorBatch4, 4), Loop(1, XorSingle, 1)>>

\* The scalar backend has none.
Loops(b) ==
    CASE b = "avx512" -> Avx512Loops
      [] b = "avx2"   -> Avx2Loops
      [] b = "sse2"   -> Sse2Loops
      [] b = "neon"   -> NeonLoops
      [] OTHER        -> << >>

----------------------------------------------------------------------------
\* The engine passes no empty buffer; the last block of a call has at most the
\* last counter (MAX_LEN, aead.rs).
Init ==
    /\ backend \in Backends
    /\ full \in 0..MaxBlocks
    /\ part \in BOOLEAN
    /\ Length > 0
    /\ start \in {1, CtrMod - Length}
    /\ loop = 1
    /\ off = 0
    /\ ctr = start
    /\ buf = [b \in 0..(Length - 1) |-> Pristine]
    /\ raw = {}

Xored(content, c) == IF content = Pristine THEN c ELSE Garbled

InLoop == loop <= Len(Loops(backend))

\* `buf.len() - off >= 64 * needs`: a partial block is no whole one.
Enough == full - off >= Loops(backend)[loop].needs

\* One iteration of a loop.  The kernel gets `buf[off..].as_mut_ptr()`: it
\* stores all its blocks there, whatever the buffer has left.
Iterate ==
    /\ InLoop /\ Enough
    /\ LET l      == Loops(backend)[loop]
           window == off..(off + l.kernel.stores - 1)
       IN  /\ buf' = [b \in DOMAIN buf |->
                         IF b \in window THEN Xored(buf[b], Plus(ctr, b - off)) ELSE buf[b]]
           /\ raw' = raw \cup window
           /\ ctr' = Plus(ctr, l.kernel.advances)
           /\ off' = off + l.skips
    /\ UNCHANGED <<call, loop>>

\* The condition of a loop fails: on to the next.
Leave ==
    /\ InLoop /\ ~Enough
    /\ loop' = loop + 1
    /\ UNCHANGED <<call, off, ctr, buf, raw>>

\* soft::xor over what no loop takes, `buf.chunks_mut(BLOCK)`, the last chunk
\* perhaps short.
ScalarBlock ==
    /\ ~InLoop
    /\ off < Length
    /\ buf' = [buf EXCEPT ![off] = Xored(@, ctr)]
    /\ ctr' = Plus(ctr, 1)
    /\ off' = off + 1
    /\ UNCHANGED <<call, loop, raw>>

Next == Iterate \/ Leave \/ ScalarBlock

Spec == Init /\ [][Next]_vars

----------------------------------------------------------------------------
(* Properties.                                                              *)

\* Whatever the loops, it is the scalar loop's result: every block below the
\* cursor has been XORed once, with the block that its distance from the start
\* gives, the others are untouched, and the counter is the next block's
\* (aead.rs, the contract of chacha_xor: "any length", "advancing the
\* counter").
AsScalar ==
    /\ \A b \in DOMAIN buf :
          buf[b] = IF b < off THEN Plus(start, b) ELSE Pristine
    /\ ctr = Plus(start, off)

\* What the kernels store through raw pointers are whole blocks of the buffer,
\* never its partial block nor memory past it; and once the scalar code has its
\* turn they have stored every whole block, for the "sub-block remainder" is
\* all that is left to it (backend/avx512.rs, avx2.rs, sse2.rs, neon.rs,
\* chacha_xor).
WholeBlocksRaw ==
    /\ raw \subseteq 0..(full - 1)
    /\ ~InLoop /\ backend # "soft" => raw = 0..(full - 1)
=============================================================================
