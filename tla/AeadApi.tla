------------------------------- MODULE AeadApi -------------------------------
(***************************************************************************)
(* The public API of src/src/lib.rs and the adapter of aead_compat.rs: a   *)
(* caller makes calls of every kind, in any order and with any outcome,    *)
(* over one buffer of its own, an output slice and a detached tag.         *)
(*                                                                         *)
(* A byte is a pair of where it came from and its mask, the set of bytes   *)
(* XORed into it; a byte XORed in twice cancels.  Keystream bytes and tags *)
(* are named by what they are computed from, so two of them are equal only *)
(* if that is: HChaCha20, ChaCha20 and Poly1305 are taken to be free of    *)
(* collisions.  What a backend does inside a call is FusedEngine's.        *)
(*                                                                         *)
(* Sizes are scaled down: a block has Block bytes (64 in the code), a tag  *)
(* TagLen (16), and the block counter CtrMod values (2^32).                *)
(***************************************************************************)
EXTENDS Integers, Sequences

CONSTANTS
    Sessions,  \* sets of contexts (cipher, key, nonce, AAD), one for each caller
    Lengths,   \* lengths of the caller's message and output slice
    TagLen, Block, CtrMod,
    MaxCalls   \* bound: calls and other steps of the caller

\* Both nonces are a leading and a trailing part: of 4 and 8 bytes for
\* ChaCha20Poly1305, of 16 and 8 for XChaCha20Poly1305.
ContextRecord ==
    [cipher: {"ietf", "x"}, key: STRING, nonce: STRING \X STRING, aad: STRING]

ASSUME SessionsAssumption == \A s \in Sessions : s \subseteq ContextRecord

ASSUME SizesAssumption ==
    /\ Lengths \subseteq Nat
    /\ TagLen \in Nat \ {0}
    /\ Block \in Nat \ {0}
    /\ CtrMod \in Nat \ {0}
    /\ MaxCalls \in Nat

VARIABLES
    contexts, \* those the caller uses
    buf,      \* the caller's Buffer, or the slice it passes: bytes
    dst,      \* the output slice, or the Vec returned last
    tag,      \* the detached tag the caller holds
    result,   \* what the last call was and returned
    calls,    \* steps made so far
    sealed,   \* every message sealed: context, plaintext, ciphertext
    opened,   \* every message opened with success
    applied   \* every use of a keystream: when, and which

vars == <<contexts, buf, dst, tag, result, calls, sealed, opened, applied>>

----------------------------------------------------------------------------
(* Bytes, keystreams and tags.                                              *)

Fresh(name, n) == [p \in 1..n |-> << <<name, "-", p>>, {} >>]

\* Mutant: the IV takes its bytes from the front of the nonce.
StreamFromFront(c) ==
    IF c.cipher = "ietf" THEN << <<"key", c.key>>, c.nonce >>
    ELSE << <<"hchacha20", c.key, c.nonce[1]>>, <<"0000", c.nonce[1]>> >>

\* The key and nonce a ChaCha20 state is initialised with: the call's own, or
\* the subkey of the nonce's first part and a nonce of zeros and its last.
Stream(c) ==
    IF c.cipher = "ietf" THEN << <<"key", c.key>>, c.nonce >>
    ELSE << <<"hchacha20", c.key, c.nonce[1]>>, <<"0000", c.nonce[2]>> >>

\* Byte p of a message meets this byte of the keystream; block 0 is the key
\* of Poly1305.
CounterAt(p) == (1 + (p - 1) \div Block) % CtrMod
KeystreamByte(s, p) == <<s, CounterAt(p), (p - 1) % Block>>

XorByte(b, k) == <<b[1], (b[2] \ {k}) \cup ({k} \ b[2])>>

Xored(body, s) == [p \in 1..Len(body) |-> XorByte(body[p], KeystreamByte(s, p))]

\* Mutant: the tag leaves the AAD out.
TagOfNoAad(c, body) ==
    [j \in 1..TagLen |->
        << <<"tag", [stream |-> Stream(c), aad |-> "", over |-> body], j>>, {} >>]

\* The tag of a ciphertext.
TagOf(c, body) ==
    [j \in 1..TagLen |->
        << <<"tag", [stream |-> Stream(c), aad |-> c.aad, over |-> body], j>>, {} >>]

\* aead::MAX_LEN
MaxLen == (CtrMod - 1) * Block

TooLong(body) == Len(body) >= MaxLen

\* The buffer as ciphertext || tag.
HasTag  == Len(buf) >= TagLen
Body    == SubSeq(buf, 1, Len(buf) - TagLen)

\* Mutant: one byte too many.
TrailerLong == SubSeq(buf, Len(buf) - TagLen, Len(buf))

Trailer == SubSeq(buf, Len(buf) - TagLen + 1, Len(buf))

\* d with its first bytes replaced by those of s.
Over(s, d) == s \o SubSeq(d, Len(s) + 1, Len(d))

Init ==
    /\ contexts \in Sessions
    /\ \E n \in Lengths : buf = Fresh("text", n)
    /\ \E n \in Lengths : dst = Fresh("room", n)
    /\ tag = Fresh("foreign", TagLen)
    /\ result = [op |-> "none", res |-> "none"]
    /\ calls = 0
    /\ sealed = {}
    /\ opened = {}
    /\ applied = {}

----------------------------------------------------------------------------
(* What the calls are made of.                                              *)

Returns(op, c, res) ==
    /\ calls < MaxCalls
    /\ calls' = calls + 1
    /\ result' = [op |-> op, ctx |-> c, res |-> res]
    /\ UNCHANGED contexts

\* Ops::seal turned body into out under c.
Seals(c, body, out) ==
    /\ sealed' = sealed \cup {[ctx |-> c, plain |-> body, cipher |-> out]}
    /\ applied' = applied \cup {<<calls, Stream(c)>>}
    /\ UNCHANGED opened

\* ct_eq of the tag computed over the body, before it is deciphered.
Authentic(c, body, t) == t = TagOf(c, body)

\* Ops::open of body with tag t under c left text; it deciphers in any case.
Opens(c, body, t, text) ==
    /\ applied' = applied \cup {<<calls, Stream(c)>>}
    /\ opened' = IF Authentic(c, body, t)
                 THEN opened \cup {[ctx |-> c, cipher |-> body, plain |-> text]}
                 ELSE opened
    /\ UNCHANGED sealed

Verdict(c, body, t) == IF Authentic(c, body, t) THEN "Ok" ELSE "TagMismatch"

\* A call that fails its length checks.
Refuses(op, c, res) ==
    /\ Returns(op, c, res)
    /\ UNCHANGED <<buf, dst, tag, sealed, opened, applied>>

----------------------------------------------------------------------------
(* Detached, in place.                                                      *)

EncryptInPlaceDetached(c) ==
    \/ TooLong(buf) /\ Refuses("encrypt_in_place_detached", c, "MessageTooLong")
    \/ /\ ~TooLong(buf)
       /\ Returns("encrypt_in_place_detached", c, "Ok")
       /\ buf' = Xored(buf, Stream(c))
       /\ tag' = TagOf(c, buf')
       /\ Seals(c, buf, buf')
       /\ UNCHANGED dst

DecryptInPlaceDetached(c) ==
    \/ TooLong(buf) /\ Refuses("decrypt_in_place_detached", c, "MessageTooLong")
    \/ /\ ~TooLong(buf)
       /\ Returns("decrypt_in_place_detached", c, Verdict(c, buf, tag))
       /\ buf' = Xored(buf, Stream(c))
       /\ Opens(c, buf, tag, buf')
       /\ UNCHANGED <<dst, tag>>

\* The halves of split_tag handed to decrypt_in_place_detached.
DecryptSplit(c) ==
    \/ ~HasTag /\ Refuses("decrypt_split", c, "InvalidLength")
    \/ HasTag /\ TooLong(Body) /\ Refuses("decrypt_split", c, "MessageTooLong")
    \/ /\ HasTag /\ ~TooLong(Body)
       /\ Returns("decrypt_split", c, Verdict(c, Body, Trailer))
       /\ buf' = Xored(Body, Stream(c)) \o Trailer
       /\ Opens(c, Body, Trailer, Xored(Body, Stream(c)))
       /\ UNCHANGED <<dst, tag>>

----------------------------------------------------------------------------
(* In place, over a Buffer.                                                 *)

\* Mutant: the place of the tag is appended first, so a failure seals nothing.
EncryptInPlaceAppendFirst(c) ==
    \/ TooLong(buf) /\ Refuses("encrypt_in_place", c, "MessageTooLong")
    \/ ~TooLong(buf) /\ Refuses("encrypt_in_place", c, "BufferError")
    \/ LET out == Xored(buf, Stream(c)) IN
       /\ ~TooLong(buf)
       /\ Returns("encrypt_in_place", c, "Ok")
       /\ Seals(c, buf, out)
       /\ buf' = out \o TagOf(c, out)
       /\ UNCHANGED <<dst, tag>>

\* The tag is appended to what is ciphertext by then.  A Vec, Zeroizing or
\* BytesMut grows; another Buffer may have no capacity at this call, then the
\* ciphertext stays and the tag is lost.
EncryptInPlace(c) ==
    \/ TooLong(buf) /\ Refuses("encrypt_in_place", c, "MessageTooLong")
    \/ LET out == Xored(buf, Stream(c)) IN
       /\ ~TooLong(buf)
       /\ Seals(c, buf, out)
       /\ \/ /\ Returns("encrypt_in_place", c, "Ok")
             /\ buf' = out \o TagOf(c, out)
          \/ /\ Returns("encrypt_in_place", c, "BufferError")
             /\ buf' = out
       /\ UNCHANGED <<dst, tag>>

\* Mutant: the buffer is truncated whether or not the tag was right.
DecryptInPlaceTruncating(c) ==
    \/ ~HasTag /\ Refuses("decrypt_in_place", c, "InvalidLength")
    \/ HasTag /\ TooLong(Body) /\ Refuses("decrypt_in_place", c, "MessageTooLong")
    \/ /\ HasTag /\ ~TooLong(Body)
       /\ Returns("decrypt_in_place", c, Verdict(c, Body, Trailer))
       /\ buf' = Xored(Body, Stream(c))
       /\ Opens(c, Body, Trailer, Xored(Body, Stream(c)))
       /\ UNCHANGED <<dst, tag>>

DecryptInPlace(c) ==
    \/ ~HasTag /\ Refuses("decrypt_in_place", c, "InvalidLength")
    \/ HasTag /\ TooLong(Body) /\ Refuses("decrypt_in_place", c, "MessageTooLong")
    \/ LET out == Xored(Body, Stream(c)) IN
       /\ HasTag /\ ~TooLong(Body)
       /\ Returns("decrypt_in_place", c, Verdict(c, Body, Trailer))
       /\ Opens(c, Body, Trailer, out)
       /\ buf' = IF Authentic(c, Body, Trailer) THEN out ELSE out \o Trailer
       /\ UNCHANGED <<dst, tag>>

----------------------------------------------------------------------------
(* Out of place: buf is the source.                                         *)

\* Mutant: the whole output slice is sealed, not the source's length of it.
EncryptIntoWholeDst(c) ==
    \/ Len(dst) < Len(buf) /\ Refuses("encrypt_into_detached", c, "InvalidLength")
    \/ LET out == Xored(Over(buf, dst), Stream(c)) IN
       /\ Len(dst) >= Len(buf) /\ ~TooLong(dst)
       /\ Returns("encrypt_into_detached", c, "Ok")
       /\ dst' = out
       /\ tag' = TagOf(c, out)
       /\ Seals(c, buf, out)
       /\ UNCHANGED buf

\* The source is copied first, so a message that turns out too long has been
\* copied already.
EncryptIntoDetached(c) ==
    \/ Len(dst) < Len(buf) /\ Refuses("encrypt_into_detached", c, "InvalidLength")
    \/ /\ Len(dst) >= Len(buf) /\ TooLong(buf)
       /\ Returns("encrypt_into_detached", c, "MessageTooLong")
       /\ dst' = Over(buf, dst)
       /\ UNCHANGED <<buf, tag, sealed, opened, applied>>
    \/ LET out == Xored(buf, Stream(c)) IN
       /\ Len(dst) >= Len(buf) /\ ~TooLong(buf)
       /\ Returns("encrypt_into_detached", c, "Ok")
       /\ dst' = Over(out, dst)
       /\ tag' = TagOf(c, out)
       /\ Seals(c, buf, out)
       /\ UNCHANGED buf

DecryptIntoDetached(c) ==
    \/ Len(dst) < Len(buf) /\ Refuses("decrypt_into_detached", c, "InvalidLength")
    \/ /\ Len(dst) >= Len(buf) /\ TooLong(buf)
       /\ Returns("decrypt_into_detached", c, "MessageTooLong")
       /\ dst' = Over(buf, dst)
       /\ UNCHANGED <<buf, tag, sealed, opened, applied>>
    \/ LET out == Xored(buf, Stream(c)) IN
       /\ Len(dst) >= Len(buf) /\ ~TooLong(buf)
       /\ Returns("decrypt_into_detached", c, Verdict(c, buf, tag))
       /\ dst' = Over(out, dst)
       /\ Opens(c, buf, tag, out)
       /\ UNCHANGED <<buf, tag>>

----------------------------------------------------------------------------
(* Allocating: buf is the payload, dst the Vec that is returned.            *)

\* Mutant: the payload is copied in after the keystream.
EncryptCopyingLate(c) ==
    /\ ~TooLong(buf)
    /\ Returns("encrypt", c, "Ok")
    /\ dst' = buf \o TagOf(c, buf)
    /\ Seals(c, buf, buf)
    /\ UNCHANGED <<buf, tag>>

Encrypt(c) ==
    \/ TooLong(buf) /\ Refuses("encrypt", c, "MessageTooLong")
    \/ LET out == Xored(buf, Stream(c)) IN
       /\ ~TooLong(buf)
       /\ Returns("encrypt", c, "Ok")
       /\ dst' = out \o TagOf(c, out)
       /\ Seals(c, buf, out)
       /\ UNCHANGED <<buf, tag>>

\* A copy that fails to authenticate is dropped.
Decrypt(c) ==
    \/ ~HasTag /\ Refuses("decrypt", c, "InvalidLength")
    \/ HasTag /\ TooLong(Body) /\ Refuses("decrypt", c, "MessageTooLong")
    \/ LET out == Xored(Body, Stream(c)) IN
       /\ HasTag /\ ~TooLong(Body)
       /\ Returns("decrypt", c, Verdict(c, Body, Trailer))
       /\ dst' = IF Authentic(c, Body, Trailer) THEN out ELSE dst
       /\ Opens(c, Body, Trailer, out)
       /\ UNCHANGED <<buf, tag>>

----------------------------------------------------------------------------
(* The adapter, over an InOutBuf of two slices of one length.  (With one    *)
(* slice it is the native call.)  Every error becomes the one of the trait. *)

EncryptInOutDetached(c) ==
    /\ Len(dst) = Len(buf)
    /\ \/ /\ TooLong(buf)
          /\ Returns("encrypt_inout_detached", c, "AeadError")
          /\ dst' = buf
          /\ UNCHANGED <<tag, sealed, opened, applied>>
       \/ /\ ~TooLong(buf)
          /\ Returns("encrypt_inout_detached", c, "Ok")
          /\ dst' = Xored(buf, Stream(c))
          /\ tag' = TagOf(c, dst')
          /\ Seals(c, buf, dst')
    /\ UNCHANGED buf

DecryptInOutDetached(c) ==
    /\ Len(dst) = Len(buf)
    /\ \/ /\ TooLong(buf)
          /\ Returns("decrypt_inout_detached", c, "AeadError")
          /\ dst' = buf
          /\ UNCHANGED <<sealed, opened, applied>>
       \/ /\ ~TooLong(buf)
          /\ Returns("decrypt_inout_detached", c,
                     IF Authentic(c, buf, tag) THEN "Ok" ELSE "AeadError")
          /\ dst' = Xored(buf, Stream(c))
          /\ Opens(c, buf, tag, dst')
    /\ UNCHANGED <<buf, tag>>

----------------------------------------------------------------------------
(* What the caller does between calls.                                      *)

Moves(op) ==
    /\ calls < MaxCalls
    /\ calls' = calls + 1
    /\ result' = [op |-> op, res |-> "moved"]
    /\ UNCHANGED <<contexts, sealed, opened, applied>>

\* split_tag, and the caller keeps the parts.
SplitTag ==
    /\ HasTag
    /\ Moves("split_tag")
    /\ buf' = Body
    /\ tag' = Trailer
    /\ UNCHANGED dst

\* The caller appends the detached tag it holds, as split_tag's example does.
JoinTag ==
    /\ Moves("join")
    /\ buf' = buf \o tag
    /\ UNCHANGED <<dst, tag>>

\* The caller goes on with what it was given.
Adopt ==
    /\ Moves("adopt")
    /\ buf' = dst
    /\ UNCHANGED <<dst, tag>>

\* A byte of the buffer changes on its way.
Damage ==
    /\ Moves("damage")
    /\ \E p \in {1, Len(buf)} \cap DOMAIN buf :
          buf' = [buf EXCEPT ![p] = XorByte(@, <<"noise">>)]
    /\ UNCHANGED <<dst, tag>>

Call(c) ==
    \/ EncryptInPlaceDetached(c) \/ DecryptInPlaceDetached(c) \/ DecryptSplit(c)
    \/ EncryptInPlace(c)         \/ DecryptInPlace(c)
    \/ EncryptIntoDetached(c)    \/ DecryptIntoDetached(c)
    \/ Encrypt(c)                \/ Decrypt(c)
    \/ EncryptInOutDetached(c)   \/ DecryptInOutDetached(c)

Next ==
    \/ \E c \in contexts : Call(c)
    \/ SplitTag \/ JoinTag \/ Adopt \/ Damage

Spec == Init /\ [][Next]_vars

----------------------------------------------------------------------------
(* Properties.                                                              *)

Bytes(s) == DOMAIN s \subseteq Nat /\ \A p \in DOMAIN s : Len(s[p]) = 2

\* Every buffer is a sequence of bytes, and a tag has its length.
TypeOK ==
    /\ Bytes(buf) /\ Bytes(dst) /\ Bytes(tag) /\ Len(tag) = TagLen
    /\ calls \in 0..MaxCalls
    /\ \A s \in sealed \cup opened : s.ctx \in contexts

\* Whatever came before (failed opens that have turned the buffer over, seals
\* whose tag was lost, damage, other contexts), a call that reports success
\* has handed out the plaintext of a message sealed under the same key, nonce
\* and AAD (lib.rs, decrypt_in_place_detached: "if tag does not
\* authenticate"; aead.rs, open).
OpenedWasSealed ==
    \A o \in opened : \E s \in sealed :
        /\ Stream(s.ctx) = Stream(o.ctx)
        /\ s.ctx.aad = o.ctx.aad
        /\ s.cipher = o.cipher
        /\ s.plain = o.plain

DetachedOpens ==
    {"decrypt_in_place_detached", "decrypt_into_detached", "decrypt_inout_detached"}
WireOpens == {"decrypt_in_place", "decrypt_split", "decrypt"}
InPlaceOps ==
    {"encrypt_in_place_detached", "decrypt_in_place_detached", "decrypt_split",
     "encrypt_in_place", "decrypt_in_place"}
IntoOps ==
    {"encrypt_into_detached", "decrypt_into_detached",
     "encrypt_inout_detached", "decrypt_inout_detached"}

\* Where a call leaves its text.
Delivered == IF result'.op \in InPlaceOps THEN buf' ELSE dst'

\* A message sealed by any entry point opens with any other under the same
\* context, in the layout the other takes, and gives the plaintext back
\* (lib.rs, split_tag; tests/buffer.rs and tests/aead_compat.rs compare some
\* of the pairs).
SealedOpens ==
    [][\A s \in sealed :
          /\ calls' # calls
          /\ result'.op \in DetachedOpens \cup WireOpens
          /\ result'.ctx = s.ctx
          /\ IF result'.op \in WireOpens
             THEN buf = s.cipher \o TagOf(s.ctx, s.cipher)
             ELSE buf = s.cipher /\ tag = TagOf(s.ctx, s.cipher)
          /\ result'.op = "decrypt_into_detached" => Len(dst) >= Len(buf)
          => /\ result'.res = "Ok"
             /\ SubSeq(Delivered, 1, Len(s.plain)) = s.plain]_vars

\* The only bytes that a call takes off a buffer are those of a tag that
\* authenticated what is left: no failure, and no retry after one, shortens a
\* message (lib.rs, decrypt_in_place: "On error the buffer length is
\* unchanged").
OnlyTagsDropped ==
    [][/\ calls' # calls
       /\ result'.op \in InPlaceOps
       /\ Len(buf') < Len(buf)
       => \E s \in sealed :
             /\ buf = s.cipher \o TagOf(s.ctx, s.cipher)
             /\ buf' = s.plain]_vars

\* A call out of place never writes its source nor the headroom of its output,
\* whatever its outcome; a call in place leaves the output slice alone (lib.rs,
\* "exactly src.len() bytes are written, leaving any headroom untouched").
InsideFootprint ==
    [][calls' # calls =>
          /\ result'.op \in IntoOps =>
                /\ buf' = buf
                /\ Len(dst') = Len(dst)
                /\ \A p \in DOMAIN dst : p > Len(buf) => dst'[p] = dst[p]
          /\ result'.op \in InPlaceOps => dst' = dst]_vars

\* Among all messages sealed, two bytes meet the same byte of a keystream only
\* at one place of messages of one cipher, key and nonce: neither a nonce's
\* unused part nor a wrapped counter makes two streams meet, and none meets the
\* block that keys Poly1305 (lib.rs, subkey; aead.rs, MAX_LEN).
NoKeystreamTwice ==
    \A s, t \in sealed : \A p \in DOMAIN s.plain, q \in DOMAIN t.plain :
        /\ KeystreamByte(Stream(s.ctx), p) = KeystreamByte(Stream(t.ctx), q) =>
              /\ p = q
              /\ s.ctx.cipher = t.ctx.cipher
              /\ s.ctx.key = t.ctx.key
              /\ s.ctx.nonce = t.ctx.nonce
        /\ CounterAt(p) # 0

\* A ciphertext whose nonce was used for no other call is masked byte for
\* byte.  A retry is such a call: one that repeats encrypt_in_place after the
\* Buffer had no room for the tag meets the ciphertext of the first and turns
\* it back (lib.rs, encrypt_in_place).
MaskedUnlessReused ==
    \A s \in sealed :
        (\A u, v \in applied : u[2] = Stream(s.ctx) /\ v[2] = Stream(s.ctx) => u = v)
        => /\ Len(s.cipher) = Len(s.plain)
           /\ \A p \in DOMAIN s.cipher :
                 KeystreamByte(Stream(s.ctx), p) \in s.cipher[p][2]

\* After a failed append the buffer is the ciphertext whose tag was lost, and
\* to make the same call again is to decipher it: whether or not the tag fits
\* this time, the buffer then holds the plaintext (lib.rs, encrypt_in_place:
\* the seal comes before extend_from_slice).
RetryUndoesSeal ==
    [][/\ calls' # calls
       /\ result.res = "BufferError"
       /\ result'.op = "encrypt_in_place" /\ result'.res # "MessageTooLong"
       /\ result'.ctx = result.ctx
       => \E s \in sealed :
             /\ s.ctx = result.ctx
             /\ s.cipher = buf
             /\ SubSeq(buf', 1, Len(buf)) = s.plain]_vars
=============================================================================
