------------------------------- MODULE Secrets --------------------------------
(***************************************************************************)
(* Which buffers hold what a message's key was derived into, in a build    *)
(* with the feature zeroize: the calls of src/src/lib.rs around the engine *)
(* of src/src/aead.rs, and seal_direct of src/src/chacha/avx512.rs.  A     *)
(* buffer is listed while what was written to it has not been overwritten. *)
(* Keystream buffers are left out: nothing is documented of them.          *)
(***************************************************************************)

VARIABLES
    call,     \* the cipher, the operation, whether the message is too long
    kernel,   \* where the one-time key is computed
    pc,
    holding   \* buffers that hold key material of this message

vars == <<call, kernel, pc, holding>>

Calls == [cipher: {"ChaCha20Poly1305", "XChaCha20Poly1305"},
          op: {"seal", "open"}, too_long: BOOLEAN]

\* process() calls the block kernels; seal_direct has its own, and above 7
\* blocks it extracts the key through a 64-byte block.
Kernels == {"blocks", "direct_quads", "direct_16"}

Init ==
    /\ call \in Calls
    /\ kernel \in IF call.op = "seal" THEN Kernels ELSE {"blocks"}
    /\ pc = "subkey"
    /\ holding = {}

Goes(next) == pc' = next /\ UNCHANGED <<call, kernel>>

\* XChaCha20Poly1305::subkey: the derived cipher holds the subkey.
Subkey ==
    /\ pc = "subkey"
    /\ Goes("state")
    /\ holding' = IF call.cipher = "XChaCha20Poly1305" THEN {"subkey"} ELSE {}

\* encrypt_in_place_detached checks the length before it makes the state.
RefuseSeal ==
    /\ pc = "state" /\ call.op = "seal" /\ call.too_long
    /\ Goes("drop")
    /\ UNCHANGED holding

MakeState ==
    /\ pc = "state" /\ ~(call.op = "seal" /\ call.too_long)
    /\ Goes(IF call.too_long THEN "wipe" ELSE "key")
    /\ holding' = holding \cup {"words"}

\* The one-time key of Poly1305.
GenKey ==
    /\ pc = "key"
    /\ Goes("mac")
    /\ holding' = holding \cup {"key32"}
                          \cup (IF kernel = "direct_16" THEN {"key64"} ELSE {})

\* poly_with_aad_at: the key goes into the state of Poly1305, and is cleared.
PolyWithAad ==
    /\ pc = "mac"
    /\ Goes("finish")
    /\ holding' = (holding \cup {"poly"}) \ {"key32"}

\* The message and the tag, and the return of the engine.  The state is in a
\* MaybeUninit, which drops nothing.
Finish ==
    /\ pc = "finish"
    /\ Goes("wipe")
    /\ UNCHANGED holding

\* st.zeroize()
WipeState ==
    /\ pc = "wipe"
    /\ Goes("drop")
    /\ holding' = holding \ {"words"}

\* The derived cipher is dropped, and clears its key.
DropCipher ==
    /\ pc = "drop"
    /\ Goes("returned")
    /\ holding' = holding \ {"subkey"}

Next ==
    \/ Subkey \/ RefuseSeal \/ MakeState \/ GenKey
    \/ PolyWithAad \/ Finish \/ WipeState \/ DropCipher

Spec == Init /\ [][Next]_vars

\* When a call returns, the engine has cleared the key and the state of
\* Poly1305 (lib.rs, note of zeroize_impls: "the per-message derived secrets
\* (Poly1305 key/state) are zeroized inside the engine when the feature is on").
PolyScrubbed == pc = "returned" => holding \cap {"key32", "key64", "poly"} = {}
=============================================================================
