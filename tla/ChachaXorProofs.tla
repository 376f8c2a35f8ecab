-------------------------- MODULE ChachaXorProofs ---------------------------
(***************************************************************************)
(* The loops of chacha_xor for buffers and counters of any size: they are  *)
(* the scalar loop, and store the whole blocks of the buffer.  It rests on *)
(* the four numbers of each loop agreeing (LoopsAgree), and on the loop of *)
(* single blocks being the last (LastSingle).                              *)
(***************************************************************************)
EXTENDS ChachaXor, TLAPS

\* What the engine guarantees and no loop changes: a counter that does not
\* wrap before the last block.
Call ==
    /\ backend \in BackendNames
    /\ full \in Nat
    /\ part \in BOOLEAN
    /\ start \in Nat
    /\ start < CtrMod
    /\ start + Length <= CtrMod

\* Until the scalar code has its turn, the cursor stays in the whole blocks and
\* the kernels have stored what it has passed.
Cursor ==
    /\ loop \in 1..(Len(Loops(backend)) + 1)
    /\ off \in 0..Length
    /\ InLoop => off <= full /\ raw = 0..(off - 1)
    /\ ~InLoop => raw = IF backend = "soft" THEN {} ELSE 0..(full - 1)

Inv ==
    /\ Call
    /\ Cursor
    /\ DOMAIN buf = 0..(Length - 1)
    /\ AsScalar

----------------------------------------------------------------------------
(* The loops.                                                               *)

\* Every loop asks for as much as its kernel stores, and moves the cursor and
\* the counter by as much.
LEMMA LoopsAgree ==
    ASSUME NEW b \in BackendNames, NEW i \in 1..Len(Loops(b))
    PROVE  /\ Loops(b)[i].needs \in Nat \ {0}
           /\ Loops(b)[i].kernel.stores = Loops(b)[i].needs
           /\ Loops(b)[i].kernel.advances = Loops(b)[i].needs
           /\ Loops(b)[i].skips = Loops(b)[i].needs
<1> USE DEF Loop, XorBatch16, XorBatch8, XorQuad2, XorQuad, XorBatch4, XorPair, XorSingle
<1>1. CASE b = "avx512"
  BY <1>1 DEF Loops, Avx512Loops
<1>2. CASE b = "avx2"
  BY <1>2 DEF Loops, Avx2Loops
<1>3. CASE b = "sse2"
  BY <1>3 DEF Loops, Sse2Loops
<1>4. CASE b = "neon"
  BY <1>4 DEF Loops, NeonLoops
<1>5. CASE b = "soft"
  BY <1>5 DEF Loops
<1> QED
  BY <1>1, <1>2, <1>3, <1>4, <1>5 DEF BackendNames

\* The last loop takes single blocks; only the scalar backend has none.
LEMMA LastSingle ==
    ASSUME NEW b \in BackendNames
    PROVE  /\ Len(Loops(b)) \in Nat
           /\ b = "soft" <=> Len(Loops(b)) = 0
           /\ b # "soft" => Loops(b)[Len(Loops(b))].needs = 1
<1> USE DEF Loop
<1>1. CASE b = "avx512"
  BY <1>1 DEF Loops, Avx512Loops
<1>2. CASE b = "avx2"
  BY <1>2 DEF Loops, Avx2Loops
<1>3. CASE b = "sse2"
  BY <1>3 DEF Loops, Sse2Loops
<1>4. CASE b = "neon"
  BY <1>4 DEF Loops, NeonLoops
<1>5. CASE b = "soft"
  BY <1>5 DEF Loops
<1> QED
  BY <1>1, <1>2, <1>3, <1>4, <1>5 DEF BackendNames

----------------------------------------------------------------------------
(* Steps.                                                                   *)

\* A kernel whose loop has enough left lies inside the whole blocks and carries
\* the scalar loop on by its width.
LEMMA IterateKeepsInv ==
    ASSUME Inv, Iterate
    PROVE  Inv'
<1> USE BoundsAssumption
<1> DEFINE l == Loops(backend)[loop]
           w == l.needs
           window == off..(off + l.kernel.stores - 1)
<1>1. /\ w \in Nat \ {0} /\ l.kernel.stores = w /\ l.kernel.advances = w /\ l.skips = w
  <2>1. backend \in BackendNames /\ loop \in 1..Len(Loops(backend))
    BY LastSingle DEF Inv, Call, Cursor, Iterate, InLoop
  <2> QED
    BY <2>1, LoopsAgree
<1>2. /\ buf' = [b \in DOMAIN buf |->
                    IF b \in window THEN Xored(buf[b], Plus(ctr, b - off)) ELSE buf[b]]
      /\ raw' = raw \cup window
      /\ ctr' = Plus(ctr, l.kernel.advances)
      /\ off' = off + l.skips
      /\ call' = call /\ loop' = loop
      /\ InLoop /\ full - off >= w
  BY DEF Iterate, Enough
<1> HIDE DEF l
<1>3. /\ window = off..(off + w - 1)
      /\ ctr' = Plus(ctr, w)
      /\ off' = off + w
  BY <1>1, <1>2
<1> HIDE DEF w, window
<1>4. Length \in Nat /\ full \in Nat /\ full <= Length /\ off \in Nat
  BY DEF Inv, Call, Cursor, Length
<1>5. off + w <= full /\ off + w <= Length
  BY <1>1, <1>2, <1>4
<1>6. Call' /\ Length' = Length /\ InLoop' /\ backend' = backend /\ full' = full /\ start' = start
  BY <1>2 DEF Inv, Call, call, InLoop, Length
<1>7. Cursor'
  <2>1. raw = 0..(off - 1)
    BY <1>2 DEF Inv, Cursor
  <2>2. raw' = 0..(off' - 1)
    BY <1>1, <1>2, <1>3, <1>4, <2>1
  <2> QED
    BY <1>1, <1>2, <1>3, <1>4, <1>5, <1>6, <2>2 DEF Inv, Cursor
<1>8. (DOMAIN buf = 0..(Length - 1))'
  BY <1>2, <1>6 DEF Inv
<1>9. ctr = start + off
  BY <1>1, <1>4, <1>5 DEF Inv, Call, AsScalar, Plus
<1>10. ASSUME NEW b \in 0..(Length - 1)
       PROVE  buf'[b] = IF b < off + w THEN Plus(start, b) ELSE Pristine
  <2>1. buf[b] = IF b < off THEN Plus(start, b) ELSE Pristine
    BY DEF Inv, AsScalar
  <2>2. buf'[b] = IF b \in window THEN Xored(buf[b], Plus(ctr, b - off)) ELSE buf[b]
    BY <1>2 DEF Inv
  <2>3. CASE b \in window
    <3>1. off <= b /\ b < off + w
      BY <1>1, <1>3, <1>4, <2>3
    <3>2. Plus(ctr, b - off) = Plus(start, b)
      BY <1>4, <1>5, <1>9, <3>1 DEF Inv, Call, Plus
    <3> QED
      BY <1>4, <2>1, <2>2, <2>3, <3>1, <3>2 DEF Xored, Pristine
  <2>4. CASE b \notin window
    <3>1. ~(off <= b /\ b < off + w)
      BY <1>1, <1>3, <1>4, <2>4
    <3> QED
      BY <1>1, <1>4, <2>1, <2>2, <2>4, <3>1 DEF Pristine
  <2> QED
    BY <2>3, <2>4
<1>11. ctr' = Plus(start, off + w)
  BY <1>1, <1>3, <1>4, <1>5, <1>9 DEF Inv, Call, Plus
<1>12. AsScalar'
  BY <1>3, <1>6, <1>8, <1>10, <1>11 DEF AsScalar, Plus, Pristine
<1> QED
  BY <1>6, <1>7, <1>8, <1>12 DEF Inv

\* A loop that ends leaves the cursor where it is; the last leaves no whole
\* block.
LEMMA LeaveKeepsInv ==
    ASSUME Inv, Leave
    PROVE  Inv'
<1>1. /\ InLoop /\ ~Enough /\ loop' = loop + 1
      /\ call' = call /\ off' = off /\ ctr' = ctr /\ buf' = buf /\ raw' = raw
  BY DEF Leave
<1>2. backend \in BackendNames /\ full \in Nat /\ Length \in Nat
  BY DEF Inv, Call, Length
<1>3. /\ backend' = backend /\ full' = full /\ part' = part /\ start' = start
      /\ Length' = Length /\ Loops(backend)' = Loops(backend)
  BY <1>1 DEF call, Length
<1>4. Len(Loops(backend)) \in Nat /\ loop \in 1..Len(Loops(backend)) /\ loop' = loop + 1
  BY <1>1, <1>2, LastSingle DEF Inv, Cursor, InLoop
<1>5. off \in 0..full /\ raw = 0..(off - 1)
  BY <1>1, <1>2 DEF Inv, Cursor
<1>6. Cursor'
  <2>1. CASE InLoop'
    BY <1>1, <1>2, <1>3, <1>4, <1>5, <2>1 DEF Inv, Cursor
  <2>2. CASE ~InLoop'
    <3>1. loop = Len(Loops(backend)) /\ backend # "soft"
      BY <1>2, <1>3, <1>4, <2>2, LastSingle DEF InLoop
    <3>2. Loops(backend)[loop].needs = 1
      BY <1>2, <3>1, LastSingle
    <3>3. off = full
      BY <1>1, <1>2, <1>5, <3>2 DEF Enough
    <3> QED
      BY <1>1, <1>3, <1>4, <1>5, <2>2, <3>1, <3>3 DEF Inv, Cursor
  <2> QED
    BY <2>1, <2>2
<1> QED
  BY <1>1, <1>3, <1>6 DEF Inv, Call, AsScalar, Plus

\* The scalar code carries on by one block, the partial one included.
LEMMA ScalarKeepsInv ==
    ASSUME Inv, ScalarBlock
    PROVE  Inv'
<1> USE BoundsAssumption
<1>1. /\ ~InLoop /\ off < Length
      /\ buf' = [buf EXCEPT ![off] = Xored(@, ctr)]
      /\ ctr' = Plus(ctr, 1) /\ off' = off + 1
      /\ call' = call /\ loop' = loop /\ raw' = raw
  BY DEF ScalarBlock
<1>2. Length \in Nat /\ off \in Nat
  BY DEF Inv, Call, Cursor, Length
<1>3. Call' /\ Length' = Length /\ InLoop' = InLoop /\ start' = start
  BY <1>1 DEF Inv, Call, call, Length, InLoop
<1>4. Cursor'
  BY <1>1, <1>2, <1>3 DEF Inv, Cursor, call
<1>5. (DOMAIN buf = 0..(Length - 1))'
  BY <1>1, <1>3 DEF Inv
<1>6. ctr = start + off /\ ctr = Plus(start, off)
  BY <1>1, <1>2 DEF Inv, Call, AsScalar, Plus
<1>7. ASSUME NEW b \in 0..(Length - 1)
      PROVE  buf'[b] = IF b < off + 1 THEN Plus(start, b) ELSE Pristine
  <2>1. buf[b] = IF b < off THEN Plus(start, b) ELSE Pristine
    BY DEF Inv, AsScalar
  <2>2. buf'[b] = IF b = off THEN Xored(buf[b], ctr) ELSE buf[b]
    BY <1>1 DEF Inv
  <2> QED
    BY <1>2, <1>6, <2>1, <2>2 DEF Xored, Pristine
<1>8. ctr' = Plus(start, off + 1)
  BY <1>1, <1>2, <1>6 DEF Inv, Call, Plus
<1>9. AsScalar'
  BY <1>1, <1>3, <1>5, <1>7, <1>8 DEF AsScalar, Plus, Pristine
<1> QED
  BY <1>3, <1>4, <1>5, <1>9 DEF Inv

LEMMA InitEstablishesInv == Init => Inv
<1> SUFFICES ASSUME Init PROVE Inv
  OBVIOUS
<1> USE BoundsAssumption, BackendsAssumption
<1>1. Length \in Nat \ {0} /\ Length <= MaxBlocks + 1
  BY DEF Init, Length
<1>2. Call
  BY <1>1 DEF Init, Call
<1>3. Cursor
  <2>1. loop = 1 /\ off = 0 /\ raw = {} /\ full \in Nat
    BY DEF Init
  <2>2. Len(Loops(backend)) \in Nat /\ (Len(Loops(backend)) = 0 <=> backend = "soft")
    BY <1>2, LastSingle DEF Call
  <2> QED
    BY <1>1, <2>1, <2>2 DEF Cursor, InLoop
<1>4. AsScalar
  BY <1>1, <1>2 DEF Init, Call, AsScalar, Plus, Pristine
<1> QED
  BY <1>1, <1>2, <1>3, <1>4 DEF Init, Inv

----------------------------------------------------------------------------
(* Theorems.                                                                *)

\* The inductive invariant: besides the scalar loop's result, that the counter
\* cannot wrap before the last block of the buffer, and that what the kernels
\* have stored is what the cursor has passed.
THEOREM InvHolds == Spec => []Inv
<1>1. Inv /\ [Next]_vars => Inv'
  <2> SUFFICES ASSUME Inv, [Next]_vars PROVE Inv'
    OBVIOUS
  <2>1. CASE UNCHANGED vars
    BY <2>1 DEF Inv, Call, Cursor, InLoop, Length, AsScalar, vars, call
  <2> QED
    BY <2>1, IterateKeepsInv, LeaveKeepsInv, ScalarKeepsInv DEF Next
<1> QED
  BY InitEstablishesInv, <1>1, PTL DEF Spec

\* The loops of every backend are the scalar loop (chacha_xor of each backend).
THEOREM AsScalarHolds == Spec => []AsScalar
<1>1. Inv => AsScalar
  BY DEF Inv
<1> QED
  BY InvHolds, <1>1, PTL

\* The kernels store the whole blocks of the buffer through their raw pointers,
\* all of them and nothing else (chacha_xor of each backend).
THEOREM WholeBlocksHold == Spec => []WholeBlocksRaw
<1>1. Inv => WholeBlocksRaw
  BY DEF Inv, Call, Cursor, WholeBlocksRaw
<1> QED
  BY InvHolds, <1>1, PTL
=============================================================================
