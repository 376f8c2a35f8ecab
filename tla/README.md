# A TLA+ verification of chacha20poly1305-simd

This directory models `chacha20poly1305-simd`: the public API with its two
ciphers and every calling convention, the fused ChaCha20-Poly1305
engine with all of its paths and backends, the bytes its MAC is given, the
block cache of its Poly1305
implementations and the powers of the key their lanes carry, the register
layouts, stores and cascades of its ChaCha20 kernels, and the selection of a backend
at build time and at run time. TLC checks the models on small instances, and TLAPS proves
the most important invariants for every value of the constants.

## Inventory

| component | source | state it keeps | operations |
| --- | --- | --- | --- |
| Fused engine | `src/src/aead.rs` (`process`) | two cursors over one buffer (`off`, `poly_off`), the block counter, the MAC | one call to seal or open |
| Fused AVX-512 IFMA kernels | `src/src/chacha/avx512.rs` | none of their own: they take and return the cursors | `seal_bulk`, `open_bulk`, `seal_medium`, `open_medium`, `seal_direct` |
| Backend operations table | `src/src/backend/*.rs` | constants | six implementations of the trait `Ops` |
| Poly1305 wrapper and block cache | `src/src/poly1305/mod.rs`, `avx2.rs`, `ifma.rs`, `neon.rs`, `soft.rs` | up to 8 deferred blocks, a partial block, the accumulator | `update`, `absorb4`, `absorb_blocks`, `update_tail`, `finalize_into` |
| ChaCha20 kernels | `src/src/chacha/*.rs` | the block counter in `State` | `gen_key_xor2`, `gen_ks_small`, `chacha_xor`, `chacha_xor_batch` |
| Backend dispatch | `src/src/backend.rs` | the relaxed atomic `KIND` | `detect`, `current`, `Kind::seal`, `Kind::open` |
| Build-time selection | `src/build.rs` | the cfgs it emits | `main`, `forced_backend` |
| Public API | `src/src/lib.rs` | the key; the caller's buffers | encrypt and decrypt: detached, in place over a `Buffer`, out of place, allocating; `split_tag` |
| XChaCha20 | `src/src/lib.rs` (`subkey`), `chacha/mod.rs` (`hchacha20`) | none | derives a key and an IV, then calls the other cipher |
| RustCrypto adapter | `src/src/aead_compat.rs` | none | `encrypt_inout_detached`, `decrypt_inout_detached` |
| zeroize | `src/src/lib.rs`, `aead.rs`, `poly1305/mod.rs` | the buffers that hold key material | `State::zeroize`, `clear_key`, the `Drop` impls |
| getrandom | `src/src/lib.rs` | none | external |

How they interact. The API checks the length, makes a `State` with counter 0
and asks dispatch for a backend; dispatch calls the engine, monomorphised for
that backend's `Ops`; the engine calls the ChaCha20 kernels with slices of
the message, and the Poly1305 wrapper with others; on the IFMA backend a
kernel takes both cursors and the MAC's inner state and advances them
together. Everything but `KIND` is owned by one call on one thread. `KIND` is
shared by all threads.

What is hard here:

* **Two cursors on two grids.** The AAD shifts the MAC's 64-byte windows
  against ChaCha20's 64-byte blocks. The engine aligns once, and every later
  path relies on it.
* **A byte must be MACed as ciphertext.** Sealing, the MAC runs behind the
  XOR. Opening, it runs ahead, and fused kernels read and overwrite the same
  bytes in one iteration.
* **The MAC's cache.** Wide backends keep up to 8 blocks back. A fused kernel
  folds blocks past the cache, which is right only when the cache is empty.
* **The counter** is handed from kernel to kernel, each of which stops on a
  condition of its own, and partial kernels compute more blocks than they
  store. At the longest message it uses its last value.
* **Powers by lane.** The vectorised Poly1305 backends do not follow Horner's
  rule: blocks wait, are dealt to lanes in an order of their own, and are
  weighed only at the end. A wrong power shows for some lengths only.
* **Words by lane.** A vector ChaCha20 kernel turns columns into diagonals
  with shuffle constants and gathers its blocks through a transposition.
* **Segments of any length.** The MAC gets the message in pieces that differ
  from path to path; a wrapper joins them into blocks, and three places pad.
* **Tails.** A partial block is stored under masks, a kernel whose first block
  is the MAC's key stores its other blocks one place lower, and one shape has
  dead registers in its last slot.
* **Calls that fail half way.** Encryption precedes the append that may fail,
  decryption precedes the verdict, a copy precedes the length check; the caller
  holds the same buffer afterwards and calls again.
* **Loop progress.** The bulk loop has four bodies, each moving one cursor,
  both, or none.
* **Racing first calls.** Several threads may detect the CPU at once and
  publish through a relaxed atomic.
* **Build environments.** Flags, target features, `std` and the machine
  together decide what is compiled in and what is called.

What makes each component correct: the engine's MAC takes exactly the stream
of RFC 8439 and every unit of the message gets its own keystream once; the
cache never exceeds 8 and is aligned whenever a window operation is called;
dispatch runs all calls on one backend that exists and that the CPU can run;
the build compiles what dispatch will name; the API opens only what was sealed,
whatever failed before, never lets two messages share a keystream byte, and
writes or drops no byte that is not the call's own.

## Modules

| module | models | checked by | proofs |
| --- | --- | --- | --- |
| `AeadApi` | the calls of `lib.rs` and `aead_compat.rs`, and their caller | `MCAeadApi` | `AeadApiProofs` |
| `MacBytes` | the wrapper `Poly` and what `aead.rs` feeds it, byte by byte | itself | `MacBytesProofs` |
| `Secrets` | which buffers hold key material through a call | itself | |
| `PolyCache` | deferred block counts of the Poly1305 backends | through `FusedEngine` | `FusedEngineProofs` |
| `BackendOps` | the six `Ops` implementations as records | through `MCFusedEngine` | |
| `FusedEngine` | `process()` and the fused kernels | `MCFusedEngine` | `FusedEngineProofs` |
| `InPlaceAead` | what a call promises, with no paths | `MCInPlaceAead`, and as a refinement target | `InPlaceAeadProofs` |
| `PolyValues` | values modulo 2^130-5 as sums of blocks times powers of `r` | through `PolyLanes` | |
| `Horner` | what a Poly1305 backend promises | as a refinement target | |
| `PolyLanes` | the scalar, AVX2, NEON and IFMA Poly1305 backends | itself | `PolyLanesProofs` |
| `ChachaLayout` | where the vector ChaCha20 kernels keep and store each word | `MCChachaLayout` | `ChachaLayoutProofs` |
| `ChachaXor` | `chacha_xor` of every backend | itself | `ChachaXorProofs` |
| `Dispatch` | `build.rs` and `backend.rs` | `MCDispatch` | `DispatchProofs` |

### AeadApi

One caller, one message buffer `buf`, one output slice `dst`, one detached tag,
and any sequence of calls. The state is what the caller can see, and three
histories that no code keeps: `sealed` and `opened`, the messages that went
through, and `applied`, the keystreams that were used, in which calls.

A byte is `<<origin, mask>>`: where it came from and the set of keystream bytes
XORed into it, so XORing twice cancels, as it does in the code. A keystream byte
is named by the key and nonce of the state that makes it, the block counter
(modulo `CtrMod`) and the place in the block; a tag byte by the one-time key's
stream, the AAD and the ciphertext. Hence ChaCha20, HChaCha20 and Poly1305 are
free of collisions by construction, and what remains is what this layer of code
decides: which stream, over what, in which order, and what is left behind.

Every call of `lib.rs` is an action with one disjunct per outcome. The order in
the code is kept where it shows: `encrypt_in_place` seals and then appends, so its
`BufferError` leaves ciphertext; the out-of-place calls copy before the length
check, so their `MessageTooLong` leaves a copy; a decryption that fails has turned
the buffer over. The calls of `XChaCha20Poly1305` are those of `ChaCha20Poly1305`
with the stream of the derived key, so one action has both ciphers, told apart by
`Stream`. The engine is one step here: `InPlaceAead` and `FusedEngine` are why it
may be. The caller's own steps (`SplitTag`, `JoinTag`, `Adopt`, `Damage`) let
messages travel from one calling convention to another, and arrive damaged.

### MacBytes

`poly` is the wrapper `Poly<B>`: `have`, `pending`, and the blocks that it has
passed on. `Update` is `Poly::update` with its three parts: join a pending
block, pass on whole blocks, park the rest. The actions are the functions of
`aead.rs` that feed it. `FusedEngine` determines how far each path goes
before the next; here a path may take any number of windows, so the module covers
every cut that a backend may make. `MacData` is RFC 8439's `mac_data`, against
which `NothingDropped` compares every byte.

### Secrets

One call in a build with the feature `zeroize`, as a sequence of the points where
key material is written or cleared. `holding` lists the buffers that hold some.

### FusedEngine

Lengths are counted in *units* of 16 bytes, one Poly1305 block; a ChaCha20
block is 4 units. Every cursor of the code is a multiple of 16 bytes or the
end of the message, so a message is `full` whole units and perhaps one
partial one (`part`), whose number of bytes no branch depends on: where the
code compares byte counts (`r < 192`, `len <= 5 * BLOCK`), the comparison has
the same answer for every length of the partial unit.

| variable | code |
| --- | --- |
| `off`, `poly_off` | the cursors of `process()` |
| `ctr` | `state.words[12]`, modulo `CtrMod` (2^32 in the code) |
| `msg` | per unit, which keystream unit has been XORed into it: `Pristine`, the unit's number, or `Garbled` |
| `mac` | the blocks the MAC has taken, in the order in which it hashes them, each with the content it had when it was read |
| `cached` | `num_cached`: how many of the last blocks of `mac` still wait in the cache |
| `partial` | the wrapper's `pending` block, when `have > 0` |
| `broken` | contracts broken so far: a `debug_assert`, a slice bound, an unsigned subtraction, a kernel's width |
| `pc` | where `process()` stands |

`FoldedDirect` is the heart of the model: a fused kernel folds blocks into the
accumulator while `c` blocks sit in the cache, so the cached ones are hashed
after them. With `c = 0` it is an append; otherwise the order of the stream
is wrong, and `StreamInOrder` sees it.

Each action is one path of the code up to its return or one iteration of a
loop: `Tiny`, `Small` (with `mac_small_sweep`), `SealDirect`, the prologues,
`SealBulk`/`SealStep` and `OpenPair`/`OpenBulk`/`OpenStep` for the bodies of
the bulk loop, `SealMediumAhead`/`SealMediumWeave` and
`OpenMediumEnter`/`OpenMediumWeave`/`OpenMediumLast` for the medium kernels,
`DrainLag`, `FinishCursors` and `Finish` for the tail. One iteration of
`seal_bulk` or `open_bulk` is one iteration of the engine's loop: the kernel's
own guard is the engine's, so returning and re-entering changes nothing.

A kernel call is atomic. It runs on one thread over memory that the caller
holds by `&mut`, so nobody sees its intermediate states; the order of its
loads and stores, which does matter, is in which version of the buffer
(`msg` or `msg'`) the MAC reads.

### InPlaceAead

The promise: a cursor that turns the buffer from its input side to its output
side, and a MAC that takes the stream block by block, each ciphertext block
from the side on which it is ciphertext. `FusedEngine!Promise` maps the engine
onto it; `Implements` is its specification.

### PolyLanes, Horner, PolyValues

A value is the set of its terms: `<<b, e>>` stands for block `b` times `r^e`,
and a term that is added twice is marked. That is all that the lane algebra
changes; limbs and carries are left out. `lanes` are the accumulators (`P` of
AVX2, `h` of NEON, `H` of IFMA), `live` says that they exist
(`initialized`, `lanes`, `has_h`), `cached` is the cache with the blocks in it,
`regs` the accumulators that `absorb_blocks_bulk` holds in registers. The
actions are the calls of the trait `Backend` in any order that the window
contract allows, one loop iteration each where the code loops, and the phases of
`finalize_into`. `LanesDealt` says what every lane holds after every call, in
closed form. The abstract `Horner` takes blocks and evaluates them by RFC 8439's
rule; `Abstract` maps a backend's state to the value that its stream would have
if it ended now. `CountsAgree` ties the module to `PolyCache`, whose counts
`FusedEngine` and its proofs use.

### ChachaLayout

A register lane holds a cell `<<c, w>>`, word `w` of the block whose counter is
`c`. `base` is `state.words[12]` at the call: 0 for the kernels that make the MAC's
key, any of `Bases` for the others, so that a counter that is added twice, of which
the comment of `ctr_row` warns, gives another block. A quarter round is represented by its operands, so the rounds show
which words meet, and the shuffles and transpositions where the words go. The
four layouts cover the kernels of all backends: rows of one block, NEON's rows
with other rotations, rows of two blocks, and word-major registers.

A kernel then stores: all of its blocks; the blocks and the masked rest that a
message has left (`emit_partial`); or its first block as the MAC's key and the
others one place lower, XORed into the message (`gen_key_xor2`, `seal_direct`
with its three shapes, `emit16k`) or raw (`gen_ks_small`). `out` is the cell that
each word of the message gets, `loaded` the words that are read for it. Masks
are scaled from bytes to words; both halves of a block, and its middle, are
among the tails.

### ChachaXor

One call of `chacha_xor`: loops that call kernels of falling width behind raw
pointers, then the scalar code for less than a block. The code writes each width
four times, in two files, and the module keeps the four apart: what a loop's
condition asks of the rest (`needs`), what its kernel stores and by what it advances
the counter (`stores`, `advances`), and the step of the loop's cursor (`skips`).
`loop` is the loop that runs, `buf` says which keystream block has been XORed into
each block, and `raw` which blocks of memory the kernels have stored, those past the
slice included. A kernel's own blocks are in order by `ChachaLayout!BlocksInOrder`. In
`FusedEngine` such a call is one step; this module is why it may be.

### Dispatch

`env` is the build environment (architecture, `std`, the `avx512` feature,
target features, the backend flags in order), `cpu` the machine. `Build` is
`build.rs`: it fails or fixes `compiled`. Threads then call: in a forced build
`current()` is a constant; in an auto build a call is a relaxed load (`Load`),
perhaps `Detect` and `Store`, and then the call on what the local variable says.
`KIND` is the sequence `order` of values stored in it, and a relaxed load
returns any of them that is not older than the last one this thread saw:
per-location coherence, which is all that `Ordering::Relaxed` gives.

Several `--cfg` spellings are parsed by `forced_backend`; the model takes the
sequence of values they give. The features of an x86 CPU are the four that the
code asks for. A binary is assumed to run on a machine that has the features it
was compiled for (otherwise its behaviour is undefined before any of this code
runs).

## Runs

| run | instance | shows |
| --- | --- | --- |
| `fused_engine` | 12 thousand calls: six backends, both directions, with and without a partial unit; lengths 0..14 with 8 AAD lengths; for each backend every length around the entry, the second and the last batch of its loops; the longest messages of a counter modulo 64 | `StreamInOrder`, `ContractsKept`, `CallComplete`, `CounterMatchesCursor`, `CursorOrder`, `KeystreamOnce`, `SealLagsOneBatch`, `Implements`, `Terminates` |
| `in_place_aead` | AAD of up to 3 blocks, message of up to 4 units | `OnlyCiphertext`, `NothingLeft` |
| `dispatch` | 2 threads, 2 calls each, all build environments of `MCBuilds`, all CPUs | `OneBackend`, `OnlyRunnable`, `ProbesOnce`, `Widest`, `PublishedForGood`, `AllCallsMade` |
| `poly_lanes` | four backends, streams of up to 44 blocks, calls of up to 6 windows | `TagIsHorner`, `LanesDealt`, `CountsAgree`, `ImplementsHorner` |
| `chacha_layout` | each register layout with each number of registers in use and each way to store, all 20 rounds, counters from 0 for the key and from 1, 5 and 48 of 64 otherwise, every message length a kernel is given, in whole blocks and every tail | `RoundsAreScalar`, `FeedForwardAligned`, `BlocksInOrder`, `StoresCoverMessage` |
| `chacha_xor` | five backends, 0 to 40 blocks and perhaps a partial one, first and last counters | `AsScalar`, `WholeBlocksRaw` |
| `api` | four pairs of contexts that differ in one thing (AAD, either part of the nonce, the cipher), messages and outputs of 0 and 3 bytes, four calls or moves | `OpenedWasSealed`, `NoKeystreamTwice`, `MaskedUnlessReused`, `SealedOpens`, `OnlyTagsDropped`, `InsideFootprint`, `RetryUndoesSeal` |
| `mac_bytes` | 6 AAD lengths and 20 message lengths around each branch and residue, every gap and every cut | `NothingDropped`, `NothingPending` |
| `no_std_scalar`, `tail_loads`, `ks_exact`, `poly_scrubbed` | the instances above; `Secrets` has no constants | a comment or document that says something else than the code; see below |

Each module has one type invariant among these, not listed.

Why the bounds are enough. The engine's branches compare lengths with the
batch (4 to 64 units), twice the batch, the fixed sizes 4, 12, 20, 28, 32, 60,
and residues modulo 4 and 8. Message lengths run over full residue ranges on
both sides of each of these, up to three batches of the widest backend, and
AAD lengths cover the residues of the cache (0..8 blocks). `CtrMod = 64` is
larger than any kernel's batch in blocks, and `LongestCalls` brings the
counter to its last value. 44 blocks are five groups of the widest lanes and a window, so that each cache
state meets a fresh and a live stream on both sides of a bulk run, and a bulk run
has loads, up to three rounds and a left-over window. 40 blocks take every kernel of a cascade
at least twice for the widest, in every residue. In `chacha_layout`, 16 blocks from
counter 48 of 64 end the counter's range; the theorems hold for every counter. In `dispatch`, two threads exhibit
every race on one variable of which each thread sees a growing prefix, and a
second call sees what the first has published; the theorems lift both bounds.
In `api` a block and a tag have 2 bytes and the counter 3 values, so that `MAX_LEN`
is 4 bytes: 3 bytes cross a block boundary, a message with its tag appended is too
long, and an empty message, its tag alone and a buffer shorter than a tag occur as
well. Four steps hold the longest stories that matter: seal,
lose the tag, seal again, open; or seal, damage, fail to open, open again. The
theorems about the API lift all of these bounds. `mac_bytes` keeps the code's block of
16 bytes and takes lengths next to 0, 16, 64, 128, 192 and above; its theorems hold for
all lengths.

### Fairness

`FusedEngine` and `Dispatch` state `WF_vars(Next)` and nothing stronger. A
call is sequential code that waits for nothing, so it takes its next step.
The threads of `Dispatch` share an atomic but no lock: as long as a call is
unfinished, some thread can step, and the bound on calls makes that
enough for all of them.

### Divergences found

* `no_std_scalar`: the feature table of the repository's README says that
  builds without `std` use the scalar backend; they use what the compiler's
  target features allow.
* `tail_loads`: the comment on `store_blk` says that partial tails never touch
  memory past the message. The stores are masked, the loads before them are not.
* `ks_exact`: the SAFETY comment of the small path says that `gen_ks_small`
  writes exactly the slice it is passed; the sse2 kernel stores three blocks
  when that slice has two. They stay in the caller's array, which is checked.
* `poly_scrubbed`: a note says that the key and state of Poly1305 are zeroized
  inside the engine; the state lives in a `MaybeUninit`, whose contents are never
  dropped, and one copy of the key (`key64`) is never cleared.

Smaller disagreements between comment and code that modelling brought up, and
that no run is spent on: `MAX_LEN` is described as 256 GiB - 64 KiB
(`aead.rs:177`, `lib.rs:531`) and is 256 GiB - 64 bytes, the first length that is
refused; the contract of `gen_ks_small` (`aead.rs:61`)
understates the counter's advance for two and three blocks; the open step's MAC may lead by
exactly one batch where `aead.rs:520` says by more; `ifma.rs:521` says that the
leftover blocks are never a full group, and eight may be left; three backends
call the scalar fallback of `chacha_xor` unreachable, and the tail of a bulk call
reaches it; `seal_direct` says 4 to 15 whole blocks (`avx512.rs:1924`), and a
message of 193 to 255 bytes has three. None changes a result.

## Proofs

All theorems hold for every value of the constants under the modules' named
assumptions, each of which TLC evaluates for the table of real backends. What a
proof must be told of that table is in the assumption too: `BackendsAssumption` says that a
batch is made of whole windows, and of pairs of windows where the MAC takes pairs.

* `FusedEngineProofs` proves `TypeOK`, `ContractsKept`, `CursorOrder` and
  `CounterMatchesCursor`. None is inductive: that a slice is in bounds in the
  tail depends on how the cursors stood when the medium kernel returned, and
  that on the bulk loop. `Inv` says for each `pc` what the code knows there:
  the MAC cursor's place on the window grid (`cached % 4 = 0` and no partial
  block), how far seal may lag and open may lead, that `off` is a multiple of
  a block or the end, and that the counter is `1 + Blocks(off)`. There is one
  lemma per action for the cursors and one for the cache.
  The bounds of the cache operations come first, with `AlignGapAligns`, on which the
  window contract rests.
* `FusedEngineProofs`, second part, proves what a call does to its bytes: `StreamInOrder`,
  `CallComplete`, `KeystreamOnce`, `SealLagsOneBatch` and the refinement
  `Implements`. Cursors alone do not say what was hashed, so `Inv` is joined by
  `Contents`: the buffer is a function of the keystream cursor (`Written`: output
  below it, input from it on), the MAC's stream one of the MAC cursor (`Hashed`,
  with the partial unit apart while it waits), and where a medium kernel is about to
  fold windows past the cache, the cache is empty or nothing is left to fold
  (`Parked`: otherwise blocks would reach the MAC out of order). Each action then has
  two facts to keep: what it XORs is the next stretch, each unit with its own
  keystream (`OwnUnit`, which is where the counter must not wrap), and what it
  absorbs is the next part of `mac_data` in the state the direction asks for
  (`ReadExtends`: seal reads below the keystream cursor, open at or above it). The
  refinement follows: every variable of `InPlaceAead` is a function of the call and
  one cursor (`Image`), and each step moves both cursors forward (`Forward`), which is
  a step of the promise or none.
* `FusedEngineProofs`, last part, proves `EveryStepNearer`: each step of a call makes
  the natural number `StepsLeft` smaller, which counts the stages still ahead (`StageOf`) and what either
  cursor has left of the message. So a call of any length has at most `2 * Units + 7`
  steps, on every backend: no loop of `process()` goes round without moving a cursor
  (`BulkMoves`), and none goes back to a stage it has left (`StageEnds`). Of
  `Terminates` there remains that a step which can be taken is.
* `PolyLanesProofs` proves every property of `PolyLanes`, for every backend's lanes
  and streams and bulk calls of any length. A value that arises is always
  `Terms(S, c)`: the blocks of a set, block `b` with exponent `c - b`. Multiplying by
  `r^k` moves `c`, adding disjoint sets joins them and doubles nothing. `Inv` says that
  lane `l` holds the blocks of its place in the groups taken so far (`LanesDealt`), that
  the cache holds the newest blocks in order, and in the finalisation what is folded
  already. `FoldGroup` is the heart: with the lanes' weights the exponents meet at one
  `c`, so the lanes sum to Horner's evaluation of all they took. `TagIsHorner` and the
  refinement of `Horner` follow from `OutcomeIs`: whatever is deferred, the stream if it
  ended now would hash to `Evaluated(n)`.
* `InPlaceAeadProofs` proves both invariants of the promise from
  `Inv`: below the cursor everything is output, above it input.
* `ChachaXorProofs` proves `AsScalar` and `WholeBlocksRaw` for every length and
  backend. It rests on two facts about the tables: the four numbers of each loop agree
  (`LoopsAgree`), and the last loop takes single blocks (`LastSingle`), so that no
  whole block is left for the scalar code. `Inv` adds that the kernels have stored
  what the cursor has passed and that the counter cannot wrap before the last block of
  the buffer, which is what `MAX_LEN` secures.
* `AeadApiProofs` proves every property of `AeadApi` for any set of
  contexts, sizes and number of calls. `OpenedWasSealed` and `MaskedUnlessReused`
  are not inductive: a tag in a buffer may come from anywhere. `Inv` says of every
  byte of every buffer where it can come from: a tag byte from a message that was sealed, a mask from a keystream
  that was applied or from damage; of every sealed message that its
  ciphertext is its plaintext under its stream; and that after a failed append
  the buffer is a sealed ciphertext. The first makes an
  authentic tag imply a seal, the second makes deciphering give the plaintext back, the
  last gives `RetryUndoesSeal`. On it rest also `SealedOpens`, `OnlyTagsDropped` and
  `InsideFootprint`, from lemmas that name the call a step was (`CallsNamed`) and cut
  what was put together (`CutBytes`, `OverKeeps`); and `NoKeystreamTwice`, from a
  bound on the lengths sealed: below `MAX_LEN` the counter neither wraps nor is 0
  (`CounterInRange`), and a keystream names all of its key and nonce
  (`StreamsDiffer`).
* `MacBytesProofs` proves `NothingDropped` and `NothingPending` for all
  lengths. `Inv` is that the blocks and the pending bytes are the first bytes of
  `mac_data`, and how many they are at each `pc`; `UpdateTakes` is the lemma on
  `Poly::update`: if a segment is what comes next in `mac_data`, it is taken whole.
* `DispatchProofs` proves `OneBackend`, `ProbesOnce`, `PublishedForGood`,
  `OnlyRunnable`, `Widest` and `TypeOK` for any number of threads, calls and builds.
  Its `Inv` says that `order` is one 0 followed by copies of the id that `Detected`
  gives, that a thread past its load holds that id or is about to detect it,
  and that the id maps back to a kind that is compiled in and runnable.
  `CallsNeverWait` gives each thread a `Turn`, four for a call and one for each step
  inside it: every step of the program brings one thread's turn on, up to the end of its
  calls, and no thread is set back by another. A call thus ends after at most four
  steps of its own, whatever races for `KIND`; of `AllCallsMade` the fairness remains.
* `ChachaLayoutProofs` proves the four properties of `ChachaLayout`, for any number of
  register groups where the layout admits more than one, with the store kinds of the
  kernels, for any set of tails, and for a counter of any width and wherever the kernel
  starts it. In a row layout lane `l` of row `r` holds column `l % 4` of
  the block `RowBlock(g, l)` (`LoadedRow`); the turns between the rounds move words
  within a row's 128-bit lanes (`SourceLane`), by selectors that undo each other
  (`SelectorsUndo`), and meanwhile lane `l` holds one diagonal of the same block
  (`TurnedWord`). So `Inv` has the registers of each stage: `Loaded`, or `Slanted`
  between `to_cols` and `to_rows` (`Placed`), which gives `FeedForwardAligned` at once.
  `RoundsAreScalar` needs both inclusions: each lane meets a scalar quarter round of its
  block, and each quarter round of each block has a lane (`RowBlockAll`). `BlocksInOrder`
  rests on `EmittedIs`, and that on `TransposedIs`: what the two interleavings of
  a word group put in lane `4 B + c` of piece `j` is word `c` of block `4 B + j`.
  `StoresCoverMessage` rests on `FirstWords` (whole blocks and the two masked
  halves make one run of words) and `GivenFits` (a message that a caller gives to a
  kernel fits in its blocks, the key's apart).

Only model-checked, and why:

* `Terminates` and `AllCallsMade`: liveness under fairness is out of the prover's
  reach. `EveryStepNearer` and `CallsNeverWait` are what can be proved of them: a bound on the
  steps. That a step can be taken until the end (`ENABLED`) is left to TLC.
* `Secrets`, whose run is expected to find its property violated.

## Not modelled

The arithmetic of ChaCha20, HChaCha20 and Poly1305: what a quarter round computes,
limbs and carries. In the engine a keystream block is a value named by its counter
and a MAC is the sequence of blocks it took; in the API a tag is named by what it is
computed from. 32-bit rotations and 130-bit carries are beyond TLC's reach, and an
abstraction of them would check nothing of the code.

The rotated order in which the fused AVX-512 kernels store their blocks between the
MAC's loads (`emit16o`, `reload16`) is in `FusedEngine` by the unit: what a MAC load
reads is the version of the buffer before or after the iteration. NEON's and the
scalar `gen_ks_small` and `gen_key_xor2` call whole kernels in turn and are not in
`ChachaLayout`.

That the tag comparison takes constant time, and that scrubbing survives the
compiler, are matters of the compiled code. Keystream buffers are not in `Secrets`,
since nothing is promised of them. `getrandom` is external. Debug formatting, the
conversions into `Payload`, the tests, benchmarks, fuzzers and examples have no
state of their own.

## Plan

1. The engine, the cache, the promise, dispatch and the build: done.
2. The lane algebra of the Poly1305 backends against Horner's rule
   (`PolyLanes`), the register layouts (`ChachaLayout`) and the cascades
   (`ChachaXor`): done.
3. The byte-level wrapper (`MacBytes`), the stores of the kernels, the public API with
   its failures and retries (`AeadApi`), and scrubbing (`Secrets`): done.
4. Proofs: every safety property of a passing run is a theorem, so are the
   refinements of `InPlaceAead` and `Horner`, and what liveness rests on but
   fairness: done.
