# TLA+ models of BitZ

BitZ proves statements about committed bits: a circuit's constraints are folded
into one linear claim modulo a random prime, the claim into exponents of a
generator of F_2^128, the exponents' images into grand products, and what
remains is opened against a polynomial commitment. This directory holds TLA+
models of that code, their TLC runs and TLAPS proofs.

## Inventory

| Component | State | Operations | Correct when |
|---|---|---|---|
| `field::DynField` | five process-wide atomics | `set_modulus`, every field operation | operations of one call see one prime, its own |
| `CircuitProofSystem` (`tooling/cli`) | `DYNAMIC_MODULUS_LOCK` | `prove`, `verify` | concurrent calls behave as calls one at a time |
| `field::helpers` | none | Barrett reduction, wide product, primality | exact for every admissible modulus |
| `field::Fq`, `DynField` elements, codec | none | sums, products, sampling, wire form | they are the field modulo q; a residue of another modulus is refused |
| `field::F128` | none | arithmetic in words, unreduced sums, powers, inverse | it is the field of 2^128 elements |
| `common` | none | shapes, parameters, claims, packed tables and their transpose, folds, virtual maps | exponents cannot wrap, folds reconstruct the claim |
| `gkr` | point, claim, prefix; the prover's tables | one layer per halving: rounds, exit | complete; each challenge has few bad values |
| `prover`, `verifier` | a transcript each | bind, fold, reduce, open | same script on both sides; sound and complete |
| `transcript` | sponge, narg string, hints | absorb, squeeze, grind, hint, end check | both sides draw the same challenges; nothing is left over |
| `pcs` | commitment, Flock's challenger | commit, ring switch, Ligerito | the backend's calls follow the schedule; hints agree with absorbed data |
| `post_gkr` | table being folded | rounds, evaluation | as `gkr` |
| `spartan` | matrices under the prime | sumchecks, matrix evaluation | as `gkr` |
| `circuit` | builder state, tapes | witness generation, constraint and product recording, transposed evaluation | the backends agree on a circuit |
| `host` | reader position | encode, decode | one spelling per proof, no length wraps |
| `tooling/cli` other | none | arguments, reports | - |

Components interact in three ways: the modulus is shared memory between every
call in the process; prover and verifier exchange one wire of two streams (the
narg string, which the sponge absorbs, and the hints, which it does not); and
each layer passes a claim down to the next.

What is hard: the unordered words of the modulus; values that outlive the lock;
prover and verifier being two programs that must make the same sequence of
transcript calls; an adversarial prover choosing each message after the
challenges before it; arithmetic edges (wrapping exponents, zero coordinates,
carries, quotient corrections).


## Modules

| Module | Models | Checked by | Proved in |
|---|---|---|---|
| `ProofCalls` | calls of `prove` and `verify` and what they return | with `Modulus` | |
| `AtomicProofs` | abstract: a call takes its arguments, decides at one instant, returns | as property `BehavesAtomically` | refinement in `ModulusProofs` |
| `Modulus` | the lock, the five atomic words, pool workers, residues in proofs | `modulus`, `modulus_contract` | `ModulusProofs` |
| `FieldMetadata` | Barrett reduction, wide product, primality; the elements of `Fq` and `DynField`, sampling, wire form; the search for a random prime | `field_metadata`, and `MCModulus` takes its metadata from it | `ArithmeticProofs`, but for primality |
| `BitMatrix` | `BitTable`, `BitMatrix` and the blocked transpose | with `BitZReduction` | |
| `BinaryField` | `F128` as polynomials: products, powers, combs, inverse, generators | `field_metadata`, and with `BitZReduction` and `PostGkr` | |
| `FieldWords` | the same products in two words, and unreduced ones in four | `field_metadata` | |
| `Parameters` | shapes, the width of the prime, the gates of parameters and claims | with `BitZReduction` | `ArithmeticProofs` |
| `GrandProduct` | one layer of the grand product | with `BitZReduction` | |
| `BitZReduction` | the fold round, the grand products and the final query, arbitrary prover | `reduction` | |
| `Transcript` | sponge, narg string, proof of work | with the two below | |
| `Challenger` | the adapters between the Ligerito backend and the transcript | `challenger` | `ChallengerProofs` |
| `BitZScript` | the transcript calls of every function of either side, in order | with `Protocol` | lemmas in `ProtocolProofs` |
| `WireProof` | crate `host`: a proof as one byte string, written and read | with `Protocol` | `ProtocolProofs` |
| `Protocol` | both sides running their scripts over a proof that may be changed | `protocol` | `ProtocolProofs` |
| `PackedWords` | bits packed into words: `PackedBits`, `PackedWitness`, the packed constructors of `Z` | with `PackedBits` and `BooleanSide` | `PackedWordsProofs` |
| `PackedBits` | one bit string in both representations, under every call | `packed_bits` | `PackedBitsProofs` |
| `MatrixTranspose` | the recorder of the transposed Boolean matrix, its counting sort and its use as a virtual map | with `BooleanSide` | lemmas in `BooleanSideProofs` |
| `Constraints` | linear combinations over F_2 and the matrix `M`; over the integers and `A`, `B`, `C` | with the two sides | Boolean half: lemmas in `BooleanSideProofs` |
| `BooleanSide` | one circuit on `Witgen`, `ConstraintGenerator` and `MTransposeGenerator` at once | `boolean_side` | `BooleanSideProofs` |
| `FixedIntegers` | `Z<LIMBS>`: two's complement in a fixed number of words | with `IntegerSide` | |
| `Wengert` | the reverse-mode tape: recorder, pruning and levels, the pass; the column-major matrices | with `IntegerSide` | |
| `IntegerSide` | one circuit on `ProductWitgen`, `ConstraintGenerator` and `WengertGenerator` at once | `integer_side` | |
| `ModularWords` | stored integers, their reduction, Montgomery residues of two words | `modular_words` | |
| `Sha256` | the gadgets of `sha256.rs` on words of any width, their hints, and the standard's functions | with `EcdsaSha256` | |
| `P256` | word division and the hints; relaxed residues, zero tests, selections; complete point operations | with `EcdsaSha256` | |
| `Multilinear` | multilinear polynomials of crate `poly` over any field | with the next ones | |
| `SpartanKernels` | the two sumchecks' kernels; sparse matrices, digest, binding of the rows | with `Spartan` | |
| `Spartan` | from a circuit's matrices to the linear claim, prover and verifier | `reductions` | |
| `PostGkr` | from a commitment and a query on the bits, direct or through `M`, to what the backend is asked, with the arithmetic of crate `pcs`: partial evaluations, their batching, both sides' basis, the out-of-domain claim | `reductions` | |
| `EcdsaSha256` | the circuits `sha256_2kb`, `verify_digest` and `verify_2kb_message`, step by step | `ecdsa_sha256` | |

`Modulus` EXTENDS `ProofCalls` and instantiates `AtomicProofs`. `BitZReduction`
EXTENDS `GrandProduct`, which EXTENDS `BinaryField`, and `BitMatrix` and
`Parameters`; `MCFieldMetadata` EXTENDS
`FieldMetadata` and `FieldWords` and has two instances of `BinaryField`. `SpartanKernels`
EXTENDS `Multilinear`, and `Spartan` is an instance of it over F_P; `PostGkr` EXTENDS
`BinaryField` and instantiates `Multilinear` over it; `MCReductions` runs both on one set of
variables. `EcdsaSha256` EXTENDS `Sha256` and `P256`. `Challenger` and `BitZScript` EXTEND `Transcript`; `Protocol` EXTENDS
`BitZScript` and `WireProof`. `PackedBits` EXTENDS `PackedWords`; `BooleanSide`
EXTENDS `PackedWords`, `MatrixTranspose` and `Constraints`; `IntegerSide` EXTENDS
`Constraints` and `Wengert`, which EXTENDS `FixedIntegers`, as `ModularWords`
does. Modules `MC...` give the constants their small values; `PackedBits`,
`BooleanSide`, `IntegerSide` and `ModularWords`, whose constants are numbers, are
run as they are. Definitions after a comment `Mistake:` are wrong on purpose: each
replaces the definition after it to show that a property notices
(`PROJECT.json`, "mutants").

### Modulus

A caller is a thread in `CircuitProofSystem::prove` or `verify`. `Call` and
`Acquire` are entry and `DYNAMIC_MODULUS_LOCK.lock()`, poison ignored as in the
code; `DrawPrime` is `squeeze_prime`; `StoreWord` is one `store` of
`global::store`; `Project` and `Validate` are the two ways a residue comes into
being (integers reduced, a proof's residues checked); `LoadWord` is one `load`
by a pool worker in the middle of a field operation; `Finish`, `FailLate`,
`Panic`, `RejectNonCanonical` and `FailEarly` are the ways out, all through the
guard's drop. `Return` hands over the value when the lock is long free. The
words have no ordering in the code (`Relaxed`); interleaved single-word steps
under a mutex cover what the mutex's acquire and release allow.

`ComputesUnderOwnPrime` relates every loaded word to the prime of the call's own
root. `BehavesAtomically` is refinement of `AtomicProofs`, where there is no
modulus at all: it fails if a residue of one prime is used under another.
`HoldersReturn` is the liveness of the lock.

*Fairness.* Weak fairness of each holder's next step, because a running thread
runs; weak fairness of *some* waiter acquiring a free lock, because that is what
`std::sync::Mutex` gives: it is not fair to a given waiter, so no property claims
that every caller gets its turn.

*Finding.* `set_modulus` asks that no element of the field be alive in any
thread, and a comment in `under_prime` says so. Run `modulus_contract` shows an
installation while proofs carry residues of another prime. The code is saved by
`validate_proof_fields`, which `BehavesAtomically` needs.

### FieldMetadata

The arithmetic of `field::helpers` keeps the width the code gives every intermediate: a
double word is `Width` bits, the remainder of the long division doubles modulo 2^`Width`,
the quotient estimate is subtracted modulo 2^`Width`, and `mul_wide` adds back the carry of
the middle sum. `MultiplicationIsExact` is about products over the whole range of both
factors and about Barrett's two corrections.

Over it are the two prime fields. An element is its representative, m the metadata an operation loads. The two fields
are two programs and written twice, as in the code: `Fq` trusts its type, `DynField`
asserts that its operands are reduced by the modulus installed now. In
`MCFieldMetadata` an operand outlives its modulus (`set_modulus`), and
`OperationsAreExact` says when that is refused; a residue that happens to be below
the new modulus too is taken as it stands, which is why `Modulus` is about the lock.
The same property counts the accepted preimages of each residue under rejection
sampling and reads wire forms, refused ones too, with the cursor. Powers, inverses and
quotients are `unimplemented!` in both fields.

The prime of a call is searched for: `Candidate` masks and sets bits of drawn bytes,
`MillerRabinBase` draws a base below the candidate and `Passes` is the strong round. `PrimalityIsExact` counts, for every
candidate, its preimages and those of each base, all equally many, and the bases a
number passes: all for a prime, at most a quarter for a composite.

### BinaryField, FieldWords

`BinaryField` is the definition: polynomials of any degree, reduced term by term,
with the code's powers (square and multiply, a table of windows), its
addition-chain inverse and its test of a generator. Other modules compute with its
tables. `FieldWords` is the portable implementation, word by word: products of
words as a low and a high one, the high words folded down by the reduction and
what they spill folded again, sums of products that are reduced once, and the
shift that multiplies by X. `BinaryFieldIsExact` compares the two, and powers and
inverses with repeated products.

### Parameters

`Shapes` are what `Shape::new` lets pass, `shape_for` and `for_log_bits` the two
ways of choosing one; a refusal is the empty set. The prime is drawn by width, from
both sides' transcripts, *before* `BitZParams::new` sees it, so a prime it refused
would fail an honest proof on some draws only. `BitZReduction` starts from every
prime a shape may draw and goes through the gates; `HonestProverSucceeds` says none
refuses, for a circuit of any size, and the widest fold is at the bound. The theorems
say it for all shapes.

### BitMatrix

The table as words of `BITS` bits, column after column. Columns are folded from their
words; the leaves of the grand products are the rows of the transposed matrix, moved
in `BITS x BITS` blocks by passes of swapped lanes. The claim's meaning (`BitAt`) reads
the table bit by bit, so `HonestProverSucceeds` relates the two orders.

### BitZReduction

A state is a point of the protocol: a prime drawn, folds expected, rounds of a layer, opening.
The prover's folds, round messages and exit pairs are free, so the run covers
provers that lie; the honest ones are among them. `Truth` is what the tables say
at the point reached. A challenge that makes a false claim true sets `lucky`, and
`LuckIsBounded` counts those challenges over the whole field against the
coefficient the code hands to `grinding_bits`. `HonestProverSucceeds` has the
completeness half, with zero coordinates, where prover and verifier both switch
to sending the value at one.

### Transcript, Challenger

The sponge is the list of what it absorbed, with a mark for each squeeze; a
challenge is a function of the sponge before it, so two sides draw the same
challenges exactly when their sponges are equal. No record or public value is
delimited, as in the code. `find` may return any nonce that works; the code takes
the first, which is one of them. In `Challenger` the backend's calls are
arbitrary, on either side, and so is the narg string a dishonest prover sends;
`meant` is what the backend thinks was absorbed. The adapters return no errors:
they note disagreements and go on, so everything hangs on `failed`, the schedule
and the target prefix being asked for at the end (`Finish`). The hint stream is
the backend's own copy of the values and needs no variable.

### BitZScript, Protocol

Every function that touches a transcript is one operator returning the steps it
makes, prover and verifier apart, with the same difference in shape as the code:
the prover peels the last round of a layer and the first round of the sumcheck
off their loops; it writes its hint last and the verifier reads it first. Values
that both sides derive from what is already absorbed are one symbol. `Protocol`
runs the prover's script, puts both streams in a container (`WireProof`) and hands over
its bytes: as they are; with one cell of either stream altered, dropped or inserted, or
the streams divided elsewhere, in a container that is well formed; with the container cut, continued or a byte of its
header changed; or to a verifier of any other statement. Bytes that do not decode are
rejected, and on what they decode to the verifier's script runs. A hint stands behind its length and
under a limit. The command line hands proofs over in memory, which is the container
unchanged. A check that reads
anything changed may go either way, so the properties hold whatever the
arithmetic decides.

### PackedWords, PackedBits

A word is the set of the positions of its one bits. The packed operators follow
the code word by word (two shifted words for a slice, the one-word shortcut of
rotations and shifts, the split append); `PackedBits` drives them beside the plain
array of the scalar representation through any sequence of calls and appends the
string to a packed witness. A state is reached by many routes, so the invariants
say that packing loses nothing *and* leaves clear bits where the code later relies
on them. `from_packed_prefix` clears the top of the last word the *limbs* keep;
`PrefixIsLowPart`, a part of `SameBits`, is stated for widths the limbs hold, which is what the code's
contract on the caller's bound says.

### Constraints, MatrixTranspose, BooleanSide

`BooleanSide` is a circuit function running on three backends at once: an action
is one method of the trait `Circuit`, made on all three with handles made before,
and which method with which handles is free, so a behaviour is a circuit. `Witgen`
is concrete (bits, the witness f, the integer witness h); `ConstraintGenerator`
keeps a constant and a sorted list; `MTransposeGenerator` keeps a support, inline
or in its arena. `Finish` is the counting sort into columns and `Transpose` the
virtual map on it, with one weight too few, exactly enough, or one more. Weights
are sets under symmetric difference, so that an equation on them holds for all
weights of F_2^128. There is no common abstract circuit to refine: it would have
to be one of the backends; the properties relate the three instead
(`BackendsAgree`, `IntegerWitnessIsImage`, `TransposedClaimHolds`).
Left out: a failing hint (the run aborts), counters of 32 bits (abort) and the
check that a handle belongs to its recorder.

### FixedIntegers, Wengert, IntegerSide

The other half of a circuit: integers of fixed widths that wrap
(`ProductWitgen`), exact linear combinations (`ConstraintGenerator`) and the tape
(`WengertGenerator`), again driven by any sequence of calls of the trait. Values
of `ProductWitgen` are functions of the assignment of the columns, so one
behaviour follows a circuit for all its witnesses. `held` collects the
assignments under which no integer has left its width so far: the code asks the
writer of a gadget for exactly that and checks it nowhere, so `WrappingIsExact`
and `SameVerdict` speak of those assignments only; what a value that did wrap
does later is in the model and reached.

`from_recorder` keeps what a constraint can reach, takes the inputs of packed
lifts out, and puts a node one level after its last use; `tape_apply` runs the
levels and then the columns, chunk by chunk, where `OutputChunk` is the loop that
alternates between single columns and segments of lifts. The pass is linear in
its weights (r, x r and x^2 r for each row), which the model keeps as symbols: the
equality of `TapeIsProduct` is one of integer coefficients and holds modulo every
prime. Left out: Montgomery form, the shared table of coefficients, the choice
between sequential and parallel loops (the loops write disjoint places and read
earlier levels only), reuse of a prepared evaluator, and the sparse shortcut for one edge without
roots, which computes the same sum. The reference is the generated matrices in
the column-major form of `MaterializedAbc`, with its classes of coefficients.

### ModularWords

What `IntegerSide` abstracts: a value on its way through a prepared evaluator, in
Montgomery words, beside the residue it stands for. `AddChallenge`,
`MultiplyChallenge`, `Scale` and `DoubleValue` are what the reverse pass and the
sparse evaluator do to a value. Words and double words keep their widths:
`reduce_step_2` estimates, lowers and adds back as the code does, `Round` keeps the
carries the code keeps, `montgomery_retrieve_2` subtracts nothing. `reduce` has
both of its ways, by words for a modulus with its top bit set and by bits
otherwise. `StoredAlike` takes an integer from every width, from arbitrary
precision and from the shortcut of `spartan`'s matrix digest. The conversion into
Montgomery form and the inverse of the modulus are the library's.

### Sha256, P256, EcdsaSha256

The public circuits. Witness generation and the constraints are the same program
on two backends (the runs before are about that), so here a gadget is one
operator from values to the *set* of values its constraints leave possible: with
`prover = "honest"` the hint is the code's own computation (`P256` has the word
division with its estimate, its correction and its add-back), with `"any"` it is
every word for which the constraints hold. An empty set is an unsatisfied
constraint. A residue is a word below 2^`WIDTH`, canonical or not (`rep` carries
the bound as in the code), a point has its flag of infinity, and `EcdsaSha256` takes
one gadget a step: schedule words, rounds, the additions of the state, the
multiples of the key, the doublings and additions of the joint multiplication.

`AccumulatorHoldsPrefix` follows the joint multiplication against the group law on
logarithms; `AcceptedIsSigned` is soundness against ECDSA's definition,
`HonestIsAccepted` completeness; `HashIsStandard` compares each step with FIPS 180-4's.
What honest hints are refused for is not being a signature, so completeness and
soundness together say that the circuit *is* the relation.

### Multilinear, SpartanKernels, Spartan

`Spartan` is one call of the proof system from the statement on: the shapes are
compared (`Prepare`), the assignment is committed and, where the opening does not see
the constant one, its first bit is opened (`OpenConstant`), the matrices are taken
modulo the prime (`UnderPrime`), tau is drawn, and the outer and the inner sumcheck
send a polynomial and draw a challenge a step, up to the linear claim on the
assignment. The honest prover keeps what the code keeps: folded tables, the two
factors of eq, bound one after the other, and the coefficients of the coming round
but the linear one, which it computes while it folds. The other prover sends anything.
`ClaimHolds` says what the running claim means of tables bound by definition, so that
`TrueClaimsSucceed` compares the fused traversals with it at every round. The rows are
bound in chunks of columns; the digest is the sequence of words the code hashes, on
which `DigestBinds` compares each statement with those a slip away from it. Left out:
scratch buffers that are written before they are read, and the thread-pool variants,
which compute the same tables in chunks.

### PostGkr

A query on the claimed bits, inner product or equality weights, reaches the committed
ones directly or through the transpose of `M`: the weight of the constant one moves to
the target, padding is checked and added. The first round and the first fold work on
packed elements, bit by bit, the rest on tables; prover and verifier are as above.
`ReductionHolds` is the claim's meaning on tables bound by definition. The last
comparison divides by nothing: at a zero weight it says nothing about the value sent, and
the opening must.

`Commit` draws the point of the out-of-domain claim at the lower level; the claim waits
in `ood`. `SendClaims` is the partial evaluations and the check of their sum,
`DrawBatching` the batching with the claim's coefficient: the target by the transposition of
blocks the code uses, the prover's basis as a table (`DenseBasis`). `OpenBatched` stands for Ligerito: it
accepts true equations when the verifier's basis, evaluated at the challenges where the
backend stops folding (`SuccinctBasis`), is the prover's. So `TrueClaimsSucceed` compares
the bases at every depth, `UnluckyStayFalse` covers a false out-of-domain claim too, and
`FewLuckyChallenges` counts batchings against the 7, or 8, coefficients that are ground for.

## Runs

| Run | Distinct states | Shows |
|---|---|---|
| `modulus` | 72,473, seconds | types, own prime, refinement, holders return |
| `modulus_contract` | counterexample | the documented precondition does not hold |
| `field_metadata` | 122,899 (every operand), a minute and a half | multiplication, all three fields and primality exact |
| `reduction` | 40,088, a minute and a half | no drawn prime refused, soundness, bad challenges counted, completeness |
| `challenger` | 2,070,835, half a minute | absorbed as meant, schedule followed, one narg string per hint |
| `protocol` | 90,969, seconds | lockstep, statements apart, no early challenge, work sufficient, one container for an accepted proof |
| `packed_bits` | 65,025, three quarters of a minute | packing exact at every boundary of words |
| `boolean_side` | 474,630, half a minute | backends agree, M (1 \|\| f) = h, transposed claims |
| `integer_side` | 317,501, a minute and a half | wrapping exact within widths, one verdict, the tape is r (A + x B + x^2 C) |
| `modular_words` | 1,023 (655,774 steps), a quarter of a minute | evaluator exact, one stored form |
| `ecdsa_sha256` | 20,920, half a minute | what satisfies the circuits is what the standards accept |
| `reductions` | 67,236, three quarters of a minute | Spartan, the bit reduction and the ring switch: sound, few bad challenges, complete; the digest binds |

Bounds, and why they are enough:

- `modulus`: two callers, two workers, two primes that differ in all five words,
  one integer that is a different residue under each. Interference is between
  two holders; a third adds none. A worker's loads are of one operation, every
  operation loads afresh.
- `field_metadata`: words of five bits, every operand of every admissible
  modulus below 2^6, of 113 and of 255 (`Moduli` says why these), both bases of the primality test; every reduced operand is carried to
  every other prime, sums and products of three have the outer operand 1 or q - 1. The quotient correction and the
  carries depend on ratios of widths and not on 64; `MAX_MODULUS_BITS` leaves the
  same two bits. Elements of F_2^n: the field of 64, windows of one and four bits, the
  second reaching past the degree; products of words of five bits modulo
  X^10 + X^3 + 1, where the first fold spills two bits, with all top parts.
- `reduction`: F_32 with rows x columns 4 x 2 and moduli 5 and 7, the primes of the
  shape's width, so that the largest honest fold (24) is below the order (31) and a
  dishonest one (32) is not; windows of two bits, the last past the degree; circuits
  of all sizes up to 32 bits, shapes of 8 to 32 bits with every number of rows; two
  layers, the second at a point with earlier challenges. Words of two bits: a column
  is two words, the transpose two blocks of one pass. Draws are restricted to
  0 and 6 along a behaviour, round sums to three values and one leading
  coefficient; `LuckIsBounded` and `HonestProverSucceeds` quantify over the whole
  field at each state.
- `challenger`: four calls a side, three cells of narg string, one- or two-entry
  schedules: enough for a label, a target, a value and a proof of work, in every
  order, with a record missing or changed at each place.
- `protocol`: up to two rows and three columns in logarithms, none included; both
  levels; direct and virtual; every public input with a second value. Public
  values are taken from the values lengths and cells have, so that a missing
  length or label could be mistaken for one. Rows below the code's 128 only
  shorten the loops. Bytes are half as wide, the header has nine of them and 255 is the
  last address, so a length, and a sum of lengths, can exceed it.

- `packed_bits`: words of three bits and strings and witnesses of up to seven,
  so up to three words with the last one partly used, every offset, width and
  amount, and every second operand of a xor.
- `boolean_side`: one input, hints and packed words of two bits in words of two
  bits, seven expressions (five made by the circuit), two rows beside the constant
  one. One entry is kept inline instead of four, so that every sum of two columns
  goes to the arena, also sums of such sums.
- `integer_side`: words of three bits, integers of one and two words, so that sums
  of three bits and negations leave the width; four columns, chunks of two, lifts
  of up to three bits with every low part, so that a lift and its low part begin,
  end and are cut on and off the boundary of a chunk; four integers and a constraint,
  or two and two, which gives three levels, two lifts, and lifts used and not used. Constraints take
  their integers from the last three made.
- `modular_words`: words of three bits, all odd moduli of two words, all values,
  all challenges, all integers of up to three words: every quotient estimate, every
  carry and both ways of reduction, at each modulus. The algorithms use no
  property of 64.
- `ecdsa_sha256`: a curve of prime order 229 over F_251 in words of eight bits, as
  P-256 has its order just below its prime and both just below 2^256: residues
  with two words, an x above the order and all exceptional additions occur at
  chosen keys, nonces and digests. Divisions use four words of two bits. Windows
  of two bits, bytes of four. SHA-256 runs on words of eight bits with the
  standard's constants cut to them, and on words of one bit where the digest goes
  on to the signature; rotations are taken modulo the width.

- `reductions`: the prime 5 and the binary field of 16 elements, as many bits as a packed element has. Statements from
  one row to nine rows or nine columns, empty rows, several entries a row, one to
  three variables on each side (an equality factor shrinks to one entry from three
  on), words of integers of three bits, chunks of two columns; matrices of different
  shapes and with columns out of order. Challenges 0 and 2, or 0 and 5, along a
  behaviour; a prover that sends anything picks its first coefficient or claim freely, the others from 0 and 6; `FewLuckyChallenges` counts over the whole field. Elements of four bits
  (`ELEMENT`), the chunk of an evaluation two entries (`LOW_BITS`), a block of the basis
  two (`BLOCK_LOG`), committed tables of four to sixteen bits, one to four elements.

`CHECK_DEADLOCK FALSE` stands where the system stops: a verifier that has
decided, a matrix that has been applied, or the bound on calls. `Modulus` is checked for deadlock.

## Proofs

All are for every value of the constants within the named assumptions.

- `ModulusProofs`. `TypeCorrect`, `OwnPrime` and `Linearizable` rest on one
  inductive invariant: `Exclusion` (who is between lock and unlock owns the lock),
  `InCall` (a caller that is not idle has a call), `StoredPrefix` (the words
  written so far are the owner's), `Loads` (what each worker has loaded is the
  owner's prime, and is empty elsewhere) and `Operands` (the element is a residue
  of that prime). `ComputesUnderOwnPrime` alone is not inductive: a load is right
  because all five words were stored, which holds because nobody else is between
  lock and unlock. `Linearizable` maps a caller's position to the phase of the
  atomic call and shows each step to be a step of `AtomicProofs` or a stutter; the
  step that leaves the section is where the call takes effect. Assumed
  (`ModulusAssumption`): metadata starts with the two halves of its modulus.
- `ChallengerProofs`. `AdapterTypes` and `Bound`: for any schedule, any narg
  string and any sequence of calls, sponge and meaning agree while nothing is
  noted. The types (`TypeOK`, proved and not run) and `AbsorbedAsMeant` together are inductive. The step that
  needs care is a read: the record has the length of the value and equals it, or
  the note is made. `FollowsSchedule` is about what was called, not absorbed: `Followed`
  relates a side's calls to its flags as long as nothing is noted (one entry of the
  schedule taken for each proof of work, in order; the label and the target as far as
  `prefix` says; no element before them but those of a slice being observed), each call
  keeps it or notes, and a side that returns has no note, the whole schedule behind it
  and `prefix` past the target. `HonestAgreement` is the other direction, what an untouched
  proof is owed. A *position* is what a verifier is at between two calls (sponge, unread
  stream, `prefix`, entries taken), and `Repeats` relates the positions before and after a
  call there is nothing to note about, by what the call means and not by the adapter's
  code. The invariant (`HInv`): while the prover goes on, its calls lead a verifier from
  the start, with the prover's stream and anything behind it, to the prover's position with
  just that left (`Replayable`); once the proof is handed over, the calls ahead of the
  verifier lead it to the prover's sponge, an empty stream and a used-up schedule
  (`Replaying`). The property alone says nothing of the calls to come. For each call it is
  shown where it leads (`Leads`) and that the adapter's code reaches just that (`Reaches`);
  `CallBack` draws both halves from the two. Its one hypothesis is stated in the theorem:
  no byte string is longer than the `MAX_OBSERVED_BYTES` the verifier reads back. The
  prover's adapter does not check that; the strings the repository observes are 32-byte
  roots, `Challenger.cfg` meets it, and the other theorems do without it. `Canonical` shows
  that an accepted opening has one narg string, whatever the calls and the stream: while
  nothing is noted (`CInv`), what the verifier has read, with what is left of the stream, is
  the proof, and with what is left of the slice it observes, is what its calls write. Each
  adapter reads just the cells of its call (`Unread`), or notes. That only the first element
  is absorbed without being read comes from `Followed`, by which the label and the target
  sit where `prefix` says. Assumed
  (`ChallengerAssumption`, `TranscriptAssumption`): elements, byte strings and nonces are
  streams of cells, and the mark of a challenge is no cell.
- `ArithmeticProofs`, the prime fields. `MultiplicationExact` and `OperationsExact`, for
  halves of any width. The invariant over the walk (`Operands`) is small: the modulus is admissible,
  the second operand reduced, the first one a double word. What is long is the arithmetic.
  `ProductIsExact` follows the four partial products through the two carries. `MuIsQuotient`
  follows the long division bit by bit: the remainder stays below the modulus, so doubling it
  loses nothing, and what is collected at each step (`DivisionPath`) is the quotient of the
  numerator's top bits. `Estimate` bounds the quotient from both sides: never above, and less than three
  below; `ReductionIsExact` concludes that the difference, though
  taken modulo the double word, is the true one and below three moduli, which is why moduli stay two bits below
  the width, and that two corrections are enough. `DoublingIsExact` is the reference, one bit at a
  time. `DynamicOperations` and `ConstantOperations` are the operations of the
  two fields, the assertion first; `DrawsAreFair` counts accepted draws by a bijection with the
  whole multiples of the modulus; `WireFormIsExact` reads back what was written, and
  refuses what is not reduced or cut short. Solvers have little nonlinear arithmetic, so
  every product and quotient is named, and facts about it are stated before they are used. Folds are read
  from the table of their recursion (`FoldTable`). Assumed (`PowersOfTwo`): a half has a
  bit, and powers of two are numbers that double, which is all the provers are told of `2^n`.
- `ArithmeticProofs`, the parameters. `PrimeIsAdmitted`, `WidthIsWidest` and `FoldsDoNotWrap`: the gate
  after the draw admits every number of the width, no wider interval would be
  admitted, and what the gate is for, a fold within the bound being the only one with
  its image. Linear arithmetic around one quotient. Assumed (`ParametersAssumption`):
  constants are numbers and powers of two up to the window's ends are positive.
- `ProtocolProofs`, the container. `OneSpelling` and `RoundTrip`: between containers and proofs `decode` and
  `encode` are inverse to each other, for any bytes, streams of any length and any widths. A reader's position is a sum of
  widths, so the proofs separate the arithmetic of offsets (`Offsets`, `ReadOn`) from what a slice of a concatenation is
  (`ReadAppended`, `ReadLast`). `BackstopNeverFires` is the comment in `from_bytes` that
  no test can observe its last checks. Assumed (`WireAssumption`): a number has one
  spelling in each width, and lengths fit the 64-bit fields.

- `PackedBitsProofs`. `WordsAreBits` and `WitnessHoldsBits`, for words of any width,
  strings of any length and any sequence of calls. The inductive invariant says more
  than either property: the words *are* those packed from the bits (`PackedInv`), clear
  bits behind the last one included, which appends and comparisons rely on. Each
  operation has a lemma that its words are those of the shifted, sliced, joined or
  summed bits; underneath, a bit is in one place of one word (`Divide`, `Place`), and a
  word is known by its bits. Loops that carry a value from word to word are taken by
  induction. Assumed (`WordBitsAssumption`): a word has bits.
- `BooleanSideProofs`. All five properties of the Boolean side, for circuits of any size,
  words of any width and any room for inline supports. None of them is inductive: what
  the backends keep says nothing of each other. The invariant (`BooleanInv`) says there
  are a bit string f, a bit string h and an arena of lists (`Agree`) such that the packed
  witness holds f and the integer witness h (`Packs`, with the lemmas of
  `PackedWordsProofs`); for every expression the generator's sum of columns gives the
  bit over f (`RowMeans`), and the recorder's handle names the sorted list of the same
  columns, inline or in the arena (`Names`); the rows of `M`, as generated and as stored
  end to end, give h bit by bit (`Images`, `Stored`); and a claim was made from the
  finished matrix. The constant and the inputs establish it, and each call keeps it
  (`InitAgrees`, `XorAgrees`, `HintAgrees`, `BitzAgrees`, `RestAgrees`). Underneath is that
  a set of columns has one sorted list (`ListsOnce`) and that both merges, the recorder's
  and the generator's, list the symmetric difference (`SymmetricDifference`,
  `OverlapsDropped`), which as a sum over F_2 is a parity (`SumPlus`); that
  `merge_sorted_vecs` may append when one list ends below the other (`ListsConcat`). An arena only
  grows (`Grows`), so handles keep their meaning (`HandlesStayTrue`). For `ClaimIsTransposed`
  the counting sort is a bijection from the entries of a column to its slots
  (`ColumnSlots`), an entry's row is the list it is stored in (`RowOfEntry`, `EntryOfRow`),
  hence column d of the product is the rows with an entry d (`ColumnMembers`), and summing
  columns over f is summing rows (`TransposeHolds`). Folds are taken step by step by
  induction over the table their recursion is (`FoldTable`). Assumed: `WordBitsAssumption`,
  `InlineAssumption` (room for one column), `CircuitAssumption` (numbers and widths).
- `ProtocolProofs`, the protocol. The two programs are compared once and for all
  statements, any number of rows, columns and rounds. A script *takes* a value to another
  when each of its steps does (`Takes`). What concatenation keeps is closed (`Closed`),
  and both programs are put together from pieces a closed set has (`ProverIn`,
  `VerifierIn`); `Same` says of two scripts that they take every value to the same ones,
  which `ScriptsSame` shows of the two programs wherever checks and hints count for
  nothing and absorbing at once is absorbing in parts (`Neutral`): this is where the round
  peeled off a loop meets the loop. Four readings of a script follow: cells on the wire
  (`CellSteps`), checks owed (`OwedSteps`), bad challenges and bits of work
  (`GroundSteps`), the two streams (`LockSteps`).
  In the state machine each becomes an invariant about what is *left* of a script: with
  the property alone nothing is known of the steps to come.
  `Typed` and `Written` say what a prover has written when it is done; on them rest
  `Covered`, the rest pays what is owed before it draws (`ChecksBeforeChallenges`);
  `Consumed`, what was read and what is left are the proof (`WholeProofs`, with
  `OneSpelling` of the container); `Grounded`, the rest goes on from the present count
  without leaving the level (`DrawsAreGround`); and `Led` and `Retraces`, a verifier
  with an unchanged proof is on a path of its script that ends where the prover's sponge
  did (`SidesInLockstep`; that it is not refused needs `RoundTrip`). Assumed
  (`ScriptAssumption`, `ProtocolAssumption`): tags are distinct and no cells; statements
  are as the shapes of the code allow, with 64-bit lengths and so few bits that
  out-of-domain sampling at the lower level needs no work beyond 128.
- `InductionLemmas`. Induction over the naturals for a set, by well-founded induction, and
  what it gives about `FlattenSeq`, of which repetition and concatenation of scripts and
  words are made. A sequence of steps *takes* a value to another (`Takes`) when each step
  does: what that says of a joined sequence, and of the first step of one, serves the
  scripts of the protocol and the calls of the challenger alike. A fold of the community
  modules over a sequence is the last entry of a table with one line for each set of positions, which
  exists and is determined by its steps (`FoldTable`): both arithmetic and circuits read folds from it.

Model-checked only: `HoldersReturn` (liveness is outside the prover's reach);
`StatementsApart`, which needs the encodings of two statements never to be prefixes of each
other, a fact about the numbers in them; `PrimalityIsExact`, which is number theory (who
passes the strong round, for how many bases); `BinaryFieldIsExact`; and everything of `BitZReduction`,
`IntegerSide`, `ModularWords`, `EcdsaSha256`, `Spartan` and `PostGkr`: there the
properties are identities of polynomials, sums and merges over data or counts over a
whole field, for which the installed provers have no algebra.

## Not modelled

SIMD kernels of F_2^128 (differential tests against the portable words, which are
modelled), the Ligerito backend `flock-core` (external library; its calls are
arbitrary),
command line, benchmarks, span statistics. The
interpolation of `nat_evaluation.rs` has no caller but its benchmark. The ladder of
backend parameters (`profiles.rs`) is computed in floating point. Hash functions are injective symbols:
no model speaks of the probability of a collision. Memory limits and panics from
allocation are left out. Callers of `prove` and `verify` are threads of
their own, as in the repository: a call made *from a worker of the rayon pool* could
be stolen by the thread that holds the lock and wait for itself, and no caller here
does that.

## Plan

Done: 1 to 9. Order is by how much of the protocol's correctness hangs on a part.

1. `Modulus`, `FieldMetadata`, `BitZReduction` with the modules they rest on.
2. `Transcript`, `Challenger`, `BitZScript`, `Protocol`.
3. Circuits: `PackedBits`, `BooleanSide`, `IntegerSide`, `ModularWords`, `EcdsaSha256`.
4. The reductions: `PostGkr`, `Spartan`.
5. Sampling of primes; `WireProof` in `Protocol`, with its proofs.
6. The ring switch with its arithmetic, behind `PostGkr`'s evaluation.
7. `FieldWords`; `Parameters` in `BitZReduction`, with its proofs.
8. `PackedBits`, `BooleanSide`, four properties of `Protocol` and all of `Challenger` proved.
9. `FieldMetadata`: multiplication and the operations of both prime fields proved.
