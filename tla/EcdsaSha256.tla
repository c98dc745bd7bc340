----------------------------- MODULE EcdsaSha256 -----------------------------
(***************************************************************************)
(* The public circuits of circuit::sha256, circuit::p256 and               *)
(* circuit::ecdsa_sha256 as one machine: a job hashes a block-aligned      *)
(* message, verifies a signature of a digest, or hashes and verifies.  The *)
(* machine builds the circuit step by step and holds the values its        *)
(* witness gives them; where some hint violates a constraint or its        *)
(* closure fails there is no next value, and the proof is rejected.        *)
(***************************************************************************)
EXTENDS P256, Sha256

CONSTANTS NibbleBits,  \* bits of a window of the variable base, 4 in the code
          Jobs         \* what is hashed and verified

VARIABLES pc, job, chain, words, schedule, block, digest, scalars, table, acc, round

vars == <<prover, pc, job, chain, words, schedule, block, digest, scalars, table, acc, round>>
hashing == <<chain, words, schedule, block>>
verifying == <<scalars, table, acc, round>>

Entries == 2 ^ NibbleBits
ByteBits == 2 * NibbleBits
RoundCount == WIDTH \div ByteBits
w == job.word_bits

\* A window of a canonical scalar, as the combination of its lifted bits.
lifted(scalar, i) == (scalar \div 2 ^ i) % 2
scalar_window(scalar, start, width) ==
    FoldLeft(LAMBDA sum, bit : sum + lifted(scalar, start + bit) * 2 ^ bit, 0,
             [i \in 1..width |-> i - 1])

Init ==
    /\ prover \in {"honest", "any"}
    /\ job \in Jobs
    /\ pc = IF job.kind = "verify" THEN "inputs" ELSE "block"
    /\ chain = IF job.kind = "verify" THEN <<>> ELSE initial_state(job.word_bits)
    /\ words = <<>> /\ schedule = <<>> /\ block = 0
    /\ digest = IF job.kind = "verify" THEN job.digest ELSE 0
    /\ scalars = <<>> /\ table = <<>> /\ acc = infinity_point /\ round = 0

Reject ==
    /\ pc' = "rejected"
    /\ UNCHANGED <<prover, job, digest>> /\ UNCHANGED hashing /\ UNCHANGED verifying
-----------------------------------------------------------------------------
\* sha256_block_aligned_circuit and compress.
LoadBlock ==
    /\ pc = "block"
    /\ schedule' = BlockWords(w, job.message, block)
    /\ pc' = "schedule"
    /\ UNCHANGED <<prover, job, chain, words, block, digest>> /\ UNCHANGED verifying

ExtendSchedule ==
    /\ pc = "schedule" /\ Len(schedule) < 64
    /\ IF Extensions(w, prover, schedule) = {} THEN Reject
       ELSE /\ \E word \in Extensions(w, prover, schedule) : schedule' = Append(schedule, word)
            /\ UNCHANGED <<prover, pc, job, chain, words, block, digest>> /\ UNCHANGED verifying

StartRounds ==
    /\ pc = "schedule" /\ Len(schedule) = 64
    /\ words' = chain /\ round' = 0 /\ pc' = "rounds"
    /\ UNCHANGED <<prover, job, chain, schedule, block, digest, scalars, table, acc>>

Compress ==
    /\ pc = "rounds" /\ round < 64
    /\ LET next == Rounds(w, prover, words, ROUND_CONSTANTS[round + 1], schedule[round + 1])
       IN  IF next = {} THEN Reject
           ELSE /\ words' \in next /\ round' = round + 1
                /\ UNCHANGED <<prover, pc, job, chain, schedule, block, digest, scalars, table, acc>>

AddState ==
    /\ pc = "rounds" /\ round = 64
    /\ LET next == Outputs(w, prover, chain, words)
       IN  IF next = {} THEN Reject
           ELSE /\ chain' \in next
                /\ block' = block + 1
                /\ pc' = IF block < Blocks(w, job.message) THEN "block" ELSE "hashed"
                /\ UNCHANGED <<prover, job, words, schedule, digest>> /\ UNCHANGED verifying
\* verify_2kb_message_circuit: the digest's bits are reversed into the word.
digest_word(bits) ==
    FoldLeft(LAMBDA n, i : n + bits[Len(bits) + 1 - i] * 2 ^ (i - 1), 0, [i \in 1..Len(bits) |-> i])

WireDigest ==
    /\ pc = "hashed" /\ job.kind = "message"
    /\ digest' = digest_word(DigestBits(w, chain))
    /\ pc' = "inputs"
    /\ UNCHANGED <<prover, job>> /\ UNCHANGED hashing /\ UNCHANGED verifying
-----------------------------------------------------------------------------
\* The range checks, the curve equation and the inverses of verify_digest_circuit.
InputsHold ==
    /\ \A v \in {job.x, job.y} : assert_lt(BaseModulus, v)
    /\ \A v \in {job.r, job.s, job.r_inverse, job.s_inverse} : assert_lt(ScalarModulus, v)
    /\ assert_on_curve(job.x, job.y)
    /\ lazy_assert_mul_eq(ScalarModulus, rep(job.r), rep(job.r_inverse), rep(1))
    /\ lazy_assert_mul_eq(ScalarModulus, rep(job.s), rep(job.s_inverse), rep(1))

CheckInputs ==
    /\ pc = "inputs"
    /\ IF InputsHold
       THEN /\ pc' = "scalars"
            /\ UNCHANGED <<prover, job, digest>> /\ UNCHANGED hashing /\ UNCHANGED verifying
       ELSE Reject

\* u1 = z / s and u2 = r / s, reduced twice: relaxed, then canonical.
ScalarPairs ==
    LET Canonical(a, b) == UNION {lazy_reduce(ScalarModulus, rep(relaxed)) :
                                     relaxed \in relaxed_mul(ScalarModulus, a, b)}
        u1 == UNION {Canonical(z, job.s_inverse) : z \in relaxed_reduce_small(ScalarModulus, digest)}
    IN  u1 \X Canonical(job.r, job.s_inverse)

Scalars ==
    /\ pc = "scalars"
    /\ IF ScalarPairs = {} THEN Reject
       ELSE /\ scalars' \in ScalarPairs
            /\ table' = <<infinity_point, point_from_elems(job.x, job.y)>>
            /\ pc' = "multiples"
            /\ UNCHANGED <<prover, job, digest, acc, round>> /\ UNCHANGED hashing

\* materialize_multiples: the next multiple of the key.
Materialize ==
    /\ pc = "multiples" /\ Len(table) < Entries
    /\ LET next == add_complete(table[Len(table)], table[2])
       IN  IF next = {} THEN Reject
           ELSE /\ \E point \in next : table' = Append(table, point)
                /\ UNCHANGED <<prover, pc, job, digest, scalars, acc, round>> /\ UNCHANGED hashing

StartMultiplication ==
    /\ pc = "multiples" /\ Len(table) = Entries
    /\ acc' = infinity_point /\ round' = 0 /\ pc' = "multiply"
    /\ UNCHANGED <<prover, job, digest, scalars, table>> /\ UNCHANGED hashing
-----------------------------------------------------------------------------
(***************************************************************************)
(* joint_scalar_mul, one point operation a step: in each round a nibble's  *)
(* doublings, the high nibble's multiple of the key, again the doublings,  *)
(* the low nibble's multiple and the byte's multiple of the generator.     *)
(***************************************************************************)
StepsPerRound == 2 * NibbleBits + 3
Round == round \div StepsPerRound
Step  == round % StepsPerRound

HighNibble == scalar_window(scalars[2], WIDTH - NibbleBits - ByteBits * Round, NibbleBits)
LowNibble  == scalar_window(scalars[2], WIDTH - ByteBits - ByteBits * Round, NibbleBits)
Byte       == scalar_window(scalars[1], WIDTH - ByteBits - ByteBits * Round, ByteBits)

Multiple(digit) == lookup_point(Entries, digit, [i \in 0..(Entries - 1) |-> table[i + 1]])

\* What the step's operation can leave in the accumulator.
Stepped ==
    LET Added(points) == UNION {add_complete(acc, point) : point \in points}
    IN  CASE Step = NibbleBits         -> Added(Multiple(HighNibble))
          [] Step = 2 * NibbleBits + 1 -> Added(Multiple(LowNibble))
          [] Step = 2 * NibbleBits + 2 -> Added(lookup_generator(2 ^ ByteBits, Byte))
          [] OTHER                     -> double_complete(acc)

Multiply ==
    /\ pc = "multiply" /\ round < RoundCount * StepsPerRound
    /\ IF Stepped = {} THEN Reject
       ELSE /\ acc' \in Stepped
            /\ round' = round + 1
            /\ UNCHANGED <<prover, pc, job, digest, scalars, table>> /\ UNCHANGED hashing

\* The sum is finite and its canonical x, modulo the group order, is r.
SumMatches ==
    /\ acc.infinity = 0
    /\ \E x \in lazy_reduce(BaseModulus, acc.x) :
          \E x_mod_n \in relaxed_reduce_small(ScalarModulus, x) : x_mod_n = job.r

Finish ==
    /\ pc = "multiply" /\ round = RoundCount * StepsPerRound
    /\ IF SumMatches
       THEN /\ pc' = "accepted"
            /\ UNCHANGED <<prover, job, digest>> /\ UNCHANGED hashing /\ UNCHANGED verifying
       ELSE Reject

Next ==
    \/ LoadBlock \/ ExtendSchedule \/ StartRounds \/ Compress \/ AddState \/ WireDigest
    \/ CheckInputs \/ Scalars \/ Materialize \/ StartMultiplication \/ Multiply \/ Finish

Spec == Init /\ [][Next]_vars
=============================================================================
