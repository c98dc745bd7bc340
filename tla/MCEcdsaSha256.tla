--------------------------- MODULE MCEcdsaSha256 ---------------------------
(***************************************************************************)
(* A curve of prime order 229 over 251, four words of two bits, windows of *)
(* two and four bits; and what the circuits promise, by definition.        *)
(***************************************************************************)
EXTENDS EcdsaSha256

N == ScalarModulus
G == <<GeneratorX, GeneratorY>>
Infinity == <<>>

InverseOf(v, m) == CHOOSE u \in 1..(m - 1) : (u * v) % m = 1

\* The group law on residues.
GroupSum(p, q) ==
    LET M == BaseModulus
        slope == IF p = q THEN ((3 * p[1] * p[1] - 3) * InverseOf((2 * p[2]) % M, M)) % M
                 ELSE ((q[2] - p[2]) * InverseOf((q[1] - p[1]) % M, M)) % M
        x == (slope * slope - p[1] - q[1]) % M
    IN  CASE p = Infinity -> q
          [] q = Infinity -> p
          [] p # Infinity /\ q # Infinity /\ p[1] = q[1] /\ p # q -> Infinity
          [] OTHER -> <<x, (slope * (p[1] - x) - p[2]) % M>>

\* The multiples of the generator, by doubling.
Multiples[k \in 0..(N - 1)] ==
    IF k = 0 THEN Infinity
    ELSE LET half == Multiples[k \div 2]
             even == GroupSum(half, half)
         IN  IF k % 2 = 0 THEN even ELSE GroupSum(even, G)

Times(k) == Multiples[k % N]
Log(x, y) == CHOOSE k \in 1..(N - 1) : Times(k) = <<x, y>>

ASSUME CurveAssumption ==
    /\ GroupSum(Times(N - 1), G) = Infinity
    /\ \A k \in 1..(N - 1) : Times(k) # Infinity
    /\ CurveB # 0

OnCurve(x, y) == (y * y - (x * x * x - 3 * x + CurveB)) % BaseModulus = 0

\* A signature by ECDSA's definition, of a digest as a number.
Verifies(z, x, y, r, s) ==
    /\ {r, s} \subseteq 1..(N - 1)
    /\ x < BaseModulus /\ y < BaseModulus /\ OnCurve(x, y)
    /\ LET u == InverseOf(s, N)
           R == Times(z * u + r * u * Log(x, y))
       IN  R # Infinity /\ R[1] % N = r
-----------------------------------------------------------------------------
SignedAs(z, d, k, r) ==
    LET s == (InverseOf(k, N) * (z + r * d)) % N
    IN  [x |-> Times(d)[1], y |-> Times(d)[2], r |-> r, s |-> s,
         r_inverse |-> IF r = 0 THEN 0 ELSE InverseOf(r, N),
         s_inverse |-> IF s = 0 THEN 0 ELSE InverseOf(s, N)]

\* By key d and nonce k; and with the other word of the nonce's x, which only
\* a missing range check would accept.
Signed(z, d, k) == SignedAs(z, d, k, Times(k)[1] % N)
Forged(z, d, k) == SignedAs(z, d, k, (Times(k)[1] + BaseModulus) % N)

\* The nonce 59 has an x above the group order, 107 and 1 an x with two words;
\* the keys 107 and 216 have a coordinate with two words.
Nonces == {1, 2, 59, 107, 140, N - 1}
Keys == {1, 9, 107, 216, N - 1}

\* One input word replaced: another number, or another word of the same residue.
Altered(sig) ==
    {[sig EXCEPT !.r = (sig.r % (N - 1)) + 1, !.r_inverse = InverseOf((sig.r % (N - 1)) + 1, N)],
     [sig EXCEPT !.s = N - sig.s, !.s_inverse = N - sig.s_inverse],
     [sig EXCEPT !.s = (sig.s % (N - 1)) + 1, !.s_inverse = InverseOf((sig.s % (N - 1)) + 1, N)],
     [sig EXCEPT !.s_inverse = (sig.s_inverse % (N - 1)) + 1],
     [sig EXCEPT !.r = 0, !.r_inverse = 0], [sig EXCEPT !.y = BaseModulus - sig.y],
     [sig EXCEPT !.y = sig.y + 1], [sig EXCEPT !.r = N]}
    \cup {[sig EXCEPT !.x = sig.x + BaseModulus], [sig EXCEPT !.r_inverse = sig.r_inverse + N]}

InWords(sig) == \A f \in DOMAIN sig : sig[f] \in Words

VerifyJobs ==
    LET Of(z, sigs) == {[kind |-> "verify", word_bits |-> 1, digest |-> z, message |-> <<>>] @@ sig :
                            sig \in {sig \in sigs : InWords(sig)}}
        Signatures(z, d) == {Signed(z, d, k) : k \in Nonces}
    IN  UNION {Of(z,
                    UNION {{sig} \cup Altered(sig) : sig \in Signatures(z, d)}
                       \cup {Forged(z, d, k) : k \in {1, 107}}) :
                  z \in {0, 255}, d \in Keys}

\* Sixteen bits are one block of one-bit words, and 128 of eight-bit words.
\* The signed digests are those of the three messages, and one of none of them.
Messages1 == {[i \in 1..16 |-> IF i = k THEN 1 ELSE 0] : k \in {0, 5, 16}}
Messages8 == {[i \in 1..128 |-> ((i * i) \div k) % 2] : k \in {1, 3, 7}}

MessageJobs ==
    {[kind |-> "message", word_bits |-> 1, digest |-> 0, message |-> message] @@ Signed(z, 9, 77) :
        message \in Messages1, z \in {102, 115, 206, 207}}

HashJobs ==
    {[kind |-> "hash", word_bits |-> 8, digest |-> 0, message |-> message] : message \in Messages8}

MCJobs == VerifyJobs \cup MessageJobs \cup HashJobs
-----------------------------------------------------------------------------
(***************************************************************************)
(* Whatever the hints, after each round the accumulator is the sum of the  *)
(* scalars' leading windows times the generator and the key: the point     *)
(* gadgets leave no freedom but the choice of a representative.            *)
(***************************************************************************)
AccumulatorHoldsPrefix ==
    pc = "multiply" /\ Step = 0 =>
        LET read == ByteBits * Round
            sum == Times((scalars[1] \div 2 ^ (WIDTH - read))
                         + (scalars[2] \div 2 ^ (WIDTH - read)) * Log(job.x, job.y))
        IN  IF sum = Infinity THEN acc.infinity = 1
            ELSE /\ acc.infinity = 0
                 /\ <<acc.x.value % BaseModulus, acc.y.value % BaseModulus>> = sum

(***************************************************************************)
(* The circuit is satisfied, by some hints, exactly by the signatures that *)
(* verify: whatever the hints, what is accepted is a signature of the      *)
(* digest with its two inverses; and honest hints are never refused one.   *)
(***************************************************************************)
JobHolds ==
    /\ Verifies(digest, job.x, job.y, job.r, job.s)
    /\ \A v \in {job.r_inverse, job.s_inverse} : v < N
    /\ (job.r * job.r_inverse) % N = 1 /\ (job.s * job.s_inverse) % N = 1

AcceptedIsSigned == pc = "accepted" => JobHolds

HonestIsAccepted == prover = "honest" /\ pc = "rejected" => job.kind # "hash" /\ ~JobHolds

(***************************************************************************)
(* Whatever the hints, the hash is the standard's: every step of the       *)
(* circuit is the standard's step, on the padded message's blocks, and the *)
(* signed word is the digest read as the standard reads it.                *)
(***************************************************************************)
HashIsStandard ==
    [][/\ pc = "block" => schedule' = StandardBlock(w, job.message, block)
       /\ schedule' # schedule /\ pc = "schedule" =>
              schedule' = Append(schedule, StandardWord(w, schedule))
       /\ words' # words /\ pc = "rounds" =>
              words' = StandardRound(w, words, ROUND_CONSTANTS[round + 1], schedule[round + 1])
       /\ chain' # chain => chain' = [i \in 1..8 |-> (chain[i] + words[i]) % 2 ^ w]
       /\ pc = "hashed" => digest' = FoldLeft(LAMBDA n, word : n * 2 ^ w + word, 0, chain)]_vars
=============================================================================
