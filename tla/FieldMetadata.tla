--------------------------- MODULE FieldMetadata ---------------------------
(***************************************************************************)
(* field::helpers: the arithmetic of a modulus that is a value.  A double  *)
(* word is 2*HalfBits bits wide (2 * 64 in the code), every intermediate   *)
(* keeps the width the code gives it, and moduli stay two bits below it.   *)
(***************************************************************************)
EXTENDS Naturals, Sequences, SequencesExt

CONSTANTS HalfBits,  \* bits of one half of a u128
          Bases      \* PRIMALITY_BASES, the first primes in order

Width == 2 * HalfBits
Full == 2^Width
Half == 2^HalfBits
MaxModulusBits == Width - 2

\* What the provers have to be told of powers of two.
ASSUME PowersOfTwo ==
    /\ HalfBits \in Nat \ {0}
    /\ 2^0 = 1
    /\ \A n \in 0..(2 * Width) : 2^n \in Nat /\ 2^(n + 1) = 2 * 2^n

\* u128::BITS - leading_zeros.
BitLength(n) == IF n = 0 THEN 0 ELSE CHOOSE k \in 1..Width : 2^(k - 1) <= n /\ n < 2^k

\* Number of trailing zero bits of n > 0.
TrailingZeros(n) == CHOOSE s \in 0..Width : n % 2^s = 0 /\ n % 2^(s + 1) # 0
-----------------------------------------------------------------------------
add_mod(a, b, q) == LET sum == (a + b) % Full IN IF sum >= q THEN sum - q ELSE sum

\* Doubling, one step per bit of b; the addend doubles along.
mul_mod(a, b, q) ==
    LET Step(acc, i) ==
            <<IF (b \div 2^i) % 2 = 1 THEN add_mod(acc[1], acc[2], q) ELSE acc[1],
              add_mod(acc[2], acc[2], q)>>
    IN  FoldLeft(Step, <<0, a % q>>, [i \in 1..BitLength(b) |-> i - 1])[1]

\* Mistake: the carry out of the middle sum is lost.
mul_wide_no_carry(a, b) ==
    LET lo(x) == x % Half
        hi(x) == x \div Half
        mid   == (lo(a) * hi(b) + hi(a) * lo(b)) % Full
        low   == lo(a) * lo(b) + ((mid * Half) % Full)
    IN  <<low % Full, hi(a) * hi(b) + hi(mid) + (low \div Full)>>

\* Schoolbook product of two halves each, as <<low, high>>, with both carries.
mul_wide(a, b) ==
    LET lo(x) == x % Half
        hi(x) == x \div Half
        cross == lo(a) * hi(b) + hi(a) * lo(b)
        mid   == cross % Full
        carry == cross \div Full
        low   == lo(a) * lo(b) + ((mid * Half) % Full)
    IN  <<low % Full, hi(a) * hi(b) + hi(mid) + carry * Half + (low \div Full)>>

\* (lo, hi) >> n for n < Width, low double word only.
shr_wide(lo, hi, n) ==
    IF n = 0 THEN lo ELSE (lo \div 2^n) + ((hi * 2^(Width - n)) % Full)

\* floor(2^(2k) / q) by long division: the numerator's one set bit comes first.
barrett_mu(q, k) ==
    LET Step(acc, i) ==
            LET rem  == ((acc.rem * 2) % Full) + (IF i = 2 * k THEN 1 ELSE 0)
                fits == rem >= q
            IN  [rem |-> IF fits THEN rem - q ELSE rem,
                 quo |-> ((acc.quo * 2) % Full) + (IF fits THEN 1 ELSE 0)]
    IN  FoldLeft(Step, [rem |-> 0, quo |-> 0], [j \in 1..(2 * k + 1) |-> 2 * k + 1 - j]).quo

\* Mistake: one correction only.
barrett_reduce_once(lo, hi, q, mu, k) ==
    LET q1 == shr_wide(lo, hi, k - 1)
        q2 == mul_wide(q1, mu)
        q3 == shr_wide(q2[1], q2[2], k + 1)
        r  == (lo + Full - mul_wide(q3, q)[1]) % Full
    IN  IF r >= q THEN r - q ELSE r

\* Estimate the quotient, subtract modulo Full, correct at most twice.
barrett_reduce(lo, hi, q, mu, k) ==
    LET q1 == shr_wide(lo, hi, k - 1)
        q2 == mul_wide(q1, mu)
        q3 == shr_wide(q2[1], q2[2], k + 1)
        Correct(r) == IF r >= q THEN r - q ELSE r
    IN  Correct(Correct((lo + Full - mul_wide(q3, q)[1]) % Full))
-----------------------------------------------------------------------------
\* What FieldMetadata::new asserts.
Admissible(modulus) ==
    modulus >= 2 /\ modulus < 2^MaxModulusBits /\ (modulus = 2 \/ modulus % 2 = 1)

New(modulus) ==
    [modulus |-> modulus, bits |-> BitLength(modulus),
     mu |-> barrett_mu(modulus, BitLength(modulus))]

Mul(m, a, b) ==
    LET wide == mul_wide(a, b) IN barrett_reduce(wide[1], wide[2], m.modulus, m.mu, m.bits)

\* Square-and-multiply from the exponent's top bit.
Pow(m, base, exponent) ==
    LET Step(acc, bit) ==
            LET square == Mul(m, acc, acc)
            IN  IF (exponent \div 2^bit) % 2 = 1 THEN Mul(m, square, base) ELSE square
    IN  FoldLeft(Step, 1 % m.modulus,
                 [j \in 1..BitLength(exponent) |-> BitLength(exponent) - j])

\* Mistake: one squaring too few.
strong_round_short(m, base) ==
    LET shift == TrailingZeros(m.modulus - 1)
        first == Pow(m, base, (m.modulus - 1) \div 2^shift)
        Square(acc, round) == Append(acc, Mul(m, Last(acc), Last(acc)))
        witnesses == FoldLeft(Square, <<first>>, [round \in 1..(shift - 2) |-> round])
    IN  first = 1 \/ \E i \in 1..Len(witnesses) : witnesses[i] = m.modulus - 1

\* base^odd is 1, or one of its first shift squarings, itself included, is -1.
strong_round(m, base) ==
    LET shift == TrailingZeros(m.modulus - 1)
        first == Pow(m, base, (m.modulus - 1) \div 2^shift)
        Square(acc, round) == Append(acc, Mul(m, Last(acc), Last(acc)))
        witnesses == FoldLeft(Square, <<first>>, [round \in 1..(shift - 1) |-> round])
    IN  first = 1 \/ \E i \in 1..Len(witnesses) : witnesses[i] = m.modulus - 1

\* Trial division: "prime", "composite", or undecided when no base divides.
\* The loop stops at the first base that decides.
sieve(candidate) ==
    LET decides == {i \in 1..Len(Bases) : candidate % Bases[i] = 0}
        first == CHOOSE i \in decides : \A j \in decides : i <= j
    IN  IF candidate < 2 THEN "composite"
        ELSE IF decides = {} THEN "undecided"
        ELSE IF candidate = Bases[first] THEN "prime" ELSE "composite"

is_prime(candidate) ==
    IF sieve(candidate) # "undecided" THEN sieve(candidate) = "prime"
    ELSE \A i \in 1..Len(Bases) : strong_round(New(candidate), Bases[i])

\* The five words global::store writes for a modulus.
StoredWords(m) ==
    <<m.modulus % Half, m.modulus \div Half, m.mu % Half, m.mu \div Half, m.bits>>
-----------------------------------------------------------------------------
(***************************************************************************)
(* The two prime fields over the metadata m of their modulus: Fq, whose    *)
(* modulus is a constant of the type, and DynField, whose modulus is       *)
(* installed for the whole process.  An element is its representative, a   *)
(* double word; values of DynField made under another modulus are of the   *)
(* same type, so its operations assert that their operands are reduced.    *)
(***************************************************************************)
\* No double word: what an operation that panics leaves.
Panicked == Full

\* Fq::META and set_modulus: the moduli that may become a field's.
FqModulus(modulus) == modulus >= 3 /\ is_prime(modulus) /\ Admissible(modulus)

DynModulus(modulus) ==
    /\ modulus >= 3
    /\ modulus % 2 = 1
    /\ modulus < 2^MaxModulusBits
    /\ is_prime(modulus)
-----------------------------------------------------------------------------
FqFrom(m, value) == value % m.modulus
FqMax(m) == m.modulus - 1
FqNeg(m, x) == IF x = 0 THEN 0 ELSE m.modulus - x

FqAdd(m, x, y) ==
    LET sum == (x + y) % Full IN IF sum >= m.modulus THEN sum - m.modulus ELSE sum

FqSub(m, x, y) == IF x >= y THEN x - y ELSE ((x + m.modulus) % Full) - y

FqMul(m, x, y) == Mul(m, x, y)

FqSum(m, xs) == FoldLeft(LAMBDA acc, x : FqAdd(m, acc, x), 0, xs)
FqProduct(m, xs) == FoldLeft(LAMBDA acc, x : FqMul(m, acc, x), 1, xs)

\* Sampling draws again until a double word is below the incomplete interval.
Accepted(m, candidate) ==
    LET rejection_remainder == (((Full - 1) % m.modulus) + 1) % m.modulus
    IN  candidate <= Full - 1 - rejection_remainder
-----------------------------------------------------------------------------
\* prime::sample.  The candidate a draw makes: its low bits between a top and a
\* bottom one.
Candidate(draw, bits) ==
    LET low == draw % 2^(bits - 1) IN 2^(bits - 1) + (low - (low % 2)) + 1

\* sample_below: a draw masked to the length of bound - 1, taken below bound.
Masked(draw, bound) == draw % 2^BitLength(bound - 1)
Taken(draw, bound) == Masked(draw, bound) < bound

MillerRabinBase(draw, candidate) == 2 + Masked(draw, candidate - 3)

\* The test of a candidate with the bases its draws made.
Passes(candidate, bases) ==
    IF sieve(candidate) # "undecided" THEN sieve(candidate) = "prime"
    ELSE \A base \in bases : strong_round(New(candidate), base)
-----------------------------------------------------------------------------
assert_reduced(m, x) == x < m.modulus

DynFrom(m, value) == value % m.modulus
DynMax(m) == m.modulus - 1

DynNeg(m, x) ==
    IF ~assert_reduced(m, x) THEN Panicked ELSE IF x = 0 THEN x ELSE m.modulus - x

\* Of an operation on two operands, the assertions first.
Guarded(m, x, y, value) ==
    IF assert_reduced(m, x) /\ assert_reduced(m, y) THEN value ELSE Panicked

DynAdd(m, x, y) ==
    LET sum == x + y
    IN  Guarded(m, x, y, IF sum >= m.modulus THEN sum - m.modulus ELSE sum)

\* Mistake: the borrow is taken from the double word, not from the modulus.
DynSubWraps(m, x, y) == Guarded(m, x, y, IF x >= y THEN x - y ELSE (x + Full) - y)

DynSub(m, x, y) == Guarded(m, x, y, IF x >= y THEN x - y ELSE (x + m.modulus) - y)

DynMul(m, x, y) == Guarded(m, x, y, Mul(m, x, y))

DynSum(m, xs) == FoldLeft(LAMBDA acc, x : DynAdd(m, acc, x), 0, xs)
DynProduct(m, xs) == FoldLeft(LAMBDA acc, x : DynMul(m, acc, x), 1, xs)
-----------------------------------------------------------------------------
\* The wire form of an element: the two halves of its representative, low first.
Encoding(x) == <<x % Half, x \div Half>>

\* deserialized_reduced: the value and what is left to read, or a refusal that
\* leaves the buffer as it was.
deserialized_reduced(m, buf) ==
    LET value == buf[1] + Half * buf[2]
    IN  IF Len(buf) < 2 \/ value >= m.modulus THEN [ok |-> FALSE, rest |-> buf]
        ELSE [ok |-> TRUE, rest |-> SubSeq(buf, 3, Len(buf)), value |-> value]
=============================================================================
