-------------------------- MODULE MCFieldMetadata --------------------------
(***************************************************************************)
(* Moduli of a ten-bit double word with every pair of reduced operands,    *)
(* and operands that outlive the modulus they were reduced by.  Moduli     *)
(* stay below 2^8 there, as they stay below 2^126 in 128 bits.             *)
(***************************************************************************)
EXTENDS FieldMetadata, FieldWords

\* The field of 64, modulo X^6 + X + 1, and products modulo X^10 + X^3 + 1, whose
\* words of five bits spill two.
F128 == INSTANCE BinaryField WITH
            Degree <- 6, Reduction <- 3, ORDER_PRIME_FACTORS <- {3, 7},
            Chain <- <<<<1, 1>>, <<2, 1>>, <<3, 2>>>>
Ring == INSTANCE BinaryField WITH
            Degree <- 10, Reduction <- 9, ORDER_PRIME_FACTORS <- {}, Chain <- <<>>

\* The first two primes: 5 * 5 is the least composite only a strong round finds.
MCBases == <<2, 3>>

\* All moduli below 2^6; 113, the least one whose quotient estimate can be two
\* too small; and the greatest admissible one.
Moduli == {m \in 2..63 \cup {113, 255} : Admissible(m)}

VARIABLES
    modulus,
    field,  \* whether set_modulus accepts it
    a, b    \* operands
vars == <<modulus, field, a, b>>

Init ==
    /\ modulus \in Moduli
    /\ field = DynModulus(modulus)
    /\ a = 0 /\ b = 0

NextA == a < modulus /\ a' = (a + 1) % modulus /\ UNCHANGED <<modulus, field, b>>
NextB == a < modulus /\ b' = (b + 1) % modulus /\ UNCHANGED <<modulus, field, a>>

\* Another modulus is installed while a is still held.
set_modulus ==
    /\ field
    /\ b = 0
    /\ \E m \in Moduli : DynModulus(m) /\ modulus' = m
    /\ UNCHANGED <<field, a, b>>

Next == NextA \/ NextB \/ set_modulus

Spec == Init /\ [][Next]_vars

(***************************************************************************)
(* Multiplication is exact.  The double-width product is, over the whole   *)
(* range of both factors, carries included: the operands are pushed to the *)
(* top of the range.  helpers.rs: "two conditional subtractions suffice"   *)
(* for every modulus two bits below the double word, so Barrett            *)
(* multiplication is, and agrees with the doubling reference.              *)
(***************************************************************************)
MultiplicationIsExact ==
    /\ \A x \in {a, Full - 1 - a} : \A y \in {b, Full - 1 - b} :
          LET wide == mul_wide(x, y) IN wide[1] < Full /\ wide[1] + Full * wide[2] = x * y
    /\ a < modulus =>
          /\ Mul(New(modulus), a, b) = (a * b) % modulus
          /\ mul_mod(a, b, modulus) = (a * b) % modulus

\* Products in words are those of polynomials, one by one or summed before the
\* one reduction; the top bits of x and y run through all pairs.
WordsAreExact ==
    LET x == 16 * a + (b \div 4)
        y == 16 * b + (a \div 4)
        product(n, m) == Ring!reduce(Ring!clmul(n, m))
        square == product(x, x)
        sum(n, m) == Ring!Xor(n, m)
        xw == words(x)
        yw == words(y)
    IN  /\ to_u128(mul_words(xw, yw)) = product(x, y)
        /\ to_u128(square_words(xw)) = square
        /\ square_n_words(xw, 2) = words(product(square, square))
        /\ to_u128(wide_reduce(wide_add_low(wide_mul(xw, yw), yw))) = sum(product(x, y), y)
        /\ wide_reduce(wide_of(xw)) = xw
        /\ to_u128(inner_product(<<xw, yw>>, <<yw, yw>>)) = sum(product(x, y), product(y, y))
        /\ to_u128(mul_x(xw)) = product(x, 2)

\* Powers by squares, by a comb of any window and inverses by the chain are
\* repeated products; a generator is one whose powers are all that is not zero.
PowersAreExact ==
    LET times(n, m) == F128!MulTable[n, m]
        power == FoldLeft(LAMBDA acc, i : times(acc, a), 1, [i \in 1..b |-> i])
    IN  /\ F128!pow(a, b) = power
        /\ \A win \in {1, 4} : F128!comb_pow(F128!FixedBasePow(a, win), b) = power
        /\ b = 0 =>
              /\ a # 0 => times(a, F128!inv(a)) = 1
              /\ F128!is_generator(a) <=>
                    {F128!pow(a, n) : n \in 0..62} = F128!Elements \ {0}

\* The field of characteristic two, in words, is that of the polynomials, and its
\* powers by a table and inverses by a chain are repeated products.
BinaryFieldIsExact == modulus = 255 /\ a < 64 /\ b < 64 => WordsAreExact /\ PowersAreExact

(***************************************************************************)
(* The operations of both prime fields are those of the integers modulo q  *)
(* and leave reduced elements; DynField's panic on an element another      *)
(* modulus left behind whenever that one is not reduced by this modulus.   *)
(* Every residue has one wire form, one refused form is any other value,   *)
(* and as many accepted draws as any other residue.                        *)
(***************************************************************************)
OperationsAreExact ==
    field =>
        LET m == New(modulus)
            Exact(value, n) == value = IF a < modulus THEN n % modulus ELSE Panicked
            wire == Encoding(a) \o <<0>>
            read == deserialized_reduced(m, wire)
        IN  /\ Exact(DynNeg(m, a), modulus - a)
            /\ Exact(DynAdd(m, a, b), a + b)
            /\ Exact(DynSub(m, b, a), b + (modulus - a)) /\ Exact(DynSub(m, a, b), a + (modulus - b))
            /\ Exact(DynMul(m, a, b), a * b)
            /\ a < modulus =>
                  /\ FqNeg(m, a) = DynNeg(m, a)
                  /\ FqAdd(m, a, b) = DynAdd(m, a, b)
                  /\ FqSub(m, a, b) = DynSub(m, a, b)
                  /\ FqMul(m, a, b) = DynMul(m, a, b)
            /\ b \in {1, modulus - 1} =>
                  /\ Exact(DynSum(m, <<b, a, b>>), a + 2 * b)
                  /\ Exact(DynProduct(m, <<b, a, b>>), a * (b * b))
                  /\ a < modulus =>
                        /\ FqSum(m, <<b, a, b>>) = DynSum(m, <<b, a, b>>)
                        /\ FqProduct(m, <<b, a, b>>) = DynProduct(m, <<b, a, b>>)
            /\ b = 0 =>
                  /\ FqModulus(modulus)
                  /\ read = IF a < modulus THEN [ok |-> TRUE, rest |-> <<0>>, value |-> a]
                            ELSE [ok |-> FALSE, rest |-> wire]
                  /\ ~deserialized_reduced(m, <<a % Half>>).ok
                  /\ \A x \in {Full - 1 - a, a * Half} :
                        x < Full => FqFrom(m, x) = DynFrom(m, x) /\ DynFrom(m, x) <= DynMax(m)
                  /\ a < modulus =>
                        Cardinality({x \in 0..(Full - 1) : Accepted(m, x) /\ FqFrom(m, x) = a})
                          = Full \div modulus
                  /\ FqMax(m) = FqNeg(m, 1)

(***************************************************************************)
(* What the draw of a prime trusts.  set_modulus accepts a modulus exactly *)
(* when no smaller number above 1 divides it.  prime.rs: candidates are    *)
(* "uniform among the odd integers" of the width, a base is uniform in     *)
(* [2, candidate - 2] with "at most half" of the draws rejected, and "a    *)
(* composite passes a base with probability at most 1/4"; a prime passes   *)
(* every base, so that the search ends at the first one it meets.          *)
(***************************************************************************)
PrimalityIsExact ==
    b = 0 =>
        LET bits == BitLength(modulus)
            prime == \A d \in 2..(modulus - 1) : modulus % d # 0
            Draws == 0..(Full - 1)
        IN  /\ is_prime(modulus) <=> prime
            /\ a = 0 /\ modulus % 2 = 1 =>
                  /\ Cardinality({x \in Draws : Candidate(x, bits) = modulus}) = Full \div 2^(bits - 2)
                  /\ modulus >= 5 =>
                        LET taken == {x \in Draws : Taken(x, modulus - 3)}
                            bases == {MillerRabinBase(x, modulus) : x \in taken}
                        IN  /\ bases = 2..(modulus - 2)
                            /\ 2 * Cardinality(taken) >= Full
                            /\ \A base \in {2, modulus - 2} :
                                  Cardinality({x \in taken : MillerRabinBase(x, modulus) = base})
                                    * Cardinality(bases) = Cardinality(taken)
                            /\ LET passed == {base \in bases : Passes(modulus, {base})}
                               IN  IF prime THEN passed = bases
                                   ELSE 4 * Cardinality(passed) <= Cardinality(bases)
=============================================================================
