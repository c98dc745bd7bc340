---------------------------- MODULE ModularWords ----------------------------
(***************************************************************************)
(* The arithmetic of a prepared evaluator under a modulus of two words:    *)
(* integers as normalized two's-complement words, their reduction, and     *)
(* residues in Montgomery form.  Pairs of words are numbers below Double,  *)
(* taken apart where the code works on words; words keep their width, and  *)
(* so do the double words (u128) of the intermediate results.              *)
(***************************************************************************)
EXTENDS FixedIntegers, Sequences, SequencesExt

CONSTANT MaxLimbs  \* bound of the width of an integer

ASSUME LimbsAssumption == MaxLimbs \in Nat \ {0}

Base == 2 ^ WordBits
Double == Base * Base
Lo(x) == x % Base
Hi(x) == x \div Base
TopBit(word) == 2 * word >= Base

\* So many words of a number, the low one first; and back.
Words(n, len) == [k \in 1..len |-> (n \div Base ^ (k - 1)) % Base]
Unsigned(words) == FoldRight(LAMBDA word, high : word + Base * high, words, 0)
-----------------------------------------------------------------------------
(***************************************************************************)
(* StoredInteger: no word that only repeats the sign, none at all for zero.*)
(***************************************************************************)
Trimmed(words) ==
    LET redundant(len) ==
            /\ len > 1
            /\ words[len] = IF TopBit(words[len - 1]) THEN Base - 1 ELSE 0
    IN  SubSeq(words, 1, Max({len \in DOMAIN words : ~ redundant(len)}))

stored_from_fixed(limbs, x) == IF x = 0 THEN <<>> ELSE Trimmed(Words(x, limbs))

\* The words of a magnitude without leading zeros.
Digits(n) == Words(n, CHOOSE len \in 1 .. MaxLimbs + 1 :
                          Base ^ (len - 1) <= n /\ n < Base ^ len)

Complement(words) == Words(Base ^ Len(words) - Unsigned(words), Len(words))

\* A word for the sign where the top bit does not show it.
SignedAs(words, sign) ==
    IF TopBit(Last(words)) = (sign # 0) THEN words ELSE Append(words, sign)

\* Mistake: a positive number whose top bit is set gets no word for its sign.
stored_from_bigint_unsigned(n) ==
    IF n = 0 THEN <<>>
    ELSE IF n > 0 THEN Trimmed(Digits(n))
    ELSE Trimmed(SignedAs(Complement(Digits(-n)), Base - 1))

stored_from_bigint(n) ==
    IF n = 0 THEN <<>>
    ELSE IF n > 0 THEN Trimmed(SignedAs(Digits(n), 0))
    ELSE Trimmed(SignedAs(Complement(Digits(-n)), Base - 1))

\* What a matrix digest takes of a coefficient of two words, without storing it.
canonical_words(n) ==
    LET words == Words(n, 2)
        signExtended == words[2] = IF TopBit(words[1]) THEN Base - 1 ELSE 0
    IN  IF n = 0 THEN <<>> ELSE IF signExtended THEN <<words[1]>> ELSE words

stored_is_negative(words) == words # <<>> /\ TopBit(Last(words))

StoredNumber(words) ==
    IF stored_is_negative(words) THEN Unsigned(words) - Base ^ Len(words) ELSE Unsigned(words)
-----------------------------------------------------------------------------
(***************************************************************************)
(* RuntimeModulus::reduce.                                                 *)
(***************************************************************************)
add_mod_words(left, right, modulus) ==
    LET sum == left + right IN
    IF sum >= Double \/ sum >= modulus THEN (sum - modulus) % Double ELSE sum

subtract_mod_2(left, right, modulus) ==
    IF left >= right THEN left - right ELSE modulus - (right - left)

\* remainder * Base + word by a modulus whose top bit is set: the quotient is
\* estimated from the high word and lowered while it is too large for both, the
\* multiple subtracted word by word, and the modulus added back on a borrow.
reduce_step_2(remainder, word, modulus) ==
    LET first == IF Hi(remainder) < Hi(modulus)
                 THEN [quotient |-> remainder \div Hi(modulus), rest |-> remainder % Hi(modulus)]
                 ELSE [quotient |-> Base - 1, rest |-> Hi(remainder) + Lo(remainder)]
        tooLarge(times) ==
            LET rest == first.rest + times * Hi(modulus) IN
            /\ rest < Base
            /\ rest * Base + word < (first.quotient - times) * Lo(modulus)
        estimate == first.quotient - Min({times \in 0 .. first.quotient : ~ tooLarge(times)})
        step(value, divisor, carry) ==
            ((Base - 1) * Base + value - (Base - 1) + carry - divisor * estimate) % Double
        low == step(word, Lo(modulus), Base - 1)
        high == step(Lo(remainder), Hi(modulus), Hi(low))
        dividend == Lo(low) + Base * Lo(high)
    IN  IF Base - 1 - Hi(high) > Hi(remainder) THEN (dividend + modulus) % Double ELSE dividend

\* By words when the modulus is normalized: a negative integer is what its words
\* say less the power of its length.  By bits of the magnitude otherwise.
reduce(stored, modulus) ==
    LET byWords(words) == FoldRight(LAMBDA word, rest : reduce_step_2(rest, word, modulus), words, 0)
        power == FoldLeft(LAMBDA rest, word : reduce_step_2(rest, 0, modulus), 1, stored)
        magnitude == Unsigned(IF stored_is_negative(stored) THEN Complement(stored) ELSE stored)
        bits == [k \in 1 .. WordBits * Len(stored) |->
                    (magnitude \div 2 ^ (WordBits * Len(stored) - k)) % 2]
        byBits == FoldLeft(LAMBDA rest, bit :
                      LET twice == add_mod_words(rest, rest, modulus)
                      IN  IF bit = 1 THEN add_mod_words(twice, 1, modulus) ELSE twice,
                    0, bits)
    IN  IF stored = <<>> THEN 0
        ELSE IF TopBit(Hi(modulus))
        THEN IF stored_is_negative(stored)
             THEN subtract_mod_2(byWords(stored), power, modulus) ELSE byWords(stored)
        ELSE IF stored_is_negative(stored) /\ byBits # 0 THEN modulus - byBits ELSE byBits
-----------------------------------------------------------------------------
(***************************************************************************)
(* Montgomery form.  Conversion into it and the inverse of the modulus are *)
(* a library's.                                                            *)
(***************************************************************************)
mod_neg_inv(modulus) == CHOOSE inv \in 0 .. Base - 1 : (inv * modulus) % Base = Base - 1

to_montgomery(canonical, modulus) == ((canonical % modulus) * Double) % modulus

\* One word of the left factor; carries of a double word's sum are kept.
Round(left, right, modulus, acc) ==
    LET low == left * Lo(right) + Lo(acc.output)
        multiplier == Lo(low * mod_neg_inv(modulus))
        reduction == (multiplier * Hi(modulus) + Hi(multiplier * Lo(modulus) + low)) % Double
        middle == left * Hi(right) + Hi(acc.output) + reduction
        top == Hi(middle) + acc.meta_carry
    IN  [output |-> Lo(middle) + Base * Lo(top), meta_carry |-> Hi(top)]

\* Mistake: the carry above the output is not looked at.
montgomery_mul_2_two_words(left, right, modulus) ==
    LET product == Round(Hi(left), right, modulus,
                     Round(Lo(left), right, modulus, [output |-> 0, meta_carry |-> 0]))
    IN  IF product.output < modulus THEN product.output ELSE (product.output - modulus) % Double

montgomery_mul_2(left, right, modulus) ==
    LET product == Round(Hi(left), right, modulus,
                     Round(Lo(left), right, modulus, [output |-> 0, meta_carry |-> 0]))
    IN  IF product.meta_carry = 0 /\ product.output < modulus
        THEN product.output ELSE (product.output - modulus) % Double

\* The product with one, without a last subtraction.
montgomery_retrieve_2(value, modulus) ==
    LET round(output, input) ==
            LET multiplier == Lo(Lo(Lo(output) + input) * mod_neg_inv(modulus))
            IN  (multiplier * Hi(modulus) + Hi(output)
                   + Hi((multiplier * Lo(modulus) + input + Lo(output)) % Double)) % Double
    IN  round(round(0, Lo(value)), Hi(value))

neg_mod_words(value, modulus) == IF value = 0 THEN 0 ELSE (modulus - value) % Double

\* ReverseContext::scale, with what the table of coefficients holds.
scale(source, stored, modulus) ==
    IF stored = <<1>> THEN source
    ELSE IF stored = <<Base - 1>> THEN neg_mod_words(source, modulus)
    ELSE montgomery_mul_2(source, to_montgomery(reduce(stored, modulus), modulus), modulus)
-----------------------------------------------------------------------------
(***************************************************************************)
(* A value on its way through the evaluator.                               *)
(***************************************************************************)
VARIABLES
    modulus,
    value,    \* in Montgomery form
    residue   \* what it stands for

vars == <<modulus, value, residue>>

Challenges == 0 .. Double - 1
Numbers == -(Base ^ MaxLimbs \div 2) .. Base ^ MaxLimbs \div 2 - 1

\* WengertTape::prepare: an odd modulus of two words, greater than one.
Init ==
    /\ modulus \in {m \in 2 .. Double - 1 : m % 2 = 1}
    /\ value = 0
    /\ residue = 0

\* A contribution is added, a weight multiplied in.  Challenges need not be
\* reduced.
AddChallenge == \E challenge \in Challenges :
    /\ value' = add_mod_words(value, to_montgomery(challenge, modulus), modulus)
    /\ residue' = (residue + challenge) % modulus
    /\ UNCHANGED modulus

MultiplyChallenge == \E challenge \in Challenges :
    /\ value' = montgomery_mul_2(value, to_montgomery(challenge, modulus), modulus)
    /\ residue' = (residue * challenge) % modulus
    /\ UNCHANGED modulus

\* An edge, a root, or an entry of a column.
Scale == \E n \in Numbers :
    /\ value' = scale(value, stored_from_bigint(n), modulus)
    /\ residue' = (residue * n) % modulus
    /\ UNCHANGED modulus

\* The next column of a packed lift.
DoubleValue ==
    /\ value' = add_mod_words(value, value, modulus)
    /\ residue' = (2 * residue) % modulus
    /\ UNCHANGED modulus

Next == AddChallenge \/ MultiplyChallenge \/ Scale \/ DoubleValue

Spec == Init /\ [][Next]_vars
-----------------------------------------------------------------------------
\* After any sequence of additions, products, doublings and scalings by stored
\* integers, the evaluator holds a reduced residue that converts back to the one
\* meant: quotient estimates, carries above two words and the conversion back
\* that never subtracts are right at every modulus.
EvaluatorIsExact ==
    /\ value < modulus
    /\ montgomery_retrieve_2(value, modulus) = residue

\* Whatever width an integer was computed in, and also from an arbitrary one,
\* it is stored in the same words and keeps its value, and a digest that does not
\* store it takes these words too: tapes find coefficients and statements name
\* matrices by them.
StoredAlike ==
    value = 0 =>
        \A n \in Numbers :
            LET stored == stored_from_bigint(n) IN
            /\ StoredNumber(stored) = n
            /\ Holds(2, n) => canonical_words(n) = stored
            /\ \A limbs \in 1..MaxLimbs :
                  Holds(limbs, n) => stored_from_fixed(limbs, Z(limbs, n)) = stored
=============================================================================
