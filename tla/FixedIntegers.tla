--------------------------- MODULE FixedIntegers ---------------------------
(***************************************************************************)
(* The integers Z<LIMBS> of witness generation: two's complement in a      *)
(* fixed number of words, wrapping.  A value is what its words hold, read  *)
(* without a sign.                                                         *)
(***************************************************************************)
EXTENDS Integers

CONSTANT WordBits  \* 64 in the code

ASSUME WordBitsAssumption == WordBits \in Nat \ {0}

Capacity(limbs) == 2 ^ (WordBits * limbs)

is_negative(limbs, x) == 2 * x >= Capacity(limbs)

\* The number a value stands for, which is what StoredInteger keeps of it.
Number(limbs, x) == IF is_negative(limbs, x) THEN x - Capacity(limbs) ELSE x

\* What the words of a width keep of a number.
Z(limbs, n) == n % Capacity(limbs)

Holds(limbs, n) == Number(limbs, Z(limbs, n)) = n

z_add(limbs, x, y) == Z(limbs, x + y)
z_sub(limbs, x, y) == Z(limbs, x - y)
z_mul(limbs, x, y) == Z(limbs, x * y)
z_neg(limbs, x) == z_sub(limbs, 0, x)

\* Mistake: the new words are zero.
zero_extend(from, to, x) == x

sign_extend(from, to, x) ==
    IF is_negative(from, x) THEN x + Capacity(to) - Capacity(from) ELSE x

\* Of a bit string read as a number: the words that fit, and of these the low
\* bits, where the width cuts the last word that is kept.
from_packed_bits(limbs, bits) == Z(limbs, bits)

from_packed_prefix(limbs, bits, width) ==
    LET words == (width + WordBits - 1) \div WordBits
        retained == IF words < limbs THEN words ELSE limbs
        kept == IF width % WordBits = 0 THEN WordBits * retained
                ELSE WordBits * (retained - 1) + (width % WordBits)
    IN  IF retained = 0 THEN 0 ELSE from_packed_bits(limbs, bits) % 2 ^ kept
=============================================================================
