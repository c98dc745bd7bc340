---------------------------- MODULE BinaryField ----------------------------
(***************************************************************************)
(* field::F128 at any degree: F_2[X] modulo X^Degree + Reduction.  Bit i of *)
(* an element is the coefficient of X^i.  The code's degree is 128 and its *)
(* Reduction 135 (0x87), X^7 + X^2 + X + 1.  Products are those of          *)
(* polynomials, the words they are computed in are FieldWords'; the tables *)
(* are built once.                                                         *)
(***************************************************************************)
EXTENDS Naturals, Sequences, FiniteSets, FiniteSetsExt, SequencesExt

CONSTANTS
    Degree, Reduction,
    ORDER_PRIME_FACTORS,  \* the primes that divide 2^Degree - 1
    Chain                 \* addition chain from 1 to Degree - 1: what each step adds

ASSUME BinaryFieldAssumption ==
    /\ Degree \in Nat \ {0, 1} /\ Reduction \in 1..(2^Degree - 1)
    /\ ORDER_PRIME_FACTORS = {p \in 2..(2^Degree - 1) :
          (2^Degree - 1) % p = 0 /\ \A d \in 2..(p - 1) : p % d # 0}

Elements == 0..(2^Degree - 1)
Bit(n, i) == (n \div 2^i) % 2

\* Coefficientwise sum of polynomials of fewer than 2 * Degree terms.
Xor(a, b) == MapThenSumSet(LAMBDA i : 2^i * ((Bit(a, i) + Bit(b, i)) % 2), 0..(2 * Degree - 1))

\* Carryless product, then the top terms folded down from the highest.
clmul(a, b) ==
    LET Term(k) == Cardinality({i \in 0..k : Bit(a, i) = 1 /\ Bit(b, k - i) = 1}) % 2
    IN  MapThenSumSet(LAMBDA k : 2^k * Term(k), 0..(2 * Degree - 2))

reduce(wide) ==
    LET Fold(w, k) == IF Bit(w, k) = 1 THEN Xor(w, (2^Degree + Reduction) * 2^(k - Degree)) ELSE w
    IN  FoldLeft(Fold, wide, [j \in 1..(Degree - 1) |-> 2 * Degree - 1 - j])

AddTable == [a, b \in Elements |-> Xor(a, b)]
MulTable == [a, b \in Elements |-> reduce(clmul(a, b))]

\* Subtraction is addition.
a ++ b == AddTable[a, b]
a ** b == MulTable[a, b]

square(a) == a ** a
square_n(a, k) == FoldLeft(LAMBDA w, i : square(w), a, [i \in 1..k |-> i])

\* Square and multiply, the exponent's low bit first.
pow(a, exp) ==
    LET Step(s, i) == [acc |-> IF Bit(exp, i) = 1 THEN s.acc ** s.base ELSE s.acc,
                       base |-> square(s.base)]
    IN  FoldLeft(Step, [acc |-> 1, base |-> a], [i \in 1..Degree |-> i - 1]).acc

\* Itoh-Tsujii: with b[k] = a^(2^k - 1), b[m + n] = b[m]^(2^n) b[n] along the
\* chain, and the square of the last one is the inverse.
inv(a) ==
    LET Extend(b, step) ==
            (step[1] + step[2] :> (square_n(b[step[1]], step[2]) ** b[step[2]])) @@ b
    IN  square(FoldLeft(Extend, (1 :> a), Chain)[Degree - 1])

InverseTable == [a \in Elements \ {0} |-> inv(a)]
a // b == a ** InverseTable[b]

MULT_ORDER == 2^Degree - 1

is_generator(a) == a # 0 /\ \A p \in ORDER_PRIME_FACTORS : pow(a, MULT_ORDER \div p) # 1
-----------------------------------------------------------------------------
\* FixedBasePow::new: row i holds the powers of alpha^(2^(win * i)), so that an
\* exponent is one product per window.  The last row may reach past the degree.
FixedBasePow(alpha, win) ==
    LET windows == (Degree + win - 1) \div win
        Row(base) == FoldLeft(LAMBDA row, i : Append(row, Last(row) ** base),
                              <<1>>, [i \in 1..(2^win - 1) |-> i])
    IN  [win |-> win, table |-> [i \in 1..windows |-> Row(square_n(alpha, win * (i - 1)))]]

\* One product per window that is not zero, until nothing is left.  An exponent
\* with more windows than the table has rows is out of its bounds.
comb_pow(comb, exp) ==
    LET Below(i) == exp \div 2^(comb.win * i)
        Digit(i) == Below(i - 1) % 2^comb.win
        windows == CHOOSE n \in 0..exp : Below(n) = 0 /\ (n = 0 \/ Below(n - 1) # 0)
    IN  FoldLeft(LAMBDA acc, i : IF Digit(i) = 0 THEN acc ELSE acc ** comb.table[i][Digit(i) + 1],
                 1, [i \in 1..windows |-> i])
-----------------------------------------------------------------------------
Total(values) == FoldLeft(LAMBDA acc, v : acc ++ v, 0, values)
=============================================================================
