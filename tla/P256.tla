-------------------------------- MODULE P256 ---------------------------------
(***************************************************************************)
(* circuit::p256.  The integers the hints compute with: moduli have four   *)
(* words and the top bit set, an operand has ZLimbs words, one bit of them *)
(* for the sign; a word is WordBits bits, 64 in the code.  Then modular    *)
(* arithmetic as integer constraints: a representative [value, bound] is a *)
(* number below bound times the modulus, and a gadget is the set of its    *)
(* results, what the constraints admit for some hint or, of that, what the *)
(* honest closure hints.  Last, complete point arithmetic on the curve     *)
(* y^2 = x^3 - 3 x + CurveB: a point is [x, y, infinity], and as its       *)
(* coordinates are representatives, a residue may be met as two words.     *)
(***************************************************************************)
EXTENDS Integers, Sequences, SequencesExt, FiniteSetsExt

CONSTANTS WordBits, BaseModulus, ScalarModulus, CurveB, GeneratorX, GeneratorY

VARIABLE prover  \* "honest" or "any"

ASSUME P256Assumption ==
    /\ WordBits \in Nat \ {0}
    /\ \A m \in {BaseModulus, ScalarModulus} : m \in 2 ^ (4 * WordBits - 1)..(2 ^ (4 * WordBits) - 1)

Radix == 2 ^ WordBits
WIDTH == 4 * WordBits
ZLimbs == 9
Words == 0..(2 ^ WIDTH - 1)

NoHint == -1  \* the closure returned an error

Word(n, i) == (n \div Radix ^ i) % Radix

\* from_evaluated: neither negative nor wider than an operand may be.
Evaluated(n) == n >= 0 /\ n < Radix ^ ZLimbs \div 2
-----------------------------------------------------------------------------
\* How often the estimate of a quotient word is lowered by its second word.
Lowered(estimate, remainder, high, next, following) ==
    LET TooHigh(k) == /\ remainder + k * high < Radix
                      /\ (remainder + k * high) * Radix + following < (estimate - k) * next
    IN  CHOOSE k \in 0..Radix : ~TooHigh(k) /\ \A i \in 0..(k - 1) : TooHigh(i)

\* Mistake: a quotient word that is one too large is kept.
ExceedsNever(borrow, extra_high) == FALSE

\* The product of the quotient word and the divisor was more than the window.
Exceeds(borrow, extra_high) == borrow > extra_high

\* The estimate of a quotient word from two words of the window and one of the divisor.
Estimate(m, extra_high, window, high, top) ==
    IF extra_high < top
    THEN LET numerator == extra_high * Radix + high
             first == numerator \div top
         IN  first - Lowered(first, numerator % top, top, Word(m, 2), Word(window, 2))
    ELSE (Radix - 1) - Lowered(Radix - 1, extra_high + high, top, Word(m, 2), Word(window, 2))

(***************************************************************************)
(* One word of the quotient: [rest] is what is left of the dividend, below *)
(* extra_high, and j the word divided into.                                *)
(***************************************************************************)
Settled(left, j, added, word) ==
    [rest       |-> added * Radix ^ j + (left.rest % Radix ^ j),
     extra_high |-> Word(added, 3),
     quotient   |-> left.quotient + word * Radix ^ j]

Corrected(m, left, j, difference, estimate) ==
    IF Exceeds(-(difference \div Radix ^ 4), left.extra_high)
    THEN Settled(left, j, ((difference % Radix ^ 4) + m) % Radix ^ 4, estimate - 1)
    ELSE Settled(left, j, difference % Radix ^ 4, estimate)

Subtracted(m, left, j, window, estimate) ==
    Corrected(m, left, j, window - estimate * m, estimate)

Windowed(m, left, j, window) ==
    Subtracted(m, left, j, window,
               Estimate(m, left.extra_high, window, Word(window, 3), Word(m, 3)))

QuotientWord(m, left, j) == Windowed(m, left, j, (left.rest \div Radix ^ j) % Radix ^ 4)

WordCount(n) == IF n = 0 THEN 0 ELSE CHOOSE l \in 1..18 : Radix ^ (l - 1) <= n /\ n < Radix ^ l

\* Quotient and remainder by a modulus, from the highest word down.
div_rem(n, m) ==
    LET Divide(left, j) == QuotientWord(m, left, j)
        Result(last) == <<last.quotient, (last.rest % Radix ^ 3) + last.extra_high * Radix ^ 3>>
        length == WordCount(n)
    IN  IF length <= 4 /\ n < m THEN <<0, n>>
        ELSE Result(FoldLeft(Divide, [rest |-> n, extra_high |-> 0, quotient |-> 0],
                             [k \in 1..(length - 3) |-> length - 3 - k]))

\* Products of two operands and multiples of a modulus fit the words they get.
multiply_wide(x, y) == x * y
modulus_multiple(m, factor) == m * factor

\* The inverse of a reduced value, if there is one.
modular_inverse(u, m) ==
    IF u >= m \/ u = 0 THEN NoHint
    ELSE IF \E v \in 1..(m - 1) : (u * v) % m = 1 THEN CHOOSE v \in 1..(m - 1) : (u * v) % m = 1
         ELSE NoHint
-----------------------------------------------------------------------------
Fits(v, bits) == v \in 0..(2 ^ bits - 1)

Hinted(admitted, honest) == IF prover = "honest" THEN admitted \cap {honest} ELSE admitted

rep(v)          == [value |-> v, bound |-> 2]
rep_add(x, y)   == [value |-> x.value + y.value, bound |-> x.bound + y.bound]
rep_scale(k, x) == [value |-> k * x.value, bound |-> k * x.bound]
rep_sub(m, x, y) ==
    [value |-> x.value + modulus_multiple(m, y.bound) - y.value, bound |-> x.bound + y.bound]
-----------------------------------------------------------------------------
\* What an honest closure divides: from_evaluated and the bias may refuse it.
Dividend(n, operands) == IF (\A v \in operands : Evaluated(v)) /\ n >= 0 THEN n ELSE NoHint

\* Of a word, by hinting its slack.
assert_lt(m, v) == Fits((m - 1) - v, WIDTH)

\* The hinted words of n = r + q m: the remainder is a word, q has [bits] bits.
Splits(m, n, bits) ==
    {<<(n - r) \div m, r>> :
        r \in {r \in {n % m, (n % m) + m} : r \in Words /\ Fits((n - r) \div m, bits)}}

HonestSplit(m, n, bits) ==
    IF n = NoHint THEN <<NoHint, NoHint>>
    ELSE LET Cut(split) == <<split[1] % 2 ^ bits, split[2]>> IN Cut(div_rem(n, m))

Remainders(m, n, bits, operands) ==
    {split[2] : split \in Hinted(Splits(m, n, bits), HonestSplit(m, Dividend(n, operands), bits))}

lazy_mul(m, x, y) ==
    {rep(r) : r \in Remainders(m, multiply_wide(x.value, y.value), WIDTH + 9, {x.value, y.value})}

lazy_mul_sub_to_elem(m, x, y, target) ==
    Remainders(m, multiply_wide(x.value, y.value) + modulus_multiple(m, target.bound) - target.value,
               WIDTH + 9, {x.value, y.value, target.value})

\* Mistake: the range check of the reduction is left out.
lazy_reduce_Relaxed(m, x) == Remainders(m, x.value, WIDTH + 9, {x.value})

\* lazy_reduce, lazy_reduce_scalar: the remainder is canonical.
lazy_reduce(m, x) == {r \in Remainders(m, x.value, WIDTH + 9, {x.value}) : assert_lt(m, r)}

relaxed_reduce_small(m, v) == Remainders(m, v, 2, {v})
relaxed_mul(m, x, y) == Remainders(m, multiply_wide(x, y), WIDTH + 2, {x, y})

\* The constraint x y = target + q m - bias, and the honest quotient for it.
lazy_assert_mul_eq(m, x, y, target) ==
    LET Quotients(n) == Hinted({n \div m},
            HonestSplit(m, Dividend(n, {x.value, y.value, target.value}), WIDTH + 9)[1])
        Holds(n) == \E q \in Quotients(n) : Fits(q, WIDTH + 9) /\ q * m = n
    IN  Holds(multiply_wide(x.value, y.value) + modulus_multiple(m, target.bound) - target.value)

(***************************************************************************)
(* The words v with v denominator = numerator + q m - bias; the honest one *)
(* is the quotient of the residues, if its equation divides.               *)
(***************************************************************************)
lazy_divide(m, denominator, numerator) ==
    LET a == denominator.value
        b == numerator.value
        Shifted(v) == v * a + modulus_multiple(m, numerator.bound) - b
        admitted == {v \in Words : Shifted(v) % m = 0 /\ Fits(Shifted(v) \div m, WIDTH + 9)}
        Divides(n) == n >= 0 /\ div_rem(n, m)[1] * m = n
        Checked(value) == IF Divides(Shifted(value)) THEN value ELSE NoHint
        Times(inverse) == IF inverse = NoHint THEN NoHint
                          ELSE Checked(div_rem(inverse * div_rem(b, m)[2], m)[2])
        honest == IF Dividend(0, {a, b}) = NoHint THEN NoHint
                  ELSE Times(modular_inverse(div_rem(a, m)[2], m))
    IN  {rep(v) : v \in Hinted(admitted, honest)}
-----------------------------------------------------------------------------
evaluated_is_one(v) == v = 1

and_bit(x, y) == IF evaluated_is_one(x) /\ evaluated_is_one(y) THEN 1 ELSE 0
and3_bit(x, y, z) == and_bit(z, and_bit(x, y))

\* Mistake: the flag is not bound to a multiple of the modulus.
lazy_zero_test_Free(m, x) ==
    IF x.value % m = 0 THEN {1} ELSE {0, 1}

(***************************************************************************)
(* The flag z of a zero test: x inverse = 1 - z and z x = 0 modulo m, by   *)
(* hinted flag, inverse and nine-bit quotient.                             *)
(***************************************************************************)
lazy_zero_test(m, x) ==
    LET Holds(z, inverse) ==
            /\ lazy_assert_mul_eq(m, x, rep(inverse), [value |-> 1 - z, bound |-> 1])
            /\ (z * x.value) % m = 0 /\ Fits((z * x.value) \div m, 9)
        Invert(inverse) == IF inverse = NoHint THEN 0 ELSE inverse
        Honest(value) == <<IF value = 0 THEN 1 ELSE 0, Invert(modular_inverse(value, m))>>
        Pairs == IF prover = "honest"
                 THEN IF Evaluated(x.value) THEN {Honest(div_rem(x.value, m)[2])} ELSE {}
                 ELSE {0, 1} \X Words
    IN  {z \in {0, 1} : \E pair \in Pairs : pair[1] = z /\ Holds(z, pair[2])}

\* A hint that copies a value: its low bits, unless it is negative.
packed_evaluated(v, bits) == IF v < 0 THEN NoHint ELSE v % 2 ^ bits

\* choose (one - zero) = out - zero, for a hinted output of [bits] bits.
select_rep(choose, one, zero, bits, bound) ==
    LET out == zero.value + choose * (one.value - zero.value)
        honest == packed_evaluated(IF evaluated_is_one(choose) THEN one.value ELSE zero.value, bits)
    IN  {[value |-> v, bound |-> bound] : v \in Hinted({out} \cap 0..(2 ^ bits - 1), honest)}

select_canonical(choose, one, zero) == select_rep(choose, one, zero, WIDTH, 2)
select_formula(choose, one, zero) == select_rep(choose, one, zero, WIDTH + 6, 66)

(***************************************************************************)
(* A window's indicators are bits with sum one and weighted sum the digit: *)
(* one index is set, and it is the digit.  What is looked up must equal    *)
(* the indicated entry.                                                    *)
(***************************************************************************)
indicators(n, digit) == {i \in 0..(n - 1) : i = digit}
lookup_rep(n, digit, values) == {rep(values[i]) : i \in {i \in indicators(n, digit) : values[i] \in Words}}
lookup_flag(n, digit, flags) == {flags[i] : i \in {i \in indicators(n, digit) : flags[i] \in {0, 1}}}
-----------------------------------------------------------------------------
Point(x, y, infinity) == [x |-> x, y |-> y, infinity |-> infinity]

infinity_point == Point(rep(0), rep(0), 1)
point_from_elems(x, y) == Point(rep(x), rep(y), 0)

\* Doubling of any point; infinity becomes a slope of zero over one.
double_complete(p) ==
    LET AtInfinity(k) == [value |-> k * p.infinity, bound |-> 1]
        denominator == rep_add(rep_scale(2, p.y), AtInfinity(1))
        Numerator(x2) == rep_add(rep_sub(BaseModulus, rep_scale(3, x2), rep(3)), AtInfinity(3))
        Slopes == UNION {lazy_divide(BaseModulus, denominator, Numerator(x2)) :
                            x2 \in lazy_mul(BaseModulus, p.x, p.x)}
        Xs(slope) == lazy_mul_sub_to_elem(BaseModulus, slope, slope, rep_scale(2, p.x))
        Ys(slope, x) ==
            lazy_mul_sub_to_elem(BaseModulus, slope, rep_sub(BaseModulus, p.x, rep(x)), p.y)
    IN  UNION {UNION {{Point(rep(x), rep(y), p.infinity) : y \in Ys(slope, x)}
                        : x \in Xs(slope)} : slope \in Slopes}

\* The numerators and denominators of the slope: of the tangent, of the chord,
\* or zero over one where the sum needs no slope.
Slopes(p, q, double_case, active) ==
    LET dx == rep_sub(BaseModulus, q.x, p.x)
        dy == rep_sub(BaseModulus, q.y, p.y)
        Tangents == {rep_sub(BaseModulus, rep_scale(3, x2), rep(3)) :
                        x2 \in lazy_mul(BaseModulus, p.x, p.x)}
        Numerators == UNION {select_formula(active, n, rep(0)) :
                        n \in UNION {select_formula(double_case, t, dy) : t \in Tangents}}
        Denominators == UNION {select_formula(active, d, rep(1)) :
                          d \in select_formula(double_case, rep_scale(2, p.y), dx)}
    IN  UNION {lazy_divide(BaseModulus, pair[2], pair[1]) : pair \in Numerators \X Denominators}

\* The sum of any two points.
add_complete(p, q) ==
    LET dx == rep_sub(BaseModulus, q.x, p.x)
        finite == and_bit(1 - p.infinity, 1 - q.infinity)
        Double(flags) == and_bit(finite, and_bit(flags[1], 1 - flags[2]))
        Active(flags) == Double(flags) + and_bit(finite, 1 - flags[1])
        Infinity(flags) == and_bit(p.infinity, q.infinity)
                           + and3_bit(flags[1], flags[2], finite)
        Xs(slope) == lazy_mul_sub_to_elem(BaseModulus, slope, slope, rep_add(p.x, q.x))
        Ys(slope, x) ==
            lazy_mul_sub_to_elem(BaseModulus, slope, rep_sub(BaseModulus, p.x, rep(x)), p.y)
        \* The coordinates when one of the points is infinity, and then of the sum.
        Idle(one, two) == UNION {select_canonical(p.infinity, two, idle) :
                                    idle \in select_canonical(q.infinity, one, rep(0))}
        Chosen(active, v, one, two) ==
            UNION {select_canonical(active, rep(v), idle) : idle \in Idle(one, two)}
        Sums(flags) ==
            UNION {UNION {UNION {
                {Point(xy[1], xy[2], Infinity(flags)) :
                    xy \in Chosen(Active(flags), x, p.x, q.x) \X Chosen(Active(flags), y, p.y, q.y)}
                : y \in Ys(slope, x)} : x \in Xs(slope)}
                : slope \in Slopes(p, q, Double(flags), Active(flags))}
    IN  UNION {Sums(flags) : flags \in lazy_zero_test(BaseModulus, dx)
                                       \X lazy_zero_test(BaseModulus, rep_add(p.y, q.y))}
-----------------------------------------------------------------------------
\* The constant table of the generator's multiples, by affine addition; the
\* entry of zero is (0, 0).
affine_add(p, q) ==
    LET M == BaseModulus
        numerator == IF p = q THEN (3 * p[1] * p[1] + M - 3) % M ELSE (q[2] + M - p[2]) % M
        denominator == IF p = q THEN (2 * p[2]) % M ELSE (q[1] + M - p[1]) % M
        slope == (numerator * modular_inverse(denominator, M)) % M
        x == (slope * slope + 2 * M - p[1] - q[1]) % M
    IN  <<x, (slope * ((p[1] + M - x) % M) + M - p[2]) % M>>

generator_table(entries) ==
    LET G == <<GeneratorX, GeneratorY>>
        Append1(table, k) == Append(table, affine_add(table[k], G))
        multiples == FoldLeft(Append1, <<G>>, [k \in 1..(entries - 2) |-> k])
    IN  [i \in 0..(entries - 1) |-> IF i = 0 THEN <<0, 0>> ELSE multiples[i]]

\* One window of the fixed base: a combination of constants by the indicators.
lookup_generator(entries, digit) ==
    {Point(rep(generator_table(entries)[i][1]), rep(generator_table(entries)[i][2]),
           IF i = 0 THEN 1 ELSE 0) : i \in indicators(entries, digit)}

\* One window of the variable base, from a table of points 0 .. entries - 1.
lookup_point(entries, digit, table) ==
    {Point(c[1], c[2], c[3]) : c \in
        lookup_rep(entries, digit, [i \in 0..(entries - 1) |-> table[i].x.value])
        \X lookup_rep(entries, digit, [i \in 0..(entries - 1) |-> table[i].y.value])
        \X lookup_flag(entries, digit, [i \in 0..(entries - 1) |-> table[i].infinity])}

\* The public key is on the curve; its coordinates are canonical words.
assert_on_curve(x, y) ==
    \E x2 \in lazy_mul(BaseModulus, rep(x), rep(x)) : \E x3 \in lazy_mul(BaseModulus, x2, rep(x)) :
        lazy_assert_mul_eq(BaseModulus, rep(y), rep(y),
            rep_sub(BaseModulus, rep_add(x3, rep(CurveB)), rep_scale(3, rep(x))))
=============================================================================
