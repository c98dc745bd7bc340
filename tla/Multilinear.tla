---------------------------- MODULE Multilinear ----------------------------
(***************************************************************************)
(* Crate poly over any field: multilinear polynomials as tables of their   *)
(* values on the Boolean cube, little-endian.  The entry the code indexes  *)
(* with j is table[j + 1] here.  The thread-pool variants of a kernel      *)
(* compute the same table and are not told apart.                          *)
(***************************************************************************)
EXTENDS Naturals, Sequences, SequencesExt

CONSTANTS Zero, One, Add(_, _), Sub(_, _), Mul(_, _)

Total(values) == FoldLeft(Add, Zero, values)

inner_product(a, b) == Total([i \in DOMAIN a |-> Mul(a[i], b[i])])

\* Number of coordinates of a table whose length is a power of two.
num_vars(table) == CHOOSE n \in 0 .. Len(table) : 2^n = Len(table)

interpolate(zero, one, r) == Add(zero, Mul(r, Sub(one, zero)))

\* evaluate_exact: the halves by the last coordinate, recursively.
evaluate_exact(table, point) ==
    LET Below[k \in 0 .. Len(point), base \in 0 .. Len(table)] ==
            IF k = 0 THEN table[base + 1]
            ELSE interpolate(Below[k - 1, base], Below[k - 1, base + 2^(k - 1)], point[k])
    IN  Below[Len(point), 0]

WrongPointWidth(table, point) == Len(point) # num_vars(table)

\* A claim scale * table(point) = value, checked against the whole table.
nonsuccinct_verify(claim, table) ==
    /\ ~WrongPointWidth(table, claim.point)
    /\ Mul(claim.scale, evaluate_exact(table, claim.point)) = claim.value

eq_coordinate(x, y) == Add(Sub(One, x), Mul(y, Sub(Add(x, x), One)))

eq_eval(xs, ys) ==
    IF xs = <<>> THEN One
    ELSE FoldLeft(LAMBDA value, i : Mul(value, eq_coordinate(xs[i], ys[i])),
                  eq_coordinate(xs[1], ys[1]), [i \in 1 .. Len(xs) - 1 |-> i + 1])

\* Each coordinate doubles the table: the children at one above those at zero.
eq_table(point) ==
    LET Double(table, r) ==
            [i \in DOMAIN table |-> Sub(table[i], Mul(table[i], r))] \o
            [i \in DOMAIN table |-> Mul(table[i], r)]
    IN  FoldLeft(Double, <<One>>, point)

\* The two factors of eq(., point): the low half of the coordinates, the rest.
make_equality_factors(point) ==
    [low  |-> eq_table(SubSeq(point, 1, Len(point) \div 2)),
     high |-> eq_table(SubSeq(point, Len(point) \div 2 + 1, Len(point)))]

\* poly::f128::evaluate: chunks of 2^low_bits entries against the low factor,
\* the chunk sums against the high one.
evaluate_chunked(table, point, low_bits) ==
    LET cut == IF Len(point) < low_bits THEN Len(point) ELSE low_bits
        Chunks(low, high) ==
            Total([c \in DOMAIN high |->
                     Mul(high[c], inner_product(SubSeq(table, (c - 1) * Len(low) + 1, c * Len(low)), low))])
    IN  Chunks(eq_table(SubSeq(point, 1, cut)), eq_table(SubSeq(point, cut + 1, Len(point))))
-----------------------------------------------------------------------------
\* By definition: eq(x, point) at the Boolean point x of an index, and the
\* value of a table's multilinear extension.
EqAt(index, point) ==
    FoldLeft(LAMBDA acc, i :
                Mul(acc, IF (index \div 2^(i - 1)) % 2 = 1 THEN point[i] ELSE Sub(One, point[i])),
             One, [i \in DOMAIN point |-> i])

Extension(table, point) == Total([j \in DOMAIN table |-> Mul(EqAt(j - 1, point), table[j])])
=============================================================================
