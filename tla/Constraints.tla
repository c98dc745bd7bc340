---------------------------- MODULE Constraints ----------------------------
(***************************************************************************)
(* Sparse constraint generation: linear combinations over F2, which become *)
(* the rows of the Boolean matrix M, and over the integers, which become   *)
(* the rows of A, B and C.  Witness indices count from zero; column 0 of a *)
(* matrix is the constant one.                                             *)
(***************************************************************************)
EXTENDS Integers, Sequences, SequencesExt

\* Of two equal keys, what merge returns: a sequence of at most one element.
merge_sorted_vecs(lhs, rhs, key(_), merge(_, _)) ==
    LET n == Len(lhs)
        m == Len(rhs)
        merged[p \in (1 .. n + 1) \X (1 .. m + 1)] ==
            LET i == p[1]
                j == p[2]
            IN  IF i > n THEN SubSeq(rhs, j, m)
                ELSE IF j > m THEN SubSeq(lhs, i, n)
                ELSE IF key(lhs[i]) < key(rhs[j]) THEN <<lhs[i]>> \o merged[<<i + 1, j>>]
                ELSE IF key(lhs[i]) > key(rhs[j]) THEN <<rhs[j]>> \o merged[<<i, j + 1>>]
                ELSE merge(lhs[i], rhs[j]) \o merged[<<i + 1, j + 1>>]
    IN  IF lhs = <<>> THEN rhs
        ELSE IF rhs = <<>> THEN lhs
        ELSE IF key(lhs[n]) < key(rhs[1]) THEN lhs \o rhs
        ELSE IF key(rhs[m]) < key(lhs[1]) THEN rhs \o lhs
        ELSE merged[<<1, 1>>]
-----------------------------------------------------------------------------
\* BoolLinearCombination.
bool_constant(value) == [constant |-> value, witnesses |-> <<>>]

bool_witness(index) == [constant |-> FALSE, witnesses |-> <<index>>]

\* Sorted indices, those on both sides dropped.
DropOverlaps(lhs, rhs) == merge_sorted_vecs(lhs, rhs, LAMBDA i : i, LAMBDA i, j : <<>>)

\* Mistake: a witness on both sides stays.
bool_xor_keep(lhs, rhs) ==
    [constant |-> lhs.constant # rhs.constant,
     witnesses |-> merge_sorted_vecs(lhs.witnesses, rhs.witnesses,
                                     LAMBDA i : i, LAMBDA i, j : <<i>>)]

\* Mistake: ranges are taken for disjoint when they meet in one witness.
bool_xor_touching(lhs, rhs) ==
    [constant |-> lhs.constant # rhs.constant,
     witnesses |-> IF lhs.witnesses # <<>> /\ rhs.witnesses # <<>>
                      /\ Last(lhs.witnesses) <= Head(rhs.witnesses)
                   THEN lhs.witnesses \o rhs.witnesses
                   ELSE DropOverlaps(lhs.witnesses, rhs.witnesses)]

bool_xor(lhs, rhs) ==
    [constant |-> lhs.constant # rhs.constant,
     witnesses |-> DropOverlaps(lhs.witnesses, rhs.witnesses)]

bool_sparse_row(lc) ==
    (IF lc.constant THEN <<0>> ELSE <<>>) \o [k \in DOMAIN lc.witnesses |-> lc.witnesses[k] + 1]

\* The part of into_matrices that makes M.
into_m(next_boolean_witness, m_rows) ==
    [rows |-> <<<<0>>>> \o [k \in DOMAIN m_rows |-> bool_sparse_row(m_rows[k])],
     columns |-> next_boolean_witness + 1]

\* LinearCombination: a constant and terms <<index, coefficient>>, sorted.
lc_constant(n) == [constant |-> n, witnesses |-> <<>>]

lc_witness(index) == [constant |-> 0, witnesses |-> <<<<index, 1>>>>]

\* Sorted terms, the coefficients of one index added and dropped at zero.
AddTerms(lhs, rhs) ==
    merge_sorted_vecs(lhs, rhs, LAMBDA t : t[1],
        LAMBDA t, u : IF t[2] + u[2] = 0 THEN <<>> ELSE <<<<t[1], t[2] + u[2]>>>>)

lc_add(lhs, rhs) ==
    [constant |-> lhs.constant + rhs.constant,
     witnesses |-> AddTerms(lhs.witnesses, rhs.witnesses)]

Scaled(lc, n) ==
    [constant |-> lc.constant * n,
     witnesses |-> [k \in DOMAIN lc.witnesses |-> <<lc.witnesses[k][1], lc.witnesses[k][2] * n>>]]

lc_neg(lc) == Scaled(lc, -1)

lc_sub(lhs, rhs) == lc_add(lhs, lc_neg(rhs))

lc_mul(lc, n) == IF n = 0 THEN lc_constant(0) ELSE Scaled(lc, n)

\* The lifts of a word whose bits are the n integer witnesses from this one.
lc_bits(first, n) ==
    [constant |-> 0, witnesses |-> [k \in 1..n |-> <<first + k - 1, 2 ^ (k - 1)>>]]

\* Mistake: the constant does not get a column.
into_homogeneous_row(lc) ==
    [k \in DOMAIN lc.witnesses |-> <<lc.witnesses[k][1] + 1, lc.witnesses[k][2]>>]

into_sparse_row(lc) ==
    (IF lc.constant # 0 THEN <<<<0, lc.constant>>>> ELSE <<>>)
      \o [k \in DOMAIN lc.witnesses |-> <<lc.witnesses[k][1] + 1, lc.witnesses[k][2]>>]

\* The part of into_matrices that makes A, B and C.
into_abc(r1cs) ==
    [A |-> [row \in DOMAIN r1cs |-> into_sparse_row(r1cs[row].a)],
     B |-> [row \in DOMAIN r1cs |-> into_sparse_row(r1cs[row].b)],
     C |-> [row \in DOMAIN r1cs |-> into_sparse_row(r1cs[row].c)]]

\* The integer witness by column, the constant one in column 0.
evaluate_integer_row(row, integers) ==
    FoldLeft(LAMBDA sum, entry : sum + entry[2] * integers[entry[1]], 0, row)

\* ConstraintMatrices::check_witness, past the checks of the shape.
check_witness(abc, integers) ==
    \A row \in DOMAIN abc.A :
        evaluate_integer_row(abc.A[row], integers) * evaluate_integer_row(abc.B[row], integers)
          = evaluate_integer_row(abc.C[row], integers)
-----------------------------------------------------------------------------
\* What SparseBoolMatrix::try_from_rows demands of a matrix from outside.
WellFormed(m) ==
    \A r \in DOMAIN m.rows :
        LET row == m.rows[r] IN
        \A k \in DOMAIN row : /\ row[k] < m.columns
                              /\ k > 1 => row[k - 1] < row[k]

\* ConstraintMatrices::integer_witness; the witness as its bits, from zero.
integer_witness(m, witness_bits) ==
    [r \in DOMAIN m.rows |->
        FoldLeft(LAMBDA value, column : value # (column = 0 \/ witness_bits[column - 1]),
                 FALSE, m.rows[r])]
=============================================================================
