-------------------------- MODULE MatrixTranspose --------------------------
(***************************************************************************)
(* The recorder of the transposed Boolean matrix.  A bit is a sum over F2  *)
(* of columns of 1 || f, column 0 being the constant one: its support, in  *)
(* increasing order, is kept in the handle while it is short and in the    *)
(* recorder's arena once it is longer.  The owner of a handle is not kept: *)
(* one recorder makes and reads all of them.  The widths of the counters   *)
(* (u32, every overflow an abort) are not reached.                         *)
(*                                                                         *)
(* Elements of F128 are only added here.  A weight is a set, and the sum   *)
(* of two their symmetric difference: with weight {i} for row i, sums over *)
(* different rows differ, so an equation holds for all weights in F128.    *)
(***************************************************************************)
EXTENDS Integers, Sequences, SequencesExt

CONSTANT InlineSupport  \* MATRIX_INLINE_SUPPORT, 4 in the code

ASSUME InlineAssumption == InlineSupport \in Nat \ {0}

Plus(a, b) == (a \ b) \cup (b \ a)
Total(weights) == FoldLeft(Plus, {}, weights)
-----------------------------------------------------------------------------
constant(value) ==
    [constant_term |-> value, arena |-> FALSE, support |-> IF value THEN <<0>> ELSE <<>>]

witness_bit(index) == [constant_term |-> FALSE, arena |-> FALSE, support |-> <<index + 1>>]

with_witnesses(count) ==
    [witness_count |-> count,
     expression_offsets |-> <<0>>, expression_entries |-> <<>>,
     row_offsets |-> <<0, 1>>, column_indices |-> <<0>>]

allocate_witness(r) ==
    [recorder |-> [r EXCEPT !.witness_count = @ + 1], bit |-> witness_bit(r.witness_count)]

\* The columns of a bit; in the arena, those of the expression it names.
support(r, bit) ==
    IF bit.arena
    THEN SubSeq(r.expression_entries, r.expression_offsets[bit.support[1]] + 1,
                r.expression_offsets[bit.support[1] + 1])
    ELSE bit.support

symmetric_difference(left, right) ==
    LET merge[p \in (1 .. Len(left) + 1) \X (1 .. Len(right) + 1)] ==
            LET i == p[1]
                j == p[2]
            IN  IF i > Len(left) THEN SubSeq(right, j, Len(right))
                ELSE IF j > Len(right) THEN SubSeq(left, i, Len(left))
                ELSE IF left[i] < right[j] THEN <<left[i]>> \o merge[<<i + 1, j>>]
                ELSE IF left[i] > right[j] THEN <<right[j]>> \o merge[<<i, j + 1>>]
                ELSE merge[<<i + 1, j + 1>>]
    IN  merge[<<1, 1>>]

\* Mistake: the arena is used again from its beginning.
bit_from_support_reused(r, columns) ==
    LET first == columns # <<>> /\ columns[1] = 0
    IN  IF Len(columns) <= InlineSupport
        THEN [recorder |-> r, bit |-> [constant_term |-> first, arena |-> FALSE, support |-> columns]]
        ELSE [recorder |-> [r EXCEPT !.expression_entries = columns,
                                     !.expression_offsets = <<0, Len(columns)>>],
              bit |-> [constant_term |-> first, arena |-> TRUE, support |-> <<1>>]]

bit_from_support(r, columns) ==
    LET first == columns # <<>> /\ columns[1] = 0
        entries == r.expression_entries \o columns
    IN  IF Len(columns) <= InlineSupport
        THEN [recorder |-> r, bit |-> [constant_term |-> first, arena |-> FALSE, support |-> columns]]
        ELSE [recorder |-> [r EXCEPT !.expression_entries = entries,
                                     !.expression_offsets = Append(@, Len(entries))],
              bit |-> [constant_term |-> first, arena |-> TRUE,
                       support |-> <<Len(r.expression_offsets)>>]]

matrix_xor(r, lhs, rhs) ==
    IF lhs.support = <<>> THEN [recorder |-> r, bit |-> rhs]
    ELSE IF rhs.support = <<>> THEN [recorder |-> r, bit |-> lhs]
    ELSE bit_from_support(r, symmetric_difference(support(r, lhs), support(r, rhs)))

push_row(r, bit) ==
    LET columns == r.column_indices \o support(r, bit)
    IN  [r EXCEPT !.column_indices = columns, !.row_offsets = Append(@, Len(columns))]
-----------------------------------------------------------------------------
(***************************************************************************)
(* finish: a counting sort of the entries by column.  The entries of a     *)
(* column keep the order of their rows, so slot s of the result holds the  *)
(* row of the entry with s - 1 entries in front of it.                     *)
(***************************************************************************)
RowOf(r, entry) == CHOOSE row \in 1 .. Len(r.row_offsets) - 1 :
    r.row_offsets[row] < entry /\ entry <= r.row_offsets[row + 1]

InFront(r, column) == {k \in DOMAIN r.column_indices : r.column_indices[k] < column}

finish(r) ==
    LET entries == DOMAIN r.column_indices
        before(k) == {j \in entries : r.column_indices[j] = r.column_indices[k] /\ j < k}
        slot(k) == Cardinality(InFront(r, r.column_indices[k])) + Cardinality(before(k)) + 1
    IN  [row_count |-> Len(r.row_offsets) - 1,
         column_offsets |-> [c \in 1 .. r.witness_count + 2 |-> Cardinality(InFront(r, c - 1))],
         row_indices |-> [s \in entries |->
            RowOf(r, CHOOSE k \in entries : slot(k) = s)]]

\* apply: one sum per column.
apply(csc, weights) ==
    [c \in 1 .. Len(csc.column_offsets) - 1 |->
        Total([i \in 1 .. csc.column_offsets[c + 1] - csc.column_offsets[c] |->
                 weights[csc.row_indices[csc.column_offsets[c] + i]]])]

WeightCountMismatch == [ok |-> FALSE]

\* Mistake: apply's check of the length is taken for the map's.
transpose_exact(csc, weights) ==
    IF Len(weights) # csc.row_count THEN WeightCountMismatch
    ELSE LET columns == apply(csc, weights)
         IN  [ok |-> TRUE, constant_weight |-> Head(columns), weights |-> Tail(columns)]

\* VirtualMap::transpose: weights past the rows multiply padding; column zero
\* is split off.
transpose(csc, weights) ==
    IF Len(weights) < csc.row_count THEN WeightCountMismatch
    ELSE LET columns == apply(csc, SubSeq(weights, 1, csc.row_count))
         IN  [ok |-> TRUE, constant_weight |-> Head(columns), weights |-> Tail(columns)]
=============================================================================
