----------------------------- MODULE BitMatrix -----------------------------
(***************************************************************************)
(* The committed bits in memory order: BitTable and BitMatrix of crate     *)
(* common, and the transpose that swaps which axis is contiguous.  A word  *)
(* is the set of the positions of its one bits; words of a sequence count  *)
(* from one, rows, columns and bits from zero.                             *)
(***************************************************************************)
EXTENDS Integers, Sequences, SequencesExt

CONSTANT BITS  \* bits of a Word, a power of two: 128 in the code

Lanes == 0 .. BITS - 1

\* xs[dim1][2^log_dim2]: words that hold the bits of each xs[i1] in order.
BitMatrix(packed, log_dim2) == [packed |-> packed, log_dim2 |-> log_dim2]

dim2(m) == 2^m.log_dim2
dim1(m) == (Len(m.packed) * BITS) \div dim2(m)

\* StepIter<1>: the bits of words, the least significant of each first.
BitsIter(words) ==
    [k \in 1 .. Len(words) * BITS |->
        IF (k - 1) % BITS \in words[(k - 1) \div BITS + 1] THEN 1 ELSE 0]

\* The words of xs[i1], and its bits.
WordsOf(packed, i1, words) == SubSeq(packed, i1 * words + 1, (i1 + 1) * words)

MatrixBits(m, i1) == BitsIter(WordsOf(m.packed, i1, dim2(m) \div BITS))

(***************************************************************************)
(* One pass of transpose_bit_block: rows j apart swap the high part of the *)
(* lower one with the low part of the higher one, in lanes 2j wide.        *)
(***************************************************************************)
SwapLanes(a, j) ==
    LET low(i) == (i \div j) % 2 = 0
        Kept(i) == {p \in a[i] : low(p) <=> low(i)}
    IN  [i \in Lanes |->
            Kept(i) \cup IF low(i) THEN {p + j : p \in {p \in a[i + j] : low(p)}}
                         ELSE {p - j : p \in {p \in a[i - j] : ~low(p)}}]

Log2(n) == CHOOSE k \in 0..n : 2^k = n

transpose_bit_block(a) ==
    FoldLeft(SwapLanes, a, [pass \in 1 .. Log2(BITS) |-> BITS \div 2^pass])

\* Block g1, g2 of BITS x BITS bits, both axes in whole words.
bit_transpose(xs, d1, d2) ==
    LET words1 == d1 \div BITS
        words2 == d2 \div BITS
        Block(g1, g2) == [a \in Lanes |-> xs[(g1 * BITS + a) * words2 + g2 + 1]]
        Out(row, g1) == transpose_bit_block(Block(g1, row \div BITS))[row % BITS]
    IN  [w \in 1..Len(xs) |-> Out((w - 1) \div words1, (w - 1) % words1)]

transpose(m) == BitMatrix(bit_transpose(m.packed, dim1(m), dim2(m)), Log2(dim1(m)))
-----------------------------------------------------------------------------
\* BitTable: bit B[c][b] has index (c << log_rows) | b.
TableBit(packed, log_rows, c, b) ==
    LET index == c * 2^log_rows + b IN (index % BITS) \in packed[index \div BITS + 1]

TableColumn(packed, log_rows, c) == WordsOf(packed, c, 2^log_rows \div BITS)

as_matrix(packed, log_rows) == BitMatrix(packed, log_rows)
=============================================================================
