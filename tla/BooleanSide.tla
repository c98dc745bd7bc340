---------------------------- MODULE BooleanSide ----------------------------
(***************************************************************************)
(* One circuit on three backends at once, seen from its Boolean side.      *)
(* Witgen runs hints and packs the witness f and the integer witness h;    *)
(* ConstraintGenerator records the matrix M as rows; MTransposeGenerator   *)
(* records it for multiplication from the left, and is finished and        *)
(* applied at the end.  The circuit is any sequence of calls, and a hint   *)
(* computes any bits: the k-th expression made is bits[k], rows[k] and     *)
(* columns[k].  A failing hint aborts the run and is left out.             *)
(***************************************************************************)
EXTENDS PackedWords, MatrixTranspose, Constraints

CONSTANTS
    InputCount,   \* Boolean inputs of the circuit
    WordWidths,   \* the widths hints and packed lifts are called with
    MaxHandles,   \* bound of the expressions made
    MaxRows       \* bound of the rows of M

ASSUME CircuitAssumption ==
    /\ InputCount \in Nat
    /\ WordWidths \subseteq Nat
    /\ MaxHandles \in Nat /\ MaxRows \in Nat

VARIABLES
    bits,        \* bool, of Witgen
    witness,     \* PackedWitness of Witgen: f
    integers,    \* PackedWitness of Witgen: M * w
    rows,        \* BoolLinearCombination, of ConstraintGenerator
    generator,   \* next_boolean_witness and m_rows
    columns,     \* MatrixBit, of MTransposeGenerator
    recorder,    \* MTransposeRecorder
    csc,         \* what finish made of it, as a set of at most one
    claim        \* what transpose made of some weights, as a set of at most one

vars == <<bits, witness, integers, rows, generator, columns, recorder, csc, claim>>

Strings(n) == [1..n -> BOOLEAN]
InputColumns == [i \in 1..InputCount |-> witness_bit(i - 1)]

Init ==
    \E inputs \in Strings(InputCount) :
        /\ bits = <<FALSE, TRUE>> \o inputs
        /\ witness = extend(EmptyWitness, inputs)
        /\ integers = extend(EmptyWitness, <<TRUE>>)
        /\ rows = <<bool_constant(FALSE), bool_constant(TRUE)>>
                    \o [i \in 1..InputCount |-> bool_witness(i - 1)]
        /\ generator = [next_boolean_witness |-> InputCount, m_rows |-> <<>>]
        /\ columns = <<constant(FALSE), constant(TRUE)>> \o InputColumns
        /\ recorder = with_witnesses(InputCount)
        /\ csc = {} /\ claim = {}

Building == csc = {} /\ UNCHANGED <<csc, claim>>

\* Circuit::xor.
Xor == \E i, j \in DOMAIN bits :
    LET sum == matrix_xor(recorder, columns[i], columns[j]) IN
    /\ Building
    /\ Len(bits) < MaxHandles
    /\ bits' = Append(bits, bits[i] # bits[j])
    /\ rows' = Append(rows, bool_xor(rows[i], rows[j]))
    /\ columns' = Append(columns, sum.bit)
    /\ recorder' = sum.recorder
    /\ UNCHANGED <<witness, integers, generator>>

\* The recorder allocates the bits of a hint one after the other.
AllocateBits(r, n) ==
    FoldLeft(LAMBDA made, k :
                LET one == allocate_witness(made.recorder)
                IN  [recorder |-> one.recorder, bits |-> Append(made.bits, one.bit)],
             [recorder |-> r, bits |-> <<>>], [k \in 1..n |-> k])

HintBits(n) == [generator EXCEPT !.next_boolean_witness = @ + n]

\* Circuit::hint, whose closure returned these bits.
Hint == \E n \in WordWidths : \E values \in Strings(n) :
    LET first == generator.next_boolean_witness
        made == AllocateBits(recorder, n)
    IN
    /\ Building
    /\ Len(bits) + n <= MaxHandles
    /\ bits' = bits \o values
    /\ witness' = extend_packed(witness, from_array(values))
    /\ rows' = rows \o [k \in 1..n |-> bool_witness(first + k - 1)]
    /\ generator' = HintBits(n)
    /\ columns' = columns \o made.bits
    /\ recorder' = made.recorder
    /\ UNCHANGED integers

Words(n) == [1..n -> DOMAIN bits]

\* Mistake: the packed lift puts the most significant bit first.
LiftedReversed(word) ==
    extend_packed(integers, from_array([k \in DOMAIN word |-> bits[word[Len(word) + 1 - k]]]))

Lifted(word) == extend_packed(integers, from_array([k \in DOMAIN word |-> bits[word[k]]]))

\* record_bitz and push_row of every bit of the word, in order.
Recorded(word) ==
    /\ generator' = [generator EXCEPT !.m_rows = @ \o [k \in DOMAIN word |-> rows[word[k]]]]
    /\ recorder' = FoldLeft(LAMBDA r, k : push_row(r, columns[k]), recorder, word)
    /\ UNCHANGED <<bits, witness, rows, columns>>

\* Circuit::bitz.
Bitz == \E i \in DOMAIN bits :
    /\ Building
    /\ Len(generator.m_rows) < MaxRows
    /\ integers' = extend(integers, <<bits[i]>>)
    /\ Recorded(<<i>>)

\* Circuit::bitz_unsigned, as far as the Boolean side is concerned.
BitzUnsigned == \E n \in WordWidths : \E word \in Words(n) :
    /\ Building
    /\ Len(generator.m_rows) + n <= MaxRows
    /\ integers' = Lifted(word)
    /\ Recorded(word)

Finish ==
    /\ csc = {}
    /\ csc' = {finish(recorder)}
    /\ UNCHANGED <<bits, witness, integers, rows, generator, columns, recorder, claim>>

\* The rows of M, the constant row among them.
RowCount == Len(generator.m_rows) + 1

\* One weight too few, exactly enough, and enough for a padded witness.
Transpose == \E matrix \in csc, count \in RowCount - 1 .. RowCount + 1 :
    /\ claim = {}
    /\ claim' = {[asked |-> count, got |-> transpose(matrix, [i \in 1..count |-> {i}])]}
    /\ UNCHANGED <<bits, witness, integers, rows, generator, columns, recorder, csc>>

Next == Xor \/ Hint \/ Bitz \/ BitzUnsigned \/ Finish \/ Transpose

Spec == Init /\ [][Next]_vars
-----------------------------------------------------------------------------
\* f and h as bits, read the way PackedWitness::bit reads them.
Unpacked(p) == [k \in 1 .. p.bit_len |-> bit(p, k - 1)]

M == into_m(generator.next_boolean_witness, generator.m_rows)

\* The value of a sum of columns of 1 || f.
Value(supported) ==
    Cardinality({k \in DOMAIN supported :
                    supported[k] = 0 \/ bit(witness, supported[k] - 1)}) % 2 = 1

\* The row of the recorder, as what push_row stored.
RecordedRow(r) ==
    SubSeq(recorder.column_indices, recorder.row_offsets[r] + 1, recorder.row_offsets[r + 1])

\* An expression means the same bit on every backend: the generator's linear
\* combination and the recorder's support, evaluated over the packed witness,
\* are what Witgen computed, although these two ran no hint and Witgen kept no
\* expression.
BackendsAgree ==
    \A k \in DOMAIN bits :
        /\ Value(bool_sparse_row(rows[k])) = bits[k]
        /\ Value(support(recorder, columns[k])) = bits[k]

\* M (1 || f) = h: the generated matrix maps the packed witness to the integer
\* witness that Witgen packed call by call.
IntegerWitnessIsImage ==
    integer_witness(M, [i \in 0 .. witness.bit_len - 1 |-> bit(witness, i)]) = Unpacked(integers)

\* The generator assembles its rows unchecked; they are such as the checked
\* constructor accepts, and the same rows the recorder stored.
RowsWellFormed ==
    /\ WellFormed(M)
    /\ \A r \in DOMAIN M.rows : RecordedRow(r) = M.rows[r]

\* <M^T v, 1 || f> = <v, h> for all weights v, those on padding ignored; too
\* few weights are refused.  A claim on h becomes one on the committed f.
TransposedClaimHolds ==
    \A c \in claim :
        IF c.asked < integers.bit_len THEN c.got = WeightCountMismatch
        ELSE /\ c.got.ok
             /\ Len(c.got.weights) = witness.bit_len
             /\ Plus(c.got.constant_weight,
                     Total([k \in 1 .. witness.bit_len |->
                              IF bit(witness, k - 1) THEN c.got.weights[k] ELSE {}]))
                = {r \in 1 .. integers.bit_len : bit(integers, r - 1)}

\* What a handle means never changes after it was handed out, whatever the
\* arena goes through.
HandlesKeepMeaning ==
    [][\A k \in DOMAIN columns : support(recorder, columns[k])' = support(recorder, columns[k])]_vars
=============================================================================
