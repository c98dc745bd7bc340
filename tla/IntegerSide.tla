---------------------------- MODULE IntegerSide ----------------------------
(***************************************************************************)
(* One circuit on three backends at once, seen from its integer side.      *)
(* ProductWitgen computes with wrapping integers of fixed widths and keeps *)
(* the products of every constraint; ConstraintGenerator computes with     *)
(* exact linear combinations; WengertGenerator records the tape.  The      *)
(* circuit is any sequence of calls.                                       *)
(*                                                                         *)
(* A bit lifted to an integer is a column of the integer witness.  Witness *)
(* generation is followed for all values of the columns at once: one of    *)
(* its values is a function of the assignment.                             *)
(***************************************************************************)
EXTENDS Wengert, Constraints

CONSTANTS
    Widths,        \* limbs a gadget is instantiated with
    Constants,     \* integers made from coefficients
    Coefficients,  \* integers multiplied with
    MaxWord,       \* bound of the width of a packed lift
    MaxColumns,    \* bound of the integer witness, the constant one left aside
    MaxHandles,    \* bound of the integers made
    Recent,        \* bound: a constraint takes integers from the last so many
    MaxSize        \* bound of these and twice the constraints

ASSUME CircuitAssumption ==
    /\ Widths \subseteq Nat \ {0} /\ Constants \cup Coefficients \subseteq Int
    /\ {MaxWord, MaxColumns, MaxHandles, Recent, MaxSize} \subseteq Nat

VARIABLES
    limbs,      \* per integer made: its width
    values,     \* Z<LIMBS>, of ProductWitgen
    lcs,        \* LinearCombination, of ConstraintGenerator
    handles,    \* WengertValue, of WengertGenerator
    columns,    \* m_rows.len() of ConstraintGenerator
    r1cs,       \* its constraints
    products,   \* IntegerProducts of ProductWitgen
    recorder,   \* Recorder of WengertGenerator
    held        \* the assignments under which no integer left its width

vars == <<limbs, values, lcs, handles, columns, r1cs, products, recorder, held>>

Assignments == [1..MaxColumns -> {0, 1}]

\* The integer witness of an assignment, with the constant one.
Witness(h) == [c \in 0..MaxColumns |-> IF c = 0 THEN 1 ELSE h[c]]

\* The assignments under which a linear combination stays in a width.
HeldBy(width, lc) ==
    LET row == into_sparse_row(lc)
    IN  {h \in held : Holds(width, evaluate_integer_row(row, Witness(h)))}

Init ==
    /\ limbs = <<>> /\ values = <<>> /\ lcs = <<>> /\ handles = <<>>
    /\ columns = 0 /\ r1cs = <<>> /\ products = <<>>
    /\ recorder = NewRecorder
    /\ held = Assignments

Size(made, rows) == Len(limbs) + made + 2 * (Len(r1cs) + rows)

Room(made) == Len(limbs) + made <= MaxHandles /\ Size(made, 0) <= MaxSize

\* A new integer of some width, as each backend has it.
Make(width, value, lc, handle) ==
    /\ Room(1)
    /\ limbs' = Append(limbs, width)
    /\ values' = Append(values, value)
    /\ lcs' = Append(lcs, lc)
    /\ handles' = Append(handles, handle)
    /\ held' = HeldBy(width, lc)
    /\ UNCHANGED <<r1cs, products>>

\* From<Coefficient>.
Constant == \E width \in Widths, n \in Constants :
    /\ Make(width, [h \in Assignments |-> Z(width, n)], lc_constant(n), Handle(0, Z(width, n)))
    /\ UNCHANGED <<columns, recorder>>

\* Circuit::bitz.
Bitz == \E width \in Widths :
    /\ columns < MaxColumns
    /\ Make(width, [h \in Assignments |-> Z(width, h[columns + 1])], lc_witness(columns),
            Handle(Len(recorder.nodes), 1))
    /\ columns' = columns + 1
    /\ recorder' = push_input(recorder)

\* The word whose bits are the next n columns.
Word(h, n) == FoldLeft(LAMBDA sum, k : sum + h[columns + k] * 2 ^ (k - 1), 0, [k \in 1..n |-> k])

\* Circuit::bitz_unsigned.
BitzUnsigned == \E width \in Widths, n \in 1..MaxWord : \E low \in 0..n :
    LET tape == tape_bitz_unsigned(recorder, width, n, low)
        full == lc_bits(columns, n)
        part == lc_bits(columns, low)
    IN
    /\ columns + n <= MaxColumns
    /\ Room(2)
    /\ limbs' = limbs \o <<width, width>>
    /\ values' = values \o <<[h \in Assignments |-> from_packed_bits(width, Word(h, n))],
                             [h \in Assignments |-> from_packed_prefix(width, Word(h, n), low)]>>
    /\ lcs' = lcs \o <<full, part>>
    /\ handles' = handles \o <<tape.full, tape.low>>
    /\ held' = HeldBy(width, full) \cap HeldBy(width, part)
    /\ columns' = columns + n
    /\ recorder' = tape.recorder
    /\ UNCHANGED <<r1cs, products>>

Add == \E i, j \in DOMAIN limbs :
    LET width == limbs[i]
        sum == tape_add(recorder, width, handles[i], handles[j])
    IN
    /\ limbs[j] = width
    /\ Make(width, [h \in Assignments |-> z_add(width, values[i][h], values[j][h])],
            lc_add(lcs[i], lcs[j]), sum.value)
    /\ recorder' = sum.recorder
    /\ UNCHANGED columns

\* The tape and the linear combinations add the negation.
Sub == \E i, j \in DOMAIN limbs :
    LET width == limbs[i]
        sum == tape_add(recorder, width, handles[i], tape_neg(width, handles[j]))
    IN
    /\ limbs[j] = width
    /\ Make(width, [h \in Assignments |-> z_sub(width, values[i][h], values[j][h])],
            lc_sub(lcs[i], lcs[j]), sum.value)
    /\ recorder' = sum.recorder
    /\ UNCHANGED columns

Neg == \E i \in DOMAIN limbs :
    /\ Make(limbs[i], [h \in Assignments |-> z_neg(limbs[i], values[i][h])],
            lc_neg(lcs[i]), tape_neg(limbs[i], handles[i]))
    /\ UNCHANGED <<columns, recorder>>

Mul == \E i \in DOMAIN limbs, n \in Coefficients :
    LET width == limbs[i] IN
    /\ Make(width, [h \in Assignments |-> z_mul(width, values[i][h], Z(width, n))],
            lc_mul(lcs[i], n), tape_mul(width, handles[i], Z(width, n)))
    /\ UNCHANGED <<columns, recorder>>

\* Circuit::sign_extend_z.
SignExtend == \E i \in DOMAIN limbs : \E to \in Widths :
    /\ to >= limbs[i]
    /\ Make(to, [h \in Assignments |-> sign_extend(limbs[i], to, values[i][h])],
            lcs[i],
            [handles[i] EXCEPT !.coefficient = sign_extend(limbs[i], to, @)])
    /\ UNCHANGED <<columns, recorder>>

\* Circuit::assert_r1c: ProductWitgen::assert_r1c keeps the three numbers.
AssertR1c == \E i, j, k \in {x \in DOMAIN limbs : x > Len(limbs) - Recent} :
    LET width == limbs[i]
        number(x) == [h \in Assignments |-> Number(width, values[x][h])]
    IN
    /\ Size(0, 1) <= MaxSize
    /\ limbs[j] = width /\ limbs[k] = width
    /\ r1cs' = Append(r1cs, [a |-> lcs[i], b |-> lcs[j], c |-> lcs[k]])
    /\ products' = Append(products, [a |-> number(i), b |-> number(j), c |-> number(k)])
    /\ recorder' = tape_assert_r1c(recorder, width, handles[i], handles[j], handles[k])
    /\ UNCHANGED <<limbs, values, lcs, handles, columns, held>>

Next ==
    \/ Constant \/ Bitz \/ BitzUnsigned
    \/ Add \/ Sub \/ Neg \/ Mul \/ SignExtend
    \/ AssertR1c

Spec == Init /\ [][Next]_vars
-----------------------------------------------------------------------------
Abc == into_abc(r1cs)

\* IntegerProducts::is_satisfied.
is_satisfied(h) ==
    \A row \in DOMAIN products : products[row].a[h] * products[row].b[h] = products[row].c[h]

\* While no integer leaves its width, the wrapping integers of witness
\* generation are the exact ones of the linear combinations: the circuits pick
\* widths by hand and rely on it.
WrappingIsExact ==
    LET rows == [i \in DOMAIN lcs |-> into_sparse_row(lcs[i])] IN
    \A h \in held :
        LET witness == Witness(h) IN
        \A i \in DOMAIN limbs :
            Number(limbs[i], values[i][h]) = evaluate_integer_row(rows[i], witness)

\* While no integer leaves its width, the products kept during witness
\* generation and the matrices agree on whether the witness satisfies the
\* circuit.
SameVerdict ==
    LET abc == Abc IN
    \A h \in held : is_satisfied(h) <=> check_witness(abc, Witness(h))

\* While no integer leaves its width under any assignment, the tape computes
\* r (A + x B + x^2 C): pruning, levels, power groups and chunks lose nothing
\* and count nothing twice.
TapeIsProduct ==
    held = Assignments =>
        tape_apply(from_recorder(recorder)) = abc_apply(from_matrices(Abc, columns + 1), Len(r1cs))
=============================================================================
