------------------------- MODULE BooleanSideProofs -------------------------
(***************************************************************************)
(* The three backends of the Boolean side agree, for circuits of any size, *)
(* words of any width and any room for inline supports: what holds between *)
(* the packed witness, the generator's rows and the recorder's arena after *)
(* every call, and the properties that follow from it.                     *)
(***************************************************************************)
EXTENDS BooleanSide, PackedWordsProofs, FiniteSetTheorems

-----------------------------------------------------------------------------
\* The sums of the first summands.
SumsPath(h, n, weights) ==
    /\ h[0] = {}
    /\ \A k \in 1..n : h[k] = Plus(h[k - 1], weights[k])
    /\ Total(weights) = h[n]

\* A total, summand by summand.
LEMMA TotalPath ==
    ASSUME NEW X, NEW n \in Nat, NEW weights \in [1..n -> SUBSET X]
    PROVE  \E h : SumsPath(h, n, weights)
  <1> DEFINE A == SUBSET X
             F == [p \in A \X (1..n) |-> Plus(p[1], weights[p[2]])]
             Table(c) == c = [s \in SUBSET (1..n) |->
                                IF s = {} THEN {} ELSE Plus(c[s \ {Max(s)}], weights[Max(s)])]
             c == CHOOSE iter : Table(iter)
             h == [k \in 0..n |-> c[1..k]]
  <1>1. F \in [A \X (1..n) -> A]
    BY DEF Plus
  <1>2. {} \in A
    OBVIOUS
  <1>3. PICK g \in [SUBSET (1..n) -> A] : Tabulates(g, n, {}, F)
    BY <1>1, <1>2, FoldTable
  <1>4. ASSUME NEW s \in SUBSET (1..n), s # {} PROVE g[s] = Plus(g[s \ {Max(s)}], weights[Max(s)])
    <2>1. Max(s) \in 1..n /\ s \ {Max(s)} \in SUBSET (1..n)
      BY <1>4, LastPosition
    <2>2. g[s] = F[<<g[s \ {Max(s)}], Max(s)>>]
      BY <1>3, <1>4 DEF Tabulates
    <2>3. g[s \ {Max(s)}] \in A
      BY <2>1
    <2>. QED
      BY <2>1, <2>2, <2>3
  <1>5. g[{}] = {}
    BY <1>3 DEF Tabulates
  <1>6. Table(g)
    BY <1>4, <1>5
  <1>7. Table(c)
    BY <1>6
  <1>8. Total(weights) = c[1..n]
    BY DEF Total, FoldLeft, MapThenFoldSet
  <1> HIDE DEF c
  <1>9. c[1..0] = {}
    <2>1. 1..0 = {}
      OBVIOUS
    <2>. QED
      BY <1>7, <2>1
  <1>10. ASSUME NEW k \in 1..n PROVE c[1..k] = Plus(c[1 .. k - 1], weights[k])
    <2>1. /\ 1..k \in SUBSET (1..n) /\ 1..k # {}
          /\ Max(1..k) = k /\ (1..k) \ {Max(1..k)} = 1 .. k - 1
      BY Beginning
    <2>. QED
      BY <1>7, <2>1
  <1>11. h[0] = {} /\ Total(weights) = h[n]
    BY <1>8, <1>9
  <1>12. ASSUME NEW k \in 1..n PROVE h[k] = Plus(h[k - 1], weights[k])
    <2>1. k \in 0..n /\ k - 1 \in 0..n
      OBVIOUS
    <2>2. h[k] = c[1..k] /\ h[k - 1] = c[1 .. k - 1]
      BY <2>1
    <2>. QED
      BY <1>10, <2>2
  <1> HIDE DEF h
  <1>. QED
    BY <1>11, <1>12 DEF SumsPath

\* The value of a row over a witness, as ConstraintMatrices::integer_witness
\* computes it, column by column.
RowValue(row, values) ==
    FoldLeft(LAMBDA value, column : value # (column = 0 \/ values[column - 1]), FALSE, row)

RowPath(h, n, row, values) ==
    /\ h[0] = FALSE
    /\ \A k \in 1..n : h[k] = (h[k - 1] # (row[k] = 0 \/ values[row[k] - 1]))
    /\ RowValue(row, values) = h[n]

\* A row of M is summed column by column.
LEMMA RowValuePath ==
    ASSUME NEW n \in Nat, NEW row, DOMAIN row = 1..n, NEW values
    PROVE  \E h : RowPath(h, n, row, values)
  <1> DEFINE A == BOOLEAN
             one(k) == row[k] = 0 \/ values[row[k] - 1]
             F == [p \in A \X (1..n) |-> p[1] # one(p[2])]
             Table(c) == c = [s \in SUBSET (1..n) |->
                                IF s = {} THEN FALSE ELSE c[s \ {Max(s)}] # one(Max(s))]
             c == CHOOSE iter : Table(iter)
             h == [k \in 0..n |-> c[1..k]]
  <1>1. RowValue(row, values) = c[1..n]
    BY DEF RowValue, FoldLeft, MapThenFoldSet
  <1> HIDE DEF one
  <1>2. F \in [A \X (1..n) -> A]
    OBVIOUS
  <1>3. PICK g \in [SUBSET (1..n) -> A] : Tabulates(g, n, FALSE, F)
    BY <1>2, FoldTable
  <1>4. ASSUME NEW s \in SUBSET (1..n), s # {} PROVE g[s] = (g[s \ {Max(s)}] # one(Max(s)))
    <2>1. Max(s) \in 1..n /\ s \ {Max(s)} \in SUBSET (1..n)
      BY <1>4, LastPosition
    <2>2. g[s] = F[<<g[s \ {Max(s)}], Max(s)>>]
      BY <1>3, <1>4 DEF Tabulates
    <2>3. g[s \ {Max(s)}] \in A
      BY <2>1
    <2>. QED
      BY <2>1, <2>2, <2>3
  <1>5. g[{}] = FALSE
    BY <1>3 DEF Tabulates
  <1>6. Table(g)
    BY <1>4, <1>5
  <1>7. Table(c)
    BY <1>6
  <1> HIDE DEF c
  <1>8. c[1..0] = FALSE
    <2>1. 1..0 = {}
      OBVIOUS
    <2>. QED
      BY <1>7, <2>1
  <1>9. ASSUME NEW k \in 1..n PROVE c[1..k] = (c[1 .. k - 1] # one(k))
    <2>1. /\ 1..k \in SUBSET (1..n) /\ 1..k # {}
          /\ Max(1..k) = k /\ (1..k) \ {Max(1..k)} = 1 .. k - 1
      BY Beginning
    <2>. QED
      BY <1>7, <2>1
  <1>10. h[0] = FALSE /\ RowValue(row, values) = h[n]
    BY <1>1, <1>8
  <1>11. ASSUME NEW k \in 1..n PROVE h[k] = (h[k - 1] # one(k))
    <2>1. k \in 0..n /\ k - 1 \in 0..n
      OBVIOUS
    <2>2. h[k] = c[1..k] /\ h[k - 1] = c[1 .. k - 1]
      BY <2>1
    <2>. QED
      BY <1>9, <2>2
  <1> HIDE DEF h
  <1>12. RowPath(h, n, row, values)
    BY <1>10, <1>11 DEF one, RowPath
  <1>. QED
    BY <1>12

\* What the recorder and its handles are made of.
Recorders ==
    [witness_count : Nat, expression_offsets : Seq(Nat), expression_entries : Seq(Nat),
     row_offsets : Seq(Nat), column_indices : Seq(Nat)]

Handles == [constant_term : BOOLEAN, arena : BOOLEAN, support : Seq(Nat)]

\* A recorder by its fields, and one whose count was changed.
LEMMA Fields ==
    ASSUME NEW r \in Recorders
    PROVE  /\ r.witness_count \in Nat
           /\ r.expression_offsets \in Seq(Nat) /\ r.expression_entries \in Seq(Nat)
           /\ r.row_offsets \in Seq(Nat) /\ r.column_indices \in Seq(Nat)
           /\ r = [witness_count |-> r.witness_count,
                   expression_offsets |-> r.expression_offsets,
                   expression_entries |-> r.expression_entries,
                   row_offsets |-> r.row_offsets, column_indices |-> r.column_indices]
  BY DEF Recorders

\* A recorder with another count is a recorder, and differs in nothing else.
LEMMA Counted ==
    ASSUME NEW r \in Recorders, NEW c \in Nat
    PROVE  /\ [r EXCEPT !.witness_count = c] \in Recorders
           /\ [r EXCEPT !.witness_count = c] =
                [witness_count |-> c,
                 expression_offsets |-> r.expression_offsets,
                 expression_entries |-> r.expression_entries,
                 row_offsets |-> r.row_offsets, column_indices |-> r.column_indices]
  <1>1. /\ r.expression_offsets \in Seq(Nat) /\ r.expression_entries \in Seq(Nat)
        /\ r.row_offsets \in Seq(Nat) /\ r.column_indices \in Seq(Nat)
    BY Fields
  <1>2. [r EXCEPT !.witness_count = c] =
          [witness_count |-> c,
           expression_offsets |-> r.expression_offsets,
           expression_entries |-> r.expression_entries,
           row_offsets |-> r.row_offsets, column_indices |-> r.column_indices]
    <2>1. PICK a, b, d, e, f : r = [witness_count |-> a, expression_offsets |-> b,
                                    expression_entries |-> d, row_offsets |-> e,
                                    column_indices |-> f]
      BY Fields
    <2>2. [r EXCEPT !.witness_count = c] = [witness_count |-> c, expression_offsets |-> b,
                                            expression_entries |-> d, row_offsets |-> e,
                                            column_indices |-> f]
      BY <2>1
    <2>3. r.expression_offsets = b /\ r.expression_entries = d
      BY <2>1
    <2>4. r.row_offsets = e /\ r.column_indices = f
      BY <2>1
    <2> HIDE <2>1
    <2>. QED
      BY <2>2, <2>3, <2>4
  <1>. QED
    BY <1>1, <1>2 DEF Recorders

\* One bit allocated changes the count and makes a handle.
LEMMA AllocateOne ==
    ASSUME NEW r \in Recorders
    PROVE  /\ allocate_witness(r).recorder = [r EXCEPT !.witness_count = r.witness_count + 1]
           /\ allocate_witness(r).recorder \in Recorders
           /\ allocate_witness(r).bit = witness_bit(r.witness_count)
           /\ witness_bit(r.witness_count) \in Handles
  <1>1. r.witness_count + 1 \in Nat
    BY Fields
  <1>2. [r EXCEPT !.witness_count = r.witness_count + 1] \in Recorders
    BY <1>1, Counted
  <1>3. witness_bit(r.witness_count) \in Handles
    BY <1>1 DEF witness_bit, Handles
  <1>. QED
    BY <1>2, <1>3 DEF allocate_witness

\* The bits of a hint are allocated in order.
LEMMA AllocateBitsMakes ==
    ASSUME NEW n \in Nat, NEW r \in Recorders
    PROVE  AllocateBits(r, n) =
              [recorder |-> [r EXCEPT !.witness_count = r.witness_count + n],
               bits |-> [k \in 1..n |-> witness_bit(r.witness_count + k - 1)]]
  <1> DEFINE A == [recorder : Recorders, bits : Seq(Handles)]
             base == [recorder |-> r, bits |-> <<>>]
             next(a) == [recorder |-> allocate_witness(a.recorder).recorder,
                         bits |-> Append(a.bits, allocate_witness(a.recorder).bit)]
             F == [p \in A \X (1..n) |-> next(p[1])]
             Table(c) == c = [s \in SUBSET (1..n) |->
                                IF s = {} THEN base ELSE next(c[s \ {Max(s)}])]
             c == CHOOSE iter : Table(iter)
             made(k) == [recorder |-> [r EXCEPT !.witness_count = r.witness_count + k],
                         bits |-> [i \in 1..k |-> witness_bit(r.witness_count + i - 1)]]
             S == {k \in Nat : k <= n => c[1..k] = made(k)}
  <1>1. AllocateBits(r, n) = c[1..n]
    <2>1. DOMAIN [k \in 1..n |-> k] = 1..n
      OBVIOUS
    <2>. QED
      BY <2>1 DEF AllocateBits, FoldLeft, MapThenFoldSet
  <1>2. ASSUME NEW a \in A PROVE next(a) \in A
    <2>1. a.recorder \in Recorders /\ a.bits \in Seq(Handles)
      OBVIOUS
    <2>2. /\ allocate_witness(a.recorder).recorder \in Recorders
          /\ allocate_witness(a.recorder).bit \in Handles
      BY <2>1, AllocateOne
    <2>3. Append(a.bits, allocate_witness(a.recorder).bit) \in Seq(Handles)
      BY <2>1, <2>2
    <2>. QED
      BY <2>2, <2>3
  <1>3. base \in A
    OBVIOUS
  <1>4. ASSUME NEW k \in Nat PROVE next(made(k)) = made(k + 1)
    <2> DEFINE q == [r EXCEPT !.witness_count = r.witness_count + k]
               old == [i \in 1..k |-> witness_bit(r.witness_count + i - 1)]
               new == [i \in 1 .. k + 1 |-> witness_bit(r.witness_count + i - 1)]
    <2>1. /\ q \in Recorders /\ q.witness_count = r.witness_count + k
          /\ r.witness_count \in Nat
      <3>1. r.witness_count \in Nat /\ r.witness_count + k \in Nat
        BY Fields
      <3>2. q \in Recorders
        BY <3>1, Counted
      <3>3. q.witness_count = r.witness_count + k
        BY <3>1 DEF Recorders
      <3>. QED
        BY <3>1, <3>2, <3>3
    <2>2. /\ allocate_witness(q).recorder = [q EXCEPT !.witness_count = q.witness_count + 1]
          /\ allocate_witness(q).bit = witness_bit(q.witness_count)
      BY <2>1, AllocateOne
    <2>3. [q EXCEPT !.witness_count = q.witness_count + 1]
            = [r EXCEPT !.witness_count = r.witness_count + (k + 1)]
      <3>1. q.witness_count + 1 = r.witness_count + (k + 1)
        BY <2>1
      <3>. QED
        BY <3>1
    <2>4. Append(old, witness_bit(r.witness_count + k)) = new
      <3> DEFINE b(i) == witness_bit(r.witness_count + i - 1)
      <3>1. b(k + 1) = witness_bit(r.witness_count + k)
        <4>1. r.witness_count + (k + 1) - 1 = r.witness_count + k
          BY DEF Recorders
        <4>. QED
          BY <4>1
      <3> HIDE DEF b
      <3>2. Append([i \in 1..k |-> b(i)], b(k + 1)) = [i \in 1 .. k + 1 |-> b(i)]
        OBVIOUS
      <3>. QED
        BY <3>1, <3>2 DEF b
    <2>5. next(made(k)) = [recorder |-> allocate_witness(q).recorder,
                           bits |-> Append(old, allocate_witness(q).bit)]
      OBVIOUS
    <2>6. made(k + 1) = [recorder |-> [r EXCEPT !.witness_count = r.witness_count + (k + 1)],
                         bits |-> new]
      OBVIOUS
    <2> HIDE DEF q, old, new, next, made
    <2>. QED
      BY <2>1, <2>2, <2>3, <2>4, <2>5, <2>6
  <1>5. made(0) = base
    <2>1. [r EXCEPT !.witness_count = r.witness_count + 0] = r
      BY DEF Recorders
    <2>2. [i \in 1..0 |-> witness_bit(r.witness_count + i - 1)] = <<>>
      OBVIOUS
    <2>. QED
      BY <2>1, <2>2
  <1> HIDE DEF A, base, next, made
  <1>6. F \in [A \X (1..n) -> A]
    BY <1>2
  <1>7. PICK g \in [SUBSET (1..n) -> A] : Tabulates(g, n, base, F)
    BY <1>6, <1>3, FoldTable
  <1>8. ASSUME NEW s \in SUBSET (1..n), s # {} PROVE g[s] = next(g[s \ {Max(s)}])
    <2>1. Max(s) \in 1..n /\ s \ {Max(s)} \in SUBSET (1..n)
      BY <1>8, LastPosition
    <2>2. g[s] = F[<<g[s \ {Max(s)}], Max(s)>>]
      BY <1>7, <1>8 DEF Tabulates
    <2>3. g[s \ {Max(s)}] \in A
      BY <2>1
    <2>. QED
      BY <2>1, <2>2, <2>3
  <1>9. g[{}] = base
    BY <1>7 DEF Tabulates
  <1>10. Table(g)
    BY <1>8, <1>9
  <1>11. Table(c)
    BY <1>10
  <1> HIDE DEF c
  <1>12. 0 \in S
    <2>1. 1..0 = {}
      OBVIOUS
    <2>. QED
      BY <1>11, <1>5, <2>1
  <1>13. ASSUME NEW k \in Nat, k \in S PROVE k + 1 \in S
    <2> SUFFICES ASSUME k + 1 <= n PROVE c[1 .. k + 1] = made(k + 1)
      OBVIOUS
    <2>1. /\ 1 .. k + 1 \in SUBSET (1..n) /\ 1 .. k + 1 # {}
          /\ (1 .. k + 1) \ {Max(1 .. k + 1)} = 1..k
      <3>1. k + 1 \in 1..n /\ (k + 1) - 1 = k
        OBVIOUS
      <3>. QED
        BY <3>1, Beginning
    <2>2. c[1 .. k + 1] = next(c[1..k])
      BY <1>11, <2>1
    <2>3. c[1..k] = made(k)
      BY <1>13
    <2>. QED
      BY <1>4, <2>2, <2>3
  <1> HIDE DEF S
  <1>14. n \in S
    BY <1>12, <1>13, SetInduction
  <1>15. c[1..n] = made(n)
    BY <1>14 DEF S
  <1>. QED
    BY <1>1, <1>15 DEF made

-----------------------------------------------------------------------------
(***************************************************************************)
(* Lists kept end to end in one sequence, with the offsets they end at.    *)
(***************************************************************************)
Stored(offsets, entries, list) ==
    /\ offsets \in Seq(Nat) /\ entries \in Seq(Nat) /\ list \in Seq(Seq(Nat))
    /\ Len(offsets) = Len(list) + 1
    /\ offsets[1] = 0 /\ offsets[Len(list) + 1] = Len(entries)
    /\ \A k \in 1..Len(list) :
          /\ offsets[k + 1] = offsets[k] + Len(list[k])
          /\ offsets[k + 1] <= Len(entries)
          /\ \A i \in 1..Len(list[k]) : entries[offsets[k] + i] = list[k][i]

\* What is known of list k.
KeptAt(offsets, entries, list, k) ==
    /\ offsets[k] \in Nat /\ offsets[k + 1] \in Nat
    /\ list[k] \in Seq(Nat) /\ Len(list[k]) \in Nat
    /\ offsets[k + 1] = offsets[k] + Len(list[k])
    /\ offsets[k + 1] <= Len(entries)
    /\ \A i \in 1..Len(list[k]) : entries[offsets[k] + i] = list[k][i]

\* Every list is kept so.
LEMMA StoredAt ==
    ASSUME NEW offsets, NEW entries, NEW list, Stored(offsets, entries, list),
           NEW k \in 1..Len(list)
    PROVE  KeptAt(offsets, entries, list, k)
  <1>1. /\ offsets \in Seq(Nat) /\ list \in Seq(Seq(Nat)) /\ Len(offsets) = Len(list) + 1
    BY DEF Stored
  <1>2. /\ offsets[k + 1] = offsets[k] + Len(list[k])
        /\ offsets[k + 1] <= Len(entries)
        /\ \A i \in 1..Len(list[k]) : entries[offsets[k] + i] = list[k][i]
    BY DEF Stored
  <1>3. k \in 1..Len(offsets) /\ k + 1 \in 1..Len(offsets)
    BY <1>1
  <1>4. offsets[k] \in Nat /\ offsets[k + 1] \in Nat
    BY <1>1, <1>3
  <1>5. list[k] \in Seq(Nat)
    BY <1>1
  <1>. QED
    BY <1>2, <1>4, <1>5 DEF KeptAt

\* A slice between two offsets is a list.
LEMMA StoredSlice ==
    ASSUME NEW offsets, NEW entries, NEW list, Stored(offsets, entries, list),
           NEW k \in 1..Len(list)
    PROVE  SubSeq(entries, offsets[k] + 1, offsets[k + 1]) = list[k]
  <1> DEFINE a == offsets[k]
             b == offsets[k + 1]
             s == list[k]
  <1>1. /\ entries \in Seq(Nat) /\ s \in Seq(Nat) /\ a \in Nat /\ b \in Nat
        /\ b = a + Len(s) /\ b <= Len(entries)
        /\ \A i \in 1..Len(s) : entries[a + i] = s[i]
    <2>1. entries \in Seq(Nat)
      BY DEF Stored
    <2>2. KeptAt(offsets, entries, list, k)
      BY StoredAt
    <2>. QED
      BY <2>1, <2>2 DEF KeptAt
  <1> HIDE DEF a, b, s
  <1>2. Len(SubSeq(entries, a + 1, b)) = Len(s)
    BY <1>1
  <1>3. ASSUME NEW i \in 1..Len(s) PROVE SubSeq(entries, a + 1, b)[i] = s[i]
    BY <1>1, <1>3
  <1>4. SubSeq(entries, a + 1, b) \in Seq(Nat)
    BY <1>1
  <1>5. SubSeq(entries, a + 1, b) = s
    BY <1>1, <1>2, <1>3, <1>4, SeqEqual
  <1>. QED
    BY <1>5 DEF a, b, s

\* One more list.
LEMMA StoredAppend ==
    ASSUME NEW offsets, NEW entries, NEW list, Stored(offsets, entries, list),
           NEW s \in Seq(Nat)
    PROVE  Stored(Append(offsets, Len(entries \o s)), entries \o s, Append(list, s))
  <1> DEFINE n == Len(list)
             more == Append(offsets, Len(entries \o s))
             all == entries \o s
             lists == Append(list, s)
  <1>1. /\ offsets \in Seq(Nat) /\ entries \in Seq(Nat) /\ list \in Seq(Seq(Nat))
        /\ n \in Nat /\ Len(offsets) = n + 1
        /\ offsets[1] = 0 /\ offsets[n + 1] = Len(entries)
    BY DEF Stored
  <1>2. /\ all \in Seq(Nat) /\ Len(all) = Len(entries) + Len(s)
        /\ \A i \in 1..Len(entries) : all[i] = entries[i]
        /\ \A i \in 1..Len(s) : all[Len(entries) + i] = s[i]
        /\ Len(entries) \in Nat /\ Len(s) \in Nat
    BY <1>1
  <1>3. /\ lists \in Seq(Seq(Nat)) /\ Len(lists) = n + 1
        /\ \A i \in 1..n : lists[i] = list[i]
        /\ lists[n + 1] = s
    BY <1>1
  <1>4. /\ more \in Seq(Nat) /\ Len(more) = n + 2
        /\ \A i \in 1 .. n + 1 : more[i] = offsets[i]
        /\ more[n + 2] = Len(all)
    BY <1>1, <1>2
  <1>5. ASSUME NEW k \in 1..n
        PROVE  /\ more[k + 1] = more[k] + Len(lists[k])
               /\ more[k + 1] <= Len(all)
               /\ \A i \in 1..Len(lists[k]) : all[more[k] + i] = lists[k][i]
    <2>1. /\ offsets[k] \in Nat /\ offsets[k + 1] \in Nat
          /\ list[k] \in Seq(Nat) /\ Len(list[k]) \in Nat
          /\ offsets[k + 1] = offsets[k] + Len(list[k])
          /\ offsets[k + 1] <= Len(entries)
          /\ \A i \in 1..Len(list[k]) : entries[offsets[k] + i] = list[k][i]
      <3>1. KeptAt(offsets, entries, list, k)
        BY StoredAt
      <3>. QED
        BY <3>1 DEF KeptAt
    <2>2. more[k] = offsets[k] /\ more[k + 1] = offsets[k + 1] /\ lists[k] = list[k]
      BY <1>3, <1>4
    <2> HIDE DEF more, all, lists
    <2>3. more[k + 1] <= Len(all)
      BY <1>2, <2>1, <2>2
    <2>4. ASSUME NEW i \in 1..Len(list[k]) PROVE all[offsets[k] + i] = list[k][i]
      <3>1. offsets[k] + i \in 1..Len(entries)
        <4>1. i \in Nat /\ 1 <= i /\ i <= Len(list[k]) /\ Len(entries) \in Nat
          BY <1>2, <2>1
        <4>. QED
          BY <2>1, <4>1
      <3>. QED
        BY <1>2, <2>1, <3>1
    <2>. QED
      BY <2>1, <2>2, <2>3, <2>4
  <1>6. /\ more[n + 2] = more[n + 1] + Len(lists[n + 1])
        /\ more[n + 2] <= Len(all)
        /\ \A i \in 1..Len(lists[n + 1]) : all[more[n + 1] + i] = lists[n + 1][i]
    <2>1. more[n + 1] = Len(entries)
      BY <1>1, <1>4
    <2> HIDE DEF more, all, lists
    <2>. QED
      BY <1>2, <1>3, <1>4, <2>1
  <1>7. more[1] = 0
    BY <1>1, <1>4
  <1> HIDE DEF more, all, lists
  <1>8. \A k \in 1..Len(lists) :
          /\ more[k + 1] = more[k] + Len(lists[k])
          /\ more[k + 1] <= Len(all)
          /\ \A i \in 1..Len(lists[k]) : all[more[k] + i] = lists[k][i]
    <2>1. \A k \in 1..Len(lists) : k \in 1..n \/ k = n + 1
      BY <1>1, <1>3
    <2>2. (n + 1) + 1 = n + 2
      BY <1>1
    <2>. QED
      BY <1>5, <1>6, <2>1, <2>2
  <1>9. Stored(more, all, lists)
    <2>1. Len(lists) + 1 = n + 2
      BY <1>1, <1>3
    <2>. QED
      BY <1>2, <1>3, <1>4, <1>7, <1>8, <2>1 DEF Stored
  <1>. QED
    BY <1>9 DEF more, all, lists

\* Nothing stored, and the constant row alone.
LEMMA StoredFirst ==
    /\ Stored(<<0>>, <<>>, <<>>)
    /\ Stored(<<0, 1>>, <<0>>, <<<<0>>>>)
  <1>1. Stored(<<0>>, <<>>, <<>>)
    BY DEF Stored
  <1>2. <<0>> \in Seq(Nat)
    OBVIOUS
  <1>3. Stored(Append(<<0>>, Len(<<>> \o <<0>>)), <<>> \o <<0>>, Append(<<>>, <<0>>))
    BY <1>1, <1>2, StoredAppend
  <1>4. <<>> \o <<0>> = <<0>> /\ Append(<<>>, <<0>>) = <<<<0>>>>
    OBVIOUS
  <1>5. Len(<<0>>) = 1
    OBVIOUS
  <1>6. Append(<<0>>, 1) = <<0, 1>>
    <2> DEFINE s == Append(<<0>>, 1)
               t == <<0, 1>>
    <2>1. s \in Seq(Nat) /\ Len(s) = 2 /\ s[1] = 0 /\ s[2] = 1
      OBVIOUS
    <2>2. t \in Seq(Nat) /\ Len(t) = 2 /\ t[1] = 0 /\ t[2] = 1
      OBVIOUS
    <2> HIDE DEF s, t
    <2>3. \A i \in 1..Len(s) : s[i] = t[i]
      BY <2>1, <2>2
    <2>4. s = t
      BY <2>1, <2>2, <2>3, SeqEqual
    <2>. QED
      BY <2>4 DEF s, t
  <1>. QED
    BY <1>1, <1>3, <1>4, <1>5, <1>6

\* A row is pushed: the arena stays, and the support of the bit is stored.
LEMMA PushOne ==
    ASSUME NEW r \in Recorders, NEW b, support(r, b) \in Seq(Nat), NEW list,
           Stored(r.row_offsets, r.column_indices, list)
    PROVE  /\ push_row(r, b) \in Recorders
           /\ push_row(r, b).witness_count = r.witness_count
           /\ push_row(r, b).expression_offsets = r.expression_offsets
           /\ push_row(r, b).expression_entries = r.expression_entries
           /\ Stored(push_row(r, b).row_offsets, push_row(r, b).column_indices,
                     Append(list, support(r, b)))
  <1> DEFINE s == support(r, b)
             q == push_row(r, b)
  <1>1. PICK a, o, e, f, g : r = [witness_count |-> a, expression_offsets |-> o,
                                  expression_entries |-> e, row_offsets |-> f,
                                  column_indices |-> g]
    BY Fields
  <1>2. /\ a \in Nat /\ o \in Seq(Nat) /\ e \in Seq(Nat) /\ f \in Seq(Nat) /\ g \in Seq(Nat)
    BY <1>1, Fields
  <1> HIDE DEF s
  <1>3. q = [r EXCEPT !.column_indices = r.column_indices \o s,
                      !.row_offsets = Append(r.row_offsets, Len(r.column_indices \o s))]
    BY DEF push_row, s
  <1>4. r.column_indices = g /\ r.row_offsets = f
    BY <1>1
  <1>5. q = [witness_count |-> a, expression_offsets |-> o,
             expression_entries |-> e, row_offsets |-> Append(f, Len(g \o s)),
             column_indices |-> g \o s]
    BY <1>1, <1>3, <1>4
  <1>6. Stored(Append(f, Len(g \o s)), g \o s, Append(list, s))
    BY <1>4, StoredAppend DEF s
  <1>7. Append(f, Len(g \o s)) \in Seq(Nat) /\ g \o s \in Seq(Nat)
    BY <1>6 DEF Stored
  <1> HIDE DEF q
  <1>8. q \in Recorders
    BY <1>2, <1>5, <1>7 DEF Recorders
  <1>9. /\ q.witness_count = a /\ q.expression_offsets = o /\ q.expression_entries = e
    BY <1>5
  <1>10. q.row_offsets = Append(f, Len(g \o s)) /\ q.column_indices = g \o s
    BY <1>5
  <1>11. r.witness_count = a /\ r.expression_offsets = o /\ r.expression_entries = e
    BY <1>1
  <1>. QED
    BY <1>6, <1>8, <1>9, <1>10, <1>11 DEF q, s

\* What a handle means is in the arena alone.
LEMMA SupportInArena ==
    ASSUME NEW q, NEW r, NEW b, q.expression_offsets = r.expression_offsets,
           q.expression_entries = r.expression_entries
    PROVE  support(q, b) = support(r, b)
  BY DEF support

\* The rows of a word are pushed in order.
Pushed(r, handles, word) == FoldLeft(LAMBDA q, k : push_row(q, handles[k]), r, word)

\* push_row of a word stores the columns of its bits behind the rows there were.
LEMMA PushedAll ==
    ASSUME NEW n \in Nat, NEW r \in Recorders, NEW handles, NEW word, DOMAIN word = 1..n,
           \A k \in 1..n : support(r, handles[word[k]]) \in Seq(Nat),
           NEW list, Stored(r.row_offsets, r.column_indices, list)
    PROVE  LET q == Pushed(r, handles, word)
           IN  /\ q \in Recorders
               /\ q.witness_count = r.witness_count
               /\ q.expression_offsets = r.expression_offsets
               /\ q.expression_entries = r.expression_entries
               /\ Stored(q.row_offsets, q.column_indices,
                         list \o [k \in 1..n |-> support(r, handles[word[k]])])
  <1> DEFINE same(q) == /\ q.witness_count = r.witness_count
                        /\ q.expression_offsets = r.expression_offsets
                        /\ q.expression_entries = r.expression_entries
             rowsOf(q, some) == Stored(q.row_offsets, q.column_indices, some)
             A == {q \in Recorders : same(q) /\ \E some : rowsOf(q, some)}
             b(k) == handles[word[k]]
             next(a, k) == push_row(a, b(k))
             F == [p \in A \X (1..n) |-> next(p[1], p[2])]
             Table(c) == c = [s \in SUBSET (1..n) |->
                                IF s = {} THEN r ELSE next(c[s \ {Max(s)}], Max(s))]
             c == CHOOSE iter : Table(iter)
             rows_(k) == list \o [i \in 1..k |-> support(r, b(i))]
             S == {k \in Nat : k <= n => /\ c[1..k] \in A
                                         /\ rowsOf(c[1..k], rows_(k))}
  <1>1. Pushed(r, handles, word) = c[1..n]
    BY DEF Pushed, FoldLeft, MapThenFoldSet
  <1>2. ASSUME NEW q \in A, NEW k \in 1..n, NEW some, rowsOf(q, some)
        PROVE  /\ next(q, k) \in A
               /\ rowsOf(next(q, k), Append(some, support(r, b(k))))
    <2>1. q \in Recorders /\ same(q)
      OBVIOUS
    <2>2. support(q, b(k)) = support(r, b(k))
      BY <2>1, SupportInArena
    <2>3. support(r, b(k)) \in Seq(Nat)
      OBVIOUS
    <2> HIDE DEF b
    <2>4. /\ next(q, k) \in Recorders
          /\ next(q, k).witness_count = q.witness_count
          /\ next(q, k).expression_offsets = q.expression_offsets
          /\ next(q, k).expression_entries = q.expression_entries
          /\ rowsOf(next(q, k), Append(some, support(q, b(k))))
      BY <1>2, <2>1, <2>2, <2>3, PushOne
    <2> HIDE DEF next, rowsOf
    <2>5. same(next(q, k))
      BY <2>1, <2>4
    <2>. QED
      BY <2>2, <2>4, <2>5
  <1>3. ASSUME NEW k \in Nat, k < n
         PROVE  rows_(k + 1) = Append(rows_(k), support(r, b(k + 1)))
    <2> DEFINE s(i) == support(r, b(i))
               old == [i \in 1..k |-> s(i)]
               new == [i \in 1 .. k + 1 |-> s(i)]
    <2>1. list \in Seq(Seq(Nat))
      BY DEF Stored
    <2>2. \A i \in 1..n : s(i) \in Seq(Nat)
      OBVIOUS
    <2> HIDE DEF s
    <2>3. k + 1 \in 1..n /\ \A i \in 1 .. k + 1 : i \in 1..n
      BY <1>3
    <2>4. old \in Seq(Seq(Nat)) /\ s(k + 1) \in Seq(Nat)
      BY <2>2, <2>3
    <2>5. new = Append(old, s(k + 1))
      OBVIOUS
    <2> HIDE DEF old, new
    <2>6. list \o Append(old, s(k + 1)) = Append(list \o old, s(k + 1))
      BY <2>1, <2>4
    <2>. QED
      BY <2>5, <2>6 DEF old, new, s
  <1>4. r \in A /\ rowsOf(r, rows_(0))
    <2>1. list \in Seq(Seq(Nat))
      BY DEF Stored
    <2>2. rows_(0) = list
      <3>1. [i \in 1..0 |-> support(r, b(i))] = <<>>
        OBVIOUS
      <3>. QED
        BY <2>1, <3>1
    <2>3. rowsOf(r, list)
      OBVIOUS
    <2> HIDE DEF rowsOf, rows_
    <2>. QED
      BY <2>2, <2>3
  <1> HIDE DEF rowsOf, rows_, next, b
  <1>5. ASSUME NEW q \in A, NEW k \in 1..n PROVE next(q, k) \in A
    <2>1. PICK some : rowsOf(q, some)
      OBVIOUS
    <2>. QED
      BY <1>2, <2>1
  <1>6. A \subseteq Recorders /\ \A q \in A : same(q)
    OBVIOUS
  <1> HIDE DEF A
  <1>7. F \in [A \X (1..n) -> A]
    BY <1>5
  <1>8. PICK g \in [SUBSET (1..n) -> A] : Tabulates(g, n, r, F)
    BY <1>7, <1>4, FoldTable
  <1>9. ASSUME NEW s \in SUBSET (1..n), s # {} PROVE g[s] = next(g[s \ {Max(s)}], Max(s))
    <2>1. Max(s) \in 1..n /\ s \ {Max(s)} \in SUBSET (1..n)
      BY <1>9, LastPosition
    <2>2. g[s] = F[<<g[s \ {Max(s)}], Max(s)>>]
      BY <1>8, <1>9 DEF Tabulates
    <2>3. g[s \ {Max(s)}] \in A
      BY <2>1
    <2>. QED
      BY <2>1, <2>2, <2>3
  <1>10. g[{}] = r
    BY <1>8 DEF Tabulates
  <1>11. Table(g)
    BY <1>9, <1>10
  <1>12. Table(c)
    BY <1>11
  <1> HIDE DEF c
  <1>13. 0 \in S
    <2>1. 1..0 = {}
      OBVIOUS
    <2>. QED
      BY <1>12, <1>4, <2>1
  <1>14. ASSUME NEW k \in Nat, k \in S PROVE k + 1 \in S
    <2> SUFFICES ASSUME k + 1 <= n
                 PROVE  c[1 .. k + 1] \in A /\ rowsOf(c[1 .. k + 1], rows_(k + 1))
      OBVIOUS
    <2>1. k + 1 \in 1..n /\ (k + 1) - 1 = k
      OBVIOUS
    <2>2. /\ 1 .. k + 1 \in SUBSET (1..n) /\ 1 .. k + 1 # {}
          /\ Max(1 .. k + 1) = k + 1
          /\ (1 .. k + 1) \ {Max(1 .. k + 1)} = 1..k
      BY <2>1, Beginning
    <2>3. c[1 .. k + 1] = next(c[1..k], k + 1)
      BY <1>12, <2>2
    <2>4. c[1..k] \in A /\ rowsOf(c[1..k], rows_(k))
      BY <1>14
    <2>5. rows_(k + 1) = Append(rows_(k), support(r, b(k + 1)))
      BY <1>3
    <2>6. /\ next(c[1..k], k + 1) \in A
          /\ rowsOf(next(c[1..k], k + 1), Append(rows_(k), support(r, b(k + 1))))
      BY <1>2, <2>1, <2>4
    <2>. QED
      BY <2>3, <2>5, <2>6
  <1> HIDE DEF S
  <1>15. n \in S
    BY <1>13, <1>14, SetInduction
  <1>16. c[1..n] \in A /\ rowsOf(c[1..n], rows_(n))
    BY <1>15 DEF S
  <1>17. c[1..n] \in Recorders /\ same(c[1..n])
    BY <1>16, <1>6
  <1>. QED
    BY <1>1, <1>16, <1>17 DEF rowsOf, rows_, b

-----------------------------------------------------------------------------
(***************************************************************************)
(* Strictly increasing sequences, as lists of sets of columns.             *)
(***************************************************************************)
Lists(s, E) ==
    /\ s \in Seq(Nat)
    /\ E = {s[k] : k \in 1..Len(s)}
    /\ \A k, l \in 1..Len(s) : k < l => s[k] < s[l]

\* The members of a list, and their order.
LEMMA ListsBasic ==
    ASSUME NEW s, NEW E, Lists(s, E)
    PROVE  /\ s \in Seq(Nat) /\ Len(s) \in Nat /\ E \subseteq Nat
           /\ \A k \in 1..Len(s) : s[k] \in Nat /\ s[k] \in E
           /\ \A e \in E : \E k \in 1..Len(s) : e = s[k]
           /\ \A k, l \in 1..Len(s) : k < l => s[k] < s[l]
  <1>1. s \in Seq(Nat) /\ Len(s) \in Nat
    BY DEF Lists
  <1>2. \A k \in 1..Len(s) : s[k] \in Nat
    BY <1>1
  <1>. QED
    BY <1>1, <1>2 DEF Lists

\* Of two lists of one set, one goes on as the other does.
LEMMA ListsFollow ==
    ASSUME NEW s, NEW t, NEW E, Lists(s, E), Lists(t, E), NEW k \in 1..Len(s)
    PROVE  k <= Len(t) /\ t[k] = s[k]
  <1> DEFINE S == {n \in Nat : \A j \in 1..n : j <= Len(s) => j <= Len(t) /\ t[j] = s[j]}
  <1>1. 0 \in S
    OBVIOUS
  <1>2. ASSUME NEW n \in Nat, n \in S PROVE n + 1 \in S
    <2> DEFINE j == n + 1
    <2>1. j \in Nat /\ n < j /\ \A m \in Nat : m < j <=> m <= n
      OBVIOUS
    <2> HIDE DEF j
    <2>2. ASSUME j <= Len(s) PROVE j <= Len(t) /\ t[j] = s[j]
      <3>1. /\ Len(s) \in Nat /\ Len(t) \in Nat
            /\ \A m, l \in 1..Len(s) : m < l => s[m] < s[l]
            /\ \A m, l \in 1..Len(t) : m < l => t[m] < t[l]
            /\ \A m \in 1..Len(s) : s[m] \in Nat
            /\ \A m \in 1..Len(t) : t[m] \in Nat
        BY ListsBasic
      <3>2. j \in 1..Len(s)
        BY <2>1, <2>2, <3>1
      <3>3. \A m \in 1..Len(s) : m < j => m \in 1..Len(t) /\ t[m] = s[m]
        <4>1. \A m \in 1..Len(s) : m < j => m \in 1..n
          BY <2>1
        <4>2. \A m \in 1..n : m \in 1..Len(s) => m <= Len(t) /\ t[m] = s[m]
          BY <1>2, <3>1
        <4>3. \A m \in 1..Len(s) : m <= Len(t) => m \in 1..Len(t)
          BY <3>1
        <4>. QED
          BY <4>1, <4>2, <4>3
      <3>4. PICK m \in 1..Len(t) : s[j] = t[m]
        <4>1. s[j] \in E
          BY <3>2, ListsBasic
        <4>2. \A e \in E : \E m \in 1..Len(t) : e = t[m]
          BY ListsBasic
        <4>. QED
          BY <4>1, <4>2
      <3>5. m >= j
        <4> SUFFICES ASSUME m < j PROVE FALSE
          BY <2>1
        <4>1. m \in 1..Len(s)
          BY <3>2
        <4>2. t[m] = s[m] /\ s[m] < s[j]
          BY <3>1, <3>2, <3>3, <4>1
        <4>3. s[m] \in Nat /\ s[j] \in Nat
          BY <3>1, <3>2, <4>1
        <4>. QED
          BY <3>4, <4>2, <4>3
      <3>6. j \in 1..Len(t)
        BY <2>1, <3>5
      <3>7. PICK l \in 1..Len(s) : t[j] = s[l]
        <4>1. t[j] \in E
          BY <3>6, ListsBasic
        <4>2. \A e \in E : \E l \in 1..Len(s) : e = s[l]
          BY ListsBasic
        <4>. QED
          BY <4>1, <4>2
      <3>8. l >= j
        <4> SUFFICES ASSUME l < j PROVE FALSE
          BY <2>1
        <4>1. l \in 1..Len(t) /\ t[l] = s[l]
          BY <3>3
        <4>2. t[l] < t[j]
          BY <3>1, <3>6, <4>1
        <4>3. t[l] \in Nat /\ t[j] \in Nat
          BY <3>1, <3>6, <4>1
        <4>. QED
          BY <3>7, <4>1, <4>2, <4>3
      <3>9. t[j] <= t[m]
        BY <3>1, <3>5, <3>6
      <3>10. s[j] <= s[l]
        BY <3>1, <3>2, <3>8
      <3>11. s[j] \in Nat /\ t[j] \in Nat
        BY <3>1, <3>2, <3>6
      <3>. QED
        BY <3>4, <3>6, <3>7, <3>9, <3>10, <3>11
    <2>. QED
      BY <1>2, <2>1, <2>2 DEF j
  <1> HIDE DEF S
  <1>3. Nat \subseteq S
    BY <1>1, <1>2, SetInduction
  <1>4. Len(s) \in Nat
    BY ListsBasic
  <1>. QED
    BY <1>3, <1>4 DEF S

\* A set has one sorted list.
LEMMA ListsOnce ==
    ASSUME NEW s, NEW t, NEW E, Lists(s, E), Lists(t, E)
    PROVE  s = t
  <1>1. s \in Seq(Nat) /\ t \in Seq(Nat) /\ Len(s) \in Nat /\ Len(t) \in Nat
    BY ListsBasic
  <1>2. \A k \in 1..Len(s) : k <= Len(t) /\ t[k] = s[k]
    BY ListsFollow
  <1>3. \A k \in 1..Len(t) : k <= Len(s)
    BY ListsFollow
  <1>4. Len(s) = Len(t)
    BY <1>1, <1>2, <1>3
  <1>. QED
    BY <1>1, <1>2, <1>4, SeqEqual

\* A number below all others comes first.
LEMMA ListsCons ==
    ASSUME NEW s, NEW E, Lists(s, E), NEW x \in Nat, \A e \in E : x < e
    PROVE  Lists(<<x>> \o s, {x} \cup E)
  <1> DEFINE u == <<x>> \o s
             n == Len(s)
  <1>1. /\ s \in Seq(Nat) /\ n \in Nat
        /\ \A k \in 1..n : s[k] \in Nat /\ s[k] \in E
        /\ \A e \in E : \E k \in 1..n : e = s[k]
        /\ \A k, l \in 1..n : k < l => s[k] < s[l]
    BY ListsBasic
  <1>2. /\ u \in Seq(Nat) /\ Len(u) = n + 1 /\ u[1] = x
        /\ \A k \in 2 .. n + 1 : u[k] = s[k - 1]
    BY <1>1
  <1> HIDE DEF u, n
  <1>3. \A k, l \in 1 .. n + 1 : k < l => u[k] < u[l]
    <2> SUFFICES ASSUME NEW k \in 1 .. n + 1, NEW l \in 1 .. n + 1, k < l PROVE u[k] < u[l]
      OBVIOUS
    <2>1. l \in 2 .. n + 1 /\ l - 1 \in 1..n /\ u[l] = s[l - 1]
      BY <1>1, <1>2
    <2>2. CASE k = 1
      BY <1>1, <1>2, <2>1, <2>2
    <2>3. CASE k # 1
      <3>1. k \in 2 .. n + 1 /\ k - 1 \in 1..n /\ k - 1 < l - 1 /\ u[k] = s[k - 1]
        BY <1>1, <1>2, <2>3
      <3>. QED
        BY <1>1, <2>1, <3>1
    <2>. QED
      BY <2>2, <2>3
  <1>4. \A k \in 1 .. n + 1 : u[k] \in {x} \cup E
    <2> SUFFICES ASSUME NEW k \in 1 .. n + 1 PROVE u[k] \in {x} \cup E
      OBVIOUS
    <2>1. CASE k = 1
      BY <1>2, <2>1
    <2>2. CASE k # 1
      <3>1. k \in 2 .. n + 1 /\ k - 1 \in 1..n
        BY <1>1, <2>2
      <3>. QED
        BY <1>1, <1>2, <3>1
    <2>. QED
      BY <2>1, <2>2
  <1>5. ASSUME NEW e \in E PROVE \E k \in 1 .. n + 1 : e = u[k]
    <2>1. PICK k \in 1..n : e = s[k]
      BY <1>1
    <2>2. k + 1 \in 2 .. n + 1 /\ (k + 1) - 1 = k /\ k + 1 \in 1 .. n + 1
      BY <1>1
    <2>3. u[k + 1] = s[k]
      BY <1>2, <2>2
    <2>. QED
      BY <2>1, <2>2, <2>3
  <1>6. 1 \in 1 .. n + 1 /\ u[1] = x
    BY <1>1, <1>2
  <1>7. {x} \cup E = {u[k] : k \in 1..Len(u)}
    BY <1>2, <1>4, <1>5, <1>6
  <1>8. Lists(u, {x} \cup E)
    BY <1>2, <1>3, <1>7 DEF Lists
  <1>. QED
    BY <1>8 DEF u

\* What a list has from a position on.
From(s, i) == {s[k] : k \in i..Len(s)}

\* The rest of a sorted list is sorted.
LEMMA ListsFrom ==
    ASSUME NEW s, NEW E, Lists(s, E), NEW i \in 1 .. Len(s) + 1
    PROVE  Lists(SubSeq(s, i, Len(s)), From(s, i))
  <1> DEFINE n == Len(s)
             u == SubSeq(s, i, n)
  <1>1. /\ s \in Seq(Nat) /\ n \in Nat
        /\ \A k \in 1..n : s[k] \in Nat
        /\ \A k, l \in 1..n : k < l => s[k] < s[l]
    BY ListsBasic
  <1>2. i \in 1 .. n + 1
    OBVIOUS
  <1> HIDE DEF n
  <1>3. /\ u \in Seq(Nat) /\ Len(u) = n + 1 - i
        /\ \A k \in 1 .. n + 1 - i : u[k] = s[k + i - 1]
    BY <1>1, <1>2
  <1> HIDE DEF u
  <1>4. \A k, l \in 1..Len(u) : k < l => u[k] < u[l]
    <2> SUFFICES ASSUME NEW k \in 1..Len(u), NEW l \in 1..Len(u), k < l PROVE u[k] < u[l]
      OBVIOUS
    <2>1. k + i - 1 \in 1..n /\ l + i - 1 \in 1..n /\ k + i - 1 < l + i - 1
      BY <1>1, <1>2, <1>3
    <2>2. s[k + i - 1] < s[l + i - 1]
      BY <1>1, <2>1
    <2>. QED
      BY <1>3, <2>2
  <1>5. \A k \in 1..Len(u) : u[k] \in From(s, i)
    <2> SUFFICES ASSUME NEW k \in 1..Len(u) PROVE u[k] \in From(s, i)
      OBVIOUS
    <2>1. k + i - 1 \in i..n
      BY <1>1, <1>2, <1>3
    <2>. QED
      BY <1>3, <2>1 DEF From, n
  <1>6. ASSUME NEW e \in From(s, i) PROVE \E k \in 1..Len(u) : e = u[k]
    <2>1. PICK l \in i..n : e = s[l]
      BY DEF From, n
    <2>2. l - i + 1 \in 1..Len(u) /\ (l - i + 1) + i - 1 = l
      BY <1>1, <1>2, <1>3
    <2>. QED
      BY <1>3, <2>1, <2>2
  <1>7. From(s, i) = {u[k] : k \in 1..Len(u)}
    BY <1>5, <1>6
  <1>8. Lists(u, From(s, i))
    BY <1>3, <1>4, <1>7 DEF Lists
  <1>. QED
    BY <1>8 DEF u, n

\* The first of what is left is below the others.
LEMMA FromNext ==
    ASSUME NEW s, NEW E, Lists(s, E), NEW i \in 1..Len(s)
    PROVE  /\ s[i] \in Nat
           /\ From(s, i) = {s[i]} \cup From(s, i + 1)
           /\ \A e \in From(s, i + 1) : e \in Nat /\ s[i] < e
           /\ s[i] \notin From(s, i + 1)
  <1>1. /\ Len(s) \in Nat
        /\ \A k \in 1..Len(s) : s[k] \in Nat
        /\ \A k, l \in 1..Len(s) : k < l => s[k] < s[l]
    BY ListsBasic
  <1>2. s[i] \in Nat
    BY <1>1
  <1>3. ASSUME NEW e \in From(s, i + 1) PROVE e \in Nat /\ s[i] < e
    <2>1. PICK k \in i + 1 .. Len(s) : e = s[k]
      BY DEF From
    <2>2. k \in 1..Len(s) /\ i < k
      BY <1>1
    <2>. QED
      BY <1>1, <2>1, <2>2
  <1>4. i..Len(s) = {i} \cup (i + 1 .. Len(s))
    BY <1>1
  <1>5. From(s, i) = {s[i]} \cup From(s, i + 1)
    BY <1>4 DEF From
  <1>6. s[i] \notin From(s, i + 1)
    <2> SUFFICES ASSUME s[i] \in From(s, i + 1) PROVE FALSE
      OBVIOUS
    <2>1. s[i] < s[i]
      BY <1>3
    <2>. QED
      BY <1>2, <2>1
  <1>. QED
    BY <1>2, <1>3, <1>5, <1>6

-----------------------------------------------------------------------------
(***************************************************************************)
(* Both merges of sorted columns list the symmetric difference.            *)
(***************************************************************************)
\* A function on a grid of positions that merges the lists from there on.
Merges(f, s, t) ==
    \A i \in 1 .. Len(s) + 1, j \in 1 .. Len(t) + 1 :
        /\ i > Len(s) => f[<<i, j>>] = SubSeq(t, j, Len(t))
        /\ i <= Len(s) /\ j > Len(t) => f[<<i, j>>] = SubSeq(s, i, Len(s))
        /\ i <= Len(s) /\ j <= Len(t) =>
              /\ s[i] < t[j] => f[<<i, j>>] = <<s[i]>> \o f[<<i + 1, j>>]
              /\ s[i] > t[j] => f[<<i, j>>] = <<t[j]>> \o f[<<i, j + 1>>]
              /\ s[i] = t[j] => \/ f[<<i, j>>] = f[<<i + 1, j + 1>>]
                                \/ f[<<i, j>>] = <<>> \o f[<<i + 1, j + 1>>]

\* A member of one side is added.
LEMMA PlusLeft ==
    ASSUME NEW A, NEW B, NEW x, x \notin A, x \notin B
    PROVE  Plus({x} \cup A, B) = {x} \cup Plus(A, B)
  BY DEF Plus

\* The same on the other side.
LEMMA PlusRight ==
    ASSUME NEW A, NEW B, NEW x, x \notin A, x \notin B
    PROVE  Plus(A, {x} \cup B) = {x} \cup Plus(A, B)
  BY DEF Plus

\* A member of both sides is cancelled.
LEMMA PlusCancels ==
    ASSUME NEW A, NEW B, NEW x, x \notin A, x \notin B
    PROVE  Plus({x} \cup A, {x} \cup B) = Plus(A, B)
  BY DEF Plus

\* Nothing is left behind the end, and all from the beginning.
LEMMA FromEnds ==
    ASSUME NEW s \in Seq(Nat)
    PROVE  From(s, Len(s) + 1) = {} /\ From(s, 1) = {s[k] : k \in 1..Len(s)}
  <1>1. Len(s) + 1 .. Len(s) = {}
    OBVIOUS
  <1>. QED
    BY <1>1 DEF From

\* The merge lists the symmetric difference: by induction on what is left.
LEMMA MergeLists ==
    ASSUME NEW s, NEW t, NEW E, NEW F, Lists(s, E), Lists(t, F), NEW f, Merges(f, s, t)
    PROVE  Lists(f[<<1, 1>>], Plus(E, F))
  <1> DEFINE n == Len(s)
             m == Len(t)
             holds(i, j) == Lists(f[<<i, j>>], Plus(From(s, i), From(t, j)))
             left(i, j) == (n + 1 - i) + (m + 1 - j)
             I == 1 .. n + 1
             J == 1 .. m + 1
             upTo(r) == \A i \in I, j \in J : left(i, j) < r => holds(i, j)
             S == {r \in Nat : upTo(r)}
  <1>1. s \in Seq(Nat) /\ t \in Seq(Nat) /\ n \in Nat /\ m \in Nat
    BY ListsBasic
  <1>2. 0 \in S
    <2> HIDE DEF holds
    <2>. QED
      BY <1>1
  <1>3. ASSUME NEW r \in Nat, r \in S PROVE r + 1 \in S
    <2>1. ASSUME NEW i \in I, NEW j \in J, left(i, j) < r + 1 PROVE holds(i, j)
      <3>1. i \in Nat /\ j \in Nat /\ 1 <= i /\ i <= n + 1 /\ 1 <= j /\ j <= m + 1
        BY <1>1
      <3>2. CASE i > n
        <4>1. i = n + 1
          BY <1>1, <3>1, <3>2
        <4>2. f[<<i, j>>] = SubSeq(t, j, m)
          BY <3>2 DEF Merges
        <4>3. Lists(f[<<i, j>>], From(t, j))
          BY <4>2, ListsFrom
        <4>4. From(s, i) = {}
          BY <1>1, <4>1, FromEnds
        <4>5. Plus({}, From(t, j)) = From(t, j)
          BY DEF Plus
        <4>. QED
          BY <4>3, <4>4, <4>5
      <3>3. CASE i <= n /\ j > m
        <4>1. j = m + 1
          BY <1>1, <3>1, <3>3
        <4>2. f[<<i, j>>] = SubSeq(s, i, n)
          BY <3>3 DEF Merges
        <4>3. Lists(f[<<i, j>>], From(s, i))
          BY <4>2, ListsFrom
        <4>4. From(t, j) = {}
          BY <1>1, <4>1, FromEnds
        <4>5. Plus(From(s, i), {}) = From(s, i)
          BY DEF Plus
        <4>. QED
          BY <4>3, <4>4, <4>5
      <3>4. CASE i <= n /\ j <= m
        <4>1. i \in 1..n /\ j \in 1..m
          BY <1>1, <3>1, <3>4
        <4>2. /\ s[i] < t[j] => f[<<i, j>>] = <<s[i]>> \o f[<<i + 1, j>>]
              /\ s[i] > t[j] => f[<<i, j>>] = <<t[j]>> \o f[<<i, j + 1>>]
              /\ s[i] = t[j] => \/ f[<<i, j>>] = f[<<i + 1, j + 1>>]
                                \/ f[<<i, j>>] = <<>> \o f[<<i + 1, j + 1>>]
          BY <3>4 DEF Merges
        <4>3. /\ s[i] \in Nat
              /\ From(s, i) = {s[i]} \cup From(s, i + 1)
              /\ \A e \in From(s, i + 1) : e \in Nat /\ s[i] < e
              /\ s[i] \notin From(s, i + 1)
          BY <4>1, FromNext
        <4>4. /\ t[j] \in Nat
              /\ From(t, j) = {t[j]} \cup From(t, j + 1)
              /\ \A e \in From(t, j + 1) : e \in Nat /\ t[j] < e
              /\ t[j] \notin From(t, j + 1)
          BY <4>1, FromNext
        <4>5. holds(i + 1, j) /\ holds(i, j + 1) /\ holds(i + 1, j + 1)
          <5>1. i + 1 \in 1 .. n + 1 /\ j + 1 \in 1 .. m + 1
            BY <1>1, <4>1
          <5>2. /\ (n + 1 - (i + 1)) + (m + 1 - j) < r
                /\ (n + 1 - i) + (m + 1 - (j + 1)) < r
                /\ (n + 1 - (i + 1)) + (m + 1 - (j + 1)) < r
            BY <1>1, <2>1, <3>1
          <5>3. left(i + 1, j) < r /\ left(i, j + 1) < r /\ left(i + 1, j + 1) < r
            BY <5>2
          <5>4. upTo(r)
            BY <1>3
          <5> HIDE DEF holds, left
          <5>. QED
            BY <5>1, <5>3, <5>4
        <4>6. CASE s[i] < t[j]
          <5>1. \A e \in From(t, j) : s[i] < e
            BY <4>3, <4>4, <4>6
          <5>2. s[i] \notin From(t, j)
            <6>1. \A e \in From(t, j) : e \in Nat
              BY <4>4
            <6>. QED
              BY <4>3, <5>1
          <5>3. \A e \in Plus(From(s, i + 1), From(t, j)) : s[i] < e
            BY <4>3, <5>1 DEF Plus
          <5>4. Lists(<<s[i]>> \o f[<<i + 1, j>>], {s[i]} \cup Plus(From(s, i + 1), From(t, j)))
            BY <4>3, <4>5, <5>3, ListsCons
          <5>5. Plus({s[i]} \cup From(s, i + 1), From(t, j))
                  = {s[i]} \cup Plus(From(s, i + 1), From(t, j))
            BY <4>3, <5>2, PlusLeft
          <5>. QED
            BY <4>2, <4>3, <4>6, <5>4, <5>5
        <4>7. CASE s[i] > t[j]
          <5>1. \A e \in From(s, i) : t[j] < e
            BY <4>3, <4>4, <4>7
          <5>2. t[j] \notin From(s, i)
            BY <4>4, <5>1
          <5>3. \A e \in Plus(From(s, i), From(t, j + 1)) : t[j] < e
            BY <4>4, <5>1 DEF Plus
          <5>4. Lists(<<t[j]>> \o f[<<i, j + 1>>], {t[j]} \cup Plus(From(s, i), From(t, j + 1)))
            BY <4>4, <4>5, <5>3, ListsCons
          <5>5. Plus(From(s, i), {t[j]} \cup From(t, j + 1))
                  = {t[j]} \cup Plus(From(s, i), From(t, j + 1))
            BY <4>4, <5>2, PlusRight
          <5>. QED
            BY <4>2, <4>4, <4>7, <5>4, <5>5
        <4>8. CASE s[i] = t[j]
          <5>1. Plus({s[i]} \cup From(s, i + 1), {s[i]} \cup From(t, j + 1))
                  = Plus(From(s, i + 1), From(t, j + 1))
            <6>1. s[i] \notin From(s, i + 1) /\ s[i] \notin From(t, j + 1)
              BY <4>3, <4>4, <4>8
            <6>. QED
              BY <6>1, PlusCancels
          <5>2. f[<<i + 1, j + 1>>] \in Seq(Nat)
            BY <4>5, ListsBasic
          <5>3. \A u \in Seq(Nat) : <<>> \o u = u
            OBVIOUS
          <5>4. f[<<i, j>>] = f[<<i + 1, j + 1>>]
            BY <4>2, <4>8, <5>2, <5>3
          <5>. QED
            BY <4>3, <4>4, <4>5, <4>8, <5>1, <5>4
        <4>9. s[i] < t[j] \/ s[i] > t[j] \/ s[i] = t[j]
          BY <4>3, <4>4
        <4> HIDE DEF holds
        <4>. QED
          BY <4>6, <4>7, <4>8, <4>9
      <3> HIDE DEF holds
      <3>. QED
        BY <1>1, <3>1, <3>2, <3>3, <3>4
    <2> HIDE DEF holds, left
    <2>. QED
      BY <2>1
  <1> HIDE DEF S
  <1>4. Nat \subseteq S
    BY <1>2, <1>3, SetInduction
  <1>5. holds(1, 1)
    <2> HIDE DEF holds
    <2>1. n + m + 1 \in S
      BY <1>1, <1>4
    <2>2. 1 \in 1 .. n + 1 /\ 1 \in 1 .. m + 1 /\ (n + 1 - 1) + (m + 1 - 1) < n + m + 1
      BY <1>1
    <2>. QED
      BY <2>1, <2>2 DEF S
  <1>6. From(s, 1) = E /\ From(t, 1) = F
    BY <1>1, FromEnds DEF Lists
  <1>. QED
    BY <1>5, <1>6

\* There is such a function, with sequences for values.
LEMMA MergeTable ==
    ASSUME NEW s \in Seq(Nat), NEW t \in Seq(Nat)
    PROVE  \E f \in [(1 .. Len(s) + 1) \X (1 .. Len(t) + 1) -> Seq(Nat)] :
              \A i \in 1 .. Len(s) + 1, j \in 1 .. Len(t) + 1 :
                 f[<<i, j>>] = IF i > Len(s) THEN SubSeq(t, j, Len(t))
                               ELSE IF j > Len(t) THEN SubSeq(s, i, Len(s))
                               ELSE IF s[i] < t[j] THEN <<s[i]>> \o f[<<i + 1, j>>]
                               ELSE IF s[i] > t[j] THEN <<t[j]>> \o f[<<i, j + 1>>]
                               ELSE f[<<i + 1, j + 1>>]
  <1> DEFINE n == Len(s)
             m == Len(t)
             I == 1 .. n + 1
             J == 1 .. m + 1
             step(f, i, j) == IF i > n THEN SubSeq(t, j, m)
                              ELSE IF j > m THEN SubSeq(s, i, n)
                              ELSE IF s[i] < t[j] THEN <<s[i]>> \o f[<<i + 1, j>>]
                              ELSE IF s[i] > t[j] THEN <<t[j]>> \o f[<<i, j + 1>>]
                              ELSE f[<<i + 1, j + 1>>]
             upTo(f, r) == \A i \in I, j \in J :
                              (n + 1 - i) + (m + 1 - j) < r => f[<<i, j>>] = step(f, i, j)
             S == {r \in Nat : \E f \in [I \X J -> Seq(Nat)] : upTo(f, r)}
  <1>1. n \in Nat /\ m \in Nat
    OBVIOUS
  <1>2. ASSUME NEW f \in [I \X J -> Seq(Nat)], NEW i \in I, NEW j \in J
        PROVE  step(f, i, j) \in Seq(Nat)
    <2>1. CASE i > n
      BY <1>1, <2>1
    <2>2. CASE i <= n /\ j > m
      BY <1>1, <2>2
    <2>3. CASE i <= n /\ j <= m
      <3>1. i + 1 \in I /\ j + 1 \in J /\ i \in 1..n /\ j \in 1..m
        BY <1>1, <2>3
      <3>2. f[<<i + 1, j>>] \in Seq(Nat) /\ f[<<i, j + 1>>] \in Seq(Nat)
              /\ f[<<i + 1, j + 1>>] \in Seq(Nat)
        BY <3>1
      <3>3. s[i] \in Nat /\ t[j] \in Nat
        BY <3>1
      <3>4. <<s[i]>> \o f[<<i + 1, j>>] \in Seq(Nat) /\ <<t[j]>> \o f[<<i, j + 1>>] \in Seq(Nat)
        BY <3>2, <3>3
      <3>5. ~(i > n) /\ ~(j > m)
        BY <1>1, <2>3
      <3>6. CASE s[i] < t[j]
        BY <3>4, <3>5, <3>6
      <3>7. CASE s[i] > t[j]
        BY <3>3, <3>4, <3>5, <3>7
      <3>8. CASE s[i] = t[j]
        BY <3>2, <3>3, <3>5, <3>8
      <3>9. s[i] < t[j] \/ s[i] > t[j] \/ s[i] = t[j]
        BY <3>3
      <3> HIDE DEF step
      <3>. QED
        BY <3>6, <3>7, <3>8, <3>9
    <2>. QED
      BY <1>1, <2>1, <2>2, <2>3
  <1>3. 0 \in S
    <2> DEFINE f == [p \in I \X J |-> <<>>]
    <2>1. f \in [I \X J -> Seq(Nat)]
      OBVIOUS
    <2>2. upTo(f, 0)
      BY <1>1
    <2> HIDE DEF f, upTo
    <2>. QED
      BY <2>1, <2>2
  <1>4. ASSUME NEW r \in Nat, r \in S PROVE r + 1 \in S
    <2>1. PICK f \in [I \X J -> Seq(Nat)] : upTo(f, r)
      BY <1>4
    <2> DEFINE g == [p \in I \X J |-> step(f, p[1], p[2])]
    <2>2. g \in [I \X J -> Seq(Nat)]
      <3> HIDE DEF step, I, J
      <3>. QED
        BY <1>2
    <2>3. ASSUME NEW i \in I, NEW j \in J PROVE g[<<i, j>>] = step(f, i, j)
      <3> HIDE DEF step, I, J
      <3>. QED
        OBVIOUS
    <2>4. ASSUME NEW i \in I, NEW j \in J, (n + 1 - i) + (m + 1 - j) < r
          PROVE  g[<<i, j>>] = f[<<i, j>>]
      BY <2>1, <2>3, <2>4
    <2> HIDE DEF g
    <2>5. ASSUME NEW i \in I, NEW j \in J, (n + 1 - i) + (m + 1 - j) < r + 1
          PROVE  step(f, i, j) = step(g, i, j)
      <3>1. CASE i <= n /\ j <= m
        <4>1. i + 1 \in I /\ j + 1 \in J
          BY <1>1, <3>1
        <4>2. /\ (n + 1 - (i + 1)) + (m + 1 - j) < r
              /\ (n + 1 - i) + (m + 1 - (j + 1)) < r
              /\ (n + 1 - (i + 1)) + (m + 1 - (j + 1)) < r
          BY <1>1, <2>5
        <4>3. /\ g[<<i + 1, j>>] = f[<<i + 1, j>>]
              /\ g[<<i, j + 1>>] = f[<<i, j + 1>>]
              /\ g[<<i + 1, j + 1>>] = f[<<i + 1, j + 1>>]
          BY <2>4, <4>1, <4>2
        <4>. QED
          BY <4>3
      <3>2. CASE i > n \/ j > m
        BY <3>2
      <3>. QED
        BY <1>1, <3>1, <3>2
    <2>6. upTo(g, r + 1)
      <3> HIDE DEF step, I, J
      <3>. QED
        BY <2>3, <2>5
    <2> HIDE DEF upTo
    <2>. QED
      BY <2>2, <2>6
  <1> HIDE DEF S
  <1>5. Nat \subseteq S
    BY <1>3, <1>4, SetInduction
  <1>6. PICK f \in [I \X J -> Seq(Nat)] : upTo(f, n + m + 1)
    <2>1. n + m + 1 \in S
      BY <1>1, <1>5
    <2> HIDE DEF upTo
    <2>. QED
      BY <2>1 DEF S
  <1>7. ASSUME NEW i \in I, NEW j \in J PROVE f[<<i, j>>] = step(f, i, j)
    <2>1. (n + 1 - i) + (m + 1 - j) < n + m + 1
      BY <1>1
    <2> HIDE DEF step
    <2>. QED
      BY <1>6, <2>1
  <1>. QED
    BY <1>7

\* symmetric_difference adds supports.
LEMMA SymmetricDifference ==
    ASSUME NEW s, NEW t, NEW E, NEW F, Lists(s, E), Lists(t, F)
    PROVE  Lists(symmetric_difference(s, t), Plus(E, F))
  <1> DEFINE n == Len(s)
             m == Len(t)
             G == (1 .. n + 1) \X (1 .. m + 1)
             step(f, i, j) == IF i > n THEN SubSeq(t, j, m)
                              ELSE IF j > m THEN SubSeq(s, i, n)
                              ELSE IF s[i] < t[j] THEN <<s[i]>> \o f[<<i + 1, j>>]
                              ELSE IF s[i] > t[j] THEN <<t[j]>> \o f[<<i, j + 1>>]
                              ELSE f[<<i + 1, j + 1>>]
             Table(f) == f = [p \in G |-> step(f, p[1], p[2])]
             c == CHOOSE f : Table(f)
  <1>1. s \in Seq(Nat) /\ t \in Seq(Nat) /\ n \in Nat /\ m \in Nat
    BY ListsBasic
  <1>2. symmetric_difference(s, t) = c[<<1, 1>>]
    BY DEF symmetric_difference
  <1>3. PICK f \in [G -> Seq(Nat)] :
           \A i \in 1 .. n + 1, j \in 1 .. m + 1 : f[<<i, j>>] = step(f, i, j)
    BY <1>1, MergeTable
  <1>4. Table(f)
    <2>1. \A p \in G : p[1] \in 1 .. n + 1 /\ p[2] \in 1 .. m + 1 /\ p = <<p[1], p[2]>>
      OBVIOUS
    <2> HIDE DEF step
    <2>2. \A p \in G : f[p] = step(f, p[1], p[2])
      BY <1>3, <2>1
    <2>. QED
      BY <2>2
  <1>5. Table(c)
    BY <1>4
  <1> HIDE DEF c
  <1>6. ASSUME NEW i \in 1 .. n + 1, NEW j \in 1 .. m + 1 PROVE c[<<i, j>>] = step(c, i, j)
    <2>1. <<i, j>> \in G
      OBVIOUS
    <2>2. <<i, j>>[1] = i /\ <<i, j>>[2] = j
      OBVIOUS
    <2> HIDE DEF step, G
    <2>. QED
      BY <1>5, <2>1, <2>2
  <1>7. Merges(c, s, t)
    <2> SUFFICES ASSUME NEW i \in 1 .. n + 1, NEW j \in 1 .. m + 1
                 PROVE  /\ i > n => c[<<i, j>>] = SubSeq(t, j, m)
                        /\ i <= n /\ j > m => c[<<i, j>>] = SubSeq(s, i, n)
                        /\ i <= n /\ j <= m =>
                              /\ s[i] < t[j] => c[<<i, j>>] = <<s[i]>> \o c[<<i + 1, j>>]
                              /\ s[i] > t[j] => c[<<i, j>>] = <<t[j]>> \o c[<<i, j + 1>>]
                              /\ s[i] = t[j] => c[<<i, j>>] = c[<<i + 1, j + 1>>]
      BY DEF Merges
    <2>1. i \in Nat /\ j \in Nat
      BY <1>1
    <2>2. c[<<i, j>>] = step(c, i, j)
      BY <1>6
    <2>3. i > n => c[<<i, j>>] = SubSeq(t, j, m)
      BY <2>2
    <2>4. i <= n /\ j > m => c[<<i, j>>] = SubSeq(s, i, n)
      BY <1>1, <2>1, <2>2
    <2>5. ASSUME i <= n, j <= m
          PROVE  /\ s[i] < t[j] => c[<<i, j>>] = <<s[i]>> \o c[<<i + 1, j>>]
                 /\ s[i] > t[j] => c[<<i, j>>] = <<t[j]>> \o c[<<i, j + 1>>]
                 /\ s[i] = t[j] => c[<<i, j>>] = c[<<i + 1, j + 1>>]
      <3>1. ~(i > n) /\ ~(j > m) /\ i \in 1..n /\ j \in 1..m
        BY <1>1, <2>1, <2>5
      <3>2. s[i] \in Nat /\ t[j] \in Nat
        BY <1>1, <3>1
      <3>3. c[<<i, j>>] = IF s[i] < t[j] THEN <<s[i]>> \o c[<<i + 1, j>>]
                          ELSE IF s[i] > t[j] THEN <<t[j]>> \o c[<<i, j + 1>>]
                          ELSE c[<<i + 1, j + 1>>]
        BY <2>2, <3>1
      <3>4. s[i] > t[j] => ~(s[i] < t[j])
        BY <3>2
      <3>5. s[i] = t[j] => ~(s[i] < t[j]) /\ ~(s[i] > t[j])
        BY <3>2
      <3>. QED
        BY <3>3, <3>4, <3>5
    <2>. QED
      BY <2>3, <2>4, <2>5
  <1>8. Lists(c[<<1, 1>>], Plus(E, F))
    BY <1>7, MergeLists
  <1>. QED
    BY <1>2, <1>8

\* One list in front of another.
Below(E, F) == \A e \in E, f \in F : e < f

\* Lists one below the other are joined by appending.
LEMMA ListsConcat ==
    ASSUME NEW s, NEW t, NEW E, NEW F, Lists(s, E), Lists(t, F), Below(E, F)
    PROVE  Lists(s \o t, Plus(E, F))
  <1> DEFINE u == s \o t
             n == Len(s)
             m == Len(t)
  <1>1. /\ s \in Seq(Nat) /\ n \in Nat /\ E \subseteq Nat
        /\ \A k \in 1..n : s[k] \in Nat /\ s[k] \in E
        /\ \A e \in E : \E k \in 1..n : e = s[k]
        /\ \A k, l \in 1..n : k < l => s[k] < s[l]
    BY ListsBasic
  <1>2. /\ t \in Seq(Nat) /\ m \in Nat /\ F \subseteq Nat
        /\ \A k \in 1..m : t[k] \in Nat /\ t[k] \in F
        /\ \A e \in F : \E k \in 1..m : e = t[k]
        /\ \A k, l \in 1..m : k < l => t[k] < t[l]
    BY ListsBasic
  <1>3. /\ u \in Seq(Nat) /\ Len(u) = n + m
        /\ \A k \in 1..n : u[k] = s[k]
        /\ \A k \in 1..m : u[n + k] = t[k]
    BY <1>1, <1>2
  <1> HIDE DEF u, n, m
  <1>4. ASSUME NEW k \in 1 .. n + m
        PROVE  k \in 1..n \/ (k \notin 1..n /\ k - n \in 1..m /\ u[k] = t[k - n])
    <2>1. k \in 1..n \/ (k \notin 1..n /\ k - n \in 1..m /\ n + (k - n) = k)
      BY <1>1, <1>2
    <2>. QED
      BY <1>3, <2>1
  <1>5. \A k, l \in 1 .. n + m : k < l => u[k] < u[l]
    <2> SUFFICES ASSUME NEW k \in 1 .. n + m, NEW l \in 1 .. n + m, k < l PROVE u[k] < u[l]
      OBVIOUS
    <2>1. CASE k \in 1..n /\ l \in 1..n
      BY <1>1, <1>3, <2>1
    <2>2. CASE k \in 1..n /\ l \notin 1..n
      <3>1. l - n \in 1..m /\ u[l] = t[l - n]
        BY <1>4, <2>2
      <3>2. s[k] \in E /\ t[l - n] \in F
        BY <1>1, <1>2, <2>2, <3>1
      <3>3. s[k] < t[l - n]
        BY <3>2 DEF Below
      <3>. QED
        BY <1>3, <2>2, <3>1, <3>3
    <2>3. CASE k \notin 1..n
      <3>1. k - n \in 1..m /\ u[k] = t[k - n]
        BY <1>4, <2>3
      <3>2. l \notin 1..n
        BY <1>1, <2>3
      <3>3. l - n \in 1..m /\ u[l] = t[l - n] /\ k - n < l - n
        BY <1>1, <1>4, <3>2
      <3>. QED
        BY <1>2, <3>1, <3>3
    <2>. QED
      BY <2>1, <2>2, <2>3
  <1>6. \A k \in 1 .. n + m : u[k] \in E \cup F
    BY <1>1, <1>2, <1>3, <1>4
  <1>7. ASSUME NEW e \in E PROVE \E k \in 1 .. n + m : e = u[k]
    <2>1. PICK k \in 1..n : e = s[k]
      BY <1>1
    <2>2. k \in 1 .. n + m
      BY <1>1, <1>2
    <2>. QED
      BY <1>3, <2>1, <2>2
  <1>8. ASSUME NEW e \in F PROVE \E k \in 1 .. n + m : e = u[k]
    <2>1. PICK k \in 1..m : e = t[k]
      BY <1>2
    <2>2. n + k \in 1 .. n + m
      BY <1>1, <1>2
    <2>. QED
      BY <1>3, <2>1, <2>2
  <1>9. E \cup F = {u[k] : k \in 1..Len(u)}
    BY <1>3, <1>6, <1>7, <1>8
  <1>10. ASSUME NEW e \in E PROVE e \notin F
    <2> SUFFICES ASSUME e \in F PROVE FALSE
      OBVIOUS
    <2>1. e < e
      BY DEF Below
    <2>2. e \in Nat
      BY <1>1
    <2>. QED
      BY <2>1, <2>2
  <1>11. E \cup F = Plus(E, F)
    BY <1>10 DEF Plus
  <1>12. Plus(E, F) = {u[k] : k \in 1..Len(u)}
    <2> DEFINE P == Plus(E, F)
               U == E \cup F
    <2>1. P = U /\ U = {u[k] : k \in 1..Len(u)}
      BY <1>9, <1>11
    <2> HIDE DEF P, U
    <2>2. P = {u[k] : k \in 1..Len(u)}
      BY <2>1
    <2>. QED
      BY <2>2 DEF P
  <1>13. Lists(u, Plus(E, F))
    BY <1>3, <1>5, <1>12 DEF Lists
  <1>. QED
    BY <1>13 DEF u

\* The list of no column is empty.
LEMMA ListsEmpty ==
    ASSUME NEW s, NEW E, Lists(s, E)
    PROVE  (s = <<>> <=> E = {}) /\ (s # <<>> => 1 \in 1..Len(s) /\ Len(s) \in 1..Len(s))
  <1>1. /\ s \in Seq(Nat) /\ Len(s) \in Nat
        /\ \A k \in 1..Len(s) : s[k] \in E
        /\ \A e \in E : \E k \in 1..Len(s) : e = s[k]
    BY ListsBasic
  <1>2. s # <<>> => Len(s) # 0
    BY <1>1
  <1>3. s # <<>> => 1 \in 1..Len(s) /\ Len(s) \in 1..Len(s)
    BY <1>1, <1>2
  <1>4. s # <<>> => E # {}
    BY <1>1, <1>3
  <1>5. ASSUME s = <<>> PROVE E = {}
    <2>1. 1..Len(s) = {}
      BY <1>5
    <2>. QED
      BY <1>1, <2>1
  <1>. QED
    BY <1>3, <1>4, <1>5

\* The last element bounds a list, and so does the first.
LEMMA ListsEnds ==
    ASSUME NEW s, NEW E, Lists(s, E), s # <<>>
    PROVE  \A e \in E : e \in Nat /\ s[1] <= e /\ e <= s[Len(s)] /\ s[1] \in Nat /\ s[Len(s)] \in Nat
  <1>1. /\ Len(s) \in Nat
        /\ \A k \in 1..Len(s) : s[k] \in Nat
        /\ \A e \in E : \E k \in 1..Len(s) : e = s[k]
        /\ \A k, l \in 1..Len(s) : k < l => s[k] < s[l]
    BY ListsBasic
  <1>2. 1 \in 1..Len(s) /\ Len(s) \in 1..Len(s)
    BY ListsEmpty
  <1> SUFFICES ASSUME NEW e \in E
               PROVE  e \in Nat /\ s[1] <= e /\ e <= s[Len(s)] /\ s[1] \in Nat /\ s[Len(s)] \in Nat
    OBVIOUS
  <1>3. PICK k \in 1..Len(s) : e = s[k]
    BY <1>1
  <1>4. k \in Nat /\ 1 <= k /\ k <= Len(s)
    BY <1>1
  <1>5. s[1] <= s[k]
    <2>1. CASE k = 1
      BY <1>1, <1>2, <2>1
    <2>2. CASE k # 1
      BY <1>1, <1>2, <1>4, <2>2
    <2>. QED
      BY <2>1, <2>2
  <1>6. s[k] <= s[Len(s)]
    <2>1. CASE k = Len(s)
      BY <1>1, <1>2, <2>1
    <2>2. CASE k # Len(s)
      BY <1>1, <1>2, <1>4, <2>2
    <2>. QED
      BY <2>1, <2>2
  <1>. QED
    BY <1>1, <1>2, <1>3, <1>5, <1>6

\* merge_sorted_vecs with what its loop drops adds lists.
LEMMA OverlapsDropped ==
    ASSUME NEW s, NEW t, NEW E, NEW F, Lists(s, E), Lists(t, F)
    PROVE  Lists(DropOverlaps(s, t), Plus(E, F))
  <1> DEFINE n == Len(s)
             m == Len(t)
             G == (1 .. n + 1) \X (1 .. m + 1)
             step(f, i, j) == IF i > n THEN SubSeq(t, j, m)
                              ELSE IF j > m THEN SubSeq(s, i, n)
                              ELSE IF s[i] < t[j] THEN <<s[i]>> \o f[<<i + 1, j>>]
                              ELSE IF s[i] > t[j] THEN <<t[j]>> \o f[<<i, j + 1>>]
                              ELSE <<>> \o f[<<i + 1, j + 1>>]
             Table(f) == f = [p \in G |-> step(f, p[1], p[2])]
             c == CHOOSE f : Table(f)
  <1>1. s \in Seq(Nat) /\ t \in Seq(Nat) /\ n \in Nat /\ m \in Nat
    BY ListsBasic
  <1>2. DropOverlaps(s, t) = IF s = <<>> THEN t
                             ELSE IF t = <<>> THEN s
                             ELSE IF s[n] < t[1] THEN s \o t
                             ELSE IF t[m] < s[1] THEN t \o s
                             ELSE c[<<1, 1>>]
    BY DEF DropOverlaps, merge_sorted_vecs
  <1>3. PICK f \in [G -> Seq(Nat)] :
           \A i \in 1 .. n + 1, j \in 1 .. m + 1 :
              f[<<i, j>>] = IF i > n THEN SubSeq(t, j, m)
                            ELSE IF j > m THEN SubSeq(s, i, n)
                            ELSE IF s[i] < t[j] THEN <<s[i]>> \o f[<<i + 1, j>>]
                            ELSE IF s[i] > t[j] THEN <<t[j]>> \o f[<<i, j + 1>>]
                            ELSE f[<<i + 1, j + 1>>]
    BY <1>1, MergeTable
  <1>4. ASSUME NEW i \in 1 .. n + 1, NEW j \in 1 .. m + 1 PROVE f[<<i, j>>] = step(f, i, j)
    <2>1. i \in Nat /\ j \in Nat
      BY <1>1
    <2>2. CASE i > n \/ j > m
      BY <1>3, <2>2
    <2>3. CASE i <= n /\ j <= m
      <3>1. <<i + 1, j + 1>> \in G
        BY <1>1, <2>3
      <3>2. f[<<i + 1, j + 1>>] \in Seq(Nat)
        BY <3>1
      <3>3. \A u \in Seq(Nat) : <<>> \o u = u
        OBVIOUS
      <3>4. <<>> \o f[<<i + 1, j + 1>>] = f[<<i + 1, j + 1>>]
        BY <3>2, <3>3
      <3>. QED
        BY <1>3, <3>4
    <2> HIDE DEF step, n, m
    <2>. QED
      BY <1>1, <2>1, <2>2, <2>3
  <1>5. Table(f)
    <2>1. \A p \in G : p[1] \in 1 .. n + 1 /\ p[2] \in 1 .. m + 1 /\ p = <<p[1], p[2]>>
      OBVIOUS
    <2> HIDE DEF step
    <2>2. ASSUME NEW p \in G PROVE f[p] = step(f, p[1], p[2])
      <3> HIDE DEF G, n, m
      <3>1. PICK i, j : /\ i \in 1 .. n + 1 /\ j \in 1 .. m + 1
                        /\ i = p[1] /\ j = p[2] /\ p = <<i, j>>
        BY <2>1
      <3>2. f[<<i, j>>] = step(f, i, j)
        BY <1>4, <3>1, ZenonT(40)
      <3>. QED
        BY <3>1, <3>2
    <2>. QED
      BY <2>2
  <1>6. Table(c)
    BY <1>5
  <1> HIDE DEF c
  <1>7. ASSUME NEW i \in 1 .. n + 1, NEW j \in 1 .. m + 1 PROVE c[<<i, j>>] = step(c, i, j)
    <2>1. <<i, j>> \in G
      OBVIOUS
    <2>2. <<i, j>>[1] = i /\ <<i, j>>[2] = j
      OBVIOUS
    <2> HIDE DEF step, G
    <2>. QED
      BY <1>6, <2>1, <2>2
  <1>8. Merges(c, s, t)
    <2> SUFFICES ASSUME NEW i \in 1 .. n + 1, NEW j \in 1 .. m + 1
                 PROVE  /\ i > n => c[<<i, j>>] = SubSeq(t, j, m)
                        /\ i <= n /\ j > m => c[<<i, j>>] = SubSeq(s, i, n)
                        /\ i <= n /\ j <= m =>
                              /\ s[i] < t[j] => c[<<i, j>>] = <<s[i]>> \o c[<<i + 1, j>>]
                              /\ s[i] > t[j] => c[<<i, j>>] = <<t[j]>> \o c[<<i, j + 1>>]
                              /\ s[i] = t[j] => c[<<i, j>>] = <<>> \o c[<<i + 1, j + 1>>]
      BY DEF Merges
    <2>1. i \in Nat /\ j \in Nat
      BY <1>1
    <2>2. c[<<i, j>>] = step(c, i, j)
      BY <1>7
    <2>3. i > n => c[<<i, j>>] = SubSeq(t, j, m)
      BY <2>2
    <2>4. i <= n /\ j > m => c[<<i, j>>] = SubSeq(s, i, n)
      BY <1>1, <2>1, <2>2
    <2>5. ASSUME i <= n, j <= m
          PROVE  /\ s[i] < t[j] => c[<<i, j>>] = <<s[i]>> \o c[<<i + 1, j>>]
                 /\ s[i] > t[j] => c[<<i, j>>] = <<t[j]>> \o c[<<i, j + 1>>]
                 /\ s[i] = t[j] => c[<<i, j>>] = <<>> \o c[<<i + 1, j + 1>>]
      <3>1. ~(i > n) /\ ~(j > m) /\ i \in 1..n /\ j \in 1..m
        BY <1>1, <2>1, <2>5
      <3>2. s[i] \in Nat /\ t[j] \in Nat
        BY <1>1, <3>1
      <3>3. c[<<i, j>>] = IF s[i] < t[j] THEN <<s[i]>> \o c[<<i + 1, j>>]
                          ELSE IF s[i] > t[j] THEN <<t[j]>> \o c[<<i, j + 1>>]
                          ELSE <<>> \o c[<<i + 1, j + 1>>]
        BY <2>2, <3>1
      <3>4. s[i] > t[j] => ~(s[i] < t[j])
        BY <3>2
      <3>5. s[i] = t[j] => ~(s[i] < t[j]) /\ ~(s[i] > t[j])
        BY <3>2
      <3>. QED
        BY <3>3, <3>4, <3>5
    <2>. QED
      BY <2>3, <2>4, <2>5
  <1>9. Lists(c[<<1, 1>>], Plus(E, F))
    BY <1>8, MergeLists
  <1>10. CASE s = <<>>
    <2>1. Plus({}, F) = F /\ E = {}
      BY <1>10, ListsEmpty DEF Plus
    <2>. QED
      BY <1>2, <1>10, <2>1
  <1>11. CASE s # <<>> /\ t = <<>>
    <2>1. Plus(E, {}) = E /\ F = {}
      BY <1>11, ListsEmpty DEF Plus
    <2>. QED
      BY <1>2, <1>11, <2>1
  <1>12. CASE s # <<>> /\ t # <<>> /\ s[n] < t[1]
    <2>1. Below(E, F)
      <3>1. \A e \in E : e \in Nat /\ e <= s[n] /\ s[n] \in Nat
        BY <1>12, ListsEnds
      <3>2. \A e \in F : e \in Nat /\ t[1] <= e /\ t[1] \in Nat
        BY <1>12, ListsEnds
      <3>. QED
        BY <1>12, <3>1, <3>2 DEF Below
    <2>2. Lists(s \o t, Plus(E, F))
      BY <2>1, ListsConcat
    <2>. QED
      BY <1>2, <1>12, <2>2
  <1>13. CASE s # <<>> /\ t # <<>> /\ ~(s[n] < t[1]) /\ t[m] < s[1]
    <2>1. Below(F, E)
      <3>1. \A e \in F : e \in Nat /\ e <= t[m] /\ t[m] \in Nat
        BY <1>13, ListsEnds
      <3>2. \A e \in E : e \in Nat /\ s[1] <= e /\ s[1] \in Nat
        BY <1>13, ListsEnds
      <3>. QED
        BY <1>13, <3>1, <3>2 DEF Below
    <2>2. Lists(t \o s, Plus(F, E))
      BY <2>1, ListsConcat
    <2>3. Plus(F, E) = Plus(E, F)
      BY DEF Plus
    <2> DEFINE r == t \o s
               P == Plus(F, E)
               Q == Plus(E, F)
    <2>4. Lists(r, P) /\ P = Q /\ DropOverlaps(s, t) = r
      BY <1>2, <1>13, <2>2, <2>3
    <2> HIDE DEF r, P, Q
    <2>5. Lists(DropOverlaps(s, t), Q)
      BY <2>4
    <2>. QED
      BY <2>5 DEF Q
  <1>14. CASE s # <<>> /\ t # <<>> /\ ~(s[n] < t[1]) /\ ~(t[m] < s[1])
    BY <1>2, <1>9, <1>14
  <1>. QED
    BY <1>10, <1>11, <1>12, <1>13, <1>14

\* The columns of a linear combination, as a set.
ColumnsOf(lc) ==
    (IF lc.constant THEN {0} ELSE {})
        \cup {w + 1 : w \in {lc.witnesses[k] : k \in 1..Len(lc.witnesses)}}

\* A linear combination as the generator keeps it.
Sorted(lc) ==
    /\ lc = [constant |-> lc.constant, witnesses |-> lc.witnesses]
    /\ lc.constant \in BOOLEAN
    /\ Lists(lc.witnesses, {lc.witnesses[k] : k \in 1..Len(lc.witnesses)})

\* bool_sparse_row lists the columns of a linear combination.
LEMMA SparseRowLists ==
    ASSUME NEW lc, Sorted(lc)
    PROVE  Lists(bool_sparse_row(lc), ColumnsOf(lc))
  <1> DEFINE s == lc.witnesses
             W == {s[k] : k \in 1..Len(s)}
             u == [k \in DOMAIN s |-> s[k] + 1]
             U == {w + 1 : w \in W}
  <1>1. /\ s \in Seq(Nat) /\ Len(s) \in Nat /\ W \subseteq Nat
        /\ \A k \in 1..Len(s) : s[k] \in Nat
        /\ \A k, l \in 1..Len(s) : k < l => s[k] < s[l]
    BY ListsBasic DEF Sorted
  <1>2. u \in Seq(Nat) /\ Len(u) = Len(s) /\ \A k \in 1..Len(s) : u[k] = s[k] + 1
    <2>1. DOMAIN s = 1..Len(s)
      BY <1>1
    <2>2. u = [k \in 1..Len(s) |-> s[k] + 1]
      BY <2>1
    <2>3. \A k \in 1..Len(s) : s[k] + 1 \in Nat
      BY <1>1
    <2> HIDE DEF u, s
    <2>. QED
      BY <1>1, <2>2, <2>3
  <1>3. U = {u[k] : k \in 1..Len(u)}
    BY <1>2
  <1>4. \A k, l \in 1..Len(u) : k < l => u[k] < u[l]
    <2> HIDE DEF u, s
    <2> SUFFICES ASSUME NEW k \in 1..Len(u), NEW l \in 1..Len(u), k < l PROVE u[k] < u[l]
      OBVIOUS
    <2>1. k \in 1..Len(s) /\ l \in 1..Len(s)
      BY <1>2
    <2>2. u[k] = s[k] + 1 /\ u[l] = s[l] + 1 /\ s[k] < s[l] /\ s[k] \in Nat /\ s[l] \in Nat
      BY <1>1, <1>2, <2>1
    <2>. QED
      BY <2>2
  <1>5. Lists(u, U)
    BY <1>2, <1>3, <1>4 DEF Lists
  <1>6. \A e \in U : 0 < e
    BY <1>1
  <1>7. CASE lc.constant
    <2>1. Lists(<<0>> \o u, {0} \cup U)
      BY <1>5, <1>6, ListsCons
    <2>. QED
      BY <1>7, <2>1 DEF bool_sparse_row, ColumnsOf
  <1>8. CASE ~lc.constant
    <2>1. <<>> \o u = u
      BY <1>2
    <2>2. {} \cup U = U
      OBVIOUS
    <2>. QED
      BY <1>5, <1>8, <2>1, <2>2 DEF bool_sparse_row, ColumnsOf
  <1>. QED
    BY <1>7, <1>8

\* Witness i is column i + 1, and adding does not see the shift.
LEMMA PlusShifted ==
    ASSUME NEW V \in SUBSET Nat, NEW W \in SUBSET Nat
    PROVE  /\ {w + 1 : w \in Plus(V, W)} = Plus({w + 1 : w \in V}, {w + 1 : w \in W})
           /\ 0 \notin {w + 1 : w \in V}
  <1>1. \A v, w \in Nat : v + 1 = w + 1 => v = w
    OBVIOUS
  <1>2. ASSUME NEW v \in V, v + 1 \in {w + 1 : w \in W} PROVE v \in W
    BY <1>1, <1>2
  <1>3. ASSUME NEW w \in W, w + 1 \in {v + 1 : v \in V} PROVE w \in V
    BY <1>1, <1>3
  <1>4. {w + 1 : w \in Plus(V, W)} = Plus({w + 1 : w \in V}, {w + 1 : w \in W})
    BY <1>2, <1>3 DEF Plus
  <1>. QED
    BY <1>4

\* Adding linear combinations is adding their columns.
LEMMA XorColumns ==
    ASSUME NEW a, NEW b, Sorted(a), Sorted(b)
    PROVE  /\ Sorted(bool_xor(a, b))
           /\ ColumnsOf(bool_xor(a, b)) = Plus(ColumnsOf(a), ColumnsOf(b))
  <1> DEFINE V == {a.witnesses[k] : k \in 1..Len(a.witnesses)}
             W == {b.witnesses[k] : k \in 1..Len(b.witnesses)}
             x == bool_xor(a, b)
             X == {x.witnesses[k] : k \in 1..Len(x.witnesses)}
             Up(S) == {w + 1 : w \in S}
  <1>1. /\ Lists(a.witnesses, V) /\ Lists(b.witnesses, W)
        /\ a.constant \in BOOLEAN /\ b.constant \in BOOLEAN
    BY DEF Sorted
  <1>2. /\ x.witnesses = DropOverlaps(a.witnesses, b.witnesses)
        /\ x.constant = (a.constant # b.constant)
        /\ x = [constant |-> x.constant, witnesses |-> x.witnesses]
    BY DEF bool_xor
  <1>3. Lists(x.witnesses, Plus(V, W))
    BY <1>1, <1>2, OverlapsDropped
  <1>4. X = Plus(V, W)
    BY <1>3 DEF Lists
  <1>5. V \subseteq Nat /\ W \subseteq Nat
    BY <1>1, ListsBasic
  <1>6. /\ ColumnsOf(a) = (IF a.constant THEN {0} ELSE {}) \cup Up(V)
        /\ ColumnsOf(b) = (IF b.constant THEN {0} ELSE {}) \cup Up(W)
        /\ ColumnsOf(x) = (IF x.constant THEN {0} ELSE {}) \cup Up(X)
    BY DEF ColumnsOf
  <1>7. Up(Plus(V, W)) = Plus(Up(V), Up(W))
    <2> HIDE DEF V, W
    <2>. QED
      BY <1>5, PlusShifted
  <1>8. 0 \notin Up(V) /\ 0 \notin Up(W)
    <2> HIDE DEF V, W
    <2>. QED
      BY <1>5, PlusShifted
  <1>9. Sorted(x)
    BY <1>1, <1>2, <1>3, <1>4 DEF Sorted
  <1> HIDE DEF V, W, X, x, Up
  <1>10. ColumnsOf(x) = Plus(ColumnsOf(a), ColumnsOf(b))
    BY <1>1, <1>2, <1>4, <1>6, <1>7, <1>8 DEF Plus
  <1>. QED
    BY <1>9, <1>10 DEF x

-----------------------------------------------------------------------------
(***************************************************************************)
(* Parity of finite sets.                                                  *)
(***************************************************************************)
Odd(S) == Cardinality(S) % 2 = 1

\* The parity of a sum.
LEMMA OddAdds ==
    ASSUME NEW a \in Nat, NEW b \in Nat
    PROVE  ((a + b) % 2 = 1) = ((a % 2 = 1) # (b % 2 = 1))
  OBVIOUS

\* The empty set is even.
LEMMA OddEmpty == IsFiniteSet({}) /\ ~Odd({})
  <1>1. IsFiniteSet({}) /\ Cardinality({}) = 0
    BY FS_EmptySet
  <1>. QED
    BY <1>1 DEF Odd

\* A set of one member is odd.
LEMMA OddOne == ASSUME NEW x PROVE IsFiniteSet({x}) /\ Odd({x})
  <1>1. IsFiniteSet({x}) /\ Cardinality({x}) = 1
    BY FS_Singleton
  <1>. QED
    BY <1>1 DEF Odd

\* One more element turns the parity.
LEMMA OddNext ==
    ASSUME NEW S, IsFiniteSet(S), NEW x, x \notin S
    PROVE  IsFiniteSet(S \cup {x}) /\ Odd(S \cup {x}) = ~Odd(S)
  <1>1. /\ IsFiniteSet(S \cup {x}) /\ Cardinality(S \cup {x}) = Cardinality(S) + 1
        /\ Cardinality(S) \in Nat
    BY FS_AddElement, FS_CardinalityType
  <1>. QED
    BY <1>1 DEF Odd

\* The parity of a disjoint union.
LEMMA OddDisjoint ==
    ASSUME NEW S, NEW T, IsFiniteSet(S), IsFiniteSet(T), S \cap T = {}
    PROVE  IsFiniteSet(S \cup T) /\ Odd(S \cup T) = (Odd(S) # Odd(T))
  <1>1. IsFiniteSet(S \cup T)
          /\ Cardinality(S \cup T) = Cardinality(S) + Cardinality(T) - Cardinality(S \cap T)
    BY FS_Union
  <1>2. Cardinality(S \cap T) = 0
    BY FS_EmptySet
  <1>3. Cardinality(S) \in Nat /\ Cardinality(T) \in Nat
    BY FS_CardinalityType
  <1>4. Cardinality(S \cup T) = Cardinality(S) + Cardinality(T)
    BY <1>1, <1>2, <1>3
  <1>. QED
    BY <1>1, <1>3, <1>4, OddAdds DEF Odd

\* What is in both is counted twice.
LEMMA OddPlus ==
    ASSUME NEW S, NEW T, IsFiniteSet(S), IsFiniteSet(T)
    PROVE  IsFiniteSet(Plus(S, T)) /\ Odd(Plus(S, T)) = (Odd(S) # Odd(T))
  <1> DEFINE A == S \ T
             B == T \ S
             C == S \cap T
  <1>1. /\ A \in SUBSET S /\ C \in SUBSET S /\ B \in SUBSET T
        /\ A \cap C = {} /\ B \cap C = {} /\ A \cap B = {}
        /\ S = A \cup C /\ T = B \cup C /\ Plus(S, T) = A \cup B
    BY DEF Plus
  <1> HIDE DEF A, B, C
  <1>2. IsFiniteSet(A) /\ IsFiniteSet(B) /\ IsFiniteSet(C)
    BY <1>1, FS_Subset
  <1>3. Odd(A \cup C) = (Odd(A) # Odd(C))
    BY <1>1, <1>2, OddDisjoint
  <1>4. Odd(B \cup C) = (Odd(B) # Odd(C))
    BY <1>1, <1>2, OddDisjoint
  <1>5. IsFiniteSet(A \cup B) /\ Odd(A \cup B) = (Odd(A) # Odd(B))
    BY <1>1, <1>2, OddDisjoint
  <1>6. Odd(A) \in BOOLEAN /\ Odd(B) \in BOOLEAN /\ Odd(C) \in BOOLEAN
    BY DEF Odd
  <1>7. Odd(S) = (Odd(A) # Odd(C)) /\ Odd(T) = (Odd(B) # Odd(C))
    BY <1>1, <1>3, <1>4
  <1>8. Odd(Plus(S, T)) = (Odd(A) # Odd(B))
    BY <1>1, <1>5
  <1>. QED
    BY <1>1, <1>5, <1>6, <1>7, <1>8

-----------------------------------------------------------------------------
(***************************************************************************)
(* The value of a sum of columns of 1 || f.                                *)
(***************************************************************************)
\* The columns of a sum that are one.
Lit(f, E) == {e \in E : e = 0 \/ f[e]}

SumOf(f, E) == Odd(Lit(f, E))

\* The sum over a symmetric difference is the exclusive or of the sums.
LEMMA SumPlus ==
    ASSUME NEW f, NEW E, NEW F, IsFiniteSet(E), IsFiniteSet(F)
    PROVE  IsFiniteSet(Plus(E, F)) /\ SumOf(f, Plus(E, F)) = (SumOf(f, E) # SumOf(f, F))
  <1>1. Lit(f, E) \in SUBSET E /\ Lit(f, F) \in SUBSET F
    BY DEF Lit
  <1>2. Lit(f, Plus(E, F)) = Plus(Lit(f, E), Lit(f, F))
    BY DEF Lit, Plus
  <1>3. IsFiniteSet(Lit(f, E)) /\ IsFiniteSet(Lit(f, F))
    BY <1>1, FS_Subset
  <1>4. Odd(Plus(Lit(f, E), Lit(f, F))) = (Odd(Lit(f, E)) # Odd(Lit(f, F)))
    BY <1>3, OddPlus
  <1>5. IsFiniteSet(Plus(E, F))
    BY OddPlus
  <1>. QED
    BY <1>2, <1>4, <1>5 DEF SumOf

\* Of no columns, of the constant one and of one bit.
LEMMA SumFirst ==
    ASSUME NEW f
    PROVE  /\ ~SumOf(f, {}) /\ SumOf(f, {0})
           /\ \A e \in Nat \ {0} : f[e] \in BOOLEAN => SumOf(f, {e}) = f[e]
  <1>1. Lit(f, {}) = {} /\ Lit(f, {0}) = {0}
    BY DEF Lit
  <1>2. ASSUME NEW e \in Nat \ {0}, f[e] \in BOOLEAN PROVE SumOf(f, {e}) = f[e]
    <2>1. Lit(f, {e}) = IF f[e] THEN {e} ELSE {}
      BY DEF Lit
    <2>2. Odd({e}) /\ ~Odd({})
      BY OddOne, OddEmpty
    <2>3. Odd({e}) \in BOOLEAN /\ Odd({}) \in BOOLEAN
      BY DEF Odd
    <2>4. CASE f[e]
      BY <2>1, <2>2, <2>3, <2>4 DEF SumOf
    <2>5. CASE ~f[e]
      BY <1>2, <2>1, <2>2, <2>3, <2>5 DEF SumOf
    <2>. QED
      BY <2>4, <2>5
  <1>. QED
    BY <1>1, <1>2, OddOne, OddEmpty DEF SumOf

\* More bits leave the sums of the earlier ones alone.
LEMMA SumLonger ==
    ASSUME NEW f \in Seq(BOOLEAN), NEW g \in Seq(BOOLEAN), NEW E \in SUBSET (0..Len(f))
    PROVE  SumOf(f \o g, E) = SumOf(f, E)
  <1>1. \A e \in E : e # 0 => (f \o g)[e] = f[e]
    OBVIOUS
  <1>2. Lit(f \o g, E) = Lit(f, E)
    BY <1>1 DEF Lit
  <1>. QED
    BY <1>2 DEF SumOf

\* Two sets of which one numbers the other have one parity.
LEMMA OddImage ==
    ASSUME NEW S, NEW T, IsFiniteSet(S), NEW h \in [S -> T],
           \A a, b \in S : h[a] = h[b] => a = b,
           \A t \in T : \E a \in S : h[a] = t
    PROVE  IsFiniteSet(T) /\ Odd(T) = Odd(S)
  <1>1. h \in Bijection(S, T)
    BY DEF Bijection, Injection, Surjection, IsInjective
  <1>2. IsFiniteSet(T) /\ Cardinality(T) = Cardinality(S)
    BY <1>1, FS_Bijection DEF ExistsBijection
  <1>. QED
    BY <1>2 DEF Odd

\* The positions of the columns that are one, up to a position.
LitPlaces(f, s, n) == {k \in 1..n : s[k] = 0 \/ f[s[k]]}

\* Counting places of a list is counting its columns.
LEMMA PlacesCount ==
    ASSUME NEW f, NEW s, NEW E, Lists(s, E)
    PROVE  IsFiniteSet(E) /\ Odd(LitPlaces(f, s, Len(s))) = SumOf(f, E)
  <1> DEFINE K == LitPlaces(f, s, Len(s))
             h == [k \in K |-> s[k]]
             d == [k \in 1..Len(s) |-> s[k]]
  <1>1. /\ Len(s) \in Nat
        /\ \A k \in 1..Len(s) : s[k] \in Nat /\ s[k] \in E
        /\ \A e \in E : \E k \in 1..Len(s) : e = s[k]
        /\ \A k, l \in 1..Len(s) : k < l => s[k] < s[l]
    BY ListsBasic
  <1>2. \A k, l \in 1..Len(s) : s[k] = s[l] => k = l
    <2> SUFFICES ASSUME NEW k \in 1..Len(s), NEW l \in 1..Len(s), s[k] = s[l], k # l PROVE FALSE
      OBVIOUS
    <2>1. k < l \/ l < k
      BY <1>1
    <2>2. s[k] < s[l] \/ s[l] < s[k]
      BY <1>1, <2>1
    <2>3. s[k] \in Nat /\ s[l] \in Nat
      BY <1>1
    <2>. QED
      BY <2>2, <2>3
  <1>3. IsFiniteSet(1..Len(s))
    BY <1>1, FS_Interval
  <1>4. IsFiniteSet(E)
    <2>1. d \in Surjection(1..Len(s), E)
      BY <1>1 DEF Surjection
    <2>. QED
      BY <1>3, <2>1, FS_Surjection
  <1>5. IsFiniteSet(K)
    <2>1. K \in SUBSET (1..Len(s))
      BY DEF LitPlaces
    <2>. QED
      BY <1>3, <2>1, FS_Subset
  <1>6. h \in [K -> Lit(f, E)]
    BY <1>1 DEF LitPlaces, Lit
  <1>7. \A a, b \in K : h[a] = h[b] => a = b
    BY <1>2 DEF LitPlaces
  <1>8. \A t \in Lit(f, E) : \E a \in K : h[a] = t
    BY <1>1 DEF LitPlaces, Lit
  <1> HIDE DEF K, h
  <1>9. Odd(Lit(f, E)) = Odd(K)
    BY <1>5, <1>6, <1>7, <1>8, OddImage
  <1>. QED
    BY <1>4, <1>9 DEF SumOf, K

\* One column after the other, the same.
LEMMA RowSum ==
    ASSUME NEW f, NEW s, NEW E, Lists(s, E), NEW values,
           \A e \in E : e # 0 => values[e - 1] = f[e]
    PROVE  RowValue(s, values) = SumOf(f, E)
  <1> DEFINE n == Len(s)
             one(k) == s[k] = 0 \/ values[s[k] - 1]
  <1>1. n \in Nat /\ DOMAIN s = 1..n /\ \A k \in 1..n : s[k] \in E
    BY ListsBasic
  <1>2. PICK h : RowPath(h, n, s, values)
    BY <1>1, RowValuePath
  <1>3. ASSUME NEW k \in 1..n PROVE one(k) = (s[k] = 0 \/ f[s[k]])
    BY <1>1, <1>3
  <1>4. ASSUME NEW k \in 1..n
        PROVE  h[k] = (h[k - 1] # (s[k] = 0 \/ f[s[k]]))
    <2>1. h[k] = (h[k - 1] # one(k))
      BY <1>2 DEF RowPath
    <2> HIDE DEF one
    <2>. QED
      BY <1>3, <2>1
  <1> DEFINE P == {k \in Nat : k <= n => /\ IsFiniteSet(LitPlaces(f, s, k))
                                        /\ h[k] = Odd(LitPlaces(f, s, k))}
  <1>5. 0 \in P
    <2>1. LitPlaces(f, s, 0) = {}
      BY DEF LitPlaces
    <2>2. IsFiniteSet({}) /\ ~Odd({}) /\ Odd({}) \in BOOLEAN
      BY OddEmpty DEF Odd
    <2>. QED
      BY <1>2, <2>1, <2>2 DEF RowPath
  <1>6. ASSUME NEW k \in Nat, k \in P PROVE k + 1 \in P
    <2> SUFFICES ASSUME k + 1 <= n
                 PROVE  /\ IsFiniteSet(LitPlaces(f, s, k + 1))
                        /\ h[k + 1] = Odd(LitPlaces(f, s, k + 1))
      OBVIOUS
    <2> DEFINE S == LitPlaces(f, s, k)
    <2>1. k <= n /\ k + 1 \in 1..n /\ (k + 1) - 1 = k
      BY <1>1
    <2>2. IsFiniteSet(S) /\ h[k] = Odd(S)
      BY <1>6, <2>1
    <2>3. h[k + 1] = (h[k] # (s[k + 1] = 0 \/ f[s[k + 1]]))
      BY <1>4, <2>1
    <2>4. k + 1 \notin S
      BY DEF LitPlaces
    <2>5. \A i : i \in 1 .. k + 1 <=> i \in 1..k \/ i = k + 1
      OBVIOUS
    <2>6. Odd(S) \in BOOLEAN /\ Odd(S \cup {k + 1}) \in BOOLEAN
      BY DEF Odd
    <2>7. IsFiniteSet(S \cup {k + 1}) /\ Odd(S \cup {k + 1}) = ~Odd(S)
      BY <2>2, <2>4, OddNext
    <2>8. CASE s[k + 1] = 0 \/ f[s[k + 1]]
      <3>1. LitPlaces(f, s, k + 1) = S \cup {k + 1}
        BY <2>5, <2>8 DEF LitPlaces
      <3>2. h[k + 1] = ~Odd(S)
        BY <2>2, <2>3, <2>6, <2>8
      <3>. QED
        BY <2>7, <3>1, <3>2
    <2>9. CASE ~(s[k + 1] = 0 \/ f[s[k + 1]])
      <3>1. LitPlaces(f, s, k + 1) = S
        BY <2>5, <2>9 DEF LitPlaces
      <3>2. h[k + 1] = Odd(S)
        BY <2>2, <2>3, <2>6, <2>9
      <3>. QED
        BY <2>2, <3>1, <3>2
    <2>. QED
      BY <2>8, <2>9
  <1> HIDE DEF P
  <1>7. n \in P
    BY <1>1, <1>5, <1>6, SetInduction
  <1>8. h[n] = Odd(LitPlaces(f, s, n))
    BY <1>1, <1>7 DEF P
  <1>. QED
    BY <1>2, <1>8, PlacesCount DEF RowPath

-----------------------------------------------------------------------------
(***************************************************************************)
(* Packed witnesses.                                                       *)
(***************************************************************************)
\* A witness that holds a string.
Packs(w, s) == s \in Seq(BOOLEAN) /\ w.bit_len = Len(s) /\ w.words = from_array(s).words

\* The witness begins empty.
LEMMA PacksNothing == Packs(EmptyWitness, <<>>)
  <1>1. <<>> \in Seq(BOOLEAN) /\ Len(<<>>) = 0
    OBVIOUS
  <1>2. Ones(<<>>) \in SUBSET (0 .. 0 - 1) /\ from_array(<<>>) = from_fn(0, Ones(<<>>))
    BY <1>1, ArrayOnes
  <1>3. Limbs(0) = 0
    <2>1. ~(0 * WordBits < 0)
      BY WordBitsAssumption
    <2>. QED
      BY <2>1, LimbsCover
  <1>4. from_array(<<>>).words = <<>>
    BY <1>2, <1>3, WordsOf
  <1>. QED
    BY <1>1, <1>4 DEF Packs, EmptyWitness

\* Both ways of extending the witness append the bits.
LEMMA PacksMore ==
    ASSUME NEW w, NEW s, NEW t \in Seq(BOOLEAN), Packs(w, s)
    PROVE  /\ Packs(extend_packed(w, from_array(t)), s \o t)
           /\ Packs(extend(w, t), s \o t)
  <1> DEFINE v == extend_packed(w, from_array(t))
  <1>1. s \in Seq(BOOLEAN) /\ w.bit_len = Len(s) /\ w.words = from_array(s).words
    BY DEF Packs
  <1>2. v.bit_len = Len(s \o t) /\ v.words = from_array(s \o t).words
    BY <1>1, ExtendStored
  <1>3. s \o t \in Seq(BOOLEAN)
    BY <1>1
  <1>4. Packs(v, s \o t)
    BY <1>2, <1>3 DEF Packs
  <1>. QED
    BY <1>4 DEF extend

\* What is read is what was packed.
LEMMA PacksBits ==
    ASSUME NEW w, NEW s, Packs(w, s), NEW i \in 0 .. Len(s) - 1
    PROVE  bit(w, i) = s[i + 1]
  <1>1. s \in Seq(BOOLEAN) /\ w.words = from_array(s).words
    BY DEF Packs
  <1>2. /\ Len(s) \in Nat /\ Ones(s) \in SUBSET (0 .. Len(s) - 1)
        /\ from_array(s) = from_fn(Len(s), Ones(s)) /\ (i \in Ones(s) <=> s[i + 1])
    BY <1>1, ArrayOnes
  <1>3. bit(w, i) = bit(from_fn(Len(s), Ones(s)), i)
    BY <1>1, <1>2 DEF bit
  <1>4. bit(from_fn(Len(s), Ones(s)), i) <=> i \in Ones(s)
    BY <1>2, BitOf
  <1>5. s[i + 1] \in BOOLEAN /\ bit(w, i) \in BOOLEAN
    <2>1. i + 1 \in 1..Len(s)
      BY <1>2
    <2>. QED
      BY <1>1, <2>1 DEF bit
  <1>. QED
    BY <1>2, <1>3, <1>4, <1>5

-----------------------------------------------------------------------------
(***************************************************************************)
(* One expression on the three backends.                                   *)
(***************************************************************************)
\* A linear combination whose value over a witness is a bit.
RowMeans(f, row, b) ==
    /\ b \in BOOLEAN
    /\ Sorted(row)
    /\ ColumnsOf(row) \subseteq 0..Len(f)
    /\ SumOf(f, ColumnsOf(row)) = b

\* A handle whose columns are a list, in the arena or out of it.
Names(arena, column, s) ==
    /\ column \in Handles
    /\ ~column.arena => column.support = s
    /\ column.arena => /\ s # <<>>
                       /\ \E i \in 1..Len(arena) : column.support = <<i>> /\ arena[i] = s

Expression(f, arena, b, row, column) ==
    RowMeans(f, row, b) /\ Names(arena, column, bool_sparse_row(row))

\* An arena only ever grows at its end.
Grows(arena, more) ==
    /\ Len(arena) \in Nat /\ Len(more) \in Nat /\ Len(arena) <= Len(more)
    /\ \A i \in 1..Len(arena) : more[i] = arena[i]

\* A handle keeps its columns while the arena grows.
LEMMA NamesGrow ==
    ASSUME NEW arena, NEW more, Grows(arena, more), NEW column, NEW s, Names(arena, column, s)
    PROVE  Names(more, column, s)
  <1>1. \A i \in 1..Len(arena) : i \in 1..Len(more) /\ more[i] = arena[i]
    BY DEF Grows
  <1>. QED
    BY <1>1 DEF Names

\* What a handle names is what support reads.
LEMMA NamesSupport ==
    ASSUME NEW r, NEW arena, Stored(r.expression_offsets, r.expression_entries, arena),
           NEW column, NEW s, Names(arena, column, s)
    PROVE  /\ support(r, column) = s
           /\ column.support = <<>> <=> s = <<>>
  <1>1. column.arena \in BOOLEAN
    BY DEF Names, Handles
  <1>2. CASE ~column.arena
    BY <1>2 DEF Names, support
  <1>3. CASE column.arena
    <2>1. PICK i \in 1..Len(arena) : column.support = <<i>> /\ arena[i] = s
      BY <1>3 DEF Names
    <2>2. SubSeq(r.expression_entries, r.expression_offsets[i] + 1, r.expression_offsets[i + 1]) = arena[i]
      BY StoredSlice
    <2>3. column.support[1] = i /\ column.support # <<>>
      BY <2>1
    <2>4. support(r, column) = SubSeq(r.expression_entries, r.expression_offsets[i] + 1,
                                      r.expression_offsets[i + 1])
      BY <1>3, <2>3 DEF support
    <2>5. s # <<>>
      BY <1>3 DEF Names
    <2>. QED
      BY <2>1, <2>2, <2>3, <2>4, <2>5
  <1>. QED
    BY <1>1, <1>2, <1>3

\* A linear combination is stored as the list of its columns.
LEMMA RowMeansColumns ==
    ASSUME NEW f, NEW row, NEW b, RowMeans(f, row, b)
    PROVE  /\ Lists(bool_sparse_row(row), ColumnsOf(row))
           /\ IsFiniteSet(ColumnsOf(row))
           /\ bool_sparse_row(row) \in Seq(Nat)
  <1>1. Lists(bool_sparse_row(row), ColumnsOf(row))
    BY SparseRowLists DEF RowMeans
  <1>. QED
    BY <1>1, PlacesCount, ListsBasic

\* More bits change no value.
LEMMA RowMeansLonger ==
    ASSUME NEW f \in Seq(BOOLEAN), NEW g \in Seq(BOOLEAN), NEW row, NEW b, RowMeans(f, row, b)
    PROVE  RowMeans(f \o g, row, b)
  <1>1. Len(f) \in Nat /\ Len(f \o g) \in Nat /\ Len(f) <= Len(f \o g)
    OBVIOUS
  <1>2. ColumnsOf(row) \in SUBSET (0..Len(f))
    BY DEF RowMeans
  <1>3. SumOf(f \o g, ColumnsOf(row)) = SumOf(f, ColumnsOf(row))
    BY <1>2, SumLonger
  <1>4. ColumnsOf(row) \subseteq 0..Len(f \o g)
    BY <1>1, <1>2
  <1>. QED
    BY <1>3, <1>4 DEF RowMeans

\* A constant and a bit of the witness, as every backend writes them.
LEMMA ConstantExpression ==
    ASSUME NEW f \in Seq(BOOLEAN), NEW arena, NEW v \in BOOLEAN
    PROVE  Expression(f, arena, v, bool_constant(v), constant(v))
  <1> DEFINE row == bool_constant(v)
             E == IF v THEN {0} ELSE {}
             s == IF v THEN <<0>> ELSE <<>>
  <1>1. row.constant = v /\ row.witnesses = <<>>
          /\ row = [constant |-> row.constant, witnesses |-> row.witnesses]
    BY DEF bool_constant
  <1>2. {row.witnesses[k] : k \in 1..Len(row.witnesses)} = {}
    BY <1>1
  <1>3. Lists(<<>>, {})
    BY DEF Lists
  <1>4. Sorted(row)
    BY <1>1, <1>2, <1>3 DEF Sorted
  <1>5. ColumnsOf(row) = E
    BY <1>1, <1>2 DEF ColumnsOf
  <1>6. bool_sparse_row(row) = s
    <2>1. [k \in DOMAIN row.witnesses |-> row.witnesses[k] + 1] = <<>>
      BY <1>1
    <2>2. <<>> \o <<>> = <<>> /\ <<0>> \o <<>> = <<0>>
      OBVIOUS
    <2>. QED
      BY <1>1, <2>1, <2>2 DEF bool_sparse_row
  <1>7. SumOf(f, E) = v
    <2>1. ~SumOf(f, {}) /\ SumOf(f, {0})
      BY SumFirst
    <2>2. SumOf(f, {}) \in BOOLEAN /\ SumOf(f, {0}) \in BOOLEAN
      BY DEF SumOf, Odd
    <2>. QED
      BY <2>1, <2>2
  <1>8. E \subseteq 0..Len(f)
    OBVIOUS
  <1>9. RowMeans(f, row, v)
    BY <1>4, <1>5, <1>7, <1>8 DEF RowMeans
  <1>10. constant(v).support = s /\ constant(v).arena = FALSE /\ constant(v) \in Handles
    BY DEF constant, Handles
  <1>11. Names(arena, constant(v), s)
    BY <1>10 DEF Names
  <1>. QED
    BY <1>6, <1>9, <1>11 DEF Expression

\* A bit of the witness on the three backends.
LEMMA WitnessExpression ==
    ASSUME NEW f \in Seq(BOOLEAN), NEW arena, NEW i \in Nat, i < Len(f)
    PROVE  Expression(f, arena, f[i + 1], bool_witness(i), witness_bit(i))
  <1> DEFINE row == bool_witness(i)
  <1>1. row.constant = FALSE /\ row.witnesses = <<i>>
          /\ row = [constant |-> row.constant, witnesses |-> row.witnesses]
    BY DEF bool_witness
  <1>2. {row.witnesses[k] : k \in 1..Len(row.witnesses)} = {i}
    BY <1>1
  <1>3. Lists(<<i>>, {i})
    BY DEF Lists
  <1>4. Sorted(row)
    BY <1>1, <1>2, <1>3 DEF Sorted
  <1>5. ColumnsOf(row) = {i + 1}
    BY <1>1, <1>2 DEF ColumnsOf
  <1>6. bool_sparse_row(row) = <<i + 1>>
    <2>1. [k \in DOMAIN row.witnesses |-> row.witnesses[k] + 1] = <<i + 1>>
      BY <1>1
    <2>2. <<>> \o <<i + 1>> = <<i + 1>>
      OBVIOUS
    <2>. QED
      BY <1>1, <2>1, <2>2 DEF bool_sparse_row
  <1>7. i + 1 \in 1..Len(f) /\ i + 1 \in Nat \ {0} /\ f[i + 1] \in BOOLEAN
    OBVIOUS
  <1>8. SumOf(f, {i + 1}) = f[i + 1]
    BY <1>7, SumFirst
  <1>9. RowMeans(f, row, f[i + 1])
    BY <1>4, <1>5, <1>7, <1>8 DEF RowMeans
  <1>10. /\ witness_bit(i).support = <<i + 1>> /\ witness_bit(i).arena = FALSE
         /\ witness_bit(i) \in Handles
    BY DEF witness_bit, Handles
  <1>11. Names(arena, witness_bit(i), <<i + 1>>)
    BY <1>10 DEF Names
  <1>. QED
    BY <1>6, <1>9, <1>11 DEF Expression

\* The sum of two linear combinations has the sum of their values.
LEMMA RowMeansXor ==
    ASSUME NEW f, NEW a, NEW b, NEW v, NEW w, RowMeans(f, a, v), RowMeans(f, b, w)
    PROVE  RowMeans(f, bool_xor(a, b), v # w)
  <1>1. Sorted(a) /\ Sorted(b) /\ v \in BOOLEAN /\ w \in BOOLEAN
    BY DEF RowMeans
  <1>2. Sorted(bool_xor(a, b)) /\ ColumnsOf(bool_xor(a, b)) = Plus(ColumnsOf(a), ColumnsOf(b))
    BY <1>1, XorColumns
  <1>3. IsFiniteSet(ColumnsOf(a)) /\ IsFiniteSet(ColumnsOf(b))
    BY RowMeansColumns
  <1>4. SumOf(f, Plus(ColumnsOf(a), ColumnsOf(b))) = (SumOf(f, ColumnsOf(a)) # SumOf(f, ColumnsOf(b)))
    BY <1>3, SumPlus
  <1>5. SumOf(f, ColumnsOf(a)) = v /\ SumOf(f, ColumnsOf(b)) = w
    BY DEF RowMeans
  <1>6. SumOf(f, ColumnsOf(bool_xor(a, b))) = (v # w)
    BY <1>2, <1>4, <1>5
  <1>7. ColumnsOf(a) \subseteq 0..Len(f) /\ ColumnsOf(b) \subseteq 0..Len(f)
    BY DEF RowMeans
  <1>8. ColumnsOf(bool_xor(a, b)) \subseteq 0..Len(f)
    BY <1>2, <1>7 DEF Plus
  <1>9. (v # w) \in BOOLEAN
    OBVIOUS
  <1>. QED
    BY <1>2, <1>6, <1>8, <1>9 DEF RowMeans

\* One recorder goes on as another where rows and bits are concerned.
SameRows(q, r) ==
    /\ q \in Recorders
    /\ q.witness_count = r.witness_count
    /\ q.row_offsets = r.row_offsets /\ q.column_indices = r.column_indices

\* A bit that was made names a list, in an arena that may have grown.
Made(made, r, arena, s) ==
    \E more : /\ Grows(arena, more)
              /\ SameRows(made.recorder, r)
              /\ Stored(made.recorder.expression_offsets, made.recorder.expression_entries, more)
              /\ Names(more, made.bit, s)

\* bit_from_support makes a handle of the columns it is given.
LEMMA FromSupport ==
    ASSUME NEW r \in Recorders, NEW arena, Stored(r.expression_offsets, r.expression_entries, arena),
           NEW s \in Seq(Nat)
    PROVE  Made(bit_from_support(r, s), r, arena, s)
  <1> DEFINE made == bit_from_support(r, s)
             first == s # <<>> /\ s[1] = 0
  <1>1. Len(arena) \in Nat /\ arena \in Seq(Seq(Nat)) /\ Len(r.expression_offsets) = Len(arena) + 1
    BY DEF Stored
  <1>2. Len(s) \in Nat /\ InlineSupport \in Nat \ {0}
    BY InlineAssumption
  <1>3. first \in BOOLEAN
    OBVIOUS
  <1>4. CASE Len(s) <= InlineSupport
    <2>1. made = [recorder |-> r, bit |-> [constant_term |-> first, arena |-> FALSE, support |-> s]]
      BY <1>4 DEF bit_from_support
    <2>2. made.recorder = r
      BY <2>1
    <2>3. made.bit \in Handles /\ made.bit.arena = FALSE /\ made.bit.support = s
      <3> HIDE DEF first
      <3>. QED
        BY <1>3, <2>1 DEF Handles
    <2>4. Names(arena, made.bit, s)
      BY <2>3 DEF Names
    <2>5. Grows(arena, arena)
      BY <1>1 DEF Grows
    <2>6. SameRows(made.recorder, r)
      BY <2>2 DEF SameRows
    <2> HIDE DEF made
    <2>. QED
      BY <2>2, <2>4, <2>5, <2>6 DEF made, Made
  <1>5. CASE ~(Len(s) <= InlineSupport)
    <2> DEFINE more == Append(arena, s)
               entries == r.expression_entries \o s
               offsets == Append(r.expression_offsets, Len(entries))
               q == [r EXCEPT !.expression_entries = entries, !.expression_offsets = offsets]
               h == [constant_term |-> first, arena |-> TRUE, support |-> <<Len(r.expression_offsets)>>]
    <2>1. made = [recorder |-> q, bit |-> h]
      BY <1>5 DEF bit_from_support
    <2>2. made.recorder = q /\ made.bit = h
      BY <2>1
    <2>3. PICK a, b, d, e, f : r = [witness_count |-> a, expression_offsets |-> b,
                                    expression_entries |-> d, row_offsets |-> e,
                                    column_indices |-> f]
      BY Fields
    <2>4. a \in Nat /\ b \in Seq(Nat) /\ d \in Seq(Nat) /\ e \in Seq(Nat) /\ f \in Seq(Nat)
      BY <2>3, Fields
    <2>5. entries \in Seq(Nat) /\ Len(entries) \in Nat /\ offsets \in Seq(Nat)
      <3>1. entries \in Seq(Nat)
        BY <2>3, <2>4
      <3>2. Len(entries) \in Nat
        BY <3>1
      <3>3. r.expression_offsets \in Seq(Nat)
        BY Fields
      <3> HIDE DEF entries
      <3>. QED
        BY <3>1, <3>2, <3>3
    <2> HIDE DEF entries, offsets
    <2>6. q = [witness_count |-> a, expression_offsets |-> offsets, expression_entries |-> entries,
               row_offsets |-> e, column_indices |-> f]
      <3> DEFINE p == [r EXCEPT !.expression_entries = entries]
      <3>1. p = [witness_count |-> a, expression_offsets |-> b, expression_entries |-> entries,
                 row_offsets |-> e, column_indices |-> f]
        BY <2>3
      <3>2. q = [p EXCEPT !.expression_offsets = offsets]
        OBVIOUS
      <3> HIDE DEF p, q
      <3>. QED
        BY <3>1, <3>2
    <2>7. q \in Recorders
      BY <2>4, <2>5, <2>6 DEF Recorders
    <2>8. q.expression_offsets = offsets /\ q.expression_entries = entries
      BY <2>6
    <2>9. q.witness_count = r.witness_count
      BY <2>3, <2>6
    <2>10. q.row_offsets = r.row_offsets
      BY <2>3, <2>6
    <2>11. q.column_indices = r.column_indices
      BY <2>3, <2>6
    <2> HIDE DEF q
    <2>12. SameRows(q, r)
      BY <2>7, <2>9, <2>10, <2>11 DEF SameRows
    <2>13. Stored(offsets, entries, more)
      BY StoredAppend DEF offsets, entries
    <2>14. Len(more) = Len(arena) + 1 /\ more[Len(arena) + 1] = s
           /\ \A i \in 1..Len(arena) : more[i] = arena[i]
      BY <1>1
    <2> HIDE DEF more
    <2>15. Grows(arena, more)
      BY <1>1, <2>14 DEF Grows
    <2>16. h.arena = TRUE /\ h.support = <<Len(arena) + 1>> /\ h \in Handles
      <3>1. <<Len(arena) + 1>> \in Seq(Nat)
        BY <1>1
      <3> HIDE DEF first
      <3>. QED
        BY <1>1, <1>3, <3>1 DEF Handles
    <2> HIDE DEF h
    <2>17. s # <<>>
      BY <1>2, <1>5
    <2>18. Len(arena) + 1 \in 1..Len(more)
      BY <1>1, <2>14
    <2>19. Names(more, h, s)
      BY <2>14, <2>16, <2>17, <2>18 DEF Names
    <2> HIDE DEF made
    <2>. QED
      BY <2>2, <2>8, <2>12, <2>13, <2>15, <2>19 DEF made, Made
  <1>. QED
    BY <1>4, <1>5

\* xor gives the sum on all three backends at once.
LEMMA XorExpression ==
    ASSUME NEW r \in Recorders, NEW arena, Stored(r.expression_offsets, r.expression_entries, arena),
           NEW f, NEW a, NEW b, NEW v, NEW w, NEW lhs, NEW rhs,
           Expression(f, arena, v, a, lhs), Expression(f, arena, w, b, rhs)
    PROVE  LET sum == matrix_xor(r, lhs, rhs)
           IN  \E more : /\ Grows(arena, more)
                         /\ SameRows(sum.recorder, r)
                         /\ Stored(sum.recorder.expression_offsets,
                                   sum.recorder.expression_entries, more)
                         /\ Expression(f, more, v # w, bool_xor(a, b), sum.bit)
  <1> DEFINE sum == matrix_xor(r, lhs, rhs)
             s == bool_sparse_row(a)
             t == bool_sparse_row(b)
             u == bool_sparse_row(bool_xor(a, b))
             A == ColumnsOf(a)
             B == ColumnsOf(b)
  <1>1. RowMeans(f, a, v) /\ RowMeans(f, b, w) /\ Names(arena, lhs, s) /\ Names(arena, rhs, t)
    BY DEF Expression
  <1>2. RowMeans(f, bool_xor(a, b), v # w)
    BY <1>1, RowMeansXor
  <1>3. Lists(s, A) /\ Lists(t, B)
    BY <1>1, RowMeansColumns
  <1>4. Lists(u, Plus(A, B)) /\ u \in Seq(Nat)
    <2>1. Lists(u, ColumnsOf(bool_xor(a, b))) /\ u \in Seq(Nat)
      BY <1>2, RowMeansColumns
    <2>2. ColumnsOf(bool_xor(a, b)) = Plus(A, B)
      BY <1>1, XorColumns DEF RowMeans
    <2>. QED
      BY <2>1, <2>2
  <1>5. /\ support(r, lhs) = s /\ (lhs.support = <<>> <=> s = <<>>)
        /\ support(r, rhs) = t /\ (rhs.support = <<>> <=> t = <<>>)
    BY <1>1, NamesSupport
  <1>6. Grows(arena, arena) /\ SameRows(r, r)
    <2>1. Len(arena) \in Nat
      BY DEF Stored
    <2>. QED
      BY <2>1 DEF Grows, SameRows
  <1> HIDE DEF s, t, u, A, B
  <1>7. ASSUME lhs.support = <<>> PROVE Made(sum, r, arena, u)
    <2>1. sum.recorder = r /\ sum.bit = rhs
      BY <1>7 DEF matrix_xor
    <2>2. A = {}
      BY <1>3, <1>5, <1>7, ListsEmpty
    <2>3. Plus(A, B) = B
      BY <2>2 DEF Plus
    <2>4. u = t
      BY <1>3, <1>4, <2>3, ListsOnce
    <2> HIDE DEF sum
    <2>. QED
      BY <1>1, <1>6, <2>1, <2>4 DEF Made
  <1>8. ASSUME lhs.support # <<>> /\ rhs.support = <<>> PROVE Made(sum, r, arena, u)
    <2>1. sum.recorder = r /\ sum.bit = lhs
      BY <1>8 DEF matrix_xor
    <2>2. B = {}
      BY <1>3, <1>5, <1>8, ListsEmpty
    <2>3. Plus(A, B) = A
      BY <2>2 DEF Plus
    <2>4. u = s
      BY <1>3, <1>4, <2>3, ListsOnce
    <2> HIDE DEF sum
    <2>. QED
      BY <1>1, <1>6, <2>1, <2>4 DEF Made
  <1>9. ASSUME lhs.support # <<>> /\ rhs.support # <<>> PROVE Made(sum, r, arena, u)
    <2>1. sum = bit_from_support(r, symmetric_difference(s, t))
      BY <1>5, <1>9 DEF matrix_xor
    <2>2. Lists(symmetric_difference(s, t), Plus(A, B))
      BY <1>3, SymmetricDifference
    <2>3. symmetric_difference(s, t) = u
      BY <1>4, <2>2, ListsOnce
    <2>4. sum = bit_from_support(r, u)
      BY <2>1, <2>3
    <2> HIDE DEF sum
    <2>. QED
      BY <1>4, <2>4, FromSupport
  <1>10. Made(sum, r, arena, u)
    BY <1>7, <1>8, <1>9
  <1> HIDE DEF sum
  <1>11. PICK more : /\ Grows(arena, more)
                     /\ SameRows(sum.recorder, r)
                     /\ Stored(sum.recorder.expression_offsets,
                               sum.recorder.expression_entries, more)
                     /\ Names(more, sum.bit, u)
    BY <1>10 DEF Made
  <1>12. Expression(f, more, v # w, bool_xor(a, b), sum.bit)
    BY <1>2, <1>11 DEF Expression, u
  <1>. QED
    BY <1>11, <1>12 DEF sum

-----------------------------------------------------------------------------
(***************************************************************************)
(* The expressions made, and the rows pushed.                              *)
(***************************************************************************)
Combinations == [constant : BOOLEAN, witnesses : Seq(Nat)]

\* What the backends keep of the expressions made so far, one by one.
Expressions(f, arena, bs, rs, cs) ==
    /\ bs \in Seq(BOOLEAN) /\ rs \in Seq(Combinations) /\ cs \in Seq(Handles)
    /\ Len(rs) = Len(bs) /\ Len(cs) = Len(bs)
    /\ \A k \in 1..Len(bs) : Expression(f, arena, bs[k], rs[k], cs[k])

\* What the three backends keep of an expression.
LEMMA ExpressionTypes ==
    ASSUME NEW f, NEW arena, NEW b, NEW row, NEW column, Expression(f, arena, b, row, column)
    PROVE  b \in BOOLEAN /\ row \in Combinations /\ column \in Handles
  <1>1. b \in BOOLEAN /\ Sorted(row) /\ column \in Handles
    BY DEF Expression, RowMeans, Names
  <1>2. /\ row = [constant |-> row.constant, witnesses |-> row.witnesses]
        /\ row.constant \in BOOLEAN /\ row.witnesses \in Seq(Nat)
    BY <1>1 DEF Sorted, Lists
  <1>. QED
    BY <1>1, <1>2 DEF Combinations

\* One expression as a sequence.
LEMMA ExpressionsOne ==
    ASSUME NEW f, NEW arena, NEW b, NEW row, NEW column, Expression(f, arena, b, row, column)
    PROVE  Expressions(f, arena, <<b>>, <<row>>, <<column>>)
  <1>1. b \in BOOLEAN /\ row \in Combinations /\ column \in Handles
    BY ExpressionTypes
  <1>2. <<b>> \in Seq(BOOLEAN) /\ <<row>> \in Seq(Combinations) /\ <<column>> \in Seq(Handles)
    BY <1>1
  <1>3. ASSUME NEW k \in 1..Len(<<b>>)
        PROVE  Expression(f, arena, <<b>>[k], <<row>>[k], <<column>>[k])
    <2>1. k = 1
      OBVIOUS
    <2>. QED
      BY <2>1
  <1>. QED
    BY <1>2, <1>3 DEF Expressions

\* Sequences with the same entries.
LEMMA SameEntries ==
    ASSUME NEW A, NEW s \in Seq(A), NEW t \in Seq(A), Len(s) = Len(t),
           \A k \in 1..Len(s) : s[k] = t[k]
    PROVE  s = t
  <1>1. DOMAIN s = 1..Len(s) /\ DOMAIN t = 1..Len(s)
    OBVIOUS
  <1>2. s = [k \in DOMAIN s |-> s[k]] /\ t = [k \in DOMAIN t |-> t[k]]
    OBVIOUS
  <1>. QED
    BY <1>1, <1>2

\* Where an entry of a concatenation comes from.
Joins(A, s, t) ==
    /\ s \o t \in Seq(A) /\ Len(s \o t) = Len(s) + Len(t)
    /\ Len(s) \in Nat /\ Len(t) \in Nat
    /\ \A k \in 1..Len(s) : k \in 1..Len(s \o t) /\ (s \o t)[k] = s[k]
    /\ \A k \in 1..Len(t) : Len(s) + k \in 1..Len(s \o t) /\ (s \o t)[Len(s) + k] = t[k]
    /\ \A k \in 1..Len(s \o t) : k \in 1..Len(s) \/ \E l \in 1..Len(t) : k = Len(s) + l

\* The entries of two sequences joined.
LEMMA ConcatAt ==
    ASSUME NEW A, NEW s \in Seq(A), NEW t \in Seq(A)
    PROVE  Joins(A, s, t)
  <1>1. s \o t \in Seq(A) /\ Len(s \o t) = Len(s) + Len(t) /\ Len(s) \in Nat /\ Len(t) \in Nat
    OBVIOUS
  <1>2. \A k \in 1..Len(s) : k \in 1..Len(s \o t) /\ (s \o t)[k] = s[k]
    OBVIOUS
  <1>3. \A k \in 1..Len(t) : Len(s) + k \in 1..Len(s \o t) /\ (s \o t)[Len(s) + k] = t[k]
    OBVIOUS
  <1>4. ASSUME NEW k \in 1..Len(s \o t), k \notin 1..Len(s)
        PROVE  \E l \in 1..Len(t) : k = Len(s) + l
    <2>1. k - Len(s) \in 1..Len(t) /\ k = Len(s) + (k - Len(s))
      BY <1>1, <1>4
    <2>. QED
      BY <2>1
  <1>. QED
    BY <1>1, <1>2, <1>3, <1>4 DEF Joins

\* Expressions after expressions.
LEMMA ExpressionsConcat ==
    ASSUME NEW f, NEW arena, NEW bs, NEW rs, NEW cs, Expressions(f, arena, bs, rs, cs),
           NEW ds, NEW ss, NEW es, Expressions(f, arena, ds, ss, es)
    PROVE  Expressions(f, arena, bs \o ds, rs \o ss, cs \o es)
  <1>1. /\ bs \in Seq(BOOLEAN) /\ rs \in Seq(Combinations) /\ cs \in Seq(Handles)
        /\ Len(rs) = Len(bs) /\ Len(cs) = Len(bs)
        /\ ds \in Seq(BOOLEAN) /\ ss \in Seq(Combinations) /\ es \in Seq(Handles)
        /\ Len(ss) = Len(ds) /\ Len(es) = Len(ds)
    BY DEF Expressions
  <1>2. /\ \A k \in 1..Len(bs) : Expression(f, arena, bs[k], rs[k], cs[k])
        /\ \A k \in 1..Len(ds) : Expression(f, arena, ds[k], ss[k], es[k])
    BY DEF Expressions
  <1>3. /\ bs \o ds \in Seq(BOOLEAN) /\ Len(bs \o ds) = Len(bs) + Len(ds)
        /\ \A k \in 1..Len(bs) : (bs \o ds)[k] = bs[k]
        /\ \A k \in 1..Len(ds) : (bs \o ds)[Len(bs) + k] = ds[k]
        /\ \A k \in 1..Len(bs \o ds) : k \in 1..Len(bs) \/ \E l \in 1..Len(ds) : k = Len(bs) + l
    <2>1. Joins(BOOLEAN, bs, ds)
      BY <1>1, ConcatAt
    <2>. QED
      BY <1>1, <2>1 DEF Joins
  <1>4. /\ rs \o ss \in Seq(Combinations) /\ Len(rs \o ss) = Len(bs) + Len(ds)
        /\ \A k \in 1..Len(bs) : (rs \o ss)[k] = rs[k]
        /\ \A k \in 1..Len(ds) : (rs \o ss)[Len(bs) + k] = ss[k]
    <2>1. Joins(Combinations, rs, ss)
      BY <1>1, ConcatAt
    <2>. QED
      BY <1>1, <2>1 DEF Joins
  <1>5. /\ cs \o es \in Seq(Handles) /\ Len(cs \o es) = Len(bs) + Len(ds)
        /\ \A k \in 1..Len(bs) : (cs \o es)[k] = cs[k]
        /\ \A k \in 1..Len(ds) : (cs \o es)[Len(bs) + k] = es[k]
    <2>1. Joins(Handles, cs, es)
      BY <1>1, ConcatAt
    <2>. QED
      BY <1>1, <2>1 DEF Joins
  <1>6. ASSUME NEW k \in 1..Len(bs \o ds)
        PROVE  Expression(f, arena, (bs \o ds)[k], (rs \o ss)[k], (cs \o es)[k])
    <2>1. CASE k \in 1..Len(bs)
      BY <1>2, <1>3, <1>4, <1>5, <2>1
    <2>2. CASE \E l \in 1..Len(ds) : k = Len(bs) + l
      <3>1. PICK l \in 1..Len(ds) : k = Len(bs) + l
        BY <2>2
      <3>. QED
        BY <1>2, <1>3, <1>4, <1>5, <3>1
    <2>. QED
      BY <1>3, <2>1, <2>2
  <1>. QED
    BY <1>3, <1>4, <1>5, <1>6 DEF Expressions

\* Expressions stay true when the arena or the witness grows.
LEMMA ExpressionsStay ==
    ASSUME NEW f \in Seq(BOOLEAN), NEW g \in Seq(BOOLEAN), NEW arena, NEW more, Grows(arena, more),
           NEW bs, NEW rs, NEW cs, Expressions(f, arena, bs, rs, cs)
    PROVE  Expressions(f, more, bs, rs, cs) /\ Expressions(f \o g, arena, bs, rs, cs)
  <1>1. ASSUME NEW b, NEW row, NEW column, Expression(f, arena, b, row, column)
        PROVE  Expression(f, more, b, row, column) /\ Expression(f \o g, arena, b, row, column)
    <2>1. RowMeans(f, row, b) /\ Names(arena, column, bool_sparse_row(row))
      BY <1>1 DEF Expression
    <2>2. RowMeans(f \o g, row, b)
      BY <2>1, RowMeansLonger
    <2>3. Names(more, column, bool_sparse_row(row))
      BY <2>1, NamesGrow
    <2>. QED
      BY <2>1, <2>2, <2>3 DEF Expression
  <1>. QED
    BY <1>1 DEF Expressions

\* The bits of a hint on the three backends.
LEMMA HintExpressions ==
    ASSUME NEW f \in Seq(BOOLEAN), NEW g \in Seq(BOOLEAN), NEW arena, NEW n \in Nat, Len(g) = n
    PROVE  Expressions(f \o g, arena, g, [k \in 1..n |-> bool_witness(Len(f) + k - 1)],
                       [k \in 1..n |-> witness_bit(Len(f) + k - 1)])
  <1> DEFINE u == f \o g
             rs == [k \in 1..n |-> bool_witness(Len(f) + k - 1)]
             cs == [k \in 1..n |-> witness_bit(Len(f) + k - 1)]
  <1>1. /\ u \in Seq(BOOLEAN) /\ Len(u) = Len(f) + n /\ Len(f) \in Nat
        /\ \A k \in 1..n : u[Len(f) + k] = g[k]
    <2>1. Joins(BOOLEAN, f, g)
      BY ConcatAt
    <2>. QED
      BY <2>1 DEF Joins
  <1>2. ASSUME NEW k \in 1..n
        PROVE  Expression(u, arena, g[k], bool_witness(Len(f) + k - 1), witness_bit(Len(f) + k - 1))
    <2> DEFINE i == Len(f) + k - 1
    <2>1. i \in Nat /\ i < Len(u) /\ i + 1 = Len(f) + k
      BY <1>1
    <2>2. u[i + 1] = g[k]
      BY <1>1, <2>1
    <2> HIDE DEF i, u
    <2>3. Expression(u, arena, u[i + 1], bool_witness(i), witness_bit(i))
      BY <1>1, <2>1, WitnessExpression
    <2>. QED
      BY <2>2, <2>3 DEF i
  <1>3. \A k \in 1..n : bool_witness(Len(f) + k - 1) \in Combinations
          /\ witness_bit(Len(f) + k - 1) \in Handles
    BY <1>2, ExpressionTypes
  <1>4. rs \in Seq(Combinations) /\ Len(rs) = n /\ cs \in Seq(Handles) /\ Len(cs) = n
    <2>1. rs \in [1..n -> Combinations] /\ cs \in [1..n -> Handles]
      BY <1>3
    <2> HIDE DEF rs, cs
    <2>2. \A A, q : q \in [1..n -> A] => q \in Seq(A) /\ Len(q) = n
      OBVIOUS
    <2>. QED
      BY <2>1, <2>2
  <1>5. \A k \in 1..n : rs[k] = bool_witness(Len(f) + k - 1) /\ cs[k] = witness_bit(Len(f) + k - 1)
    OBVIOUS
  <1> HIDE DEF rs, cs, u
  <1>6. \A k \in 1..n : Expression(u, arena, g[k], rs[k], cs[k])
    BY <1>2, <1>5
  <1>7. Expressions(u, arena, g, rs, cs)
    BY <1>4, <1>6 DEF Expressions
  <1>. QED
    BY <1>7 DEF u, rs, cs

\* The rows of M and the bits they give; row one is the constant.
Images(f, ms, h) ==
    /\ ms \in Seq(Combinations) /\ h \in Seq(BOOLEAN)
    /\ Len(h) = Len(ms) + 1 /\ h[1] = TRUE
    /\ \A r \in 1..Len(ms) : RowMeans(f, ms[r], h[r + 1])

\* Rows stay true when the witness grows.
LEMMA ImagesLonger ==
    ASSUME NEW f \in Seq(BOOLEAN), NEW g \in Seq(BOOLEAN), NEW ms, NEW h, Images(f, ms, h)
    PROVE  Images(f \o g, ms, h)
  <1>1. \A r \in 1..Len(ms) : RowMeans(f \o g, ms[r], h[r + 1])
    BY RowMeansLonger DEF Images
  <1>. QED
    BY <1>1 DEF Images

\* Rows after rows.
LEMMA ImagesConcat ==
    ASSUME NEW f, NEW ms, NEW h, Images(f, ms, h), NEW rs \in Seq(Combinations),
           NEW bs \in Seq(BOOLEAN), Len(rs) = Len(bs),
           \A k \in 1..Len(bs) : RowMeans(f, rs[k], bs[k])
    PROVE  Images(f, ms \o rs, h \o bs)
  <1> DEFINE n == Len(ms)
             m == Len(bs)
  <1>1. /\ ms \in Seq(Combinations) /\ h \in Seq(BOOLEAN) /\ Len(h) = n + 1 /\ n \in Nat /\ m \in Nat
        /\ h[1] = TRUE /\ \A r \in 1..n : RowMeans(f, ms[r], h[r + 1])
    BY DEF Images
  <1>2. /\ ms \o rs \in Seq(Combinations) /\ Len(ms \o rs) = n + m
        /\ \A k \in 1..n : (ms \o rs)[k] = ms[k]
        /\ \A k \in 1..m : (ms \o rs)[n + k] = rs[k]
        /\ \A k \in 1..Len(ms \o rs) : k \in 1..n \/ \E l \in 1..m : k = n + l
    <2>1. Joins(Combinations, ms, rs)
      BY <1>1, ConcatAt
    <2>. QED
      BY <1>1, <2>1 DEF Joins
  <1>3. /\ h \o bs \in Seq(BOOLEAN) /\ Len(h \o bs) = n + 1 + m
        /\ \A k \in 1 .. n + 1 : (h \o bs)[k] = h[k]
        /\ \A k \in 1..m : (h \o bs)[n + 1 + k] = bs[k]
    <2>1. Joins(BOOLEAN, h, bs)
      BY <1>1, ConcatAt
    <2>. QED
      BY <1>1, <2>1 DEF Joins
  <1>4. (h \o bs)[1] = TRUE
    BY <1>1, <1>3
  <1>5. ASSUME NEW r \in 1..Len(ms \o rs) PROVE RowMeans(f, (ms \o rs)[r], (h \o bs)[r + 1])
    <2>1. CASE r \in 1..n
      <3>1. r + 1 \in 1 .. n + 1
        BY <1>1, <2>1
      <3>. QED
        BY <1>1, <1>2, <1>3, <2>1, <3>1
    <2>2. CASE \E l \in 1..m : r = n + l
      <3>1. PICK l \in 1..m : r = n + l
        BY <2>2
      <3>2. r + 1 = n + 1 + l
        BY <1>1, <3>1
      <3>3. (ms \o rs)[r] = rs[l] /\ (h \o bs)[r + 1] = bs[l]
        BY <1>2, <1>3, <3>1, <3>2
      <3>. QED
        BY <3>3
    <2>. QED
      BY <1>2, <2>1, <2>2
  <1>6. Len(h \o bs) = Len(ms \o rs) + 1
    BY <1>1, <1>2, <1>3
  <1>. QED
    BY <1>2, <1>3, <1>4, <1>5, <1>6 DEF Images

\* The rows as they are stored.
RowsOf(ms) == <<<<0>>>> \o [k \in DOMAIN ms |-> bool_sparse_row(ms[k])]

\* The stored rows of rows after rows.
LEMMA RowsOfConcat ==
    ASSUME NEW ms \in Seq(Combinations), NEW rs \in Seq(Combinations), NEW n \in Nat, Len(rs) = n,
           \A k \in 1..Len(ms) : bool_sparse_row(ms[k]) \in Seq(Nat),
           \A k \in 1..n : bool_sparse_row(rs[k]) \in Seq(Nat)
    PROVE  RowsOf(ms \o rs) = RowsOf(ms) \o [k \in 1..n |-> bool_sparse_row(rs[k])]
  <1> DEFINE S(q) == [k \in DOMAIN q |-> bool_sparse_row(q[k])]
             A == Seq(Nat)
             u == ms \o rs
             t == [k \in 1..n |-> bool_sparse_row(rs[k])]
  <1>1. /\ u \in Seq(Combinations) /\ Len(u) = Len(ms) + n /\ Len(ms) \in Nat
        /\ \A k \in 1..Len(ms) : u[k] = ms[k]
        /\ \A k \in 1..n : u[Len(ms) + k] = rs[k]
        /\ \A k \in 1..Len(u) : k \in 1..Len(ms) \/ \E l \in 1..n : k = Len(ms) + l
    <2>1. Joins(Combinations, ms, rs)
      BY ConcatAt
    <2>. QED
      BY <2>1 DEF Joins
  <1> HIDE DEF u
  <1>2. \A k \in 1..Len(u) : bool_sparse_row(u[k]) \in A
    BY <1>1
  <1>3. S(u) \in Seq(A) /\ Len(S(u)) = Len(u) /\ \A k \in 1..Len(u) : S(u)[k] = bool_sparse_row(u[k])
    <2>1. DOMAIN u = 1..Len(u) /\ Len(u) \in Nat
      BY <1>1
    <2>. QED
      BY <1>2, <2>1
  <1>4. S(ms) \in Seq(A) /\ Len(S(ms)) = Len(ms)
          /\ \A k \in 1..Len(ms) : S(ms)[k] = bool_sparse_row(ms[k])
    <2>1. DOMAIN ms = 1..Len(ms)
      OBVIOUS
    <2>. QED
      BY <1>1, <2>1
  <1>5. t \in Seq(A) /\ Len(t) = n /\ \A k \in 1..n : t[k] = bool_sparse_row(rs[k])
    OBVIOUS
  <1> HIDE DEF S, t, A
  <1>6. /\ S(ms) \o t \in Seq(A) /\ Len(S(ms) \o t) = Len(ms) + n
        /\ \A k \in 1..Len(ms) : (S(ms) \o t)[k] = S(ms)[k]
        /\ \A k \in 1..n : (S(ms) \o t)[Len(ms) + k] = t[k]
    <2>1. Joins(A, S(ms), t)
      BY <1>4, <1>5, ConcatAt
    <2>. QED
      BY <1>4, <1>5, <2>1 DEF Joins
  <1>7. ASSUME NEW k \in 1..Len(u) PROVE S(u)[k] = (S(ms) \o t)[k]
    <2>1. CASE k \in 1..Len(ms)
      BY <1>1, <1>3, <1>4, <1>6, <2>1
    <2>2. CASE \E l \in 1..n : k = Len(ms) + l
      <3>1. PICK l \in 1..n : k = Len(ms) + l
        BY <2>2
      <3>2. S(u)[k] = bool_sparse_row(rs[l])
        BY <1>1, <1>3, <3>1
      <3>3. (S(ms) \o t)[k] = bool_sparse_row(rs[l])
        BY <1>5, <1>6, <3>1
      <3>. QED
        BY <3>2, <3>3
    <2>. QED
      BY <1>1, <2>1, <2>2
  <1>8. S(u) = S(ms) \o t
    <2> DEFINE p == S(ms) \o t
    <2>1. p \in Seq(A) /\ Len(p) = Len(S(u)) /\ S(u) \in Seq(A)
      BY <1>1, <1>3, <1>6
    <2> DEFINE v == S(u)
    <2>2. v \in Seq(A) /\ Len(p) = Len(v) /\ \A k \in 1..Len(v) : v[k] = p[k]
      BY <1>3, <1>7, <2>1
    <2> HIDE DEF p, v
    <2>3. v = p
      BY <2>1, <2>2, SameEntries
    <2>. QED
      BY <2>3 DEF p, v
  <1>9. <<<<0>>>> \in Seq(A)
    BY DEF A
  <1>10. \A p, q \in Seq(A) : <<<<0>>>> \o (p \o q) = (<<<<0>>>> \o p) \o q
    BY <1>9
  <1>11. <<<<0>>>> \o (S(ms) \o t) = (<<<<0>>>> \o S(ms)) \o t
    BY <1>4, <1>5, <1>10
  <1>. QED
    BY <1>8, <1>11 DEF RowsOf, S, t, u

-----------------------------------------------------------------------------
(***************************************************************************)
(* The inductive invariant: the witness holds a string f, the integer      *)
(* witness a string h and the recorder an arena, such that every           *)
(* expression means one bit of f on the three backends and every row of M, *)
(* as generated and as stored, gives one bit of h.                         *)
(***************************************************************************)
Weights(n) == [i \in 1..n |-> {i}]

Claimed ==
    /\ csc = {} \/ csc = {finish(recorder)}
    /\ csc = {} => claim = {}
    /\ \A c \in claim : c.asked \in Nat /\ c.got = transpose(finish(recorder), Weights(c.asked))

Agree(f, h, arena) ==
    /\ Packs(witness, f) /\ Packs(integers, h)
    /\ Expressions(f, arena, bits, rows, columns)
    /\ Images(f, generator.m_rows, h)
    /\ generator = [next_boolean_witness |-> Len(f), m_rows |-> generator.m_rows]
    /\ recorder \in Recorders /\ recorder.witness_count = Len(f)
    /\ Stored(recorder.expression_offsets, recorder.expression_entries, arena)
    /\ Stored(recorder.row_offsets, recorder.column_indices, RowsOf(generator.m_rows))
    /\ Claimed

BooleanInv == \E f, h, arena : Agree(f, h, arena)

\* Before any call the constants and the inputs are all there is.
LEMMA InitAgrees == Init => BooleanInv
  <1> SUFFICES ASSUME Init PROVE BooleanInv
    OBVIOUS
  <1> DEFINE n == InputCount
  <1>1. PICK f \in Strings(n) :
            /\ bits = <<FALSE, TRUE>> \o f
            /\ witness = extend(EmptyWitness, f)
            /\ integers = extend(EmptyWitness, <<TRUE>>)
            /\ rows = <<bool_constant(FALSE), bool_constant(TRUE)>>
                        \o [i \in 1..n |-> bool_witness(i - 1)]
            /\ generator = [next_boolean_witness |-> n, m_rows |-> <<>>]
            /\ columns = <<constant(FALSE), constant(TRUE)>> \o [i \in 1..n |-> witness_bit(i - 1)]
            /\ recorder = with_witnesses(n)
            /\ csc = {} /\ claim = {}
    BY DEF Init, InputColumns
  <1>2. n \in Nat /\ f \in Seq(BOOLEAN) /\ Len(f) = n
    BY CircuitAssumption DEF Strings
  <1>3. \A A, s : s \in Seq(A) => <<>> \o s = s
    OBVIOUS
  <1>4. <<TRUE>> \in Seq(BOOLEAN) /\ <<>> \o <<TRUE>> = <<TRUE>> /\ <<>> \o f = f
    BY <1>2
  <1>5. Packs(witness, f)
    <2>1. Packs(extend(EmptyWitness, f), <<>> \o f)
      BY <1>2, PacksNothing, PacksMore
    <2>. QED
      BY <1>1, <1>4, <2>1
  <1>6. Packs(integers, <<TRUE>>)
    <2>1. Packs(extend(EmptyWitness, <<TRUE>>), <<>> \o <<TRUE>>)
      BY <1>4, PacksNothing, PacksMore
    <2>. QED
      BY <1>1, <1>4, <2>1
  <1>7. Expressions(f, <<>>, bits, rows, columns)
    <2> DEFINE rs == [i \in 1..n |-> bool_witness(i - 1)]
               cs == [i \in 1..n |-> witness_bit(i - 1)]
    <2>1. Expressions(f, <<>>, f, rs, cs)
      <3>1. <<>> \in Seq(BOOLEAN) /\ Len(<<>>) = 0
        OBVIOUS
      <3>2. Expressions(<<>> \o f, <<>>, f, [k \in 1..n |-> bool_witness(Len(<<>>) + k - 1)],
                        [k \in 1..n |-> witness_bit(Len(<<>>) + k - 1)])
        BY <1>2, <3>1, HintExpressions
      <3>3. \A k \in 1..n : Len(<<>>) + k - 1 = k - 1
        BY <3>1
      <3>4. /\ [k \in 1..n |-> bool_witness(Len(<<>>) + k - 1)] = rs
            /\ [k \in 1..n |-> witness_bit(Len(<<>>) + k - 1)] = cs
        BY <3>3
      <3> HIDE DEF rs, cs
      <3>. QED
        BY <1>4, <3>2, <3>4
    <2>2. ASSUME NEW v \in BOOLEAN
          PROVE  Expressions(f, <<>>, <<v>>, <<bool_constant(v)>>, <<constant(v)>>)
      BY <1>2, ConstantExpression, ExpressionsOne
    <2> HIDE DEF rs, cs
    <2>3. Expressions(f, <<>>, <<FALSE>> \o <<TRUE>>,
                      <<bool_constant(FALSE)>> \o <<bool_constant(TRUE)>>,
                      <<constant(FALSE)>> \o <<constant(TRUE)>>)
      BY <2>2, ExpressionsConcat
    <2>4. ASSUME NEW a, NEW b PROVE <<a>> \o <<b>> = <<a, b>>
      <3> DEFINE A == {a, b}
                 s == <<a>> \o <<b>>
                 t == <<a, b>>
      <3>1. <<a>> \in Seq(A) /\ <<b>> \in Seq(A) /\ <<a, b>> \in Seq(A)
        OBVIOUS
      <3>2. Len(<<a>> \o <<b>>) = 2 /\ <<a>> \o <<b>> \in Seq(A)
        BY <3>1
      <3>3. (<<a>> \o <<b>>)[1] = a /\ (<<a>> \o <<b>>)[2] = b
        BY <3>1
      <3>4. Len(t) = 2 /\ t[1] = a /\ t[2] = b
        OBVIOUS
      <3>5. s \in Seq(A) /\ t \in Seq(A) /\ Len(s) = 2 /\ s[1] = a /\ s[2] = b
        BY <3>1, <3>2, <3>3
      <3> HIDE DEF A, s, t
      <3>6. Len(s) = Len(t) /\ \A k \in 1..Len(s) : s[k] = t[k]
        BY <3>4, <3>5
      <3>7. s = t
        BY <3>5, <3>6, SameEntries
      <3>. QED
        BY <3>7 DEF s, t
    <2>5. Expressions(f, <<>>, <<FALSE, TRUE>>, <<bool_constant(FALSE), bool_constant(TRUE)>>,
                      <<constant(FALSE), constant(TRUE)>>)
      BY <2>3, <2>4
    <2>6. Expressions(f, <<>>, <<FALSE, TRUE>> \o f,
                      <<bool_constant(FALSE), bool_constant(TRUE)>> \o rs,
                      <<constant(FALSE), constant(TRUE)>> \o cs)
      BY <2>1, <2>5, ExpressionsConcat
    <2>. QED
      BY <1>1, <2>6 DEF rs, cs
  <1>8. generator = [next_boolean_witness |-> Len(f), m_rows |-> generator.m_rows]
        /\ generator.m_rows = <<>>
    BY <1>1, <1>2
  <1>9. Images(f, generator.m_rows, <<TRUE>>)
    BY <1>8 DEF Images
  <1>10. /\ recorder.witness_count = n /\ recorder.expression_offsets = <<0>>
         /\ recorder.expression_entries = <<>> /\ recorder.row_offsets = <<0, 1>>
         /\ recorder.column_indices = <<0>>
    BY <1>1 DEF with_witnesses
  <1>11. recorder \in Recorders
    <2>1. <<0>> \in Seq(Nat) /\ <<0, 1>> \in Seq(Nat) /\ <<>> \in Seq(Nat)
      OBVIOUS
    <2>. QED
      BY <1>1, <1>2, <2>1 DEF with_witnesses, Recorders
  <1>12. RowsOf(generator.m_rows) = <<<<0>>>>
    <2>1. [k \in DOMAIN <<>> |-> bool_sparse_row(<<>>[k])] = <<>>
      OBVIOUS
    <2>2. <<<<0>>>> \o <<>> = <<<<0>>>>
      OBVIOUS
    <2>. QED
      BY <1>8, <2>1, <2>2 DEF RowsOf
  <1>13. /\ Stored(recorder.expression_offsets, recorder.expression_entries, <<>>)
         /\ Stored(recorder.row_offsets, recorder.column_indices, RowsOf(generator.m_rows))
    BY <1>10, <1>12, StoredFirst
  <1>14. Claimed
    BY <1>1 DEF Claimed
  <1>15. Agree(f, <<TRUE>>, <<>>)
    BY <1>2, <1>5, <1>6, <1>7, <1>8, <1>9, <1>10, <1>11, <1>13, <1>14 DEF Agree
  <1>. QED
    BY <1>15 DEF BooleanInv

\* A sum on the three backends.
LEMMA XorAgrees ==
    ASSUME BooleanInv, Xor
    PROVE  BooleanInv'
  <1>1. PICK f, h, arena : Agree(f, h, arena)
    BY DEF BooleanInv
  <1>2. PICK i \in DOMAIN bits, j \in DOMAIN bits :
            /\ Building
            /\ bits' = Append(bits, bits[i] # bits[j])
            /\ rows' = Append(rows, bool_xor(rows[i], rows[j]))
            /\ columns' = Append(columns, matrix_xor(recorder, columns[i], columns[j]).bit)
            /\ recorder' = matrix_xor(recorder, columns[i], columns[j]).recorder
            /\ UNCHANGED <<witness, integers, generator>>
    BY DEF Xor
  <1>3. /\ Packs(witness, f) /\ Packs(integers, h)
        /\ Expressions(f, arena, bits, rows, columns)
        /\ Images(f, generator.m_rows, h)
        /\ generator = [next_boolean_witness |-> Len(f), m_rows |-> generator.m_rows]
        /\ recorder \in Recorders /\ recorder.witness_count = Len(f)
        /\ Stored(recorder.expression_offsets, recorder.expression_entries, arena)
        /\ Stored(recorder.row_offsets, recorder.column_indices, RowsOf(generator.m_rows))
        /\ Claimed
    BY <1>1 DEF Agree
  <1>4. f \in Seq(BOOLEAN)
    BY <1>3 DEF Packs
  <1>5. /\ bits \in Seq(BOOLEAN) /\ rows \in Seq(Combinations) /\ columns \in Seq(Handles)
        /\ i \in 1..Len(bits) /\ j \in 1..Len(bits)
    BY <1>3 DEF Expressions
  <1>6. /\ Expression(f, arena, bits[i], rows[i], columns[i])
        /\ Expression(f, arena, bits[j], rows[j], columns[j])
    BY <1>3, <1>5 DEF Expressions
  <1> DEFINE sum == matrix_xor(recorder, columns[i], columns[j])
             b == bits[i] # bits[j]
             row == bool_xor(rows[i], rows[j])
  <1>7. PICK more : /\ Grows(arena, more)
                    /\ SameRows(sum.recorder, recorder)
                    /\ Stored(sum.recorder.expression_offsets,
                              sum.recorder.expression_entries, more)
                    /\ Expression(f, more, b, row, sum.bit)
    BY <1>3, <1>6, XorExpression
  <1>8. PICK q, c : q = sum.recorder /\ c = sum.bit
    OBVIOUS
  <1>9. /\ recorder' = q
        /\ bits' = bits \o <<b>> /\ rows' = rows \o <<row>> /\ columns' = columns \o <<c>>
    <2>1. \A A, x : \A s \in Seq(A) : Append(s, x) = s \o <<x>>
      OBVIOUS
    <2>2. bits' = Append(bits, b) /\ rows' = Append(rows, row) /\ columns' = Append(columns, c)
      BY <1>2, <1>8
    <2> HIDE DEF sum, b, row
    <2>. QED
      BY <1>2, <1>5, <1>8, <2>1, <2>2 DEF sum
  <1>10. /\ SameRows(q, recorder) /\ Stored(q.expression_offsets, q.expression_entries, more)
         /\ Expression(f, more, b, row, c)
    BY <1>7, <1>8
  <1> HIDE DEF sum, b, row
  <1>11. Expressions(f, more, bits', rows', columns')
    <2>1. Expressions(f, more, bits, rows, columns)
      BY <1>3, <1>4, <1>7, ExpressionsStay
    <2>2. Expressions(f, more, <<b>>, <<row>>, <<c>>)
      BY <1>10, ExpressionsOne
    <2>. QED
      BY <1>9, <2>1, <2>2, ExpressionsConcat
  <1>12. Claimed'
    BY <1>2, <1>3 DEF Claimed, Building
  <1>13. Stored(recorder'.row_offsets, recorder'.column_indices, RowsOf(generator'.m_rows))
    BY <1>2, <1>3, <1>9, <1>10 DEF SameRows
  <1>14. recorder' \in Recorders /\ recorder'.witness_count = Len(f)
    BY <1>3, <1>9, <1>10 DEF SameRows
  <1>15. Agree(f, h, more)'
    BY <1>2, <1>3, <1>9, <1>10, <1>11, <1>12, <1>13, <1>14 DEF Agree
  <1>. QED
    BY <1>15 DEF BooleanInv

\* A hint lengthens f, and the recorder's count with it.
LEMMA HintAgrees ==
    ASSUME BooleanInv, Hint
    PROVE  BooleanInv'
  <1>1. PICK f, h, arena : Agree(f, h, arena)
    BY DEF BooleanInv
  <1>2. PICK n, values :
            /\ n \in WordWidths /\ values \in Strings(n)
            /\ Building
            /\ bits' = bits \o values
            /\ witness' = extend_packed(witness, from_array(values))
            /\ rows' = rows \o [k \in 1..n |-> bool_witness(generator.next_boolean_witness + k - 1)]
            /\ generator' = HintBits(n)
            /\ columns' = columns \o AllocateBits(recorder, n).bits
            /\ recorder' = AllocateBits(recorder, n).recorder
            /\ UNCHANGED integers
    BY DEF Hint
  <1>3. /\ Packs(witness, f) /\ Packs(integers, h)
        /\ Expressions(f, arena, bits, rows, columns)
        /\ Images(f, generator.m_rows, h)
        /\ generator = [next_boolean_witness |-> Len(f), m_rows |-> generator.m_rows]
        /\ recorder \in Recorders /\ recorder.witness_count = Len(f)
        /\ Stored(recorder.expression_offsets, recorder.expression_entries, arena)
        /\ Stored(recorder.row_offsets, recorder.column_indices, RowsOf(generator.m_rows))
        /\ Claimed
    BY <1>1 DEF Agree
  <1>4. f \in Seq(BOOLEAN) /\ Len(f) \in Nat
    BY <1>3 DEF Packs
  <1>5. n \in Nat /\ values \in Seq(BOOLEAN) /\ Len(values) = n
    <2>1. n \in WordWidths /\ values \in Strings(n)
      BY <1>2
    <2>. QED
      BY <2>1, CircuitAssumption DEF Strings
  <1>6. f \o values \in Seq(BOOLEAN) /\ Len(f \o values) = Len(f) + n /\ Len(f) + n \in Nat
    BY <1>4, <1>5
  <1>7. AllocateBits(recorder, n) =
            [recorder |-> [recorder EXCEPT !.witness_count = Len(f) + n],
             bits |-> [k \in 1..n |-> witness_bit(Len(f) + k - 1)]]
    <2>1. AllocateBits(recorder, n) =
            [recorder |-> [recorder EXCEPT !.witness_count = recorder.witness_count + n],
             bits |-> [k \in 1..n |-> witness_bit(recorder.witness_count + k - 1)]]
      BY <1>3, <1>5, AllocateBitsMakes
    <2>2. PICK m : m = recorder.witness_count
      OBVIOUS
    <2>3. m = Len(f)
      BY <1>3, <2>2
    <2>. QED
      BY <2>1, <2>2, <2>3
  <1>8. /\ recorder' = [recorder EXCEPT !.witness_count = Len(f) + n]
        /\ columns' = columns \o [k \in 1..n |-> witness_bit(Len(f) + k - 1)]
    <2>1. PICK r, cs : /\ r = [recorder EXCEPT !.witness_count = Len(f) + n]
                       /\ cs = [k \in 1..n |-> witness_bit(Len(f) + k - 1)]
      OBVIOUS
    <2>2. AllocateBits(recorder, n) = [recorder |-> r, bits |-> cs]
      BY <1>7, <2>1
    <2>3. AllocateBits(recorder, n).recorder = r /\ AllocateBits(recorder, n).bits = cs
      BY <2>2
    <2>. QED
      BY <1>2, <2>1, <2>3
  <1>9. /\ recorder' \in Recorders
        /\ recorder' = [witness_count |-> Len(f) + n,
                        expression_offsets |-> recorder.expression_offsets,
                        expression_entries |-> recorder.expression_entries,
                        row_offsets |-> recorder.row_offsets,
                        column_indices |-> recorder.column_indices]
    BY <1>3, <1>6, <1>8, Counted
  <1>10. /\ recorder'.witness_count = Len(f) + n
         /\ recorder'.expression_offsets = recorder.expression_offsets
         /\ recorder'.expression_entries = recorder.expression_entries
         /\ recorder'.row_offsets = recorder.row_offsets
         /\ recorder'.column_indices = recorder.column_indices
    BY <1>9
  <1>11. generator.next_boolean_witness = Len(f)
    BY <1>3
  <1>12. generator' = [next_boolean_witness |-> Len(f) + n, m_rows |-> generator.m_rows]
    <2>1. generator' = [generator EXCEPT !.next_boolean_witness = Len(f) + n]
      BY <1>2, <1>11 DEF HintBits
    <2>2. PICK ms : ms = generator.m_rows
      OBVIOUS
    <2>3. generator = [next_boolean_witness |-> Len(f), m_rows |-> ms]
      BY <1>3, <2>2
    <2>4. generator' = [next_boolean_witness |-> Len(f) + n, m_rows |-> ms]
      BY <2>1, <2>3
    <2>. QED
      BY <2>2, <2>4
  <1>13. generator'.m_rows = generator.m_rows
    BY <1>12
  <1>14. Packs(witness', f \o values)
    BY <1>2, <1>3, <1>5, PacksMore
  <1>15. Expressions(f \o values, arena, bits', rows', columns')
    <2> DEFINE rs == [k \in 1..n |-> bool_witness(Len(f) + k - 1)]
               cs == [k \in 1..n |-> witness_bit(Len(f) + k - 1)]
    <2>1. bits' = bits \o values /\ rows' = rows \o rs /\ columns' = columns \o cs
      BY <1>2, <1>8, <1>11
    <2>2. Expressions(f \o values, arena, values, rs, cs)
      BY <1>4, <1>5, HintExpressions
    <2>3. Grows(arena, arena)
      <3>1. Len(arena) \in Nat
        BY <1>3 DEF Stored
      <3>. QED
        BY <3>1 DEF Grows
    <2>4. Expressions(f \o values, arena, bits, rows, columns)
      BY <1>3, <1>4, <1>5, <2>3, ExpressionsStay
    <2> HIDE DEF rs, cs
    <2>. QED
      BY <2>1, <2>2, <2>4, ExpressionsConcat
  <1>16. Images(f \o values, generator'.m_rows, h)
    BY <1>3, <1>4, <1>5, <1>13, ImagesLonger
  <1>17. Claimed'
    BY <1>2, <1>3 DEF Claimed, Building
  <1>18. generator' = [next_boolean_witness |-> Len(f \o values), m_rows |-> generator'.m_rows]
    BY <1>6, <1>12, <1>13
  <1>19. recorder' \in Recorders /\ recorder'.witness_count = Len(f \o values)
    BY <1>6, <1>9, <1>10
  <1>20. /\ Stored(recorder'.expression_offsets, recorder'.expression_entries, arena)
         /\ Stored(recorder'.row_offsets, recorder'.column_indices, RowsOf(generator'.m_rows))
    BY <1>3, <1>10, <1>13
  <1>21. Packs(integers', h)
    BY <1>2, <1>3
  <1>22. Agree(f \o values, h, arena)'
    BY <1>14, <1>15, <1>16, <1>17, <1>18, <1>19, <1>20, <1>21 DEF Agree
  <1>. QED
    BY <1>22 DEF BooleanInv

\* A word recorded: its rows are pushed in order on both sides, and its bits
\* lifted.
LEMMA RecordAgrees ==
    ASSUME BooleanInv, NEW n \in Nat, NEW word \in [1..n -> DOMAIN bits],
           Building, Recorded(word), integers' = Lifted(word)
    PROVE  BooleanInv'
  <1>1. PICK f, h, arena : Agree(f, h, arena)
    BY DEF BooleanInv
  <1> DEFINE ms == generator.m_rows
             bs == [k \in 1..n |-> bits[word[k]]]
             rs == [k \in 1..n |-> rows[word[k]]]
             S == [k \in 1..n |-> bool_sparse_row(rs[k])]
             q == Pushed(recorder, columns, word)
  <1>2. DOMAIN word = 1..n
    OBVIOUS
  <1>3. /\ generator' = [generator EXCEPT !.m_rows = ms \o rs]
        /\ recorder' = q
        /\ UNCHANGED <<bits, witness, rows, columns>>
        /\ integers' = extend_packed(integers, from_array(bs))
    BY <1>2 DEF Recorded, Lifted, Pushed
  <1>4. /\ Packs(witness, f) /\ Packs(integers, h)
        /\ Expressions(f, arena, bits, rows, columns)
        /\ Images(f, ms, h)
        /\ generator = [next_boolean_witness |-> Len(f), m_rows |-> generator.m_rows]
        /\ recorder \in Recorders /\ recorder.witness_count = Len(f)
        /\ Stored(recorder.expression_offsets, recorder.expression_entries, arena)
        /\ Stored(recorder.row_offsets, recorder.column_indices, RowsOf(ms))
        /\ Claimed
    BY <1>1 DEF Agree
  <1>5. /\ bits \in Seq(BOOLEAN) /\ rows \in Seq(Combinations) /\ columns \in Seq(Handles)
        /\ Len(rows) = Len(bits) /\ Len(columns) = Len(bits)
        /\ \A k \in 1..Len(bits) : Expression(f, arena, bits[k], rows[k], columns[k])
    BY <1>4 DEF Expressions
  <1>6. \A k \in 1..n : word[k] \in 1..Len(bits)
    BY <1>5
  <1>7. \A k \in 1..n : Expression(f, arena, bits[word[k]], rows[word[k]], columns[word[k]])
    BY <1>5, <1>6
  <1>8. \A k \in 1..n : bits[word[k]] \in BOOLEAN /\ rows[word[k]] \in Combinations
    BY <1>7, ExpressionTypes
  <1>9. /\ bs \in Seq(BOOLEAN) /\ Len(bs) = n /\ \A k \in 1..n : bs[k] = bits[word[k]]
    <2>1. bs \in [1..n -> BOOLEAN] /\ \A k \in 1..n : bs[k] = bits[word[k]]
      BY <1>8
    <2> HIDE DEF bs
    <2>. QED
      BY <2>1
  <1>10. rs \in Seq(Combinations) /\ Len(rs) = n /\ \A k \in 1..n : rs[k] = rows[word[k]]
    <2>1. rs \in [1..n -> Combinations] /\ \A k \in 1..n : rs[k] = rows[word[k]]
      BY <1>8
    <2> HIDE DEF rs
    <2>. QED
      BY <2>1
  <1> HIDE DEF bs, rs
  <1>11. \A k \in 1..n : RowMeans(f, rs[k], bs[k])
    BY <1>7, <1>9, <1>10 DEF Expression
  <1>12. ASSUME NEW k \in 1..n
         PROVE  /\ support(recorder, columns[word[k]]) = bool_sparse_row(rs[k])
                /\ bool_sparse_row(rs[k]) \in Seq(Nat)
    <2>1. Names(arena, columns[word[k]], bool_sparse_row(rows[word[k]]))
      BY <1>7 DEF Expression
    <2>2. rs[k] = rows[word[k]]
      BY <1>10
    <2>. QED
      BY <1>4, <1>11, <2>1, <2>2, NamesSupport, RowMeansColumns
  <1>13. \A k \in 1..Len(ms) : bool_sparse_row(ms[k]) \in Seq(Nat)
    <2>1. \A k \in 1..Len(ms) : RowMeans(f, ms[k], h[k + 1])
      BY <1>4 DEF Images
    <2>. QED
      BY <2>1, RowMeansColumns
  <1>14. ms \in Seq(Combinations) /\ h \in Seq(BOOLEAN)
    BY <1>4 DEF Images
  <1>15. /\ q \in Recorders
         /\ q.witness_count = recorder.witness_count
         /\ q.expression_offsets = recorder.expression_offsets
         /\ q.expression_entries = recorder.expression_entries
         /\ Stored(q.row_offsets, q.column_indices,
                   RowsOf(ms) \o [k \in 1..n |-> support(recorder, columns[word[k]])])
    <2>1. \A k \in 1..n : support(recorder, columns[word[k]]) \in Seq(Nat)
      BY <1>12
    <2>. QED
      BY <1>2, <1>4, <2>1, PushedAll
  <1>16. [k \in 1..n |-> support(recorder, columns[word[k]])] = S
    BY <1>12
  <1>17. RowsOf(ms \o rs) = RowsOf(ms) \o S
    BY <1>10, <1>12, <1>13, <1>14, RowsOfConcat
  <1> HIDE DEF q, S
  <1>18. /\ Stored(q.row_offsets, q.column_indices, RowsOf(ms \o rs))
         /\ Stored(q.expression_offsets, q.expression_entries, arena)
    BY <1>4, <1>15, <1>16, <1>17
  <1>19. generator' = [next_boolean_witness |-> Len(f), m_rows |-> ms \o rs]
    <2>1. PICK l, m : l = Len(f) /\ m = generator.m_rows
      OBVIOUS
    <2>2. generator = [next_boolean_witness |-> l, m_rows |-> m]
      BY <1>4, <2>1
    <2>3. generator' = [next_boolean_witness |-> l, m_rows |-> ms \o rs]
      BY <1>3, <2>2
    <2>. QED
      BY <2>1, <2>3
  <1>20. PICK more : more = ms \o rs
    OBVIOUS
  <1>21. generator'.m_rows = more /\ generator' = [next_boolean_witness |-> Len(f), m_rows |-> more]
    BY <1>19, <1>20
  <1>22. Images(f, more, h \o bs)
    BY <1>4, <1>9, <1>10, <1>11, <1>20, ImagesConcat
  <1>23. Packs(integers', h \o bs)
    BY <1>3, <1>4, <1>9, PacksMore
  <1>24. PICK g : g = h \o bs
    OBVIOUS
  <1>25. Images(f, more, g) /\ Packs(integers', g)
    BY <1>22, <1>23, <1>24
  <1>26. recorder' = q /\ recorder' \in Recorders /\ recorder'.witness_count = Len(f)
    BY <1>3, <1>4, <1>15
  <1>27. /\ Stored(recorder'.row_offsets, recorder'.column_indices, RowsOf(more))
         /\ Stored(recorder'.expression_offsets, recorder'.expression_entries, arena)
    BY <1>18, <1>20, <1>26
  <1>28. Expressions(f, arena, bits', rows', columns') /\ Packs(witness', f)
    BY <1>3, <1>4
  <1>29. Claimed'
    BY <1>4 DEF Claimed, Building
  <1> HIDE DEF ms
  <1>30. Agree(f, g, arena)'
    BY <1>21, <1>25, <1>26, <1>27, <1>28, <1>29 DEF Agree
  <1>. QED
    BY <1>30 DEF BooleanInv

\* Both lifts are records of a word.
LEMMA BitzAgrees ==
    ASSUME BooleanInv, Bitz \/ BitzUnsigned
    PROVE  BooleanInv'
  <1>1. CASE Bitz
    <2>1. PICK i \in DOMAIN bits : Building /\ integers' = extend(integers, <<bits[i]>>)
            /\ Recorded(<<i>>)
      BY <1>1 DEF Bitz
    <2> DEFINE word == <<i>>
    <2>2. word \in [1..1 -> DOMAIN bits] /\ DOMAIN word = {1} /\ word[1] = i
      OBVIOUS
    <2>3. [k \in DOMAIN word |-> bits[word[k]]] = <<bits[i]>>
      BY <2>2
    <2> HIDE DEF word
    <2>4. integers' = Lifted(word)
      BY <2>1, <2>3 DEF Lifted, extend
    <2>5. Recorded(word)
      BY <2>1 DEF word
    <2>. QED
      BY <2>1, <2>2, <2>4, <2>5, RecordAgrees
  <1>2. CASE BitzUnsigned
    <2>1. PICK n, word : /\ n \in WordWidths /\ word \in Words(n)
                         /\ Building /\ integers' = Lifted(word) /\ Recorded(word)
      BY <1>2 DEF BitzUnsigned
    <2>2. n \in Nat /\ word \in [1..n -> DOMAIN bits]
      <3>1. n \in WordWidths /\ word \in Words(n)
        BY <2>1
      <3>. QED
        BY <3>1, CircuitAssumption DEF Words
    <2>. QED
      BY <2>1, <2>2, RecordAgrees
  <1>. QED
    BY <1>1, <1>2

\* Finishing and transposing leave the circuit alone.
LEMMA RestAgrees ==
    ASSUME BooleanInv, Finish \/ Transpose \/ UNCHANGED vars
    PROVE  BooleanInv'
  <1>1. PICK f, h, arena : Agree(f, h, arena)
    BY DEF BooleanInv
  <1>2. UNCHANGED <<bits, witness, integers, rows, generator, columns, recorder>>
    BY DEF Finish, Transpose, vars
  <1>3. Claimed
    BY <1>1 DEF Agree
  <1>4. CASE Finish
    <2>1. csc' = {finish(recorder)} /\ claim' = claim /\ claim = {} /\ recorder' = recorder
      BY <1>3, <1>4 DEF Finish, Claimed
    <2>2. Claimed'
      BY <2>1 DEF Claimed
    <2>. QED
      BY <1>1, <1>2, <2>2 DEF Agree, BooleanInv
  <1>5. CASE Transpose
    <2>1. PICK matrix \in csc, count \in RowCount - 1 .. RowCount + 1 :
            claim' = {[asked |-> count, got |-> transpose(matrix, Weights(count))]}
      BY <1>5 DEF Transpose, Weights
    <2>2. csc' = csc /\ recorder' = recorder /\ csc = {finish(recorder)} /\ matrix = finish(recorder)
      BY <1>3, <1>5, <2>1 DEF Transpose, Claimed
    <2>3. count \in Nat
      <3>1. Len(generator.m_rows) \in Nat
        BY <1>1 DEF Agree, Images
      <3>. QED
        BY <3>1 DEF RowCount
    <2>4. PICK got : got = transpose(finish(recorder), Weights(count))
      OBVIOUS
    <2>5. claim' = {[asked |-> count, got |-> got]}
      BY <2>1, <2>2, <2>4
    <2>6. \A c \in claim' : c.asked = count /\ c.got = got
      BY <2>5
    <2>7. \A c \in claim' : c.asked \in Nat /\ c.got = transpose(finish(recorder), Weights(c.asked))
      BY <2>3, <2>4, <2>6
    <2>8. csc' = {finish(recorder')} /\ csc' # {}
      BY <2>2
    <2>9. Claimed'
      BY <2>2, <2>7, <2>8 DEF Claimed
    <2>. QED
      BY <1>1, <1>2, <2>9 DEF Agree, BooleanInv
  <1>6. CASE UNCHANGED vars
    BY <1>1, <1>6 DEF vars, Agree, BooleanInv, Claimed
  <1>. QED
    BY <1>4, <1>5, <1>6

\* Every call keeps the invariant.
LEMMA StepAgrees == BooleanInv /\ [Next]_vars => BooleanInv'
  BY XorAgrees, HintAgrees, BitzAgrees, RestAgrees DEF Next

-----------------------------------------------------------------------------
(***************************************************************************)
(* What follows from the invariant.                                        *)
(***************************************************************************)
\* What the packed witness says of a sum of columns.
LEMMA ValueOf ==
    ASSUME NEW f, Packs(witness, f), NEW s, NEW E, Lists(s, E), E \subseteq 0..Len(f)
    PROVE  Value(s) = SumOf(f, E)
  <1>1. /\ s \in Seq(Nat) /\ DOMAIN s = 1..Len(s)
        /\ \A k \in 1..Len(s) : s[k] \in Nat /\ s[k] \in E
    BY ListsBasic
  <1>2. ASSUME NEW k \in 1..Len(s), s[k] # 0 PROVE bit(witness, s[k] - 1) = f[s[k]]
    <2>1. s[k] - 1 \in 0 .. Len(f) - 1 /\ (s[k] - 1) + 1 = s[k]
      <3>1. s[k] \in 0..Len(f)
        BY <1>1
      <3>2. Len(f) \in Nat
        BY DEF Packs
      <3>. QED
        BY <1>2, <3>1, <3>2
    <2>2. bit(witness, s[k] - 1) = f[(s[k] - 1) + 1]
      BY <2>1, PacksBits
    <2>. QED
      BY <2>1, <2>2
  <1>3. {k \in DOMAIN s : s[k] = 0 \/ bit(witness, s[k] - 1)} = LitPlaces(f, s, Len(s))
    BY <1>1, <1>2 DEF LitPlaces
  <1>4. Value(s) = Odd(LitPlaces(f, s, Len(s)))
    BY <1>3 DEF Value, Odd
  <1>. QED
    BY <1>4, PlacesCount

\* A row of M, and the bit it gives.
LEMMA RowFacts ==
    ASSUME NEW f, Len(f) \in Nat, NEW ms, NEW h, Images(f, ms, h)
    PROVE  /\ RowsOf(ms) \in Seq(Seq(Nat)) /\ Len(RowsOf(ms)) = Len(h)
           /\ \A r \in 1..Len(h) : \E E \in SUBSET (0..Len(f)) :
                 Lists(RowsOf(ms)[r], E) /\ SumOf(f, E) = h[r]
  <1> DEFINE S == [k \in DOMAIN ms |-> bool_sparse_row(ms[k])]
             A == Seq(Nat)
             u == <<<<0>>>>
  <1>1. /\ ms \in Seq(Combinations) /\ h \in Seq(BOOLEAN) /\ Len(ms) \in Nat
        /\ Len(h) = Len(ms) + 1 /\ h[1] = TRUE
        /\ \A r \in 1..Len(ms) : RowMeans(f, ms[r], h[r + 1])
    BY DEF Images
  <1>2. \A r \in 1..Len(ms) : bool_sparse_row(ms[r]) \in A
          /\ Lists(bool_sparse_row(ms[r]), ColumnsOf(ms[r]))
    BY <1>1, RowMeansColumns
  <1>3. S \in Seq(A) /\ Len(S) = Len(ms) /\ \A k \in 1..Len(ms) : S[k] = bool_sparse_row(ms[k])
    <2>1. DOMAIN ms = 1..Len(ms)
      BY <1>1
    <2>. QED
      BY <1>1, <1>2, <2>1
  <1>4. u \in Seq(A) /\ Len(u) = 1 /\ u[1] = <<0>>
    <2>1. <<0>> \in A
      OBVIOUS
    <2>. QED
      BY <2>1
  <1> HIDE DEF S, A, u
  <1>5. /\ u \o S \in Seq(A) /\ Len(u \o S) = 1 + Len(ms)
        /\ (u \o S)[1] = <<0>>
        /\ \A k \in 1..Len(ms) : (u \o S)[1 + k] = S[k]
    <2>1. Joins(A, u, S)
      BY <1>3, <1>4, ConcatAt
    <2>2. 1 \in 1..Len(u)
      BY <1>4
    <2>. QED
      BY <1>3, <1>4, <2>1, <2>2 DEF Joins
  <1>6. RowsOf(ms) = u \o S
    BY DEF RowsOf, u, S
  <1>7. RowsOf(ms) \in Seq(Seq(Nat)) /\ Len(RowsOf(ms)) = Len(h)
    BY <1>1, <1>5, <1>6 DEF A
  <1>8. ASSUME NEW r \in 1..Len(h)
        PROVE  \E E \in SUBSET (0..Len(f)) : Lists(RowsOf(ms)[r], E) /\ SumOf(f, E) = h[r]
    <2>1. CASE r = 1
      <3>1. Lists(<<0>>, {0})
        BY DEF Lists
      <3>2. SumOf(f, {0}) = TRUE
        <4>1. SumOf(f, {0}) \in BOOLEAN
          BY DEF SumOf, Odd
        <4>. QED
          BY <4>1, SumFirst
      <3>3. {0} \in SUBSET (0..Len(f))
        OBVIOUS
      <3>4. RowsOf(ms)[r] = <<0>> /\ h[r] = TRUE
        BY <1>1, <1>5, <1>6, <2>1
      <3>. QED
        BY <3>1, <3>2, <3>3, <3>4
    <2>2. CASE r # 1
      <3>1. r - 1 \in 1..Len(ms) /\ 1 + (r - 1) = r /\ (r - 1) + 1 = r
        BY <1>1, <2>2
      <3>2. RowMeans(f, ms[r - 1], h[r])
        BY <1>1, <3>1
      <3>3. RowsOf(ms)[r] = bool_sparse_row(ms[r - 1])
        BY <1>3, <1>5, <1>6, <3>1
      <3>4. Lists(RowsOf(ms)[r], ColumnsOf(ms[r - 1]))
        BY <1>2, <3>1, <3>3
      <3>5. ColumnsOf(ms[r - 1]) \in SUBSET (0..Len(f)) /\ SumOf(f, ColumnsOf(ms[r - 1])) = h[r]
        BY <3>2 DEF RowMeans
      <3>. QED
        BY <3>4, <3>5
    <2>. QED
      BY <2>1, <2>2
  <1>. QED
    BY <1>7, <1>8

\* An expression means the same bit on every backend.
THEOREM EveryBackendAgrees == Spec => []BackendsAgree
  <1>1. BooleanInv => BackendsAgree
    <2> SUFFICES ASSUME BooleanInv, NEW k \in DOMAIN bits
                 PROVE  /\ Value(bool_sparse_row(rows[k])) = bits[k]
                        /\ Value(support(recorder, columns[k])) = bits[k]
      BY DEF BackendsAgree
    <2>1. PICK f, h, arena : Agree(f, h, arena)
      BY DEF BooleanInv
    <2>2. /\ Packs(witness, f) /\ Expressions(f, arena, bits, rows, columns)
          /\ Stored(recorder.expression_offsets, recorder.expression_entries, arena)
      BY <2>1 DEF Agree
    <2>3. k \in 1..Len(bits)
      BY <2>2 DEF Expressions
    <2>4. Expression(f, arena, bits[k], rows[k], columns[k])
      BY <2>2, <2>3 DEF Expressions
    <2>5. RowMeans(f, rows[k], bits[k]) /\ Names(arena, columns[k], bool_sparse_row(rows[k]))
      BY <2>4 DEF Expression
    <2>6. Lists(bool_sparse_row(rows[k]), ColumnsOf(rows[k]))
      BY <2>5, RowMeansColumns
    <2>7. ColumnsOf(rows[k]) \subseteq 0..Len(f) /\ SumOf(f, ColumnsOf(rows[k])) = bits[k]
      BY <2>5 DEF RowMeans
    <2>8. Value(bool_sparse_row(rows[k])) = bits[k]
      BY <2>2, <2>6, <2>7, ValueOf
    <2>9. support(recorder, columns[k]) = bool_sparse_row(rows[k])
      BY <2>2, <2>5, NamesSupport
    <2>. QED
      BY <2>8, <2>9
  <1>. QED
    BY <1>1, InitAgrees, StepAgrees, PTL DEF Spec

\* M (1 || f) = h.
THEOREM IntegersAreImage == Spec => []IntegerWitnessIsImage
  <1>1. BooleanInv => IntegerWitnessIsImage
    <2> SUFFICES ASSUME BooleanInv PROVE IntegerWitnessIsImage
      OBVIOUS
    <2>1. PICK f, h, arena : Agree(f, h, arena)
      BY DEF BooleanInv
    <2> DEFINE values == [i \in 0 .. witness.bit_len - 1 |-> bit(witness, i)]
               R == RowsOf(generator.m_rows)
    <2>2. Packs(witness, f) /\ Packs(integers, h) /\ Images(f, generator.m_rows, h)
      BY <2>1 DEF Agree
    <2>3. /\ f \in Seq(BOOLEAN) /\ witness.bit_len = Len(f) /\ Len(f) \in Nat
          /\ h \in Seq(BOOLEAN) /\ integers.bit_len = Len(h) /\ Len(h) \in Nat
      BY <2>2 DEF Packs
    <2>4. /\ R \in Seq(Seq(Nat)) /\ Len(R) = Len(h)
          /\ \A r \in 1..Len(h) : \E E \in SUBSET (0..Len(f)) : Lists(R[r], E) /\ SumOf(f, E) = h[r]
      BY <2>2, <2>3, RowFacts
    <2>5. M.rows = R
      BY DEF M, into_m, RowsOf
    <2>6. ASSUME NEW r \in 1..Len(h) PROVE RowValue(R[r], values) = bit(integers, r - 1)
      <3>1. PICK E \in SUBSET (0..Len(f)) : Lists(R[r], E) /\ SumOf(f, E) = h[r]
        BY <2>4
      <3>2. ASSUME NEW e \in E, e # 0 PROVE values[e - 1] = f[e]
        <4>1. e - 1 \in 0 .. Len(f) - 1 /\ (e - 1) + 1 = e
          BY <2>3, <3>2
        <4>2. bit(witness, e - 1) = f[(e - 1) + 1]
          BY <2>2, <4>1, PacksBits
        <4>. QED
          BY <2>3, <4>1, <4>2
      <3> HIDE DEF values, R
      <3>3. RowValue(R[r], values) = SumOf(f, E)
        BY <3>1, <3>2, RowSum
      <3>4. r - 1 \in 0 .. Len(h) - 1 /\ (r - 1) + 1 = r
        BY <2>3
      <3>5. bit(integers, r - 1) = h[(r - 1) + 1]
        BY <2>2, <3>4, PacksBits
      <3>. QED
        BY <3>1, <3>3, <3>4, <3>5
    <2>7. integer_witness(M, values) = [r \in DOMAIN M.rows |-> RowValue(M.rows[r], values)]
      BY DEF integer_witness, RowValue
    <2> HIDE DEF values, R
    <2>8. integer_witness(M, values) = [r \in 1..Len(h) |-> RowValue(R[r], values)]
      <3>1. DOMAIN R = 1..Len(h)
        BY <2>4
      <3>. QED
        BY <2>5, <2>7, <3>1
    <2>9. Unpacked(integers) = [r \in 1..Len(h) |-> bit(integers, r - 1)]
      BY <2>3 DEF Unpacked
    <2>10. integer_witness(M, values) = Unpacked(integers)
      BY <2>6, <2>8, <2>9
    <2>. QED
      BY <2>10 DEF IntegerWitnessIsImage, values
  <1>. QED
    BY <1>1, InitAgrees, StepAgrees, PTL DEF Spec

\* The generated rows are sorted and in range, and the recorder stored the same.
THEOREM RowsAreWellFormed == Spec => []RowsWellFormed
  <1>1. BooleanInv => RowsWellFormed
    <2> SUFFICES ASSUME BooleanInv PROVE RowsWellFormed
      OBVIOUS
    <2>1. PICK f, h, arena : Agree(f, h, arena)
      BY DEF BooleanInv
    <2> DEFINE R == RowsOf(generator.m_rows)
    <2>2. /\ Packs(witness, f) /\ Images(f, generator.m_rows, h)
          /\ Stored(recorder.row_offsets, recorder.column_indices, R)
          /\ generator.next_boolean_witness = Len(f)
      BY <2>1 DEF Agree
    <2>3. Len(f) \in Nat /\ h \in Seq(BOOLEAN) /\ Len(h) \in Nat
      BY <2>2 DEF Packs, Images
    <2>4. /\ R \in Seq(Seq(Nat)) /\ Len(R) = Len(h)
          /\ \A r \in 1..Len(h) : \E E \in SUBSET (0..Len(f)) : Lists(R[r], E) /\ SumOf(f, E) = h[r]
      BY <2>2, <2>3, RowFacts
    <2>5. M.rows = R /\ M.columns = Len(f) + 1
      BY <2>2 DEF M, into_m, RowsOf
    <2> HIDE DEF R
    <2>6. DOMAIN R = 1..Len(R) /\ DOMAIN M.rows = 1..Len(R)
      BY <2>4, <2>5
    <2>7. ASSUME NEW r \in 1..Len(R), NEW k \in DOMAIN R[r]
          PROVE  R[r][k] < Len(f) + 1 /\ (k > 1 => R[r][k - 1] < R[r][k])
      <3>1. PICK E \in SUBSET (0..Len(f)) : Lists(R[r], E) /\ SumOf(f, E) = h[r]
        BY <2>4
      <3>2. PICK s : s = R[r]
        OBVIOUS
      <3>3. /\ s \in Seq(Nat) /\ DOMAIN s = 1..Len(s) /\ Len(s) \in Nat
            /\ \A i \in 1..Len(s) : s[i] \in E
            /\ \A i, j \in 1..Len(s) : i < j => s[i] < s[j]
        <4>1. Lists(s, E)
          BY <3>1, <3>2
        <4>2. s \in Seq(Nat) /\ Len(s) \in Nat /\ \A i \in 1..Len(s) : s[i] \in E
          BY <4>1, ListsBasic
        <4>3. \A i, j \in 1..Len(s) : i < j => s[i] < s[j]
          BY <4>1 DEF Lists
        <4>. QED
          BY <4>2, <4>3
      <3>4. k \in 1..Len(s)
        BY <3>2, <3>3
      <3>5. s[k] \in 0..Len(f)
        BY <3>3, <3>4
      <3>6. k > 1 => k - 1 \in 1..Len(s) /\ k - 1 < k
        BY <3>3, <3>4
      <3>7. s[k] < Len(f) + 1 /\ (k > 1 => s[k - 1] < s[k])
        BY <2>3, <3>3, <3>4, <3>5, <3>6
      <3>. QED
        BY <3>2, <3>7
    <2>8. WellFormed(M)
      BY <2>5, <2>6, <2>7 DEF WellFormed
    <2>9. ASSUME NEW r \in 1..Len(R) PROVE RecordedRow(r) = R[r]
      BY <2>2, StoredSlice DEF RecordedRow
    <2>. QED
      BY <2>5, <2>6, <2>8, <2>9 DEF RowsWellFormed
  <1>. QED
    BY <1>1, InitAgrees, StepAgrees, PTL DEF Spec

\* A handle never changes its meaning.
THEOREM HandlesStayTrue == Spec => HandlesKeepMeaning
  <1> DEFINE Kept ==
               \A k \in DOMAIN columns : support(recorder, columns[k])' = support(recorder, columns[k])
  <1>1. ASSUME BooleanInv, BooleanInv', [Next]_vars PROVE Kept
    <2>1. PICK f, h, arena : Agree(f, h, arena)
      BY <1>1 DEF BooleanInv
    <2>2. PICK g, i, more : Agree(g, i, more)'
      BY <1>1 DEF BooleanInv
    <2>3. /\ Expressions(f, arena, bits, rows, columns)
          /\ Stored(recorder.expression_offsets, recorder.expression_entries, arena)
      BY <2>1 DEF Agree
    <2>4. /\ Expressions(g, more, bits', rows', columns')
          /\ Stored(recorder'.expression_offsets, recorder'.expression_entries, more)
      BY <2>2 DEF Agree
    <2>5. DOMAIN columns = 1..Len(bits) /\ Len(rows) = Len(bits) /\ rows \in Seq(Combinations)
      BY <2>3 DEF Expressions
    <2>6. DOMAIN columns' = 1..Len(bits') /\ Len(rows') = Len(bits') /\ rows' \in Seq(Combinations)
      BY <2>4 DEF Expressions
    <2>7. \E s : rows' = rows \o s \/ rows' = Append(rows, s) \/ rows' = rows
      BY <1>1 DEF Next, Xor, Hint, Bitz, BitzUnsigned, Finish, Transpose, Recorded, vars
    <2>8. ASSUME NEW k \in 1..Len(bits) PROVE k \in 1..Len(bits') /\ rows'[k] = rows[k]
      <3>1. rows \in Seq(Combinations) /\ rows' \in Seq(Combinations) /\ Len(rows) \in Nat
        BY <2>5, <2>6
      <3>2. PICK s : rows' = rows \o s \/ rows' = Append(rows, s) \/ rows' = rows
        BY <2>7
      <3>3. PICK before, after : before = rows /\ after = rows'
        OBVIOUS
      <3>. QED
        BY <2>5, <2>6, <3>1, <3>2, <3>3
    <2>9. ASSUME NEW k \in 1..Len(bits)
          PROVE support(recorder', columns'[k]) = support(recorder, columns[k])
      <3>1. Names(arena, columns[k], bool_sparse_row(rows[k]))
        BY <2>3 DEF Expressions, Expression
      <3>2. Names(more, columns'[k], bool_sparse_row(rows'[k]))
        BY <2>4, <2>8 DEF Expressions, Expression
      <3>3. support(recorder, columns[k]) = bool_sparse_row(rows[k])
        BY <2>3, <3>1, NamesSupport
      <3>4. support(recorder', columns'[k]) = bool_sparse_row(rows'[k])
        BY <2>4, <3>2, NamesSupport
      <3>. QED
        BY <2>8, <3>3, <3>4
    <2>. QED
      BY <2>5, <2>9
  <1>2. BooleanInv /\ BooleanInv' /\ [Next]_vars => [Kept]_vars
    BY <1>1
  <1>. QED
    BY <1>2, InitAgrees, StepAgrees, PTL DEF Spec, HandlesKeepMeaning

-----------------------------------------------------------------------------
(***************************************************************************)
(* The transposed matrix.                                                  *)
(***************************************************************************)
\* The first k summands that hold x.
Holding(weights, k, x) == {i \in 1..k : x \in weights[i]}

\* What a total holds is in an odd number of its summands.
LEMMA TotalMembers ==
    ASSUME NEW X, NEW n \in Nat, NEW weights \in [1..n -> SUBSET X], NEW x \in X
    PROVE  /\ IsFiniteSet(Holding(weights, n, x))
           /\ x \in Total(weights) <=> Odd(Holding(weights, n, x))
  <1> DEFINE In(k) == Holding(weights, k, x)
  <1>1. PICK h : SumsPath(h, n, weights)
    BY TotalPath
  <1>2. /\ h[0] = {}
        /\ \A k \in 1..n : h[k] = Plus(h[k - 1], weights[k])
        /\ Total(weights) = h[n]
    BY <1>1 DEF SumsPath
  <1> DEFINE P == {k \in Nat : k <= n => IsFiniteSet(In(k)) /\ (x \in h[k] <=> Odd(In(k)))}
  <1>3. 0 \in P
    <2>1. In(0) = {}
      BY DEF Holding
    <2> HIDE DEF In
    <2>. QED
      BY <1>2, <2>1, OddEmpty
  <1>4. ASSUME NEW k \in Nat, k \in P PROVE k + 1 \in P
    <2> SUFFICES ASSUME k + 1 <= n
                 PROVE  IsFiniteSet(In(k + 1)) /\ (x \in h[k + 1] <=> Odd(In(k + 1)))
      OBVIOUS
    <2>1. k <= n /\ k + 1 \in 1..n /\ (k + 1) - 1 = k
      OBVIOUS
    <2>2. IsFiniteSet(In(k)) /\ (x \in h[k] <=> Odd(In(k)))
      BY <1>4, <2>1
    <2>3. h[k + 1] = Plus(h[k], weights[k + 1])
      BY <1>2, <2>1
    <2>4. x \in h[k + 1] <=> ~(x \in h[k] <=> x \in weights[k + 1])
      BY <2>3 DEF Plus
    <2>5. \A i : i \in 1 .. k + 1 <=> i \in 1..k \/ i = k + 1
      OBVIOUS
    <2>6. k + 1 \notin In(k)
      BY DEF Holding
    <2>7. CASE x \in weights[k + 1]
      <3>1. In(k + 1) = In(k) \cup {k + 1}
        BY <2>5, <2>7 DEF Holding
      <3> HIDE DEF In
      <3>2. IsFiniteSet(In(k) \cup {k + 1}) /\ Odd(In(k) \cup {k + 1}) = ~Odd(In(k))
        BY <2>2, <2>6, OddNext
      <3>3. Odd(In(k) \cup {k + 1}) \in BOOLEAN /\ Odd(In(k)) \in BOOLEAN
        BY DEF Odd
      <3>. QED
        BY <2>2, <2>4, <2>7, <3>1, <3>2, <3>3
    <2>8. CASE x \notin weights[k + 1]
      <3>1. In(k + 1) = In(k)
        BY <2>5, <2>8 DEF Holding
      <3> HIDE DEF In
      <3>. QED
        BY <2>2, <2>4, <2>8, <3>1
    <2>. QED
      BY <2>7, <2>8
  <1> HIDE DEF P
  <1>5. n \in P
    BY <1>3, <1>4, SetInduction
  <1>6. IsFiniteSet(In(n)) /\ (x \in h[n] <=> Odd(In(n)))
    <2> HIDE DEF In
    <2>. QED
      BY <1>5 DEF P
  <1>. QED
    BY <1>2, <1>6

\* Offsets never fall.
LEMMA StoredRises ==
    ASSUME NEW offsets, NEW entries, NEW list, Stored(offsets, entries, list),
           NEW i \in 1 .. Len(list) + 1, NEW j \in 1 .. Len(list) + 1, i <= j
    PROVE  offsets[i] \in Nat /\ offsets[j] \in Nat /\ offsets[i] <= offsets[j]
  <1> DEFINE n == Len(list)
             P == {k \in Nat : i + k <= n + 1 => offsets[i] <= offsets[i + k]}
  <1>1. n \in Nat /\ \A k \in 1 .. n + 1 : offsets[k] \in Nat
    BY DEF Stored
  <1>2. \A k \in 1..n : offsets[k] <= offsets[k + 1]
    <2> SUFFICES ASSUME NEW k \in 1..n PROVE offsets[k] <= offsets[k + 1]
      OBVIOUS
    <2>1. KeptAt(offsets, entries, list, k)
      BY StoredAt
    <2>2. offsets[k] \in Nat /\ Len(list[k]) \in Nat /\ offsets[k + 1] = offsets[k] + Len(list[k])
      BY <2>1 DEF KeptAt
    <2>. QED
      BY <2>2
  <1> HIDE DEF n
  <1>3. i \in Nat /\ j \in Nat /\ 1 <= i /\ j <= n + 1 /\ i <= n + 1
    BY <1>1 DEF n
  <1>4. 0 \in P
    <2>1. i + 0 = i /\ offsets[i] <= offsets[i]
      BY <1>1, <1>3
    <2>. QED
      BY <2>1
  <1>5. ASSUME NEW k \in Nat, k \in P PROVE k + 1 \in P
    <2> SUFFICES ASSUME i + (k + 1) <= n + 1 PROVE offsets[i] <= offsets[i + (k + 1)]
      OBVIOUS
    <2>1. i + k \in 1..n /\ i + k <= n + 1 /\ (i + k) + 1 = i + (k + 1)
      BY <1>1, <1>3
    <2>2. offsets[i] <= offsets[i + k]
      BY <1>5, <2>1
    <2>3. offsets[i + k] <= offsets[(i + k) + 1]
      BY <1>2, <2>1
    <2>4. offsets[i] \in Nat /\ offsets[i + k] \in Nat /\ offsets[(i + k) + 1] \in Nat
      <3>1. i \in 1 .. n + 1 /\ i + k \in 1 .. n + 1 /\ (i + k) + 1 \in 1 .. n + 1
        BY <1>1, <1>3, <2>1
      <3>. QED
        BY <1>1, <3>1
    <2>. QED
      BY <2>1, <2>2, <2>3, <2>4
  <1> HIDE DEF P
  <1>6. j - i \in P
    <2>1. j - i \in Nat
      BY <1>3
    <2>. QED
      BY <1>4, <1>5, <2>1, SetInduction
  <1>7. offsets[i] <= offsets[j]
    <2>1. i + (j - i) = j /\ j <= n + 1
      BY <1>3
    <2>. QED
      BY <1>6, <2>1 DEF P
  <1>. QED
    BY <1>1, <1>7 DEF n

\* Every entry is one of a list.
LEMMA StoredCovers ==
    ASSUME NEW offsets, NEW entries, NEW list, Stored(offsets, entries, list),
           NEW k \in 1..Len(entries)
    PROVE  \E row \in 1..Len(list) : offsets[row] < k /\ k <= offsets[row + 1]
  <1> DEFINE n == Len(list)
             found(i) == \E row \in 1..n : offsets[row] < i /\ i <= offsets[row + 1]
             P == {j \in Nat : j <= n => \A i \in 1..offsets[j + 1] : found(i)}
  <1>1. n \in Nat /\ \A j \in 1 .. n + 1 : offsets[j] \in Nat
    <2>1. offsets \in Seq(Nat) /\ list \in Seq(Seq(Nat)) /\ Len(offsets) = n + 1
      BY DEF Stored
    <2>2. n \in Nat
      BY <2>1
    <2> HIDE DEF n
    <2>. QED
      BY <2>1, <2>2
  <1>2. offsets[1] = 0 /\ offsets[n + 1] = Len(entries)
    BY DEF Stored
  <1> HIDE DEF n
  <1>3. 0 \in P
    <2>1. offsets[0 + 1] = 0
      BY <1>2
    <2>2. 1..0 = {}
      OBVIOUS
    <2> HIDE DEF found
    <2>. QED
      BY <2>1, <2>2
  <1>4. ASSUME NEW j \in Nat, j \in P PROVE j + 1 \in P
    <2> SUFFICES ASSUME j + 1 <= n PROVE \A i \in 1..offsets[(j + 1) + 1] : found(i)
      <3> HIDE DEF found
      <3>. QED
        OBVIOUS
    <2> SUFFICES ASSUME NEW i \in 1..offsets[(j + 1) + 1] PROVE found(i)
      OBVIOUS
    <2>1. j <= n /\ j + 1 \in 1..n /\ j + 1 \in 1 .. n + 1 /\ (j + 1) + 1 \in 1 .. n + 1
      BY <1>1
    <2>2. offsets[j + 1] \in Nat /\ offsets[(j + 1) + 1] \in Nat
      BY <1>1, <2>1
    <2>3. CASE i <= offsets[j + 1]
      <3>1. i \in 1..offsets[j + 1]
        BY <2>2, <2>3
      <3>. QED
        BY <1>4, <2>1, <3>1
    <2>4. CASE offsets[j + 1] < i
      <3>1. i <= offsets[(j + 1) + 1]
        BY <2>2
      <3>. QED
        BY <2>1, <2>4, <3>1
    <2>. QED
      BY <2>2, <2>3, <2>4
  <1> HIDE DEF P
  <1>5. n \in P
    BY <1>1, <1>3, <1>4, SetInduction
  <1>6. k \in 1..offsets[n + 1]
    BY <1>2
  <1>. QED
    BY <1>5, <1>6 DEF P, n

\* Entry k stands in the list of its row.
EntryKept(r, list, k) ==
    /\ RowOf(r, k) \in 1..Len(list)
    /\ r.row_offsets[RowOf(r, k)] \in Nat
    /\ k - r.row_offsets[RowOf(r, k)] \in 1..Len(list[RowOf(r, k)])
    /\ r.column_indices[k] = list[RowOf(r, k)][k - r.row_offsets[RowOf(r, k)]]

\* The row of an entry is the list it is stored in.
LEMMA RowOfEntry ==
    ASSUME NEW r, NEW list, Stored(r.row_offsets, r.column_indices, list),
           NEW k \in 1..Len(r.column_indices)
    PROVE  EntryKept(r, list, k)
  <1> DEFINE n == Len(list)
             o == r.row_offsets
             e == r.column_indices
             row == RowOf(r, k)
  <1>1. n \in Nat /\ Len(o) - 1 = n /\ k \in Nat
    BY DEF Stored
  <1>2. \E i \in 1..n : o[i] < k /\ k <= o[i + 1]
    BY StoredCovers
  <1>3. row = CHOOSE i \in 1..n : o[i] < k /\ k <= o[i + 1]
    BY <1>1 DEF RowOf
  <1> HIDE DEF row
  <1>4. row \in 1..n /\ o[row] < k /\ k <= o[row + 1]
    BY <1>2, <1>3
  <1>5. /\ o[row] \in Nat /\ Len(list[row]) \in Nat /\ o[row + 1] = o[row] + Len(list[row])
        /\ \A i \in 1..Len(list[row]) : e[o[row] + i] = list[row][i]
    <2>1. KeptAt(r.row_offsets, r.column_indices, list, row)
      BY <1>4, StoredAt
    <2>. QED
      BY <2>1 DEF KeptAt
  <1> HIDE DEF o
  <1>6. k - o[row] \in 1..Len(list[row]) /\ o[row] + (k - o[row]) = k
    BY <1>1, <1>4, <1>5
  <1>7. r.column_indices[k] = list[row][k - o[row]]
    BY <1>5, <1>6
  <1>. QED
    BY <1>4, <1>5, <1>6, <1>7 DEF o, row, EntryKept

\* Entry k is in that row and has that column.
EntryIs(r, k, row, column) ==
    k \in 1..Len(r.column_indices) /\ RowOf(r, k) = row /\ r.column_indices[k] = column

\* An entry of a list is stored in the list's row.
LEMMA EntryOfRow ==
    ASSUME NEW r, NEW list, Stored(r.row_offsets, r.column_indices, list),
           NEW row \in 1..Len(list), NEW i \in 1..Len(list[row])
    PROVE  EntryIs(r, r.row_offsets[row] + i, row, list[row][i])
  <1> DEFINE n == Len(list)
             o == r.row_offsets
             e == r.column_indices
             k == o[row] + i
             other == RowOf(r, k)
  <1>1. n \in Nat /\ r.column_indices \in Seq(Nat)
    BY DEF Stored
  <1>2. /\ o[row] \in Nat /\ Len(list[row]) \in Nat /\ o[row + 1] = o[row] + Len(list[row])
        /\ o[row + 1] <= Len(e)
        /\ e[o[row] + i] = list[row][i]
    <2>1. KeptAt(r.row_offsets, r.column_indices, list, row)
      BY StoredAt
    <2>. QED
      BY <2>1 DEF KeptAt
  <1>3. k \in 1..Len(r.column_indices) /\ o[row] < k /\ k <= o[row + 1] /\ k \in Nat
    <2>1. i \in Nat /\ 1 <= i /\ i <= Len(list[row]) /\ Len(r.column_indices) \in Nat
      BY <1>1, <1>2
    <2>. QED
      BY <1>2, <2>1
  <1> HIDE DEF k
  <1>4. /\ other \in 1..n /\ o[other] \in Nat /\ k - o[other] \in 1..Len(list[other])
    <2>1. EntryKept(r, list, k)
      BY <1>3, RowOfEntry
    <2>. QED
      BY <2>1 DEF EntryKept
  <1> HIDE DEF other
  <1>5. Len(list[other]) \in Nat /\ o[other + 1] = o[other] + Len(list[other])
    <2>1. KeptAt(r.row_offsets, r.column_indices, list, other)
      BY <1>4, StoredAt
    <2>. QED
      BY <2>1 DEF KeptAt
  <1>6. o[other] < k /\ k <= o[other + 1]
    <2>1. k - o[other] >= 1 /\ k - o[other] <= Len(list[other])
      BY <1>4, <1>5
    <2> HIDE DEF o
    <2>. QED
      BY <1>3, <1>4, <1>5, <2>1
  <1>7. ~(other < row)
    <2> SUFFICES ASSUME other < row PROVE FALSE
      OBVIOUS
    <2>1. other + 1 <= row /\ other + 1 \in 1 .. n + 1 /\ row \in 1 .. n + 1
      BY <1>1, <1>4
    <2>2. o[other + 1] \in Nat /\ o[row] \in Nat /\ o[other + 1] <= o[row]
      BY <2>1, StoredRises
    <2>. QED
      BY <1>3, <1>6, <2>2
  <1>8. ~(row < other)
    <2> SUFFICES ASSUME row < other PROVE FALSE
      OBVIOUS
    <2>1. row + 1 <= other /\ row + 1 \in 1 .. n + 1 /\ other \in 1 .. n + 1
      BY <1>1, <1>4
    <2>2. o[row + 1] \in Nat /\ o[other] \in Nat /\ o[row + 1] <= o[other]
      BY <2>1, StoredRises
    <2>. QED
      BY <1>3, <1>6, <2>2
  <1>9. other = row
    BY <1>1, <1>4, <1>7, <1>8
  <1>. QED
    BY <1>2, <1>3, <1>9 DEF k, other, EntryIs

\* The counting sort of finish, of the entries c.
Ahead(c, d) == {k \in DOMAIN c : c[k] < d}

At(c, d) == {k \in DOMAIN c : c[k] = d}

Before(c, k) == {j \in DOMAIN c : c[j] = c[k] /\ j < k}

Slot(c, k) == Cardinality(Ahead(c, c[k])) + Cardinality(Before(c, k)) + 1

Entry(c, s) == CHOOSE k \in DOMAIN c : Slot(c, k) = s

\* The entries in front of the next column are those in front and those of this one.
LEMMA FrontCounts ==
    ASSUME NEW c \in Seq(Nat), NEW d \in Nat
    PROVE  /\ IsFiniteSet(Ahead(c, d)) /\ Cardinality(Ahead(c, d)) \in Nat
           /\ IsFiniteSet(At(c, d)) /\ Cardinality(At(c, d)) \in Nat
           /\ Cardinality(Ahead(c, d + 1)) = Cardinality(Ahead(c, d)) + Cardinality(At(c, d))
           /\ \A b \in Nat : b <= d => Cardinality(Ahead(c, b)) <= Cardinality(Ahead(c, d))
  <1>1. DOMAIN c = 1..Len(c) /\ Len(c) \in Nat /\ \A k \in DOMAIN c : c[k] \in Nat
    OBVIOUS
  <1>2. IsFiniteSet(DOMAIN c)
    BY <1>1, FS_Interval
  <1>3. ASSUME NEW b \in Nat
        PROVE  /\ IsFiniteSet(Ahead(c, b)) /\ Cardinality(Ahead(c, b)) \in Nat
               /\ IsFiniteSet(At(c, b)) /\ Cardinality(At(c, b)) \in Nat
    <2>1. Ahead(c, b) \in SUBSET DOMAIN c /\ At(c, b) \in SUBSET DOMAIN c
      BY DEF Ahead, At
    <2>2. IsFiniteSet(Ahead(c, b)) /\ IsFiniteSet(At(c, b))
      BY <1>2, <2>1, FS_Subset
    <2>. QED
      BY <2>2, FS_CardinalityType
  <1>4. Cardinality(Ahead(c, d + 1)) = Cardinality(Ahead(c, d)) + Cardinality(At(c, d))
    <2> DEFINE A == Ahead(c, d)
               B == At(c, d)
    <2>1. Ahead(c, d + 1) = A \cup B /\ A \cap B = {}
      BY <1>1 DEF Ahead, At
    <2>2. IsFiniteSet(A) /\ IsFiniteSet(B)
      BY <1>3
    <2> HIDE DEF A, B
    <2>3. Cardinality(A \cup B) = Cardinality(A) + Cardinality(B) - Cardinality(A \cap B)
      BY <2>2, FS_Union
    <2>4. Cardinality(A \cap B) = 0
      BY <2>1, FS_EmptySet
    <2>5. Cardinality(A) \in Nat /\ Cardinality(B) \in Nat
      BY <2>2, FS_CardinalityType
    <2>6. Cardinality(A \cup B) = Cardinality(A) + Cardinality(B)
      BY <2>3, <2>4, <2>5
    <2>. QED
      BY <2>1, <2>6 DEF A, B
  <1>5. ASSUME NEW b \in Nat, b <= d PROVE Cardinality(Ahead(c, b)) <= Cardinality(Ahead(c, d))
    <2>1. Ahead(c, b) \in SUBSET Ahead(c, d)
      BY <1>1, <1>5 DEF Ahead
    <2>. QED
      BY <1>3, <2>1, FS_Subset
  <1>. QED
    BY <1>3, <1>4, <1>5

\* The entries of a column are numbered on from the entries in front of it.
LEMMA SlotOfColumn ==
    ASSUME NEW c \in Seq(Nat), NEW k \in DOMAIN c
    PROVE  LET a == Cardinality(Ahead(c, c[k]))
               m == Cardinality(At(c, c[k]))
           IN  /\ Cardinality(Before(c, k)) \in Nat /\ IsFiniteSet(Before(c, k))
               /\ Slot(c, k) \in a + 1 .. a + m
  <1> DEFINE d == c[k]
             a == Cardinality(Ahead(c, d))
             m == Cardinality(At(c, d))
             B == Before(c, k)
  <1>1. d \in Nat
    OBVIOUS
  <1>2. k \in Nat
    OBVIOUS
  <1>3. B \in SUBSET At(c, d) /\ k \in At(c, d) /\ k \notin B
    BY <1>2 DEF Before, At
  <1>4. a \in Nat /\ m \in Nat /\ IsFiniteSet(At(c, d))
    BY <1>1, FrontCounts
  <1>5. IsFiniteSet(B)
    BY <1>3, <1>4, FS_Subset
  <1>6. Cardinality(B) \in Nat /\ IsFiniteSet(B \cup {k})
          /\ Cardinality(B \cup {k}) = Cardinality(B) + 1
    BY <1>3, <1>5, FS_AddElement, FS_CardinalityType
  <1>7. B \cup {k} \in SUBSET At(c, d)
    BY <1>3
  <1>8. Cardinality(B \cup {k}) <= m
    BY <1>4, <1>7, FS_Subset
  <1>9. Slot(c, k) = a + Cardinality(B) + 1
    BY DEF Slot
  <1> HIDE DEF a, m, B
  <1>10. Slot(c, k) \in a + 1 .. a + m
    BY <1>4, <1>6, <1>8, <1>9
  <1>. QED
    BY <1>5, <1>6, <1>10 DEF a, m, B

\* Of two entries, one is in front.
LEMMA SlotsRise ==
    ASSUME NEW c \in Seq(Nat), NEW k \in DOMAIN c, NEW l \in DOMAIN c,
           c[k] < c[l] \/ (c[k] = c[l] /\ k < l)
    PROVE  Slot(c, k) \in Nat /\ Slot(c, l) \in Nat /\ Slot(c, k) < Slot(c, l)
  <1> DEFINE x == Cardinality(Before(c, k))
             y == Cardinality(Before(c, l))
             a == Cardinality(Ahead(c, c[k]))
             b == Cardinality(Ahead(c, c[l]))
             m == Cardinality(At(c, c[k]))
  <1>1. c[k] \in Nat /\ c[l] \in Nat /\ k \in Nat /\ l \in Nat
    OBVIOUS
  <1>2. /\ x \in Nat /\ y \in Nat /\ IsFiniteSet(Before(c, k)) /\ IsFiniteSet(Before(c, l))
        /\ Slot(c, k) \in a + 1 .. a + m
    BY SlotOfColumn
  <1>3. a \in Nat /\ b \in Nat /\ m \in Nat
    BY <1>1, FrontCounts
  <1>4. Slot(c, k) = a + x + 1 /\ Slot(c, l) = b + y + 1
    BY DEF Slot
  <1>5. CASE c[k] < c[l]
    <2>1. Cardinality(Ahead(c, c[k] + 1)) = a + m
      BY <1>1, FrontCounts
    <2>2. c[k] + 1 \in Nat /\ c[k] + 1 <= c[l]
      BY <1>1, <1>5
    <2>3. Cardinality(Ahead(c, c[k] + 1)) <= b
      BY <1>1, <2>2, FrontCounts
    <2> HIDE DEF a, b, m, x, y
    <2>4. a + m <= b
      BY <2>1, <2>3
    <2>. QED
      BY <1>2, <1>3, <1>4, <2>4
  <1>6. CASE c[k] = c[l] /\ k < l
    <2> DEFINE B == Before(c, k)
    <2>1. B \cup {k} \in SUBSET Before(c, l) /\ k \notin B
      BY <1>1, <1>6 DEF Before
    <2>2. Cardinality(B \cup {k}) = x + 1
      BY <1>2, <2>1, FS_AddElement
    <2>3. Cardinality(B \cup {k}) <= y
      BY <1>2, <2>1, FS_Subset
    <2>4. a = b
      BY <1>6
    <2> HIDE DEF a, b, m, x, y, B
    <2>5. x + 1 <= y
      BY <2>2, <2>3
    <2>. QED
      BY <1>2, <1>3, <1>4, <2>4, <2>5
  <1>. QED
    BY <1>5, <1>6

\* No slot is taken twice.
LEMMA SlotsApart ==
    ASSUME NEW c \in Seq(Nat), NEW k \in DOMAIN c, NEW l \in DOMAIN c, Slot(c, k) = Slot(c, l)
    PROVE  k = l
  <1> SUFFICES ASSUME k # l PROVE FALSE
    OBVIOUS
  <1>1. c[k] \in Nat /\ c[l] \in Nat /\ k \in Nat /\ l \in Nat
    OBVIOUS
  <1>2. \/ c[k] < c[l] \/ (c[k] = c[l] /\ k < l)
        \/ c[l] < c[k] \/ (c[l] = c[k] /\ l < k)
    BY <1>1
  <1>3. CASE c[k] < c[l] \/ (c[k] = c[l] /\ k < l)
    <2>1. Slot(c, k) \in Nat /\ Slot(c, l) \in Nat /\ Slot(c, k) < Slot(c, l)
      BY <1>3, SlotsRise
    <2>. QED
      BY <2>1
  <1>4. CASE c[l] < c[k] \/ (c[l] = c[k] /\ l < k)
    <2>1. Slot(c, k) \in Nat /\ Slot(c, l) \in Nat /\ Slot(c, l) < Slot(c, k)
      BY <1>4, SlotsRise
    <2>. QED
      BY <2>1
  <1>. QED
    BY <1>2, <1>3, <1>4

\* The slots of a column hold its entries, each once.
LEMMA ColumnSlots ==
    ASSUME NEW c \in Seq(Nat), NEW d \in Nat
    PROVE  LET a == Cardinality(Ahead(c, d))
               m == Cardinality(At(c, d))
           IN  /\ a \in Nat /\ m \in Nat /\ Cardinality(Ahead(c, d + 1)) = a + m
               /\ \A i \in 1..m : Entry(c, a + i) \in At(c, d) /\ Slot(c, Entry(c, a + i)) = a + i
               /\ \A k \in At(c, d) : \E i \in 1..m : Entry(c, a + i) = k
  <1> DEFINE a == Cardinality(Ahead(c, d))
             m == Cardinality(At(c, d))
             S == At(c, d)
             T == a + 1 .. a + m
             f == [k \in S |-> Slot(c, k)]
  <1>1. a \in Nat /\ m \in Nat /\ IsFiniteSet(S) /\ Cardinality(Ahead(c, d + 1)) = a + m
    BY FrontCounts
  <1>2. ASSUME NEW k \in S PROVE k \in DOMAIN c /\ c[k] = d /\ Slot(c, k) \in T
    <2>1. k \in DOMAIN c /\ c[k] = d
      BY DEF At
    <2>2. Slot(c, k) \in Cardinality(Ahead(c, c[k])) + 1
                          .. Cardinality(Ahead(c, c[k])) + Cardinality(At(c, c[k]))
      BY <2>1, SlotOfColumn
    <2>. QED
      BY <2>1, <2>2
  <1>3. \A k, l \in S : Slot(c, k) = Slot(c, l) => k = l
    BY <1>2, SlotsApart
  <1> HIDE DEF S, a, m
  <1>4. f \in Injection(S, T)
    BY <1>2, <1>3 DEF Injection, IsInjective
  <1>5. IsFiniteSet(T) /\ Cardinality(T) = m
    <2>1. PICK lo, hi : lo = a + 1 /\ hi = a + m
      OBVIOUS
    <2>2. lo \in Int /\ hi \in Int /\ (IF lo > hi THEN 0 ELSE hi - lo + 1) = m
      BY <1>1, <2>1
    <2>3. T = lo..hi
      BY <2>1
    <2> HIDE DEF T
    <2>4. IsFiniteSet(lo..hi) /\ Cardinality(lo..hi) = IF lo > hi THEN 0 ELSE hi - lo + 1
      BY <2>2, FS_Interval
    <2>. QED
      BY <2>2, <2>3, <2>4
  <1>6. f \in Surjection(S, T)
    <2>1. Cardinality(S) = Cardinality(T)
      BY <1>5 DEF S, m
    <2> HIDE DEF f, T
    <2>. QED
      BY <1>4, <1>5, <2>1, FS_Injection
  <1>7. \A s \in T : \E k \in S : Slot(c, k) = s
    BY <1>6 DEF Surjection
  <1>8. ASSUME NEW k \in S PROVE Entry(c, Slot(c, k)) = k
    <2>1. k \in DOMAIN c
      BY <1>2
    <2>2. \A l \in DOMAIN c : Slot(c, l) = Slot(c, k) => l = k
      BY <2>1, SlotsApart
    <2>. QED
      BY <2>1, <2>2 DEF Entry
  <1>9. ASSUME NEW i \in 1..m PROVE Entry(c, a + i) \in S /\ Slot(c, Entry(c, a + i)) = a + i
    <2>1. a + i \in T
      BY <1>1
    <2>2. PICK k \in S : Slot(c, k) = a + i
      BY <1>7, <2>1
    <2>. QED
      BY <1>8, <2>2
  <1>10. ASSUME NEW k \in S PROVE \E i \in 1..m : Entry(c, a + i) = k
    <2>1. Slot(c, k) - a \in 1..m /\ a + (Slot(c, k) - a) = Slot(c, k)
      BY <1>1, <1>2
    <2>. QED
      BY <1>8, <2>1
  <1>. QED
    BY <1>1, <1>9, <1>10 DEF S, a, m

\* What finish makes, by this sort.
LEMMA Finished ==
    ASSUME NEW r
    PROVE  finish(r) =
              [row_count |-> Len(r.row_offsets) - 1,
               column_offsets |-> [c \in 1 .. r.witness_count + 2 |->
                                     Cardinality(Ahead(r.column_indices, c - 1))],
               row_indices |-> [s \in DOMAIN r.column_indices |->
                                  RowOf(r, Entry(r.column_indices, s))]]
  BY DEF finish, InFront, Ahead, Before, Slot, Entry

\* A total holds nothing but what its summands hold.
LEMMA TotalWithin ==
    ASSUME NEW X, NEW m \in Nat, NEW weights \in [1..m -> SUBSET X]
    PROVE  Total(weights) \subseteq X
  <1>1. PICK h : SumsPath(h, m, weights)
    BY TotalPath
  <1>2. /\ h[0] = {}
        /\ \A k \in 1..m : h[k] = Plus(h[k - 1], weights[k])
        /\ Total(weights) = h[m]
    BY <1>1 DEF SumsPath
  <1> DEFINE P == {k \in Nat : k <= m => h[k] \subseteq X}
  <1>3. 0 \in P
    BY <1>2
  <1>4. ASSUME NEW k \in Nat, k \in P PROVE k + 1 \in P
    <2> SUFFICES ASSUME k + 1 <= m PROVE h[k + 1] \subseteq X
      OBVIOUS
    <2>1. k <= m /\ k + 1 \in 1..m /\ (k + 1) - 1 = k
      OBVIOUS
    <2>2. h[k] \subseteq X /\ h[k + 1] = Plus(h[k], weights[k + 1]) /\ weights[k + 1] \subseteq X
      BY <1>2, <1>4, <2>1
    <2>. QED
      BY <2>2 DEF Plus
  <1> HIDE DEF P
  <1>5. m \in P
    BY <1>3, <1>4, SetInduction
  <1>6. h[m] \subseteq X
    BY <1>5 DEF P
  <1>. QED
    BY <1>2, <1>6

\* Every list is sorted.
AllSorted(list, n) == \A x \in 1..n : \E E : Lists(list[x], E)

\* The rows of a list with an entry in column d.
ColumnIs(rowset, n, list, d) ==
    /\ rowset \subseteq 1..n
    /\ \A x \in 1..n : x \in rowset <=> \E j \in 1..Len(list[x]) : list[x][j] = d

\* A column of the product holds the rows that have an entry in it.
LEMMA ColumnMembers ==
    ASSUME NEW r \in Recorders, NEW list, Stored(r.row_offsets, r.column_indices, list),
           NEW n \in Nat, n = Len(list), AllSorted(list, n),
           NEW d \in 0..r.witness_count
    PROVE  ColumnIs(apply(finish(r), Weights(n))[d + 1], n, list, d)
  <1> DEFINE c == r.column_indices
             o == r.row_offsets
             a == Cardinality(Ahead(c, d))
             m == Cardinality(At(c, d))
             K(i) == Entry(c, a + i)
             summands == [i \in 1..m |-> {RowOf(r, K(i))}]
             matrix == finish(r)
             got == apply(matrix, Weights(n))[d + 1]
  <1>1. c \in Seq(Nat) /\ r.witness_count \in Nat /\ d \in Nat /\ DOMAIN c = 1..Len(c)
          /\ Len(c) \in Nat
    <2>1. c \in Seq(Nat) /\ r.witness_count \in Nat
      BY Fields
    <2>. QED
      BY <2>1
  <1>2. /\ a \in Nat /\ m \in Nat /\ Cardinality(Ahead(c, d + 1)) = a + m
        /\ \A i \in 1..m : K(i) \in At(c, d) /\ Slot(c, K(i)) = a + i
        /\ \A k \in At(c, d) : \E i \in 1..m : K(i) = k
    BY <1>1, ColumnSlots
  <1>3. \A i \in 1..m : a + i \in DOMAIN c
    <2>1. IsFiniteSet(1..Len(c)) /\ Cardinality(1..Len(c)) = Len(c)
      <3>1. PICK l : l = Len(c)
        OBVIOUS
      <3>2. l \in Nat /\ 1 \in Int /\ l \in Int /\ (IF 1 > l THEN 0 ELSE l - 1 + 1) = l
        BY <1>1, <3>1
      <3>3. IsFiniteSet(1..l) /\ Cardinality(1..l) = IF 1 > l THEN 0 ELSE l - 1 + 1
        BY <3>2, FS_Interval
      <3>. QED
        BY <3>1, <3>2, <3>3
    <2>2. Ahead(c, d + 1) \in SUBSET (1..Len(c))
      BY <1>1 DEF Ahead
    <2>3. Cardinality(Ahead(c, d + 1)) <= Len(c)
      BY <2>1, <2>2, FS_Subset
    <2> HIDE DEF a, m, c
    <2>4. a + m <= Len(c)
      BY <1>2, <2>3
    <2>. QED
      BY <1>1, <1>2, <2>4
  <1>4. \A i \in 1..m : K(i) \in 1..Len(c) /\ c[K(i)] = d
    <2> HIDE DEF K, a, m
    <2>1. \A k \in At(c, d) : k \in 1..Len(c) /\ c[k] = d
      BY <1>1 DEF At
    <2>2. \A i \in 1..m : K(i) \in At(c, d)
      BY <1>2, Zenon
    <2>. QED
      BY <2>1, <2>2
  <1>5. \A i \in 1..m : /\ RowOf(r, K(i)) \in 1..n
                        /\ o[RowOf(r, K(i))] \in Nat
                        /\ K(i) - o[RowOf(r, K(i))] \in 1..Len(list[RowOf(r, K(i))])
                        /\ list[RowOf(r, K(i))][K(i) - o[RowOf(r, K(i))]] = d
    <2> SUFFICES ASSUME NEW i \in 1..m
                 PROVE  /\ RowOf(r, K(i)) \in 1..n
                        /\ o[RowOf(r, K(i))] \in Nat
                        /\ K(i) - o[RowOf(r, K(i))] \in 1..Len(list[RowOf(r, K(i))])
                        /\ list[RowOf(r, K(i))][K(i) - o[RowOf(r, K(i))]] = d
      OBVIOUS
    <2>1. PICK k : k = K(i)
      OBVIOUS
    <2>2. k \in 1..Len(r.column_indices) /\ c[k] = d
      BY <1>4, <2>1
    <2>3. /\ RowOf(r, k) \in 1..Len(list)
          /\ r.row_offsets[RowOf(r, k)] \in Nat
          /\ k - r.row_offsets[RowOf(r, k)] \in 1..Len(list[RowOf(r, k)])
          /\ r.column_indices[k] = list[RowOf(r, k)][k - r.row_offsets[RowOf(r, k)]]
      <3>1. EntryKept(r, list, k)
        BY <2>2, RowOfEntry
      <3>. QED
        BY <3>1 DEF EntryKept
    <2>. QED
      BY <2>1, <2>2, <2>3
  <1>6. got = Total(summands)
    <2> DEFINE offsets == [q \in 1 .. r.witness_count + 2 |-> Cardinality(Ahead(c, q - 1))]
               indices == [s \in DOMAIN c |-> RowOf(r, Entry(c, s))]
    <2>1. matrix = [row_count |-> Len(o) - 1, column_offsets |-> offsets, row_indices |-> indices]
      BY Finished
    <2>2. matrix.column_offsets = offsets /\ matrix.row_indices = indices
      BY <2>1
    <2>3. Len(offsets) = r.witness_count + 2
      BY <1>1
    <2>4. offsets[d + 1] = a /\ offsets[(d + 1) + 1] = a + m
      <3>1. d + 1 \in 1 .. r.witness_count + 2 /\ (d + 1) + 1 \in 1 .. r.witness_count + 2
        BY <1>1
      <3>2. (d + 1) - 1 = d /\ ((d + 1) + 1) - 1 = d + 1
        BY <1>1
      <3>. QED
        BY <1>2, <3>1, <3>2
    <2>5. \A i \in 1..m : Weights(n)[indices[a + i]] = {RowOf(r, K(i))}
      BY <1>3, <1>5 DEF Weights
    <2>6. d + 1 \in 1 .. Len(offsets) - 1
      BY <1>1, <2>3
    <2> HIDE DEF matrix, offsets, indices
    <2>7. got = Total([i \in 1 .. offsets[(d + 1) + 1] - offsets[d + 1] |->
                         Weights(n)[indices[offsets[d + 1] + i]]])
      BY <2>2, <2>6 DEF apply
    <2> HIDE DEF a, m, got, c, K
    <2>8. offsets[(d + 1) + 1] - offsets[d + 1] = m
      BY <1>2, <2>4
    <2>9. got = Total([i \in 1..m |-> Weights(n)[indices[a + i]]])
      BY <2>4, <2>7, <2>8
    <2>. QED
      BY <2>5, <2>9
  <1>7. summands \in [1..m -> SUBSET (1..n)]
    BY <1>5
  <1>8. got \subseteq 1..n
    <2> HIDE DEF summands, a, m, got
    <2>1. Total(summands) \subseteq 1..n
      BY <1>2, <1>7, TotalWithin
    <2>. QED
      BY <1>6, <2>1
  <1>9. ASSUME NEW x \in 1..n
        PROVE  x \in Total(summands) <=> \E j \in 1..Len(list[x]) : list[x][j] = d
    <2> DEFINE H == {i \in 1..m : x \in summands[i]}
    <2>1. x \in Total(summands) <=> Odd(H)
      <3> HIDE DEF summands, a, m
      <3>1. x \in Total(summands) <=> Odd(Holding(summands, m, x))
        BY <1>2, <1>7, TotalMembers
      <3>. QED
        BY <3>1 DEF Holding
    <2>2. \A i \in 1..m : i \in H <=> RowOf(r, K(i)) = x
      OBVIOUS
    <2> HIDE DEF H, summands
    <2>3. ASSUME NEW j \in 1..Len(list[x]), list[x][j] = d PROVE Odd(H)
      <3>1. PICK k : k = o[x] + j
        OBVIOUS
      <3>2. k \in 1..Len(c) /\ RowOf(r, k) = x /\ c[k] = list[x][j]
        <4>1. x \in 1..Len(list) /\ j \in 1..Len(list[x])
          OBVIOUS
        <4>2. EntryIs(r, r.row_offsets[x] + j, x, list[x][j])
          BY <4>1, EntryOfRow
        <4>. QED
          BY <3>1, <4>2 DEF EntryIs
      <3>3. k \in At(c, d)
        BY <1>1, <2>3, <3>2 DEF At
      <3>4. PICK i \in 1..m : K(i) = k
        BY <1>2, <3>3
      <3>5. i \in H
        BY <2>2, <3>2, <3>4
      <3>6. ASSUME NEW l \in H PROVE l = i
        <4>1. l \in 1..m /\ RowOf(r, K(l)) = x
          <5>1. l \in 1..m
            BY DEF H
          <5>. QED
            BY <2>2, <3>6, <5>1
        <4>2. PICK b : b = K(l) - o[x]
          OBVIOUS
        <4>3. b \in 1..Len(list[x]) /\ list[x][b] = d /\ o[x] \in Nat
          BY <1>5, <4>1, <4>2
        <4>4. b = j
          <5>1. PICK E : Lists(list[x], E)
            BY DEF AllSorted
          <5>2. PICK s : s = list[x]
            OBVIOUS
          <5>3. \A p, q \in 1..Len(s) : p < q => s[p] < s[q]
            BY <5>1, <5>2 DEF Lists
          <5>4. b \in 1..Len(s) /\ j \in 1..Len(s) /\ s[b] = d /\ s[j] = d
            BY <2>3, <4>3, <5>2
          <5>5. ~(b < j) /\ ~(j < b)
            BY <1>1, <5>3, <5>4
          <5>. QED
            BY <5>4, <5>5
        <4>5. K(l) = k
          <5>1. K(l) \in Nat
            BY <1>1, <1>4, <4>1
          <5> HIDE DEF K
          <5>. QED
            BY <3>1, <4>2, <4>3, <4>4, <5>1
        <4>6. a + l = a + i
          BY <1>2, <3>4, <4>1, <4>5
        <4> HIDE DEF a, m
        <4>. QED
          BY <1>2, <4>1, <4>6
      <3>7. H = {i}
        BY <3>5, <3>6
      <3>. QED
        BY <3>7, OddOne
    <2>4. ASSUME ~\E j \in 1..Len(list[x]) : list[x][j] = d PROVE ~Odd(H)
      <3>1. ASSUME NEW l \in H PROVE FALSE
        <4>1. l \in 1..m /\ RowOf(r, K(l)) = x
          <5>1. l \in 1..m
            BY DEF H
          <5>. QED
            BY <2>2, <3>1, <5>1
        <4>2. K(l) - o[x] \in 1..Len(list[x]) /\ list[x][K(l) - o[x]] = d
          BY <1>5, <4>1
        <4>. QED
          BY <2>4, <4>2
      <3>2. H = {}
        BY <3>1
      <3>. QED
        BY <3>2, OddEmpty
    <2>. QED
      BY <2>1, <2>3, <2>4
  <1>. QED
    BY <1>6, <1>8, <1>9 DEF ColumnIs

\* Row x of the matrix gives bit x of h.
RowsGive(f, list, h) ==
    \A x \in 1..Len(h) : \E E \in SUBSET (0..Len(f)) : Lists(list[x], E) /\ SumOf(f, E) = h[x]

\* <M^T v, 1 || f> = <v, h>, of the columns of the product.
Dual(f, g, h) ==
    /\ Len(g) = Len(f) + 1 /\ g \in Seq(SUBSET (1..Len(h)))
    /\ Plus(g[1], Total([k \in 1..Len(f) |-> IF f[k] THEN g[k + 1] ELSE {}]))
         = {x \in 1..Len(h) : h[x]}

\* Multiplying by the finished matrix is the transposed product.
LEMMA TransposeHolds ==
    ASSUME NEW f \in Seq(BOOLEAN), NEW h \in Seq(BOOLEAN), NEW r \in Recorders, NEW list,
           r.witness_count = Len(f), Len(list) = Len(h),
           Stored(r.row_offsets, r.column_indices, list),
           RowsGive(f, list, h)
    PROVE  Dual(f, apply(finish(r), Weights(Len(h))), h)
  <1> DEFINE n == Len(h)
             m == Len(f)
             g == apply(finish(r), Weights(n))
             sums == [k \in 1..m |-> IF f[k] THEN g[k + 1] ELSE {}]
  <1>1. n \in Nat /\ m \in Nat
    OBVIOUS
  <1>2. ASSUME NEW d \in 0..m
        PROVE  /\ g[d + 1] \subseteq 1..n
               /\ \A x \in 1..n : x \in g[d + 1] <=> \E j \in 1..Len(list[x]) : list[x][j] = d
    <2>1. d \in 0..r.witness_count
      OBVIOUS
    <2>2. AllSorted(list, n)
      BY DEF AllSorted, RowsGive
    <2>3. n = Len(list)
      OBVIOUS
    <2> HIDE DEF n
    <2>4. ColumnIs(apply(finish(r), Weights(n))[d + 1], n, list, d)
      BY <1>1, <2>1, <2>2, <2>3, ColumnMembers
    <2>. QED
      BY <2>4 DEF ColumnIs
  <1>3. DOMAIN g = 1 .. m + 1
    <2> DEFINE offsets ==
                 [q \in 1 .. r.witness_count + 2 |-> Cardinality(Ahead(r.column_indices, q - 1))]
    <2>1. finish(r).column_offsets = offsets
      <3> HIDE DEF offsets
      <3>. QED
        BY Finished DEF offsets
    <2>2. Len(offsets) = m + 2
      BY <1>1
    <2>3. (m + 2) - 1 = m + 1
      BY <1>1
    <2> HIDE DEF offsets
    <2>. QED
      BY <2>1, <2>2, <2>3 DEF apply
  <1>4. \A c \in 1 .. m + 1 : g[c] \in SUBSET (1..n)
    <2> SUFFICES ASSUME NEW c \in 1 .. m + 1 PROVE g[c] \in SUBSET (1..n)
      OBVIOUS
    <2>1. c - 1 \in 0..m /\ (c - 1) + 1 = c
      BY <1>1
    <2> HIDE DEF g, n, m
    <2>. QED
      BY <1>2, <2>1
  <1>5. g = [c \in 1 .. m + 1 |-> g[c]]
    BY <1>3 DEF apply
  <1> HIDE DEF g, n, m
  <1>6. g \in Seq(SUBSET (1..n)) /\ Len(g) = m + 1
    <2>1. PICK A : A = SUBSET (1..n)
      OBVIOUS
    <2>2. [c \in 1 .. m + 1 |-> g[c]] \in [1 .. m + 1 -> A]
      BY <1>4, <2>1
    <2>3. PICK q : q = g
      OBVIOUS
    <2>4. q \in [1 .. m + 1 -> A] /\ m + 1 \in Nat
      BY <1>1, <1>5, <2>2, <2>3
    <2>5. q \in Seq(A) /\ Len(q) = m + 1
      BY <2>4
    <2>. QED
      BY <2>1, <2>3, <2>5
  <1>7. sums \in [1..m -> SUBSET (1..n)]
    <2>1. \A k \in 1..m : k + 1 \in 1 .. m + 1
      BY <1>1
    <2>. QED
      BY <1>4, <2>1
  <1>8. ASSUME NEW x \in 1..n
        PROVE  x \in Plus(g[1], Total(sums)) <=> h[x]
    <2>1. PICK E \in SUBSET (0..m) : Lists(list[x], E) /\ SumOf(f, E) = h[x]
      BY DEF n, m, RowsGive
    <2>2. ASSUME NEW d \in 0..m PROVE x \in g[d + 1] <=> d \in E
      <3>1. x \in g[d + 1] <=> \E j \in 1..Len(list[x]) : list[x][j] = d
        BY <1>2
      <3>2. E = {list[x][j] : j \in 1..Len(list[x])}
        BY <2>1 DEF Lists
      <3>. QED
        BY <3>1, <3>2
    <2> DEFINE H == {k \in 1..m : x \in sums[k]}
               L == Lit(f, E)
    <2>3. IsFiniteSet(H) /\ (x \in Total(sums) <=> Odd(H))
      <3> HIDE DEF sums
      <3>. QED
        <4>1. IsFiniteSet(Holding(sums, m, x)) /\ (x \in Total(sums) <=> Odd(Holding(sums, m, x)))
          BY <1>1, <1>7, TotalMembers
        <4>. QED
          BY <4>1 DEF Holding
    <2>4. ASSUME NEW k \in 1..m PROVE k \in H <=> k \in E /\ f[k]
      <3>1. k \in 0..m
        BY <1>1
      <3>2. x \in g[k + 1] <=> k \in E
        BY <2>2, <3>1
      <3>. QED
        BY <3>2
    <2>5. x \in g[1] <=> 0 \in E
      <3>1. 0 \in 0..m /\ 0 + 1 = 1
        BY <1>1
      <3>. QED
        BY <2>2, <3>1
    <2>6. 0 \notin H /\ \A e \in E : e = 0 \/ e \in 1..m
      BY <1>1
    <2>7. H \subseteq 1..m
      OBVIOUS
    <2> HIDE DEF H, sums
    <2>8. \A e : e \in L <=> (e = 0 /\ 0 \in E) \/ e \in H
      BY <2>4, <2>6, <2>7 DEF Lit
    <2>9. Odd(L) = h[x] /\ h[x] \in BOOLEAN
      <3>1. h[x] \in BOOLEAN
        BY DEF n
      <3>. QED
        BY <2>1, <3>1 DEF SumOf
    <2> HIDE DEF L
    <2>10. Odd(H) \in BOOLEAN /\ Odd(H \cup {0}) \in BOOLEAN
      BY DEF Odd
    <2>11. CASE 0 \in E
      <3>1. L = H \cup {0}
        BY <2>8, <2>11
      <3>2. Odd(H \cup {0}) = ~Odd(H)
        BY <2>3, <2>6, OddNext
      <3>3. h[x] <=> ~Odd(H)
        BY <2>9, <2>10, <3>1, <3>2
      <3>4. x \in Plus(g[1], Total(sums)) <=> ~(x \in Total(sums))
        BY <2>5, <2>11 DEF Plus
      <3>. QED
        BY <2>3, <3>3, <3>4
    <2>12. CASE 0 \notin E
      <3>1. L = H
        BY <2>8, <2>12
      <3>2. h[x] <=> Odd(H)
        BY <2>9, <2>10, <3>1
      <3>3. x \in Plus(g[1], Total(sums)) <=> x \in Total(sums)
        BY <2>5, <2>12 DEF Plus
      <3>. QED
        BY <2>3, <3>2, <3>3
    <2>. QED
      BY <2>11, <2>12
  <1>9. Plus(g[1], Total(sums)) \subseteq 1..n
    <2>1. g[1] \subseteq 1..n
      <3>1. 1 \in 1 .. m + 1
        BY <1>1
      <3>. QED
        BY <1>4, <3>1
    <2>2. Total(sums) \subseteq 1..n
      BY <1>1, <1>7, TotalWithin
    <2>. QED
      BY <2>1, <2>2 DEF Plus
  <1>10. Plus(g[1], Total(sums)) = {x \in 1..n : h[x]}
    BY <1>8, <1>9
  <1>. QED
    BY <1>6, <1>10 DEF g, n, m, Dual

\* A claim on h becomes one on f: <M^T v, 1 || f> = <v, h>, whatever the weights.
THEOREM ClaimIsTransposed == Spec => []TransposedClaimHolds
  <1>1. BooleanInv => TransposedClaimHolds
    <2> SUFFICES ASSUME BooleanInv, NEW c \in claim
                 PROVE  IF c.asked < integers.bit_len THEN c.got = WeightCountMismatch
                        ELSE /\ c.got.ok
                             /\ Len(c.got.weights) = witness.bit_len
                             /\ Plus(c.got.constant_weight,
                                     Total([k \in 1 .. witness.bit_len |->
                                              IF bit(witness, k - 1) THEN c.got.weights[k] ELSE {}]))
                                = {r \in 1 .. integers.bit_len : bit(integers, r - 1)}
      BY DEF TransposedClaimHolds
    <2>1. PICK f, h, arena : Agree(f, h, arena)
      BY DEF BooleanInv
    <2>2. PICK list : list = RowsOf(generator.m_rows)
      OBVIOUS
    <2>3. PICK n, m : n = Len(h) /\ m = Len(f)
      OBVIOUS
    <2>4. /\ Packs(witness, f) /\ Packs(integers, h) /\ Images(f, generator.m_rows, h)
          /\ recorder \in Recorders /\ recorder.witness_count = Len(f)
          /\ Stored(recorder.row_offsets, recorder.column_indices, list)
          /\ Claimed
      BY <2>1, <2>2 DEF Agree
    <2>5. /\ f \in Seq(BOOLEAN) /\ witness.bit_len = m /\ m \in Nat
          /\ h \in Seq(BOOLEAN) /\ integers.bit_len = n /\ n \in Nat
      BY <2>3, <2>4 DEF Packs
    <2>6. /\ Len(list) = Len(h)
          /\ \A r \in 1..Len(h) : \E E \in SUBSET (0..Len(f)) : Lists(list[r], E) /\ SumOf(f, E) = h[r]
      BY <2>2, <2>3, <2>4, <2>5, RowFacts
    <2>7. PICK csr, g : csr = finish(recorder) /\ g = apply(csr, Weights(n))
      OBVIOUS
    <2>8. Dual(f, g, h)
      <3>1. RowsGive(f, list, h)
        BY <2>6 DEF RowsGive
      <3>2. Dual(f, apply(finish(recorder), Weights(Len(h))), h)
        BY <2>4, <2>5, <2>6, <3>1, TransposeHolds
      <3>. QED
        BY <2>3, <2>7, <3>2
    <2>9. /\ Len(g) = m + 1 /\ g \in Seq(SUBSET (1..n))
          /\ Plus(g[1], Total([k \in 1..m |-> IF f[k] THEN g[k + 1] ELSE {}])) = {x \in 1..n : h[x]}
      BY <2>3, <2>8 DEF Dual
    <2>10. csr.row_count = n
      <3>1. Len(recorder.row_offsets) = Len(list) + 1
        BY <2>4 DEF Stored
      <3>2. csr.row_count = Len(recorder.row_offsets) - 1
        BY <2>7 DEF finish
      <3>. QED
        BY <2>3, <2>5, <2>6, <3>1, <3>2
    <2>11. PICK asked, got : /\ asked \in Nat /\ asked = c.asked /\ got = c.got
                                /\ got = transpose(csr, Weights(asked))
      BY <2>4, <2>7 DEF Claimed
    <2>12. Len(Weights(asked)) = asked
      BY <2>11 DEF Weights
    <2>13. CASE asked < n
      BY <2>5, <2>10, <2>11, <2>12, <2>13 DEF transpose
    <2>14. CASE ~(asked < n)
      <3>1. SubSeq(Weights(asked), 1, n) = Weights(n)
        BY <2>5, <2>11, <2>14 DEF Weights
      <3>2. got = [ok |-> TRUE, constant_weight |-> Head(g), weights |-> Tail(g)]
        BY <2>7, <2>10, <2>11, <2>12, <2>14, <3>1 DEF transpose
      <3>3. Head(g) = g[1] /\ Len(Tail(g)) = m /\ \A k \in 1..m : Tail(g)[k] = g[k + 1]
        BY <2>5, <2>9
      <3>4. got.ok /\ got.constant_weight = g[1] /\ got.weights = Tail(g)
        BY <3>2, <3>3
      <3>5. ASSUME NEW k \in 1..m PROVE bit(witness, k - 1) = f[k]
        <4>1. k - 1 \in 0 .. Len(f) - 1 /\ (k - 1) + 1 = k
          BY <2>3, <2>5
        <4>2. bit(witness, k - 1) = f[(k - 1) + 1]
          BY <2>4, <4>1, PacksBits
        <4>. QED
          BY <4>1, <4>2
      <3>6. ASSUME NEW r \in 1..n PROVE bit(integers, r - 1) = h[r]
        <4>1. r - 1 \in 0 .. Len(h) - 1 /\ (r - 1) + 1 = r
          BY <2>3, <2>5
        <4>2. bit(integers, r - 1) = h[(r - 1) + 1]
          BY <2>4, <4>1, PacksBits
        <4>. QED
          BY <4>1, <4>2
      <3>7. [k \in 1..m |-> IF bit(witness, k - 1) THEN got.weights[k] ELSE {}]
              = [k \in 1..m |-> IF f[k] THEN g[k + 1] ELSE {}]
        BY <3>3, <3>4, <3>5
      <3>8. {r \in 1..n : bit(integers, r - 1)} = {x \in 1..n : h[x]}
        BY <3>6
      <3>9. Plus(got.constant_weight,
                 Total([k \in 1..m |-> IF bit(witness, k - 1) THEN got.weights[k] ELSE {}]))
              = {r \in 1..n : bit(integers, r - 1)}
        BY <2>9, <3>4, <3>7, <3>8
      <3>. QED
        BY <2>5, <2>11, <2>14, <3>3, <3>4, <3>9
    <2>. QED
      BY <2>13, <2>14
  <1>. QED
    BY <1>1, InitAgrees, StepAgrees, PTL DEF Spec
=============================================================================
