--------------------------- MODULE SpartanKernels ----------------------------
(***************************************************************************)
(* Spartan's sumcheck kernels and prepared matrices.  A prover keeps its   *)
(* folded tables and the coefficients of the round about to run but the    *)
(* linear one, which the running claim implies; folding and preparing the  *)
(* next round are one traversal; coefficients start with the constant one. *)
(* The scratch buffers, overwritten before they are read, are left out.  A *)
(* sparse row is a sequence of entries <<column, coefficient>>, a row of M *)
(* one of columns; rows and columns are numbered from zero in the code's   *)
(* tables.  A prepared matrix keeps its coefficients once and shares       *)
(* positions with all its projections.                                     *)
(***************************************************************************)
EXTENDS Multilinear, Integers, FiniteSets, FiniteSetsExt

CONSTANTS BIND_CHUNK_COLUMN_VARS,  \* 16 in the code
          Words(_),                \* an integer's two's complement words
          Reduced(_)               \* an integer modulo the prime

add_coefficients(left, right) == [i \in DOMAIN left |-> Add(left[i], right[i])]

sum_coefficients(zeros, contributions) == FoldLeft(add_coefficients, zeros, contributions)

interpolate_pair(pair, r) == interpolate(pair[1], pair[2], r)

\* Entries 2 * pair and 2 * pair + 1 of the code's numbering.
PairAt(table, pair) == SubSeq(table, 2 * pair + 1, 2 * pair + 2)

fold_table(table, r) ==
    [i \in 1 .. Len(table) \div 2 |-> interpolate_pair(PairAt(table, i - 1), r)]

fold_product_tables(products, r) == [t \in DOMAIN products |-> fold_table(products[t], r)]

\* Four entries of a chunk become the two the next round pairs.
fold_two_pairs(table, chunk, r) ==
    <<interpolate_pair(PairAt(table, 2 * chunk), r), interpolate_pair(PairAt(table, 2 * chunk + 1), r)>>

Delta(pair) == Sub(pair[2], pair[1])

Cubic(eq, eq_delta, zero, linear, quadratic) ==
    <<Mul(eq, zero), Add(Mul(eq, quadratic), Mul(eq_delta, linear)), Mul(eq_delta, quadratic)>>

\* eq (az bz - cz) of four pairs as a polynomial, without its linear term.
cubic_contribution(eq, az, bz, cz) ==
    Cubic(eq[1], Delta(eq),
          Sub(Mul(az[1], bz[1]), cz[1]),
          Sub(Add(Mul(az[1], Delta(bz)), Mul(Delta(az), bz[1])), Delta(cz)),
          Mul(Delta(az), Delta(bz)))

LowFastest(low, high, pair) ==
    LET at == pair % (Len(low) \div 2)
        weight == high[pair \div (Len(low) \div 2) + 1]
    IN  [b \in 1 .. 2 |-> Mul(low[2 * at + b], weight)]

\* Mistake: the high entry is taken by the number of pairs of the whole low table.
equality_pair_WholeLow(low, high, pair) ==
    IF Len(low) = 1 THEN [b \in 1 .. 2 |-> Mul(low[1], high[2 * pair + b])]
    ELSE [b \in 1 .. 2 |-> Mul(LowFastest(low, <<One>>, pair % (Len(low) \div 2))[b],
                               high[pair \div Len(low) + 1])]

\* EqualityPairs::pair: the low factor varies fastest, until only one entry is left.
equality_pair(low, high, pair) ==
    IF Len(low) = 1 THEN [b \in 1 .. 2 |-> Mul(low[1], high[2 * pair + b])]
    ELSE LowFastest(low, high, pair)

compute_coefficients_without_linear(products, low, high) ==
    sum_coefficients(<<Zero, Zero, Zero>>,
        [p \in 1 .. Len(products.az) \div 2 |->
            cubic_contribution(equality_pair(low, high, p - 1), PairAt(products.az, p - 1),
                               PairAt(products.bz, p - 1), PairAt(products.cz, p - 1))])

\* The coefficients the fused traversal accumulates while it folds products.
fold_products_and_compute_next(products, r, low, high) ==
    sum_coefficients(<<Zero, Zero, Zero>>,
        [c \in 1 .. Len(products.az) \div 4 |->
            cubic_contribution(equality_pair(low, high, c - 1),
                               fold_two_pairs(products.az, c - 1, r),
                               fold_two_pairs(products.bz, c - 1, r),
                               fold_two_pairs(products.cz, c - 1, r))])

\* prove_outer_sumcheck, before the first challenge.
OuterStart(products, factors) ==
    [products |-> products, low |-> factors.low, high |-> factors.high,
     coefficients |-> compute_coefficients_without_linear(products, factors.low, factors.high)]

\* And after each: the low factor is bound first, then the high one; the last
\* fold prepares nothing.
OuterFolded(memory, low, high, r) ==
    [products |-> fold_product_tables(memory.products, r), low |-> low, high |-> high,
     coefficients |-> IF Len(memory.products.az) > 2
                      THEN fold_products_and_compute_next(memory.products, r, low, high)
                      ELSE memory.coefficients]

OuterBound(memory, r) ==
    IF Len(memory.low) > 1 THEN OuterFolded(memory, fold_table(memory.low, r), memory.high, r)
    ELSE OuterFolded(memory, memory.low, fold_table(memory.high, r), r)
-----------------------------------------------------------------------------
compute_inner_pair_coefficients_without_linear(matrix, witness) ==
    <<Mul(matrix[1], witness[1]), Mul(Delta(matrix), Delta(witness))>>

sum_inner_round_coefficients_without_linear(matrix, witness) ==
    sum_coefficients(<<Zero, Zero>>,
        [p \in 1 .. Len(matrix) \div 2 |->
            compute_inner_pair_coefficients_without_linear(PairAt(matrix, p - 1), PairAt(witness, p - 1))])

\* fold_inner_chunk over all chunks: the coefficients, from the folded pairs.
fold_and_compute_next_inner(matrix, witness, r) ==
    sum_coefficients(<<Zero, Zero>>,
        [c \in 1 .. Len(matrix) \div 4 |->
            compute_inner_pair_coefficients_without_linear(
                fold_two_pairs(matrix, c - 1, r), fold_two_pairs(witness, c - 1, r))])

\* prove_inner_sumcheck, before the first challenge and after each.
InnerStart(matrix, witness) ==
    [matrix |-> matrix, witness |-> witness,
     coefficients |-> IF Len(matrix) > 1
                      THEN sum_inner_round_coefficients_without_linear(matrix, witness)
                      ELSE <<>>]

InnerBound(memory, r) ==
    [matrix |-> fold_table(memory.matrix, r), witness |-> fold_table(memory.witness, r),
     coefficients |-> IF Len(memory.matrix) > 2
                      THEN fold_and_compute_next_inner(memory.matrix, memory.witness, r)
                      ELSE memory.coefficients]
-----------------------------------------------------------------------------
\* c1 = claim - 2 c0 - c2 - ... - cD, put back in its place.
reconstruct_round_coefficients(claim, without) ==
    <<without[1], Sub(Sub(claim, without[1]), Total(without))>> \o Tail(without)

\* Mistake: the sum over the cube is not compared with the claim.
round_claim_holds_Unchecked(claim, coefficients) == coefficients # <<>>

\* SumcheckProof::verify, a round: g(0) + g(1) is the running claim.
round_claim_holds(claim, coefficients) == Add(coefficients[1], Total(coefficients)) = claim

\* Horner's rule from the highest coefficient.
evaluate_polynomial(coefficients, r) ==
    FoldRight(LAMBDA coefficient, value : Add(Mul(value, r), coefficient), coefficients, Zero)

\* OuterSumcheckProof::verify: the terminal identity.
TerminalHolds(claim, tau, point, terms) ==
    claim = Mul(eq_eval(tau, point), Sub(Mul(terms.az, terms.bz), terms.cz))
-----------------------------------------------------------------------------
\* try_from_rows: strictly increasing columns, all within bounds.
try_from_rows(columns, rows) ==
    \A r \in DOMAIN rows : \A k \in DOMAIN rows[r] :
        /\ rows[r][k] < columns
        /\ k > 1 => rows[r][k - 1] < rows[r][k]

ColumnsOf(rows) == [r \in DOMAIN rows |-> [k \in DOMAIN rows[r] |-> rows[r][k][1]]]

\* One shape for A, B and C, and M produces what they consume.
validate_shape(m, abc) ==
    /\ \A t \in 2 .. 3 : /\ Len(abc[t].rows) = Len(abc[1].rows)
                         /\ abc[t].columns = abc[1].columns
    /\ Len(m.rows) = abc[1].columns

padded_num_vars(length) == CHOOSE n \in 0 .. length : 2^n >= length /\ (n = 0 \/ 2^(n - 1) < length)

Flattened(rows) == FoldLeft(LAMBDA acc, row : acc \o row, <<>>, rows)

\* Positions::new: row i owns the entries row_starts[i] + 1 .. row_starts[i + 1].
Positions(rows) ==
    [row_starts |-> FoldLeft(LAMBDA starts, row : Append(starts, Last(starts) + Len(row)), <<0>>, rows),
     columns    |-> [k \in DOMAIN Flattened(rows) |-> Flattened(rows)[k][1]]]

\* The entries a <= k < b of a row that fall into one chunk are a run.
ChunkEnd(columns, chunk_len, start, end) ==
    start + Cardinality({k \in start + 1 .. end :
                            columns[k] \div chunk_len = columns[start + 1] \div chunk_len})

Span(columns, chunk_len, row, start, end) ==
    [chunk |-> columns[start + 1] \div chunk_len, row |-> row, start |-> start, end |-> end]

\* The runs of a row, left to right.
RowSpans(positions, chunk_len, row) ==
    LET end == positions.row_starts[row + 1]
        columns == positions.columns
        Next(spans, start, stop) ==
            Append(spans, Span(columns, chunk_len, row, start, stop))
        Run(spans, k) ==
            IF k >= end \/ (spans # <<>> /\ k < Last(spans).end) THEN spans
            ELSE Next(spans, k, ChunkEnd(columns, chunk_len, k, end))
    IN  FoldLeft(Run, <<>>, [i \in 1 .. end - positions.row_starts[row] |-> positions.row_starts[row] + i - 1])

\* ColumnChunkIndex::new: the runs of every chunk, in row order.
ColumnChunks(positions, chunk_len, count) ==
    LET spans == Flattened([row \in 1 .. Len(positions.row_starts) - 1 |-> RowSpans(positions, chunk_len, row)])
    IN  [chunk \in 1 .. count |-> SelectSeq(spans, LAMBDA span : span.chunk = chunk - 1)]

\* Layout::new, given the positions of A, B and C.
LayoutOf(row_count, column_count, positions, column_vars) ==
    LET chunk_vars == IF column_vars < BIND_CHUNK_COLUMN_VARS THEN column_vars ELSE BIND_CHUNK_COLUMN_VARS
    IN  [positions |-> positions,
         chunk_len |-> 2^chunk_vars, chunk_vars |-> chunk_vars,
         column_chunks |-> [t \in DOMAIN positions |->
                              ColumnChunks(positions[t], 2^chunk_vars, 2^(column_vars - chunk_vars))],
         row_count |-> row_count, column_count |-> column_count,
         num_row_vars |-> padded_num_vars(row_count), num_column_vars |-> column_vars]

Layout(abc) ==
    LayoutOf(Len(abc[1].rows), abc[1].columns,
             [t \in 1 .. 3 |-> Positions(abc[t].rows)], padded_num_vars(abc[1].columns))

\* The distinct coefficients in order of first appearance, and every
\* coefficient by its place among them.
Deduplicated(values) ==
    FoldLeft(LAMBDA acc, value : IF value \in Range(acc) THEN acc ELSE Append(acc, value),
             <<>>, Flattened(values))

IndexOf(distinct, value) == CHOOSE i \in DOMAIN distinct : distinct[i] = value

Indexed(distinct, values) ==
    [t \in DOMAIN values |-> [k \in DOMAIN values[t] |-> IndexOf(distinct, values[t][k])]]

Coefficients(abc) ==
    [t \in 1 .. 3 |-> [k \in DOMAIN Flattened(abc[t].rows) |-> Flattened(abc[t].rows)[k][2]]]

PreparedOf(abc, values) ==
    [layout |-> Layout(abc), coefficients |-> Deduplicated(values),
     coefficient_indices |-> Indexed(Deduplicated(values), values)]

\* PreparedIntegerMatrices::new; the digest is a function of m and abc.
Prepared(abc) == PreparedOf(abc, Coefficients(abc))

\* Every distinct coefficient mapped once, then expanded.
project(prepared) ==
    [layout |-> prepared.layout,
     values |-> [t \in 1 .. 3 |->
                   [k \in DOMAIN prepared.coefficient_indices[t] |->
                      Reduced(prepared.coefficients[prepared.coefficient_indices[t][k]])]]]
-----------------------------------------------------------------------------
Padded(values, n) == values \o [i \in 1 .. 2^n - Len(values) |-> Zero]

\* Exact products are reduced and padded to the row domain.
build_product_mles(products, rows) ==
    [t \in DOMAIN products |-> Padded([i \in DOMAIN products[t] |-> Reduced(products[t][i])], padded_num_vars(rows))]

\* The assignment has its length and starts with the constant one.
AssignmentFits(bits, columns) == Len(bits) = columns /\ columns > 0 /\ bits[1] = 1

build_assignment_mle(bits) ==
    Padded([j \in DOMAIN bits |-> IF bits[j] = 1 THEN One ELSE Zero], padded_num_vars(Len(bits)))

\* The batching scales of A, B and C.
batched(rho) == <<One, rho, Mul(rho, rho)>>

Entries(span) == span.start + 1 .. span.end

SpanSum(span, terms) == Total([i \in 1 .. span.end - span.start |-> terms[span.start + i]])

\* What entry j of the dense table accumulates: the chunk that owns it, the
\* three matrices in turn, each chunk's runs in row order.
Accumulated(matrices, weights, scales, j) ==
    Total([t \in 1 .. 3 |->
        Total([s \in DOMAIN matrices.layout.column_chunks[t][j \div matrices.layout.chunk_len + 1] |->
            LET span == matrices.layout.column_chunks[t][j \div matrices.layout.chunk_len + 1][s]
            IN  SpanSum(span, [k \in Entries(span) |->
                    IF matrices.layout.positions[t].columns[k] = j
                    THEN Mul(Mul(weights[span.row], scales[t]), matrices.values[t][k])
                    ELSE Zero])])])

\* The prover's table D(j) = sum_i eq(i, r_x) (A + rho B + rho^2 C)[i, j].
BoundWith(matrices, weights, scales) ==
    [j \in 1 .. 2^matrices.layout.num_column_vars |-> Accumulated(matrices, weights, scales, j - 1)]

bind_and_batch(matrices, row_point, rho) == BoundWith(matrices, eq_table(row_point), batched(rho))

\* A chunk's runs against the low weights of its columns.
ChunkSum(matrices, chunk, weights, low, scales) ==
    Total([t \in 1 .. 3 |->
        Mul(scales[t],
            Total([s \in DOMAIN matrices.layout.column_chunks[t][chunk] |->
                LET span == matrices.layout.column_chunks[t][chunk][s]
                IN  Mul(weights[span.row],
                        SpanSum(span, [k \in Entries(span) |->
                            Mul(low[matrices.layout.positions[t].columns[k]
                                      - (chunk - 1) * matrices.layout.chunk_len + 1],
                                matrices.values[t][k])]))]))])

EvaluatedWith(matrices, weights, low, high, scales) ==
    Total([chunk \in DOMAIN high |->
             Mul(high[chunk], ChunkSum(matrices, chunk, weights, low, scales))])

\* The verifier's D(r_y), from the nonzeros and never the dense table.
evaluate_batched(matrices, row_point, rho, column_point) ==
    EvaluatedWith(matrices, eq_table(row_point),
                  eq_table(SubSeq(column_point, 1, matrices.layout.chunk_vars)),
                  eq_table(SubSeq(column_point, matrices.layout.chunk_vars + 1, Len(column_point))),
                  batched(rho))
-----------------------------------------------------------------------------
\* What the digest hashes, number by number; labels are the numbers below
\* zero.  hash_words counts the words before it writes them.
hash_words(value) == <<Len(Words(value))>> \o Words(value)

\* Mistake: the rows are hashed without their lengths.
HashedRow_Unframed(entries) == Flattened(entries)

HashedRow(entries) == <<Len(entries)>> \o Flattened(entries)

PositionWords(row) == [k \in DOMAIN row |-> <<row[k]>>]
EntryWords(row) == [k \in DOMAIN row |-> <<row[k][1]>> \o hash_words(row[k][2])]

HashedMatrix(label, columns, rows) ==
    <<label, Len(rows), columns>> \o Flattened([r \in DOMAIN rows |-> HashedRow(rows[r])])

\* integer_matrix_digest: M by positions, A, B and C with their coefficients.
matrix_digest(m, abc) ==
    HashedMatrix(-1, m.columns, [r \in DOMAIN m.rows |-> PositionWords(m.rows[r])])
        \o Flattened([t \in 1 .. 3 |->
             HashedMatrix(-1 - t, abc[t].columns, [r \in DOMAIN abc[t].rows |-> EntryWords(abc[t].rows[r])])])
=============================================================================
