------------------------------ MODULE Spartan ------------------------------
(***************************************************************************)
(* The Spartan argument under a drawn prime, from the committed assignment *)
(* to the linear claim BitZ takes on: a prover that follows the code, or   *)
(* one that sends anything, against verify_spartan_proof.  A message is    *)
(* absorbed (sent) before its challenge is drawn.                          *)
(***************************************************************************)
EXTENDS Integers, Sequences, SequencesExt, FiniteSets

CONSTANTS
    P,                      \* the prime
    Jobs,                   \* statements with an assignment, a prover and a verifier
    Draws,                  \* the challenges a run may see
    BIND_CHUNK_COLUMN_VARS, Words(_),
    PACK_BITS, MIN_LOG_BITS \* row coordinates and least size of a claim

VARIABLES
    stage, job,
    claim,      \* the running claim
    point,      \* the challenges of the current sumcheck
    sent,       \* a round polynomial whose challenge is not drawn yet
    memory,     \* what the honest prover keeps between rounds
    opened,     \* the claim left on the assignment
    lucky,      \* a draw made a false claim true
    truth,      \* the tables of the true sum
    matrices, tau, row_point, rho, terms

shared == <<stage, job, claim, point, sent, memory, opened, lucky>>
vars == <<shared, truth, matrices, tau, row_point, rho, terms>>

Field == 0 .. P - 1
AddField(x, y) == (x + y) % P
SubField(x, y) == (x - y) % P
MulField(x, y) == (x * y) % P
Reduced(n) == n % P

INSTANCE SpartanKernels WITH Zero <- 0, One <- 1, Add <- AddField, Sub <- SubField, Mul <- MulField

\* IntegerProducts: A h, B h and C h over the integers.
RowProduct(row, bits) == FoldLeft(LAMBDA sum, entry : sum + entry[2] * bits[entry[1] + 1], 0, row)

Products(statement) ==
    LET Of(t) == [i \in DOMAIN statement.abc[t].rows |-> RowProduct(statement.abc[t].rows[i], statement.bits)]
    IN  [az |-> Of(1), bz |-> Of(2), cz |-> Of(3)]

RowVars == matrices.layout.num_row_vars
ColumnVars == matrices.layout.num_column_vars

Honest == job.prover = "honest"

ProductMles == build_product_mles(Products(job), matrices.layout.row_count)
AssignmentMle == build_assignment_mle(job.bits)
-----------------------------------------------------------------------------
(***************************************************************************)
(* What is true of the committed assignment, by definition: the tables of  *)
(* the sum that is left, bound at the challenges drawn so far.             *)
(***************************************************************************)
BoundAt(table, r) ==
    [x \in 1 .. Len(table) \div 2 |->
        ((1 - r) * table[2 * x - 1] + r * table[2 * x]) % P]

Bound(tables, r) == [t \in DOMAIN tables |-> BoundAt(tables[t], r)]

\* The statement: the assignment starts with one and satisfies every row.
Statement ==
    /\ job.bits[1] = 1
    /\ \A i \in DOMAIN job.abc[1].rows :
          (Products(job).az[i] * Products(job).bz[i] - Products(job).cz[i]) % P = 0

PaddedTo(values, n) == [i \in 1 .. 2^n |-> IF i \in DOMAIN values THEN values[i] % P ELSE 0]

Residual == [i \in DOMAIN Products(job).az |->
                Products(job).az[i] * Products(job).bz[i] - Products(job).cz[i]]

\* eq(tau, .) beside the three products.
OuterTables(products) ==
    [eq |-> [x \in 1 .. 2^Len(tau) |-> EqAt(x - 1, tau)],
     az |-> PaddedTo(products.az, Len(tau)), bz |-> PaddedTo(products.bz, Len(tau)),
     cz |-> PaddedTo(products.cz, Len(tau))]

OuterSum(t) == Total([x \in DOMAIN t.eq |-> (t.eq[x] * (t.az[x] * t.bz[x] - t.cz[x])) % P])

\* D, entry by entry from the statement's rows, beside the assignment.
Coefficient(row, j) == FoldLeft(LAMBDA sum, entry : IF entry[1] = j THEN sum + entry[2] ELSE sum, 0, row)

BatchedColumn(j, r) ==
    Total([i \in DOMAIN job.abc[1].rows |->
        (EqAt(i - 1, row_point) * (Coefficient(job.abc[1].rows[i], j) + r * Coefficient(job.abc[2].rows[i], j)
                                   + r * r * Coefficient(job.abc[3].rows[i], j))) % P])

InnerTables(r) ==
    [d |-> [j \in 1 .. 2^ColumnVars |-> BatchedColumn(j - 1, r)], h |-> PaddedTo(job.bits, ColumnVars)]

InnerSum(t) == Total([y \in DOMAIN t.d |-> (t.d[y] * t.h[y]) % P])

\* The three evaluations together, and the linear claim's inner product.
Batch(az, bz, cz, r) == (az + r * bz + r * r * cz) % P

LinearSum(rows, columns) ==
    Total([j \in DOMAIN job.bits |->
        (rows[((j - 1) % Len(rows)) + 1] * columns[((j - 1) \div Len(rows)) + 1] * job.bits[j]) % P])

\* What the verifier would need to be true at each stage.
ClaimHolds ==
    CASE stage \in {"setup", "constant", "prime"} -> Statement
      [] stage = "tau"      -> job.bits[1] = 1 /\ \A x \in DOMAIN truth.residual : truth.residual[x] = 0
      [] stage = "outer"    -> claim = OuterSum(truth)
      [] stage = "rho"      -> \A t \in DOMAIN terms : terms[t] = truth[t][1]
      [] stage = "inner"    -> claim = InnerSum(truth)
      [] stage = "claimed"  -> MulField(opened.scale, Extension(PaddedTo(job.bits, ColumnVars), opened.point)) = opened.value
      [] stage = "linear"   -> LinearSum(opened.rows, opened.columns) = claim
      [] OTHER              -> stage = "accepted"
-----------------------------------------------------------------------------
Reject ==
    /\ stage' = "rejected"
    /\ UNCHANGED <<job, claim, point, sent, memory, opened, lucky, truth, matrices, tau, row_point, rho, terms>>

Init ==
    /\ job \in Jobs
    /\ stage = "setup"
    /\ claim = 0
    /\ lucky = FALSE
    /\ point = <<>> /\ sent = <<>> /\ memory = <<>> /\ opened = <<>>
    /\ truth = <<>> /\ matrices = <<>> /\ tau = <<>> /\ row_point = <<>> /\ rho = <<>> /\ terms = <<>>

\* The matrices are constructed, their shapes compared, and prepared once.
WellFormed(statement) ==
    /\ try_from_rows(statement.m.columns, statement.m.rows)
    /\ \A t \in 1 .. 3 : try_from_rows(statement.abc[t].columns, ColumnsOf(statement.abc[t].rows))
    /\ validate_shape(statement.m, statement.abc)

Prepare ==
    /\ stage = "setup"
    /\ IF ~ WellFormed(job) THEN Reject
       ELSE /\ stage' = "constant"
            /\ matrices' = Prepared(job.abc)
            /\ UNCHANGED <<job, claim, point, sent, memory, opened, lucky, truth, tau, row_point, rho, terms>>

is_identity(map) == Len(map.rows) = map.columns /\ \A i \in DOMAIN map.rows : map.rows[i] = <<i - 1>>

\* Where M is the identity the assignment itself is committed.
OpeningPath == IF is_identity(job.m) THEN "direct" ELSE "virtual"

\* Mistake: the committed assignment is taken to start with one.
ConstantChecked_Never == TRUE

\* A verifier that has the assignment checks it; otherwise the constant is
\* opened to one where it is committed, and supplied by M where it is not.
ConstantChecked ==
    CASE job.verifier = "aware"   -> AssignmentFits(job.bits, job.abc[1].columns)
      [] OpeningPath = "direct"   -> job.bits[1] = 1
      [] OTHER                    -> TRUE

OpenConstant ==
    /\ stage = "constant"
    /\ IF ~ ConstantChecked THEN Reject
       ELSE /\ stage' = "prime"
            /\ UNCHANGED <<job, claim, point, sent, memory, opened, lucky, truth, matrices, tau, row_point, rho, terms>>

\* under_prime: the prepared matrices are projected, once the prime is drawn.
UnderPrime ==
    /\ stage = "prime"
    /\ stage' = "tau"
    /\ matrices' = project(matrices)
    /\ truth' = [residual |-> PaddedTo(Residual, padded_num_vars(Len(Residual)))]
    /\ UNCHANGED <<job, claim, point, sent, memory, opened, lucky, tau, row_point, rho, terms>>

Luck == lucky' = (lucky \/ (~ ClaimHolds /\ ClaimHolds'))

DrawTau == \E r \in Draws :
    /\ stage = "tau"
    /\ Len(tau) < RowVars
    /\ tau' = Append(tau, r)
    /\ truth' = Bound(truth, r)
    /\ UNCHANGED <<stage, job, claim, point, sent, memory, opened, matrices, row_point, rho, terms>>
    /\ Luck

\* The proof's number of rounds is compared with the statement's.
Counts(n) == IF Honest THEN {n} ELSE {n, n + 1}

StartOuter ==
    /\ stage = "tau"
    /\ Len(tau) = RowVars
    /\ \E count \in Counts(RowVars) :
       IF count # RowVars THEN Reject
       ELSE /\ stage' = "outer"
            /\ claim' = 0
            /\ truth' = OuterTables(Products(job))
            /\ memory' = IF Honest THEN OuterStart(ProductMles, make_equality_factors(tau)) ELSE <<>>
            /\ UNCHANGED <<job, point, sent, opened, lucky, matrices, tau, row_point, rho, terms>>

\* A round polynomial: the honest one, or any of the degree; a wrong linear
\* coefficient stands for all that fail the check.
Polynomials(coefficients) ==
    IF Honest THEN {reconstruct_round_coefficients(claim, memory.coefficients)}
    ELSE LET passing == {reconstruct_round_coefficients(claim, without) : without \in [1 .. coefficients - 1 -> Field]}
         IN  passing \union {[g EXCEPT ![2] = AddField(@, k)] : g \in passing, k \in {1}}

Send(coefficients) == \E g \in Polynomials(coefficients) :
    /\ sent = <<>>
    /\ IF ~ round_claim_holds(claim, g) THEN Reject
       ELSE /\ sent' = g
            /\ UNCHANGED <<stage, job, claim, point, memory, opened, lucky, truth, matrices, tau, row_point, rho, terms>>

\* folded is what the code's prover remembers after the challenge r.
Draw(r, folded) ==
    /\ sent # <<>>
    /\ claim' = evaluate_polynomial(sent, r)
    /\ point' = Append(point, r)
    /\ sent' = <<>>
    /\ truth' = Bound(truth, r)
    /\ memory' = IF Honest THEN folded ELSE <<>>
    /\ UNCHANGED <<stage, job, opened, matrices, tau, row_point, rho, terms>>
    /\ Luck

SendOuter == stage = "outer" /\ Len(point) < RowVars /\ Send(4)
DrawOuter == stage = "outer" /\ \E r \in Draws : Draw(r, OuterBound(memory, r))

\* The three evaluations, absorbed before the terminal identity is checked.
Terms ==
    IF Honest THEN {[t \in {"az", "bz", "cz"} |-> memory.products[t][1]]}
    ELSE [{"az", "bz", "cz"} -> Field]

SendTerms ==
    /\ stage = "outer"
    /\ Len(point) = RowVars
    /\ \E values \in Terms :
       IF ~ TerminalHolds(claim, tau, point, values) THEN Reject
       ELSE /\ stage' = "rho"
            /\ terms' = values
            /\ row_point' = point
            /\ point' = <<>>
            /\ tau' = <<>>
            /\ claim' = 0
            /\ memory' = <<>>
            /\ UNCHANGED <<job, sent, opened, lucky, truth, matrices, rho>>

inner_initial_claim(values, r) ==
    AddField(AddField(values.az, MulField(r, values.bz)), MulField(MulField(r, r), values.cz))

\* rho batches the three; both sides then run the inner sumcheck.
DrawRho ==
    /\ stage = "rho"
    /\ \E r \in Draws, count \in Counts(ColumnVars) :
       IF count # ColumnVars THEN Reject
       ELSE /\ stage' = "inner"
            /\ rho' = r
            /\ claim' = inner_initial_claim(terms, r)
            /\ truth' = InnerTables(r)
            /\ memory' = IF Honest THEN InnerStart(bind_and_batch(matrices, row_point, r), AssignmentMle) ELSE <<>>
            /\ terms' = <<>>
            /\ UNCHANGED <<job, point, sent, opened, matrices, tau, row_point>>
            /\ Luck

SendInner == stage = "inner" /\ Len(point) < ColumnVars /\ Send(3)
DrawInner == stage = "inner" /\ \E r \in Draws : Draw(r, InnerBound(memory, r))

\* The verifier's own evaluation of D scales the claim on the assignment.  The
\* prover returns its claim too, and where the verifier has the assignment the
\* two are compared.
Returned(scale) == IF Honest THEN {memory.matrix[1]} ELSE {scale, AddField(scale, 1)}

FinishWith(scale) == \E returned \in Returned(scale) :
    IF job.verifier = "aware" /\ returned # scale THEN Reject
    ELSE /\ stage' = "claimed"
         /\ opened' = [point |-> point, scale |-> scale, value |-> claim]
         /\ memory' = <<>>
         /\ point' = <<>>
         /\ UNCHANGED <<job, claim, sent, lucky, truth, matrices, tau, row_point, rho, terms>>

Finish ==
    /\ stage = "inner"
    /\ Len(point) = ColumnVars
    /\ sent = <<>>
    /\ FinishWith(evaluate_batched(matrices, row_point, rho, point))

\* verify_spartan_with_mle_claim, where the verifier has the assignment.
CheckAssignment ==
    /\ stage = "claimed"
    /\ job.verifier = "aware"
    /\ IF nonsuccinct_verify(opened, AssignmentMle)
       THEN /\ stage' = "accepted"
            /\ UNCHANGED <<job, claim, point, sent, memory, opened, lucky, truth, matrices, tau, row_point, rho, terms>>
       ELSE Reject

\* shape_for: the claim's shape, never below the backend's least size.
LogBits(bits) == IF padded_num_vars(bits) < MIN_LOG_BITS THEN MIN_LOG_BITS ELSE padded_num_vars(bits)

\* Zero high coordinates select the assignment inside its padding.
opening_claim(terminal, log_bits) ==
    LET whole == terminal.point \o [i \in 1 .. log_bits - Len(terminal.point) |-> 0]
    IN  [rows |-> [i \in 1 .. 2^PACK_BITS |->
                     MulField(terminal.scale, eq_table(SubSeq(whole, 1, PACK_BITS))[i])],
         columns |-> eq_table(SubSeq(whole, PACK_BITS + 1, log_bits))]

Linearize ==
    /\ stage = "claimed"
    /\ job.verifier # "aware"
    /\ stage' = "linear"
    /\ opened' = opening_claim(opened, LogBits(Len(job.bits)))
    /\ UNCHANGED <<job, claim, point, sent, memory, lucky, truth, matrices, tau, row_point, rho, terms>>

\* The BitZ argument proves the linear claim if it is true of the commitment.
Open ==
    /\ stage = "linear"
    /\ IF ClaimHolds
       THEN /\ stage' = "accepted"
            /\ UNCHANGED <<job, claim, point, sent, memory, opened, lucky, truth, matrices, tau, row_point, rho, terms>>
       ELSE Reject

Next ==
    \/ Prepare \/ OpenConstant \/ UnderPrime \/ DrawTau \/ StartOuter \/ SendOuter \/ DrawOuter
    \/ SendTerms \/ DrawRho \/ SendInner \/ DrawInner \/ Finish
    \/ CheckAssignment \/ Linearize \/ Open

Spec == Init /\ [][Next]_vars
-----------------------------------------------------------------------------
\* How many challenges make the false claim of this state true.
LuckyDraws ==
    CASE stage = "tau" /\ Len(tau) < RowVars ->
            {r \in Field : \A x \in DOMAIN BoundAt(truth.residual, r) : BoundAt(truth.residual, r)[x] = 0}
      [] stage = "outer" /\ sent # <<>> ->
            {r \in Field : evaluate_polynomial(sent, r) = OuterSum(Bound(truth, r))}
      [] stage = "rho" ->
            {r \in Field : Batch(terms.az, terms.bz, terms.cz, r)
                             = Batch(truth.az[1], truth.bz[1], truth.cz[1], r)}
      [] stage = "inner" /\ sent # <<>> ->
            {r \in Field : evaluate_polynomial(sent, r) = InnerSum(Bound(truth, r))}
      [] OTHER -> {}

\* The degree of what is drawn at.
DrawDegree == CASE stage = "tau" -> 1 [] stage = "outer" -> 3 [] OTHER -> 2

\* A statement that is false of the committed assignment leaves a false claim
\* at every later stage, and so is never accepted, unless a challenge was lucky.
SpartanSound == stage # "rejected" /\ ~ lucky /\ ~ Statement => ~ ClaimHolds
\* Whatever the prover sent, a false claim survives the next challenge but for
\* as many values of it as the degree of what is drawn at.
SpartanLuck == ~ ClaimHolds => Cardinality(LuckyDraws) <= DrawDegree
\* The code's prover of a true statement is never refused: its split equality
\* tables, fused folds and dropped linear coefficients are the true sum's.
SpartanComplete == Honest /\ WellFormed(job) /\ Statement => stage # "rejected" /\ ClaimHolds
=============================================================================
