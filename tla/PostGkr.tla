------------------------------ MODULE PostGkr ------------------------------
(***************************************************************************)
(* From the inner product that the grand product leaves on the bits h to   *)
(* one equation on the committed elements: the claim is transposed through *)
(* M when h = M (1 || f), the sumcheck of crate post_gkr binds every       *)
(* variable, the first one off the packed bits, and the ring switch of     *)
(* crate pcs batches what is left with the out-of-domain claim, for the    *)
(* backend.  No round of the sumcheck is checked by itself.  A job holds   *)
(* f, the map, the query and a prover that follows the code or sends       *)
(* anything.                                                               *)
(***************************************************************************)
EXTENDS BinaryField

CONSTANTS
    ELEMENT,     \* log of the bits in a packed element: LOG_PACKING, 7 in the code
    BLOCK_LOG,   \* log of a block in add_dense_basis, 12 in the code
    Queries,     \* the jobs
    Challenges,  \* the challenges a run may see
    Forged,      \* what another prover sends where all elements are too many
    LOW_BITS     \* of poly::f128::evaluate, 7 in the code

\* An element of the field is as wide as a packed one.
ASSUME RingAssumption == Degree = 2^ELEMENT /\ BLOCK_LOG \in Nat

VARIABLES stage, job, claim, point, sent, memory, opened, lucky, truth,
          ood        \* the claim retained with the commitment, or none

postVars == <<stage, job, claim, point, sent, memory, opened, lucky, truth, ood>>

FollowsCode == job.prover = "honest"
-----------------------------------------------------------------------------
(***************************************************************************)
(* Between an evaluation of the committed bits and the backend: the        *)
(* out-of-domain claim of a commitment, the partial evaluations one per    *)
(* bit of a packed element, their batching, and the basis both sides hand  *)
(* to Ligerito, a table on the prover's side and a function on the         *)
(* verifier's.  Bit v of element y is the committed bit y * 2^ELEMENT + v. *)
(***************************************************************************)
Plus(x, y) == x ++ y
Times(x, y) == x ** y
M == INSTANCE Multilinear WITH Zero <- 0, One <- 1, Add <- Plus, Sub <- Plus, Mul <- Times

CLAIM_COUNT == 2^ELEMENT
Prefix(at) == SubSeq(at, 1, ELEMENT)
Suffix(at) == SubSeq(at, ELEMENT + 1, Len(at))

\* The entries whose bit of an element is one, added up.
Chosen(element, entries) == Total([u \in 1 .. CLAIM_COUNT |-> IF Bit(element, u - 1) = 1 THEN entries[u] ELSE 0])
-----------------------------------------------------------------------------
\* s_v, the bits v of all elements at the suffix.
fold_1b_rows(elements, suffix_tensor) ==
    [v \in 1 .. CLAIM_COUNT |->
        Total([y \in DOMAIN elements |-> IF Bit(elements[y], v - 1) = 1 THEN suffix_tensor[y] ELSE 0])]

target_matches(at, claims, target) == M!inner_product(M!eq_table(Prefix(at)), claims) = target

\* Off-diagonal blocks 2^k wide change places between rows 2^k apart.
swap_blocks(rows, k) ==
    LET Upper(n) == (n \div 2^k) % 2 = 1
        Moved(i, j) == IF Upper(i) = Upper(j) THEN Bit(rows[i + 1], j)
                       ELSE IF Upper(i) THEN Bit(rows[i + 1 - 2^k], j + 2^k)
                       ELSE Bit(rows[i + 1 + 2^k], j - 2^k)
    IN  [i \in DOMAIN rows |-> MapThenSumSet(LAMBDA j : 2^j * Moved(i - 1, j), 0 .. CLAIM_COUNT - 1)]

tensor_algebra_transpose(rows) == FoldLeft(swap_blocks, rows, [k \in 1 .. ELEMENT |-> ELEMENT - k])

batch_claims(claims, weights) == M!inner_product(tensor_algebra_transpose(claims), weights)

\* PreparedClaims::reduce_dense: an element of the suffix tensor picks weights.
fold_b128_elems(suffix_tensor, weights) == [y \in DOMAIN suffix_tensor |-> Chosen(suffix_tensor[y], weights)]
-----------------------------------------------------------------------------
(***************************************************************************)
(* The verifier's basis at ris: the equality polynomial of the suffix with *)
(* its second argument in the tensor algebra, entry u the factor of X^u.   *)
(***************************************************************************)
RsEqStep(tensor, x, r) ==
    [u \in 1 .. CLAIM_COUNT |->
        ((1 ++ x) ** tensor[u])
          ++ Total([w \in 1 .. CLAIM_COUNT |-> IF Bit(2^(w - 1) ** r, u - 1) = 1 THEN tensor[w] ELSE 0])]

RsEq(tensor, xs, rs) == FoldLeft(LAMBDA acc, i : RsEqStep(acc, xs[i], rs[i]), tensor, [i \in DOMAIN xs |-> i])

Cube(n) == [y \in 1 .. 2^n |-> [i \in 1 .. n |-> Bit(y - 1, i - 1)]]

evaluate_basis(suffix, weights, ris) ==
    LET n == Len(suffix) - Len(ris)
        prefix == RsEq([u \in 1 .. CLAIM_COUNT |-> IF u = 1 THEN 1 ELSE 0], ris, SubSeq(suffix, 1, Len(ris)))
    IN  [y \in 1 .. 2^n |->
            M!inner_product(RsEq(prefix, Cube(n)[y], SubSeq(suffix, Len(ris) + 1, Len(suffix))), weights)]
-----------------------------------------------------------------------------
(***************************************************************************)
(* The out-of-domain claim, added with a coefficient of its own.           *)
(***************************************************************************)
add_dense_basis(basis, at, coefficient) ==
    LET low == IF Len(at) < BLOCK_LOG THEN Len(at) ELSE BLOCK_LOG
        tail == M!eq_table(SubSeq(at, 1, low))
        head == M!eq_table(SubSeq(at, low + 1, Len(at)))
    IN  [y \in DOMAIN basis |->
            basis[y] ++ ((coefficient ** head[((y - 1) \div 2^low) + 1]) ** tail[((y - 1) % 2^low) + 1])]

\* With the first coordinates fixed to ris; nothing is left of a basis of
\* another size.
add_succinct_basis(basis, at, coefficient, ris) ==
    IF Len(at) # Len(ris) + M!num_vars(basis) THEN [y \in DOMAIN basis |-> 0]
    ELSE LET prefix == FoldLeft(LAMBDA acc, i : acc ** ((1 ++ at[i]) ++ ris[i]), 1, [i \in DOMAIN ris |-> i])
             tail == M!eq_table(SubSeq(at, Len(ris) + 1, Len(at)))
         IN  [y \in DOMAIN basis |-> basis[y] ++ ((coefficient ** prefix) ** tail[y])]
-----------------------------------------------------------------------------
\* h = M (1 || f), or f itself where h is committed.
Image(map, f) ==
    [i \in DOMAIN map.rows |-> Cardinality({k \in DOMAIN map.rows[i] :
                                   map.rows[i][k] = 0 \/ f[map.rows[i][k]] = 1}) % 2]

ClaimedBits == IF job.path = "virtual" THEN Image(job.map, job.f) ELSE job.f

Weighted(weights, bits) == M!Total([i \in DOMAIN bits |-> IF bits[i] = 1 THEN weights[i] ELSE 0])

BitsTable(bits, n) == [i \in 1 .. 2^n |-> IF i \in DOMAIN bits THEN bits[i] ELSE 0]

\* The value of a query, by definition: column by column, rows within.
QueryWeights(query) ==
    IF query.kind = "mle" THEN [i \in 1 .. 2^Len(query.point) |-> M!EqAt(i - 1, query.point)]
    ELSE [i \in 1 .. Len(query.rows) * Len(query.columns) |->
            query.rows[((i - 1) % Len(query.rows)) + 1] ** query.columns[((i - 1) \div Len(query.rows)) + 1]]

QueryTrue == Weighted(QueryWeights(job.query), ClaimedBits) = claim

BoundTable(table, r) ==
    [x \in 1 .. Len(table) \div 2 |-> ((1 ++ r) ** table[2 * x - 1]) ++ (r ** table[2 * x])]

BoundTables(tables, r) == [t \in DOMAIN tables |-> BoundTable(tables[t], r)]

TrueSum(tables) == M!Total([x \in DOMAIN tables.w |-> tables.w[x] ** tables.v[x]])

CommittedBits == IF job.path = "virtual" THEN job.committed_bits ELSE job.log_bits

\* Evaluations of the bits v of all elements, and of the elements.
BitsOf(v) == [y \in 1 .. 2^(CommittedBits - ELEMENT) |->
                 BitsTable(job.f, CommittedBits)[(y - 1) * CLAIM_COUNT + v + 1]]
ElementsTable ==
    [y \in 1 .. 2^(CommittedBits - ELEMENT) |->
        MapThenSumSet(LAMBDA v : 2^v * BitsOf(v)[y], 0 .. CLAIM_COUNT - 1)]
TrueClaims(at) == [v \in 1 .. CLAIM_COUNT |-> M!Extension(BitsOf(v - 1), Suffix(at))]
OodHolds == ood = <<>> \/ M!Extension(ElementsTable, ood.point) = ood.value

\* The equation that a batching leaves: a weight for each element.
TrueBasis(at, batching, coefficient) ==
    [y \in DOMAIN ElementsTable |->
        Chosen(M!EqAt(y - 1, Suffix(at)), [u \in 1 .. CLAIM_COUNT |-> M!EqAt(u - 1, batching)])
          ++ IF ood = <<>> THEN 0 ELSE coefficient ** M!EqAt(y - 1, ood.point)]
BatchedTrue(at, batching, coefficient) ==
    M!inner_product(TrueBasis(at, batching, coefficient), ElementsTable)

\* Its target by powers of X.
TrueTransposed(at) ==
    [u \in 1 .. CLAIM_COUNT |-> Total([y \in DOMAIN ElementsTable |->
        IF Bit(M!EqAt(y - 1, Suffix(at)), u - 1) = 1 THEN ElementsTable[y] ELSE 0])]

ReductionHolds ==
    CASE stage \in {"commit", "query"} -> QueryTrue
      [] stage = "rounds"  -> claim = TrueSum(truth)
      [] stage = "mle"     -> M!Extension(BitsTable(job.f, Len(opened.point)), opened.point) = opened.target
      [] stage = "ring"    -> sent = TrueClaims(opened.point)
      [] stage = "batched" -> claim = BatchedTrue(opened.point, opened.batching, opened.coefficient)
      [] OTHER             -> stage = "accepted"

\* With the out-of-domain claim, up to the draw that joins it.
ClaimsHold == ReductionHolds /\ (stage \in {"batched", "accepted"} \/ OodHolds)
-----------------------------------------------------------------------------
\* VirtualParams::new: both vectors fit the shapes they are padded to.
VirtualFits(map, claim_bits, committed_bits) ==
    /\ Len(map.rows) <= 2^claim_bits
    /\ map.columns >= 1
    /\ map.columns - 1 <= 2^committed_bits

\* flatten: one column after another.
flatten(rows, columns) ==
    [i \in 1 .. Len(rows) * Len(columns) |->
        columns[((i - 1) \div Len(rows)) + 1] ** rows[((i - 1) % Len(rows)) + 1]]

\* The query has the size of the claim's shape.
QueryFits(query, log_rows, log_bits) ==
    IF query.kind = "mle" THEN Len(query.point) = log_bits
    ELSE Len(query.rows) = 2^log_rows /\ Len(query.columns) = 2^(log_bits - log_rows)

\* VirtualMap::transpose: weights on 1 || f, those on padding of h ignored.
Transposed(map, weights) ==
    [j \in 1 .. map.columns |->
        M!Total([i \in DOMAIN map.rows |-> IF j - 1 \in Range(map.rows[i]) THEN weights[i] ELSE 0])]

adjusted_target(target, constant_weight) == target ++ constant_weight

\* What is left on f: a single column of weights, padded with zeros.
transpose_query(map, weights, target, committed_bits) ==
    LET both == Transposed(map, weights)
    IN  [rows |-> [j \in 1 .. 2^committed_bits |-> IF j < map.columns THEN both[j + 1] ELSE 0],
         columns |-> <<1>>,
         target |-> adjusted_target(target, both[1])]
-----------------------------------------------------------------------------
(***************************************************************************)
(* The factored weights and the first round, taken off packed elements.    *)
(***************************************************************************)
packed(f, log_bits) ==
    [e \in 1 .. 2^(log_bits - ELEMENT) |->
        MapThenSumSet(LAMBDA v : 2^v * BitsTable(f, log_bits)[(e - 1) * 2^ELEMENT + v + 1], 0 .. 2^ELEMENT - 1)]

SetBits(element) == SelectSeq([v \in 1 .. 2^ELEMENT |-> v - 1], LAMBDA v : Bit(element, v) = 1)

PerColumn(rows) == Len(rows) \div 2^ELEMENT
ElementRow(rows, index, v) == rows[(index % PerColumn(rows)) * 2^ELEMENT + v + 1]
ElementColumn(rows, columns, index) == columns[(index \div PerColumn(rows)) + 1]

\* Every element's own sum, scaled by the weight of its column.
OverElements(rows, columns, sums) ==
    M!Total([e \in DOMAIN sums |-> ElementColumn(rows, columns, e - 1) ** sums[e]])

weighted_sum(rows, columns, elements) ==
    OverElements(rows, columns, [e \in DOMAIN elements |->
        M!Total([k \in DOMAIN SetBits(elements[e]) |-> ElementRow(rows, e - 1, SetBits(elements[e])[k])])])

Even(bits) == SelectSeq(bits, LAMBDA v : v % 2 = 0)

\* (bits ^ (bits >> 1)) at the even positions: the pairs that differ.
Differing(element) ==
    SelectSeq(Even([v \in 1 .. 2^ELEMENT |-> v - 1]), LAMBDA v : Bit(element, v) # Bit(element, v + 1))

first_message(rows, columns, elements) ==
    <<OverElements(rows, columns, [e \in DOMAIN elements |->
          M!Total([k \in DOMAIN Even(SetBits(elements[e])) |->
                     ElementRow(rows, e - 1, Even(SetBits(elements[e]))[k])])]),
      OverElements(rows, columns, [e \in DOMAIN elements |->
          M!Total([k \in DOMAIN Differing(elements[e]) |->
                     ElementRow(rows, e - 1, Differing(elements[e])[k])
                       ++ ElementRow(rows, e - 1, Differing(elements[e])[k] + 1)])])>>

folded(table, r) == [i \in 1 .. Len(table) \div 2 |-> table[2 * i - 1] ++ (r ** (table[2 * i - 1] ++ table[2 * i]))]

\* The folded row factor tensored with the column factor.
FoldFactors(rows, columns, r) == flatten(folded(rows, r), columns)

\* f_0 + r (f_0 + f_1) out of a table of four, by each pair of bits.
bind_first(elements, r) ==
    [i \in 1 .. Len(elements) * 2^(ELEMENT - 1) |->
        LET element == elements[((i - 1) \div 2^(ELEMENT - 1)) + 1]
            pair == (i - 1) % 2^(ELEMENT - 1)
        IN  <<0, r ++ 1, r, 1>>[((element \div 2^(2 * pair)) % 4) + 1]]

\* Pair::message.
PairMessage(pair) ==
    <<M!Total([i \in 1 .. Len(pair.weights) \div 2 |-> pair.weights[2 * i - 1] ** pair.values[2 * i - 1]]),
      M!Total([i \in 1 .. Len(pair.weights) \div 2 |->
                 (pair.weights[2 * i - 1] ++ pair.weights[2 * i])
                   ** (pair.values[2 * i - 1] ++ pair.values[2 * i])])>>

FoldPair(pair, r) == [weights |-> folded(pair.weights, r), values |-> folded(pair.values, r)]

\* p(r), where a_1 is the running claim plus a_2.
advance(running, message, r) ==
    message[1] ++ (r ** ((running ++ message[2]) ++ (r ** message[2])))
-----------------------------------------------------------------------------
LogBits(rows, columns) == M!num_vars(rows) + M!num_vars(columns)

Refuse ==
    /\ stage' = "rejected"
    /\ UNCHANGED <<job, claim, point, sent, memory, opened, lucky, truth, ood>>

InitPost ==
    /\ job \in Queries
    /\ stage = "commit"
    /\ claim = job.query.target
    /\ lucky = FALSE
    /\ point = <<>> /\ sent = <<>> /\ memory = <<>> /\ opened = <<>> /\ truth = <<>> /\ ood = <<>>

Committed == packed(job.f, CommittedBits)

\* Commitment: at the lower level its elements are evaluated at a drawn point.
Commit ==
    /\ stage = "commit"
    /\ stage' = "query"
    /\ IF ~ job.samples_ood THEN ood' = ood
       ELSE \E at \in [1 .. CommittedBits - ELEMENT -> Challenges] :
               LET value == M!evaluate_exact(Committed, at)
               IN  \E v \in {value} \union (IF FollowsCode THEN {} ELSE Forged) :
                      ood' = [point |-> at, value |-> v]
    /\ UNCHANGED <<job, claim, point, sent, memory, opened, lucky, truth>>

\* The rounds start on a claim rows (x) columns of the size of f; the honest
\* prover first checks that it holds.
StartRounds(rows, columns, target) ==
    IF Len(rows) * Len(columns) # 2^CommittedBits
       \/ (FollowsCode /\ weighted_sum(rows, columns, Committed) # target) THEN Refuse
    ELSE /\ stage' = "rounds"
         /\ claim' = target
         /\ opened' = [rows |-> rows, columns |-> columns]
         /\ truth' = [w |-> flatten(rows, columns), v |-> BitsTable(job.f, LogBits(rows, columns))]
         /\ UNCHANGED <<job, point, sent, memory, lucky, ood>>

OpenDirect ==
    /\ stage = "query"
    /\ job.path = "direct"
    /\ job.query.kind = "inner"
    /\ StartRounds(job.query.rows, job.query.columns, job.query.target)

\* An evaluation needs no rounds.
OpenPoint ==
    /\ stage = "query"
    /\ job.path = "direct"
    /\ job.query.kind = "mle"
    /\ IF Len(job.query.point) # CommittedBits THEN Refuse
       ELSE /\ stage' = "mle"
            /\ opened' = [point |-> job.query.point, target |-> job.query.target]
            /\ UNCHANGED <<job, claim, point, sent, memory, lucky, truth, ood>>

StartTransposed(rewritten) == StartRounds(rewritten.rows, rewritten.columns, rewritten.target)

OpenVirtual ==
    /\ stage = "query"
    /\ job.path = "virtual"
    /\ IF ~ VirtualFits(job.map, job.log_bits, job.committed_bits)
          \/ ~ QueryFits(job.query, job.log_rows, job.log_bits) THEN Refuse
       ELSE StartTransposed(transpose_query(job.map,
                IF job.query.kind = "mle" THEN M!eq_table(job.query.point)
                ELSE flatten(job.query.rows, job.query.columns),
                job.query.target, job.committed_bits))

Messages ==
    IF ~ FollowsCode THEN Elements \X Forged
    ELSE IF point = <<>> THEN {first_message(opened.rows, opened.columns,
                                             Committed)}
    ELSE {PairMessage(memory)}

\* A round's coefficients are absorbed before its challenge.
SendMessage ==
    /\ stage = "rounds"
    /\ sent = <<>>
    /\ Len(point) < LogBits(opened.rows, opened.columns)
    /\ sent' \in Messages
    /\ UNCHANGED <<stage, job, claim, point, memory, opened, lucky, truth, ood>>

Remembered(r) ==
    IF ~ FollowsCode THEN <<>>
    ELSE IF point = <<>> THEN [weights |-> FoldFactors(opened.rows, opened.columns, r),
                               values |-> bind_first(Committed, r)]
    ELSE FoldPair(memory, r)

DrawChallenge == \E r \in Challenges :
    /\ stage = "rounds"
    /\ sent # <<>>
    /\ claim' = advance(claim, sent, r)
    /\ point' = Append(point, r)
    /\ sent' = <<>>
    /\ memory' = Remembered(r)
    /\ truth' = BoundTables(truth, r)
    /\ UNCHANGED <<stage, job, opened, ood>>
    /\ lucky' = (lucky \/ (~ ReductionHolds /\ ReductionHolds'))

\* The weights at the point: each factor evaluated by chunks.
Weight(rows, columns) ==
    M!evaluate_chunked(rows, SubSeq(point, 1, M!num_vars(rows)), LOW_BITS)
      ** M!evaluate_chunked(columns, SubSeq(point, M!num_vars(rows) + 1, Len(point)), LOW_BITS)

ClosingFits(rows, columns, v) == Weight(rows, columns) ** v = claim

\* The closing evaluation, and the claim it leaves to the opening scheme.
Close ==
    /\ stage = "rounds"
    /\ Len(point) = LogBits(opened.rows, opened.columns)
    /\ \E v \in IF FollowsCode THEN {memory.values[1]} ELSE Elements :
          IF ~ ClosingFits(opened.rows, opened.columns, v) THEN Refuse
          ELSE /\ stage' = "mle"
               /\ opened' = [point |-> point, target |-> v]
               /\ memory' = <<>>
               /\ UNCHANGED <<job, claim, point, sent, lucky, truth, ood>>

\* The prover's partial evaluations, which must add up to the target: its own
\* prover refuses a target of another witness, the verifier other claims.
SendClaims ==
    /\ stage = "mle"
    /\ \E claims \in IF FollowsCode THEN {fold_1b_rows(Committed, M!eq_table(Suffix(opened.point)))}
                     ELSE {<<first>> \o rest : first \in Elements, rest \in [1 .. CLAIM_COUNT - 1 -> Forged]} :
          IF ~ target_matches(opened.point, claims, opened.target) THEN Refuse
          ELSE /\ stage' = "ring"
               /\ sent' = claims
               /\ UNCHANGED <<job, claim, point, memory, opened, lucky, truth, ood>>

Batched(claims, batching, coefficient) ==
    batch_claims(claims, M!eq_table(batching)) ++ IF ood = <<>> THEN 0 ELSE coefficient ** ood.value

DenseBasis(at, batching, coefficient) ==
    LET basis == fold_b128_elems(M!eq_table(Suffix(at)), M!eq_table(batching))
    IN  IF ood = <<>> THEN basis ELSE add_dense_basis(basis, ood.point, coefficient)

\* One block of challenges, with a coefficient for the out-of-domain claim.
DrawBatching ==
    /\ stage = "ring"
    /\ \E batching \in [1 .. ELEMENT -> Challenges], coefficient \in IF ood = <<>> THEN {0} ELSE Challenges :
          /\ claim' = Batched(sent, batching, coefficient)
          /\ opened' = [point |-> opened.point, batching |-> batching, coefficient |-> coefficient]
          /\ memory' = IF FollowsCode THEN DenseBasis(opened.point, batching, coefficient)
                       ELSE TrueBasis(opened.point, batching, coefficient)
    /\ stage' = "batched"
    /\ sent' = <<>>
    /\ UNCHANGED <<job, point, truth, ood>>
    /\ lucky' = (lucky \/ (~ ClaimsHold /\ ClaimsHold'))

SuccinctBasis(ris) ==
    LET basis == evaluate_basis(Suffix(opened.point), M!eq_table(opened.batching), ris)
    IN  IF ood = <<>> THEN basis ELSE add_succinct_basis(basis, ood.point, opened.coefficient, ris)

BoundAt(table, ris) == FoldLeft(BoundTable, table, ris)

\* Ligerito reduces the prover's basis against the commitment and asks the
\* verifier for its own at the challenges ris: true equations, on bases that
\* agree there, are accepted.
Accepts(ris) ==
    /\ claim = M!inner_product(memory, Committed)
    /\ M!inner_product(SuccinctBasis(ris), BoundAt(Committed, ris))
         = M!inner_product(BoundAt(memory, ris), BoundAt(Committed, ris))

OpenBatched ==
    /\ stage = "batched"
    /\ \E n \in 0 .. CommittedBits - ELEMENT : \E ris \in [1 .. n -> Challenges] :
          IF Accepts(ris)
          THEN stage' = "accepted" /\ UNCHANGED <<job, claim, point, sent, memory, opened, lucky, truth, ood>>
          ELSE Refuse

NextPost ==
    \/ Commit
    \/ OpenDirect \/ OpenPoint \/ OpenVirtual
    \/ SendMessage \/ DrawChallenge \/ Close
    \/ SendClaims \/ DrawBatching \/ OpenBatched
-----------------------------------------------------------------------------
LuckyChallenges ==
    IF stage = "rounds" /\ sent # <<>>
    THEN {r \in Elements : advance(claim, sent, r) = TrueSum(BoundTables(truth, r))}
    ELSE {}

\* How often the extension of a table is c times a gap, over all points and,
\* where the gap has a coefficient, all c.
RECURSIVE Meetings(_, _)
Meetings(table, other) ==
    IF Len(table) > 1 THEN MapThenSumSet(LAMBDA r : Meetings(BoundTable(table, r), other), Elements)
    ELSE Cardinality({c \in IF ood = <<>> THEN {0} ELSE Elements : table[1] = c ** other})

\* Coordinates of the batching, then the out-of-domain coefficient.
LuckyBatchings ==
    IF stage # "ring" THEN 0
    ELSE LET rows == tensor_algebra_transpose(sent)
             gaps == [u \in 1 .. CLAIM_COUNT |-> rows[u] ++ TrueTransposed(opened.point)[u]]
         IN  Meetings(gaps,
                      IF ood = <<>> THEN 0 ELSE ood.value ++ M!Extension(ElementsTable, ood.point))

QueryHolds == Weighted(QueryWeights(job.query), ClaimedBits) = job.query.target

\* A query that is false of the bits, or of their image under the map, or an
\* out-of-domain claim that is false of the commitment, leaves a false equation
\* on the committed elements unless a challenge was lucky.
PostSound == ~ (QueryHolds /\ OodHolds) /\ ~ lucky /\ stage # "rejected" => ~ ClaimsHold

\* Any two coefficients for a false claim leave at most two lucky challenges,
\* any partial evaluations a share of one element for each challenge that
\* the proof of work of the ring switch counts.
PostLuck ==
    /\ ~ ReductionHolds => Cardinality(LuckyChallenges) <= 2
    /\ ~ ClaimsHold =>
          IF ood = <<>> THEN LuckyBatchings <= ELEMENT * (2^Degree)^(ELEMENT - 1)
          ELSE LuckyBatchings <= (ELEMENT + 1) * (2^Degree)^ELEMENT

\* The code's prover of a true query is never refused: transposed weights,
\* the round off the packed bits, the factored weight and the two bases agree.
PostComplete == FollowsCode /\ QueryHolds => stage # "rejected" /\ ClaimsHold
=============================================================================
