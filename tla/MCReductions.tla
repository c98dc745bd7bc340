---------------------------- MODULE MCReductions ----------------------------
(***************************************************************************)
(* Spartan over the prime field of five elements and the reduction behind  *)
(* it over the binary field of 16, on small statements.                    *)
(***************************************************************************)
EXTENDS PostGkr, Integers

VARIABLES matrices, tau, row_point, rho, terms

CONSTANTS P, Draws, ChunkVars, LeastLogBits

\* For the inverses of the field of 16.
MCChain == <<<<1, 1>>, <<2, 1>>>>

ownVars == <<matrices, tau, row_point, rho, terms>>
allVars == <<postVars, ownVars>>

\* Two's complement words of three bits, without redundant ones.
RECURSIVE WordsFrom(_)
WordsFrom(n) == IF n \in -4 .. 3 THEN <<n % 8>> ELSE <<n % 8>> \o WordsFrom(n \div 8)
IntegerWords(n) == IF n = 0 THEN <<>> ELSE WordsFrom(n)
-----------------------------------------------------------------------------
Sparse(columns, rows) == [columns |-> columns, rows |-> rows]

\* h is committed whole, or behind a constant one where the last bit of f is
\* added to all others.
Identity(n) == Sparse(n, [i \in 1 .. n |-> <<i - 1>>])
Blended(n) == Sparse(n + 1, [i \in 1 .. n |-> IF i = 1 THEN <<0>> ELSE <<i - 1, n>>])

\* The assignment is M (1 || f), or f itself.
Of(abc, f, prover, verifier) ==
    [m |-> Identity(abc[1].columns), abc |-> abc, bits |-> f, prover |-> prover, verifier |-> verifier]

Virtual(abc, f, prover) ==
    [m |-> Blended(abc[1].columns), abc |-> abc, bits |-> Image(Blended(abc[1].columns), f),
     prover |-> prover, verifier |-> "opening"]

\* 1 * x = 1.
Bit1 == <<Sparse(2, <<<< <<0, 1>> >>>>), Sparse(2, <<<< <<1, 1>> >>>>), Sparse(2, <<<< <<0, 1>> >>>>)>>

\* x * 0 = 0 with a zero row of D wherever rho is zero.
Empty == <<Sparse(1, << <<>> >>), Sparse(1, <<<< <<0, 5>> >>>>), Sparse(1, << <<>> >>)>>

\* x y = z and x - 6 y = -5, so x = y = 1 modulo five and over the integers.
Pair2 == <<Sparse(4, <<<< <<1, 1>> >>, << <<1, 1>>, <<2, -6>> >>>>),
           Sparse(4, <<<< <<2, 1>> >>, << <<0, 1>> >>>>),
           Sparse(4, <<<< <<3, 1>> >>, << <<0, -5>>, <<3, 0>> >>>>)>>

\* Three rows over three columns: two of them true when y = 0.
Three == <<Sparse(3, <<<< <<0, 1>> >>, << <<1, 7>>, <<2, 1>> >>, << <<2, 1>> >>>>),
           Sparse(3, <<<< <<1, 1>> >>, << <<1, -1>> >>, << <<2, 1>> >>>>),
           Sparse(3, <<<< <<1, 1>> >>, << <<0, -7>>, <<2, -1>> >>, << <<0, 1>> >>>>)>>

\* Five rows over nine columns, and nine rows over five.
Wide == <<Sparse(9, <<<< <<1, 1>> >>, << <<1, 1>>, <<2, -6>> >>, << <<0, 3>>, <<3, 2>>, <<8, -1>> >>, <<>>,
                      << <<5, 7>>, <<6, 8>>, <<7, 1>> >>>>),
          Sparse(9, <<<< <<2, 1>> >>, << <<0, 1>> >>, << <<8, 1>> >>, << <<4, 4>> >>, << <<0, 1>> >>>>),
          Sparse(9, <<<< <<3, 1>> >>, << <<0, -5>> >>, << <<0, 4>> >>, <<>>, << <<0, 15>>, <<7, 1>> >>>>)>>

Tall == <<Sparse(5, [i \in 1 .. 9 |-> << <<i % 5, i>> >>]),
          Sparse(5, [i \in 1 .. 9 |-> << <<0, 2>>, <<(i % 3) + 1, -i>> >>]),
          Sparse(5, [i \in 1 .. 9 |-> << <<i % 5, i * (2 - i)>> >>])>>

Statements == {
    Of(Bit1, <<1, 1>>, "any", "aware"), Virtual(Bit1, <<1, 1>>, "any"),
    Of(Bit1, <<0, 1>>, "any", "opening"), Of(Bit1, <<1, 1>>, "honest", "opening"),
    Of(Empty, <<1>>, "honest", "aware"), Of(Empty, <<1>>, "any", "opening"),
    Virtual(Pair2, <<0, 0, 0, 1>>, "honest"), Virtual(Pair2, <<1, 1, 0, 0>>, "any"),
    Of(Pair2, <<1, 1, 0, 0>>, "any", "aware"),
    Of(Three, <<1, 1, 1>>, "honest", "opening"), Of(Three, <<1, 1, 0>>, "any", "opening"),
    Virtual(Wide, <<0, 0, 0, 1, 0, 0, 1, 0, 1>>, "honest"),
    Of(Tall, <<1, 1, 1, 1, 1>>, "honest", "aware"), Of(Tall, <<1, 1, 1, 1, 1>>, "honest", "opening") }

\* Columns out of order, and two matrices of different shapes.
Malformed == {
    Of(<<Sparse(2, <<<< <<1, 1>>, <<0, 1>> >>>>), Bit1[2], Bit1[3]>>, <<1, 1>>, "any", "aware"),
    Of(<<Bit1[1], Sparse(2, <<<< <<1, 1>> >>, <<>>>>), Bit1[3]>>, <<1, 1>>, "any", "opening") }

\* A statement with one entry in the next row or the last, one coefficient
\* another, or one row more.
Moved(rows, r) ==
    {[rows EXCEPT ![r] = Front(@), ![r + 1] = <<Last(rows[r])>> \o @] : k \in 1 .. IF rows[r] = <<>> THEN 0 ELSE 1}
    \union {[rows EXCEPT ![r] = Append(@, Head(rows[r + 1])), ![r + 1] = Tail(@)] :
                k \in 1 .. IF rows[r + 1] = <<>> THEN 0 ELSE 1}

Recut(matrix) ==
    UNION {{[matrix EXCEPT !.rows = rows] : rows \in Moved(matrix.rows, r)} : r \in 1 .. Len(matrix.rows) - 1}

Recast(matrix) ==
    UNION {{[matrix EXCEPT !.rows[r][k][2] = c] : k \in DOMAIN matrix.rows[r], c \in {-9, -1, 0, 4, 8}} :
              r \in DOMAIN matrix.rows}

Near(matrix) == {matrix, [matrix EXCEPT !.rows = Append(@, <<>>)]} \union Recut(matrix)

Confusable(statement) ==
    {[m |-> m, abc |-> statement.abc] : m \in Near(statement.m)}
    \union UNION {{[m |-> statement.m, abc |-> [statement.abc EXCEPT ![t] = x]] :
                      x \in Near(statement.abc[t]) \union Recast(statement.abc[t])} : t \in 1 .. 3}
-----------------------------------------------------------------------------
Query(kind, rows, columns, at, target) ==
    [kind |-> kind, rows |-> rows, columns |-> columns, point |-> at, target |-> target]

Asked(prover, path, map, f, query) ==
    [prover |-> prover, path |-> path, map |-> map, f |-> f, query |-> query,
     log_rows |-> 2, log_bits |-> 3, committed_bits |-> 2, samples_ood |-> FALSE]

\* h = (1, f1 + f2, 1 + f3, f1, f2 + f3), padded to eight; and one too long.
Image5 == Sparse(4, <<<<0>>, <<1, 2>>, <<0, 3>>, <<1>>, <<2, 3>>>>)
Image9 == Sparse(4, [i \in 1 .. 9 |-> <<0, (i % 3) + 1>>])

Rows == <<3, 0, 6, 1>>
Columns == <<5, 2>>

Reduced3(prover, path, map, f, kind, target) ==
    Asked(prover, path, map, f, Query(kind, Rows, Columns, <<2, 0, 7>>, target))

Whole == <<1, 0, 1, 1, 0, 1, 1, 0>>

\* An evaluation or a product on sixteen bits, four packed elements.
Sixteen == Whole \o <<1, 1, 0, 1, 0, 0, 1, 1>>

Wide4(prover, kind, target, sampled) ==
    [Asked(prover, "direct", Image5, Sixteen, Query(kind, Rows, <<5, 2, 0, 9>>, <<2, 5, 7, 3>>, target))
        EXCEPT !.log_bits = 4, !.samples_ood = sampled]

Asking == {Reduced3("any", "direct", Image5, Whole, "inner", t) : t \in {0, 1}}
     \union {Reduced3("any", "virtual", Image5, <<1, 0, 1>>, kind, t) : kind \in {"inner", "mle"}, t \in {0, 3}}
     \union {Reduced3("honest", "direct", Image5, Whole, "inner", t) : t \in Elements}
     \union {[Reduced3("honest", "virtual", Image5, f, kind, t) EXCEPT !.committed_bits = 3] :
                f \in {<<1, 0, 1>>, <<0, 1, 1>>}, kind \in {"inner", "mle"}, t \in Elements}
     \union {Wide4("honest", kind, t, sampled) : kind \in {"inner", "mle"}, t \in Elements, sampled \in BOOLEAN}
     \union {Wide4("any", "mle", t, sampled) : t \in {0, 1}, sampled \in BOOLEAN}
     \union {Reduced3("any", "virtual", Image9, <<1, 0, 1>>, "inner", 0),
             [Reduced3("any", "direct", Image5, Whole, "mle", 0) EXCEPT !.log_bits = 2],
             [Reduced3("any", "direct", Image5, Whole, "inner", 0) EXCEPT !.log_bits = 4]}
-----------------------------------------------------------------------------
S == INSTANCE Spartan WITH Jobs <- Statements \union Malformed, BIND_CHUNK_COLUMN_VARS <- ChunkVars,
                           Words <- IntegerWords, PACK_BITS <- ELEMENT, MIN_LOG_BITS <- LeastLogBits

OfSpartan == "abc" \in DOMAIN job

Init == (S!Init /\ ood = <<>>) \/ (InitPost /\ matrices = <<>> /\ tau = <<>> /\ row_point = <<>> /\ rho = <<>> /\ terms = <<>>)

\* The end, so that a run stuck anywhere else is a deadlock.
Ended == stage \in {"accepted", "rejected"} /\ UNCHANGED allVars

Next == (S!Next /\ UNCHANGED ood) \/ (NextPost /\ UNCHANGED ownVars) \/ Ended

Spec == Init /\ [][Next]_allVars
-----------------------------------------------------------------------------
\* A statement or query false of what was committed stays false through both
\* reductions, to the last claim, unless a challenge was lucky.
UnluckyStayFalse == IF OfSpartan THEN S!SpartanSound ELSE PostSound

\* No message for a false claim leaves more lucky challenges than its degree.
FewLuckyChallenges == IF OfSpartan THEN S!SpartanLuck ELSE PostLuck

\* The digest that the transcript is bound to tells a statement from every
\* statement with one entry moved to the next row, one coefficient another or
\* one row more.
DigestBinds ==
    OfSpartan /\ stage = "constant" =>
        \A other \in Confusable(job) :
            S!matrix_digest(other.m, other.abc) = S!matrix_digest(job.m, job.abc)
                => other.m = job.m /\ other.abc = job.abc

\* The code's prover is accepted on every true statement and query.
TrueClaimsSucceed == IF OfSpartan THEN S!SpartanComplete ELSE PostComplete
=============================================================================
