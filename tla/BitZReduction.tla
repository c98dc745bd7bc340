--------------------------- MODULE BitZReduction ---------------------------
(***************************************************************************)
(* BitZ proper: a linear claim modulo q about committed bits is folded     *)
(* column by column into exponents, the exponents' images are checked as   *)
(* grand products, and what remains is an inner-product claim on the bits. *)
(* The verifier's steps are those of receive_fold and gpgkr_verify; the    *)
(* prover may send anything, the honest messages are send_fold's and       *)
(* gpgkr_prove's.  A challenge is drawn in the step of the message it      *)
(* answers, since the transcript binds it to everything sent before.       *)
(***************************************************************************)
EXTENDS GrandProduct, BitMatrix, Parameters

CONSTANTS
    LogRows, LogColumns,  \* Shape
    Generator,            \* of the field's multiplicative group
    Window,               \* bits of an exponent per product
    Tables,               \* bit tables, in packed words
    Claims,               \* LinearClaims: row weights, column weights, target, as integers
    Draws,                \* challenges explored
    Sums, Leading,        \* a dishonest round message's coefficients explored
    MaxFold               \* largest fold explored

Shape == [log_rows |-> LogRows, log_columns |-> LogColumns]
Rows == rows(Shape)
Columns == columns(Shape)

ASSUME ParamsAssumption ==
    /\ GROUP_ORDER = MULT_ORDER /\ WORD_BITS = BITS
    /\ Shape \in Shapes
    /\ Rows % BITS = 0 /\ Columns % BITS = 0
    /\ \A table \in Tables : Len(table) = (Rows * Columns) \div BITS
    /\ is_generator(Generator)
    /\ Window \in 1..16
    /\ Draws \subseteq Elements /\ Sums \subseteq Elements /\ Leading \subseteq Elements

VARIABLES
    stage,    \* folds, rounds, opening, accepted or rejected; refused by the parameters
    modulus,  \* the fingerprint prime q
    bits,     \* the committed table
    claim,    \* the linear claim about it
    point,    \* coordinates of the layer not yet bound
    next,     \* challenges of the layer so far
    left, right,  \* the honest prover's halves of the layer's table
    depth,    \* layers entered
    running,  \* the verifier's claim
    prefix,   \* product of the equality factors bound so far
    lucky     \* whether a challenge has made a false claim true

vars == <<stage, modulus, bits, claim, point, next, left, right, depth, running, prefix, lucky>>
-----------------------------------------------------------------------------
BitAt(table, c, b) == IF TableBit(table, LogRows, c - 1, b - 1) THEN 1 ELSE 0

\* fold_column: the exponents of a word's one bits, word by word.
fold_column(words, exponents) ==
    FoldLeftDomain(LAMBDA total, k :
            total + MapThenSumSet(LAMBDA p : exponents[(k - 1) * BITS + p + 1], words[k]),
        0, words)

fold_columns(table, exponents) ==
    [c \in 1..Columns |-> fold_column(TableColumn(table, LogRows, c - 1), exponents)]

\* reconstruct: the folds, reduced, under the column weights.
reconstruct(k, folds) ==
    MapThenSumSet(LAMBDA c : k.column[c] * (folds[c] % modulus), 1..Columns) % modulus

\* The comb of both setups; row_images and column_images.
comb == FixedBasePow(Generator, Window)
Images(exponents) == [i \in 1..Len(exponents) |-> comb_pow(comb, exponents[i])]

\* GrandProductCircuit::new: rows of the transposed table, so that columns
\* vary fastest.
Leaves(table, k) ==
    LET matrix == transpose(as_matrix(table, LogRows))
        images == Images(k.row)
        RowLeaves(b) == [c \in 1..Columns |->
                            IF MatrixBits(matrix, b - 1)[c] = 1 THEN images[b] ELSE 1]
    IN  FlattenSeq([b \in 1..Rows |-> RowLeaves(b)])

\* batched_eval's table that layer d of the proof descends to, d = 0 the top.
Witness(table, k, d) ==
    FoldLeft(LAMBDA acc, i : Layer(acc), Leaves(table, k), [i \in 1..(LogRows - d) |-> i])

\* grind's coefficients: what each challenge block must be bounded by.
ColumnsCoefficient == LogColumns
CubicCoefficient == 3
-----------------------------------------------------------------------------
\* A claim's weights and target are residues.
LinearClaim(k) ==
    [row |-> [b \in DOMAIN k.row |-> k.row[b] % modulus],
     column |-> [c \in DOMAIN k.column |-> k.column[c] % modulus],
     target |-> k.target % modulus]

\* The primes squeeze_prime may draw for a shape.
Primes(shape) == {q \in UNION {Interval(w) : w \in prime_bits(shape)} :
                     q % 2 = 1 /\ \A d \in 2..(q - 1) : q % d # 0}

Init ==
    /\ modulus \in Primes(Shape)
    /\ bits \in Tables
    /\ claim \in {LinearClaim(k) : k \in Claims}
    /\ stage = IF Gates(Shape, modulus) /\ ClaimGates(Shape, claim.row, claim.column)
               THEN "folds" ELSE "refused"
    /\ point = <<>> /\ next = <<>> /\ left = <<>> /\ right = <<>>
    /\ depth = 0 /\ running = 0 /\ prefix = 1
    /\ lucky = FALSE

\* The next layer starts at zs with the honest prover's table split in halves.
EnterLayer(d, zs) ==
    /\ depth' = d
    /\ point' = zs
    /\ next' = <<>>
    /\ prefix' = 1
    /\ left' = Low(Witness(bits, claim, d))
    /\ right' = High(Witness(bits, claim, d))

\* Mistake: folds are not bounded.
InRangeUnchecked(folds) == TRUE

\* Every fold is at most the bound.
InRange(folds) == \A c \in 1..Columns : folds[c] <= fold_bound(Shape, modulus)

\* Fold::new: the images' extension at zeta, coordinate 0 varying fastest.
InitialClaim(folds, zeta) == Extension(Images(folds), Reverse(zeta))

ReceiveFold(folds, zeta) ==
    /\ stage = "folds"
    /\ InRange(folds)
    /\ reconstruct(claim, folds) = claim.target
    /\ running' = InitialClaim(folds, zeta)
    /\ lucky' = (running' = Extension(Witness(bits, claim, 0), Reverse(zeta))
                 /\ Images(folds) # Witness(bits, claim, 0))
    /\ stage' = "rounds"
    /\ EnterLayer(1, Reverse(zeta))
    /\ UNCHANGED <<modulus, bits, claim>>

RejectFold(folds) ==
    /\ stage = "folds"
    /\ \/ ~InRange(folds)
       \/ reconstruct(claim, folds) # claim.target
    /\ stage' = "rejected"
    /\ UNCHANGED <<modulus, bits, claim, point, next, left, right, depth, running, prefix, lucky>>
-----------------------------------------------------------------------------
\* What the running claim says of the honest tables at this point of a layer.
TruthOf(l, r, zs, factor) ==
    factor ** Total([i \in 1..Len(l) |-> EqAt(zs, i) ** (l[i] ** r[i])])

Truth == TruthOf(left, right, point, prefix)

HonestMessage == RoundMessage(left, right, Head(point), Tail(point), prefix)

\* A round message and its challenge.
Round(message, r) ==
    LET z == Head(point)
        claimed == NextClaim(running, z, message, r)
        true == TruthOf(Bind(left, r), Bind(right, r), Tail(point), prefix ** eq_factor(r, z))
    IN  /\ stage = "rounds"
        /\ point # <<>>
        /\ running' = claimed
        /\ lucky' = (lucky \/ (running # Truth /\ claimed = true))
        /\ prefix' = prefix ** eq_factor(r, z)
        /\ left' = Bind(left, r)
        /\ right' = Bind(right, r)
        /\ point' = Tail(point)
        /\ next' = Append(next, r)
        /\ UNCHANGED <<stage, modulus, bits, claim, depth>>

\* The challenge that selects a half is the top coordinate of the next point.
NextPoint(r) == <<r>> \o next

\* The layer's last pair, its check, and the descent to the next layer.
Exit(pair, r) ==
    LET claimed == ExitClaim(pair, r)
        true == ExitClaim(<<left[1], right[1]>>, r)
    IN  /\ stage = "rounds"
        /\ point = <<>>
        /\ ExitHolds(prefix, pair, running)
        /\ running' = claimed
        /\ lucky' = (lucky \/ (running # Truth /\ claimed = true))
        /\ IF depth < LogRows
           THEN EnterLayer(depth + 1, NextPoint(r)) /\ stage' = stage
           ELSE /\ stage' = "opening"
                /\ point' = NextPoint(r)
                /\ UNCHANGED <<depth, next, prefix, left, right>>
        /\ UNCHANGED <<modulus, bits, claim>>

\* Not every pair a prover may send passes the check.
RejectExit ==
    /\ stage = "rounds"
    /\ point = <<>>
    /\ ~ \A pair \in Elements \X Elements : ExitHolds(prefix, pair, running)
    /\ stage' = "rejected"
    /\ UNCHANGED <<modulus, bits, claim, point, next, left, right, depth, running, prefix, lucky>>
-----------------------------------------------------------------------------
\* gkr_reduce's query: the constant one removed, the weights in two factors.
\* The point holds rows first here, the code's reversed point columns first.
Query ==
    LET u1 == [b \in 1..Rows |->
                 (Images(claim.row)[b] ++ 1) ** EqTable(SubSeq(point, 1, LogRows))[b]]
        u2 == EqTable(SubSeq(point, LogRows + 1, Len(point)))
    IN  [row |-> u1, column |-> u2, target |-> running ++ 1]

\* What the commitment opening decides.
QueryHolds ==
    LET query == Query
    IN  query.target =
            Total([i \in 1..(Rows * Columns) |->
                LET c == ((i - 1) % Columns) + 1
                    b == ((i - 1) \div Columns) + 1
                IN  BitAt(bits, c, b) * (query.row[b] ** query.column[c])])

Open ==
    /\ stage = "opening"
    /\ stage' = IF QueryHolds THEN "accepted" ELSE "rejected"
    /\ UNCHANGED <<modulus, bits, claim, point, next, left, right, depth, running, prefix, lucky>>
-----------------------------------------------------------------------------
AllFolds == [1..Columns -> 0..MaxFold]
Zetas == [1..LogColumns -> Elements]

\* The round messages explored: the honest one and a few others.
Messages == {HonestMessage} \cup (Sums \X Leading)

Next ==
    \/ stage = "folds" /\ \E folds \in AllFolds :
          \/ RejectFold(folds)
          \/ \E zeta \in [1..LogColumns -> Draws] : ReceiveFold(folds, zeta)
    \/ stage = "rounds" /\ point # <<>> /\
          \E message \in Messages, r \in Draws : Round(message, r)
    \/ stage = "rounds" /\ point = <<>> /\
          \/ RejectExit
          \/ \E pair \in Elements \X Elements, r \in Draws : Exit(pair, r)
    \/ Open

Spec == Init /\ [][Next]_vars
-----------------------------------------------------------------------------
\* The statement itself, modulo q.
ClaimHolds ==
    claim.target =
        MapThenSumSet(LAMBDA cb : BitAt(bits, cb[1], cb[2]) * (claim.column[cb[1]] * claim.row[cb[2]]),
                      (1..Columns) \X (1..Rows)) % modulus

(***************************************************************************)
(* Soundness: a false linear claim stays false through the folds, every    *)
(* layer and the final query, unless a challenge happens to hit one of its *)
(* bad values; so the opening of a true table rejects it.                  *)
(***************************************************************************)
SoundUnlessLucky ==
    ~ClaimHolds /\ ~lucky =>
        /\ stage = "rounds" => running # Truth
        /\ stage = "opening" => ~QueryHolds
        /\ stage # "accepted"

(***************************************************************************)
(* Each challenge block has no more bad values than the coefficient its    *)
(* grinding is computed from: degree log_columns for the columns, 3 for a  *)
(* layer's rounds, and one for the selecting challenge, which needs none.  *)
(***************************************************************************)
LuckIsBounded ==
    /\ stage = "folds" =>
          LET true == Witness(bits, claim, 0)
          IN  \A folds \in AllFolds :
                InRange(folds) /\ Images(folds) # true =>
                    Cardinality({zeta \in Zetas :
                        InitialClaim(folds, zeta) = Extension(true, Reverse(zeta))})
                    * Cardinality(Elements) <= ColumnsCoefficient * Cardinality(Zetas)
    /\ stage = "rounds" /\ point # <<>> /\ running # Truth =>
          \A message \in Messages :
              Cardinality({r \in Elements :
                  NextClaim(running, Head(point), message, r) =
                  TruthOf(Bind(left, r), Bind(right, r), Tail(point),
                          prefix ** eq_factor(r, Head(point)))}) <= CubicCoefficient
    /\ stage = "rounds" /\ point = <<>> /\ running # Truth =>
          \A pair \in Elements \X Elements :
              ExitHolds(prefix, pair, running) =>
                  Cardinality({r \in Elements :
                      ExitClaim(pair, r) = ExitClaim(<<left[1], right[1]>>, r)}) <= 1

\* A circuit of any size within the window has a shape that holds its bits and,
\* drawn any prime of the shape's width, parameters that accept both; the
\* reference split is admissible at every size.
SetupSucceeds ==
    /\ \A h_len \in 1..2^MAX_LOG_BITS : \E s \in shape_for(h_len) :
          /\ \A q \in Primes(s) : Gates(s, q)
          /\ Primes(s) # {}
          /\ \A f_len \in 1..h_len : \E c \in shape_for(f_len - 1) : VirtualGates(s, c, h_len, f_len)
    /\ \A total \in 0..(MAX_LOG_BITS + 1) :
          LET split == for_log_bits(total)
          IN  /\ split # {} <=> total \in MIN_LOG_BITS..MAX_LOG_BITS
              /\ \A s \in split : log_bits(s) = total /\ \A q \in Primes(s) : Gates(s, q)

(***************************************************************************)
(* Completeness: no drawn prime is refused, the honest prover's next       *)
(* message always passes the verifier's checks and keeps a true claim true *)
(* at every challenge, a zero coordinate included, and the last query is   *)
(* true.                                                                   *)
(***************************************************************************)
HonestProverSucceeds ==
    /\ stage # "refused"
    /\ stage = "folds" => SetupSucceeds
    /\ stage = "folds" =>  \* the widest fold is at the bound
          fold_column([k \in 1..(Rows \div BITS) |-> Lanes], [b \in 1..Rows |-> modulus - 1])
            = fold_bound(Shape, modulus)
    /\ stage = "folds" /\ ClaimHolds =>
          LET folds == fold_columns(bits, claim.row)
          IN  /\ InRange(folds)
              /\ reconstruct(claim, folds) = claim.target
              /\ Images(folds) = Witness(bits, claim, 0)
    /\ stage = "rounds" /\ point # <<>> /\ running = Truth =>
          \A r \in Elements :
              NextClaim(running, Head(point), HonestMessage, r) =
              TruthOf(Bind(left, r), Bind(right, r), Tail(point),
                      prefix ** eq_factor(r, Head(point)))
    /\ stage = "rounds" /\ point = <<>> /\ running = Truth =>
          ExitHolds(prefix, <<left[1], right[1]>>, running)
    /\ stage = "opening" =>
          (QueryHolds <=> running = Extension(Leaves(bits, claim), point))
=============================================================================
