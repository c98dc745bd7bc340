----------------------------- MODULE BitZScript -----------------------------
(***************************************************************************)
(* What prover and verifier do to their transcripts, as two scripts of     *)
(* steps, each written from its own side's source.  A function both sides  *)
(* call in the code is one operator here.  The values absorbed which both  *)
(* sides derive from what their sponges already hold (points, coordinates, *)
(* digests of derived weights, derived targets) are the one symbol         *)
(* Derived.  The Ligerito backend is external.                             *)
(***************************************************************************)
EXTENDS Transcript, SequencesExt

CONSTANTS
    Tag,        \* the label symbol of each name below
    Version, Generator, Derived,
    PackBits,   \* log2 of the bits in a packed element
    ClaimCount  \* ring-switch claims

TagNames == {"commit", "ood", "virtual", "columns", "cubic", "inner_product", "sumcheck",
             "round", "mle", "claims", "ring", "challenges", "batching", "basis", "pow"}

ASSUME ScriptAssumption ==
    /\ Tag \in [TagNames -> Symbol \ Cell]
    /\ \A a, b \in TagNames : Tag[a] = Tag[b] => a = b
    /\ {Version, Generator, Derived} \subseteq Symbol
    /\ {PackBits, ClaimCount} \subseteq Nat \ {0}
-----------------------------------------------------------------------------
\* Steps, each a script of its own.  A draw is of several challenges, of which
\* at most error in 2^128 are bad; a record puts off the checks it owes.
Absorb(x) == <<[op |-> "absorb", cells |-> x]>>
Record(n, checks) == <<[op |-> "record", count |-> n, owes |-> checks]>>
Draw(n, error) == <<[op |-> "draw", count |-> n, error |-> error]>>
Check(check) == <<[op |-> "check", check |-> check]>>
Hint == <<[op |-> "hint"]>>
Refuse == <<[op |-> "refuse"]>>

Times(n, script) == FlattenSeq([i \in 1..n |-> script])

CeilLog2(c) == CHOOSE k \in 0..c : 2^k >= c /\ \A j \in 0..k-1 : 2^j < c
FloorLog2(c) == CHOOSE k \in 0..c : 2^k <= c /\ 2^(k + 1) > c

\* Mistake: the coefficient's logarithm is rounded down.
grinding_bits_floor(level, c) ==
    IF c = 0 \/ level + FloorLog2(c) <= 128 THEN 0 ELSE level + FloorLog2(c) - 128

\* Bits a block with c bad challenges in 2^128 is short of the level.
grinding_bits(level, c) ==
    IF c = 0 \/ level + CeilLog2(c) <= 128 THEN 0 ELSE level + CeilLog2(c) - 128

\* ProverState::grind, VerifierState::grind: nothing at all for no bits.
Grind(label, bits) ==
    IF bits = 0 THEN <<>>
    ELSE Absorb(<<Tag.pow, label, bits>>) \o Draw(1, 0) \o <<[op |-> "nonce", bits |-> bits]>>
-----------------------------------------------------------------------------
(***************************************************************************)
(* A statement: virtual (about h = M(1 || f)) or not, security level, the  *)
(* claim's shape as the logarithms of rows and columns, the committed      *)
(* shape, log2 of the scheme's bit count, and a symbol for each of the     *)
(* other public inputs.  Weight vectors repeat one weight.                 *)
(***************************************************************************)
LogBits(shape) == shape[1] + shape[2]
Shape == Nat \X Nat

\* What the code takes in of a statement are integers of some width.
PublicNumbers(st) ==
    {st.level, st.bits, 2^LogBits(st.committed), 2^0} \cup {st.shape[i] : i \in 1..2}
    \cup {2^st.shape[i] : i \in 1..2} \cup {st.committed[i] : i \in 1..2}

IsStatement(st) ==
    /\ st.virtual \in BOOLEAN /\ st.level \in {100, 128} /\ st.bits \in Nat
    /\ st.shape \in Shape /\ st.committed \in Shape
    /\ ~st.virtual => st.committed = st.shape
    /\ PackBits <= st.bits
    /\ PublicNumbers(st) \subseteq Nat
    /\ {st.root, st.map, st.modulus, st.row, st.column, st.target} \subseteq Symbol
    /\ 2^st.shape[2] # 0 /\ CeilLog2(st.shape[2]) \in Nat

PcsCode(st) == <<Version, st.bits, st.level>>
ParamsCode(st) == st.shape \o <<st.modulus, Generator>>
VirtualParamsCode(st) == ParamsCode(st) \o st.committed

WeightsCode(n, weight) == <<2^n>> \o [i \in 1..2^n |-> weight]

\* Mistake: the claim is bound without its target.
ClaimCodeShort(st) ==
    WeightsCode(st.shape[1], st.row) \o WeightsCode(st.shape[2], st.column)

ClaimCode(st) ==
    WeightsCode(st.shape[1], st.row) \o WeightsCode(st.shape[2], st.column) \o <<st.target>>

\* The scheme is not of the statement's size.
Mismatched(st) == st.bits # LogBits(st.committed)
-----------------------------------------------------------------------------
\* Pcs::commit, Pcs::receive_commitment: out-of-domain sampling at 100 bits.
bind_commitment(st) == Absorb(<<Tag.commit, st.root>> \o PcsCode(st))
sample_point(st) == Absorb(<<Tag.ood>>) \o Draw(st.bits - PackBits, st.bits - PackBits)

commit(st) ==
    bind_commitment(st)
    \o IF st.level = 100 THEN sample_point(st) \o Record(1, {}) ELSE <<>>
receive_commitment(st) ==
    bind_commitment(st)
    \o IF st.level # 100 THEN <<>> ELSE sample_point(st) \o Record(1, {})

\* The statement, before the fold.
prover_bind(st) ==
    IF st.virtual
    THEN Absorb(<<Tag.virtual, st.root>> \o VirtualParamsCode(st) \o <<st.map>>
                \o ClaimCode(st) \o PcsCode(st))
    ELSE Absorb(<<st.root>> \o ParamsCode(st) \o PcsCode(st) \o ClaimCode(st))
verifier_bind(st) ==
    IF st.virtual
    THEN Absorb(<<Tag.virtual, st.root>>) \o Absorb(VirtualParamsCode(st))
         \o Absorb(<<st.map>>) \o Absorb(ClaimCode(st)) \o Absorb(PcsCode(st))
    ELSE Absorb(<<st.root>>) \o Absorb(ParamsCode(st))
         \o Absorb(PcsCode(st)) \o Absorb(ClaimCode(st))
-----------------------------------------------------------------------------
\* The fold round: a record a column, then the column point.
send_fold(st) ==
    Times(2^st.shape[2], Record(1, {}))
    \o Grind(Tag.columns, grinding_bits(st.level, st.shape[2]))
    \o Draw(st.shape[2], st.shape[2])

\* Mistake: the folds are checked against the claim after the column point.
receive_fold_late(st) ==
    Times(2^st.shape[2], Record(1, {"range", "reconstruct"})) \o Check("range")
    \o Grind(Tag.columns, grinding_bits(st.level, st.shape[2]))
    \o Draw(st.shape[2], st.shape[2]) \o Check("reconstruct")

receive_fold(st) ==
    Times(2^st.shape[2], Record(1, {"range", "reconstruct"}))
    \o Check("range") \o Check("reconstruct")
    \o Grind(Tag.columns, grinding_bits(st.level, st.shape[2]))
    \o Draw(st.shape[2], st.shape[2])

\* Grand products: a layer at a point of length n; the prover's last round is
\* written out after its loop.
CubicRound(st) ==
    Record(2, {}) \o Grind(Tag.cubic, grinding_bits(st.level, 3)) \o Draw(1, 3)
prove_layer(st, n) ==
    Times(n - 1, CubicRound(st)) \o (IF n > 0 THEN CubicRound(st) ELSE <<>>)
    \o Record(2, {}) \o Draw(1, 1)
verify_layer(st, n) ==
    Times(n, CubicRound(st)) \o Record(2, {"product"}) \o Check("product") \o Draw(1, 1)

gpgkr_prove(st) == FlattenSeq([i \in 1..st.shape[1] |-> prove_layer(st, st.shape[2] + i - 1)])
gpgkr_verify(st) == FlattenSeq([i \in 1..st.shape[1] |-> verify_layer(st, st.shape[2] + i - 1)])
-----------------------------------------------------------------------------
\* The opened claim's shape: a virtual claim is transposed to one column.
Opened(st) == IF st.virtual THEN <<LogBits(st.committed), 0>> ELSE st.shape

bind_inner_product_statement(st) ==
    Absorb(<<Tag.inner_product, st.root>> \o PcsCode(st)
           \o <<2^Opened(st)[1], 2^Opened(st)[2], Derived, Derived>>)
bind_mle_statement(st) ==
    Absorb(<<Tag.mle, st.root>> \o PcsCode(st) \o <<st.bits>>
           \o [i \in 1..st.bits |-> Derived] \o <<Derived>>)

\* The sumcheck after the grand products; the prover's first round, over the
\* bits, is written out before its loop.
QuadraticRound(st) ==
    Record(2, {}) \o Grind(Tag.round, grinding_bits(st.level, 2)) \o Draw(1, 2)
prove_factors(st) ==
    QuadraticRound(st) \o Times(st.bits - 1, QuadraticRound(st)) \o Record(1, {})

\* Mistake: rounds are counted over the rows alone.
verify_factors_rows(st) ==
    Times(Opened(st)[1], QuadraticRound(st)) \o Record(1, {"evaluation"}) \o Check("evaluation")

verify_factors(st) ==
    Times(LogBits(Opened(st)), QuadraticRound(st))
    \o Record(1, {"evaluation"}) \o Check("evaluation")

\* Ring switching and Ligerito.  The prover writes its hint last, and its
\* adapter makes the draws the verifier's backend ends with.
RingError(st) == IF st.level = 100 THEN 8 ELSE 7
sample_challenges == Absorb(<<Tag.challenges>>) \o Draw(7, 7)
batching_challenge(st) ==
    IF st.level = 100 THEN Absorb(<<Tag.batching>>) \o Draw(1, 1) ELSE <<>>

Backend == Absorb(<<Tag.basis, Derived>>) \o Record(1, {}) \o Draw(1, 0)

prove_mle(st) ==
    Absorb(<<Tag.claims>>) \o Record(ClaimCount, {})
    \o Grind(Tag.ring, grinding_bits(st.level, RingError(st)))
    \o sample_challenges \o batching_challenge(st) \o Backend \o Draw(2, 0) \o Hint
verify_mle(st) ==
    Hint \o Absorb(<<Tag.claims>>) \o Record(ClaimCount, {"target"}) \o Check("target")
    \o Grind(Tag.ring, grinding_bits(st.level, RingError(st)))
    \o sample_challenges \o batching_challenge(st) \o Backend \o Draw(2, 0) \o Check("opening")

prove_lin(st) ==
    bind_inner_product_statement(st) \o Absorb(<<Tag.sumcheck>>) \o prove_factors(st)
    \o bind_mle_statement(st) \o prove_mle(st)
verify_lin(st) ==
    bind_inner_product_statement(st) \o Absorb(<<Tag.sumcheck>>) \o verify_factors(st)
    \o bind_mle_statement(st) \o verify_mle(st)
-----------------------------------------------------------------------------
\* Pcs::commit and then BitZProver::prove or prove_virtual.
ProverBound(st) == commit(st) \o IF Mismatched(st) THEN Refuse ELSE prover_bind(st)
ProverScript(st) == ProverBound(st) \o send_fold(st) \o gpgkr_prove(st) \o prove_lin(st)

\* Pcs::receive_commitment and then BitZVerifier::verify or verify_virtual.
VerifierBound(st) ==
    receive_commitment(st) \o IF Mismatched(st) THEN Refuse ELSE verifier_bind(st)
VerifierScript(st) == VerifierBound(st) \o receive_fold(st) \o gpgkr_verify(st) \o verify_lin(st)

\* The cells of narg string a prover writes for a statement.
CellsOf(step) ==
    CASE step.op = "record" -> step.count
      [] step.op = "nonce" -> NonceCells
      [] OTHER -> 0
WireCells(st) ==
    LET script == ProverScript(st)
    IN  Len(FlattenSeq([i \in DOMAIN script |-> [j \in 1..CellsOf(script[i]) |-> 0]]))
=============================================================================
