----------------------------- MODULE MCProtocol -----------------------------
(***************************************************************************)
(* Direct statements with several columns or one, and a virtual one, at    *)
(* both levels; the verifier's differ from them in one public input.       *)
(* Public inputs take values a length or a cell may also have.  Labels are *)
(* 201 and up.                                                             *)
(***************************************************************************)
EXTENDS Protocol

MCSymbol == 0..250
MCCell == 0..1
MCTag ==
    [commit |-> 201, ood |-> 202, virtual |-> 203, columns |-> 204, cubic |-> 205,
     inner_product |-> 206, sumcheck |-> 207, round |-> 208, mle |-> 209, claims |-> 210,
     ring |-> 211, challenges |-> 212, batching |-> 213, basis |-> 214, pow |-> 215]

Direct(level, shape) ==
    [virtual |-> FALSE, level |-> level, shape |-> shape, committed |-> shape,
     bits |-> LogBits(shape), root |-> 0, map |-> 0, modulus |-> 0,
     row |-> 0, column |-> 0, target |-> 0]
Virtual(level, shape, committed) ==
    [Direct(level, shape) EXCEPT !.virtual = TRUE, !.committed = committed,
                                 !.bits = LogBits(committed)]

MCProvable == {[Direct(100, <<2, 1>>) EXCEPT !.bits = 4]} \cup UNION {
    {Direct(level, <<2, 1>>), Direct(level, <<1, 2>>), Direct(level, <<1, 3>>),
     Direct(level, <<2, 0>>), Virtual(level, <<2, 1>>, <<2, 0>>),
     Virtual(level, <<1, 0>>, <<1, 1>>)} : level \in {100, 128}}

\* The same statement but for one public input.
Variants(st) ==
    {[st EXCEPT !.root = 1], [st EXCEPT !.modulus = 1], [st EXCEPT !.row = 1],
     [st EXCEPT !.column = 1], [st EXCEPT !.target = 1], [st EXCEPT !.level = 228 - @],
     [st EXCEPT !.bits = @ + 1]}
    \cup IF st.virtual THEN {[st EXCEPT !.map = 1], [st EXCEPT !.committed = <<@[2], @[1]>>]} ELSE {}

MCStatements == MCProvable \cup UNION {Variants(st) : st \in MCProvable}

\* A byte is half of one, a header nine of them, and 255 the last address.
MCByte == 0..15
MCMagic == <<6, 2>>
MCToLe(n, width) == IF width = 1 THEN <<n>> ELSE <<n % 16, n \div 16>>
MCFromLe(b) == IF Len(b) = 1 THEN b[1] ELSE b[1] + 16 * b[2]

\* The nonce that works changes with the seed.
MCLeadingZeros(seed, nonce) == IF nonce[1] = Len(seed) % 2 THEN 32 ELSE 0
=============================================================================
