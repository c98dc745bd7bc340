------------------------------ MODULE Protocol ------------------------------
(***************************************************************************)
(* Prover and verifier running their scripts over one proof, which travels *)
(* in its container and may be changed on the way, or be given to a        *)
(* verifier of another statement.  What a check finds then is arbitrary:   *)
(* the arithmetic of the checks is BitZReduction's, here only where they   *)
(* stand is at issue.                                                      *)
(***************************************************************************)
EXTENDS BitZScript, WireProof

CONSTANTS
    Statements,   \* of verifiers
    Provable,     \* those a prover is run on
    OtherHint,    \* a byte of hints the prover did not write
    HintLimit     \* PROOF_HINT_LIMIT

\* A prover's longest hint stream, every change made to it.
HintRoom == 3 * (U32 + 1) + HintLimit

\* Cells are bits, the mark of a challenge is no byte, and what the code
\* computes from a statement is small: its integers are of 64 bits, and the
\* logarithm of a number of index bits is far below the 28 bits that
\* out-of-domain sampling needs.
ASSUME ProtocolAssumption ==
    /\ Provable \subseteq Statements
    /\ Cell = {0, 1} /\ 0..2 \cup {Derived, OtherHint} \subseteq Byte /\ Squeeze \notin Byte
    /\ HintLimit \in Nat \ {0} /\ {1, HintLimit + 1} \subseteq Numbers(U32)
    /\ \A st \in Statements :
          /\ IsStatement(st)
          /\ 100 + CeilLog2(st.bits - PackBits) <= 128
          /\ HEADER_LEN + WireCells(st) + 1 + HintRoom <= MaxUsize

Sides == {"prover", "verifier"}

VARIABLES
    stage,       \* prove, aborted, verify, accepted or rejected
    statement,   \* each side's
    wire,        \* the bytes the verifier is given
    proof,       \* what they decode to
    t,           \* transcripts
    hints,       \* each side's hint stream
    todo,        \* what is left of each script
    bound,       \* history: steps each side has left when its statement is bound
    owed,        \* history: checks the verifier has put off
    error,       \* history: bad challenges allowed by the draws since the last record
    work         \* history: bits of proof of work since that record

vars == <<stage, statement, wire, proof, t, hints, todo, bound, owed, error, work>>
-----------------------------------------------------------------------------
Init ==
    /\ stage = "prove"
    /\ \E st \in Provable :
          /\ statement = [s \in Sides |-> st]
          /\ todo = [s \in Sides |-> IF s = "prover" THEN ProverScript(st) ELSE VerifierScript(st)]
          /\ bound = [s \in Sides |->
                IF s = "prover" THEN Len(ProverScript(st)) - Len(ProverBound(st))
                ELSE Len(VerifierScript(st)) - Len(VerifierBound(st))]
    /\ wire = <<>>
    /\ proof = NoProof
    /\ t = [s \in Sides |-> IF s = "prover" THEN NewProver ELSE NewVerifier(<<>>)]
    /\ hints = [s \in Sides |-> <<>>]
    /\ owed = {}
    /\ error = [s \in Sides |-> 0]
    /\ work = [s \in Sides |-> 0]

\* The next step of side s.
Runs(s, op) ==
    /\ stage = IF s = "prover" THEN "prove" ELSE "verify"
    /\ todo[s] # <<>>
    /\ Head(todo[s]).op = op
Proceeds(s) ==
    /\ todo' = [todo EXCEPT ![s] = Tail(@)]
    /\ UNCHANGED <<stage, statement, wire, proof, bound>>

Stops(outcome) ==
    /\ stage' = outcome
    /\ UNCHANGED <<statement, wire, proof, t, hints, todo, bound, owed, error, work>>

AbsorbPublic(s) ==
    /\ Runs(s, "absorb")
    /\ Proceeds(s)
    /\ t' = [t EXCEPT ![s] = public_message(@, Head(todo[s]).cells)]
    /\ UNCHANGED <<hints, owed, error, work>>

DrawChallenges(s) ==
    LET step == Head(todo[s])
    IN  /\ Runs(s, "draw")
        /\ Proceeds(s)
        /\ t' = [t EXCEPT ![s] = public_message(@, [i \in 1..step.count |-> Squeeze])]
        /\ error' = [error EXCEPT ![s] = @ + step.error]
        /\ UNCHANGED <<hints, owed, work>>

\* A record ends the block of draws before it.
StartsBlock(s) ==
    /\ error' = [error EXCEPT ![s] = 0]
    /\ work' = [work EXCEPT ![s] = 0]

\* The prover's records hold what tells neighbouring cells apart.
Message(n) == [i \in 1..n |-> (Len(t["prover"].narg) + i) % 2]

SendRecord ==
    /\ Runs("prover", "record")
    /\ Proceeds("prover")
    /\ t' = [t EXCEPT !["prover"] = send_message(@, Message(Head(todo["prover"]).count))]
    /\ StartsBlock("prover")
    /\ UNCHANGED <<hints, owed>>

ReadRecord ==
    LET step == Head(todo["verifier"])
    IN  /\ Runs("verifier", "record")
        /\ IF has_message(t["verifier"], step.count)
           THEN /\ Proceeds("verifier")
                /\ t' = [t EXCEPT !["verifier"] = read_message(@, step.count)]
                /\ owed' = owed \cup step.owes
                /\ StartsBlock("verifier")
                /\ UNCHANGED hints
           ELSE Stops("rejected")

SendNonce ==
    LET bits == Head(todo["prover"]).bits
    IN  /\ Runs("prover", "nonce")
        /\ Proceeds("prover")
        /\ \E nonce \in find(t["prover"].sponge, bits) :
              t' = [t EXCEPT !["prover"] = send_message(@, nonce)]
        /\ work' = [work EXCEPT !["prover"] = @ + bits]
        /\ UNCHANGED <<hints, owed, error>>

ReadNonce ==
    LET bits == Head(todo["verifier"]).bits
        v == t["verifier"]
    IN  /\ Runs("verifier", "nonce")
        /\ IF has_message(v, NonceCells) /\ valid(v.sponge, next_message(v, NonceCells), bits)
           THEN /\ Proceeds("verifier")
                /\ t' = [t EXCEPT !["verifier"] = read_message(@, NonceCells)]
                /\ work' = [work EXCEPT !["verifier"] = @ + bits]
                /\ UNCHANGED <<hints, owed, error>>
           ELSE Stops("rejected")

\* A byte string of hints has its length in front.
hint_bytes(payload) == to_le(Len(payload), U32) \o payload

\* The opening proof, one byte here.
WriteHint ==
    /\ Runs("prover", "hint")
    /\ Proceeds("prover")
    /\ hints' = [hints EXCEPT !["prover"] = @ \o hint_bytes(<<Derived>>)]
    /\ UNCHANGED <<t, owed, error, work>>

\* One that is too long for the limit or for what is left leaves the stream alone.
HintEnd(hs) == U32 + from_le(SubSeq(hs, 1, U32))
has_hint(hs) == Len(hs) >= U32 /\ HintEnd(hs) <= Len(hs) /\ HintEnd(hs) <= U32 + HintLimit

ReadHint ==
    LET hs == hints["verifier"]
    IN  /\ Runs("verifier", "hint")
        /\ IF has_hint(hs)
           THEN /\ Proceeds("verifier")
                /\ hints' = [hints EXCEPT !["verifier"] = SubSeq(@, HintEnd(hs) + 1, Len(@))]
                /\ UNCHANGED <<t, owed, error, work>>
           ELSE Stops("rejected")

SameStatement == statement["prover"] = statement["verifier"]
SameRecords == SameStatement /\ proof.narg = t["prover"].narg

\* What a check finds is arbitrary once something it reads was changed.
Untouched(check) == SameRecords /\ (check = "opening" => proof.hints = hints["prover"])

RunCheck ==
    LET check == Head(todo["verifier"]).check
    IN  /\ Runs("verifier", "check")
        /\ \E holds \in BOOLEAN :
              /\ Untouched(check) => holds
              /\ IF holds
                 THEN /\ Proceeds("verifier")
                      /\ owed' = owed \ {check}
                      /\ UNCHANGED <<t, hints, error, work>>
                 ELSE Stops("rejected")

\* A scheme of the wrong size: the call returns ParameterMismatch.
Refused(s) ==
    /\ Runs(s, "refuse")
    /\ Stops(IF s = "prover" THEN "aborted" ELSE "rejected")
-----------------------------------------------------------------------------
\* A narg string with one cell altered, dropped or inserted.
Edited(narg) ==
    {[narg EXCEPT ![i] = 1 - @] : i \in DOMAIN narg}
    \cup {RemoveAt(narg, i) : i \in DOMAIN narg}
    \cup {InsertAt(narg, i, x) : i \in 1..Len(narg) + 1, x \in {0, 1}}

\* One byte of hints altered, dropped or inserted.
EditedHints(hs) ==
    {[hs EXCEPT ![i] = x] : i \in DOMAIN hs, x \in {0, 2, OtherHint}}
    \cup {RemoveAt(hs, i) : i \in DOMAIN hs}
    \cup {InsertAt(hs, i, OtherHint) : i \in 1..Len(hs) + 1}
    \cup {<<>>, hs \o hs, hint_bytes([i \in 1..HintLimit + 1 |-> OtherHint])}

Sent == [narg |-> t["prover"].narg, hints |-> hints["prover"]]

\* What the boundary between the streams hides: where one ends.
Reframed(p) ==
    LET body == p.narg \o p.hints
    IN  {[narg |-> SubSeq(body, 1, n), hints |-> SubSeq(body, n + 1, Len(body))] :
            n \in {Len(p.narg) - 1, Len(p.narg) + 1, Len(body)} \cap 0..Len(body)}

\* A container cut short, continued, or with a header field changed.
EditedContainer(bytes) ==
    {SubSeq(bytes, 1, n) : n \in 0..Len(bytes) - 1}
    \cup {bytes \o <<0>>, bytes \o bytes}
    \cup {[bytes EXCEPT ![i] = x] : i \in 1..HEADER_LEN, x \in Byte}

Delivered ==
    {encode(p) : p \in {Sent} \cup {[Sent EXCEPT !.narg = n] : n \in Edited(Sent.narg)}
                            \cup {[Sent EXCEPT !.hints = h] : h \in EditedHints(Sent.hints)}
                            \cup Reframed(Sent)}
    \cup EditedContainer(encode(Sent))

\* The bytes reach a verifier: changed, or for another statement.
HandOver ==
    /\ stage = "prove"
    /\ todo["prover"] = <<>>
    /\ \E st \in Statements :
          /\ statement' = [statement EXCEPT !["verifier"] = st]
          /\ todo' = [todo EXCEPT !["verifier"] = VerifierScript(st)]
          /\ bound' = [bound EXCEPT !["verifier"] =
                          Len(VerifierScript(st)) - Len(VerifierBound(st))]
          /\ wire' \in IF st = statement["prover"] THEN Delivered ELSE {encode(Sent)}
    /\ stage' = IF DecodingError(wire') = "none" THEN "verify" ELSE "rejected"
    /\ proof' = decode(wire')
    /\ t' = [t EXCEPT !["verifier"] = NewVerifier(proof'.narg)]
    /\ hints' = [hints EXCEPT !["verifier"] = proof'.hints]
    /\ UNCHANGED <<owed, error, work>>

\* Mistake: only the narg string is asked for its end.
EndOfNarg == check_eof(t["verifier"])

\* VerifierState::check_eof, of both streams.
EndOfProof == check_eof(t["verifier"]) /\ hints["verifier"] = <<>>

Finish ==
    /\ stage = "verify"
    /\ todo["verifier"] = <<>>
    /\ Stops(IF EndOfProof THEN "accepted" ELSE "rejected")

Next ==
    \/ \E s \in Sides : AbsorbPublic(s) \/ DrawChallenges(s) \/ Refused(s)
    \/ SendRecord \/ ReadRecord
    \/ SendNonce \/ ReadNonce
    \/ WriteHint \/ ReadHint
    \/ RunCheck
    \/ HandOver
    \/ Finish

Spec == Init /\ [][Next]_vars
-----------------------------------------------------------------------------
\* The two programs make the same transcript calls: on the same statement and
\* narg string the verifier's sponge only ever retraces the prover's, is equal
\* to it on acceptance, and a container that arrives as it was sent is accepted.
Lockstep ==
    stage # "prove" /\ SameRecords =>
        /\ IsPrefix(t["verifier"].sponge, t["prover"].sponge)
        /\ stage = "accepted" => t["verifier"].sponge = t["prover"].sponge
        /\ wire = encode(Sent) => stage # "rejected"

\* Statements that differ in anything public lead to different challenges from
\* the fold on: no verifier's sponge, once its statement is bound, occurs in a
\* proof for another statement.
StatementsApart ==
    /\ stage \in {"verify", "accepted"}
    /\ ~SameStatement
    /\ Len(todo["verifier"]) <= bound["verifier"]
    => ~IsPrefix(t["verifier"].sponge, t["prover"].sponge)

\* "What the ordering protects is the challenge": the verifier draws nothing,
\* the seed of a proof of work included, while a check of records it has read
\* is put off.
Draws(before, after) == \E i \in DOMAIN after : i > Len(before) /\ after[i] = Squeeze
NoDrawWhileOwed == [][Draws(t["verifier"].sponge, t'["verifier"].sponge) => owed = {}]_vars

\* Accepted bytes are the one container of an accepted proof, and have one
\* length for their statement: what a prover of it writes and one hint, nothing
\* over in either stream or after them, and no check left out.
AcceptedIsWhole ==
    stage = "accepted" =>
        /\ wire = encode(proof)
        /\ Len(wire) = HEADER_LEN + WireCells(statement["verifier"]) + HintEnd(proof.hints)
        /\ owed = {}

\* The draws after a record, and the proof of work before them, meet the
\* security level (the candidate lists of out-of-domain sampling aside).
GroundEnough ==
    \A s \in Sides : error[s] > 0 =>
        statement[s].level + CeilLog2(error[s]) <= 128 + work[s]
=============================================================================
