----------------------------- MODULE Challenger -----------------------------
(***************************************************************************)
(* pcs::challenger: Flock's two challengers over the project transcript.   *)
(* Flock observes values of its own copy of the opening proof, the hint,   *)
(* while the transcript absorbs the narg string's copy.  No call returns   *)
(* an error: a disagreement is noted and the calls go on, so acceptance    *)
(* rests on the notes.  Flock is external: its calls are arbitrary.        *)
(***************************************************************************)
EXTENDS Transcript, FiniteSets, SequencesExt

CONSTANTS
    Labels, BasisLabel,  \* LIGERITO_BASIS_LABEL among the labels
    ElementCells,        \* cells of a field element
    Values, Target,      \* elements observed, and the opening's target
    Strings, MaxObserved,\* byte strings observed, MAX_OBSERVED_BYTES
    Slices,              \* slices of elements observed
    Schedules,           \* of pairs: native and effective difficulty
    Natives,             \* difficulties Flock asks for
    BasisVars,           \* challenges drawn at once at the end
    PowTag, VectorTag,
    MaxCalls, MaxCells   \* bounds of the exploration

Elements == [1..ElementCells -> Cell]

ASSUME ChallengerAssumption ==
    /\ ElementCells \in Nat \ {0}
    /\ Values \subseteq Elements /\ Target \in Elements
    /\ Strings \subseteq Seq(Cell) /\ Slices \subseteq Seq(Values)
    /\ \A b \in Strings : Len(b) \in Cell
    /\ \A xs \in Slices : Len(xs) \in Cell
    /\ Labels \subseteq Seq(Symbol) /\ PowTag \in Symbol /\ VectorTag \in Symbol
    /\ Natives \subseteq Nat /\ Schedules \subseteq Seq(Natives \X (Nat \cap Symbol))
    /\ BasisVars \in Nat \cap Symbol /\ MaxObserved \in Nat

Sides == {"prover", "verifier"}

VARIABLES
    stage,   \* send, aborted, receive, accepted or rejected
    honest,  \* whether the verifier is given the prover's proof
    proof,   \* the narg string the verifier is given
    t,       \* each side's transcript
    failed,  \* each side's flag
    prefix,  \* opening_target: label or target still expected, or none
    schedule,\* the commitment's pow_schedule
    used,    \* entries of it taken
    rest,    \* what is left of a slice being observed
    meant,   \* history: what Flock's calls mean the sponge to take in
    trail    \* history: Flock's calls

vars == <<stage, honest, schedule, proof, t, failed, prefix, used, rest, meant, trail>>
-----------------------------------------------------------------------------
Init ==
    /\ honest \in BOOLEAN
    /\ schedule \in Schedules
    /\ stage = IF honest THEN "send" ELSE "receive"
    /\ proof \in UNION {[1..n -> Cell] : n \in IF honest THEN {0} ELSE 0..MaxCells}
    /\ t = [s \in Sides |-> IF s = "prover" THEN NewProver ELSE NewVerifier(proof)]
    /\ failed = [s \in Sides |-> FALSE]
    /\ prefix = [s \in Sides |-> "label"]
    /\ used = [s \in Sides |-> 0]
    /\ rest = [s \in Sides |-> <<>>]
    /\ meant = [s \in Sides |-> <<>>]
    /\ trail = [s \in Sides |-> <<>>]

\* Calls after which Flock's prover returns.
Draws == <<[op |-> "samples", count |-> BasisVars], [op |-> "sample"]>>

\* Flock's verifier repeats its prover's calls and draws once more.
Expected == trail["prover"] \o Draws

\* Flock makes this call of side s.
Calls(s, call) ==
    /\ stage = IF s = "prover" THEN "send" ELSE "receive"
    /\ rest[s] = <<>>
    /\ IF s = "verifier" /\ honest
       THEN Len(trail[s]) < Len(Expected) /\ call = Expected[Len(trail[s]) + 1]
       ELSE Len(trail[s]) < MaxCalls
    /\ trail' = [trail EXCEPT ![s] = Append(@, call)]

\* What a call leaves: a transcript, a note if there was a disagreement, and
\* what Flock means the sponge to take in.
Leaves(s, transcript, disagrees, cells) ==
    /\ t' = [t EXCEPT ![s] = transcript]
    /\ failed' = [failed EXCEPT ![s] = @ \/ disagrees]
    /\ meant' = [meant EXCEPT ![s] = @ \o cells]
    /\ UNCHANGED <<stage, honest, schedule, proof>>
-----------------------------------------------------------------------------
\* Mistake: a record that cannot be read is passed over.
ReadsOtherwisePermissive(s, n, value) ==
    has_message(t[s], n) /\ next_message(t[s], n) # value

\* VerifierChallenger::read and its comparison: the record is not the value.
ReadsOtherwise(s, n, value) ==
    ~has_message(t[s], n) \/ next_message(t[s], n) # value

\* A value Flock hands over: sent by the prover, read back by the verifier.
Exchange(s, value) ==
    IF s = "prover" THEN Leaves(s, send_message(t[s], value), FALSE, value)
    ELSE Leaves(s, read_message(t[s], Len(value)), ReadsOtherwise(s, Len(value), value), value)

observe_label(s, l) ==
    /\ Calls(s, [op |-> "label", label |-> l])
    /\ Leaves(s, public_message(t[s], l), prefix[s] = "label" /\ l # BasisLabel, l)
    /\ prefix' = [prefix EXCEPT ![s] = IF @ = "label" THEN "target" ELSE @]
    /\ UNCHANGED <<used, rest>>

\* The first element is the public target: after a label, and as expected.
WrongTarget(s, x) == prefix[s] = "label" \/ x # Target

Element(s, x) ==
    \/ /\ prefix[s] # "none"
       /\ Leaves(s, public_message(t[s], x), WrongTarget(s, x), x)
       /\ prefix' = [prefix EXCEPT ![s] = "none"]
    \/ /\ prefix[s] = "none"
       /\ Exchange(s, x)
       /\ UNCHANGED prefix

observe_f128(s, x) ==
    /\ Calls(s, [op |-> "f128", value |-> x])
    /\ Element(s, x)
    /\ UNCHANGED <<used, rest>>

\* The length, and then every element in turn.
observe_f128_slice(s, xs) ==
    /\ Calls(s, [op |-> "slice", values |-> xs])
    /\ Exchange(s, <<Len(xs)>>)
    /\ rest' = [rest EXCEPT ![s] = xs]
    /\ UNCHANGED <<prefix, used>>

SliceElement(s) ==
    /\ rest[s] # <<>>
    /\ Element(s, Head(rest[s]))
    /\ rest' = [rest EXCEPT ![s] = Tail(@)]
    /\ UNCHANGED <<used, trail>>

\* ProverMessageBytes: length first; the verifier reads at most MaxObserved.
Prefixed(b) == <<Len(b)>> \o b
Readable(w) ==
    /\ has_message(w, 1)
    /\ w.narg[1] <= MaxObserved
    /\ has_message(w, 1 + w.narg[1])

observe_bytes(s, b) ==
    /\ Calls(s, [op |-> "bytes", bytes |-> b])
    /\ \/ s = "prover" /\ Leaves(s, send_message(t[s], Prefixed(b)), FALSE, Prefixed(b))
       \/ /\ s = "verifier" /\ Readable(t[s])
          /\ LET n == 1 + t[s].narg[1]
             IN  Leaves(s, read_message(t[s], n), ReadsOtherwise(s, n, Prefixed(b)), Prefixed(b))
       \/ s = "verifier" /\ ~Readable(t[s]) /\ Leaves(s, t[s], TRUE, Prefixed(b))
    /\ UNCHANGED <<prefix, used, rest>>

sample_f128(s) ==
    /\ Calls(s, [op |-> "sample"])
    /\ Leaves(s, verifier_message(t[s]), FALSE, <<Squeeze>>)
    /\ UNCHANGED <<prefix, used, rest>>

\* What drawing n challenges at once leaves in the sponge.
Vector(n) == <<VectorTag, n>> \o [i \in 1..n |-> Squeeze]

sample_f128_vec(s, n) ==
    /\ Calls(s, [op |-> "samples", count |-> n])
    /\ Leaves(s, public_message(t[s], Vector(n)), FALSE, Vector(n))
    /\ UNCHANGED <<prefix, used, rest>>
-----------------------------------------------------------------------------
\* Mistake: the difficulty comes from the schedule whatever was asked.
pow_difficulty_unchecked(s, native) == used[s] < Len(schedule)

\* The next entry of the schedule is for this difficulty.
pow_difficulty(s, native) == used[s] < Len(schedule) /\ schedule[used[s] + 1][1] = native

Effective(s) == schedule[used[s] + 1][2]
Header(s) == <<PowTag, Effective(s), Squeeze>>

\* An entry is gone even when the call is not the one it is for.
TakeEntry(s) ==
    /\ used' = [used EXCEPT ![s] = IF @ < Len(schedule) THEN @ + 1 ELSE @]
    /\ UNCHANGED <<prefix, rest>>

PowCall(native, nonce) == [op |-> "pow", native |-> native, nonce |-> nonce]

grind_pow(native) ==
    LET s == "prover"
        ground == public_message(t[s], Header(s))
    IN  /\ \/ /\ pow_difficulty(s, native)
              /\ \E nonce \in find(ground.sponge, Effective(s)) :
                    /\ Calls(s, PowCall(native, nonce))
                    /\ Leaves(s, send_message(ground, nonce), FALSE, Header(s) \o nonce)
           \/ /\ ~pow_difficulty(s, native)
              /\ Calls(s, PowCall(native, ZeroNonce))
              /\ Leaves(s, t[s], TRUE, <<>>)
        /\ TakeEntry(s)

verify_pow(nonce, native) ==
    LET s == "verifier"
        ground == public_message(t[s], Header(s))
    IN  /\ Calls(s, PowCall(native, nonce))
        /\ \/ /\ pow_difficulty(s, native)
              /\ Leaves(s, read_message(ground, NonceCells),
                        \/ ReadsOtherwise(s, NonceCells, nonce)
                        \/ ~valid(ground.sponge, nonce, Effective(s)),
                        Header(s) \o nonce)
           \/ /\ ~pow_difficulty(s, native)
              /\ Leaves(s, t[s], TRUE, <<>>)
        /\ TakeEntry(s)
-----------------------------------------------------------------------------
\* Mistake: the prover's adapter is left where Flock's prover leaves it.
TrailingNone == <<>>

\* ReducedProver::prove draws what Flock's verifier draws after it.
Trailing == Vector(BasisVars) \o <<Squeeze>>

\* ProverChallenger::failed, VerifierChallenger::failed
Failed(s) == failed[s] \/ prefix[s] # "none" \/ used[s] # Len(schedule)

\* ReducedProver::prove: the proof is handed over if nothing was noted.
HandOver ==
    /\ stage = "send"
    /\ rest["prover"] = <<>>
    /\ stage' = IF Failed("prover") THEN "aborted" ELSE "receive"
    /\ proof' = t["prover"].narg
    /\ t' = [s \in Sides |-> IF s = "prover" THEN public_message(t[s], Trailing)
                             ELSE NewVerifier(proof')]
    /\ meant' = [s \in Sides |-> IF s = "prover" THEN meant[s] \o Trailing ELSE <<>>]
    /\ UNCHANGED <<honest, schedule, failed, prefix, used, rest, trail>>

\* verify_succinct asks for the notes and for Flock's verdict, the verifier
\* for the end of the stream.  Flock accepts what its own prover made.
Finish ==
    /\ stage = "receive"
    /\ rest["verifier"] = <<>>
    /\ honest => Len(trail["verifier"]) = Len(Expected)
    /\ \E verdict \in BOOLEAN :
          /\ honest => verdict
          /\ stage' = IF ~Failed("verifier") /\ verdict /\ check_eof(t["verifier"])
                      THEN "accepted" ELSE "rejected"
    /\ UNCHANGED <<honest, schedule, proof, t, failed, prefix, used, rest, meant, trail>>

Observes(s) ==
    \/ \E l \in Labels : observe_label(s, l)
    \/ \E x \in Values : observe_f128(s, x)
    \/ \E xs \in Slices : observe_f128_slice(s, xs)
    \/ SliceElement(s)
    \/ \E b \in Strings : observe_bytes(s, b)
    \/ sample_f128(s)
    \/ sample_f128_vec(s, BasisVars)

Next ==
    \/ \E s \in Sides : Observes(s)
    \/ \E native \in Natives : grind_pow(native)
    \/ \E native \in Natives, nonce \in Nonces : verify_pow(nonce, native)
    \/ HandOver
    \/ Finish

Spec == Init /\ [][Next]_vars
-----------------------------------------------------------------------------
Transcripts == [sponge : Seq(Symbol), narg : Seq(Cell)]

\* Types: whatever the calls and the stream, streams hold cells and the
\* schedule is never overrun.
TypeOK ==
    /\ stage \in {"send", "aborted", "receive", "accepted", "rejected"}
    /\ honest \in BOOLEAN
    /\ schedule \in Schedules
    /\ proof \in Seq(Cell)
    /\ t \in [Sides -> Transcripts]
    /\ failed \in [Sides -> BOOLEAN]
    /\ prefix \in [Sides -> {"label", "target", "none"}]
    /\ used \in [Sides -> 0..Len(schedule)]
    /\ rest \in [Sides -> Seq(Values)]
    /\ meant \in [Sides -> Seq(Symbol)]

\* Every challenge Flock is given depends on exactly what Flock observed
\* before it, unless the adapter has noted a disagreement: a value read from
\* the narg string, or missing from it, never passes for the hint's value.
AbsorbedAsMeant == \A s \in Sides : ~failed[s] => t[s].sponge = meant[s]

\* The side has called its opening good.
Returned(s) ==
    IF s = "prover" THEN honest /\ stage \in {"receive", "accepted", "rejected"}
    ELSE stage = "accepted"

Elems(call) == CASE call.op = "f128" -> <<call.value>>
                 [] call.op = "slice" -> call.values
                 [] OTHER -> <<>>

\* The calls that carry the first element, if any.
First(calls) == {k \in DOMAIN calls : /\ Elems(calls[k]) # <<>>
                                      /\ \A j \in 1..k-1 : Elems(calls[j]) = <<>>}

\* The first element is the claim's target, behind the basis label, which is
\* the first label.
TargetFirst(calls) ==
    \E k \in First(calls), j \in DOMAIN calls :
        /\ j < k /\ calls[j] = [op |-> "label", label |-> BasisLabel]
        /\ \A i \in 1..j-1 : calls[i].op # "label"
        /\ Elems(calls[k])[1] = Target

\* The calls for a proof of work are for the schedule's entries, in its order.
Pows(calls) == {k \in DOMAIN calls : calls[k].op = "pow"}
Rank(calls, k) == Cardinality({j \in Pows(calls) : j <= k})
InOrder(calls, entries) == \A k \in Pows(calls) : calls[k].native = entries[Rank(calls, k)][1]

\* A returned opening asked for all of the schedule's proofs of work in order, and
\* put the basis label and then the claim's target before any element.
ReturnedFollowsSchedule ==
    \A s \in Sides : Returned(s) =>
        /\ Cardinality(Pows(trail[s])) = Len(schedule)
        /\ InOrder(trail[s], schedule)
        /\ TargetFirst(trail[s])

\* An untouched proof is accepted, and leaves the sponges equal for the
\* protocols that follow the opening.
HonestAgree ==
    honest =>
        /\ stage # "rejected"
        /\ ~failed["verifier"]
        /\ stage = "accepted" => t["verifier"].sponge = t["prover"].sponge

\* The cells a call writes; the first element of an opening is public.
Cells(calls, k) ==
    LET c == calls[k]
        written == IF k \in First(calls) THEN Tail(Elems(c)) ELSE Elems(c)
    IN  CASE c.op = "bytes" -> Prefixed(c.bytes)
          [] c.op = "pow" -> c.nonce
          [] c.op = "slice" -> <<Len(c.values)>> \o FlattenSeq(written)
          [] OTHER -> FlattenSeq(written)

\* An accepted opening has one narg string: the encoding of the values the
\* hint gave Flock, each once, in order, with nothing between or after.
AcceptedIsCanonical ==
    stage = "accepted" =>
        proof = FlattenSeq([k \in DOMAIN trail["verifier"] |-> Cells(trail["verifier"], k)])
=============================================================================
