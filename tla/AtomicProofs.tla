--------------------------- MODULE AtomicProofs ---------------------------
(***************************************************************************)
(* What prove and verify promise to concurrent callers: each call is       *)
(* decided at one instant, as if no other call were running, and only from *)
(* its own arguments.                                                      *)
(***************************************************************************)
EXTENDS ProofCalls

CONSTANT Callers

VARIABLES phase,    \* idle, pending or decided
          job, proofs, outcome

avars == <<phase, job, proofs, outcome>>

Init ==
    /\ phase = [t \in Callers |-> "idle"]
    /\ job = [t \in Callers |-> NoJob]
    /\ proofs = {}
    /\ outcome = [t \in Callers |-> "none"]

Call(t) ==
    /\ phase[t] = "idle"
    /\ \E j \in Callable(proofs) : job' = [job EXCEPT ![t] = j]
    /\ phase' = [phase EXCEPT ![t] = "pending"]
    /\ UNCHANGED <<proofs, outcome>>

(***************************************************************************)
(* The results a call may have.  An honest call succeeds.  A mismatched    *)
(* prove returns an error or panics; a mismatched verify returns an error, *)
(* NonCanonicalProof only if a residue is not below the root's own prime,  *)
(* and never panics.                                                       *)
(***************************************************************************)
Verdicts(j) ==
    IF Honest(j) THEN {Success(j)}
    ELSE IF j.kind = "prove" THEN {"failed", "panicked"}
    ELSE IF j.proof.residue < Prime[j.root] THEN {"failed"}
    ELSE {"failed", "noncanonical"}

Decide(t) ==
    /\ phase[t] = "pending"
    /\ \E v \in Verdicts(job[t]) : outcome' = [outcome EXCEPT ![t] = v]
    /\ phase' = [phase EXCEPT ![t] = "decided"]
    /\ UNCHANGED <<job, proofs>>

\* A proof holds the witness's residues under the prime of its own root.
Return(t) ==
    /\ phase[t] = "decided"
    /\ phase' = [phase EXCEPT ![t] = "idle"]
    /\ proofs' = IF outcome[t] = "proved"
                 THEN proofs \cup {ProofOf(job[t], job[t].value % Prime[job[t].root])}
                 ELSE proofs
    /\ job' = [job EXCEPT ![t] = NoJob]
    /\ outcome' = [outcome EXCEPT ![t] = "none"]

Next == \E t \in Callers : Call(t) \/ Decide(t) \/ Return(t)

Spec == Init /\ [][Next]_avars
=============================================================================
