---------------------------- MODULE ProofCalls ----------------------------
(***************************************************************************)
(* The calls a program makes on a CircuitProofSystem and what they return, *)
(* without the lock and the installed modulus they run under.              *)
(*                                                                         *)
(* A root stands for everything its transcript absorbs before the prime is *)
(* drawn, so it fixes the prime.  A Proof has public fields: a caller may  *)
(* pair one proof's root with another's residues, and "made" records the   *)
(* root whose prime the residues were computed under.                      *)
(***************************************************************************)
EXTENDS Naturals

CONSTANTS Roots,     \* committed statements
          Prime,     \* the prime squeeze_prime yields for each root
          Integers   \* the exact values a witness holds before projection

\* A proof made for s and presented for r.
Proofs == {[root |-> r, made |-> s, residue |-> v % Prime[s]] :
                r \in Roots, s \in Roots, v \in Integers}

\* A prove call "fits" when its witness, commitment and system belong together.
ProveJobs == [kind : {"prove"}, root : Roots, value : Integers, fits : BOOLEAN]
VerifyJobs == {[kind |-> "verify", root |-> p.root, proof |-> p] : p \in Proofs}
NoJob == [kind |-> "none"]
Jobs == ProveJobs \cup VerifyJobs

\* The calls that can be made when the proofs in held exist.
Callable(held) ==
    ProveJobs \cup
    {[kind |-> "verify", root |-> p.root,
      proof |-> [root |-> p.root, made |-> q.made, residue |-> q.residue]] :
            p \in held, q \in held}

Honest(j) == IF j.kind = "prove" THEN j.fits ELSE j.proof.made = j.proof.root

\* What an honest call returns, and the proof an honest prove returns.
Success(j) == IF j.kind = "prove" THEN "proved" ELSE "accepted"
ProofOf(j, residue) == [root |-> j.root, made |-> j.root, residue |-> residue]

Results == {"proved", "accepted", "failed", "noncanonical", "panicked"}
=============================================================================
