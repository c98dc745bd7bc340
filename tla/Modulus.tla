------------------------------ MODULE Modulus ------------------------------
(***************************************************************************)
(* The process-wide modulus of field::DynField and the two operations that *)
(* install it, CircuitProofSystem::prove and CircuitProofSystem::verify.   *)
(*                                                                         *)
(* Every caller takes DYNAMIC_MODULUS_LOCK, draws the prime its transcript *)
(* yields, writes it into five atomics word by word and then runs field    *)
(* operations, on its own thread and on the pool's, which load the five    *)
(* words one by one.  No ordering protects the words: only the lock does.  *)
(* A Proof carries field elements out of the lock and into later calls.    *)
(***************************************************************************)
EXTENDS ProofCalls, Sequences

CONSTANTS Callers,   \* threads that call prove and verify
          Workers,   \* the pool's workers, used by whoever holds the lock
          Metadata,  \* FieldMetadata::new for each drawn prime, as five words
          Radix,     \* number of values of one word (2^64 in the code)
          Free       \* the owner of an unlocked mutex

\* The words, numbered as store writes them: MODULUS_LO, MODULUS_HI, MU_LO,
\* MU_HI, BITS.  load reads them in LoadOrder.
Words == 1..5
LoadOrder == <<1, 2, 5, 3, 4>>

\* load_u128 of the modulus, from words that start with its two halves.
ModulusOf(cfg) == cfg[1] + Radix * cfg[2]

ASSUME ModulusAssumption ==
    /\ Radix \in Nat
    /\ Prime \in [Roots -> Nat \ {0}]
    /\ Integers \subseteq Nat
    /\ \A r \in Roots :
          /\ Metadata[Prime[r]] \in [Words -> Nat]
          /\ ModulusOf(Metadata[Prime[r]]) = Prime[r]
    /\ Free \notin Callers

VARIABLES lock,      \* owner of DYNAMIC_MODULUS_LOCK, or Free
          poisoned,  \* whether a panic has unwound through the guard
          word,      \* the five atomics of mod global
          pc,        \* where each caller is
          job,       \* the call each caller is in
          stored,    \* how many words global::store has written
          element,   \* a field element the call computes with
          seen,      \* the words each worker has loaded for a call
          proofs,    \* the Proof values callers hold between calls
          outcome    \* what the call a caller is leaving returns

vars == <<lock, poisoned, word, pc, job, stored, element, seen, proofs, outcome>>
-----------------------------------------------------------------------------
Init ==
    /\ lock = Free
    /\ poisoned = FALSE
    /\ word = [i \in Words |-> 0]
    /\ pc = [t \in Callers |-> "idle"]
    /\ job = [t \in Callers |-> NoJob]
    /\ stored = [t \in Callers |-> 0]
    /\ element = [t \in Callers |-> 0]
    /\ seen = [t \in Callers |-> [w \in Workers |-> <<>>]]
    /\ proofs = {}
    /\ outcome = [t \in Callers |-> "none"]

\* A caller enters prove or verify and asks for the lock.
Call(t) ==
    /\ pc[t] = "idle"
    /\ \E j \in Callable(proofs) : job' = [job EXCEPT ![t] = j]
    /\ pc' = [pc EXCEPT ![t] = "locking"]
    /\ UNCHANGED <<lock, poisoned, word, stored, element, seen, proofs, outcome>>

\* Mistake: "let _ = lock()" drops the guard at once.
AcquireUnguarded(t) ==
    /\ pc[t] = "locking"
    /\ pc' = [pc EXCEPT ![t] = "bound"]
    /\ UNCHANGED <<lock, poisoned, word, job, stored, element, seen, proofs, outcome>>

\* lock().unwrap_or_else(PoisonError::into_inner): poison is no obstacle.
Acquire(t) ==
    /\ pc[t] = "locking"
    /\ lock = Free
    /\ lock' = t
    /\ pc' = [pc EXCEPT ![t] = "bound"]
    /\ UNCHANGED <<poisoned, word, job, stored, element, seen, proofs, outcome>>

\* Mistake: a panicking call never gives the lock back.
LeaveLocked(t, result) ==
    /\ lock' = IF result = "panicked" THEN lock ELSE Free
    /\ pc' = [pc EXCEPT ![t] = "returning"]
    /\ outcome' = [outcome EXCEPT ![t] = result]
    /\ stored' = [stored EXCEPT ![t] = 0]
    /\ seen' = [seen EXCEPT ![t] = [w \in Workers |-> <<>>]]
    /\ UNCHANGED <<word, job, proofs>>

\* Leaving the function, with ?, with a value or by unwinding, drops the guard
\* and every local of the call.
Leave(t, result) ==
    /\ lock' = Free
    /\ pc' = [pc EXCEPT ![t] = "returning"]
    /\ outcome' = [outcome EXCEPT ![t] = result]
    /\ stored' = [stored EXCEPT ![t] = 0]
    /\ seen' = [seen EXCEPT ![t] = [w \in Workers |-> <<>>]]
    /\ UNCHANGED <<word, job, proofs>>

\* The commitment or the constant-one opening fails before any prime is drawn.
FailEarly(t) ==
    /\ pc[t] = "bound"
    /\ ~Honest(job[t])
    /\ Leave(t, "failed")
    /\ UNCHANGED <<poisoned, element>>

\* bind, the constant-one opening, then squeeze_prime.
DrawPrime(t) ==
    /\ pc[t] = "bound"
    /\ pc' = [pc EXCEPT ![t] = "storing"]
    /\ UNCHANGED <<lock, poisoned, word, job, stored, element, seen, proofs, outcome>>

\* global::store writes the next word of the drawn prime's metadata.
StoreWord(t) ==
    /\ pc[t] = "storing"
    /\ stored[t] < 5
    /\ word' = [word EXCEPT ![stored[t] + 1] = Metadata[Prime[job[t].root]][stored[t] + 1]]
    /\ stored' = [stored EXCEPT ![t] = @ + 1]
    /\ UNCHANGED <<lock, poisoned, pc, job, element, seen, proofs, outcome>>

\* Mistake: only the low half of the modulus is loaded.
ProjectByLowHalf(t) ==
    /\ pc[t] = "storing"
    /\ stored[t] = 5
    /\ job[t].kind = "prove"
    /\ element' = [element EXCEPT ![t] = job[t].value % word[1]]
    /\ pc' = [pc EXCEPT ![t] = "working"]
    /\ UNCHANGED <<lock, poisoned, word, job, stored, seen, proofs, outcome>>

\* The rest of prove's under_prime: integers are projected onto the field
\* (From<u128> reduces by the modulus it loads).
Project(t) ==
    /\ pc[t] = "storing"
    /\ stored[t] = 5
    /\ job[t].kind = "prove"
    /\ element' = [element EXCEPT ![t] = job[t].value % ModulusOf(word)]
    /\ pc' = [pc EXCEPT ![t] = "working"]
    /\ UNCHANGED <<lock, poisoned, word, job, stored, seen, proofs, outcome>>

\* Mistake: the residues of a proof are taken as they come.
CanonicalUnchecked(p) == TRUE

\* validate_proof_fields: every residue of the proof is below the modulus.
Canonical(p) == p.residue < ModulusOf(word)

Validate(t) ==
    /\ pc[t] = "storing"
    /\ stored[t] = 5
    /\ job[t].kind = "verify"
    /\ Canonical(job[t].proof)
    /\ element' = [element EXCEPT ![t] = job[t].proof.residue]
    /\ pc' = [pc EXCEPT ![t] = "working"]
    /\ UNCHANGED <<lock, poisoned, word, job, stored, seen, proofs, outcome>>

RejectNonCanonical(t) ==
    /\ pc[t] = "storing"
    /\ stored[t] = 5
    /\ job[t].kind = "verify"
    /\ ~Canonical(job[t].proof)
    /\ Leave(t, "noncanonical")
    /\ UNCHANGED <<poisoned, element>>

\* A worker loads the next word for an operation of the caller it works for.
LoadWord(t, w) ==
    /\ pc[t] = "working"
    /\ Len(seen[t][w]) < 5
    /\ seen' = [seen EXCEPT ![t][w] = Append(@, word[LoadOrder[Len(@) + 1]])]
    /\ UNCHANGED <<lock, poisoned, word, pc, job, stored, element, proofs, outcome>>

\* Every worker has loaded a whole configuration.
Loaded(t) == \A w \in Workers : Len(seen[t][w]) = 5

\* assert_reduced passes for the operand of every operation.
Reduced(t) == \A w \in Workers : element[t] < ModulusOf(seen[t][w])

\* Spartan and the BitZ opening complete.
Finish(t) ==
    /\ pc[t] = "working"
    /\ Loaded(t)
    /\ Reduced(t)
    /\ Honest(job[t])
    /\ Leave(t, Success(job[t]))
    /\ UNCHANGED <<poisoned, element>>

\* A step of Spartan or of the opening returns an error.
FailLate(t) ==
    /\ pc[t] = "working"
    /\ Loaded(t)
    /\ Reduced(t)
    /\ ~Honest(job[t])
    /\ Leave(t, "failed")
    /\ UNCHANGED <<poisoned, element>>

\* An unreduced operand, or prove's expect on a witness of another system,
\* unwinds through the guard and poisons the mutex.
Panic(t) ==
    /\ pc[t] = "working"
    /\ Loaded(t)
    /\ \/ ~Reduced(t)
       \/ job[t].kind = "prove" /\ ~job[t].fits
    /\ Leave(t, "panicked")
    /\ poisoned' = TRUE
    /\ UNCHANGED element

\* The call's value reaches the caller, after the lock is free again.
Return(t) ==
    /\ pc[t] = "returning"
    /\ pc' = [pc EXCEPT ![t] = "idle"]
    /\ proofs' = IF outcome[t] = "proved"
                 THEN proofs \cup {ProofOf(job[t], element[t])}
                 ELSE proofs
    /\ element' = [element EXCEPT ![t] = 0]
    /\ job' = [job EXCEPT ![t] = NoJob]
    /\ outcome' = [outcome EXCEPT ![t] = "none"]
    /\ UNCHANGED <<lock, poisoned, word, stored, seen>>
-----------------------------------------------------------------------------
\* The steps a caller takes between locking and returning.
Advance(t) ==
    \/ FailEarly(t)
    \/ DrawPrime(t)
    \/ StoreWord(t)
    \/ Project(t)
    \/ Validate(t)
    \/ RejectNonCanonical(t)
    \/ \E w \in Workers : LoadWord(t, w)
    \/ Finish(t)
    \/ FailLate(t)
    \/ Panic(t)
    \/ Return(t)

Next == \E t \in Callers : Call(t) \/ Acquire(t) \/ Advance(t)

(***************************************************************************)
(* A thread inside the lock keeps running, and a free lock is taken by     *)
(* some waiter.  std::sync::Mutex promises no more: a given waiter may be  *)
(* overtaken for ever.                                                     *)
(***************************************************************************)
Fairness ==
    /\ \A t \in Callers : WF_vars(Advance(t))
    /\ WF_vars(\E t \in Callers : Acquire(t))

Spec == Init /\ [][Next]_vars /\ Fairness
-----------------------------------------------------------------------------
\* Between taking the guard and dropping it.
InSection == {"bound", "storing", "working"}

TypeOK ==
    /\ lock \in Callers \cup {Free}
    /\ poisoned \in BOOLEAN
    /\ word \in [Words -> Nat]
    /\ pc \in [Callers -> {"idle", "locking", "returning"} \cup InSection]
    /\ job \in [Callers -> Jobs \cup {NoJob}]
    /\ stored \in [Callers -> 0..5]
    /\ element \in [Callers -> Nat]
    /\ seen \in [Callers -> [Workers -> Seq(Nat)]]
    /\ proofs \subseteq Proofs
    /\ outcome \in [Callers -> Results \cup {"none"}]

(***************************************************************************)
(* While a call computes, the words and every word any of its workers has  *)
(* loaded belong to the prime drawn for its own root: no operation sees a  *)
(* torn configuration, another caller's modulus or one left by an earlier  *)
(* or a panicked call.                                                     *)
(***************************************************************************)
ComputesUnderOwnPrime ==
    \A t \in Callers : pc[t] = "working" =>
        /\ word = Metadata[Prime[job[t].root]]
        /\ \A w \in Workers : \A i \in 1..Len(seen[t][w]) :
              seen[t][w][i] = Metadata[Prime[job[t].root]][LoadOrder[i]]

(***************************************************************************)
(* Concurrent prove and verify calls behave as if each were alone: honest  *)
(* calls succeed, a proof's residues are those of its own root's prime, a  *)
(* verification never panics on a residue.                                 *)
(***************************************************************************)
Phase(t) == CASE pc[t] = "idle" -> "idle"
              [] pc[t] = "returning" -> "decided"
              [] OTHER -> "pending"

Atomic == INSTANCE AtomicProofs WITH phase <- [t \in Callers |-> Phase(t)]
BehavesAtomically == Atomic!Spec

\* Whoever gets the lock returns from its call: no error, rejection or panic
\* keeps it, and a poisoned mutex stops nobody.
HoldersReturn == \A t \in Callers : (lock = t) ~> (pc[t] = "idle")

(***************************************************************************)
(* set_modulus's contract, and the SAFETY comment of under_prime: no value *)
(* of F exists anywhere when the modulus is installed.  Values of F exist  *)
(* in every Proof: those callers hold, the one a prove is returning and    *)
(* the one a verify was given.                                             *)
(***************************************************************************)
ResidueHeld(t) ==
    CASE pc[t] = "idle" -> FALSE
      [] pc[t] = "returning" -> outcome[t] = "proved"
      [] OTHER -> job[t].kind = "verify" \/ pc[t] = "working"

ValueAlive == proofs # {} \/ \E t \in Callers : ResidueHeld(t)

InstallsAlone == [][word' # word => ~ValueAlive]_vars
=============================================================================
