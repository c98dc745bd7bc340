--------------------------- MODULE ModulusProofs ---------------------------
(***************************************************************************)
(* Theorems about Modulus, for any callers, workers, roots and primes.     *)
(***************************************************************************)
EXTENDS Modulus, TLAPS

Own(t) == Metadata[Prime[job[t].root]]

(***************************************************************************)
(* The inductive invariant.  Exclusion ties the guard to the program       *)
(* counter; StoredPrefix says how far the owner's store has got; Loads is  *)
(* ComputesUnderOwnPrime with the loads of everybody else empty; Operands  *)
(* gives the value a call computes with.                                   *)
(***************************************************************************)
Exclusion == \A t \in Callers : pc[t] \in InSection <=> lock = t

InCall == \A t \in Callers : pc[t] # "idle" => job[t] \in Jobs

StoredPrefix ==
    \A t \in Callers :
        /\ pc[t] = "storing" => \A i \in 1..stored[t] : word[i] = Own(t)[i]
        /\ pc[t] \notin {"storing", "working"} => stored[t] = 0

Loads ==
    /\ ComputesUnderOwnPrime
    /\ \A t \in Callers : \A w \in Workers :
          /\ Len(seen[t][w]) <= 5
          /\ pc[t] # "working" => seen[t][w] = <<>>

Expected(t) ==
    IF job[t].kind = "prove" THEN job[t].value % Prime[job[t].root]
                             ELSE job[t].proof.residue

Operands ==
    \A t \in Callers :
        /\ pc[t] = "working" =>
              element[t] = Expected(t) /\ element[t] < Prime[job[t].root]
        /\ pc[t] = "returning" /\ outcome[t] = "proved" =>
              job[t].kind = "prove" /\ element[t] = Expected(t)

IInv == TypeOK /\ Exclusion /\ InCall /\ StoredPrefix /\ Loads /\ Operands
-----------------------------------------------------------------------------
\* A residue is a natural number below the prime it is taken by.
LEMMA ResidueBelow ==
    ASSUME NEW v \in Nat, NEW p \in Nat \ {0}
    PROVE  v % p \in Nat /\ v % p < p
  BY SMT

\* Every residue a proof can hold is a natural number.
LEMMA ProofShape ==
    ASSUME NEW p \in Proofs
    PROVE  p.root \in Roots /\ p.made \in Roots /\ p.residue \in Nat
  BY ResidueBelow, ModulusAssumption DEF Proofs

\* What the fields of a call are.
LEMMA JobShape ==
    ASSUME NEW j \in Jobs
    PROVE  /\ j.root \in Roots
           /\ j.kind \in {"prove", "verify"}
           /\ j.kind = "prove" => j.value \in Integers /\ j.fits \in BOOLEAN
           /\ j.kind = "verify" => j.proof \in Proofs /\ j.proof.root = j.root
  <1>1. CASE j \in ProveJobs
    BY <1>1 DEF ProveJobs
  <1>2. CASE j \in VerifyJobs
    <2>1. PICK p \in Proofs : j = [kind |-> "verify", root |-> p.root, proof |-> p]
      BY <1>2 DEF VerifyJobs
    <2>2. QED
      BY <2>1, ProofShape
  <1>3. QED
    BY <1>1, <1>2 DEF Jobs

\* Callers can only make calls of the declared shape.
LEMMA CallableAreJobs ==
    ASSUME NEW held \in SUBSET Proofs
    PROVE  Callable(held) \subseteq Jobs
  <1>1. ASSUME NEW p \in held, NEW q \in held
        PROVE  [root |-> p.root, made |-> q.made, residue |-> q.residue] \in Proofs
    <2>1. PICK r \in Roots, s \in Roots, v \in Integers :
              p = [root |-> r, made |-> s, residue |-> v % Prime[s]]
      BY <1>1 DEF Proofs
    <2>2. PICK r2 \in Roots, s2 \in Roots, v2 \in Integers :
              q = [root |-> r2, made |-> s2, residue |-> v2 % Prime[s2]]
      BY <1>1 DEF Proofs
    <2>3. QED
      BY <2>1, <2>2 DEF Proofs
  <1>2. QED
    BY <1>1 DEF Callable, Jobs, VerifyJobs

\* The residue of a proof presented under the root it was made for is canonical.
LEMMA HonestResidue ==
    ASSUME NEW p \in Proofs, p.made = p.root
    PROVE  p.residue < Prime[p.root]
  BY ResidueBelow, ModulusAssumption DEF Proofs

\* The metadata of a drawn prime is five words whose first two spell it.
LEMMA MetadataShape ==
    ASSUME NEW r \in Roots
    PROVE  /\ Prime[r] \in Nat \ {0}
           /\ Metadata[Prime[r]] \in [Words -> Nat]
           /\ ModulusOf(Metadata[Prime[r]]) = Prime[r]
  BY ModulusAssumption
-----------------------------------------------------------------------------
\* The inductive invariant holds before any call.
LEMMA InitIInv == Init => IInv
  <1> SUFFICES ASSUME Init PROVE IInv
    OBVIOUS
  <1>1. TypeOK
    <2>1. poisoned \in BOOLEAN
      BY Zenon DEF Init
    <2>2. seen \in [Callers -> [Workers -> Seq(Nat)]]
      BY DEF Init
    <2>3. /\ lock \in Callers \cup {Free}
          /\ word \in [Words -> Nat]
          /\ stored \in [Callers -> 0..5]
          /\ element \in [Callers -> Nat]
          /\ proofs \subseteq Proofs
          /\ pc \in [Callers -> {"idle", "locking", "returning"} \cup InSection]
          /\ job \in [Callers -> Jobs \cup {NoJob}]
          /\ outcome \in [Callers -> Results \cup {"none"}]
      BY DEF Init
    <2>4. QED
      BY <2>1, <2>2, <2>3, Zenon DEF TypeOK
  <1>2. Exclusion /\ InCall /\ StoredPrefix /\ Operands
    BY ModulusAssumption DEF Init, Exclusion, InCall, StoredPrefix, Operands, InSection
  <1>3. Loads
    BY DEF Init, Loads, ComputesUnderOwnPrime
  <1>4. QED
    BY <1>1, <1>2, <1>3 DEF IInv

\* A call leaving its critical section preserves the invariant.
LEMMA LeaveIInv ==
    ASSUME IInv, NEW t \in Callers, NEW result \in Results,
           pc[t] \in InSection, Leave(t, result),
           element' = element, poisoned' \in BOOLEAN,
           result = "proved" => pc[t] = "working" /\ job[t].kind = "prove"
    PROVE  IInv'
  <1> USE DEF IInv
  <1>1. TypeOK'
    <2>1. [w \in Workers |-> <<>>] \in [Workers -> Seq(Nat)]
      OBVIOUS
    <2>2. seen' \in [Callers -> [Workers -> Seq(Nat)]]
      BY <2>1 DEF Leave, TypeOK
    <2>3. /\ lock' \in Callers \cup {Free}
          /\ word' \in [Words -> Nat]
          /\ stored' \in [Callers -> 0..5]
          /\ element' \in [Callers -> Nat]
          /\ proofs' \subseteq Proofs
          /\ pc' \in [Callers -> {"idle", "locking", "returning"} \cup InSection]
          /\ job' \in [Callers -> Jobs \cup {NoJob}]
          /\ outcome' \in [Callers -> Results \cup {"none"}]
      BY DEF Leave, TypeOK
    <2>4. QED
      BY <2>2, <2>3, Zenon DEF TypeOK
  <1>2. Exclusion'
    BY ModulusAssumption DEF Leave, TypeOK, Exclusion, InSection
  <1>3. InCall'
    BY DEF Leave, TypeOK, InCall, InSection
  <1>4. StoredPrefix'
    BY DEF Leave, TypeOK, StoredPrefix, Own
  <1>5. Loads'
    BY DEF Leave, TypeOK, Loads, ComputesUnderOwnPrime
  <1>6. Operands'
    BY DEF Leave, TypeOK, Operands, Expected
  <1>7. QED
    BY <1>1, <1>2, <1>3, <1>4, <1>5, <1>6

\* A store that has written all five words has installed the call's own prime.
LEMMA StoreComplete ==
    ASSUME IInv, NEW t \in Callers, pc[t] = "storing", stored[t] = 5
    PROVE  /\ word = Own(t)
           /\ ModulusOf(word) = Prime[job[t].root]
           /\ Prime[job[t].root] \in Nat \ {0}
  <1>1. job[t] \in Jobs /\ job[t].root \in Roots
    BY JobShape DEF IInv, InCall
  <1>2. Own(t) \in [Words -> Nat] /\ word \in [Words -> Nat]
    BY <1>1, MetadataShape DEF Own, IInv, TypeOK
  <1>3. \A i \in Words : word[i] = Own(t)[i]
    BY DEF IInv, StoredPrefix, Words
  <1>4. word = Own(t)
    BY <1>2, <1>3
  <1>5. QED
    BY <1>1, <1>4, MetadataShape DEF Own

\* A worker that has loaded every word holds its caller's own modulus.
LEMMA LoadedModulus ==
    ASSUME IInv, NEW t \in Callers, pc[t] = "working", Loaded(t), NEW w \in Workers
    PROVE  ModulusOf(seen[t][w]) = Prime[job[t].root]
  <1>1. job[t] \in Jobs /\ job[t].root \in Roots
    BY JobShape DEF IInv, InCall
  <1>2. Len(seen[t][w]) = 5 /\ LoadOrder[1] = 1 /\ LoadOrder[2] = 2
    BY DEF Loaded, LoadOrder
  <1>3. seen[t][w][1] = Own(t)[1] /\ seen[t][w][2] = Own(t)[2]
    BY <1>2 DEF IInv, Loads, ComputesUnderOwnPrime, Own
  <1>4. QED
    BY <1>1, <1>3, MetadataShape DEF ModulusOf, Own

\* No operation of any call meets an operand its modulus does not reduce.
LEMMA OperandsReduced ==
    ASSUME IInv, NEW t \in Callers, pc[t] = "working", Loaded(t)
    PROVE  Reduced(t)
  BY LoadedModulus DEF Reduced, IInv, Operands
-----------------------------------------------------------------------------
\* A new call touches nothing but its own job.
LEMMA CallIInv ==
    ASSUME IInv, NEW t \in Callers, Call(t)
    PROVE  IInv'
  <1> USE DEF IInv, Call
  <1>1. PICK j \in Callable(proofs) : job' = [job EXCEPT ![t] = j]
    OBVIOUS
  <1>2. j \in Jobs
    BY CallableAreJobs DEF TypeOK
  <1>3. TypeOK'
    BY <1>1, <1>2 DEF TypeOK
  <1>4. Exclusion'
    BY DEF TypeOK, Exclusion, InSection
  <1>5. InCall'
    BY <1>1, <1>2 DEF TypeOK, InCall
  <1>6. StoredPrefix'
    BY <1>1 DEF TypeOK, StoredPrefix, Own
  <1>7. Loads'
    BY <1>1 DEF TypeOK, Loads, ComputesUnderOwnPrime
  <1>8. Operands'
    BY <1>1 DEF TypeOK, Operands, Expected
  <1>9. QED
    BY <1>3, <1>4, <1>5, <1>6, <1>7, <1>8

\* Taking the lock gives the modulus to a caller that has stored nothing.
LEMMA AcquireIInv ==
    ASSUME IInv, NEW t \in Callers, Acquire(t)
    PROVE  IInv'
  <1> USE DEF IInv, Acquire
  <1>1. TypeOK'
    BY DEF TypeOK, InSection
  <1>2. Exclusion'
    BY ModulusAssumption DEF TypeOK, Exclusion, InSection
  <1>3. InCall'
    BY DEF TypeOK, InCall
  <1>4. StoredPrefix'
    BY DEF TypeOK, StoredPrefix, Own
  <1>5. Loads'
    BY DEF TypeOK, Loads, ComputesUnderOwnPrime
  <1>6. Operands'
    BY DEF TypeOK, Operands, Expected
  <1>7. QED
    BY <1>1, <1>2, <1>3, <1>4, <1>5, <1>6

\* Drawing the prime: still nothing stored.
LEMMA DrawPrimeIInv ==
    ASSUME IInv, NEW t \in Callers, DrawPrime(t)
    PROVE  IInv'
  <1> USE DEF IInv, DrawPrime
  <1>1. TypeOK'
    BY DEF TypeOK, InSection
  <1>2. Exclusion'
    BY DEF TypeOK, Exclusion, InSection
  <1>3. InCall'
    BY DEF TypeOK, InCall
  <1>4. StoredPrefix'
    BY DEF TypeOK, StoredPrefix, Own
  <1>5. Loads'
    BY DEF TypeOK, Loads, ComputesUnderOwnPrime
  <1>6. Operands'
    BY DEF TypeOK, Operands, Expected
  <1>7. QED
    BY <1>1, <1>2, <1>3, <1>4, <1>5, <1>6

\* Only the owner stores, so no prefix but its own and nobody's loads change.
LEMMA StoreWordIInv ==
    ASSUME IInv, NEW t \in Callers, StoreWord(t)
    PROVE  IInv'
  <1> USE DEF IInv, StoreWord
  <1>1. job[t] \in Jobs /\ job[t].root \in Roots
    BY JobShape DEF InCall
  <1>2. Own(t) \in [Words -> Nat] /\ stored[t] \in 0..4
    BY <1>1, MetadataShape DEF Own, TypeOK
  <1>3. word' = [word EXCEPT ![stored[t] + 1] = Own(t)[stored[t] + 1]]
    BY DEF Own
  <1>4. TypeOK'
    <2>1. stored[t] + 1 \in Words /\ stored[t] + 1 \in 0..5
      BY <1>2 DEF Words
    <2>2. Own(t)[stored[t] + 1] \in Nat
      BY <1>2, <2>1
    <2>3. word' \in [Words -> Nat]
      BY <1>3, <2>2 DEF TypeOK
    <2>4. stored' \in [Callers -> 0..5]
      BY <2>1 DEF TypeOK
    <2>. QED
      BY <2>3, <2>4 DEF TypeOK
  <1>5. Exclusion'
    BY DEF TypeOK, Exclusion
  <1>6. InCall'
    BY DEF TypeOK, InCall
  <1>7. \A u \in Callers : u # t => pc[u] \notin InSection
    BY DEF Exclusion, InSection
  <1>8. StoredPrefix'
    <2>1. ASSUME NEW i \in 1..stored'[t]
          PROVE  word'[i] = Own(t)'[i]
      <3>1. stored'[t] = stored[t] + 1 /\ i \in Words /\ Own(t)' = Own(t)
        BY <1>2 DEF TypeOK, Words, Own
      <3>2. CASE i = stored[t] + 1
        BY <1>3, <3>1, <3>2 DEF TypeOK
      <3>3. CASE i \in 1..stored[t]
        <4>1. word'[i] = word[i]
          BY <1>2, <1>3, <3>1, <3>3 DEF TypeOK
        <4>2. QED
          BY <3>1, <3>3, <4>1 DEF StoredPrefix
      <3>4. QED
        BY <1>2, <3>1, <3>2, <3>3
    <2>2. ASSUME NEW u \in Callers, u # t
          PROVE  pc'[u] \notin InSection /\ stored'[u] = stored[u]
      BY <1>7, <2>2 DEF TypeOK
    <2>3. pc'[t] = "storing"
      OBVIOUS
    <2>4. QED
      BY <2>1, <2>2, <2>3 DEF StoredPrefix, InSection
  <1>9. Loads'
    BY <1>7 DEF TypeOK, Loads, ComputesUnderOwnPrime, InSection
  <1>10. Operands'
    BY DEF TypeOK, Operands, Expected
  <1>11. QED
    BY <1>4, <1>5, <1>6, <1>8, <1>9, <1>10

\* The two ways into the work: a projected value, or a residue found canonical.
LEMMA StartIInv ==
    ASSUME IInv, NEW t \in Callers, pc[t] = "storing", stored[t] = 5,
           element' = [element EXCEPT ![t] = Expected(t)],
           Expected(t) \in Nat, Expected(t) < Prime[job[t].root],
           pc' = [pc EXCEPT ![t] = "working"],
           UNCHANGED <<lock, poisoned, word, job, stored, seen, proofs, outcome>>
    PROVE  IInv'
  <1> USE DEF IInv
  <1>1. TypeOK'
    BY DEF TypeOK, InSection
  <1>2. Exclusion'
    BY DEF TypeOK, Exclusion, InSection
  <1>3. InCall'
    BY DEF TypeOK, InCall
  <1>4. StoredPrefix'
    BY DEF TypeOK, StoredPrefix, Own
  <1>5. Loads'
    BY StoreComplete DEF TypeOK, Loads, ComputesUnderOwnPrime, Own
  <1>6. Operands'
    BY DEF TypeOK, Operands, Expected
  <1>7. QED
    BY <1>1, <1>2, <1>3, <1>4, <1>5, <1>6

\* The prover's projection starts the stores of a residue below the modulus.
LEMMA ProjectIInv ==
    ASSUME IInv, NEW t \in Callers, Project(t)
    PROVE  IInv'
  <1>1. job[t] \in Jobs
    BY DEF Project, IInv, InCall
  <1>2. job[t].value \in Nat
    BY <1>1, JobShape, ModulusAssumption DEF Project
  <1>3. Expected(t) = job[t].value % ModulusOf(word) /\ Prime[job[t].root] \in Nat \ {0}
        /\ ModulusOf(word) = Prime[job[t].root]
    BY StoreComplete DEF Project, Expected
  <1>4. Expected(t) \in Nat /\ Expected(t) < Prime[job[t].root]
    BY <1>2, <1>3, ResidueBelow
  <1>5. QED
    BY <1>3, <1>4, StartIInv DEF Project

\* The verifier's check starts the stores of a residue it found canonical.
LEMMA ValidateIInv ==
    ASSUME IInv, NEW t \in Callers, Validate(t)
    PROVE  IInv'
  <1>1. job[t] \in Jobs
    BY DEF Validate, IInv, InCall
  <1>2. Expected(t) = job[t].proof.residue /\ Expected(t) \in Nat
    BY <1>1, JobShape, ProofShape DEF Validate, Expected
  <1>3. Expected(t) < Prime[job[t].root]
    BY <1>2, StoreComplete DEF Validate, Canonical
  <1>4. QED
    BY <1>2, <1>3, StartIInv DEF Validate

\* A worker that loads a word of the modulus loads the one its caller stored.
LEMMA LoadWordIInv ==
    ASSUME IInv, NEW t \in Callers, NEW w \in Workers, LoadWord(t, w)
    PROVE  IInv'
  <1> USE DEF IInv, LoadWord
  <1> DEFINE n == Len(seen[t][w]) + 1
  <1>1. /\ seen[t][w] \in Seq(Nat) /\ n \in 1..5
        /\ LoadOrder[n] \in Words /\ word[LoadOrder[n]] \in Nat
    <2>1. seen[t][w] \in Seq(Nat) /\ n \in 1..5
      BY DEF TypeOK
    <2>2. LoadOrder[n] \in Words
      BY <2>1 DEF LoadOrder, Words
    <2>3. QED
      BY <2>1, <2>2 DEF TypeOK
  <1>2. seen' = [seen EXCEPT ![t] = [seen[t] EXCEPT
                    ![w] = Append(seen[t][w], word[LoadOrder[n]])]]
    OBVIOUS
  <1>3. TypeOK'
    BY <1>1, <1>2 DEF TypeOK
  <1>4. Exclusion' /\ InCall' /\ StoredPrefix' /\ Operands'
    BY DEF TypeOK, Exclusion, InCall, StoredPrefix, Operands, Own, Expected
  <1>5. ASSUME NEW i \in 1..Len(seen'[t][w])
        PROVE  seen'[t][w][i] = Own(t)[LoadOrder[i]]
    BY <1>1, <1>2 DEF TypeOK, Loads, ComputesUnderOwnPrime, Own
  <1>6. ASSUME NEW u \in Callers, NEW v \in Workers, <<u, v>> # <<t, w>>
        PROVE  seen'[u][v] = seen[u][v]
    BY <1>2, <1>6 DEF TypeOK
  <1>7. Len(seen'[t][w]) <= 5
    BY <1>1, <1>2 DEF TypeOK
  <1>8. Loads'
    BY <1>5, <1>6, <1>7 DEF Loads, ComputesUnderOwnPrime, Own
  <1>9. QED
    BY <1>3, <1>4, <1>8

\* A call that returns leaves the store to the others.
LEMMA ReturnIInv ==
    ASSUME IInv, NEW t \in Callers, Return(t)
    PROVE  IInv'
  <1> USE DEF IInv, Return
  <1>1. job[t] \in Jobs
    BY DEF InCall
  <1>2. outcome[t] = "proved" => ProofOf(job[t], element[t]) \in Proofs
    BY <1>1, JobShape DEF Operands, Expected, ProofOf, Proofs
  <1>3. proofs' \subseteq Proofs
    BY <1>2 DEF TypeOK
  <1>4. TypeOK'
    BY <1>3 DEF TypeOK
  <1>5. Exclusion' /\ InCall' /\ StoredPrefix' /\ Operands'
    BY DEF TypeOK, Exclusion, InCall, StoredPrefix, Operands, Own, Expected, InSection
  <1>6. Loads'
    BY DEF TypeOK, Loads, ComputesUnderOwnPrime
  <1>7. QED
    BY <1>4, <1>5, <1>6
-----------------------------------------------------------------------------
\* Every step preserves the invariant.
LEMMA NextIInv == IInv /\ [Next]_vars => IInv'
  <1> SUFFICES ASSUME IInv, [Next]_vars PROVE IInv'
    OBVIOUS
  <1>1. CASE UNCHANGED vars
    <2>1. poisoned' = poisoned /\ TypeOK'
      BY <1>1, Zenon DEF vars, IInv, TypeOK
    <2>2. QED
      BY <1>1, <2>1 DEF vars, IInv, Exclusion, InCall, StoredPrefix, Loads,
         ComputesUnderOwnPrime, Operands, Own, Expected
  <1>2. ASSUME NEW t \in Callers, Call(t) PROVE IInv'
    BY <1>2, CallIInv
  <1>3. ASSUME NEW t \in Callers, Acquire(t) PROVE IInv'
    BY <1>3, AcquireIInv
  <1>4. ASSUME NEW t \in Callers, Advance(t) PROVE IInv'
    <2>1. poisoned \in BOOLEAN
      BY Zenon DEF IInv, TypeOK
    <2>2. CASE FailEarly(t)
      <3>1. poisoned' \in BOOLEAN
        BY <2>1, <2>2, Zenon DEF FailEarly
      <3>2. QED
        BY <2>2, <3>1, LeaveIInv DEF FailEarly, InSection, Results
    <2>3. CASE DrawPrime(t)
      BY <2>3, DrawPrimeIInv
    <2>4. CASE StoreWord(t)
      BY <2>4, StoreWordIInv
    <2>5. CASE Project(t)
      BY <2>5, ProjectIInv
    <2>6. CASE Validate(t)
      BY <2>6, ValidateIInv
    <2>7. CASE RejectNonCanonical(t)
      <3>1. poisoned' \in BOOLEAN
        BY <2>1, <2>7, Zenon DEF RejectNonCanonical
      <3>2. QED
        BY <2>7, <3>1, LeaveIInv DEF RejectNonCanonical, InSection, Results
    <2>8. CASE \E w \in Workers : LoadWord(t, w)
      BY <2>8, LoadWordIInv
    <2>9. CASE Finish(t)
      <3>1. poisoned' \in BOOLEAN
        BY <2>1, <2>9, Zenon DEF Finish
      <3>2. job[t] \in Jobs
        BY <2>9 DEF Finish, IInv, InCall
      <3>3. Success(job[t]) \in Results
            /\ (Success(job[t]) = "proved" => job[t].kind = "prove")
        BY DEF Success, Results
      <3>4. QED
        BY <2>9, <3>1, <3>3, LeaveIInv DEF Finish, InSection
    <2>10. CASE FailLate(t)
      <3>1. poisoned' \in BOOLEAN
        BY <2>1, <2>10, Zenon DEF FailLate
      <3>2. QED
        BY <2>10, <3>1, LeaveIInv DEF FailLate, InSection, Results
    <2>11. CASE Panic(t)
      <3>1. poisoned' \in BOOLEAN
        BY <2>11, Zenon DEF Panic
      <3>2. QED
        BY <2>11, <3>1, LeaveIInv DEF Panic, InSection, Results
    <2>12. CASE Return(t)
      BY <2>12, ReturnIInv
    <2>13. QED
      BY <1>4, <2>2, <2>3, <2>4, <2>5, <2>6, <2>7, <2>8, <2>9, <2>10, <2>11, <2>12
      DEF Advance
  <1>5. QED
    BY <1>1, <1>2, <1>3, <1>4 DEF Next

\* The invariant holds throughout every behaviour.
LEMMA Invariance == Spec => []IInv
  BY InitIInv, NextIInv, PTL DEF Spec

(***************************************************************************)
(* The variables keep their types: in particular every Proof ever returned *)
(* holds a residue some prime of the system reduces.                       *)
(***************************************************************************)
THEOREM TypeCorrect == Spec => []TypeOK
  <1>1. IInv => TypeOK
    BY DEF IInv
  <1>2. QED
    BY <1>1, Invariance, PTL

(***************************************************************************)
(* Whatever the callers, workers and primes, no operation ever loads a     *)
(* word of a configuration other than its own call's.                      *)
(***************************************************************************)
THEOREM OwnPrime == Spec => []ComputesUnderOwnPrime
  <1>1. IInv => ComputesUnderOwnPrime
    BY DEF IInv, Loads
  <1>2. QED
    BY <1>1, Invariance, PTL
-----------------------------------------------------------------------------
(***************************************************************************)
(* Refinement.  A call is decided in the step that drops the guard; every  *)
(* other step inside the lock is a stutter.                                *)
(***************************************************************************)
APhase == [t \in Callers |-> Phase(t)]

\* A step that moves one caller between program points of the same phase.
LEMMA SamePhase ==
    ASSUME NEW t \in Callers,
           pc[t] \notin {"idle", "returning"}, pc'[t] \notin {"idle", "returning"},
           \A u \in Callers \ {t} : pc'[u] = pc[u],
           UNCHANGED <<job, proofs, outcome>>
    PROVE  UNCHANGED Atomic!avars
  <1>1. \A u \in Callers : Phase(u)' = Phase(u)
    BY DEF Phase
  <1>2. APhase' = APhase
    BY <1>1 DEF APhase
  <1>3. QED
    BY <1>2 DEF Atomic!avars, APhase

\* Leaving the critical section decides the call.
LEMMA LeaveDecides ==
    ASSUME TypeOK, NEW t \in Callers, NEW result \in Atomic!Verdicts(job[t]),
           pc[t] \in InSection, Leave(t, result)
    PROVE  Atomic!Next
  <1>1. /\ APhase[t] = "pending"
        /\ \A u \in Callers : Phase(u)' = IF u = t THEN "decided" ELSE Phase(u)
    BY DEF APhase, Phase, TypeOK, InSection, Leave
  <1>2. APhase' = [APhase EXCEPT ![t] = "decided"]
    BY <1>1 DEF APhase
  <1>3. Atomic!Decide(t)
    BY <1>1, <1>2 DEF Atomic!Decide, Leave, APhase
  <1>4. QED
    BY <1>3 DEF Atomic!Next

\* The refinement begins: every caller is idle and has no answer.
LEMMA InitRefines == Init => Atomic!Init
  BY DEF Init, Atomic!Init, Phase, Atomic!NoJob, NoJob

\* A call is an abstract call.
LEMMA CallRefines ==
    ASSUME TypeOK, NEW t \in Callers, Call(t)
    PROVE  Atomic!Next
  <1>1. /\ APhase[t] = "idle"
        /\ \A u \in Callers : Phase(u)' = IF u = t THEN "pending" ELSE Phase(u)
    BY DEF APhase, Phase, TypeOK, Call
  <1>2. APhase' = [APhase EXCEPT ![t] = "pending"]
    BY <1>1 DEF APhase
  <1>3. Callable(proofs) = Atomic!Callable(proofs)
    BY DEF Atomic!Callable, Callable, Atomic!ProveJobs, ProveJobs
  <1>4. Atomic!Call(t)
    BY <1>1, <1>2, <1>3 DEF Atomic!Call, Call, APhase
  <1>5. QED
    BY <1>4 DEF Atomic!Next

\* A return is an abstract return.
LEMMA ReturnRefines ==
    ASSUME IInv, NEW t \in Callers, Return(t)
    PROVE  Atomic!Next
  <1> USE DEF IInv
  <1>1. /\ APhase[t] = "decided"
        /\ \A u \in Callers : Phase(u)' = IF u = t THEN "idle" ELSE Phase(u)
    BY DEF APhase, Phase, TypeOK, Return
  <1>2. APhase' = [APhase EXCEPT ![t] = "idle"]
    BY <1>1 DEF APhase
  <1>3. outcome[t] = "proved" => element[t] = job[t].value % Prime[job[t].root]
    BY DEF Return, Operands, Expected
  <1>4. Atomic!Return(t)
    BY <1>1, <1>2, <1>3 DEF Atomic!Return, Return, APhase, Atomic!ProofOf, ProofOf,
       Atomic!NoJob, NoJob
  <1>5. QED
    BY <1>4 DEF Atomic!Next

\* Every step is a step of the abstract specification or leaves it unchanged.
LEMMA NextRefines == IInv /\ [Next]_vars => [Atomic!Next]_(Atomic!avars)
  <1> SUFFICES ASSUME IInv, [Next]_vars PROVE [Atomic!Next]_(Atomic!avars)
    OBVIOUS
  <1>1. TypeOK
    BY DEF IInv
  <1>2. CASE UNCHANGED vars
    BY <1>2 DEF vars, Atomic!avars, Phase
  <1>3. ASSUME NEW t \in Callers, Call(t) PROVE Atomic!Next
    BY <1>1, <1>3, CallRefines
  <1>4. ASSUME NEW t \in Callers, Acquire(t) PROVE UNCHANGED Atomic!avars
    BY <1>1, <1>4, SamePhase DEF Acquire, TypeOK
  <1>5. ASSUME NEW t \in Callers, Advance(t) PROVE [Atomic!Next]_(Atomic!avars)
    <2>1. pc[t] # "idle" => job[t] \in Jobs
      BY <1>5 DEF IInv, InCall
    <2>2. CASE FailEarly(t)
      <3>1. "failed" \in Atomic!Verdicts(job[t])
        BY <2>2 DEF FailEarly, Atomic!Verdicts, Atomic!Honest, Honest
      <3>2. QED
        BY <1>1, <2>2, <3>1, LeaveDecides DEF FailEarly, InSection
    <2>3. CASE DrawPrime(t)
      BY <1>1, <2>3, SamePhase DEF DrawPrime, TypeOK
    <2>4. CASE StoreWord(t)
      BY <1>1, <2>4, SamePhase DEF StoreWord, TypeOK
    <2>5. CASE Project(t)
      BY <1>1, <2>5, SamePhase DEF Project, TypeOK
    <2>6. CASE Validate(t)
      BY <1>1, <2>6, SamePhase DEF Validate, TypeOK
    <2>7. CASE RejectNonCanonical(t)
      <3>1. ~(job[t].proof.residue < Prime[job[t].root])
        BY <2>7, StoreComplete DEF RejectNonCanonical, Canonical
      <3>2. ~Honest(job[t])
        BY <2>1, <2>7, <3>1, JobShape, HonestResidue DEF RejectNonCanonical, Honest
      <3>3. "noncanonical" \in Atomic!Verdicts(job[t])
        BY <2>7, <3>1, <3>2 DEF RejectNonCanonical, Atomic!Verdicts, Atomic!Honest, Honest
      <3>4. QED
        BY <1>1, <2>7, <3>3, LeaveDecides DEF RejectNonCanonical, InSection
    <2>8. CASE \E w \in Workers : LoadWord(t, w)
      BY <1>1, <2>8, SamePhase DEF LoadWord, TypeOK
    <2>9. CASE Finish(t)
      <3>1. Success(job[t]) \in Atomic!Verdicts(job[t])
        BY <2>9 DEF Finish, Atomic!Verdicts, Atomic!Honest, Honest, Atomic!Success, Success
      <3>2. QED
        BY <1>1, <2>9, <3>1, LeaveDecides DEF Finish, InSection
    <2>10. CASE FailLate(t)
      <3>1. "failed" \in Atomic!Verdicts(job[t])
        BY <2>10 DEF FailLate, Atomic!Verdicts, Atomic!Honest, Honest
      <3>2. QED
        BY <1>1, <2>10, <3>1, LeaveDecides DEF FailLate, InSection
    <2>11. CASE Panic(t)
      <3>1. job[t].kind = "prove" /\ ~job[t].fits
        BY <2>11, OperandsReduced DEF Panic
      <3>2. "panicked" \in Atomic!Verdicts(job[t])
        BY <3>1 DEF Atomic!Verdicts, Atomic!Honest
      <3>3. QED
        BY <1>1, <2>11, <3>2, LeaveDecides DEF Panic, InSection
    <2>12. CASE Return(t)
      BY <2>12, ReturnRefines
    <2>13. QED
      BY <1>5, <2>2, <2>3, <2>4, <2>5, <2>6, <2>7, <2>8, <2>9, <2>10, <2>11, <2>12
      DEF Advance
  <1>6. QED
    BY <1>2, <1>3, <1>4, <1>5 DEF Next

(***************************************************************************)
(* Linearizability: concurrent calls that share one modulus behave as if   *)
(* each ran alone.  Honest calls succeed, whatever the others do, fail at  *)
(* or panic on, and no verification panics.                                *)
(***************************************************************************)
THEOREM Linearizable == Spec => BehavesAtomically
  BY InitRefines, NextRefines, Invariance, PTL
  DEF Spec, BehavesAtomically, Atomic!Spec
=============================================================================
