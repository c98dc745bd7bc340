----------------------------- MODULE MCModulus -----------------------------
(***************************************************************************)
(* Two callers, two workers and two statements whose primes differ in both *)
(* of their words and in all five words of their metadata.                 *)
(***************************************************************************)
EXTENDS Modulus

\* Three-bit words, so moduli are below 16: 5 is <<5, 0>> and 11 is <<3, 1>>.
Field == INSTANCE FieldMetadata WITH HalfBits <- 3, Bases <- <<2, 3>>
MCRadix == 8
MCMetadata == [p \in {5, 11} |-> IF p = 5 THEN <<5, 0, 4, 1, 3>> ELSE <<3, 1, 7, 2, 4>>]

\* The tables above are what FieldMetadata::new computes.
ASSUME MetadataIsComputed ==
    \A p \in {5, 11} : MCMetadata[p] = Field!StoredWords(Field!New(p))
MCPrime == [r \in Roots |-> IF r = "r1" THEN 5 ELSE 11]
MCRoots == {"r1", "r2"}

\* One witness value is enough: 9 is the residue 4 under 5, canonical under 11
\* too, and the residue 9 under 11, not canonical under 5.
MCIntegers == {9}
=============================================================================
