----------------------------- MODULE Transcript -----------------------------
(***************************************************************************)
(* Crate transcript: what a side's sponge has taken in, the narg string    *)
(* and proof of work.  Streams are sequences of cells; a record is as many *)
(* cells as its type needs, with no mark of where it ends (rule F6), and   *)
(* the sponge takes its cells in with no mark either.  A challenge is a    *)
(* function of the sponge it leaves, so the sponge stands for it.          *)
(***************************************************************************)
EXTENDS Naturals, Sequences

CONSTANTS
    Symbol,              \* what a sponge takes in
    Cell,                \* those of them a stream can hold
    Squeeze,             \* the mark a challenge leaves in the sponge
    NonceCells,          \* cells of a proof-of-work nonce
    MaxGrinding,         \* MAX_GRINDING_BITS
    LeadingZeros(_, _)   \* of the hash of a seed and a nonce

ASSUME TranscriptAssumption ==
    /\ NonceCells \in Nat \ {0} /\ MaxGrinding \in Nat
    /\ Cell \subseteq Symbol \cap Nat /\ 0 \in Cell
    /\ Squeeze \in Symbol \ Cell

Nonces == [1..NonceCells -> Cell]
ZeroNonce == [i \in 1..NonceCells |-> 0]

NewProver == [sponge |-> <<>>, narg |-> <<>>]
NewVerifier(narg) == [sponge |-> <<>>, narg |-> narg]
-----------------------------------------------------------------------------
public_message(t, x) == [t EXCEPT !.sponge = @ \o x]
verifier_message(t) == public_message(t, <<Squeeze>>)

\* The prover writes what it absorbs.
send_message(t, x) == [t EXCEPT !.sponge = @ \o x, !.narg = @ \o x]

\* The verifier reads a record of n cells and absorbs it; a record that is
\* not there leaves both as they were.
has_message(t, n) == n <= Len(t.narg)
next_message(t, n) == SubSeq(t.narg, 1, n)
read_message(t, n) ==
    IF has_message(t, n)
    THEN [t EXCEPT !.sponge = @ \o next_message(t, n), !.narg = SubSeq(@, n + 1, Len(@))]
    ELSE t

\* Mistake: a stream with something left is let pass.
check_eof_any(t) == TRUE

check_eof(t) == t.narg = <<>>
-----------------------------------------------------------------------------
valid(seed, nonce, bits) ==
    /\ bits <= MaxGrinding
    /\ IF bits = 0 THEN nonce = ZeroNonce ELSE LeadingZeros(seed, nonce) >= bits

\* What a search may end with; the code takes the first, and panics without.
find(seed, bits) == {nonce \in Nonces : valid(seed, nonce, bits)}
=============================================================================
