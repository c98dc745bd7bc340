----------------------------- MODULE PackedBits -----------------------------
(***************************************************************************)
(* One bit string of a circuit in the two representations of the trait     *)
(* BoolRepresentation, driven through the same calls: packed words, which  *)
(* the witness generators use, and an array of scalar bits, which the      *)
(* recording backends use.  The bits are also appended to a packed         *)
(* witness, behind what it already holds.                                  *)
(***************************************************************************)
EXTENDS PackedWords

CONSTANTS MaxBits, MaxWitness  \* bounds of the width and of the witness

ASSUME BoundsAssumption == MaxBits \in Nat /\ MaxWitness \in Nat

VARIABLES
    packed,   \* PackedBits<N, M>
    scalar,   \* ScalarBits<bool, N>, a sequence of N bits
    witness,  \* PackedWitness
    stored    \* the bits appended to the witness, in order

vars == <<packed, scalar, witness, stored>>

Widths == 0..MaxBits
Strings(n) == [1..n -> BOOLEAN]

Init ==
    /\ \E n \in Widths : \E bits \in Strings(n) :
        scalar = bits /\ packed = from_array(bits)
    /\ witness = EmptyWitness
    /\ stored = <<>>

\* Of the string, without a word on the witness.
Becomes(p, s) == packed' = p /\ scalar' = s /\ UNCHANGED <<witness, stored>>

FromU64 == \E n \in Widths, value \in Word :
    Becomes(from_u64(n, value), [i \in 1..n |-> i <= WordBits /\ (i - 1) \in value])

Slice == \E offset, n \in Widths :
    /\ offset + n <= Len(scalar)
    /\ Becomes(slice(packed, offset, n), [i \in 1..n |-> scalar[offset + i]])

Xor == \E other \in Strings(Len(scalar)) :
    Becomes(xor(packed, from_array(other)), [i \in DOMAIN scalar |-> scalar[i] # other[i]])

RotateRight == \E amount \in 0 .. 2 * MaxBits :
    Becomes(rotate_right(packed, amount),
            [i \in DOMAIN scalar |-> scalar[((i - 1 + amount) % Len(scalar)) + 1]])

ShiftRight == \E amount \in 0 .. MaxBits + 1 :
    Becomes(shift_right(packed, amount),
            [i \in DOMAIN scalar |-> i + amount <= Len(scalar) /\ scalar[i + amount]])

\* PackedBits only: a hint narrows or widens what it computed.
Truncate == \E n \in Widths :
    Becomes(truncate(packed, n), [i \in 1..n |-> i <= Len(scalar) /\ scalar[i]])

\* Witgen::hint appends the packed words, Witgen::bitz and the seeding of the
\* inputs append an array.
AppendPacked ==
    /\ Len(stored) + Len(scalar) <= MaxWitness
    /\ witness' = extend_packed(witness, packed)
    /\ stored' = stored \o scalar
    /\ UNCHANGED <<packed, scalar>>

AppendArray ==
    /\ Len(stored) + Len(scalar) <= MaxWitness
    /\ witness' = extend(witness, scalar)
    /\ stored' = stored \o scalar
    /\ UNCHANGED <<packed, scalar>>

Next ==
    \/ FromU64 \/ Slice \/ Xor \/ RotateRight \/ ShiftRight \/ Truncate
    \/ AppendPacked \/ AppendArray

Spec == Init /\ [][Next]_vars
-----------------------------------------------------------------------------
\* The low part of a packed lift is the integer of the low bits, for every
\* width the limbs can hold.
PrefixIsLowPart ==
    \A limbs \in 0 .. Limbs(MaxBits), width \in 0 .. Len(scalar) :
        width <= limbs * WordBits =>
            from_packed_prefix(limbs, packed, width)
              = from_packed_bits(limbs, from_array(SubSeq(scalar, 1, width)))

\* Both representations hold the same bits and the packed words past the
\* width are clear, whatever calls made them: the circuits rotate, shift and
\* slice words of 32 and 256 bits, and only the words' boundaries differ.  The
\* integers taken from all bits and from the low ones are the same too.
SameBits == packed = from_array(scalar) /\ PrefixIsLowPart

\* The packed witness is the appended bits, bit for bit, wherever an append
\* crosses a word: its reader trusts bit_len, never the number of words.
WitnessIsStored ==
    /\ witness.bit_len = Len(stored)
    /\ witness.words = from_array(stored).words
=============================================================================
