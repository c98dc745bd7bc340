-------------------------- MODULE PackedBitsProofs --------------------------
(***************************************************************************)
(* Theorems about PackedBits, for words of any width and strings of any    *)
(* length: what the string and the witness hold after any calls.           *)
(***************************************************************************)
EXTENDS PackedBits, PackedWordsProofs

\* The bits are bits, and every word is that of the bits: in the string, and in
\* the witness.
PackedInv ==
    /\ scalar \in Seq(BOOLEAN) /\ stored \in Seq(BOOLEAN)
    /\ packed = from_array(scalar)
    /\ WitnessIsStored

\* Words just packed from an array hold it.
LEMMA InitPacked == Init => PackedInv
  <1> SUFFICES ASSUME Init PROVE PackedInv
    OBVIOUS
  <1>1. PICK n \in Widths : \E bits \in Strings(n) : scalar = bits /\ packed = from_array(bits)
    BY DEF Init
  <1>2. scalar \in Seq(BOOLEAN) /\ packed = from_array(scalar)
    <2>1. n \in Nat
      BY BoundsAssumption DEF Widths
    <2>. QED
      BY <1>1, <2>1 DEF Strings
  <1>3. stored = <<>> /\ witness = EmptyWitness
    BY DEF Init
  <1>4. stored \in Seq(BOOLEAN) /\ Len(stored) = 0 /\ Limbs(0) = 0
    <2>1. Limbs(0) = 0 \div WordBits
      <3>1. 0 % WordBits = 0
        BY WordBitsAssumption
      <3>. QED
        BY <3>1, LimbsExact
    <2>2. 0 \div WordBits = 0
      BY WordBitsAssumption
    <2>. QED
      BY <1>3, <2>1, <2>2
  <1>5. from_array(stored).words = <<>>
    BY <1>4 DEF from_array, from_fn
  <1>6. WitnessIsStored
    BY <1>3, <1>4, <1>5 DEF WitnessIsStored, EmptyWitness
  <1>. QED
    BY <1>2, <1>4, <1>6 DEF PackedInv

\* Of the string, one step of the bits for every operation of the words.
LEMMA StepPacked == PackedInv /\ [Next]_vars => PackedInv'
  <1> SUFFICES ASSUME PackedInv, [Next]_vars PROVE PackedInv'
    OBVIOUS
  <1>1. /\ scalar \in Seq(BOOLEAN) /\ stored \in Seq(BOOLEAN) /\ packed = from_array(scalar)
        /\ Len(scalar) \in Nat /\ DOMAIN scalar = 1..Len(scalar)
        /\ \A i \in 1..Len(scalar) : scalar[i] \in BOOLEAN
    BY LenProperties, ElementOfSeq DEF PackedInv
  <1>2. ASSUME NEW s \in Seq(BOOLEAN), Becomes(from_array(s), s)
        PROVE  PackedInv'
    BY <1>2 DEF Becomes, PackedInv, WitnessIsStored
  <1>3. \A n \in Widths : n \in Nat
    BY BoundsAssumption DEF Widths
  <1>4. CASE FromU64
    <2>1. PICK n \in Widths, value \in Word :
            Becomes(from_u64(n, value), [i \in 1..n |-> i <= WordBits /\ (i - 1) \in value])
      BY <1>4 DEF FromU64
    <2> DEFINE s == [i \in 1..n |-> i <= WordBits /\ (i - 1) \in value]
    <2>2. s \in Seq(BOOLEAN)
      <3>1. s \in [1..n -> BOOLEAN]
        OBVIOUS
      <3>. QED
        BY <1>3, <3>1, GivenBits
    <2>3. from_u64(n, value) = from_array(s)
      BY <1>3, FromU64Bits
    <2> HIDE DEF s
    <2>4. Becomes(from_array(s), s)
      BY <2>1, <2>3 DEF s
    <2>. QED
      BY <1>2, <2>2, <2>4
  <1>5. CASE Slice
    <2>1. PICK offset \in Widths, n \in Widths :
            /\ offset + n <= Len(scalar)
            /\ Becomes(slice(packed, offset, n), [i \in 1..n |-> scalar[offset + i]])
      BY <1>5 DEF Slice
    <2> DEFINE s == [i \in 1..n |-> scalar[offset + i]]
    <2>2. s \in Seq(BOOLEAN)
      <3>1. \A i \in 1..n : offset + i \in 1..Len(scalar)
        BY <1>1, <1>3, <2>1
      <3>. QED
        BY <1>1, <1>3, <3>1
    <2>3. slice(packed, offset, n) = from_array(s)
      BY <1>1, <1>3, <2>1, SliceBits
    <2> HIDE DEF s
    <2>4. Becomes(from_array(s), s)
      BY <2>1, <2>3 DEF s
    <2>. QED
      BY <1>2, <2>2, <2>4
  <1>6. CASE Xor
    <2>1. PICK other \in Strings(Len(scalar)) :
            Becomes(xor(packed, from_array(other)), [i \in DOMAIN scalar |-> scalar[i] # other[i]])
      BY <1>6 DEF Xor
    <2> DEFINE s == [i \in DOMAIN scalar |-> scalar[i] # other[i]]
    <2>2. s \in Seq(BOOLEAN)
      BY <1>1
    <2>3. xor(packed, from_array(other)) = from_array(s)
      BY <1>1, XorBits DEF Strings
    <2> HIDE DEF s
    <2>4. Becomes(from_array(s), s)
      BY <2>1, <2>3 DEF s
    <2>. QED
      BY <1>2, <2>2, <2>4
  <1>7. CASE RotateRight
    <2>1. PICK amount \in 0 .. 2 * MaxBits :
            Becomes(rotate_right(packed, amount),
                    [i \in DOMAIN scalar |-> scalar[((i - 1 + amount) % Len(scalar)) + 1]])
      BY <1>7 DEF RotateRight
    <2> DEFINE s == [i \in DOMAIN scalar |-> scalar[((i - 1 + amount) % Len(scalar)) + 1]]
    <2>2. amount \in Nat
      BY BoundsAssumption
    <2>3. s \in Seq(BOOLEAN)
      <3>1. \A i \in 1..Len(scalar) : ((i - 1 + amount) % Len(scalar)) + 1 \in 1..Len(scalar)
        BY <1>1, <2>2
      <3>2. \A i \in 1..Len(scalar) : s[i] \in BOOLEAN
        BY <1>1, <3>1
      <3>3. s \in [1..Len(scalar) -> BOOLEAN]
        BY <1>1, <3>2
      <3>. QED
        BY <1>1, <3>3, GivenBits
    <2>4. rotate_right(packed, amount) = from_array(s)
      BY <1>1, <2>2, RotateRightBits
    <2> HIDE DEF s
    <2>5. Becomes(from_array(s), s)
      BY <2>1, <2>4 DEF s
    <2>. QED
      BY <1>2, <2>3, <2>5
  <1>8. CASE ShiftRight
    <2>1. PICK amount \in 0 .. MaxBits + 1 :
            Becomes(shift_right(packed, amount),
                    [i \in DOMAIN scalar |-> i + amount <= Len(scalar) /\ scalar[i + amount]])
      BY <1>8 DEF ShiftRight
    <2> DEFINE s == [i \in DOMAIN scalar |-> i + amount <= Len(scalar) /\ scalar[i + amount]]
    <2>2. amount \in Nat
      BY BoundsAssumption
    <2>3. s \in Seq(BOOLEAN)
      BY <1>1
    <2>4. shift_right(packed, amount) = from_array(s)
      BY <1>1, <2>2, ShiftRightBits
    <2> HIDE DEF s
    <2>5. Becomes(from_array(s), s)
      BY <2>1, <2>4 DEF s
    <2>. QED
      BY <1>2, <2>3, <2>5
  <1>9. CASE Truncate
    <2>1. PICK n \in Widths :
            Becomes(truncate(packed, n), [i \in 1..n |-> i <= Len(scalar) /\ scalar[i]])
      BY <1>9 DEF Truncate
    <2> DEFINE s == [i \in 1..n |-> i <= Len(scalar) /\ scalar[i]]
    <2>2. s \in Seq(BOOLEAN)
      <3>1. s \in [1..n -> BOOLEAN]
        OBVIOUS
      <3>. QED
        BY <1>3, <3>1, GivenBits
    <2>3. truncate(packed, n) = from_array(s)
      BY <1>1, <1>3, TruncateBits
    <2> HIDE DEF s
    <2>4. Becomes(from_array(s), s)
      BY <2>1, <2>3 DEF s
    <2>. QED
      BY <1>2, <2>2, <2>4
  <1>10. ASSUME witness' = extend_packed(witness, from_array(scalar)),
                stored' = stored \o scalar, UNCHANGED <<packed, scalar>>
         PROVE  PackedInv'
    <2>1. stored \o scalar \in Seq(BOOLEAN)
      BY <1>1, ConcatOnes
    <2>2. WitnessIsStored'
      <3>1. witness.bit_len = Len(stored) /\ witness.words = from_array(stored).words
        BY DEF PackedInv, WitnessIsStored
      <3>2. /\ witness'.bit_len = Len(stored \o scalar)
            /\ witness'.words = from_array(stored \o scalar).words
        BY <1>1, <1>10, <3>1, ExtendStored
      <3>. QED
        BY <1>10, <3>2 DEF WitnessIsStored
    <2>. QED
      BY <1>1, <1>10, <2>1, <2>2 DEF PackedInv
  <1>11. CASE AppendPacked
    BY <1>1, <1>10, <1>11 DEF AppendPacked
  <1>12. CASE AppendArray
    BY <1>10, <1>12 DEF AppendArray, extend
  <1>13. CASE UNCHANGED vars
    BY <1>13 DEF vars, PackedInv, WitnessIsStored
  <1>. QED
    BY <1>4, <1>5, <1>6, <1>7, <1>8, <1>9, <1>11, <1>12, <1>13 DEF Next

\* Every operation on words is the one on bits, and the integers taken from all
\* bits and from the low ones are those of the bits.
THEOREM WordsAreBits == Spec => []SameBits
  <1>1. PackedInv => SameBits
    <2> SUFFICES ASSUME PackedInv PROVE SameBits
      OBVIOUS
    <2>1. scalar \in Seq(BOOLEAN) /\ packed = from_array(scalar)
      BY DEF PackedInv
    <2>2. \A limbs \in 0 .. Limbs(MaxBits) : limbs \in Nat
      BY BoundsAssumption, LimbsCover
    <2>3. PrefixIsLowPart
      BY <2>1, <2>2, PrefixBits DEF PrefixIsLowPart
    <2>. QED
      BY <2>1, <2>3 DEF SameBits
  <1>. QED
    BY <1>1, InitPacked, StepPacked, PTL DEF Spec

\* The packed witness is the appended bits, wherever an append crosses a word.
THEOREM WitnessHoldsBits == Spec => []WitnessIsStored
  <1>1. PackedInv => WitnessIsStored
    BY DEF PackedInv
  <1>. QED
    BY <1>1, InitPacked, StepPacked, PTL DEF Spec
==============================================================================
