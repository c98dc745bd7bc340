----------------------------- MODULE WireProof -----------------------------
(***************************************************************************)
(* Crate host: how a proof leaves and enters as one byte string.  A header *)
(* of six fields, then the narg string, then the hints.  A reader of the   *)
(* bytes is its position: what it has left is what comes after.            *)
(***************************************************************************)
EXTENDS Naturals, Sequences

CONSTANTS
    Byte,
    MAGIC, WIRE_VERSION, FLAGS,
    U16, U32, U64,   \* bytes in an integer of each width
    MaxUsize,        \* usize::MAX
    to_le(_, _),     \* a number in so many bytes, the lowest first
    from_le(_)       \* the number some bytes spell

\* Offsets of the header fields after the magic.
VersionAt == Len(MAGIC)
HeaderLenAt == VersionAt + U16
FlagsAt == HeaderLenAt + U16
NargLenAt == FlagsAt + U32
HintLenAt == NargLenAt + U64
HEADER_LEN == HintLenAt + U64

Bytes(width) == [1..width -> Byte]
Numbers(width) == {from_le(b) : b \in Bytes(width)}

\* An address fits into 64 bits, and a number has one spelling in each width.
ASSUME WireAssumption ==
    /\ {U16, U32, U64, MaxUsize} \subseteq Nat
    /\ MAGIC \in Seq(Byte)
    /\ \A width \in {U16, U32, U64} : \A b \in Bytes(width) :
          from_le(b) \in Nat /\ to_le(from_le(b), width) = b
    /\ {WIRE_VERSION, HEADER_LEN} \subseteq Numbers(U16)
    /\ FLAGS \in Numbers(U32)
    /\ 0..MaxUsize \subseteq Numbers(U64)

\* transcript::Proof.
NoProof == [narg |-> <<>>, hints |-> <<>>]
-----------------------------------------------------------------------------
\* WireProof::to_bytes.
Header(narg_len, hint_len) ==
    MAGIC \o to_le(WIRE_VERSION, U16) \o to_le(HEADER_LEN, U16) \o to_le(FLAGS, U32)
          \o to_le(narg_len, U64) \o to_le(hint_len, U64)

encode(proof) == Header(Len(proof.narg), Len(proof.hints)) \o proof.narg \o proof.hints
-----------------------------------------------------------------------------
\* BoundedReader::read_array, read_slice, at a position.
CanRead(bytes, pos, n) == pos + n <= Len(bytes)
Read(bytes, pos, n) == SubSeq(bytes, pos + 1, pos + n)

read_u64(bytes, pos) == from_le(Read(bytes, pos, U64))

\* The fields with one value, in the order they are read.
FixedFields ==
    <<[at |-> 0, value |-> MAGIC, error |-> "BadMagic"],
      [at |-> VersionAt, value |-> to_le(WIRE_VERSION, U16), error |-> "UnsupportedVersion"],
      [at |-> HeaderLenAt, value |-> to_le(HEADER_LEN, U16), error |-> "BadHeaderLen"],
      [at |-> FlagsAt, value |-> to_le(FLAGS, U32), error |-> "ReservedFlagsSet"]>>

FieldError(bytes, f) ==
    IF ~CanRead(bytes, f.at, Len(f.value)) THEN "OutOfInput"
    ELSE IF Read(bytes, f.at, Len(f.value)) # f.value THEN f.error ELSE "none"

\* Both lengths must be addresses, their sum too, and declare what is there.
LengthError(bytes) ==
    IF ~CanRead(bytes, NargLenAt, U64) THEN "OutOfInput"
    ELSE IF read_u64(bytes, NargLenAt) > MaxUsize THEN "LengthOverflow"
    ELSE IF ~CanRead(bytes, HintLenAt, U64) THEN "OutOfInput"
    ELSE LET declared == HEADER_LEN + read_u64(bytes, NargLenAt) + read_u64(bytes, HintLenAt)
         IN  IF read_u64(bytes, HintLenAt) > MaxUsize \/ declared > MaxUsize THEN "LengthOverflow"
             ELSE IF declared # Len(bytes) THEN "LengthMismatch" ELSE "none"

\* Reading the two streams, and the end of the input.
BodyError(bytes, narg_len, hint_len) ==
    IF ~CanRead(bytes, HEADER_LEN, narg_len) \/ ~CanRead(bytes, HEADER_LEN + narg_len, hint_len)
    THEN "OutOfInput"
    ELSE IF HEADER_LEN + narg_len + hint_len # Len(bytes) THEN "LeftoverInput" ELSE "none"

HeaderError(bytes) ==
    LET wrong == {i \in 1..4 : FieldError(bytes, FixedFields[i]) # "none"}
    IN  IF wrong = {} THEN LengthError(bytes)
        ELSE FieldError(bytes, FixedFields[CHOOSE i \in wrong : \A j \in wrong : i <= j])

\* WireProof::from_bytes: no error, or the first one met.
DecodingError(bytes) ==
    IF HeaderError(bytes) # "none" THEN HeaderError(bytes)
    ELSE BodyError(bytes, read_u64(bytes, NargLenAt), read_u64(bytes, HintLenAt))

decode(bytes) ==
    IF DecodingError(bytes) # "none" THEN NoProof
    ELSE LET narg_len == read_u64(bytes, NargLenAt)
         IN  [narg  |-> Read(bytes, HEADER_LEN, narg_len),
              hints |-> Read(bytes, HEADER_LEN + narg_len, read_u64(bytes, HintLenAt))]
=============================================================================
