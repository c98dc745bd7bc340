--------------------------- MODULE ProtocolProofs ---------------------------
(***************************************************************************)
(* Theorems about Protocol and what it is made of: the container, the two  *)
(* scripts, and the machine that runs them.                                *)
(***************************************************************************)
EXTENDS Protocol, InductionLemmas

(***************************************************************************)
(* Theorems about the container, for bytes, streams and words of any size. *)
(***************************************************************************)
Proofs == [narg : Seq(Byte), hints : Seq(Byte)]
-----------------------------------------------------------------------------
\* Reading n bytes at a position gives n bytes.
LEMMA ReadBytes ==
    ASSUME NEW s \in Seq(Byte), NEW pos \in Nat, NEW n \in Nat, CanRead(s, pos, n)
    PROVE  /\ Read(s, pos, n) \in Seq(Byte)
           /\ Len(Read(s, pos, n)) = n
           /\ \A i \in 1..n : Read(s, pos, n)[i] = s[pos + i]
  <1>1. \A i \in pos + 1 .. pos + n : s[i] \in Byte
    BY LenProperties DEF CanRead
  <1>. QED
    BY <1>1, SubSeqProperties, LenProperties DEF Read

\* What comes after does not change what is read.
LEMMA ReadAppended ==
    ASSUME NEW s \in Seq(Byte), NEW u \in Seq(Byte), NEW pos \in Nat, NEW n \in Nat,
           CanRead(s, pos, n)
    PROVE  CanRead(s \o u, pos, n) /\ Read(s \o u, pos, n) = Read(s, pos, n)
  <1>1. s \o u \in Seq(Byte) /\ Len(s \o u) = Len(s) + Len(u) /\ Len(s) \in Nat /\ Len(u) \in Nat
    BY ConcatProperties, LenProperties
  <1>2. CanRead(s \o u, pos, n)
    BY <1>1 DEF CanRead
  <1>3. \A i \in 1..n : (s \o u)[pos + i] = s[pos + i]
    BY <1>1, ConcatProperties DEF CanRead
  <1>4. /\ Read(s \o u, pos, n) \in Seq(Byte) /\ Len(Read(s \o u, pos, n)) = n
        /\ \A i \in 1..n : Read(s \o u, pos, n)[i] = (s \o u)[pos + i]
    BY <1>1, <1>2, ReadBytes
  <1>5. /\ Read(s, pos, n) \in Seq(Byte) /\ Len(Read(s, pos, n)) = n
        /\ \A i \in 1..n : Read(s, pos, n)[i] = s[pos + i]
    BY ReadBytes
  <1>. QED
    BY <1>2, <1>3, <1>4, <1>5, SeqEqual

\* What was written last is read at the end of what was there.
LEMMA ReadLast ==
    ASSUME NEW s \in Seq(Byte), NEW x \in Seq(Byte)
    PROVE  CanRead(s \o x, Len(s), Len(x)) /\ Read(s \o x, Len(s), Len(x)) = x
  <1>1. s \o x \in Seq(Byte) /\ Len(s \o x) = Len(s) + Len(x) /\ Len(s) \in Nat /\ Len(x) \in Nat
    BY ConcatProperties, LenProperties
  <1>2. CanRead(s \o x, Len(s), Len(x))
    BY <1>1 DEF CanRead
  <1>3. \A i \in 1..Len(x) : (s \o x)[Len(s) + i] = x[i]
    BY <1>1, ConcatProperties
  <1>4. /\ Read(s \o x, Len(s), Len(x)) \in Seq(Byte)
        /\ Len(Read(s \o x, Len(s), Len(x))) = Len(x)
        /\ \A i \in 1..Len(x) : Read(s \o x, Len(s), Len(x))[i] = (s \o x)[Len(s) + i]
    BY <1>1, <1>2, ReadBytes
  <1>. QED
    BY <1>2, <1>3, <1>4, SeqEqual

\* Two reads in a row are one.
LEMMA ReadOn ==
    ASSUME NEW s \in Seq(Byte), NEW pos \in Nat, NEW n \in Nat, CanRead(s, pos, n)
    PROVE  Read(s, 0, pos) \o Read(s, pos, n) = Read(s, 0, pos + n)
  <1>1. Len(s) \in Nat /\ pos + n <= Len(s)
    BY LenProperties DEF CanRead
  <1>. QED
    BY <1>1, ConcatAdjacentSubSeq DEF Read

\* A number has the bytes of its width, and they spell it.
LEMMA Spelling ==
    ASSUME NEW width \in {U16, U32, U64}, NEW n \in Numbers(width)
    PROVE  /\ to_le(n, width) \in Seq(Byte)
           /\ Len(to_le(n, width)) = width
           /\ from_le(to_le(n, width)) = n
  <1>1. PICK b \in Bytes(width) : n = from_le(b)
    BY DEF Numbers
  <1>2. to_le(n, width) = b /\ width \in Nat
    BY <1>1, WireAssumption
  <1>3. b \in Seq(Byte) /\ Len(b) = width
    BY <1>2 DEF Bytes
  <1>. QED
    BY <1>1, <1>2, <1>3
-----------------------------------------------------------------------------
\* Offsets are numbers, and values have the widths of their fields.
LEMMA Offsets ==
    /\ VersionAt \in Nat /\ HeaderLenAt = VersionAt + U16 /\ FlagsAt = HeaderLenAt + U16
    /\ NargLenAt = FlagsAt + U32 /\ HintLenAt = NargLenAt + U64 /\ HEADER_LEN = HintLenAt + U64
    /\ HeaderLenAt \in Nat /\ FlagsAt \in Nat /\ NargLenAt \in Nat /\ HintLenAt \in Nat
    /\ HEADER_LEN \in Nat
    /\ MAGIC \in Seq(Byte) /\ Len(MAGIC) = VersionAt
    /\ to_le(WIRE_VERSION, U16) \in Seq(Byte) /\ Len(to_le(WIRE_VERSION, U16)) = U16
    /\ to_le(HEADER_LEN, U16) \in Seq(Byte) /\ Len(to_le(HEADER_LEN, U16)) = U16
    /\ to_le(FLAGS, U32) \in Seq(Byte) /\ Len(to_le(FLAGS, U32)) = U32
  <1>1. MAGIC \in Seq(Byte) /\ VersionAt = Len(MAGIC) /\ VersionAt \in Nat
    BY WireAssumption, LenProperties DEF VersionAt
  <1>2. U16 \in Nat /\ U32 \in Nat /\ U64 \in Nat
    BY WireAssumption
  <1>3. WIRE_VERSION \in Numbers(U16) /\ HEADER_LEN \in Numbers(U16) /\ FLAGS \in Numbers(U32)
    BY WireAssumption
  <1>4. /\ to_le(WIRE_VERSION, U16) \in Seq(Byte) /\ Len(to_le(WIRE_VERSION, U16)) = U16
        /\ to_le(HEADER_LEN, U16) \in Seq(Byte) /\ Len(to_le(HEADER_LEN, U16)) = U16
        /\ to_le(FLAGS, U32) \in Seq(Byte) /\ Len(to_le(FLAGS, U32)) = U32
    BY <1>3, Spelling
  <1>. QED
    BY <1>1, <1>2, <1>4 DEF HeaderLenAt, FlagsAt, NargLenAt, HintLenAt, HEADER_LEN

\* A length read from eight bytes that are there.
LEMMA ReadLength ==
    ASSUME NEW bytes \in Seq(Byte), NEW pos \in Nat, CanRead(bytes, pos, U64)
    PROVE  /\ read_u64(bytes, pos) \in Nat
           /\ to_le(read_u64(bytes, pos), U64) = Read(bytes, pos, U64)
  <1>1. U64 \in Nat
    BY WireAssumption
  <1>2. Read(bytes, pos, U64) \in Seq(Byte) /\ Len(Read(bytes, pos, U64)) = U64
    BY <1>1, ReadBytes
  <1>3. Read(bytes, pos, U64) \in Bytes(U64)
    BY <1>2, LenProperties DEF Bytes
  <1>. QED
    BY <1>3, WireAssumption DEF read_u64

\* A header without an error has every fixed field and declares what is there.
LEMMA SoundHeader ==
    ASSUME NEW bytes, HeaderError(bytes) = "none"
    PROVE  /\ \A i \in 1..4 :
                /\ CanRead(bytes, FixedFields[i].at, Len(FixedFields[i].value))
                /\ Read(bytes, FixedFields[i].at, Len(FixedFields[i].value)) = FixedFields[i].value
           /\ LengthError(bytes) = "none"
  <1>. DEFINE wrong == {j \in 1..4 : FieldError(bytes, FixedFields[j]) # "none"}
  <1>1. wrong = {}
    <2>. SUFFICES ASSUME wrong # {} PROVE FALSE
      OBVIOUS
    <2>1. wrong \subseteq 1..4 /\ 1..4 = {1, 2, 3, 4}
      OBVIOUS
    <2>2. \E j \in wrong : \A k \in wrong : j <= k
      BY <2>1
    <2>3. (CHOOSE j \in wrong : \A k \in wrong : j <= k) \in wrong
      BY <2>2
    <2>. QED
      BY <2>3 DEF HeaderError
  <1>2. ASSUME NEW i \in 1..4
        PROVE  FieldError(bytes, FixedFields[i]) = "none" /\ FixedFields[i].error # "none"
    BY <1>1 DEF FixedFields
  <1>3. LengthError(bytes) = "none"
    BY <1>1 DEF HeaderError
  <1>. QED
    BY <1>2, <1>3 DEF FieldError

\* What the length fields of such a header say.
LEMMA SoundLengths ==
    ASSUME NEW bytes \in Seq(Byte), LengthError(bytes) = "none"
    PROVE  /\ CanRead(bytes, NargLenAt, U64) /\ read_u64(bytes, NargLenAt) \in Nat
           /\ CanRead(bytes, HintLenAt, U64) /\ read_u64(bytes, HintLenAt) \in Nat
           /\ HEADER_LEN + read_u64(bytes, NargLenAt) + read_u64(bytes, HintLenAt) = Len(bytes)
  <1>1. CanRead(bytes, NargLenAt, U64) /\ CanRead(bytes, HintLenAt, U64)
    BY DEF LengthError
  <1>2. HEADER_LEN + read_u64(bytes, NargLenAt) + read_u64(bytes, HintLenAt) = Len(bytes)
    BY DEF LengthError
  <1>. QED
    BY <1>1, <1>2, ReadLength, Offsets

\* A header without an error is what was written for its lengths.
LEMMA HeaderSpelled ==
    ASSUME NEW bytes \in Seq(Byte), HeaderError(bytes) = "none",
           NEW narg_len, narg_len = read_u64(bytes, NargLenAt),
           NEW hint_len, hint_len = read_u64(bytes, HintLenAt)
    PROVE  Header(narg_len, hint_len) = Read(bytes, 0, HEADER_LEN)
  <1>. DEFINE Upto(pos) == Read(bytes, 0, pos)
  <1>1. /\ CanRead(bytes, 0, VersionAt) /\ MAGIC = Upto(VersionAt)
        /\ CanRead(bytes, VersionAt, U16) /\ to_le(WIRE_VERSION, U16) = Read(bytes, VersionAt, U16)
        /\ CanRead(bytes, HeaderLenAt, U16) /\ to_le(HEADER_LEN, U16) = Read(bytes, HeaderLenAt, U16)
        /\ CanRead(bytes, FlagsAt, U32) /\ to_le(FLAGS, U32) = Read(bytes, FlagsAt, U32)
    <2>1. CanRead(bytes, 0, VersionAt) /\ MAGIC = Upto(VersionAt)
      BY SoundHeader, Offsets, 1 \in 1..4, SMTT(30) DEF FixedFields
    <2>2. CanRead(bytes, VersionAt, U16) /\ to_le(WIRE_VERSION, U16) = Read(bytes, VersionAt, U16)
      BY SoundHeader, Offsets, 2 \in 1..4, SMTT(30) DEF FixedFields
    <2>3. CanRead(bytes, HeaderLenAt, U16) /\ to_le(HEADER_LEN, U16) = Read(bytes, HeaderLenAt, U16)
      BY SoundHeader, Offsets, 3 \in 1..4, SMTT(30) DEF FixedFields
    <2>4. CanRead(bytes, FlagsAt, U32) /\ to_le(FLAGS, U32) = Read(bytes, FlagsAt, U32)
      BY SoundHeader, Offsets, 4 \in 1..4, SMTT(30) DEF FixedFields
    <2>. QED
      BY <2>1, <2>2, <2>3, <2>4
  <1>2. /\ CanRead(bytes, NargLenAt, U64) /\ to_le(narg_len, U64) = Read(bytes, NargLenAt, U64)
        /\ CanRead(bytes, HintLenAt, U64) /\ to_le(hint_len, U64) = Read(bytes, HintLenAt, U64)
    <2>1. LengthError(bytes) = "none"
      BY SoundHeader
    <2>2. CanRead(bytes, NargLenAt, U64) /\ CanRead(bytes, HintLenAt, U64)
      BY <2>1, SoundLengths
    <2>3. NargLenAt \in Nat /\ HintLenAt \in Nat
      BY Offsets
    <2>. QED
      BY <2>2, <2>3, ReadLength
  <1>3. U16 \in Nat /\ U32 \in Nat /\ U64 \in Nat
    BY WireAssumption
  <1>4. /\ VersionAt \in Nat /\ HeaderLenAt \in Nat /\ FlagsAt \in Nat
        /\ NargLenAt \in Nat /\ HintLenAt \in Nat
    BY Offsets
  <1>5. Upto(VersionAt) \o Read(bytes, VersionAt, U16) = Upto(VersionAt + U16)
    <2>1. CanRead(bytes, VersionAt, U16)
      BY <1>1
    <2>. QED
      BY <2>1, <1>3, <1>4, ReadOn
  <1>6. Upto(HeaderLenAt) \o Read(bytes, HeaderLenAt, U16) = Upto(HeaderLenAt + U16)
    <2>1. CanRead(bytes, HeaderLenAt, U16)
      BY <1>1
    <2>. QED
      BY <2>1, <1>3, <1>4, ReadOn
  <1>7. Upto(FlagsAt) \o Read(bytes, FlagsAt, U32) = Upto(FlagsAt + U32)
    <2>1. CanRead(bytes, FlagsAt, U32)
      BY <1>1
    <2>. QED
      BY <2>1, <1>3, <1>4, ReadOn
  <1>8. Upto(NargLenAt) \o Read(bytes, NargLenAt, U64) = Upto(NargLenAt + U64)
    <2>1. CanRead(bytes, NargLenAt, U64)
      BY <1>2
    <2>. QED
      BY <2>1, <1>3, <1>4, ReadOn
  <1>9. Upto(HintLenAt) \o Read(bytes, HintLenAt, U64) = Upto(HintLenAt + U64)
    <2>1. CanRead(bytes, HintLenAt, U64)
      BY <1>2
    <2>. QED
      BY <2>1, <1>3, <1>4, ReadOn
  <1>10. /\ HeaderLenAt = VersionAt + U16 /\ FlagsAt = HeaderLenAt + U16 /\ NargLenAt = FlagsAt + U32
         /\ HintLenAt = NargLenAt + U64 /\ HEADER_LEN = HintLenAt + U64
    BY Offsets
  <1>11. MAGIC \o to_le(WIRE_VERSION, U16) = Upto(HeaderLenAt)
    BY <1>1, <1>5, <1>10
  <1>12. Upto(HeaderLenAt) \o to_le(HEADER_LEN, U16) = Upto(FlagsAt)
    BY <1>1, <1>6, <1>10
  <1>13. Upto(FlagsAt) \o to_le(FLAGS, U32) = Upto(NargLenAt)
    BY <1>1, <1>7, <1>10
  <1>14. Upto(NargLenAt) \o to_le(narg_len, U64) = Upto(HintLenAt)
    BY <1>2, <1>8, <1>10
  <1>15. Upto(HintLenAt) \o to_le(hint_len, U64) = Upto(HEADER_LEN)
    BY <1>2, <1>9, <1>10
  <1>. QED
    BY <1>11, <1>12, <1>13, <1>14, <1>15, Zenon DEF Header

\* Two streams that fill the rest are read.
LEMMA StreamsFit ==
    ASSUME NEW bytes \in Seq(Byte), NEW narg_len \in Nat, NEW hint_len \in Nat,
           HEADER_LEN + narg_len + hint_len = Len(bytes)
    PROVE  /\ HEADER_LEN + narg_len \in Nat
           /\ CanRead(bytes, HEADER_LEN, narg_len)
           /\ CanRead(bytes, HEADER_LEN + narg_len, hint_len)
  <1>1. HEADER_LEN \in Nat
    BY Offsets
  <1>. QED
    BY <1>1 DEF CanRead

\* e was written from s on.
Begins(s, e) == \E u \in Seq(Byte) : e = s \o u

\* What was written next is read where s ends.
LEMMA ReadNext ==
    ASSUME NEW s \in Seq(Byte), NEW x \in Seq(Byte), NEW e, Begins(s \o x, e)
    PROVE  /\ Begins(s, e)
           /\ CanRead(e, Len(s), Len(x)) /\ Read(e, Len(s), Len(x)) = x
  <1>1. PICK u \in Seq(Byte) : e = (s \o x) \o u
    BY DEF Begins
  <1>2. e = s \o (x \o u) /\ x \o u \in Seq(Byte)
    BY <1>1, ConcatAssociative, ConcatProperties
  <1>3. s \o x \in Seq(Byte) /\ Len(s) \in Nat /\ Len(x) \in Nat
    BY ConcatProperties, LenProperties
  <1>4. CanRead(s \o x, Len(s), Len(x)) /\ Read(s \o x, Len(s), Len(x)) = x
    BY ReadLast
  <1>5. CanRead(e, Len(s), Len(x)) /\ Read(e, Len(s), Len(x)) = Read(s \o x, Len(s), Len(x))
    BY <1>1, <1>3, <1>4, ReadAppended
  <1>. QED
    BY <1>2, <1>4, <1>5 DEF Begins

\* What was written first is read at the start.
LEMMA ReadFirst ==
    ASSUME NEW s \in Seq(Byte), NEW e, Begins(s, e)
    PROVE  CanRead(e, 0, Len(s)) /\ Read(e, 0, Len(s)) = s
  <1>1. <<>> \in Seq(Byte) /\ Len(<<>>) = 0 /\ <<>> \o s = s
    BY EmptySeq, ConcatEmptySeq
  <1>2. Begins(<<>> \o s, e)
    BY <1>1
  <1>3. CanRead(e, Len(<<>>), Len(s)) /\ Read(e, Len(<<>>), Len(s)) = s
    BY <1>1, <1>2, ReadNext
  <1>. QED
    BY <1>1, <1>3

\* A header of fixed fields that are there, and sound lengths, has no error.
LEMMA HeaderAccepted ==
    ASSUME NEW bytes, LengthError(bytes) = "none",
           \A i \in 1..4 : FieldError(bytes, FixedFields[i]) = "none"
    PROVE  HeaderError(bytes) = "none"
  BY DEF HeaderError

-----------------------------------------------------------------------------
\* from_bytes, on its last three calls: "Neither read can fail, and finish
\* cannot either", whatever the input: they are backstops.
THEOREM BackstopNeverFires ==
    \A bytes \in Seq(Byte) : DecodingError(bytes) = HeaderError(bytes)
  <1>. SUFFICES ASSUME NEW bytes \in Seq(Byte), HeaderError(bytes) = "none"
                PROVE  DecodingError(bytes) = "none"
    BY DEF DecodingError
  <1>1. PICK narg_len, hint_len :
            narg_len = read_u64(bytes, NargLenAt) /\ hint_len = read_u64(bytes, HintLenAt)
    OBVIOUS
  <1>2. narg_len \in Nat /\ hint_len \in Nat /\ HEADER_LEN + narg_len + hint_len = Len(bytes)
    BY <1>1, SoundHeader, SoundLengths
  <1>3. BodyError(bytes, narg_len, hint_len) = "none"
    BY <1>2, StreamsFit DEF BodyError
  <1>. QED
    BY <1>1, <1>3 DEF DecodingError

\* One half of host's bijection: bytes that decode are the encoding of what they
\* decode to, so no proof has two spellings, whatever follows, precedes or is
\* declared in a container.
THEOREM OneSpelling ==
    \A bytes \in Seq(Byte) :
        DecodingError(bytes) = "none" =>
            decode(bytes) \in Proofs /\ encode(decode(bytes)) = bytes
  <1>. SUFFICES ASSUME NEW bytes \in Seq(Byte), DecodingError(bytes) = "none"
                PROVE  decode(bytes) \in Proofs /\ encode(decode(bytes)) = bytes
    OBVIOUS
  <1>1. HeaderError(bytes) = "none"
    BY BackstopNeverFires
  <1>2. PICK narg_len, hint_len :
            narg_len = read_u64(bytes, NargLenAt) /\ hint_len = read_u64(bytes, HintLenAt)
    OBVIOUS
  <1>3. narg_len \in Nat /\ hint_len \in Nat /\ HEADER_LEN + narg_len + hint_len = Len(bytes)
    BY <1>1, <1>2, SoundHeader, SoundLengths
  <1>4. PICK narg, advice :
            narg = Read(bytes, HEADER_LEN, narg_len) /\ advice = Read(bytes, HEADER_LEN + narg_len, hint_len)
    OBVIOUS
  <1>5. /\ HEADER_LEN \in Nat /\ HEADER_LEN + narg_len \in Nat
        /\ CanRead(bytes, HEADER_LEN, narg_len)
        /\ CanRead(bytes, HEADER_LEN + narg_len, hint_len)
    BY <1>3, StreamsFit, Offsets
  <1>6. narg \in Seq(Byte) /\ Len(narg) = narg_len /\ advice \in Seq(Byte) /\ Len(advice) = hint_len
    BY <1>3, <1>4, <1>5, ReadBytes
  <1>7. decode(bytes) = [narg |-> narg, hints |-> advice]
    BY <1>2, <1>4 DEF decode
  <1>8. encode(decode(bytes)) = Header(narg_len, hint_len) \o narg \o advice
    <2>1. decode(bytes).narg = narg /\ decode(bytes).hints = advice
      BY <1>7
    <2>. QED
      BY <1>6, <2>1, Zenon DEF encode
  <1>9. Header(narg_len, hint_len) = Read(bytes, 0, HEADER_LEN)
    BY <1>1, <1>2, HeaderSpelled
  <1>10. Read(bytes, 0, HEADER_LEN) \o narg = Read(bytes, 0, HEADER_LEN + narg_len)
    BY <1>3, <1>4, <1>5, ReadOn
  <1>11. Read(bytes, 0, HEADER_LEN + narg_len) \o advice = Read(bytes, 0, HEADER_LEN + narg_len + hint_len)
    BY <1>3, <1>4, <1>5, ReadOn
  <1>12. Read(bytes, 0, Len(bytes)) = bytes
    BY SubSeqFull, LenProperties DEF Read
  <1>13. encode(decode(bytes)) = bytes
    BY <1>3, <1>8, <1>9, <1>10, <1>11, <1>12
  <1>. QED
    BY <1>6, <1>7, <1>13 DEF Proofs

\* The other half: a proof that has an address decodes from its encoding.
THEOREM RoundTrip ==
    \A sent \in Proofs :
        HEADER_LEN + Len(sent.narg) + Len(sent.hints) <= MaxUsize =>
            DecodingError(encode(sent)) = "none" /\ decode(encode(sent)) = sent
  <1>. SUFFICES ASSUME NEW narg \in Seq(Byte), NEW advice \in Seq(Byte),
                       HEADER_LEN + Len(narg) + Len(advice) <= MaxUsize,
                       NEW sent, sent = [narg |-> narg, hints |-> advice]
                PROVE  DecodingError(encode(sent)) = "none" /\ decode(encode(sent)) = sent
    <2>1. \A sent \in Proofs : /\ sent = [narg |-> sent.narg, hints |-> sent.hints]
                               /\ sent.narg \in Seq(Byte) /\ sent.hints \in Seq(Byte)
      BY DEF Proofs
    <2>. QED
      BY <2>1
  <1>1. PICK n, h, version, header_len, flags, a, b :
            /\ n = Len(narg) /\ h = Len(advice)
            /\ version = to_le(WIRE_VERSION, U16) /\ header_len = to_le(HEADER_LEN, U16)
            /\ flags = to_le(FLAGS, U32) /\ a = to_le(n, U64) /\ b = to_le(h, U64)
    OBVIOUS
  <1>2. n \in Nat /\ h \in Nat /\ HEADER_LEN \in Nat /\ HEADER_LEN + n + h <= MaxUsize /\ MaxUsize \in Nat
    BY <1>1, LenProperties, Offsets, WireAssumption
  <1>3. /\ version \in Seq(Byte) /\ Len(version) = U16
        /\ header_len \in Seq(Byte) /\ Len(header_len) = U16
        /\ flags \in Seq(Byte) /\ Len(flags) = U32
        /\ MAGIC \in Seq(Byte) /\ Len(MAGIC) = VersionAt
    BY <1>1, Offsets
  <1>4. /\ a \in Seq(Byte) /\ Len(a) = U64 /\ from_le(a) = n
        /\ b \in Seq(Byte) /\ Len(b) = U64 /\ from_le(b) = h
    <2>1. n \in 0..MaxUsize /\ h \in 0..MaxUsize
      BY <1>2
    <2>2. n \in Numbers(U64) /\ h \in Numbers(U64)
      BY <2>1, WireAssumption
    <2>. QED
      BY <1>1, <2>2, Spelling
  <1>5. PICK s2, s3, s4, s5, s6, s7, e :
            /\ s2 = MAGIC \o version /\ s3 = s2 \o header_len /\ s4 = s3 \o flags
            /\ s5 = s4 \o a /\ s6 = s5 \o b /\ s7 = s6 \o narg /\ e = s7 \o advice
    OBVIOUS
  <1>6. e = encode(sent)
    <2>1. sent.narg = narg /\ sent.hints = advice
      OBVIOUS
    <2>. QED
      BY <1>1, <1>5, <2>1, Zenon DEF encode, Header
  <1>7. s2 \in Seq(Byte) /\ Len(s2) = HeaderLenAt
    <2>1. HeaderLenAt = VersionAt + U16
      BY Offsets
    <2>2. s2 = MAGIC \o version
      BY <1>5
    <2>. QED
      BY <1>3, <2>1, <2>2, ConcatProperties
  <1>8. s3 \in Seq(Byte) /\ Len(s3) = FlagsAt
    <2>1. FlagsAt = HeaderLenAt + U16
      BY Offsets
    <2>2. s3 = s2 \o header_len
      BY <1>5
    <2>. QED
      BY <1>3, <1>7, <2>1, <2>2, ConcatProperties
  <1>9. s4 \in Seq(Byte) /\ Len(s4) = NargLenAt
    <2>1. NargLenAt = FlagsAt + U32
      BY Offsets
    <2>2. s4 = s3 \o flags
      BY <1>5
    <2>. QED
      BY <1>3, <1>8, <2>1, <2>2, ConcatProperties
  <1>10. s5 \in Seq(Byte) /\ Len(s5) = HintLenAt
    <2>1. HintLenAt = NargLenAt + U64
      BY Offsets
    <2>2. s5 = s4 \o a
      BY <1>5
    <2>. QED
      BY <1>4, <1>9, <2>1, <2>2, ConcatProperties
  <1>11. s6 \in Seq(Byte) /\ Len(s6) = HEADER_LEN
    <2>1. HEADER_LEN = HintLenAt + U64
      BY Offsets
    <2>2. s6 = s5 \o b
      BY <1>5
    <2>. QED
      BY <1>4, <1>10, <2>1, <2>2, ConcatProperties
  <1>12. s7 \in Seq(Byte) /\ Len(s7) = HEADER_LEN + n
    BY <1>1, <1>5, <1>11, ConcatProperties
  <1>13. e \in Seq(Byte) /\ Len(e) = HEADER_LEN + n + h
    BY <1>1, <1>5, <1>12, ConcatProperties
  <1>14. Begins(s7, e) /\ Read(e, HEADER_LEN + n, h) = advice
    <2>1. Begins(s7 \o advice, e)
      BY <1>5, <1>13, ConcatEmptySeq, EmptySeq DEF Begins
    <2>. QED
      BY <1>1, <1>12, <2>1, ReadNext
  <1>15. Begins(s6, e) /\ Read(e, HEADER_LEN, n) = narg
    <2>1. Begins(s6 \o narg, e)
      BY <1>5, <1>14
    <2>. QED
      BY <1>1, <1>11, <2>1, ReadNext
  <1>16. Begins(s5, e) /\ CanRead(e, HintLenAt, U64) /\ Read(e, HintLenAt, U64) = b
    <2>1. Begins(s5 \o b, e)
      BY <1>5, <1>15
    <2>. QED
      BY <1>4, <1>10, <2>1, ReadNext
  <1>17. Begins(s4, e) /\ CanRead(e, NargLenAt, U64) /\ Read(e, NargLenAt, U64) = a
    <2>1. Begins(s4 \o a, e)
      BY <1>5, <1>16
    <2>. QED
      BY <1>4, <1>9, <2>1, ReadNext
  <1>18. Begins(s3, e) /\ CanRead(e, FlagsAt, Len(flags)) /\ Read(e, FlagsAt, Len(flags)) = flags
    BY <1>3, <1>5, <1>8, <1>17, ReadNext
  <1>19. Begins(s2, e) /\ CanRead(e, HeaderLenAt, Len(header_len)) /\ Read(e, HeaderLenAt, Len(header_len)) = header_len
    BY <1>3, <1>5, <1>7, <1>18, ReadNext
  <1>20. Begins(MAGIC, e) /\ CanRead(e, VersionAt, Len(version)) /\ Read(e, VersionAt, Len(version)) = version
    BY <1>3, <1>5, <1>19, ReadNext
  <1>21. CanRead(e, 0, Len(MAGIC)) /\ Read(e, 0, Len(MAGIC)) = MAGIC
    BY <1>3, <1>20, ReadFirst
  <1>22. ASSUME NEW i \in 1..4 PROVE FieldError(e, FixedFields[i]) = "none"
    <2>1. CASE i = 1
      BY <1>21, <2>1 DEF FixedFields, FieldError
    <2>2. CASE i = 2
      BY <1>1, <1>20, <2>2 DEF FixedFields, FieldError
    <2>3. CASE i = 3
      BY <1>1, <1>19, <2>3 DEF FixedFields, FieldError
    <2>4. CASE i = 4
      BY <1>1, <1>18, <2>4 DEF FixedFields, FieldError
    <2>. QED
      BY <2>1, <2>2, <2>3, <2>4
  <1>23. read_u64(e, NargLenAt) = n /\ read_u64(e, HintLenAt) = h
    BY <1>4, <1>16, <1>17 DEF read_u64
  <1>24. LengthError(e) = "none"
    <2>1. ~(n > MaxUsize) /\ ~(h > MaxUsize) /\ ~(HEADER_LEN + n + h > MaxUsize)
      BY <1>2
    <2>. QED
      BY <1>13, <1>16, <1>17, <1>23, <2>1 DEF LengthError
  <1>25. DecodingError(e) = "none"
    BY <1>13, <1>22, <1>24, HeaderAccepted, BackstopNeverFires
  <1>26. decode(e) = [narg |-> narg, hints |-> advice]
    BY <1>14, <1>15, <1>23, <1>25 DEF decode
  <1>. QED
    BY <1>6, <1>25, <1>26
-----------------------------------------------------------------------------
(***************************************************************************)
(* Lemmas about BitZScript, for any statements and any number of rounds: a *)
(* script is a path, one step after another, that takes a value to         *)
(* another; scripts that concatenation keeps are found piece by piece in   *)
(* the two programs.  The values are the cells on the wire, the hints, the *)
(* checks owed, the bits of work, and the two streams.                     *)
(***************************************************************************)
Checks == {"range", "reconstruct", "product", "evaluation", "target", "opening"}

\* Numbers are taken in as they are.
Input == Symbol \cup Nat

Steps ==
    [op : {"absorb"}, cells : Seq(Input)] \cup [op : {"record"}, count : Nat, owes : SUBSET Checks]
    \cup [op : {"draw"}, count : Nat, error : Nat] \cup [op : {"nonce"}, bits : Nat]
    \cup [op : {"check"}, check : Checks] \cup [op : {"hint", "refuse"}]

Scripts == Seq(Steps)
-----------------------------------------------------------------------------
\* One script after another, and none.
LEMMA ScriptsConcat ==
    /\ <<>> \in Scripts
    /\ \A a, b \in Scripts : a \o b \in Scripts
    /\ \A a, b, c \in Scripts : (a \o b) \o c = a \o (b \o c)
    /\ \A a \in Scripts : a \o <<>> = a /\ <<>> \o a = a
  BY EmptySeq, ConcatProperties, ConcatAssociative, ConcatEmptySeq DEF Scripts

\* Repetition of what a set of scripts that concatenation keeps has in it.
LEMMA TimesKeeps ==
    ASSUME NEW G \in SUBSET Scripts, <<>> \in G, \A a, b \in G : a \o b \in G,
           NEW n \in Int, NEW a \in G
    PROVE  Times(n, a) \in G
  <1> DEFINE seqs == [i \in 1..n |-> a]
  <1>1. seqs \in Seq(G)
    <2>1. CASE n \in Nat
      BY <2>1
    <2>2. CASE n \notin Nat
      <3>1. 1..n = 1..0
        BY <2>2
      <3>2. seqs = [i \in 1..0 |-> a]
        BY <3>1
      <3>. QED
        BY <3>2
    <2>. QED
      BY <2>1, <2>2
  <1>2. FlattenSeq(seqs) \in G
    <2> HIDE DEF seqs
    <2>. QED
      BY <1>1, FlattenKeeps DEF Scripts
  <1>. QED
    BY <1>2 DEF Times

\* A repetition of a script is one.
LEMMA ScriptsTimes == \A n \in Int, a \in Scripts : Times(n, a) \in Scripts
  BY ScriptsConcat, TimesKeeps

\* A repetition, from its end and from its beginning.
LEMMA TimesMore ==
    ASSUME NEW a \in Scripts
    PROVE  /\ Times(0, a) = <<>>
           /\ \A n \in Nat : Times(n + 1, a) = Times(n, a) \o a
           /\ \A n \in Nat : Times(n + 1, a) = a \o Times(n, a)
  <1> DEFINE seqs(n) == [i \in 1..n |-> a]
  <1>1. \A n \in Nat : seqs(n) \in Seq(Seq(Steps)) /\ Times(n, a) = FlattenSeq(seqs(n))
    BY DEF Times, Scripts
  <1>2. Times(0, a) = <<>>
    <2>1. seqs(0) = <<>>
      OBVIOUS
    <2>. QED
      BY <2>1, FlattenEmpty DEF Times
  <1>3. ASSUME NEW n \in Nat PROVE Times(n + 1, a) = Times(n, a) \o a
    <2>1. seqs(n + 1) = Append(seqs(n), a)
      OBVIOUS
    <2>2. FlattenSeq(Append(seqs(n), a)) = FlattenSeq(seqs(n)) \o a
      <3> HIDE DEF seqs
      <3>. QED
        BY <1>1, FlattenAppend DEF Scripts
    <2>3. n + 1 \in Nat
      OBVIOUS
    <2> HIDE DEF seqs
    <2>. QED
      BY <1>1, <2>1, <2>2, <2>3
  <1>4. ASSUME NEW n \in Nat PROVE Times(n + 1, a) = a \o Times(n, a)
    <2> DEFINE S == {k \in Nat : Times(k + 1, a) = a \o Times(k, a)}
    <2>1. \A k \in Nat : Times(k, a) \in Scripts
      BY ScriptsConcat, TimesKeeps
    <2>2. a \o <<>> = a /\ <<>> \o a = a
      BY ScriptsConcat
    <2>3. 0 \in S
      BY <1>2, <1>3, <2>2
    <2>4. ASSUME NEW k \in Nat, k \in S PROVE k + 1 \in S
      <3>1. Times((k + 1) + 1, a) = Times(k + 1, a) \o a /\ Times(k + 1, a) = Times(k, a) \o a
        <4>1. k + 1 \in Nat
          OBVIOUS
        <4>. QED
          BY <1>3, <4>1
      <3>2. Times(k + 1, a) = a \o Times(k, a)
        BY <2>4
      <3>3. (a \o Times(k, a)) \o a = a \o (Times(k, a) \o a)
        BY <2>1, ScriptsConcat
      <3>4. Times((k + 1) + 1, a) = a \o Times(k + 1, a)
        BY <3>1, <3>2, <3>3
      <3>. QED
        BY <3>4
    <2>5. Nat \subseteq S
      <3> HIDE DEF S
      <3>. QED
        BY <2>3, <2>4, SetInduction
    <2>. QED
      BY <2>5
  <1>. QED
    BY <1>2, <1>3, <1>4
-----------------------------------------------------------------------------
\* Scripts that concatenation stays among, and that have the steps neither side
\* has to itself.
Closed(G) ==
    /\ G \in SUBSET Scripts /\ <<>> \in G
    /\ \A a, b \in G : a \o b \in G

Nonce(bits) == <<[op |-> "nonce", bits |-> bits]>>

Common(G) ==
    /\ \A x \in Seq(Input) : Absorb(x) \in G
    /\ \A n, e \in Nat : Draw(n, e) \in G
    /\ \A n \in Nat : Record(n, {}) \in G
    /\ \A bits \in Nat : Nonce(bits) \in G

\* The proof of work for a challenge: no step is missing for it.
LEMMA LogarithmsExist ==
    /\ CeilLog2(1) = 0
    /\ \A c \in {2, 3, 7, 8} : CeilLog2(c) \in 0..c
  <1>1. 2^0 = 1 /\ 2^1 = 2 /\ 2^2 = 4 /\ 2^3 = 8
    OBVIOUS
  <1>2. CeilLog2(1) = 0
    <2> DEFINE fits(k) == 2^k >= 1 /\ \A j \in 0..k-1 : 2^j < 1
    <2>1. fits(0)
      <3>1. 0..0-1 = {}
        OBVIOUS
      <3>. QED
        BY <1>1, <3>1
    <2>2. ~ fits(1)
      <3>1. 0 \in 0..1-1 /\ ~ (2^0 < 1)
        BY <1>1
      <3>. QED
        BY <3>1
    <2>3. 0 \in 0..1 /\ \A k \in 0..1 : k = 0 \/ k = 1
      OBVIOUS
    <2>4. CeilLog2(1) = CHOOSE k \in 0..1 : fits(k)
      BY DEF CeilLog2
    <2> HIDE DEF fits
    <2>. QED
      BY <2>1, <2>2, <2>3, <2>4
  <1>3. ASSUME NEW c \in Nat, NEW n \in 0..c, 2^n >= c, \A j \in 0..n-1 : 2^j < c
        PROVE  CeilLog2(c) \in 0..c
    <2> DEFINE fits(k) == 2^k >= c /\ \A j \in 0..k-1 : 2^j < c
    <2>1. fits(n)
      BY <1>3
    <2>2. CeilLog2(c) = CHOOSE k \in 0..c : fits(k)
      BY DEF CeilLog2
    <2> HIDE DEF fits
    <2>. QED
      BY <2>1, <2>2
  <1>4. CeilLog2(2) \in 0..2
    <2>1. \A j \in 0..1-1 : 2^j < 2
      <3>1. \A j \in 0..1-1 : j = 0
        OBVIOUS
      <3>. QED
        BY <1>1, <3>1
    <2>2. 2^1 >= 2 /\ 1 \in 0..2
      BY <1>1
    <2>. QED
      BY <1>3, <2>1, <2>2
  <1>5. CeilLog2(3) \in 0..3
    <2>1. ASSUME NEW j \in 0..2-1 PROVE 2^j < 3
      <3>1. CASE j = 0
        BY <1>1, <3>1
      <3>2. CASE j = 1
        BY <1>1, <3>2
      <3>. QED
        BY <3>1, <3>2
    <2>2. 2^2 >= 3 /\ 2 \in 0..3
      BY <1>1
    <2>. QED
      BY <1>3, <2>1, <2>2
  <1>6. ASSUME NEW c \in {7, 8} PROVE CeilLog2(c) \in 0..c
    <2>1. ASSUME NEW j \in 0..3-1 PROVE 2^j < c
      <3>1. CASE j = 0
        BY <1>1, <3>1
      <3>2. CASE j = 1
        BY <1>1, <3>2
      <3>3. CASE j = 2
        BY <1>1, <3>3
      <3>. QED
        BY <3>1, <3>2, <3>3
    <2>2. 2^3 >= c /\ 3 \in 0..c /\ c \in Nat
      BY <1>1
    <2>. QED
      BY <1>3, <2>1, <2>2
  <1>. QED
    BY <1>2, <1>4, <1>5, <1>6

\* The bits asked for close what a draw with c bad values leaves open.
LEMMA GrindingBits ==
    ASSUME NEW level \in {100, 128}, NEW c \in Nat, CeilLog2(c) \in Nat
    PROVE  /\ grinding_bits(level, c) \in Nat
           /\ c > 0 => level + CeilLog2(c) <= 128 + grinding_bits(level, c)
  <1>1. CASE c = 0 \/ level + CeilLog2(c) <= 128
    BY <1>1 DEF grinding_bits
  <1>2. CASE ~ (c = 0 \/ level + CeilLog2(c) <= 128)
    <2>1. grinding_bits(level, c) = level + CeilLog2(c) - 128
      BY <1>2 DEF grinding_bits
    <2>. QED
      BY <1>2, <2>1
  <1>. QED
    BY <1>1, <1>2

\* A proof of work, in a set of scripts that has the common pieces.
LEMMA GrindIn ==
    ASSUME NEW G, Closed(G), Common(G), NEW label \in Symbol, NEW bits \in Nat
    PROVE  Grind(label, bits) \in G
  <1>1. Tag.pow \in Symbol
    BY ScriptAssumption DEF TagNames
  <1>2. <<Tag.pow, label, bits>> \in Seq(Input)
    BY <1>1 DEF Input
  <1>3. Absorb(<<Tag.pow, label, bits>>) \in G /\ Draw(1, 0) \in G /\ Nonce(bits) \in G
    BY <1>2 DEF Common
  <1>4. Absorb(<<Tag.pow, label, bits>>) \o Draw(1, 0) \o Nonce(bits) \in G
    BY <1>3 DEF Closed
  <1>. QED
    BY <1>4 DEF Grind, Nonce, Closed

\* The numbers of a statement, by name.
LEMMA Statement ==
    ASSUME NEW st \in Statements
    PROVE  /\ IsStatement(st) /\ st.level \in {100, 128} /\ st.bits \in Nat /\ st.bits \in Nat \ {0}
           /\ st.virtual \in BOOLEAN
           /\ st.bits - PackBits \in Nat
           /\ \A i \in 1..2 : /\ st.shape[i] \in Nat /\ st.committed[i] \in Nat
                              /\ 2^st.shape[i] \in Nat
           /\ 2^LogBits(st.committed) \in Nat /\ 2^0 \in Nat /\ 2^st.shape[2] # 0
           /\ LogBits(st.shape) \in Nat /\ LogBits(st.committed) \in Nat
           /\ CeilLog2(st.shape[2]) \in Nat
           /\ Opened(st) \in Shape /\ 2^Opened(st)[1] \in Nat /\ 2^Opened(st)[2] \in Nat
           /\ {st.root, st.map, st.modulus, st.row, st.column, st.target} \subseteq Symbol
  <1>1. IsStatement(st)
    BY ProtocolAssumption
  <1>2. PublicNumbers(st) \subseteq Nat
    BY <1>1 DEF IsStatement
  <1>3. \A i \in 1..2 : st.shape[i] \in Nat /\ st.committed[i] \in Nat /\ 2^st.shape[i] \in Nat
    BY <1>2 DEF PublicNumbers
  <1>4. 2^LogBits(st.committed) \in Nat /\ 2^0 \in Nat
    BY <1>2 DEF PublicNumbers
  <1>5. LogBits(st.shape) \in Nat /\ LogBits(st.committed) \in Nat
    BY <1>3 DEF LogBits
  <1>6. st.bits \in Nat \ {0} /\ st.bits - PackBits \in Nat
    BY <1>1, ScriptAssumption DEF IsStatement
  <1>7. Opened(st) \in Shape /\ 2^Opened(st)[1] \in Nat /\ 2^Opened(st)[2] \in Nat
    <2>1. CASE st.virtual
      <3>1. Opened(st) = <<LogBits(st.committed), 0>>
        BY <2>1 DEF Opened
      <3>. QED
        BY <1>4, <1>5, <3>1 DEF Shape
    <2>2. CASE ~ st.virtual
      <3>1. Opened(st) = st.shape
        BY <2>2 DEF Opened
      <3>. QED
        BY <1>1, <1>3, <3>1 DEF IsStatement
    <2>. QED
      BY <2>1, <2>2
  <1>. QED
    BY <1>1, <1>3, <1>4, <1>5, <1>6, <1>7 DEF IsStatement
-----------------------------------------------------------------------------
\* What is absorbed of a statement is symbols and numbers.
LEMMA InputsConcat ==
    /\ \A x, y \in Seq(Input) : x \o y \in Seq(Input)
    /\ \A n \in Nat, c \in Input : [i \in 1..n |-> c] \in Seq(Input)
    /\ \A a \in Input : <<a>> \in Seq(Input)
    /\ \A a, b \in Input : <<a, b>> \in Seq(Input)
    /\ \A a, b, c \in Input : <<a, b, c>> \in Seq(Input)
    /\ \A a, b, c, d \in Input : <<a, b, c, d>> \in Seq(Input)
  <1>1. \A x, y \in Seq(Input) : x \o y \in Seq(Input)
    BY ConcatProperties
  <1>2. \A n \in Nat, c \in Input : [i \in 1..n |-> c] \in Seq(Input)
    OBVIOUS
  <1>. QED
    BY <1>1, <1>2

\* Every tag can be absorbed.
LEMMA Tags == \A name \in TagNames : Tag[name] \in Input
  BY ScriptAssumption DEF Input

\* So can what is written of a statement.
LEMMA Codes ==
    ASSUME NEW st \in Statements
    PROVE  /\ {st.root, st.map, Derived, st.level, st.bits} \subseteq Input
           /\ PcsCode(st) \in Seq(Input) /\ ParamsCode(st) \in Seq(Input)
           /\ VirtualParamsCode(st) \in Seq(Input) /\ ClaimCode(st) \in Seq(Input)
  <1>1. {st.root, st.map, st.modulus, st.row, st.column, st.target, Version, Generator, Derived} \subseteq Input
    BY Statement, ScriptAssumption DEF Input
  <1>2. {st.level, st.bits} \subseteq Input
    BY Statement DEF Input
  <1>3. /\ st.shape = <<st.shape[1], st.shape[2]>> /\ st.committed = <<st.committed[1], st.committed[2]>>
        /\ \A i \in 1..2 : st.shape[i] \in Input /\ st.committed[i] \in Input
    <2>1. st.shape \in Shape /\ st.committed \in Shape
      BY Statement DEF IsStatement
    <2>. QED
      BY <2>1 DEF Shape, Input
  <1>4. st.shape \in Seq(Input) /\ st.committed \in Seq(Input)
    <2>1. ASSUME NEW a \in Input, NEW b \in Input PROVE <<a, b>> \in Seq(Input)
      BY <2>1, InputsConcat
    <2>2. st.shape[1] \in Input /\ st.shape[2] \in Input
      BY <1>3
    <2>3. st.committed[1] \in Input /\ st.committed[2] \in Input
      BY <1>3
    <2>4. <<st.shape[1], st.shape[2]>> \in Seq(Input)
      BY <2>1, <2>2
    <2>5. <<st.committed[1], st.committed[2]>> \in Seq(Input)
      BY <2>1, <2>3
    <2>6. st.shape \in Seq(Input)
      BY <1>3, <2>4
    <2>7. st.committed \in Seq(Input)
      BY <1>3, <2>5
    <2>. QED
      BY <2>6, <2>7
  <1>5. PcsCode(st) \in Seq(Input)
    BY <1>1, <1>2, InputsConcat DEF PcsCode
  <1>6. ParamsCode(st) \in Seq(Input)
    <2>1. <<st.modulus, Generator>> \in Seq(Input)
      BY <1>1, InputsConcat
    <2>. QED
      BY <1>4, <2>1, InputsConcat DEF ParamsCode
  <1>7. VirtualParamsCode(st) \in Seq(Input)
    BY <1>4, <1>6, InputsConcat DEF VirtualParamsCode
  <1>8. ASSUME NEW i \in 1..2, NEW weight \in Input
        PROVE  WeightsCode(st.shape[i], weight) \in Seq(Input)
    <2> DEFINE n == 2^st.shape[i]
    <2>1. n \in Nat /\ n \in Input
      BY Statement DEF Input
    <2>2. WeightsCode(st.shape[i], weight) = <<n>> \o [j \in 1..n |-> weight]
      BY DEF WeightsCode
    <2> HIDE DEF n
    <2>3. <<n>> \in Seq(Input) /\ [j \in 1..n |-> weight] \in Seq(Input)
      BY <2>1, InputsConcat
    <2>4. \A x, y \in Seq(Input) : x \o y \in Seq(Input)
      BY InputsConcat
    <2>. QED
      BY <2>2, <2>3, <2>4, Zenon
  <1>9. ClaimCode(st) \in Seq(Input)
    <2>1. /\ WeightsCode(st.shape[1], st.row) \in Seq(Input)
          /\ WeightsCode(st.shape[2], st.column) \in Seq(Input)
      <3>1. st.row \in Input /\ st.column \in Input
        BY <1>1
      <3>2. 1 \in 1..2 /\ 2 \in 1..2
        OBVIOUS
      <3>. QED
        BY <1>8, <3>1, <3>2, Zenon
    <2>2. <<st.target>> \in Seq(Input)
      BY <1>1, InputsConcat
    <2>3. WeightsCode(st.shape[1], st.row) \o WeightsCode(st.shape[2], st.column) \in Seq(Input)
      BY <2>1, InputsConcat
    <2>. QED
      BY <2>2, <2>3, InputsConcat DEF ClaimCode
  <1>. QED
    BY <1>1, <1>2, <1>5, <1>6, <1>7, <1>9

\* What the sides absorb alone, in one call or several.
LEMMA AbsorbedIn ==
    ASSUME NEW G, Closed(G), \A x \in Seq(Input) : Absorb(x) \in G, NEW st \in Statements
    PROVE  /\ bind_commitment(st) \in G
           /\ prover_bind(st) \in G /\ verifier_bind(st) \in G
           /\ bind_inner_product_statement(st) \in G /\ bind_mle_statement(st) \in G
           /\ \A name \in TagNames : Absorb(<<Tag[name]>>) \in G
           /\ Absorb(<<Tag.basis, Derived>>) \in G
           /\ \A label \in Symbol, bits \in Nat : Absorb(<<Tag.pow, label, bits>>) \in G
  <1>1. /\ \A a, b \in G : a \o b \in G
        /\ \A x \in Seq(Input) : Absorb(x) \in G
    BY DEF Closed
  <1>2. \A name \in TagNames : Tag[name] \in Input /\ Tag[name] \in Symbol
    BY Tags, ScriptAssumption
  <1>3. \A name \in TagNames : <<Tag[name]>> \in Seq(Input) /\ Absorb(<<Tag[name]>>) \in G
    BY <1>1, <1>2, InputsConcat
  <1>4. bind_commitment(st) \in G
    <2>1. <<Tag.commit, st.root>> \in Seq(Input)
      BY <1>2, Codes, InputsConcat DEF TagNames
    <2>2. <<Tag.commit, st.root>> \o PcsCode(st) \in Seq(Input)
      BY <2>1, Codes, InputsConcat
    <2>. QED
      BY <1>1, <2>2 DEF bind_commitment
  <1>5. prover_bind(st) \in G
    <2>1. CASE st.virtual
      <3>1. <<Tag.virtual, st.root>> \in Seq(Input) /\ <<st.map>> \in Seq(Input)
        BY <1>2, Codes, InputsConcat DEF TagNames
      <3>2. <<Tag.virtual, st.root>> \o VirtualParamsCode(st) \o <<st.map>>
                \o ClaimCode(st) \o PcsCode(st) \in Seq(Input)
        BY <3>1, Codes, InputsConcat
      <3>. QED
        BY <1>1, <2>1, <3>2 DEF prover_bind
    <2>2. CASE ~ st.virtual
      <3>1. <<st.root>> \in Seq(Input)
        BY Codes, InputsConcat
      <3>2. <<st.root>> \o ParamsCode(st) \o PcsCode(st) \o ClaimCode(st) \in Seq(Input)
        BY <3>1, Codes, InputsConcat
      <3>. QED
        BY <1>1, <2>2, <3>2 DEF prover_bind
    <2>. QED
      BY <2>1, <2>2
  <1>6. verifier_bind(st) \in G
    <2>1. <<Tag.virtual, st.root>> \in Seq(Input) /\ <<st.map>> \in Seq(Input) /\ <<st.root>> \in Seq(Input)
      BY <1>2, Codes, InputsConcat DEF TagNames
    <2>2. /\ Absorb(<<Tag.virtual, st.root>>) \in G /\ Absorb(VirtualParamsCode(st)) \in G
          /\ Absorb(<<st.map>>) \in G /\ Absorb(ClaimCode(st)) \in G /\ Absorb(PcsCode(st)) \in G
          /\ Absorb(<<st.root>>) \in G /\ Absorb(ParamsCode(st)) \in G
      BY <1>1, <2>1, Codes
    <2>. QED
      BY <1>1, <2>2 DEF verifier_bind
  <1>7. bind_inner_product_statement(st) \in G
    <2>1. <<Tag.inner_product, st.root>> \in Seq(Input)
      BY <1>2, Codes, InputsConcat DEF TagNames
    <2>2. <<2^Opened(st)[1], 2^Opened(st)[2], Derived, Derived>> \in Seq(Input)
      <3>1. 2^Opened(st)[1] \in Input /\ 2^Opened(st)[2] \in Input
        BY Statement DEF Input
      <3>. QED
        BY <3>1, Codes, InputsConcat
    <2>3. <<Tag.inner_product, st.root>> \o PcsCode(st) \in Seq(Input)
      BY <2>1, Codes, InputsConcat
    <2>. QED
      BY <1>1, <2>2, <2>3, InputsConcat DEF bind_inner_product_statement
  <1>8. bind_mle_statement(st) \in G
    <2>1. <<Tag.mle, st.root>> \in Seq(Input)
      BY <1>2, Codes, InputsConcat DEF TagNames
    <2>2. <<st.bits>> \in Seq(Input) /\ <<Derived>> \in Seq(Input)
      BY Codes, InputsConcat
    <2>3. [i \in 1..st.bits |-> Derived] \in Seq(Input)
      <3>1. st.bits \in Nat /\ Derived \in Input
        BY Codes, Statement
      <3>. QED
        BY <3>1, InputsConcat
    <2>4. <<Tag.mle, st.root>> \o PcsCode(st) \o <<st.bits>> \in Seq(Input)
      BY <2>1, <2>2, Codes, InputsConcat
    <2>. QED
      BY <1>1, <2>2, <2>3, <2>4, InputsConcat DEF bind_mle_statement
  <1>9. Absorb(<<Tag.basis, Derived>>) \in G
    <2>1. <<Tag.basis, Derived>> \in Seq(Input)
      BY <1>2, Codes, InputsConcat DEF TagNames
    <2>. QED
      BY <1>1, <2>1
  <1>10. ASSUME NEW label \in Symbol, NEW bits \in Nat PROVE Absorb(<<Tag.pow, label, bits>>) \in G
    <2>1. <<Tag.pow, label, bits>> \in Seq(Input)
      BY <1>2 DEF TagNames, Input
    <2>. QED
      BY <1>1, <2>1
  <1>. QED
    BY <1>3, <1>4, <1>5, <1>6, <1>7, <1>8, <1>9, <1>10

\* What prover and verifier share, or differ in by absorbs alone.
LEMMA SharedIn ==
    ASSUME NEW G, Closed(G), Common(G), NEW st \in Statements
    PROVE  /\ bind_commitment(st) \in G /\ sample_point(st) \in G
           /\ prover_bind(st) \in G /\ verifier_bind(st) \in G
           /\ Grind(Tag.columns, grinding_bits(st.level, st.shape[2])) \in G
           /\ CubicRound(st) \in G /\ QuadraticRound(st) \in G
           /\ bind_inner_product_statement(st) \in G /\ bind_mle_statement(st) \in G
           /\ Absorb(<<Tag.sumcheck>>) \in G /\ Absorb(<<Tag.claims>>) \in G
           /\ Grind(Tag.ring, grinding_bits(st.level, RingError(st))) \in G
           /\ sample_challenges \in G /\ batching_challenge(st) \in G /\ Backend \in G
  <1>1. /\ \A a, b \in G : a \o b \in G
        /\ \A x \in Seq(Input) : Absorb(x) \in G
        /\ \A n, e \in Nat : Draw(n, e) \in G
        /\ \A n \in Nat : Record(n, {}) \in G
        /\ <<>> \in G
    BY DEF Closed, Common
  <1>2. \A name \in TagNames : Tag[name] \in Symbol
    BY Tags, ScriptAssumption
  <1>3. \A name \in TagNames : Absorb(<<Tag[name]>>) \in G
    BY <1>1, AbsorbedIn
  <1>4. /\ bind_commitment(st) \in G /\ prover_bind(st) \in G /\ verifier_bind(st) \in G
        /\ bind_inner_product_statement(st) \in G /\ bind_mle_statement(st) \in G
    BY <1>1, AbsorbedIn
  <1>5. sample_point(st) \in G
    BY <1>1, <1>3, Statement DEF sample_point, TagNames
  <1>6. \A c \in {2, 3, 7, 8} : grinding_bits(st.level, c) \in Nat
    <2>1. \A c \in {2, 3, 7, 8} : c \in Nat /\ CeilLog2(c) \in Nat
      BY LogarithmsExist
    <2>. QED
      BY <2>1, Statement, GrindingBits
  <1>7. Grind(Tag.columns, grinding_bits(st.level, st.shape[2])) \in G
    <2>1. grinding_bits(st.level, st.shape[2]) \in Nat
      BY Statement, GrindingBits
    <2>. QED
      BY <1>2, <2>1, GrindIn DEF TagNames
  <1>8. CubicRound(st) \in G
    <2>1. Grind(Tag.cubic, grinding_bits(st.level, 3)) \in G
      BY <1>2, <1>6, GrindIn DEF TagNames
    <2>. QED
      BY <1>1, <2>1 DEF CubicRound
  <1>9. QuadraticRound(st) \in G
    <2>1. Grind(Tag.round, grinding_bits(st.level, 2)) \in G
      BY <1>2, <1>6, GrindIn DEF TagNames
    <2>. QED
      BY <1>1, <2>1 DEF QuadraticRound
  <1>10. Grind(Tag.ring, grinding_bits(st.level, RingError(st))) \in G
    BY <1>2, <1>6, GrindIn DEF TagNames, RingError
  <1>11. sample_challenges \in G /\ batching_challenge(st) \in G
    BY <1>1, <1>3 DEF sample_challenges, batching_challenge, TagNames
  <1>12. Backend \in G
    <2>1. Absorb(<<Tag.basis, Derived>>) \in G
      BY <1>1, AbsorbedIn
    <2>. QED
      BY <1>1, <2>1 DEF Backend
  <1>13. Absorb(<<Tag.sumcheck>>) \in G /\ Absorb(<<Tag.claims>>) \in G
    BY <1>3 DEF TagNames
  <1>. QED
    BY <1>4, <1>5, <1>7, <1>8, <1>9, <1>10, <1>11, <1>12, <1>13
-----------------------------------------------------------------------------
\* A script followed by another goes through a value in between.
LEMMA TakesOn ==
    ASSUME NEW A, NEW T, NEW u \in Scripts, NEW v \in Scripts, NEW a \in A, NEW c \in A
    PROVE  Takes(A, T, a, u \o v, c) <=> \E b \in A : Takes(A, T, a, u, b) /\ Takes(A, T, b, v, c)
  BY TakesJoined DEF Scripts

\* The first step of a script, and the rest.
LEMMA TakesFirst ==
    ASSUME NEW A, NEW T, NEW s \in Scripts, s # <<>>, NEW a \in A, NEW c \in A
    PROVE  /\ Head(s) \in Steps /\ Tail(s) \in Scripts
           /\ Takes(A, T, a, s, c)
              <=> \E b \in A : <<a, Head(s), b>> \in T /\ Takes(A, T, b, Tail(s), c)
  BY TakesHead DEF Scripts
-----------------------------------------------------------------------------
\* What the verifier's script has that the prover's has not: records with the
\* checks they owe, and those checks.
Checked(G) ==
    /\ \A n \in Nat : Times(n, Record(1, {"range", "reconstruct"}))
                        \o Check("range") \o Check("reconstruct") \in G
    /\ Record(2, {"product"}) \o Check("product") \in G
    /\ Record(1, {"evaluation"}) \o Check("evaluation") \in G
    /\ Record(ClaimCount, {"target"}) \o Check("target") \in G
    /\ Check("opening") \in G

\* The pieces the two programs are put together from are scripts.
LEMMA StepsOfScripts ==
    /\ \A n \in Nat, o \in SUBSET Checks : Record(n, o) \in Scripts
    /\ \A c \in Checks : Check(c) \in Scripts
    /\ Hint \in Scripts /\ Refuse \in Scripts
    /\ \A x \in Seq(Input) : Absorb(x) \in Scripts
    /\ \A n, e \in Nat : Draw(n, e) \in Scripts
    /\ \A bits \in Nat : Nonce(bits) \in Scripts
  <1>1. \A n \in Nat, o \in SUBSET Checks : [op |-> "record", count |-> n, owes |-> o] \in Steps
    BY DEF Steps
  <1>2. \A c \in Checks : [op |-> "check", check |-> c] \in Steps
    BY DEF Steps
  <1>3. [op |-> "hint"] \in Steps /\ [op |-> "refuse"] \in Steps
    BY DEF Steps
  <1>4. \A x \in Seq(Input) : [op |-> "absorb", cells |-> x] \in Steps
    BY DEF Steps
  <1>5. \A n, e \in Nat : [op |-> "draw", count |-> n, error |-> e] \in Steps
    BY DEF Steps
  <1>6. \A bits \in Nat : [op |-> "nonce", bits |-> bits] \in Steps
    BY DEF Steps
  <1>. QED
    BY <1>1, <1>2, <1>3, <1>4, <1>5, <1>6 DEF Scripts, Record, Check, Hint, Refuse, Absorb, Draw, Nonce

\* The grand products: a layer for each row variable.
LEMMA LayersIn ==
    ASSUME NEW G, Closed(G), NEW n \in Nat, NEW layers \in [1..n -> G]
    PROVE  FlattenSeq(layers) \in G
  <1>1. layers \in Seq(G)
    OBVIOUS
  <1>. QED
    BY <1>1, FlattenKeeps DEF Closed, Scripts

\* The prover's script ends in its hint, after pieces a closed set has; it
\* begins with what binds the statement.
LEMMA ProverIn ==
    ASSUME NEW G, Closed(G), Common(G), NEW st \in Statements, Refuse \in G
    PROVE  /\ \E before \in G : ProverScript(st) = before \o Hint
           /\ \E rest \in Scripts : ProverScript(st) = ProverBound(st) \o rest
  <1>1. \A a, b \in G : a \o b \in G
    BY DEF Closed
  <1>2. <<>> \in G /\ \A n \in Nat : Record(n, {}) \in G
    BY DEF Closed, Common
  <1>3. \A n, e \in Nat : Draw(n, e) \in G
    BY DEF Common
  <1>4. \A n \in Int, a \in G : Times(n, a) \in G
    BY TimesKeeps DEF Closed
  <1>5. commit(st) \in G
    <2>1. bind_commitment(st) \in G /\ sample_point(st) \o Record(1, {}) \in G
      BY <1>1, <1>2, SharedIn
    <2>2. (IF st.level = 100 THEN sample_point(st) \o Record(1, {}) ELSE <<>>) \in G
      BY <1>2, <2>1
    <2>. QED
      BY <1>1, <2>1, <2>2 DEF commit
  <1>6. ProverBound(st) \in G
    <2>1. (IF Mismatched(st) THEN Refuse ELSE prover_bind(st)) \in G
      BY SharedIn
    <2>. QED
      BY <1>1, <1>5, <2>1 DEF ProverBound
  <1>7. send_fold(st) \in G
    <2>1. Times(2^st.shape[2], Record(1, {})) \in G
      <3>1. 2^st.shape[2] \in Int
        BY Statement
      <3>. QED
        BY <1>2, <1>4, <3>1
    <2>2. Draw(st.shape[2], st.shape[2]) \in G
      BY <1>3, Statement
    <2>. QED
      BY <1>1, <2>1, <2>2, SharedIn DEF send_fold
  <1>8. gpgkr_prove(st) \in G
    <2>1. ASSUME NEW n \in Nat PROVE prove_layer(st, n) \in G
      <3>1. Times(n - 1, CubicRound(st)) \in G
        BY <1>4, SharedIn
      <3>2. (IF n > 0 THEN CubicRound(st) ELSE <<>>) \in G
        BY <1>2, SharedIn
      <3>3. Record(2, {}) \in G /\ Draw(1, 1) \in G
        BY <1>2, <1>3
      <3>. QED
        BY <1>1, <3>1, <3>2, <3>3 DEF prove_layer
    <2> DEFINE layers == [i \in 1..st.shape[1] |-> prove_layer(st, st.shape[2] + i - 1)]
    <2>2. st.shape[1] \in Nat /\ \A i \in 1..st.shape[1] : st.shape[2] + i - 1 \in Nat
      BY Statement
    <2>3. layers \in [1..st.shape[1] -> G]
      BY <2>1, <2>2
    <2>4. gpgkr_prove(st) = FlattenSeq(layers)
      BY DEF gpgkr_prove
    <2> HIDE DEF layers
    <2>. QED
      BY <2>2, <2>3, <2>4, LayersIn
  <1> DEFINE opening == Absorb(<<Tag.claims>>) \o Record(ClaimCount, {})
                \o Grind(Tag.ring, grinding_bits(st.level, RingError(st)))
                \o sample_challenges \o batching_challenge(st) \o Backend \o Draw(2, 0)
             claim == bind_inner_product_statement(st) \o Absorb(<<Tag.sumcheck>>) \o prove_factors(st)
                \o bind_mle_statement(st)
             upto == ProverBound(st) \o send_fold(st) \o gpgkr_prove(st)
  <1>9. opening \in G
    <2>1. Record(ClaimCount, {}) \in G /\ Draw(2, 0) \in G
      BY <1>2, <1>3, ScriptAssumption
    <2>. QED
      BY <1>1, <2>1, SharedIn
  <1>10. claim \in G
    <2>1. Record(1, {}) \in G /\ Times(st.bits - 1, QuadraticRound(st)) \in G
      <3>1. st.bits - 1 \in Int
        BY Statement
      <3>. QED
        BY <1>2, <1>4, <3>1, SharedIn
    <2>2. prove_factors(st) \in G
      BY <1>1, <2>1, SharedIn DEF prove_factors
    <2>. QED
      BY <1>1, <2>2, SharedIn
  <1>11. upto \in G
    BY <1>1, <1>6, <1>7, <1>8
  <1>12. ProverScript(st) = upto \o (claim \o (opening \o Hint))
    BY DEF ProverScript, prove_lin, prove_mle
  <1> HIDE DEF opening, claim, upto
  <1>13. opening \in Scripts /\ claim \in Scripts /\ upto \in Scripts /\ Hint \in Scripts
    BY <1>9, <1>10, <1>11, StepsOfScripts DEF Closed
  <1>14. claim \o (opening \o Hint) = (claim \o opening) \o Hint
    BY <1>13, ScriptsConcat
  <1>15. claim \o opening \in Scripts
    BY <1>13, ScriptsConcat
  <1>16. upto \o ((claim \o opening) \o Hint) = (upto \o (claim \o opening)) \o Hint
    BY <1>13, <1>15, ScriptsConcat
  <1>17. upto \o (claim \o opening) \in G
    BY <1>1, <1>9, <1>10, <1>11
  <1>18. \E rest \in Scripts : ProverScript(st) = ProverBound(st) \o rest
    <2>1. ProverBound(st) \in Scripts /\ send_fold(st) \in Scripts /\ gpgkr_prove(st) \in Scripts
      BY <1>6, <1>7, <1>8 DEF Closed
    <2>2. upto = ProverBound(st) \o (send_fold(st) \o gpgkr_prove(st))
      BY <2>1, ScriptsConcat DEF upto
    <2> DEFINE one == send_fold(st) \o gpgkr_prove(st)
               two == claim \o (opening \o Hint)
    <2>3. one \in Scripts /\ two \in Scripts
      BY <2>1, <1>13, ScriptsConcat
    <2>4. (ProverBound(st) \o one) \o two = ProverBound(st) \o (one \o two) /\ one \o two \in Scripts
      <3> HIDE DEF one, two
      <3>. QED
        BY <2>1, <2>3, ScriptsConcat
    <2>. QED
      BY <1>12, <2>2, <2>4
  <1>. QED
    BY <1>12, <1>14, <1>16, <1>17, <1>18

\* The verifier's script takes its hint in the middle, and begins in the same
\* way.
LEMMA VerifierIn ==
    ASSUME NEW G, Closed(G), Common(G), Checked(G), NEW st \in Statements, Refuse \in G
    PROVE  /\ \E before, after \in G : VerifierScript(st) = before \o (Hint \o after)
           /\ \E rest \in Scripts : VerifierScript(st) = VerifierBound(st) \o rest
  <1>1. (\A a, b \in G : a \o b \in G) /\ G \subseteq Scripts
    BY DEF Closed
  <1>2. <<>> \in G /\ \A n \in Nat : Record(n, {}) \in G
    BY DEF Closed, Common
  <1>3. \A n, e \in Nat : Draw(n, e) \in G
    BY DEF Common
  <1>4. \A n \in Int, a \in G : Times(n, a) \in G
    BY TimesKeeps DEF Closed
  <1>5. receive_commitment(st) \in G
    <2>1. bind_commitment(st) \in G /\ sample_point(st) \o Record(1, {}) \in G
      BY <1>1, <1>2, SharedIn
    <2>2. (IF st.level # 100 THEN <<>> ELSE sample_point(st) \o Record(1, {})) \in G
      BY <1>2, <2>1
    <2>. QED
      BY <1>1, <2>1, <2>2 DEF receive_commitment
  <1>6. VerifierBound(st) \in G
    <2>1. (IF Mismatched(st) THEN Refuse ELSE verifier_bind(st)) \in G
      BY SharedIn
    <2>. QED
      BY <1>1, <1>5, <2>1 DEF VerifierBound
  <1>7. receive_fold(st) \in G
    <2>1. Times(2^st.shape[2], Record(1, {"range", "reconstruct"})) \o Check("range") \o Check("reconstruct") \in G
      BY Statement DEF Checked
    <2>2. Draw(st.shape[2], st.shape[2]) \in G
      BY <1>3, Statement
    <2>. QED
      BY <1>1, <2>1, <2>2, SharedIn DEF receive_fold
  <1>8. gpgkr_verify(st) \in G
    <2>1. ASSUME NEW n \in Nat PROVE verify_layer(st, n) \in G
      <3> DEFINE rounds == Times(n, CubicRound(st))
                 r == Record(2, {"product"})
                 c == Check("product")
      <3>1. rounds \in G /\ r \o c \in G /\ Draw(1, 1) \in G
        BY <1>3, <1>4, SharedIn DEF Checked
      <3>2. rounds \in Scripts /\ r \in Scripts /\ c \in Scripts
        <4>1. {"product"} \in SUBSET Checks /\ "product" \in Checks
          BY DEF Checks
        <4>. QED
          BY <1>1, <3>1, <4>1, StepsOfScripts
      <3>3. verify_layer(st, n) = rounds \o r \o c \o Draw(1, 1)
        BY DEF verify_layer
      <3> HIDE DEF rounds, r, c
      <3>4. rounds \o r \o c = rounds \o (r \o c)
        BY <3>2, ScriptsConcat
      <3>. QED
        BY <1>1, <3>1, <3>3, <3>4
    <2> DEFINE layers == [i \in 1..st.shape[1] |-> verify_layer(st, st.shape[2] + i - 1)]
    <2>2. st.shape[1] \in Nat /\ \A i \in 1..st.shape[1] : st.shape[2] + i - 1 \in Nat
      BY Statement
    <2>3. layers \in [1..st.shape[1] -> G]
      BY <2>1, <2>2
    <2>4. gpgkr_verify(st) = FlattenSeq(layers)
      BY DEF gpgkr_verify
    <2> HIDE DEF layers
    <2>. QED
      BY <2>2, <2>3, <2>4, LayersIn
  <1> DEFINE a == Absorb(<<Tag.claims>>)
             r == Record(ClaimCount, {"target"})
             c == Check("target")
             g == Grind(Tag.ring, grinding_bits(st.level, RingError(st)))
             s == sample_challenges
             b == batching_challenge(st)
             k == Backend
             d == Draw(2, 0)
             o == Check("opening")
             after == a \o r \o c \o g \o s \o b \o k \o d \o o
             claim == bind_inner_product_statement(st) \o Absorb(<<Tag.sumcheck>>) \o verify_factors(st)
                \o bind_mle_statement(st)
             upto == VerifierBound(st) \o receive_fold(st) \o gpgkr_verify(st)
  <1>9. /\ a \in G /\ r \o c \in G /\ g \in G /\ s \in G /\ b \in G /\ k \in G /\ d \in G /\ o \in G
        /\ r \in Scripts /\ c \in Scripts /\ Hint \in Scripts
    <2>1. r \o c \in G /\ d \in G /\ o \in G
      BY <1>3 DEF Checked
    <2>2. {"target"} \in SUBSET Checks /\ "target" \in Checks
      BY DEF Checks
    <2>3. r \in Scripts /\ c \in Scripts /\ Hint \in Scripts
      BY <2>2, StepsOfScripts, ScriptAssumption
    <2>. QED
      BY <2>1, <2>3, SharedIn
  <1>10. claim \in G
    <2> DEFINE rounds == Times(LogBits(Opened(st)), QuadraticRound(st))
               e == Record(1, {"evaluation"})
               f == Check("evaluation")
    <2>1. rounds \in G /\ e \o f \in G
      <3>1. LogBits(Opened(st)) \in Int
        BY Statement DEF Shape, LogBits
      <3>. QED
        BY <1>4, <3>1, SharedIn DEF Checked
    <2>2. rounds \in Scripts /\ e \in Scripts /\ f \in Scripts
      <3>1. {"evaluation"} \in SUBSET Checks /\ "evaluation" \in Checks
        BY DEF Checks
      <3>. QED
        BY <1>1, <2>1, <3>1, StepsOfScripts
    <2>3. verify_factors(st) = rounds \o e \o f
      BY DEF verify_factors
    <2> HIDE DEF rounds, e, f
    <2>4. rounds \o e \o f = rounds \o (e \o f)
      BY <2>2, ScriptsConcat
    <2>5. verify_factors(st) \in G
      BY <1>1, <2>1, <2>3, <2>4
    <2>. QED
      BY <1>1, <2>5, SharedIn
  <1>11. upto \in G
    BY <1>1, <1>6, <1>7, <1>8
  <1>12. VerifierScript(st) = upto \o (claim \o (Hint \o a \o r \o c \o g \o s \o b \o k \o d \o o))
    BY DEF VerifierScript, verify_lin, verify_mle
  <1> HIDE DEF a, r, c, g, s, b, k, d, o, claim, upto
  <1>13. after \in G
    <2>1. a \o r \o c = a \o (r \o c)
      <3>1. a \in Scripts
        BY <1>1, <1>9
      <3>. QED
        BY <1>9, <3>1, ScriptsConcat
    <2>. QED
      BY <1>1, <1>9, <2>1
  <1>14. Hint \o a \o r \o c \o g \o s \o b \o k \o d \o o = Hint \o after
    <2>1. \A x, y \in Scripts : x \o y \in Scripts
      BY ScriptsConcat
    <2>2. \A x, y \in Scripts : (Hint \o x) \o y = Hint \o (x \o y)
      BY <1>9, ScriptsConcat
    <2>3. a \in Scripts /\ g \in Scripts /\ s \in Scripts /\ b \in Scripts /\ k \in Scripts /\ d \in Scripts /\ o \in Scripts
      BY <1>1, <1>9
    <2> DEFINE p1 == a \o r
               p2 == p1 \o c
               p3 == p2 \o g
               p4 == p3 \o s
               p5 == p4 \o b
               p6 == p5 \o k
               p7 == p6 \o d
               p8 == p7 \o o
    <2> HIDE DEF p1, p2, p3, p4, p5, p6, p7, p8
    <2>4. Hint \o a \o r = Hint \o p1 /\ p1 \in Scripts
      BY <1>9, <2>1, <2>2, <2>3 DEF p1
    <2>5. Hint \o p1 \o c = Hint \o p2 /\ p2 \in Scripts
      BY <1>9, <2>1, <2>2, <2>3, <2>4 DEF p2
    <2>6. Hint \o p2 \o g = Hint \o p3 /\ p3 \in Scripts
      BY <1>9, <2>1, <2>2, <2>3, <2>5 DEF p3
    <2>7. Hint \o p3 \o s = Hint \o p4 /\ p4 \in Scripts
      BY <1>9, <2>1, <2>2, <2>3, <2>6 DEF p4
    <2>8. Hint \o p4 \o b = Hint \o p5 /\ p5 \in Scripts
      BY <1>9, <2>1, <2>2, <2>3, <2>7 DEF p5
    <2>9. Hint \o p5 \o k = Hint \o p6 /\ p6 \in Scripts
      BY <1>9, <2>1, <2>2, <2>3, <2>8 DEF p6
    <2>10. Hint \o p6 \o d = Hint \o p7 /\ p7 \in Scripts
      BY <1>9, <2>1, <2>2, <2>3, <2>9 DEF p7
    <2>11. Hint \o p7 \o o = Hint \o p8 /\ p8 \in Scripts
      BY <1>9, <2>1, <2>2, <2>3, <2>10 DEF p8
    <2>12. Hint \o a \o r \o c \o g \o s \o b \o k \o d \o o = Hint \o p8
      BY <2>4, <2>5, <2>6, <2>7, <2>8, <2>9, <2>10, <2>11
    <2>. QED
      BY <2>12 DEF p1, p2, p3, p4, p5, p6, p7, p8
  <1> HIDE DEF after
  <1>15. after \in Scripts /\ claim \in Scripts /\ upto \in Scripts /\ Hint \o after \in Scripts
    BY <1>1, <1>9, <1>10, <1>11, <1>13, ScriptsConcat
  <1>16. upto \o (claim \o (Hint \o after)) = (upto \o claim) \o (Hint \o after)
    BY <1>15, ScriptsConcat
  <1>17. upto \o claim \in G
    BY <1>1, <1>10, <1>11
  <1>18. \E rest \in Scripts : VerifierScript(st) = VerifierBound(st) \o rest
    <2>1. VerifierBound(st) \in Scripts /\ receive_fold(st) \in Scripts /\ gpgkr_verify(st) \in Scripts
      BY <1>6, <1>7, <1>8 DEF Closed
    <2>2. upto = VerifierBound(st) \o (receive_fold(st) \o gpgkr_verify(st))
      BY <2>1, ScriptsConcat DEF upto
    <2> DEFINE one == receive_fold(st) \o gpgkr_verify(st)
               two == claim \o (Hint \o after)
    <2>3. one \in Scripts /\ two \in Scripts
      BY <2>1, <1>15, ScriptsConcat
    <2>4. (VerifierBound(st) \o one) \o two = VerifierBound(st) \o (one \o two) /\ one \o two \in Scripts
      <3> HIDE DEF one, two
      <3>. QED
        BY <2>1, <2>3, ScriptsConcat
    <2>. QED
      BY <1>12, <1>14, <2>2, <2>4
  <1>. QED
    BY <1>12, <1>13, <1>14, <1>16, <1>17, <1>18
-----------------------------------------------------------------------------
\* Scripts that a set of values and its steps do not tell apart.
Same(A, T, u, v) ==
    /\ u \in Scripts /\ v \in Scripts
    /\ \A a, b \in A : Takes(A, T, a, u, b) <=> Takes(A, T, a, v, b)

\* Steps for which checks, hints and what records owe are nothing, and absorbing
\* at once is absorbing in parts.
Neutral(A, T) ==
    \A a, b \in A :
        /\ \A check \in Checks : <<a, [op |-> "check", check |-> check], b>> \in T <=> a = b
        /\ <<a, [op |-> "hint"], b>> \in T <=> a = b
        /\ \A n \in Nat, owes \in SUBSET Checks :
              <<a, [op |-> "record", count |-> n, owes |-> owes], b>> \in T
              <=> <<a, [op |-> "record", count |-> n, owes |-> {}], b>> \in T
        /\ \A x, y \in Seq(Input) :
              <<a, [op |-> "absorb", cells |-> x \o y], b>> \in T
              <=> \E c \in A : /\ <<a, [op |-> "absorb", cells |-> x], c>> \in T
                               /\ <<c, [op |-> "absorb", cells |-> y], b>> \in T

\* Scripts that go to the same places still do when each is followed by such.
LEMMA SameConcat ==
    ASSUME NEW A, NEW T
    PROVE  /\ \A u \in Scripts : Same(A, T, u, u)
           /\ \A u, v, x, y : Same(A, T, u, v) /\ Same(A, T, x, y) => Same(A, T, u \o x, v \o y)
  <1>1. ASSUME NEW u, NEW v, NEW x, NEW y, Same(A, T, u, v), Same(A, T, x, y)
        PROVE  Same(A, T, u \o x, v \o y)
    <2>1. u \in Scripts /\ v \in Scripts /\ x \in Scripts /\ y \in Scripts
      BY <1>1 DEF Same
    <2>2. u \o x \in Scripts /\ v \o y \in Scripts
      BY <2>1, ScriptsConcat
    <2>3. ASSUME NEW a \in A, NEW c \in A
          PROVE  Takes(A, T, a, u \o x, c) <=> Takes(A, T, a, v \o y, c)
      <3>1. Takes(A, T, a, u \o x, c) <=> \E b \in A : Takes(A, T, a, u, b) /\ Takes(A, T, b, x, c)
        BY <2>1, TakesOn
      <3>2. Takes(A, T, a, v \o y, c) <=> \E b \in A : Takes(A, T, a, v, b) /\ Takes(A, T, b, y, c)
        BY <2>1, TakesOn
      <3>3. \A b \in A : (Takes(A, T, a, u, b) <=> Takes(A, T, a, v, b))
                         /\ (Takes(A, T, b, x, c) <=> Takes(A, T, b, y, c))
        BY <1>1 DEF Same
      <3>. QED
        BY <3>1, <3>2, <3>3
    <2>. QED
      BY <2>2, <2>3 DEF Same
  <1>2. \A u \in Scripts : Same(A, T, u, u)
    BY DEF Same
  <1>. QED
    BY <1>1, <1>2

\* Part by part.
LEMMA SameFlatten ==
    ASSUME NEW A, NEW T, NEW n \in Nat,
           NEW us \in [1..n -> Scripts], NEW vs \in [1..n -> Scripts],
           \A i \in 1..n : Same(A, T, us[i], vs[i])
    PROVE  Same(A, T, FlattenSeq(us), FlattenSeq(vs))
  <1> DEFINE first(f, k) == [i \in 1..k |-> f[i]]
             S == {k \in Nat : k <= n => Same(A, T, FlattenSeq(first(us, k)), FlattenSeq(first(vs, k)))}
  <1>1. ASSUME NEW f \in [1..n -> Scripts], NEW k \in Nat, k + 1 <= n
        PROVE  FlattenSeq(first(f, k + 1)) = FlattenSeq(first(f, k)) \o f[k + 1]
    <2>1. first(f, k) \in Seq(Scripts) /\ f[k + 1] \in Scripts
      BY <1>1
    <2>2. first(f, k + 1) = Append(first(f, k), f[k + 1])
      BY <1>1
    <2>3. FlattenSeq(Append(first(f, k), f[k + 1])) = FlattenSeq(first(f, k)) \o f[k + 1]
      <3> HIDE DEF first
      <3>. QED
        BY <2>1, FlattenAppend DEF Scripts
    <2> HIDE DEF first
    <2>. QED
      BY <2>2, <2>3
  <1>2. 0 \in S
    <2>1. first(us, 0) = <<>> /\ first(vs, 0) = <<>>
      OBVIOUS
    <2>2. Same(A, T, <<>>, <<>>)
      BY ScriptsConcat, SameConcat
    <2> HIDE DEF first
    <2>. QED
      BY <2>1, <2>2, FlattenEmpty
  <1>3. ASSUME NEW k \in Nat, k \in S PROVE k + 1 \in S
    <2>1. SUFFICES ASSUME k + 1 <= n
                   PROVE  Same(A, T, FlattenSeq(first(us, k + 1)), FlattenSeq(first(vs, k + 1)))
      OBVIOUS
    <2>2. Same(A, T, FlattenSeq(first(us, k)), FlattenSeq(first(vs, k)))
      BY <1>3, <2>1
    <2>3. Same(A, T, us[k + 1], vs[k + 1])
      BY <2>1
    <2> HIDE DEF first
    <2>4. /\ FlattenSeq(first(us, k + 1)) = FlattenSeq(first(us, k)) \o us[k + 1]
          /\ FlattenSeq(first(vs, k + 1)) = FlattenSeq(first(vs, k)) \o vs[k + 1]
      BY <1>1, <2>1
    <2>5. Same(A, T, FlattenSeq(first(us, k)) \o us[k + 1], FlattenSeq(first(vs, k)) \o vs[k + 1])
      BY <2>2, <2>3, SameConcat
    <2>. QED
      BY <2>4, <2>5
  <1>4. Nat \subseteq S
    <2> HIDE DEF S
    <2>. QED
      BY <1>2, <1>3, SetInduction
  <1>5. first(us, n) = us /\ first(vs, n) = vs
    OBVIOUS
  <1>6. Same(A, T, FlattenSeq(first(us, n)), FlattenSeq(first(vs, n)))
    BY <1>4
  <1> HIDE DEF first
  <1>. QED
    BY <1>5, <1>6

\* And when both are repeated.
LEMMA SameTimes ==
    ASSUME NEW A, NEW T, NEW n \in Nat, NEW u, NEW v, Same(A, T, u, v)
    PROVE  Same(A, T, Times(n, u), Times(n, v))
  <1> DEFINE us == [i \in 1..n |-> u]
             vs == [i \in 1..n |-> v]
  <1>1. us \in [1..n -> Scripts] /\ vs \in [1..n -> Scripts]
    BY DEF Same
  <1>2. \A i \in 1..n : Same(A, T, us[i], vs[i])
    OBVIOUS
  <1>3. Same(A, T, FlattenSeq(us), FlattenSeq(vs))
    <2> HIDE DEF us, vs
    <2>. QED
      BY <1>1, <1>2, SameFlatten
  <1>. QED
    BY <1>3 DEF Times

\* Where a check and a hint count for nothing, a record as what it writes and
\* an absorption as its cells, these pieces go to the same places.
LEMMA NeutralSteps ==
    ASSUME NEW A, NEW T, Neutral(A, T)
    PROVE  /\ \A check \in Checks : Same(A, T, <<>>, Check(check))
           /\ Same(A, T, <<>>, Hint)
           /\ \A n \in Nat, o \in SUBSET Checks : Same(A, T, Record(n, {}), Record(n, o))
           /\ \A x, y \in Seq(Input) : Same(A, T, Absorb(x \o y), Absorb(x) \o Absorb(y))
  <1>1. ASSUME NEW check \in Checks PROVE Same(A, T, <<>>, Check(check))
    <2> DEFINE step == [op |-> "check", check |-> check]
    <2>1. step \in Steps /\ \A a, b \in A : <<a, step, b>> \in T <=> a = b
      BY DEF Steps, Neutral
    <2>2. Check(check) = <<step>>
      BY DEF Check
    <2> HIDE DEF step
    <2>3. ASSUME NEW a \in A, NEW b \in A
          PROVE  Takes(A, T, a, <<>>, b) <=> Takes(A, T, a, <<step>>, b)
      <3>1. Takes(A, T, a, <<>>, b) <=> a = b
        BY TakesNone
      <3>2. Takes(A, T, a, <<step>>, b) <=> <<a, step, b>> \in T
        BY <2>1, TakesOne
      <3>3. <<a, step, b>> \in T <=> a = b
        BY <2>1
      <3>. QED
        BY <3>1, <3>2, <3>3
    <2>4. <<>> \in Scripts /\ <<step>> \in Scripts
      BY <2>1, ScriptsConcat DEF Scripts
    <2>5. Same(A, T, <<>>, <<step>>)
      BY <2>3, <2>4 DEF Same
    <2>. QED
      BY <2>2, <2>5
  <1>2. Same(A, T, <<>>, Hint)
    <2> DEFINE step == [op |-> "hint"]
    <2>1. step \in Steps /\ \A a, b \in A : <<a, step, b>> \in T <=> a = b
      BY DEF Steps, Neutral
    <2>2. Hint = <<step>>
      BY DEF Hint
    <2> HIDE DEF step
    <2>3. ASSUME NEW a \in A, NEW b \in A
          PROVE  Takes(A, T, a, <<>>, b) <=> Takes(A, T, a, <<step>>, b)
      <3>1. Takes(A, T, a, <<>>, b) <=> a = b
        BY TakesNone
      <3>2. Takes(A, T, a, <<step>>, b) <=> <<a, step, b>> \in T
        BY <2>1, TakesOne
      <3>3. <<a, step, b>> \in T <=> a = b
        BY <2>1
      <3>. QED
        BY <3>1, <3>2, <3>3
    <2>4. <<>> \in Scripts /\ <<step>> \in Scripts
      BY <2>1, ScriptsConcat DEF Scripts
    <2>5. Same(A, T, <<>>, <<step>>)
      BY <2>3, <2>4 DEF Same
    <2>. QED
      BY <2>2, <2>5
  <1>3. ASSUME NEW n \in Nat, NEW o \in SUBSET Checks PROVE Same(A, T, Record(n, {}), Record(n, o))
    <2> DEFINE less == [op |-> "record", count |-> n, owes |-> {}]
               more == [op |-> "record", count |-> n, owes |-> o]
    <2>1. less \in Steps /\ more \in Steps /\ \A a, b \in A : <<a, more, b>> \in T <=> <<a, less, b>> \in T
      BY DEF Steps, Neutral
    <2>2. Record(n, {}) = <<less>> /\ Record(n, o) = <<more>>
      BY DEF Record
    <2> HIDE DEF less, more
    <2>3. \A a, b \in A : Takes(A, T, a, <<less>>, b) <=> Takes(A, T, a, <<more>>, b)
      BY <2>1, TakesOne
    <2>4. Record(n, {}) \in Scripts /\ Record(n, o) \in Scripts
      BY StepsOfScripts
    <2>. QED
      BY <2>2, <2>3, <2>4 DEF Same
  <1>4. ASSUME NEW x \in Seq(Input), NEW y \in Seq(Input)
        PROVE  Same(A, T, Absorb(x \o y), Absorb(x) \o Absorb(y))
    <2> DEFINE both == [op |-> "absorb", cells |-> x \o y]
               one == [op |-> "absorb", cells |-> x]
               two == [op |-> "absorb", cells |-> y]
    <2>1. x \o y \in Seq(Input)
      BY InputsConcat
    <2>2. both \in Steps /\ one \in Steps /\ two \in Steps
      BY <2>1 DEF Steps
    <2>3. \A a, b \in A : <<a, both, b>> \in T <=> \E c \in A : <<a, one, c>> \in T /\ <<c, two, b>> \in T
      BY DEF Neutral
    <2>4. Absorb(x \o y) = <<both>> /\ Absorb(x) = <<one>> /\ Absorb(y) = <<two>>
      BY DEF Absorb
    <2> HIDE DEF both, one, two
    <2>5. <<both>> \in Scripts /\ <<one>> \in Scripts /\ <<two>> \in Scripts
      BY <2>2 DEF Scripts
    <2>6. ASSUME NEW a \in A, NEW b \in A
          PROVE  Takes(A, T, a, <<both>>, b) <=> Takes(A, T, a, <<one>> \o <<two>>, b)
      <3>1. Takes(A, T, a, <<both>>, b) <=> <<a, both, b>> \in T
        BY <2>2, TakesOne
      <3>2. \A c \in A : /\ Takes(A, T, a, <<one>>, c) <=> <<a, one, c>> \in T
                         /\ Takes(A, T, c, <<two>>, b) <=> <<c, two, b>> \in T
        BY <2>2, TakesOne
      <3>3. Takes(A, T, a, <<one>> \o <<two>>, b)
            <=> \E c \in A : Takes(A, T, a, <<one>>, c) /\ Takes(A, T, c, <<two>>, b)
        BY <2>5, TakesOn
      <3>. QED
        BY <2>3, <3>1, <3>2, <3>3
    <2>7. <<one>> \o <<two>> \in Scripts
      BY <2>5, ScriptsConcat
    <2>. QED
      BY <2>4, <2>5, <2>6, <2>7 DEF Same
  <1>. QED
    BY <1>1, <1>2, <1>3, <1>4

\* A set with every step but the hint has what either side's script is made of.
LEMMA StepsMake ==
    ASSUME NEW G, Closed(G), \A x \in Steps : x.op # "hint" => <<x>> \in G
    PROVE  Common(G) /\ Checked(G) /\ Refuse \in G
  <1>1. ASSUME NEW n \in Nat, NEW owes \in SUBSET Checks PROVE Record(n, owes) \in G
    <2>1. [op |-> "record", count |-> n, owes |-> owes] \in Steps
      BY DEF Steps
    <2>. QED
      BY <2>1 DEF Record
  <1>2. ASSUME NEW check \in Checks PROVE Check(check) \in G
    <2>1. [op |-> "check", check |-> check] \in Steps
      BY DEF Steps
    <2>. QED
      BY <2>1 DEF Check
  <1>3. Common(G)
    <2>1. ASSUME NEW x \in Seq(Input) PROVE Absorb(x) \in G
      <3>1. [op |-> "absorb", cells |-> x] \in Steps
        BY DEF Steps
      <3>. QED
        BY <3>1 DEF Absorb
    <2>2. ASSUME NEW n \in Nat, NEW e \in Nat PROVE Draw(n, e) \in G
      <3>1. [op |-> "draw", count |-> n, error |-> e] \in Steps
        BY DEF Steps
      <3>. QED
        BY <3>1 DEF Draw
    <2>3. ASSUME NEW bits \in Nat PROVE Nonce(bits) \in G
      <3>1. [op |-> "nonce", bits |-> bits] \in Steps
        BY DEF Steps
      <3>. QED
        BY <3>1 DEF Nonce
    <2>. QED
      BY <1>1, <2>1, <2>2, <2>3 DEF Common
  <1>4. Refuse \in G
    <2>1. [op |-> "refuse"] \in Steps
      BY DEF Steps
    <2>. QED
      BY <2>1 DEF Refuse
  <1>5. \A u, v \in G : u \o v \in G
    BY DEF Closed
  <1>6. /\ {"range", "reconstruct"} \in SUBSET Checks /\ {"product"} \in SUBSET Checks
        /\ {"evaluation"} \in SUBSET Checks /\ {"target"} \in SUBSET Checks
        /\ {"range", "reconstruct", "product", "evaluation", "target", "opening"} \subseteq Checks
    BY DEF Checks
  <1>7. ASSUME NEW n \in Nat
        PROVE  Times(n, Record(1, {"range", "reconstruct"})) \o Check("range") \o Check("reconstruct") \in G
    <2>1. Record(1, {"range", "reconstruct"}) \in G /\ Check("range") \in G /\ Check("reconstruct") \in G
      BY <1>1, <1>2, <1>6
    <2>2. Times(n, Record(1, {"range", "reconstruct"})) \in G
      BY <2>1, TimesKeeps DEF Closed
    <2>. QED
      BY <1>5, <2>1, <2>2
  <1>8. Record(2, {"product"}) \o Check("product") \in G
    BY <1>1, <1>2, <1>5, <1>6
  <1>9. Record(1, {"evaluation"}) \o Check("evaluation") \in G
    BY <1>1, <1>2, <1>5, <1>6
  <1>10. Record(ClaimCount, {"target"}) \o Check("target") \in G
    BY <1>1, <1>2, <1>5, <1>6, ScriptAssumption
  <1>11. Check("opening") \in G
    BY <1>2, <1>6
  <1>12. Checked(G)
    BY <1>7, <1>8, <1>9, <1>10, <1>11 DEF Checked
  <1>. QED
    BY <1>3, <1>4, <1>12

\* All scripts are such a set.
LEMMA ScriptsClosed == Closed(Scripts) /\ Common(Scripts) /\ Checked(Scripts) /\ Refuse \in Scripts
  <1>1. Closed(Scripts)
    BY ScriptsConcat DEF Closed
  <1>2. \A x \in Steps : <<x>> \in Scripts
    BY DEF Scripts
  <1>. QED
    BY <1>1, <1>2, StepsMake

\* Both sides do the same up to and with the fold.
LEMMA BoundSame ==
    ASSUME NEW A, NEW T, Neutral(A, T), NEW st \in Statements
    PROVE  Same(A, T, ProverBound(st) \o send_fold(st), VerifierBound(st) \o receive_fold(st))
  <1> DEFINE S(u, v) == Same(A, T, u, v)
  <1>1. /\ \A u, v, x, y : S(u, v) /\ S(x, y) => S(u \o x, v \o y)
        /\ \A u \in Scripts : S(u, u)
    BY SameConcat
  <1>2. \A x, y \in Seq(Input) : S(Absorb(x \o y), Absorb(x) \o Absorb(y))
    BY NeutralSteps
  <1> HIDE DEF S
  <1>3. commit(st) = receive_commitment(st) /\ S(commit(st), receive_commitment(st))
    <2>1. commit(st) = receive_commitment(st)
      BY DEF commit, receive_commitment
    <2>2. bind_commitment(st) \in Scripts /\ sample_point(st) \in Scripts
      BY ScriptsClosed, SharedIn
    <2>3. sample_point(st) \o Record(1, {}) \in Scripts
      BY <2>2, StepsOfScripts, ScriptsConcat
    <2>4. (IF st.level = 100 THEN sample_point(st) \o Record(1, {}) ELSE <<>>) \in Scripts
      BY <2>3, ScriptsConcat
    <2>5. commit(st) \in Scripts
      BY <2>2, <2>4, ScriptsConcat DEF commit
    <2>. QED
      BY <1>1, <2>1, <2>5
  <1>4. S(prover_bind(st), verifier_bind(st))
    <2>1. /\ <<Tag.virtual, st.root>> \in Seq(Input) /\ <<st.map>> \in Seq(Input) /\ <<st.root>> \in Seq(Input)
          /\ PcsCode(st) \in Seq(Input) /\ ParamsCode(st) \in Seq(Input)
          /\ VirtualParamsCode(st) \in Seq(Input) /\ ClaimCode(st) \in Seq(Input)
      <3>1. Tag.virtual \in Input
        BY Tags DEF TagNames
      <3>. QED
        BY <3>1, Codes, InputsConcat
    <2>2. ASSUME NEW x \in Seq(Input), NEW y \in Seq(Input), NEW u, S(Absorb(x), u)
          PROVE  S(Absorb(x \o y), u \o Absorb(y))
      <3>1. S(Absorb(x) \o Absorb(y), u \o Absorb(y))
        BY <1>1, <2>2, StepsOfScripts
      <3>2. S(Absorb(x \o y), Absorb(x) \o Absorb(y))
        BY <1>2
      <3>. QED
        BY <3>1, <3>2 DEF S, Same
    <2>3. \A x \in Seq(Input) : S(Absorb(x), Absorb(x))
      BY <1>1, StepsOfScripts
    <2>4. CASE st.virtual
      <3> DEFINE x1 == <<Tag.virtual, st.root>>
                 x2 == x1 \o VirtualParamsCode(st)
                 x3 == x2 \o <<st.map>>
                 x4 == x3 \o ClaimCode(st)
                 x5 == x4 \o PcsCode(st)
                 u2 == Absorb(x1) \o Absorb(VirtualParamsCode(st))
                 u3 == u2 \o Absorb(<<st.map>>)
                 u4 == u3 \o Absorb(ClaimCode(st))
      <3>1. x1 \in Seq(Input) /\ x2 \in Seq(Input) /\ x3 \in Seq(Input) /\ x4 \in Seq(Input)
        BY <2>1, InputsConcat
      <3>2. prover_bind(st) = Absorb(x5) /\ verifier_bind(st) = u4 \o Absorb(PcsCode(st))
        BY <2>4 DEF prover_bind, verifier_bind
      <3> HIDE DEF x1
      <3>3. S(Absorb(x2), u2)
        BY <2>1, <2>2, <2>3, <3>1
      <3> HIDE DEF x2, u2
      <3>4. S(Absorb(x3), u3)
        BY <2>1, <2>2, <3>1, <3>3
      <3> HIDE DEF x3, u3
      <3>5. S(Absorb(x4), u4)
        BY <2>1, <2>2, <3>1, <3>4
      <3> HIDE DEF x4, u4
      <3>6. S(Absorb(x5), u4 \o Absorb(PcsCode(st)))
        BY <2>1, <2>2, <3>1, <3>5
      <3>. QED
        BY <3>2, <3>6
    <2>5. CASE ~ st.virtual
      <3> DEFINE x1 == <<st.root>>
                 x2 == x1 \o ParamsCode(st)
                 x3 == x2 \o PcsCode(st)
                 x4 == x3 \o ClaimCode(st)
                 u2 == Absorb(x1) \o Absorb(ParamsCode(st))
                 u3 == u2 \o Absorb(PcsCode(st))
      <3>1. x1 \in Seq(Input) /\ x2 \in Seq(Input) /\ x3 \in Seq(Input)
        BY <2>1, InputsConcat
      <3>2. prover_bind(st) = Absorb(x4) /\ verifier_bind(st) = u3 \o Absorb(ClaimCode(st))
        BY <2>5 DEF prover_bind, verifier_bind
      <3> HIDE DEF x1
      <3>3. S(Absorb(x2), u2)
        BY <2>1, <2>2, <2>3, <3>1
      <3> HIDE DEF x2, u2
      <3>4. S(Absorb(x3), u3)
        BY <2>1, <2>2, <3>1, <3>3
      <3> HIDE DEF x3, u3
      <3>5. S(Absorb(x4), u3 \o Absorb(ClaimCode(st)))
        BY <2>1, <2>2, <3>1, <3>4
      <3>. QED
        BY <3>2, <3>5
    <2>. QED
      BY <2>4, <2>5
  <1>5. S(IF Mismatched(st) THEN Refuse ELSE prover_bind(st), IF Mismatched(st) THEN Refuse ELSE verifier_bind(st))
    BY <1>1, <1>4, StepsOfScripts
  <1>6. S(ProverBound(st), VerifierBound(st))
    BY <1>1, <1>3, <1>5 DEF ProverBound, VerifierBound
  <1>7. S(send_fold(st), receive_fold(st))
    <2> DEFINE g == Grind(Tag.columns, grinding_bits(st.level, st.shape[2]))
               d == Draw(st.shape[2], st.shape[2])
               n == 2^st.shape[2]
               p == Times(n, Record(1, {}))
               v == Times(n, Record(1, {"range", "reconstruct"}))
               c == Check("range")
               e == Check("reconstruct")
    <2>1. {"range", "reconstruct"} \in SUBSET Checks /\ "range" \in Checks /\ "reconstruct" \in Checks
      BY DEF Checks
    <2>2. S(p, v)
      <3>1. Same(A, T, Record(1, {}), Record(1, {"range", "reconstruct"}))
        BY <2>1, NeutralSteps
      <3>2. n \in Nat
        BY Statement
      <3>. QED
        BY <3>1, <3>2, SameTimes DEF S
    <2>3. S(<<>>, c) /\ S(<<>>, e)
      BY <2>1, NeutralSteps DEF S
    <2>4. S(g, g) /\ S(d, d)
      <3>1. g \in Scripts
        BY ScriptsClosed, SharedIn
      <3>2. d \in Scripts
        BY Statement, StepsOfScripts
      <3>. QED
        BY <1>1, <3>1, <3>2
    <2>5. send_fold(st) = p \o g \o d /\ receive_fold(st) = v \o c \o e \o g \o d
      BY DEF send_fold, receive_fold
    <2>6. p \in Scripts
      BY <2>2 DEF S, Same
    <2> HIDE DEF p, v, c, e, g, d
    <2>7. p \o <<>> \o <<>> = p
      BY <2>6, ScriptsConcat
    <2>8. S(p \o <<>> \o <<>>, v \o c \o e)
      BY <1>1, <2>2, <2>3
    <2>. QED
      BY <1>1, <2>4, <2>5, <2>7, <2>8
  <1>. QED
    BY <1>1, <1>6, <1>7 DEF S

\* The grand products: the round the prover writes out is one of the loop.
LEMMA LayersSame ==
    ASSUME NEW A, NEW T, Neutral(A, T), NEW st \in Statements
    PROVE  Same(A, T, gpgkr_prove(st), gpgkr_verify(st))
  <1> DEFINE S(u, v) == Same(A, T, u, v)
  <1>1. /\ \A u, v, x, y : S(u, v) /\ S(x, y) => S(u \o x, v \o y)
        /\ \A u \in Scripts : S(u, u)
    BY SameConcat
  <1> HIDE DEF S
  <1>2. ASSUME NEW n \in Nat PROVE S(prove_layer(st, n), verify_layer(st, n))
    <2> DEFINE q == CubicRound(st)
               r == Record(2, {})
               e == Record(2, {"product"})
               c == Check("product")
               d == Draw(1, 1)
               last == IF n > 0 THEN q ELSE <<>>
    <2>1. {"product"} \in SUBSET Checks /\ "product" \in Checks
      BY DEF Checks
    <2>2. q \in Scripts /\ r \in Scripts /\ d \in Scripts /\ e \in Scripts /\ c \in Scripts
      BY <2>1, ScriptsClosed, SharedIn, StepsOfScripts
    <2>3. S(r, e) /\ S(<<>>, c) /\ S(d, d)
      BY <1>1, <2>1, <2>2, NeutralSteps DEF S
    <2>4. prove_layer(st, n) = Times(n - 1, q) \o last \o r \o d
      BY DEF prove_layer
    <2>5. verify_layer(st, n) = Times(n, q) \o e \o c \o d
      BY DEF verify_layer
    <2> HIDE DEF q, r, e, c, d
    <2>6. Times(n, q) \in Scripts /\ Times(n - 1, q) \in Scripts
      BY <2>2, ScriptsTimes
    <2>7. Times(n - 1, q) \o last = Times(n, q)
      <3>1. CASE n = 0
        <4>1. 1..n - 1 = 1..0
          BY <3>1
        <4>2. Times(n - 1, q) = <<>> /\ Times(n, q) = <<>> /\ last = <<>>
          <5>1. Times(0, q) = <<>>
            BY <2>2, TimesMore
          <5>2. Times(n - 1, q) = Times(0, q)
            BY <4>1 DEF Times
          <5>. QED
            BY <3>1, <5>1, <5>2
        <4>. QED
          BY <4>2, ScriptsConcat
      <3>2. CASE n > 0
        <4>1. n - 1 \in Nat /\ (n - 1) + 1 = n /\ last = q
          BY <3>2
        <4>2. Times((n - 1) + 1, q) = Times(n - 1, q) \o q
          BY <2>2, <4>1, TimesMore
        <4>. QED
          BY <4>1, <4>2
      <3>3. n = 0 \/ n > 0
        OBVIOUS
      <3> HIDE DEF last
      <3>. QED
        BY <3>1, <3>2, <3>3, Zenon
    <2> HIDE DEF last
    <2>8. S(Times(n, q), Times(n, q))
      BY <1>1, <2>6
    <2>9. S(Times(n, q) \o r \o <<>>, Times(n, q) \o e \o c)
      BY <1>1, <2>3, <2>8
    <2>10. Times(n, q) \o r \o <<>> = Times(n, q) \o r
      <3>1. Times(n, q) \o r \in Scripts
        BY <2>2, <2>6, ScriptsConcat
      <3>. QED
        BY <3>1, ScriptsConcat
    <2>11. S(Times(n, q) \o r \o d, Times(n, q) \o e \o c \o d)
      BY <1>1, <2>3, <2>9, <2>10
    <2>. QED
      BY <2>4, <2>5, <2>7, <2>11
  <1> DEFINE us == [i \in 1..st.shape[1] |-> prove_layer(st, st.shape[2] + i - 1)]
             vs == [i \in 1..st.shape[1] |-> verify_layer(st, st.shape[2] + i - 1)]
  <1>3. st.shape[1] \in Nat /\ \A i \in 1..st.shape[1] : st.shape[2] + i - 1 \in Nat
    BY Statement
  <1>4. \A n \in Nat : prove_layer(st, n) \in Scripts /\ verify_layer(st, n) \in Scripts
    BY <1>2 DEF S, Same
  <1>5. us \in [1..st.shape[1] -> Scripts] /\ vs \in [1..st.shape[1] -> Scripts]
    BY <1>3, <1>4
  <1>6. \A i \in 1..st.shape[1] : Same(A, T, us[i], vs[i])
    BY <1>2, <1>3 DEF S
  <1>7. Same(A, T, FlattenSeq(us), FlattenSeq(vs))
    <2> HIDE DEF us, vs
    <2>. QED
      BY <1>3, <1>5, <1>6, SameFlatten
  <1>. QED
    BY <1>7 DEF gpgkr_prove, gpgkr_verify

\* The opening: a statement of the scheme's size has a round for each bit.
LEMMA OpeningSame ==
    ASSUME NEW A, NEW T, Neutral(A, T), NEW st \in Statements, ~ Mismatched(st)
    PROVE  Same(A, T, prove_lin(st), verify_lin(st))
  <1> DEFINE S(u, v) == Same(A, T, u, v)
  <1>1. /\ \A u, v, x, y : S(u, v) /\ S(x, y) => S(u \o x, v \o y)
        /\ \A u \in Scripts : S(u, u)
    BY SameConcat
  <1>2. \A check \in Checks : S(<<>>, Check(check))
    BY NeutralSteps
  <1>3. S(<<>>, Hint)
    BY NeutralSteps
  <1>4. \A n \in Nat, o \in SUBSET Checks : S(Record(n, {}), Record(n, o))
    BY NeutralSteps
  <1> HIDE DEF S
  <1>5. {"evaluation"} \in SUBSET Checks /\ {"target"} \in SUBSET Checks
        /\ "evaluation" \in Checks /\ "target" \in Checks /\ "opening" \in Checks
    BY DEF Checks
  <1>6. S(prove_factors(st), verify_factors(st))
    <2> DEFINE q == QuadraticRound(st)
               r == Record(1, {})
               e == Record(1, {"evaluation"})
               c == Check("evaluation")
    <2>1. LogBits(Opened(st)) = st.bits
      <3>1. st.bits = LogBits(st.committed) /\ LogBits(st.committed) \in Nat
        BY Statement DEF Mismatched
      <3>2. CASE st.virtual
        BY <3>1, <3>2 DEF Opened, LogBits
      <3>3. CASE ~ st.virtual
        <4>1. st.committed = st.shape
          BY <3>3, Statement DEF IsStatement
        <4>. QED
          BY <3>1, <3>3, <4>1 DEF Opened
      <3>. QED
        BY <3>2, <3>3
    <2>2. q \in Scripts
      BY ScriptsClosed, SharedIn
    <2>3. S(r, e) /\ S(<<>>, c)
      BY <1>2, <1>4, <1>5
    <2>4. prove_factors(st) = q \o Times(st.bits - 1, q) \o r
      BY DEF prove_factors
    <2>5. verify_factors(st) = Times(st.bits, q) \o e \o c
      BY <2>1 DEF verify_factors
    <2>6. r \in Scripts
      BY StepsOfScripts
    <2> HIDE DEF q, r, e, c
    <2>7. q \o Times(st.bits - 1, q) = Times(st.bits, q)
      <3>1. st.bits - 1 \in Nat /\ (st.bits - 1) + 1 = st.bits
        BY Statement
      <3>2. Times((st.bits - 1) + 1, q) = q \o Times(st.bits - 1, q)
        BY <2>2, <3>1, TimesMore
      <3>. QED
        BY <3>1, <3>2
    <2>8. Times(st.bits, q) \in Scripts
      <3>1. st.bits \in Int
        BY Statement
      <3>. QED
        BY <2>2, <3>1, ScriptsTimes
    <2>9. S(Times(st.bits, q) \o r \o <<>>, Times(st.bits, q) \o e \o c)
      BY <1>1, <2>3, <2>8
    <2>10. Times(st.bits, q) \o r \o <<>> = Times(st.bits, q) \o r
      <3>1. Times(st.bits, q) \o r \in Scripts
        BY <2>6, <2>8, ScriptsConcat
      <3>. QED
        BY <3>1, ScriptsConcat
    <2>. QED
      BY <2>4, <2>5, <2>7, <2>9, <2>10
  <1>7. S(prove_mle(st), verify_mle(st))
    <2> DEFINE a == Absorb(<<Tag.claims>>)
               r == Record(ClaimCount, {})
               e == Record(ClaimCount, {"target"})
               c == Check("target")
               g == Grind(Tag.ring, grinding_bits(st.level, RingError(st)))
               s == sample_challenges
               b == batching_challenge(st)
               k == Backend
               d == Draw(2, 0)
               o == Check("opening")
               front == a \o r \o g \o s \o b \o k \o d
    <2>1. S(a, a) /\ S(g, g) /\ S(s, s) /\ S(b, b) /\ S(k, k) /\ S(d, d)
      <3>1. /\ a \in Scripts /\ g \in Scripts /\ s \in Scripts /\ b \in Scripts /\ k \in Scripts
            /\ d \in Scripts
        BY ScriptsClosed, SharedIn, StepsOfScripts
      <3>. QED
        BY <1>1, <3>1
    <2>2. S(r, e) /\ S(<<>>, c) /\ S(<<>>, o) /\ S(<<>>, Hint)
      BY <1>2, <1>3, <1>4, <1>5, ScriptAssumption
    <2>3. r \in Scripts
      BY StepsOfScripts, ScriptAssumption
    <2>4. prove_mle(st) = front \o Hint
      BY DEF prove_mle
    <2>5. verify_mle(st) = Hint \o a \o e \o c \o g \o s \o b \o k \o d \o o
      BY DEF verify_mle
    <2>6. a \in Scripts /\ Hint \in Scripts
      BY ScriptsClosed, SharedIn, StepsOfScripts
    <2> HIDE DEF a, r, e, c, g, s, b, k, d, o
    <2>7. a \o r \in Scripts
      BY <2>3, <2>6, ScriptsConcat
    <2>8. <<>> \o a = a /\ a \o r \o <<>> = a \o r
      BY <2>6, <2>7, ScriptsConcat
    <2>9. S(<<>> \o a, Hint \o a)
      BY <1>1, <2>1, <2>2
    <2>10. S(a \o r \o <<>>, Hint \o a \o e \o c)
      BY <1>1, <2>2, <2>8, <2>9
    <2>11. S(a \o r \o g \o s, Hint \o a \o e \o c \o g \o s)
      BY <1>1, <2>1, <2>8, <2>10
    <2>12. S(front, Hint \o a \o e \o c \o g \o s \o b \o k \o d)
      BY <1>1, <2>1, <2>11
    <2>13. front \in Scripts
      BY <2>12 DEF S, Same
    <2> HIDE DEF front
    <2>14. S(front \o Hint, front \o <<>>) /\ front \o <<>> = front
      <3>1. S(Hint, <<>>)
        BY <2>2 DEF S, Same
      <3>2. S(front, front)
        BY <1>1, <2>13
      <3>. QED
        BY <1>1, <2>13, <3>1, <3>2, ScriptsConcat
    <2>15. S(front \o <<>>, Hint \o a \o e \o c \o g \o s \o b \o k \o d \o o)
      BY <1>1, <2>2, <2>12
    <2>. QED
      BY <2>4, <2>5, <2>14, <2>15 DEF S, Same
  <1>8. S(bind_inner_product_statement(st) \o Absorb(<<Tag.sumcheck>>),
          bind_inner_product_statement(st) \o Absorb(<<Tag.sumcheck>>))
    BY <1>1, ScriptsClosed, SharedIn, ScriptsConcat
  <1>9. S(bind_mle_statement(st), bind_mle_statement(st))
    BY <1>1, ScriptsClosed, SharedIn
  <1>10. S(bind_inner_product_statement(st) \o Absorb(<<Tag.sumcheck>>) \o prove_factors(st) \o bind_mle_statement(st),
           bind_inner_product_statement(st) \o Absorb(<<Tag.sumcheck>>) \o verify_factors(st) \o bind_mle_statement(st))
    BY <1>1, <1>6, <1>8, <1>9
  <1>. QED
    BY <1>1, <1>7, <1>10 DEF prove_lin, verify_lin, S

\* Both programs are scripts.
LEMMA ScriptsOfStatement ==
    \A st \in Statements : ProverScript(st) \in Scripts /\ VerifierScript(st) \in Scripts
  <1>1. ASSUME NEW st \in Statements PROVE ProverScript(st) \in Scripts /\ VerifierScript(st) \in Scripts
    <2>1. \E u \in Scripts : ProverScript(st) = u \o Hint
      BY ScriptsClosed, ProverIn
    <2>2. \E u, v \in Scripts : VerifierScript(st) = u \o (Hint \o v)
      BY ScriptsClosed, VerifierIn
    <2>3. Hint \in Scripts /\ \A u, v \in Scripts : u \o v \in Scripts
      BY StepsOfScripts, ScriptsConcat
    <2>. QED
      BY <2>1, <2>2, <2>3, Zenon
  <1>. QED
    BY <1>1

\* The two scripts do the same to a value.
LEMMA ScriptsSame ==
    ASSUME NEW A, NEW T, Neutral(A, T), NEW st \in Statements, ~ Mismatched(st)
    PROVE  Same(A, T, ProverScript(st), VerifierScript(st))
  <1>1. /\ Same(A, T, ProverBound(st) \o send_fold(st), VerifierBound(st) \o receive_fold(st))
        /\ Same(A, T, gpgkr_prove(st), gpgkr_verify(st))
    BY BoundSame, LayersSame
  <1>2. Same(A, T, prove_lin(st), verify_lin(st))
    BY OpeningSame
  <1>3. Same(A, T, ProverBound(st) \o send_fold(st) \o gpgkr_prove(st) \o prove_lin(st),
                   VerifierBound(st) \o receive_fold(st) \o gpgkr_verify(st) \o verify_lin(st))
    BY <1>1, <1>2, SameConcat
  <1>. QED
    BY <1>3 DEF ProverScript, VerifierScript

\* A scheme of the wrong size is refused before the statement is bound.
LEMMA RefusedScripts ==
    ASSUME NEW st \in Statements, Mismatched(st)
    PROVE  /\ commit(st) \in Scripts
           /\ \E rest \in Scripts : ProverScript(st) = (commit(st) \o Refuse) \o rest
           /\ \E rest \in Scripts : VerifierScript(st) = (commit(st) \o Refuse) \o rest
  <1>1. commit(st) \in Scripts
    <2>1. bind_commitment(st) \in Scripts /\ sample_point(st) \in Scripts
      BY ScriptsClosed, SharedIn
    <2>2. sample_point(st) \o Record(1, {}) \in Scripts
      BY <2>1, StepsOfScripts, ScriptsConcat
    <2>3. (IF st.level = 100 THEN sample_point(st) \o Record(1, {}) ELSE <<>>) \in Scripts
      BY <2>2, ScriptsConcat
    <2>. QED
      BY <2>1, <2>3, ScriptsConcat DEF commit
  <1>2. commit(st) = receive_commitment(st)
    BY DEF commit, receive_commitment
  <1>3. ProverBound(st) = commit(st) \o Refuse /\ VerifierBound(st) = commit(st) \o Refuse
    BY <1>2 DEF ProverBound, VerifierBound
  <1>4. \E rest \in Scripts : ProverScript(st) = ProverBound(st) \o rest
    BY ScriptsClosed, ProverIn
  <1>5. \E rest \in Scripts : VerifierScript(st) = VerifierBound(st) \o rest
    BY ScriptsClosed, VerifierIn
  <1>. QED
    BY <1>1, <1>3, <1>4, <1>5

\* No value gets through a refusal that no step of T is of.
LEMMA RefusalEnds ==
    ASSUME NEW A, NEW T, \A a, b \in A : <<a, [op |-> "refuse"], b>> \notin T,
           NEW st \in Statements, Mismatched(st), NEW a \in A, NEW b \in A
    PROVE  ~ Takes(A, T, a, ProverScript(st), b) /\ ~ Takes(A, T, a, VerifierScript(st), b)
  <1>1. ASSUME NEW c \in A, NEW d \in A PROVE ~ Takes(A, T, c, Refuse, d)
    <2> DEFINE step == [op |-> "refuse"]
    <2>1. step \in Steps /\ <<c, step, d>> \notin T
      BY DEF Steps
    <2>2. Refuse = <<step>>
      BY DEF Refuse
    <2> HIDE DEF step
    <2>. QED
      BY <2>1, <2>2, TakesOne
  <1>2. ASSUME NEW c \in Scripts, NEW v \in Scripts, NEW s, s = (c \o Refuse) \o v
        PROVE  ~ Takes(A, T, a, s, b)
    <2>1. c \o Refuse \in Scripts /\ Refuse \in Scripts
      BY StepsOfScripts, ScriptsConcat
    <2>2. Takes(A, T, a, (c \o Refuse) \o v, b)
          <=> \E d \in A : Takes(A, T, a, c \o Refuse, d) /\ Takes(A, T, d, v, b)
      BY <2>1, TakesOn
    <2>3. ASSUME NEW d \in A PROVE ~ Takes(A, T, a, c \o Refuse, d)
      <3>1. Takes(A, T, a, c \o Refuse, d) <=> \E e \in A : Takes(A, T, a, c, e) /\ Takes(A, T, e, Refuse, d)
        BY <2>1, TakesOn
      <3>. QED
        BY <1>1, <3>1
    <2>. QED
      BY <1>2, <2>2, <2>3
  <1>. QED
    BY <1>2, RefusedScripts
-----------------------------------------------------------------------------
\* Scripts that take every value of A0 back among them.
Loops(A, T, A0) == {s \in Scripts : \A a \in A0 : \E b \in A0 : Takes(A, T, a, s, b)}

\* A script that leads from a set back into it: such scripts concatenate.
LEMMA LoopsClosed ==
    ASSUME NEW A, NEW T, NEW A0 \in SUBSET A
    PROVE  Closed(Loops(A, T, A0))
  <1>1. <<>> \in Loops(A, T, A0)
    <2>1. \A a \in A0 : Takes(A, T, a, <<>>, a)
      BY TakesNone
    <2>. QED
      BY <2>1, ScriptsConcat DEF Loops
  <1>2. ASSUME NEW u \in Loops(A, T, A0), NEW v \in Loops(A, T, A0)
        PROVE  u \o v \in Loops(A, T, A0)
    <2>1. u \in Scripts /\ v \in Scripts /\ u \o v \in Scripts
      BY ScriptsConcat DEF Loops
    <2>2. ASSUME NEW a \in A0 PROVE \E c \in A0 : Takes(A, T, a, u \o v, c)
      <3>1. PICK b \in A0 : Takes(A, T, a, u, b)
        BY DEF Loops
      <3>2. PICK c \in A0 : Takes(A, T, b, v, c)
        BY DEF Loops
      <3>3. a \in A /\ b \in A /\ c \in A
        OBVIOUS
      <3>4. Takes(A, T, a, u \o v, c)
        BY <2>1, <3>1, <3>2, <3>3, TakesOn
      <3>. QED
        BY <3>4
    <2>. QED
      BY <2>1, <2>2 DEF Loops
  <1>. QED
    BY <1>1, <1>2 DEF Closed, Loops

\* Scripts that take every value back to itself.
Fixes(A, T) == {s \in Scripts : \A a \in A : Takes(A, T, a, s, a)}

\* So do scripts that leave every value alone.
LEMMA FixesClosed ==
    ASSUME NEW A, NEW T
    PROVE  Closed(Fixes(A, T))
  <1>1. <<>> \in Fixes(A, T)
    <2>1. \A a \in A : Takes(A, T, a, <<>>, a)
      BY TakesNone
    <2>. QED
      BY <2>1, ScriptsConcat DEF Fixes
  <1>2. ASSUME NEW u \in Fixes(A, T), NEW v \in Fixes(A, T) PROVE u \o v \in Fixes(A, T)
    <2>1. u \in Scripts /\ v \in Scripts /\ u \o v \in Scripts
      BY ScriptsConcat DEF Fixes
    <2>2. ASSUME NEW a \in A PROVE Takes(A, T, a, u \o v, a)
      <3>1. Takes(A, T, a, u, a) /\ Takes(A, T, a, v, a)
        BY DEF Fixes
      <3>. QED
        BY <2>1, <3>1, TakesOn
    <2>. QED
      BY <2>1, <2>2 DEF Fixes
  <1>. QED
    BY <1>1, <1>2 DEF Closed, Fixes

\* A step that takes each of A0 to one of them.
LEMMA LoopsOne ==
    ASSUME NEW A, NEW T, NEW A0 \in SUBSET A, NEW x \in Steps,
           \A a \in A0 : \E b \in A0 : <<a, x, b>> \in T
    PROVE  <<x>> \in Loops(A, T, A0)
  <1>1. <<x>> \in Scripts
    BY DEF Scripts
  <1>2. ASSUME NEW a \in A0 PROVE \E b \in A0 : Takes(A, T, a, <<x>>, b)
    <2>1. PICK b \in A0 : <<a, x, b>> \in T
      OBVIOUS
    <2>2. a \in A /\ b \in A
      OBVIOUS
    <2>3. Takes(A, T, a, <<x>>, b)
      BY <2>1, <2>2, TakesOne
    <2>. QED
      BY <2>3
  <1>. QED
    BY <1>1, <1>2 DEF Loops
-----------------------------------------------------------------------------
\* What the verifier owes along a script that takes in and draws nothing while
\* it owes a check.
OwedAfter(owes, step) ==
    IF step.op = "record" THEN owes \cup step.owes
    ELSE IF step.op = "check" THEN owes \ {step.check} ELSE owes

OwedSteps ==
    {p \in (SUBSET Checks) \X Steps \X (SUBSET Checks) :
        /\ p[2].op \in {"absorb", "draw"} => p[1] = {}
        /\ p[3] = OwedAfter(p[1], p[2])}

Settled == Loops(SUBSET Checks, OwedSteps, {{}})

\* To be settled, as a run: nothing owed before, nothing after.
LEMMA SettledTakes ==
    \A s \in Scripts : s \in Settled <=> Takes(SUBSET Checks, OwedSteps, {}, s, {})
  BY DEF Settled, Loops

\* What is no record with a debt and no check settles.
LEMMA SettledCommon == Closed(Settled) /\ Common(Settled) /\ Hint \in Settled /\ Refuse \in Settled
  <1>1. {{}} \in SUBSET SUBSET Checks
    OBVIOUS
  <1>2. ASSUME NEW x \in Steps, <<{}, x, {}>> \in OwedSteps PROVE <<x>> \in Settled
    <2>1. \A a \in {{}} : \E b \in {{}} : <<a, x, b>> \in OwedSteps
      BY <1>2
    <2>. QED
      BY <1>1, <2>1, LoopsOne DEF Settled
  <1>3. Closed(Settled)
    BY <1>1, LoopsClosed DEF Settled
  <1>4. ASSUME NEW x \in Steps, x.op \in {"absorb", "draw", "nonce", "hint", "refuse"}
        PROVE  <<x>> \in Settled
    <2>1. <<{}, x, {}>> \in OwedSteps
      BY <1>4 DEF OwedSteps, OwedAfter
    <2>. QED
      BY <1>2, <2>1
  <1>5. \A x \in Seq(Input) : Absorb(x) \in Settled
    <2>1. ASSUME NEW x \in Seq(Input) PROVE Absorb(x) \in Settled
      <3>1. [op |-> "absorb", cells |-> x] \in Steps
        BY DEF Steps
      <3>. QED
        BY <1>4, <3>1 DEF Absorb
    <2>. QED
      BY <2>1
  <1>6. ASSUME NEW n \in Nat, NEW e \in Nat PROVE Draw(n, e) \in Settled
    <2>1. [op |-> "draw", count |-> n, error |-> e] \in Steps
      BY DEF Steps
    <2>. QED
      BY <1>4, <2>1 DEF Draw
  <1>7. ASSUME NEW bits \in Nat PROVE Nonce(bits) \in Settled
    <2>1. [op |-> "nonce", bits |-> bits] \in Steps
      BY DEF Steps
    <2>. QED
      BY <1>4, <2>1 DEF Nonce
  <1>8. ASSUME NEW n \in Nat PROVE Record(n, {}) \in Settled
    <2>1. [op |-> "record", count |-> n, owes |-> {}] \in Steps
      BY DEF Steps
    <2>2. <<{}, [op |-> "record", count |-> n, owes |-> {}], {}>> \in OwedSteps
      BY <2>1 DEF OwedSteps, OwedAfter
    <2>. QED
      BY <1>2, <2>1, <2>2 DEF Record
  <1>9. Hint \in Settled /\ Refuse \in Settled
    <2>1. [op |-> "hint"] \in Steps /\ [op |-> "refuse"] \in Steps
      BY DEF Steps
    <2>. QED
      BY <1>4, <2>1 DEF Hint, Refuse
  <1>. QED
    BY <1>3, <1>5, <1>6, <1>7, <1>8, <1>9 DEF Common

\* Records that owe checks, and those checks, settle.
LEMMA SettledChecked == Checked(Settled)
  <1> DEFINE C == SUBSET Checks
  <1>1. ASSUME NEW n \in Nat, NEW owes \in C, NEW a \in C
        PROVE  Takes(C, OwedSteps, a, Record(n, owes), a \cup owes)
    <2> DEFINE x == [op |-> "record", count |-> n, owes |-> owes]
    <2>1. x \in Steps /\ a \cup owes \in C
      BY DEF Steps
    <2>2. <<a, x, a \cup owes>> \in OwedSteps
      BY <2>1 DEF OwedSteps, OwedAfter
    <2>3. Record(n, owes) = <<x>>
      BY DEF Record
    <2> DEFINE b == a \cup owes
    <2> HIDE DEF x, b, C
    <2>4. Takes(C, OwedSteps, a, <<x>>, b)
      BY <2>1, <2>2, TakesOne DEF b
    <2>. QED
      BY <2>3, <2>4 DEF b
  <1>2. ASSUME NEW check \in Checks, NEW a \in C
        PROVE  Takes(C, OwedSteps, a, Check(check), a \ {check})
    <2> DEFINE x == [op |-> "check", check |-> check]
    <2>1. x \in Steps /\ a \ {check} \in C
      BY DEF Steps
    <2>2. <<a, x, a \ {check}>> \in OwedSteps
      BY <2>1 DEF OwedSteps, OwedAfter
    <2>3. Check(check) = <<x>>
      BY DEF Check
    <2> DEFINE b == a \ {check}
    <2> HIDE DEF x, b, C
    <2>4. Takes(C, OwedSteps, a, <<x>>, b)
      BY <2>1, <2>2, TakesOne DEF b
    <2>. QED
      BY <2>3, <2>4 DEF b
  <1>3. ASSUME NEW u \in Scripts, NEW v \in Scripts, NEW a \in C, NEW b \in C, NEW c \in C,
               Takes(C, OwedSteps, a, u, b), Takes(C, OwedSteps, b, v, c)
        PROVE  Takes(C, OwedSteps, a, u \o v, c)
    BY <1>3, TakesOn
  <1> HIDE DEF C
  <1>4. ASSUME NEW n \in Nat, NEW check \in Checks
        PROVE  Record(n, {check}) \o Check(check) \in Settled
    <2>1. {check} \in C /\ {} \in C /\ {} \cup {check} = {check} /\ {check} \ {check} = {}
      BY DEF C
    <2>2. Takes(C, OwedSteps, {}, Record(n, {check}), {check})
      <3>1. Takes(C, OwedSteps, {}, Record(n, {check}), {} \cup {check})
        BY <1>1, <2>1
      <3>. QED
        BY <2>1, <3>1
    <2>3. Takes(C, OwedSteps, {check}, Check(check), {})
      <3>1. Takes(C, OwedSteps, {check}, Check(check), {check} \ {check})
        BY <1>2, <2>1
      <3>. QED
        BY <2>1, <3>1
    <2>4. Record(n, {check}) \in Scripts /\ Check(check) \in Scripts
      BY <2>1, StepsOfScripts DEF C
    <2>5. Takes(C, OwedSteps, {}, Record(n, {check}) \o Check(check), {})
      BY <1>3, <2>1, <2>2, <2>3, <2>4
    <2>. QED
      BY <2>4, <2>5, ScriptsConcat, SettledTakes DEF C
  <1>5. ASSUME NEW n \in Nat
        PROVE  Times(n, Record(1, {"range", "reconstruct"})) \o Check("range") \o Check("reconstruct") \in Settled
    <2> DEFINE both == {"range", "reconstruct"}
               r == Record(1, both)
               H == Loops(C, OwedSteps, SUBSET both)
    <2>1. /\ both \in C /\ SUBSET both \in SUBSET C /\ {} \in C /\ {} \in SUBSET both
          /\ "range" \in Checks /\ "reconstruct" \in Checks
      BY DEF C, Checks
    <2>2. r \in Scripts /\ Check("range") \in Scripts /\ Check("reconstruct") \in Scripts
      BY <2>1, StepsOfScripts DEF C
    <2>3. r \in H
      <3>1. ASSUME NEW a \in SUBSET both PROVE \E b \in SUBSET both : Takes(C, OwedSteps, a, r, b)
        <4>1. a \in C /\ a \cup both \in SUBSET both
          BY <2>1
        <4>2. Takes(C, OwedSteps, a, r, a \cup both)
          BY <1>1, <2>1, <4>1
        <4>. QED
          BY <4>1, <4>2
      <3>. QED
        BY <2>2, <3>1 DEF Loops
    <2>4. Times(n, r) \in H
      <3>1. Closed(H)
        BY <2>1, LoopsClosed
      <3>. QED
        BY <2>3, <3>1, TimesKeeps DEF Closed
    <2>5. PICK b \in SUBSET both : Takes(C, OwedSteps, {}, Times(n, r), b)
      BY <2>1, <2>4 DEF Loops
    <2>6. b \in C /\ b \ {"range"} \in C /\ (b \ {"range"}) \ {"reconstruct"} = {}
      BY <2>1 DEF C
    <2>7. Takes(C, OwedSteps, b, Check("range"), b \ {"range"})
      BY <1>2, <2>1, <2>6
    <2>8. Takes(C, OwedSteps, b \ {"range"}, Check("reconstruct"), {})
      <3>1. Takes(C, OwedSteps, b \ {"range"}, Check("reconstruct"), (b \ {"range"}) \ {"reconstruct"})
        BY <1>2, <2>1, <2>6
      <3>. QED
        BY <2>6, <3>1
    <2>9. Times(n, r) \in Scripts /\ Times(n, r) \o Check("range") \in Scripts
      BY <2>2, ScriptsTimes, ScriptsConcat
    <2> HIDE DEF r
    <2>10. Takes(C, OwedSteps, {}, Times(n, r) \o Check("range"), b \ {"range"})
      BY <1>3, <2>1, <2>2, <2>5, <2>6, <2>7, <2>9
    <2>11. Takes(C, OwedSteps, {}, Times(n, r) \o Check("range") \o Check("reconstruct"), {})
      BY <1>3, <2>1, <2>2, <2>6, <2>8, <2>9, <2>10
    <2>12. Times(n, r) \o Check("range") \o Check("reconstruct") \in Scripts
      BY <2>2, <2>9, ScriptsConcat
    <2>13. Times(n, r) \o Check("range") \o Check("reconstruct") \in Settled
      BY <2>11, <2>12, SettledTakes DEF C
    <2>. QED
      BY <2>13 DEF r
  <1>6. Check("opening") \in Settled
    <2>1. {} \in C /\ "opening" \in Checks /\ {} \ {"opening"} = {}
      BY DEF C, Checks
    <2>2. Takes(C, OwedSteps, {}, Check("opening"), {} \ {"opening"})
      BY <1>2, <2>1
    <2>. QED
      BY <2>1, <2>2, StepsOfScripts, SettledTakes DEF C
  <1>7. "product" \in Checks /\ "evaluation" \in Checks /\ "target" \in Checks /\ ClaimCount \in Nat
    BY ScriptAssumption DEF Checks
  <1>. QED
    BY <1>4, <1>5, <1>6, <1>7 DEF Checked

\* The verifier's script leaves no check out.
LEMMA VerifierSettled ==
    ASSUME NEW st \in Statements
    PROVE  Takes(SUBSET Checks, OwedSteps, {}, VerifierScript(st), {})
  <1>1. Closed(Settled)
    BY SettledCommon
  <1>2. PICK before \in Settled, after \in Settled : VerifierScript(st) = before \o (Hint \o after)
    BY SettledCommon, SettledChecked, VerifierIn
  <1>3. VerifierScript(st) \in Settled
    BY <1>1, <1>2, SettledCommon DEF Closed
  <1>. QED
    BY <1>1, <1>3, SettledTakes DEF Closed
-----------------------------------------------------------------------------
\* Cells of narg string written or read, and hints.
CellSteps == {p \in Nat \X Steps \X Nat : p[2].op # "refuse" /\ p[3] = p[1] + CellsOf(p[2])}
HintCounts == {0, 1}
HintSteps ==
    {p \in HintCounts \X Steps \X HintCounts : p[3] = IF p[2].op = "hint" THEN p[1] + 1 ELSE p[1]}

\* Cells are counted step by step, and the pieces above are neutral to it.
LEMMA CellsNeutral ==
    /\ Neutral(Nat, CellSteps)
    /\ \A x \in Steps : CellsOf(x) \in Nat
    /\ \A a, b \in Nat, x \in Steps :
          <<a, x, b>> \in CellSteps <=> x.op # "refuse" /\ b = a + CellsOf(x)
  <1>1. ASSUME NEW x \in Steps PROVE CellsOf(x) \in Nat
    <2>1. CASE x.op = "record"
      <3>1. x.count \in Nat
        BY <2>1 DEF Steps
      <3>. QED
        BY <2>1, <3>1 DEF CellsOf
    <2>2. CASE x.op = "nonce"
      BY <2>2, TranscriptAssumption DEF CellsOf
    <2>3. CASE x.op # "record" /\ x.op # "nonce"
      BY <2>3 DEF CellsOf
    <2>. QED
      BY <2>1, <2>2, <2>3
  <1>2. ASSUME NEW a \in Nat, NEW b \in Nat, NEW x \in Steps
        PROVE  <<a, x, b>> \in CellSteps <=> x.op # "refuse" /\ b = a + CellsOf(x)
    BY DEF CellSteps
  <1>3. Neutral(Nat, CellSteps)
    <2> SUFFICES ASSUME NEW a \in Nat, NEW b \in Nat
                 PROVE  /\ \A check \in Checks :
                              <<a, [op |-> "check", check |-> check], b>> \in CellSteps <=> a = b
                        /\ <<a, [op |-> "hint"], b>> \in CellSteps <=> a = b
                        /\ \A n \in Nat, owes \in SUBSET Checks :
                              <<a, [op |-> "record", count |-> n, owes |-> owes], b>> \in CellSteps
                              <=> <<a, [op |-> "record", count |-> n, owes |-> {}], b>> \in CellSteps
                        /\ \A x, y \in Seq(Input) :
                              <<a, [op |-> "absorb", cells |-> x \o y], b>> \in CellSteps
                              <=> \E c \in Nat : /\ <<a, [op |-> "absorb", cells |-> x], c>> \in CellSteps
                                                 /\ <<c, [op |-> "absorb", cells |-> y], b>> \in CellSteps
      BY DEF Neutral
    <2>1. ASSUME NEW check \in Checks
          PROVE  <<a, [op |-> "check", check |-> check], b>> \in CellSteps <=> a = b
      <3> DEFINE x == [op |-> "check", check |-> check]
      <3>1. x \in Steps /\ x.op # "refuse" /\ CellsOf(x) = 0
        BY DEF Steps, CellsOf
      <3> HIDE DEF x
      <3>2. <<a, x, b>> \in CellSteps <=> a = b
        BY <1>2, <3>1
      <3>. QED
        BY <3>2 DEF x
    <2>2. <<a, [op |-> "hint"], b>> \in CellSteps <=> a = b
      <3> DEFINE x == [op |-> "hint"]
      <3>1. x \in Steps /\ x.op # "refuse" /\ CellsOf(x) = 0
        BY DEF Steps, CellsOf
      <3> HIDE DEF x
      <3>2. <<a, x, b>> \in CellSteps <=> a = b
        BY <1>2, <3>1
      <3>. QED
        BY <3>2 DEF x
    <2>3. ASSUME NEW n \in Nat, NEW owes \in SUBSET Checks
          PROVE  <<a, [op |-> "record", count |-> n, owes |-> owes], b>> \in CellSteps
                 <=> <<a, [op |-> "record", count |-> n, owes |-> {}], b>> \in CellSteps
      <3> DEFINE x == [op |-> "record", count |-> n, owes |-> owes]
                 y == [op |-> "record", count |-> n, owes |-> {}]
      <3>1. x \in Steps /\ x.op # "refuse" /\ CellsOf(x) = n /\ y \in Steps /\ y.op # "refuse" /\ CellsOf(y) = n
        BY DEF Steps, CellsOf
      <3> HIDE DEF x, y
      <3>2. <<a, x, b>> \in CellSteps <=> <<a, y, b>> \in CellSteps
        BY <1>2, <3>1
      <3>. QED
        BY <3>2 DEF x, y
    <2>4. ASSUME NEW x \in Seq(Input), NEW y \in Seq(Input)
          PROVE  <<a, [op |-> "absorb", cells |-> x \o y], b>> \in CellSteps
                 <=> \E c \in Nat : /\ <<a, [op |-> "absorb", cells |-> x], c>> \in CellSteps
                                    /\ <<c, [op |-> "absorb", cells |-> y], b>> \in CellSteps
      <3> DEFINE step(z) == [op |-> "absorb", cells |-> z]
      <3>1. \A z \in Seq(Input) : step(z) \in Steps /\ step(z).op # "refuse" /\ CellsOf(step(z)) = 0
        BY DEF Steps, CellsOf
      <3>2. x \o y \in Seq(Input)
        BY InputsConcat
      <3> HIDE DEF step
      <3>3. \A z \in Seq(Input), c, d \in Nat : <<c, step(z), d>> \in CellSteps <=> c = d
        BY <1>2, <3>1
      <3>4. <<a, step(x \o y), b>> \in CellSteps
            <=> \E c \in Nat : <<a, step(x), c>> \in CellSteps /\ <<c, step(y), b>> \in CellSteps
        BY <3>2, <3>3
      <3>. QED
        BY <3>4 DEF step
    <2>. QED
      BY <2>1, <2>2, <2>3, <2>4
  <1>. QED
    BY <1>1, <1>2, <1>3

\* A run of a script counts its cells.
Cells(s) == Len(FlattenSeq([i \in DOMAIN s |-> [j \in 1..CellsOf(s[i]) |-> 0]]))

\* A run counts the cells of its script.
LEMMA CellsCounted ==
    \A s \in Scripts, a, b \in Nat : Takes(Nat, CellSteps, a, s, b) => b = a + Cells(s)
  <1> DEFINE zeros(s) == [i \in DOMAIN s |-> [j \in 1..CellsOf(s[i]) |-> 0]]
             S == {n \in Nat : \A s \in Scripts, a, b \in Nat :
                      Len(s) = n /\ Takes(Nat, CellSteps, a, s, b) => b = a + Cells(s)}
  <1>1. \A s \in Scripts : zeros(s) \in Seq(Seq(Nat)) /\ Cells(s) = Len(FlattenSeq(zeros(s)))
    <2>1. ASSUME NEW s \in Scripts PROVE zeros(s) \in Seq(Seq(Nat))
      <3>1. DOMAIN s = 1..Len(s) /\ Len(s) \in Nat /\ \A i \in 1..Len(s) : s[i] \in Steps
        BY LenProperties, ElementOfSeq DEF Scripts
      <3>2. \A i \in 1..Len(s) : CellsOf(s[i]) \in Nat
        BY <3>1, CellsNeutral
      <3>3. \A i \in 1..Len(s) : [j \in 1..CellsOf(s[i]) |-> 0] \in Seq(Nat)
        BY <3>2
      <3>. QED
        BY <3>1, <3>3
    <2>. QED
      BY <2>1 DEF Cells
  <1>2. 0 \in S
    <2>1. ASSUME NEW s \in Scripts, NEW a \in Nat, NEW b \in Nat, Len(s) = 0, Takes(Nat, CellSteps, a, s, b)
          PROVE  b = a + Cells(s)
      <3>1. s = <<>>
        BY <2>1, EmptySeq DEF Scripts
      <3>2. a = b
        BY <2>1, <3>1, TakesNone
      <3>3. zeros(<<>>) = <<>> /\ Len(<<>>) = 0
        OBVIOUS
      <3>4. Cells(s) = 0
        BY <1>1, <3>1, <3>3, FlattenEmpty, ScriptsConcat
      <3>. QED
        BY <3>2, <3>4
    <2>. QED
      BY <2>1
  <1>3. ASSUME NEW n \in Nat, n \in S PROVE n + 1 \in S
    <2>1. ASSUME NEW s \in Scripts, NEW a \in Nat, NEW c \in Nat, Len(s) = n + 1, Takes(Nat, CellSteps, a, s, c)
          PROVE  c = a + Cells(s)
      <3> DEFINE u == SubSeq(s, 1, n)
                 x == s[n + 1]
                 row == [j \in 1..CellsOf(x) |-> 0]
      <3>1. s \in Seq(Steps) /\ x \in Steps
        BY <2>1, ElementOfSeq, LenProperties DEF Scripts
      <3>2. u \in Scripts /\ Len(u) = n /\ \A i \in 1..n : u[i] = s[i]
        BY <2>1, <3>1, SubSeqProperties, LenProperties DEF Scripts
      <3>3. s = Append(u, x) /\ s = u \o <<x>>
        <4> HIDE DEF u, x
        <4>1. Append(u, x) = u \o <<x>>
          BY <3>1, <3>2, AppendIsConcat DEF Scripts
        <4>2. Append(u, x) \in Seq(Steps) /\ Len(Append(u, x)) = n + 1
              /\ (\A i \in 1..n : Append(u, x)[i] = u[i]) /\ Append(u, x)[n + 1] = x
          BY <3>1, <3>2, AppendProperties DEF Scripts
        <4>3. \A i \in 1..n + 1 : Append(u, x)[i] = s[i]
          <5>1. \A i \in 1..n + 1 : i \in 1..n \/ i = n + 1
            OBVIOUS
          <5>. QED
            BY <3>2, <4>2, <5>1 DEF x
        <4>4. s = Append(u, x)
          BY <2>1, <3>1, <4>2, <4>3, SeqEqual
        <4>. QED
          BY <4>1, <4>4
      <3>4. zeros(s) = Append(zeros(u), row)
        <4>1. DOMAIN s = 1..n + 1 /\ DOMAIN u = 1..n
          BY <2>1, <3>1, <3>2, LenProperties DEF Scripts
        <4>2. zeros(s) \in Seq(Seq(Nat)) /\ zeros(u) \in Seq(Seq(Nat)) /\ row \in Seq(Nat)
          <5>1. CellsOf(x) \in Nat
            BY <3>1, CellsNeutral
          <5>2. row \in Seq(Nat)
            BY <5>1
          <5>. QED
            BY <1>1, <3>2, <5>2
        <4>3. Len(zeros(s)) = n + 1 /\ Len(zeros(u)) = n
          BY <4>1
        <4>4. \A i \in 1..n : zeros(u)[i] = zeros(s)[i]
          <5>1. ASSUME NEW i \in 1..n PROVE zeros(u)[i] = zeros(s)[i]
            <6>1. u[i] = s[i] /\ i \in DOMAIN s /\ i \in DOMAIN u
              BY <3>2, <4>1
            <6> HIDE DEF u
            <6>. QED
              BY <6>1
          <5>. QED
            BY <5>1
        <4>5. zeros(s)[n + 1] = row
          <5>1. n + 1 \in DOMAIN s
            BY <4>1
          <5>. QED
            BY <5>1
        <4> HIDE DEF zeros, row, u, x
        <4>6. /\ Append(zeros(u), row) \in Seq(Seq(Nat)) /\ Len(Append(zeros(u), row)) = n + 1
              /\ \A i \in 1..n : Append(zeros(u), row)[i] = zeros(u)[i]
              /\ Append(zeros(u), row)[n + 1] = row
          BY <4>2, <4>3, AppendProperties
        <4>7. \A i \in 1..n + 1 : zeros(s)[i] = Append(zeros(u), row)[i]
          <5>1. \A i \in 1..n + 1 : i \in 1..n \/ i = n + 1
            OBVIOUS
          <5>. QED
            BY <4>4, <4>5, <4>6, <5>1
        <4>. QED
          BY <4>2, <4>3, <4>6, <4>7, SeqEqual
      <3>5. row \in Seq(Nat) /\ Len(row) = CellsOf(x) /\ CellsOf(x) \in Nat
        BY <3>1, CellsNeutral
      <3> HIDE DEF x
      <3>6. Cells(s) = Cells(u) + CellsOf(x)
        <4> HIDE DEF row, u, zeros
        <4>1. FlattenSeq(Append(zeros(u), row)) = FlattenSeq(zeros(u)) \o row /\ FlattenSeq(zeros(u)) \in Seq(Nat)
          BY <1>1, <3>2, <3>5, FlattenAppend, FlattenType
        <4>2. Len(FlattenSeq(zeros(u)) \o row) = Len(FlattenSeq(zeros(u))) + Len(row)
          BY <3>5, <4>1, ConcatProperties
        <4>3. Cells(s) = Len(FlattenSeq(zeros(s))) /\ Cells(u) = Len(FlattenSeq(zeros(u)))
          BY <1>1, <3>2
        <4>. QED
          BY <3>4, <3>5, <4>1, <4>2, <4>3
      <3> HIDE DEF u
      <3>7. <<x>> \in Scripts
        BY <3>1 DEF Scripts
      <3>8. PICK b \in Nat : Takes(Nat, CellSteps, a, u, b) /\ Takes(Nat, CellSteps, b, <<x>>, c)
        <4>1. Takes(Nat, CellSteps, a, u \o <<x>>, c)
          BY <2>1, <3>3
        <4>. QED
          BY <3>2, <3>7, <4>1, TakesOn
      <3>9. b = a + Cells(u)
        BY <1>3, <3>2, <3>8
      <3>10. c = b + CellsOf(x)
        <4>1. <<b, x, c>> \in CellSteps
          BY <3>1, <3>8, TakesOne
        <4>. QED
          BY <3>1, <4>1, CellsNeutral
      <3>11. Cells(u) \in Nat
        <4> HIDE DEF zeros
        <4>. QED
          BY <1>1, <3>2, FlattenType, LenProperties
      <3>. QED
        BY <3>5, <3>6, <3>9, <3>10, <3>11
    <2>. QED
      BY <2>1
  <1>4. Nat \subseteq S
    <2> HIDE DEF S
    <2>. QED
      BY <1>2, <1>3, SetInduction
  <1>5. \A s \in Scripts : Len(s) \in Nat
    BY LenProperties DEF Scripts
  <1>. QED
    BY <1>4, <1>5

\* Both scripts have the cells a prover writes.
LEMMA WireCounted ==
    ASSUME NEW st \in Statements, NEW b \in Nat
    PROVE  /\ Takes(Nat, CellSteps, 0, ProverScript(st), b) => b = WireCells(st)
           /\ Takes(Nat, CellSteps, 0, VerifierScript(st), b) => b = WireCells(st)
  <1>1. ProverScript(st) \in Scripts /\
        (Takes(Nat, CellSteps, 0, ProverScript(st), b) <=> Takes(Nat, CellSteps, 0, VerifierScript(st), b))
    <2>1. CASE Mismatched(st)
      <3>1. \A c, d \in Nat : <<c, [op |-> "refuse"], d>> \notin CellSteps
        BY DEF CellSteps
      <3>2. ~ Takes(Nat, CellSteps, 0, ProverScript(st), b) /\ ~ Takes(Nat, CellSteps, 0, VerifierScript(st), b)
        BY <2>1, <3>1, RefusalEnds
      <3>. QED
        BY <3>2, ScriptsOfStatement
    <2>2. CASE ~ Mismatched(st)
      BY <2>2, CellsNeutral, ScriptsSame DEF Same
    <2>. QED
      BY <2>1, <2>2
  <1>2. WireCells(st) = Cells(ProverScript(st))
    BY DEF WireCells, Cells
  <1>3. Cells(ProverScript(st)) \in Nat
    <2> DEFINE s == ProverScript(st)
    <2>1. DOMAIN s = 1..Len(s) /\ Len(s) \in Nat /\ \A i \in 1..Len(s) : s[i] \in Steps
      BY <1>1, LenProperties, ElementOfSeq DEF Scripts
    <2> HIDE DEF s
    <2>2. \A i \in 1..Len(s) : [j \in 1..CellsOf(s[i]) |-> 0] \in Seq(Nat)
      BY <2>1, CellsNeutral
    <2>3. [i \in DOMAIN s |-> [j \in 1..CellsOf(s[i]) |-> 0]] \in Seq(Seq(Nat))
      BY <2>1, <2>2
    <2>4. Cells(s) \in Nat
      BY <2>3, FlattenType, LenProperties DEF Cells
    <2>. QED
      BY <2>4 DEF s
  <1>4. Takes(Nat, CellSteps, 0, ProverScript(st), b) => b = 0 + Cells(ProverScript(st))
    BY <1>1, CellsCounted
  <1>. QED
    BY <1>1, <1>2, <1>3, <1>4

\* Both scripts have one hint.
LEMMA HintCounted ==
    ASSUME NEW st \in Statements
    PROVE  /\ Takes(HintCounts, HintSteps, 0, ProverScript(st), 1)
           /\ Takes(HintCounts, HintSteps, 0, VerifierScript(st), 1)
  <1> DEFINE A == HintCounts
             G == Fixes(A, HintSteps)
  <1>1. Closed(G)
    BY FixesClosed
  <1>2. ASSUME NEW x \in Steps, x.op # "hint" PROVE <<x>> \in G
    <2>1. ASSUME NEW a \in A PROVE Takes(A, HintSteps, a, <<x>>, a)
      <3>1. <<a, x, a>> \in HintSteps
        BY <1>2 DEF HintSteps, HintCounts
      <3>. QED
        BY <3>1, TakesOne
    <2>. QED
      BY <2>1 DEF Fixes, Scripts
  <1>3. Common(G) /\ Checked(G) /\ Refuse \in G
    BY <1>1, <1>2, StepsMake
  <1>4. Takes(A, HintSteps, 0, Hint, 1) /\ Hint \in Scripts
    <2>1. [op |-> "hint"] \in Steps
      BY DEF Steps
    <2>2. <<0, [op |-> "hint"], 1>> \in HintSteps
      BY <2>1 DEF HintSteps, HintCounts
    <2>. QED
      BY <2>1, <2>2, TakesOne, StepsOfScripts DEF Hint, HintCounts
  <1>5. ASSUME NEW u \in G, NEW v \in G
        PROVE  Takes(A, HintSteps, 0, u \o (Hint \o v), 1)
    <2>1. /\ u \in Scripts /\ v \in Scripts /\ Hint \o v \in Scripts /\ 0 \in A /\ 1 \in A
          /\ Takes(A, HintSteps, 0, u, 0) /\ Takes(A, HintSteps, 1, v, 1)
      BY <1>4, ScriptsConcat DEF Fixes, HintCounts
    <2> HIDE DEF A
    <2>2. Takes(A, HintSteps, 0, Hint \o v, 1)
      BY <1>4, <2>1, TakesOn
    <2>. QED
      BY <2>1, <2>2, TakesOn
  <1> HIDE DEF G, A
  <1>6. Takes(A, HintSteps, 0, VerifierScript(st), 1)
    <2>1. PICK u \in G, v \in G : VerifierScript(st) = u \o (Hint \o v)
      BY <1>1, <1>3, VerifierIn
    <2>. QED
      BY <1>5, <2>1
  <1>7. Takes(A, HintSteps, 0, ProverScript(st), 1)
    <2>1. PICK u \in G : ProverScript(st) = u \o Hint
      BY <1>1, <1>3, ProverIn
    <2>2. <<>> \in G /\ Hint \o <<>> = Hint
      BY <1>1, <1>4, ScriptsConcat DEF Closed
    <2>3. ProverScript(st) = u \o (Hint \o <<>>)
      BY <2>1, <2>2
    <2>. QED
      BY <1>5, <2>2, <2>3
  <1>. QED
    BY <1>6, <1>7 DEF A

\* The first step of a script with one hint in it, or none.
LEMMA HintTaken ==
    ASSUME NEW s \in Scripts, s # <<>>, NEW k \in HintCounts, Takes(HintCounts, HintSteps, k, s, 1)
    PROVE  \E c \in HintCounts : /\ c = IF Head(s).op = "hint" THEN k + 1 ELSE k
                                /\ Takes(HintCounts, HintSteps, c, Tail(s), 1)
  <1>1. 1 \in HintCounts
    BY DEF HintCounts
  <1>2. PICK c \in HintCounts : <<k, Head(s), c>> \in HintSteps /\ Takes(HintCounts, HintSteps, c, Tail(s), 1)
    BY <1>1, TakesFirst
  <1>3. c = IF Head(s).op = "hint" THEN k + 1 ELSE k
    BY <1>2 DEF HintSteps
  <1>. QED
    BY <1>2, <1>3
-----------------------------------------------------------------------------
\* Bytes one of which is taken out, put in or altered.
LEMMA BytesEdited ==
    ASSUME NEW s \in Seq(Byte)
    PROVE  /\ \A i \in DOMAIN s : RemoveAt(s, i) \in Seq(Byte) /\ Len(RemoveAt(s, i)) = Len(s) - 1
           /\ \A i \in 1..Len(s) + 1, x \in Byte :
                InsertAt(s, i, x) \in Seq(Byte) /\ Len(InsertAt(s, i, x)) = Len(s) + 1
           /\ \A i \in DOMAIN s, x \in Byte :
                [s EXCEPT ![i] = x] \in Seq(Byte) /\ Len([s EXCEPT ![i] = x]) = Len(s)
  <1>1. DOMAIN s = 1..Len(s) /\ Len(s) \in Nat
    BY LenProperties
  <1>2. \A m \in 1..Len(s) + 1, n \in 0..Len(s) :
            m <= n + 1 => SubSeq(s, m, n) \in Seq(Byte) /\ Len(SubSeq(s, m, n)) = (n + 1) - m
    <2>1. ASSUME NEW m \in 1..Len(s) + 1, NEW n \in 0..Len(s), m <= n + 1
          PROVE  SubSeq(s, m, n) \in Seq(Byte) /\ Len(SubSeq(s, m, n)) = (n + 1) - m
      <3>1. m..n \subseteq 1..Len(s)
        BY <1>1, <2>1
      <3>2. \A i \in m..n : s[i] \in Byte
        BY <3>1, ElementOfSeq
      <3>. QED
        BY <1>1, <2>1, <3>1, <3>2, SubSeqProperties
    <2>. QED
      BY <2>1
  <1>3. ASSUME NEW i \in DOMAIN s
        PROVE  RemoveAt(s, i) \in Seq(Byte) /\ Len(RemoveAt(s, i)) = Len(s) - 1
    <2> DEFINE u == SubSeq(s, 1, i - 1)
               v == SubSeq(s, i + 1, Len(s))
    <2>1. i \in 1..Len(s) /\ i - 1 \in 0..Len(s) /\ i + 1 \in 1..Len(s) + 1
      BY <1>1
    <2>2. u \in Seq(Byte) /\ Len(u) = i - 1
      <3>1. u \in Seq(Byte) /\ Len(u) = ((i - 1) + 1) - 1
        BY <1>1, <1>2, <2>1
      <3>. QED
        BY <2>1, <3>1
    <2>3. v \in Seq(Byte) /\ Len(v) = Len(s) - i
      <3>1. v \in Seq(Byte) /\ Len(v) = (Len(s) + 1) - (i + 1)
        BY <1>1, <1>2, <2>1
      <3>. QED
        BY <1>1, <2>1, <3>1
    <2>4. RemoveAt(s, i) = u \o v
      BY DEF RemoveAt
    <2> HIDE DEF u, v
    <2>5. u \o v \in Seq(Byte) /\ Len(u \o v) = Len(u) + Len(v)
      BY <2>2, <2>3, ConcatProperties
    <2>. QED
      BY <1>1, <2>1, <2>2, <2>3, <2>4, <2>5
  <1>4. ASSUME NEW i \in 1..Len(s) + 1, NEW x \in Byte
        PROVE  InsertAt(s, i, x) \in Seq(Byte) /\ Len(InsertAt(s, i, x)) = Len(s) + 1
    <2> DEFINE u == SubSeq(s, 1, i - 1)
               v == SubSeq(s, i, Len(s))
               w == u \o <<x>>
    <2>1. i - 1 \in 0..Len(s) /\ i \in Nat
      BY <1>1
    <2>2. u \in Seq(Byte) /\ Len(u) = i - 1
      <3>1. u \in Seq(Byte) /\ Len(u) = ((i - 1) + 1) - 1
        BY <1>1, <1>2, <2>1
      <3>. QED
        BY <2>1, <3>1
    <2>3. v \in Seq(Byte) /\ Len(v) = (Len(s) + 1) - i
      BY <1>1, <1>2, <2>1
    <2>4. InsertAt(s, i, x) = w \o v
      BY DEF InsertAt
    <2> HIDE DEF u, v
    <2>5. w \in Seq(Byte) /\ Len(w) = i
      BY <2>1, <2>2, ConcatProperties
    <2> HIDE DEF w
    <2>. QED
      BY <1>1, <2>1, <2>3, <2>4, <2>5, ConcatProperties
  <1>5. ASSUME NEW i \in DOMAIN s, NEW x \in Byte
        PROVE  [s EXCEPT ![i] = x] \in Seq(Byte) /\ Len([s EXCEPT ![i] = x]) = Len(s)
    BY <1>1, ExceptSeq
  <1>. QED
    BY <1>3, <1>4, <1>5

\* An encoded proof is bytes, as many as its header and its two parts.
LEMMA Encoded ==
    ASSUME NEW p \in Proofs, Len(p.narg) <= MaxUsize, Len(p.hints) <= MaxUsize
    PROVE  encode(p) \in Seq(Byte) /\ Len(encode(p)) = HEADER_LEN + Len(p.narg) + Len(p.hints)
  <1> DEFINE a == to_le(Len(p.narg), U64)
             b == to_le(Len(p.hints), U64)
             version == to_le(WIRE_VERSION, U16)
             header_len == to_le(HEADER_LEN, U16)
             flags == to_le(FLAGS, U32)
  <1>1. p.narg \in Seq(Byte) /\ p.hints \in Seq(Byte) /\ Len(p.narg) \in Nat /\ Len(p.hints) \in Nat
    BY LenProperties DEF Proofs
  <1>2. Len(p.narg) \in Numbers(U64) /\ Len(p.hints) \in Numbers(U64)
    BY <1>1, WireAssumption
  <1>3. a \in Seq(Byte) /\ Len(a) = U64 /\ b \in Seq(Byte) /\ Len(b) = U64
    BY <1>2, Spelling
  <1>4. /\ MAGIC \in Seq(Byte) /\ Len(MAGIC) = VersionAt
        /\ version \in Seq(Byte) /\ Len(version) = U16
        /\ header_len \in Seq(Byte) /\ Len(header_len) = U16
        /\ flags \in Seq(Byte) /\ Len(flags) = U32
        /\ U16 \in Nat /\ U32 \in Nat /\ U64 \in Nat /\ VersionAt \in Nat
    BY Offsets, WireAssumption
  <1>5. HEADER_LEN = VersionAt + U16 + U16 + U32 + U64 + U64
    BY <1>4, Offsets
  <1>6. encode(p) = MAGIC \o version \o header_len \o flags \o a \o b \o p.narg \o p.hints
    BY DEF encode, Header
  <1> HIDE DEF a, b, version, header_len, flags
  <1>7. \A u, v \in Seq(Byte) : u \o v \in Seq(Byte) /\ Len(u \o v) = Len(u) + Len(v)
    BY ConcatProperties
  <1>8. PICK s2, s3, s4, s5, s6, s7, e :
            /\ s2 = MAGIC \o version /\ s3 = s2 \o header_len /\ s4 = s3 \o flags
            /\ s5 = s4 \o a /\ s6 = s5 \o b /\ s7 = s6 \o p.narg /\ e = s7 \o p.hints
    OBVIOUS
  <1>9. e = encode(p)
    BY <1>6, <1>8
  <1>10. s2 \in Seq(Byte) /\ Len(s2) = VersionAt + U16
    <2>1. MAGIC \in Seq(Byte) /\ version \in Seq(Byte)
      BY <1>4
    <2>2. s2 = MAGIC \o version
      BY <1>8
    <2>3. s2 \in Seq(Byte) /\ Len(s2) = Len(MAGIC) + Len(version)
      BY <2>1, <2>2, ConcatProperties
    <2>. QED
      BY <1>4, <2>3
  <1>11. s3 \in Seq(Byte) /\ Len(s3) = VersionAt + U16 + U16
    <2>1. s2 \in Seq(Byte) /\ header_len \in Seq(Byte)
      BY <1>4, <1>10
    <2>2. s3 = s2 \o header_len
      BY <1>8
    <2>3. s3 \in Seq(Byte) /\ Len(s3) = Len(s2) + Len(header_len)
      BY <2>1, <2>2, ConcatProperties
    <2>. QED
      BY <1>4, <1>10, <2>3
  <1>12. s4 \in Seq(Byte) /\ Len(s4) = VersionAt + U16 + U16 + U32
    <2>1. s3 \in Seq(Byte) /\ flags \in Seq(Byte)
      BY <1>4, <1>11
    <2>2. s4 = s3 \o flags
      BY <1>8
    <2>3. s4 \in Seq(Byte) /\ Len(s4) = Len(s3) + Len(flags)
      BY <2>1, <2>2, ConcatProperties
    <2>. QED
      BY <1>4, <1>11, <2>3
  <1>13. s5 \in Seq(Byte) /\ Len(s5) = VersionAt + U16 + U16 + U32 + U64
    <2>1. s4 \in Seq(Byte) /\ a \in Seq(Byte)
      BY <1>3, <1>4, <1>12
    <2>2. s5 = s4 \o a
      BY <1>8
    <2>3. s5 \in Seq(Byte) /\ Len(s5) = Len(s4) + Len(a)
      BY <2>1, <2>2, ConcatProperties
    <2>. QED
      BY <1>3, <1>4, <1>12, <2>3
  <1>14. s6 \in Seq(Byte) /\ Len(s6) = HEADER_LEN
    <2>1. s5 \in Seq(Byte) /\ b \in Seq(Byte)
      BY <1>3, <1>4, <1>13
    <2>2. s6 = s5 \o b
      BY <1>8
    <2>3. s6 \in Seq(Byte) /\ Len(s6) = Len(s5) + Len(b)
      BY <2>1, <2>2, ConcatProperties
    <2>. QED
      BY <1>3, <1>4, <1>13, <2>3, <1>5
  <1>15. s7 \in Seq(Byte) /\ Len(s7) = HEADER_LEN + Len(p.narg)
    <2>1. s6 \in Seq(Byte) /\ p.narg \in Seq(Byte)
      BY <1>1, <1>14
    <2>2. s7 = s6 \o p.narg
      BY <1>8
    <2>3. s7 \in Seq(Byte) /\ Len(s7) = Len(s6) + Len(p.narg)
      BY <2>1, <2>2, ConcatProperties
    <2>. QED
      BY <1>1, <1>14, <2>3
  <1>16. e \in Seq(Byte) /\ Len(e) = HEADER_LEN + Len(p.narg) + Len(p.hints)
    <2>1. s7 \in Seq(Byte) /\ p.hints \in Seq(Byte)
      BY <1>1, <1>15
    <2>2. e = s7 \o p.hints
      BY <1>8
    <2>3. e \in Seq(Byte) /\ Len(e) = Len(s7) + Len(p.hints)
      BY <2>1, <2>2, ConcatProperties
    <2>. QED
      BY <1>1, <1>15, <2>3
  <1>. QED
    BY <1>9, <1>16

\* What the prover writes of hints.
LEMMA HintBytes ==
    /\ hint_bytes(<<Derived>>) \in Seq(Byte) /\ Len(hint_bytes(<<Derived>>)) = U32 + 1
    /\ U32 \in Nat
    /\ \A x \in Byte : /\ hint_bytes([i \in 1..HintLimit + 1 |-> x]) \in Seq(Byte)
                       /\ Len(hint_bytes([i \in 1..HintLimit + 1 |-> x])) = U32 + (HintLimit + 1)
  <1>1. U32 \in Nat /\ HintLimit \in Nat /\ Derived \in Byte /\ {1, HintLimit + 1} \subseteq Numbers(U32)
    BY ProtocolAssumption, WireAssumption
  <1>2. ASSUME NEW payload \in Seq(Byte), Len(payload) \in Numbers(U32)
        PROVE  hint_bytes(payload) \in Seq(Byte) /\ Len(hint_bytes(payload)) = U32 + Len(payload)
    <2>1. to_le(Len(payload), U32) \in Seq(Byte) /\ Len(to_le(Len(payload), U32)) = U32
      BY <1>2, Spelling
    <2>. QED
      BY <2>1, ConcatProperties DEF hint_bytes
  <1>3. <<Derived>> \in Seq(Byte) /\ Len(<<Derived>>) = 1
    BY <1>1
  <1>4. \A x \in Byte : [i \in 1..HintLimit + 1 |-> x] \in Seq(Byte)
                        /\ Len([i \in 1..HintLimit + 1 |-> x]) = HintLimit + 1
    BY <1>1
  <1>. QED
    BY <1>1, <1>2, <1>3, <1>4
-----------------------------------------------------------------------------
\* Bad challenges and proof of work since the last record, along a script: what
\* a draw may leave of them.
GroundAfter(e, w, step) ==
    IF step.op = "record" THEN <<0, 0>>
    ELSE IF step.op = "draw" THEN <<e + step.error, w>>
    ELSE IF step.op = "nonce" THEN <<e, w + step.bits>> ELSE <<e, w>>

Ground(level) ==
    {p \in Nat \X Nat : p[1] > 0 => level + CeilLog2(p[1]) <= 128 + p[2]}
GroundSteps(level) ==
    {p \in Ground(level) \X Steps \X Ground(level) : p[3] = GroundAfter(p[1][1], p[1][2], p[2])}

\* Scripts that are met at every level, that are and change nothing, and that
\* are and lead to p.
Met(level) == Loops(Ground(level), GroundSteps(level), Ground(level))
Still(level) == Fixes(Ground(level), GroundSteps(level))
Leads(level, p) ==
    {s \in Scripts : \A a \in Ground(level) : Takes(Ground(level), GroundSteps(level), a, s, p)}

\* Scripts that meet the level, that stand still, and that lead to a state
\* of the count can be put one after another.
LEMMA GroundKinds ==
    ASSUME NEW level
    PROVE  /\ <<0, 0>> \in Ground(level)
           /\ Closed(Met(level)) /\ Closed(Still(level)) /\ Still(level) \subseteq Met(level)
           /\ \A p \in Ground(level) : \A s \in Leads(level, p) :
                 /\ s \in Met(level)
                 /\ \A u \in Still(level) : s \o u \in Leads(level, p)
                 /\ \A u \in Met(level) : u \o s \in Leads(level, p)
                 /\ \A q \in Ground(level), u \in Scripts :
                       Takes(Ground(level), GroundSteps(level), p, u, q) => s \o u \in Leads(level, q)
  <1> DEFINE A == Ground(level)
             T == GroundSteps(level)
  <1>1. <<0, 0>> \in A
    BY DEF Ground
  <1>2. Closed(Met(level))
    BY LoopsClosed DEF Met
  <1> HIDE DEF A, T
  <1>3. Closed(Still(level))
    BY FixesClosed DEF Still
  <1>4. Still(level) \subseteq Met(level)
    BY DEF Still, Fixes, Met, Loops
  <1>5. ASSUME NEW p \in A, NEW s \in Leads(level, p)
        PROVE  /\ s \in Met(level)
               /\ \A u \in Met(level) : u \o s \in Leads(level, p)
               /\ \A q \in A, u \in Scripts : Takes(A, T, p, u, q) => s \o u \in Leads(level, q)
    <2>1. s \in Scripts /\ \A a \in A : Takes(A, T, a, s, p)
      BY DEF Leads, A, T
    <2>2. s \in Met(level)
      BY <2>1 DEF Met, Loops, A, T
    <2>3. ASSUME NEW u \in Met(level) PROVE u \o s \in Leads(level, p)
      <3>1. u \in Scripts /\ u \o s \in Scripts /\ \A a \in A : \E b \in A : Takes(A, T, a, u, b)
        BY <2>1, ScriptsConcat DEF Met, Loops, A, T
      <3>2. ASSUME NEW a \in A PROVE Takes(A, T, a, u \o s, p)
        <4>1. PICK b \in A : Takes(A, T, a, u, b)
          BY <3>1
        <4>2. Takes(A, T, b, s, p)
          BY <2>1
        <4>. QED
          BY <2>1, <3>1, <4>1, <4>2, TakesOn
      <3>. QED
        BY <3>1, <3>2 DEF Leads, A, T
    <2>4. ASSUME NEW q \in A, NEW u \in Scripts, Takes(A, T, p, u, q) PROVE s \o u \in Leads(level, q)
      <3>1. s \o u \in Scripts
        BY <2>1, ScriptsConcat
      <3>2. ASSUME NEW a \in A PROVE Takes(A, T, a, s \o u, q)
        <4>1. Takes(A, T, a, s, p)
          BY <2>1
        <4>. QED
          BY <2>1, <2>4, <4>1, TakesOn
      <3>. QED
        BY <3>1, <3>2 DEF Leads, A, T
    <2>. QED
      BY <2>2, <2>3, <2>4
  <1>6. ASSUME NEW p \in A, NEW s \in Leads(level, p), NEW u \in Still(level)
        PROVE  s \o u \in Leads(level, p)
    <2>1. u \in Scripts /\ Takes(A, T, p, u, p)
      BY DEF Still, Fixes, A, T
    <2>. QED
      BY <1>5, <2>1
  <1>. QED
    BY <1>1, <1>2, <1>3, <1>4, <1>5, <1>6 DEF A, T

\* One step, where what it leaves of bad challenges is met.
LEMMA GroundOne ==
    ASSUME NEW level, NEW x \in Steps, NEW p \in Ground(level),
           GroundAfter(p[1], p[2], x) \in Ground(level)
    PROVE  Takes(Ground(level), GroundSteps(level), p, <<x>>, GroundAfter(p[1], p[2], x))
  <1>1. <<p, x, GroundAfter(p[1], p[2], x)>> \in GroundSteps(level)
    BY DEF GroundSteps
  <1> HIDE DEF GroundAfter
  <1>. QED
    BY <1>1, TakesOne

\* The steps that change nothing, and records.
LEMMA GroundSingle ==
    ASSUME NEW level
    PROVE  /\ \A x \in Seq(Input) : Absorb(x) \in Still(level)
           /\ \A c \in Checks : Check(c) \in Still(level)
           /\ Hint \in Still(level) /\ Refuse \in Still(level)
           /\ \A n \in Nat : Draw(n, 0) \in Still(level)
           /\ \A n \in Nat, o \in SUBSET Checks : Record(n, o) \in Leads(level, <<0, 0>>)
  <1>1. \A p \in Ground(level) : p = <<p[1], p[2]>> /\ p[1] \in Nat /\ p[2] \in Nat
    BY DEF Ground
  <1>2. ASSUME NEW x \in Steps, x.op \in {"absorb", "check", "hint", "refuse"} \/ (x.op = "draw" /\ x.error = 0)
        PROVE  <<x>> \in Still(level)
    <2>1. ASSUME NEW p \in Ground(level) PROVE GroundAfter(p[1], p[2], x) = p
      <3>1. p[1] + 0 = p[1]
        BY <1>1
      <3>. QED
        BY <1>1, <1>2, <3>1 DEF GroundAfter
    <2>2. ASSUME NEW p \in Ground(level)
          PROVE  Takes(Ground(level), GroundSteps(level), p, <<x>>, p)
      BY <2>1, GroundOne
    <2>3. <<x>> \in Scripts
      BY DEF Scripts
    <2>. QED
      BY <2>2, <2>3 DEF Still, Fixes
  <1>3. ASSUME NEW n \in Nat, NEW o \in SUBSET Checks PROVE Record(n, o) \in Leads(level, <<0, 0>>)
    <2> DEFINE x == [op |-> "record", count |-> n, owes |-> o]
    <2>1. x \in Steps /\ Record(n, o) = <<x>> /\ Record(n, o) \in Scripts
      BY StepsOfScripts DEF Steps, Record
    <2>2. <<0, 0>> \in Ground(level)
      BY GroundKinds
    <2>3. ASSUME NEW p \in Ground(level)
          PROVE  Takes(Ground(level), GroundSteps(level), p, <<x>>, <<0, 0>>)
      <3>1. GroundAfter(p[1], p[2], x) = <<0, 0>>
        BY DEF GroundAfter
      <3> HIDE DEF x
      <3>. QED
        BY <2>1, <2>2, <3>1, GroundOne
    <2>. QED
      BY <2>1, <2>3 DEF Leads
  <1>4. ASSUME NEW y \in Seq(Input) PROVE Absorb(y) \in Still(level)
    <2> DEFINE x == [op |-> "absorb", cells |-> y]
    <2>1. x \in Steps /\ x.op = "absorb" /\ Absorb(y) = <<x>>
      BY DEF Steps, Absorb
    <2> HIDE DEF x
    <2>. QED
      BY <1>2, <2>1
  <1>5. ASSUME NEW c \in Checks PROVE Check(c) \in Still(level)
    <2> DEFINE x == [op |-> "check", check |-> c]
    <2>1. x \in Steps /\ x.op = "check" /\ Check(c) = <<x>>
      BY DEF Steps, Check
    <2> HIDE DEF x
    <2>. QED
      BY <1>2, <2>1
  <1>6. Hint \in Still(level)
    <2> DEFINE x == [op |-> "hint"]
    <2>1. x \in Steps /\ x.op = "hint" /\ Hint = <<x>>
      BY DEF Steps, Hint
    <2> HIDE DEF x
    <2>. QED
      BY <1>2, <2>1
  <1>7. Refuse \in Still(level)
    <2> DEFINE x == [op |-> "refuse"]
    <2>1. x \in Steps /\ x.op = "refuse" /\ Refuse = <<x>>
      BY DEF Steps, Refuse
    <2> HIDE DEF x
    <2>. QED
      BY <1>2, <2>1
  <1>8. ASSUME NEW n \in Nat PROVE Draw(n, 0) \in Still(level)
    <2> DEFINE x == [op |-> "draw", count |-> n, error |-> 0]
    <2>1. x \in Steps /\ x.op = "draw" /\ x.error = 0 /\ Draw(n, 0) = <<x>>
      BY DEF Steps, Draw
    <2> HIDE DEF x
    <2>. QED
      BY <1>2, <2>1
  <1>. QED
    BY <1>3, <1>4, <1>5, <1>6, <1>7, <1>8

\* A draw of c bad challenges from what it may be drawn from.
LEMMA GroundDraw ==
    ASSUME NEW level, NEW e \in Nat, NEW b \in Nat, NEW c \in Nat, NEW n \in Nat,
           <<e, b>> \in Ground(level), <<e + c, b>> \in Ground(level)
    PROVE  Takes(Ground(level), GroundSteps(level), <<e, b>>, Draw(n, c), <<e + c, b>>)
  <1> DEFINE x == [op |-> "draw", count |-> n, error |-> c]
  <1>1. x \in Steps /\ Draw(n, c) = <<x>> /\ GroundAfter(e, b, x) = <<e + c, b>>
    BY DEF Steps, Draw, GroundAfter
  <1> DEFINE p == <<e, b>>
  <1>2. p[1] = e /\ p[2] = b
    OBVIOUS
  <1> HIDE DEF x, p
  <1>3. p \in Ground(level) /\ GroundAfter(p[1], p[2], x) \in Ground(level)
    BY <1>1, <1>2 DEF p
  <1>4. Takes(Ground(level), GroundSteps(level), p, <<x>>, GroundAfter(p[1], p[2], x))
    BY <1>1, <1>3, GroundOne
  <1>. QED
    BY <1>1, <1>2, <1>4 DEF p

\* The proof of work for c bad challenges, after a record, and then the draw.
LEMMA GroundGrind ==
    ASSUME NEW level \in {100, 128}, NEW c \in Nat, CeilLog2(c) \in Nat, NEW label \in Symbol,
           NEW b, b = grinding_bits(level, c)
    PROVE  /\ b \in Nat /\ <<0, b>> \in Ground(level) /\ <<c, b>> \in Ground(level)
           /\ Takes(Ground(level), GroundSteps(level), <<0, 0>>, Grind(label, b), <<0, b>>)
           /\ Grind(label, b) \in Scripts
           /\ \A n \in Nat : Takes(Ground(level), GroundSteps(level), <<0, b>>, Draw(n, c), <<c, b>>)
  <1> DEFINE A == Ground(level)
             T == GroundSteps(level)
             mark == Absorb(<<Tag.pow, label, b>>)
             draw == Draw(1, 0)
             nonce == Nonce(b)
  <1>1. b \in Nat
    BY GrindingBits
  <1>2. <<0, 0>> \in A /\ <<0, b>> \in A /\ <<c, b>> \in A
    <2>1. c > 0 => level + CeilLog2(c) <= 128 + b
      BY GrindingBits
    <2>. QED
      BY <1>1, <2>1 DEF Ground
  <1>3. mark \in Still(level) /\ draw \in Still(level)
    <2>1. Tag.pow \in Input /\ label \in Input /\ b \in Input
      BY <1>1, ScriptAssumption DEF TagNames, Input
    <2>2. <<Tag.pow, label, b>> \in Seq(Input)
      BY <2>1
    <2>. QED
      BY <2>2, GroundSingle
  <1>4. nonce \in Scripts /\ Takes(A, T, <<0, 0>>, nonce, <<0, b>>)
    <2> DEFINE x == [op |-> "nonce", bits |-> b]
               p == <<0, 0>>
    <2>1. x \in Steps /\ nonce = <<x>> /\ GroundAfter(0, 0, x) = <<0, b>> /\ nonce \in Scripts
      BY <1>1, StepsOfScripts DEF Steps, Nonce, GroundAfter
    <2>2. p[1] = 0 /\ p[2] = 0
      OBVIOUS
    <2> HIDE DEF x, p, nonce
    <2>3. p \in Ground(level) /\ GroundAfter(p[1], p[2], x) \in Ground(level)
      BY <1>2, <2>1, <2>2 DEF p
    <2>4. Takes(Ground(level), GroundSteps(level), p, <<x>>, GroundAfter(p[1], p[2], x))
      BY <2>1, <2>3, GroundOne
    <2>. QED
      BY <2>1, <2>2, <2>4 DEF p
  <1>5. Grind(label, b) \in Scripts /\ Takes(A, T, <<0, 0>>, Grind(label, b), <<0, b>>)
    <2>1. CASE b = 0
      <3>1. Grind(label, b) = <<>>
        BY <2>1 DEF Grind
      <3>. QED
        BY <1>2, <2>1, <3>1, TakesNone, ScriptsConcat
    <2>2. CASE b # 0
      <3>1. Grind(label, b) = (mark \o draw) \o nonce
        BY <2>2 DEF Grind, Nonce
      <3> HIDE DEF A, T, mark, draw, nonce
      <3>2. mark \o draw \in Still(level)
        BY <1>3, GroundKinds DEF Closed
      <3>3. mark \o draw \in Scripts /\ Takes(A, T, <<0, 0>>, mark \o draw, <<0, 0>>)
        BY <1>2, <3>2 DEF Still, Fixes, A, T
      <3>4. Takes(A, T, <<0, 0>>, (mark \o draw) \o nonce, <<0, b>>)
        BY <1>2, <1>4, <3>3, TakesOn
      <3>. QED
        BY <1>4, <3>1, <3>3, <3>4, ScriptsConcat
    <2>. QED
      BY <2>1, <2>2
  <1>6. ASSUME NEW n \in Nat PROVE Takes(A, T, <<0, b>>, Draw(n, c), <<c, b>>)
    <2>1. 0 + c = c
      OBVIOUS
    <2>. QED
      BY <1>1, <1>2, <2>1, GroundDraw
  <1>. QED
    BY <1>1, <1>2, <1>5, <1>6

\* What leads to a draw, its proof of work and the draw meet the level.
LEMMA GroundBlock ==
    ASSUME NEW level \in {100, 128}, NEW c \in Nat, CeilLog2(c) \in Nat, NEW label \in Symbol,
           NEW n \in Nat, NEW s \in Leads(level, <<0, 0>>)
    PROVE  s \o Grind(label, grinding_bits(level, c)) \o Draw(n, c) \in Met(level)
  <1> DEFINE A == Ground(level)
             T == GroundSteps(level)
             b == grinding_bits(level, c)
             g == Grind(label, b)
             d == Draw(n, c)
  <1>1. /\ <<0, b>> \in A /\ <<c, b>> \in A /\ g \in Scripts
        /\ Takes(A, T, <<0, 0>>, g, <<0, b>>) /\ Takes(A, T, <<0, b>>, d, <<c, b>>)
    BY GroundGrind
  <1>2. d \in Scripts
    BY StepsOfScripts
  <1> HIDE DEF b, g, d
  <1>3. s \o g \in Leads(level, <<0, b>>)
    BY <1>1, GroundKinds DEF A, T
  <1>4. (s \o g) \o d \in Leads(level, <<c, b>>)
    BY <1>1, <1>2, <1>3, GroundKinds DEF A, T
  <1>5. (s \o g) \o d \in Met(level)
    BY <1>1, <1>4, GroundKinds DEF A
  <1>. QED
    BY <1>5 DEF g, d, b

\* The blocks the two scripts have.
LEMMA GroundRounds ==
    ASSUME NEW st \in Statements, NEW level, level = st.level
    PROVE  /\ CubicRound(st) \in Met(level) /\ QuadraticRound(st) \in Met(level)
           /\ Backend \in Met(level)
           /\ \A s \in Leads(level, <<0, 0>>) :
                 /\ s \o Draw(1, 1) \in Met(level)
                 /\ s \o Grind(Tag.columns, grinding_bits(level, st.shape[2]))
                      \o Draw(st.shape[2], st.shape[2]) \in Met(level)
                 /\ s \o Grind(Tag.ring, grinding_bits(level, RingError(st)))
                      \o sample_challenges \o batching_challenge(st) \in Met(level)
  <1> DEFINE A == Ground(level)
             T == GroundSteps(level)
  <1>1. level \in {100, 128} /\ st.shape[2] \in Nat /\ CeilLog2(st.shape[2]) \in Nat
    BY Statement
  <1>2. \A c \in {2, 3, 7, 8} : c \in Nat /\ CeilLog2(c) \in Nat /\ CeilLog2(c) <= 8
    BY LogarithmsExist
  <1>3. \A name \in TagNames : Tag[name] \in Symbol /\ Absorb(<<Tag[name]>>) \in Still(level)
    <2>1. \A x \in Seq(Input) : Absorb(x) \in Still(level)
      BY GroundSingle
    <2>. QED
      BY <2>1, GroundKinds, AbsorbedIn, Tags, ScriptAssumption
  <1>4. /\ Record(2, {}) \in Leads(level, <<0, 0>>) /\ Record(1, {}) \in Leads(level, <<0, 0>>)
        /\ Draw(1, 0) \in Still(level) /\ Absorb(<<Tag.basis, Derived>>) \in Still(level)
    <2>1. \A x \in Seq(Input) : Absorb(x) \in Still(level)
      BY GroundSingle
    <2>2. Absorb(<<Tag.basis, Derived>>) \in Still(level)
      BY <2>1, GroundKinds, AbsorbedIn
    <2>3. {} \in SUBSET Checks /\ 1 \in Nat /\ 2 \in Nat
      OBVIOUS
    <2>. QED
      BY <2>2, <2>3, GroundSingle
  <1>5. CubicRound(st) \in Met(level)
    BY <1>1, <1>2, <1>3, <1>4, GroundBlock DEF CubicRound, TagNames
  <1>6. QuadraticRound(st) \in Met(level)
    BY <1>1, <1>2, <1>3, <1>4, GroundBlock DEF QuadraticRound, TagNames
  <1>7. Backend \in Met(level)
    <2>1. Absorb(<<Tag.basis, Derived>>) \in Met(level) /\ Draw(1, 0) \in Met(level) /\ Record(1, {}) \in Met(level)
      BY <1>4, GroundKinds
    <2>2. \A u, v \in Met(level) : u \o v \in Met(level)
      BY GroundKinds DEF Closed
    <2>. QED
      BY <2>1, <2>2 DEF Backend
  <1>8. <<0, 0>> \in A /\ <<1, 0>> \in A
    <2>1. level + CeilLog2(1) <= 128 + 0
      BY <1>1, LogarithmsExist
    <2>. QED
      BY <2>1 DEF Ground
  <1>9. ASSUME NEW s \in Leads(level, <<0, 0>>) PROVE s \o Draw(1, 1) \in Met(level)
    <2>1. Takes(A, T, <<0, 0>>, Draw(1, 1), <<1, 0>>)
      <3>1. 0 + 1 = 1 /\ 0 \in Nat /\ 1 \in Nat
        OBVIOUS
      <3>. QED
        BY <1>8, <3>1, GroundDraw
    <2>2. Draw(1, 1) \in Scripts
      BY StepsOfScripts
    <2>3. s \o Draw(1, 1) \in Leads(level, <<1, 0>>)
      BY <1>8, <2>1, <2>2, GroundKinds
    <2>. QED
      BY <1>8, <2>3, GroundKinds
  <1>10. ASSUME NEW s \in Leads(level, <<0, 0>>)
         PROVE  s \o Grind(Tag.columns, grinding_bits(level, st.shape[2]))
                  \o Draw(st.shape[2], st.shape[2]) \in Met(level)
    BY <1>1, <1>3, GroundBlock DEF TagNames
  <1>11. ASSUME NEW s \in Leads(level, <<0, 0>>)
         PROVE  s \o Grind(Tag.ring, grinding_bits(level, RingError(st)))
                  \o sample_challenges \o batching_challenge(st) \in Met(level)
    <2> DEFINE c == RingError(st)
               b == grinding_bits(level, c)
               g == Grind(Tag.ring, b)
    <2>1. c \in {7, 8} /\ (level = 100 => c = 8) /\ (level = 128 => c = 7)
      BY <1>1 DEF RingError
    <2>2. c \in Nat /\ CeilLog2(c) \in Nat /\ Tag.ring \in Symbol
      BY <1>2, <1>3, <2>1 DEF TagNames
    <2>3. /\ b \in Nat /\ <<0, b>> \in A /\ <<c, b>> \in A /\ g \in Scripts
          /\ Takes(A, T, <<0, 0>>, g, <<0, b>>)
      BY <1>1, <2>2, GroundGrind
    <2>4. <<7, b>> \in A
      <3>1. CASE level = 128
        BY <2>1, <2>3, <3>1
      <3>2. CASE level = 100
        <4>1. 100 + CeilLog2(7) <= 128 + b
          BY <1>2, <2>3
        <4>. QED
          BY <2>3, <3>2, <4>1 DEF Ground
      <3>. QED
        BY <1>1, <3>1, <3>2
    <2> HIDE DEF A, T, b, g, c
    <2>5. s \o g \in Leads(level, <<0, b>>)
      BY <2>3, GroundKinds DEF A, T
    <2>6. (s \o g) \o sample_challenges \in Leads(level, <<7, b>>)
      <3> DEFINE m == Absorb(<<Tag.challenges>>)
                 d == Draw(7, 7)
      <3>1. m \in Still(level) /\ d \in Scripts
        BY <1>3, StepsOfScripts DEF TagNames
      <3>2. m \in Scripts /\ Takes(A, T, <<0, b>>, m, <<0, b>>)
        BY <2>3, <3>1 DEF Still, Fixes, A, T
      <3>3. Takes(A, T, <<0, b>>, d, <<7, b>>)
        <4>1. 0 + 7 = 7 /\ 0 \in Nat /\ 7 \in Nat
          OBVIOUS
        <4>. QED
          BY <2>3, <2>4, <4>1, GroundDraw DEF A, T
      <3> HIDE DEF m, d
      <3>4. Takes(A, T, <<0, b>>, m \o d, <<7, b>>) /\ m \o d \in Scripts
        BY <2>3, <2>4, <3>1, <3>2, <3>3, TakesOn, ScriptsConcat
      <3>5. sample_challenges = m \o d
        BY DEF sample_challenges, m, d
      <3>. QED
        BY <2>3, <2>4, <2>5, <3>4, <3>5, GroundKinds DEF A, T
    <2> DEFINE w == (s \o g) \o sample_challenges
    <2> HIDE DEF w
    <2>7. w \in Leads(level, <<7, b>>)
      BY <2>6 DEF w
    <2>8. w \o batching_challenge(st) \in Met(level)
      <3>1. CASE level = 128
        <4>1. batching_challenge(st) = <<>>
          BY <3>1 DEF batching_challenge
        <4>2. w \in Met(level) /\ w \o <<>> = w
          BY <2>4, <2>7, GroundKinds, ScriptsConcat DEF A, Leads
        <4>. QED
          BY <4>1, <4>2
      <3>2. CASE level = 100
        <4> DEFINE m == Absorb(<<Tag.batching>>)
                   d == Draw(1, 1)
        <4>1. m \in Still(level) /\ d \in Scripts
          BY <1>3, StepsOfScripts DEF TagNames
        <4>2. m \in Scripts /\ Takes(A, T, <<7, b>>, m, <<7, b>>)
          BY <2>4, <4>1 DEF Still, Fixes, A, T
        <4>3. <<8, b>> \in A /\ Takes(A, T, <<7, b>>, d, <<8, b>>)
          <5>1. 7 + 1 = 8 /\ 7 \in Nat /\ 1 \in Nat /\ <<8, b>> \in A
            BY <2>1, <2>3, <3>2
          <5>. QED
            BY <2>3, <2>4, <5>1, GroundDraw DEF A, T
        <4>4. batching_challenge(st) = m \o d
          BY <3>2 DEF batching_challenge
        <4> HIDE DEF m, d
        <4>5. Takes(A, T, <<7, b>>, m \o d, <<8, b>>) /\ m \o d \in Scripts
          BY <2>4, <4>1, <4>2, <4>3, TakesOn, ScriptsConcat
        <4>6. w \o (m \o d) \in Leads(level, <<8, b>>)
          BY <2>4, <2>7, <4>3, <4>5, GroundKinds DEF A, T
        <4>. QED
          BY <4>3, <4>4, <4>6, GroundKinds DEF A
      <3>. QED
        BY <1>1, <3>1, <3>2
    <2>. QED
      BY <2>8 DEF w, g, b, c
  <1>. QED
    BY <1>5, <1>6, <1>7, <1>9, <1>10, <1>11
\* A repetition of records.
LEMMA GroundRecords ==
    ASSUME NEW level, NEW n \in Nat, n # 0, NEW o \in SUBSET Checks
    PROVE  Times(n, Record(1, o)) \in Leads(level, <<0, 0>>)
  <1> DEFINE r == Record(1, o)
             zero == <<0, 0>>
  <1>1. r \in Leads(level, zero) /\ zero \in Ground(level) /\ r \in Scripts
    BY GroundSingle, GroundKinds, StepsOfScripts
  <1>2. PICK m \in Nat : n = m + 1
    <2>1. n - 1 \in Nat /\ n = (n - 1) + 1
      OBVIOUS
    <2>. QED
      BY <2>1
  <1> HIDE DEF r, zero
  <1>3. Times(n, r) = Times(m, r) \o r
    BY <1>1, <1>2, TimesMore
  <1>4. r \in Met(level)
    BY <1>1, GroundKinds
  <1>5. Times(m, r) \in Met(level)
    <2>1. Closed(Met(level)) /\ m \in Int
      BY GroundKinds
    <2>. QED
      BY <1>4, <2>1, TimesKeeps DEF Closed
  <1>6. Times(m, r) \o r \in Leads(level, zero)
    BY <1>1, <1>5, GroundKinds
  <1>. QED
    BY <1>3, <1>6 DEF r, zero

\* The point of out-of-domain sampling is drawn before any record: its length is
\* what keeps it ground.
LEMMA GroundCommitments ==
    ASSUME NEW st \in Statements, NEW level, level = st.level
    PROVE  /\ commit(st) \in Scripts /\ receive_commitment(st) \in Scripts
           /\ Takes(Ground(level), GroundSteps(level), <<0, 0>>, commit(st), <<0, 0>>)
           /\ Takes(Ground(level), GroundSteps(level), <<0, 0>>, receive_commitment(st), <<0, 0>>)
  <1> DEFINE A == Ground(level)
             T == GroundSteps(level)
             zero == <<0, 0>>
             bind == bind_commitment(st)
             k == st.bits - PackBits
             mark == Absorb(<<Tag.ood>>)
             draw == Draw(k, k)
             r == Record(1, {})
  <1>1. \A x \in Seq(Input) : Absorb(x) \in Still(level)
    BY GroundSingle
  <1>2. bind \in Still(level) /\ mark \in Still(level)
    BY <1>1, GroundKinds, AbsorbedIn DEF TagNames
  <1>3. zero \in A
    BY GroundKinds
  <1>4. bind \in Scripts /\ Takes(A, T, zero, bind, zero) /\ mark \in Scripts /\ Takes(A, T, zero, mark, zero)
    BY <1>2, <1>3 DEF Still, Fixes
  <1>5. commit(st) = bind \o (IF level = 100 THEN ((mark \o draw) \o r) ELSE <<>>)
    BY DEF commit, sample_point
  <1>6. receive_commitment(st) = bind \o (IF level # 100 THEN <<>> ELSE ((mark \o draw) \o r))
    BY DEF receive_commitment, sample_point
  <1>7. CASE level # 100
    <2> HIDE DEF bind, A, T, zero
    <2>1. bind \o <<>> = bind
      BY <1>4, ScriptsConcat
    <2>2. commit(st) = bind /\ receive_commitment(st) = bind
      BY <1>5, <1>6, <1>7, <2>1
    <2>. QED
      BY <1>4, <2>2 DEF A, T, zero
  <1>8. CASE level = 100
    <2>1. k \in Nat
      BY Statement
    <2>2. 100 + CeilLog2(k) <= 128 + 0
      BY ProtocolAssumption
    <2>3. <<k, 0>> \in A
      <3> HIDE DEF k
      <3>. QED
        BY <1>8, <2>1, <2>2 DEF Ground
    <2>4. Takes(A, T, zero, draw, <<k, 0>>)
      <3>1. 0 + k = k /\ 0 \in Nat
        BY <2>1
      <3> HIDE DEF k
      <3>. QED
        BY <1>3, <2>1, <2>3, <3>1, GroundDraw
    <2>5. draw \in Scripts /\ r \in Scripts /\ r \in Leads(level, zero)
      <3>1. {} \in SUBSET Checks /\ 1 \in Nat
        OBVIOUS
      <3>. QED
        BY <2>1, <3>1, StepsOfScripts, GroundSingle
    <2>6. Takes(A, T, <<k, 0>>, r, zero)
      BY <2>3, <2>5 DEF Leads
    <2> DEFINE p == <<k, 0>>
    <2> HIDE DEF A, T, zero, bind, k, mark, draw, r, p
    <2>7. mark \o draw \in Scripts /\ Takes(A, T, zero, mark \o draw, p)
      <3>1. p \in A /\ Takes(A, T, zero, draw, p)
        BY <2>3, <2>4 DEF p
      <3>. QED
        BY <1>3, <1>4, <2>5, <3>1, TakesOn, ScriptsConcat
    <2>8. (mark \o draw) \o r \in Scripts /\ Takes(A, T, zero, (mark \o draw) \o r, zero)
      <3>1. p \in A /\ Takes(A, T, p, r, zero)
        BY <2>3, <2>6 DEF p
      <3>. QED
        BY <1>3, <2>5, <2>7, <3>1, TakesOn, ScriptsConcat
    <2> DEFINE point == (mark \o draw) \o r
    <2>9. commit(st) = bind \o point /\ receive_commitment(st) = bind \o point
      BY <1>5, <1>6, <1>8
    <2> HIDE DEF point
    <2>10. bind \o point \in Scripts /\ Takes(A, T, zero, bind \o point, zero)
      <3>1. point \in Scripts /\ Takes(A, T, zero, point, zero)
        BY <2>8 DEF point
      <3>. QED
        BY <1>3, <1>4, <3>1, TakesOn, ScriptsConcat
    <2>. QED
      BY <2>9, <2>10 DEF A, T, zero
  <1>. QED
    BY <1>7, <1>8

\* The statement's binding draws nothing more.
LEMMA GroundBounds ==
    ASSUME NEW st \in Statements, NEW level, level = st.level
    PROVE  /\ ProverBound(st) \in Scripts /\ VerifierBound(st) \in Scripts
           /\ Takes(Ground(level), GroundSteps(level), <<0, 0>>, ProverBound(st), <<0, 0>>)
           /\ Takes(Ground(level), GroundSteps(level), <<0, 0>>, VerifierBound(st), <<0, 0>>)
  <1> DEFINE A == Ground(level)
             T == GroundSteps(level)
             zero == <<0, 0>>
             p == IF Mismatched(st) THEN Refuse ELSE prover_bind(st)
             v == IF Mismatched(st) THEN Refuse ELSE verifier_bind(st)
  <1>1. /\ commit(st) \in Scripts /\ receive_commitment(st) \in Scripts
        /\ Takes(A, T, zero, commit(st), zero) /\ Takes(A, T, zero, receive_commitment(st), zero)
    BY GroundCommitments
  <1>2. p \in Still(level) /\ v \in Still(level) /\ zero \in A
    <2>1. \A x \in Seq(Input) : Absorb(x) \in Still(level)
      BY GroundSingle
    <2>. QED
      BY <2>1, GroundKinds, GroundSingle, AbsorbedIn
  <1>3. /\ p \in Scripts /\ v \in Scripts
        /\ Takes(A, T, zero, p, zero) /\ Takes(A, T, zero, v, zero)
    <2> HIDE DEF p, v, zero
    <2>. QED
      BY <1>2 DEF Still, Fixes
  <1>4. ProverBound(st) = commit(st) \o p /\ VerifierBound(st) = receive_commitment(st) \o v
    BY DEF ProverBound, VerifierBound
  <1> HIDE DEF A, T, zero, p, v
  <1>5. commit(st) \o p \in Scripts /\ Takes(A, T, zero, commit(st) \o p, zero)
    BY <1>1, <1>2, <1>3, TakesOn, ScriptsConcat
  <1>6. receive_commitment(st) \o v \in Scripts /\ Takes(A, T, zero, receive_commitment(st) \o v, zero)
    BY <1>1, <1>2, <1>3, TakesOn, ScriptsConcat
  <1>. QED
    BY <1>4, <1>5, <1>6 DEF A, T, zero
\* The fold round and the grand products, of both sides.
LEMMA GroundProducts ==
    ASSUME NEW st \in Statements, NEW level, level = st.level
    PROVE  /\ send_fold(st) \in Met(level) /\ receive_fold(st) \in Met(level)
           /\ gpgkr_prove(st) \in Met(level) /\ gpgkr_verify(st) \in Met(level)
  <1> DEFINE zero == <<0, 0>>
             n == 2^st.shape[2]
             both == {"range", "reconstruct"}
  <1>1. zero \in Ground(level) /\ Closed(Met(level))
    BY GroundKinds
  <1>2. /\ {} \in SUBSET Checks /\ both \in SUBSET Checks /\ {"product"} \in SUBSET Checks
        /\ "range" \in Checks /\ "reconstruct" \in Checks /\ "product" \in Checks
    BY DEF Checks
  <1>3. n \in Nat /\ n # 0
    BY Statement
  <1>4. send_fold(st) \in Met(level)
    <2> DEFINE s == Times(n, Record(1, {}))
    <2>1. s \in Leads(level, zero)
      BY <1>2, <1>3, GroundRecords
    <2>2. send_fold(st) = s \o Grind(Tag.columns, grinding_bits(level, st.shape[2]))
                            \o Draw(st.shape[2], st.shape[2])
      BY DEF send_fold
    <2> HIDE DEF s
    <2>. QED
      BY <2>1, <2>2, GroundRounds
  <1>5. receive_fold(st) \in Met(level)
    <2> DEFINE records == Times(n, Record(1, both))
               s == records \o Check("range") \o Check("reconstruct")
    <2>1. records \in Leads(level, zero)
      BY <1>2, <1>3, GroundRecords
    <2>2. Check("range") \in Still(level) /\ Check("reconstruct") \in Still(level)
      BY <1>2, GroundSingle
    <2>3. s \in Leads(level, zero)
      <3> HIDE DEF records, zero
      <3>1. records \o Check("range") \in Leads(level, zero)
        BY <1>1, <2>1, <2>2, GroundKinds
      <3>. QED
        BY <1>1, <2>2, <3>1, GroundKinds
    <2>4. receive_fold(st) = s \o Grind(Tag.columns, grinding_bits(level, st.shape[2]))
                               \o Draw(st.shape[2], st.shape[2])
      BY DEF receive_fold
    <2> HIDE DEF s
    <2>. QED
      BY <2>3, <2>4, GroundRounds
  <1> HIDE DEF zero
  <1>6. /\ CubicRound(st) \in Met(level) /\ <<>> \in Met(level)
        /\ Record(2, {}) \in Leads(level, zero) /\ Record(2, {"product"}) \in Leads(level, zero)
        /\ Check("product") \in Still(level)
        /\ \A u, v \in Met(level) : u \o v \in Met(level)
        /\ \A m \in Int, a \in Met(level) : Times(m, a) \in Met(level)
    <2>1. CubicRound(st) \in Met(level)
      BY GroundRounds
    <2>2. Record(2, {}) \in Leads(level, zero) /\ Record(2, {"product"}) \in Leads(level, zero)
      BY <1>2, GroundSingle DEF zero
    <2>3. Check("product") \in Still(level)
      BY <1>2, GroundSingle
    <2>4. <<>> \in Met(level) /\ \A u, v \in Met(level) : u \o v \in Met(level)
      BY <1>1 DEF Closed
    <2>5. \A m \in Int, a \in Met(level) : Times(m, a) \in Met(level)
      BY <1>1, TimesKeeps DEF Closed
    <2>. QED
      BY <2>1, <2>2, <2>3, <2>4, <2>5
  <1>7. ASSUME NEW m \in Nat PROVE prove_layer(st, m) \in Met(level) /\ verify_layer(st, m) \in Met(level)
    <2> DEFINE rounds == Times(m - 1, CubicRound(st)) \o (IF m > 0 THEN CubicRound(st) ELSE <<>>)
    <2>1. rounds \in Met(level) /\ Times(m, CubicRound(st)) \in Met(level)
      BY <1>6
    <2>2. prove_layer(st, m) = (rounds \o Record(2, {})) \o Draw(1, 1)
      BY DEF prove_layer
    <2>3. verify_layer(st, m)
          = ((Times(m, CubicRound(st)) \o Record(2, {"product"})) \o Check("product")) \o Draw(1, 1)
      BY DEF verify_layer
    <2> HIDE DEF rounds
    <2>4. rounds \o Record(2, {}) \in Leads(level, zero)
      BY <1>1, <1>6, <2>1, GroundKinds
    <2>5. Times(m, CubicRound(st)) \o Record(2, {"product"}) \in Leads(level, zero)
      BY <1>1, <1>6, <2>1, GroundKinds
    <2>6. (Times(m, CubicRound(st)) \o Record(2, {"product"})) \o Check("product") \in Leads(level, zero)
      BY <1>1, <1>6, <2>5, GroundKinds
    <2>. QED
      BY <2>2, <2>3, <2>4, <2>6, GroundRounds DEF zero
  <1>8. st.shape[1] \in Nat /\ \A i \in 1..st.shape[1] : st.shape[2] + i - 1 \in Nat
    BY Statement
  <1>9. gpgkr_prove(st) \in Met(level)
    <2> DEFINE layers == [i \in 1..st.shape[1] |-> prove_layer(st, st.shape[2] + i - 1)]
    <2>1. layers \in [1..st.shape[1] -> Met(level)]
      BY <1>7, <1>8
    <2>2. gpgkr_prove(st) = FlattenSeq(layers)
      BY DEF gpgkr_prove
    <2> HIDE DEF layers
    <2>. QED
      BY <1>1, <1>8, <2>1, <2>2, LayersIn
  <1>10. gpgkr_verify(st) \in Met(level)
    <2> DEFINE layers == [i \in 1..st.shape[1] |-> verify_layer(st, st.shape[2] + i - 1)]
    <2>1. layers \in [1..st.shape[1] -> Met(level)]
      BY <1>7, <1>8
    <2>2. gpgkr_verify(st) = FlattenSeq(layers)
      BY DEF gpgkr_verify
    <2> HIDE DEF layers
    <2>. QED
      BY <1>1, <1>8, <2>1, <2>2, LayersIn
  <1>. QED
    BY <1>4, <1>5, <1>9, <1>10

\* The linear claim and its opening, of both sides.
LEMMA GroundOpenings ==
    ASSUME NEW st \in Statements, NEW level, level = st.level
    PROVE  prove_lin(st) \in Met(level) /\ verify_lin(st) \in Met(level)
  <1> DEFINE zero == <<0, 0>>
             claims == Absorb(<<Tag.claims>>)
             prover == claims \o Record(ClaimCount, {})
             verifier == Hint \o claims \o Record(ClaimCount, {"target"}) \o Check("target")
             ring(s) == s \o Grind(Tag.ring, grinding_bits(level, RingError(st)))
                          \o sample_challenges \o batching_challenge(st)
             before == bind_inner_product_statement(st) \o Absorb(<<Tag.sumcheck>>)
  <1>1. zero \in Ground(level) /\ Closed(Met(level)) /\ \A u \in Still(level) : u \in Met(level)
    BY GroundKinds
  <1>2. \A u, v \in Met(level) : u \o v \in Met(level)
    BY <1>1 DEF Closed
  <1>3. \A m \in Int, a \in Met(level) : Times(m, a) \in Met(level)
    BY <1>1, TimesKeeps DEF Closed
  <1>4. /\ {} \in SUBSET Checks /\ {"target"} \in SUBSET Checks /\ {"evaluation"} \in SUBSET Checks
        /\ "target" \in Checks /\ "evaluation" \in Checks /\ "opening" \in Checks
        /\ ClaimCount \in Nat
    BY ScriptAssumption DEF Checks
  <1>5. /\ Check("target") \in Met(level) /\ Check("evaluation") \in Met(level)
        /\ Check("opening") \in Met(level) /\ Hint \in Met(level) /\ Draw(2, 0) \in Met(level)
    BY <1>1, <1>4, GroundSingle
  <1>6. /\ claims \in Met(level) /\ before \in Met(level) /\ bind_mle_statement(st) \in Met(level)
    <2>1. \A x \in Seq(Input) : Absorb(x) \in Still(level)
      BY GroundSingle
    <2>2. /\ claims \in Still(level) /\ Absorb(<<Tag.sumcheck>>) \in Still(level)
          /\ bind_inner_product_statement(st) \in Still(level) /\ bind_mle_statement(st) \in Still(level)
      BY <2>1, GroundKinds, AbsorbedIn DEF TagNames
    <2>. QED
      BY <1>1, <1>2, <2>2
  <1>7. /\ Record(ClaimCount, {}) \in Leads(level, zero) /\ Record(ClaimCount, {"target"}) \in Leads(level, zero)
        /\ Record(1, {}) \in Leads(level, zero) /\ Record(1, {"evaluation"}) \in Leads(level, zero)
    BY <1>4, GroundSingle
  <1>8. Record(1, {}) \in Met(level) /\ Record(1, {"evaluation"}) \in Met(level)
    BY <1>1, <1>7, GroundKinds
  <1>9. QuadraticRound(st) \in Met(level) /\ Backend \in Met(level)
    BY GroundRounds
  <1>10. prove_factors(st) \in Met(level)
    <2>1. st.bits - 1 \in Int
      BY Statement
    <2>. QED
      BY <1>2, <1>3, <1>8, <1>9, <2>1 DEF prove_factors
  <1>11. verify_factors(st) \in Met(level)
    <2>1. LogBits(Opened(st)) \in Int
      BY Statement DEF LogBits, Shape
    <2>. QED
      BY <1>2, <1>3, <1>5, <1>8, <1>9, <2>1 DEF verify_factors
  <1> HIDE DEF zero, claims, before
  <1>12. prover \in Leads(level, zero)
    BY <1>1, <1>6, <1>7, GroundKinds
  <1>13. verifier \in Leads(level, zero)
    <2>1. Hint \o claims \in Met(level)
      BY <1>2, <1>5, <1>6
    <2>2. (Hint \o claims) \o Record(ClaimCount, {"target"}) \in Leads(level, zero)
      BY <1>1, <1>7, <2>1, GroundKinds
    <2>3. Check("target") \in Still(level)
      BY <1>4, GroundSingle
    <2>. QED
      BY <1>1, <2>2, <2>3, GroundKinds
  <1>14. ASSUME NEW s \in Leads(level, zero) PROVE ring(s) \in Met(level)
    BY GroundRounds DEF zero
  <1>15. prove_mle(st) = ((ring(prover) \o Backend) \o Draw(2, 0)) \o Hint
    BY DEF prove_mle, claims
  <1>16. verify_mle(st) = ((ring(verifier) \o Backend) \o Draw(2, 0)) \o Check("opening")
    BY DEF verify_mle, claims
  <1>17. prove_lin(st) = ((before \o prove_factors(st)) \o bind_mle_statement(st)) \o prove_mle(st)
    BY DEF prove_lin, before
  <1>18. verify_lin(st) = ((before \o verify_factors(st)) \o bind_mle_statement(st)) \o verify_mle(st)
    BY DEF verify_lin, before
  <1>19. ring(prover) \in Met(level) /\ ring(verifier) \in Met(level)
    BY <1>12, <1>13, <1>14
  <1> HIDE DEF ring, prover, verifier
  <1>20. prove_mle(st) \in Met(level) /\ verify_mle(st) \in Met(level)
    BY <1>2, <1>5, <1>9, <1>15, <1>16, <1>19
  <1>. QED
    BY <1>2, <1>6, <1>10, <1>11, <1>17, <1>18, <1>20

\* Each side's whole script is met at the statement's level.
LEMMA GroundScripts ==
    ASSUME NEW st \in Statements, NEW level, level = st.level
    PROVE  /\ \E b \in Ground(level) :
                 Takes(Ground(level), GroundSteps(level), <<0, 0>>, ProverScript(st), b)
           /\ \E b \in Ground(level) :
                 Takes(Ground(level), GroundSteps(level), <<0, 0>>, VerifierScript(st), b)
  <1> DEFINE A == Ground(level)
             T == GroundSteps(level)
             zero == <<0, 0>>
  <1>1. zero \in A /\ \A u, v \in Met(level) : u \o v \in Met(level)
    BY GroundKinds DEF Closed
  <1>2. ASSUME NEW u \in Scripts, NEW v \in Met(level), Takes(A, T, zero, u, zero)
        PROVE  \E b \in A : Takes(A, T, zero, u \o v, b)
    <2>1. PICK b \in A : Takes(A, T, zero, v, b)
      BY <1>1 DEF Met, Loops
    <2>2. v \in Scripts
      BY DEF Met, Loops
    <2> HIDE DEF A, T, zero
    <2>3. Takes(A, T, zero, u \o v, b)
      BY <1>1, <1>2, <2>1, <2>2, TakesOn
    <2>. QED
      BY <2>3
  <1> DEFINE p == (send_fold(st) \o gpgkr_prove(st)) \o prove_lin(st)
             v == (receive_fold(st) \o gpgkr_verify(st)) \o verify_lin(st)
  <1>3. p \in Met(level) /\ v \in Met(level)
    BY <1>1, GroundProducts, GroundOpenings
  <1>4. ASSUME NEW b \in Scripts, NEW f \in Met(level), NEW g \in Met(level), NEW l \in Met(level)
        PROVE  ((b \o f) \o g) \o l = b \o ((f \o g) \o l)
    <2>1. f \in Scripts /\ g \in Scripts /\ l \in Scripts /\ f \o g \in Scripts
      BY ScriptsConcat DEF Met, Loops
    <2>2. \A x, y, z \in Scripts : (x \o y) \o z = x \o (y \o z)
      BY ScriptsConcat
    <2>3. (b \o f) \o g = b \o (f \o g)
      BY <2>1, <2>2, Zenon
    <2>4. (b \o (f \o g)) \o l = b \o ((f \o g) \o l)
      BY <2>1, <2>2, Zenon
    <2>. QED
      BY <2>3, <2>4
  <1>5. ProverScript(st) = ProverBound(st) \o p
    <2>1. ProverScript(st) = ((ProverBound(st) \o send_fold(st)) \o gpgkr_prove(st)) \o prove_lin(st)
      BY DEF ProverScript
    <2>2. ProverBound(st) \in Scripts
      BY GroundBounds
    <2>. QED
      BY <1>4, <2>1, <2>2, GroundProducts, GroundOpenings
  <1>6. VerifierScript(st) = VerifierBound(st) \o v
    <2>1. VerifierScript(st) = ((VerifierBound(st) \o receive_fold(st)) \o gpgkr_verify(st)) \o verify_lin(st)
      BY DEF VerifierScript
    <2>2. VerifierBound(st) \in Scripts
      BY GroundBounds
    <2>. QED
      BY <1>4, <2>1, <2>2, GroundProducts, GroundOpenings
  <1>7. /\ ProverBound(st) \in Scripts /\ Takes(A, T, zero, ProverBound(st), zero)
        /\ VerifierBound(st) \in Scripts /\ Takes(A, T, zero, VerifierBound(st), zero)
    BY GroundBounds
  <1> HIDE DEF A, T, zero, p, v
  <1>8. \E b \in A : Takes(A, T, zero, ProverBound(st) \o p, b)
    BY <1>2, <1>3, <1>7
  <1>9. \E b \in A : Takes(A, T, zero, VerifierBound(st) \o v, b)
    BY <1>2, <1>3, <1>7
  <1>. QED
    BY <1>5, <1>6, <1>8, <1>9 DEF A, T, zero
-----------------------------------------------------------------------------
\* A sponge, and narg string to be read: what a script does to them, whichever
\* side runs it.
Sponges == Seq(Input \cup Byte)
Streams == Sponges \X Seq(Byte)

Squeezes(n) == [i \in 1..n |-> Squeeze]

Follows(p, x, q) ==
    /\ x.op # "refuse"
    /\ x.op = "absorb" => q = <<p[1] \o x.cells, p[2]>>
    /\ x.op = "draw" => q = <<p[1] \o Squeezes(x.count), p[2]>>
    /\ x.op \in {"record", "nonce"} =>
          \E m, rest \in Seq(Byte) :
              /\ p[2] = m \o rest /\ Len(m) = CellsOf(x)
              /\ q = <<p[1] \o m, rest>>
              /\ x.op = "nonce" => valid(p[1], m, x.bits)
    /\ x.op \in {"check", "hint"} => q = p

LockSteps == {p \in Streams \X Steps \X Streams : Follows(p[1], p[2], p[3])}

\* What a sponge takes in, one piece after another.
LEMMA SpongesConcat ==
    /\ <<>> \in Sponges
    /\ \A u, v \in Sponges : u \o v \in Sponges
    /\ \A u, v, w \in Sponges : (u \o v) \o w = u \o (v \o w)
    /\ \A u \in Sponges : u \o <<>> = u
    /\ Seq(Input) \subseteq Sponges /\ Seq(Byte) \subseteq Sponges
    /\ \A n \in Nat : Squeezes(n) \in Sponges
  <1>1. ASSUME NEW n \in Nat PROVE Squeezes(n) \in Sponges
    <2>1. Squeeze \in Input \cup Byte
      BY TranscriptAssumption DEF Input
    <2>. QED
      BY <2>1 DEF Sponges, Squeezes
  <1>2. \A u, v \in Sponges : u \o v \in Sponges
    BY ConcatProperties DEF Sponges
  <1>3. \A u, v, w \in Sponges : (u \o v) \o w = u \o (v \o w)
    BY ConcatAssociative DEF Sponges
  <1>4. <<>> \in Sponges /\ \A u \in Sponges : u \o <<>> = u
    BY EmptySeq, ConcatEmptySeq DEF Sponges
  <1>5. Seq(Input) \subseteq Sponges /\ Seq(Byte) \subseteq Sponges
    BY SeqMonotonic DEF Sponges
  <1>. QED
    BY <1>1, <1>2, <1>3, <1>4, <1>5

\* Whether a step is one of them, and what it adds to the sponge.
LEMMA LockStep ==
    ASSUME NEW a \in Streams, NEW x \in Steps, NEW b \in Streams
    PROVE  /\ <<a, x, b>> \in LockSteps <=> Follows(a, x, b)
           /\ Follows(a, x, b) => \E u \in Sponges : b[1] = a[1] \o u
  <1>1. <<a, x, b>> \in LockSteps <=> Follows(a, x, b)
    <2> HIDE DEF Follows
    <2>. QED
      BY DEF LockSteps
  <1>2. a[1] \in Sponges
    BY DEF Streams
  <1>3. <<>> \in Sponges /\ a[1] \o <<>> = a[1]
    BY <1>2, SpongesConcat
  <1>4. ASSUME NEW u \in Sponges, NEW v, b = <<a[1] \o u, v>> PROVE \E w \in Sponges : b[1] = a[1] \o w
    <2>1. b[1] = a[1] \o u
      BY <1>4
    <2>. QED
      BY <2>1
  <1>5. ASSUME Follows(a, x, b) PROVE \E u \in Sponges : b[1] = a[1] \o u
    <2>1. CASE x.op = "absorb"
      <3>1. x.cells \in Seq(Input)
        BY <2>1 DEF Steps
      <3>2. b = <<a[1] \o x.cells, a[2]>>
        BY <1>5, <2>1 DEF Follows
      <3>. QED
        BY <1>4, <3>1, <3>2, SpongesConcat
    <2>2. CASE x.op = "draw"
      <3>1. x.count \in Nat
        BY <2>2 DEF Steps
      <3>2. b = <<a[1] \o Squeezes(x.count), a[2]>>
        BY <1>5, <2>2 DEF Follows
      <3>3. Squeezes(x.count) \in Sponges
        BY <3>1, SpongesConcat
      <3> HIDE DEF Squeezes
      <3>. QED
        BY <1>4, <3>2, <3>3
    <2>3. CASE x.op \in {"record", "nonce"}
      <3>1. \E m, rest \in Seq(Byte) : b = <<a[1] \o m, rest>>
        BY <1>5, <2>3 DEF Follows
      <3>2. PICK m \in Seq(Byte), rest \in Seq(Byte) : b = <<a[1] \o m, rest>>
        BY <3>1
      <3>. QED
        BY <1>4, <3>2, SpongesConcat
    <2>4. CASE x.op \in {"check", "hint"}
      <3>1. b = a
        BY <1>5, <2>4 DEF Follows
      <3>. QED
        BY <1>3, <3>1
    <2>5. x.op \in {"absorb", "record", "draw", "nonce", "check", "hint", "refuse"}
      BY DEF Steps
    <2>. QED
      BY <1>5, <2>1, <2>2, <2>3, <2>4, <2>5 DEF Follows
  <1>. QED
    BY <1>1, <1>5

\* Along a script the sponge only grows.
LEMMA LockGrows ==
    ASSUME NEW s \in Scripts, NEW a \in Streams, NEW b \in Streams, Takes(Streams, LockSteps, a, s, b)
    PROVE  \E u \in Sponges : b[1] = a[1] \o u
  <1>1. PICK f \in [0..Len(s) -> Streams] :
           /\ f[0] = a /\ f[Len(s)] = b
           /\ \A i \in 1..Len(s) : <<f[i - 1], s[i], f[i]>> \in LockSteps
    BY DEF Takes
  <1>2. Len(s) \in Nat /\ \A i \in 1..Len(s) : s[i] \in Steps
    BY LenProperties, ElementOfSeq DEF Scripts
  <1> DEFINE S == {n \in Nat : n <= Len(s) => \E u \in Sponges : f[n][1] = a[1] \o u}
  <1>3. 0 \in S
    <2>1. a[1] \in Sponges
      BY DEF Streams
    <2>2. <<>> \in Sponges /\ a[1] \o <<>> = a[1]
      BY <2>1, SpongesConcat
    <2>. QED
      BY <1>1, <2>2
  <1>4. ASSUME NEW n \in Nat, n \in S PROVE n + 1 \in S
    <2>1. SUFFICES ASSUME n + 1 <= Len(s) PROVE \E u \in Sponges : f[n + 1][1] = a[1] \o u
      OBVIOUS
    <2>2. n + 1 \in 1..Len(s) /\ n \in 0..Len(s) /\ n + 1 \in 0..Len(s) /\ (n + 1) - 1 = n /\ n <= Len(s)
      BY <1>2, <2>1
    <2>3. PICK u \in Sponges : f[n][1] = a[1] \o u
      BY <1>4, <2>2
    <2>4. f[n] \in Streams /\ f[n + 1] \in Streams /\ s[n + 1] \in Steps
      BY <1>2, <2>2
    <2>5. <<f[n], s[n + 1], f[n + 1]>> \in LockSteps
      BY <1>1, <2>2
    <2>6. PICK v \in Sponges : f[n + 1][1] = f[n][1] \o v
      BY <2>4, <2>5, LockStep
    <2>7. a[1] \in Sponges
      BY DEF Streams
    <2>8. u \o v \in Sponges /\ (a[1] \o u) \o v = a[1] \o (u \o v)
      BY <2>7, SpongesConcat
    <2>. QED
      BY <2>3, <2>6, <2>8
  <1>5. Len(s) \in S
    <2> HIDE DEF S
    <2>. QED
      BY <1>2, <1>3, <1>4, SetInduction
  <1>. QED
    BY <1>1, <1>2, <1>5

\* It is the two sides' common part that moves them.
LEMMA LockNeutral ==
    /\ Neutral(Streams, LockSteps)
    /\ \A a, b \in Streams : <<a, [op |-> "refuse"], b>> \notin LockSteps
  <1>1. ASSUME NEW a \in Streams, NEW b \in Streams
        PROVE  /\ \A check \in Checks :
                     <<a, [op |-> "check", check |-> check], b>> \in LockSteps <=> a = b
               /\ <<a, [op |-> "hint"], b>> \in LockSteps <=> a = b
               /\ <<a, [op |-> "refuse"], b>> \notin LockSteps
    <2>1. ASSUME NEW x \in Steps, x.op \in {"check", "hint"} PROVE <<a, x, b>> \in LockSteps <=> a = b
      <3>1. Follows(a, x, b) <=> b = a
        BY <2>1 DEF Follows
      <3>. QED
        BY <3>1, LockStep
    <2>2. ASSUME NEW check \in Checks
          PROVE  <<a, [op |-> "check", check |-> check], b>> \in LockSteps <=> a = b
      <3>1. [op |-> "check", check |-> check] \in Steps
        BY DEF Steps
      <3>. QED
        BY <2>1, <3>1
    <2>3. <<a, [op |-> "hint"], b>> \in LockSteps <=> a = b
      <3>1. [op |-> "hint"] \in Steps
        BY DEF Steps
      <3>. QED
        BY <2>1, <3>1
    <2>4. <<a, [op |-> "refuse"], b>> \notin LockSteps
      <3> DEFINE x == [op |-> "refuse"]
      <3>1. x \in Steps /\ ~ Follows(a, x, b)
        BY DEF Steps, Follows
      <3> HIDE DEF x
      <3>2. <<a, x, b>> \notin LockSteps
        BY <3>1, LockStep
      <3>. QED
        BY <3>2 DEF x
    <2>. QED
      BY <2>2, <2>3, <2>4
  <1>2. ASSUME NEW a \in Streams, NEW b \in Streams, NEW n \in Nat, NEW owes \in SUBSET Checks
        PROVE  <<a, [op |-> "record", count |-> n, owes |-> owes], b>> \in LockSteps
               <=> <<a, [op |-> "record", count |-> n, owes |-> {}], b>> \in LockSteps
    <2> DEFINE x == [op |-> "record", count |-> n, owes |-> owes]
               y == [op |-> "record", count |-> n, owes |-> {}]
    <2>1. /\ x \in Steps /\ x.op = "record" /\ CellsOf(x) = n
          /\ y \in Steps /\ y.op = "record" /\ CellsOf(y) = n
      BY DEF Steps, CellsOf
    <2> HIDE DEF x, y
    <2>2. Follows(a, x, b) <=> Follows(a, y, b)
      BY <2>1 DEF Follows
    <2>3. <<a, x, b>> \in LockSteps <=> <<a, y, b>> \in LockSteps
      BY <2>1, <2>2, LockStep
    <2>. QED
      BY <2>3 DEF x, y
  <1>3. ASSUME NEW a \in Streams, NEW b \in Streams, NEW x \in Seq(Input), NEW y \in Seq(Input)
        PROVE  <<a, [op |-> "absorb", cells |-> x \o y], b>> \in LockSteps
               <=> \E c \in Streams : /\ <<a, [op |-> "absorb", cells |-> x], c>> \in LockSteps
                                      /\ <<c, [op |-> "absorb", cells |-> y], b>> \in LockSteps
    <2> DEFINE step(z) == [op |-> "absorb", cells |-> z]
    <2>1. \A z \in Seq(Input) : step(z) \in Steps /\ step(z).op = "absorb" /\ step(z).cells = z
      BY DEF Steps
    <2> HIDE DEF step
    <2>2. ASSUME NEW z \in Seq(Input), NEW c \in Streams, NEW d \in Streams
          PROVE  <<c, step(z), d>> \in LockSteps <=> d = <<c[1] \o z, c[2]>>
      <3>1. Follows(c, step(z), d) <=> d = <<c[1] \o z, c[2]>>
        BY <2>1 DEF Follows
      <3>. QED
        BY <2>1, <3>1, LockStep
    <2> DEFINE mid == <<a[1] \o x, a[2]>>
    <2>3. a[1] \in Sponges /\ a[2] \in Seq(Byte) /\ x \in Sponges /\ y \in Sponges
      BY SpongesConcat DEF Streams
    <2>4. a[1] \o x \in Sponges /\ (a[1] \o x) \o y = a[1] \o (x \o y)
      BY <2>3, SpongesConcat
    <2>5. mid \in Streams /\ mid[1] = a[1] \o x /\ mid[2] = a[2]
      BY <2>3, <2>4 DEF Streams
    <2>6. <<mid[1] \o y, mid[2]>> = <<a[1] \o (x \o y), a[2]>>
      BY <2>4, <2>5
    <2>7. x \o y \in Seq(Input)
      BY InputsConcat
    <2> HIDE DEF mid
    <2>8. <<a, step(x \o y), b>> \in LockSteps <=> b = <<mid[1] \o y, mid[2]>>
      <3>1. <<a, step(x \o y), b>> \in LockSteps <=> b = <<a[1] \o (x \o y), a[2]>>
        BY <2>2, <2>7
      <3>. QED
        BY <2>6, <3>1
    <2>9. \A c \in Streams : <<a, step(x), c>> \in LockSteps <=> c = mid
      BY <2>2 DEF mid
    <2>10. \A c \in Streams : <<c, step(y), b>> \in LockSteps <=> b = <<c[1] \o y, c[2]>>
      BY <2>2
    <2>11. <<a, step(x \o y), b>> \in LockSteps
           <=> \E c \in Streams : <<a, step(x), c>> \in LockSteps /\ <<c, step(y), b>> \in LockSteps
      BY <2>5, <2>8, <2>9, <2>10
    <2>. QED
      BY <2>11 DEF step
  <1>. QED
    BY <1>1, <1>2, <1>3 DEF Neutral

\* A prover that gets to the end has written what the verifier's script takes in.
LEMMA LockScripts ==
    ASSUME NEW st \in Statements, NEW a \in Streams, NEW b \in Streams,
           Takes(Streams, LockSteps, a, ProverScript(st), b)
    PROVE  Takes(Streams, LockSteps, a, VerifierScript(st), b)
  <1>1. ~ Mismatched(st)
    BY LockNeutral, RefusalEnds
  <1>2. Same(Streams, LockSteps, ProverScript(st), VerifierScript(st))
    BY <1>1, LockNeutral, ScriptsSame
  <1>. QED
    BY <1>2 DEF Same
-----------------------------------------------------------------------------
(***************************************************************************)
(* Theorems about Protocol, for any statements, any number of rounds and   *)
(* any container a verifier is given: what is accepted is whole, no        *)
(* challenge comes before a check that is owed, draws have their work, and *)
(* the sides stay in lockstep.  Each of them is a count or a state that    *)
(* the rest of a side's script takes to its end, and a step takes the head *)
(* off the script.                                                         *)
(***************************************************************************)
\* Values of the variables.  What a prover writes is cells.
Typed ==
    /\ stage \in {"prove", "aborted", "verify", "accepted", "rejected"}
    /\ statement \in [Sides -> Statements]
    /\ wire \in Seq(Byte) /\ proof \in Proofs
    /\ t \in [Sides -> [sponge : Sponges, narg : Seq(Byte)]] /\ t["prover"].narg \in Seq(Cell)
    /\ hints \in [Sides -> Seq(Byte)]
    /\ todo \in [Sides -> Scripts]
    /\ owed \in SUBSET Checks
    /\ error \in [Sides -> Nat] /\ work \in [Sides -> Nat]

\* The steps of the two sides, in one form: side s does the first step of its
\* script, or stops.
Turn(s) == IF s = "prover" THEN "prove" ELSE "verify"

Sends(s, step) ==
    \E m \in Seq(Cell) :
        /\ Len(m) = CellsOf(step)
        /\ t'[s] = send_message(t[s], m)
        /\ step.op = "nonce" => valid(t[s].sponge, m, step.bits)
Reads(s, step) ==
    /\ has_message(t[s], CellsOf(step))
    /\ t'[s] = read_message(t[s], CellsOf(step))
    /\ step.op = "nonce" => valid(t[s].sponge, next_message(t[s], CellsOf(step)), step.bits)

Transcribes(s, step) ==
    /\ step.op = "absorb" => t'[s] = public_message(t[s], step.cells)
    /\ step.op = "draw" => t'[s] = public_message(t[s], [i \in 1..step.count |-> Squeeze])
    /\ step.op \in {"record", "nonce"} => IF s = "prover" THEN Sends(s, step) ELSE Reads(s, step)
    /\ step.op \in {"check", "hint"} => t'[s] = t[s]

Hints(s, step) ==
    IF step.op # "hint" THEN hints'[s] = hints[s]
    ELSE IF s = "prover" THEN hints'[s] = hints[s] \o hint_bytes(<<Derived>>)
    ELSE /\ has_hint(hints[s])
         /\ hints'[s] = SubSeq(hints[s], HintEnd(hints[s]) + 1, Len(hints[s]))

Idle(s) ==
    /\ t'[s] = t[s] /\ hints'[s] = hints[s] /\ todo'[s] = todo[s]
    /\ error'[s] = error[s] /\ work'[s] = work[s]

\* One side's step, whatever its kind, as far as it is written in the same way.
Moves(s) ==
    /\ stage = Turn(s) /\ UNCHANGED <<stage, statement, wire, proof>>
    /\ todo[s] # <<>> /\ Head(todo[s]) \in Steps
    /\ todo'[s] = Tail(todo[s])
    /\ \A other \in Sides : other # s => Idle(other)
    /\ DOMAIN t' = Sides /\ DOMAIN hints' = Sides /\ DOMAIN todo' = Sides
    /\ t' = [o \in Sides |-> t'[o]] /\ hints' = [o \in Sides |-> hints'[o]]
    /\ todo' = [o \in Sides |-> todo'[o]] /\ error' = [o \in Sides |-> error'[o]]
    /\ work' = [o \in Sides |-> work'[o]]

Advances(s) ==
    /\ Moves(s) /\ Head(todo[s]).op # "refuse"
    /\ Transcribes(s, Head(todo[s])) /\ Hints(s, Head(todo[s]))
    /\ owed' = IF s = "prover" THEN owed ELSE OwedAfter(owed, Head(todo[s]))
    /\ error'[s] \in Nat /\ work'[s] \in Nat
    /\ <<error'[s], work'[s]>> = GroundAfter(error[s], work[s], Head(todo[s]))

Halts ==
    \E outcome \in {"aborted", "accepted", "rejected"} :
        /\ Stops(outcome)
        /\ stage = IF outcome = "aborted" THEN "prove" ELSE "verify"
        /\ outcome = "accepted" => todo["verifier"] = <<>> /\ EndOfProof

\* The first step of a script, by its kind.
LEMMA StepFields ==
    ASSUME NEW x \in Steps
    PROVE  /\ x.op = "absorb" => x.cells \in Seq(Input)
           /\ x.op = "record" => x.count \in Nat /\ x.owes \in SUBSET Checks
           /\ x.op = "draw" => x.count \in Nat /\ x.error \in Nat
           /\ x.op = "nonce" => x.bits \in Nat
           /\ x.op = "check" => x.check \in Checks
           /\ x.op \in {"absorb", "record", "draw", "nonce", "check", "hint", "refuse"}
           /\ CellsOf(x) = IF x.op = "record" THEN x.count ELSE IF x.op = "nonce" THEN NonceCells ELSE 0
           /\ CellsOf(x) \in Nat
  <1>1. x.op = "absorb" => x.cells \in Seq(Input)
    BY DEF Steps
  <1>2. x.op = "record" => x.count \in Nat /\ x.owes \in SUBSET Checks
    BY DEF Steps
  <1>3. x.op = "draw" => x.count \in Nat /\ x.error \in Nat
    BY DEF Steps
  <1>4. x.op = "nonce" => x.bits \in Nat
    BY DEF Steps
  <1>5. x.op = "check" => x.check \in Checks
    BY DEF Steps
  <1>6. x.op \in {"absorb", "record", "draw", "nonce", "check", "hint", "refuse"}
    BY DEF Steps
  <1>7. CellsOf(x) = IF x.op = "record" THEN x.count ELSE IF x.op = "nonce" THEN NonceCells ELSE 0
    BY DEF CellsOf
  <1>. QED
    BY <1>1, <1>2, <1>3, <1>4, <1>5, <1>6, <1>7, CellsNeutral

\* A step of the model that goes on is a step in the common form.
LEMMA StepMoves ==
    ASSUME Typed, NEW s \in Sides, NEW op, Runs(s, op), Proceeds(s),
           t' = [t EXCEPT ![s] = t'[s]], hints' = [hints EXCEPT ![s] = hints'[s]],
           error' = [error EXCEPT ![s] = error'[s]], work' = [work EXCEPT ![s] = work'[s]]
    PROVE  Moves(s) /\ Head(todo[s]).op = op
  <1>1. /\ DOMAIN t = Sides /\ DOMAIN hints = Sides /\ DOMAIN todo = Sides
        /\ DOMAIN error = Sides /\ DOMAIN work = Sides /\ todo[s] \in Seq(Steps)
    BY DEF Typed, Scripts
  <1>2. /\ stage = Turn(s) /\ UNCHANGED <<stage, statement, wire, proof>>
        /\ todo[s] # <<>> /\ Head(todo[s]) \in Steps /\ Head(todo[s]).op = op
        /\ todo' = [todo EXCEPT ![s] = Tail(@)]
    BY <1>1 DEF Runs, Proceeds, Turn
  <1>3. /\ todo'[s] = Tail(todo[s])
        /\ \A other \in Sides : other # s => Idle(other)
    BY <1>1, <1>2 DEF Idle
  <1>4. DOMAIN t' = Sides /\ DOMAIN hints' = Sides /\ DOMAIN todo' = Sides
    BY <1>1, <1>2
  <1>5. /\ t' = [o \in Sides |-> t'[o]] /\ hints' = [o \in Sides |-> hints'[o]]
        /\ todo' = [o \in Sides |-> todo'[o]] /\ error' = [o \in Sides |-> error'[o]]
        /\ work' = [o \in Sides |-> work'[o]]
    BY <1>1, <1>2
  <1>. QED
    BY <1>2, <1>3, <1>4, <1>5 DEF Moves

\* A nonce adds the bits it was searched for to the work and no error.
LEMMA NonceGrounds ==
    ASSUME NEW e, NEW w, NEW x, x.op = "nonce"
    PROVE  GroundAfter(e, w, x) = <<e, w + x.bits>>
  BY DEF GroundAfter

\* A step of the protocol is a step of one side's script, the end of a run, or
\* the bytes' way from one to the other.
LEMMA StepKinds ==
    ASSUME Typed, [Next]_vars
    PROVE  (\E s \in Sides : Advances(s)) \/ Halts \/ HandOver \/ UNCHANGED vars
  <1>1. /\ DOMAIN t = Sides /\ DOMAIN hints = Sides /\ DOMAIN error = Sides /\ DOMAIN work = Sides
        /\ "prover" \in Sides /\ "verifier" \in Sides
        /\ \A s \in Sides : error[s] \in Nat /\ work[s] \in Nat
        /\ \A s \in Sides : t[s] \in [sponge : Sponges, narg : Seq(Byte)]
        /\ \A s \in Sides : hints[s] \in Seq(Byte)
        /\ t = [o \in Sides |-> t[o]] /\ hints = [o \in Sides |-> hints[o]]
        /\ error = [o \in Sides |-> error[o]] /\ work = [o \in Sides |-> work[o]]
    BY DEF Typed, Sides
  <1>2. ASSUME NEW s \in Sides, AbsorbPublic(s) PROVE Advances(s)
    <2>1. /\ Runs(s, "absorb") /\ Proceeds(s)
          /\ t' = [t EXCEPT ![s] = public_message(@, Head(todo[s]).cells)]
          /\ UNCHANGED <<hints, owed, error, work>>
      BY <1>2 DEF AbsorbPublic
    <2>2. t'[s] = public_message(t[s], Head(todo[s]).cells)
      BY <1>1, <2>1
    <2>3. Moves(s) /\ Head(todo[s]).op = "absorb"
      BY <1>1, <2>1, StepMoves
    <2>. QED
      BY <1>1, <2>1, <2>2, <2>3
      DEF Advances, Transcribes, Hints, GroundAfter, OwedAfter
  <1>3. ASSUME NEW s \in Sides, DrawChallenges(s) PROVE Advances(s)
    <2>1. /\ Runs(s, "draw") /\ Proceeds(s)
          /\ t' = [t EXCEPT ![s] =
                      public_message(@, [i \in 1..Head(todo[s]).count |-> Squeeze])]
          /\ error' = [error EXCEPT ![s] = @ + Head(todo[s]).error]
          /\ UNCHANGED <<hints, owed, work>>
      BY <1>3 DEF DrawChallenges
    <2>2. /\ t'[s] = public_message(t[s], [i \in 1..Head(todo[s]).count |-> Squeeze])
          /\ error'[s] = error[s] + Head(todo[s]).error
      BY <1>1, <2>1
    <2>3. Moves(s) /\ Head(todo[s]).op = "draw"
      BY <1>1, <2>1, <2>2, StepMoves
    <2>4. Head(todo[s]).error \in Nat
      BY <2>3, StepFields DEF Moves
    <2>5. /\ error'[s] \in Nat /\ work'[s] \in Nat
          /\ <<error'[s], work'[s]>> = GroundAfter(error[s], work[s], Head(todo[s]))
      <3>1. error[s] \in Nat /\ work[s] \in Nat /\ work'[s] = work[s]
        BY <1>1, <2>1
      <3>2. error'[s] \in Nat /\ work'[s] \in Nat
        BY <2>2, <2>4, <3>1
      <3>3. GroundAfter(error[s], work[s], Head(todo[s]))
               = <<error[s] + Head(todo[s]).error, work[s]>>
        BY <2>3 DEF GroundAfter
      <3>. QED
        BY <2>2, <3>1, <3>2, <3>3
    <2>. QED
      BY <2>1, <2>2, <2>3, <2>5 DEF Advances, Transcribes, Hints, OwedAfter
  <1>4. ASSUME SendRecord PROVE Advances("prover")
    <2> DEFINE n == Head(todo["prover"]).count
    <2>1. /\ Runs("prover", "record") /\ Proceeds("prover")
          /\ t' = [t EXCEPT !["prover"] = send_message(@, Message(n))]
          /\ error' = [error EXCEPT !["prover"] = 0] /\ work' = [work EXCEPT !["prover"] = 0]
          /\ UNCHANGED <<hints, owed>>
      BY <1>4 DEF SendRecord, StartsBlock
    <2>2. /\ t'["prover"] = send_message(t["prover"], Message(n))
          /\ error'["prover"] = 0 /\ work'["prover"] = 0
      BY <1>1, <2>1 DEF Sides
    <2>3. Moves("prover") /\ Head(todo["prover"]).op = "record"
      BY <1>1, <2>1, <2>2, StepMoves DEF Sides
    <2>4. n \in Nat /\ CellsOf(Head(todo["prover"])) = n
      BY <2>3, StepFields DEF Moves
    <2>5. Message(n) \in Seq(Cell) /\ Len(Message(n)) = n
      <3>1. Len(t["prover"].narg) \in Nat
        BY <1>1, LenProperties DEF Sides
      <3>2. \A l, i \in Nat : (l + i) % 2 \in Cell
        BY ProtocolAssumption
      <3>3. \A k \in Nat : Message(k) \in [1..k -> Cell]
        <4>1. ASSUME NEW k \in Nat, NEW i \in 1..k PROVE (Len(t["prover"].narg) + i) % 2 \in Cell
          BY <3>1, <3>2, i \in Nat
        <4>. QED
          BY <4>1 DEF Message
      <3>4. \A k \in Nat : \A m \in [1..k -> Cell] : m \in Seq(Cell) /\ Len(m) = k
        OBVIOUS
      <3>. QED
        BY <2>4, <3>3, <3>4
    <2> HIDE DEF n
    <2>6. Sends("prover", Head(todo["prover"]))
      BY <2>2, <2>3, <2>4, <2>5 DEF Sends
    <2>. QED
      BY <1>1, <2>1, <2>2, <2>3, <2>6
      DEF Advances, Transcribes, Hints, GroundAfter, OwedAfter
  <1>5. ASSUME ReadRecord PROVE Advances("verifier") \/ Halts
    <2> DEFINE n == Head(todo["verifier"]).count
    <2>1. Runs("verifier", "record")
      BY <1>5 DEF ReadRecord
    <2>2. CASE ~has_message(t["verifier"], n)
      <3>1. Stops("rejected") /\ stage = "verify"
        BY <1>5, <2>2 DEF ReadRecord, Runs
      <3>. QED
        BY <3>1 DEF Halts
    <2>3. CASE has_message(t["verifier"], n)
      <3>1. /\ Proceeds("verifier")
            /\ t' = [t EXCEPT !["verifier"] = read_message(@, n)]
            /\ owed' = owed \cup Head(todo["verifier"]).owes
            /\ error' = [error EXCEPT !["verifier"] = 0] /\ work' = [work EXCEPT !["verifier"] = 0]
            /\ UNCHANGED hints
        BY <1>5, <2>3 DEF ReadRecord, StartsBlock
      <3>2. /\ t'["verifier"] = read_message(t["verifier"], n)
            /\ error'["verifier"] = 0 /\ work'["verifier"] = 0
        BY <1>1, <3>1 DEF Sides
      <3>3. Moves("verifier") /\ Head(todo["verifier"]).op = "record"
        BY <1>1, <2>1, <3>1, <3>2, StepMoves DEF Sides
      <3>4. CellsOf(Head(todo["verifier"])) = n
        BY <3>3, StepFields DEF Moves
      <3>5. Reads("verifier", Head(todo["verifier"]))
        BY <2>3, <3>2, <3>3, <3>4 DEF Reads
      <3>6. owed' = OwedAfter(owed, Head(todo["verifier"]))
        BY <3>1, <3>3 DEF OwedAfter
      <3> HIDE DEF n
      <3>. QED
        BY <1>1, <3>1, <3>2, <3>3, <3>5, <3>6
        DEF Advances, Transcribes, Hints, GroundAfter
    <2>. QED
      BY <2>2, <2>3
  <1>6. ASSUME SendNonce PROVE Advances("prover")
    <2> DEFINE bits == Head(todo["prover"]).bits
    <2>1. PICK nonce \in find(t["prover"].sponge, bits) :
             /\ Runs("prover", "nonce") /\ Proceeds("prover")
             /\ t' = [t EXCEPT !["prover"] = send_message(@, nonce)]
             /\ work' = [work EXCEPT !["prover"] = @ + bits]
             /\ UNCHANGED <<hints, owed, error>>
      BY <1>6 DEF SendNonce
    <2>2. /\ t'["prover"] = send_message(t["prover"], nonce)
          /\ work'["prover"] = work["prover"] + bits
      BY <1>1, <2>1 DEF Sides
    <2>3. Moves("prover") /\ Head(todo["prover"]).op = "nonce"
      BY <1>1, <2>1, <2>2, StepMoves DEF Sides
    <2>4. bits \in Nat /\ CellsOf(Head(todo["prover"])) = NonceCells
      BY <2>3, StepFields DEF Moves
    <2>5. nonce \in Seq(Cell) /\ Len(nonce) = NonceCells /\ valid(t["prover"].sponge, nonce, bits)
      BY <2>1, TranscriptAssumption DEF find, Nonces
    <2>6. Sends("prover", Head(todo["prover"]))
      BY <2>2, <2>3, <2>4, <2>5 DEF Sends
    <2>7. /\ error'["prover"] \in Nat /\ work'["prover"] \in Nat
          /\ <<error'["prover"], work'["prover"]>> =
                GroundAfter(error["prover"], work["prover"], Head(todo["prover"]))
      <3>1. GroundAfter(error["prover"], work["prover"], Head(todo["prover"])) =
                <<error["prover"], work["prover"] + bits>>
        BY <2>3, NonceGrounds
      <3>2. error'["prover"] = error["prover"]
        BY <2>1
      <3>3. error["prover"] \in Nat /\ work["prover"] \in Nat
        BY <1>1 DEF Sides
      <3>. QED
        BY <2>2, <2>4, <3>1, <3>2, <3>3
    <2>8. Transcribes("prover", Head(todo["prover"])) /\ Hints("prover", Head(todo["prover"]))
      BY <2>1, <2>3, <2>6 DEF Transcribes, Hints
    <2>. QED
      BY <2>1, <2>3, <2>7, <2>8 DEF Advances
  <1>7. ASSUME ReadNonce PROVE Advances("verifier") \/ Halts
    <2> DEFINE bits == Head(todo["verifier"]).bits
               v == t["verifier"]
               found == has_message(v, NonceCells) /\ valid(v.sponge, next_message(v, NonceCells), bits)
    <2>1. Runs("verifier", "nonce")
      BY <1>7 DEF ReadNonce
    <2>2. CASE ~found
      <3>1. Stops("rejected") /\ stage = "verify"
        BY <1>7, <2>2 DEF ReadNonce, Runs
      <3>. QED
        BY <3>1 DEF Halts
    <2>3. CASE found
      <3>1. /\ Proceeds("verifier")
            /\ t' = [t EXCEPT !["verifier"] = read_message(@, NonceCells)]
            /\ work' = [work EXCEPT !["verifier"] = @ + bits]
            /\ UNCHANGED <<hints, owed, error>>
        BY <1>7, <2>3 DEF ReadNonce
      <3>2. /\ t'["verifier"] = read_message(t["verifier"], NonceCells)
            /\ work'["verifier"] = work["verifier"] + bits
        BY <1>1, <3>1 DEF Sides
      <3>3. Moves("verifier") /\ Head(todo["verifier"]).op = "nonce"
        BY <1>1, <2>1, <3>1, <3>2, StepMoves DEF Sides
      <3>4. bits \in Nat /\ CellsOf(Head(todo["verifier"])) = NonceCells
        BY <3>3, StepFields DEF Moves
      <3>5. Reads("verifier", Head(todo["verifier"]))
        BY <2>3, <3>2, <3>3, <3>4 DEF Reads
      <3>6. owed' = OwedAfter(owed, Head(todo["verifier"]))
        BY <3>1, <3>3 DEF OwedAfter
      <3>7. /\ error'["verifier"] \in Nat /\ work'["verifier"] \in Nat
            /\ <<error'["verifier"], work'["verifier"]>> =
                  GroundAfter(error["verifier"], work["verifier"], Head(todo["verifier"]))
        <4>1. GroundAfter(error["verifier"], work["verifier"], Head(todo["verifier"])) =
                  <<error["verifier"], work["verifier"] + bits>>
          BY <3>3, NonceGrounds
        <4>2. error'["verifier"] = error["verifier"]
          BY <3>1
        <4>3. error["verifier"] \in Nat /\ work["verifier"] \in Nat
          BY <1>1 DEF Sides
        <4>. QED
          BY <3>2, <3>4, <4>1, <4>2, <4>3
      <3>8. Transcribes("verifier", Head(todo["verifier"])) /\ Hints("verifier", Head(todo["verifier"]))
        BY <3>1, <3>3, <3>5 DEF Transcribes, Hints
      <3>. QED
        BY <3>3, <3>6, <3>7, <3>8 DEF Advances
    <2>. QED
      BY <2>2, <2>3
  <1>8. ASSUME WriteHint PROVE Advances("prover")
    <2>1. /\ Runs("prover", "hint") /\ Proceeds("prover")
          /\ hints' = [hints EXCEPT !["prover"] = @ \o hint_bytes(<<Derived>>)]
          /\ UNCHANGED <<t, owed, error, work>>
      BY <1>8 DEF WriteHint
    <2>2. hints'["prover"] = hints["prover"] \o hint_bytes(<<Derived>>)
      BY <1>1, <2>1 DEF Sides
    <2>3. Moves("prover") /\ Head(todo["prover"]).op = "hint"
      BY <1>1, <2>1, <2>2, StepMoves DEF Sides
    <2>. QED
      BY <1>1, <2>1, <2>2, <2>3
      DEF Advances, Transcribes, Hints, GroundAfter, OwedAfter, Sides
  <1>9. ASSUME ReadHint PROVE Advances("verifier") \/ Halts
    <2> DEFINE hs == hints["verifier"]
    <2>1. Runs("verifier", "hint")
      BY <1>9 DEF ReadHint
    <2>2. CASE ~has_hint(hs)
      <3>1. Stops("rejected") /\ stage = "verify"
        BY <1>9, <2>2 DEF ReadHint, Runs
      <3>. QED
        BY <3>1 DEF Halts
    <2>3. CASE has_hint(hs)
      <3>1. /\ Proceeds("verifier")
            /\ hints' = [hints EXCEPT !["verifier"] = SubSeq(@, HintEnd(hs) + 1, Len(@))]
            /\ UNCHANGED <<t, owed, error, work>>
        BY <1>9, <2>3 DEF ReadHint
      <3>2. hints'["verifier"] = SubSeq(hs, HintEnd(hs) + 1, Len(hs))
        BY <1>1, <3>1 DEF Sides
      <3>3. Moves("verifier") /\ Head(todo["verifier"]).op = "hint"
        BY <1>1, <2>1, <3>1, <3>2, StepMoves DEF Sides
      <3>. QED
        BY <1>1, <2>3, <3>1, <3>2, <3>3
        DEF Advances, Transcribes, Hints, GroundAfter, OwedAfter, Sides
    <2>. QED
      BY <2>2, <2>3
  <1>10. ASSUME RunCheck PROVE Advances("verifier") \/ Halts
    <2>1. Runs("verifier", "check")
      BY <1>10 DEF RunCheck
    <2>2. CASE Stops("rejected")
      <3>1. stage = "verify"
        BY <2>1 DEF Runs
      <3>. QED
        BY <2>2, <3>1 DEF Halts
    <2>3. CASE ~Stops("rejected")
      <3>1. /\ Proceeds("verifier")
            /\ owed' = owed \ {Head(todo["verifier"]).check}
            /\ UNCHANGED <<t, hints, error, work>>
        BY <1>10, <2>3 DEF RunCheck
      <3>2. Moves("verifier") /\ Head(todo["verifier"]).op = "check"
        BY <1>1, <2>1, <3>1, StepMoves DEF Sides
      <3>. QED
        BY <1>1, <3>1, <3>2
        DEF Advances, Transcribes, Hints, GroundAfter, OwedAfter, Sides
    <2>. QED
      BY <2>2, <2>3
  <1>11. ASSUME NEW s \in Sides, Refused(s) PROVE Halts
    BY <1>11 DEF Refused, Runs, Halts
  <1>12. ASSUME Finish PROVE Halts
    BY <1>12 DEF Finish, Halts
  <1>. QED
    BY <1>2, <1>3, <1>4, <1>5, <1>6, <1>7, <1>8, <1>9, <1>10, <1>11, <1>12 DEF Next, Sides
-----------------------------------------------------------------------------
\* What a step does to the transcript of its side: it adds to the sponge, only
\* bytes unless it absorbs or draws, and moves narg string by the step's cells.
Adds(s, x) ==
    \E added \in Sponges :
        /\ t'[s].sponge = t[s].sponge \o added
        /\ x.op \notin {"absorb", "draw"} => added \in Seq(Byte)
Writes(s, x) ==
    \E m \in Seq(Cell) : Len(m) = CellsOf(x) /\ t'[s].narg = t[s].narg \o m
Consumes(s, x) ==
    /\ CellsOf(x) <= Len(t[s].narg)
    /\ t'[s].narg = SubSeq(t[s].narg, CellsOf(x) + 1, Len(t[s].narg))

\* What a step adds to its transcript, and what it writes or consumes of it.
LEMMA Transcribed ==
    ASSUME Typed, NEW s \in Sides, Advances(s)
    PROVE  /\ t'[s] \in [sponge : Sponges, narg : Seq(Byte)]
           /\ Adds(s, Head(todo[s]))
           /\ s = "prover" => Writes(s, Head(todo[s]))
           /\ s = "verifier" => Consumes(s, Head(todo[s]))
  <1> DEFINE x == Head(todo[s])
             sponge == t[s].sponge
             narg == t[s].narg
  <1>1. /\ sponge \in Sponges /\ narg \in Seq(Byte) /\ t[s] = [sponge |-> sponge, narg |-> narg]
        /\ Len(narg) \in Nat
    BY LenProperties DEF Typed
  <1>2. x \in Steps /\ Transcribes(s, x) /\ x.op # "refuse"
    BY DEF Advances, Moves
  <1>3. Cell \subseteq Byte /\ Seq(Cell) \subseteq Seq(Byte) /\ Seq(Byte) \subseteq Sponges
    BY ProtocolAssumption DEF Sponges
  <1>4. Squeeze \in Input
    BY TranscriptAssumption DEF Input
  <1>5. <<>> \in Seq(Cell) /\ sponge \o <<>> = sponge /\ narg \o <<>> = narg
        /\ SubSeq(narg, 0 + 1, Len(narg)) = narg
    BY <1>1, EmptySeq, ConcatEmptySeq DEF Sponges
  <1>6. \A a \in Sponges : sponge \o a \in Sponges
    BY <1>1, ConcatProperties DEF Sponges
  <1> HIDE DEF x
  <1>7. CASE x.op \in {"check", "hint"}
    <2>1. t'[s] = t[s] /\ CellsOf(x) = 0
      BY <1>2, <1>7, StepFields DEF Transcribes
    <2>2. t'[s] \in [sponge : Sponges, narg : Seq(Byte)]
      BY <1>1, <2>1
    <2>3. Adds(s, x)
      <3>1. <<>> \in Sponges /\ <<>> \in Seq(Byte) /\ t'[s].sponge = t[s].sponge \o <<>>
        BY <1>3, <1>5, <2>1
      <3>. QED
        BY <3>1 DEF Adds
    <2>4. Writes(s, x)
      BY <1>5, <2>1 DEF Writes
    <2>5. Consumes(s, x)
      <3>1. 0 <= Len(narg)
        BY <1>1
      <3>. QED
        BY <1>5, <2>1, <3>1 DEF Consumes
    <2>. QED
      BY <2>2, <2>3, <2>4, <2>5 DEF x
  <1>8. CASE x.op \in {"absorb", "draw"}
    <2>1. PICK added \in Seq(Input) : t'[s] = public_message(t[s], added)
      <3>1. CASE x.op = "absorb"
        BY <1>2, <3>1, StepFields DEF Transcribes
      <3>2. CASE x.op = "draw"
        <4>1. x.count \in Nat
          BY <1>2, <3>2, StepFields
        <4>2. [i \in 1..x.count |-> Squeeze] \in Seq(Input)
          BY <1>4, <4>1
        <4>. QED
          BY <1>2, <3>2, <4>2 DEF Transcribes
      <3>. QED
        BY <1>8, <3>1, <3>2
    <2>2. added \in Sponges /\ CellsOf(x) = 0
      <3>1. Seq(Input) \subseteq Sponges
        BY DEF Sponges
      <3>. QED
        BY <1>2, <1>8, <3>1, StepFields
    <2>3. t'[s].sponge = sponge \o added /\ t'[s].narg = narg
          /\ t'[s] = [sponge |-> sponge \o added, narg |-> narg]
      BY <1>1, <2>1 DEF public_message
    <2>4. t'[s] \in [sponge : Sponges, narg : Seq(Byte)]
      BY <1>1, <1>6, <2>2, <2>3
    <2>5. Adds(s, x)
      BY <1>8, <2>2, <2>3 DEF Adds
    <2>6. Writes(s, x)
      BY <1>5, <2>2, <2>3 DEF Writes
    <2>7. Consumes(s, x)
      <3>1. 0 <= Len(narg)
        BY <1>1
      <3>. QED
        BY <1>5, <2>2, <2>3, <3>1 DEF Consumes
    <2>. QED
      BY <2>4, <2>5, <2>6, <2>7 DEF x
  <1>9. CASE x.op \in {"record", "nonce"} /\ s = "prover"
    <2>1. PICK m \in Seq(Cell) : Len(m) = CellsOf(x) /\ t'[s] = send_message(t[s], m)
      BY <1>2, <1>9 DEF Transcribes, Sends
    <2>2. t'[s] = [sponge |-> sponge \o m, narg |-> narg \o m]
      BY <1>1, <2>1 DEF send_message
    <2>3. m \in Seq(Byte) /\ m \in Sponges /\ narg \o m \in Seq(Byte) /\ sponge \o m \in Sponges
      <3>1. m \in Seq(Byte) /\ m \in Sponges
        BY <1>3, <2>1
      <3>. QED
        BY <1>1, <1>6, <3>1, ConcatProperties
    <2>4. t'[s].sponge = sponge \o m /\ t'[s].narg = narg \o m
          /\ t'[s] \in [sponge : Sponges, narg : Seq(Byte)]
      BY <2>2, <2>3
    <2>5. Adds(s, x)
      BY <2>3, <2>4 DEF Adds
    <2>6. Writes(s, x)
      BY <2>1, <2>4 DEF Writes
    <2>. QED
      BY <1>9, <2>4, <2>5, <2>6 DEF x
  <1>10. CASE x.op \in {"record", "nonce"} /\ s = "verifier"
    <2> DEFINE n == CellsOf(x)
               m == SubSeq(narg, 1, n)
               rest == SubSeq(narg, n + 1, Len(narg))
    <2>1. n \in Nat /\ n <= Len(narg) /\ t'[s] = read_message(t[s], n)
      BY <1>2, <1>10, StepFields DEF Transcribes, Reads, has_message
    <2>2. t'[s] = [sponge |-> sponge \o m, narg |-> rest]
      BY <1>1, <2>1 DEF read_message, has_message, next_message
    <2>3. m \in Seq(Byte) /\ rest \in Seq(Byte)
      <3>1. \A i \in 1..n : narg[i] \in Byte
        BY <1>1, <2>1
      <3>2. \A i \in n + 1..Len(narg) : narg[i] \in Byte
        BY <1>1, <2>1
      <3> HIDE DEF n
      <3>. QED
        BY <1>1, <2>1, <3>1, <3>2, SubSeqProperties
    <2>4. m \in Sponges /\ sponge \o m \in Sponges
      BY <1>3, <1>6, <2>3
    <2> HIDE DEF m, rest
    <2>5. t'[s] \in [sponge : Sponges, narg : Seq(Byte)] /\ t'[s].sponge = sponge \o m /\ t'[s].narg = rest
      BY <2>2, <2>3, <2>4
    <2>6. Consumes(s, x)
      BY <2>1, <2>5 DEF rest, Consumes
    <2>7. Adds(s, x)
      BY <2>3, <2>4, <2>5 DEF Adds
    <2>8. s # "prover"
      BY <1>10
    <2>. QED
      BY <2>5, <2>6, <2>7, <2>8 DEF x
  <1>. QED
    BY <1>2, <1>7, <1>8, <1>9, <1>10, StepFields DEF Sides
-----------------------------------------------------------------------------
\* Wherever script s takes a, it is to w.
Ends(A, T, a, s, w) == \A b \in A : Takes(A, T, a, s, b) => b = w

\* If all runs of a script end in a value, so do those of the rest of it.
LEMMA EndsOn ==
    ASSUME NEW A, NEW T, NEW a \in A, NEW s \in Scripts, NEW w, Ends(A, T, a, s, w)
    PROVE  /\ s = <<>> => a = w
           /\ s # <<>> => \A b \in A : <<a, Head(s), b>> \in T => Ends(A, T, b, Tail(s), w)
  <1>1. ASSUME s = <<>> PROVE a = w
    BY <1>1, TakesNone DEF Ends
  <1>2. ASSUME s # <<>>, NEW b \in A, <<a, Head(s), b>> \in T PROVE Ends(A, T, b, Tail(s), w)
    <2>1. ASSUME NEW c \in A, Takes(A, T, b, Tail(s), c) PROVE c = w
      <3>1. Takes(A, T, a, s, c)
        BY <1>2, <2>1, TakesFirst
      <3>. QED
        BY <3>1 DEF Ends
    <2>. QED
      BY <2>1 DEF Ends
  <1>. QED
    BY <1>1, <1>2

\* What the prover has yet to write makes up what a proof of its statement holds.
Written ==
    /\ Ends(Nat, CellSteps, Len(t["prover"].narg), todo["prover"], WireCells(statement["prover"]))
    /\ \E k \in HintCounts :
          /\ Takes(HintCounts, HintSteps, k, todo["prover"], 1)
          /\ k = 0 => hints["prover"] = <<>>
          /\ k = 1 => hints["prover"] = hint_bytes(<<Derived>>)

\* A prover that has done has written the cells of its statement and one hint.
LEMMA ProverDone ==
    ASSUME Typed, Written, todo["prover"] = <<>>
    PROVE  /\ Sent \in Proofs /\ Sent.narg \in Seq(Cell)
           /\ Len(Sent.narg) = WireCells(statement["prover"])
           /\ Sent.hints = hint_bytes(<<Derived>>) /\ Len(Sent.hints) = U32 + 1
  <1>1. /\ "prover" \in Sides /\ todo["prover"] \in Scripts
        /\ t["prover"].narg \in Seq(Cell) /\ t["prover"].narg \in Seq(Byte)
        /\ hints["prover"] \in Seq(Byte)
    BY DEF Typed, Sides
  <1>2. Len(t["prover"].narg) \in Nat
    BY <1>1, LenProperties
  <1>3. Len(t["prover"].narg) = WireCells(statement["prover"])
    <2>1. Ends(Nat, CellSteps, Len(t["prover"].narg), todo["prover"], WireCells(statement["prover"]))
      BY DEF Written
    <2>2. ASSUME NEW n \in Nat, NEW w, Ends(Nat, CellSteps, n, todo["prover"], w) PROVE n = w
      BY <1>1, <2>2, EndsOn
    <2>. QED
      BY <1>2, <2>1, <2>2
  <1>4. hints["prover"] = hint_bytes(<<Derived>>)
    <2>1. PICK k \in HintCounts : /\ Takes(HintCounts, HintSteps, k, todo["prover"], 1)
                                  /\ k = 1 => hints["prover"] = hint_bytes(<<Derived>>)
      BY DEF Written
    <2>2. k = 1
      BY <2>1, TakesNone DEF HintCounts
    <2>. QED
      BY <2>1, <2>2
  <1>. QED
    BY <1>1, <1>3, <1>4, HintBytes DEF Sent, Proofs

\* A step keeps what was written accounted for.
LEMMA WrittenKept ==
    ASSUME Typed, Written, NEW s \in Sides, Advances(s)
    PROVE  Written' /\ t'["prover"].narg \in Seq(Cell)
  <1>1. "prover" \in Sides /\ "verifier" \in Sides /\ statement' = statement
    BY DEF Advances, Moves, Sides
  <1>2. CASE s = "verifier"
    <2>1. /\ t'["prover"] = t["prover"] /\ hints'["prover"] = hints["prover"]
          /\ todo'["prover"] = todo["prover"]
      BY <1>1, <1>2 DEF Advances, Moves, Idle
    <2>. QED
      BY <1>1, <2>1 DEF Written, Typed
  <1>3. CASE s = "prover"
    <2> DEFINE x == Head(todo["prover"])
               n == Len(t["prover"].narg)
    <2>1. /\ todo["prover"] \in Scripts /\ todo["prover"] # <<>> /\ x \in Steps /\ x.op # "refuse"
          /\ todo'["prover"] = Tail(todo["prover"]) /\ Hints("prover", x)
          /\ t["prover"].narg \in Seq(Cell) /\ n \in Nat
      BY <1>1, <1>3, LenProperties DEF Advances, Moves, Typed
    <2>2. PICK m \in Seq(Cell) : Len(m) = CellsOf(x) /\ t'["prover"].narg = t["prover"].narg \o m
      BY <1>3, Transcribed DEF Writes
    <2>3. t'["prover"].narg \in Seq(Cell) /\ Len(t'["prover"].narg) = n + CellsOf(x)
      <3>1. \A u, v \in Seq(Cell) : u \o v \in Seq(Cell) /\ Len(u \o v) = Len(u) + Len(v)
        BY ConcatProperties
      <3>2. t["prover"].narg \o m \in Seq(Cell) /\ Len(t["prover"].narg \o m) = n + Len(m)
        BY <2>1, <3>1
      <3>. QED
        BY <2>2, <3>2
    <2> HIDE DEF x, n
    <2>4. n + CellsOf(x) \in Nat /\ <<n, x, n + CellsOf(x)>> \in CellSteps
      <3>1. CellsOf(x) \in Nat
        BY <2>1, CellsNeutral
      <3>2. n + CellsOf(x) \in Nat
        BY <2>1, <3>1
      <3>. QED
        BY <2>1, <3>2, CellsNeutral
    <2>5. Ends(Nat, CellSteps, n + CellsOf(x), Tail(todo["prover"]), WireCells(statement["prover"]))
      BY <2>1, <2>4, EndsOn DEF Written, x, n
    <2>6. PICK k \in HintCounts : /\ Takes(HintCounts, HintSteps, k, todo["prover"], 1)
                                  /\ k = 0 => hints["prover"] = <<>>
                                  /\ k = 1 => hints["prover"] = hint_bytes(<<Derived>>)
      BY DEF Written
    <2>7. PICK c \in HintCounts : /\ c = IF x.op = "hint" THEN k + 1 ELSE k
                                  /\ Takes(HintCounts, HintSteps, c, Tail(todo["prover"]), 1)
      BY <2>1, <2>6, HintTaken DEF x
    <2>8. c = 0 => hints'["prover"] = <<>>
      BY <2>1, <2>6, <2>7 DEF Hints, HintCounts
    <2>9. c = 1 => hints'["prover"] = hint_bytes(<<Derived>>)
      <3>1. CASE x.op = "hint"
        <4>1. hints'["prover"] = hints["prover"] \o hint_bytes(<<Derived>>)
          BY <2>1, <3>1 DEF Hints
        <4>2. hints["prover"] = <<>> => hints'["prover"] = hint_bytes(<<Derived>>)
          BY <4>1, HintBytes, ConcatEmptySeq
        <4>3. c = 1 => k = 0
          BY <2>7, <3>1 DEF HintCounts
        <4>. QED
          BY <2>6, <4>2, <4>3
      <3>2. CASE x.op # "hint"
        BY <2>1, <2>6, <2>7, <3>2 DEF Hints
      <3>. QED
        BY <3>1, <3>2
    <2>. QED
      BY <1>1, <2>1, <2>3, <2>5, <2>7, <2>8, <2>9 DEF Written
  <1>. QED
    BY <1>2, <1>3 DEF Sides

\* The changes made to what is sent leave bytes, of about the length they had.
LEMMA NargEdits ==
    ASSUME NEW s \in Seq(Byte), s \in Seq(Cell), NEW n \in Edited(s)
    PROVE  n \in Seq(Byte) /\ Len(n) <= Len(s) + 1
  <1>1. 0 \in Byte /\ 1 \in Byte /\ Cell = {0, 1} /\ Len(s) \in Nat
    BY ProtocolAssumption, LenProperties
  <1>2. CASE n \in {[s EXCEPT ![i] = 1 - @] : i \in DOMAIN s}
    <2>1. PICK i \in DOMAIN s : n = [s EXCEPT ![i] = 1 - s[i]]
      BY <1>2
    <2>2. s[i] \in {0, 1}
      BY <1>1
    <2>3. 1 - s[i] \in Byte
      BY <1>1, <2>2
    <2>4. n \in Seq(Byte) /\ Len(n) = Len(s)
      BY <2>1, <2>3, BytesEdited
    <2>. QED
      BY <1>1, <2>4
  <1>3. CASE n \in {RemoveAt(s, i) : i \in DOMAIN s}
    <2>1. n \in Seq(Byte) /\ Len(n) = Len(s) - 1
      BY <1>3, BytesEdited
    <2>. QED
      BY <1>1, <2>1
  <1>4. CASE n \in {InsertAt(s, i, x) : i \in 1..Len(s) + 1, x \in {0, 1}}
    <2>1. PICK i \in 1..Len(s) + 1, x \in Byte : n = InsertAt(s, i, x)
      BY <1>1, <1>4
    <2>2. n \in Seq(Byte) /\ Len(n) = Len(s) + 1
      BY <2>1, BytesEdited
    <2>. QED
      BY <1>1, <2>2
  <1>. QED
    BY <1>2, <1>3, <1>4 DEF Edited

\* Hints with a byte changed, dropped or inserted, doubled or longer than the limit
\* are bytes, and fit the room the model assumes for hints.
LEMMA HintEdits ==
    ASSUME NEW s \in Seq(Byte), Len(s) = U32 + 1, NEW e \in EditedHints(s)
    PROVE  e \in Seq(Byte) /\ Len(e) <= HintRoom
  <1>1. /\ 0 \in Byte /\ 2 \in Byte /\ OtherHint \in Byte
        /\ U32 \in Nat /\ HintLimit \in Nat
    BY ProtocolAssumption, WireAssumption
  <1>2. \A n \in {U32, U32 + 1, U32 + 2, U32 + (HintLimit + 1), (U32 + 1) + (U32 + 1), 0} : n <= HintRoom
    BY <1>1 DEF HintRoom
  <1>3. CASE e \in {[s EXCEPT ![i] = x] : i \in DOMAIN s, x \in {0, 2, OtherHint}}
    <2>1. PICK i \in DOMAIN s, x \in Byte : e = [s EXCEPT ![i] = x]
      BY <1>1, <1>3
    <2>2. e \in Seq(Byte) /\ Len(e) = Len(s)
      BY <2>1, BytesEdited
    <2>. QED
      BY <1>2, <2>2
  <1>4. CASE e \in {RemoveAt(s, i) : i \in DOMAIN s}
    <2>1. e \in Seq(Byte) /\ Len(e) = Len(s) - 1
      BY <1>4, BytesEdited
    <2>2. Len(e) = U32
      BY <1>1, <2>1
    <2>. QED
      BY <1>2, <2>1, <2>2
  <1>5. CASE e \in {InsertAt(s, i, OtherHint) : i \in 1..Len(s) + 1}
    <2>1. e \in Seq(Byte) /\ Len(e) = Len(s) + 1
      BY <1>1, <1>5, BytesEdited
    <2>2. Len(e) = U32 + 2
      BY <1>1, <2>1
    <2>. QED
      BY <1>2, <2>1, <2>2
  <1>6. CASE e = <<>>
    <2>1. e \in Seq(Byte) /\ Len(e) = 0
      BY <1>6, EmptySeq
    <2>. QED
      BY <1>2, <2>1
  <1>7. CASE e = s \o s
    <2>1. s \o s \in Seq(Byte) /\ Len(s \o s) = Len(s) + Len(s)
      BY ConcatProperties
    <2>. QED
      BY <1>2, <1>7, <2>1
  <1>8. CASE e = hint_bytes([i \in 1..HintLimit + 1 |-> OtherHint])
    <2>1. e \in Seq(Byte) /\ Len(e) = U32 + (HintLimit + 1)
      BY <1>1, <1>8, HintBytes
    <2>. QED
      BY <1>2, <2>1
  <1>. QED
    BY <1>3, <1>4, <1>5, <1>6, <1>7, <1>8 DEF EditedHints

\* A string divided anywhere.
LEMMA Divided ==
    ASSUME NEW s \in Seq(Byte), NEW n \in 0..Len(s)
    PROVE  /\ SubSeq(s, 1, n) \in Seq(Byte) /\ Len(SubSeq(s, 1, n)) = n
           /\ SubSeq(s, n + 1, Len(s)) \in Seq(Byte) /\ Len(SubSeq(s, n + 1, Len(s))) = Len(s) - n
           /\ n \in Nat /\ Len(s) - n \in Nat /\ n + (Len(s) - n) = Len(s)
  <1>1. Len(s) \in Nat
    BY LenProperties
  <1>2. n \in Nat /\ n <= Len(s) /\ Len(s) - n \in Nat /\ n + (Len(s) - n) = Len(s)
    BY <1>1
  <1>3. \A i \in 1..n : s[i] \in Byte
    BY <1>1, <1>2, ElementOfSeq
  <1>4. \A i \in n + 1..Len(s) : s[i] \in Byte
    BY <1>1, <1>2, ElementOfSeq
  <1>5. SubSeq(s, 1, n) \in Seq(Byte) /\ Len(SubSeq(s, 1, n)) = n
    BY <1>2, <1>3, SubSeqProperties
  <1>6. SubSeq(s, n + 1, Len(s)) \in Seq(Byte) /\ Len(SubSeq(s, n + 1, Len(s))) = Len(s) - n
    <2>1. n + 1 \in Int /\ Len(s) \in Int /\ (n + 1 <= Len(s) + 1)
      BY <1>1, <1>2
    <2>2. SubSeq(s, n + 1, Len(s)) \in Seq(Byte)
      BY <1>4, <2>1, SubSeqProperties
    <2>3. Len(SubSeq(s, n + 1, Len(s))) = (IF n + 1 <= Len(s) THEN Len(s) - (n + 1) + 1 ELSE 0)
      BY <1>4, <2>1, SubSeqProperties
    <2>4. \A a, b \in Nat : b <= a => (IF b + 1 <= a THEN a - (b + 1) + 1 ELSE 0) = a - b
      OBVIOUS
    <2>5. Len(SubSeq(s, n + 1, Len(s))) = Len(s) - n
      BY <1>1, <1>2, <2>3, <2>4
    <2>. QED
      BY <2>2, <2>5
  <1>. QED
    BY <1>2, <1>5, <1>6

\* Moving the border between the argument and the hints changes no other byte.
LEMMA Reframes ==
    ASSUME NEW sent \in Proofs, NEW p \in Reframed(sent)
    PROVE  p \in Proofs /\ Len(p.narg) + Len(p.hints) = Len(sent.narg) + Len(sent.hints)
  <1>1. ASSUME NEW body \in Seq(Byte), Len(body) = Len(sent.narg) + Len(sent.hints),
               NEW n \in 0..Len(body),
               p = [narg |-> SubSeq(body, 1, n), hints |-> SubSeq(body, n + 1, Len(body))]
        PROVE  p \in Proofs /\ Len(p.narg) + Len(p.hints) = Len(sent.narg) + Len(sent.hints)
    <2>1. p.narg = SubSeq(body, 1, n) /\ p.hints = SubSeq(body, n + 1, Len(body))
      BY <1>1
    <2>2. p \in Proofs
      BY <1>1, Divided DEF Proofs
    <2>3. Len(p.narg) = n /\ Len(p.hints) = Len(body) - n /\ n + (Len(body) - n) = Len(body)
      BY <2>1, Divided
    <2>. QED
      BY <1>1, <2>2, <2>3
  <1> DEFINE body == sent.narg \o sent.hints
  <1>2. body \in Seq(Byte) /\ Len(body) = Len(sent.narg) + Len(sent.hints)
    BY ConcatProperties DEF Proofs
  <1>3. PICK n \in 0..Len(body) :
           p = [narg |-> SubSeq(body, 1, n), hints |-> SubSeq(body, n + 1, Len(body))]
    BY DEF Reframed
  <1> HIDE DEF body
  <1>. QED
    BY <1>1, <1>2, <1>3

\* A container that was cut, extended or changed in its header is bytes.
LEMMA ContainerEdits ==
    ASSUME NEW bytes \in Seq(Byte), HEADER_LEN <= Len(bytes), NEW s \in EditedContainer(bytes)
    PROVE  s \in Seq(Byte)
  <1>1. Len(bytes) \in Nat /\ HEADER_LEN \in Nat /\ <<0>> \in Seq(Byte)
    BY ProtocolAssumption, Offsets, LenProperties
  <1>2. CASE s \in {SubSeq(bytes, 1, n) : n \in 0..Len(bytes) - 1}
    BY <1>1, <1>2
  <1>3. CASE s \in {bytes \o <<0>>, bytes \o bytes}
    BY <1>1, <1>3, ConcatProperties
  <1>4. CASE s \in {[bytes EXCEPT ![i] = x] : i \in 1..HEADER_LEN, x \in Byte}
    <2>1. PICK i \in 1..HEADER_LEN, x \in Byte : s = [bytes EXCEPT ![i] = x]
      BY <1>4
    <2>2. i \in DOMAIN bytes
      BY <1>1
    <2>. QED
      BY <2>1, <2>2, BytesEdited
  <1>. QED
    BY <1>2, <1>3, <1>4 DEF EditedContainer

\* What reaches the verifier is bytes, whatever was done to it on the way.
LEMMA DeliveredBytes ==
    ASSUME Typed, Written, todo["prover"] = <<>>
    PROVE  /\ encode(Sent) \in Seq(Byte) /\ Delivered \subseteq Seq(Byte)
           /\ HEADER_LEN + Len(Sent.narg) + Len(Sent.hints) <= MaxUsize
  <1> DEFINE w == Len(Sent.narg)
             h == Len(Sent.hints)
  <1>1. /\ Sent \in Proofs /\ Sent.narg \in Seq(Cell) /\ Sent.narg \in Seq(Byte) /\ Sent.hints \in Seq(Byte)
        /\ w \in Nat /\ h \in Nat /\ w = WireCells(statement["prover"]) /\ h = U32 + 1
        /\ Sent = [narg |-> Sent.narg, hints |-> Sent.hints]
    BY ProverDone, LenProperties DEF Sent, Proofs
  <1>2. /\ HintRoom \in Nat /\ HEADER_LEN \in Nat /\ MaxUsize \in Nat /\ h <= HintRoom
        /\ HEADER_LEN + w + 1 + HintRoom <= MaxUsize
    <2>1. statement["prover"] \in Statements
      BY DEF Typed, Sides
    <2>2. HEADER_LEN + WireCells(statement["prover"]) + 1 + HintRoom <= MaxUsize
      BY <2>1, ProtocolAssumption
    <2>3. U32 \in Nat /\ HintLimit \in Nat /\ HEADER_LEN \in Nat /\ MaxUsize \in Nat
      BY ProtocolAssumption, WireAssumption, Offsets
    <2>4. HintRoom \in Nat /\ h <= HintRoom
      BY <1>1, <2>3 DEF HintRoom
    <2>. QED
      BY <1>1, <2>2, <2>3, <2>4
  <1>3. \A n \in Nat : /\ n <= w + 1 => n <= MaxUsize
                       /\ n <= HintRoom => n <= MaxUsize
                       /\ n <= w + h => n <= MaxUsize
    BY <1>1, <1>2
  <1> HIDE DEF w, h
  <1>4. ASSUME NEW narg \in Seq(Byte), NEW hs \in Seq(Byte), Len(narg) <= MaxUsize, Len(hs) <= MaxUsize
        PROVE  /\ encode([narg |-> narg, hints |-> hs]) \in Seq(Byte)
               /\ Len(encode([narg |-> narg, hints |-> hs])) = HEADER_LEN + Len(narg) + Len(hs)
    <2> DEFINE p == [narg |-> narg, hints |-> hs]
    <2>1. p \in Proofs /\ p.narg = narg /\ p.hints = hs
      BY DEF Proofs
    <2> HIDE DEF p
    <2>2. encode(p) \in Seq(Byte) /\ Len(encode(p)) = HEADER_LEN + Len(p.narg) + Len(p.hints)
      BY <1>4, <2>1, Encoded
    <2>. QED
      BY <2>1, <2>2 DEF p
  <1>5. w <= MaxUsize /\ h <= MaxUsize
    BY <1>1, <1>2
  <1>6. encode(Sent) \in Seq(Byte) /\ Len(encode(Sent)) = HEADER_LEN + w + h
    BY <1>1, <1>4, <1>5 DEF w, h
  <1>7. ASSUME NEW n \in Edited(Sent.narg) PROVE encode([Sent EXCEPT !.narg = n]) \in Seq(Byte)
    <2>1. n \in Seq(Byte) /\ Len(n) \in Nat /\ Len(n) <= w + 1
      BY <1>1, NargEdits, LenProperties DEF w
    <2>2. [Sent EXCEPT !.narg = n] = [narg |-> n, hints |-> Sent.hints]
      BY <1>1
    <2>3. Len(n) <= MaxUsize
      BY <1>3, <2>1
    <2>. QED
      BY <1>1, <1>4, <1>5, <2>1, <2>2, <2>3 DEF h
  <1>8. ASSUME NEW e \in EditedHints(Sent.hints) PROVE encode([Sent EXCEPT !.hints = e]) \in Seq(Byte)
    <2>1. e \in Seq(Byte) /\ Len(e) \in Nat /\ Len(e) <= HintRoom
      BY <1>1, HintEdits, LenProperties DEF h
    <2>2. [Sent EXCEPT !.hints = e] = [narg |-> Sent.narg, hints |-> e]
      BY <1>1
    <2>3. Len(e) <= MaxUsize
      BY <1>3, <2>1
    <2>. QED
      BY <1>1, <1>4, <1>5, <2>1, <2>2, <2>3 DEF w
  <1>9. ASSUME NEW p \in Reframed(Sent) PROVE encode(p) \in Seq(Byte)
    <2>1. p \in Proofs /\ Len(p.narg) + Len(p.hints) = w + h
      BY <1>1, Reframes DEF w, h
    <2>2. p.narg \in Seq(Byte) /\ p.hints \in Seq(Byte) /\ Len(p.narg) \in Nat /\ Len(p.hints) \in Nat
      BY <2>1, LenProperties DEF Proofs
    <2>3. Len(p.narg) <= w + h /\ Len(p.hints) <= w + h
      <3>1. \A a, b \in Nat : a <= a + b /\ b <= a + b
        OBVIOUS
      <3>2. Len(p.narg) <= Len(p.narg) + Len(p.hints) /\ Len(p.hints) <= Len(p.narg) + Len(p.hints)
        BY <2>2, <3>1
      <3>. QED
        BY <2>1, <3>2
    <2>4. Len(p.narg) <= MaxUsize /\ Len(p.hints) <= MaxUsize
      BY <1>3, <2>2, <2>3
    <2>. QED
      BY <2>1, <2>4, Encoded
  <1>10. ASSUME NEW s \in EditedContainer(encode(Sent)) PROVE s \in Seq(Byte)
    <2>1. HEADER_LEN <= Len(encode(Sent))
      BY <1>1, <1>2, <1>6
    <2>. QED
      BY <1>6, <2>1, ContainerEdits
  <1>11. Delivered \subseteq Seq(Byte)
    BY <1>6, <1>7, <1>8, <1>9, <1>10 DEF Delivered
  <1>12. HEADER_LEN + w + h <= MaxUsize
    BY <1>1, <1>2
  <1>. QED
    BY <1>6, <1>11, <1>12 DEF w, h
-----------------------------------------------------------------------------
\* A hint ends at a position.
LEMMA HintEnds ==
    ASSUME NEW hs \in Seq(Byte), Len(hs) >= U32
    PROVE  HintEnd(hs) \in Nat /\ U32 <= HintEnd(hs) /\ U32 \in Nat
  <1>1. U32 \in Nat /\ Len(hs) \in Nat
    BY WireAssumption, LenProperties
  <1>2. SubSeq(hs, 1, U32) \in Bytes(U32)
    <2>1. \A i \in 1..U32 : hs[i] \in Byte
      BY <1>1
    <2>2. SubSeq(hs, 1, U32) = [i \in 1..U32 |-> hs[i]]
      BY <1>1, <2>1, SubSeqProperties
    <2>. QED
      BY <2>1, <2>2 DEF Bytes
  <1>3. from_le(SubSeq(hs, 1, U32)) \in Nat
    BY <1>2, WireAssumption
  <1>. QED
    BY <1>1, <1>3 DEF HintEnd

\* A script's step changes nothing into what its variable cannot hold.
LEMMA AdvanceTyped ==
    ASSUME Typed, NEW s \in Sides, Advances(s), t'["prover"].narg \in Seq(Cell)
    PROVE  Typed'
  <1> DEFINE x == Head(todo[s])
  <1>1. /\ todo[s] \in Scripts /\ todo[s] # <<>> /\ x \in Steps /\ todo'[s] = Tail(todo[s])
        /\ UNCHANGED <<stage, statement, wire, proof>>
        /\ \A other \in Sides : other # s => Idle(other)
        /\ t' = [o \in Sides |-> t'[o]] /\ hints' = [o \in Sides |-> hints'[o]]
        /\ todo' = [o \in Sides |-> todo'[o]] /\ error' = [o \in Sides |-> error'[o]]
        /\ work' = [o \in Sides |-> work'[o]]
        /\ error'[s] \in Nat /\ work'[s] \in Nat /\ Hints(s, x)
        /\ owed' = IF s = "prover" THEN owed ELSE OwedAfter(owed, x)
    BY DEF Advances, Moves, Typed
  <1> HIDE DEF x
  <1>2. t'[s] \in [sponge : Sponges, narg : Seq(Byte)]
    BY Transcribed
  <1>3. todo'[s] \in Scripts
    BY <1>1, HeadTailProperties DEF Scripts
  <1>4. hints'[s] \in Seq(Byte)
    <2>1. hints[s] \in Seq(Byte)
      BY DEF Typed
    <2>2. CASE x.op # "hint"
      BY <1>1, <2>1, <2>2 DEF Hints
    <2>3. CASE x.op = "hint" /\ s = "prover"
      <3>1. hints'[s] = hints[s] \o hint_bytes(<<Derived>>)
        BY <1>1, <2>3 DEF Hints
      <3>. QED
        BY <2>1, <3>1, HintBytes, ConcatProperties
    <2>4. CASE x.op = "hint" /\ s # "prover"
      <3> DEFINE hs == hints[s]
                 n == HintEnd(hs)
      <3>1. has_hint(hs) /\ hints'[s] = SubSeq(hs, n + 1, Len(hs))
        BY <1>1, <2>4 DEF Hints
      <3>2. n \in Nat /\ n <= Len(hs) /\ Len(hs) \in Nat
        BY <2>1, <3>1, HintEnds, LenProperties DEF has_hint
      <3> HIDE DEF n
      <3>3. \A i \in n + 1..Len(hs) : hs[i] \in Byte
        BY <2>1, <3>2
      <3>. QED
        BY <2>1, <3>1, <3>2, <3>3, SubSeqProperties
    <2>. QED
      BY <2>2, <2>3, <2>4
  <1>5. owed' \in SUBSET Checks
    <2>1. owed \in SUBSET Checks
      BY DEF Typed
    <2>2. x.op = "record" => x.owes \in SUBSET Checks
      BY <1>1, StepFields
    <2>. QED
      BY <1>1, <2>1, <2>2 DEF OwedAfter
  <1>6. \A o \in Sides :
           /\ t'[o] \in [sponge : Sponges, narg : Seq(Byte)] /\ hints'[o] \in Seq(Byte)
           /\ todo'[o] \in Scripts /\ error'[o] \in Nat /\ work'[o] \in Nat
    <2>1. ASSUME NEW o \in Sides, o # s
          PROVE  /\ t'[o] = t[o] /\ hints'[o] = hints[o] /\ todo'[o] = todo[o]
                 /\ error'[o] = error[o] /\ work'[o] = work[o]
      BY <1>1, <2>1 DEF Idle
    <2>. QED
      BY <1>1, <1>2, <1>3, <1>4, <2>1 DEF Typed
  <1>7. /\ t' \in [Sides -> [sponge : Sponges, narg : Seq(Byte)]] /\ hints' \in [Sides -> Seq(Byte)]
        /\ todo' \in [Sides -> Scripts] /\ error' \in [Sides -> Nat] /\ work' \in [Sides -> Nat]
    BY <1>1, <1>6
  <1>. QED
    BY <1>1, <1>5, <1>7 DEF Typed

\* To stop changes nothing but the stage.
LEMMA HaltTyped ==
    ASSUME Typed, Written, Halts
    PROVE  Typed' /\ Written' /\ UNCHANGED <<statement, wire, proof, t, hints, todo, owed, error, work>>
  BY DEF Typed, Written, Halts, Stops

\* Handing the proof over starts the verifier on what the wire has.
LEMMA HandOverTyped ==
    ASSUME Typed, Written, HandOver
    PROVE  /\ Typed' /\ Written'
           /\ stage' \in {"verify", "rejected"} /\ (stage' = "verify" => wire' = encode(proof'))
           /\ t'["verifier"] = NewVerifier(proof'.narg) /\ hints'["verifier"] = proof'.hints
           /\ todo'["verifier"] = VerifierScript(statement'["verifier"])
           /\ \A f \in {"prover"} : /\ t'[f] = t[f] /\ hints'[f] = hints[f] /\ todo'[f] = todo[f]
                                    /\ statement'[f] = statement[f]
           /\ owed' = owed /\ error' = error /\ work' = work
  <1>1. PICK st \in Statements :
           /\ statement' = [statement EXCEPT !["verifier"] = st]
           /\ todo' = [todo EXCEPT !["verifier"] = VerifierScript(st)]
           /\ wire' \in IF st = statement["prover"] THEN Delivered ELSE {encode(Sent)}
    BY DEF HandOver
  <1>2. /\ todo["prover"] = <<>>
        /\ stage' = IF DecodingError(wire') = "none" THEN "verify" ELSE "rejected"
        /\ proof' = decode(wire')
        /\ t' = [t EXCEPT !["verifier"] = NewVerifier(proof'.narg)]
        /\ hints' = [hints EXCEPT !["verifier"] = proof'.hints]
        /\ owed' = owed /\ error' = error /\ work' = work
    BY DEF HandOver
  <1>3. wire' \in Seq(Byte)
    BY <1>1, <1>2, DeliveredBytes
  <1>4. proof' \in Proofs /\ (stage' = "verify" => wire' = encode(proof'))
    <2>1. CASE DecodingError(wire') = "none"
      BY <1>2, <1>3, <2>1, OneSpelling
    <2>2. CASE DecodingError(wire') # "none"
      <3>1. proof' = NoProof
        BY <1>2, <2>2 DEF decode
      <3>. QED
        BY <1>2, <2>2, <3>1, EmptySeq DEF NoProof, Proofs
    <2>. QED
      BY <2>1, <2>2
  <1>5. VerifierScript(st) \in Scripts
    BY ScriptsOfStatement
  <1>6. proof'.narg \in Seq(Byte) /\ proof'.hints \in Seq(Byte)
    BY <1>4 DEF Proofs
  <1>7. NewVerifier(proof'.narg) \in [sponge : Sponges, narg : Seq(Byte)]
    BY <1>6, EmptySeq DEF NewVerifier, Sponges
  <1>8. DOMAIN t = Sides /\ DOMAIN hints = Sides /\ DOMAIN todo = Sides /\ DOMAIN statement = Sides
        /\ "prover" \in Sides /\ "verifier" \in Sides
    BY DEF Typed, Sides
  <1>9. /\ statement' \in [Sides -> Statements] /\ todo' \in [Sides -> Scripts]
        /\ t' \in [Sides -> [sponge : Sponges, narg : Seq(Byte)]] /\ hints' \in [Sides -> Seq(Byte)]
    BY <1>1, <1>2, <1>5, <1>6, <1>7 DEF Typed
  <1>10. /\ t'["verifier"] = NewVerifier(proof'.narg) /\ hints'["verifier"] = proof'.hints
         /\ todo'["verifier"] = VerifierScript(st) /\ statement'["verifier"] = st
    BY <1>1, <1>2, <1>8
  <1>11. /\ t'["prover"] = t["prover"] /\ hints'["prover"] = hints["prover"]
         /\ todo'["prover"] = todo["prover"] /\ statement'["prover"] = statement["prover"]
    BY <1>1, <1>2, <1>8
  <1>12. Typed'
    BY <1>2, <1>3, <1>4, <1>9, <1>11 DEF Typed
  <1>13. Written'
    BY <1>11 DEF Written
  <1>. QED
    BY <1>2, <1>4, <1>10, <1>11, <1>12, <1>13

\* Types, and what was written, at the beginning.
LEMMA StartTyped == Init => Typed /\ Written
  <1>. SUFFICES ASSUME Init PROVE Typed /\ Written
    OBVIOUS
  <1>1. PICK st \in Provable :
           /\ statement = [s \in Sides |-> st]
           /\ todo = [s \in Sides |-> IF s = "prover" THEN ProverScript(st) ELSE VerifierScript(st)]
    BY DEF Init
  <1>2. /\ stage = "prove" /\ wire = <<>> /\ proof = NoProof /\ owed = {}
        /\ t = [s \in Sides |-> IF s = "prover" THEN NewProver ELSE NewVerifier(<<>>)]
        /\ hints = [s \in Sides |-> <<>>]
        /\ error = [s \in Sides |-> 0] /\ work = [s \in Sides |-> 0]
    BY DEF Init
  <1>3. st \in Statements /\ ProverScript(st) \in Scripts /\ VerifierScript(st) \in Scripts
    BY ProtocolAssumption, ScriptsOfStatement
  <1>4. /\ t["prover"] = [sponge |-> <<>>, narg |-> <<>>] /\ hints["prover"] = <<>>
        /\ todo["prover"] = ProverScript(st) /\ statement["prover"] = st
    BY <1>1, <1>2 DEF Sides, NewProver
  <1>5. <<>> \in Sponges /\ <<>> \in Seq(Byte) /\ <<>> \in Seq(Cell) /\ Len(<<>>) = 0
    BY EmptySeq DEF Sponges
  <1>6. NoProof \in Proofs
    BY <1>5 DEF NoProof, Proofs
  <1>7. t \in [Sides -> [sponge : Sponges, narg : Seq(Byte)]]
    BY <1>2, <1>5 DEF NewProver, NewVerifier
  <1>8. Typed
    <2>1. statement \in [Sides -> Statements] /\ todo \in [Sides -> Scripts]
      BY <1>1, <1>3
    <2>2. error \in [Sides -> Nat] /\ work \in [Sides -> Nat] /\ hints \in [Sides -> Seq(Byte)]
      BY <1>2, <1>5
    <2>3. t["prover"].narg \in Seq(Cell) /\ wire \in Seq(Byte) /\ proof \in Proofs
      <3>1. t["prover"].narg = <<>>
        BY <1>4
      <3>2. t["prover"].narg \in Seq(Cell)
        BY <1>5, <3>1
      <3>3. wire \in Seq(Byte)
        BY <1>2, <1>5
      <3>. QED
        BY <1>2, <1>6, <3>2, <3>3
    <2>. QED
      BY <1>2, <1>7, <2>1, <2>2, <2>3 DEF Typed
  <1>9. Ends(Nat, CellSteps, 0, ProverScript(st), WireCells(st))
    BY <1>3, WireCounted DEF Ends
  <1>10. Takes(HintCounts, HintSteps, 0, ProverScript(st), 1)
    BY <1>3, HintCounted
  <1>11. Len(t["prover"].narg) = 0
    BY <1>4, <1>5
  <1>. QED
    BY <1>4, <1>8, <1>9, <1>10, <1>11 DEF Written, HintCounts

\* And after any step.
LEMMA NextTyped == Typed /\ Written /\ [Next]_vars => Typed' /\ Written'
  <1>. SUFFICES ASSUME Typed, Written, [Next]_vars PROVE Typed' /\ Written'
    OBVIOUS
  <1>1. ASSUME NEW s \in Sides, Advances(s) PROVE Typed' /\ Written'
    BY <1>1, WrittenKept, AdvanceTyped
  <1>2. ASSUME UNCHANGED vars PROVE Typed' /\ Written'
    BY <1>2 DEF Typed, Written, vars
  <1>. QED
    BY <1>1, <1>2, StepKinds, HaltTyped, HandOverTyped

\* Values stay in their types, and what the prover writes is counted.
LEMMA TypedAlways == Spec => [](Typed /\ Written)
  BY StartTyped, NextTyped, PTL DEF Spec
-----------------------------------------------------------------------------
\* The checks put off are those the rest of the verifier's script makes before
\* it draws or absorbs anything more.
Covered ==
    /\ Takes(SUBSET Checks, OwedSteps, owed, todo["verifier"], {})
    /\ stage = "prove" => owed = {} /\ todo["verifier"] \in Settled

\* Nothing is owed at the beginning.
LEMMA StartCovered == Init => Covered
  <1>. SUFFICES ASSUME Init PROVE Covered
    OBVIOUS
  <1>1. PICK st \in Provable :
           todo = [s \in Sides |-> IF s = "prover" THEN ProverScript(st) ELSE VerifierScript(st)]
    BY DEF Init
  <1>2. todo["verifier"] = VerifierScript(st) /\ owed = {} /\ st \in Statements
    BY <1>1, ProtocolAssumption DEF Init, Sides
  <1>3. todo["verifier"] \in Settled
    BY <1>2, ScriptsOfStatement, SettledTakes, VerifierSettled
  <1>. QED
    BY <1>2, <1>3, VerifierSettled DEF Covered

\* One step of the verifier's script, as a step of OwedSteps.
LEMMA CoveredOn ==
    ASSUME Typed, Covered, Advances("verifier")
    PROVE  /\ Takes(SUBSET Checks, OwedSteps, owed', todo'["verifier"], {})
           /\ Head(todo["verifier"]).op \in {"absorb", "draw"} => owed = {}
  <1>1. /\ todo["verifier"] \in Scripts /\ todo["verifier"] # <<>> /\ owed \in SUBSET Checks
        /\ todo'["verifier"] = Tail(todo["verifier"])
        /\ owed' = OwedAfter(owed, Head(todo["verifier"]))
    BY DEF Typed, Advances, Moves, Sides
  <1>2. PICK b \in SUBSET Checks :
           /\ <<owed, Head(todo["verifier"]), b>> \in OwedSteps
           /\ Takes(SUBSET Checks, OwedSteps, b, Tail(todo["verifier"]), {})
    <2>1. {} \in SUBSET Checks /\ Takes(SUBSET Checks, OwedSteps, owed, todo["verifier"], {})
      BY DEF Covered
    <2>. QED
      BY <1>1, <2>1, TakesFirst
  <1>3. b = owed' /\ (Head(todo["verifier"]).op \in {"absorb", "draw"} => owed = {})
    BY <1>1, <1>2 DEF OwedSteps
  <1>. QED
    BY <1>1, <1>2, <1>3

\* What is owed is what the rest of the script pays before it draws.
LEMMA CoveredKept == Typed /\ Written /\ Covered /\ [Next]_vars => Covered'
  <1>. SUFFICES ASSUME Typed, Written, Covered, [Next]_vars PROVE Covered'
    OBVIOUS
  <1>1. ASSUME Advances("prover") PROVE Covered'
    BY <1>1 DEF Advances, Moves, Idle, Sides, Covered
  <1>2. ASSUME Advances("verifier") PROVE Covered'
    <2>1. stage' # "prove"
      BY <1>2 DEF Advances, Moves, Turn
    <2>. QED
      BY <1>2, <2>1, CoveredOn DEF Covered
  <1>3. ASSUME Halts PROVE Covered'
    <2>1. stage' # "prove" /\ owed' = owed /\ todo' = todo
      BY <1>3 DEF Halts, Stops
    <2>. QED
      BY <2>1 DEF Covered
  <1>4. ASSUME HandOver PROVE Covered'
    <2>1. owed' = owed /\ owed = {} /\ stage' # "prove"
          /\ todo'["verifier"] = VerifierScript(statement'["verifier"])
          /\ statement'["verifier"] \in Statements
      <3>1. stage = "prove" /\ owed = {}
        BY <1>4 DEF HandOver, Covered
      <3>2. /\ Typed' /\ owed' = owed /\ stage' \in {"verify", "rejected"}
            /\ todo'["verifier"] = VerifierScript(statement'["verifier"])
        BY <1>4, HandOverTyped
      <3>3. statement' \in [Sides -> Statements]
        BY <3>2 DEF Typed
      <3>. QED
        BY <3>1, <3>2, <3>3 DEF Sides
    <2>. QED
      BY <2>1, VerifierSettled DEF Covered
  <1>5. ASSUME UNCHANGED vars PROVE Covered'
    BY <1>5 DEF Covered, vars
  <1>. QED
    BY <1>1, <1>2, <1>3, <1>4, <1>5, StepKinds DEF Sides

\* The verifier draws nothing while a check of records it has read is put off,
\* however many rounds its statement takes: "What the ordering protects is the
\* challenge".
THEOREM ChecksBeforeChallenges == Spec => NoDrawWhileOwed
  <1> DEFINE Kept == [Draws(t["verifier"].sponge, t'["verifier"].sponge) => owed = {}]_vars
  <1>1. ASSUME Typed, Written, Covered, [Next]_vars PROVE Kept
    <2> DEFINE before == t["verifier"].sponge
               after == t'["verifier"].sponge
    <2>1. before \in Sponges
      BY <1>1 DEF Typed, Sides
    <2>2. CASE Advances("prover") \/ Halts
      <3>1. after = before
        BY <2>2 DEF Advances, Moves, Idle, Sides, Halts, Stops
      <3>2. ~ Draws(before, after)
        BY <2>1, <3>1 DEF Draws, Sponges
      <3>. QED
        BY <3>2
    <2>3. CASE Advances("verifier")
      <3>1. CASE Head(todo["verifier"]).op \in {"absorb", "draw"}
        BY <2>3, <3>1, <1>1, CoveredOn
      <3>2. CASE Head(todo["verifier"]).op \notin {"absorb", "draw"}
        <4>1. PICK added \in Seq(Byte) : after = before \o added
          BY <1>1, <2>3, <3>2, Transcribed DEF Adds, Sides
        <4>2. ASSUME NEW i \in DOMAIN after, i > Len(before) PROVE after[i] # Squeeze
          <5>1. before \in Seq(Input \cup Byte) /\ added \in Seq(Input \cup Byte)
                /\ Len(before) \in Nat /\ Len(added) \in Nat
            BY <2>1, LenProperties DEF Sponges
          <5>2. i \in Nat /\ i <= Len(before) + Len(added)
            BY <4>1, <4>2, <5>1, ConcatProperties
          <5>3. after[i] = added[i - Len(before)] /\ i - Len(before) \in 1..Len(added)
            BY <4>1, <4>2, <5>1, <5>2, ConcatProperties
          <5>4. after[i] \in Byte
            BY <5>3
          <5>. QED
            BY <5>4, ProtocolAssumption
        <4>3. ~ Draws(before, after)
          BY <4>2 DEF Draws
        <4>. QED
          BY <4>3
      <3>. QED
        BY <3>1, <3>2
    <2>4. CASE HandOver
      <3>1. after = <<>>
        BY <1>1, <2>4, HandOverTyped DEF NewVerifier
      <3>2. ~ Draws(before, after)
        BY <3>1 DEF Draws
      <3>. QED
        BY <3>2
    <2>. QED
      BY <1>1, <2>2, <2>3, <2>4, StepKinds DEF Sides
  <1>2. Spec => []Covered
    BY StartTyped, NextTyped, StartCovered, CoveredKept, PTL DEF Spec
  <1>. QED
    BY <1>1, <1>2, TypedAlways, PTL DEF Spec, NoDrawWhileOwed
-----------------------------------------------------------------------------
\* Decoded bytes are as long as what they hold.
LEMMA DecodedLength ==
    ASSUME NEW bytes \in Seq(Byte), DecodingError(bytes) = "none"
    PROVE  Len(bytes) = HEADER_LEN + Len(decode(bytes).narg) + Len(decode(bytes).hints)
  <1> DEFINE narg_len == read_u64(bytes, NargLenAt)
             hint_len == read_u64(bytes, HintLenAt)
  <1>1. HeaderError(bytes) = "none"
    BY DEF DecodingError
  <1>2. narg_len \in Nat /\ hint_len \in Nat /\ HEADER_LEN + narg_len + hint_len = Len(bytes)
    BY <1>1, SoundHeader, SoundLengths
  <1>3. /\ decode(bytes).narg = Read(bytes, HEADER_LEN, narg_len)
        /\ decode(bytes).hints = Read(bytes, HEADER_LEN + narg_len, hint_len)
    BY DEF decode
  <1> HIDE DEF narg_len, hint_len
  <1>4. /\ HEADER_LEN \in Nat /\ HEADER_LEN + narg_len \in Nat
        /\ CanRead(bytes, HEADER_LEN, narg_len) /\ CanRead(bytes, HEADER_LEN + narg_len, hint_len)
    BY <1>2, Offsets, StreamsFit
  <1>5. Len(decode(bytes).narg) = narg_len
    BY <1>2, <1>3, <1>4, ReadBytes
  <1>6. Len(decode(bytes).hints) = hint_len
    BY <1>2, <1>3, <1>4, ReadBytes
  <1>. QED
    BY <1>2, <1>5, <1>6

\* What the verifier has read and has left makes up the proof, and what it has
\* yet to read makes up what a proof of its statement holds.
ReadOff(n) ==
    /\ n + Len(t["verifier"].narg) = Len(proof.narg)
    /\ Ends(Nat, CellSteps, n, todo["verifier"], WireCells(statement["verifier"]))
HintsOff(k) ==
    /\ Takes(HintCounts, HintSteps, k, todo["verifier"], 1)
    /\ k = 0 => hints["verifier"] = proof.hints
    /\ k = 1 => /\ has_hint(proof.hints)
                /\ hints["verifier"] = SubSeq(proof.hints, HintEnd(proof.hints) + 1, Len(proof.hints))

Consumed ==
    /\ stage \in {"verify", "accepted"} =>
          /\ wire = encode(proof)
          /\ Len(wire) = HEADER_LEN + Len(proof.narg) + Len(proof.hints)
          /\ \E n \in Nat : ReadOff(n)
          /\ \E k \in HintCounts : HintsOff(k)
    /\ stage = "accepted" => todo["verifier"] = <<>> /\ EndOfProof

\* A step of the verifier consumes what it says it does.
LEMMA ConsumedOn ==
    ASSUME Typed, Consumed, Advances("verifier")
    PROVE  Consumed'
  <1> DEFINE x == Head(todo["verifier"])
             v == t["verifier"]
  <1>1. /\ stage = "verify" /\ stage' = "verify" /\ UNCHANGED <<statement, wire, proof>>
        /\ todo["verifier"] \in Scripts /\ todo["verifier"] # <<>> /\ x \in Steps /\ x.op # "refuse"
        /\ todo'["verifier"] = Tail(todo["verifier"]) /\ Hints("verifier", x)
        /\ v.narg \in Seq(Byte) /\ Len(v.narg) \in Nat /\ CellsOf(x) \in Nat
    BY LenProperties, CellsNeutral DEF Advances, Moves, Typed, Sides, Turn
  <1>2. CellsOf(x) <= Len(v.narg) /\ t'["verifier"].narg = SubSeq(v.narg, CellsOf(x) + 1, Len(v.narg))
    BY Transcribed DEF Consumes, Sides
  <1> HIDE DEF x, v
  <1>3. Len(t'["verifier"].narg) = Len(v.narg) - CellsOf(x)
    <2>1. \A i \in CellsOf(x) + 1..Len(v.narg) : v.narg[i] \in Byte
      BY <1>1
    <2>2. Len(t'["verifier"].narg) = (Len(v.narg) + 1) - (CellsOf(x) + 1)
      BY <1>1, <1>2, <2>1, SubSeqProperties
    <2>. QED
      BY <1>1, <2>2
  <1>4. PICK n \in Nat : ReadOff(n)
    BY <1>1 DEF Consumed
  <1>5. PICK k \in HintCounts : HintsOff(k)
    BY <1>1 DEF Consumed
  <1>6. \E m \in Nat : ReadOff(m)'
    <2>1. n + CellsOf(x) \in Nat /\ <<n, x, n + CellsOf(x)>> \in CellSteps
      <3>1. n + CellsOf(x) \in Nat
        BY <1>1
      <3>. QED
        BY <1>1, <3>1, CellsNeutral
    <2>2. Ends(Nat, CellSteps, n + CellsOf(x), Tail(todo["verifier"]), WireCells(statement["verifier"]))
      BY <1>1, <1>4, <2>1, EndsOn DEF ReadOff, x
    <2>3. (n + CellsOf(x)) + Len(t'["verifier"].narg) = Len(proof.narg)
      BY <1>1, <1>3, <1>4 DEF ReadOff, v
    <2>. QED
      BY <1>1, <2>1, <2>2, <2>3 DEF ReadOff
  <1>7. PICK c \in HintCounts : /\ c = IF x.op = "hint" THEN k + 1 ELSE k
                                /\ Takes(HintCounts, HintSteps, c, Tail(todo["verifier"]), 1)
    BY <1>1, <1>5, HintTaken DEF HintsOff, x
  <1>8. HintsOff(c)'
    <2>1. x.op = "hint" => k = 0 /\ c = 1
      BY <1>7 DEF HintCounts
    <2>2. CASE x.op = "hint"
      <3>1. /\ has_hint(proof.hints)
            /\ hints'["verifier"] = SubSeq(proof.hints, HintEnd(proof.hints) + 1, Len(proof.hints))
        BY <1>1, <1>5, <2>1, <2>2 DEF Hints, HintsOff
      <3>. QED
        BY <1>1, <1>7, <2>1, <2>2, <3>1 DEF HintsOff
    <2>3. CASE x.op # "hint"
      <3>1. hints'["verifier"] = hints["verifier"]
        BY <1>1, <2>3 DEF Hints
      <3>. QED
        BY <1>1, <1>5, <1>7, <2>1, <2>3, <3>1 DEF HintsOff
    <2>. QED
      BY <2>2, <2>3
  <1>. QED
    BY <1>1, <1>6, <1>8 DEF Consumed

\* So what was consumed and what is left stay the proof.
LEMMA ConsumedKept == Typed /\ Written /\ Consumed /\ [Next]_vars => Consumed'
  <1>. SUFFICES ASSUME Typed, Written, Consumed, [Next]_vars PROVE Consumed'
    OBVIOUS
  <1>1. ASSUME Advances("prover") PROVE Consumed'
    BY <1>1 DEF Advances, Moves, Turn, Consumed
  <1>2. ASSUME Advances("verifier") PROVE Consumed'
    BY <1>2, ConsumedOn
  <1>3. ASSUME Halts PROVE Consumed'
    <2>1. PICK outcome \in {"aborted", "accepted", "rejected"} :
             /\ Stops(outcome) /\ stage = IF outcome = "aborted" THEN "prove" ELSE "verify"
             /\ outcome = "accepted" => todo["verifier"] = <<>> /\ EndOfProof
      BY <1>3 DEF Halts
    <2>2. CASE outcome # "accepted"
      BY <2>1, <2>2 DEF Stops, Consumed
    <2>3. CASE outcome = "accepted"
      BY <2>1, <2>3 DEF Stops, Consumed, ReadOff, HintsOff, EndOfProof
    <2>. QED
      BY <2>2, <2>3
  <1>4. ASSUME HandOver PROVE Consumed'
    <2> DEFINE st == statement'["verifier"]
    <2>1. /\ Typed' /\ stage' \in {"verify", "rejected"} /\ (stage' = "verify" => wire' = encode(proof'))
          /\ t'["verifier"] = NewVerifier(proof'.narg) /\ hints'["verifier"] = proof'.hints
          /\ todo'["verifier"] = VerifierScript(st)
      BY <1>4, HandOverTyped
    <2>2. /\ stage' = IF DecodingError(wire') = "none" THEN "verify" ELSE "rejected"
          /\ proof' = decode(wire')
      BY <1>4 DEF HandOver
    <2>3. st \in Statements /\ wire' \in Seq(Byte) /\ proof' \in Proofs
      BY <2>1 DEF Typed, Sides
    <2>4. stage' = "verify" => Len(wire') = HEADER_LEN + Len(proof'.narg) + Len(proof'.hints)
      BY <2>2, <2>3, DecodedLength
    <2> HIDE DEF st
    <2>5. Ends(Nat, CellSteps, 0, VerifierScript(st), WireCells(st))
      BY <2>3, WireCounted DEF Ends
    <2>6. Takes(HintCounts, HintSteps, 0, VerifierScript(st), 1)
      BY <2>3, HintCounted
    <2>7. 0 + Len(t'["verifier"].narg) = Len(proof'.narg)
      <3>1. t'["verifier"].narg = proof'.narg
        BY <2>1 DEF NewVerifier
      <3>2. Len(proof'.narg) \in Nat
        BY <2>3, LenProperties DEF Proofs
      <3>. QED
        BY <3>1, <3>2
    <2>8. ReadOff(0)' /\ HintsOff(0)'
      BY <2>1, <2>5, <2>6, <2>7 DEF ReadOff, HintsOff, st
    <2>. QED
      BY <2>1, <2>4, <2>8 DEF Consumed, HintCounts
  <1>5. ASSUME UNCHANGED vars PROVE Consumed'
    BY <1>5 DEF Consumed, ReadOff, HintsOff, EndOfProof, vars
  <1>. QED
    BY <1>1, <1>2, <1>3, <1>4, <1>5, StepKinds DEF Sides

\* Accepted bytes are the one container of an accepted proof, have one length
\* for their statement, and leave no check out, for any number of rounds.
THEOREM WholeProofs == Spec => []AcceptedIsWhole
  <1>1. ASSUME Typed, Covered, Consumed PROVE AcceptedIsWhole
    <2>. SUFFICES ASSUME stage = "accepted"
                  PROVE  /\ wire = encode(proof)
                         /\ Len(wire) = HEADER_LEN + WireCells(statement["verifier"]) + HintEnd(proof.hints)
                         /\ owed = {}
      BY DEF AcceptedIsWhole
    <2>1. /\ todo["verifier"] = <<>> /\ t["verifier"].narg = <<>> /\ hints["verifier"] = <<>>
          /\ wire = encode(proof) /\ Len(wire) = HEADER_LEN + Len(proof.narg) + Len(proof.hints)
      BY <1>1 DEF Consumed, EndOfProof, check_eof
    <2>2. /\ todo["verifier"] \in Scripts /\ owed \in SUBSET Checks
          /\ proof.narg \in Seq(Byte) /\ proof.hints \in Seq(Byte)
          /\ Len(proof.narg) \in Nat /\ Len(proof.hints) \in Nat
      BY <1>1, LenProperties DEF Typed, Sides, Proofs
    <2>3. Len(proof.narg) = WireCells(statement["verifier"])
      <3>1. PICK n \in Nat : ReadOff(n)
        BY <1>1 DEF Consumed
      <3>2. ASSUME NEW w, Ends(Nat, CellSteps, n, todo["verifier"], w) PROVE n = w
        BY <2>1, <2>2, <3>2, EndsOn
      <3>3. n = WireCells(statement["verifier"])
        BY <3>1, <3>2 DEF ReadOff
      <3>. QED
        BY <2>1, <3>1, <3>3 DEF ReadOff
    <2>4. Len(proof.hints) = HintEnd(proof.hints)
      <3>1. PICK k \in HintCounts : HintsOff(k)
        BY <1>1 DEF Consumed
      <3>2. k = 1
        <4>1. Takes(HintCounts, HintSteps, k, todo["verifier"], 1)
          BY <3>1 DEF HintsOff
        <4>. QED
          BY <2>1, <4>1, TakesNone DEF HintCounts
      <3> DEFINE e == HintEnd(proof.hints)
      <3>3. has_hint(proof.hints) /\ SubSeq(proof.hints, e + 1, Len(proof.hints)) = <<>>
        BY <2>1, <3>1, <3>2 DEF HintsOff
      <3>4. e \in Nat /\ e <= Len(proof.hints)
        BY <2>2, <3>3, HintEnds DEF has_hint
      <3> HIDE DEF e
      <3>5. \A i \in e + 1..Len(proof.hints) : proof.hints[i] \in Byte
        BY <2>2, <3>4
      <3>6. Len(SubSeq(proof.hints, e + 1, Len(proof.hints))) = (Len(proof.hints) + 1) - (e + 1)
        BY <2>2, <3>4, <3>5, SubSeqProperties
      <3>7. 0 = (Len(proof.hints) + 1) - (e + 1)
        BY <3>3, <3>6
      <3>. QED
        BY <2>2, <3>4, <3>7 DEF e
    <2>5. owed = {}
      BY <1>1, <2>1, <2>2, TakesNone DEF Covered
    <2>. QED
      BY <2>1, <2>3, <2>4, <2>5
  <1>2. Init => Consumed
    BY DEF Init, Consumed
  <1>. QED
    BY <1>1, <1>2, StartTyped, NextTyped, StartCovered, CoveredKept, ConsumedKept, PTL DEF Spec
-----------------------------------------------------------------------------
\* Each side's draws so far are ground, and its script's remaining draws will be;
\* the verifier has drawn nothing before it is given a proof.
GroundFor(s, level) ==
    /\ <<error[s], work[s]>> \in Ground(level)
    /\ \E b \in Ground(level) :
          Takes(Ground(level), GroundSteps(level), <<error[s], work[s]>>, todo[s], b)

Grounded ==
    /\ \A s \in Sides : GroundFor(s, statement[s].level)
    /\ stage = "prove" => error["verifier"] = 0 /\ work["verifier"] = 0

\* At the start both sides have their scripts before them.
LEMMA StartGrounded == Init => Grounded
  <1>. SUFFICES ASSUME Init PROVE Grounded
    OBVIOUS
  <1>1. PICK st \in Provable :
           /\ statement = [s \in Sides |-> st]
           /\ todo = [s \in Sides |-> IF s = "prover" THEN ProverScript(st) ELSE VerifierScript(st)]
    BY DEF Init
  <1>2. st \in Statements
    BY <1>1, ProtocolAssumption
  <1>3. error = [s \in Sides |-> 0] /\ work = [s \in Sides |-> 0]
    BY DEF Init
  <1>4. ASSUME NEW s \in Sides PROVE GroundFor(s, statement[s].level)
    <2>1. statement[s] = st /\ error[s] = 0 /\ work[s] = 0
          /\ todo[s] \in {ProverScript(st), VerifierScript(st)}
      BY <1>1, <1>3
    <2>2. <<0, 0>> \in Ground(st.level)
      BY GroundKinds
    <2>. QED
      BY <1>2, <2>1, <2>2, GroundScripts DEF GroundFor
  <1>. QED
    BY <1>3, <1>4 DEF Grounded, Sides

\* One step of a side's script, as a step of GroundSteps.
LEMMA GroundedOn ==
    ASSUME Typed, NEW s \in Sides, NEW level, GroundFor(s, level), Advances(s)
    PROVE  GroundFor(s, level)'
  <1> DEFINE A == Ground(level)
             T == GroundSteps(level)
             p == <<error[s], work[s]>>
             q == <<error'[s], work'[s]>>
             x == Head(todo[s])
  <1>1. /\ todo[s] \in Scripts /\ todo[s] # <<>> /\ todo'[s] = Tail(todo[s])
        /\ q = GroundAfter(error[s], work[s], x)
    BY DEF Typed, Advances, Moves
  <1>2. p \in A /\ \E b \in A : Takes(A, T, p, todo[s], b)
    BY DEF GroundFor
  <1>3. p[1] = error[s] /\ p[2] = work[s]
    OBVIOUS
  <1>4. \A r : <<p, x, r>> \in T => r \in A /\ r = GroundAfter(p[1], p[2], x)
    <2> HIDE DEF p, x
    <2>. QED
      BY DEF GroundSteps
  <1>5. q \in A /\ \E b \in A : Takes(A, T, q, todo'[s], b)
    <2> HIDE DEF A, T, p, q, x
    <2>1. PICK b \in A : Takes(A, T, p, todo[s], b)
      BY <1>2
    <2>2. PICK r \in A : <<p, x, r>> \in T /\ Takes(A, T, r, Tail(todo[s]), b)
      BY <1>1, <1>2, <2>1, TakesFirst DEF x
    <2>3. r = q
      BY <1>1, <1>3, <1>4, <2>2
    <2>. QED
      BY <1>1, <2>2, <2>3
  <1>. QED
    BY <1>5 DEF GroundFor

\* A side's step, the end of a run, and the bytes' way keep it.
LEMMA GroundedKept == Typed /\ Written /\ Grounded /\ [Next]_vars => Grounded'
  <1>. SUFFICES ASSUME Typed, Written, Grounded, [Next]_vars PROVE Grounded'
    OBVIOUS
  <1>1. ASSUME NEW s \in Sides, Advances(s) PROVE Grounded'
    <2>1. statement' = statement /\ stage' = stage /\ stage = Turn(s)
          /\ \A other \in Sides : other # s => Idle(other)
      BY <1>1 DEF Advances, Moves
    <2>2. ASSUME NEW o \in Sides PROVE GroundFor(o, statement[o].level)'
      <3>1. CASE o = s
        <4>1. ASSUME NEW level, level = statement[s].level PROVE GroundFor(s, level)'
          BY <1>1, <4>1, GroundedOn DEF Grounded
        <4>. QED
          BY <2>1, <3>1, <4>1 DEF GroundFor
      <3>2. CASE o # s
        BY <2>1, <3>2 DEF Grounded, GroundFor, Idle
      <3>. QED
        BY <3>1, <3>2
    <2>3. stage' = "prove" => error'["verifier"] = 0 /\ work'["verifier"] = 0
      BY <1>1, <2>1 DEF Grounded, Idle, Sides, Turn
    <2>. QED
      BY <2>2, <2>3 DEF Grounded
  <1>2. ASSUME Halts PROVE Grounded'
    <2>1. stage' # "prove" /\ UNCHANGED <<statement, error, work, todo>>
      BY <1>2 DEF Halts, Stops
    <2>. QED
      BY <2>1 DEF Grounded, GroundFor
  <1>3. ASSUME HandOver PROVE Grounded'
    <2>1. /\ stage = "prove" /\ stage' # "prove" /\ error' = error /\ work' = work
          /\ todo' = [todo EXCEPT !["verifier"] = todo'["verifier"]]
          /\ statement' = [statement EXCEPT !["verifier"] = statement'["verifier"]]
          /\ todo'["verifier"] = VerifierScript(statement'["verifier"])
          /\ statement'["verifier"] \in Statements
      BY <1>3, HandOverTyped DEF HandOver, Typed, Sides
    <2>2. error["verifier"] = 0 /\ work["verifier"] = 0
      BY <2>1 DEF Grounded
    <2>3. GroundFor("verifier", statement["verifier"].level)'
      <3>1. ASSUME NEW st \in Statements, NEW level, level = st.level,
                   todo'["verifier"] = VerifierScript(st)
            PROVE  /\ <<error'["verifier"], work'["verifier"]>> \in Ground(level)
                   /\ \E b \in Ground(level) :
                        Takes(Ground(level), GroundSteps(level), <<error'["verifier"], work'["verifier"]>>,
                              todo'["verifier"], b)
        <4>1. <<0, 0>> \in Ground(level)
          BY GroundKinds
        <4>. QED
          BY <2>1, <2>2, <3>1, <4>1, GroundScripts
      <3>. QED
        BY <2>1, <3>1 DEF GroundFor
    <2>4. GroundFor("prover", statement["prover"].level)'
      <3>1. /\ error'["prover"] = error["prover"] /\ work'["prover"] = work["prover"]
            /\ todo'["prover"] = todo["prover"] /\ statement'["prover"] = statement["prover"]
        BY <2>1 DEF Typed, Sides
      <3>. QED
        BY <3>1 DEF Grounded, GroundFor, Sides
    <2>. QED
      BY <2>1, <2>3, <2>4 DEF Grounded, Sides
  <1>4. ASSUME UNCHANGED vars PROVE Grounded'
    BY <1>4 DEF Grounded, GroundFor, vars
  <1>. QED
    BY <1>1, <1>2, <1>3, <1>4, StepKinds

\* Every block of draws, of either side and for any statement, is covered by the
\* proof of work before it.
THEOREM DrawsAreGround == Spec => []GroundEnough
  <1>1. Typed /\ Grounded => GroundEnough
    <2> SUFFICES ASSUME Typed, Grounded, NEW s \in Sides, error[s] > 0
                 PROVE  statement[s].level + CeilLog2(error[s]) <= 128 + work[s]
      BY DEF GroundEnough
    <2>1. <<error[s], work[s]>> \in Ground(statement[s].level)
      BY DEF Grounded, GroundFor
    <2>. QED
      BY <2>1 DEF Ground
  <1>2. Spec => []Grounded
    BY StartTyped, NextTyped, StartGrounded, GroundedKept, PTL DEF Spec
  <1>. QED
    BY <1>1, <1>2, TypedAlways, PTL-----------------------------------------------------------------------------
\* What a record takes off a narg string, and what it leaves.
LEMMA MessageFirst ==
    ASSUME NEW m \in Seq(Byte), NEW rest \in Seq(Byte), NEW narg, narg = m \o rest
    PROVE  /\ Len(m) <= Len(narg)
           /\ SubSeq(narg, 1, Len(m)) = m
           /\ SubSeq(narg, Len(m) + 1, Len(narg)) = rest
  <1>1. Len(m) \in Nat /\ Len(rest) \in Nat /\ Len(narg) = Len(m) + Len(rest)
    BY LenProperties, ConcatProperties
  <1>2. SubSeq(narg, Len(m) + 1, Len(narg)) = rest
    BY <1>1, ReadLast DEF Read
  <1>3. SubSeq(narg, 1, Len(m)) = m
    BY ReadFirst DEF Read
  <1>. QED
    BY <1>1, <1>2, <1>3

\* A prover's step is one of the script's, whatever it will write after it.
LEMMA ProverFollows ==
    ASSUME Typed, Advances("prover")
    PROVE  \E m \in Seq(Byte) :
              /\ t'["prover"].narg = t["prover"].narg \o m
              /\ \A rest \in Seq(Byte) :
                    Follows(<<t["prover"].sponge, m \o rest>>, Head(todo["prover"]),
                            <<t'["prover"].sponge, rest>>)
  <1> DEFINE x == Head(todo["prover"])
             p == t["prover"]
             sponge == p.sponge
             narg == p.narg
  <1>1. /\ sponge \in Sponges /\ narg \in Seq(Byte) /\ p = [sponge |-> sponge, narg |-> narg]
        /\ x \in Steps /\ Transcribes("prover", x) /\ x.op # "refuse"
    BY DEF Typed, Advances, Moves, Sides
  <1>2. <<>> \in Seq(Byte) /\ narg \o <<>> = narg /\ \A rest \in Seq(Byte) : <<>> \o rest = rest
    BY <1>1, EmptySeq, ConcatEmptySeq
  <1> HIDE DEF x
  <1>3. ASSUME NEW m \in Seq(Byte), t'["prover"].narg = narg \o m,
               \A rest \in Seq(Byte) : Follows(<<sponge, m \o rest>>, x, <<t'["prover"].sponge, rest>>)
        PROVE  \E n \in Seq(Byte) :
                  /\ t'["prover"].narg = t["prover"].narg \o n
                  /\ \A rest \in Seq(Byte) :
                        Follows(<<t["prover"].sponge, n \o rest>>, Head(todo["prover"]),
                                <<t'["prover"].sponge, rest>>)
    BY <1>3 DEF x
  <1>4. ASSUME NEW u, NEW v, t'["prover"] = [sponge |-> u, narg |-> v]
        PROVE  t'["prover"].sponge = u /\ t'["prover"].narg = v
    BY <1>4
  <1>5. CASE x.op \in {"check", "hint"}
    <2>1. t'["prover"] = p
      BY <1>1, <1>5 DEF Transcribes
    <2>2. ASSUME NEW rest \in Seq(Byte)
          PROVE  Follows(<<sponge, <<>> \o rest>>, x, <<t'["prover"].sponge, rest>>)
      <3>1. ASSUME NEW u, u = rest, NEW w, w = sponge PROVE Follows(<<sponge, u>>, x, <<w, rest>>)
        BY <1>5, <3>1 DEF Follows
      <3>. QED
        BY <1>2, <2>1, <3>1
    <2>. QED
      BY <1>2, <1>3, <2>1, <2>2
  <1>6. CASE x.op = "absorb"
    <2>1. t'["prover"] = [sponge |-> sponge \o x.cells, narg |-> narg]
      BY <1>1, <1>6 DEF Transcribes, public_message
    <2>2. t'["prover"].sponge = sponge \o x.cells /\ t'["prover"].narg = narg
      BY <1>4, <2>1
    <2>3. ASSUME NEW rest \in Seq(Byte), NEW u, u = rest, NEW w, w = sponge \o x.cells
          PROVE  Follows(<<sponge, u>>, x, <<w, rest>>)
      BY <1>6, <2>3 DEF Follows
    <2>4. ASSUME NEW rest \in Seq(Byte)
          PROVE  Follows(<<sponge, <<>> \o rest>>, x, <<t'["prover"].sponge, rest>>)
      BY <1>2, <2>2, <2>3
    <2>. QED
      BY <1>2, <1>3, <2>2, <2>4
  <1>7. CASE x.op = "draw"
    <2>1. t'["prover"] = [sponge |-> sponge \o Squeezes(x.count), narg |-> narg]
      BY <1>1, <1>7 DEF Transcribes, public_message, Squeezes
    <2>2. t'["prover"].sponge = sponge \o Squeezes(x.count) /\ t'["prover"].narg = narg
      BY <1>4, <2>1
    <2>3. ASSUME NEW rest \in Seq(Byte), NEW u, u = rest, NEW w, w = sponge \o Squeezes(x.count)
          PROVE  Follows(<<sponge, u>>, x, <<w, rest>>)
      BY <1>7, <2>3 DEF Follows
    <2>4. ASSUME NEW rest \in Seq(Byte)
          PROVE  Follows(<<sponge, <<>> \o rest>>, x, <<t'["prover"].sponge, rest>>)
      BY <1>2, <2>2, <2>3
    <2>. QED
      BY <1>2, <1>3, <2>2, <2>4
  <1>8. CASE x.op \in {"record", "nonce"}
    <2>1. PICK m \in Seq(Cell) : /\ Len(m) = CellsOf(x) /\ t'["prover"] = send_message(p, m)
                                 /\ x.op = "nonce" => valid(sponge, m, x.bits)
      BY <1>1, <1>8 DEF Transcribes, Sends
    <2>2. m \in Seq(Byte)
      <3>1. Cell \subseteq Byte
        BY ProtocolAssumption
      <3>. QED
        BY <2>1, <3>1, SeqMonotonic
    <2>3. t'["prover"] = [sponge |-> sponge \o m, narg |-> narg \o m]
      BY <1>1, <2>1 DEF send_message
    <2>4. t'["prover"].sponge = sponge \o m /\ t'["prover"].narg = narg \o m
      BY <2>3
    <2>5. ASSUME NEW rest \in Seq(Byte), NEW u, u = m \o rest, NEW w, w = sponge \o m
          PROVE  Follows(<<sponge, u>>, x, <<w, rest>>)
      BY <1>8, <2>1, <2>2, <2>5 DEF Follows
    <2>6. ASSUME NEW rest \in Seq(Byte)
          PROVE  Follows(<<sponge, m \o rest>>, x, <<t'["prover"].sponge, rest>>)
      BY <2>4, <2>5
    <2>. QED
      BY <1>3, <2>2, <2>4, <2>6
  <1>. QED
    BY <1>1, <1>5, <1>6, <1>7, <1>8, StepFields

\* A verifier that can take a step finds what it reads, and takes that step.
LEMMA VerifierFollows ==
    ASSUME Typed, NEW x \in Steps, NEW b \in Streams,
           Follows(<<t["verifier"].sponge, t["verifier"].narg>>, x, b)
    PROVE  /\ x.op \in {"record", "nonce"} => has_message(t["verifier"], CellsOf(x))
           /\ x.op = "nonce" => valid(t["verifier"].sponge, next_message(t["verifier"], CellsOf(x)), x.bits)
           /\ Transcribes("verifier", x) => b = <<t'["verifier"].sponge, t'["verifier"].narg>>
  <1> DEFINE v == t["verifier"]
             a == <<v.sponge, v.narg>>
             n == CellsOf(x)
  <1>1. /\ v.sponge \in Sponges /\ v.narg \in Seq(Byte) /\ v = [sponge |-> v.sponge, narg |-> v.narg]
        /\ a[1] = v.sponge /\ a[2] = v.narg /\ Follows(a, x, b)
    BY DEF Typed, Sides
  <1> HIDE DEF a, v
  <1>2. ASSUME NEW u, NEW w, b = <<u, w>>, Transcribes("verifier", x) => t'["verifier"] = [sponge |-> u, narg |-> w]
        PROVE  Transcribes("verifier", x) => b = <<t'["verifier"].sponge, t'["verifier"].narg>>
    BY <1>2
  <1>3. CASE x.op \in {"check", "hint"}
    <2>1. b = a
      BY <1>1, <1>3 DEF Follows
    <2>2. Transcribes("verifier", x) => t'["verifier"] = v
      BY <1>3 DEF Transcribes, v
    <2>. QED
      BY <1>1, <1>3, <2>1, <2>2 DEF a
  <1>4. CASE x.op = "absorb"
    <2>1. b = <<v.sponge \o x.cells, v.narg>>
      BY <1>1, <1>4 DEF Follows
    <2>2. Transcribes("verifier", x) => t'["verifier"] = [sponge |-> v.sponge \o x.cells, narg |-> v.narg]
      BY <1>1, <1>4 DEF Transcribes, public_message, v
    <2>3. Transcribes("verifier", x) => b = <<t'["verifier"].sponge, t'["verifier"].narg>>
      BY <1>2, <2>1, <2>2
    <2>4. x.op \notin {"record", "nonce"}
      BY <1>4
    <2>. QED
      BY <2>3, <2>4
  <1>5. CASE x.op = "draw"
    <2>1. b = <<v.sponge \o Squeezes(x.count), v.narg>>
      BY <1>1, <1>5 DEF Follows
    <2>2. Transcribes("verifier", x)
          => t'["verifier"] = [sponge |-> v.sponge \o Squeezes(x.count), narg |-> v.narg]
      BY <1>1, <1>5 DEF Transcribes, public_message, v, Squeezes
    <2>3. Transcribes("verifier", x) => b = <<t'["verifier"].sponge, t'["verifier"].narg>>
      BY <1>2, <2>1, <2>2
    <2>4. x.op \notin {"record", "nonce"}
      BY <1>5
    <2>. QED
      BY <2>3, <2>4
  <1>6. CASE x.op \in {"record", "nonce"}
    <2>1. \E m, rest \in Seq(Byte) :
             /\ v.narg = m \o rest /\ Len(m) = n /\ b = <<v.sponge \o m, rest>>
             /\ x.op = "nonce" => valid(v.sponge, m, x.bits)
      BY <1>1, <1>6 DEF Follows
    <2>2. PICK m \in Seq(Byte), rest \in Seq(Byte) :
             /\ v.narg = m \o rest /\ Len(m) = n /\ b = <<v.sponge \o m, rest>>
             /\ x.op = "nonce" => valid(v.sponge, m, x.bits)
      BY <2>1
    <2>3. has_message(v, n) /\ next_message(v, n) = m /\ SubSeq(v.narg, n + 1, Len(v.narg)) = rest
      BY <2>2, MessageFirst DEF has_message, next_message
    <2>4. Transcribes("verifier", x) => t'["verifier"] = [sponge |-> v.sponge \o m, narg |-> rest]
      <3>1. Transcribes("verifier", x) => t'["verifier"] = read_message(v, n)
        BY <1>6 DEF Transcribes, Reads, v
      <3>2. read_message(v, n) = [sponge |-> v.sponge \o m, narg |-> rest]
        BY <1>1, <2>3 DEF read_message
      <3>. QED
        BY <3>1, <3>2
    <2>5. Transcribes("verifier", x) => b = <<t'["verifier"].sponge, t'["verifier"].narg>>
      BY <2>2, <2>4
    <2>6. x.op = "nonce" => valid(v.sponge, next_message(v, n), x.bits)
      BY <2>2, <2>3
    <2>. QED
      BY <2>3, <2>5, <2>6 DEF v
  <1>7. x.op \in {"absorb", "record", "draw", "nonce", "check", "hint"}
    BY <1>1, StepFields DEF Follows
  <1>. QED
    BY <1>3, <1>4, <1>5, <1>6, <1>7
\* The prover's script, from its start, writes what it has written and then
\* what its remaining steps write.
Led ==
    \A rest \in Seq(Byte), c \in Streams :
        Takes(Streams, LockSteps, <<t["prover"].sponge, rest>>, todo["prover"], c)
        => Takes(Streams, LockSteps, <<<<>>, t["prover"].narg \o rest>>,
                 ProverScript(statement["prover"]), c)

\* The prover has said nothing yet.
LEMMA StartLed == Init => Led
  <1>. SUFFICES ASSUME Init PROVE Led
    OBVIOUS
  <1>1. PICK st \in Provable :
           /\ statement = [s \in Sides |-> st]
           /\ todo = [s \in Sides |-> IF s = "prover" THEN ProverScript(st) ELSE VerifierScript(st)]
    BY DEF Init
  <1>2. t = [s \in Sides |-> IF s = "prover" THEN NewProver ELSE NewVerifier(<<>>)]
    BY DEF Init
  <1>3. /\ statement["prover"] = st /\ todo["prover"] = ProverScript(st)
        /\ t["prover"].sponge = <<>> /\ t["prover"].narg = <<>>
    BY <1>1, <1>2 DEF Sides, NewProver
  <1>4. \A rest \in Seq(Byte) : <<>> \o rest = rest
    BY ConcatEmptySeq
  <1>. QED
    BY <1>3, <1>4 DEF Led

\* The prover says what its program says.
LEMMA LedKept == Typed /\ Written /\ Led /\ [Next]_vars => Led'
  <1>. SUFFICES ASSUME Typed, Written, Led, [Next]_vars PROVE Led'
    OBVIOUS
  <1>1. ASSUME Advances("prover") PROVE Led'
    <2> DEFINE x == Head(todo["prover"])
               script == ProverScript(statement["prover"])
    <2>1. /\ todo["prover"] \in Scripts /\ todo["prover"] # <<>> /\ x \in Steps
          /\ todo'["prover"] = Tail(todo["prover"]) /\ statement' = statement
          /\ t["prover"].sponge \in Sponges /\ t["prover"].narg \in Seq(Byte)
      BY <1>1 DEF Advances, Moves, Typed, Sides
    <2>2. t'["prover"].sponge \in Sponges
      BY <1>1, Transcribed DEF Sides
    <2>3. PICK m \in Seq(Byte) :
             /\ t'["prover"].narg = t["prover"].narg \o m
             /\ \A rest \in Seq(Byte) :
                   Follows(<<t["prover"].sponge, m \o rest>>, x, <<t'["prover"].sponge, rest>>)
      BY <1>1, ProverFollows
    <2> HIDE DEF x, script
    <2>4. ASSUME NEW rest \in Seq(Byte), NEW c \in Streams,
                 Takes(Streams, LockSteps, <<t'["prover"].sponge, rest>>, Tail(todo["prover"]), c)
          PROVE  Takes(Streams, LockSteps, <<<<>>, t'["prover"].narg \o rest>>, script, c)
      <3> DEFINE a == <<t["prover"].sponge, m \o rest>>
                 b == <<t'["prover"].sponge, rest>>
      <3>1. m \o rest \in Seq(Byte) /\ t["prover"].narg \o (m \o rest) = t'["prover"].narg \o rest
        <4>1. m \o rest \in Seq(Byte)
          BY ConcatProperties
        <4>2. \A u, v, w \in Seq(Byte) : (u \o v) \o w = u \o (v \o w)
          BY ConcatAssociative, SMTT(30)
        <4>3. (t["prover"].narg \o m) \o rest = t["prover"].narg \o (m \o rest)
          BY <2>1, <4>2, Zenon
        <4>. QED
          BY <2>3, <4>1, <4>3
      <3>2. a \in Streams /\ b \in Streams
        BY <2>1, <2>2, <3>1 DEF Streams
      <3>3. Follows(a, x, b) /\ Takes(Streams, LockSteps, b, Tail(todo["prover"]), c)
        BY <2>3, <2>4
      <3>4. Takes(Streams, LockSteps, a, todo["prover"], c)
        <4> HIDE DEF a, b
        <4>1. <<a, x, b>> \in LockSteps
          BY <2>1, <3>2, <3>3, LockStep
        <4>. QED
          BY <2>1, <3>2, <3>3, <4>1, TakesFirst DEF x
      <3>5. Takes(Streams, LockSteps, <<<<>>, t["prover"].narg \o (m \o rest)>>, script, c)
        BY <3>1, <3>4 DEF Led, script
      <3>. QED
        BY <3>1, <3>5
    <2>. QED
      BY <2>1, <2>4 DEF Led, script
  <1>2. ASSUME t'["prover"] = t["prover"], todo'["prover"] = todo["prover"],
               statement'["prover"] = statement["prover"]
        PROVE  Led'
    BY <1>2 DEF Led
  <1>3. ASSUME Advances("verifier") PROVE Led'
    <2>1. t'["prover"] = t["prover"] /\ todo'["prover"] = todo["prover"] /\ statement' = statement
      BY <1>3 DEF Advances, Moves, Idle, Sides
    <2>. QED
      BY <1>2, <2>1
  <1>4. ASSUME Halts PROVE Led'
    BY <1>2, <1>4, HaltTyped
  <1>5. ASSUME HandOver PROVE Led'
    BY <1>2, <1>5, HandOverTyped
  <1>6. ASSUME UNCHANGED vars PROVE Led'
    BY <1>2, <1>6 DEF vars
  <1>. QED
    BY <1>1, <1>3, <1>4, <1>5, <1>6, StepKinds DEF Sides

\* A prover that has done leaves what takes a verifier to where it ended.
LEMMA ProverLeads ==
    ASSUME Typed, Led, todo["prover"] = <<>>
    PROVE  Takes(Streams, LockSteps, <<<<>>, t["prover"].narg>>,
                 VerifierScript(statement["prover"]), <<t["prover"].sponge, <<>>>>)
  <1> DEFINE st == statement["prover"]
             a == <<<<>>, t["prover"].narg>>
             b == <<t["prover"].sponge, <<>>>>
  <1>1. st \in Statements /\ t["prover"].sponge \in Sponges /\ t["prover"].narg \in Seq(Byte)
        /\ <<>> \in Seq(Byte) /\ <<>> \in Sponges
    BY EmptySeq, SpongesConcat DEF Typed, Sides
  <1>2. a \in Streams /\ b \in Streams
    BY <1>1 DEF Streams
  <1>3. Takes(Streams, LockSteps, b, todo["prover"], b)
    <2> HIDE DEF b
    <2>. QED
      BY <1>2, TakesNone
  <1>4. t["prover"].narg \o <<>> = t["prover"].narg
    BY <1>1, ConcatEmptySeq
  <1>5. Takes(Streams, LockSteps, a, ProverScript(st), b)
    BY <1>1, <1>2, <1>3, <1>4 DEF Led
  <1> HIDE DEF a, b, st
  <1>6. Takes(Streams, LockSteps, a, VerifierScript(st), b)
    BY <1>1, <1>2, <1>5, LockScripts
  <1>. QED
    BY <1>6 DEF a, b, st
-----------------------------------------------------------------------------
\* Why a verifier refuses a proof.
Refusal(x) ==
    \/ x.op \in {"record", "nonce"} /\ ~has_message(t["verifier"], CellsOf(x))
    \/ x.op = "nonce" /\ ~valid(t["verifier"].sponge, next_message(t["verifier"], CellsOf(x)), x.bits)
    \/ x.op = "hint" /\ ~has_hint(hints["verifier"])
    \/ x.op = "check" /\ ~Untouched(x.check)
    \/ x.op = "refuse"

\* Why a verifier rejects.
LEMMA Rejections ==
    ASSUME Typed, Next, stage = "verify", stage' = "rejected"
    PROVE  IF todo["verifier"] = <<>> THEN ~EndOfProof ELSE Refusal(Head(todo["verifier"]))
  <1> DEFINE x == Head(todo["verifier"])
  <1>1. ASSUME todo["verifier"] # <<>> PROVE x \in Steps
    <2>1. todo["verifier"] \in Scripts
      BY DEF Typed, Sides
    <2>. QED
      BY <1>1, <2>1, TakesFirst
  <1>2. ASSUME NEW s \in Sides PROVE ~ Proceeds(s)
    BY DEF Proceeds
  <1>3. ASSUME NEW s \in Sides, NEW op, Runs(s, op)
        PROVE  todo["verifier"] # <<>> /\ x.op = op
    BY <1>3 DEF Runs, Sides
  <1> HIDE DEF x
  <1>4. ASSUME NEW s \in Sides, AbsorbPublic(s) \/ DrawChallenges(s) \/ SendRecord \/ SendNonce \/ WriteHint
        PROVE  FALSE
    BY <1>2, <1>4 DEF AbsorbPublic, DrawChallenges, SendRecord, SendNonce, WriteHint, Sides
  <1>5. ASSUME NEW s \in Sides, Refused(s) PROVE todo["verifier"] # <<>> /\ Refusal(x)
    BY <1>3, <1>5 DEF Refused, Refusal
  <1>6. ASSUME ReadRecord PROVE todo["verifier"] # <<>> /\ Refusal(x)
    <2>1. todo["verifier"] # <<>> /\ x.op = "record"
      BY <1>3, <1>6 DEF ReadRecord, Sides
    <2>2. ~ has_message(t["verifier"], x.count)
      BY <1>2, <1>6 DEF ReadRecord, Sides, x
    <2>3. CellsOf(x) = x.count
      BY <1>1, <2>1, StepFields
    <2>. QED
      BY <2>1, <2>2, <2>3 DEF Refusal
  <1>7. ASSUME ReadNonce PROVE todo["verifier"] # <<>> /\ Refusal(x)
    <2>1. todo["verifier"] # <<>> /\ x.op = "nonce"
      BY <1>3, <1>7 DEF ReadNonce, Sides
    <2>2. ~ (/\ has_message(t["verifier"], NonceCells)
             /\ valid(t["verifier"].sponge, next_message(t["verifier"], NonceCells), x.bits))
      BY <1>2, <1>7 DEF ReadNonce, Sides, x
    <2>3. CellsOf(x) = NonceCells
      BY <1>1, <2>1, StepFields
    <2>. QED
      BY <2>1, <2>2, <2>3 DEF Refusal
  <1>8. ASSUME ReadHint PROVE todo["verifier"] # <<>> /\ Refusal(x)
    <2>1. todo["verifier"] # <<>> /\ x.op = "hint"
      BY <1>3, <1>8 DEF ReadHint, Sides
    <2>2. ~ has_hint(hints["verifier"])
      BY <1>2, <1>8 DEF ReadHint, Sides
    <2>. QED
      BY <2>1, <2>2 DEF Refusal
  <1>9. ASSUME RunCheck PROVE todo["verifier"] # <<>> /\ Refusal(x)
    <2>1. todo["verifier"] # <<>> /\ x.op = "check"
      BY <1>3, <1>9 DEF RunCheck, Sides
    <2>2. ~ Untouched(x.check)
      BY <1>2, <1>9 DEF RunCheck, Sides, x
    <2>. QED
      BY <2>1, <2>2 DEF Refusal
  <1>10. ASSUME Finish PROVE todo["verifier"] = <<>> /\ ~EndOfProof
    BY <1>10 DEF Finish, Stops
  <1>11. ~ HandOver
    BY DEF HandOver
  <1>. QED
    BY <1>4, <1>5, <1>6, <1>7, <1>8, <1>9, <1>10, <1>11 DEF Next, x, Sides
\* The hints a prover writes are one hint, within the limit, and nothing more.
LEMMA HintRead ==
    LET hs == hint_bytes(<<Derived>>)
    IN  has_hint(hs) /\ SubSeq(hs, HintEnd(hs) + 1, Len(hs)) = <<>>
  <1> DEFINE hs == hint_bytes(<<Derived>>)
             front == to_le(1, U32)
  <1>1. /\ Derived \in Byte /\ HintLimit \in Nat \ {0} /\ 1 \in Numbers(U32) /\ U32 \in Nat
        /\ hs \in Seq(Byte) /\ Len(hs) = U32 + 1
    BY ProtocolAssumption, HintBytes
  <1>2. front \in Seq(Byte) /\ Len(front) = U32 /\ from_le(front) = 1
    BY <1>1, Spelling
  <1>3. <<Derived>> \in Seq(Byte) /\ hs = front \o <<Derived>>
    BY <1>1 DEF hint_bytes
  <1> HIDE DEF hs, front
  <1>4. SubSeq(hs, 1, U32) = front
    BY <1>2, <1>3, MessageFirst
  <1>5. HintEnd(hs) = U32 + 1
    BY <1>2, <1>4 DEF HintEnd
  <1>6. has_hint(hs)
    BY <1>1, <1>5 DEF has_hint
  <1>7. SubSeq(hs, HintEnd(hs) + 1, Len(hs)) = <<>>
    BY <1>1, <1>5, SubSeqEmpty
  <1>. QED
    BY <1>6, <1>7 DEF hs

\* The verifier's script, from where it is, takes it over the rest of the narg
\* string to the prover's sponge, and a proof that arrived as it was sent was
\* not refused.
Rejoins == Takes(Streams, LockSteps, <<t["verifier"].sponge, t["verifier"].narg>>,
                 todo["verifier"], <<t["prover"].sponge, <<>>>>)
Retraces ==
    /\ stage \in {"prove", "aborted"} => t["verifier"].sponge = <<>>
    /\ stage \in {"verify", "accepted", "rejected"} =>
          /\ todo["prover"] = <<>>
          /\ SameRecords => Rejoins
          /\ SameStatement /\ wire = encode(Sent) => proof = Sent /\ stage # "rejected"

\* Where a verifier's script goes on over an unchanged proof, it is not refused.
LEMMA NoRefusal ==
    ASSUME Typed, Written, Consumed, Retraces, stage = "verify",
           SameStatement, wire = encode(Sent), Next
    PROVE  stage' # "rejected"
  <1> DEFINE v == t["verifier"]
             x == Head(todo["verifier"])
             a == <<v.sponge, v.narg>>
             b == <<t["prover"].sponge, <<>>>>
  <1>1. todo["prover"] = <<>> /\ proof = Sent /\ Rejoins /\ todo["verifier"] \in Scripts
    BY DEF Retraces, SameRecords, Sent, Typed, Sides
  <1>2. proof.hints = hint_bytes(<<Derived>>) /\ proof.hints = hints["prover"]
    BY <1>1, ProverDone DEF Sent
  <1>3. a \in Streams /\ b \in Streams
    <2>1. v.sponge \in Sponges /\ v.narg \in Seq(Byte) /\ t["prover"].sponge \in Sponges /\ <<>> \in Seq(Byte)
      BY EmptySeq DEF Typed, Sides
    <2>. QED
      BY <2>1 DEF Streams
  <1>4. PICK k \in HintCounts : HintsOff(k)
    BY DEF Consumed
  <1>5. CASE todo["verifier"] = <<>>
    <2>1. a = b
      <3> HIDE DEF a, b
      <3>1. Takes(Streams, LockSteps, a, todo["verifier"], b)
        BY <1>1 DEF Rejoins, a, b
      <3>. QED
        BY <1>3, <1>5, <3>1, TakesNone
    <2>2. v.narg = <<>>
      BY <2>1
    <2>3. k = 1
      <3>1. Takes(HintCounts, HintSteps, k, todo["verifier"], 1)
        BY <1>4 DEF HintsOff
      <3>. QED
        BY <1>5, <3>1, TakesNone DEF HintCounts
    <2>4. hints["verifier"] = <<>>
      BY <1>2, <1>4, <2>3, HintRead DEF HintsOff
    <2>5. EndOfProof
      BY <2>2, <2>4 DEF EndOfProof, check_eof
    <2>. QED
      BY <1>5, <2>5, Rejections
  <1>6. CASE todo["verifier"] # <<>>
    <2>1. PICK c \in Streams : <<a, x, c>> \in LockSteps
      <3> HIDE DEF a, b
      <3>1. Takes(Streams, LockSteps, a, todo["verifier"], b)
        BY <1>1 DEF Rejoins, a, b
      <3>. QED
        BY <1>1, <1>3, <1>6, <3>1, TakesFirst
    <2>2. x \in Steps
      BY <1>1, <1>6, TakesFirst
    <2>3. Follows(a, x, c)
      <3> HIDE DEF a, x
      <3>. QED
        BY <1>3, <2>1, <2>2, LockStep
    <2>4. x.op # "refuse"
      BY <2>3 DEF Follows
    <2>5. /\ x.op \in {"record", "nonce"} => has_message(v, CellsOf(x))
          /\ x.op = "nonce" => valid(v.sponge, next_message(v, CellsOf(x)), x.bits)
      BY <2>2, <2>3, VerifierFollows
    <2>6. x.op = "hint" => has_hint(hints["verifier"])
      <3>1. ASSUME x.op = "hint" PROVE k = 0
        <4>1. PICK d \in HintCounts : d = IF x.op = "hint" THEN k + 1 ELSE k
          BY <1>1, <1>4, <1>6, HintTaken DEF HintsOff
        <4>. QED
          BY <3>1, <4>1 DEF HintCounts
      <3>. QED
        BY <1>2, <1>4, <3>1, HintRead DEF HintsOff
    <2>7. x.op = "check" => Untouched(x.check)
      BY <1>1, <1>2 DEF Untouched, SameRecords, Sent
    <2>8. ~ Refusal(x)
      BY <2>4, <2>5, <2>6, <2>7 DEF Refusal
    <2>. QED
      BY <1>6, <2>8, Rejections
  <1>. QED
    BY <1>5, <1>6

\* A verifier's step takes it along.
LEMMA RejoinsOn ==
    ASSUME Typed, Rejoins, Advances("verifier")
    PROVE  Rejoins'
  <1> DEFINE v == t["verifier"]
             x == Head(todo["verifier"])
             a == <<v.sponge, v.narg>>
             b == <<t["prover"].sponge, <<>>>>
  <1>1. /\ todo["verifier"] \in Scripts /\ todo["verifier"] # <<>> /\ x \in Steps
        /\ todo'["verifier"] = Tail(todo["verifier"]) /\ t'["prover"] = t["prover"]
        /\ Transcribes("verifier", x)
    BY DEF Advances, Moves, Idle, Typed, Sides
  <1>2. a \in Streams /\ b \in Streams
    <2>1. v.sponge \in Sponges /\ v.narg \in Seq(Byte) /\ t["prover"].sponge \in Sponges /\ <<>> \in Seq(Byte)
      BY EmptySeq DEF Typed, Sides
    <2>. QED
      BY <2>1 DEF Streams
  <1>3. PICK c \in Streams : <<a, x, c>> \in LockSteps /\ Takes(Streams, LockSteps, c, Tail(todo["verifier"]), b)
    <2> HIDE DEF a, b
    <2>1. Takes(Streams, LockSteps, a, todo["verifier"], b)
      BY DEF Rejoins, a, b
    <2>. QED
      BY <1>1, <1>2, <2>1, TakesFirst
  <1>4. Follows(a, x, c)
    <2> HIDE DEF a, x
    <2>. QED
      BY <1>1, <1>2, <1>3, LockStep
  <1>5. c = <<t'["verifier"].sponge, t'["verifier"].narg>>
    BY <1>1, <1>4, VerifierFollows
  <1>. QED
    BY <1>1, <1>3, <1>5 DEF Rejoins

\* The verifier stays on the prover's path.
LEMMA RetracesKept ==
    Typed /\ Written /\ Led /\ Consumed /\ Retraces /\ [Next]_vars => Retraces'
  <1>. SUFFICES ASSUME Typed, Written, Led, Consumed, Retraces, [Next]_vars PROVE Retraces'
    OBVIOUS
  <1>1. ASSUME Advances("prover") PROVE Retraces'
    BY <1>1 DEF Advances, Moves, Idle, Turn, Sides, Retraces
  <1>2. ASSUME Advances("verifier") PROVE Retraces'
    <2>1. /\ stage = "verify" /\ stage' = "verify" /\ UNCHANGED <<statement, wire, proof>>
          /\ t'["prover"] = t["prover"] /\ hints'["prover"] = hints["prover"]
          /\ todo'["prover"] = todo["prover"]
      BY <1>2 DEF Advances, Moves, Idle, Turn, Sides
    <2>2. (SameRecords' <=> SameRecords) /\ (SameStatement' <=> SameStatement) /\ Sent' = Sent
      BY <2>1 DEF SameRecords, SameStatement, Sent
    <2>3. SameRecords => Rejoins'
      BY <1>2, <2>1, RejoinsOn DEF Retraces
    <2>. QED
      BY <2>1, <2>2, <2>3 DEF Retraces
  <1>3. ASSUME Halts, ~ UNCHANGED vars PROVE Retraces'
    <2>1. PICK outcome \in {"aborted", "accepted", "rejected"} :
             Stops(outcome) /\ stage = IF outcome = "aborted" THEN "prove" ELSE "verify"
      BY <1>3 DEF Halts
    <2>2. /\ stage' = outcome
          /\ UNCHANGED <<statement, wire, proof, t, hints, todo>>
      BY <2>1 DEF Stops
    <2>3. /\ (SameRecords' <=> SameRecords) /\ (SameStatement' <=> SameStatement) /\ Sent' = Sent
          /\ (Rejoins' <=> Rejoins)
      BY <2>2 DEF SameRecords, SameStatement, Sent, Rejoins
    <2>4. outcome = "rejected" => ~ (SameStatement /\ wire = encode(Sent))
      BY <1>3, <2>1, <2>2, NoRefusal
    <2>. QED
      BY <2>1, <2>2, <2>3, <2>4 DEF Retraces
  <1>4. ASSUME HandOver PROVE Retraces'
    <2>1. /\ stage' \in {"verify", "rejected"} /\ Typed'
          /\ t'["verifier"] = NewVerifier(proof'.narg)
          /\ todo'["verifier"] = VerifierScript(statement'["verifier"])
          /\ t'["prover"] = t["prover"] /\ hints'["prover"] = hints["prover"]
          /\ todo'["prover"] = todo["prover"] /\ statement'["prover"] = statement["prover"]
      BY <1>4, HandOverTyped
    <2>2. /\ todo["prover"] = <<>> /\ proof' = decode(wire')
          /\ stage' = IF DecodingError(wire') = "none" THEN "verify" ELSE "rejected"
      BY <1>4 DEF HandOver
    <2>3. Sent' = Sent
      BY <2>1 DEF Sent
    <2>4. SameRecords' => Rejoins'
      <3>. SUFFICES ASSUME SameRecords' PROVE Rejoins'
        OBVIOUS
      <3>1. statement'["verifier"] = statement["prover"] /\ proof'.narg = t["prover"].narg
        BY <2>1 DEF SameRecords, SameStatement
      <3>2. t'["verifier"].sponge = <<>> /\ t'["verifier"].narg = t["prover"].narg
        BY <2>1, <3>1 DEF NewVerifier
      <3>. QED
        BY <2>1, <2>2, <3>1, <3>2, ProverLeads DEF Rejoins
    <2>5. ASSUME wire' = encode(Sent) PROVE proof' = Sent /\ stage' # "rejected"
      <3>1. DecodingError(encode(Sent)) = "none" /\ decode(encode(Sent)) = Sent
        BY <2>2, ProverDone, DeliveredBytes, RoundTrip
      <3>. QED
        BY <2>2, <2>5, <3>1
    <2>. QED
      BY <2>1, <2>2, <2>3, <2>4, <2>5 DEF Retraces
  <1>5. ASSUME UNCHANGED vars PROVE Retraces'
    BY <1>5 DEF vars, Retraces, SameRecords, SameStatement, Sent, Rejoins
  <1>. QED
    BY <1>1, <1>2, <1>3, <1>4, <1>5, StepKinds DEF Sides

\* The two programs make the same transcript calls, whatever the statement: on
\* the same narg string the verifier's sponge is only ever a part of the
\* prover's, is all of it on acceptance, and an unchanged container is accepted.
THEOREM SidesInLockstep == Spec => []Lockstep
  <1>1. Typed /\ Consumed /\ Retraces => Lockstep
    <2>. SUFFICES ASSUME Typed, Consumed, Retraces, stage # "prove", SameRecords
                  PROVE  /\ IsPrefix(t["verifier"].sponge, t["prover"].sponge)
                         /\ stage = "accepted" => t["verifier"].sponge = t["prover"].sponge
                         /\ wire = encode(Sent) => stage # "rejected"
      BY DEF Lockstep
    <2> DEFINE v == t["verifier"].sponge
               p == t["prover"].sponge
               a == <<v, t["verifier"].narg>>
               b == <<p, <<>>>>
    <2>1. /\ v \in Sponges /\ p \in Sponges /\ t["verifier"].narg \in Seq(Byte) /\ <<>> \in Seq(Byte)
          /\ todo["verifier"] \in Scripts
      BY EmptySeq DEF Typed, Sides
    <2>2. a \in Streams /\ b \in Streams /\ a[1] = v /\ b[1] = p
      BY <2>1 DEF Streams
    <2>3. ASSUME NEW u \in Sponges, p = v \o u PROVE IsPrefix(v, p)
      <3>1. /\ v \in Seq(Input \cup Byte) /\ u \in Seq(Input \cup Byte)
            /\ Len(v) \in Nat /\ Len(u) \in Nat
        BY <2>1, LenProperties DEF Sponges
      <3>2. Len(v) <= Len(p)
        BY <2>3, <3>1, ConcatProperties
      <3>3. SubSeq(p, 1, Len(v)) = v
        <4>1. CASE Len(v) = 0
          <5>1. v = <<>>
            BY <3>1, <4>1, EmptySeq
          <5>2. SubSeq(p, 1, 0) = <<>>
            BY SubSeqEmpty
          <5>. QED
            BY <4>1, <5>1, <5>2
        <4>2. CASE Len(v) # 0
          <5>1. 1 \in 1..Len(v) /\ Len(v) \in 1..Len(v)
            BY <3>1, <4>2
          <5>2. SubSeq(v \o u, 1, Len(v)) = SubSeq(v, 1, Len(v))
            BY <3>1, <5>1, SubSeqOfConcat1
          <5>. QED
            BY <2>3, <3>1, <5>2, SubSeqFull
        <4>. QED
          BY <4>1, <4>2
      <3>. QED
        BY <3>1, <3>2, <3>3, SubSeqFull DEF IsPrefix
    <2>4. CASE stage = "aborted"
      <3>1. v = <<>> /\ p = v \o p
        BY <2>1, <2>4, ConcatEmptySeq DEF Retraces, Sponges
      <3>. QED
        BY <2>1, <2>3, <2>4, <3>1
    <2>5. CASE stage \in {"verify", "accepted", "rejected"}
      <3>1. Takes(Streams, LockSteps, a, todo["verifier"], b)
        BY <2>5 DEF Retraces, Rejoins
      <3>2. IsPrefix(v, p)
        <4>1. PICK u \in Sponges : b[1] = a[1] \o u
          <5> HIDE DEF a, b
          <5>. QED
            BY <2>1, <2>2, <3>1, LockGrows
        <4>. QED
          BY <2>2, <2>3, <4>1
      <3>3. stage = "accepted" => v = p
        <4>1. ASSUME todo["verifier"] = <<>> PROVE a = b
          <5> HIDE DEF a, b
          <5>. QED
            BY <2>2, <3>1, <4>1, TakesNone
        <4>2. stage = "accepted" => a = b
          BY <4>1 DEF Consumed
        <4>. QED
          BY <2>2, <4>2
      <3>4. wire = encode(Sent) => stage # "rejected"
        BY <2>5 DEF Retraces, SameRecords
      <3>. QED
        BY <3>2, <3>3, <3>4
    <2>. QED
      BY <2>4, <2>5 DEF Typed
  <1>2. Init => Retraces
    BY DEF Init, Retraces, NewVerifier, Sides
  <1>3. Init => Consumed
    BY DEF Init, Consumed
  <1>. QED
    BY <1>1, <1>2, <1>3, StartTyped, NextTyped, ConsumedKept, StartLed, LedKept, RetracesKept, PTL DEF Spec
=============================================================================
