-------------------------- MODULE ChallengerProofs --------------------------
(***************************************************************************)
(* Theorems about Challenger, for any cells, labels, elements, schedules,  *)
(* narg strings and sequences of calls.                                    *)
(***************************************************************************)
EXTENDS Challenger, InductionLemmas, SequenceTheorems, FiniteSetTheorems, TLAPS

\* AbsorbedAsMeant is inductive once the transcripts are typed: each call
\* appends to the sponge what it appends to meant, or it notes otherwise.
IInv == TypeOK /\ AbsorbedAsMeant

\* What a call does to the variables that Leaves decides.
TranscriptsKept ==
    /\ t' \in [Sides -> Transcripts]
    /\ failed' \in [Sides -> BOOLEAN]
    /\ meant' \in [Sides -> Seq(Symbol)]
    /\ AbsorbedAsMeant'
    /\ UNCHANGED <<stage, honest, schedule, proof>>

-----------------------------------------------------------------------------
\* A stream of cells is a stream of symbols.
LEMMA CellsAreSymbols == \A x \in Seq(Cell) : x \in Seq(Symbol)
  BY TranscriptAssumption

\* Elements and nonces are streams of cells.
LEMMA Records ==
    /\ Elements \subseteq Seq(Cell)
    /\ Nonces \subseteq Seq(Cell)
  BY TranscriptAssumption, ChallengerAssumption DEF Elements, Nonces

\* Absorbing appends to the sponge and touches no stream.
LEMMA PublicShape ==
    ASSUME NEW w \in Transcripts, NEW x \in Seq(Symbol)
    PROVE  /\ public_message(w, x) \in Transcripts
           /\ public_message(w, x).sponge = w.sponge \o x
           /\ public_message(w, x).narg = w.narg
  BY ConcatProperties DEF Transcripts, public_message

\* Sending appends to the sponge what it writes.
LEMMA SendShape ==
    ASSUME NEW w \in Transcripts, NEW x \in Seq(Cell)
    PROVE  /\ send_message(w, x) \in Transcripts
           /\ send_message(w, x).sponge = w.sponge \o x
  BY CellsAreSymbols, ConcatProperties DEF Transcripts, send_message

\* Reading appends to the sponge the record read, and keeps the types
\* whether or not the record is there.
LEMMA ReadShape ==
    ASSUME NEW w \in Transcripts, NEW n \in Nat
    PROVE  /\ read_message(w, n) \in Transcripts
           /\ has_message(w, n) =>
                 read_message(w, n).sponge = w.sponge \o next_message(w, n)
  <1>1. w.sponge \in Seq(Symbol) /\ w.narg \in Seq(Cell)
    BY DEF Transcripts
  <1>2. CASE ~has_message(w, n)
    BY <1>2 DEF read_message
  <1>3. CASE has_message(w, n)
    <2>1. next_message(w, n) \in Seq(Cell)
      BY <1>1, <1>3, SubSeqProperties DEF next_message, has_message
    <2>2. SubSeq(w.narg, n + 1, Len(w.narg)) \in Seq(Cell)
      BY <1>1, <1>3, SubSeqProperties DEF has_message
    <2>3. w.sponge \o next_message(w, n) \in Seq(Symbol)
      BY <1>1, <2>1, CellsAreSymbols, ConcatProperties
    <2>. QED
      BY <1>1, <1>3, <2>2, <2>3 DEF read_message, Transcripts
  <1>. QED
    BY <1>2, <1>3
-----------------------------------------------------------------------------
\* A call whose transcript took in what Flock meant, or that notes that it
\* did not, keeps the invariant's part about transcripts.
LEMMA LeavesKeeps ==
    ASSUME IInv,
           NEW s \in Sides, NEW w \in Transcripts, NEW b \in BOOLEAN,
           NEW cells \in Seq(Symbol),
           ~b => w.sponge = t[s].sponge \o cells,
           Leaves(s, w, b, cells)
    PROVE  TranscriptsKept
  <1>1. /\ t \in [Sides -> Transcripts]
        /\ failed \in [Sides -> BOOLEAN]
        /\ meant \in [Sides -> Seq(Symbol)]
    BY DEF IInv, TypeOK
  <1>2. /\ t' = [t EXCEPT ![s] = w]
        /\ failed' = [failed EXCEPT ![s] = @ \/ b]
        /\ meant' = [meant EXCEPT ![s] = @ \o cells]
        /\ UNCHANGED <<stage, honest, schedule, proof>>
    BY DEF Leaves
  <1>3. meant[s] \o cells \in Seq(Symbol)
    BY <1>1, ConcatProperties
  <1>4. ASSUME NEW r \in Sides, ~failed'[r]
        PROVE  t'[r].sponge = meant'[r]
    <2>1. CASE r = s
      <3>1. ~failed[s] /\ ~b
        BY <1>1, <1>2, <1>4, <2>1
      <3>2. t[s].sponge = meant[s]
        BY <3>1 DEF IInv, AbsorbedAsMeant
      <3>. QED
        BY <1>1, <1>2, <2>1, <3>1, <3>2
    <2>2. CASE r # s
      <3>1. ~failed[r] /\ t'[r] = t[r] /\ meant'[r] = meant[r]
        BY <1>1, <1>2, <1>4, <2>2
      <3>. QED
        BY <3>1 DEF IInv, AbsorbedAsMeant
    <2>. QED
      BY <2>1, <2>2
  <1>. QED
    BY <1>1, <1>2, <1>3, <1>4 DEF AbsorbedAsMeant, TranscriptsKept

\* With the other variables of the adapter typed, that is the invariant.
LEMMA KeptSuffices ==
    ASSUME IInv, TranscriptsKept,
           prefix' \in [Sides -> {"label", "target", "none"}],
           used' \in [Sides -> 0..Len(schedule)],
           rest' \in [Sides -> Seq(Values)]
    PROVE  IInv'
  BY DEF IInv, TypeOK, TranscriptsKept

\* A value sent or read back either enters the sponge or is noted.
LEMMA ExchangeKeeps ==
    ASSUME IInv, NEW s \in Sides, NEW x \in Seq(Cell), Exchange(s, x)
    PROVE  TranscriptsKept
  <1>1. t[s] \in Transcripts /\ x \in Seq(Symbol) /\ Len(x) \in Nat
    BY CellsAreSymbols DEF IInv, TypeOK
  <1>2. CASE s = "prover"
    <2>1. Leaves(s, send_message(t[s], x), FALSE, x)
      BY <1>2 DEF Exchange
    <2>. QED
      BY <1>1, <2>1, SendShape, LeavesKeeps
  <1>3. CASE s # "prover"
    <2> DEFINE b == ReadsOtherwise(s, Len(x), x)
    <2>1. Leaves(s, read_message(t[s], Len(x)), b, x)
      BY <1>3 DEF Exchange
    <2>2. b \in BOOLEAN
      BY DEF ReadsOtherwise
    <2>3. ~b => read_message(t[s], Len(x)).sponge = t[s].sponge \o x
      BY <1>1, ReadShape DEF ReadsOtherwise
    <2>4. read_message(t[s], Len(x)) \in Transcripts
      BY <1>1, ReadShape
    <2> HIDE DEF b
    <2>. QED
      BY <1>1, <2>1, <2>2, <2>3, <2>4, LeavesKeeps
  <1>. QED
    BY <1>2, <1>3

\* An element is taken for the public target or exchanged.
LEMMA ElementKeeps ==
    ASSUME IInv, NEW s \in Sides, NEW x \in Values, Element(s, x)
    PROVE  TranscriptsKept /\ prefix' \in [Sides -> {"label", "target", "none"}]
  <1>1. x \in Seq(Cell) /\ x \in Seq(Symbol)
    BY Records, ChallengerAssumption, CellsAreSymbols
  <1>2. t[s] \in Transcripts /\ prefix \in [Sides -> {"label", "target", "none"}]
    BY DEF IInv, TypeOK
  <1>3. CASE prefix[s] = "none" /\ Exchange(s, x) /\ UNCHANGED prefix
    BY <1>1, <1>2, <1>3, ExchangeKeeps
  <1>4. CASE /\ Leaves(s, public_message(t[s], x), WrongTarget(s, x), x)
             /\ prefix' = [prefix EXCEPT ![s] = "none"]
    <2>1. WrongTarget(s, x) \in BOOLEAN
      BY DEF WrongTarget
    <2>2. /\ public_message(t[s], x) \in Transcripts
          /\ public_message(t[s], x).sponge = t[s].sponge \o x
      BY <1>1, <1>2, PublicShape
    <2>3. prefix' \in [Sides -> {"label", "target", "none"}]
      BY <1>2, <1>4
    <2>. QED
      BY <1>1, <1>4, <2>1, <2>2, <2>3, LeavesKeeps
  <1>. QED
    BY <1>3, <1>4 DEF Element

\* The cells of the calls with framing of their own.
LEMMA Frames ==
    /\ \A b \in Strings : Prefixed(b) \in Seq(Cell)
    /\ \A xs \in Slices : <<Len(xs)>> \in Seq(Cell)
    /\ Vector(BasisVars) \in Seq(Symbol)
    /\ Trailing \in Seq(Symbol)
    /\ <<Squeeze>> \in Seq(Symbol)
  <1>1. ASSUME NEW b \in Strings PROVE Prefixed(b) \in Seq(Cell)
    <2>1. <<Len(b)>> \in Seq(Cell) /\ b \in Seq(Cell)
      BY ChallengerAssumption
    <2>. QED
      BY <2>1, ConcatProperties DEF Prefixed
  <1>2. ASSUME NEW xs \in Slices PROVE <<Len(xs)>> \in Seq(Cell)
    BY ChallengerAssumption
  <1>3. <<Squeeze>> \in Seq(Symbol)
    BY TranscriptAssumption
  <1>4. Vector(BasisVars) \in Seq(Symbol)
    <2>1. <<VectorTag, BasisVars>> \in Seq(Symbol)
      BY ChallengerAssumption
    <2>2. [i \in 1..BasisVars |-> Squeeze] \in Seq(Symbol)
      BY TranscriptAssumption, ChallengerAssumption
    <2>. QED
      BY <2>1, <2>2, ConcatProperties DEF Vector
  <1>5. Trailing \in Seq(Symbol)
    BY <1>3, <1>4, ConcatProperties DEF Trailing
  <1>. QED
    BY <1>1, <1>2, <1>3, <1>4, <1>5

\* A nonce absorbed after its header is the two absorbed together.
LEMMA Regroup ==
    ASSUME NEW a \in Seq(Symbol), NEW b \in Seq(Symbol), NEW c \in Seq(Symbol)
    PROVE  (a \o b) \o c = a \o (b \o c)
  BY ConcatAssociative

\* The header of a proof of work is the entry's difficulty, framed.
LEMMA HeaderShape ==
    ASSUME IInv, NEW s \in Sides, NEW native \in Natives, pow_difficulty(s, native)
    PROVE  Header(s) \in Seq(Symbol)
  <1>1. /\ schedule \in Seq(Natives \X (Nat \cap Symbol))
        /\ used[s] \in 0..Len(schedule) /\ used[s] < Len(schedule)
    BY ChallengerAssumption DEF IInv, TypeOK, pow_difficulty
  <1>2. schedule[used[s] + 1] \in Natives \X (Nat \cap Symbol)
    BY <1>1
  <1>3. Effective(s) \in Symbol
    BY <1>2 DEF Effective
  <1>. QED
    BY <1>3, TranscriptAssumption, ChallengerAssumption DEF Header
-----------------------------------------------------------------------------
\* The initial states: nothing absorbed, nothing meant.
LEMMA InitHolds == Init => IInv
  <1> SUFFICES ASSUME Init PROVE IInv
    OBVIOUS
  <1>1. proof \in Seq(Cell)
    BY DEF Init
  <1>2. ASSUME NEW s \in Sides
        PROVE  t[s] \in Transcripts /\ t[s].sponge = <<>> /\ meant[s] = <<>>
    BY <1>1, <1>2 DEF Init, Transcripts, NewProver, NewVerifier
  <1>3. t \in [Sides -> Transcripts]
    BY <1>2 DEF Init
  <1>. QED
    BY <1>1, <1>2, <1>3 DEF Init, IInv, TypeOK, AbsorbedAsMeant

\* A proof of work of the prover.
LEMMA GrindKeeps ==
    ASSUME IInv, NEW native \in Natives, grind_pow(native)
    PROVE  IInv'
  <1> DEFINE s == "prover"
             ground == public_message(t[s], Header(s))
  <1>1. s \in Sides /\ t[s] \in Transcripts
    BY DEF IInv, TypeOK, Sides
  <1>2. /\ used' \in [Sides -> 0..Len(schedule)]
        /\ prefix' \in [Sides -> {"label", "target", "none"}]
        /\ rest' \in [Sides -> Seq(Values)]
    BY DEF grind_pow, TakeEntry, IInv, TypeOK, Sides
  <1>3. CASE /\ pow_difficulty(s, native)
             /\ \E nonce \in find(ground.sponge, Effective(s)) :
                   Leaves(s, send_message(ground, nonce), FALSE, Header(s) \o nonce)
    <2>1. PICK nonce \in Nonces :
             Leaves(s, send_message(ground, nonce), FALSE, Header(s) \o nonce)
      BY <1>3 DEF find
    <2>2. Header(s) \in Seq(Symbol)
      BY <1>1, <1>3, HeaderShape
    <2>3. nonce \in Seq(Cell) /\ nonce \in Seq(Symbol)
      BY Records, CellsAreSymbols
    <2>4. ground \in Transcripts /\ ground.sponge = t[s].sponge \o Header(s)
      BY <1>1, <2>2, PublicShape
    <2>5. /\ send_message(ground, nonce) \in Transcripts
          /\ send_message(ground, nonce).sponge = ground.sponge \o nonce
      BY <2>3, <2>4, SendShape
    <2>6. (t[s].sponge \o Header(s)) \o nonce = t[s].sponge \o (Header(s) \o nonce)
      <3>1. t[s].sponge \in Seq(Symbol)
        BY <1>1 DEF Transcripts
      <3>. QED
        BY <2>2, <2>3, <3>1, Regroup, Zenon
    <2>7. Header(s) \o nonce \in Seq(Symbol)
      BY <2>2, <2>3, ConcatProperties
    <2> HIDE DEF ground, s
    <2>8. TranscriptsKept
      BY <1>1, <2>1, <2>4, <2>5, <2>6, <2>7, LeavesKeeps
    <2>. QED
      BY <1>2, <2>8, KeptSuffices
  <1>4. CASE Leaves(s, t[s], TRUE, <<>>)
    <2>1. <<>> \in Seq(Symbol)
      OBVIOUS
    <2>2. TranscriptsKept
      BY <1>1, <1>4, <2>1, LeavesKeeps
    <2>. QED
      BY <1>2, <2>2, KeptSuffices
  <1>. QED
    BY <1>3, <1>4 DEF grind_pow

\* A proof of work the verifier checks.
LEMMA VerifyPowKeeps ==
    ASSUME IInv, NEW native \in Natives, NEW nonce \in Nonces, verify_pow(nonce, native)
    PROVE  IInv'
  <1> DEFINE s == "verifier"
             ground == public_message(t[s], Header(s))
             noted == \/ ReadsOtherwise(s, NonceCells, nonce)
                      \/ ~valid(ground.sponge, nonce, Effective(s))
  <1>1. s \in Sides /\ t[s] \in Transcripts
    BY DEF IInv, TypeOK, Sides
  <1>2. /\ used' \in [Sides -> 0..Len(schedule)]
        /\ prefix' \in [Sides -> {"label", "target", "none"}]
        /\ rest' \in [Sides -> Seq(Values)]
    BY DEF verify_pow, TakeEntry, IInv, TypeOK, Sides
  <1>3. CASE /\ pow_difficulty(s, native)
             /\ Leaves(s, read_message(ground, NonceCells), noted, Header(s) \o nonce)
    <2>1. Header(s) \in Seq(Symbol)
      BY <1>1, <1>3, HeaderShape
    <2>2. nonce \in Seq(Cell) /\ nonce \in Seq(Symbol) /\ NonceCells \in Nat
      BY Records, CellsAreSymbols, TranscriptAssumption
    <2>3. /\ ground \in Transcripts
          /\ ground.sponge = t[s].sponge \o Header(s)
          /\ ground.narg = t[s].narg
      BY <1>1, <2>1, PublicShape
    <2>4. read_message(ground, NonceCells) \in Transcripts
      BY <2>2, <2>3, ReadShape
    <2>5. ASSUME ~noted
          PROVE  read_message(ground, NonceCells).sponge = t[s].sponge \o (Header(s) \o nonce)
      <3>1. has_message(ground, NonceCells) /\ next_message(ground, NonceCells) = nonce
        BY <2>3, <2>5 DEF ReadsOtherwise, has_message, next_message
      <3>2. read_message(ground, NonceCells).sponge = (t[s].sponge \o Header(s)) \o nonce
        BY <2>2, <2>3, <3>1, ReadShape
      <3>3. (t[s].sponge \o Header(s)) \o nonce = t[s].sponge \o (Header(s) \o nonce)
        <4>1. t[s].sponge \in Seq(Symbol)
          BY <1>1 DEF Transcripts
        <4>. QED
          BY <2>1, <2>2, <4>1, Regroup, Zenon
      <3>. QED
        BY <3>2, <3>3
    <2>6. noted \in BOOLEAN
      OBVIOUS
    <2>7. Header(s) \o nonce \in Seq(Symbol)
      BY <2>1, <2>2, ConcatProperties
    <2> HIDE DEF ground, s, noted
    <2>8. TranscriptsKept
      BY <1>1, <1>3, <2>4, <2>5, <2>6, <2>7, LeavesKeeps
    <2>. QED
      BY <1>2, <2>8, KeptSuffices
  <1>4. CASE Leaves(s, t[s], TRUE, <<>>)
    <2>1. <<>> \in Seq(Symbol)
      OBVIOUS
    <2>2. TranscriptsKept
      BY <1>1, <1>4, <2>1, LeavesKeeps
    <2>. QED
      BY <1>2, <2>2, KeptSuffices
  <1>. QED
    BY <1>3, <1>4 DEF verify_pow

\* A byte string is framed by its length on both sides.
LEMMA BytesKeeps ==
    ASSUME IInv, NEW s \in Sides, NEW b \in Strings, observe_bytes(s, b)
    PROVE  TranscriptsKept
  <1>1. t[s] \in Transcripts /\ t[s].narg \in Seq(Cell)
    BY DEF IInv, TypeOK, Transcripts
  <1>2. Prefixed(b) \in Seq(Cell) /\ Prefixed(b) \in Seq(Symbol)
    BY Frames, CellsAreSymbols
  <1>3. CASE Leaves(s, send_message(t[s], Prefixed(b)), FALSE, Prefixed(b))
    BY <1>1, <1>2, <1>3, SendShape, LeavesKeeps
  <1>4. CASE /\ Readable(t[s])
             /\ LET n == 1 + t[s].narg[1]
                IN  Leaves(s, read_message(t[s], n), ReadsOtherwise(s, n, Prefixed(b)), Prefixed(b))
    <2> DEFINE n == 1 + t[s].narg[1]
               noted == ReadsOtherwise(s, n, Prefixed(b))
    <2>1. n \in Nat
      <3>1. 1 \in DOMAIN t[s].narg
        BY <1>1, <1>4 DEF Readable, has_message
      <3>2. t[s].narg[1] \in Cell
        BY <1>1, <3>1
      <3>. QED
        BY <3>2, TranscriptAssumption
    <2>2. read_message(t[s], n) \in Transcripts
      BY <1>1, <2>1, ReadShape
    <2>3. ~noted => read_message(t[s], n).sponge = t[s].sponge \o Prefixed(b)
      BY <1>1, <2>1, ReadShape DEF ReadsOtherwise
    <2>4. noted \in BOOLEAN
      BY DEF ReadsOtherwise
    <2>5. Leaves(s, read_message(t[s], n), noted, Prefixed(b))
      BY <1>4
    <2> HIDE DEF n, noted
    <2>. QED
      BY <1>1, <1>2, <2>2, <2>3, <2>4, <2>5, LeavesKeeps
  <1>5. CASE Leaves(s, t[s], TRUE, Prefixed(b))
    BY <1>1, <1>2, <1>5, LeavesKeeps
  <1>. QED
    BY <1>3, <1>4, <1>5 DEF observe_bytes
-----------------------------------------------------------------------------
\* Everything Flock observes or draws, on either side.
LEMMA ObservesKeeps ==
    ASSUME IInv, NEW s \in Sides, Observes(s)
    PROVE  IInv'
  <1>1. /\ t[s] \in Transcripts
        /\ prefix \in [Sides -> {"label", "target", "none"}]
        /\ used \in [Sides -> 0..Len(schedule)]
        /\ rest \in [Sides -> Seq(Values)]
    BY DEF IInv, TypeOK
  <1>2. ASSUME NEW l \in Labels, observe_label(s, l) PROVE IInv'
    <2>1. l \in Seq(Symbol)
      BY ChallengerAssumption
    <2>2. /\ public_message(t[s], l) \in Transcripts
          /\ public_message(t[s], l).sponge = t[s].sponge \o l
      BY <1>1, <2>1, PublicShape
    <2> DEFINE noted == prefix[s] = "label" /\ l # BasisLabel
    <2>3. noted \in BOOLEAN
      OBVIOUS
    <2>4. Leaves(s, public_message(t[s], l), noted, l)
      BY <1>2 DEF observe_label
    <2>5. TranscriptsKept
      BY <2>1, <2>2, <2>3, <2>4, LeavesKeeps
    <2>6. /\ prefix' \in [Sides -> {"label", "target", "none"}]
          /\ used' = used /\ rest' = rest
      BY <1>1, <1>2 DEF observe_label
    <2>. QED
      BY <1>1, <2>5, <2>6, KeptSuffices
  <1>3. ASSUME NEW x \in Values, observe_f128(s, x) PROVE IInv'
    <2>1. TranscriptsKept /\ prefix' \in [Sides -> {"label", "target", "none"}]
      BY <1>3, ElementKeeps DEF observe_f128
    <2>. QED
      BY <1>1, <1>3, <2>1, KeptSuffices DEF observe_f128
  <1>4. ASSUME NEW xs \in Slices, observe_f128_slice(s, xs) PROVE IInv'
    <2>1. TranscriptsKept
      BY <1>4, Frames, ExchangeKeeps DEF observe_f128_slice
    <2>2. rest' \in [Sides -> Seq(Values)]
      BY <1>1, <1>4, ChallengerAssumption DEF observe_f128_slice
    <2>. QED
      BY <1>1, <1>4, <2>1, <2>2, KeptSuffices DEF observe_f128_slice
  <1>5. ASSUME SliceElement(s) PROVE IInv'
    <2>1. rest[s] \in Seq(Values) /\ rest[s] # <<>>
      BY <1>1, <1>5 DEF SliceElement
    <2>2. Head(rest[s]) \in Values /\ Tail(rest[s]) \in Seq(Values)
      BY <2>1, HeadTailProperties
    <2>3. TranscriptsKept /\ prefix' \in [Sides -> {"label", "target", "none"}]
      BY <1>5, <2>2, ElementKeeps DEF SliceElement
    <2>4. rest' \in [Sides -> Seq(Values)]
      BY <1>1, <1>5, <2>2 DEF SliceElement
    <2>. QED
      BY <1>1, <1>5, <2>3, <2>4, KeptSuffices DEF SliceElement
  <1>6. ASSUME NEW b \in Strings, observe_bytes(s, b) PROVE IInv'
    <2>1. TranscriptsKept
      BY <1>6, BytesKeeps
    <2>. QED
      BY <1>1, <1>6, <2>1, KeptSuffices DEF observe_bytes
  <1>7. ASSUME sample_f128(s) PROVE IInv'
    <2>1. /\ verifier_message(t[s]) \in Transcripts
          /\ verifier_message(t[s]).sponge = t[s].sponge \o <<Squeeze>>
      BY <1>1, Frames, PublicShape DEF verifier_message
    <2>2. TranscriptsKept
      BY <1>7, <2>1, Frames, LeavesKeeps DEF sample_f128
    <2>. QED
      BY <1>1, <1>7, <2>2, KeptSuffices DEF sample_f128
  <1>8. ASSUME sample_f128_vec(s, BasisVars) PROVE IInv'
    <2>1. /\ public_message(t[s], Vector(BasisVars)) \in Transcripts
          /\ public_message(t[s], Vector(BasisVars)).sponge = t[s].sponge \o Vector(BasisVars)
      BY <1>1, Frames, PublicShape
    <2>2. TranscriptsKept
      BY <1>8, <2>1, Frames, LeavesKeeps DEF sample_f128_vec
    <2>. QED
      BY <1>1, <1>8, <2>2, KeptSuffices DEF sample_f128_vec
  <1>. QED
    BY <1>2, <1>3, <1>4, <1>5, <1>6, <1>7, <1>8 DEF Observes

\* The proof handed over: the prover draws on, the verifier starts afresh.
LEMMA HandOverKeeps == IInv /\ HandOver => IInv'
  <1> SUFFICES ASSUME IInv, HandOver PROVE IInv'
    OBVIOUS
  <1>1. /\ t["prover"] \in Transcripts /\ t["prover"].narg \in Seq(Cell)
        /\ t["prover"].sponge \in Seq(Symbol)
        /\ meant \in [Sides -> Seq(Symbol)]
    BY DEF IInv, TypeOK, Sides, Transcripts
  <1>2. proof' \in Seq(Cell)
    BY <1>1 DEF HandOver
  <1>3. NewVerifier(proof') \in Transcripts
    BY <1>2 DEF NewVerifier, Transcripts
  <1>4. /\ public_message(t["prover"], Trailing) \in Transcripts
        /\ public_message(t["prover"], Trailing).sponge = t["prover"].sponge \o Trailing
    BY <1>1, Frames, PublicShape
  <1>5. t' \in [Sides -> Transcripts]
    BY <1>3, <1>4 DEF HandOver, Sides
  <1>6. meant' \in [Sides -> Seq(Symbol)]
    <2>1. meant["prover"] \o Trailing \in Seq(Symbol)
      BY <1>1, Frames, ConcatProperties DEF Sides
    <2>. QED
      BY <1>1, <2>1 DEF HandOver
  <1>7. TypeOK'
    BY <1>2, <1>5, <1>6 DEF HandOver, IInv, TypeOK
  <1>8. ASSUME ~failed["prover"] PROVE t'["prover"].sponge = meant'["prover"]
    BY <1>1, <1>4, <1>8 DEF HandOver, IInv, AbsorbedAsMeant, Sides
  <1>9. meant'["verifier"] = <<>> /\ t'["verifier"].sponge = <<>>
    BY DEF HandOver, NewVerifier, Sides
  <1>. QED
    BY <1>7, <1>8, <1>9 DEF IInv, AbsorbedAsMeant, HandOver, Sides

\* Finishing judges and changes nothing else.
LEMMA FinishKeeps == IInv /\ Finish => IInv'
  BY DEF IInv, TypeOK, AbsorbedAsMeant, Finish, Transcripts

\* Every step keeps it.
LEMMA StepKeeps == IInv /\ [Next]_vars => IInv'
  <1> SUFFICES ASSUME IInv, [Next]_vars PROVE IInv'
    OBVIOUS
  <1>1. CASE \E s \in Sides : Observes(s)
    BY <1>1, ObservesKeeps
  <1>2. CASE \E native \in Natives : grind_pow(native)
    BY <1>2, GrindKeeps
  <1>3. CASE \E native \in Natives, nonce \in Nonces : verify_pow(nonce, native)
    BY <1>3, VerifyPowKeeps
  <1>4. CASE HandOver
    BY <1>4, HandOverKeeps
  <1>5. CASE Finish
    BY <1>5, FinishKeeps
  <1>6. CASE UNCHANGED vars
    BY <1>6 DEF vars, IInv, TypeOK, AbsorbedAsMeant
  <1>. QED
    BY <1>1, <1>2, <1>3, <1>4, <1>5, <1>6 DEF Next

\* The adapters' state has its types under any calls of the backend and any
\* narg string: streams hold cells, the schedule is never overrun.
THEOREM AdapterTypes == Spec => []TypeOK
  <1>1. IInv => TypeOK
    BY DEF IInv
  <1>. QED
    BY <1>1, InitHolds, StepKeeps, PTL DEF Spec

\* Unless an adapter has noted a disagreement, its sponge holds exactly what
\* the backend's calls mean it to hold: every challenge handed to the backend
\* is bound to the values of its own copy of the proof.
THEOREM Bound == Spec => []AbsorbedAsMeant
  <1>1. IInv => AbsorbedAsMeant
    BY DEF IInv
  <1>. QED
    BY <1>1, InitHolds, StepKeeps, PTL DEF Spec
-----------------------------------------------------------------------------
(***************************************************************************)
(* ReturnedFollowsSchedule.  Followed is what a side's calls have followed *)
(* while nothing is noted: one entry of the schedule for each proof of     *)
(* work, the label and the target as far as prefix says, and no element    *)
(* but those of a slice being observed before the target.                  *)
(***************************************************************************)
CallRecords ==
    [op : {"label"}, label : Labels] \cup [op : {"f128"}, value : Values]
    \cup [op : {"slice"}, values : Slices] \cup [op : {"bytes"}, bytes : Strings]
    \cup [op : {"sample"}] \cup [op : {"samples"}, count : {BasisVars}]
    \cup [op : {"pow"}, native : Natives, nonce : Nonces]

Unlabelled(calls) == \A i \in DOMAIN calls : calls[i].op # "label"
LabelFirst(calls) ==
    \E j \in DOMAIN calls : /\ calls[j] = [op |-> "label", label |-> BasisLabel]
                            /\ \A i \in 1..j-1 : calls[i].op # "label"
Bare(calls) == \A i \in DOMAIN calls : Elems(calls[i]) = <<>>

\* The last call's elements are the first, and none of them is taken yet.
Pending(calls, left) ==
    /\ calls # <<>>
    /\ Elems(calls[Len(calls)]) = left
    /\ \A i \in 1..Len(calls)-1 : Elems(calls[i]) = <<>>

Followed(calls, entries, count, expected, left) ==
    /\ Cardinality(Pows(calls)) = count
    /\ InOrder(calls, entries)
    /\ expected = "label" => Unlabelled(calls)
    /\ expected = "target" => LabelFirst(calls)
    /\ expected = "none" => TargetFirst(calls)
    /\ expected # "none" => IF left = <<>> THEN Bare(calls) ELSE Pending(calls, left)

FInv ==
    /\ trail \in [Sides -> Seq(CallRecords)]
    /\ \A s \in Sides : ~failed[s] => Followed(trail[s], schedule, used[s], prefix[s], rest[s])
    /\ \A s \in Sides : Returned(s) => ~Failed(s) /\ rest[s] = <<>>

\* A call after the others leaves the others where they are.
LEMMA AppendShape ==
    ASSUME NEW calls \in Seq(CallRecords), NEW c \in CallRecords
    PROVE  /\ Append(calls, c) \in Seq(CallRecords)
           /\ Len(Append(calls, c)) = Len(calls) + 1
           /\ DOMAIN Append(calls, c) = DOMAIN calls \cup {Len(calls) + 1}
           /\ DOMAIN calls = 1..Len(calls) /\ Len(calls) \in Nat
           /\ \A i \in DOMAIN calls : Append(calls, c)[i] = calls[i]
           /\ Append(calls, c)[Len(calls) + 1] = c
  BY AppendProperties

\* A call that is not for a proof of work keeps those that are.
LEMMA PowsStay ==
    ASSUME NEW calls \in Seq(CallRecords), NEW entries, NEW c \in CallRecords, c.op # "pow"
    PROVE  /\ Pows(Append(calls, c)) = Pows(calls)
           /\ InOrder(calls, entries) => InOrder(Append(calls, c), entries)
  <1> DEFINE new == Append(calls, c)
  <1>1. /\ DOMAIN new = DOMAIN calls \cup {Len(calls) + 1}
        /\ \A i \in DOMAIN calls : new[i] = calls[i]
        /\ new[Len(calls) + 1] = c
    BY AppendShape
  <1> HIDE DEF new
  <1>2. Pows(new) = Pows(calls)
    BY <1>1 DEF Pows
  <1>3. ASSUME InOrder(calls, entries), NEW k \in Pows(new)
        PROVE  new[k].native = entries[Rank(new, k)][1]
    <2>1. k \in Pows(calls) /\ new[k] = calls[k]
      BY <1>1, <1>2 DEF Pows
    <2>2. Rank(new, k) = Rank(calls, k)
      BY <1>2 DEF Rank
    <2>. QED
      BY <1>3, <2>1, <2>2 DEF InOrder
  <1>4. InOrder(calls, entries) => InOrder(new, entries)
    BY <1>3 DEF InOrder
  <1>. QED
    BY <1>2, <1>4 DEF new

\* A call for the next entry's proof of work is one more, and the last.
LEMMA PowsGrow ==
    ASSUME NEW calls \in Seq(CallRecords), NEW entries, NEW c \in CallRecords, c.op = "pow",
           InOrder(calls, entries), c.native = entries[Cardinality(Pows(calls)) + 1][1]
    PROVE  /\ Cardinality(Pows(Append(calls, c))) = Cardinality(Pows(calls)) + 1
           /\ InOrder(Append(calls, c), entries)
  <1> DEFINE new == Append(calls, c)
             last == Len(calls) + 1
  <1>1. /\ DOMAIN new = DOMAIN calls \cup {last}
        /\ DOMAIN calls = 1..Len(calls) /\ Len(calls) \in Nat
        /\ \A i \in DOMAIN calls : new[i] = calls[i]
        /\ new[last] = c
    BY AppendShape
  <1> HIDE DEF new
  <1>2. Pows(new) = Pows(calls) \cup {last} /\ last \notin Pows(calls)
    BY <1>1 DEF Pows
  <1>3. Pows(calls) \subseteq 1..Len(calls) /\ IsFiniteSet(1..Len(calls))
    BY <1>1, FS_Interval DEF Pows
  <1>4. IsFiniteSet(Pows(calls))
    BY <1>3, FS_Subset
  <1>5. Cardinality(Pows(new)) = Cardinality(Pows(calls)) + 1
    BY <1>2, <1>4, FS_AddElement
  <1>6. ASSUME NEW k \in Pows(new)
        PROVE  new[k].native = entries[Rank(new, k)][1]
    <2>1. CASE k = last
      <3>1. {j \in Pows(new) : j <= k} = Pows(new)
        BY <1>1, <1>2, <1>3, <2>1
      <3>2. Rank(new, k) = Cardinality(Pows(calls)) + 1
        BY <1>5, <3>1 DEF Rank
      <3>. QED
        BY <1>1, <2>1, <3>2
    <2>2. CASE k # last
      <3>1. k \in Pows(calls) /\ new[k] = calls[k]
        BY <1>1, <1>2, <2>2 DEF Pows
      <3>2. {j \in Pows(new) : j <= k} = {j \in Pows(calls) : j <= k}
        BY <1>1, <1>2, <1>3, <3>1
      <3>. QED
        BY <3>1, <3>2 DEF InOrder, Rank
    <2>. QED
      BY <2>1, <2>2
  <1>7. InOrder(new, entries)
    BY <1>6 DEF InOrder
  <1>. QED
    BY <1>5, <1>7 DEF new

\* What the calls began with stays.
LEMMA StartStays ==
    ASSUME NEW calls \in Seq(CallRecords), NEW c \in CallRecords
    PROVE  /\ TargetFirst(calls) => TargetFirst(Append(calls, c))
           /\ LabelFirst(calls) => LabelFirst(Append(calls, c))
           /\ Unlabelled(calls) /\ c.op # "label" => Unlabelled(Append(calls, c))
           /\ Bare(calls) /\ Elems(c) = <<>> => Bare(Append(calls, c))
           /\ Bare(calls) => Pending(Append(calls, c), Elems(c))
  <1> DEFINE new == Append(calls, c)
             last == Len(calls) + 1
  <1>1. /\ new \in Seq(CallRecords) /\ Len(new) = last
        /\ DOMAIN new = DOMAIN calls \cup {last}
        /\ DOMAIN calls = 1..Len(calls) /\ Len(calls) \in Nat
        /\ \A i \in DOMAIN calls : new[i] = calls[i]
        /\ new[last] = c
    BY AppendShape
  <1> HIDE DEF new
  <1>2. ASSUME TargetFirst(calls) PROVE TargetFirst(new)
    <2>1. PICK k \in First(calls), j \in DOMAIN calls :
             /\ j < k /\ calls[j] = [op |-> "label", label |-> BasisLabel]
             /\ \A i \in 1..j-1 : calls[i].op # "label"
             /\ Elems(calls[k])[1] = Target
      BY <1>2 DEF TargetFirst
    <2>2. k \in DOMAIN calls /\ Elems(calls[k]) # <<>> /\ \A i \in 1..k-1 : Elems(calls[i]) = <<>>
      BY DEF First
    <2>3. k \in DOMAIN new /\ new[k] = calls[k] /\ j \in DOMAIN new /\ new[j] = calls[j]
      BY <1>1, <2>2
    <2>4. \A i \in 1..k-1 : new[i] = calls[i]
      BY <1>1, <2>2
    <2>5. \A i \in 1..j-1 : new[i] = calls[i]
      BY <1>1
    <2>6. k \in First(new)
      BY <2>2, <2>3, <2>4 DEF First
    <2>. QED
      BY <2>1, <2>3, <2>5, <2>6 DEF TargetFirst
  <1>3. ASSUME LabelFirst(calls) PROVE LabelFirst(new)
    <2>1. PICK j \in DOMAIN calls : /\ calls[j] = [op |-> "label", label |-> BasisLabel]
                                    /\ \A i \in 1..j-1 : calls[i].op # "label"
      BY <1>3 DEF LabelFirst
    <2>2. j \in DOMAIN new /\ new[j] = calls[j] /\ \A i \in 1..j-1 : new[i] = calls[i]
      BY <1>1
    <2>. QED
      BY <2>1, <2>2 DEF LabelFirst
  <1>4. Unlabelled(calls) /\ c.op # "label" => Unlabelled(new)
    BY <1>1 DEF Unlabelled
  <1>5. Bare(calls) /\ Elems(c) = <<>> => Bare(new)
    BY <1>1 DEF Bare
  <1>6. ASSUME Bare(calls) PROVE Pending(new, Elems(c))
    <2>1. new # <<>>
      BY <1>1
    <2>2. \A i \in 1..Len(new)-1 : i \in DOMAIN calls /\ new[i] = calls[i]
      BY <1>1
    <2>. QED
      BY <1>1, <1>6, <2>1, <2>2 DEF Pending, Bare
  <1>. QED
    BY <1>2, <1>3, <1>4, <1>5, <1>6 DEF new
-----------------------------------------------------------------------------
\* A call that carries no label, no element and no proof of work.
LEMMA NeutralFollows ==
    ASSUME NEW calls \in Seq(CallRecords), NEW entries, NEW n, NEW p,
           NEW c \in CallRecords, c.op # "pow", c.op # "label", Elems(c) = <<>>,
           Followed(calls, entries, n, p, <<>>)
    PROVE  Followed(Append(calls, c), entries, n, p, <<>>)
  BY PowsStay, StartStays DEF Followed

\* The first label is the basis label.
LEMMA LabelFollows ==
    ASSUME NEW calls \in Seq(CallRecords), NEW entries, NEW n, NEW p, NEW l \in Labels,
           p = "label" => l = BasisLabel,
           Followed(calls, entries, n, p, <<>>)
    PROVE  Followed(Append(calls, [op |-> "label", label |-> l]), entries, n,
                    IF p = "label" THEN "target" ELSE p, <<>>)
  <1> DEFINE c == [op |-> "label", label |-> l]
  <1>1. c \in CallRecords /\ c.op = "label" /\ Elems(c) = <<>>
    BY DEF CallRecords, Elems
  <1>2. ASSUME p = "label" PROVE LabelFirst(Append(calls, c))
    <2>1. Unlabelled(calls)
      BY <1>2 DEF Followed
    <2>2. /\ DOMAIN Append(calls, c) = DOMAIN calls \cup {Len(calls) + 1}
          /\ DOMAIN calls = 1..Len(calls) /\ Len(calls) \in Nat
          /\ \A i \in DOMAIN calls : Append(calls, c)[i] = calls[i]
          /\ Append(calls, c)[Len(calls) + 1] = c
      BY <1>1, AppendShape
    <2>3. c = [op |-> "label", label |-> BasisLabel]
      BY <1>2
    <2> HIDE DEF c
    <2>4. \A i \in 1..(Len(calls) + 1) - 1 : Append(calls, c)[i].op # "label"
      BY <2>1, <2>2 DEF Unlabelled
    <2>. QED
      BY <2>2, <2>3, <2>4 DEF LabelFirst
  <1> HIDE DEF c
  <1>3. Followed(Append(calls, c), entries, n, IF p = "label" THEN "target" ELSE p, <<>>)
    BY <1>1, <1>2, PowsStay, StartStays DEF Followed
  <1>. QED
    BY <1>3 DEF c

\* A slice is pending until its first element is taken.
LEMMA SliceFollows ==
    ASSUME NEW calls \in Seq(CallRecords), NEW entries, NEW n, NEW p, NEW xs \in Slices,
           Followed(calls, entries, n, p, <<>>)
    PROVE  Followed(Append(calls, [op |-> "slice", values |-> xs]), entries, n, p, xs)
  <1> DEFINE c == [op |-> "slice", values |-> xs]
  <1>1. c \in CallRecords /\ c.op = "slice" /\ Elems(c) = xs
    BY DEF CallRecords, Elems
  <1> HIDE DEF c
  <1>2. Followed(Append(calls, c), entries, n, p, xs)
    BY <1>1, PowsStay, StartStays DEF Followed
  <1>. QED
    BY <1>2 DEF c

\* The target is the first element when it is the last call's first one.
LEMMA FirstElement ==
    ASSUME NEW calls \in Seq(CallRecords), NEW left \in Seq(Values), left # <<>>,
           Pending(calls, left), LabelFirst(calls), Head(left) = Target
    PROVE  TargetFirst(calls)
  <1>1. PICK j \in DOMAIN calls : /\ calls[j] = [op |-> "label", label |-> BasisLabel]
                                  /\ \A i \in 1..j-1 : calls[i].op # "label"
    BY DEF LabelFirst
  <1>2. Elems(calls[j]) = <<>>
    BY <1>1 DEF Elems
  <1> DEFINE k == Len(calls)
  <1>3. k \in DOMAIN calls /\ Elems(calls[k]) = left /\ \A i \in 1..k-1 : Elems(calls[i]) = <<>>
    BY DEF Pending
  <1>4. j < k
    BY <1>2, <1>3
  <1>5. k \in First(calls)
    BY <1>3 DEF First
  <1>6. Elems(calls[k])[1] = Target
    BY <1>3
  <1>. QED
    BY <1>1, <1>4, <1>5, <1>6 DEF TargetFirst

\* One element: the target where it is expected, anything after it.
LEMMA ElementFollows ==
    ASSUME NEW calls \in Seq(CallRecords), NEW entries, NEW n, NEW p, NEW x \in Values,
           \/ p = "none"
           \/ p = "target" /\ x = Target,
           Followed(calls, entries, n, p, <<>>)
    PROVE  Followed(Append(calls, [op |-> "f128", value |-> x]), entries, n, "none", <<>>)
  <1> DEFINE c == [op |-> "f128", value |-> x]
  <1>1. c \in CallRecords /\ c.op = "f128" /\ Elems(c) = <<x>>
    BY DEF CallRecords, Elems
  <1>2. <<x>> \in Seq(Values) /\ <<x>> # <<>> /\ Head(<<x>>) = x
    OBVIOUS
  <1> HIDE DEF c
  <1>3. ASSUME p = "none"
        PROVE  Followed(Append(calls, c), entries, n, "none", <<>>)
    BY <1>1, <1>3, PowsStay, StartStays DEF Followed
  <1>4. ASSUME p = "target", x = Target
        PROVE  Followed(Append(calls, c), entries, n, "none", <<>>)
    <2>1. Bare(calls) /\ LabelFirst(calls)
      BY <1>4 DEF Followed
    <2>2. Pending(Append(calls, c), <<x>>) /\ LabelFirst(Append(calls, c))
      BY <1>1, <2>1, StartStays
    <2>3. TargetFirst(Append(calls, c))
      BY <1>1, <1>2, <1>4, <2>2, AppendShape, FirstElement
    <2>. QED
      BY <1>1, <2>3, PowsStay DEF Followed
  <1>5. Followed(Append(calls, c), entries, n, "none", <<>>)
    BY <1>3, <1>4
  <1>. QED
    BY <1>5 DEF c

\* A slice's next element.
LEMMA NextFollows ==
    ASSUME NEW calls \in Seq(CallRecords), NEW entries, NEW n, NEW p, NEW left \in Seq(Values),
           left # <<>>,
           \/ p = "none"
           \/ p = "target" /\ Head(left) = Target,
           Followed(calls, entries, n, p, left)
    PROVE  Followed(calls, entries, n, "none", Tail(left))
  BY FirstElement DEF Followed

\* A proof of work for the entry that is next.
LEMMA PowFollows ==
    ASSUME NEW calls \in Seq(CallRecords), NEW entries, NEW n, NEW p,
           NEW native \in Natives, NEW nonce \in Nonces, native = entries[n + 1][1],
           Followed(calls, entries, n, p, <<>>)
    PROVE  Followed(Append(calls, PowCall(native, nonce)), entries, n + 1, p, <<>>)
  <1> DEFINE c == PowCall(native, nonce)
  <1>1. c \in CallRecords /\ c.op = "pow" /\ c.native = native /\ Elems(c) = <<>>
    BY DEF CallRecords, PowCall, Elems
  <1>2. Cardinality(Pows(calls)) = n /\ InOrder(calls, entries)
    BY DEF Followed
  <1> HIDE DEF c
  <1>3. Followed(Append(calls, c), entries, n + 1, p, <<>>)
    BY <1>1, <1>2, PowsGrow, StartStays DEF Followed
  <1>. QED
    BY <1>3 DEF c
-----------------------------------------------------------------------------
\* A note is kept, is this side's, and moves nothing but the transcripts.
LEMMA LeavesNotes ==
    ASSUME IInv, NEW s \in Sides, NEW w, NEW b \in BOOLEAN, NEW cells, Leaves(s, w, b, cells)
    PROVE  /\ UNCHANGED <<stage, honest, schedule>>
           /\ ~failed'[s] => ~failed[s] /\ ~b
           /\ \A r \in Sides \ {s} : failed'[r] = failed[r]
  <1>1. failed \in [Sides -> BOOLEAN]
    BY DEF IInv, TypeOK
  <1>. QED
    BY <1>1 DEF Leaves

\* Without a note an element is past the target, or is the target.
LEMMA ElementNotes ==
    ASSUME IInv, NEW s \in Sides, NEW x \in Values, Element(s, x)
    PROVE  /\ UNCHANGED <<stage, honest, schedule>>
           /\ ~failed'[s] => ~failed[s] /\ (\/ prefix[s] = "none"
                                            \/ prefix[s] = "target" /\ x = Target)
           /\ prefix'[s] = "none"
           /\ \A r \in Sides \ {s} : failed'[r] = failed[r] /\ prefix'[r] = prefix[r]
  <1>1. prefix \in [Sides -> {"label", "target", "none"}]
    BY DEF IInv, TypeOK
  <1>2. CASE /\ prefix[s] # "none"
             /\ Leaves(s, public_message(t[s], x), WrongTarget(s, x), x)
             /\ prefix' = [prefix EXCEPT ![s] = "none"]
    <2>1. WrongTarget(s, x) \in BOOLEAN
      BY DEF WrongTarget
    <2>2. /\ UNCHANGED <<stage, honest, schedule>>
          /\ ~failed'[s] => ~failed[s] /\ ~WrongTarget(s, x)
          /\ \A r \in Sides \ {s} : failed'[r] = failed[r]
      BY <1>2, <2>1, LeavesNotes
    <2>3. prefix[s] \in {"label", "target", "none"}
      BY <1>1
    <2>. QED
      BY <1>1, <1>2, <2>2, <2>3 DEF WrongTarget
  <1>3. CASE prefix[s] = "none" /\ Exchange(s, x) /\ UNCHANGED prefix
    <2>1. \/ Leaves(s, send_message(t[s], x), FALSE, x)
          \/ Leaves(s, read_message(t[s], Len(x)), ReadsOtherwise(s, Len(x), x), x)
      BY <1>3 DEF Exchange
    <2>2. /\ UNCHANGED <<stage, honest, schedule>>
          /\ ~failed'[s] => ~failed[s]
          /\ \A r \in Sides \ {s} : failed'[r] = failed[r]
      <3>1. CASE Leaves(s, send_message(t[s], x), FALSE, x)
        BY <3>1, LeavesNotes
      <3>2. CASE Leaves(s, read_message(t[s], Len(x)), ReadsOtherwise(s, Len(x), x), x)
        <4>1. ReadsOtherwise(s, Len(x), x) \in BOOLEAN
          BY DEF ReadsOtherwise
        <4>. QED
          BY <3>2, <4>1, LeavesNotes
      <3>. QED
        BY <2>1, <3>1, <3>2
    <2>. QED
      BY <1>3, <2>2
  <1>. QED
    BY <1>2, <1>3 DEF Element

\* A call is appended on a side that has not returned and observes no slice.
LEMMA CallMade ==
    ASSUME FInv, NEW s \in Sides, NEW c \in CallRecords, Calls(s, c)
    PROVE  /\ ~Returned(s) /\ rest[s] = <<>>
           /\ trail[s] \in Seq(CallRecords)
           /\ trail' \in [Sides -> Seq(CallRecords)]
           /\ trail'[s] = Append(trail[s], c)
           /\ \A r \in Sides \ {s} : trail'[r] = trail[r]
  <1>1. trail \in [Sides -> Seq(CallRecords)] /\ trail' = [trail EXCEPT ![s] = Append(@, c)]
    BY DEF FInv, Calls
  <1>2. Append(trail[s], c) \in Seq(CallRecords)
    BY <1>1, AppendShape
  <1>3. ~Returned(s) /\ rest[s] = <<>>
    BY DEF Calls, Returned, Sides
  <1>. QED
    BY <1>1, <1>2, <1>3

\* A step of one side that has not returned.
LEMMA SideSuffices ==
    ASSUME FInv, NEW s \in Sides, ~Returned(s),
           UNCHANGED <<stage, honest, schedule>>,
           trail' \in [Sides -> Seq(CallRecords)],
           \A r \in Sides \ {s} : /\ trail'[r] = trail[r] /\ failed'[r] = failed[r]
                                  /\ prefix'[r] = prefix[r] /\ used'[r] = used[r]
                                  /\ rest'[r] = rest[r],
           ~failed'[s] => Followed(trail'[s], schedule, used'[s], prefix'[s], rest'[s])
    PROVE  FInv'
  <1>1. ASSUME NEW r \in Sides, ~failed'[r]
        PROVE  Followed(trail'[r], schedule', used'[r], prefix'[r], rest'[r])
    BY <1>1 DEF FInv
  <1>2. ASSUME NEW r \in Sides, Returned(r)'
        PROVE  ~Failed(r)' /\ rest'[r] = <<>>
    <2>1. Returned(r)
      BY <1>2 DEF Returned
    <2>2. r # s /\ ~Failed(r) /\ rest[r] = <<>>
      BY <2>1 DEF FInv
    <2>. QED
      BY <2>2 DEF Failed
  <1>. QED
    BY <1>1, <1>2 DEF FInv
-----------------------------------------------------------------------------
\* A call that leaves prefix, schedule and slices alone.
LEMMA PlainFollows ==
    ASSUME IInv, FInv, NEW s \in Sides, NEW c \in CallRecords, Calls(s, c),
           c.op # "pow", c.op # "label", Elems(c) = <<>>,
           NEW w, NEW b \in BOOLEAN, NEW cells, Leaves(s, w, b, cells),
           UNCHANGED <<prefix, used, rest>>
    PROVE  FInv'
  <1>1. /\ UNCHANGED <<stage, honest, schedule>>
        /\ ~failed'[s] => ~failed[s]
        /\ \A r \in Sides \ {s} : failed'[r] = failed[r]
    BY LeavesNotes
  <1>2. ASSUME ~failed'[s]
        PROVE  Followed(trail'[s], schedule, used'[s], prefix'[s], rest'[s])
    <2>1. /\ trail'[s] = Append(trail[s], c) /\ trail[s] \in Seq(CallRecords)
          /\ Followed(trail[s], schedule, used[s], prefix[s], <<>>) /\ rest[s] = <<>>
      BY <1>1, <1>2, CallMade DEF FInv
    <2>2. Followed(Append(trail[s], c), schedule, used[s], prefix[s], <<>>)
      BY <2>1, NeutralFollows
    <2>. QED
      BY <2>1, <2>2
  <1>. QED
    BY <1>1, <1>2, CallMade, SideSuffices

\* An observed label: the first is the basis label or is noted.
LEMMA LabelStep ==
    ASSUME IInv, FInv, NEW s \in Sides, NEW l \in Labels, observe_label(s, l)
    PROVE  FInv'
  <1> DEFINE c == [op |-> "label", label |-> l]
             noted == prefix[s] = "label" /\ l # BasisLabel
  <1>1. c \in CallRecords /\ Calls(s, c)
    BY DEF CallRecords, observe_label
  <1>2. Leaves(s, public_message(t[s], l), noted, l) /\ noted \in BOOLEAN
    BY DEF observe_label
  <1>3. /\ UNCHANGED <<stage, honest, schedule>>
        /\ ~failed'[s] => ~failed[s] /\ ~noted
        /\ \A r \in Sides \ {s} : failed'[r] = failed[r]
    BY <1>2, LeavesNotes
  <1>4. /\ prefix'[s] = IF prefix[s] = "label" THEN "target" ELSE prefix[s]
        /\ \A r \in Sides \ {s} : prefix'[r] = prefix[r]
        /\ UNCHANGED <<used, rest>>
    BY DEF observe_label, IInv, TypeOK
  <1>5. /\ ~Returned(s) /\ rest[s] = <<>> /\ trail[s] \in Seq(CallRecords)
        /\ trail' \in [Sides -> Seq(CallRecords)]
        /\ trail'[s] = Append(trail[s], [op |-> "label", label |-> l])
        /\ \A r \in Sides \ {s} : trail'[r] = trail[r]
    BY <1>1, CallMade
  <1>6. ASSUME ~failed'[s]
        PROVE  Followed(trail'[s], schedule, used'[s], prefix'[s], rest'[s])
    <2>1. Followed(trail[s], schedule, used[s], prefix[s], <<>>)
      BY <1>3, <1>5, <1>6 DEF FInv
    <2>. QED
      BY <1>3, <1>4, <1>5, <1>6, <2>1, LabelFollows
  <1>. QED
    BY <1>3, <1>4, <1>5, <1>6, SideSuffices

\* An observed element: the first is the target or is noted.
LEMMA F128Step ==
    ASSUME IInv, FInv, NEW s \in Sides, NEW x \in Values, observe_f128(s, x)
    PROVE  FInv'
  <1>1. [op |-> "f128", value |-> x] \in CallRecords
    BY DEF CallRecords
  <1>2. /\ ~Returned(s) /\ rest[s] = <<>> /\ trail[s] \in Seq(CallRecords)
        /\ trail' \in [Sides -> Seq(CallRecords)]
        /\ trail'[s] = Append(trail[s], [op |-> "f128", value |-> x])
        /\ \A r \in Sides \ {s} : trail'[r] = trail[r]
    BY <1>1, CallMade DEF observe_f128
  <1>3. /\ UNCHANGED <<stage, honest, schedule>>
        /\ ~failed'[s] => ~failed[s] /\ (\/ prefix[s] = "none"
                                         \/ prefix[s] = "target" /\ x = Target)
        /\ prefix'[s] = "none"
        /\ \A r \in Sides \ {s} : failed'[r] = failed[r] /\ prefix'[r] = prefix[r]
    BY ElementNotes DEF observe_f128
  <1>4. UNCHANGED <<used, rest>>
    BY DEF observe_f128
  <1>5. ASSUME ~failed'[s]
        PROVE  Followed(trail'[s], schedule, used'[s], prefix'[s], rest'[s])
    <2>1. Followed(trail[s], schedule, used[s], prefix[s], <<>>)
      BY <1>2, <1>3, <1>5 DEF FInv
    <2>. QED
      BY <1>2, <1>3, <1>4, <1>5, <2>1, ElementFollows
  <1>. QED
    BY <1>2, <1>3, <1>4, <1>5, SideSuffices

\* A slice observed: its length now, its elements after.
LEMMA SliceStep ==
    ASSUME IInv, FInv, NEW s \in Sides, NEW xs \in Slices, observe_f128_slice(s, xs)
    PROVE  FInv'
  <1>1. [op |-> "slice", values |-> xs] \in CallRecords
    BY DEF CallRecords
  <1>2. /\ ~Returned(s) /\ rest[s] = <<>> /\ trail[s] \in Seq(CallRecords)
        /\ trail' \in [Sides -> Seq(CallRecords)]
        /\ trail'[s] = Append(trail[s], [op |-> "slice", values |-> xs])
        /\ \A r \in Sides \ {s} : trail'[r] = trail[r]
    BY <1>1, CallMade DEF observe_f128_slice
  <1> DEFINE cells == <<Len(xs)>>
             noted == ReadsOtherwise(s, Len(cells), cells)
  <1>3. /\ UNCHANGED <<stage, honest, schedule>>
        /\ ~failed'[s] => ~failed[s]
        /\ \A r \in Sides \ {s} : failed'[r] = failed[r]
    <2>1. \/ Leaves(s, send_message(t[s], cells), FALSE, cells)
          \/ Leaves(s, read_message(t[s], Len(cells)), noted, cells)
      BY DEF observe_f128_slice, Exchange
    <2>2. noted \in BOOLEAN
      BY DEF ReadsOtherwise
    <2> HIDE DEF cells, noted
    <2>3. CASE Leaves(s, send_message(t[s], cells), FALSE, cells)
      BY <2>3, LeavesNotes
    <2>4. CASE Leaves(s, read_message(t[s], Len(cells)), noted, cells)
      BY <2>2, <2>4, LeavesNotes
    <2>. QED
      BY <2>1, <2>3, <2>4
  <1>4. rest'[s] = xs /\ (\A r \in Sides \ {s} : rest'[r] = rest[r]) /\ UNCHANGED <<prefix, used>>
    BY DEF observe_f128_slice, IInv, TypeOK
  <1>5. ASSUME ~failed'[s]
        PROVE  Followed(trail'[s], schedule, used'[s], prefix'[s], rest'[s])
    <2>1. Followed(trail[s], schedule, used[s], prefix[s], <<>>)
      BY <1>2, <1>3, <1>5 DEF FInv
    <2>. QED
      BY <1>2, <1>3, <1>4, <2>1, SliceFollows
  <1>. QED
    BY <1>2, <1>3, <1>4, <1>5, SideSuffices

\* The next element of the slice being observed.
LEMMA NextStep ==
    ASSUME IInv, FInv, NEW s \in Sides, SliceElement(s)
    PROVE  FInv'
  <1>1. /\ rest[s] # <<>> /\ rest[s] \in Seq(Values) /\ ~Returned(s)
        /\ trail[s] \in Seq(CallRecords) /\ trail' \in [Sides -> Seq(CallRecords)]
        /\ UNCHANGED <<used, trail>>
        /\ rest'[s] = Tail(rest[s]) /\ \A r \in Sides \ {s} : rest'[r] = rest[r]
    BY DEF SliceElement, IInv, TypeOK, FInv
  <1>2. Head(rest[s]) \in Values
    BY <1>1, HeadTailProperties
  <1>3. /\ UNCHANGED <<stage, honest, schedule>>
        /\ ~failed'[s] => ~failed[s] /\ (\/ prefix[s] = "none"
                                         \/ prefix[s] = "target" /\ Head(rest[s]) = Target)
        /\ prefix'[s] = "none"
        /\ \A r \in Sides \ {s} : failed'[r] = failed[r] /\ prefix'[r] = prefix[r]
    BY <1>2, ElementNotes DEF SliceElement
  <1>4. ASSUME ~failed'[s]
        PROVE  Followed(trail'[s], schedule, used'[s], prefix'[s], rest'[s])
    <2>1. Followed(trail[s], schedule, used[s], prefix[s], rest[s])
      BY <1>3, <1>4 DEF FInv
    <2>. QED
      BY <1>1, <1>3, <1>4, <2>1, NextFollows
  <1>. QED
    BY <1>1, <1>3, <1>4, SideSuffices

\* A byte string, whether or not the verifier can read one.
LEMMA BytesStep ==
    ASSUME IInv, FInv, NEW s \in Sides, NEW b \in Strings, observe_bytes(s, b)
    PROVE  FInv'
  <1> DEFINE c == [op |-> "bytes", bytes |-> b]
  <1>1. c \in CallRecords /\ c.op = "bytes" /\ Elems(c) = <<>>
    BY DEF CallRecords, Elems
  <1>2. Calls(s, c) /\ UNCHANGED <<prefix, used, rest>>
    BY DEF observe_bytes
  <1> HIDE DEF c
  <1>3. CASE Leaves(s, send_message(t[s], Prefixed(b)), FALSE, Prefixed(b))
    BY <1>1, <1>2, <1>3, PlainFollows
  <1>4. CASE LET n == 1 + t[s].narg[1]
             IN  Leaves(s, read_message(t[s], n), ReadsOtherwise(s, n, Prefixed(b)), Prefixed(b))
    <2> DEFINE n == 1 + t[s].narg[1]
               noted == ReadsOtherwise(s, n, Prefixed(b))
    <2>1. noted \in BOOLEAN
      BY DEF ReadsOtherwise
    <2>2. Leaves(s, read_message(t[s], n), noted, Prefixed(b))
      BY <1>4
    <2> HIDE DEF n, noted
    <2>. QED
      BY <1>1, <1>2, <2>1, <2>2, PlainFollows
  <1>5. CASE Leaves(s, t[s], TRUE, Prefixed(b))
    BY <1>1, <1>2, <1>5, PlainFollows
  <1>. QED
    BY <1>3, <1>4, <1>5 DEF observe_bytes

\* A challenge, or the challenges drawn at once.
LEMMA SampleStep ==
    ASSUME IInv, FInv, NEW s \in Sides,
           sample_f128(s) \/ sample_f128_vec(s, BasisVars)
    PROVE  FInv'
  <1>1. CASE sample_f128(s)
    <2> DEFINE c == [op |-> "sample"]
    <2>1. c \in CallRecords /\ c.op = "sample" /\ Elems(c) = <<>>
      BY DEF CallRecords, Elems
    <2>2. /\ Calls(s, c) /\ UNCHANGED <<prefix, used, rest>>
          /\ Leaves(s, verifier_message(t[s]), FALSE, <<Squeeze>>)
      BY <1>1 DEF sample_f128
    <2> HIDE DEF c
    <2>. QED
      BY <2>1, <2>2, PlainFollows
  <1>2. CASE sample_f128_vec(s, BasisVars)
    <2> DEFINE c == [op |-> "samples", count |-> BasisVars]
    <2>1. c \in CallRecords /\ c.op = "samples" /\ Elems(c) = <<>>
      BY DEF CallRecords, Elems
    <2>2. /\ Calls(s, c) /\ UNCHANGED <<prefix, used, rest>>
          /\ Leaves(s, public_message(t[s], Vector(BasisVars)), FALSE, Vector(BasisVars))
      BY <1>2 DEF sample_f128_vec
    <2> HIDE DEF c
    <2>. QED
      BY <2>1, <2>2, PlainFollows
  <1>. QED
    BY <1>1, <1>2

\* A proof of work: for the entry that is next, or noted.
LEMMA PowStep ==
    ASSUME IInv, FInv, NEW s \in Sides, NEW native \in Natives, NEW nonce \in Nonces,
           Calls(s, PowCall(native, nonce)), TakeEntry(s),
           NEW w, NEW b \in BOOLEAN, NEW cells, Leaves(s, w, b, cells),
           ~b => pow_difficulty(s, native)
    PROVE  FInv'
  <1>1. PowCall(native, nonce) \in CallRecords
    BY DEF CallRecords, PowCall
  <1>2. /\ ~Returned(s) /\ rest[s] = <<>> /\ trail[s] \in Seq(CallRecords)
        /\ trail' \in [Sides -> Seq(CallRecords)]
        /\ trail'[s] = Append(trail[s], PowCall(native, nonce))
        /\ \A r \in Sides \ {s} : trail'[r] = trail[r]
    BY <1>1, CallMade
  <1>3. /\ UNCHANGED <<stage, honest, schedule>>
        /\ ~failed'[s] => ~failed[s] /\ ~b
        /\ \A r \in Sides \ {s} : failed'[r] = failed[r]
    BY LeavesNotes
  <1>4. /\ used'[s] = IF used[s] < Len(schedule) THEN used[s] + 1 ELSE used[s]
        /\ \A r \in Sides \ {s} : used'[r] = used[r]
        /\ UNCHANGED <<prefix, rest>>
    BY DEF TakeEntry, IInv, TypeOK
  <1>5. ASSUME ~failed'[s]
        PROVE  Followed(trail'[s], schedule, used'[s], prefix'[s], rest'[s])
    <2>1. Followed(trail[s], schedule, used[s], prefix[s], <<>>)
      BY <1>2, <1>3, <1>5 DEF FInv
    <2>2. used[s] < Len(schedule) /\ native = schedule[used[s] + 1][1]
      BY <1>3, <1>5 DEF pow_difficulty
    <2>3. Followed(Append(trail[s], PowCall(native, nonce)), schedule, used[s] + 1, prefix[s], <<>>)
      BY <1>2, <2>1, <2>2, PowFollows
    <2>. QED
      BY <1>2, <1>4, <2>2, <2>3
  <1>. QED
    BY <1>2, <1>3, <1>4, <1>5, SideSuffices

\* The prover grinds for the entry it takes.
LEMMA GrindStep ==
    ASSUME IInv, FInv, NEW native \in Natives, grind_pow(native)
    PROVE  FInv'
  <1> DEFINE s == "prover"
             ground == public_message(t[s], Header(s))
  <1>1. s \in Sides /\ TakeEntry(s)
    BY DEF Sides, grind_pow
  <1>2. CASE /\ pow_difficulty(s, native)
             /\ \E nonce \in find(ground.sponge, Effective(s)) :
                   /\ Calls(s, PowCall(native, nonce))
                   /\ Leaves(s, send_message(ground, nonce), FALSE, Header(s) \o nonce)
    <2>1. PICK nonce \in Nonces :
             /\ Calls(s, PowCall(native, nonce))
             /\ Leaves(s, send_message(ground, nonce), FALSE, Header(s) \o nonce)
      BY <1>2 DEF find
    <2> HIDE DEF s, ground
    <2>. QED
      BY <1>1, <1>2, <2>1, PowStep
  <1>3. CASE Calls(s, PowCall(native, ZeroNonce)) /\ Leaves(s, t[s], TRUE, <<>>)
    <2>1. ZeroNonce \in Nonces
      BY TranscriptAssumption DEF ZeroNonce, Nonces
    <2> HIDE DEF s, ground
    <2>. QED
      BY <1>1, <1>3, <2>1, PowStep
  <1>. QED
    BY <1>2, <1>3 DEF grind_pow

\* The verifier checks a nonce for the entry it takes.
LEMMA VerifyPowStep ==
    ASSUME IInv, FInv, NEW native \in Natives, NEW nonce \in Nonces, verify_pow(nonce, native)
    PROVE  FInv'
  <1> DEFINE s == "verifier"
             ground == public_message(t[s], Header(s))
             noted == \/ ReadsOtherwise(s, NonceCells, nonce)
                      \/ ~valid(ground.sponge, nonce, Effective(s))
  <1>1. s \in Sides /\ TakeEntry(s) /\ Calls(s, PowCall(native, nonce))
    BY DEF Sides, verify_pow
  <1>2. CASE /\ pow_difficulty(s, native)
             /\ Leaves(s, read_message(ground, NonceCells), noted, Header(s) \o nonce)
    <2>1. noted \in BOOLEAN
      OBVIOUS
    <2> HIDE DEF s, ground, noted
    <2>. QED
      BY <1>1, <1>2, <2>1, PowStep
  <1>3. CASE Leaves(s, t[s], TRUE, <<>>)
    <2> HIDE DEF s, ground, noted
    <2>. QED
      BY <1>1, <1>3, PowStep
  <1>. QED
    BY <1>2, <1>3 DEF verify_pow
-----------------------------------------------------------------------------
\* No call is made and nothing of it is decided.
LEMMA InitFollows == Init => FInv
  <1> SUFFICES ASSUME Init PROVE FInv
    OBVIOUS
  <1>1. \A s \in Sides : /\ trail[s] = <<>> /\ prefix[s] = "label"
                         /\ used[s] = 0 /\ rest[s] = <<>>
    BY DEF Init
  <1>2. Pows(<<>>) = {} /\ Cardinality(Pows(<<>>)) = 0
    BY FS_EmptySet DEF Pows
  <1>3. Followed(<<>>, schedule, 0, "label", <<>>)
    BY <1>2 DEF Followed, InOrder, Unlabelled, Bare
  <1>4. trail \in [Sides -> Seq(CallRecords)]
    BY DEF Init
  <1>5. \A s \in Sides : ~Returned(s)
    BY DEF Init, Returned
  <1>. QED
    BY <1>1, <1>3, <1>4, <1>5 DEF FInv

\* The prover returns at the hand-over, unless it has noted something.
LEMMA HandOverFollows == IInv /\ FInv /\ HandOver => FInv'
  <1> SUFFICES ASSUME IInv, FInv, HandOver PROVE FInv'
    OBVIOUS
  <1>1. UNCHANGED <<honest, schedule, failed, prefix, used, rest, trail>>
    BY DEF HandOver
  <1>2. ASSUME NEW s \in Sides, Returned(s)'
        PROVE  ~Failed(s)' /\ rest'[s] = <<>>
    <2>1. stage' = "receive" /\ s = "prover"
      BY <1>2 DEF HandOver, Returned, Sides
    <2>2. ~Failed("prover") /\ rest["prover"] = <<>>
      BY <2>1 DEF HandOver
    <2>. QED
      BY <1>1, <2>1, <2>2 DEF Failed
  <1>. QED
    BY <1>1, <1>2 DEF FInv

\* The verifier accepts only without a note.
LEMMA FinishFollows == IInv /\ FInv /\ Finish => FInv'
  <1> SUFFICES ASSUME IInv, FInv, Finish PROVE FInv'
    OBVIOUS
  <1>1. UNCHANGED <<honest, schedule, failed, prefix, used, rest, trail>>
    BY DEF Finish
  <1>2. ASSUME NEW s \in Sides, Returned(s)'
        PROVE  ~Failed(s)' /\ rest'[s] = <<>>
    <2>1. CASE s = "prover"
      <3>1. Returned(s)
        BY <1>2, <2>1 DEF Finish, Returned
      <3>. QED
        BY <1>1, <3>1 DEF FInv, Failed
    <2>2. CASE s = "verifier"
      <3>1. stage' = "accepted"
        BY <1>2, <2>2 DEF Returned
      <3>2. ~Failed("verifier") /\ rest["verifier"] = <<>>
        BY <3>1 DEF Finish
      <3>. QED
        BY <1>1, <2>2, <3>2 DEF Failed
    <2>. QED
      BY <2>1, <2>2 DEF Sides
  <1>. QED
    BY <1>1, <1>2 DEF FInv

\* What a side has followed is kept by every step.
LEMMA StepFollows == IInv /\ FInv /\ [Next]_vars => FInv'
  <1> SUFFICES ASSUME IInv, FInv, [Next]_vars PROVE FInv'
    OBVIOUS
  <1>1. ASSUME NEW s \in Sides, Observes(s) PROVE FInv'
    BY <1>1, LabelStep, F128Step, SliceStep, NextStep, BytesStep, SampleStep DEF Observes
  <1>2. CASE \E native \in Natives : grind_pow(native)
    BY <1>2, GrindStep
  <1>3. CASE \E native \in Natives, nonce \in Nonces : verify_pow(nonce, native)
    BY <1>3, VerifyPowStep
  <1>4. CASE HandOver
    BY <1>4, HandOverFollows
  <1>5. CASE Finish
    BY <1>5, FinishFollows
  <1>6. CASE UNCHANGED vars
    BY <1>6 DEF vars, FInv, Returned, Failed
  <1>. QED
    BY <1>1, <1>2, <1>3, <1>4, <1>5, <1>6 DEF Next

\* A side that calls its opening good has asked for the whole schedule's
\* proofs of work in order, and its first element is the public target behind
\* the basis label, whatever the backend and the narg string do.
THEOREM FollowsSchedule == Spec => []ReturnedFollowsSchedule
  <1>1. IInv /\ FInv => ReturnedFollowsSchedule
    BY DEF FInv, Failed, Followed, ReturnedFollowsSchedule
  <1>2. Init => IInv /\ FInv
    BY InitHolds, InitFollows
  <1>3. (IInv /\ FInv) /\ [Next]_vars => (IInv /\ FInv)'
    BY StepKeeps, StepFollows
  <1>. QED
    BY <1>1, <1>2, <1>3, PTL DEF Spec
-----------------------------------------------------------------------------
(***************************************************************************)
(* HonestAgree.  A position is what a verifier is at between two calls: its *)
(* sponge, the stream it has not read, prefix and the entries taken.  The   *)
(* prover's calls lead a verifier, given what the prover has written, to    *)
(* the prover's own position; so a verifier that repeats them, and the      *)
(* draws after them, always has a way left to where the prover stands.     *)
(***************************************************************************)
Positions == Seq(Symbol) \X Seq(Cell) \X {"label", "target", "none"} \X Nat

\* The first of these elements is the target, if it is what is expected.
Fits(expected, xs) ==
    xs = <<>> \/ expected = "none" \/ (expected = "target" /\ Head(xs) = Target)

\* What these elements leave in the stream, and expected after them.
Written(expected, xs) ==
    IF xs = <<>> \/ expected = "none" THEN FlattenSeq(xs) ELSE FlattenSeq(Tail(xs))
After(expected, xs) == IF xs = <<>> THEN expected ELSE "none"

\* What one element leaves in the stream.
Carried(expected, x) == IF expected = "none" THEN x ELSE <<>>

Moves(p, q, cells, written, after, entries) ==
    /\ q[1] = p[1] \o cells /\ p[2] = written \o q[2]
    /\ q[3] = after /\ q[4] = p[4] + entries

\* A call takes a verifier from p to q with nothing to note.
PowRepeats(entries, p, c, q) ==
    /\ p[4] < Len(entries) /\ entries[p[4] + 1][1] = c.native
    /\ valid(p[1] \o <<PowTag, entries[p[4] + 1][2], Squeeze>>, c.nonce, entries[p[4] + 1][2])
    /\ Moves(p, q, <<PowTag, entries[p[4] + 1][2], Squeeze>> \o c.nonce, c.nonce, p[3], 1)

Repeats(entries, p, c, q) ==
    \/ /\ c.op = "label" /\ (p[3] = "label" => c.label = BasisLabel)
       /\ Moves(p, q, c.label, <<>>, IF p[3] = "label" THEN "target" ELSE p[3], 0)
    \/ /\ c.op = "f128" /\ Fits(p[3], <<c.value>>)
       /\ Moves(p, q, c.value, Carried(p[3], c.value), "none", 0)
    \/ /\ c.op = "slice" /\ Fits(p[3], c.values)
       /\ Moves(p, q, <<Len(c.values)>> \o FlattenSeq(c.values),
                <<Len(c.values)>> \o Written(p[3], c.values), After(p[3], c.values), 0)
    \/ c.op = "bytes" /\ Moves(p, q, Prefixed(c.bytes), Prefixed(c.bytes), p[3], 0)
    \/ c.op = "sample" /\ Moves(p, q, <<Squeeze>>, <<>>, p[3], 0)
    \/ c.op = "samples" /\ Moves(p, q, Vector(c.count), <<>>, p[3], 0)
    \/ c.op = "pow" /\ PowRepeats(entries, p, c, q)

Replays(entries) ==
    {s \in Positions \X CallRecords \X Positions : Repeats(entries, s[1], s[2], s[3])}

\* A side's position once the slice it observes is through, and what that
\* slice will have left in the stream.
Position(s, z) ==
    <<t[s].sponge \o FlattenSeq(rest[s]), z, After(prefix[s], rest[s]), used[s]>>
Pended(s) == Written(prefix[s], rest[s])

Start(z) == <<<<>>, z, "label", 0>>

Replayable ==
    ~failed["prover"] /\ Fits(prefix["prover"], rest["prover"]) =>
        \A z \in Seq(Cell) :
            Takes(Positions, Replays(schedule), Start((t["prover"].narg \o Pended("prover")) \o z),
                  trail["prover"], Position("prover", z))

Replaying ==
    /\ Fits(prefix["verifier"], rest["verifier"])
    /\ Len(trail["verifier"]) \in 0..Len(Expected)
    /\ \E z \in Seq(Cell) :
          /\ t["verifier"].narg = Pended("verifier") \o z
          /\ Takes(Positions, Replays(schedule), Position("verifier", z),
                   SubSeq(Expected, Len(trail["verifier"]) + 1, Len(Expected)),
                   <<t["prover"].sponge, <<>>, "none", Len(schedule)>>)

Fresh ==
    /\ trail["verifier"] = <<>> /\ rest["verifier"] = <<>>
    /\ prefix["verifier"] = "label" /\ used["verifier"] = 0

HInv ==
    honest =>
        /\ stage # "rejected" /\ ~failed["verifier"]
        /\ stage \in {"send", "aborted"} => Fresh
        /\ stage = "send" => Replayable
        /\ stage = "receive" => Replaying
        /\ stage = "accepted" => t["verifier"].sponge = t["prover"].sponge

\* Elements one after the other.
LEMMA Flattened ==
    ASSUME NEW xs \in Seq(Values)
    PROVE  /\ FlattenSeq(xs) \in Seq(Cell)
           /\ xs # <<>> => /\ Head(xs) \in Values /\ Tail(xs) \in Seq(Values)
                           /\ Head(xs) \in Seq(Cell) /\ FlattenSeq(Tail(xs)) \in Seq(Cell)
                           /\ FlattenSeq(xs) = Head(xs) \o FlattenSeq(Tail(xs))
  <1>1. ASSUME NEW ys \in Seq(Values)
        PROVE  ys \in Seq(Seq(Cell)) /\ FlattenSeq(ys) \in Seq(Cell)
    <2>1. Values \subseteq Seq(Cell)
      BY Records, ChallengerAssumption
    <2>2. ys \in Seq(Seq(Cell))
      BY <2>1
    <2>. QED
      BY <2>2, FlattenType
  <1>2. ASSUME xs # <<>>
        PROVE  /\ Head(xs) \in Values /\ Tail(xs) \in Seq(Values) /\ Head(xs) \in Seq(Cell)
               /\ FlattenSeq(xs) = Head(xs) \o FlattenSeq(Tail(xs))
    <2>1. /\ Head(xs) \in Values /\ Tail(xs) \in Seq(Values)
          /\ xs = <<Head(xs)>> \o Tail(xs)
      BY <1>2, HeadTailProperties
    <2>2. Head(xs) \in Seq(Cell)
      BY <2>1, Records, ChallengerAssumption
    <2>3. FlattenSeq(<<Head(xs)>>) = Head(xs)
      <3>1. /\ <<>> \in Seq(Seq(Cell)) /\ Append(<<>>, Head(xs)) = <<Head(xs)>>
            /\ <<>> \o Head(xs) = Head(xs)
        BY <2>2
      <3>2. FlattenSeq(Append(<<>>, Head(xs))) = FlattenSeq(<<>>) \o Head(xs)
        BY <2>2, <3>1, FlattenAppend
      <3>. QED
        BY <3>1, <3>2, FlattenEmpty
    <2>4. <<Head(xs)>> \in Seq(Seq(Cell)) /\ Tail(xs) \in Seq(Seq(Cell))
      BY <1>1, <2>1, <2>2
    <2>5. FlattenSeq(<<Head(xs)>> \o Tail(xs)) = FlattenSeq(<<Head(xs)>>) \o FlattenSeq(Tail(xs))
      BY <2>4, FlattenConcat
    <2>. QED
      BY <2>1, <2>2, <2>3, <2>5
  <1>. QED
    BY <1>1, <1>2

\* A record at the front of the stream is read, and what is behind it is left.
LEMMA ReadBack ==
    ASSUME NEW w \in Transcripts, NEW x \in Seq(Cell), NEW z \in Seq(Cell), w.narg = x \o z
    PROVE  /\ Len(x) \in Nat /\ has_message(w, Len(x)) /\ next_message(w, Len(x)) = x
           /\ read_message(w, Len(x)).sponge = w.sponge \o x
           /\ read_message(w, Len(x)).narg = z
  <1>1. /\ Len(x) \in Nat /\ Len(z) \in Nat /\ Len(w.narg) = Len(x) + Len(z)
        /\ w.narg \in Seq(Cell)
        /\ \A i \in 1..Len(x) + Len(z) : w.narg[i] = IF i <= Len(x) THEN x[i] ELSE z[i - Len(x)]
    BY ConcatProperties, LenProperties
  <1>2. has_message(w, Len(x))
    BY <1>1 DEF has_message
  <1>3. next_message(w, Len(x)) = x
    <2> DEFINE u == SubSeq(w.narg, 1, Len(x))
    <2>1. /\ \A i \in 1..Len(x) : w.narg[i] \in Cell
          /\ 1 \in Int /\ Len(x) \in Int
      BY <1>1
    <2>2. u \in Seq(Cell) /\ Len(u) = Len(x) /\ \A i \in 1..Len(x) : u[i] = w.narg[i]
      BY <1>1, <2>1, SubSeqProperties
    <2>3. \A i \in 1..Len(x) : u[i] = x[i]
      BY <1>1, <2>2
    <2> HIDE DEF u
    <2>4. u = x
      BY <2>2, <2>3, SeqEqual
    <2>. QED
      BY <2>4 DEF u, next_message
  <1>4. SubSeq(w.narg, Len(x) + 1, Len(w.narg)) = z
    <2> DEFINE u == SubSeq(w.narg, Len(x) + 1, Len(w.narg))
    <2>1. /\ \A i \in Len(x) + 1 .. Len(w.narg) : w.narg[i] \in Cell
          /\ Len(x) + 1 \in Int /\ Len(w.narg) \in Int
      BY <1>1
    <2>2. /\ u \in Seq(Cell)
          /\ Len(u) = IF Len(x) + 1 <= Len(w.narg) THEN Len(w.narg) - (Len(x) + 1) + 1 ELSE 0
          /\ \A i \in 1..Len(w.narg) - (Len(x) + 1) + 1 : u[i] = w.narg[(Len(x) + 1) + i - 1]
      BY <2>1, SubSeqProperties
    <2>3. Len(u) = Len(z)
      BY <1>1, <2>2
    <2>4. ASSUME NEW i \in 1..Len(z) PROVE u[i] = z[i]
      <3>1. /\ i \in 1..Len(w.narg) - (Len(x) + 1) + 1 /\ (Len(x) + 1) + i - 1 = Len(x) + i
            /\ Len(x) + i \in 1..Len(x) + Len(z) /\ ~ (Len(x) + i <= Len(x))
            /\ (Len(x) + i) - Len(x) = i
        BY <1>1
      <3>. QED
        BY <1>1, <2>2, <3>1
    <2> HIDE DEF u
    <2>. QED
      BY <2>2, <2>3, <2>4, SeqEqual DEF u
  <1>. QED
    BY <1>1, <1>2, <1>3, <1>4 DEF read_message, Transcripts

\* Positions have their types, and a side that observes no slice is at its own.
LEMMA PositionTypes ==
    ASSUME NEW w \in Transcripts, NEW e \in {"label", "target", "none"},
           NEW xs \in Seq(Values), NEW n \in Nat, NEW z \in Seq(Cell)
    PROVE  /\ <<w.sponge \o FlattenSeq(xs), z, After(e, xs), n>> \in Positions
           /\ Written(e, xs) \in Seq(Cell)
           /\ w.sponge \in Seq(Symbol) /\ w.narg \in Seq(Cell)
           /\ w.sponge \o <<>> = w.sponge /\ w.narg \o <<>> = w.narg
           /\ After(e, <<>>) = e /\ Written(e, <<>>) = <<>> /\ Fits(e, <<>>)
  <1>1. w.sponge \in Seq(Symbol) /\ w.narg \in Seq(Cell)
    BY DEF Transcripts
  <1>2. FlattenSeq(xs) \in Seq(Symbol) /\ FlattenSeq(xs) \in Seq(Cell)
    BY Flattened, CellsAreSymbols
  <1>3. w.sponge \o FlattenSeq(xs) \in Seq(Symbol)
    BY <1>1, <1>2, ConcatProperties
  <1>4. After(e, xs) \in {"label", "target", "none"}
    BY DEF After
  <1>5. Written(e, xs) \in Seq(Cell)
    BY <1>2, Flattened DEF Written
  <1>6. w.sponge \o <<>> = w.sponge /\ w.narg \o <<>> = w.narg
    BY <1>1
  <1>7. After(e, <<>>) = e /\ Written(e, <<>>) = <<>> /\ Fits(e, <<>>)
    BY FlattenEmpty DEF After, Written, Fits
  <1>. QED
    BY <1>1, <1>3, <1>4, <1>5, <1>6, <1>7 DEF Positions

\* The parts of a side's state have their types.
LEMMA SideTypes ==
    ASSUME IInv, NEW s \in Sides
    PROVE  /\ t[s] \in Transcripts /\ t[s].sponge \in Seq(Symbol) /\ t[s].narg \in Seq(Cell)
           /\ failed[s] \in BOOLEAN /\ prefix[s] \in {"label", "target", "none"}
           /\ used[s] \in Nat /\ used[s] \in 0..Len(schedule) /\ rest[s] \in Seq(Values)
           /\ Len(schedule) \in Nat
  <1>1. schedule \in Seq(Natives \X (Nat \cap Symbol))
    BY ChallengerAssumption DEF IInv, TypeOK
  <1>2. Len(schedule) \in Nat
    BY <1>1, LenProperties
  <1>. QED
    BY <1>2 DEF IInv, TypeOK, Transcripts

\* A side that observes no slice has all of it in its position.
LEMMA Settled ==
    ASSUME IInv, NEW s \in Sides, rest[s] = <<>>
    PROVE  /\ Fits(prefix[s], rest[s]) /\ Pended(s) = <<>> /\ t[s].narg \o Pended(s) = t[s].narg
           /\ \A z \in Seq(Cell) :
                 /\ Position(s, z) = <<t[s].sponge, z, prefix[s], used[s]>>
                 /\ Position(s, z) \in Positions
  <1>1. /\ t[s] \in Transcripts /\ t[s].sponge \in Seq(Symbol) /\ t[s].narg \in Seq(Cell)
        /\ prefix[s] \in {"label", "target", "none"} /\ used[s] \in Nat
    BY SideTypes
  <1>2. FlattenSeq(rest[s]) = <<>> /\ t[s].sponge \o <<>> = t[s].sponge
    BY <1>1, FlattenEmpty
  <1>3. Fits(prefix[s], rest[s]) /\ Pended(s) = <<>> /\ After(prefix[s], rest[s]) = prefix[s]
    BY <1>2 DEF Fits, Pended, Written, After
  <1>4. t[s].narg \o Pended(s) = t[s].narg
    BY <1>1, <1>3
  <1>5. ASSUME NEW z \in Seq(Cell)
        PROVE  /\ Position(s, z) = <<t[s].sponge, z, prefix[s], used[s]>>
               /\ Position(s, z) \in Positions
    <2>1. Position(s, z) = <<t[s].sponge, z, prefix[s], used[s]>>
      BY <1>2, <1>3 DEF Position
    <2>. QED
      BY <1>1, <2>1 DEF Positions
  <1>. QED
    BY <1>3, <1>4, <1>5

\* Streams are put together in any order.
LEMMA RegroupCells ==
    ASSUME NEW a \in Seq(Cell), NEW b \in Seq(Cell), NEW c \in Seq(Cell)
    PROVE  (a \o b) \o c = a \o (b \o c) /\ a \o b \in Seq(Cell)
  BY ConcatAssociative, ConcatProperties

\* A prover's call with nothing to note is one a verifier can repeat.
LEMMA ProverMoves ==
    ASSUME IInv, IInv', FInv, Replayable, NEW c \in CallRecords, Calls("prover", c),
           UNCHANGED schedule, ~failed'["prover"] => ~failed["prover"],
           NEW written \in Seq(Cell),
           ~failed'["prover"] /\ Fits(prefix'["prover"], rest'["prover"]) =>
              /\ t'["prover"].narg \o Written(prefix'["prover"], rest'["prover"])
                    = t["prover"].narg \o written
              /\ \A z \in Seq(Cell) :
                    Repeats(schedule,
                            <<t["prover"].sponge, written \o z, prefix["prover"], used["prover"]>>, c,
                            <<t'["prover"].sponge \o FlattenSeq(rest'["prover"]), z,
                              After(prefix'["prover"], rest'["prover"]), used'["prover"]>>)
    PROVE  Replayable'
  <1> DEFINE s == "prover"
             W == Written(prefix'[s], rest'[s])
             calls == trail[s]
  <1>1. /\ s \in Sides /\ rest[s] = <<>> /\ calls \in Seq(CallRecords)
        /\ trail'[s] = Append(calls, c)
    BY CallMade DEF Sides
  <1>2. /\ t[s] \in Transcripts /\ t[s].narg \in Seq(Cell) /\ t[s].sponge \in Seq(Symbol)
        /\ prefix[s] \in {"label", "target", "none"} /\ used[s] \in Nat
    BY <1>1, SideTypes
  <1>3. /\ t'[s] \in Transcripts /\ rest'[s] \in Seq(Values)
        /\ prefix'[s] \in {"label", "target", "none"} /\ used'[s] \in Nat
    BY <1>1, SideTypes, IInv' DEF IInv, TypeOK
  <1>. SUFFICES ASSUME ~failed'[s], Fits(prefix'[s], rest'[s]), NEW z \in Seq(Cell)
                PROVE  Takes(Positions, Replays(schedule), Start((t'[s].narg \o W) \o z),
                             trail'[s],
                             <<t'[s].sponge \o FlattenSeq(rest'[s]), z,
                               After(prefix'[s], rest'[s]), used'[s]>>)
    BY DEF Replayable, Position, Pended
  <1> DEFINE p == <<t[s].sponge, written \o z, prefix[s], used[s]>>
             q == <<t'[s].sponge \o FlattenSeq(rest'[s]), z, After(prefix'[s], rest'[s]), used'[s]>>
             a == Start((t'[s].narg \o W) \o z)
  <1>4. written \o z \in Seq(Cell)
    BY ConcatProperties
  <1>5. p \in Positions
    BY <1>2, <1>4 DEF Positions
  <1>6. q \in Positions
    BY <1>3, PositionTypes
  <1>7. Takes(Positions, Replays(schedule), Start(t[s].narg \o (written \o z)), calls, p)
    <2>1. /\ Fits(prefix[s], rest[s])
          /\ t[s].narg \o Pended(s) = t[s].narg
          /\ Position(s, written \o z) = p
      BY <1>1, <1>4, Settled
    <2>2. ~failed[s]
      OBVIOUS
    <2>. QED
      BY <1>4, <2>1, <2>2 DEF Replayable
  <1>8. (t'[s].narg \o W) \o z = t[s].narg \o (written \o z)
    <2>1. t'[s].narg \o W = t[s].narg \o written
      OBVIOUS
    <2>2. \A n \in Seq(Cell) : (n \o written) \o z = n \o (written \o z)
      BY RegroupCells
    <2>. QED
      BY <1>2, <2>1, <2>2
  <1>9. <<p, c, q>> \in Replays(schedule)
    BY <1>5, <1>6 DEF Replays
  <1>10. a \in Positions
    <2>1. \A n \in Seq(Cell) : n \o (written \o z) \in Seq(Cell)
      BY <1>4, ConcatProperties
    <2>2. t[s].narg \o (written \o z) \in Seq(Cell) /\ <<>> \in Seq(Symbol)
      BY <1>2, <2>1
    <2>. QED
      BY <1>8, <2>2 DEF Start, Positions
  <1>11. <<c>> \in Seq(CallRecords) /\ Append(calls, c) = calls \o <<c>>
    BY <1>1
  <1> HIDE DEF p, q, a, W, calls
  <1>12. Takes(Positions, Replays(schedule), p, <<c>>, q)
    BY <1>5, <1>6, <1>9, TakesOne
  <1>13. Takes(Positions, Replays(schedule), a, calls \o <<c>>, q)
    BY <1>1, <1>5, <1>6, <1>7, <1>8, <1>10, <1>11, <1>12, TakesJoined DEF a
  <1>. QED
    BY <1>1, <1>11, <1>13 DEF a, q

-----------------------------------------------------------------------------
\* What a step of one side leaves of the other, and of what both were given.
Beside(s) ==
    /\ UNCHANGED <<stage, honest, schedule, proof>>
    /\ \A r \in Sides \ {s} : t'[r] = t[r] /\ failed'[r] = failed[r]

\* What Leaves says of either side.
LEMMA LeavesView ==
    ASSUME IInv, NEW s \in Sides, NEW w, NEW b \in BOOLEAN, NEW cells, Leaves(s, w, b, cells)
    PROVE  t'[s] = w /\ failed'[s] = (failed[s] \/ b) /\ Beside(s)
  <1>1. t \in [Sides -> Transcripts] /\ failed \in [Sides -> BOOLEAN]
    BY DEF IInv, TypeOK
  <1>. QED
    BY <1>1 DEF Leaves, Beside

\* A value is written by the prover, and found where the prover wrote it.
LEMMA ExchangeView ==
    ASSUME IInv, NEW s \in Sides, NEW x \in Seq(Cell), NEW z \in Seq(Cell), Exchange(s, x),
           s = "verifier" => t[s].narg = x \o z
    PROVE  /\ failed'[s] = failed[s] /\ t'[s].sponge = t[s].sponge \o x
           /\ t'[s].narg = IF s = "prover" THEN t[s].narg \o x ELSE z
           /\ Beside(s)
  <1>1. t[s] \in Transcripts /\ failed[s] \in BOOLEAN
    BY SideTypes
  <1>2. CASE s = "prover"
    <2>1. Leaves(s, send_message(t[s], x), FALSE, x)
      BY <1>2 DEF Exchange
    <2>2. t'[s] = send_message(t[s], x) /\ failed'[s] = (failed[s] \/ FALSE) /\ Beside(s)
      BY <2>1, LeavesView
    <2>3. /\ send_message(t[s], x).sponge = t[s].sponge \o x
          /\ send_message(t[s], x).narg = t[s].narg \o x
      BY <1>1 DEF send_message, Transcripts
    <2>. QED
      BY <1>1, <1>2, <2>2, <2>3
  <1>3. CASE s # "prover"
    <2> DEFINE w == read_message(t[s], Len(x))
               b == ReadsOtherwise(s, Len(x), x)
    <2>1. s = "verifier" /\ Leaves(s, w, b, x)
      BY <1>3 DEF Exchange, Sides
    <2>2. /\ has_message(t[s], Len(x)) /\ next_message(t[s], Len(x)) = x
          /\ w.sponge = t[s].sponge \o x /\ w.narg = z
      BY <1>1, <2>1, ReadBack
    <2>3. b = FALSE
      BY <2>2 DEF ReadsOtherwise
    <2> HIDE DEF w, b
    <2>4. t'[s] = w /\ failed'[s] = (failed[s] \/ b) /\ Beside(s)
      BY <2>1, <2>3, LeavesView
    <2>. QED
      BY <1>1, <1>3, <2>2, <2>3, <2>4
  <1>. QED
    BY <1>2, <1>3

\* An element is the target, in no stream, or is exchanged.
LEMMA ElementView ==
    ASSUME IInv, NEW s \in Sides, NEW x \in Values, NEW z \in Seq(Cell), Element(s, x),
           s = "verifier" => Fits(prefix[s], <<x>>) /\ t[s].narg = Carried(prefix[s], x) \o z
    PROVE  /\ ~failed'[s] => ~failed[s] /\ Fits(prefix[s], <<x>>)
           /\ s = "verifier" => failed'[s] = failed[s]
           /\ t'[s].sponge = t[s].sponge \o x
           /\ t'[s].narg = IF s = "prover" THEN t[s].narg \o Carried(prefix[s], x) ELSE z
           /\ prefix'[s] = "none" /\ \A r \in Sides \ {s} : prefix'[r] = prefix[r]
           /\ Beside(s)
  <1> DEFINE written == Carried(prefix[s], x)
  <1>1. /\ t[s] \in Transcripts /\ failed[s] \in BOOLEAN /\ t[s].narg \in Seq(Cell)
        /\ prefix[s] \in {"label", "target", "none"} /\ DOMAIN prefix = Sides
    BY SideTypes DEF IInv, TypeOK
  <1>2. x \in Seq(Cell) /\ x \in Seq(Symbol)
    BY Records, ChallengerAssumption, CellsAreSymbols
  <1>3. Head(<<x>>) = x /\ <<x>> # <<>>
    OBVIOUS
  <1>4. CASE prefix[s] = "none" /\ Exchange(s, x) /\ UNCHANGED prefix
    <2>1. written = x /\ Fits(prefix[s], <<x>>)
      BY <1>4 DEF Fits, Carried
    <2>2. /\ failed'[s] = failed[s] /\ t'[s].sponge = t[s].sponge \o x
          /\ t'[s].narg = IF s = "prover" THEN t[s].narg \o x ELSE z
          /\ Beside(s)
      BY <1>2, <1>4, <2>1, ExchangeView
    <2>. QED
      BY <1>4, <2>1, <2>2
  <1>5. CASE /\ prefix[s] # "none"
             /\ Leaves(s, public_message(t[s], x), WrongTarget(s, x), x)
             /\ prefix' = [prefix EXCEPT ![s] = "none"]
    <2>1. WrongTarget(s, x) \in BOOLEAN
      BY DEF WrongTarget
    <2>2. /\ t'[s] = public_message(t[s], x) /\ failed'[s] = (failed[s] \/ WrongTarget(s, x))
          /\ Beside(s)
      BY <1>5, <2>1, LeavesView
    <2>3. /\ public_message(t[s], x).sponge = t[s].sponge \o x
          /\ public_message(t[s], x).narg = t[s].narg
      BY <1>1, <1>2, PublicShape
    <2>4. ~WrongTarget(s, x) <=> Fits(prefix[s], <<x>>)
      BY <1>1, <1>3, <1>5 DEF WrongTarget, Fits
    <2>5. written = <<>> /\ t[s].narg \o <<>> = t[s].narg /\ <<>> \o z = z
      BY <1>1, <1>5 DEF Carried
    <2>6. prefix'[s] = "none" /\ \A r \in Sides \ {s} : prefix'[r] = prefix[r]
      BY <1>1, <1>5
    <2>7. t'[s].narg = IF s = "prover" THEN t[s].narg \o written ELSE z
      BY <2>2, <2>3, <2>5, SMTT(30) DEF Sides
    <2>. QED
      BY <1>1, <2>2, <2>3, <2>4, <2>6, <2>7
  <1>. QED
    BY <1>4, <1>5 DEF Element

\* The next element of a slice was in the position already.
LEMMA NextView ==
    ASSUME IInv, NEW s \in Sides, SliceElement(s), NEW z \in Seq(Cell),
           s = "verifier" => Fits(prefix[s], rest[s]) /\ t[s].narg = Pended(s) \o z
    PROVE  /\ ~failed'[s] => ~failed[s] /\ Fits(prefix[s], rest[s])
           /\ s = "verifier" => failed'[s] = failed[s]
           /\ Fits(prefix'[s], rest'[s]) /\ After(prefix'[s], rest'[s]) = After(prefix[s], rest[s])
           /\ t'[s].sponge \o FlattenSeq(rest'[s]) = t[s].sponge \o FlattenSeq(rest[s])
           /\ s = "prover" =>
                 t'[s].narg \o Written(prefix'[s], rest'[s]) = t[s].narg \o Pended(s)
           /\ s = "verifier" => t'[s].narg = Written(prefix'[s], rest'[s]) \o z
           /\ \A r \in Sides \ {s} : prefix'[r] = prefix[r] /\ rest'[r] = rest[r]
           /\ UNCHANGED <<used, trail>> /\ Beside(s)
  <1> DEFINE x == Head(rest[s])
             more == Tail(rest[s])
             written == Carried(prefix[s], x)
  <1>1. /\ rest[s] \in Seq(Values) /\ rest[s] # <<>> /\ t[s].sponge \in Seq(Symbol)
        /\ t[s].narg \in Seq(Cell)
    BY SideTypes DEF SliceElement
  <1>2. /\ x \in Values /\ x \in Seq(Cell) /\ x \in Seq(Symbol) /\ more \in Seq(Values)
        /\ FlattenSeq(more) \in Seq(Cell) /\ FlattenSeq(rest[s]) = x \o FlattenSeq(more)
    BY <1>1, Flattened, CellsAreSymbols
  <1>3. Element(s, x) /\ rest' = [rest EXCEPT ![s] = more] /\ UNCHANGED <<used, trail>>
    BY DEF SliceElement
  <1>4. rest'[s] = more /\ \A r \in Sides \ {s} : rest'[r] = rest[r]
    BY <1>3 DEF IInv, TypeOK
  <1>5. Fits(prefix[s], <<x>>) <=> Fits(prefix[s], rest[s])
    <2>1. Head(<<x>>) = x /\ <<x>> # <<>>
      OBVIOUS
    <2>. QED
      BY <1>1, <2>1 DEF Fits
  <1>6. /\ written \in Seq(Cell) /\ Pended(s) = written \o FlattenSeq(more)
    <2>1. CASE prefix[s] = "none"
      BY <1>1, <1>2, <2>1 DEF Pended, Written, Carried
    <2>2. CASE prefix[s] # "none"
      <3>1. written = <<>> /\ Pended(s) = FlattenSeq(more)
        BY <1>1, <2>2 DEF Pended, Written, Carried
      <3>2. \A u \in Seq(Cell) : <<>> \o u = u
        OBVIOUS
      <3>3. <<>> \o FlattenSeq(more) = FlattenSeq(more) /\ <<>> \in Seq(Cell)
        BY <1>2, <3>2
      <3> HIDE DEF written, more
      <3>. QED
        BY <3>1, <3>3
    <2>. QED
      BY <2>1, <2>2
  <1> HIDE DEF x, more, written
  <1>7. FlattenSeq(more) \o z \in Seq(Cell)
    BY <1>2, RegroupCells
  <1>8. \A a, b, c \in Seq(Cell) : (a \o b) \o c = a \o (b \o c)
    BY RegroupCells
  <1>9. s = "verifier" => t[s].narg = written \o (FlattenSeq(more) \o z)
    <2>1. (written \o FlattenSeq(more)) \o z = written \o (FlattenSeq(more) \o z)
      BY <1>2, <1>6, <1>8, Zenon
    <2>. QED
      BY <1>6, <2>1
  <1>10. s = "verifier" => Fits(prefix[s], <<x>>)
    BY <1>5
  <1>11. /\ ~failed'[s] => ~failed[s] /\ Fits(prefix[s], <<x>>)
         /\ s = "verifier" => failed'[s] = failed[s]
         /\ t'[s].sponge = t[s].sponge \o x
         /\ t'[s].narg = IF s = "prover" THEN t[s].narg \o written ELSE FlattenSeq(more) \o z
         /\ prefix'[s] = "none" /\ \A r \in Sides \ {s} : prefix'[r] = prefix[r]
         /\ Beside(s)
    <2> DEFINE tail == FlattenSeq(more) \o z
    <2>1. /\ tail \in Seq(Cell)
          /\ s = "verifier" => Fits(prefix[s], <<x>>) /\ t[s].narg = written \o tail
      BY <1>7, <1>9, <1>10
    <2> HIDE DEF tail
    <2>2. s = "verifier" => Fits(prefix[s], <<x>>) /\ t[s].narg = Carried(prefix[s], x) \o tail
      BY <2>1 DEF written
    <2>3. /\ ~failed'[s] => ~failed[s] /\ Fits(prefix[s], <<x>>)
          /\ s = "verifier" => failed'[s] = failed[s]
          /\ t'[s].sponge = t[s].sponge \o x
          /\ t'[s].narg = IF s = "prover" THEN t[s].narg \o written ELSE tail
          /\ prefix'[s] = "none" /\ \A r \in Sides \ {s} : prefix'[r] = prefix[r]
          /\ Beside(s)
      BY <1>2, <1>3, <2>1, <2>2, ElementView DEF written
    <2>. QED
      BY <2>3 DEF tail
  <1>12. /\ Fits(prefix'[s], rest'[s]) /\ After(prefix'[s], rest'[s]) = "none"
         /\ After(prefix[s], rest[s]) = "none"
         /\ Written(prefix'[s], rest'[s]) = FlattenSeq(more)
    BY <1>1, <1>4, <1>11 DEF Fits, After, Written
  <1>13. t'[s].sponge \o FlattenSeq(rest'[s]) = t[s].sponge \o FlattenSeq(rest[s])
    <2>1. FlattenSeq(more) \in Seq(Symbol)
      BY <1>2, CellsAreSymbols
    <2>2. (t[s].sponge \o x) \o FlattenSeq(more) = t[s].sponge \o (x \o FlattenSeq(more))
      BY <1>1, <1>2, <2>1, Regroup, Zenon
    <2>. QED
      BY <1>2, <1>4, <1>11, <2>2
  <1>14. (t[s].narg \o written) \o FlattenSeq(more) = t[s].narg \o (written \o FlattenSeq(more))
    BY <1>1, <1>2, <1>6, <1>8, Zenon
  <1>. QED
    BY <1>3, <1>4, <1>5, <1>6, <1>11, <1>12, <1>13, <1>14 DEF Sides

\* The calls an honest verifier has still to make.
Ahead(k) == SubSeq(Expected, k + 1, Len(Expected))
Goal == <<t["prover"].sponge, <<>>, "none", Len(schedule)>>

\* What an honest verifier makes is a sequence of calls.
LEMMA ExpectedCalls ==
    ASSUME FInv
    PROVE  /\ Draws \in Seq(CallRecords) /\ Expected \in Seq(CallRecords)
           /\ Len(Expected) \in Nat /\ trail["prover"] \in Seq(CallRecords)
           /\ trail["verifier"] \in Seq(CallRecords) /\ Len(trail["verifier"]) \in Nat
  <1>1. trail["prover"] \in Seq(CallRecords) /\ trail["verifier"] \in Seq(CallRecords)
    BY DEF FInv, Sides
  <1>2. Draws \in Seq(CallRecords)
    <2>1. [op |-> "samples", count |-> BasisVars] \in CallRecords /\ [op |-> "sample"] \in CallRecords
      BY DEF CallRecords
    <2>. QED
      BY <2>1 DEF Draws
  <1>3. Expected \in Seq(CallRecords)
    BY <1>1, <1>2, ConcatProperties DEF Expected
  <1>. QED
    BY <1>1, <1>2, <1>3, LenProperties

\* The goal is a position.
LEMMA GoalType == IInv => Goal \in Positions
  <1> SUFFICES ASSUME IInv PROVE Goal \in Positions
    OBVIOUS
  <1>1. t["prover"].sponge \in Seq(Symbol) /\ Len(schedule) \in Nat
    BY SideTypes DEF Sides
  <1>2. <<>> \in Seq(Cell) /\ "none" \in {"label", "target", "none"}
    OBVIOUS
  <1>. QED
    BY <1>1, <1>2 DEF Goal, Positions

\* An honest verifier's call is the next of those that lead to the goal.
LEMMA VerifierCalls ==
    ASSUME IInv, FInv, honest, Replaying, NEW c \in CallRecords, Calls("verifier", c)
    PROVE  /\ Len(trail["verifier"]) + 1 \in 0..Len(Expected)
           /\ \E q \in Positions :
                 /\ Repeats(schedule, <<t["verifier"].sponge, t["verifier"].narg,
                                        prefix["verifier"], used["verifier"]>>, c, q)
                 /\ Takes(Positions, Replays(schedule), q, Ahead(Len(trail["verifier"]) + 1), Goal)
  <1> DEFINE s == "verifier"
             k == Len(trail[s])
             p == <<t[s].sponge, t[s].narg, prefix[s], used[s]>>
  <1>1. Expected \in Seq(CallRecords) /\ Len(Expected) \in Nat /\ k \in Nat
    BY ExpectedCalls
  <1>2. k < Len(Expected) /\ c = Expected[k + 1] /\ rest[s] = <<>> /\ s \in Sides
    BY DEF Calls, Sides
  <1>3. /\ t[s].narg \in Seq(Cell) /\ Pended(s) = <<>>
        /\ \A z \in Seq(Cell) : Position(s, z) = <<t[s].sponge, z, prefix[s], used[s]>>
                                /\ Position(s, z) \in Positions
    BY <1>2, SideTypes, Settled
  <1>4. p \in Positions
    <2> DEFINE z == t[s].narg
    <2>1. p = Position(s, z) /\ z \in Seq(Cell)
      BY <1>3
    <2>. QED
      BY <1>3, <2>1
  <1>5. Takes(Positions, Replays(schedule), p, Ahead(k), Goal)
    <2>1. PICK z \in Seq(Cell) :
             /\ t[s].narg = Pended(s) \o z
             /\ Takes(Positions, Replays(schedule), Position(s, z), Ahead(k), Goal)
      BY DEF Replaying, Ahead, Goal
    <2>2. <<>> \o z = z
      OBVIOUS
    <2>. QED
      BY <1>3, <2>1, <2>2
  <1>6. /\ Ahead(k) \in Seq(CallRecords) /\ Ahead(k) # <<>>
        /\ Head(Ahead(k)) = c /\ Tail(Ahead(k)) = Ahead(k + 1)
    <2>1. k + 1 \in 1..Len(Expected) /\ Len(Expected) \in k + 1 .. Len(Expected)
      BY <1>1, <1>2
    <2>2. Head(Ahead(k)) = Expected[k + 1] /\ Tail(Ahead(k)) = Ahead(k + 1)
      <3>1. /\ Head(SubSeq(Expected, k + 1, Len(Expected))) = Expected[k + 1]
            /\ Tail(SubSeq(Expected, k + 1, Len(Expected))) = SubSeq(Expected, (k + 1) + 1, Len(Expected))
        BY <1>1, <2>1, HeadTailOfSubSeq
      <3>. QED
        BY <3>1 DEF Ahead
    <2>3. /\ \A i \in k + 1 .. Len(Expected) : Expected[i] \in CallRecords
          /\ k + 1 \in Int /\ Len(Expected) \in Int /\ k + 1 <= Len(Expected)
          /\ Len(Expected) - (k + 1) + 1 # 0
      BY <1>1, <1>2
    <2>4. /\ SubSeq(Expected, k + 1, Len(Expected)) \in Seq(CallRecords)
          /\ Len(SubSeq(Expected, k + 1, Len(Expected))) # 0
      BY <1>1, <2>3, SubSeqProperties
    <2>5. Len(<<>>) = 0
      OBVIOUS
    <2>. QED
      BY <1>2, <2>2, <2>4, <2>5 DEF Ahead
  <1>7. Goal \in Positions
    BY GoalType
  <1> HIDE DEF p, k
  <1>8. PICK q \in Positions :
           <<p, c, q>> \in Replays(schedule) /\ Takes(Positions, Replays(schedule), q, Ahead(k + 1), Goal)
    <2>1. ASSUME NEW calls \in Seq(CallRecords), calls # <<>>,
                 Takes(Positions, Replays(schedule), p, calls, Goal)
          PROVE  \E q \in Positions : /\ <<p, Head(calls), q>> \in Replays(schedule)
                                       /\ Takes(Positions, Replays(schedule), q, Tail(calls), Goal)
      BY <1>4, <1>7, <2>1, TakesHead
    <2>2. \E q \in Positions : /\ <<p, Head(Ahead(k)), q>> \in Replays(schedule)
                               /\ Takes(Positions, Replays(schedule), q, Tail(Ahead(k)), Goal)
      BY <1>5, <1>6, <2>1
    <2>. QED
      BY <1>6, <2>2
  <1>9. Repeats(schedule, p, c, q)
    BY <1>8 DEF Replays
  <1>. QED
    BY <1>1, <1>2, <1>8, <1>9 DEF p, k

\* From there it goes on, once the call has led to the same position.
LEMMA VerifierLands ==
    ASSUME FInv, NEW c \in CallRecords, Calls("verifier", c), Beside("verifier"),
           Len(trail["verifier"]) + 1 \in 0..Len(Expected),
           NEW q \in Positions,
           Takes(Positions, Replays(schedule), q, Ahead(Len(trail["verifier"]) + 1), Goal),
           Fits(prefix'["verifier"], rest'["verifier"]),
           t'["verifier"].narg = Written(prefix'["verifier"], rest'["verifier"]) \o q[2],
           t'["verifier"].sponge \o FlattenSeq(rest'["verifier"]) = q[1],
           After(prefix'["verifier"], rest'["verifier"]) = q[3], used'["verifier"] = q[4]
    PROVE  Replaying'
  <1> DEFINE s == "verifier"
  <1>1. /\ trail'[s] = Append(trail[s], c) /\ trail["prover"] = trail'["prover"]
        /\ trail[s] \in Seq(CallRecords)
    BY CallMade DEF Sides
  <1>2. Len(trail'[s]) = Len(trail[s]) + 1
    BY <1>1, AppendShape
  <1>3. Expected' = Expected /\ Goal' = Goal /\ schedule' = schedule
    BY <1>1 DEF Expected, Goal, Beside, Sides
  <1>4. q = <<q[1], q[2], q[3], q[4]>> /\ q[2] \in Seq(Cell)
    BY DEF Positions
  <1>5. Position(s, q[2])' = q
    BY <1>4 DEF Position
  <1>6. t'[s].narg = Pended(s)' \o q[2]
    BY DEF Pended
  <1>7. Takes(Positions, Replays(schedule'), <<t'[s].sponge \o FlattenSeq(rest'[s]), q[2],
                                              After(prefix'[s], rest'[s]), used'[s]>>,
              SubSeq(Expected', Len(trail'[s]) + 1, Len(Expected')), Goal')
    BY <1>2, <1>3, <1>4 DEF Ahead
  <1>. QED
    <2>1. Fits(prefix'[s], rest'[s]) /\ Len(trail'[s]) \in 0..Len(Expected')
      BY <1>2, <1>3
    <2>2. Takes(Positions, Replays(schedule'), Position(s, q[2])',
                SubSeq(Expected', Len(trail'[s]) + 1, Len(Expected')),
                <<t'["prover"].sponge, <<>>, "none", Len(schedule')>>)
      BY <1>7 DEF Position, Goal
    <2> HIDE DEF s
    <2>. QED
      BY <1>4, <1>6, <2>1, <2>2 DEF Replaying, s
\* A step of one side that keeps what its position is good for.
Back(s) ==
    /\ s = "prover" /\ Replayable => Replayable'
    /\ s = "verifier" /\ honest /\ ~failed[s] /\ Replaying => Replaying' /\ ~failed'[s]

\* Where call c leads side s from where it settles, and what with.
Leads(s, c, fine, cells, written, after, n) ==
    \A z \in Seq(Cell), q \in Positions :
        Repeats(schedule, <<t[s].sponge, z, prefix[s], used[s]>>, c, q)
        <=> /\ fine /\ q[1] = t[s].sponge \o cells /\ z = written \o q[2]
            /\ q[3] = after /\ q[4] = used[s] + n

\* The side's step goes there: without a note, and with the record found, if
\* it is the verifier's.
Reaches(s, fine, cells, written, after, n) ==
    /\ s = "prover" /\ ~failed'[s] => ~failed[s] /\ (Fits(prefix'[s], rest'[s]) => fine)
    /\ \A z \in Seq(Cell) : fine /\ (s = "verifier" => t[s].narg = written \o z) =>
          /\ After(prefix'[s], rest'[s]) = after /\ used'[s] = used[s] + n
          /\ t'[s].sponge \o FlattenSeq(rest'[s]) = t[s].sponge \o cells
          /\ s = "prover" =>
                t'[s].narg \o Written(prefix'[s], rest'[s]) = t[s].narg \o written
          /\ s = "verifier" => /\ failed'[s] = failed[s] /\ Fits(prefix'[s], rest'[s])
                               /\ t'[s].narg = Written(prefix'[s], rest'[s]) \o z

\* A call whose position is the one the call leads to: the prover's calls can
\* be repeated after it, and the verifier has repeated it.
LEMMA CallBack ==
    ASSUME IInv, IInv', FInv, NEW s \in Sides, NEW c \in CallRecords, Calls(s, c), Beside(s),
           NEW fine \in BOOLEAN, NEW cells, NEW written \in Seq(Cell), NEW after, NEW n,
           Leads(s, c, fine, cells, written, after, n),
           Reaches(s, fine, cells, written, after, n)
    PROVE  Back(s)
  <1>1. ASSUME s = "prover", Replayable PROVE Replayable'
    <2>1. ASSUME ~failed'[s], Fits(prefix'[s], rest'[s]), NEW z \in Seq(Cell)
          PROVE  Repeats(schedule, <<t[s].sponge, written \o z, prefix[s], used[s]>>, c,
                         <<t'[s].sponge \o FlattenSeq(rest'[s]), z,
                           After(prefix'[s], rest'[s]), used'[s]>>)
      <3> DEFINE q == <<t'[s].sponge \o FlattenSeq(rest'[s]), z, After(prefix'[s], rest'[s]), used'[s]>>
      <3>1. q \in Positions
        <4>1. /\ t'[s] \in Transcripts /\ prefix'[s] \in {"label", "target", "none"}
              /\ rest'[s] \in Seq(Values) /\ used'[s] \in Nat
          BY IInv' DEF IInv, TypeOK
        <4>. QED
          BY <4>1, PositionTypes
      <3>2. written \o z \in Seq(Cell)
        BY RegroupCells
      <3>3. /\ q[1] = t[s].sponge \o cells /\ q[2] = z /\ q[3] = after /\ q[4] = used[s] + n /\ fine
        BY <1>1, <2>1 DEF Reaches
      <3> HIDE DEF q
      <3>4. Repeats(schedule, <<t[s].sponge, written \o z, prefix[s], used[s]>>, c, q)
        BY <3>1, <3>2, <3>3 DEF Leads
      <3>. QED
        BY <3>4 DEF q
    <2>2. ASSUME ~failed'[s], Fits(prefix'[s], rest'[s])
          PROVE  t'[s].narg \o Written(prefix'[s], rest'[s]) = t[s].narg \o written
      BY <1>1, <2>2 DEF Reaches
    <2>3. UNCHANGED schedule /\ (~failed'["prover"] => ~failed["prover"])
      BY <1>1 DEF Beside, Reaches
    <2>. QED
      BY <1>1, <2>1, <2>2, <2>3, ProverMoves
  <1>2. ASSUME s = "verifier", honest, ~failed[s], Replaying PROVE Replaying' /\ ~failed'[s]
    <2>1. /\ Len(trail[s]) + 1 \in 0..Len(Expected)
          /\ \E q \in Positions :
                /\ Repeats(schedule, <<t[s].sponge, t[s].narg, prefix[s], used[s]>>, c, q)
                /\ Takes(Positions, Replays(schedule), q, Ahead(Len(trail[s]) + 1), Goal)
      BY <1>2, VerifierCalls
    <2>2. PICK q \in Positions :
             /\ Repeats(schedule, <<t[s].sponge, t[s].narg, prefix[s], used[s]>>, c, q)
             /\ Takes(Positions, Replays(schedule), q, Ahead(Len(trail[s]) + 1), Goal)
      BY <2>1
    <2>3. t[s].narg \in Seq(Cell) /\ q[2] \in Seq(Cell)
      BY SideTypes DEF Positions
    <2>4. /\ fine /\ q[1] = t[s].sponge \o cells /\ t[s].narg = written \o q[2]
          /\ q[3] = after /\ q[4] = used[s] + n
      BY <2>2, <2>3 DEF Leads
    <2>5. /\ failed'[s] = failed[s] /\ Fits(prefix'[s], rest'[s])
          /\ t'[s].narg = Written(prefix'[s], rest'[s]) \o q[2]
          /\ After(prefix'[s], rest'[s]) = after /\ used'[s] = used[s] + n
          /\ t'[s].sponge \o FlattenSeq(rest'[s]) = t[s].sponge \o cells
      BY <1>2, <2>3, <2>4 DEF Reaches
    <2>6. Replaying'
      BY <1>2, <2>1, <2>2, <2>4, <2>5, VerifierLands
    <2>. QED
      BY <1>2, <2>5, <2>6
  <1>. QED
    BY <1>1, <1>2 DEF Back

\* A call that absorbs something public, or draws.
LEMMA PublicBack ==
    ASSUME IInv, IInv', FInv, NEW s \in Sides, NEW c \in CallRecords, Calls(s, c),
           NEW b \in BOOLEAN, NEW cells \in Seq(Symbol),
           Leaves(s, public_message(t[s], cells), b, cells), UNCHANGED <<used, rest>>,
           Leads(s, c, ~b, cells, <<>>, prefix'[s], 0)
    PROVE  Back(s)
  <1>1. /\ t[s] \in Transcripts /\ t[s].sponge \in Seq(Symbol) /\ t[s].narg \in Seq(Cell)
        /\ failed[s] \in BOOLEAN /\ used[s] \in Nat
    BY SideTypes
  <1>2. rest[s] = <<>> /\ rest'[s] = <<>> /\ FlattenSeq(rest'[s]) = <<>>
    BY FlattenEmpty DEF Calls
  <1>3. t'[s] = public_message(t[s], cells) /\ failed'[s] = (failed[s] \/ b) /\ Beside(s)
    BY LeavesView
  <1>4. t'[s].sponge = t[s].sponge \o cells /\ t'[s].narg = t[s].narg
    BY <1>1, <1>3, PublicShape
  <1>5. t'[s].sponge \o FlattenSeq(rest'[s]) = t[s].sponge \o cells
    <2>1. t[s].sponge \o cells \in Seq(Symbol)
      BY <1>1, ConcatProperties
    <2>2. \A u \in Seq(Symbol) : u \o <<>> = u
      OBVIOUS
    <2>. QED
      BY <1>2, <1>4, <2>1, <2>2
  <1>6. /\ After(prefix'[s], rest'[s]) = prefix'[s] /\ Written(prefix'[s], rest'[s]) = <<>>
        /\ Fits(prefix'[s], rest'[s])
    BY <1>2 DEF After, Written, Fits
  <1>7. used'[s] = used[s] + 0 /\ <<>> \in Seq(Cell)
    BY <1>1
  <1> DEFINE fine == ~b
  <1>8. fine \in BOOLEAN /\ (fine <=> ~b)
    OBVIOUS
  <1> HIDE DEF fine
  <1>9. Leads(s, c, fine, cells, <<>>, prefix'[s], 0)
    BY <1>8 DEF Leads
  <1>10. /\ ~failed'[s] => ~failed[s]
         /\ ~failed'[s] /\ Fits(prefix'[s], rest'[s]) => fine
         /\ fine => failed'[s] = failed[s]
    BY <1>1, <1>3, <1>8
  <1>11. Reaches(s, fine, cells, <<>>, prefix'[s], 0)
    BY <1>4, <1>5, <1>6, <1>7, <1>10 DEF Reaches
  <1>. QED
    BY <1>3, <1>7, <1>8, <1>9, <1>11, CallBack

\* A label.
LEMMA LabelBack ==
    ASSUME IInv, IInv', FInv, NEW s \in Sides, NEW l \in Labels, observe_label(s, l)
    PROVE  Back(s)
  <1> DEFINE c == [op |-> "label", label |-> l]
             b == prefix[s] = "label" /\ l # BasisLabel
  <1>1. /\ Calls(s, c) /\ Leaves(s, public_message(t[s], l), b, l) /\ UNCHANGED <<used, rest>>
        /\ prefix' = [prefix EXCEPT ![s] = IF @ = "label" THEN "target" ELSE @]
    BY DEF observe_label
  <1>2. c \in CallRecords /\ l \in Seq(Symbol) /\ b \in BOOLEAN
    BY ChallengerAssumption DEF CallRecords
  <1>3. prefix'[s] = IF prefix[s] = "label" THEN "target" ELSE prefix[s]
    BY <1>1 DEF IInv, TypeOK
  <1>4. Leads(s, c, ~b, l, <<>>, prefix'[s], 0)
    BY <1>3 DEF Leads, Repeats, Moves
  <1> HIDE DEF b, c
  <1>. QED
    BY <1>1, <1>2, <1>4, PublicBack

\* A draw.
LEMMA SampleBack ==
    ASSUME IInv, IInv', FInv, NEW s \in Sides, sample_f128(s) \/ sample_f128_vec(s, BasisVars)
    PROVE  Back(s)
  <1>1. CASE sample_f128(s)
    <2> DEFINE c == [op |-> "sample"]
    <2>1. /\ Calls(s, c) /\ UNCHANGED <<prefix, used, rest>>
          /\ Leaves(s, public_message(t[s], <<Squeeze>>), FALSE, <<Squeeze>>)
      BY <1>1 DEF sample_f128, verifier_message
    <2>2. c \in CallRecords /\ <<Squeeze>> \in Seq(Symbol) /\ prefix'[s] = prefix[s]
      BY <2>1, Frames DEF CallRecords
    <2>3. Leads(s, c, ~FALSE, <<Squeeze>>, <<>>, prefix'[s], 0)
      BY <2>2 DEF Leads, Repeats, Moves
    <2> HIDE DEF c
    <2>. QED
      BY <2>1, <2>2, <2>3, PublicBack
  <1>2. CASE sample_f128_vec(s, BasisVars)
    <2> DEFINE c == [op |-> "samples", count |-> BasisVars]
    <2>1. /\ Calls(s, c) /\ UNCHANGED <<prefix, used, rest>>
          /\ Leaves(s, public_message(t[s], Vector(BasisVars)), FALSE, Vector(BasisVars))
      BY <1>2 DEF sample_f128_vec
    <2>2. c \in CallRecords /\ Vector(BasisVars) \in Seq(Symbol) /\ prefix'[s] = prefix[s]
      BY <2>1, Frames DEF CallRecords
    <2>3. Leads(s, c, ~FALSE, Vector(BasisVars), <<>>, prefix'[s], 0)
      BY <2>2 DEF Leads, Repeats, Moves
    <2> HIDE DEF c
    <2>. QED
      BY <2>1, <2>2, <2>3, PublicBack
  <1>. QED
    BY <1>1, <1>2

\* A byte string that is short enough to be read back.
LEMMA BytesBack ==
    ASSUME IInv, IInv', FInv, NEW s \in Sides, NEW b \in Strings, Len(b) <= MaxObserved,
           observe_bytes(s, b)
    PROVE  Back(s)
  <1> DEFINE c == [op |-> "bytes", bytes |-> b]
             x == Prefixed(b)
  <1>1. Calls(s, c) /\ UNCHANGED <<prefix, used, rest>>
    BY DEF observe_bytes
  <1>2. /\ c \in CallRecords /\ x \in Seq(Cell) /\ prefix'[s] = prefix[s] /\ used'[s] = used[s] + 0
        /\ rest[s] = <<>> /\ rest'[s] = <<>>
    BY <1>1, Frames, SideTypes DEF CallRecords, Calls
  <1>3. b \in Seq(Cell) /\ Len(b) \in Nat /\ x[1] = Len(b) /\ Len(x) = 1 + Len(b)
    <2>1. b \in Seq(Cell) /\ Len(b) \in Cell
      BY ChallengerAssumption
    <2>2. /\ <<Len(b)>> \in Seq(Cell) /\ Len(<<Len(b)>>) = 1 /\ <<Len(b)>>[1] = Len(b)
          /\ Len(b) \in Nat
      BY <2>1, LenProperties
    <2>. QED
      BY <2>1, <2>2, ConcatProperties DEF Prefixed
  <1>4. /\ t[s] \in Transcripts /\ t[s].sponge \in Seq(Symbol) /\ t[s].narg \in Seq(Cell)
        /\ failed[s] \in BOOLEAN
    BY SideTypes
  <1>5. ASSUME NEW z \in Seq(Cell), s = "verifier", t[s].narg = x \o z
        PROVE  failed'[s] = failed[s] /\ t'[s].sponge = t[s].sponge \o x /\ t'[s].narg = z
    <2>1. /\ has_message(t[s], Len(x)) /\ next_message(t[s], Len(x)) = x
          /\ read_message(t[s], Len(x)).sponge = t[s].sponge \o x
          /\ read_message(t[s], Len(x)).narg = z
      BY <1>2, <1>4, <1>5, ReadBack
    <2>2. t[s].narg[1] = Len(b) /\ Len(t[s].narg) = Len(x) + Len(z) /\ Len(z) \in Nat
      <3>1. 1 \in 1..Len(x) + Len(z) /\ 1 <= Len(x) /\ Len(z) \in Nat
        BY <1>3, LenProperties
      <3>2. Len(x \o z) = Len(x) + Len(z)
        BY <1>2, ConcatProperties
      <3>3. \A i \in 1..Len(x) + Len(z) : (x \o z)[i] = IF i <= Len(x) THEN x[i] ELSE z[i - Len(x)]
        BY <1>2, ConcatProperties
      <3>4. (x \o z)[1] = x[1]
        BY <3>1, <3>3
      <3>. QED
        BY <1>3, <1>5, <3>1, <3>2, <3>4
    <2>3. Readable(t[s])
      BY <1>3, <2>2 DEF Readable, has_message
    <2>4. Leaves(s, read_message(t[s], Len(x)), ReadsOtherwise(s, Len(x), x), x)
      BY <1>3, <1>5, <2>2, <2>3 DEF observe_bytes
    <2>5. ReadsOtherwise(s, Len(x), x) = FALSE
      BY <2>1 DEF ReadsOtherwise
    <2>. QED
      BY <1>4, <2>1, <2>4, <2>5, LeavesView
  <1>6. ASSUME s = "prover"
        PROVE  /\ failed'[s] = failed[s] /\ t'[s].sponge = t[s].sponge \o x
               /\ t'[s].narg = t[s].narg \o x
    <2>1. Leaves(s, send_message(t[s], x), FALSE, x)
      BY <1>6 DEF observe_bytes
    <2>2. t'[s] = send_message(t[s], x) /\ failed'[s] = (failed[s] \/ FALSE)
      BY <2>1, LeavesView
    <2>. QED
      BY <1>4, <2>2 DEF send_message, Transcripts
  <1>7. Beside(s)
    <2>1. ASSUME NEW w, NEW e, Leaves(s, w, e, x), e \in BOOLEAN PROVE Beside(s)
      BY <2>1, LeavesView
    <2>2. \/ Leaves(s, send_message(t[s], x), FALSE, x)
          \/ Leaves(s, read_message(t[s], 1 + t[s].narg[1]),
                    ReadsOtherwise(s, 1 + t[s].narg[1], x), x)
          \/ Leaves(s, t[s], TRUE, x)
      BY DEF observe_bytes
    <2>3. ReadsOtherwise(s, 1 + t[s].narg[1], x) \in BOOLEAN
      BY DEF ReadsOtherwise
    <2>. QED
      BY <2>1, <2>2, <2>3
  <1>8. /\ FlattenSeq(rest'[s]) = <<>> /\ After(prefix'[s], rest'[s]) = prefix[s]
        /\ Written(prefix'[s], rest'[s]) = <<>> /\ Fits(prefix'[s], rest'[s])
    BY <1>2, FlattenEmpty DEF After, Written, Fits
  <1>9. Leads(s, c, TRUE, x, x, prefix[s], 0)
    BY DEF Leads, Repeats, Moves
  <1> HIDE DEF c, x
  <1>10. ASSUME t'[s].sponge = t[s].sponge \o x
         PROVE  t'[s].sponge \o FlattenSeq(rest'[s]) = t[s].sponge \o x
    <2>1. t[s].sponge \o x \in Seq(Symbol)
      BY <1>2, <1>4, CellsAreSymbols, ConcatProperties
    <2>2. \A u \in Seq(Symbol) : u \o <<>> = u
      OBVIOUS
    <2>. QED
      BY <1>8, <1>10, <2>1, <2>2
  <1>11. Reaches(s, TRUE, x, x, prefix[s], 0)
    <2>1. CASE s = "prover"
      <3>1. t'[s].narg \o Written(prefix'[s], rest'[s]) = t[s].narg \o x
        <4>1. t[s].narg \o x \in Seq(Cell)
          BY <1>2, <1>4, RegroupCells
        <4>2. \A u \in Seq(Cell) : u \o <<>> = u
          OBVIOUS
        <4>. QED
          BY <1>6, <1>8, <2>1, <4>1, <4>2
      <3>. QED
        BY <1>2, <1>6, <1>8, <1>10, <2>1, <3>1 DEF Reaches
    <2>2. CASE s = "verifier"
      <3>1. ASSUME NEW z \in Seq(Cell), t[s].narg = x \o z
            PROVE  /\ t'[s].sponge \o FlattenSeq(rest'[s]) = t[s].sponge \o x
                   /\ t'[s].narg = Written(prefix'[s], rest'[s]) \o z /\ failed'[s] = failed[s]
        <4>1. \A u \in Seq(Cell) : <<>> \o u = u
          OBVIOUS
        <4>. QED
          BY <1>5, <1>8, <1>10, <2>2, <3>1, <4>1
      <3>. QED
        BY <1>2, <1>8, <2>2, <3>1 DEF Reaches
    <2>. QED
      BY <2>1, <2>2 DEF Sides
  <1>. QED
    BY <1>1, <1>2, <1>7, <1>9, <1>11, CallBack

\* An element.
LEMMA F128Back ==
    ASSUME IInv, IInv', FInv, NEW s \in Sides, NEW x \in Values, observe_f128(s, x)
    PROVE  Back(s)
  <1> DEFINE c == [op |-> "f128", value |-> x]
             fine == Fits(prefix[s], <<x>>)
             w == Carried(prefix[s], x)
  <1>1. Calls(s, c) /\ Element(s, x) /\ UNCHANGED <<used, rest>>
    BY DEF observe_f128
  <1>2. /\ t[s].sponge \in Seq(Symbol) /\ t[s].narg \in Seq(Cell) /\ used'[s] = used[s] + 0
        /\ rest[s] = <<>> /\ rest'[s] = <<>>
    BY <1>1, SideTypes DEF Calls
  <1>3. x \in Seq(Cell) /\ x \in Seq(Symbol) /\ c \in CallRecords
    BY Records, ChallengerAssumption, CellsAreSymbols DEF CallRecords
  <1>4. w \in Seq(Cell) /\ fine \in BOOLEAN
    BY <1>3 DEF Carried, Fits
  <1>5. Leads(s, c, fine, x, w, "none", 0)
    BY DEF Leads, Repeats, Moves
  <1>6. ASSUME NEW z \in Seq(Cell), s = "verifier" => fine /\ t[s].narg = w \o z
        PROVE  /\ ~failed'[s] => ~failed[s] /\ fine
               /\ s = "verifier" => failed'[s] = failed[s]
               /\ t'[s].sponge = t[s].sponge \o x
               /\ t'[s].narg = IF s = "prover" THEN t[s].narg \o w ELSE z
               /\ prefix'[s] = "none" /\ Beside(s)
    BY <1>1, <1>6, ElementView
  <1>7. Beside(s) /\ prefix'[s] = "none"
    <2>1. ASSUME NEW v, NEW e \in BOOLEAN, Leaves(s, v, e, x) PROVE Beside(s)
      BY <2>1, LeavesView
    <2>2. \/ Leaves(s, public_message(t[s], x), WrongTarget(s, x), x)
          \/ Leaves(s, send_message(t[s], x), FALSE, x)
          \/ Leaves(s, read_message(t[s], Len(x)), ReadsOtherwise(s, Len(x), x), x)
      BY <1>1 DEF Element, Exchange
    <2>3. WrongTarget(s, x) \in BOOLEAN /\ ReadsOtherwise(s, Len(x), x) \in BOOLEAN
      BY DEF WrongTarget, ReadsOtherwise
    <2>4. prefix'[s] = "none"
      BY <1>1 DEF Element, IInv, TypeOK
    <2>. QED
      BY <2>1, <2>2, <2>3, <2>4
  <1> HIDE DEF c, fine, w
  <1>8. /\ After(prefix'[s], rest'[s]) = "none" /\ Written(prefix'[s], rest'[s]) = <<>>
        /\ Fits(prefix'[s], rest'[s]) /\ FlattenSeq(rest'[s]) = <<>>
    BY <1>2, <1>7, FlattenEmpty DEF After, Written, Fits
  <1>9. t[s].sponge \o x \in Seq(Symbol) /\ t[s].narg \o w \in Seq(Cell)
    BY <1>2, <1>3, <1>4, ConcatProperties
  <1>10. /\ \A u \in Seq(Symbol) : u \o <<>> = u
         /\ \A u \in Seq(Cell) : u \o <<>> = u /\ <<>> \o u = u
    OBVIOUS
  <1>11. Reaches(s, fine, x, w, "none", 0)
    <2>1. CASE s = "prover"
      <3>1. /\ ~failed'[s] => ~failed[s] /\ fine
            /\ t'[s].sponge = t[s].sponge \o x /\ t'[s].narg = t[s].narg \o w
        <4>1. s # "verifier" /\ <<>> \in Seq(Cell)
          BY <2>1
        <4>. QED
          BY <1>6, <2>1, <4>1
      <3>2. /\ (t[s].sponge \o x) \o FlattenSeq(rest'[s]) = t[s].sponge \o x
            /\ (t[s].narg \o w) \o Written(prefix'[s], rest'[s]) = t[s].narg \o w
        BY <1>8, <1>9, <1>10, Zenon
      <3>. QED
        BY <1>2, <1>8, <2>1, <3>1, <3>2 DEF Reaches
    <2>2. CASE s = "verifier"
      <3>1. ASSUME NEW z \in Seq(Cell), fine, t[s].narg = w \o z
            PROVE  /\ t'[s].sponge = t[s].sponge \o x /\ t'[s].narg = z /\ failed'[s] = failed[s]
        BY <1>6, <2>2, <3>1
      <3>2. /\ (t[s].sponge \o x) \o FlattenSeq(rest'[s]) = t[s].sponge \o x
            /\ \A z \in Seq(Cell) : Written(prefix'[s], rest'[s]) \o z = z
        BY <1>8, <1>9, <1>10, Zenon
      <3>. QED
        BY <1>2, <1>8, <2>2, <3>1, <3>2 DEF Reaches
    <2>. QED
      BY <2>1, <2>2 DEF Sides
  <1>. QED
    BY <1>1, <1>3, <1>4, <1>5, <1>7, <1>11, CallBack

\* A slice is through in the position as soon as its length is.
LEMMA SliceBack ==
    ASSUME IInv, IInv', FInv, NEW s \in Sides, NEW xs \in Slices, observe_f128_slice(s, xs)
    PROVE  Back(s)
  <1> DEFINE c == [op |-> "slice", values |-> xs]
             fine == Fits(prefix[s], xs)
             size == <<Len(xs)>>
             body == Written(prefix[s], xs)
             after == After(prefix[s], xs)
  <1>1. /\ Calls(s, c) /\ Exchange(s, size) /\ rest' = [rest EXCEPT ![s] = xs]
        /\ UNCHANGED <<prefix, used>>
    BY DEF observe_f128_slice
  <1>2. /\ t[s].sponge \in Seq(Symbol) /\ t[s].narg \in Seq(Cell) /\ used'[s] = used[s] + 0
        /\ rest[s] = <<>> /\ rest'[s] = xs /\ prefix'[s] = prefix[s]
        /\ prefix[s] \in {"label", "target", "none"}
    BY <1>1, SideTypes DEF Calls, IInv, TypeOK
  <1>3. /\ c \in CallRecords /\ size \in Seq(Cell) /\ xs \in Seq(Values)
        /\ FlattenSeq(xs) \in Seq(Cell) /\ fine \in BOOLEAN
    BY Frames, ChallengerAssumption, Flattened DEF CallRecords, Fits
  <1>4. body \in Seq(Cell) /\ size \o body \in Seq(Cell)
    <2>1. body \in Seq(Cell)
      BY <1>3, Flattened DEF Written
    <2>. QED
      BY <1>3, <2>1, ConcatProperties
  <1>5. Leads(s, c, fine, size \o FlattenSeq(xs), size \o body, after, 0)
    <2>1. c.op = "slice" /\ c.values = xs
      OBVIOUS
    <2> HIDE DEF c
    <2>2. ASSUME NEW z \in Seq(Cell), NEW q \in Positions
          PROVE  Repeats(schedule, <<t[s].sponge, z, prefix[s], used[s]>>, c, q)
                 <=> /\ Fits(prefix[s], xs)
                     /\ Moves(<<t[s].sponge, z, prefix[s], used[s]>>, q, size \o FlattenSeq(xs),
                              size \o Written(prefix[s], xs), After(prefix[s], xs), 0)
      <3> DEFINE p == <<t[s].sponge, z, prefix[s], used[s]>>
      <3>1. p[3] = prefix[s]
        OBVIOUS
      <3> HIDE DEF p
      <3>2. /\ Fits(p[3], c.values) <=> Fits(prefix[s], xs)
            /\ Moves(p, q, <<Len(c.values)>> \o FlattenSeq(c.values),
                     <<Len(c.values)>> \o Written(p[3], c.values), After(p[3], c.values), 0)
               <=> Moves(p, q, size \o FlattenSeq(xs), size \o Written(prefix[s], xs),
                         After(prefix[s], xs), 0)
        BY <2>1, <3>1
      <3>3. Repeats(schedule, p, c, q)
            <=> /\ Fits(p[3], c.values)
                /\ Moves(p, q, <<Len(c.values)>> \o FlattenSeq(c.values),
                         <<Len(c.values)>> \o Written(p[3], c.values), After(p[3], c.values), 0)
        BY <2>1 DEF Repeats
      <3>. QED
        BY <3>2, <3>3 DEF p
    <2>. QED
      BY <2>2 DEF Leads, Moves
  <1> HIDE DEF c, fine, size, body, after
  <1>6. ASSUME NEW z \in Seq(Cell), s = "verifier" => t[s].narg = size \o z
        PROVE  /\ failed'[s] = failed[s] /\ t'[s].sponge = t[s].sponge \o size
               /\ t'[s].narg = IF s = "prover" THEN t[s].narg \o size ELSE z
    BY <1>1, <1>3, <1>6, ExchangeView
  <1>7. Beside(s)
    <2>1. ASSUME NEW v, NEW e \in BOOLEAN, Leaves(s, v, e, size) PROVE Beside(s)
      BY <2>1, LeavesView
    <2>2. \/ Leaves(s, send_message(t[s], size), FALSE, size)
          \/ Leaves(s, read_message(t[s], Len(size)), ReadsOtherwise(s, Len(size), size), size)
      BY <1>1 DEF Exchange
    <2>3. ReadsOtherwise(s, Len(size), size) \in BOOLEAN
      BY DEF ReadsOtherwise
    <2>. QED
      BY <2>1, <2>2, <2>3
  <1>8. /\ After(prefix'[s], rest'[s]) = after /\ Written(prefix'[s], rest'[s]) = body
        /\ (Fits(prefix'[s], rest'[s]) <=> fine) /\ FlattenSeq(rest'[s]) = FlattenSeq(xs)
    BY <1>2 DEF after, body, fine
  <1>9. (t[s].sponge \o size) \o FlattenSeq(xs) = t[s].sponge \o (size \o FlattenSeq(xs))
    <2>1. size \in Seq(Symbol) /\ FlattenSeq(xs) \in Seq(Symbol)
      BY <1>3, CellsAreSymbols
    <2>. QED
      BY <1>2, <2>1, Regroup, Zenon
  <1>10. \A a, b, e \in Seq(Cell) : (a \o b) \o e = a \o (b \o e)
    BY RegroupCells
  <1>11. Reaches(s, fine, size \o FlattenSeq(xs), size \o body, after, 0)
    <2>1. CASE s = "prover"
      <3>1. /\ failed'[s] = failed[s]
            /\ t'[s].sponge = t[s].sponge \o size /\ t'[s].narg = t[s].narg \o size
        <4>1. s # "verifier" /\ <<>> \in Seq(Cell)
          BY <2>1
        <4>. QED
          BY <1>6, <2>1, <4>1
      <3>2. (t[s].narg \o size) \o body = t[s].narg \o (size \o body)
        BY <1>2, <1>3, <1>4, <1>10, Zenon
      <3>. QED
        BY <1>2, <1>8, <1>9, <2>1, <3>1, <3>2 DEF Reaches
    <2>2. CASE s = "verifier"
      <3>1. ASSUME NEW z \in Seq(Cell), t[s].narg = (size \o body) \o z
            PROVE  /\ t'[s].sponge = t[s].sponge \o size /\ t'[s].narg = body \o z
                   /\ failed'[s] = failed[s]
        <4>1. body \o z \in Seq(Cell)
          BY <1>4, RegroupCells
        <4>2. (size \o body) \o z = size \o (body \o z)
          BY <1>3, <1>4, <1>10, Zenon
        <4>. QED
          BY <1>6, <2>2, <3>1, <4>1, <4>2
      <3>. QED
        BY <1>2, <1>8, <1>9, <2>2, <3>1 DEF Reaches
    <2>. QED
      BY <2>1, <2>2 DEF Sides
  <1>. QED
    BY <1>1, <1>3, <1>4, <1>5, <1>7, <1>11, CallBack\* What a proof of work asks for: the schedule's entry, and a nonce good for it.
PowFine(s, native, nonce) ==
    /\ pow_difficulty(s, native)
    /\ valid(t[s].sponge \o Header(s), nonce, Effective(s))

\* What the side's proof of work does: a note unless that is so.
Grinds(s, native, nonce) ==
    /\ s = "prover" /\ ~failed'[s] => ~failed[s] /\ PowFine(s, native, nonce)
    /\ \A z \in Seq(Cell) :
          PowFine(s, native, nonce) /\ (s = "verifier" => t[s].narg = nonce \o z) =>
             /\ t'[s].sponge = t[s].sponge \o (Header(s) \o nonce)
             /\ t'[s].narg = IF s = "prover" THEN t[s].narg \o nonce ELSE z
             /\ s = "verifier" => failed'[s] = failed[s]

\* Where a proof of work leads.
LEMMA PowLeads ==
    ASSUME NEW s \in Sides, NEW native, NEW nonce
    PROVE  Leads(s, PowCall(native, nonce), PowFine(s, native, nonce),
                 Header(s) \o nonce, nonce, prefix[s], 1)
  <1> DEFINE c == PowCall(native, nonce)
  <1>1. c.op = "pow" /\ c.native = native /\ c.nonce = nonce
    BY DEF PowCall
  <1> HIDE DEF c
  <1>2. ASSUME NEW z \in Seq(Cell), NEW q \in Positions
        PROVE  Repeats(schedule, <<t[s].sponge, z, prefix[s], used[s]>>, c, q)
               <=> PowRepeats(schedule, <<t[s].sponge, z, prefix[s], used[s]>>, c, q)
    BY <1>1 DEF Repeats
  <1>3. ASSUME NEW z \in Seq(Cell), NEW q \in Positions
        PROVE  PowRepeats(schedule, <<t[s].sponge, z, prefix[s], used[s]>>, c, q)
               <=> /\ PowFine(s, native, nonce)
                   /\ Moves(<<t[s].sponge, z, prefix[s], used[s]>>, q, Header(s) \o nonce, nonce,
                            prefix[s], 1)
    BY <1>1 DEF PowRepeats, PowFine, pow_difficulty, Header, Effective
  <1>. QED
    BY <1>2, <1>3 DEF Leads, Moves, c

\* A proof of work takes the schedule's next entry.
LEMMA PowBack ==
    ASSUME IInv, IInv', FInv, NEW s \in Sides, NEW native \in Natives, NEW nonce \in Nonces,
           Calls(s, PowCall(native, nonce)), TakeEntry(s), Beside(s), Grinds(s, native, nonce)
    PROVE  Back(s)
  <1> DEFINE c == PowCall(native, nonce)
             fine == PowFine(s, native, nonce)
             cells == Header(s) \o nonce
  <1>1. c \in CallRecords /\ nonce \in Seq(Cell) /\ fine \in BOOLEAN
    BY Records DEF CallRecords, PowCall, PowFine, pow_difficulty, valid
  <1>2. /\ t[s].sponge \in Seq(Symbol) /\ t[s].narg \in Seq(Cell)
        /\ t'[s].sponge \in Seq(Symbol) /\ t'[s].narg \in Seq(Cell)
    <2>1. t[s] \in Transcripts /\ t'[s] \in Transcripts
      BY SideTypes, IInv' DEF IInv, TypeOK
    <2>. QED
      BY <2>1 DEF Transcripts
  <1>3. rest'[s] = <<>> /\ prefix'[s] = prefix[s] /\ FlattenSeq(rest'[s]) = <<>>
    BY FlattenEmpty DEF Calls, TakeEntry
  <1>4. fine => used'[s] = used[s] + 1
    BY DEF TakeEntry, PowFine, pow_difficulty, IInv, TypeOK
  <1>5. /\ After(prefix'[s], rest'[s]) = prefix[s] /\ Written(prefix'[s], rest'[s]) = <<>>
        /\ Fits(prefix'[s], rest'[s])
    BY <1>3 DEF After, Written, Fits
  <1>6. /\ t'[s].sponge \o FlattenSeq(rest'[s]) = t'[s].sponge
        /\ t'[s].narg \o Written(prefix'[s], rest'[s]) = t'[s].narg
        /\ \A z \in Seq(Cell) : Written(prefix'[s], rest'[s]) \o z = z
    <2>1. /\ \A u \in Seq(Symbol) : u \o <<>> = u
          /\ \A u \in Seq(Cell) : u \o <<>> = u /\ <<>> \o u = u
      OBVIOUS
    <2>. QED
      BY <1>2, <1>3, <1>5, <2>1, Zenon
  <1>7. Leads(s, c, fine, cells, nonce, prefix[s], 1)
    BY PowLeads
  <1> HIDE DEF c, fine, cells
  <1>8. /\ s = "prover" /\ ~failed'[s] => ~failed[s] /\ fine
        /\ \A z \in Seq(Cell) : fine /\ (s = "verifier" => t[s].narg = nonce \o z) =>
              /\ t'[s].sponge = t[s].sponge \o cells
              /\ t'[s].narg = IF s = "prover" THEN t[s].narg \o nonce ELSE z
              /\ s = "verifier" => failed'[s] = failed[s]
    BY DEF Grinds, fine, cells
  <1>9. Reaches(s, fine, cells, nonce, prefix[s], 1)
    <2>1. s = "prover" /\ ~failed'[s] => ~failed[s] /\ (Fits(prefix'[s], rest'[s]) => fine)
      BY <1>8
    <2>2. ASSUME NEW z \in Seq(Cell), fine, s = "verifier" => t[s].narg = nonce \o z
          PROVE  /\ After(prefix'[s], rest'[s]) = prefix[s] /\ used'[s] = used[s] + 1
                 /\ t'[s].sponge \o FlattenSeq(rest'[s]) = t[s].sponge \o cells
                 /\ s = "prover" =>
                       t'[s].narg \o Written(prefix'[s], rest'[s]) = t[s].narg \o nonce
                 /\ s = "verifier" => /\ failed'[s] = failed[s] /\ Fits(prefix'[s], rest'[s])
                                      /\ t'[s].narg = Written(prefix'[s], rest'[s]) \o z
      <3>1. /\ t'[s].sponge = t[s].sponge \o cells
            /\ t'[s].narg = IF s = "prover" THEN t[s].narg \o nonce ELSE z
            /\ s = "verifier" => failed'[s] = failed[s]
        BY <1>8, <2>2
      <3>. QED
        BY <1>4, <1>5, <1>6, <2>2, <3>1
    <2>. QED
      BY <2>1, <2>2 DEF Reaches
  <1>10. Calls(s, c)
    BY DEF c
  <1>. QED
    BY <1>1, <1>7, <1>9, <1>10, CallBack

\* The prover's proof of work.
LEMMA GrindBack ==
    ASSUME IInv, IInv', FInv, NEW native \in Natives, grind_pow(native)
    PROVE  Back("prover")
  <1> DEFINE s == "prover"
             ground == public_message(t[s], Header(s))
  <1>1. s \in Sides /\ TakeEntry(s)
    BY DEF Sides, grind_pow
  <1>2. /\ t[s] \in Transcripts /\ failed[s] \in BOOLEAN
        /\ t[s].sponge \in Seq(Symbol) /\ t[s].narg \in Seq(Cell)
    BY <1>1, SideTypes
  <1>3. CASE pow_difficulty(s, native)
    <2>1. PICK nonce \in find(ground.sponge, Effective(s)) :
             /\ Calls(s, PowCall(native, nonce))
             /\ Leaves(s, send_message(ground, nonce), FALSE, Header(s) \o nonce)
      BY <1>3 DEF grind_pow
    <2>2. nonce \in Nonces /\ nonce \in Seq(Cell) /\ valid(ground.sponge, nonce, Effective(s))
      BY Records DEF find
    <2>3. Header(s) \in Seq(Symbol)
      BY <1>1, <1>3, HeaderShape
    <2>4. /\ ground \in Transcripts /\ ground.sponge = t[s].sponge \o Header(s)
          /\ ground.narg = t[s].narg
      BY <1>2, <2>3, PublicShape
    <2> HIDE DEF ground
    <2>5. /\ send_message(ground, nonce).sponge = ground.sponge \o nonce
          /\ send_message(ground, nonce).narg = ground.narg \o nonce
      BY <2>4 DEF send_message, Transcripts
    <2>6. /\ t'[s] = send_message(ground, nonce) /\ failed'[s] = (failed[s] \/ FALSE)
          /\ Beside(s)
      BY <1>1, <2>1, LeavesView
    <2>7. (t[s].sponge \o Header(s)) \o nonce = t[s].sponge \o (Header(s) \o nonce)
      BY <1>2, <2>2, <2>3, CellsAreSymbols, Regroup
    <2>8. PowFine(s, native, nonce)
      BY <1>3, <2>2, <2>4 DEF PowFine
    <2>9. Grinds(s, native, nonce)
      BY <1>2, <2>4, <2>5, <2>6, <2>7, <2>8 DEF Grinds
    <2>. QED
      BY <1>1, <2>1, <2>2, <2>6, <2>9, PowBack
  <1>4. CASE ~pow_difficulty(s, native)
    <2>1. Calls(s, PowCall(native, ZeroNonce)) /\ Leaves(s, t[s], TRUE, <<>>)
      BY <1>4 DEF grind_pow
    <2>2. ZeroNonce \in Nonces
      BY TranscriptAssumption DEF ZeroNonce, Nonces
    <2>3. failed'[s] = (failed[s] \/ TRUE) /\ Beside(s)
      BY <1>1, <2>1, LeavesView
    <2>4. ~PowFine(s, native, ZeroNonce)
      BY <1>4 DEF PowFine
    <2>5. Grinds(s, native, ZeroNonce)
      BY <2>3, <2>4 DEF Grinds
    <2>. QED
      BY <1>1, <2>1, <2>2, <2>3, <2>5, PowBack
  <1>. QED
    BY <1>3, <1>4

\* The verifier's, of the nonce the hint holds.
LEMMA VerifyPowBack ==
    ASSUME IInv, IInv', FInv, NEW native \in Natives, NEW nonce \in Nonces,
           verify_pow(nonce, native)
    PROVE  Back("verifier")
  <1> DEFINE s == "verifier"
             ground == public_message(t[s], Header(s))
             noted == \/ ReadsOtherwise(s, NonceCells, nonce)
                      \/ ~valid(ground.sponge, nonce, Effective(s))
  <1>1. s \in Sides /\ TakeEntry(s) /\ Calls(s, PowCall(native, nonce))
    BY DEF Sides, verify_pow
  <1>2. /\ t[s] \in Transcripts /\ failed[s] \in BOOLEAN
        /\ t[s].sponge \in Seq(Symbol) /\ t[s].narg \in Seq(Cell)
    BY <1>1, SideTypes
  <1>3. nonce \in Seq(Cell) /\ Len(nonce) = NonceCells
    BY Records, TranscriptAssumption DEF Nonces
  <1>4. CASE /\ pow_difficulty(s, native)
             /\ Leaves(s, read_message(ground, NonceCells), noted, Header(s) \o nonce)
    <2>1. Header(s) \in Seq(Symbol)
      BY <1>1, <1>4, HeaderShape
    <2>2. /\ ground \in Transcripts /\ ground.sponge = t[s].sponge \o Header(s)
          /\ ground.narg = t[s].narg
      BY <1>2, <2>1, PublicShape
    <2>3. noted \in BOOLEAN
      OBVIOUS
    <2>4. t'[s] = read_message(ground, NonceCells) /\ failed'[s] = (failed[s] \/ noted) /\ Beside(s)
      <3> HIDE DEF ground, noted
      <3>. QED
        BY <1>1, <1>4, <2>3, LeavesView
    <2>5. (t[s].sponge \o Header(s)) \o nonce = t[s].sponge \o (Header(s) \o nonce)
      BY <1>2, <1>3, <2>1, CellsAreSymbols, Regroup
    <2>6. ASSUME NEW z \in Seq(Cell), PowFine(s, native, nonce), t[s].narg = nonce \o z
          PROVE  /\ t'[s].sponge = t[s].sponge \o (Header(s) \o nonce)
                 /\ t'[s].narg = z /\ failed'[s] = failed[s]
      <3>1. valid(ground.sponge, nonce, Effective(s))
        BY <2>2, <2>6 DEF PowFine
      <3>2. has_message(t[s], NonceCells) /\ next_message(t[s], NonceCells) = nonce
        BY <1>2, <1>3, <2>6, ReadBack
      <3>3. ~noted
        BY <3>1, <3>2 DEF ReadsOtherwise
      <3> HIDE DEF ground, noted
      <3>4. /\ read_message(ground, NonceCells).sponge = ground.sponge \o nonce
            /\ read_message(ground, NonceCells).narg = z
        <4>1. ground.narg = nonce \o z
          BY <2>2, <2>6
        <4>2. ASSUME NEW w \in Transcripts, w.narg = nonce \o z
              PROVE  /\ read_message(w, NonceCells).sponge = w.sponge \o nonce
                     /\ read_message(w, NonceCells).narg = z
          <5>1. read_message(w, Len(nonce)).sponge = w.sponge \o nonce
            BY <1>3, <4>2, ReadBack
          <5>2. read_message(w, Len(nonce)).narg = z
            BY <1>3, <4>2, ReadBack, SMTT(30)
          <5>. QED
            BY <1>3, <5>1, <5>2
        <4>. QED
          BY <2>2, <4>1, <4>2
      <3>. QED
        BY <1>2, <2>2, <2>3, <2>4, <2>5, <3>3, <3>4
    <2>7. Grinds(s, native, nonce)
      BY <2>6 DEF Grinds
    <2> HIDE DEF s
    <2>. QED
      BY <1>1, <2>4, <2>7, PowBack DEF s
  <1>5. CASE ~pow_difficulty(s, native) /\ Leaves(s, t[s], TRUE, <<>>)
    <2>1. Beside(s)
      BY <1>1, <1>5, LeavesView
    <2>2. ~PowFine(s, native, nonce)
      BY <1>5 DEF PowFine
    <2>3. Grinds(s, native, nonce)
      BY <2>2 DEF Grinds
    <2>. QED
      BY <1>1, <2>1, <2>3, PowBack
  <1>. QED
    BY <1>4, <1>5 DEF verify_pow

\* An element of a slice: the position is what it was.
LEMMA NextBack ==
    ASSUME IInv, IInv', FInv, NEW s \in Sides, SliceElement(s)
    PROVE  Back(s)
  <1>1. ASSUME s = "prover", Replayable PROVE Replayable'
    <2>1. <<>> \in Seq(Cell) /\ s # "verifier"
      BY <1>1
    <2>2. /\ ~failed'[s] => ~failed[s] /\ Fits(prefix[s], rest[s])
          /\ After(prefix'[s], rest'[s]) = After(prefix[s], rest[s])
          /\ t'[s].sponge \o FlattenSeq(rest'[s]) = t[s].sponge \o FlattenSeq(rest[s])
          /\ t'[s].narg \o Written(prefix'[s], rest'[s]) = t[s].narg \o Pended(s)
          /\ used' = used /\ trail' = trail /\ schedule' = schedule
      BY <1>1, <2>1, NextView DEF Beside
    <2>3. \A z \in Seq(Cell) : Position(s, z)' = Position(s, z)
      BY <2>2 DEF Position
    <2>4. (t[s].narg \o Pended(s))' = t[s].narg \o Pended(s)
      BY <2>2 DEF Pended
    <2>. QED
      BY <1>1, <2>2, <2>3, <2>4 DEF Replayable
  <1>2. ASSUME s = "verifier", honest, ~failed[s], Replaying PROVE Replaying' /\ ~failed'[s]
    <2>1. PICK z \in Seq(Cell) :
             /\ t[s].narg = Pended(s) \o z
             /\ Takes(Positions, Replays(schedule), Position(s, z), Ahead(Len(trail[s])), Goal)
      BY <1>2 DEF Replaying, Ahead, Goal
    <2>2. Fits(prefix[s], rest[s]) /\ Len(trail[s]) \in 0..Len(Expected)
      BY <1>2 DEF Replaying
    <2>3. /\ failed'[s] = failed[s] /\ Fits(prefix'[s], rest'[s])
          /\ After(prefix'[s], rest'[s]) = After(prefix[s], rest[s])
          /\ t'[s].sponge \o FlattenSeq(rest'[s]) = t[s].sponge \o FlattenSeq(rest[s])
          /\ t'[s].narg = Written(prefix'[s], rest'[s]) \o z
          /\ used' = used /\ trail' = trail /\ Beside(s)
      BY <1>2, <2>1, <2>2, NextView
    <2>4. Position(s, z)' = Position(s, z) /\ t'[s].narg = Pended(s)' \o z
      BY <2>3 DEF Position, Pended
    <2>5. Expected' = Expected /\ Goal' = Goal /\ schedule' = schedule
      BY <1>2, <2>3 DEF Expected, Goal, Beside, Sides
    <2>6. Ahead(Len(trail[s]))' = Ahead(Len(trail[s]))
      BY <2>3, <2>5 DEF Ahead
    <2>7. Takes(Positions, Replays(schedule), Position(s, z), Ahead(Len(trail[s])), Goal)'
      BY <2>1, <2>4, <2>5, <2>6
    <2>8. Replaying'
      BY <1>2, <2>1, <2>2, <2>3, <2>4, <2>5, <2>7 DEF Replaying, Ahead, Goal
    <2>. QED
      BY <1>2, <2>3, <2>8
  <1>. QED
    BY <1>1, <1>2 DEF Back

-----------------------------------------------------------------------------
\* All of the calls are ahead of the first, and none behind the last.
LEMMA AheadEnds ==
    ASSUME FInv
    PROVE  Ahead(0) = Expected /\ Ahead(Len(Expected)) = <<>>
  <1>1. Expected \in Seq(CallRecords) /\ Len(Expected) \in Nat
    BY ExpectedCalls
  <1>2. SubSeq(Expected, 1, Len(Expected)) = Expected
    BY <1>1, SubSeqFull
  <1>3. SubSeq(Expected, Len(Expected) + 1, Len(Expected)) = <<>>
    BY <1>1, SubSeqEmpty
  <1>. QED
    BY <1>2, <1>3 DEF Ahead

\* The draws after Flock's prover returns.
LEMMA DrawsLead ==
    ASSUME NEW u \in Seq(Symbol), NEW n \in Nat, NEW entries
    PROVE  /\ <<u, <<>>, "none", n>> \in Positions /\ <<u \o Trailing, <<>>, "none", n>> \in Positions
           /\ Takes(Positions, Replays(entries), <<u, <<>>, "none", n>>, Draws,
                    <<u \o Trailing, <<>>, "none", n>>)
  <1> DEFINE d == [op |-> "samples", count |-> BasisVars]
             e == [op |-> "sample"]
             p == <<u, <<>>, "none", n>>
             m == <<u \o Vector(BasisVars), <<>>, "none", n>>
             q == <<u \o Trailing, <<>>, "none", n>>
  <1>1. /\ d \in CallRecords /\ e \in CallRecords
        /\ <<Squeeze>> \in Seq(Symbol) /\ Vector(BasisVars) \in Seq(Symbol)
    BY Frames DEF CallRecords
  <1>2. /\ u \o Vector(BasisVars) \in Seq(Symbol)
        /\ u \o Trailing = (u \o Vector(BasisVars)) \o <<Squeeze>>
        /\ u \o Trailing \in Seq(Symbol)
    <2>1. u \o Vector(BasisVars) \in Seq(Symbol)
      BY <1>1, ConcatProperties
    <2>2. (u \o Vector(BasisVars)) \o <<Squeeze>> = u \o (Vector(BasisVars) \o <<Squeeze>>)
      BY <1>1, Regroup
    <2>3. (u \o Vector(BasisVars)) \o <<Squeeze>> \in Seq(Symbol)
      BY <1>1, <2>1, ConcatProperties
    <2>. QED
      BY <2>1, <2>2, <2>3 DEF Trailing
  <1>3. /\ <<>> \in Seq(Cell) /\ "none" \in {"label", "target", "none"} /\ <<>> = <<>> \o <<>>
        /\ n + 0 = n
    OBVIOUS
  <1>4. p \in Positions /\ m \in Positions /\ q \in Positions
    BY <1>2, <1>3 DEF Positions
  <1>5. Repeats(entries, p, d, m)
    <2>1. p[1] = u /\ p[2] = <<>> /\ p[3] = "none" /\ p[4] = n
      OBVIOUS
    <2>2. m[1] = u \o Vector(BasisVars) /\ m[2] = <<>> /\ m[3] = "none" /\ m[4] = n
      OBVIOUS
    <2>3. d.op = "samples" /\ d.count = BasisVars
      OBVIOUS
    <2> HIDE DEF p, m, d
    <2>4. Moves(p, m, Vector(d.count), <<>>, p[3], 0)
      BY <1>3, <2>1, <2>2, <2>3 DEF Moves
    <2>. QED
      BY <2>3, <2>4 DEF Repeats
  <1>6. Repeats(entries, m, e, q)
    <2>1. m[1] = u \o Vector(BasisVars) /\ m[2] = <<>> /\ m[3] = "none" /\ m[4] = n
      OBVIOUS
    <2>2. q[1] = u \o Trailing /\ q[2] = <<>> /\ q[3] = "none" /\ q[4] = n
      OBVIOUS
    <2>3. e.op = "sample"
      OBVIOUS
    <2> HIDE DEF m, q, e
    <2>4. Moves(m, q, <<Squeeze>>, <<>>, m[3], 0)
      BY <1>2, <1>3, <2>1, <2>2 DEF Moves
    <2>. QED
      BY <2>3, <2>4 DEF Repeats
  <1> HIDE DEF p, m, q, d, e
  <1>7. <<p, d, m>> \in Replays(entries) /\ <<m, e, q>> \in Replays(entries)
    BY <1>1, <1>4, <1>5, <1>6 DEF Replays
  <1>8. Takes(Positions, Replays(entries), p, <<d>>, m) /\ Takes(Positions, Replays(entries), m, <<e>>, q)
    BY <1>4, <1>7, TakesOne
  <1>9. <<d>> \in Seq(CallRecords) /\ <<e>> \in Seq(CallRecords)
    BY <1>1
  <1>10. Takes(Positions, Replays(entries), p, <<d>> \o <<e>>, q)
    BY <1>4, <1>8, <1>9, TakesJoined
  <1>11. Draws = <<d>> \o <<e>>
    BY DEF Draws, d, e
  <1>. QED
    BY <1>4, <1>10, <1>11 DEF p, q

\* The proof is handed over: the verifier has all of the calls ahead.
LEMMA HandOverAgrees ==
    ASSUME IInv, FInv, HInv, HandOver
    PROVE  HInv'
  <1> SUFFICES ASSUME honest PROVE HInv'
    BY DEF HandOver, HInv
  <1>1. /\ stage = "send" /\ rest["prover"] = <<>> /\ Fresh /\ Replayable /\ ~failed["verifier"]
        /\ UNCHANGED <<honest, schedule, failed, prefix, used, rest, trail>>
    BY DEF HandOver, HInv
  <1>2. CASE Failed("prover")
    <2>1. stage' = "aborted" /\ Fresh'
      BY <1>1, <1>2 DEF HandOver, Fresh
    <2>. QED
      BY <1>1, <2>1 DEF HInv
  <1>3. CASE ~Failed("prover")
    <2>1. PICK n \in Seq(Cell) : n = t["prover"].narg
      BY SideTypes DEF Sides
    <2> DEFINE u == t["prover"].sponge
               p == <<u, <<>>, "none", Len(schedule)>>
               q == <<u \o Trailing, <<>>, "none", Len(schedule)>>
               R == Replays(schedule)
    <2>2. /\ ~failed["prover"] /\ prefix["prover"] = "none" /\ used["prover"] = Len(schedule)
          /\ stage' = "receive"
      BY <1>3 DEF Failed, HandOver
    <2>3. /\ t["prover"] \in Transcripts /\ u \in Seq(Symbol) /\ n \in Seq(Cell)
          /\ Len(schedule) \in Nat /\ "prover" \in Sides /\ "verifier" \in Sides
      BY SideTypes DEF Sides
    <2>4. /\ n \o <<>> = n /\ <<>> \in Seq(Cell) /\ <<>> \in Seq(Symbol)
      BY <2>3
    <2>5. Takes(Positions, R, Start(n), trail["prover"], p)
      <3>1. /\ Fits(prefix["prover"], rest["prover"]) /\ n \o Pended("prover") = n
            /\ Position("prover", <<>>) = p
        BY <1>1, <2>1, <2>2, <2>3, <2>4, Settled
      <3>2. Takes(Positions, R, Start((n \o Pended("prover")) \o <<>>), trail["prover"],
                  Position("prover", <<>>))
        BY <1>1, <2>1, <2>2, <2>4, <3>1 DEF Replayable
      <3>. QED
        BY <2>4, <3>1, <3>2
    <2>6. p \in Positions /\ q \in Positions /\ Takes(Positions, R, p, Draws, q)
      BY <2>3, DrawsLead
    <2>7. Start(n) \in Positions
      BY <2>3, <2>4 DEF Start, Positions
    <2>8. Draws \in Seq(CallRecords) /\ trail["prover"] \in Seq(CallRecords) /\ Len(Expected) \in Nat
      BY ExpectedCalls
    <2> HIDE DEF u, p, q, R
    <2>9. Takes(Positions, R, Start(n), Expected, q)
      <3>1. Takes(Positions, R, Start(n), trail["prover"] \o Draws, q)
        BY <2>5, <2>6, <2>7, <2>8, TakesJoined
      <3>. QED
        BY <3>1 DEF Expected
    <2>10. t'["prover"].sponge = u \o Trailing /\ t'["verifier"] = NewVerifier(n)
      BY <2>1, <2>3 DEF HandOver, public_message, Transcripts, u
    <2>11. /\ Expected' = Expected /\ trail'["verifier"] = <<>> /\ rest'["verifier"] = <<>>
           /\ prefix'["verifier"] = "label" /\ used'["verifier"] = 0 /\ schedule' = schedule
      BY <1>1 DEF Expected, Fresh
    <2>12. /\ Fits(prefix'["verifier"], rest'["verifier"])
           /\ Written(prefix'["verifier"], rest'["verifier"]) = <<>>
           /\ After(prefix'["verifier"], rest'["verifier"]) = "label"
           /\ FlattenSeq(rest'["verifier"]) = <<>>
      BY <2>11, FlattenEmpty DEF Fits, Written, After
    <2>13. Position("verifier", n)' = Start(n)
      <3>1. t'["verifier"].sponge = <<>> /\ <<>> \o <<>> = <<>>
        BY <2>10 DEF NewVerifier
      <3>. QED
        BY <2>11, <2>12, <3>1 DEF Position, Start
    <2>14. t'["verifier"].narg = Pended("verifier")' \o n
      <3>1. t'["verifier"].narg = n /\ <<>> \o n = n
        BY <2>3, <2>10 DEF NewVerifier
      <3>. QED
        BY <2>12, <3>1 DEF Pended
    <2>15. /\ Len(trail'["verifier"]) \in 0..Len(Expected')
           /\ SubSeq(Expected', Len(trail'["verifier"]) + 1, Len(Expected')) = Expected
      <3>1. Len(<<>>) = 0 /\ SubSeq(Expected, 0 + 1, Len(Expected)) = Expected
        BY AheadEnds DEF Ahead
      <3>. QED
        BY <2>8, <2>11, <3>1
    <2>16. Takes(Positions, Replays(schedule'), Position("verifier", n)',
                 SubSeq(Expected', Len(trail'["verifier"]) + 1, Len(Expected')),
                 <<t'["prover"].sponge, <<>>, "none", Len(schedule')>>)
      BY <2>9, <2>10, <2>11, <2>13, <2>15 DEF R, q
    <2>17. Replaying'
      BY <2>12, <2>14, <2>15, <2>16 DEF Replaying
    <2>. QED
      BY <1>1, <2>2, <2>17 DEF HInv
  <1>. QED
    BY <1>2, <1>3

\* The verifier has come to the prover's position: it accepts.
LEMMA FinishAgrees ==
    ASSUME IInv, FInv, HInv, Finish
    PROVE  HInv'
  <1> SUFFICES ASSUME honest PROVE HInv'
    BY DEF Finish, HInv
  <1>1. /\ stage = "receive" /\ rest["verifier"] = <<>> /\ ~failed["verifier"] /\ Replaying
        /\ Len(trail["verifier"]) = Len(Expected)
        /\ UNCHANGED <<honest, schedule, proof, t, failed, prefix, used, rest, meant, trail>>
    BY DEF Finish, HInv
  <1>2. PICK z \in Seq(Cell) :
           /\ t["verifier"].narg = Pended("verifier") \o z
           /\ Takes(Positions, Replays(schedule), Position("verifier", z),
                    Ahead(Len(trail["verifier"])), Goal)
    BY <1>1 DEF Replaying, Ahead, Goal
  <1>3. /\ Position("verifier", z) \in Positions /\ Pended("verifier") = <<>>
        /\ Position("verifier", z) = <<t["verifier"].sponge, z, prefix["verifier"], used["verifier"]>>
    BY <1>1, Settled DEF Sides
  <1>4. Goal \in Positions /\ Ahead(Len(trail["verifier"])) = <<>>
    BY <1>1, GoalType, AheadEnds
  <1>5. Position("verifier", z) = Goal
    BY <1>2, <1>3, <1>4, TakesNone
  <1>6. /\ t["verifier"].sponge = t["prover"].sponge /\ z = <<>>
        /\ prefix["verifier"] = "none" /\ used["verifier"] = Len(schedule)
    BY <1>3, <1>5 DEF Goal
  <1>7. t["verifier"].narg = <<>>
    BY <1>2, <1>3, <1>6
  <1>8. ~Failed("verifier") /\ check_eof(t["verifier"])
    BY <1>1, <1>6, <1>7 DEF Failed, check_eof
  <1>9. stage' = "accepted"
    BY <1>8 DEF Finish
  <1>. QED
    BY <1>1, <1>6, <1>9 DEF HInv

\* A step of one side and nothing of the other.
Apart(s) ==
    /\ Beside(s)
    /\ \A r \in Sides \ {s} : /\ prefix'[r] = prefix[r] /\ used'[r] = used[r]
                              /\ rest'[r] = rest[r] /\ trail'[r] = trail[r]

\* When a side may take a step.
InTurn(s) == IF s = "prover" THEN stage \in {"send", "aborted"} ELSE stage = "receive"

\* A call changes one side's transcript, flag and trail.
LEMMA CallsApart ==
    ASSUME IInv, FInv, NEW s \in Sides, NEW c, Calls(s, c),
           NEW w, NEW e, NEW cells, Leaves(s, w, e, cells),
           \A r \in Sides \ {s} : prefix'[r] = prefix[r] /\ used'[r] = used[r] /\ rest'[r] = rest[r]
    PROVE  Apart(s)
  <1>1. Beside(s)
    BY DEF Leaves, Beside, IInv, TypeOK
  <1>2. \A r \in Sides \ {s} : trail'[r] = trail[r]
    BY DEF Calls, FInv
  <1>. QED
    BY <1>1, <1>2 DEF Apart

\* An element is absorbed or exchanged by one side.
LEMMA ElementApart ==
    ASSUME IInv, NEW s \in Sides, NEW x, Element(s, x)
    PROVE  /\ \E w, e, cells : Leaves(s, w, e, cells)
           /\ \A r \in Sides \ {s} : prefix'[r] = prefix[r]
  <1>1. CASE Leaves(s, public_message(t[s], x), WrongTarget(s, x), x)
             /\ prefix' = [prefix EXCEPT ![s] = "none"]
    BY <1>1 DEF IInv, TypeOK
  <1>2. CASE Exchange(s, x) /\ UNCHANGED prefix
    BY <1>2 DEF Exchange
  <1>. QED
    BY <1>1, <1>2 DEF Element

\* What Flock observes and draws.
LEMMA ObservesApart ==
    ASSUME IInv, FInv, NEW s \in Sides, Observes(s)
    PROVE  Apart(s)
  <1>1. ASSUME NEW l \in Labels, observe_label(s, l) PROVE Apart(s)
    <2>1. \A r \in Sides \ {s} : prefix'[r] = prefix[r] /\ used'[r] = used[r] /\ rest'[r] = rest[r]
      BY <1>1 DEF observe_label, IInv, TypeOK
    <2>2. /\ Calls(s, [op |-> "label", label |-> l])
          /\ Leaves(s, public_message(t[s], l), prefix[s] = "label" /\ l # BasisLabel, l)
      BY <1>1 DEF observe_label
    <2>. QED
      BY <2>1, <2>2, CallsApart
  <1>2. ASSUME NEW x \in Values, observe_f128(s, x) PROVE Apart(s)
    <2>1. Calls(s, [op |-> "f128", value |-> x]) /\ Element(s, x) /\ UNCHANGED <<used, rest>>
      BY <1>2 DEF observe_f128
    <2>2. PICK w, e, cells : Leaves(s, w, e, cells)
      BY <2>1, ElementApart
    <2>3. \A r \in Sides \ {s} : prefix'[r] = prefix[r] /\ used'[r] = used[r] /\ rest'[r] = rest[r]
      BY <2>1, ElementApart
    <2>. QED
      BY <2>1, <2>2, <2>3, CallsApart
  <1>3. ASSUME NEW xs \in Slices, observe_f128_slice(s, xs) PROVE Apart(s)
    <2>1. /\ Calls(s, [op |-> "slice", values |-> xs]) /\ Exchange(s, <<Len(xs)>>)
          /\ rest' = [rest EXCEPT ![s] = xs] /\ UNCHANGED <<prefix, used>>
      BY <1>3 DEF observe_f128_slice
    <2>2. PICK w, e, cells : Leaves(s, w, e, cells)
      BY <2>1 DEF Exchange
    <2>3. \A r \in Sides \ {s} : prefix'[r] = prefix[r] /\ used'[r] = used[r] /\ rest'[r] = rest[r]
      BY <2>1 DEF IInv, TypeOK
    <2>. QED
      BY <2>1, <2>2, <2>3, CallsApart
  <1>4. ASSUME SliceElement(s) PROVE Apart(s)
    <2>1. /\ rest[s] # <<>> /\ Element(s, Head(rest[s])) /\ rest' = [rest EXCEPT ![s] = Tail(@)]
          /\ UNCHANGED <<used, trail>>
      BY <1>4 DEF SliceElement
    <2>2. PICK w, e, cells : Leaves(s, w, e, cells)
      BY <2>1, ElementApart
    <2>3. Beside(s)
      BY <2>2 DEF Leaves, Beside, IInv, TypeOK
    <2>4. \A r \in Sides \ {s} : prefix'[r] = prefix[r] /\ used'[r] = used[r]
                                 /\ rest'[r] = rest[r] /\ trail'[r] = trail[r]
      BY <2>1, ElementApart DEF IInv, TypeOK
    <2>. QED
      BY <2>3, <2>4 DEF Apart
  <1>5. ASSUME NEW b \in Strings, observe_bytes(s, b) PROVE Apart(s)
    <2>1. Calls(s, [op |-> "bytes", bytes |-> b]) /\ UNCHANGED <<prefix, used, rest>>
      BY <1>5 DEF observe_bytes
    <2>2. PICK w, e, cells : Leaves(s, w, e, cells)
      BY <1>5 DEF observe_bytes
    <2>. QED
      BY <2>1, <2>2, CallsApart
  <1>6. ASSUME sample_f128(s) PROVE Apart(s)
    <2>1. /\ Calls(s, [op |-> "sample"]) /\ UNCHANGED <<prefix, used, rest>>
          /\ Leaves(s, verifier_message(t[s]), FALSE, <<Squeeze>>)
      BY <1>6 DEF sample_f128
    <2>. QED
      BY <2>1, CallsApart
  <1>7. ASSUME sample_f128_vec(s, BasisVars) PROVE Apart(s)
    <2>1. /\ Calls(s, [op |-> "samples", count |-> BasisVars]) /\ UNCHANGED <<prefix, used, rest>>
          /\ Leaves(s, public_message(t[s], Vector(BasisVars)), FALSE, Vector(BasisVars))
      BY <1>7 DEF sample_f128_vec
    <2>. QED
      BY <2>1, CallsApart
  <1>. QED
    BY <1>1, <1>2, <1>3, <1>4, <1>5, <1>6, <1>7 DEF Observes

\* Calls are made in the side's turn; a slice is begun in it and done in it.
LEMMA ObservesInTurn ==
    ASSUME IInv, FInv, HInv, honest, NEW s \in Sides, Observes(s)
    PROVE  InTurn(s)
  <1>1. CASE rest[s] = <<>>
    <2>1. PICK c : Calls(s, c)
      BY <1>1 DEF Observes, observe_label, observe_f128, observe_f128_slice, SliceElement,
         observe_bytes, sample_f128, sample_f128_vec
    <2>. QED
      BY <2>1 DEF Calls, InTurn
  <1>2. CASE rest[s] # <<>>
    <2>1. ~Returned(s)
      BY <1>2 DEF FInv
    <2>. QED
      BY <1>2, <2>1 DEF InTurn, Returned, HInv, Fresh, IInv, TypeOK, Sides
  <1>. QED
    BY <1>1, <1>2

\* The proofs of work.
LEMMA PowApart ==
    ASSUME IInv, FInv, NEW native \in Natives
    PROVE  /\ grind_pow(native) => Apart("prover") /\ InTurn("prover")
           /\ \A nonce \in Nonces :
                 verify_pow(nonce, native) => Apart("verifier") /\ InTurn("verifier")
  <1>1. ASSUME NEW s \in Sides, TakeEntry(s)
        PROVE  \A r \in Sides \ {s} : prefix'[r] = prefix[r] /\ used'[r] = used[r] /\ rest'[r] = rest[r]
    BY <1>1 DEF TakeEntry, IInv, TypeOK
  <1>2. ASSUME grind_pow(native) PROVE Apart("prover") /\ InTurn("prover")
    <2>1. "prover" \in Sides /\ TakeEntry("prover")
      BY <1>2 DEF grind_pow, Sides
    <2>2. PICK c, w, e, cells : Calls("prover", c) /\ Leaves("prover", w, e, cells)
      BY <1>2 DEF grind_pow
    <2>. QED
      BY <1>1, <2>1, <2>2, CallsApart DEF Calls, InTurn
  <1>3. ASSUME NEW nonce \in Nonces, verify_pow(nonce, native)
        PROVE  Apart("verifier") /\ InTurn("verifier")
    <2>1. /\ "verifier" \in Sides /\ TakeEntry("verifier")
          /\ Calls("verifier", PowCall(native, nonce))
      BY <1>3 DEF verify_pow, Sides
    <2>2. PICK w, e, cells : Leaves("verifier", w, e, cells)
      BY <1>3 DEF verify_pow
    <2>. QED
      BY <1>1, <2>1, <2>2, CallsApart DEF Calls, InTurn
  <1>. QED
    BY <1>2, <1>3

\* A step of one side in its turn keeps what the other side rests on.
LEMMA SideAgrees ==
    ASSUME HInv, honest, NEW s \in Sides, Apart(s), InTurn(s), Back(s)
    PROVE  HInv'
  <1>1. CASE s = "prover"
    <2>1. /\ stage \in {"send", "aborted"} /\ stage' = stage /\ Fresh
          /\ failed'["verifier"] = failed["verifier"]
          /\ prefix'["verifier"] = prefix["verifier"] /\ used'["verifier"] = used["verifier"]
          /\ rest'["verifier"] = rest["verifier"] /\ trail'["verifier"] = trail["verifier"]
      BY <1>1 DEF Apart, InTurn, Beside, Sides, HInv
    <2>2. Fresh'
      BY <2>1 DEF Fresh
    <2>3. stage' = "send" => Replayable'
      BY <1>1, <2>1 DEF HInv, Back
    <2>. QED
      BY <2>1, <2>2, <2>3 DEF HInv
  <1>2. CASE s = "verifier"
    <2>1. stage = "receive" /\ stage' = stage /\ ~failed["verifier"] /\ Replaying
      BY <1>2 DEF Apart, InTurn, Beside, HInv
    <2>2. Replaying' /\ ~failed'["verifier"]
      BY <1>2, <2>1 DEF Back
    <2>. QED
      BY <2>1, <2>2 DEF HInv
  <1>. QED
    BY <1>1, <1>2 DEF Sides

-----------------------------------------------------------------------------
\* No call is made: a verifier is where the prover is.
LEMMA InitAgrees == Init => HInv
  <1> SUFFICES ASSUME Init, honest PROVE HInv
    BY DEF HInv
  <1>1. /\ stage = "send" /\ "prover" \in Sides /\ "verifier" \in Sides
        /\ t["prover"] = NewProver
        /\ \A s \in Sides : /\ trail[s] = <<>> /\ rest[s] = <<>> /\ prefix[s] = "label"
                            /\ used[s] = 0 /\ ~failed[s]
    BY DEF Init, Sides
  <1>2. Fresh
    BY <1>1 DEF Fresh
  <1>3. /\ t["prover"].narg = <<>> /\ Pended("prover") = <<>>
        /\ \A z \in Seq(Cell) : Position("prover", z) = Start(z)
    <2>1. t["prover"].narg = <<>> /\ t["prover"].sponge = <<>> /\ <<>> \o <<>> = <<>>
      BY <1>1 DEF NewProver
    <2>2. /\ FlattenSeq(rest["prover"]) = <<>>
          /\ After(prefix["prover"], rest["prover"]) = "label"
          /\ Written(prefix["prover"], rest["prover"]) = <<>>
      BY <1>1, FlattenEmpty DEF After, Written
    <2>. QED
      BY <1>1, <2>1, <2>2 DEF Position, Pended, Start
  <1>4. Replayable
    <2>1. ASSUME NEW z \in Seq(Cell)
          PROVE  Takes(Positions, Replays(schedule), Start((t["prover"].narg \o Pended("prover")) \o z),
                       trail["prover"], Position("prover", z))
      <3>1. (t["prover"].narg \o Pended("prover")) \o z = z
        <4>1. <<>> \o <<>> = <<>> /\ <<>> \o z = z
          OBVIOUS
        <4>. QED
          BY <1>3, <4>1
      <3>2. Start(z) \in Positions
        <4>1. <<>> \in Seq(Symbol) /\ "label" \in {"label", "target", "none"} /\ 0 \in Nat
          OBVIOUS
        <4>. QED
          BY <4>1 DEF Start, Positions
      <3>3. Takes(Positions, Replays(schedule), Start(z), <<>>, Start(z))
        BY <3>2, TakesNone
      <3>. QED
        BY <1>1, <1>3, <3>1, <3>3
    <2>. QED
      BY <2>1 DEF Replayable
  <1>. QED
    BY <1>1, <1>2, <1>4 DEF HInv

\* Every step keeps an honest verifier on its way.
LEMMA StepAgrees ==
    ASSUME \A b \in Strings : Len(b) <= MaxObserved,
           IInv, IInv', FInv, HInv, [Next]_vars
    PROVE  HInv'
  <1>1. ASSUME honest' PROVE honest
    <2>1. ASSUME NEW s, NEW w, NEW e, NEW cells, Leaves(s, w, e, cells) PROVE honest' = honest
      BY <2>1 DEF Leaves
    <2>2. ASSUME NEW s, NEW x, Exchange(s, x) \/ Element(s, x) PROVE honest' = honest
      BY <2>1, <2>2 DEF Element, Exchange
    <2>3. ASSUME NEW s \in Sides, Observes(s) PROVE honest' = honest
      BY <2>1, <2>2, <2>3 DEF Observes, observe_label, observe_f128, observe_f128_slice,
         SliceElement, observe_bytes, sample_f128, sample_f128_vec
    <2>4. ASSUME NEW native \in Natives, NEW nonce, grind_pow(native) \/ verify_pow(nonce, native)
          PROVE  honest' = honest
      BY <2>1, <2>4 DEF grind_pow, verify_pow
    <2>5. HandOver \/ Finish \/ UNCHANGED vars => honest' = honest
      BY DEF HandOver, Finish, vars
    <2>. QED
      BY <1>1, <2>3, <2>4, <2>5 DEF Next
  <1>2. CASE ~honest
    BY <1>1, <1>2 DEF HInv
  <1>3. CASE honest
    <2>1. ASSUME NEW s \in Sides, Observes(s) PROVE HInv'
      <3>1. Back(s)
        BY <2>1, LabelBack, F128Back, SliceBack, NextBack, BytesBack, SampleBack DEF Observes
      <3>. QED
        BY <1>3, <2>1, <3>1, ObservesApart, ObservesInTurn, SideAgrees
    <2>2. ASSUME NEW native \in Natives, grind_pow(native) PROVE HInv'
      BY <1>3, <2>2, GrindBack, PowApart, SideAgrees DEF Sides
    <2>3. ASSUME NEW native \in Natives, NEW nonce \in Nonces, verify_pow(nonce, native)
          PROVE  HInv'
      BY <1>3, <2>3, VerifyPowBack, PowApart, SideAgrees DEF Sides
    <2>4. CASE HandOver
      BY <2>4, HandOverAgrees
    <2>5. CASE Finish
      BY <2>5, FinishAgrees
    <2>6. CASE UNCHANGED vars
      <3>1. Expected' = Expected
        BY <2>6 DEF vars, Expected
      <3>2. \A s \in Sides : Pended(s)' = Pended(s)
        BY <2>6 DEF vars, Pended
      <3>. QED
        BY <2>6 DEF vars, HInv, Fresh, Replayable, Replaying, Pended, Position, Expected
    <2>. QED
      BY <2>1, <2>2, <2>3, <2>4, <2>5, <2>6 DEF Next
  <1>. QED
    BY <1>2, <1>3

\* A verifier that is given the prover's proof as it is accepts it: nothing is
\* noted on the way, the stream is read to its end, and both sides leave the
\* opening with one sponge, so the protocols that follow draw the same
\* challenges.  The prover's adapter takes strings of any length and the
\* verifier's reads back at most MAX_OBSERVED_BYTES: no string is longer.
THEOREM HonestAgreement ==
    ASSUME \A b \in Strings : Len(b) <= MaxObserved
    PROVE  Spec => []HonestAgree
  <1> DEFINE Inv == IInv /\ FInv /\ HInv
  <1>1. Inv => HonestAgree
    BY DEF HInv, HonestAgree
  <1>2. Init => Inv
    BY InitHolds, InitFollows, InitAgrees
  <1>3. Inv /\ [Next]_vars => Inv'
    <2> SUFFICES ASSUME Inv, [Next]_vars PROVE Inv'
      OBVIOUS
    <2>1. IInv' /\ FInv'
      BY StepKeeps, StepFollows
    <2>2. HInv'
      BY <2>1, StepAgrees
    <2>. QED
      BY <2>1, <2>2
  <1> HIDE DEF Inv
  <1>. QED
    BY <1>1, <1>2, <1>3, PTL DEF Spec

-----------------------------------------------------------------------------
(***************************************************************************)
(* AcceptedIsCanonical.  What the verifier has read, with what is left of  *)
(* the slice it observes, is what its calls write; what it has read, with  *)
(* what is left of the stream, is the proof.                               *)
(***************************************************************************)
CellsOf(calls) == [k \in DOMAIN calls |-> Cells(calls, k)]

\* The cells of a call made where this is expected.
CallCells(expected, c) ==
    CASE c.op = "bytes" -> Prefixed(c.bytes)
      [] c.op = "pow" -> c.nonce
      [] c.op = "slice" -> <<Len(c.values)>> \o Written(expected, Elems(c))
      [] OTHER -> Written(expected, Elems(c))

CInv ==
    /\ stage = "send" => trail["verifier"] = <<>> /\ rest["verifier"] = <<>>
    /\ stage = "accepted" => t["verifier"].narg = <<>>
    /\ ~failed["verifier"] =>
          /\ CellsOf(trail["verifier"]) \in Seq(Seq(Cell))
          /\ \E read \in Seq(Cell) :
                /\ proof = read \o t["verifier"].narg
                /\ read \o Pended("verifier") = FlattenSeq(CellsOf(trail["verifier"]))

\* The last of the calls carries the first element if one was expected.
LEMMA FirstIsExpected ==
    ASSUME NEW calls \in Seq(CallRecords), NEW c \in CallRecords, NEW entries, NEW n,
           NEW e \in {"label", "target", "none"}, Followed(calls, entries, n, e, <<>>)
    PROVE  /\ \A k \in DOMAIN calls : k \in First(Append(calls, c)) <=> k \in First(calls)
           /\ Len(calls) + 1 \in First(Append(calls, c)) <=> Elems(c) # <<>> /\ e # "none"
  <1> DEFINE new == Append(calls, c)
             last == Len(calls) + 1
  <1>1. /\ Len(calls) \in Nat /\ DOMAIN calls = 1..Len(calls) /\ DOMAIN new = 1..last
        /\ \A i \in DOMAIN calls : new[i] = calls[i]
        /\ new[last] = c
    BY AppendShape
  <1> HIDE DEF new
  <1>2. \A k \in DOMAIN calls : k \in First(new) <=> k \in First(calls)
    <2>1. \A k \in DOMAIN calls : k \in DOMAIN new /\ 1..k-1 \subseteq DOMAIN calls
      BY <1>1
    <2>. QED
      BY <1>1, <2>1 DEF First
  <1>3. last \in First(new) <=> Elems(c) # <<>> /\ Bare(calls)
    <2>1. last \in DOMAIN new /\ 1..last-1 = DOMAIN calls
      BY <1>1
    <2>. QED
      BY <1>1, <2>1 DEF First, Bare
  <1>4. Bare(calls) <=> e # "none"
    <2>1. ASSUME e = "none" PROVE ~Bare(calls)
      <3>1. \E k \in First(calls) : TRUE
        BY <2>1 DEF Followed, TargetFirst
      <3>. QED
        BY <3>1 DEF First, Bare
    <2>. QED
      BY <2>1 DEF Followed
  <1>. QED
    BY <1>2, <1>3, <1>4 DEF new

\* A call adds its cells behind those of the calls before it.
LEMMA CellsAppended ==
    ASSUME NEW calls \in Seq(CallRecords), NEW c \in CallRecords, NEW entries, NEW n,
           NEW e \in {"label", "target", "none"}, Followed(calls, entries, n, e, <<>>),
           CellsOf(calls) \in Seq(Seq(Cell)), CallCells(e, c) \in Seq(Cell)
    PROVE  CellsOf(Append(calls, c)) = Append(CellsOf(calls), CallCells(e, c))
  <1> DEFINE new == Append(calls, c)
             last == Len(calls) + 1
             both == Append(CellsOf(calls), CallCells(e, c))
  <1>1. /\ Len(calls) \in Nat /\ DOMAIN calls = 1..Len(calls) /\ DOMAIN new = 1..last
        /\ \A i \in DOMAIN calls : new[i] = calls[i]
        /\ new[last] = c
    BY AppendShape
  <1>2. /\ \A k \in DOMAIN calls : k \in First(new) <=> k \in First(calls)
        /\ last \in First(new) <=> Elems(c) # <<>> /\ e # "none"
    BY FirstIsExpected
  <1> HIDE DEF new
  <1>3. ASSUME NEW k \in DOMAIN calls PROVE Cells(new, k) = CellsOf(calls)[k]
    <2>1. Cells(new, k) = Cells(calls, k)
      BY <1>1, <1>2, Zenon DEF Cells
    <2>. QED
      BY <2>1 DEF CellsOf
  <1>4. Cells(new, last) = CallCells(e, c)
    <2> DEFINE taken == IF last \in First(new) THEN Tail(Elems(c)) ELSE Elems(c)
    <2>1. FlattenSeq(taken) = Written(e, Elems(c))
      BY <1>2 DEF Written
    <2>2. Cells(new, last) = CASE c.op = "bytes" -> Prefixed(c.bytes)
                               [] c.op = "pow" -> c.nonce
                               [] c.op = "slice" -> <<Len(c.values)>> \o FlattenSeq(taken)
                               [] OTHER -> FlattenSeq(taken)
      BY <1>1, Zenon DEF Cells
    <2> HIDE DEF taken
    <2>. QED
      BY <2>1, <2>2, Zenon DEF CallCells
  <1>5. /\ Len(CellsOf(calls)) = Len(calls) /\ both \in Seq(Seq(Cell)) /\ Len(both) = last
        /\ \A k \in 1..Len(calls) : both[k] = CellsOf(calls)[k]
        /\ both[last] = CallCells(e, c)
    <2>1. DOMAIN CellsOf(calls) = 1..Len(calls)
      BY <1>1 DEF CellsOf
    <2>2. Len(CellsOf(calls)) = Len(calls)
      BY <1>1, <2>1
    <2> HIDE DEF last
    <2>. QED
      BY <2>2, AppendProperties DEF last
  <1>6. \A k \in 1..last : Cells(new, k) = both[k]
    <2>1. \A k \in 1..last : k \in 1..Len(calls) \/ k = last
      BY <1>1
    <2>. QED
      BY <1>1, <1>3, <1>4, <1>5, <2>1
  <1> HIDE DEF both
  <1>7. both = [k \in 1..last |-> both[k]]
    <2>1. both \in [1..last -> Seq(Cell)]
      BY <1>5, LenProperties
    <2>. QED
      BY <2>1
  <1>8. CellsOf(new) = [k \in 1..last |-> both[k]]
    BY <1>1, <1>6 DEF CellsOf
  <1>. QED
    BY <1>7, <1>8 DEF new, both

\* What is read and what is left are the stream.
LEMMA Unread ==
    ASSUME NEW w \in Transcripts, NEW n \in Nat, has_message(w, n)
    PROVE  w.narg = next_message(w, n) \o read_message(w, n).narg
  <1>1. /\ w.narg \in Seq(Cell) /\ Len(w.narg) \in Nat /\ 1 \in 1 .. Len(w.narg) + 1
        /\ n \in 0 .. Len(w.narg) /\ Len(w.narg) \in n .. Len(w.narg)
    BY LenProperties DEF Transcripts, has_message
  <1>2. SubSeq(w.narg, 1, n) \o SubSeq(w.narg, n + 1, Len(w.narg)) = SubSeq(w.narg, 1, Len(w.narg))
    <2>1. n \in 1 - 1 .. Len(w.narg)
      BY <1>1
    <2>. QED
      BY <1>1, <2>1, ConcatAdjacentSubSeq
  <1>3. SubSeq(w.narg, 1, Len(w.narg)) = w.narg
    BY <1>1, SubSeqFull
  <1>4. read_message(w, n).narg = SubSeq(w.narg, n + 1, Len(w.narg))
    BY DEF read_message, Transcripts
  <1>. QED
    BY <1>2, <1>3, <1>4 DEF next_message

\* A record read with nothing to note is the value.
LEMMA ExchangeRead ==
    ASSUME IInv, NEW x \in Seq(Cell), Exchange("verifier", x), ~failed'["verifier"]
    PROVE  ~failed["verifier"] /\ t["verifier"].narg = x \o t'["verifier"].narg
  <1> DEFINE s == "verifier"
             w == read_message(t[s], Len(x))
             b == ReadsOtherwise(s, Len(x), x)
  <1>1. s \in Sides /\ t[s] \in Transcripts /\ failed[s] \in BOOLEAN /\ Len(x) \in Nat
    BY SideTypes, LenProperties DEF Sides
  <1>2. Leaves(s, w, b, x) /\ b \in BOOLEAN
    BY DEF Exchange, ReadsOtherwise
  <1> HIDE DEF w, b
  <1>3. t'[s] = w /\ failed'[s] = (failed[s] \/ b)
    BY <1>1, <1>2, LeavesView
  <1>4. ~failed[s] /\ ~b
    BY <1>1, <1>2, <1>3
  <1>5. has_message(t[s], Len(x)) /\ next_message(t[s], Len(x)) = x
    BY <1>4 DEF b, ReadsOtherwise
  <1>6. t[s].narg = x \o w.narg
    BY <1>1, <1>5, Unread DEF w
  <1>. QED
    BY <1>3, <1>4, <1>6

\* An element is read unless it is the target, which is public.
LEMMA ElementRead ==
    ASSUME IInv, NEW x \in Values, Element("verifier", x), ~failed'["verifier"]
    PROVE  /\ ~failed["verifier"] /\ prefix'["verifier"] = "none"
           /\ t["verifier"].narg = Carried(prefix["verifier"], x) \o t'["verifier"].narg
  <1> DEFINE s == "verifier"
  <1>1. /\ s \in Sides /\ t[s] \in Transcripts /\ failed[s] \in BOOLEAN /\ t[s].narg \in Seq(Cell)
        /\ x \in Seq(Cell) /\ x \in Seq(Symbol)
    BY SideTypes, Records, CellsAreSymbols, ChallengerAssumption DEF Sides
  <1>2. CASE /\ prefix[s] # "none"
             /\ Leaves(s, public_message(t[s], x), WrongTarget(s, x), x)
             /\ prefix' = [prefix EXCEPT ![s] = "none"]
    <2>1. WrongTarget(s, x) \in BOOLEAN
      BY DEF WrongTarget
    <2>2. t'[s] = public_message(t[s], x) /\ failed'[s] = (failed[s] \/ WrongTarget(s, x))
      BY <1>1, <1>2, <2>1, LeavesView
    <2>3. ~failed[s] /\ t'[s].narg = t[s].narg
      BY <1>1, <2>1, <2>2, PublicShape
    <2>4. <<>> \o t[s].narg = t[s].narg
      BY <1>1
    <2>5. prefix'[s] = "none"
      BY <1>1, <1>2 DEF IInv, TypeOK
    <2>. QED
      BY <1>2, <2>3, <2>4, <2>5 DEF Carried
  <1>3. CASE prefix[s] = "none" /\ Exchange(s, x) /\ UNCHANGED prefix
    BY <1>1, <1>3, ExchangeRead DEF Carried
  <1>. QED
    BY <1>2, <1>3 DEF Element

\* A call of the verifier that reads just its cells, the rest of a slice aside.
LEMMA CallRead ==
    ASSUME IInv, IInv', FInv, CInv, NEW c \in CallRecords, Calls("verifier", c), Beside("verifier"),
           NEW w \in Seq(Cell),
           ~failed'["verifier"] =>
              /\ ~failed["verifier"] /\ t["verifier"].narg = w \o t'["verifier"].narg
              /\ CallCells(prefix["verifier"], c)
                    = w \o Written(prefix'["verifier"], rest'["verifier"])
    PROVE  CInv'
  <1> DEFINE s == "verifier"
  <1>1. /\ stage = "receive" /\ stage' = stage /\ proof' = proof /\ s \in Sides
    BY DEF Calls, Beside, Sides
  <1>2. /\ rest[s] = <<>> /\ trail[s] \in Seq(CallRecords) /\ trail'[s] = Append(trail[s], c)
    BY <1>1, CallMade
  <1>3. /\ Pended(s) = <<>> /\ t[s].narg \in Seq(Cell) /\ prefix[s] \in {"label", "target", "none"}
    BY <1>1, <1>2, Settled, SideTypes
  <1>4. t'[s].narg \in Seq(Cell) /\ Written(prefix'[s], rest'[s]) \in Seq(Cell)
    <2>1. /\ t'[s] \in Transcripts /\ prefix'[s] \in {"label", "target", "none"}
          /\ rest'[s] \in Seq(Values)
      BY <1>1, IInv' DEF IInv, TypeOK
    <2>2. FlattenSeq(rest'[s]) \in Seq(Cell)
      BY <2>1, Flattened
    <2>3. rest'[s] # <<>> => FlattenSeq(Tail(rest'[s])) \in Seq(Cell)
      BY <2>1, Flattened
    <2>. QED
      BY <2>1, <2>2, <2>3 DEF Transcripts, Written
  <1>5. ASSUME ~failed'[s]
        PROVE  /\ CellsOf(trail'[s]) \in Seq(Seq(Cell))
               /\ \E read \in Seq(Cell) :
                     /\ proof' = read \o t'[s].narg
                     /\ read \o Written(prefix'[s], rest'[s]) = FlattenSeq(CellsOf(trail'[s]))
    <2> DEFINE more == Written(prefix'[s], rest'[s])
               left == t'[s].narg
               cells == CallCells(prefix[s], c)
    <2>1. ~failed[s] /\ t[s].narg = w \o left /\ cells = w \o more
      BY <1>5
    <2>2. PICK read \in Seq(Cell) :
             proof = read \o t[s].narg /\ read \o <<>> = FlattenSeq(CellsOf(trail[s]))
      BY <1>3, <2>1 DEF CInv
    <2>3. read \o <<>> = read
      OBVIOUS
    <2>4. CellsOf(trail[s]) \in Seq(Seq(Cell)) /\ Followed(trail[s], schedule, used[s], prefix[s], <<>>)
      BY <1>1, <1>2, <2>1 DEF CInv, FInv
    <2>5. cells \in Seq(Cell)
      BY <1>4, <2>1, RegroupCells
    <2>6. CellsOf(trail'[s]) = Append(CellsOf(trail[s]), cells)
      BY <1>2, <1>3, <2>4, <2>5, CellsAppended
    <2> HIDE DEF more, left, cells
    <2>7. /\ CellsOf(trail'[s]) \in Seq(Seq(Cell))
          /\ FlattenSeq(CellsOf(trail'[s])) = read \o cells
      <3>1. Append(CellsOf(trail[s]), cells) \in Seq(Seq(Cell))
        BY <2>4, <2>5, AppendProperties
      <3>2. FlattenSeq(Append(CellsOf(trail[s]), cells)) = FlattenSeq(CellsOf(trail[s])) \o cells
        BY <2>4, <2>5, FlattenAppend
      <3>. QED
        BY <2>2, <2>3, <2>6, <3>1, <3>2
    <2>8. \A a, b, e \in Seq(Cell) : (a \o b) \o e = a \o (b \o e)
      BY RegroupCells, SMTT(30)
    <2>9. left \in Seq(Cell) /\ more \in Seq(Cell) /\ read \o w \in Seq(Cell)
      BY <1>4, RegroupCells DEF left, more
    <2>10. (read \o w) \o left = read \o (w \o left) /\ (read \o w) \o more = read \o (w \o more)
      BY <2>8, <2>9, Zenon
    <2>11. proof' = (read \o w) \o left /\ (read \o w) \o more = FlattenSeq(CellsOf(trail'[s]))
      BY <1>1, <2>1, <2>2, <2>7, <2>10
    <2>. QED
      BY <2>7, <2>9, <2>11 DEF left, more
  <1>. QED
    BY <1>1, <1>5 DEF CInv, Pended

\* Nothing is read for a label or a draw.
LEMMA PublicRead ==
    ASSUME IInv, IInv', FInv, CInv, NEW c \in CallRecords, Calls("verifier", c),
           c.op \in {"label", "sample", "samples"},
           NEW cells \in Seq(Symbol), NEW b \in BOOLEAN,
           Leaves("verifier", public_message(t["verifier"], cells), b, cells), UNCHANGED rest
    PROVE  CInv'
  <1> DEFINE s == "verifier"
  <1>1. s \in Sides /\ t[s] \in Transcripts /\ failed[s] \in BOOLEAN /\ t[s].narg \in Seq(Cell)
    BY SideTypes DEF Sides
  <1>2. t'[s] = public_message(t[s], cells) /\ failed'[s] = (failed[s] \/ b) /\ Beside(s)
    BY <1>1, LeavesView
  <1>3. t'[s].narg = t[s].narg
    BY <1>1, <1>2, PublicShape
  <1>4. Written(prefix'[s], rest'[s]) = <<>> /\ Written(prefix[s], <<>>) = <<>>
    BY FlattenEmpty DEF Written, Calls
  <1>5. CallCells(prefix[s], c) = <<>>
    <2>1. Elems(c) = <<>>
      BY Zenon DEF Elems
    <2>2. CallCells(prefix[s], c) = Written(prefix[s], Elems(c))
      BY Zenon DEF CallCells
    <2>. QED
      BY <1>4, <2>1, <2>2
  <1>6. <<>> \o <<>> = <<>> /\ <<>> \in Seq(Cell) /\ <<>> \o t[s].narg = t[s].narg
    BY <1>1
  <1>7. ~failed'[s] =>
           /\ ~failed[s] /\ t[s].narg = <<>> \o t'[s].narg
           /\ CallCells(prefix[s], c) = <<>> \o Written(prefix'[s], rest'[s])
    BY <1>1, <1>2, <1>3, <1>4, <1>5, <1>6
  <1> HIDE DEF s
  <1>. QED
    BY <1>2, <1>6, <1>7, CallRead DEF s

\* An element.
LEMMA F128Read ==
    ASSUME IInv, IInv', FInv, CInv, Beside("verifier"), NEW x \in Values, observe_f128("verifier", x)
    PROVE  CInv'
  <1> DEFINE s == "verifier"
             c == [op |-> "f128", value |-> x]
             w == Carried(prefix[s], x)
  <1>1. Calls(s, c) /\ Element(s, x) /\ UNCHANGED rest
    BY DEF observe_f128
  <1>2. c \in CallRecords /\ x \in Seq(Cell) /\ w \in Seq(Cell)
    BY Records, ChallengerAssumption DEF CallRecords, Carried
  <1>3. Written(prefix'[s], rest'[s]) = <<>>
    BY <1>1, FlattenEmpty DEF Written, Calls
  <1>4. CallCells(prefix[s], c) = w
    <2>1. Elems(c) = <<x>> /\ CallCells(prefix[s], c) = Written(prefix[s], Elems(c))
      BY Zenon DEF Elems, CallCells
    <2>2. <<x>> # <<>> /\ Head(<<x>>) = x /\ Tail(<<x>>) = <<>> /\ <<x>> \in Seq(Values)
      OBVIOUS
    <2>3. FlattenSeq(<<x>>) = x \o FlattenSeq(<<>>)
      BY <2>2, Flattened
    <2>4. x \o <<>> = x
      BY <1>2
    <2>. QED
      BY <2>1, <2>2, <2>3, <2>4, FlattenEmpty DEF Written, Carried
  <1>5. w \o <<>> = w
    BY <1>2
  <1>6. ~failed'[s] => /\ ~failed[s] /\ t[s].narg = w \o t'[s].narg
                       /\ CallCells(prefix[s], c) = w \o Written(prefix'[s], rest'[s])
    BY <1>1, <1>3, <1>4, <1>5, ElementRead
  <1> HIDE DEF s, c, w
  <1>. QED
    BY <1>1, <1>2, <1>6, CallRead DEF s

\* A slice: its length is read.
LEMMA SliceRead ==
    ASSUME IInv, IInv', FInv, CInv, Beside("verifier"), NEW xs \in Slices,
           observe_f128_slice("verifier", xs)
    PROVE  CInv'
  <1> DEFINE s == "verifier"
             c == [op |-> "slice", values |-> xs]
             w == <<Len(xs)>>
  <1>1. Calls(s, c) /\ Exchange(s, w) /\ rest'[s] = xs /\ prefix' = prefix
    BY DEF observe_f128_slice, IInv, TypeOK, Sides
  <1>2. c \in CallRecords /\ w \in Seq(Cell)
    BY Frames DEF CallRecords
  <1>3. CallCells(prefix[s], c) = w \o Written(prefix[s], xs)
    <2>1. c.op = "slice" /\ c.values = xs
      OBVIOUS
    <2> HIDE DEF c
    <2>2. Elems(c) = xs
      BY <2>1, Zenon DEF Elems
    <2>3. CallCells(prefix[s], c) = <<Len(c.values)>> \o Written(prefix[s], Elems(c))
      BY <2>1, Zenon DEF CallCells
    <2>. QED
      BY <2>1, <2>2, <2>3
  <1> HIDE DEF c, w
  <1>4. ~failed'[s] => /\ ~failed[s] /\ t[s].narg = w \o t'[s].narg
                       /\ CallCells(prefix[s], c) = w \o Written(prefix'[s], rest'[s])
    BY <1>1, <1>2, <1>3, ExchangeRead
  <1> HIDE DEF s
  <1>. QED
    BY <1>1, <1>2, <1>4, CallRead DEF s

\* A byte string: read with its length, if that is one to be read.
LEMMA BytesRead ==
    ASSUME IInv, IInv', FInv, CInv, Beside("verifier"), NEW b \in Strings,
           observe_bytes("verifier", b)
    PROVE  CInv'
  <1> DEFINE s == "verifier"
             c == [op |-> "bytes", bytes |-> b]
             w == Prefixed(b)
             n == 1 + t[s].narg[1]
             noted == ReadsOtherwise(s, n, w)
  <1>1. s \in Sides /\ t[s] \in Transcripts /\ failed[s] \in BOOLEAN /\ t[s].narg \in Seq(Cell)
    BY SideTypes DEF Sides
  <1>2. Calls(s, c) /\ UNCHANGED rest /\ c \in CallRecords /\ w \in Seq(Cell)
    BY Frames DEF observe_bytes, CallRecords
  <1>3. Written(prefix'[s], rest'[s]) = <<>>
    BY <1>2, FlattenEmpty DEF Written, Calls
  <1>4. CallCells(prefix[s], c) = w
    BY Zenon DEF CallCells
  <1>5. w \o <<>> = w
    BY <1>2
  <1>6. CASE Readable(t[s])
    <2>1. Leaves(s, read_message(t[s], n), noted, w) /\ noted \in BOOLEAN
      BY <1>6 DEF observe_bytes, ReadsOtherwise
    <2>2. n \in Nat /\ has_message(t[s], n)
      <3>1. 1 \in 1..Len(t[s].narg) /\ has_message(t[s], n)
        BY <1>1, <1>6, LenProperties DEF Readable, has_message
      <3>2. t[s].narg[1] \in Cell
        BY <1>1, <3>1, ElementOfSeq
      <3>. QED
        BY <3>1, <3>2, TranscriptAssumption
    <2> HIDE DEF c, w, n, noted
    <2>3. t'[s] = read_message(t[s], n) /\ failed'[s] = (failed[s] \/ noted)
      BY <1>1, <2>1, LeavesView
    <2>4. ~noted => next_message(t[s], n) = w
      BY DEF noted, ReadsOtherwise
    <2>5. t[s].narg = next_message(t[s], n) \o t'[s].narg
      BY <1>1, <2>2, <2>3, Unread
    <2>6. ~failed'[s] => /\ ~failed[s] /\ t[s].narg = w \o t'[s].narg
                         /\ CallCells(prefix[s], c) = w \o Written(prefix'[s], rest'[s])
      BY <1>1, <1>3, <1>4, <1>5, <2>1, <2>3, <2>4, <2>5
    <2> HIDE DEF s
    <2>. QED
      BY <1>2, <2>6, CallRead DEF s
  <1>7. CASE ~Readable(t[s])
    <2>1. Leaves(s, t[s], TRUE, w)
      BY <1>7 DEF observe_bytes
    <2>2. failed'[s]
      BY <1>1, <2>1, LeavesView
    <2> HIDE DEF c, w
    <2>. QED
      BY <1>2, <2>2, CallRead
  <1>. QED
    BY <1>6, <1>7

\* A proof of work: its nonce.
LEMMA PowRead ==
    ASSUME IInv, IInv', FInv, CInv, Beside("verifier"), NEW native \in Natives, NEW nonce \in Nonces,
           verify_pow(nonce, native)
    PROVE  CInv'
  <1> DEFINE s == "verifier"
             c == PowCall(native, nonce)
             ground == public_message(t[s], Header(s))
             noted == \/ ReadsOtherwise(s, NonceCells, nonce)
                      \/ ~valid(ground.sponge, nonce, Effective(s))
  <1>1. s \in Sides /\ t[s] \in Transcripts /\ failed[s] \in BOOLEAN /\ t[s].narg \in Seq(Cell)
    BY SideTypes DEF Sides
  <1>2. /\ Calls(s, c) /\ UNCHANGED rest /\ c \in CallRecords /\ nonce \in Seq(Cell)
        /\ NonceCells \in Nat
    BY Records, TranscriptAssumption DEF verify_pow, TakeEntry, CallRecords, PowCall
  <1>3. Written(prefix'[s], rest'[s]) = <<>> /\ nonce \o <<>> = nonce
    BY <1>2, FlattenEmpty DEF Written, Calls
  <1>4. CallCells(prefix[s], c) = nonce
    <2>1. c.op = "pow" /\ c.nonce = nonce
      BY DEF PowCall
    <2> HIDE DEF c
    <2>. QED
      BY <2>1, Zenon DEF CallCells
  <1>5. CASE /\ pow_difficulty(s, native)
             /\ Leaves(s, read_message(ground, NonceCells), noted, Header(s) \o nonce)
    <2>1. Header(s) \in Seq(Symbol)
      BY <1>1, <1>5, HeaderShape
    <2>2. ground \in Transcripts /\ ground.narg = t[s].narg
      BY <1>1, <2>1, PublicShape
    <2>3. noted \in BOOLEAN
      BY DEF ReadsOtherwise
    <2>4. ~noted => has_message(ground, NonceCells) /\ next_message(ground, NonceCells) = nonce
      BY <2>2 DEF ReadsOtherwise, has_message, next_message
    <2> HIDE DEF c, ground, noted
    <2>5. t'[s] = read_message(ground, NonceCells) /\ failed'[s] = (failed[s] \/ noted)
      BY <1>1, <1>5, <2>3, LeavesView
    <2>6. ~noted => t[s].narg = nonce \o t'[s].narg
      BY <1>2, <2>2, <2>4, <2>5, Unread
    <2>7. ~failed'[s] => /\ ~failed[s] /\ t[s].narg = nonce \o t'[s].narg
                         /\ CallCells(prefix[s], c) = nonce \o Written(prefix'[s], rest'[s])
      BY <1>1, <1>3, <1>4, <2>3, <2>5, <2>6
    <2> HIDE DEF s
    <2>. QED
      BY <1>2, <2>7, CallRead DEF s
  <1>6. CASE Leaves(s, t[s], TRUE, <<>>)
    <2>1. failed'[s]
      BY <1>1, <1>6, LeavesView
    <2> HIDE DEF c
    <2>. QED
      BY <1>2, <2>1, CallRead
  <1>. QED
    BY <1>5, <1>6 DEF verify_pow

\* The next element of a slice.
LEMMA NextRead ==
    ASSUME IInv, IInv', FInv, CInv, Beside("verifier"), SliceElement("verifier")
    PROVE  CInv'
  <1> DEFINE s == "verifier"
             x == Head(rest[s])
             more == FlattenSeq(Tail(rest[s]))
             w == Carried(prefix[s], x)
  <1>1. /\ s \in Sides /\ rest[s] \in Seq(Values) /\ rest[s] # <<>> /\ t[s].narg \in Seq(Cell)
        /\ prefix[s] \in {"label", "target", "none"} /\ t'[s].narg \in Seq(Cell)
    <2>1. s \in Sides
      BY DEF Sides
    <2>2. t'[s] \in Transcripts
      BY <2>1, IInv' DEF IInv, TypeOK
    <2>. QED
      BY <2>1, <2>2, SideTypes DEF SliceElement, Transcripts
  <1>2. /\ x \in Values /\ x \in Seq(Cell) /\ more \in Seq(Cell) /\ w \in Seq(Cell)
        /\ FlattenSeq(rest[s]) = x \o more
    <2>1. x \in Values /\ x \in Seq(Cell) /\ more \in Seq(Cell) /\ FlattenSeq(rest[s]) = x \o more
      BY <1>1, Flattened
    <2> HIDE DEF x
    <2>2. CASE prefix[s] = "none"
      BY <2>1, <2>2 DEF Carried
    <2>3. CASE prefix[s] # "none"
      BY <2>1, <2>3 DEF Carried
    <2>. QED
      BY <2>2, <2>3
  <1>3. Element(s, x) /\ rest'[s] = Tail(rest[s]) /\ trail' = trail
    BY <1>1 DEF SliceElement, IInv, TypeOK
  <1>4. stage # "send" /\ stage # "accepted" /\ stage' = stage /\ proof' = proof
    BY <1>1 DEF CInv, FInv, Returned, Beside
  <1>5. Pended(s) = w \o more
    <2>1. <<>> \o more = more
      BY <1>2
    <2>. QED
      BY <1>1, <1>2, <2>1 DEF Pended, Written, Carried
  <1> HIDE DEF x, w
  <1>6. ASSUME ~failed'[s]
        PROVE  /\ CellsOf(trail'[s]) \in Seq(Seq(Cell))
               /\ \E read \in Seq(Cell) :
                     /\ proof' = read \o t'[s].narg
                     /\ read \o Written(prefix'[s], rest'[s]) = FlattenSeq(CellsOf(trail'[s]))
    <2> DEFINE left == t'[s].narg
    <2>1. /\ ~failed[s] /\ prefix'[s] = "none"
          /\ t[s].narg = w \o left
      BY <1>2, <1>3, <1>6, ElementRead DEF w
    <2>2. Written(prefix'[s], rest'[s]) = more
      BY <1>3, <2>1 DEF Written
    <2>3. PICK read \in Seq(Cell) :
             proof = read \o t[s].narg /\ read \o Pended(s) = FlattenSeq(CellsOf(trail[s]))
      BY <2>1 DEF CInv
    <2>4. \A a, b, e \in Seq(Cell) : (a \o b) \o e = a \o (b \o e)
      BY RegroupCells
    <2>5. left \in Seq(Cell) /\ read \o w \in Seq(Cell)
      BY <1>1, <1>2, RegroupCells
    <2> HIDE DEF more, left
    <2>6. (read \o w) \o left = read \o (w \o left) /\ (read \o w) \o more = read \o (w \o more)
      BY <1>2, <2>4, <2>5, Zenon
    <2>7. proof' = (read \o w) \o left /\ (read \o w) \o more = FlattenSeq(CellsOf(trail'[s]))
      BY <1>3, <1>4, <1>5, <2>1, <2>3, <2>6
    <2>8. CellsOf(trail'[s]) \in Seq(Seq(Cell))
      BY <1>3, <2>1 DEF CInv
    <2>. QED
      BY <2>2, <2>5, <2>7, <2>8 DEF left
  <1>. QED
    BY <1>4, <1>6 DEF CInv, Pended

\* Nothing is read before the first call.
LEMMA InitReads == Init => CInv
  <1> SUFFICES ASSUME Init PROVE CInv
    OBVIOUS
  <1>1. /\ proof \in Seq(Cell) /\ t["verifier"] = NewVerifier(proof) /\ stage # "accepted"
        /\ trail["verifier"] = <<>> /\ rest["verifier"] = <<>>
    BY DEF Init, Sides
  <1>2. CellsOf(<<>>) = <<>> /\ <<>> \in Seq(Seq(Cell))
    BY DEF CellsOf
  <1>3. t["verifier"].narg = proof
    BY <1>1 DEF NewVerifier
  <1>4. Pended("verifier") = <<>> /\ FlattenSeq(<<>>) = <<>>
    BY <1>1, FlattenEmpty DEF Pended, Written
  <1>5. <<>> \in Seq(Cell) /\ <<>> \o proof = proof /\ <<>> \o <<>> = <<>>
    BY <1>1
  <1>. QED
    BY <1>1, <1>2, <1>3, <1>4, <1>5 DEF CInv

\* The proof is handed over, all of it to be read.
LEMMA HandOverReads ==
    ASSUME IInv, IInv', FInv, CInv, HandOver
    PROVE  CInv'
  <1>1. /\ stage = "send" /\ trail["verifier"] = <<>> /\ rest["verifier"] = <<>>
        /\ stage' \in {"aborted", "receive"} /\ trail' = trail /\ rest' = rest
    BY DEF HandOver, CInv
  <1>2. proof' \in Seq(Cell) /\ t'["verifier"].narg = proof'
    <2>1. proof' \in Seq(Cell)
      BY IInv' DEF IInv, TypeOK
    <2>2. t'["verifier"] = NewVerifier(proof')
      BY DEF HandOver, Sides
    <2>. QED
      BY <2>1, <2>2 DEF NewVerifier
  <1>3. CellsOf(<<>>) = <<>> /\ <<>> \in Seq(Seq(Cell))
    BY DEF CellsOf
  <1>4. Pended("verifier")' = <<>> /\ FlattenSeq(<<>>) = <<>>
    BY <1>1, FlattenEmpty DEF Pended, Written
  <1>5. <<>> \in Seq(Cell) /\ <<>> \o proof' = proof' /\ <<>> \o <<>> = <<>>
    BY <1>2
  <1>. QED
    BY <1>1, <1>2, <1>3, <1>4, <1>5 DEF CInv

\* The prover's steps read nothing; the verifier's end with the stream.
LEMMA StepReads ==
    ASSUME IInv, IInv', FInv, CInv, [Next]_vars
    PROVE  CInv'
  <1>1. ASSUME Apart("prover") PROVE CInv'
    <2>1. /\ stage' = stage /\ proof' = proof /\ t'["verifier"] = t["verifier"]
          /\ failed'["verifier"] = failed["verifier"] /\ prefix'["verifier"] = prefix["verifier"]
          /\ rest'["verifier"] = rest["verifier"] /\ trail'["verifier"] = trail["verifier"]
      BY <1>1 DEF Apart, Beside, Sides
    <2>. QED
      BY <2>1 DEF CInv, Pended
  <1>2. ASSUME NEW s \in Sides, Observes(s) PROVE CInv'
    <2>1. Apart(s)
      BY <1>2, ObservesApart
    <2>2. CASE s = "prover"
      BY <1>1, <2>1, <2>2
    <2>3. CASE s = "verifier"
      <3>1. Beside("verifier")
        BY <2>1, <2>3 DEF Apart
      <3>2. ASSUME NEW l \in Labels, observe_label("verifier", l) PROVE CInv'
        <4> DEFINE b == prefix["verifier"] = "label" /\ l # BasisLabel
                   c == [op |-> "label", label |-> l]
        <4>1. /\ Calls("verifier", c) /\ UNCHANGED rest
              /\ Leaves("verifier", public_message(t["verifier"], l), b, l)
          BY <3>2 DEF observe_label
        <4>2. c \in CallRecords /\ c.op \in {"label", "sample", "samples"} /\ b \in BOOLEAN
              /\ l \in Seq(Symbol)
          BY ChallengerAssumption DEF CallRecords
        <4> HIDE DEF b, c
        <4>. QED
          BY <4>1, <4>2, PublicRead
      <3>3. ASSUME sample_f128("verifier") PROVE CInv'
        <4> DEFINE c == [op |-> "sample"]
        <4>1. /\ Calls("verifier", c) /\ UNCHANGED rest
              /\ Leaves("verifier", public_message(t["verifier"], <<Squeeze>>), FALSE, <<Squeeze>>)
          BY <3>3 DEF sample_f128, verifier_message
        <4>2. c \in CallRecords /\ c.op \in {"label", "sample", "samples"}
              /\ <<Squeeze>> \in Seq(Symbol)
          BY Frames DEF CallRecords
        <4> HIDE DEF c
        <4>. QED
          BY <4>1, <4>2, PublicRead
      <3>4. ASSUME sample_f128_vec("verifier", BasisVars) PROVE CInv'
        <4> DEFINE c == [op |-> "samples", count |-> BasisVars]
        <4>1. /\ Calls("verifier", c) /\ UNCHANGED rest
              /\ Leaves("verifier", public_message(t["verifier"], Vector(BasisVars)), FALSE,
                        Vector(BasisVars))
          BY <3>4 DEF sample_f128_vec
        <4>2. c \in CallRecords /\ c.op \in {"label", "sample", "samples"}
              /\ Vector(BasisVars) \in Seq(Symbol)
          BY Frames DEF CallRecords
        <4> HIDE DEF c
        <4>. QED
          BY <4>1, <4>2, PublicRead
      <3>. QED
        BY <1>2, <2>3, <3>1, <3>2, <3>3, <3>4, F128Read, SliceRead, NextRead, BytesRead DEF Observes
    <2>. QED
      BY <2>2, <2>3 DEF Sides
  <1>3. ASSUME NEW native \in Natives, grind_pow(native) PROVE CInv'
    BY <1>1, <1>3, PowApart
  <1>4. ASSUME NEW native \in Natives, NEW nonce \in Nonces, verify_pow(nonce, native) PROVE CInv'
    BY <1>4, PowApart, PowRead DEF Apart
  <1>5. CASE HandOver
    BY <1>5, HandOverReads
  <1>6. CASE Finish
    <2>1. /\ UNCHANGED <<honest, schedule, proof, t, failed, prefix, used, rest, meant, trail>>
          /\ stage' # "send" /\ (stage' = "accepted" => check_eof(t["verifier"]))
      BY <1>6 DEF Finish
    <2>. QED
      BY <2>1 DEF CInv, Pended, check_eof
  <1>7. CASE UNCHANGED vars
    BY <1>7 DEF vars, CInv, Pended
  <1>. QED
    BY <1>2, <1>3, <1>4, <1>5, <1>6, <1>7 DEF Next

\* What is accepted has one spelling.  Whatever narg string is given and
\* whatever the backend calls, an accepted opening's string is the cells of
\* the values the backend was given, each once and in the order of the calls,
\* the public target left out: no byte is skipped, read twice or left over.
THEOREM Canonical == Spec => []AcceptedIsCanonical
  <1> DEFINE Inv == IInv /\ FInv /\ CInv
  <1>1. Inv => AcceptedIsCanonical
    <2> SUFFICES ASSUME Inv, stage = "accepted"
                 PROVE  proof = FlattenSeq(CellsOf(trail["verifier"]))
      BY DEF AcceptedIsCanonical, CellsOf
    <2>1. ~failed["verifier"] /\ rest["verifier"] = <<>> /\ t["verifier"].narg = <<>>
      BY DEF FInv, CInv, Returned, Failed, Sides
    <2>2. PICK read \in Seq(Cell) :
             /\ proof = read \o t["verifier"].narg
             /\ read \o Pended("verifier") = FlattenSeq(CellsOf(trail["verifier"]))
      BY <2>1 DEF CInv
    <2>3. Pended("verifier") = <<>> /\ read \o <<>> = read
      BY <2>1, FlattenEmpty DEF Pended, Written
    <2>. QED
      BY <2>1, <2>2, <2>3
  <1>2. Init => Inv
    BY InitHolds, InitFollows, InitReads
  <1>3. Inv /\ [Next]_vars => Inv'
    <2> SUFFICES ASSUME Inv, [Next]_vars PROVE Inv'
      OBVIOUS
    <2>1. IInv' /\ FInv'
      BY StepKeeps, StepFollows
    <2>2. CInv'
      BY <2>1, StepReads
    <2>. QED
      BY <2>1, <2>2
  <1> HIDE DEF Inv
  <1>. QED
    BY <1>1, <1>2, <1>3, PTL DEF Spec
=============================================================================
