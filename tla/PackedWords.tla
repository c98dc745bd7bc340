---------------------------- MODULE PackedWords ----------------------------
(***************************************************************************)
(* Bits packed least-significant first into words: PackedBits of the       *)
(* circuit traits, of a fixed width n, and PackedWitness, which grows.  A  *)
(* word is the set of the positions of its one bits, so a disjunction of   *)
(* words is a union.  Bits are indexed from zero as in the code, the words *)
(* of a sequence from one.                                                 *)
(***************************************************************************)
EXTENDS Integers, Sequences, SequencesExt

CONSTANT WordBits  \* 64 in the code

ASSUME WordBitsAssumption == WordBits \in Nat \ {0}

Position == 0 .. WordBits - 1
Word == SUBSET Position

LowBits(word, width) == {b \in word : b < width}
Shl(word, k) == {b + k : b \in word} \cap Position
Shr(word, k) == {b - k : b \in word} \cap Position

\* n.div_ceil(64)
Limbs(n) == (n + WordBits - 1) \div WordBits
-----------------------------------------------------------------------------
\* PackedBits<N, M>: its width and its M words, the bits past N clear; of the
\* indices below N for which the function says one.
from_fn(n, ones) ==
    [n |-> n,
     words |-> [k \in 1..Limbs(n) |->
                  {b \in Position : (k - 1) * WordBits + b \in ones}]]

from_words(n, words) ==
    [n |-> n,
     words |-> IF n % WordBits = 0 THEN words
               ELSE [words EXCEPT ![Limbs(n)] = LowBits(@, n % WordBits)]]

from_u64(n, value) ==
    from_words(n, [k \in 1..Limbs(n) |-> IF k = 1 THEN value ELSE {}])

zero(n) == from_words(n, [k \in 1..Limbs(n) |-> {}])

from_array(bits) == from_fn(Len(bits), {i \in 0 .. Len(bits) - 1 : bits[i + 1]})

bit(p, i) == (i % WordBits) \in p.words[i \div WordBits + 1]

\* words.get(k).unwrap_or(0)
WordAt(p, k) == IF k < Len(p.words) THEN p.words[k + 1] ELSE {}

truncate(p, n) == from_fn(n, {i \in 0 .. n - 1 : i < p.n /\ bit(p, i)})

\* Mistake: the bits that come from the next word are forgotten.
slice_one_word(p, offset, n) ==
    from_words(n, [k \in 1..Limbs(n) |->
        Shr(WordAt(p, offset \div WordBits + k - 1), offset % WordBits)])

slice(p, offset, n) ==
    LET first == offset \div WordBits
        shift == offset % WordBits
        high(k) == IF shift = 0 THEN {} ELSE Shl(WordAt(p, first + k), WordBits - shift)
    IN  from_words(n, [k \in 1..Limbs(n) |-> Shr(WordAt(p, first + k - 1), shift) \cup high(k)])

xor(p, q) ==
    [n |-> p.n, words |-> [k \in DOMAIN p.words |->
        (p.words[k] \ q.words[k]) \cup (q.words[k] \ p.words[k])]]

\* One word is rotated by two shifts, a longer string bit by bit.
rotate_right(p, amount) ==
    LET by == amount % p.n
        value == p.words[1]
    IN  IF p.n = 0 THEN zero(0)
        ELSE IF Len(p.words) = 1
        THEN IF by = 0 THEN p
             ELSE from_u64(p.n, Shr(value, by) \cup Shl(value, p.n - by))
        ELSE from_fn(p.n, {i \in 0 .. p.n - 1 : bit(p, (i + by) % p.n)})

shift_right(p, amount) ==
    IF amount >= p.n THEN zero(p.n)
    ELSE IF Len(p.words) = 1 THEN from_u64(p.n, Shr(p.words[1], amount))
    ELSE from_fn(p.n, {i \in 0 .. p.n - 1 : i + amount < p.n /\ bit(p, i + amount)})
-----------------------------------------------------------------------------
\* Z::from_packed_bits and Z::from_packed_prefix: the words of an integer of
\* so many limbs, of all the bits and of the low width of them.
from_packed_bits(limbs, p) == [k \in 1..limbs |-> WordAt(p, k - 1)]

from_packed_prefix(limbs, p, width) ==
    LET retained == IF Limbs(width) < limbs THEN Limbs(width) ELSE limbs
        value == from_packed_bits(limbs, p)
    IN  [k \in 1..limbs |->
            IF k > retained THEN {}
            ELSE IF k = retained /\ width % WordBits # 0
            THEN LowBits(value[k], width % WordBits)
            ELSE value[k]]
-----------------------------------------------------------------------------
\* PackedWitness: its words, and how many bits of them are meant.
EmptyWitness == [words |-> <<>>, bit_len |-> 0]

\* Mistake: what does not fit into the last word is dropped.
append_word_cut(p, value, width) ==
    LET low == LowBits(value, width)
        offset == p.bit_len % WordBits
    IN  IF width = 0 THEN p
        ELSE [words |-> IF offset = 0 THEN Append(p.words, low)
                        ELSE [p.words EXCEPT ![Len(p.words)] = @ \cup Shl(low, offset)],
              bit_len |-> p.bit_len + width]

append_word(p, value, width) ==
    LET low == LowBits(value, width)
        offset == p.bit_len % WordBits
        filled == [p.words EXCEPT ![Len(p.words)] = @ \cup Shl(low, offset)]
    IN  IF width = 0 THEN p
        ELSE [words |-> IF offset = 0 THEN Append(p.words, low)
                        ELSE IF offset + width > WordBits
                        THEN Append(filled, Shr(low, WordBits - offset))
                        ELSE filled,
              bit_len |-> p.bit_len + width]

\* The bits of a word that the first n bits of a string put into it.
Width(n, k) == IF n - k * WordBits < WordBits THEN n - k * WordBits ELSE WordBits

extend_packed_words(w, words, n) ==
    LET appended[k \in 0..Limbs(n)] ==
            IF k = 0 THEN w ELSE append_word(appended[k - 1], words[k], Width(n, k - 1))
    IN  appended[Limbs(n)]

extend_packed(w, p) == extend_packed_words(w, p.words, p.n)

\* PackedWitness::extend packs 64 bits at a time.
extend(w, bits) == extend_packed(w, from_array(bits))
=============================================================================
