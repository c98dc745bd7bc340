------------------------------- MODULE Sha256 -------------------------------
(***************************************************************************)
(* circuit::sha256: the hash as constraints.  A word is the number its     *)
(* bits hold, Boolean logic acts on the bits, and sums are integer         *)
(* equations whose result the prover hints.  Words are `w' bits, 32 in the *)
(* code; w + 1, w + 2 and w + 3 are its widths 33, 34 and 35.              *)
(***************************************************************************)
EXTENDS Integers, Sequences, SequencesExt, FiniteSetsExt, Bitwise

\* The low bytes of the constants of FIPS 180-4, for words of at most 8 bits.
ROUND_CONSTANTS ==
    <<152, 145, 207, 165, 91, 241, 164, 213, 152, 1, 190, 195, 116, 254, 167, 116,
      193, 134, 198, 204, 111, 170, 220, 218, 82, 109, 200, 199, 243, 71, 81, 103,
      133, 56, 252, 19, 84, 187, 46, 133, 161, 75, 112, 163, 25, 36, 133, 112,
      22, 8, 76, 181, 179, 74, 79, 243, 238, 111, 20, 8, 250, 235, 247, 242>>

INITIAL_STATE == <<103, 133, 114, 58, 127, 140, 171, 25>>

constant(w, n) == n % 2 ^ w

rotate_right(w, x, amount) ==
    LET k == amount % w IN (x \div 2 ^ k) + (x % 2 ^ k) * 2 ^ (w - k)

shift_right(x, amount) == x \div 2 ^ amount

xor3(x, y, z) == (x ^^ y) ^^ z

Total(terms) == FoldLeft(LAMBDA a, b : a + b, 0, terms)

\* The word a bit string of the stream stands for: its first bit is the highest.
BigEndian(bits) == FoldLeft(LAMBDA value, bit : 2 * value + bit, 0, bits)
-----------------------------------------------------------------------------
(***************************************************************************)
(* The witnessed sums: every word the constraint admits for some hint of   *)
(* the hinted width.  An honest prover hints the sum of the words.         *)
(***************************************************************************)
HintedSum(prover, admitted, honest) ==
    IF prover = "honest" THEN admitted \cap {honest} ELSE admitted

sum_32(w, prover, extra, terms) ==
    LET wide == HintedSum(prover, {v \in 0..(2 ^ (w + extra) - 1) : Total(terms) - v = 0},
                       Total(terms) % 2 ^ (w + extra))
    IN  {constant(w, v) : v \in wide}

sum_doubled_32(w, prover, ordinary, doubled, extras) ==
    LET total == 2 * Total(ordinary) + Total(doubled)
        half == HintedSum(prover, {v \in 0..(2 ^ (w + 3) - 1) : total - 2 * v = 0},
                       (Total(ordinary) + Total(extras)) % 2 ^ (w + 3))
    IN  {constant(w, v) : v \in half}

\* Mistake: the two operands of the choice are exchanged.
choice_twice_Exchanged(x, y, z) == y + z - (x ^^ z) + (x ^^ y)

\* Twice Ch and twice Maj as integer combinations of words.
choice_twice(x, y, z) == y + z - (x ^^ y) + (x ^^ z)
majority_twice(x, y, z) == x + y + z - xor3(x, y, z)

Choice(w, x, y, z) == (x & y) ^^ ((2 ^ w - 1 - x) & z)
Majority(x, y, z) == xor3(x & y, x & z, y & z)
-----------------------------------------------------------------------------
small_sigma_0(w, x) == xor3(rotate_right(w, x, 7), rotate_right(w, x, 18), shift_right(x, 3))
small_sigma_1(w, x) == xor3(rotate_right(w, x, 17), rotate_right(w, x, 19), shift_right(x, 10))
big_sigma_0(w, x) == xor3(rotate_right(w, x, 2), rotate_right(w, x, 13), rotate_right(w, x, 22))
big_sigma_1(w, x) == xor3(rotate_right(w, x, 6), rotate_right(w, x, 11), rotate_right(w, x, 25))

\* The schedule words a prover can append; i counts the words there are.
Extensions(w, prover, schedule) ==
    LET i == Len(schedule) + 1
    IN  sum_32(w, prover, 2, <<schedule[i - 16], small_sigma_0(w, schedule[i - 15]),
                               schedule[i - 7], small_sigma_1(w, schedule[i - 2])>>)

\* The working words a prover can reach by one round; words are a to h.
Rounds(w, prover, words, round_constant, scheduled) ==
    LET a == words[1]  b == words[2]  c == words[3]  d == words[4]
        e == words[5]  f == words[6]  g == words[7]  h == words[8]
        k == constant(w, round_constant)
        Es == sum_doubled_32(w, prover, <<d, h, big_sigma_1(w, e), k, scheduled>>,
                             <<choice_twice(e, f, g)>>, <<Choice(w, e, f, g)>>)
        As == sum_doubled_32(w, prover, <<h, big_sigma_1(w, e), k, scheduled, big_sigma_0(w, a)>>,
                             <<choice_twice(e, f, g), majority_twice(a, b, c)>>,
                             <<Choice(w, e, f, g), Majority(a, b, c)>>)
    IN  {<<new[1], a, b, c, new[2], e, f, g>> : new \in As \X Es}

Outputs(w, prover, state, words) ==
    LET Sums(i) == sum_32(w, prover, 1, <<state[i], words[i]>>)
    IN  IF \E i \in 1..8 : Sums(i) = {} THEN {} ELSE {[i \in 1..8 |-> CHOOSE v \in Sums(i) : TRUE]}

initial_state(w) == [i \in 1..8 |-> constant(w, INITIAL_STATE[i])]
-----------------------------------------------------------------------------
(***************************************************************************)
(* A block-aligned message: its blocks, then the constant padding block.   *)
(* The stream carries the highest bit of each word first.                  *)
(***************************************************************************)
Blocks(w, message) == Len(message) \div (16 * w)
BlockWords(w, message, block) ==
    IF block < Blocks(w, message)
    THEN [word \in 1..16 |->
            LET first == block * 16 * w + (word - 1) * w
            IN  BigEndian(SubSeq(message, first + 1, first + w))]
    ELSE [word \in 1..16 |-> CASE word = 1  -> 2 ^ (w - 1)
                               [] word = 15 -> constant(w, Len(message) \div 2 ^ w)
                               [] word = 16 -> constant(w, Len(message))
                               [] OTHER     -> 0]

DigestBits(w, words) ==
    [i \in 1..(8 * w) |-> (words[(i - 1) \div w + 1] \div 2 ^ (w - 1 - ((i - 1) % w))) % 2]
-----------------------------------------------------------------------------
(***************************************************************************)
(* Reference: FIPS 180-4 on a padded bit string, as one step of each loop. *)
(***************************************************************************)
Padded(w, message) ==
    message \o <<1>> \o [i \in 1..(14 * w - 1) |-> 0]
            \o [i \in 1..(2 * w) |-> (Len(message) \div 2 ^ (2 * w - i)) % 2]

StandardBlock(w, message, block) ==
    [i \in 1..16 |-> LET first == (16 * block + i - 1) * w
                     IN  BigEndian(SubSeq(Padded(w, message), first + 1, first + w))]

StandardWord(w, W) ==
    LET t == Len(W) + 1
    IN  (small_sigma_1(w, W[t - 2]) + W[t - 7] + small_sigma_0(w, W[t - 15]) + W[t - 16]) % 2 ^ w

StandardRound(w, v, K, W) ==
    LET t1 == v[8] + big_sigma_1(w, v[5]) + Choice(w, v[5], v[6], v[7]) + K + W
        t2 == big_sigma_0(w, v[1]) + Majority(v[1], v[2], v[3])
    IN  <<(t1 + t2) % 2 ^ w, v[1], v[2], v[3], (v[4] + t1) % 2 ^ w, v[5], v[6], v[7]>>
=============================================================================
