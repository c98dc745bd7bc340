------------------------- MODULE PackedWordsProofs -------------------------
(***************************************************************************)
(* Lemmas about PackedWords, for words of any width and strings of any     *)
(* length: every operation on words is the operation on the bits.          *)
(***************************************************************************)
EXTENDS PackedWords, InductionLemmas

\* The indices of a string's ones, as the packed constructors take them.
Ones(bits) == {i \in 0 .. Len(bits) - 1 : bits[i + 1]}
-----------------------------------------------------------------------------
\* A bit is in one place of one word.
LEMMA Divide ==
    ASSUME NEW n \in Nat
    PROVE  /\ n \div WordBits \in Nat
           /\ n % WordBits \in Position
           /\ n % WordBits = n - (n \div WordBits) * WordBits
  <1>1. n % WordBits = n - (n \div WordBits) * WordBits
    BY WordBitsAssumption
  <1>2. n \div WordBits \in Nat /\ n % WordBits \in Position
    BY WordBitsAssumption DEF Position
  <1>. QED
    BY <1>1, <1>2

\* And a place of a word is the place of one bit.
LEMMA Place ==
    ASSUME NEW k \in Nat, NEW b \in Position
    PROVE  /\ k * WordBits + b \in Nat
           /\ (k * WordBits + b) \div WordBits = k
           /\ (k * WordBits + b) % WordBits = b
  <1> DEFINE n == k * WordBits + b
             q == n \div WordBits
  <1>1. n \in Nat /\ b \in Nat /\ b < WordBits /\ WordBits \in Nat
    BY WordBitsAssumption DEF Position
  <1>2. n % WordBits = n - q * WordBits /\ q \in Nat
    BY <1>1, Divide
  <1>3. n % WordBits \in Nat /\ n % WordBits < WordBits
    BY <1>1, Divide DEF Position
  <1>4. q = k
    <2>1. ~ (q < k)
      BY <1>1, <1>2, <1>3, Multiples
    <2>2. ~ (k < q)
      BY <1>1, <1>2, <1>3, Multiples
    <2>. QED
      BY <1>2, <2>1, <2>2
  <1>. QED
    BY <1>1, <1>2, <1>4

\* The words of n bits are those that begin before the end.
LEMMA LimbsCover ==
    ASSUME NEW n \in Nat
    PROVE  /\ Limbs(n) \in Nat
           /\ \A k \in Nat : k * WordBits < n <=> k < Limbs(n)
  <1> DEFINE m == n + WordBits - 1
             l == Limbs(n)
  <1>1. m \in Nat /\ l = m \div WordBits /\ WordBits \in Nat
    BY WordBitsAssumption DEF Limbs
  <1>2. m % WordBits = m - l * WordBits /\ l \in Nat /\ m % WordBits \in 0 .. WordBits - 1
    BY <1>1, Divide DEF Position
  <1>3. l * WordBits \in Nat
    BY <1>1, <1>2
  <1>4. ASSUME NEW k \in Nat PROVE k * WordBits < n <=> k < l
    <2>1. k * WordBits \in Nat
      BY <1>1
    <2>2. CASE k < l
      <3>1. k * WordBits + WordBits <= l * WordBits
        BY <1>1, <1>2, <2>2, Multiples
      <3>. QED
        BY <1>1, <1>2, <1>3, <2>1, <2>2, <3>1
    <2>3. CASE l <= k
      <3>1. l * WordBits <= k * WordBits
        BY <1>1, <1>2, <2>3, Multiples
      <3>. QED
        BY <1>1, <1>2, <1>3, <2>1, <2>3, <3>1
    <2>. QED
      BY <1>2, <2>2, <2>3
  <1>. QED
    BY <1>2, <1>4

\* How many there are.
LEMMA LimbsExact ==
    ASSUME NEW n \in Nat
    PROVE  Limbs(n) = IF n % WordBits = 0 THEN n \div WordBits ELSE n \div WordBits + 1
  <1> DEFINE q == n \div WordBits
             l == Limbs(n)
  <1>1. /\ WordBits \in Nat /\ q \in Nat /\ l \in Nat /\ q * WordBits \in Nat
        /\ n % WordBits = n - q * WordBits /\ n % WordBits \in 0 .. WordBits - 1
        /\ \A k \in Nat : k * WordBits < n <=> k < l
    <2>1. WordBits \in Nat
      BY WordBitsAssumption
    <2>2. /\ q \in Nat /\ n % WordBits = n - q * WordBits
          /\ n % WordBits \in 0 .. WordBits - 1
      BY Divide DEF Position
    <2>3. l \in Nat /\ \A k \in Nat : k * WordBits < n <=> k < l
      BY LimbsCover
    <2>4. q * WordBits \in Nat
      BY <2>1, <2>2
    <2>. QED
      BY <2>1, <2>2, <2>3, <2>4
  <1>2. (q + 1) * WordBits = q * WordBits + WordBits
    BY <1>1
  <1>3. ~ (q + 1 < l)
    BY <1>1, <1>2
  <1>4. CASE n % WordBits = 0
    <2>1. ~ (q < l)
      BY <1>1, <1>4
    <2>2. q # 0 => q - 1 \in Nat /\ (q - 1) * WordBits = q * WordBits - WordBits
      BY <1>1
    <2>3. q # 0 => q - 1 < l
      BY <1>1, <1>4, <2>2, WordBitsAssumption
    <2>. QED
      BY <1>1, <1>4, <2>1, <2>3
  <1>5. CASE n % WordBits # 0
    <2>1. q < l
      BY <1>1, <1>5
    <2>. QED
      BY <1>1, <1>3, <1>5, <2>1
  <1>. QED
    BY <1>4, <1>5
-----------------------------------------------------------------------------
\* A word of a packed string, past the last one too.
LEMMA WordOf ==
    ASSUME NEW n \in Nat, NEW ones \in SUBSET (0 .. n - 1), NEW k \in Nat
    PROVE  WordAt(from_fn(n, ones), k) = {b \in Position : k * WordBits + b \in ones}
  <1> DEFINE words == [j \in 1..Limbs(n) |-> {b \in Position : (j - 1) * WordBits + b \in ones}]
  <1>1. from_fn(n, ones).words = words
    BY DEF from_fn
  <1>2. Limbs(n) \in Nat /\ (k * WordBits < n <=> k < Limbs(n))
    BY LimbsCover
  <1>3. Len(words) = Limbs(n)
    BY <1>2
  <1>4. CASE k < Limbs(n)
    <2>1. words[k + 1] = {b \in Position : k * WordBits + b \in ones}
      BY <1>2, <1>4
    <2>. QED
      BY <1>1, <1>3, <1>4, <2>1 DEF WordAt
  <1>5. CASE Limbs(n) <= k
    <2>1. k * WordBits >= n /\ k * WordBits \in Nat
      BY <1>2, <1>5, WordBitsAssumption
    <2>2. \A b \in Position : k * WordBits + b \notin 0 .. n - 1
      BY <2>1, WordBitsAssumption DEF Position
    <2>3. {b \in Position : k * WordBits + b \in ones} = {}
      BY <2>2
    <2>. QED
      BY <1>1, <1>2, <1>3, <1>5, <2>3 DEF WordAt
  <1>. QED
    BY <1>2, <1>4, <1>5

\* A bit of a packed string.
LEMMA BitOf ==
    ASSUME NEW n \in Nat, NEW ones \in SUBSET (0 .. n - 1), NEW i \in 0 .. n - 1
    PROVE  bit(from_fn(n, ones), i) <=> i \in ones
  <1> DEFINE q == i \div WordBits
             r == i % WordBits
  <1>1. i \in Nat /\ q \in Nat /\ r \in Position /\ r = i - q * WordBits
    BY Divide
  <1>2. q * WordBits \in Nat /\ r \in Nat
    BY <1>1, WordBitsAssumption DEF Position
  <1>3. q < Limbs(n) /\ Limbs(n) \in Nat
    BY <1>1, <1>2, LimbsCover
  <1>4. i = q * WordBits + r
    BY <1>1, <1>2
  <1>5. q + 1 \in 1..Limbs(n) /\ (q + 1) - 1 = q
    BY <1>1, <1>3
  <1> HIDE DEF q, r
  <1>6. from_fn(n, ones).words[q + 1] = {b \in Position : q * WordBits + b \in ones}
    BY <1>5 DEF from_fn
  <1>7. r \in from_fn(n, ones).words[q + 1] <=> i \in ones
    BY <1>1, <1>4, <1>6
  <1>. QED
    BY <1>7 DEF bit, q, r

\* Words with the right bits below the width are, once the rest of the last
\* one is cleared, the packed string.
LEMMA FromWords ==
    ASSUME NEW n \in Nat, NEW ones \in SUBSET (0 .. n - 1),
           NEW words \in [1..Limbs(n) -> SUBSET Position],
           \A k \in 1..Limbs(n), b \in Position :
              (k - 1) * WordBits + b < n => (b \in words[k] <=> (k - 1) * WordBits + b \in ones)
    PROVE  from_words(n, words) = from_fn(n, ones)
  <1> DEFINE q == n \div WordBits
             r == n % WordBits
             good == [k \in 1..Limbs(n) |-> {b \in Position : (k - 1) * WordBits + b \in ones}]
  <1>1. /\ q \in Nat /\ r \in Position /\ r = n - q * WordBits
        /\ WordBits \in Nat /\ q * WordBits \in Nat
    <2>1. q \in Nat /\ r \in Position /\ r = n - q * WordBits /\ WordBits \in Nat
      BY Divide, WordBitsAssumption
    <2>. QED
      BY <2>1
  <1>2. Limbs(n) = IF r = 0 THEN q ELSE q + 1
    BY LimbsExact
  <1>3. r \in Nat /\ r < WordBits /\ n = q * WordBits + r
    BY <1>1 DEF Position
  <1> HIDE DEF q, r
  <1>4. ASSUME NEW k \in 1..q, NEW b \in Position
        PROVE  (k - 1) * WordBits + b < n
    <2>1. k - 1 \in Nat /\ k - 1 < q /\ b \in Nat /\ b < WordBits
      BY <1>1 DEF Position
    <2>2. (k - 1) * WordBits + WordBits <= q * WordBits /\ (k - 1) * WordBits \in Nat
      BY <1>1, <2>1, Multiples
    <2>. QED
      BY <1>1, <1>3, <2>1, <2>2
  <1>5. ASSUME NEW k \in 1..q, k \in 1..Limbs(n)
        PROVE  words[k] = good[k]
    <2>1. words[k] \subseteq Position
      BY <1>5
    <2>2. \A b \in Position : b \in words[k] <=> (k - 1) * WordBits + b \in ones
      BY <1>4, <1>5
    <2>. QED
      BY <1>5, <2>1, <2>2
  <1>6. CASE r = 0
    <2>1. words = good
      BY <1>2, <1>5, <1>6
    <2>. QED
      BY <1>6, <2>1 DEF from_words, from_fn, r
  <1>7. CASE r # 0
    <2>1. Limbs(n) = q + 1 /\ q + 1 \in 1..Limbs(n)
      BY <1>1, <1>2, <1>7
    <2>2. words[q + 1] \subseteq Position
      BY <2>1
    <2>3. (q + 1) - 1 = q
      BY <1>1
    <2>4. \A b \in Position : q * WordBits + b < n <=> b < r
      BY <1>1, <1>3 DEF Position
    <2>5. \A b \in Position : b < r => (b \in words[q + 1] <=> q * WordBits + b \in ones)
      BY <2>1, <2>3, <2>4
    <2>6. \A b \in Position : ~ (b < r) => q * WordBits + b \notin ones
      BY <1>1, <2>4 DEF Position
    <2>7. LowBits(words[q + 1], r) = good[q + 1]
      BY <2>1, <2>2, <2>3, <2>5, <2>6 DEF LowBits
    <2>8. [words EXCEPT ![q + 1] = LowBits(@, r)] = good
      <3> DEFINE fixed == [words EXCEPT ![q + 1] = LowBits(@, r)]
      <3>1. ASSUME NEW k \in 1..Limbs(n) PROVE fixed[k] = good[k]
        <4>1. CASE k = q + 1
          BY <2>7, <4>1
        <4>2. CASE k # q + 1
          <5>1. k \in 1..q
            BY <1>1, <2>1, <4>2
          <5>. QED
            BY <1>5, <4>2, <5>1
        <4>. QED
          BY <4>1, <4>2
      <3>. QED
        BY <3>1
    <2>. QED
      BY <1>7, <2>1, <2>8 DEF from_words, from_fn, r
  <1>. QED
    BY <1>6, <1>7
-----------------------------------------------------------------------------
\* A packed array, by its ones.
LEMMA ArrayOnes ==
    ASSUME NEW s \in Seq(BOOLEAN)
    PROVE  /\ Len(s) \in Nat
           /\ Ones(s) \in SUBSET (0 .. Len(s) - 1)
           /\ from_array(s) = from_fn(Len(s), Ones(s))
           /\ \A i \in 0 .. Len(s) - 1 : i \in Ones(s) <=> s[i + 1]
  BY DEF Ones, from_array

\* A string given by its bits.
LEMMA GivenBits ==
    ASSUME NEW n \in Nat, NEW s \in [1..n -> BOOLEAN]
    PROVE  /\ s \in Seq(BOOLEAN) /\ Len(s) = n
           /\ Ones(s) \in SUBSET (0 .. n - 1)
           /\ from_array(s) = from_fn(n, Ones(s))
           /\ \A i \in 0 .. n - 1 : i \in Ones(s) <=> s[i + 1]
  <1>1. s \in Seq(BOOLEAN) /\ Len(s) = n
    OBVIOUS
  <1>. QED
    BY <1>1, ArrayOnes

\* The bit of a word at a place, among the ones.
LEMMA WordBegins ==
    ASSUME NEW n \in Nat, NEW k \in 1..Limbs(n)
    PROVE  /\ k - 1 \in Nat /\ (k - 1) * WordBits \in Nat
           /\ k = 1 => (k - 1) * WordBits = 0
           /\ k # 1 => (k - 1) * WordBits >= WordBits
  <1>1. WordBits \in Nat /\ Limbs(n) \in Nat
    BY WordBitsAssumption, LimbsCover
  <1>2. k - 1 \in Nat
    BY <1>1
  <1>3. (k - 1) * WordBits \in Nat
    BY <1>1, <1>2
  <1>4. k = 1 => (k - 1) * WordBits = 0
    BY <1>1
  <1>5. ASSUME k # 1 PROVE (k - 1) * WordBits >= WordBits
    <2>1. 0 < k - 1
      BY <1>2, <1>5
    <2>2. 0 * WordBits + WordBits <= (k - 1) * WordBits
      BY <1>1, <1>2, <2>1, Multiples
    <2>. QED
      BY <1>1, <1>3, <2>2
  <1>. QED
    BY <1>2, <1>3, <1>4, <1>5

\* from_u64 is the bits of its word, and zeros above them.
LEMMA FromU64Bits ==
    ASSUME NEW n \in Nat, NEW value \in Word
    PROVE  from_u64(n, value) = from_array([i \in 1..n |-> i <= WordBits /\ (i - 1) \in value])
  <1> DEFINE s == [i \in 1..n |-> i <= WordBits /\ (i - 1) \in value]
             words == [k \in 1..Limbs(n) |-> IF k = 1 THEN value ELSE {}]
  <1>1. s \in [1..n -> BOOLEAN]
    OBVIOUS
  <1>2. words \in [1..Limbs(n) -> SUBSET Position]
    BY DEF Word
  <1>3. ASSUME NEW k \in 1..Limbs(n), NEW b \in Position, (k - 1) * WordBits + b < n
        PROVE  b \in words[k] <=> (k - 1) * WordBits + b \in Ones(s)
    <2> DEFINE i == (k - 1) * WordBits + b
    <2>1. /\ b \in Nat /\ b < WordBits /\ WordBits \in Nat
          /\ (k - 1) * WordBits \in Nat
      BY WordBegins, WordBitsAssumption DEF Position
    <2>2. i \in 0 .. n - 1
      BY <1>3, <2>1
    <2>3. i \in Ones(s) <=> s[i + 1]
      BY <1>1, <2>2, GivenBits
    <2>4. i + 1 \in 1..n /\ (i + 1) - 1 = i
      BY <2>2
    <2>5. s[i + 1] <=> i + 1 <= WordBits /\ i \in value
      BY <2>4, Zenon
    <2>6. CASE k = 1
      <3>1. i = b
        BY <2>1, <2>6, WordBegins
      <3>2. s[i + 1] <=> b \in value
        BY <2>1, <2>5, <3>1
      <3>. QED
        BY <2>3, <2>6, <3>2
    <2>7. CASE k # 1
      <3>1. i >= WordBits
        BY <2>1, <2>7, WordBegins
      <3>2. ~ s[i + 1]
        BY <2>1, <2>5, <3>1
      <3>. QED
        BY <2>3, <2>7, <3>2
    <2>. QED
      BY <2>6, <2>7
  <1>4. Ones(s) \in SUBSET (0 .. n - 1) /\ from_array(s) = from_fn(n, Ones(s))
    BY <1>1, GivenBits
  <1> HIDE DEF s
  <1>5. from_words(n, words) = from_fn(n, Ones(s))
    <2> HIDE DEF words
    <2>. QED
      BY <1>2, <1>3, <1>4, FromWords
  <1>. QED
    BY <1>4, <1>5 DEF from_u64, s

\* zero is a string of zeros.
LEMMA ZeroBits ==
    ASSUME NEW n \in Nat
    PROVE  zero(n) = from_array([i \in 1..n |-> FALSE])
  <1> DEFINE s == [i \in 1..n |-> FALSE]
             words == [k \in 1..Limbs(n) |-> {}]
  <1>1. s \in [1..n -> BOOLEAN] /\ words \in [1..Limbs(n) -> SUBSET Position]
    OBVIOUS
  <1>2. Ones(s) \in SUBSET (0 .. n - 1) /\ from_array(s) = from_fn(n, Ones(s)) /\ Len(s) = n
    BY <1>1, GivenBits
  <1>3. Ones(s) = {}
    BY <1>2 DEF Ones
  <1>4. \A k \in 1..Limbs(n), b \in Position :
            b \in words[k] <=> (k - 1) * WordBits + b \in Ones(s)
    BY <1>3
  <1> HIDE DEF s
  <1>5. from_words(n, words) = from_fn(n, Ones(s))
    <2> HIDE DEF words
    <2>. QED
      BY <1>1, <1>2, <1>4, FromWords
  <1>. QED
    BY <1>2, <1>5 DEF zero, s

\* A bit of a shifted word.
LEMMA ShiftedBit ==
    ASSUME NEW word \in SUBSET Position, NEW k \in Nat, NEW b \in Position
    PROVE  /\ b \in Shr(word, k) <=> b + k \in word
           /\ b \in Shl(word, k) <=> b - k \in word
           /\ Shr(word, k) \in SUBSET Position
           /\ Shl(word, k) \in SUBSET Position
  <1>1. b \in Int /\ Position \subseteq Int
    BY DEF Position
  <1>2. b \in Shr(word, k) <=> b + k \in word
    BY <1>1 DEF Shr
  <1>3. b \in Shl(word, k) <=> b - k \in word
    BY <1>1 DEF Shl
  <1>. QED
    BY <1>2, <1>3 DEF Shr, Shl

\* A slice of the words is the slice of the bits, wherever its ends are.
LEMMA SliceBits ==
    ASSUME NEW s \in Seq(BOOLEAN), NEW offset \in Nat, NEW n \in Nat, offset + n <= Len(s)
    PROVE  slice(from_array(s), offset, n) = from_array([i \in 1..n |-> s[offset + i]])
  <1> DEFINE t == [i \in 1..n |-> s[offset + i]]
             p == from_array(s)
             first == offset \div WordBits
             shift == offset % WordBits
             high(k) == IF shift = 0 THEN {} ELSE Shl(WordAt(p, first + k), WordBits - shift)
             words == [k \in 1..Limbs(n) |-> Shr(WordAt(p, first + k - 1), shift) \cup high(k)]
  <1>1. t \in [1..n -> BOOLEAN]
    BY LenProperties, ElementOfSeq
  <1>2. Ones(t) \in SUBSET (0 .. n - 1) /\ from_array(t) = from_fn(n, Ones(t))
    BY <1>1, GivenBits
  <1>3. /\ first \in Nat /\ shift \in Position /\ shift = offset - first * WordBits
        /\ WordBits \in Nat /\ first * WordBits \in Nat
    <2>1. first \in Nat /\ shift \in Position /\ shift = offset - first * WordBits
      BY Divide
    <2>. QED
      BY <2>1, WordBitsAssumption
  <1>4. shift \in Nat /\ shift < WordBits
    BY <1>3 DEF Position
  <1>5. ASSUME NEW k \in Nat
        PROVE  WordAt(p, k) = {b \in Position : k * WordBits + b \in Ones(s)}
    <2>1. Len(s) \in Nat /\ Ones(s) \in SUBSET (0 .. Len(s) - 1) /\ p = from_fn(Len(s), Ones(s))
      BY ArrayOnes
    <2> HIDE DEF p
    <2>. QED
      BY <2>1, WordOf
  <1> HIDE DEF first, shift, p
  <1>6. ASSUME NEW k \in 1..Limbs(n)
        PROVE  words[k] \in SUBSET Position
    <2>1. k \in Nat
      BY LimbsCover
    <2>2. words[k] = Shr(WordAt(p, first + k - 1), shift) \cup high(k)
      OBVIOUS
    <2>. QED
      BY <2>2 DEF Shr, Shl
  <1>7. ASSUME NEW k \in 1..Limbs(n), NEW b \in Position, (k - 1) * WordBits + b < n
        PROVE  b \in words[k] <=> (k - 1) * WordBits + b \in Ones(t)
    <2> DEFINE start == (k - 1) * WordBits
               i == start + b
               low == WordAt(p, first + k - 1)
               next == WordAt(p, first + k)
               higher == high(k)
    <2>1. k \in Nat /\ start \in Nat /\ k - 1 \in Nat /\ k # 0
      BY WordBegins, LimbsCover
    <2>2. b \in Nat /\ b < WordBits
      BY <1>3 DEF Position
    <2>3. i \in 0 .. n - 1
      BY <1>7, <2>1, <2>2
    <2>4. i \in Ones(t) <=> t[i + 1]
      BY <1>1, <2>3, GivenBits
    <2>5. i + 1 \in 1..n /\ offset + (i + 1) = (offset + i) + 1
      BY <2>3
    <2>6. t[i + 1] = s[(offset + i) + 1]
      BY <2>5
    <2>7. offset + i \in 0 .. Len(s) - 1
      BY <2>3, LenProperties
    <2>8. i \in Ones(t) <=> offset + i \in Ones(s)
      BY <2>4, <2>6, <2>7, ArrayOnes
    <2>9. /\ first + k - 1 \in Nat /\ first + k \in Nat
          /\ (first + k - 1) * WordBits = first * WordBits + start
          /\ (first + k) * WordBits = first * WordBits + start + WordBits
      BY <1>3, <2>1
    <2>10. /\ low = {c \in Position : first * WordBits + start + c \in Ones(s)}
           /\ next = {c \in Position : first * WordBits + start + WordBits + c \in Ones(s)}
      BY <1>5, <2>9
    <2> HIDE DEF start, low, next
    <2>11. words[k] = Shr(low, shift) \cup higher
      BY DEF low
    <2> HIDE DEF words
    <2>12. b \in Shr(low, shift) <=> b + shift \in low
      BY <1>4, <2>10, ShiftedBit
    <2>13. shift # 0 => (b \in higher <=> b - (WordBits - shift) \in next)
      <3>1. WordBits - shift \in Nat
        BY <1>3, <1>4
      <3>. QED
        BY <2>10, <3>1, ShiftedBit DEF next
    <2>14. CASE b + shift < WordBits
      <3>1. b + shift \in Position /\ first * WordBits + start + (b + shift) = offset + i
        BY <1>3, <1>4, <2>1, <2>2, <2>14 DEF Position
      <3>2. b + shift \in low <=> offset + i \in Ones(s)
        BY <2>10, <3>1
      <3>3. b - (WordBits - shift) \notin Position
        BY <1>3, <1>4, <2>2, <2>14 DEF Position
      <3>4. b \notin higher
        BY <2>10, <2>13, <3>3
      <3>. QED
        BY <2>8, <2>11, <2>12, <3>2, <3>4 DEF start
    <2>15. CASE b + shift >= WordBits
      <3> DEFINE c == b - (WordBits - shift)
      <3>1. c \in Position /\ first * WordBits + start + WordBits + c = offset + i
        BY <1>3, <1>4, <2>1, <2>2, <2>15 DEF Position
      <3>2. c \in next <=> offset + i \in Ones(s)
        BY <2>10, <3>1
      <3>3. b + shift \notin Position /\ shift # 0
        BY <1>3, <1>4, <2>2, <2>15 DEF Position
      <3>4. b + shift \notin low
        BY <2>10, <3>3
      <3>. QED
        BY <2>8, <2>11, <2>12, <2>13, <3>2, <3>3, <3>4 DEF start
    <2>. QED
      BY <1>3, <1>4, <2>2, <2>14, <2>15
  <1> HIDE DEF t
  <1>8. words \in [1..Limbs(n) -> SUBSET Position]
    BY <1>6
  <1>9. from_words(n, words) = from_fn(n, Ones(t))
    <2> HIDE DEF words
    <2>. QED
      BY <1>2, <1>7, <1>8, FromWords
  <1>. QED
    BY <1>2, <1>9 DEF slice, t, p, first, shift

\* The disjunction of the words that differ is that of the bits.
LEMMA XorBits ==
    ASSUME NEW s \in Seq(BOOLEAN), NEW other \in [1..Len(s) -> BOOLEAN]
    PROVE  xor(from_array(s), from_array(other))
              = from_array([i \in DOMAIN s |-> s[i] # other[i]])
  <1> DEFINE n == Len(s)
             t == [i \in DOMAIN s |-> s[i] # other[i]]
             p == from_array(s)
             q == from_array(other)
  <1>1. n \in Nat /\ DOMAIN s = 1..n /\ t \in [1..n -> BOOLEAN] /\ other \in [1..n -> BOOLEAN]
    BY LenProperties
  <1>2. /\ p = from_fn(n, Ones(s)) /\ q = from_fn(n, Ones(other)) /\ from_array(t) = from_fn(n, Ones(t))
        /\ Ones(s) \in SUBSET (0 .. n - 1) /\ Ones(other) \in SUBSET (0 .. n - 1)
        /\ Ones(t) \in SUBSET (0 .. n - 1)
    BY <1>1, ArrayOnes, GivenBits
  <1>3. ASSUME NEW i \in 0 .. n - 1
        PROVE  i \in Ones(t) <=> (i \in Ones(s)) # (i \in Ones(other))
    <2>1. i + 1 \in 1..n
      BY <1>1
    <2>2. t[i + 1] <=> s[i + 1] # other[i + 1]
      BY <1>1, <2>1
    <2>3. /\ i \in Ones(t) <=> t[i + 1]
          /\ i \in Ones(s) <=> s[i + 1]
          /\ i \in Ones(other) <=> other[i + 1]
      BY <1>1, ArrayOnes, GivenBits
    <2>4. s[i + 1] \in BOOLEAN /\ other[i + 1] \in BOOLEAN
      BY <1>1, <2>1, ElementOfSeq
    <2> HIDE DEF t, n
    <2>. QED
      BY <2>2, <2>3, <2>4
  <1>4. /\ \A i \in Ones(t) : (i \in Ones(s)) # (i \in Ones(other))
        /\ \A i \in Ones(s) : i \notin Ones(other) => i \in Ones(t)
        /\ \A i \in Ones(other) : i \notin Ones(s) => i \in Ones(t)
    BY <1>2, <1>3
  <1> DEFINE word(k, ones) == {b \in Position : (k - 1) * WordBits + b \in ones}
  <1>5. /\ p.n = n /\ p.words = [k \in 1..Limbs(n) |-> word(k, Ones(s))]
        /\ q.words = [k \in 1..Limbs(n) |-> word(k, Ones(other))]
        /\ from_array(t) = [n |-> n, words |-> [k \in 1..Limbs(n) |-> word(k, Ones(t))]]
    BY <1>2 DEF from_fn
  <1> HIDE DEF t, p, q, n
  <1>6. ASSUME NEW k \in 1..Limbs(n)
        PROVE  (word(k, Ones(s)) \ word(k, Ones(other))) \cup (word(k, Ones(other)) \ word(k, Ones(s)))
                 = word(k, Ones(t))
    BY <1>4
  <1> HIDE DEF word
  <1>7. xor(p, q) = [n |-> n, words |-> [k \in 1..Limbs(n) |->
          (word(k, Ones(s)) \ word(k, Ones(other))) \cup (word(k, Ones(other)) \ word(k, Ones(s)))]]
    BY <1>5 DEF xor
  <1>. QED
    BY <1>5, <1>6, <1>7 DEF t, p, q

\* Narrowing and widening keep the low bits.
LEMMA TruncateBits ==
    ASSUME NEW s \in Seq(BOOLEAN), NEW n \in Nat
    PROVE  truncate(from_array(s), n) = from_array([i \in 1..n |-> i <= Len(s) /\ s[i]])
  <1> DEFINE t == [i \in 1..n |-> i <= Len(s) /\ s[i]]
             p == from_array(s)
  <1>1. t \in [1..n -> BOOLEAN]
    OBVIOUS
  <1>2. /\ p = from_fn(Len(s), Ones(s)) /\ Ones(s) \in SUBSET (0 .. Len(s) - 1) /\ Len(s) \in Nat
        /\ from_array(t) = from_fn(n, Ones(t)) /\ Ones(t) \in SUBSET (0 .. n - 1)
    BY <1>1, ArrayOnes, GivenBits
  <1>3. p.n = Len(s)
    BY DEF from_array, from_fn
  <1>4. ASSUME NEW i \in 0 .. n - 1
        PROVE  i < p.n /\ bit(p, i) <=> i \in Ones(t)
    <2>1. i \in Ones(t) <=> t[i + 1]
      BY <1>1, GivenBits
    <2>2. i + 1 \in 1..n
      OBVIOUS
    <2>3. t[i + 1] <=> i + 1 <= Len(s) /\ s[i + 1]
      BY <2>2, Zenon
    <2> HIDE DEF t, p
    <2>4. CASE i < Len(s)
      <3>1. i \in 0 .. Len(s) - 1
        BY <1>2, <2>4
      <3>2. bit(p, i) <=> i \in Ones(s)
        BY <1>2, <3>1, BitOf
      <3>3. i \in Ones(s) <=> s[i + 1]
        BY <3>1, ArrayOnes
      <3>4. i + 1 <= Len(s)
        BY <1>2, <2>4
      <3>. QED
        BY <1>3, <2>1, <2>3, <2>4, <3>2, <3>3, <3>4
    <2>5. CASE ~ (i < Len(s))
      <3>1. ~ (i + 1 <= Len(s))
        BY <1>2, <2>5
      <3>. QED
        BY <1>3, <2>1, <2>3, <2>5, <3>1
    <2>. QED
      BY <2>4, <2>5
  <1> HIDE DEF t, p
  <1>5. {i \in 0 .. n - 1 : i < p.n /\ bit(p, i)} = Ones(t)
    BY <1>2, <1>4
  <1>. QED
    BY <1>2, <1>5 DEF truncate, t, p

\* A string that fits into one word, and its only word.
LEMMA OneWord ==
    ASSUME NEW s \in Seq(BOOLEAN), Len(from_array(s).words) = 1
    PROVE  /\ Len(s) \in Nat \ {0} /\ Len(s) <= WordBits
           /\ from_array(s).words[1] \in Word
           /\ \A b \in Nat : b \in from_array(s).words[1] <=> b < Len(s) /\ s[b + 1]
  <1> DEFINE n == Len(s)
             p == from_array(s)
  <1>1. /\ n \in Nat /\ Ones(s) \in SUBSET (0 .. n - 1) /\ p = from_fn(n, Ones(s))
        /\ \A i \in 0 .. n - 1 : i \in Ones(s) <=> s[i + 1]
    BY ArrayOnes
  <1> DEFINE words == [k \in 1..Limbs(n) |-> {b \in Position : (k - 1) * WordBits + b \in Ones(s)}]
  <1>2. p.words = words
    BY <1>1 DEF from_fn
  <1>3. Limbs(n) \in Nat /\ \A k \in Nat : k * WordBits < n <=> k < Limbs(n)
    BY <1>1, LimbsCover
  <1>4. Limbs(n) = 1
    <2>1. Len(words) = Limbs(n)
      BY <1>3
    <2>. QED
      BY <1>2, <2>1
  <1>5. 0 < n /\ n <= WordBits /\ WordBits \in Nat
    <2>1. WordBits \in Nat /\ 0 * WordBits = 0 /\ 1 * WordBits = WordBits
      BY WordBitsAssumption
    <2>2. 0 * WordBits < n /\ ~ (1 * WordBits < n)
      BY <1>3, <1>4
    <2>. QED
      BY <1>1, <2>1, <2>2
  <1>6. words[1] = {b \in Position : b \in Ones(s)}
    <2>1. words[1] = {b \in Position : (1 - 1) * WordBits + b \in Ones(s)}
      BY <1>4
    <2>2. \A b \in Position : (1 - 1) * WordBits + b = b
      BY <1>5 DEF Position
    <2> HIDE DEF words
    <2>. QED
      BY <2>1, <2>2
  <1>7. ASSUME NEW b \in Nat PROVE b \in p.words[1] <=> b < n /\ s[b + 1]
    <2>1. CASE b < n
      <3>1. b \in 0 .. n - 1 /\ b \in Position
        BY <1>1, <1>5, <2>1 DEF Position
      <3>. QED
        BY <1>1, <1>2, <1>6, <2>1, <3>1
    <2>2. CASE ~ (b < n)
      <3>1. b \notin Ones(s)
        BY <1>1, <2>2
      <3>. QED
        BY <1>2, <1>6, <2>2, <3>1
    <2>. QED
      BY <2>1, <2>2
  <1>8. p.words[1] \in Word
    BY <1>2, <1>6 DEF Word
  <1>. QED
    BY <1>1, <1>5, <1>7, <1>8

\* What a shift brings down, zeros from beyond the end.
LEMMA ShiftRightBits ==
    ASSUME NEW s \in Seq(BOOLEAN), NEW amount \in Nat
    PROVE  shift_right(from_array(s), amount)
              = from_array([i \in DOMAIN s |-> i + amount <= Len(s) /\ s[i + amount]])
  <1> DEFINE n == Len(s)
             t == [i \in DOMAIN s |-> i + amount <= Len(s) /\ s[i + amount]]
             p == from_array(s)
  <1>1. n \in Nat /\ DOMAIN s = 1..n /\ t \in [1..n -> BOOLEAN]
    BY LenProperties
  <1>2. /\ p = from_fn(n, Ones(s)) /\ Ones(s) \in SUBSET (0 .. n - 1) /\ p.n = n
        /\ from_array(t) = from_fn(n, Ones(t)) /\ Ones(t) \in SUBSET (0 .. n - 1)
    BY <1>1, ArrayOnes, GivenBits DEF from_array, from_fn
  <1>3. ASSUME NEW i \in 1..n
        PROVE  t[i] <=> i + amount <= n /\ s[i + amount]
    BY <1>1, <1>3, Zenon
  <1> HIDE DEF t, p
  <1>4. CASE amount >= n
    <2>1. \A i \in 1..n : ~ (i + amount <= n)
      BY <1>1, <1>4
    <2>2. t = [i \in 1..n |-> FALSE]
      BY <1>1, <1>3, <2>1
    <2>3. shift_right(p, amount) = zero(n)
      BY <1>2, <1>4 DEF shift_right
    <2>. QED
      BY <1>1, <2>2, <2>3, ZeroBits DEF t, p
  <1>5. CASE ~ (amount >= n) /\ Len(p.words) = 1
    <2> DEFINE value == Shr(p.words[1], amount)
               u == [i \in 1..n |-> i <= WordBits /\ (i - 1) \in value]
    <2>1. /\ n <= WordBits /\ p.words[1] \in SUBSET Position
          /\ \A b \in Nat : b \in p.words[1] <=> b < n /\ s[b + 1]
      BY <1>5, OneWord DEF p, Word
    <2>2. value \in Word
      BY DEF Shr, Word
    <2>3. ASSUME NEW i \in 1..n PROVE t[i] = u[i]
      <3>1. i - 1 \in Position /\ i <= WordBits /\ i - 1 + amount \in Nat
        BY <1>1, <2>1, WordBitsAssumption DEF Position
      <3>2. (i - 1) \in value <=> i - 1 + amount \in p.words[1]
        BY <2>1, <3>1, ShiftedBit
      <3>3. i - 1 + amount \in p.words[1] <=> i - 1 + amount < n /\ s[(i - 1 + amount) + 1]
        BY <2>1, <3>1
      <3>4. (i - 1 + amount) + 1 = i + amount /\ (i - 1 + amount < n <=> i + amount <= n)
        BY <1>1
      <3>5. u[i] <=> (i - 1) \in value
        BY <3>1
      <3>6. t[i] \in BOOLEAN /\ u[i] \in BOOLEAN
        BY <1>1
      <3> HIDE DEF u, value
      <3>7. t[i] <=> u[i]
        BY <1>3, <3>2, <3>3, <3>4, <3>5
      <3>. QED
        BY <3>6, <3>7
    <2>4. t = u
      BY <1>1, <2>3
    <2>5. shift_right(p, amount) = from_u64(n, value)
      BY <1>2, <1>5 DEF shift_right
    <2> HIDE DEF value
    <2>6. from_u64(n, value) = from_array(u)
      BY <1>1, <2>2, FromU64Bits
    <2>. QED
      BY <2>4, <2>5, <2>6 DEF t, p
  <1>6. CASE ~ (amount >= n) /\ Len(p.words) # 1
    <2>1. ASSUME NEW i \in 0 .. n - 1
          PROVE  i \in Ones(t) <=> i + amount < n /\ bit(p, i + amount)
      <3>1. i \in Ones(t) <=> t[i + 1]
        BY <1>1, GivenBits
      <3>2. i + 1 \in 1..n /\ (i + 1) + amount = (i + amount) + 1
        BY <1>1
      <3>3. t[i + 1] <=> (i + amount) + 1 <= n /\ s[(i + amount) + 1]
        BY <1>3, <3>2
      <3>4. (i + amount) + 1 <= n <=> i + amount < n
        BY <1>1
      <3>5. ASSUME i + amount < n
            PROVE  bit(p, i + amount) <=> s[(i + amount) + 1]
        <4>1. i + amount \in 0 .. n - 1
          BY <1>1, <3>5
        <4>. QED
          BY <1>1, <1>2, <4>1, BitOf, ArrayOnes
      <3>. QED
        BY <3>1, <3>3, <3>4, <3>5
    <2>2. {i \in 0 .. n - 1 : i + amount < p.n /\ bit(p, i + amount)} = Ones(t)
      BY <1>2, <2>1
    <2>3. shift_right(p, amount) = from_fn(n, {i \in 0 .. n - 1 : i + amount < p.n /\ bit(p, i + amount)})
      BY <1>2, <1>6 DEF shift_right
    <2>. QED
      BY <1>2, <2>2, <2>3 DEF t, p
  <1>. QED
    BY <1>4, <1>5, <1>6

\* A rotation by less than a turn.
LEMMA Rotated ==
    ASSUME NEW n \in Nat \ {0}, NEW i \in 0 .. n - 1, NEW amount \in Nat
    PROVE  LET by == amount % n
               to == IF i + by < n THEN i + by ELSE i + by - n
           IN  by \in 0 .. n - 1 /\ to \in 0 .. n - 1 /\ (i + amount) % n = to /\ (i + by) % n = to
  <1> DEFINE by == amount % n
             q == amount \div n
             to == IF i + by < n THEN i + by ELSE i + by - n
  <1>1. q \in Nat /\ by \in 0 .. n - 1 /\ by = amount - q * n
    OBVIOUS
  <1>2. q * n \in Nat /\ amount = q * n + by
    BY <1>1
  <1> HIDE DEF q, by
  <1>3. to \in 0 .. n - 1
    BY <1>1
  <1>4. ASSUME NEW m \in Nat, NEW k \in Nat, NEW r \in 0 .. n - 1, m = k * n + r
        PROVE  m % n = r
    <2> DEFINE d == m \div n
    <2>1. d \in Nat /\ m % n \in 0 .. n - 1 /\ m % n = m - d * n
      OBVIOUS
    <2>2. d * n \in Nat /\ k * n \in Nat
      BY <2>1
    <2> HIDE DEF d
    <2>3. ~ (d < k)
      BY <1>4, <2>1, <2>2, Multiples
    <2>4. ~ (k < d)
      BY <1>4, <2>1, <2>2, Multiples
    <2>5. d = k
      BY <2>1, <2>3, <2>4
    <2>. QED
      BY <1>4, <2>1, <2>2, <2>5
  <1>5. CASE i + by < n
    <2>1. i + amount = q * n + to /\ i + by = 0 * n + to /\ i + by \in Nat /\ i + amount \in Nat
      BY <1>1, <1>2, <1>5
    <2>. QED
      BY <1>1, <1>3, <1>4, <2>1 DEF by
  <1>6. CASE ~ (i + by < n)
    <2>1. (q + 1) * n = q * n + n /\ 1 * n = n /\ q + 1 \in Nat
      BY <1>1
    <2>2. i + amount = (q + 1) * n + to /\ i + by = 1 * n + to /\ i + by \in Nat /\ i + amount \in Nat
      BY <1>1, <1>2, <1>6, <2>1
    <2>. QED
      BY <1>1, <1>3, <1>4, <2>1, <2>2 DEF by
  <1>. QED
    BY <1>5, <1>6

\* A rotation of the words, of one by two shifts, of more bit by bit.
LEMMA RotateRightBits ==
    ASSUME NEW s \in Seq(BOOLEAN), NEW amount \in Nat
    PROVE  rotate_right(from_array(s), amount)
              = from_array([i \in DOMAIN s |-> s[((i - 1 + amount) % Len(s)) + 1]])
  <1> DEFINE n == Len(s)
             by == amount % n
             to(i) == (i + amount) % n
             t == [i \in DOMAIN s |-> s[((i - 1 + amount) % n) + 1]]
             p == from_array(s)
  <1> SUFFICES rotate_right(p, amount) = from_array(t)
    OBVIOUS
  <1>1. n \in Nat /\ DOMAIN s = 1..n /\ p.n = n
    BY LenProperties DEF from_array, from_fn
  <1>2. CASE n = 0
    <2>1. rotate_right(p, amount) = zero(0)
      BY <1>1, <1>2 DEF rotate_right
    <2>2. DOMAIN s = {}
      BY <1>1, <1>2
    <2>3. t = [i \in 1..0 |-> FALSE]
      BY <2>2
    <2> HIDE DEF t, p
    <2>4. from_array(t) = zero(0)
      BY <2>3, ZeroBits
    <2>. QED
      BY <2>1, <2>4
  <1>3. CASE n # 0
    <2>1. ASSUME NEW i \in 0 .. n - 1
          PROVE  /\ by \in 0 .. n - 1 /\ to(i) \in 0 .. n - 1 /\ (i + by) % n = to(i)
                 /\ to(i) = IF i + by < n THEN i + by ELSE i + by - n
      BY <1>1, <1>3, Rotated
    <2>2. by \in 0 .. n - 1
      BY <1>1, <1>3
    <2>3. ASSUME NEW i \in 1..n
          PROVE  i - 1 \in 0 .. n - 1 /\ t[i] = s[to(i - 1) + 1] /\ t[i] \in BOOLEAN
      <3>1. i - 1 \in 0 .. n - 1 /\ t[i] = s[to(i - 1) + 1]
        BY <1>1
      <3>2. to(i - 1) + 1 \in 1..n
        BY <1>1, <2>1, <3>1
      <3>. QED
        BY <1>1, <3>1, <3>2, ElementOfSeq
    <2> HIDE DEF by, to
    <2>4. t \in [1..n -> BOOLEAN]
      <3>1. t = [i \in 1..n |-> t[i]]
        BY <1>1
      <3> HIDE DEF t
      <3>. QED
        BY <2>3, <3>1
    <2>5. /\ p = from_fn(n, Ones(s)) /\ Ones(s) \in SUBSET (0 .. n - 1)
          /\ from_array(t) = from_fn(n, Ones(t)) /\ Ones(t) \in SUBSET (0 .. n - 1)
      BY <1>1, <2>4, ArrayOnes, GivenBits
    <2> HIDE DEF t, p
    <2>6. CASE Len(p.words) = 1 /\ by = 0
      <3>1. ASSUME NEW i \in 1..n PROVE t[i] = s[i]
        <4>1. to(i - 1) + 1 = i
          BY <1>1, <2>1, <2>3, <2>6
        <4>. QED
          BY <2>3, <4>1
      <3>2. t = s
        <4>1. s = [i \in 1..n |-> s[i]]
          BY <1>1, LenProperties
        <4>2. t = [i \in 1..n |-> t[i]]
          BY <2>4
        <4>. QED
          BY <3>1, <4>1, <4>2
      <3>3. rotate_right(p, amount) = p
        BY <1>1, <1>3, <2>6 DEF rotate_right, by
      <3>. QED
        BY <3>2, <3>3 DEF t, p
    <2>7. CASE Len(p.words) = 1 /\ by # 0
      <3> DEFINE word == p.words[1]
                 value == Shr(word, by) \cup Shl(word, n - by)
                 u == [i \in 1..n |-> i <= WordBits /\ (i - 1) \in value]
      <3>1. /\ n <= WordBits /\ word \in SUBSET Position
            /\ \A b \in Nat : b \in word <=> b < n /\ s[b + 1]
        BY <2>7, OneWord DEF p, Word
      <3>2. by \in Nat /\ n - by \in Nat
        BY <1>1, <2>2
      <3>3. value \in Word
        BY DEF Shr, Shl, Word
      <3>4. ASSUME NEW i \in 1..n PROVE t[i] = u[i]
        <4>1. i - 1 \in Position /\ i <= WordBits
          BY <1>1, <3>1, WordBitsAssumption DEF Position
        <4>2. (i - 1) \in value <=> i - 1 + by \in word \/ i - 1 - (n - by) \in word
          <5>1. (i - 1) \in Shr(word, by) <=> i - 1 + by \in word
            BY <3>1, <3>2, <4>1, ShiftedBit
          <5>2. (i - 1) \in Shl(word, n - by) <=> i - 1 - (n - by) \in word
            BY <3>1, <3>2, <4>1, ShiftedBit
          <5>. QED
            BY <5>1, <5>2
        <4>3. (i - 1) \in value <=> s[to(i - 1) + 1]
          <5>1. CASE i - 1 + by < n
            <6>1. i - 1 + by \in Nat /\ to(i - 1) = i - 1 + by
              BY <1>1, <2>1, <2>3, <3>2, <5>1
            <6>2. i - 1 - (n - by) \notin Position
              BY <1>1, <3>2, <5>1 DEF Position
            <6>. QED
              BY <3>1, <4>2, <5>1, <6>1, <6>2
          <5>2. CASE ~ (i - 1 + by < n)
            <6>1. i - 1 + by \in Nat /\ to(i - 1) = i - 1 + by - n
              BY <1>1, <2>1, <2>3, <3>2, <5>2
            <6>2. i - 1 - (n - by) = i - 1 + by - n /\ i - 1 + by - n \in Nat /\ i - 1 + by - n < n
              BY <1>1, <2>2, <3>2, <5>2
            <6>. QED
              BY <3>1, <4>2, <5>2, <6>1, <6>2
          <5>. QED
            BY <5>1, <5>2
        <4>4. u[i] <=> (i - 1) \in value
          BY <4>1
        <4>5. u[i] \in BOOLEAN
          OBVIOUS
        <4> HIDE DEF u, value
        <4>. QED
          BY <2>3, <4>3, <4>4, <4>5
      <3>5. t = u
        BY <2>4, <3>4
      <3>6. rotate_right(p, amount) = from_u64(n, value)
        BY <1>1, <1>3, <2>7 DEF rotate_right, by
      <3> HIDE DEF value
      <3>7. from_u64(n, value) = from_array(u)
        BY <1>1, <3>3, FromU64Bits
      <3>. QED
        BY <3>5, <3>6, <3>7 DEF t, p
    <2>8. CASE Len(p.words) # 1
      <3>1. ASSUME NEW i \in 0 .. n - 1
            PROVE  i \in Ones(t) <=> bit(p, (i + by) % n)
        <4>1. i \in Ones(t) <=> t[i + 1]
          BY <1>1, <2>4, GivenBits
        <4>2. i + 1 \in 1..n /\ (i + 1) - 1 = i
          BY <1>1
        <4>3. t[i + 1] = s[to(i) + 1]
          BY <2>3, <4>2
        <4>4. bit(p, to(i)) <=> s[to(i) + 1]
          BY <1>1, <2>1, <2>5, BitOf, ArrayOnes
        <4>. QED
          BY <2>1, <4>1, <4>3, <4>4
      <3>2. {i \in 0 .. n - 1 : bit(p, (i + by) % n)} = Ones(t)
        BY <2>5, <3>1
      <3>3. rotate_right(p, amount) = from_fn(n, {i \in 0 .. n - 1 : bit(p, (i + by) % n)})
        BY <1>1, <1>3, <2>8 DEF rotate_right, by
      <3>. QED
        BY <2>5, <3>2, <3>3 DEF t, p
    <2>. QED
      BY <2>6, <2>7, <2>8
  <1>. QED
    BY <1>2, <1>3

\* The integer of the low bits, whichever word the width ends in.
LEMMA PrefixBits ==
    ASSUME NEW s \in Seq(BOOLEAN), NEW limbs \in Nat, NEW width \in 0 .. Len(s),
           width <= limbs * WordBits
    PROVE  from_packed_prefix(limbs, from_array(s), width)
              = from_packed_bits(limbs, from_array(SubSeq(s, 1, width)))
  <1> DEFINE u == SubSeq(s, 1, width)
             p == from_array(s)
             low == from_array(u)
             l == Limbs(width)
             q == width \div WordBits
             r == width % WordBits
             value == from_packed_bits(limbs, p)
  <1>1. /\ width \in Nat /\ u \in Seq(BOOLEAN) /\ Len(u) = width
        /\ \A i \in 1..width : u[i] = s[i]
    BY LenProperties, SubSeqProperties
  <1>2. /\ q \in Nat /\ r \in 0 .. WordBits - 1 /\ r = width - q * WordBits
        /\ WordBits \in Nat /\ q * WordBits \in Nat
    <2>1. q \in Nat /\ r \in 0 .. WordBits - 1 /\ r = width - q * WordBits
      BY <1>1, Divide DEF Position
    <2>. QED
      BY <2>1, WordBitsAssumption
  <1>3. /\ l \in Nat /\ l = IF r = 0 THEN q ELSE q + 1
        /\ \A k \in Nat : k * WordBits < width <=> k < l
    BY <1>1, LimbsCover, LimbsExact
  <1>4. l <= limbs
    <2>1. limbs * WordBits \in Nat
      BY <1>2
    <2>. QED
      BY <1>1, <1>3, <2>1
  <1>5. ASSUME NEW i \in Nat
        PROVE  i \in Ones(u) <=> i < width /\ i \in Ones(s)
    <2>1. Len(s) \in Nat /\ width <= Len(s)
      BY LenProperties
    <2>2. CASE i < width
      <3>1. i \in 0 .. Len(u) - 1 /\ i \in 0 .. Len(s) - 1
        BY <1>1, <2>1, <2>2
      <3>2. (i \in Ones(u) <=> u[i + 1]) /\ (i \in Ones(s) <=> s[i + 1])
        BY <1>1, <3>1, ArrayOnes
      <3>3. i + 1 \in 1..width
        BY <1>1, <2>2
      <3>. QED
        BY <1>1, <2>2, <3>2, <3>3
    <2>3. CASE ~ (i < width)
      <3> HIDE DEF u
      <3>1. Ones(u) \in SUBSET (0 .. width - 1)
        BY <1>1, ArrayOnes
      <3>2. i \notin Ones(u)
        BY <1>1, <2>3, <3>1
      <3>. QED
        BY <2>3, <3>2 DEF u
    <2>. QED
      BY <2>2, <2>3
  <1>6. ASSUME NEW k \in Nat
        PROVE  /\ WordAt(p, k) = {b \in Position : k * WordBits + b \in Ones(s)}
               /\ WordAt(low, k) = {b \in Position : k * WordBits + b \in Ones(u)}
    <2>1. /\ Len(s) \in Nat /\ Ones(s) \in SUBSET (0 .. Len(s) - 1) /\ p = from_fn(Len(s), Ones(s))
      BY ArrayOnes
    <2>2. Ones(u) \in SUBSET (0 .. width - 1) /\ low = from_fn(width, Ones(u))
      BY <1>1, ArrayOnes
    <2> HIDE DEF p, u, low
    <2>3. WordAt(p, k) = {b \in Position : k * WordBits + b \in Ones(s)}
      BY <2>1, WordOf
    <2>4. WordAt(low, k) = {b \in Position : k * WordBits + b \in Ones(u)}
      BY <1>1, <2>2, WordOf
    <2>. QED
      BY <2>3, <2>4
  <1>7. from_packed_prefix(limbs, p, width) = [k \in 1..limbs |->
            IF k > l THEN {} ELSE IF k = l /\ r # 0 THEN LowBits(value[k], r) ELSE value[k]]
    <2>1. (IF l < limbs THEN l ELSE limbs) = l
      BY <1>3, <1>4
    <2> HIDE DEF p
    <2>. QED
      BY <2>1 DEF from_packed_prefix
  <1> HIDE DEF u, p, low, l, q, r
  <1>8. ASSUME NEW k \in 1..limbs
        PROVE  (IF k > l THEN {} ELSE IF k = l /\ r # 0 THEN LowBits(value[k], r) ELSE value[k])
                  = WordAt(low, k - 1)
    <2> DEFINE start == (k - 1) * WordBits
               word == {b \in Position : start + b \in Ones(s)}
    <2>1. k \in Nat /\ k - 1 \in Nat /\ start \in Nat
      <3>1. k \in Nat /\ k - 1 \in Nat
        OBVIOUS
      <3>. QED
        BY <1>2, <3>1
    <2>2. value[k] = word
      BY <1>6, <2>1 DEF from_packed_bits
    <2>3. WordAt(low, k - 1) = {b \in Position : start + b \in Ones(u)}
      BY <1>6, <2>1
    <2> HIDE DEF start, value
    <2>4. \A b \in Position : start + b \in Nat
      BY <2>1 DEF Position
    <2>5. WordAt(low, k - 1) = {b \in word : start + b < width}
      BY <1>5, <2>3, <2>4
    <2> HIDE DEF word
    <2>6. word \subseteq Position
      BY DEF word
    <2>7. CASE k > l
      <3>1. start >= width
        BY <1>1, <1>3, <2>1, <2>7 DEF start
      <3>2. \A b \in Position : ~ (start + b < width)
        BY <1>1, <2>1, <3>1 DEF Position
      <3>. QED
        BY <2>5, <2>6, <2>7, <3>2
    <2>8. CASE k = l /\ r # 0
      <3>1. k - 1 = q
        BY <1>2, <1>3, <2>8
      <3>2. start = q * WordBits
        BY <3>1 DEF start
      <3>3. \A b \in Position : start + b < width <=> b < r
        BY <1>1, <1>2, <3>2 DEF Position
      <3>4. ~ (k > l)
        BY <1>3, <2>8
      <3>. QED
        BY <2>2, <2>5, <2>6, <2>8, <3>3, <3>4 DEF LowBits
    <2>9. CASE ~ (k > l) /\ ~ (k = l /\ r # 0)
      <3>1. k * WordBits \in Nat /\ k * WordBits = start + WordBits
        BY <1>2, <2>1 DEF start
      <3>2. k * WordBits <= width
        <4>1. CASE k < l
          BY <1>1, <1>3, <2>1, <3>1, <4>1
        <4>2. CASE k = l
          <5>1. r = 0 /\ k = q
            BY <1>2, <1>3, <2>9, <4>2
          <5>. QED
            BY <1>1, <1>2, <5>1
        <4>. QED
          BY <1>3, <2>1, <2>9, <4>1, <4>2
      <3>3. \A b \in Position : start + b < width
        BY <1>1, <1>2, <2>1, <3>1, <3>2 DEF Position
      <3>. QED
        BY <2>2, <2>5, <2>6, <2>9, <3>3
    <2>. QED
      BY <2>7, <2>8, <2>9
  <1>9. from_packed_bits(limbs, low) = [k \in 1..limbs |-> WordAt(low, k - 1)]
    BY DEF from_packed_bits
  <1> HIDE DEF value
  <1>. QED
    BY <1>7, <1>8, <1>9 DEF u, p, low
-----------------------------------------------------------------------------
\* A witness that holds n bits, those of the indices in ones.
Holds(w, n, ones) == w.bit_len = n /\ w.words = from_fn(n, ones).words

\* The words of a packed string, as a sequence.
LEMMA WordsOf ==
    ASSUME NEW n \in Nat, NEW ones \in SUBSET (0 .. n - 1)
    PROVE  /\ from_fn(n, ones).words \in Seq(SUBSET Position)
           /\ Len(from_fn(n, ones).words) = Limbs(n)
           /\ \A k \in 1..Limbs(n) :
                from_fn(n, ones).words[k] = {b \in Position : (k - 1) * WordBits + b \in ones}
  <1> DEFINE words == [k \in 1..Limbs(n) |-> {b \in Position : (k - 1) * WordBits + b \in ones}]
  <1>1. from_fn(n, ones).words = words /\ Limbs(n) \in Nat
    BY LimbsCover DEF from_fn
  <1>2. words \in Seq(SUBSET Position) /\ Len(words) = Limbs(n)
    BY <1>1
  <1>. QED
    BY <1>1, <1>2

\* A word that is appended at the end of the bits, in the rest of the last word
\* and, when it does not fit, the beginning of another.
LEMMA AppendWord ==
    ASSUME NEW n \in Nat, NEW ones \in SUBSET (0 .. n - 1), NEW w, Holds(w, n, ones),
           NEW value \in SUBSET Position, NEW width \in 1..WordBits
    PROVE  Holds(append_word(w, value, width), n + width,
                 ones \cup {n + b : b \in LowBits(value, width)})
  <1> DEFINE low == LowBits(value, width)
             more == ones \cup {n + b : b \in low}
             q == n \div WordBits
             offset == n % WordBits
             words == w.words
             good == from_fn(n + width, more).words
             filled == [words EXCEPT ![Len(words)] = @ \cup Shl(low, offset)]
  <1>1. /\ q \in Nat /\ offset \in 0 .. WordBits - 1 /\ offset = n - q * WordBits
        /\ WordBits \in Nat /\ q * WordBits \in Nat /\ width # 0 /\ width \in Nat
        /\ (q + 1) * WordBits = q * WordBits + WordBits
        /\ (q + 2) * WordBits = q * WordBits + WordBits + WordBits
    <2>1. q \in Nat /\ offset \in 0 .. WordBits - 1 /\ offset = n - q * WordBits
      BY Divide DEF Position
    <2>2. WordBits \in Nat /\ width # 0 /\ width \in Nat
      BY WordBitsAssumption
    <2>3. q * WordBits \in Nat
      BY <2>1, <2>2
    <2>4. /\ (q + 1) * WordBits = q * WordBits + WordBits
          /\ (q + 2) * WordBits = q * WordBits + WordBits + WordBits
      BY <2>1, <2>2
    <2>. QED
      BY <2>1, <2>2, <2>3, <2>4
  <1>2. low \in SUBSET Position /\ \A b \in low : b \in Nat /\ b < width
    <2>1. Position \subseteq Nat
      BY <1>1 DEF Position
    <2>2. low \in SUBSET Position
      BY DEF LowBits
    <2>3. \A b \in low : b < width
      BY DEF LowBits
    <2> HIDE DEF low
    <2>. QED
      BY <2>1, <2>2, <2>3
  <1>3. more \in SUBSET (0 .. (n + width) - 1) /\ n + width \in Nat
    <2> HIDE DEF low
    <2>1. \A b \in low : n + b \in 0 .. (n + width) - 1
      BY <1>1, <1>2
    <2>2. \A i \in ones : i \in 0 .. (n + width) - 1
      BY <1>1
    <2>3. n + width \in Nat
      BY <1>1
    <2>. QED
      BY <2>1, <2>2, <2>3
  <1>4. ASSUME NEW i \in Nat
        PROVE  /\ i \in more <=> i \in ones \/ i - n \in low
               /\ i < n => i - n \notin low
               /\ i >= n => i \notin ones
    <2>1. i \in {n + b : b \in low} <=> i - n \in low
      BY <1>2
    <2>2. i < n => i - n \notin low
      BY <1>2
    <2>3. i >= n => i \notin ones
      OBVIOUS
    <2> HIDE DEF low
    <2>. QED
      BY <2>1, <2>2, <2>3
  <1>5. /\ words \in Seq(SUBSET Position) /\ Len(words) = Limbs(n)
        /\ \A k \in 1..Limbs(n) : words[k] = {b \in Position : (k - 1) * WordBits + b \in ones}
    BY WordsOf DEF Holds
  <1>6. /\ good \in Seq(SUBSET Position) /\ Len(good) = Limbs(n + width)
        /\ \A k \in 1..Limbs(n + width) : good[k] = {b \in Position : (k - 1) * WordBits + b \in more}
    <2> HIDE DEF more
    <2>. QED
      BY <1>3, WordsOf
  <1>7. /\ Limbs(n) = IF offset = 0 THEN q ELSE q + 1
        /\ Limbs(n + width) \in Nat
        /\ \A k \in Nat : k * WordBits < n + width <=> k < Limbs(n + width)
    BY <1>3, LimbsExact, LimbsCover
  <1> HIDE DEF low, more, q, offset, words, good
  <1>8. ASSUME NEW k \in 1..q, k \in 1..Limbs(n + width)
        PROVE  good[k] = words[k]
    <2>1. (k - 1) * WordBits \in Nat /\ (k - 1) * WordBits + WordBits <= q * WordBits
      BY <1>1, Multiples
    <2>2. \A b \in Position : (k - 1) * WordBits + b \in Nat /\ (k - 1) * WordBits + b < n
      BY <1>1, <2>1 DEF Position
    <2>3. \A b \in Position : (k - 1) * WordBits + b \in more <=> (k - 1) * WordBits + b \in ones
      BY <1>4, <2>2
    <2>4. k \in 1..Limbs(n)
      BY <1>1, <1>7
    <2>. QED
      BY <1>5, <1>6, <1>8, <2>3, <2>4
  <1>9. ASSUME NEW b \in Position
        PROVE  /\ q * WordBits + b \in more <=> q * WordBits + b \in ones \/ b - offset \in low
               /\ (q + 1) * WordBits + b \in more <=> b + (WordBits - offset) \in low
               /\ offset = 0 => q * WordBits + b \notin ones
    <2>1. b \in Nat
      BY <1>1 DEF Position
    <2>2. /\ q * WordBits + b \in Nat /\ (q * WordBits + b) - n = b - offset
          /\ (q + 1) * WordBits + b \in Nat /\ ((q + 1) * WordBits + b) - n = b + (WordBits - offset)
          /\ (q + 1) * WordBits + b >= n
          /\ offset = 0 => q * WordBits + b >= n
      BY <1>1, <2>1
    <2>3. q * WordBits + b \in more <=> q * WordBits + b \in ones \/ b - offset \in low
      BY <1>4, <2>2
    <2>4. (q + 1) * WordBits + b \in more <=> b + (WordBits - offset) \in low
      BY <1>4, <2>2
    <2>5. offset = 0 => q * WordBits + b \notin ones
      BY <1>4, <2>2
    <2>. QED
      BY <2>3, <2>4, <2>5
  <1>10. CASE offset = 0
    <2>1. Limbs(n) = q /\ Limbs(n + width) = q + 1
      <3>1. q < Limbs(n + width) /\ ~ (q + 1 < Limbs(n + width))
        BY <1>1, <1>7, <1>10
      <3>. QED
        BY <1>1, <1>7, <1>10, <3>1
    <2>2. /\ Append(words, low) \in Seq(SUBSET Position)
          /\ Len(Append(words, low)) = q + 1
          /\ \A k \in 1..q : Append(words, low)[k] = words[k]
          /\ Append(words, low)[q + 1] = low
      BY <1>2, <1>5, <2>1, AppendProperties
    <2>3. good[q + 1] = low
      <3>1. q + 1 \in 1..Limbs(n + width) /\ (q + 1) - 1 = q
        BY <1>1, <2>1
      <3>2. good[q + 1] = {b \in Position : q * WordBits + b \in more}
        BY <1>6, <3>1
      <3>3. \A b \in Position : b - offset = b
        BY <1>1, <1>10 DEF Position
      <3>. QED
        BY <1>2, <1>9, <1>10, <3>2, <3>3
    <2>4. \A k \in 1 .. q + 1 : Append(words, low)[k] = good[k]
      BY <1>1, <1>8, <2>1, <2>2, <2>3
    <2>5. Append(words, low) = good
      BY <1>6, <2>1, <2>2, <2>4, SeqEqual
    <2>6. append_word(w, value, width) = [words |-> Append(words, low), bit_len |-> n + width]
      BY <1>1, <1>10 DEF append_word, Holds, offset, words, low
    <2>. QED
      BY <2>5, <2>6 DEF Holds, good, more, low
  <1>11. CASE offset # 0
    <2>1. Limbs(n) = q + 1 /\ q + 1 \in 1..Limbs(n) /\ (q + 1) - 1 = q
      BY <1>1, <1>7, <1>11
    <2>2. /\ filled \in Seq(SUBSET Position) /\ Len(filled) = q + 1
          /\ \A k \in 1..q : filled[k] = words[k]
          /\ filled[q + 1] = words[q + 1] \cup Shl(low, offset)
      BY <1>1, <1>5, <2>1, Zenon, SMT DEF Shl
    <2>3. offset \in Nat /\ WordBits - offset \in Nat
      BY <1>1
    <2>4. ASSUME q + 1 \in 1..Limbs(n + width)
          PROVE  filled[q + 1] = good[q + 1]
      <3>1. good[q + 1] = {b \in Position : q * WordBits + b \in more}
        BY <1>6, <2>1, <2>4
      <3>2. words[q + 1] = {b \in Position : q * WordBits + b \in ones}
        BY <1>5, <2>1
      <3>3. \A b \in Position : b \in Shl(low, offset) <=> b - offset \in low
        BY <1>2, <2>3, ShiftedBit
      <3>4. Shl(low, offset) \subseteq Position
        BY DEF Shl
      <3>. QED
        BY <1>9, <2>2, <3>1, <3>2, <3>3, <3>4
    <2> HIDE DEF filled
    <2>5. CASE offset + width <= WordBits
      <3>1. Limbs(n + width) = q + 1
        <4>1. q < Limbs(n + width) /\ ~ (q + 1 < Limbs(n + width))
          BY <1>1, <1>7, <2>5
        <4>. QED
          BY <1>1, <1>7, <4>1
      <3>2. ASSUME NEW k \in 1 .. q + 1 PROVE filled[k] = good[k]
        <4>1. CASE k = q + 1
          BY <2>4, <3>1, <4>1
        <4>2. CASE k # q + 1
          <5>1. k \in 1..q /\ k \in 1..Limbs(n + width)
            BY <1>1, <3>1, <4>2
          <5>. QED
            BY <1>8, <2>2, <5>1
        <4>. QED
          BY <4>1, <4>2
      <3>3. filled = good
        BY <1>6, <2>2, <3>1, <3>2, SeqEqual
      <3>4. ~ (offset + width > WordBits)
        BY <1>1, <2>5
      <3>5. append_word(w, value, width) = [words |-> filled, bit_len |-> n + width]
        BY <1>1, <1>11, <3>4 DEF append_word, Holds, offset, words, low, filled
      <3>. QED
        BY <3>3, <3>5 DEF Holds, good, more, low
    <2>6. CASE offset + width > WordBits
      <3> DEFINE rest == Shr(low, WordBits - offset)
      <3>1. Limbs(n + width) = q + 2
        <4>1. q + 1 < Limbs(n + width) /\ ~ (q + 2 < Limbs(n + width))
          BY <1>1, <1>7, <2>6
        <4>. QED
          BY <1>1, <1>7, <4>1
      <3>2. rest \in SUBSET Position
        BY DEF Shr
      <3>3. /\ Append(filled, rest) \in Seq(SUBSET Position)
            /\ Len(Append(filled, rest)) = q + 2
            /\ \A k \in 1 .. q + 1 : Append(filled, rest)[k] = filled[k]
            /\ Append(filled, rest)[q + 2] = rest
        <4> HIDE DEF rest
        <4>. QED
          BY <1>1, <2>2, <3>2, AppendProperties
      <3>4. good[q + 2] = rest
        <4>1. q + 2 \in 1..Limbs(n + width) /\ (q + 2) - 1 = q + 1
          BY <1>1, <3>1
        <4>2. good[q + 2] = {b \in Position : (q + 1) * WordBits + b \in more}
          BY <1>6, <4>1
        <4>3. \A b \in Position : b \in rest <=> b + (WordBits - offset) \in low
          BY <1>2, <2>3, ShiftedBit
        <4>. QED
          BY <1>9, <3>2, <4>2, <4>3
      <3> HIDE DEF rest
      <3>5. ASSUME NEW k \in 1 .. q + 2 PROVE Append(filled, rest)[k] = good[k]
        <4>1. CASE k = q + 2
          BY <3>3, <3>4, <4>1
        <4>2. CASE k = q + 1
          <5>1. q + 1 \in 1..Limbs(n + width) /\ k \in 1 .. q + 1
            BY <1>1, <3>1, <4>2
          <5>. QED
            BY <2>4, <3>3, <4>2, <5>1
        <4>3. CASE k # q + 1 /\ k # q + 2
          <5>1. k \in 1..q /\ k \in 1..Limbs(n + width) /\ k \in 1 .. q + 1
            BY <1>1, <3>1, <4>3
          <5>. QED
            BY <1>8, <2>2, <3>3, <5>1
        <4>. QED
          BY <4>1, <4>2, <4>3
      <3>6. Append(filled, rest) = good
        BY <1>6, <3>1, <3>3, <3>5, SeqEqual
      <3>7. append_word(w, value, width) = [words |-> Append(filled, rest), bit_len |-> n + width]
        BY <1>1, <1>11, <2>6 DEF append_word, Holds, offset, words, low, filled, rest
      <3>. QED
        BY <3>6, <3>7 DEF Holds, good, more, low
    <2>. QED
      BY <1>1, <2>5, <2>6
  <1>. QED
    BY <1>10, <1>11

\* Word after word, the bits of a packed string follow those that a witness
\* holds.
LEMMA ExtendWords ==
    ASSUME NEW n \in Nat, NEW ones \in SUBSET (0 .. n - 1), NEW w, Holds(w, n, ones),
           NEW m \in Nat, NEW more \in SUBSET (0 .. m - 1)
    PROVE  Holds(extend_packed_words(w, from_fn(m, more).words, m), n + m,
                 ones \cup {n + i : i \in more})
  <1> DEFINE l == Limbs(m)
             words == from_fn(m, more).words
             step(v, k) == append_word(v, words[k], Width(m, k - 1))
             recurs(g, k) == g = [j \in 0..k |-> IF j = 0 THEN w ELSE step(g[j - 1], j)]
             appended == CHOOSE g : recurs(g, l)
  <1>1. l \in Nat /\ WordBits \in Nat
    BY LimbsCover, WordBitsAssumption
  <1>2. extend_packed_words(w, words, m) = appended[l]
    BY DEF extend_packed_words
  <1> HIDE DEF l, words, step
  <1>3. recurs(appended, l)
    <2> DEFINE S == {k \in Nat : \E g : recurs(g, k)}
    <2>1. 0 \in S
      <3>1. recurs([j \in 0..0 |-> w], 0)
        OBVIOUS
      <3>. QED
        BY <3>1
    <2>2. ASSUME NEW k \in Nat, k \in S PROVE k + 1 \in S
      <3>1. PICK g : recurs(g, k)
        BY <2>2
      <3> DEFINE h == [j \in 0 .. k + 1 |-> IF j = k + 1 THEN step(g[k], k + 1) ELSE g[j]]
      <3>2. ASSUME NEW j \in 0 .. k + 1
            PROVE  h[j] = IF j = 0 THEN w ELSE step(h[j - 1], j)
        <4>1. CASE j = k + 1
          <5>1. j # 0 /\ j - 1 = k /\ k # k + 1 /\ k \in 0 .. k + 1
            BY <4>1
          <5>2. h[k] = g[k]
            BY <5>1
          <5>3. h[j] = step(g[k], k + 1)
            BY <4>1
          <5> HIDE DEF h
          <5>. QED
            BY <4>1, <5>1, <5>2, <5>3
        <4>2. CASE j # k + 1
          <5>1. j \in 0..k
            BY <4>2
          <5>2. h[j] = g[j] /\ g[j] = IF j = 0 THEN w ELSE step(g[j - 1], j)
            BY <3>1, <4>2, <5>1
          <5>3. j # 0 => j - 1 \in 0 .. k + 1 /\ j - 1 # k + 1
            BY <5>1
          <5>4. j # 0 => h[j - 1] = g[j - 1]
            BY <5>3
          <5> HIDE DEF h
          <5>. QED
            BY <5>2, <5>4
        <4>. QED
          BY <4>1, <4>2
      <3>3. recurs(h, k + 1)
        <4>1. h = [j \in 0 .. k + 1 |-> h[j]]
          OBVIOUS
        <4> HIDE DEF h
        <4>. QED
          BY <3>2, <4>1
      <3> HIDE DEF recurs, h
      <3>. QED
        BY <3>3
    <2>3. l \in S
      <3> HIDE DEF S
      <3>. QED
        BY <1>1, <2>1, <2>2, SetInduction
    <2> HIDE DEF recurs
    <2>. QED
      BY <2>3
  <1> HIDE DEF appended
  <1>4. /\ appended[0] = w
        /\ \A k \in Nat : k < l => appended[k + 1] = append_word(appended[k], words[k + 1], Width(m, k))
    <2>1. 0 \in 0..l
      BY <1>1
    <2>2. appended[0] = w
      BY <1>3, <2>1
    <2>3. ASSUME NEW k \in Nat, k < l
          PROVE  appended[k + 1] = append_word(appended[k], words[k + 1], Width(m, k))
      <3>1. k + 1 \in 0..l /\ k + 1 # 0 /\ (k + 1) - 1 = k
        BY <1>1, <2>3
      <3>2. appended[k + 1] = step(appended[(k + 1) - 1], k + 1)
        BY <1>3, <3>1
      <3>. QED
        BY <3>1, <3>2 DEF step
    <2>. QED
      BY <2>2, <2>3
  <1> DEFINE taken(k) == IF k * WordBits < m THEN k * WordBits ELSE m
             upto(t) == ones \cup {n + i : i \in {j \in more : j < t}}
             P == {k \in Nat : k <= l => Holds(appended[k], n + taken(k), upto(taken(k)))}
  <1>5. 0 \in P
    <2>1. taken(0) = 0
      BY <1>1
    <2>2. {j \in more : j < 0} = {}
      <3>1. \A j \in more : j \in 0 .. m - 1
        OBVIOUS
      <3>2. \A j \in more : ~ (j < 0)
        BY <3>1
      <3>. QED
        BY <3>2
    <2>3. upto(0) = ones
      BY <2>2
    <2>. QED
      BY <1>4, <2>1, <2>3
  <1>6. ASSUME NEW k \in Nat, k \in P PROVE k + 1 \in P
    <2> SUFFICES ASSUME k + 1 <= l
                 PROVE  Holds(appended[k + 1], n + taken(k + 1), upto(taken(k + 1)))
      OBVIOUS
    <2> DEFINE start == k * WordBits
               width == Width(m, k)
               word == words[k + 1]
               held == upto(start)
    <2>1. start \in Nat /\ start < m /\ k < l
      <3>1. start \in Nat
        BY <1>1
      <3>2. k < l
        BY <1>1
      <3>. QED
        BY <3>1, <3>2, LimbsCover DEF l
    <2>2. (k + 1) * WordBits = start + WordBits
      BY <1>1
    <2>3. width = IF m - start < WordBits THEN m - start ELSE WordBits
      BY DEF Width
    <2> HIDE DEF start, width
    <2>4. width \in 1..WordBits /\ width \in Nat /\ start + width <= m /\ WordBits # 0
          /\ (start + width = m \/ width = WordBits)
      BY <1>1, <2>1, <2>3, WordBitsAssumption
    <2>5. taken(k) = start
      BY <2>1 DEF start
    <2>6. taken(k + 1) = start + width
      BY <1>1, <2>1, <2>2, <2>3
    <2> HIDE DEF taken
    <2>7. Holds(appended[k], n + start, held)
      BY <1>1, <1>6, <2>1, <2>5
    <2>8. word = {b \in Position : start + b \in more}
      <3>1. k + 1 \in 1..l /\ (k + 1) - 1 = k
        BY <1>1, <2>1
      <3>2. words[k + 1] = {b \in Position : ((k + 1) - 1) * WordBits + b \in more}
        BY <3>1, WordsOf DEF l, words
      <3>. QED
        BY <3>1, <3>2 DEF start
    <2> HIDE DEF word
    <2>9. held \in SUBSET (0 .. (n + start) - 1) /\ n + start \in Nat
      <3>1. \A i \in ones : i \in 0 .. (n + start) - 1
        BY <2>1
      <3>2. \A i \in more : i < start => n + i \in 0 .. (n + start) - 1
        BY <2>1
      <3>3. n + start \in Nat
        BY <2>1
      <3>. QED
        BY <3>1, <3>2, <3>3
    <2>10. word \in SUBSET Position
      BY <2>8
    <2>11. Holds(append_word(appended[k], word, width), (n + start) + width,
                 held \cup {(n + start) + b : b \in LowBits(word, width)})
      <3> HIDE DEF held
      <3>. QED
        BY <2>4, <2>7, <2>9, <2>10, AppendWord
    <2>12. held \cup {(n + start) + b : b \in LowBits(word, width)} = upto(start + width)
      <3> DEFINE added == {(n + start) + b : b \in LowBits(word, width)}
      <3>1. ASSUME NEW b \in LowBits(word, width) PROVE (n + start) + b \in upto(start + width)
        <4>1. b \in Nat /\ b < width /\ start + b \in more
          BY <1>1, <2>8, <3>1 DEF LowBits, Position
        <4>2. start + b < start + width /\ (n + start) + b = n + (start + b)
          BY <2>1, <2>4, <4>1
        <4>. QED
          BY <4>1, <4>2
      <3>2. ASSUME NEW i \in more, i < start + width PROVE n + i \in held \cup added
        <4>1. i \in Nat
          OBVIOUS
        <4>2. CASE i < start
          BY <4>2
        <4>3. CASE ~ (i < start)
          <5>1. i - start \in Position /\ i - start < width /\ start + (i - start) = i
                /\ (n + start) + (i - start) = n + i
            BY <1>1, <2>1, <2>4, <3>2, <4>1, <4>3 DEF Position
          <5>2. i - start \in LowBits(word, width)
            BY <2>8, <5>1 DEF LowBits
          <5>. QED
            BY <5>1, <5>2
        <4>. QED
          BY <4>2, <4>3
      <3>3. held \subseteq upto(start + width)
        <4>1. \A i \in more : i < start => i < start + width
          BY <2>1, <2>4
        <4>. QED
          BY <4>1
      <3>4. added \subseteq upto(start + width)
        BY <3>1
      <3>5. upto(start + width) \subseteq held \cup added
        BY <3>2
      <3>. QED
        BY <3>3, <3>4, <3>5
    <2>13. appended[k + 1] = append_word(appended[k], word, width)
      BY <1>4, <2>1 DEF word, width
    <2>14. (n + start) + width = n + (start + width)
      BY <2>1, <2>4
    <2> HIDE DEF held, upto
    <2>. QED
      BY <2>6, <2>11, <2>12, <2>13, <2>14
  <1>7. l \in P
    <2> HIDE DEF P
    <2>. QED
      BY <1>1, <1>5, <1>6, SetInduction
  <1>8. Holds(appended[l], n + taken(l), upto(taken(l)))
    <2>1. l <= l
      BY <1>1
    <2> HIDE DEF taken, upto
    <2>. QED
      BY <1>7, <2>1
  <1>9. taken(l) = m
    <2>1. ~ (l * WordBits < m)
      BY <1>1, LimbsCover DEF l
    <2>. QED
      BY <2>1
  <1>10. upto(m) = ones \cup {n + i : i \in more}
    <2>1. {j \in more : j < m} = more
      <3>1. \A j \in more : j \in 0 .. m - 1
        OBVIOUS
      <3>2. \A j \in more : j < m
        BY <3>1
      <3>. QED
        BY <3>2
    <2>. QED
      BY <2>1
  <1> HIDE DEF upto, taken
  <1>. QED
    BY <1>2, <1>8, <1>10, <1>9 DEF words

\* The ones of two strings, one after the other.
LEMMA ConcatOnes ==
    ASSUME NEW s \in Seq(BOOLEAN), NEW t \in Seq(BOOLEAN)
    PROVE  /\ s \o t \in Seq(BOOLEAN) /\ Len(s \o t) = Len(s) + Len(t)
           /\ Ones(s \o t) = Ones(s) \cup {Len(s) + i : i \in Ones(t)}
  <1> DEFINE u == s \o t
             n == Len(s)
             m == Len(t)
             moved == {n + i : i \in Ones(t)}
  <1>1. /\ u \in Seq(BOOLEAN) /\ Len(u) = n + m /\ n \in Nat /\ m \in Nat
        /\ \A i \in 1 .. n + m : u[i] = IF i <= n THEN s[i] ELSE t[i - n]
    BY ConcatProperties, LenProperties
  <1>2. /\ Ones(s) \subseteq 0 .. n - 1 /\ \A i \in 0 .. n - 1 : i \in Ones(s) <=> s[i + 1]
        /\ Ones(t) \subseteq 0 .. m - 1 /\ \A i \in 0 .. m - 1 : i \in Ones(t) <=> t[i + 1]
    BY ArrayOnes
  <1> HIDE DEF u
  <1>3. Ones(u) \subseteq 0 .. (n + m) - 1 /\ \A i \in 0 .. (n + m) - 1 : i \in Ones(u) <=> u[i + 1]
    BY <1>1, ArrayOnes
  <1> HIDE DEF n, m
  <1>4. moved \subseteq 0 .. (n + m) - 1
    BY <1>1, <1>2
  <1>5. Ones(s) \subseteq 0 .. (n + m) - 1
    BY <1>1, <1>2
  <1>6. ASSUME NEW i \in 0 .. (n + m) - 1
        PROVE  i \in Ones(u) <=> i \in Ones(s) \/ i \in moved
    <2>1. i \in Ones(u) <=> u[i + 1]
      BY <1>3
    <2>2. i + 1 \in 1 .. n + m
      BY <1>1
    <2>3. CASE i < n
      <3>1. u[i + 1] = s[i + 1] /\ i \in 0 .. n - 1
        BY <1>1, <2>2, <2>3
      <3>2. i \notin moved
        BY <1>1, <1>2, <2>3
      <3>. QED
        BY <1>2, <2>1, <3>1, <3>2
    <2>4. CASE ~ (i < n)
      <3>1. u[i + 1] = t[(i + 1) - n] /\ i - n \in 0 .. m - 1 /\ (i + 1) - n = (i - n) + 1
        BY <1>1, <2>2, <2>4
      <3>2. i \notin Ones(s)
        BY <1>1, <1>2, <2>4
      <3>3. i \in moved <=> i - n \in Ones(t)
        <4>1. i - n \in Ones(t) => i \in moved
          <5>1. n + (i - n) = i
            BY <1>1
          <5>. QED
            BY <5>1
        <4>2. ASSUME NEW j \in Ones(t), i = n + j PROVE i - n \in Ones(t)
          <5>1. i - n = j
            BY <1>1, <1>2, <4>2
          <5>. QED
            BY <5>1
        <4>. QED
          BY <4>1, <4>2
      <3>. QED
        BY <1>2, <2>1, <3>1, <3>2, <3>3
    <2>. QED
      BY <1>1, <2>3, <2>4
  <1> HIDE DEF moved
  <1>7. Ones(u) = Ones(s) \cup moved
    BY <1>3, <1>4, <1>5, <1>6
  <1>. QED
    BY <1>1, <1>7 DEF u, n, m, moved

\* An extension by a packed string, as an extension of what is stored.
LEMMA ExtendStored ==
    ASSUME NEW s \in Seq(BOOLEAN), NEW t \in Seq(BOOLEAN), NEW w,
           w.bit_len = Len(s), w.words = from_array(s).words
    PROVE  LET v == extend_packed(w, from_array(t))
           IN  v.bit_len = Len(s \o t) /\ v.words = from_array(s \o t).words
  <1> DEFINE v == extend_packed(w, from_array(t))
  <1>1. /\ Len(s) \in Nat /\ Ones(s) \in SUBSET (0 .. Len(s) - 1) /\ from_array(s) = from_fn(Len(s), Ones(s))
        /\ Len(t) \in Nat /\ Ones(t) \in SUBSET (0 .. Len(t) - 1) /\ from_array(t) = from_fn(Len(t), Ones(t))
    BY ArrayOnes
  <1>2. Holds(w, Len(s), Ones(s))
    BY <1>1 DEF Holds
  <1>3. from_array(t).n = Len(t)
    BY DEF from_array, from_fn
  <1>4. v = extend_packed_words(w, from_fn(Len(t), Ones(t)).words, Len(t))
    BY <1>1, <1>3 DEF extend_packed
  <1> HIDE DEF v
  <1>5. Holds(v, Len(s) + Len(t), Ones(s) \cup {Len(s) + i : i \in Ones(t)})
    BY <1>1, <1>2, <1>4, ExtendWords
  <1>6. Holds(v, Len(s \o t), Ones(s \o t))
    BY <1>5, ConcatOnes
  <1>7. from_array(s \o t) = from_fn(Len(s \o t), Ones(s \o t))
    BY ConcatOnes, ArrayOnes
  <1>. QED
    BY <1>6, <1>7 DEF Holds, v
=============================================================================
