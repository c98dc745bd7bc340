--------------------------- MODULE InductionLemmas ---------------------------
(***************************************************************************)
(* Induction over the naturals, and what it gives: multiples, what         *)
(* FlattenSeq of the community modules makes of a sequence of sequences,   *)
(* where a sequence of steps leads, and the table a fold is read from.     *)
(***************************************************************************)
EXTENDS Integers, Sequences, SequencesExt, WellFoundedInduction, SequenceTheorems, TLAPS

\* Induction over the naturals, for a set of them: the members of which a
\* formula holds are such a set.
LEMMA SetInduction ==
    ASSUME NEW S, 0 \in S, \A n \in Nat : n \in S => n + 1 \in S
    PROVE  Nat \subseteq S
  <1> SUFFICES ASSUME Nat \ S # {} PROVE FALSE
    OBVIOUS
  <1> DEFINE T == Nat \ S
             R == OpToRel(<, Nat)
  <1>1. PICK x \in T : \A y \in T : <<y, x>> \notin R
    <2>1. T \subseteq Nat /\ T # {}
      OBVIOUS
    <2>2. IsWellFoundedOn(R, Nat)
      BY NatLessThanWellFounded
    <2> HIDE DEF T, R
    <2>. QED
      BY <2>1, <2>2, WFMin
  <1>2. x \in Nat /\ x # 0 /\ x - 1 \in Nat /\ x - 1 \in T
    OBVIOUS
  <1>3. <<x - 1, x>> \in R
    BY <1>2 DEF OpToRel
  <1>. QED
    BY <1>1, <1>2, <1>3

\* Multiples keep the order of their factors.
LEMMA Multiples ==
    ASSUME NEW w \in Nat, NEW m \in Nat, NEW n \in Nat
    PROVE  /\ m <= n => m * w <= n * w
           /\ m < n => m * w + w <= n * w
  <1>1. ASSUME m <= n PROVE m * w <= n * w
    <2>1. n - m \in Nat /\ n * w = m * w + (n - m) * w
      BY <1>1
    <2>2. (n - m) * w \in Nat
      BY <2>1
    <2>. QED
      BY <2>1, <2>2
  <1>2. ASSUME m < n PROVE m * w + w <= n * w
    <2>1. n - m - 1 \in Nat /\ n * w = (m * w + w) + (n - m - 1) * w
      BY <1>2
    <2>2. (n - m - 1) * w \in Nat
      BY <2>1
    <2>. QED
      BY <2>1, <2>2
  <1>. QED
    BY <1>1, <1>2
-----------------------------------------------------------------------------
\* FlattenSeq goes from the front to the end of its argument.
LEMMA FlattenParts ==
    ASSUME NEW A, NEW seqs \in Seq(Seq(A)), seqs # <<>>
    PROVE  \E f \in [1..Len(seqs) -> Seq(A)] :
              /\ f[1] = seqs[1]
              /\ \A i \in 1..Len(seqs) : i # 1 => f[i] = f[i - 1] \o seqs[i]
              /\ FlattenSeq(seqs) = f[Len(seqs)]
  <1> DEFINE l == Len(seqs)
             recurs(f, n) == f = [i \in 1..n |-> IF i = 1 THEN seqs[i] ELSE f[i - 1] \o seqs[i]]
             S == {n \in Nat : n < l => \E f \in [1 .. n + 1 -> Seq(A)] : recurs(f, n + 1)}
             flatten == CHOOSE f : recurs(f, l)
  <1>1. l \in Nat /\ l # 0 /\ \A i \in 1..l : seqs[i] \in Seq(A)
    BY EmptySeq, LenProperties, ElementOfSeq
  <1>2. 0 \in S
    <2> DEFINE f == [i \in 1..1 |-> seqs[i]]
    <2>1. f \in [1 .. 0 + 1 -> Seq(A)]
      BY <1>1
    <2>2. recurs(f, 0 + 1)
      OBVIOUS
    <2> HIDE DEF f, recurs
    <2>. QED
      BY <2>1, <2>2
  <1>3. ASSUME NEW n \in Nat, n \in S PROVE n + 1 \in S
    <2> DEFINE m == n + 1
    <2> SUFFICES ASSUME m < l PROVE \E f \in [1 .. m + 1 -> Seq(A)] : recurs(f, m + 1)
      <3> HIDE DEF recurs
      <3>. QED
        OBVIOUS
    <2>1. PICK f \in [1..m -> Seq(A)] : recurs(f, m)
      <3>1. n < l
        BY <1>1
      <3> HIDE DEF recurs
      <3>. QED
        BY <1>3, <3>1
    <2> DEFINE g == [i \in 1 .. m + 1 |-> IF i = m + 1 THEN f[m] \o seqs[m + 1] ELSE f[i]]
    <2>2. f[m] \o seqs[m + 1] \in Seq(A)
      <3>1. f[m] \in Seq(A)
        OBVIOUS
      <3>2. seqs[m + 1] \in Seq(A)
        BY <1>1
      <3>. QED
        BY <3>1, <3>2, ConcatProperties
    <2>3. g \in [1 .. m + 1 -> Seq(A)]
      BY <2>2
    <2>4. ASSUME NEW i \in 1 .. m + 1
          PROVE  g[i] = IF i = 1 THEN seqs[i] ELSE g[i - 1] \o seqs[i]
      <3>1. CASE i = m + 1
        <4>1. i # 1 /\ i - 1 = m /\ m \in 1 .. m + 1 /\ m # m + 1
          BY <3>1
        <4>2. g[m] = f[m]
          BY <4>1
        <4>3. g[i] = f[m] \o seqs[m + 1]
          BY <3>1
        <4> HIDE DEF g
        <4>. QED
          BY <3>1, <4>1, <4>2, <4>3
      <3>2. CASE i # m + 1
        <4>1. i \in 1..m
          BY <3>2
        <4>2. g[i] = f[i] /\ f[i] = IF i = 1 THEN seqs[i] ELSE f[i - 1] \o seqs[i]
          BY <2>1, <3>2, <4>1
        <4>3. i # 1 => i - 1 \in 1 .. m + 1 /\ i - 1 # m + 1
          BY <4>1
        <4>4. i # 1 => g[i - 1] = f[i - 1]
          BY <4>3
        <4> HIDE DEF g
        <4>. QED
          BY <4>2, <4>4
      <3>. QED
        BY <3>1, <3>2
    <2>5. recurs(g, m + 1)
      <3>1. g = [i \in 1 .. m + 1 |-> g[i]]
        OBVIOUS
      <3> HIDE DEF g
      <3>. QED
        BY <2>4, <3>1
    <2> HIDE DEF recurs, g
    <2>. QED
      BY <2>3, <2>5
  <1>4. \E f \in [1..l -> Seq(A)] : recurs(f, l)
    <2>1. l - 1 \in Nat /\ l - 1 < l /\ (l - 1) + 1 = l
      BY <1>1
    <2>2. l - 1 \in S
      <3> HIDE DEF S
      <3>. QED
        BY <1>2, <1>3, <2>1, SetInduction
    <2> HIDE DEF recurs
    <2>. QED
      BY <2>1, <2>2
  <1>5. recurs(flatten, l)
    <2> HIDE DEF recurs
    <2>. QED
      BY <1>4
  <1>6. FlattenSeq(seqs) = flatten[l]
    BY <1>1 DEF FlattenSeq
  <1>7. flatten \in [1..l -> Seq(A)]
    <2>1. PICK f \in [1..l -> Seq(A)] : recurs(f, l)
      BY <1>4
    <2> DEFINE T == {n \in Nat : n + 1 \in 1..l => flatten[n + 1] = f[n + 1]}
    <2> HIDE DEF flatten
    <2>2. \A i \in 1..l : /\ f[i] = IF i = 1 THEN seqs[i] ELSE f[i - 1] \o seqs[i]
                          /\ flatten[i] = IF i = 1 THEN seqs[i] ELSE flatten[i - 1] \o seqs[i]
      BY <1>5, <2>1
    <2>3. 0 \in T
      <3>1. 1 \in 1..l /\ 0 + 1 = 1
        BY <1>1
      <3>2. flatten[1] = f[1]
        BY <2>2, <3>1
      <3>. QED
        BY <3>1, <3>2
    <2>4. ASSUME NEW n \in Nat, n \in T PROVE n + 1 \in T
      <3> DEFINE i == (n + 1) + 1
      <3> SUFFICES ASSUME i \in 1..l PROVE flatten[i] = f[i]
        OBVIOUS
      <3>1. n + 1 \in 1..l /\ i # 1 /\ i - 1 = n + 1
        BY <1>1
      <3>2. flatten[i - 1] = f[i - 1]
        BY <2>4, <3>1
      <3> HIDE DEF i
      <3>3. f[i] = f[i - 1] \o seqs[i]
        BY <2>2, <3>1
      <3>4. flatten[i] = flatten[i - 1] \o seqs[i]
        BY <2>2, <3>1
      <3>. QED
        BY <3>2, <3>3, <3>4, Zenon
    <2>5. Nat \subseteq T
      <3> HIDE DEF T
      <3>. QED
        BY <2>3, <2>4, SetInduction
    <2>6. ASSUME NEW i \in 1..l PROVE flatten[i] \in Seq(A)
      <3>1. i - 1 \in Nat /\ (i - 1) + 1 = i
        BY <1>1
      <3>2. i - 1 \in T
        BY <2>5, <3>1
      <3>3. flatten[i] = f[i]
        BY <3>1, <3>2
      <3>. QED
        BY <2>1, <3>3
    <2>7. flatten = [i \in 1..l |-> flatten[i]]
      BY <1>5
    <2>. QED
      BY <2>6, <2>7
  <1> HIDE DEF flatten
  <1>8. /\ flatten[1] = seqs[1]
        /\ \A i \in 1..l : i # 1 => flatten[i] = flatten[i - 1] \o seqs[i]
    <2>1. 1 \in 1..l
      BY <1>1
    <2>2. \A i \in 1..l : flatten[i] = IF i = 1 THEN seqs[i] ELSE flatten[i - 1] \o seqs[i]
      BY <1>5
    <2>. QED
      BY <2>1, <2>2
  <1>. QED
    BY <1>6, <1>7, <1>8

\* Of no sequences there is nothing.
LEMMA FlattenEmpty == FlattenSeq(<<>>) = <<>>
  <1>1. Len(<<>>) = 0
    OBVIOUS
  <1>. QED
    BY <1>1 DEF FlattenSeq

\* What concatenation keeps, FlattenSeq keeps.
LEMMA FlattenKeeps ==
    ASSUME NEW A, NEW P \in SUBSET Seq(A), <<>> \in P, \A s, u \in P : s \o u \in P,
           NEW seqs \in Seq(P)
    PROVE  FlattenSeq(seqs) \in P
  <1>1. CASE seqs = <<>>
    BY <1>1, FlattenEmpty
  <1>2. CASE seqs # <<>>
    <2> DEFINE l == Len(seqs)
    <2>1. seqs \in Seq(Seq(A)) /\ l \in Nat /\ l # 0 /\ \A i \in 1..l : seqs[i] \in P
      <3>1. seqs \in Seq(Seq(A))
        BY SeqMonotonic
      <3>. QED
        BY <1>2, <3>1, EmptySeq, LenProperties, ElementOfSeq
    <2>2. PICK f \in [1..l -> Seq(A)] :
              /\ f[1] = seqs[1]
              /\ \A i \in 1..l : i # 1 => f[i] = f[i - 1] \o seqs[i]
              /\ FlattenSeq(seqs) = f[l]
      BY <1>2, <2>1, FlattenParts
    <2> DEFINE S == {n \in Nat : n + 1 \in 1..l => f[n + 1] \in P}
    <2>3. 0 \in S
      <3>1. 1 \in 1..l /\ 0 + 1 = 1
        BY <2>1
      <3>2. f[1] \in P
        BY <2>1, <2>2, <3>1
      <3>. QED
        BY <3>1, <3>2
    <2>4. ASSUME NEW n \in Nat, n \in S PROVE n + 1 \in S
      <3> DEFINE i == (n + 1) + 1
      <3> SUFFICES ASSUME i \in 1..l PROVE f[i] \in P
        OBVIOUS
      <3>1. n + 1 \in 1..l /\ i # 1 /\ i - 1 = n + 1
        BY <2>1
      <3>2. f[i - 1] \in P
        BY <2>4, <3>1
      <3> HIDE DEF i
      <3>. QED
        BY <2>1, <2>2, <3>1, <3>2
    <2>5. l - 1 \in Nat /\ (l - 1) + 1 = l /\ l \in 1..l
      BY <2>1
    <2>6. l - 1 \in S
      <3> HIDE DEF S
      <3>. QED
        BY <2>3, <2>4, <2>5, SetInduction
    <2>7. f[l] \in P
      BY <2>5, <2>6
    <2>. QED
      BY <2>2, <2>7
  <1>. QED
    BY <1>1, <1>2

\* A flattened sequence of sequences over a set is a sequence over it.
LEMMA FlattenType ==
    ASSUME NEW A, NEW seqs \in Seq(Seq(A))
    PROVE  FlattenSeq(seqs) \in Seq(A)
  <1>1. <<>> \in Seq(A) /\ \A s, u \in Seq(A) : s \o u \in Seq(A)
    BY EmptySeq, ConcatProperties
  <1>. QED
    BY <1>1, FlattenKeeps

\* A last sequence is appended.
LEMMA FlattenAppend ==
    ASSUME NEW A, NEW seqs \in Seq(Seq(A)), NEW s \in Seq(A)
    PROVE  FlattenSeq(Append(seqs, s)) = FlattenSeq(seqs) \o s
  <1> DEFINE more == Append(seqs, s)
             l == Len(seqs)
  <1>1. /\ more \in Seq(Seq(A)) /\ more # <<>> /\ Len(more) = l + 1
        /\ \A i \in 1..l : more[i] = seqs[i]
        /\ more[l + 1] = s /\ l \in Nat
    BY AppendProperties, LenProperties
  <1> HIDE DEF more
  <1>2. PICK g \in [1 .. l + 1 -> Seq(A)] :
            /\ g[1] = more[1]
            /\ \A i \in 1 .. l + 1 : i # 1 => g[i] = g[i - 1] \o more[i]
            /\ FlattenSeq(more) = g[l + 1]
    <2>1. \E g \in [1..Len(more) -> Seq(A)] :
            /\ g[1] = more[1]
            /\ \A i \in 1..Len(more) : i # 1 => g[i] = g[i - 1] \o more[i]
            /\ FlattenSeq(more) = g[Len(more)]
      BY <1>1, FlattenParts
    <2>. QED
      BY <1>1, <2>1
  <1>3. CASE seqs = <<>>
    <2>1. l = 0 /\ FlattenSeq(seqs) = <<>>
      BY <1>3, FlattenEmpty
    <2>2. g[1] = s
      BY <1>1, <1>2, <2>1
    <2>3. FlattenSeq(more) = s
      BY <1>2, <2>1, <2>2
    <2>. QED
      BY <2>1, <2>3, ConcatEmptySeq DEF more
  <1>4. CASE seqs # <<>>
    <2>1. l # 0
      BY <1>4, EmptySeq
    <2>2. PICK f \in [1..l -> Seq(A)] :
              /\ f[1] = seqs[1]
              /\ \A i \in 1..l : i # 1 => f[i] = f[i - 1] \o seqs[i]
              /\ FlattenSeq(seqs) = f[l]
      BY <1>4, FlattenParts
    <2> DEFINE S == {n \in Nat : n + 1 \in 1..l => f[n + 1] = g[n + 1]}
    <2>3. 0 \in S
      <3>1. 1 \in 1..l /\ 0 + 1 = 1
        BY <1>1, <2>1
      <3>2. f[1] = g[1]
        BY <1>1, <1>2, <2>2, <3>1
      <3>. QED
        BY <3>1, <3>2
    <2>4. ASSUME NEW n \in Nat, n \in S PROVE n + 1 \in S
      <3> DEFINE i == (n + 1) + 1
      <3> SUFFICES ASSUME i \in 1..l PROVE f[i] = g[i]
        OBVIOUS
      <3>1. n + 1 \in 1..l /\ i # 1 /\ i - 1 = n + 1 /\ i \in 1 .. l + 1
        BY <1>1
      <3>2. f[i - 1] = g[i - 1]
        BY <2>4, <3>1
      <3> HIDE DEF i
      <3>. QED
        BY <1>1, <1>2, <2>2, <3>1, <3>2
    <2>5. l - 1 \in Nat /\ (l - 1) + 1 = l /\ l \in 1..l /\ l + 1 \in 1 .. l + 1 /\ l + 1 # 1
          /\ (l + 1) - 1 = l
      BY <1>1, <2>1
    <2>6. l - 1 \in S
      <3> HIDE DEF S
      <3>. QED
        BY <2>3, <2>4, <2>5, SetInduction
    <2>7. f[l] = g[l]
      BY <2>5, <2>6
    <2>8. g[l + 1] = g[l] \o s
      BY <1>1, <1>2, <2>5
    <2>. QED
      BY <1>2, <2>2, <2>7, <2>8 DEF more
  <1>. QED
    BY <1>3, <1>4

\* One after the other.
LEMMA FlattenConcat ==
    ASSUME NEW A, NEW seqs \in Seq(Seq(A)), NEW more \in Seq(Seq(A))
    PROVE  FlattenSeq(seqs \o more) = FlattenSeq(seqs) \o FlattenSeq(more)
  <1> DEFINE holds(u) == FlattenSeq(seqs \o u) = FlattenSeq(seqs) \o FlattenSeq(u)
             S == {n \in Nat : \A u \in Seq(Seq(A)) : Len(u) = n => holds(u)}
  <1>1. FlattenSeq(seqs) \in Seq(A)
    BY FlattenType
  <1>2. 0 \in S
    <2>1. holds(<<>>)
      BY <1>1, ConcatEmptySeq, FlattenEmpty
    <2>2. \A u \in Seq(Seq(A)) : Len(u) = 0 => u = <<>>
      BY EmptySeq
    <2> HIDE DEF holds
    <2>. QED
      BY <2>1, <2>2
  <1>3. ASSUME NEW n \in Nat, n \in S PROVE n + 1 \in S
    <2>1. ASSUME NEW u \in Seq(Seq(A)), Len(u) = n + 1 PROVE holds(u)
      <3>1. u # <<>>
        BY <2>1, EmptySeq
      <3>2. PICK v \in Seq(Seq(A)), s \in Seq(A) : u = Append(v, s)
        BY <3>1, SequenceEmptyOrAppend
      <3>3. Len(v) = n
        BY <2>1, <3>2, AppendProperties, LenProperties
      <3>4. FlattenSeq(seqs \o v) = FlattenSeq(seqs) \o FlattenSeq(v)
        BY <1>3, <3>3
      <3>5. seqs \o v \in Seq(Seq(A)) /\ FlattenSeq(v) \in Seq(A)
        BY ConcatProperties, FlattenType
      <3>6. seqs \o u = Append(seqs \o v, s)
        BY <3>2, <3>5
      <3>7. FlattenSeq(seqs \o u) = FlattenSeq(seqs \o v) \o s
        BY <3>5, <3>6, FlattenAppend
      <3>8. FlattenSeq(u) = FlattenSeq(v) \o s
        BY <3>2, FlattenAppend
      <3>9. (FlattenSeq(seqs) \o FlattenSeq(v)) \o s = FlattenSeq(seqs) \o (FlattenSeq(v) \o s)
        <4>1. \A x, y, z \in Seq(A) : (x \o y) \o z = x \o (y \o z)
          BY ConcatAssociative, SMTT(30)
        <4>2. FlattenSeq(seqs) \in Seq(A)
          BY FlattenType
        <4>3. FlattenSeq(v) \in Seq(A)
          BY <3>5
        <4>. QED
          BY <4>1, <4>2, <4>3, Zenon
      <3>. QED
        BY <3>4, <3>7, <3>8, <3>9
    <2> HIDE DEF holds
    <2>. QED
      BY <2>1
  <1>4. Len(more) \in Nat
    BY LenProperties
  <1>5. Len(more) \in S
    <2> HIDE DEF S
    <2>. QED
      BY <1>2, <1>3, <1>4, SetInduction
  <1>. QED
    BY <1>5
-----------------------------------------------------------------------------
\* A script takes a to b by the steps of T, over values of A: what the sides
\* keep, or a history, along a run of it.
Takes(A, T, a, s, b) ==
    \E f \in [0..Len(s) -> A] :
        /\ f[0] = a /\ f[Len(s)] = b
        /\ \A i \in 1..Len(s) : <<f[i - 1], s[i], f[i]>> \in T

\* No step, one step, and one script after another.
LEMMA TakesNone ==
    ASSUME NEW A, NEW T, NEW a \in A, NEW b \in A
    PROVE  Takes(A, T, a, <<>>, b) <=> a = b
  <1>1. Len(<<>>) = 0
    OBVIOUS
  <1>2. ASSUME a = b PROVE Takes(A, T, a, <<>>, b)
    <2> DEFINE f == [i \in 0..0 |-> a]
    <2>1. f \in [0..Len(<<>>) -> A] /\ f[0] = a /\ f[Len(<<>>)] = b
      BY <1>1, <1>2
    <2>2. \A i \in 1..Len(<<>>) : <<f[i - 1], <<>>[i], f[i]>> \in T
      BY <1>1
    <2> HIDE DEF f
    <2>. QED
      BY <2>1, <2>2 DEF Takes
  <1>. QED
    BY <1>1, <1>2 DEF Takes

\* A script of one step.
LEMMA TakesOne ==
    ASSUME NEW A, NEW T, NEW a \in A, NEW x, NEW b \in A
    PROVE  Takes(A, T, a, <<x>>, b) <=> <<a, x, b>> \in T
  <1>1. Len(<<x>>) = 1 /\ <<x>>[1] = x
    OBVIOUS
  <1>2. ASSUME <<a, x, b>> \in T PROVE Takes(A, T, a, <<x>>, b)
    <2> DEFINE f == [i \in 0..1 |-> IF i = 0 THEN a ELSE b]
    <2>1. f \in [0..Len(<<x>>) -> A] /\ f[0] = a /\ f[1] = b
      BY <1>1
    <2>2. \A i \in 1..Len(<<x>>) : <<f[i - 1], <<x>>[i], f[i]>> \in T
      <3>1. \A i \in 1..Len(<<x>>) : i = 1
        BY <1>1
      <3>2. <<f[0], <<x>>[1], f[1]>> \in T
        BY <1>1, <1>2, <2>1
      <3> HIDE DEF f
      <3>. QED
        BY <3>1, <3>2
    <2> HIDE DEF f
    <2>. QED
      BY <1>1, <2>1, <2>2 DEF Takes
  <1>3. ASSUME Takes(A, T, a, <<x>>, b) PROVE <<a, x, b>> \in T
    <2>1. PICK f \in [0..Len(<<x>>) -> A] :
            /\ f[0] = a /\ f[Len(<<x>>)] = b
            /\ \A i \in 1..Len(<<x>>) : <<f[i - 1], <<x>>[i], f[i]>> \in T
      BY <1>3 DEF Takes
    <2>2. 1 \in 1..Len(<<x>>) /\ 1 - 1 = 0
      BY <1>1
    <2>3. <<f[1 - 1], <<x>>[1], f[1]>> \in T
      BY <2>1, <2>2
    <2>. QED
      BY <1>1, <2>1, <2>2, <2>3
  <1>. QED
    BY <1>2, <1>3

\* A script followed by another goes through a value in between.
LEMMA TakesJoined ==
    ASSUME NEW A, NEW T, NEW S, NEW u \in Seq(S), NEW v \in Seq(S), NEW a \in A, NEW c \in A
    PROVE  Takes(A, T, a, u \o v, c) <=> \E b \in A : Takes(A, T, a, u, b) /\ Takes(A, T, b, v, c)
  <1> DEFINE m == Len(u)
             n == Len(v)
             w == u \o v
  <1>1. /\ m \in Nat /\ n \in Nat /\ Len(w) = m + n
        /\ \A i \in 1..m : w[i] = u[i]
        /\ \A i \in 1..n : w[m + i] = v[i]
    <2>1. w \in Seq(S) /\ Len(w) = Len(u) + Len(v) /\ Len(u) \in Nat /\ Len(v) \in Nat
      BY ConcatProperties, LenProperties
    <2>2. \A i \in 1..Len(u) + Len(v) : w[i] = IF i <= Len(u) THEN u[i] ELSE v[i - Len(u)]
      BY ConcatProperties
    <2>3. ASSUME NEW i \in 1..n PROVE w[m + i] = v[i]
      <3>1. m + i \in 1..Len(u) + Len(v) /\ ~ (m + i <= Len(u)) /\ (m + i) - Len(u) = i
        BY <2>1
      <3>. QED
        BY <2>2, <3>1
    <2>. QED
      BY <2>1, <2>2, <2>3
  <1> HIDE DEF w
  <1>2. ASSUME Takes(A, T, a, w, c)
        PROVE  \E b \in A : Takes(A, T, a, u, b) /\ Takes(A, T, b, v, c)
    <2>1. PICK f \in [0..Len(w) -> A] :
            /\ f[0] = a /\ f[Len(w)] = c
            /\ \A i \in 1..Len(w) : <<f[i - 1], w[i], f[i]>> \in T
      BY <1>2 DEF Takes
    <2>2. f[m] \in A
      BY <1>1, <2>1
    <2>3. Takes(A, T, a, u, f[m])
      <3> DEFINE g == [i \in 0..m |-> f[i]]
      <3>1. g \in [0..Len(u) -> A] /\ g[0] = a /\ g[Len(u)] = f[m]
        BY <1>1, <2>1
      <3>2. ASSUME NEW i \in 1..Len(u) PROVE <<g[i - 1], u[i], g[i]>> \in T
        <4>1. i \in 1..Len(w) /\ i \in 0..m /\ i - 1 \in 0..m /\ w[i] = u[i]
          BY <1>1
        <4>. QED
          BY <2>1, <4>1
      <3> HIDE DEF g
      <3>. QED
        BY <3>1, <3>2 DEF Takes
    <2>4. Takes(A, T, f[m], v, c)
      <3> DEFINE g == [i \in 0..n |-> f[m + i]]
      <3>1. g \in [0..Len(v) -> A] /\ g[0] = f[m] /\ g[Len(v)] = c
        BY <1>1, <2>1
      <3>2. ASSUME NEW i \in 1..Len(v) PROVE <<g[i - 1], v[i], g[i]>> \in T
        <4>1. /\ m + i \in 1..Len(w) /\ i \in 0..n /\ i - 1 \in 0..n
              /\ w[m + i] = v[i] /\ m + (i - 1) = (m + i) - 1
          BY <1>1
        <4>2. g[i - 1] = f[(m + i) - 1] /\ g[i] = f[m + i]
          BY <4>1
        <4>. QED
          BY <2>1, <4>1, <4>2
      <3> HIDE DEF g
      <3>. QED
        BY <3>1, <3>2 DEF Takes
    <2>. QED
      BY <2>2, <2>3, <2>4
  <1>3. ASSUME NEW b \in A, Takes(A, T, a, u, b), Takes(A, T, b, v, c)
        PROVE  Takes(A, T, a, w, c)
    <2>1. PICK f \in [0..Len(u) -> A] :
            /\ f[0] = a /\ f[Len(u)] = b
            /\ \A i \in 1..Len(u) : <<f[i - 1], u[i], f[i]>> \in T
      BY <1>3 DEF Takes
    <2>2. PICK g \in [0..Len(v) -> A] :
            /\ g[0] = b /\ g[Len(v)] = c
            /\ \A i \in 1..Len(v) : <<g[i - 1], v[i], g[i]>> \in T
      BY <1>3 DEF Takes
    <2> DEFINE h == [i \in 0..m + n |-> IF i <= m THEN f[i] ELSE g[i - m]]
    <2>3. h \in [0..Len(w) -> A] /\ h[0] = a
      BY <1>1, <2>1, <2>2
    <2>4. h[Len(w)] = c
      <3>1. CASE n = 0
        BY <1>1, <2>1, <2>2, <3>1
      <3>2. CASE n # 0
        <4>1. ~ (m + n <= m) /\ (m + n) - m = n
          BY <1>1, <3>2
        <4>. QED
          BY <1>1, <2>2, <4>1
      <3>. QED
        BY <3>1, <3>2
    <2>5. ASSUME NEW i \in 1..Len(w) PROVE <<h[i - 1], w[i], h[i]>> \in T
      <3>1. CASE i <= m
        <4>1. i \in 1..Len(u) /\ h[i] = f[i] /\ h[i - 1] = f[i - 1] /\ w[i] = u[i]
          BY <1>1, <3>1
        <4>. QED
          BY <2>1, <4>1
      <3>2. CASE i > m
        <4> DEFINE j == i - m
        <4>1. j \in 1..Len(v) /\ m + j = i /\ h[i] = g[j] /\ w[i] = v[j]
          BY <1>1, <3>2
        <4>2. h[i - 1] = g[j - 1]
          <5>1. CASE j = 1
            <6>1. i - 1 = m /\ h[i - 1] = f[m] /\ j - 1 = 0
              BY <1>1, <3>2, <5>1
            <6>. QED
              BY <2>1, <2>2, <6>1
          <5>2. CASE j # 1
            <6>1. i - 1 \in 0 .. m + n /\ ~ (i - 1 <= m) /\ (i - 1) - m = j - 1
              BY <1>1, <3>2, <4>1, <5>2
            <6>. QED
              BY <6>1
          <5>. QED
            BY <5>1, <5>2
        <4> HIDE DEF j
        <4>. QED
          BY <2>2, <4>1, <4>2
      <3>. QED
        BY <3>1, <3>2
    <2> HIDE DEF h
    <2>. QED
      BY <2>3, <2>4, <2>5 DEF Takes
  <1>. QED
    BY <1>2, <1>3 DEF w

\* The first step of a script, and the rest.
LEMMA TakesHead ==
    ASSUME NEW A, NEW T, NEW S, NEW s \in Seq(S), s # <<>>, NEW a \in A, NEW c \in A
    PROVE  /\ Head(s) \in S /\ Tail(s) \in Seq(S)
           /\ Takes(A, T, a, s, c)
              <=> \E b \in A : <<a, Head(s), b>> \in T /\ Takes(A, T, b, Tail(s), c)
  <1>1. Head(s) \in S /\ Tail(s) \in Seq(S) /\ s = <<Head(s)>> \o Tail(s)
    BY HeadTailProperties
  <1>2. <<Head(s)>> \in Seq(S)
    <2>1. \A x \in S : <<x>> \in Seq(S)
      BY SMTT(30)
    <2>. QED
      BY <1>1, <2>1, Zenon
  <1>3. Takes(A, T, a, s, c)
        <=> \E b \in A : Takes(A, T, a, <<Head(s)>>, b) /\ Takes(A, T, b, Tail(s), c)
    <2>1. ASSUME NEW u \in Seq(S), NEW v \in Seq(S), u \o v = s
          PROVE  Takes(A, T, a, s, c) <=> \E b \in A : Takes(A, T, a, u, b) /\ Takes(A, T, b, v, c)
      <3>1. Takes(A, T, a, u \o v, c) <=> \E b \in A : Takes(A, T, a, u, b) /\ Takes(A, T, b, v, c)
        BY TakesJoined
      <3>. QED
        BY <2>1, <3>1, Zenon
    <2>. QED
      BY <1>1, <1>2, <2>1
  <1>4. \A b \in A : Takes(A, T, a, <<Head(s)>>, b) <=> <<a, Head(s), b>> \in T
    BY <1>1, TakesOne
  <1>5. Takes(A, T, a, s, c) <=> \E b \in A : <<a, Head(s), b>> \in T /\ Takes(A, T, b, Tail(s), c)
    BY <1>3, <1>4, Zenon
  <1>. QED
    BY <1>1, <1>5, Zenon
-----------------------------------------------------------------------------
(***************************************************************************)
(* Folds over a sequence.                                                  *)
(***************************************************************************)
\* A set of positions that is not empty has a last one.
LEMMA LastPosition ==
    ASSUME NEW n \in Nat, NEW s \in SUBSET (1..n), s # {}
    PROVE  Max(s) \in s /\ \A y \in s : y <= Max(s)
  <1> DEFINE HasMax(u) == \E x \in u : \A y \in u : x >= y
             S == {r \in Nat : \A u \in SUBSET (1..r) : u # {} => HasMax(u)}
  <1>1. 0 \in S
    <2>1. 1..0 = {}
      OBVIOUS
    <2>. QED
      BY <2>1
  <1>2. ASSUME NEW r \in Nat, r \in S PROVE r + 1 \in S
    <2> SUFFICES ASSUME NEW u \in SUBSET (1 .. r + 1), u # {} PROVE HasMax(u)
      OBVIOUS
    <2>1. CASE r + 1 \in u
      BY <2>1
    <2>2. CASE r + 1 \notin u
      <3>1. u \in SUBSET (1..r)
        BY <2>2
      <3>. QED
        BY <1>2, <3>1
    <2>. QED
      BY <2>1, <2>2
  <1> HIDE DEF S
  <1>3. n \in S
    BY <1>1, <1>2, SetInduction
  <1>4. HasMax(s)
    BY <1>3 DEF S
  <1>. QED
    BY <1>4 DEF Max

\* The table a fold is read from, for steps given as a function.
Tabulates(g, n, base, F) ==
    g = [s \in SUBSET (1..n) |-> IF s = {} THEN base ELSE F[<<g[s \ {Max(s)}], Max(s)>>]]

\* Such a table exists: by induction on the last position.
LEMMA FoldTable ==
    ASSUME NEW n \in Nat, NEW A, NEW base \in A, NEW F \in [A \X (1..n) -> A]
    PROVE  \E g \in [SUBSET (1..n) -> A] : Tabulates(g, n, base, F)
  <1> DEFINE D == SUBSET (1..n)
             step(g, s) == IF s = {} THEN base ELSE F[<<g[s \ {Max(s)}], Max(s)>>]
             upTo(g, r) == \A s \in D : s \subseteq 1..r => g[s] = step(g, s)
             S == {r \in Nat : \E g \in [D -> A] : upTo(g, r)}
  <1>1. ASSUME NEW g \in [D -> A], NEW s \in D PROVE step(g, s) \in A
    <2>1. CASE s = {}
      BY <2>1
    <2>2. CASE s # {}
      <3>1. Max(s) \in 1..n /\ s \ {Max(s)} \in D
        BY <2>2, LastPosition
      <3>. QED
        BY <2>2, <3>1
    <2>. QED
      BY <2>1, <2>2
  <1>2. 0 \in S
    <2> DEFINE g == [s \in D |-> base]
    <2>1. g \in [D -> A] /\ upTo(g, 0)
      OBVIOUS
    <2>. QED
      BY <2>1
  <1>3. ASSUME NEW r \in Nat, r \in S PROVE r + 1 \in S
    <2>1. PICK g \in [D -> A] : upTo(g, r)
      BY <1>3
    <2> DEFINE more == [s \in D |-> step(g, s)]
    <2>2. more \in [D -> A]
      BY <1>1
    <2>3. ASSUME NEW s \in D, s \subseteq 1 .. r + 1, s # {} PROVE more[s] = step(more, s)
      <3> DEFINE t == s \ {Max(s)}
      <3>1. Max(s) \in s /\ \A y \in s : y <= Max(s)
        BY <2>3, LastPosition
      <3>2. ASSUME NEW y \in t PROVE y \in 1..r
        <4>1. y \in 1 .. r + 1 /\ y # Max(s) /\ y <= Max(s) /\ Max(s) \in 1 .. r + 1
          BY <2>3, <3>1
        <4>. QED
          BY <4>1
      <3>3. t \in D /\ t \subseteq 1..r
        BY <3>2
      <3>4. more[t] = g[t]
        BY <2>1, <3>3
      <3>5. more[s] = step(g, s)
        OBVIOUS
      <3>. QED
        BY <2>3, <3>4, <3>5
    <2>4. ASSUME NEW s \in D, s = {} PROVE more[s] = step(more, s)
      BY <2>4
    <2>5. upTo(more, r + 1)
      BY <2>3, <2>4
    <2> HIDE DEF more, upTo
    <2>. QED
      BY <2>2, <2>5
  <1> HIDE DEF S
  <1>4. n \in S
    BY <1>2, <1>3, SetInduction
  <1>5. PICK g \in [D -> A] : upTo(g, n)
    BY <1>4 DEF S
  <1>6. g = [s \in D |-> step(g, s)]
    BY <1>5
  <1>. QED
    BY <1>6 DEF Tabulates

\* The last position of a beginning, and what is in front of it.
LEMMA Beginning ==
    ASSUME NEW n \in Nat, NEW k \in 1..n
    PROVE  /\ 1..k \in SUBSET (1..n) /\ 1..k # {}
           /\ Max(1..k) = k
           /\ (1..k) \ {Max(1..k)} = 1 .. k - 1
  <1>1. 1..k \in SUBSET (1..n) /\ 1..k # {}
    OBVIOUS
  <1>2. Max(1..k) \in 1..k /\ \A y \in 1..k : y <= Max(1..k)
    BY <1>1, LastPosition
  <1>3. Max(1..k) = k
    BY <1>2
  <1>4. (1..k) \ {k} = 1 .. k - 1
    OBVIOUS
  <1>. QED
    BY <1>1, <1>3, <1>4
==============================================================================
