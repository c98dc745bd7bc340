------------------------- MODULE ArithmeticProofs -------------------------
(***************************************************************************)
(* Arithmetic that is exact at every width: the modular multiplication of  *)
(* field::helpers, the operations of both prime fields over it, and the    *)
(* bounds of crate common that keep a fold below the group's order.        *)
(*                                                                         *)
(* Multiplication: the halves' product (ProductIsExact), the long division *)
(* behind mu (MuIsQuotient), the estimate and its two corrections          *)
(* (Estimate, ReductionIsExact), and the reference by doubling             *)
(* (DoublingIsExact).  A fold is followed along the table of its values    *)
(* (QuotientPath, Doublings).  Operands is the invariant that carries      *)
(* these facts to MCFieldMetadata's walk over moduli and operands.         *)
(***************************************************************************)
EXTENDS MCFieldMetadata, Parameters, InductionLemmas, FiniteSetTheorems

\* A quotient and a remainder are the only ones.
LEMMA OneQuotient ==
    ASSUME NEW d \in Nat \ {0}, NEW q \in Int, NEW r \in 0 .. d - 1, q * d + r \in Nat
    PROVE  (q * d + r) \div d = q /\ (q * d + r) % d = r
  OBVIOUS

\* What division leaves.
LEMMA Division ==
    ASSUME NEW n \in Nat, NEW d \in Nat \ {0}
    PROVE  n \div d \in Nat /\ n % d \in 0 .. d - 1 /\ n = (n \div d) * d + (n % d)
  OBVIOUS

LEMMA Twice ==
    ASSUME NEW n \in 0 .. 2 * Width
    PROVE  2^n \in Nat \ {0} /\ (n >= 1 => 2^n = 2 * 2^(n - 1))
  <1> DEFINE S == {m \in Nat : m <= 2 * Width => 2^m \in Nat \ {0}}
  <1>1. 0 \in S
    BY PowersOfTwo
  <1>2. ASSUME NEW m \in Nat, m \in S PROVE m + 1 \in S
    <2>1. CASE m + 1 <= 2 * Width
      <3>1. m \in 0 .. 2 * Width /\ 2 * Width \in Nat
        BY <2>1, PowersOfTwo DEF Width
      <3>2. 2^m \in Nat \ {0} /\ 2^(m + 1) = 2 * 2^m
        BY <1>2, <3>1, PowersOfTwo
      <3>. QED
        BY <3>2
    <2>. QED
      BY <2>1
  <1> HIDE DEF S
  <1>3. n \in S /\ n \in Nat /\ 2 * Width \in Nat
    BY <1>1, <1>2, SetInduction, PowersOfTwo DEF Width
  <1>4. 2^n \in Nat \ {0}
    BY <1>3 DEF S
  <1>5. ASSUME n >= 1 PROVE 2^n = 2 * 2^(n - 1)
    <2>1. n - 1 \in 0 .. 2 * Width /\ (n - 1) + 1 = n
      BY <1>3, <1>5
    <2>. QED
      BY <2>1, PowersOfTwo
  <1>. QED
    BY <1>4, <1>5

\* Exponents add.
LEMMA PowerSum ==
    ASSUME NEW m \in Nat, NEW n \in Nat, m + n <= 2 * Width
    PROVE  2^(m + n) = 2^m * 2^n
  <1> DEFINE S == {k \in Nat : m + k <= 2 * Width => 2^(m + k) = 2^m * 2^k}
  <1>0. 2 * Width \in Nat
    BY PowersOfTwo DEF Width
  <1>1. 0 \in S
    <2>1. ASSUME m + 0 <= 2 * Width PROVE 2^(m + 0) = 2^m * 2^0
      <3>1. m + 0 = m /\ 2^m \in Nat /\ 2^0 = 1
        BY <1>0, <2>1, Twice, PowersOfTwo
      <3>. QED
        BY <3>1
    <2>. QED
      BY <2>1
  <1>2. ASSUME NEW k \in Nat, k \in S PROVE k + 1 \in S
    <2>1. ASSUME m + (k + 1) <= 2 * Width PROVE 2^(m + (k + 1)) = 2^m * 2^(k + 1)
      <3>1. m + k \in 0 .. 2 * Width /\ k \in 0 .. 2 * Width /\ m \in 0 .. 2 * Width
        BY <1>0, <2>1
      <3>2. 2^(m + k) = 2^m * 2^k
        BY <1>2, <3>1
      <3>3. m + (k + 1) = (m + k) + 1 /\ 2^((m + k) + 1) = 2 * 2^(m + k) /\ 2^(k + 1) = 2 * 2^k
        BY <3>1, PowersOfTwo
      <3>4. 2^m \in Nat /\ 2^k \in Nat
        BY <3>1, Twice
      <3>. QED
        BY <3>2, <3>3, <3>4
    <2>. QED
      BY <2>1
  <1> HIDE DEF S
  <1>3. n \in S
    BY <1>1, <1>2, SetInduction
  <1>. QED
    BY <1>3 DEF S

\* A number that fits in a double word has a length.
LEMMA Length ==
    ASSUME NEW n \in Nat, 1 <= n, n < Full
    PROVE  /\ BitLength(n) \in 1..Width
           /\ 2^(BitLength(n) - 1) <= n /\ n < 2^BitLength(n)
  <1> DEFINE Fits(k, m) == 2^(k - 1) <= m /\ m < 2^k
             S == {w \in Nat : w <= Width => \A m \in Nat \ {0} : m < 2^w => \E k \in 1..w : Fits(k, m)}
  <1>0. Width \in Nat \ {0} /\ 2 * Width \in Nat
    BY PowersOfTwo DEF Width
  <1>1. 0 \in S
    BY PowersOfTwo
  <1>2. ASSUME NEW w \in Nat, w \in S PROVE w + 1 \in S
    <2> SUFFICES ASSUME w + 1 <= Width, NEW m \in Nat \ {0}, m < 2^(w + 1)
                 PROVE  \E k \in 1 .. w + 1 : Fits(k, m)
      OBVIOUS
    <2>1. w \in 0 .. 2 * Width /\ 2^w \in Nat /\ (w + 1) - 1 = w /\ w + 1 \in 1 .. w + 1
      BY <1>0, Twice
    <2>2. CASE m < 2^w
      <3>1. w <= Width
        BY <1>0
      <3>2. PICK k \in 1..w : Fits(k, m)
        BY <1>2, <2>2, <3>1
      <3>3. k \in 1 .. w + 1
        OBVIOUS
      <3>. QED
        BY <3>2, <3>3
    <2>3. CASE ~(m < 2^w)
      <3>1. Fits(w + 1, m)
        BY <2>1, <2>3
      <3>. QED
        BY <2>1, <3>1
    <2>. QED
      BY <2>2, <2>3
  <1> HIDE DEF S
  <1>3. Width \in S
    BY <1>0, <1>1, <1>2, SetInduction
  <1>4. Width <= Width /\ n \in Nat \ {0} /\ n < 2^Width
    BY <1>0 DEF Full
  <1> HIDE DEF Fits
  <1>5. \E k \in 1..Width : Fits(k, n)
    BY <1>3, <1>4 DEF S
  <1>6. BitLength(n) = CHOOSE k \in 1..Width : Fits(k, n)
    BY <1>4, Zenon DEF BitLength, Fits
  <1>7. BitLength(n) \in 1..Width /\ Fits(BitLength(n), n)
    BY <1>5, <1>6, Zenon
  <1>. QED
    BY <1>7 DEF Fits
-----------------------------------------------------------------------------
\* The double word is two halves.
LEMMA Halves ==
    /\ Half \in Nat \ {0} /\ Full \in Nat \ {0}
    /\ Full = Half * Half
    /\ Width \in Nat \ {0} /\ Width >= 2 /\ 2 * Width \in Nat
  <1>1. HalfBits \in 0 .. 2 * Width /\ Width \in 0 .. 2 * Width /\ HalfBits + HalfBits = Width
        /\ HalfBits + HalfBits <= 2 * Width /\ HalfBits \in Nat
    BY PowersOfTwo DEF Width
  <1>2. 2^(HalfBits + HalfBits) = 2^HalfBits * 2^HalfBits
    BY <1>1, PowerSum
  <1>3. Half \in Nat \ {0} /\ Full \in Nat \ {0}
    BY <1>1, Twice DEF Half, Full
  <1>4. Full = Half * Half
    BY <1>1, <1>2 DEF Half, Full
  <1>. QED
    BY <1>3, <1>4, PowersOfTwo DEF Width

\* The schoolbook product is exact, carries included.
THEOREM ProductIsExact ==
    ASSUME NEW x \in Nat, NEW y \in Nat
    PROVE  LET wide == mul_wide(x, y)
           IN  wide[1] \in 0 .. Full - 1 /\ wide[2] \in Nat /\ wide[1] + Full * wide[2] = x * y
  <1> DEFINE x0 == x % Half
             x1 == x \div Half
             y0 == y % Half
             y1 == y \div Half
             cross == x0 * y1 + x1 * y0
             mid == cross % Full
             carry == cross \div Full
             m0 == mid % Half
             m1 == mid \div Half
             low == x0 * y0 + ((mid * Half) % Full)
             l0 == low % Full
             l1 == low \div Full
  <1>1. /\ x0 \in Nat /\ x1 \in Nat /\ x = x1 * Half + x0
        /\ y0 \in Nat /\ y1 \in Nat /\ y = y1 * Half + y0
    BY Halves, Division
  <1>2. cross \in Nat
    BY <1>1
  <1>3. mid \in Nat /\ carry \in Nat /\ cross = carry * Full + mid
    <2> HIDE DEF cross
    <2>1. cross % Full \in 0 .. Full - 1 /\ cross \div Full \in Nat
          /\ cross = (cross \div Full) * Full + (cross % Full)
      BY <1>2, Halves, Division
    <2>. QED
      BY <2>1, Halves
  <1>4. m0 \in 0 .. Half - 1 /\ m1 \in Nat /\ mid = m1 * Half + m0
    BY <1>3, Halves, Division
  <1>5. (mid * Half) % Full = m0 * Half
    <2> HIDE DEF m0, m1, mid
    <2>1. mid * Half = m1 * Full + m0 * Half
      <3>1. mid * Half = m1 * (Half * Half) + m0 * Half
        BY <1>4, Halves
      <3>. QED
        BY <3>1, Halves
    <2>2. m0 * Half \in 0 .. Full - 1
      <3>1. m0 * Half <= (Half - 1) * Half
        BY <1>4, Halves
      <3>2. (Half - 1) * Half = Full - Half
        BY Halves
      <3>3. m0 * Half \in Nat
        BY <1>4, Halves
      <3>. QED
        BY <3>1, <3>2, <3>3, Halves
    <2>3. m1 * Full + m0 * Half \in Nat
      BY <1>4, Halves
    <2> DEFINE rest == m0 * Half
    <2>4. rest \in 0 .. Full - 1 /\ m1 * Full + rest \in Nat /\ m1 \in Int
      BY <2>2, <2>3, <1>4
    <2> HIDE DEF rest
    <2>5. (m1 * Full + rest) % Full = rest
      BY <2>4, Halves, OneQuotient
    <2>. QED
      BY <2>1, <2>5 DEF rest
  <1>6. l0 \in 0 .. Full - 1 /\ l1 \in Nat /\ x0 * y0 + m0 * Half = l1 * Full + l0
    <2>1. low = x0 * y0 + m0 * Half
      BY <1>5
    <2>2. low \in Nat
      BY <2>1, <1>1, <1>4, Halves
    <2> HIDE DEF low
    <2>3. l0 \in 0 .. Full - 1 /\ l1 \in Nat /\ low = l1 * Full + l0
      BY <2>2, Halves, Division
    <2>. QED
      BY <2>1, <2>3
  <1>7. mul_wide(x, y) = <<l0, x1 * y1 + m1 + carry * Half + l1>>
    BY DEF mul_wide
  <1> HIDE DEF x0, x1, y0, y1, mid, carry, m0, m1, l0, l1
  <1>8. x1 * y1 + m1 + carry * Half + l1 \in Nat
    BY <1>1, <1>3, <1>4, <1>6, Halves
  <1>9. l0 + Full * (x1 * y1 + m1 + carry * Half + l1) = x * y
    <2>1. x * y = x1 * y1 * Full + (x0 * y1 + x1 * y0) * Half + x0 * y0
      <3>1. (x1 * Half + x0) * (y1 * Half + y0)
              = x1 * y1 * (Half * Half) + (x0 * y1 + x1 * y0) * Half + x0 * y0
        BY <1>1, Halves
      <3>. QED
        BY <3>1, <1>1, Halves
    <2>2. (x0 * y1 + x1 * y0) * Half = carry * Half * Full + m1 * Full + m0 * Half
      <3>1. x0 * y1 + x1 * y0 = carry * Full + m1 * Half + m0
        <4>1. carry * Full \in Int /\ m1 * Half \in Int /\ m0 \in Int
          BY <1>3, <1>4, Halves
        <4> DEFINE C == carry * Full
                   M == m1 * Half
        <4>2. C \in Int /\ M \in Int /\ x0 * y1 + x1 * y0 = C + mid /\ mid = M + m0
          BY <4>1, <1>3, <1>4
        <4> HIDE DEF C, M
        <4>3. x0 * y1 + x1 * y0 = C + M + m0
          BY <4>1, <4>2
        <4>. QED
          BY <4>3 DEF C, M
      <3>2. (carry * Full + m1 * Half + m0) * Half
              = carry * Half * Full + m1 * (Half * Half) + m0 * Half
        BY <1>3, <1>4, Halves
      <3>. QED
        BY <3>1, <3>2, Halves
    <2>3. Full * (x1 * y1 + m1 + carry * Half + l1)
            = x1 * y1 * Full + m1 * Full + carry * Half * Full + l1 * Full
      BY <1>1, <1>3, <1>4, <1>6, Halves
    <2> DEFINE P == x1 * y1 * Full
               Q == carry * Half * Full
               R == m1 * Full
               U == l1 * Full
               V == m0 * Half
               W == x0 * y0
               X == x * y
               Y == Full * (x1 * y1 + m1 + carry * Half + l1)
    <2>4. P \in Int /\ Q \in Int /\ R \in Int /\ U \in Int /\ V \in Int /\ W \in Int /\ l0 \in Int
      BY <1>1, <1>3, <1>4, <1>6, Halves
    <2>5. X = P + (Q + R + V) + W /\ Y = P + R + Q + U /\ W + V = U + l0
      BY <2>1, <2>2, <2>3, <1>6
    <2> HIDE DEF P, Q, R, U, V, W, X, Y
    <2>6. l0 + Y = X
      BY <2>4, <2>5
    <2>. QED
      BY <2>6 DEF X, Y
  <1>10. mul_wide(x, y)[1] = l0 /\ mul_wide(x, y)[2] = x1 * y1 + m1 + carry * Half + l1
    BY <1>7
  <1>. QED
    BY <1>6, <1>8, <1>9, <1>10
-----------------------------------------------------------------------------
\* A shift of a double width that leaves no more than a double word is a division.
LEMMA ShiftIsDivision ==
    ASSUME NEW lo \in 0 .. Full - 1, NEW hi \in Nat, NEW n \in 0 .. Width - 1,
           (lo + Full * hi) \div 2^n < Full
    PROVE  shr_wide(lo, hi, n) = (lo + Full * hi) \div 2^n
  <1> DEFINE D == 2^n
             E == 2^(Width - n)
             l0 == lo % D
             l1 == lo \div D
             high == hi * E
  <1>1. n \in Nat /\ Width - n \in Nat /\ n \in 0 .. 2 * Width /\ Width - n \in 0 .. 2 * Width
        /\ n + (Width - n) = Width /\ n + (Width - n) <= 2 * Width
    BY Halves
  <1>2. D \in Nat \ {0} /\ E \in Nat \ {0} /\ Full = D * E
    BY <1>1, Twice, PowerSum DEF Full
  <1>3. CASE n = 0
    <2>1. D = 1 /\ lo + Full * hi \in Nat
      BY <1>3, PowersOfTwo, Halves
    <2>2. (lo + Full * hi) \div D = lo + Full * hi
      BY <2>1
    <2>3. hi = 0
      <3>1. lo + Full * hi < Full
        BY <2>2
      <3>. QED
        BY <3>1, Halves
    <2>4. lo + Full * hi = lo
      BY <2>3, Halves
    <2>. QED
      BY <2>2, <2>4, <1>3 DEF shr_wide
  <1>4. CASE n # 0
    <2>1. l0 \in 0 .. D - 1 /\ l1 \in Nat /\ lo = l1 * D + l0
      <3> HIDE DEF D, E
      <3>1. lo \in Nat
        BY Halves
      <3>. QED
        BY <3>1, <1>2, Division
    <2>2. high \in Nat
      BY <1>2
    <2>3. lo + Full * hi = (l1 + high) * D + l0
      <3> HIDE DEF D, E, l0, l1
      <3>1. Full * hi = high * D
        BY <1>2
      <3> HIDE DEF high
      <3>2. (l1 + high) * D = l1 * D + high * D
        BY <2>1, <2>2, <1>2
      <3> DEFINE P == l1 * D
                 Q == high * D
                 T == Full * hi
                 U == (l1 + high) * D
      <3>3. P \in Int /\ Q \in Int /\ l0 \in Int /\ lo = P + l0 /\ T = Q /\ U = P + Q
        BY <2>1, <2>2, <1>2, <3>1, <3>2
      <3> HIDE DEF P, Q, T, U
      <3>4. lo + T = U + l0
        BY <3>3
      <3>. QED
        BY <3>4 DEF T, U
    <2>4. (lo + Full * hi) \div D = l1 + high
      <3> HIDE DEF D, l0, l1, high
      <3>1. (l1 + high) * D + l0 \in Nat /\ l1 + high \in Int
        BY <2>1, <2>2, <1>2
      <3>2. ((l1 + high) * D + l0) \div D = l1 + high
        BY <3>1, <2>1, <1>2, OneQuotient
      <3>. QED
        BY <3>2, <2>3
    <2>5. high % Full = high
      <3>1. l1 + high < Full
        BY <2>4
      <3> HIDE DEF l1, high
      <3>2. high < Full
        BY <3>1, <2>1, <2>2, Halves
      <3>. QED
        BY <3>2, <2>2, Halves
    <2>6. shr_wide(lo, hi, n) = l1 + (high % Full)
      BY <1>4 DEF shr_wide
    <2>. QED
      BY <2>4, <2>5, <2>6
  <1>. QED
    BY <1>3, <1>4
-----------------------------------------------------------------------------
\* One step of the long division by q, and the path of the quotients.
DivisionStep(q, k, acc, i) ==
    LET rem  == ((acc.rem * 2) % Full) + (IF i = 2 * k THEN 1 ELSE 0)
        fits == rem >= q
    IN  [rem |-> IF fits THEN rem - q ELSE rem,
         quo |-> ((acc.quo * 2) % Full) + (IF fits THEN 1 ELSE 0)]

DivisionPath(h, q, k) ==
    /\ h[0] = [rem |-> 0, quo |-> 0]
    /\ \A j \in 1 .. 2 * k + 1 : h[j] = DivisionStep(q, k, h[j - 1], 2 * k + 1 - j)
    /\ barrett_mu(q, k) = h[2 * k + 1].quo

LEMMA QuotientPath ==
    ASSUME NEW q \in Nat, NEW k \in Nat
    PROVE  \E h : DivisionPath(h, q, k)
  <1> DEFINE A == [rem : Int, quo : Int]
             n == 2 * k + 1
             seq == [j \in 1 .. 2 * k + 1 |-> 2 * k + 1 - j]
             base == [rem |-> 0, quo |-> 0]
             F == [p \in A \X (1..n) |-> DivisionStep(q, k, p[1], seq[p[2]])]
             Table(c) == c = [s \in SUBSET (DOMAIN seq) |->
                                IF s = {} THEN base
                                ELSE DivisionStep(q, k, c[s \ {Max(s)}], seq[Max(s)])]
             c == CHOOSE iter : Table(iter)
             h == [j \in 0..n |-> c[1..j]]
  <1>1. barrett_mu(q, k) = c[DOMAIN seq].quo
    BY DEF barrett_mu, DivisionStep, FoldLeft, MapThenFoldSet
  <1>2. n \in Nat /\ DOMAIN seq = 1..n /\ base \in A
    OBVIOUS
  <1>3. F \in [A \X (1..n) -> A]
    <2>1. ASSUME NEW acc \in A, NEW i \in 1..n PROVE DivisionStep(q, k, acc, seq[i]) \in A
      BY Halves DEF DivisionStep
    <2> HIDE DEF A, seq, n
    <2>. QED
      BY <2>1
  <1> HIDE DEF c, A, base
  <1>4. PICK g \in [SUBSET (1..n) -> A] : Tabulates(g, n, base, F)
    BY <1>2, <1>3, FoldTable
  <1>5. ASSUME NEW s \in SUBSET (1..n), s # {}
        PROVE  g[s] = DivisionStep(q, k, g[s \ {Max(s)}], seq[Max(s)])
    <2>1. Max(s) \in 1..n /\ s \ {Max(s)} \in SUBSET (1..n)
      BY <1>2, <1>5, LastPosition
    <2>2. g[s] = F[<<g[s \ {Max(s)}], Max(s)>>]
      BY <1>4, <1>5 DEF Tabulates
    <2>3. g[s \ {Max(s)}] \in A
      BY <2>1
    <2>. QED
      BY <2>1, <2>2, <2>3
  <1>6. g[{}] = base
    BY <1>4 DEF Tabulates
  <1>7. Table(g)
    BY <1>2, <1>5, <1>6
  <1>8. Table(c)
    BY <1>7 DEF c
  <1>9. c[1..0] = base
    <2>1. 1..0 = {}
      OBVIOUS
    <2>. QED
      BY <1>8, <2>1
  <1>10. ASSUME NEW j \in 1..n PROVE c[1..j] = DivisionStep(q, k, c[1 .. j - 1], 2 * k + 1 - j)
    <2>1. /\ 1..j \in SUBSET (1..n) /\ 1..j # {}
          /\ Max(1..j) = j /\ (1..j) \ {Max(1..j)} = 1 .. j - 1
      BY <1>2, Beginning
    <2>. QED
      BY <1>2, <1>8, <2>1
  <1>11. h[0] = base /\ barrett_mu(q, k) = h[n].quo
    BY <1>1, <1>2, <1>9
  <1>12. ASSUME NEW j \in 1..n PROVE h[j] = DivisionStep(q, k, h[j - 1], 2 * k + 1 - j)
    <2>1. j \in 0..n /\ j - 1 \in 0..n
      BY <1>2
    <2>2. h[j] = c[1..j] /\ h[j - 1] = c[1 .. j - 1]
      BY <2>1
    <2>. QED
      BY <1>10, <2>2
  <1> HIDE DEF h
  <1>. QED
    BY <1>11, <1>12 DEF DivisionPath, base

\* A factor cancels.
LEMMA Cancelled ==
    ASSUME NEW m \in Nat, NEW n \in Nat, NEW w \in Nat \ {0}, m * w <= n * w
    PROVE  m <= n
  <1>1. ASSUME n < m PROVE FALSE
    <2>1. n * w + w <= m * w
      BY <1>1, Multiples
    <2> DEFINE N == n * w
               M == m * w
    <2>2. N \in Nat /\ M \in Nat /\ N + w <= M /\ M <= N
      BY <2>1
    <2> HIDE DEF N, M
    <2>. QED
      BY <2>2
  <1>. QED
    BY <1>1

\* The long division is one: mu is the quotient of 2^(2k) by a modulus of k bits.
LEMMA MuIsQuotient ==
    ASSUME NEW q \in Nat, NEW k \in 2 .. Width - 2, 2^(k - 1) <= q, q < 2^k
    PROVE  \E e \in 0 .. q - 1 :
              /\ barrett_mu(q, k) \in Nat
              /\ barrett_mu(q, k) * q + e = 2^(2 * k)
              /\ barrett_mu(q, k) <= 2^(k + 1)
  <1> DEFINE B == 2^(k - 1)
             C == 2^(k + 1)
             n == 2 * k + 1
  <1>1. /\ k \in Nat /\ n \in Nat /\ k - 1 \in 0 .. 2 * Width /\ k + 1 \in 0 .. 2 * Width
        /\ (k - 1) + (k + 1) = 2 * k /\ 2 * k <= 2 * Width
        /\ k - 1 \in Nat /\ k + 1 \in Nat /\ 2 * Width \in Nat
    BY Halves
  <1>2. B \in Nat \ {0} /\ C \in Nat \ {0} /\ 2^(2 * k) = B * C
    BY <1>1, Twice, PowerSum
  <1>3. 2 * C <= Full /\ 2 * q < Full /\ q \in Nat \ {0}
    <2>1. (k + 1) + 1 \in 0 .. 2 * Width /\ k \in 0 .. 2 * Width /\ k + 2 <= Width
      BY <1>1, Halves
    <2>2. 2^(k + 1) = 2 * 2^k /\ 2^k \in Nat \ {0}
      BY <1>1, <2>1, Twice, PowersOfTwo
    <2> DEFINE m == Width - (k + 2)
    <2>3. m \in Nat /\ (k + 2) + m = Width /\ k + 2 \in Nat /\ (k + 2) + m <= 2 * Width
          /\ m \in 0 .. 2 * Width /\ k + 2 \in 0 .. 2 * Width
      BY <2>1, Halves
    <2>4. Full = 2^(k + 2) * 2^m
      BY <2>3, PowerSum DEF Full
    <2>5. 2^(k + 2) = 2 * C
      <3>1. (k + 2) - 1 = k + 1
        BY <1>1
      <3>. QED
        BY <2>3, <3>1, Twice
    <2>6. 2^m >= 1 /\ 2^m \in Nat
      BY <2>3, Twice
    <2> DEFINE D == 2^k
    <2>7. C = 2 * D /\ D \in Nat /\ q < D
      BY <2>2
    <2> HIDE DEF B, C, D, m
    <2>8. Full >= 2 * C
      BY <2>4, <2>5, <2>6, <1>2
    <2>9. B <= q /\ B \in Nat \ {0}
      BY <1>2 DEF B
    <2>. QED
      BY <2>7, <2>8, <2>9, Halves
  <1>4. PICK h : DivisionPath(h, q, k)
    BY <1>1, QuotientPath
  <1> DEFINE Divides(j) ==
                /\ h[j] \in [rem : Nat, quo : Nat]
                /\ h[j].rem < q
                /\ h[j].quo * q + h[j].rem = 2^(j - 1)
             S == {j \in Nat : j + 1 <= n => Divides(j + 1)}
  <1>5. 0 \in S
    <2>1. 1 \in 1..n /\ 1 - 1 = 0 /\ 2 * k + 1 - 1 = 2 * k
      BY <1>1
    <2>2. h[1] = DivisionStep(q, k, h[0], 2 * k)
      BY <1>4, <2>1 DEF DivisionPath
    <2>3. h[0] = [rem |-> 0, quo |-> 0]
      BY <1>4 DEF DivisionPath
    <2>4. ~(1 >= q)
      <3>1. B = 2 * 2^(k - 2) /\ 2^(k - 2) \in Nat \ {0}
        <4>1. k - 2 \in 0 .. 2 * Width /\ (k - 1) - 1 = k - 2 /\ k - 1 >= 1
          BY <1>1
        <4>. QED
          BY <1>1, <4>1, Twice
      <3>. QED
        BY <3>1, <1>3
    <2>5. (0 * 2) % Full = 0
      BY Halves
    <2>6. h[1] = [rem |-> 1, quo |-> 0]
      BY <2>2, <2>3, <2>4, <2>5, <1>3 DEF DivisionStep
    <2>7. Divides(1)
      BY <2>1, <2>4, <2>6, <1>3, PowersOfTwo
    <2>8. 0 + 1 = 1
      OBVIOUS
    <2> HIDE DEF Divides
    <2>. QED
      BY <2>7, <2>8
  <1>6. ASSUME NEW i \in Nat, i \in S PROVE i + 1 \in S
    <2> SUFFICES ASSUME (i + 1) + 1 <= n PROVE Divides((i + 1) + 1)
      OBVIOUS
    <2> DEFINE j == i + 1
               rem == h[j].rem
               quo == h[j].quo
    <2>1. j \in Nat /\ j + 1 \in 1..n /\ (j + 1) - 1 = j /\ j \in 1 .. 2 * k /\ j <= n
      BY <1>1
    <2>2. Divides(j)
      BY <1>6, <2>1
    <2>3. h[j + 1] = DivisionStep(q, k, h[j], 2 * k + 1 - (j + 1))
      BY <1>4, <2>1 DEF DivisionPath
    <2>4. 2 * k + 1 - (j + 1) # 2 * k
      BY <1>1, <2>1
    <2>5. rem \in Nat /\ quo \in Nat /\ rem < q /\ quo * q + rem = 2^(j - 1)
      BY <2>2
    <2>6. 2^j = 2 * 2^(j - 1) /\ 2^j \in Nat
      <3>1. j \in 0 .. 2 * Width /\ j >= 1
        BY <1>1, <2>1
      <3>. QED
        BY <3>1, Twice
    <2>7. 2^j <= B * C
      <3>1. j + (2 * k - j) = 2 * k /\ 2 * k - j \in Nat /\ 2 * k - j \in 0 .. 2 * Width
        BY <1>1, <2>1
      <3>2. B * C = 2^j * 2^(2 * k - j)
        BY <1>1, <1>2, <2>1, <3>1, PowerSum
      <3>3. 2^(2 * k - j) >= 1 /\ 2^(2 * k - j) \in Nat
        BY <3>1, Twice
      <3> HIDE DEF B, C, j
      <3>. QED
        BY <3>2, <3>3, <2>6
    <2>8. (quo * 2) % Full = quo * 2
      <3> HIDE DEF B, C, quo, rem, j
      <3>1. quo * 2 * q <= B * C
        BY <2>5, <2>6, <2>7, <1>2, <1>3
      <3>2. quo * 2 * B <= quo * 2 * q
        BY <2>5, <1>2 DEF B
      <3>3. quo * 2 <= C
        <4>1. (quo * 2) * B <= C * B /\ quo * 2 \in Nat
          BY <3>1, <3>2, <2>5, <1>2, <1>3
        <4>. QED
          BY <4>1, <1>2, Cancelled
      <3>. QED
        BY <3>3, <2>5, <1>2, <1>3, Halves
    <2>9. (rem * 2) % Full = rem * 2
      <3>1. rem \in Nat /\ rem < q
        BY <2>5
      <3> HIDE DEF rem
      <3>2. rem * 2 \in Nat /\ rem * 2 < Full
        BY <3>1, <1>3, Halves
      <3>. QED
        BY <3>2, Halves
    <2>10. h[j + 1] = [rem |-> IF rem * 2 >= q THEN rem * 2 - q ELSE rem * 2,
                       quo |-> quo * 2 + (IF rem * 2 >= q THEN 1 ELSE 0)]
      BY <2>3, <2>4, <2>5, <2>8, <2>9 DEF DivisionStep
    <2> SUFFICES Divides(j + 1)
      BY DEF j
    <2> HIDE DEF rem, quo, j
    <2>11. (j + 1) - 1 = j /\ 2 * (quo * q + rem) = 2^j
      BY <2>1, <2>5, <2>6
    <2>12. CASE rem * 2 >= q
      <3>1. h[j + 1] = [rem |-> rem * 2 - q, quo |-> quo * 2 + 1]
        BY <2>10, <2>12
      <3>2. (quo * 2 + 1) * q + (rem * 2 - q) = 2 * (quo * q + rem)
        BY <2>5, <1>3
      <3>3. rem * 2 - q \in Nat /\ rem * 2 - q < q /\ quo * 2 + 1 \in Nat
        BY <2>5, <2>12, <1>3
      <3>. QED
        BY <3>1, <3>2, <3>3, <2>11
    <2>13. CASE ~(rem * 2 >= q)
      <3>1. h[j + 1] = [rem |-> rem * 2, quo |-> quo * 2]
        BY <2>10, <2>13, <2>5
      <3>2. (quo * 2) * q + rem * 2 = 2 * (quo * q + rem)
        BY <2>5, <1>3
      <3>3. rem * 2 \in Nat /\ rem * 2 < q /\ quo * 2 \in Nat
        BY <2>5, <2>13, <1>3
      <3>. QED
        BY <3>1, <3>2, <3>3, <2>11
    <2>. QED
      BY <2>12, <2>13
  <1>7. Divides(n)
    <2> HIDE DEF S, Divides
    <2>1. 2 * k \in S /\ 2 * k + 1 <= n
      BY <1>1, <1>5, <1>6, SetInduction
    <2>. QED
      BY <2>1 DEF S
  <1> DEFINE mu == barrett_mu(q, k)
             e == h[n].rem
  <1>8. mu \in Nat /\ e \in 0 .. q - 1 /\ mu * q + e = 2^(2 * k)
    <2>1. n - 1 = 2 * k /\ mu = h[n].quo
      BY <1>1, <1>4 DEF DivisionPath
    <2> HIDE DEF n
    <2>. QED
      BY <1>7, <2>1, <1>3
  <1> HIDE DEF mu, e, B, C, n
  <1>9. mu <= C
    <2>1. mu * B <= mu * q
      BY <1>8, <1>2, <1>3 DEF B
    <2>2. mu * q <= C * B
      BY <1>8, <1>2, <1>3
    <2>3. mu * B <= C * B
      BY <2>1, <2>2, <1>2, <1>3, <1>8
    <2>. QED
      BY <2>3, <1>2, <1>8, Cancelled
  <1>. QED
    BY <1>8, <1>9 DEF mu, C
-----------------------------------------------------------------------------
\* The estimate of a quotient, from the one bit division: never too large, and
\* too small by less than three.
LEMMA Estimate ==
    ASSUME NEW B \in Nat \ {0}, NEW C \in Nat \ {0}, NEW q \in Nat, B <= q,
           NEW mu \in Nat, NEW e \in 0 .. q - 1, mu * q + e = B * C,
           NEW x \in Nat, NEW q1 \in 0 .. C - 1, NEW s \in 0 .. B - 1, x = q1 * B + s,
           NEW q3 \in Nat, NEW f \in 0 .. C - 1, q1 * mu = q3 * C + f
    PROVE  q3 * q <= x /\ x < q3 * q + 3 * q
  <1>1. q1 * (mu * q + e) = (q1 * B) * C
    <2>1. q1 * (B * C) = (q1 * B) * C
      OBVIOUS
    <2>. QED
      BY <2>1
  <1>2. q1 * (mu * q + e) = (q3 * C + f) * q + q1 * e
    <2>1. q1 * (mu * q + e) = (q1 * mu) * q + q1 * e
      OBVIOUS
    <2>. QED
      BY <2>1
  <1>3. (q3 * C + f) * q = (q3 * q) * C + f * q
    OBVIOUS
  <1>4. x * C = (q1 * B) * C + s * C
    OBVIOUS
  <1> DEFINE A == (q3 * q) * C
             F == f * q
             E == q1 * e
             S == s * C
             Q == q * C
             X == x * C
  <1>5. X = A + F + E + S
    BY <1>1, <1>2, <1>3, <1>4
  <1>6. /\ A \in Nat /\ F \in Nat /\ E \in Nat /\ S \in Nat /\ Q \in Nat /\ X \in Nat
        /\ q3 * q \in Nat
    OBVIOUS
  <1>7. F <= Q
    BY Multiples
  <1>8. E <= Q
    <2>1. q1 * e <= C * e
      BY Multiples
    <2>2. e * C <= q * C
      BY Multiples
    <2>3. C * e = e * C
      OBVIOUS
    <2>. QED
      BY <2>1, <2>2, <2>3
  <1>9. S + C <= Q
    <2>1. s < q
      OBVIOUS
    <2>. QED
      BY <2>1, Multiples
  <1>10. (q3 * q + 3 * q) * C = A + 3 * Q
    OBVIOUS
  <1>11. q3 * q <= x
    <2>1. (q3 * q) * C <= x * C
      <3> HIDE DEF F, E, S
      <3>. QED
        BY <1>5, <1>6
    <2>. QED
      BY <2>1, <1>6, Cancelled
  <1>12. x < q3 * q + 3 * q
    <2>1. SUFFICES ASSUME q3 * q + 3 * q <= x PROVE FALSE
      BY <1>6
    <2>2. q3 * q + 3 * q \in Nat
      BY <1>6
    <2>3. (q3 * q + 3 * q) * C <= x * C
      BY <2>1, <2>2, Multiples
    <2> HIDE DEF A, F, E, S, Q
    <2>4. A + 3 * Q <= X
      BY <2>3, <1>10
    <2> HIDE DEF X
    <2>. QED
      BY <2>4, <1>5, <1>6, <1>7, <1>8, <1>9
  <1>. QED
    BY <1>11, <1>12

\* A modulus that is two bits below the double word, and its length.
LEMMA ModulusLength ==
    ASSUME NEW q \in Nat, Admissible(q)
    PROVE  /\ q >= 2 /\ 4 * q < Full
           /\ BitLength(q) \in 2 .. Width - 2
           /\ 2^(BitLength(q) - 1) <= q /\ q < 2^BitLength(q)
  <1> DEFINE k == BitLength(q)
             top == 2^(Width - 2)
  <1>1. Width - 2 \in 0 .. 2 * Width /\ Width - 2 \in Nat /\ (Width - 2) + 2 = Width
        /\ (Width - 2) + 2 <= 2 * Width
    BY Halves
  <1>2. top \in Nat \ {0} /\ 2^2 = 4 /\ 2^1 = 2
    <2>1. 0 \in 0 .. 2 * Width /\ 1 \in 0 .. 2 * Width /\ 0 + 1 = 1 /\ 1 + 1 = 2
      BY Halves
    <2>2. 2^1 = 2 * 2^0 /\ 2^2 = 2 * 2^1
      BY <2>1, PowersOfTwo
    <2>3. top \in Nat \ {0}
      BY <1>1, Twice
    <2>. QED
      BY <2>2, <2>3, PowersOfTwo
  <1>3. Full = top * 4
    BY <1>1, <1>2, PowerSum DEF Full
  <1>4. q >= 2 /\ q < top
    BY DEF Admissible, MaxModulusBits
  <1>5. 4 * q < Full /\ 1 <= q /\ q < Full
    <2> HIDE DEF top
    <2>. QED
      BY <1>2, <1>3, <1>4
  <1>6. k \in 1..Width /\ 2^(k - 1) <= q /\ q < 2^k
    BY <1>5, Length
  <1> HIDE DEF k
  <1>7. k # 1
    <2>1. ASSUME k = 1 PROVE q < 2^1
      BY <1>6, <2>1
    <2>. QED
      BY <2>1, <1>2, <1>4
  <1>8. k <= Width - 2
    <2>1. SUFFICES ASSUME k - 1 >= Width - 2 PROVE FALSE
      BY <1>6, Halves
    <2> DEFINE n == (k - 1) - (Width - 2)
    <2>2. n \in Nat /\ n \in 0 .. 2 * Width /\ (Width - 2) + n = k - 1 /\ (Width - 2) + n <= 2 * Width
      BY <2>1, <1>1, <1>6, Halves
    <2>3. 2^(k - 1) = top * 2^n
      BY <2>2, <1>1, PowerSum
    <2>4. 2^n \in Nat /\ 2^n >= 1
      BY <2>2, Twice
    <2> HIDE DEF top, n
    <2>5. 2^(k - 1) >= top
      BY <2>3, <2>4, <1>2
    <2>. QED
      BY <2>5, <1>2, <1>4, <1>6
  <1>. QED
    BY <1>4, <1>5, <1>6, <1>7, <1>8 DEF k

\* Barrett's reduction of a product of reduced operands, by the length and the
\* quotient of FieldMetadata::new, is the remainder.
LEMMA ReductionIsExact ==
    ASSUME NEW q \in Nat, Admissible(q), NEW lo \in 0 .. Full - 1, NEW hi \in Nat,
           lo + Full * hi < q * q
    PROVE  barrett_reduce(lo, hi, q, barrett_mu(q, BitLength(q)), BitLength(q))
             = (lo + Full * hi) % q
  <1> DEFINE k == BitLength(q)
             mu == barrett_mu(q, k)
             B == 2^(k - 1)
             C == 2^(k + 1)
             x == lo + Full * hi
             q1 == shr_wide(lo, hi, k - 1)
             q2 == mul_wide(q1, mu)
             q3 == shr_wide(q2[1], q2[2], k + 1)
             p == mul_wide(q3, q)[1]
             g == mul_wide(q3, q)[2]
             r == (lo + Full - p) % Full
             Correct(v) == IF v >= q THEN v - q ELSE v
  <1>1. q >= 2 /\ 4 * q < Full /\ k \in 2 .. Width - 2 /\ B <= q /\ q < 2^k
    BY ModulusLength
  <1>2. barrett_reduce(lo, hi, q, mu, k) = Correct(Correct(r))
    BY DEF barrett_reduce
  <1>3. PICK e \in 0 .. q - 1 : mu \in Nat /\ mu * q + e = 2^(2 * k) /\ mu <= C
    BY <1>1, MuIsQuotient
  <1>4. /\ k - 1 \in 0 .. Width - 1 /\ k + 1 \in 0 .. Width - 1 /\ k - 1 \in Nat /\ k + 1 \in Nat
        /\ k - 1 \in 0 .. 2 * Width /\ k + 1 \in 0 .. 2 * Width
        /\ (k - 1) + (k + 1) = 2 * k /\ (k - 1) + (k + 1) <= 2 * Width /\ k \in 0 .. 2 * Width
        /\ (k + 1) - 1 = k /\ k + 1 >= 1
    BY <1>1, Halves
  <1>5. B \in Nat \ {0} /\ C \in Nat \ {0} /\ 2^(2 * k) = B * C
    BY <1>4, Twice, PowerSum
  <1>6. C <= Full
    <2> DEFINE n == Width - (k + 1)
    <2>1. n \in Nat /\ n \in 0 .. 2 * Width /\ (k + 1) + n = Width /\ (k + 1) + n <= 2 * Width
      BY <1>4, Halves
    <2>2. Full = C * 2^n
      BY <2>1, <1>4, PowerSum DEF Full
    <2>3. 2^n \in Nat /\ 2^n >= 1
      BY <2>1, Twice
    <2> HIDE DEF C, n
    <2>. QED
      BY <2>2, <2>3, <1>5
  <1>7. x \in Nat /\ x < C * B
    <2> HIDE DEF C, B
    <2>1. x \in Nat
      BY Halves
    <2>2. q <= C
      <3>1. C = 2 * 2^k /\ 2^k \in Nat
        BY <1>4, Twice DEF C
      <3>. QED
        BY <3>1, <1>1
    <2>3. q * q <= C * B
      <3>1. 2^k = 2 * B /\ C = 2 * 2^k /\ 2^k \in Nat
        BY <1>1, <1>4, Twice DEF B, C
      <3> DEFINE D == 2^k
      <3>2. D \in Nat /\ D = 2 * B /\ C = 2 * D /\ q <= D
        BY <3>1, <1>1
      <3> HIDE DEF D
      <3>3. q * q <= D * q /\ q * D <= D * D
        BY <3>2, Multiples
      <3>4. D * q = q * D /\ D * D = C * B
        BY <3>2, <1>5
      <3>5. q * q \in Nat /\ D * q \in Nat /\ D * D \in Nat
        BY <3>2
      <3>. QED
        BY <3>3, <3>4, <3>5
    <2> DEFINE Q == q * q
               R == C * B
    <2>4. Q \in Nat /\ R \in Nat /\ x < Q /\ Q <= R
      BY <2>3, <1>5
    <2> HIDE DEF Q, R, x
    <2>5. x < R
      BY <2>1, <2>4
    <2>. QED
      BY <2>1, <2>5 DEF R
  <1>8. q1 = x \div B /\ q1 \in 0 .. C - 1 /\ \E s \in 0 .. B - 1 : x = q1 * B + s
    <2> HIDE DEF B, C, x, q1
    <2>1. x \div B \in Nat /\ x % B \in 0 .. B - 1 /\ x = (x \div B) * B + (x % B)
      BY <1>5, <1>7, Division
    <2> DEFINE d == x \div B
               s == x % B
    <2>2. d \in Nat /\ s \in 0 .. B - 1 /\ x = d * B + s
      BY <2>1
    <2> HIDE DEF d, s
    <2>3. d < C
      <3>1. SUFFICES ASSUME C <= d PROVE FALSE
        BY <2>2, <1>5
      <3>2. C * B <= d * B
        BY <3>1, <2>2, <1>5, Multiples
      <3> DEFINE E == C * B
                 F == d * B
      <3>3. E \in Nat /\ F \in Nat /\ E <= F /\ x = F + s /\ x < E
        BY <3>2, <2>2, <1>5, <1>7
      <3> HIDE DEF E, F
      <3>. QED
        BY <3>3, <2>2
    <2>4. d < Full
      BY <2>2, <2>3, <1>5, <1>6, Halves
    <2>5. q1 = d
      BY <2>4, <1>4, ShiftIsDivision DEF q1, d, x, B
    <2>. QED
      BY <2>2, <2>3, <2>5, <1>5 DEF d
  <1> HIDE DEF q1
  <1>9. q2[1] \in 0 .. Full - 1 /\ q2[2] \in Nat /\ q2[1] + Full * q2[2] = q1 * mu
    <2>1. mu \in Nat /\ q1 \in Nat
      BY <1>3, <1>5, <1>8
    <2> HIDE DEF mu
    <2>. QED
      BY <2>1, ProductIsExact
  <1>10. q3 \in Nat /\ \E f \in 0 .. C - 1 : q1 * mu = q3 * C + f
    <2> HIDE DEF C, mu, q2, q3
    <2>1. q1 * mu \in Nat
      BY <1>3, <1>8
    <2> DEFINE d == (q1 * mu) \div C
               f == (q1 * mu) % C
    <2>2. d \in Nat /\ f \in 0 .. C - 1 /\ q1 * mu = d * C + f
      BY <2>1, <1>5, Division
    <2>3. d < Full
      <3> HIDE DEF d, f
      <3>1. mu * q1 <= C * q1
        BY <1>3, <1>5, <1>8, Multiples
      <3>2. d * C <= q1 * C
        <4>1. mu * q1 = q1 * mu /\ C * q1 = q1 * C
          BY <1>3, <1>5, <1>8
        <4> DEFINE E == q1 * mu
                   F == q1 * C
                   D == d * C
        <4>2. E \in Nat /\ F \in Nat /\ D \in Nat /\ E <= F /\ E = D + f
          BY <3>1, <4>1, <2>2, <1>3, <1>5, <1>8
        <4> HIDE DEF D, E, F
        <4>3. D <= F
          BY <4>2, <2>2
        <4>. QED
          BY <4>3 DEF D, F
      <3>3. d <= q1
        BY <3>2, <2>2, <1>5, <1>8, Cancelled
      <3>. QED
        BY <3>3, <2>2, <1>5, <1>6, <1>8, Halves
    <2>4. q3 = d
      <3>1. (q2[1] + Full * q2[2]) \div C < Full
        BY <2>3, <1>9
      <3>. QED
        BY <3>1, <1>4, <1>9, ShiftIsDivision DEF q3, C
    <2>. QED
      BY <2>2, <2>4
  <1> HIDE DEF q2, q3
  <1>11. q3 * q <= x /\ x < q3 * q + 3 * q
    <2>1. PICK s \in 0 .. B - 1 : x = q1 * B + s
      BY <1>8
    <2>2. PICK f \in 0 .. C - 1 : q1 * mu = q3 * C + f
      BY <1>10
    <2> HIDE DEF B, C, mu, x
    <2>3. B <= q /\ mu * q + e = B * C
      BY <1>1, <1>3, <1>5
    <2>. QED
      BY <1>3, <1>5, <1>7, <1>8, <1>10, <2>1, <2>2, <2>3, Estimate
  <1>12. p \in 0 .. Full - 1 /\ g \in Nat /\ p + Full * g = q3 * q
    BY <1>10, ProductIsExact
  <1> HIDE DEF k, mu, B, C, p, g
  <1>13. r = x - q3 * q
    <2> DEFINE t == x - q3 * q
               m == 1 + g - hi
    <2>1. q3 * q \in Nat /\ t \in 0 .. Full - 1
      <3>1. q3 * q \in Nat
        BY <1>10
      <3> DEFINE P == q3 * q
      <3>2. P \in Nat /\ P <= x /\ x < P + 3 * q /\ x \in Nat
        BY <3>1, <1>7, <1>11
      <3> HIDE DEF P, x
      <3>3. x - P \in 0 .. Full - 1
        BY <3>2, <1>1, Halves
      <3>. QED
        BY <3>1, <3>3 DEF P
    <2>2. m \in Int /\ m * Full = Full + Full * g - Full * hi
      BY <1>12, Halves
    <2>3. lo + Full - p = m * Full + t
      <3> DEFINE G == Full * g
                 H == Full * hi
                 P == q3 * q
                 M == m * Full
      <3>1. G \in Nat /\ H \in Nat /\ P \in Nat /\ M = Full + G - H /\ p + G = P /\ x = lo + H /\ t = x - P
        BY <2>1, <2>2, <1>12, Halves
      <3> HIDE DEF G, H, P, M, m, t, x
      <3>2. lo + Full - p = M + t
        BY <3>1, <1>12, Halves
      <3>. QED
        BY <3>2 DEF M
    <2> HIDE DEF t, m, x
    <2>4. m * Full + t \in Nat
      <3>1. lo + Full - p \in Nat
        BY <1>12, Halves
      <3>. QED
        BY <2>3, <3>1
    <2>5. (m * Full + t) % Full = t
      BY <2>1, <2>2, <2>4, Halves, OneQuotient
    <2>. QED
      BY <2>3, <2>5 DEF t
  <1> DEFINE v == Correct(Correct(r))
             P == q3 * q
  <1>14. P \in Nat /\ P <= x /\ x < P + 3 * q /\ r = x - P
    BY <1>10, <1>11, <1>13
  <1> HIDE DEF x, r, P
  <1>15. v \in 0 .. q - 1 /\ (x = P + v \/ x = P + q + v \/ x = P + 2 * q + v)
    BY <1>1, <1>7, <1>14
  <1> HIDE DEF v
  <1>16. PICK d \in Nat : x = d * q + v
    <2>1. q3 * q + v = P + v /\ (q3 + 1) * q + v = P + q + v /\ (q3 + 2) * q + v = P + 2 * q + v
      <3>1. (q3 + 1) * q = q3 * q + q /\ (q3 + 2) * q = q3 * q + 2 * q
        BY <1>10
      <3>. QED
        BY <3>1 DEF P
    <2>2. q3 \in Nat /\ q3 + 1 \in Nat /\ q3 + 2 \in Nat
      BY <1>10
    <2>. QED
      BY <2>1, <2>2, <1>15
  <1>17. x % q = v
    <2>1. (d * q + v) % q = v
      <3>1. d * q + v \in Nat /\ d \in Int /\ q \in Nat \ {0}
        BY <1>1, <1>7, <1>16
      <3>. QED
        BY <3>1, <1>15, OneQuotient
    <2>. QED
      BY <2>1, <1>16
  <1>. QED
    BY <1>2, <1>17 DEF v, x, k, mu

\* Multiplication by the metadata of a modulus is multiplication modulo it.
THEOREM BarrettIsExact ==
    ASSUME NEW q \in Nat, Admissible(q), NEW x \in 0 .. q - 1, NEW y \in 0 .. q - 1
    PROVE  Mul(New(q), x, y) = (x * y) % q
  <1> DEFINE lo == mul_wide(x, y)[1]
             hi == mul_wide(x, y)[2]
  <1>1. lo \in 0 .. Full - 1 /\ hi \in Nat /\ lo + Full * hi = x * y
    <2>1. x \in Nat /\ y \in Nat
      OBVIOUS
    <2>. QED
      BY <2>1, ProductIsExact
  <1>2. x * y < q * q
    <2>1. x * y <= q * y /\ y * q + q <= q * q
      BY Multiples
    <2> DEFINE P == x * y
               Q == q * y
               R == q * q
    <2>2. P \in Nat /\ Q \in Nat /\ R \in Nat /\ y * q = Q /\ q > 0
      OBVIOUS
    <2>3. P <= Q /\ Q + q <= R
      BY <2>1, <2>2
    <2> HIDE DEF P, Q, R
    <2>4. P < R
      BY <2>2, <2>3
    <2>. QED
      BY <2>4 DEF P, R
  <1>3. Mul(New(q), x, y) = barrett_reduce(lo, hi, q, barrett_mu(q, BitLength(q)), BitLength(q))
    BY DEF Mul, New
  <1> HIDE DEF lo, hi
  <1>4. lo + Full * hi < q * q
    BY <1>1, <1>2
  <1>. QED
    BY <1>1, <1>3, <1>4, ReductionIsExact
-----------------------------------------------------------------------------
(***************************************************************************)
(* Addition, and the multiplication by doubling.                           *)
(***************************************************************************)
\* The remainder of a sum, from those of its summands.
LEMMA SumOfRemainders ==
    ASSUME NEW q \in Nat \ {0}, NEW m \in Nat, NEW n \in Nat
    PROVE  (m + n) % q = IF (m % q) + (n % q) >= q THEN (m % q) + (n % q) - q ELSE (m % q) + (n % q)
  <1> DEFINE d == m \div q
             e == n \div q
             u == m % q
             v == n % q
  <1>1. d \in Nat /\ e \in Nat /\ u \in 0 .. q - 1 /\ v \in 0 .. q - 1
        /\ m = d * q + u /\ n = e * q + v
    BY Division
  <1> HIDE DEF d, e, u, v
  <1>2. (d + e) * q = d * q + e * q /\ (d + e + 1) * q = d * q + e * q + q
    BY <1>1
  <1>3. CASE u + v >= q
    <2>1. m + n = (d + e + 1) * q + (u + v - q) /\ u + v - q \in 0 .. q - 1 /\ d + e + 1 \in Int
      <3> DEFINE D == d * q
                 E == e * q
                 F == (d + e + 1) * q
      <3>1. D \in Int /\ E \in Int /\ F = D + E + q /\ m = D + u /\ n = E + v
        BY <1>1, <1>2
      <3> HIDE DEF D, E, F
      <3>2. m + n = F + (u + v - q)
        BY <3>1, <1>1
      <3>. QED
        BY <3>2, <1>1, <1>3 DEF F
    <2>2. ((d + e + 1) * q + (u + v - q)) % q = u + v - q
      <3>1. (d + e + 1) * q + (u + v - q) \in Nat
        BY <2>1
      <3>. QED
        BY <2>1, <3>1, OneQuotient
    <2>. QED
      BY <2>1, <2>2, <1>3 DEF u, v
  <1>4. CASE ~(u + v >= q)
    <2>1. m + n = (d + e) * q + (u + v) /\ u + v \in 0 .. q - 1 /\ d + e \in Int
      <3> DEFINE D == d * q
                 E == e * q
                 F == (d + e) * q
      <3>1. D \in Int /\ E \in Int /\ F = D + E /\ m = D + u /\ n = E + v
        BY <1>1, <1>2
      <3> HIDE DEF D, E, F
      <3>2. m + n = F + (u + v)
        BY <3>1, <1>1
      <3>. QED
        BY <3>2, <1>1, <1>4 DEF F
    <2>2. ((d + e) * q + (u + v)) % q = u + v
      <3>1. (d + e) * q + (u + v) \in Nat
        BY <2>1
      <3>. QED
        BY <2>1, <3>1, OneQuotient
    <2>. QED
      BY <2>1, <2>2, <1>4 DEF u, v
  <1>. QED
    BY <1>3, <1>4

\* Addition of reduced operands never leaves the double word.
LEMMA AddIsExact ==
    ASSUME NEW q \in Nat \ {0}, 2 * q < Full, NEW m \in Nat, NEW n \in Nat
    PROVE  add_mod(m % q, n % q, q) = (m + n) % q
  <1> DEFINE u == m % q
             v == n % q
  <1>1. u \in 0 .. q - 1 /\ v \in 0 .. q - 1
    BY Division
  <1>2. (m + n) % q = IF u + v >= q THEN u + v - q ELSE u + v
    BY SumOfRemainders
  <1> HIDE DEF u, v
  <1>3. (u + v) % Full = u + v
    <2>1. u + v \in Nat /\ u + v < Full
      BY <1>1, Halves
    <2>. QED
      BY <2>1, Halves
  <1>4. add_mod(u, v, q) = IF u + v >= q THEN u + v - q ELSE u + v
    BY <1>1, <1>3 DEF add_mod
  <1>. QED
    BY <1>2, <1>4 DEF u, v

\* One step of the multiplication by doubling, and its path.
DoublingStep(y, q, acc, i) ==
    <<IF (y \div 2^i) % 2 = 1 THEN add_mod(acc[1], acc[2], q) ELSE acc[1],
      add_mod(acc[2], acc[2], q)>>

DoublingPath(h, x, y, q) ==
    /\ h[0] = <<0, x % q>>
    /\ \A j \in 1..BitLength(y) : h[j] = DoublingStep(y, q, h[j - 1], j - 1)
    /\ mul_mod(x, y, q) = h[BitLength(y)][1]

LEMMA Doublings ==
    ASSUME NEW x \in Nat, NEW y \in Nat, NEW q \in Nat \ {0}, BitLength(y) \in Nat
    PROVE  \E h : DoublingPath(h, x, y, q)
  <1> DEFINE A == Int \X Int
             n == BitLength(y)
             seq == [i \in 1..BitLength(y) |-> i - 1]
             base == <<0, x % q>>
             F == [p \in A \X (1..n) |-> DoublingStep(y, q, p[1], seq[p[2]])]
             Table(c) == c = [s \in SUBSET (DOMAIN seq) |->
                                IF s = {} THEN base
                                ELSE DoublingStep(y, q, c[s \ {Max(s)}], seq[Max(s)])]
             c == CHOOSE iter : Table(iter)
             h == [j \in 0..n |-> c[1..j]]
  <1>1. mul_mod(x, y, q) = c[DOMAIN seq][1]
    BY DEF mul_mod, DoublingStep, FoldLeft, MapThenFoldSet
  <1>2. n \in Nat /\ DOMAIN seq = 1..n /\ base \in A
    BY Division
  <1>3. F \in [A \X (1..n) -> A]
    <2>1. ASSUME NEW acc \in A, NEW i \in 1..n PROVE DoublingStep(y, q, acc, seq[i]) \in A
      <3>1. ASSUME NEW u \in Int, NEW v \in Int PROVE add_mod(u, v, q) \in Int
        BY Halves DEF add_mod
      <3>2. acc[1] \in Int /\ acc[2] \in Int
        OBVIOUS
      <3>. QED
        BY <3>1, <3>2 DEF DoublingStep
    <2> HIDE DEF A, seq, n
    <2>. QED
      BY <2>1
  <1> HIDE DEF c, A, base
  <1>4. PICK g \in [SUBSET (1..n) -> A] : Tabulates(g, n, base, F)
    BY <1>2, <1>3, FoldTable
  <1>5. ASSUME NEW s \in SUBSET (1..n), s # {}
        PROVE  g[s] = DoublingStep(y, q, g[s \ {Max(s)}], seq[Max(s)])
    <2>1. Max(s) \in 1..n /\ s \ {Max(s)} \in SUBSET (1..n)
      BY <1>2, <1>5, LastPosition
    <2>2. g[s] = F[<<g[s \ {Max(s)}], Max(s)>>]
      BY <1>4, <1>5 DEF Tabulates
    <2>3. g[s \ {Max(s)}] \in A
      BY <2>1
    <2>. QED
      BY <2>1, <2>2, <2>3
  <1>6. g[{}] = base
    BY <1>4 DEF Tabulates
  <1>7. Table(g)
    BY <1>2, <1>5, <1>6
  <1>8. Table(c)
    BY <1>7 DEF c
  <1>9. c[1..0] = base
    <2>1. 1..0 = {}
      OBVIOUS
    <2>. QED
      BY <1>8, <2>1
  <1>10. ASSUME NEW j \in 1..n PROVE c[1..j] = DoublingStep(y, q, c[1 .. j - 1], j - 1)
    <2>1. /\ 1..j \in SUBSET (1..n) /\ 1..j # {}
          /\ Max(1..j) = j /\ (1..j) \ {Max(1..j)} = 1 .. j - 1
      BY <1>2, Beginning
    <2>. QED
      BY <1>2, <1>8, <2>1
  <1>11. h[0] = base /\ mul_mod(x, y, q) = h[n][1]
    BY <1>1, <1>2, <1>9
  <1>12. ASSUME NEW j \in 1..n PROVE h[j] = DoublingStep(y, q, h[j - 1], j - 1)
    <2>1. j \in 0..n /\ j - 1 \in 0..n
      BY <1>2
    <2>2. h[j] = c[1..j] /\ h[j - 1] = c[1 .. j - 1]
      BY <2>1
    <2>. QED
      BY <1>10, <2>2
  <1> HIDE DEF h
  <1>. QED
    BY <1>11, <1>12 DEF DoublingPath, base

\* One more bit of a number.
LEMMA NextBit ==
    ASSUME NEW y \in Nat, NEW j \in Nat, j + 1 <= 2 * Width
    PROVE  /\ (y \div 2^j) % 2 \in {0, 1}
           /\ y % 2^(j + 1) = (y % 2^j) + ((y \div 2^j) % 2) * 2^j
  <1> DEFINE D == 2^j
             E == 2^(j + 1)
             d == y \div D
             r == y % D
             t == d \div 2
             bit == d % 2
  <1>1. j \in 0 .. 2 * Width /\ j + 1 \in 0 .. 2 * Width
    BY Halves
  <1>2. D \in Nat \ {0} /\ E = 2 * D
    BY <1>1, Twice, PowersOfTwo
  <1> HIDE DEF D, E
  <1>3. d \in Nat /\ r \in 0 .. D - 1 /\ y = d * D + r
    BY <1>2, Division
  <1>4. t \in Nat /\ bit \in {0, 1} /\ d = t * 2 + bit
    <2> HIDE DEF d
    <2>. QED
      BY <1>3
  <1> HIDE DEF d, r, t, bit
  <1>5. y = t * E + (bit * D + r)
    <2>1. d * D = (t * 2 + bit) * D /\ (t * 2 + bit) * D = t * (2 * D) + bit * D
      BY <1>2, <1>4
    <2> DEFINE P == d * D
               Q == t * E
               R == bit * D
    <2>2. P \in Int /\ Q \in Int /\ R \in Int /\ P = Q + R /\ y = P + r
      BY <2>1, <1>2, <1>3, <1>4
    <2> HIDE DEF P, Q, R
    <2>3. y = Q + (R + r)
      BY <2>2, <1>3, <1>2
    <2>. QED
      BY <2>3 DEF Q, R
  <1>6. bit * D + r \in 0 .. E - 1
    BY <1>2, <1>3, <1>4
  <1>7. y % E = bit * D + r
    <2>1. t \in Int /\ t * E + (bit * D + r) \in Nat /\ E \in Nat \ {0}
      BY <1>2, <1>4, <1>5
    <2> DEFINE rest == bit * D + r
    <2>2. rest \in 0 .. E - 1 /\ t * E + rest \in Nat
      BY <2>1, <1>6
    <2> HIDE DEF rest
    <2>3. (t * E + rest) % E = rest
      BY <2>1, <2>2, OneQuotient
    <2>. QED
      BY <2>3, <1>5 DEF rest
  <1>8. bit * D \in Int /\ r \in Int /\ bit * D + r = r + bit * D
    BY <1>2, <1>3, <1>4
  <1>. QED
    BY <1>4, <1>7, <1>8 DEF d, r, bit, D, E

\* The reference multiplication, doubling once per bit, is exact too.
LEMMA DoublingIsExact ==
    ASSUME NEW q \in Nat, Admissible(q), NEW x \in Nat, NEW y \in 0 .. Full - 1
    PROVE  mul_mod(x, y, q) = (x * y) % q
  <1> DEFINE n == BitLength(y)
  <1>1. q \in Nat \ {0} /\ 2 * q < Full /\ y \in Nat
    BY ModulusLength, Halves
  <1>2. n \in 0..Width /\ y % 2^n = y
    <2>1. CASE y = 0
      <3>1. n = 0 /\ 2^0 = 1 /\ 0 % 1 = 0
        BY <2>1, PowersOfTwo DEF BitLength
      <3>2. y % 2^0 = 0
        BY <2>1, <3>1
      <3> HIDE DEF n
      <3>. QED
        BY <2>1, <3>1, <3>2, Halves
    <2>2. CASE y # 0
      <3>1. n \in 1..Width /\ y < 2^n
        <4>1. 1 <= y /\ y < Full
          BY <1>1, <2>2, Halves
        <4>. QED
          BY <1>1, <4>1, Length
      <3>2. n \in 0 .. 2 * Width /\ n \in 0..Width
        BY <3>1, Halves
      <3> DEFINE D == 2^n
      <3>3. D \in Nat \ {0}
        BY <3>2, Twice
      <3>4. y < D
        BY <3>1
      <3> HIDE DEF D
      <3>5. y % D = y
        BY <3>3, <3>4, <1>1
      <3>. QED
        BY <3>2, <3>5 DEF D
    <2>. QED
      BY <2>1, <2>2
  <1>3. PICK h : DoublingPath(h, x, y, q)
    BY <1>1, <1>2, Doublings
  <1> HIDE DEF n
  <1> DEFINE Doubled(j) == h[j] = <<(x * (y % 2^j)) % q, (x * 2^j) % q>>
             S == {j \in Nat : j <= n => Doubled(j)}
  <1>4. 0 \in S
    <2>1. 2^0 = 1 /\ y % 1 = 0 /\ x * 0 = 0 /\ x * 1 = x /\ 0 % q = 0
      BY <1>1, PowersOfTwo
    <2>2. h[0] = <<0, x % q>>
      BY <1>3 DEF DoublingPath
    <2>3. Doubled(0)
      BY <2>1, <2>2
    <2>. QED
      BY <2>3
  <1>5. ASSUME NEW j \in Nat, j \in S PROVE j + 1 \in S
    <2> SUFFICES ASSUME j + 1 <= n PROVE Doubled(j + 1)
      OBVIOUS
    <2> DEFINE D == 2^j
               low == y % D
               bit == (y \div D) % 2
               u == x * low
               v == x * D
    <2>1. j + 1 \in 1..n /\ (j + 1) - 1 = j /\ j + 1 <= 2 * Width /\ j \in 0 .. 2 * Width /\ j <= n
      BY <1>2, Halves
    <2>2. h[j] = <<u % q, v % q>>
      BY <1>5, <2>1
    <2>3. h[j + 1] = DoublingStep(y, q, h[j], j)
      BY <1>3, <2>1 DEF DoublingPath, n
    <2>4. D \in Nat \ {0} /\ 2^(j + 1) = 2 * D
      BY <2>1, Twice, PowersOfTwo
    <2>5. low \in Nat
      <3> HIDE DEF D
      <3>. QED
        BY <2>4, <1>1, Division
    <2>6. bit \in {0, 1} /\ y % 2^(j + 1) = low + bit * D
      BY <1>1, <2>1, NextBit
    <2>7. h[j + 1] = <<IF bit = 1 THEN add_mod(u % q, v % q, q) ELSE u % q,
                       add_mod(v % q, v % q, q)>>
      BY <2>2, <2>3 DEF DoublingStep
    <2> HIDE DEF D, low, bit
    <2>8. u \in Nat /\ v \in Nat
      BY <2>4, <2>5
    <2>9. add_mod(v % q, v % q, q) = (x * 2^(j + 1)) % q
      <3>1. x * 2^(j + 1) = v + v
        BY <2>4
      <3> HIDE DEF v
      <3>. QED
        BY <3>1, <2>8, <1>1, AddIsExact
    <2>10. (IF bit = 1 THEN add_mod(u % q, v % q, q) ELSE u % q) = (x * (y % 2^(j + 1))) % q
      <3>1. CASE bit = 1
        <4>1. x * (low + bit * D) = u + v
          BY <3>1, <2>4, <2>5
        <4> HIDE DEF u, v
        <4>2. add_mod(u % q, v % q, q) = (u + v) % q
          BY <2>8, <1>1, AddIsExact
        <4>. QED
          BY <3>1, <4>1, <4>2, <2>6
      <3>2. CASE bit = 0
        <4>1. x * (low + bit * D) = u
          BY <3>2, <2>4, <2>5
        <4> HIDE DEF u, v
        <4>2. bit # 1
          BY <3>2
        <4>. QED
          BY <4>1, <4>2, <2>6
      <3>. QED
        BY <3>1, <3>2, <2>6
    <2>. QED
      BY <2>7, <2>9, <2>10
  <1>6. Doubled(n)
    <2> HIDE DEF Doubled, S
    <2>1. n \in S /\ n <= n
      BY <1>2, <1>4, <1>5, SetInduction
    <2>. QED
      BY <2>1 DEF S
  <1>. QED
    BY <1>2, <1>3, <1>6 DEF DoublingPath, n
-----------------------------------------------------------------------------
(***************************************************************************)
(* The operations of the two prime fields.                                 *)
(***************************************************************************)
\* What an operation of DynField returns for a first operand that another modulus
\* may have left, and a value meant modulo q.
Meant(q, x, n) == IF x < q THEN n % q ELSE Panicked

\* Remainders of what is below the modulus, and below twice the modulus.
LEMMA SmallRemainder ==
    ASSUME NEW q \in Nat \ {0}, NEW n \in 0 .. 2 * q - 1
    PROVE  n % q = IF n >= q THEN n - q ELSE n
  <1>1. CASE n < q
    BY <1>1
  <1>2. CASE n >= q
    <2>1. 1 * q + (n - q) = n /\ n - q \in 0 .. q - 1
      BY <1>2
    <2>2. (1 * q + (n - q)) % q = n - q
      BY <2>1, OneQuotient
    <2>. QED
      BY <1>2, <2>1, <2>2
  <1>. QED
    BY <1>1, <1>2

\* One factor of a product may be reduced first.
LEMMA ProductOfRemainder ==
    ASSUME NEW q \in Nat \ {0}, NEW n \in Nat, NEW y \in Nat
    PROVE  ((n % q) * y) % q = (n * y) % q
  <1> DEFINE d == n \div q
             u == n % q
             P == u * y
             e == P \div q
             v == P % q
  <1>1. d \in Nat /\ u \in 0 .. q - 1 /\ n = d * q + u
    BY Division
  <1> HIDE DEF d, u
  <1>2. P \in Nat
    BY <1>1
  <1> HIDE DEF P
  <1>3. e \in Nat /\ v \in 0 .. q - 1 /\ P = e * q + v
    BY <1>2, Division
  <1> HIDE DEF e, v
  <1>4. n * y = (d * y + e) * q + v
    <2>1. n * y = (d * y) * q + P
      BY <1>1 DEF P
    <2>2. (d * y + e) * q = (d * y) * q + e * q
      BY <1>1, <1>3
    <2> DEFINE D == (d * y) * q
               E == e * q
               F == (d * y + e) * q
    <2>3. D \in Int /\ E \in Int /\ F = D + E /\ n * y = D + P /\ P = E + v
      BY <2>1, <2>2, <1>1, <1>3
    <2> HIDE DEF D, E, F
    <2>4. n * y = F + v
      BY <2>3, <1>3
    <2>. QED
      BY <2>4 DEF F
  <1>5. ((d * y + e) * q + v) % q = v
    <2>1. d * y + e \in Int /\ (d * y + e) * q + v \in Nat
      BY <1>1, <1>3
    <2>. QED
      BY <2>1, <1>3, OneQuotient
  <1>. QED
    BY <1>4, <1>5 DEF v, P, u

\* DynField: exact on reduced operands, a panic otherwise.
THEOREM DynamicOperations ==
    ASSUME NEW q \in Nat, Admissible(q), NEW x \in 0 .. Full - 1, NEW y \in 0 .. q - 1
    PROVE  /\ DynNeg(New(q), x) = Meant(q, x, q - x)
           /\ DynAdd(New(q), x, y) = Meant(q, x, x + y)
           /\ DynSub(New(q), y, x) = Meant(q, x, y + (q - x))
           /\ DynSub(New(q), x, y) = Meant(q, x, x + (q - y))
           /\ DynMul(New(q), x, y) = Meant(q, x, x * y)
  <1> DEFINE m == New(q)
  <1>1. m.modulus = q
    BY DEF New
  <1> HIDE DEF m
  <1>2. q \in Nat \ {0} /\ x \in Nat /\ y \in Nat /\ y < q
    BY ModulusLength, Halves
  <1>3. CASE ~(x < q)
    BY <1>1, <1>3
    DEF DynNeg, DynAdd, DynSub, DynMul, Guarded, assert_reduced, Meant, m
  <1>4. CASE x < q
    <2>1. DynNeg(m, x) = (q - x) % q
      <3>1. q - x \in 0 .. 2 * q - 1
        BY <1>2, <1>4
      <3>2. (q - x) % q = IF q - x >= q THEN q - x - q ELSE q - x
        BY <1>2, <3>1, SmallRemainder
      <3>. QED
        BY <1>1, <1>2, <1>4, <3>2 DEF DynNeg, assert_reduced
    <2>2. DynAdd(m, x, y) = (x + y) % q
      <3>1. x + y \in 0 .. 2 * q - 1
        BY <1>2, <1>4
      <3>2. (x + y) % q = IF x + y >= q THEN x + y - q ELSE x + y
        <4> DEFINE n == x + y
        <4>1. n \in 0 .. 2 * q - 1
          BY <3>1
        <4> HIDE DEF n
        <4>2. n % q = IF n >= q THEN n - q ELSE n
          BY <1>2, <4>1, SmallRemainder
        <4>. QED
          BY <4>2 DEF n
      <3>. QED
        BY <1>1, <1>2, <1>4, <3>2 DEF DynAdd, Guarded, assert_reduced
    <2>3. ASSUME NEW v \in 0 .. q - 1, NEW w \in 0 .. q - 1
          PROVE  DynSub(m, v, w) = (v + (q - w)) % q
      <3>1. v + (q - w) \in 0 .. 2 * q - 1
        BY <1>2
      <3>2. (v + (q - w)) % q = IF v + (q - w) >= q THEN v + (q - w) - q ELSE v + (q - w)
        <4> DEFINE n == v + (q - w)
        <4>1. n \in 0 .. 2 * q - 1
          BY <3>1
        <4> HIDE DEF n
        <4>2. n % q = IF n >= q THEN n - q ELSE n
          BY <1>2, <4>1, SmallRemainder
        <4>. QED
          BY <4>2 DEF n
      <3>. QED
        BY <1>1, <1>2, <3>2 DEF DynSub, Guarded, assert_reduced
    <2>4. x \in 0 .. q - 1
      BY <1>2, <1>4
    <2>5. DynMul(m, x, y) = (x * y) % q
      <3>1. Mul(m, x, y) = (x * y) % q
        BY <2>4, BarrettIsExact DEF m
      <3>. QED
        BY <1>1, <1>2, <1>4, <3>1 DEF DynMul, Guarded, assert_reduced
    <2>6. DynSub(m, y, x) = (y + (q - x)) % q /\ DynSub(m, x, y) = (x + (q - y)) % q
      BY <2>3, <2>4
    <2>. QED
      BY <1>4, <2>1, <2>2, <2>5, <2>6 DEF Meant, m
  <1>. QED
    BY <1>3, <1>4

\* Fq computes what DynField does: no sum leaves the double word.
THEOREM ConstantOperations ==
    ASSUME NEW q \in Nat, Admissible(q), NEW x \in 0 .. q - 1, NEW y \in 0 .. q - 1
    PROVE  /\ FqNeg(New(q), x) = DynNeg(New(q), x)
           /\ FqAdd(New(q), x, y) = DynAdd(New(q), x, y)
           /\ FqSub(New(q), x, y) = DynSub(New(q), x, y)
           /\ FqMul(New(q), x, y) = DynMul(New(q), x, y)
  <1> DEFINE m == New(q)
  <1>1. m.modulus = q
    BY DEF New
  <1> HIDE DEF m
  <1>2. q \in Nat \ {0} /\ x \in Nat /\ y \in Nat /\ x < q /\ y < q /\ 2 * q < Full
    BY ModulusLength, Halves
  <1>3. (x + y) % Full = x + y
    <2>1. x + y \in Nat /\ x + y < Full
      BY <1>2, Halves
    <2>. QED
      BY <2>1, Halves
  <1>4. (x + q) % Full = x + q
    <2>1. x + q \in Nat /\ x + q < Full
      BY <1>2, Halves
    <2>. QED
      BY <2>1, Halves
  <1>5. FqNeg(m, x) = DynNeg(m, x)
    BY <1>1, <1>2 DEF FqNeg, DynNeg, assert_reduced
  <1>6. FqAdd(m, x, y) = DynAdd(m, x, y)
    BY <1>1, <1>2, <1>3 DEF FqAdd, DynAdd, Guarded, assert_reduced
  <1>7. FqSub(m, x, y) = DynSub(m, x, y)
    BY <1>1, <1>2, <1>4 DEF FqSub, DynSub, Guarded, assert_reduced
  <1>8. FqMul(m, x, y) = DynMul(m, x, y)
    BY <1>1, <1>2 DEF FqMul, DynMul, Guarded, assert_reduced
  <1>. QED
    BY <1>5, <1>6, <1>7, <1>8 DEF m

\* A sum of three in DynField is two more sums.
LEMMA DynSumOfThree ==
    ASSUME NEW q \in Nat, Admissible(q), NEW x \in 0 .. Full - 1, NEW y \in 0 .. q - 1
    PROVE  DynSum(New(q), <<y, x, y>>)
             = DynAdd(New(q), DynAdd(New(q), DynAdd(New(q), 0, y), x), y)
  <1> DEFINE m == New(q)
             A == 0 .. Full
             xs == <<y, x, y>>
             F == [p \in A \X (1..3) |-> DynAdd(m, p[1], xs[p[2]])]
             Table(c) == c = [s \in SUBSET (DOMAIN xs) |->
                                IF s = {} THEN 0
                                ELSE DynAdd(m, c[s \ {Max(s)}], xs[Max(s)])]
             c == CHOOSE iter : Table(iter)
  <1>1. DynSum(m, xs) = c[DOMAIN xs]
    BY DEF DynSum, FoldLeft, MapThenFoldSet
  <1>2. m.modulus = q /\ q >= 2 /\ q < Full
    BY ModulusLength, Halves DEF New
  <1>3. DOMAIN xs = 1..3 /\ 0 \in A /\ (\A i \in 1..3 : xs[i] \in 0 .. Full - 1)
    BY <1>2, Halves
  <1> HIDE DEF c, xs
  <1>4. F \in [A \X (1..3) -> A]
    <2>1. ASSUME NEW acc \in A, NEW z \in 0 .. Full - 1 PROVE DynAdd(m, acc, z) \in A
      BY <1>2, Halves DEF DynAdd, Guarded, assert_reduced, Panicked
    <2> HIDE DEF A, m
    <2>. QED
      BY <2>1, <1>3
  <1> HIDE DEF A, m
  <1>5. PICK g \in [SUBSET (1..3) -> A] : Tabulates(g, 3, 0, F)
    BY <1>3, <1>4, FoldTable
  <1>6. ASSUME NEW s \in SUBSET (1..3), s # {}
        PROVE  g[s] = DynAdd(m, g[s \ {Max(s)}], xs[Max(s)])
    <2>1. Max(s) \in 1..3 /\ s \ {Max(s)} \in SUBSET (1..3)
      BY <1>6, LastPosition
    <2>2. g[s] = F[<<g[s \ {Max(s)}], Max(s)>>]
      BY <1>5, <1>6 DEF Tabulates
    <2>3. g[s \ {Max(s)}] \in A
      BY <2>1
    <2>. QED
      BY <2>1, <2>2, <2>3
  <1>7. g[{}] = 0
    BY <1>5 DEF Tabulates
  <1>8. Table(g)
    BY <1>3, <1>6, <1>7
  <1>9. Table(c)
    BY <1>8 DEF c
  <1>10. c[1..0] = 0
    <2>1. 1..0 = {}
      OBVIOUS
    <2>. QED
      BY <1>9, <2>1
  <1>11. ASSUME NEW j \in 1..3 PROVE c[1..j] = DynAdd(m, c[1 .. j - 1], xs[j])
    <2>1. /\ 1..j \in SUBSET (1..3) /\ 1..j # {}
          /\ Max(1..j) = j /\ (1..j) \ {Max(1..j)} = 1 .. j - 1
      BY Beginning
    <2>. QED
      BY <1>3, <1>9, <2>1
  <1>12. c[1..1] = DynAdd(m, c[1..0], xs[1]) /\ c[1..2] = DynAdd(m, c[1..1], xs[2])
         /\ c[1..3] = DynAdd(m, c[1..2], xs[3])
    <2>1. 1 - 1 = 0 /\ 2 - 1 = 1 /\ 3 - 1 = 2
      OBVIOUS
    <2>2. c[1..1] = DynAdd(m, c[1 .. 1 - 1], xs[1]) /\ c[1..2] = DynAdd(m, c[1 .. 2 - 1], xs[2])
          /\ c[1..3] = DynAdd(m, c[1 .. 3 - 1], xs[3])
      BY <1>11
    <2>. QED
      BY <2>1, <2>2
  <1>13. xs[1] = y /\ xs[2] = x /\ xs[3] = y
    BY DEF xs
  <1>14. DynSum(m, xs) = DynAdd(m, DynAdd(m, DynAdd(m, 0, y), x), y)
    BY <1>1, <1>3, <1>10, <1>12, <1>13
  <1>. QED
    BY <1>14 DEF m, xs

\* The same for its products.
LEMMA DynProductOfThree ==
    ASSUME NEW q \in Nat, Admissible(q), NEW x \in 0 .. Full - 1, NEW y \in 0 .. q - 1
    PROVE  DynProduct(New(q), <<y, x, y>>)
             = DynMul(New(q), DynMul(New(q), DynMul(New(q), 1, y), x), y)
  <1> DEFINE m == New(q)
             A == 0 .. Full
             xs == <<y, x, y>>
             F == [p \in A \X (1..3) |-> DynMul(m, p[1], xs[p[2]])]
             Table(c) == c = [s \in SUBSET (DOMAIN xs) |->
                                IF s = {} THEN 1
                                ELSE DynMul(m, c[s \ {Max(s)}], xs[Max(s)])]
             c == CHOOSE iter : Table(iter)
  <1>1. DynProduct(m, xs) = c[DOMAIN xs]
    BY DEF DynProduct, FoldLeft, MapThenFoldSet
  <1>2. m.modulus = q /\ q >= 2 /\ q < Full
    BY ModulusLength, Halves DEF New
  <1>3. DOMAIN xs = 1..3 /\ 1 \in A /\ (\A i \in 1..3 : xs[i] \in 0 .. Full - 1)
    BY <1>2, Halves
  <1> HIDE DEF c, xs
  <1>4. F \in [A \X (1..3) -> A]
    <2>1. ASSUME NEW acc \in A, NEW z \in 0 .. Full - 1 PROVE DynMul(m, acc, z) \in A
      <3>1. CASE acc < q /\ z < q
        <4>1. acc \in 0 .. q - 1 /\ z \in 0 .. q - 1
          BY <1>2, <3>1, Halves
        <4>2. Mul(m, acc, z) = (acc * z) % q
          BY <4>1, BarrettIsExact
        <4>3. (acc * z) % q \in 0 .. q - 1
          <5>1. acc * z \in Nat /\ q \in Nat \ {0}
            BY <1>2, <4>1
          <5>. QED
            BY <5>1, Division
        <4>4. (acc * z) % q \in A
          BY <4>3, <1>2, Halves
        <4> HIDE DEF A, m
        <4>. QED
          BY <1>2, <3>1, <4>2, <4>4 DEF DynMul, Guarded, assert_reduced
      <3>2. CASE ~(acc < q /\ z < q)
        BY <1>2, <3>2, Halves DEF DynMul, Guarded, assert_reduced, Panicked
      <3>. QED
        BY <3>1, <3>2
    <2> HIDE DEF A, m
    <2>. QED
      BY <2>1, <1>3
  <1> HIDE DEF A, m
  <1>5. PICK g \in [SUBSET (1..3) -> A] : Tabulates(g, 3, 1, F)
    BY <1>3, <1>4, FoldTable
  <1>6. ASSUME NEW s \in SUBSET (1..3), s # {}
        PROVE  g[s] = DynMul(m, g[s \ {Max(s)}], xs[Max(s)])
    <2>1. Max(s) \in 1..3 /\ s \ {Max(s)} \in SUBSET (1..3)
      BY <1>6, LastPosition
    <2>2. g[s] = F[<<g[s \ {Max(s)}], Max(s)>>]
      BY <1>5, <1>6 DEF Tabulates
    <2>3. g[s \ {Max(s)}] \in A
      BY <2>1
    <2>. QED
      BY <2>1, <2>2, <2>3
  <1>7. g[{}] = 1
    BY <1>5 DEF Tabulates
  <1>8. Table(g)
    BY <1>3, <1>6, <1>7
  <1>9. Table(c)
    BY <1>8 DEF c
  <1>10. c[1..0] = 1
    <2>1. 1..0 = {}
      OBVIOUS
    <2>. QED
      BY <1>9, <2>1
  <1>11. ASSUME NEW j \in 1..3 PROVE c[1..j] = DynMul(m, c[1 .. j - 1], xs[j])
    <2>1. /\ 1..j \in SUBSET (1..3) /\ 1..j # {}
          /\ Max(1..j) = j /\ (1..j) \ {Max(1..j)} = 1 .. j - 1
      BY Beginning
    <2>. QED
      BY <1>3, <1>9, <2>1
  <1>12. c[1..1] = DynMul(m, c[1..0], xs[1]) /\ c[1..2] = DynMul(m, c[1..1], xs[2])
         /\ c[1..3] = DynMul(m, c[1..2], xs[3])
    <2>1. 1 - 1 = 0 /\ 2 - 1 = 1 /\ 3 - 1 = 2
      OBVIOUS
    <2>2. c[1..1] = DynMul(m, c[1 .. 1 - 1], xs[1]) /\ c[1..2] = DynMul(m, c[1 .. 2 - 1], xs[2])
          /\ c[1..3] = DynMul(m, c[1 .. 3 - 1], xs[3])
      BY <1>11
    <2>. QED
      BY <2>1, <2>2
  <1>13. xs[1] = y /\ xs[2] = x /\ xs[3] = y
    BY DEF xs
  <1>14. DynProduct(m, xs) = DynMul(m, DynMul(m, DynMul(m, 1, y), x), y)
    BY <1>1, <1>3, <1>10, <1>12, <1>13
  <1>. QED
    BY <1>14 DEF m, xs

\* The same for the sums of Fq.
LEMMA FqSumOfThree ==
    ASSUME NEW q \in Nat, Admissible(q), NEW x \in 0 .. q - 1, NEW y \in 0 .. q - 1
    PROVE  FqSum(New(q), <<y, x, y>>)
             = FqAdd(New(q), FqAdd(New(q), FqAdd(New(q), 0, y), x), y)
  <1> DEFINE m == New(q)
             A == Int
             xs == <<y, x, y>>
             F == [p \in A \X (1..3) |-> FqAdd(m, p[1], xs[p[2]])]
             Table(c) == c = [s \in SUBSET (DOMAIN xs) |->
                                IF s = {} THEN 0
                                ELSE FqAdd(m, c[s \ {Max(s)}], xs[Max(s)])]
             c == CHOOSE iter : Table(iter)
  <1>1. FqSum(m, xs) = c[DOMAIN xs]
    BY DEF FqSum, FoldLeft, MapThenFoldSet
  <1>2. m.modulus = q /\ q >= 2 /\ q < Full
    BY ModulusLength, Halves DEF New
  <1>3. DOMAIN xs = 1..3 /\ 0 \in A /\ (\A i \in 1..3 : xs[i] \in 0 .. q - 1)
    BY <1>2, Halves
  <1> HIDE DEF c, xs
  <1>4. F \in [A \X (1..3) -> A]
    <2>1. ASSUME NEW acc \in A, NEW z \in 0 .. q - 1 PROVE FqAdd(m, acc, z) \in A
      BY <1>2, Halves DEF FqAdd
    <2> HIDE DEF A, m
    <2>. QED
      BY <2>1, <1>3
  <1> HIDE DEF A, m
  <1>5. PICK g \in [SUBSET (1..3) -> A] : Tabulates(g, 3, 0, F)
    BY <1>3, <1>4, FoldTable
  <1>6. ASSUME NEW s \in SUBSET (1..3), s # {}
        PROVE  g[s] = FqAdd(m, g[s \ {Max(s)}], xs[Max(s)])
    <2>1. Max(s) \in 1..3 /\ s \ {Max(s)} \in SUBSET (1..3)
      BY <1>6, LastPosition
    <2>2. g[s] = F[<<g[s \ {Max(s)}], Max(s)>>]
      BY <1>5, <1>6 DEF Tabulates
    <2>3. g[s \ {Max(s)}] \in A
      BY <2>1
    <2>. QED
      BY <2>1, <2>2, <2>3
  <1>7. g[{}] = 0
    BY <1>5 DEF Tabulates
  <1>8. Table(g)
    BY <1>3, <1>6, <1>7
  <1>9. Table(c)
    BY <1>8 DEF c
  <1>10. c[1..0] = 0
    <2>1. 1..0 = {}
      OBVIOUS
    <2>. QED
      BY <1>9, <2>1
  <1>11. ASSUME NEW j \in 1..3 PROVE c[1..j] = FqAdd(m, c[1 .. j - 1], xs[j])
    <2>1. /\ 1..j \in SUBSET (1..3) /\ 1..j # {}
          /\ Max(1..j) = j /\ (1..j) \ {Max(1..j)} = 1 .. j - 1
      BY Beginning
    <2>. QED
      BY <1>3, <1>9, <2>1
  <1>12. c[1..1] = FqAdd(m, c[1..0], xs[1]) /\ c[1..2] = FqAdd(m, c[1..1], xs[2])
         /\ c[1..3] = FqAdd(m, c[1..2], xs[3])
    <2>1. 1 - 1 = 0 /\ 2 - 1 = 1 /\ 3 - 1 = 2
      OBVIOUS
    <2>2. c[1..1] = FqAdd(m, c[1 .. 1 - 1], xs[1]) /\ c[1..2] = FqAdd(m, c[1 .. 2 - 1], xs[2])
          /\ c[1..3] = FqAdd(m, c[1 .. 3 - 1], xs[3])
      BY <1>11
    <2>. QED
      BY <2>1, <2>2
  <1>13. xs[1] = y /\ xs[2] = x /\ xs[3] = y
    BY DEF xs
  <1>14. FqSum(m, xs) = FqAdd(m, FqAdd(m, FqAdd(m, 0, y), x), y)
    BY <1>1, <1>3, <1>10, <1>12, <1>13
  <1>. QED
    BY <1>14 DEF m, xs

\* The same for its products.
LEMMA FqProductOfThree ==
    ASSUME NEW q \in Nat, Admissible(q), NEW x \in 0 .. q - 1, NEW y \in 0 .. q - 1
    PROVE  FqProduct(New(q), <<y, x, y>>)
             = FqMul(New(q), FqMul(New(q), FqMul(New(q), 1, y), x), y)
  <1> DEFINE m == New(q)
             A == 0 .. q - 1
             xs == <<y, x, y>>
             F == [p \in A \X (1..3) |-> FqMul(m, p[1], xs[p[2]])]
             Table(c) == c = [s \in SUBSET (DOMAIN xs) |->
                                IF s = {} THEN 1
                                ELSE FqMul(m, c[s \ {Max(s)}], xs[Max(s)])]
             c == CHOOSE iter : Table(iter)
  <1>1. FqProduct(m, xs) = c[DOMAIN xs]
    BY DEF FqProduct, FoldLeft, MapThenFoldSet
  <1>2. m.modulus = q /\ q >= 2 /\ q < Full
    BY ModulusLength, Halves DEF New
  <1>3. DOMAIN xs = 1..3 /\ 1 \in A /\ (\A i \in 1..3 : xs[i] \in 0 .. q - 1)
    BY <1>2, Halves
  <1> HIDE DEF c, xs
  <1>4. F \in [A \X (1..3) -> A]
    <2>1. ASSUME NEW acc \in A, NEW z \in 0 .. q - 1 PROVE FqMul(m, acc, z) \in A
      <3>1. Mul(m, acc, z) = (acc * z) % q
        BY BarrettIsExact
      <3>2. (acc * z) % q \in 0 .. q - 1
        <4>1. acc * z \in Nat /\ q \in Nat \ {0}
          BY <1>2
        <4>. QED
          BY <4>1, Division
      <3>. QED
        BY <3>1, <3>2 DEF FqMul
    <2> HIDE DEF A, m
    <2>. QED
      BY <2>1, <1>3
  <1> HIDE DEF A, m
  <1>5. PICK g \in [SUBSET (1..3) -> A] : Tabulates(g, 3, 1, F)
    BY <1>3, <1>4, FoldTable
  <1>6. ASSUME NEW s \in SUBSET (1..3), s # {}
        PROVE  g[s] = FqMul(m, g[s \ {Max(s)}], xs[Max(s)])
    <2>1. Max(s) \in 1..3 /\ s \ {Max(s)} \in SUBSET (1..3)
      BY <1>6, LastPosition
    <2>2. g[s] = F[<<g[s \ {Max(s)}], Max(s)>>]
      BY <1>5, <1>6 DEF Tabulates
    <2>3. g[s \ {Max(s)}] \in A
      BY <2>1
    <2>. QED
      BY <2>1, <2>2, <2>3
  <1>7. g[{}] = 1
    BY <1>5 DEF Tabulates
  <1>8. Table(g)
    BY <1>3, <1>6, <1>7
  <1>9. Table(c)
    BY <1>8 DEF c
  <1>10. c[1..0] = 1
    <2>1. 1..0 = {}
      OBVIOUS
    <2>. QED
      BY <1>9, <2>1
  <1>11. ASSUME NEW j \in 1..3 PROVE c[1..j] = FqMul(m, c[1 .. j - 1], xs[j])
    <2>1. /\ 1..j \in SUBSET (1..3) /\ 1..j # {}
          /\ Max(1..j) = j /\ (1..j) \ {Max(1..j)} = 1 .. j - 1
      BY Beginning
    <2>. QED
      BY <1>3, <1>9, <2>1
  <1>12. c[1..1] = FqMul(m, c[1..0], xs[1]) /\ c[1..2] = FqMul(m, c[1..1], xs[2])
         /\ c[1..3] = FqMul(m, c[1..2], xs[3])
    <2>1. 1 - 1 = 0 /\ 2 - 1 = 1 /\ 3 - 1 = 2
      OBVIOUS
    <2>2. c[1..1] = FqMul(m, c[1 .. 1 - 1], xs[1]) /\ c[1..2] = FqMul(m, c[1 .. 2 - 1], xs[2])
          /\ c[1..3] = FqMul(m, c[1 .. 3 - 1], xs[3])
      BY <1>11
    <2>. QED
      BY <2>1, <2>2
  <1>13. xs[1] = y /\ xs[2] = x /\ xs[3] = y
    BY DEF xs
  <1>14. FqProduct(m, xs) = FqMul(m, FqMul(m, FqMul(m, 1, y), x), y)
    BY <1>1, <1>3, <1>10, <1>12, <1>13
  <1>. QED
    BY <1>14 DEF m, xs

\* Sums and products of three are those of the integers, in both fields.
LEMMA ThreesAreExact ==
    ASSUME NEW q \in Nat, Admissible(q), NEW x \in 0 .. Full - 1, NEW y \in 0 .. q - 1
    PROVE  /\ DynSum(New(q), <<y, x, y>>) = Meant(q, x, x + 2 * y)
           /\ DynProduct(New(q), <<y, x, y>>) = Meant(q, x, x * (y * y))
           /\ x < q => /\ FqSum(New(q), <<y, x, y>>) = DynSum(New(q), <<y, x, y>>)
                       /\ FqProduct(New(q), <<y, x, y>>) = DynProduct(New(q), <<y, x, y>>)
  <1> DEFINE m == New(q)
  <1>1. m.modulus = q
    BY DEF New
  <1>2. q \in Nat \ {0} /\ q >= 2 /\ x \in Nat /\ y \in Nat /\ y < q /\ q < Full
        /\ 0 \in 0 .. q - 1 /\ 1 \in 0 .. q - 1 /\ 0 \in 0 .. Full - 1 /\ 1 \in 0 .. Full - 1
        /\ y \in 0 .. Full - 1
    BY ModulusLength, Halves
  <1>3. y % q = y
    BY <1>2
  <1>4. DynAdd(m, 0, y) = y /\ DynMul(m, 1, y) = y
    <2>1. DynAdd(m, 0, y) = Meant(q, 0, 0 + y) /\ DynMul(m, 1, y) = Meant(q, 1, 1 * y)
      BY <1>2, DynamicOperations
    <2>2. 0 + y = y /\ 1 * y = y /\ 0 < q /\ 1 < q
      BY <1>2
    <2>. QED
      BY <2>1, <2>2, <1>3 DEF Meant
  <1>5. /\ DynSum(m, <<y, x, y>>) = DynAdd(m, DynAdd(m, y, x), y)
        /\ DynProduct(m, <<y, x, y>>) = DynMul(m, DynMul(m, y, x), y)
    BY <1>4, DynSumOfThree, DynProductOfThree
  <1>6. CASE ~(x < q)
    <2> HIDE DEF m
    <2>1. DynAdd(m, y, x) = Panicked /\ DynMul(m, y, x) = Panicked
      BY <1>1, <1>6 DEF DynAdd, DynMul, Guarded, assert_reduced
    <2>2. ~(Panicked < q)
      BY <1>2, Halves DEF Panicked
    <2>3. DynAdd(m, Panicked, y) = Panicked /\ DynMul(m, Panicked, y) = Panicked
      BY <1>1, <2>2 DEF DynAdd, DynMul, Guarded, assert_reduced
    <2>. QED
      BY <1>5, <1>6, <2>1, <2>3 DEF Meant, m
  <1>7. CASE x < q
    <2> DEFINE u == (y + x) % q
               v == (y * x) % q
    <2>1. x \in 0 .. q - 1 /\ x \in Nat
      BY <1>2, <1>7
    <2>2. DynAdd(m, y, x) = u /\ DynMul(m, y, x) = v
      <3>1. DynAdd(m, y, x) = Meant(q, y, y + x) /\ DynMul(m, y, x) = Meant(q, y, y * x)
        BY <1>2, <2>1, DynamicOperations
      <3>. QED
        BY <1>2, <3>1 DEF Meant
    <2>3. u \in 0 .. q - 1 /\ v \in 0 .. q - 1
      <3>1. y + x \in Nat /\ y * x \in Nat
        BY <1>2
      <3>. QED
        BY <1>2, <3>1, Division
    <2>4. u \in 0 .. Full - 1 /\ v \in 0 .. Full - 1 /\ u < q /\ v < q
      BY <1>2, <2>3, Halves
    <2>5. (u + y) % q = (x + 2 * y) % q
      <3>1. y + x \in Nat /\ x + 2 * y = (y + x) + y
        BY <1>2
      <3>2. ((y + x) + y) % q = IF u + y >= q THEN u + y - q ELSE u + y
        <4> DEFINE w == y + x
        <4>1. w \in Nat
          BY <3>1
        <4> HIDE DEF w
        <4>2. (w + y) % q = IF (w % q) + (y % q) >= q THEN (w % q) + (y % q) - q ELSE (w % q) + (y % q)
          BY <4>1, <1>2, SumOfRemainders
        <4>. QED
          BY <4>2, <1>3 DEF w
      <3> HIDE DEF u
      <3> DEFINE n == u + y
      <3>3. n \in 0 .. 2 * q - 1
        BY <1>2, <2>3
      <3> HIDE DEF n
      <3>4. n % q = IF n >= q THEN n - q ELSE n
        BY <1>2, <3>3, SmallRemainder
      <3>. QED
        BY <3>1, <3>2, <3>4, <2>3, <1>2 DEF n
    <2>6. (v * y) % q = (x * (y * y)) % q
      <3>1. y * x \in Nat /\ x * (y * y) = (y * x) * y
        BY <1>2
      <3> DEFINE n == y * x
      <3>2. n \in Nat
        BY <3>1
      <3> HIDE DEF n
      <3>3. ((n % q) * y) % q = (n * y) % q
        BY <1>2, <3>2, ProductOfRemainder
      <3>. QED
        BY <3>1, <3>3 DEF n
    <2> HIDE DEF u, v
    <2>7. DynAdd(m, u, y) = (u + y) % q /\ DynMul(m, v, y) = (v * y) % q
      <3>1. DynAdd(m, u, y) = Meant(q, u, u + y) /\ DynMul(m, v, y) = Meant(q, v, v * y)
        BY <2>4, DynamicOperations
      <3>. QED
        BY <2>4, <3>1 DEF Meant
    <2>8. /\ FqSum(m, <<y, x, y>>) = DynSum(m, <<y, x, y>>)
          /\ FqProduct(m, <<y, x, y>>) = DynProduct(m, <<y, x, y>>)
      <3>1. /\ FqSum(m, <<y, x, y>>) = FqAdd(m, FqAdd(m, FqAdd(m, 0, y), x), y)
            /\ FqProduct(m, <<y, x, y>>) = FqMul(m, FqMul(m, FqMul(m, 1, y), x), y)
        BY <2>1, FqSumOfThree, FqProductOfThree
      <3>2. FqAdd(m, 0, y) = y /\ FqMul(m, 1, y) = y
        BY <1>2, <1>4, ConstantOperations
      <3>3. FqAdd(m, y, x) = u /\ FqMul(m, y, x) = v
        BY <2>1, <2>2, ConstantOperations
      <3>4. FqAdd(m, u, y) = DynAdd(m, u, y) /\ FqMul(m, v, y) = DynMul(m, v, y)
        BY <2>3, ConstantOperations
      <3>. QED
        BY <1>5, <2>2, <3>1, <3>2, <3>3, <3>4
    <2>. QED
      BY <1>5, <1>7, <2>2, <2>5, <2>6, <2>7, <2>8 DEF Meant
  <1>. QED
    BY <1>6, <1>7
-----------------------------------------------------------------------------
(***************************************************************************)
(* The wire form and the draws of an element.                              *)
(***************************************************************************)
\* What is written is read back, where it is reduced, and refused otherwise; so is
\* what is cut.
THEOREM WireFormIsExact ==
    ASSUME NEW q \in Nat, Admissible(q), NEW x \in 0 .. Full - 1
    PROVE  LET wire == Encoding(x) \o <<0>>
           IN  /\ deserialized_reduced(New(q), wire)
                    = IF x < q THEN [ok |-> TRUE, rest |-> <<0>>, value |-> x]
                      ELSE [ok |-> FALSE, rest |-> wire]
               /\ ~deserialized_reduced(New(q), <<x % Half>>).ok
  <1> DEFINE m == New(q)
             low == x % Half
             high == x \div Half
             wire == <<low, high, 0>>
  <1>1. m.modulus = q
    BY DEF New
  <1>2. x \in Nat /\ low \in Nat /\ high \in Nat /\ low + Half * high = x
    <2>1. x \in Nat
      BY Halves
    <2>2. low \in 0 .. Half - 1 /\ high \in Nat /\ x = high * Half + low
      BY <2>1, Halves, Division
    <2> HIDE DEF low, high
    <2>3. high * Half = Half * high /\ high * Half \in Nat
      BY <2>2, Halves
    <2>. QED
      BY <2>1, <2>2, <2>3, Halves
  <1>3. Encoding(x) = <<low, high>>
    BY DEF Encoding
  <1> HIDE DEF m, low, high
  <1>4. Len(wire) = 3 /\ wire[1] = low /\ wire[2] = high /\ SubSeq(wire, 3, 3) = <<0>>
    <2>1. wire \in Seq(Nat) /\ Len(wire) = 3 /\ wire[1] = low /\ wire[2] = high /\ wire[3] = 0
      BY <1>2
    <2> HIDE DEF wire
    <2> DEFINE tail == SubSeq(wire, 3, 3)
    <2>2. /\ tail \in Seq(Nat)
          /\ Len(tail) = IF 3 <= 3 THEN 3 - 3 + 1 ELSE 0
          /\ \A i \in 1 .. 3 - 3 + 1 : tail[i] = wire[3 + i - 1]
      <3>1. \A i \in 3 .. 3 : wire[i] \in Nat
        BY <2>1
      <3>. QED
        BY <3>1, SubSeqProperties
    <2> HIDE DEF tail
    <2>3. tail \in Seq(Nat) /\ Len(tail) = 1 /\ tail[1] = 0
      BY <2>1, <2>2
    <2>4. tail = <<0>>
      <3>1. <<0>> \in Seq(Nat) /\ Len(<<0>>) = 1 /\ <<0>>[1] = 0
        OBVIOUS
      <3>. QED
        BY <2>3, <3>1, SeqEqual
    <2>. QED
      BY <2>1, <2>4 DEF tail
  <1>5. <<low, high>> \o <<0>> = wire
    <2> DEFINE pair == <<low, high>>
               zero == <<0>>
    <2>1. /\ pair \in Seq(Nat) /\ Len(pair) = 2 /\ pair[1] = low /\ pair[2] = high
          /\ zero \in Seq(Nat) /\ Len(zero) = 1 /\ zero[1] = 0
          /\ wire \in Seq(Nat) /\ Len(wire) = 3 /\ wire[1] = low /\ wire[2] = high /\ wire[3] = 0
      BY <1>2
    <2> HIDE DEF wire, pair, zero
    <2>2. /\ pair \o zero \in Seq(Nat)
          /\ Len(pair \o zero) = Len(pair) + Len(zero)
          /\ \A i \in 1 .. Len(pair) + Len(zero) :
                (pair \o zero)[i] = IF i <= Len(pair) THEN pair[i] ELSE zero[i - Len(pair)]
      BY <2>1, ConcatProperties
    <2> DEFINE both == pair \o zero
    <2>3. both \in Seq(Nat) /\ Len(both) = 3 /\ both[1] = low /\ both[2] = high /\ both[3] = 0
      BY <2>1, <2>2
    <2> HIDE DEF both
    <2>4. both = wire
      <3>1. \A i \in 1 .. Len(both) : both[i] = wire[i]
        BY <2>1, <2>3
      <3>. QED
        BY <2>1, <2>3, <3>1, SeqEqual
    <2>. QED
      BY <2>4 DEF both, pair, zero
  <1> HIDE DEF wire
  <1>6. deserialized_reduced(m, wire)
          = IF x < q THEN [ok |-> TRUE, rest |-> <<0>>, value |-> x] ELSE [ok |-> FALSE, rest |-> wire]
    <2> DEFINE value == wire[1] + Half * wire[2]
    <2>1. value = x
      BY <1>2, <1>4
    <2>2. deserialized_reduced(m, wire)
            = IF Len(wire) < 2 \/ value >= m.modulus THEN [ok |-> FALSE, rest |-> wire]
              ELSE [ok |-> TRUE, rest |-> SubSeq(wire, 3, Len(wire)), value |-> value]
      BY DEF deserialized_reduced
    <2> HIDE DEF value
    <2>3. CASE x < q
      <3>1. ~(Len(wire) < 2 \/ value >= m.modulus)
        BY <1>1, <1>2, <1>4, <2>1, <2>3
      <3>. QED
        BY <1>4, <2>1, <2>2, <2>3, <3>1
    <2>4. CASE ~(x < q)
      <3>1. value >= m.modulus
        BY <1>1, <1>2, <2>1, <2>4
      <3>. QED
        BY <2>2, <2>4, <3>1
    <2>. QED
      BY <2>3, <2>4
  <1>7. ~deserialized_reduced(m, <<low>>).ok
    <2>1. Len(<<low>>) < 2
      OBVIOUS
    <2>. QED
      BY <2>1 DEF deserialized_reduced
  <1>. QED
    BY <1>3, <1>5, <1>6, <1>7 DEF m, low

\* A residue has as many accepted draws as any other: one in each whole multiple of
\* the modulus that the double word holds.
THEOREM DrawsAreFair ==
    ASSUME NEW q \in Nat, Admissible(q), NEW x \in 0 .. q - 1
    PROVE  Cardinality({n \in 0 .. Full - 1 : Accepted(New(q), n) /\ FqFrom(New(q), n) = x})
             = Full \div q
  <1> DEFINE m == New(q)
             N == Full \div q
             R == Full % q
             S == {n \in 0 .. Full - 1 : Accepted(m, n) /\ FqFrom(m, n) = x}
             f == [i \in 1..N |-> (i - 1) * q + x]
  <1>1. m.modulus = q
    BY DEF New
  <1>2. q \in Nat \ {0} /\ q >= 2 /\ q < Full /\ Full \in Nat \ {0} /\ x \in Nat /\ x < q
    BY ModulusLength, Halves
  <1>3. N \in Nat /\ R \in 0 .. q - 1 /\ Full = N * q + R
    BY <1>2, Division
  <1>4. (((Full - 1) % q) + 1) % q = R
    <2>1. Full - 1 \in Nat /\ (Full - 1) + 1 = Full /\ 1 % q = 1
      BY <1>2
    <2> DEFINE n == Full - 1
               u == n % q
    <2>2. n \in Nat /\ n + 1 = Full
      BY <2>1
    <2> HIDE DEF n, R
    <2>3. u \in 0 .. q - 1
      BY <1>2, <2>2, Division
    <2>4. (n + 1) % q = IF u + (1 % q) >= q THEN u + (1 % q) - q ELSE u + (1 % q)
      BY <1>2, <2>2, SumOfRemainders
    <2> HIDE DEF u
    <2> DEFINE w == u + 1
    <2>5. w \in 0 .. 2 * q - 1
      BY <1>2, <2>3
    <2> HIDE DEF w
    <2>6. w % q = IF w >= q THEN w - q ELSE w
      BY <1>2, <2>5, SmallRemainder
    <2>7. w % q = Full % q
      BY <2>1, <2>2, <2>3, <2>4, <2>6, <1>2 DEF w
    <2>. QED
      BY <2>7 DEF w, u, n, R
  <1>5. ASSUME NEW n \in 0 .. Full - 1
        PROVE  n \in S <=> n < N * q /\ n % q = x
    <2>1. Accepted(m, n) <=> n <= Full - 1 - R
      BY <1>1, <1>4 DEF Accepted
    <2>2. n <= Full - 1 - R <=> n < N * q
      <3> DEFINE P == N * q
      <3>1. P \in Nat /\ Full = P + R
        BY <1>2, <1>3
      <3> HIDE DEF P, R
      <3>2. n <= Full - 1 - R <=> n < P
        BY <3>1, <1>2, <1>3
      <3>. QED
        BY <3>2 DEF P
    <2>3. FqFrom(m, n) = n % q
      BY <1>1 DEF FqFrom
    <2>. QED
      BY <2>1, <2>2, <2>3
  <1> HIDE DEF m, N, R, S
  <1>6. ASSUME NEW i \in 1..N PROVE f[i] \in S
    <2> DEFINE n == (i - 1) * q + x
    <2>1. i - 1 \in Nat /\ i - 1 < N /\ n \in Nat
      BY <1>2, <1>3
    <2>2. n < N * q
      <3>1. (i - 1) * q + q <= N * q
        BY <1>2, <1>3, <2>1, Multiples
      <3> DEFINE P == (i - 1) * q
                 Q == N * q
      <3>2. P \in Nat /\ Q \in Nat /\ P + q <= Q
        BY <3>1, <2>1, <1>2, <1>3
      <3> HIDE DEF P, Q
      <3>3. P + x < Q
        BY <3>2, <1>2
      <3>. QED
        BY <3>3 DEF P, Q
    <2>3. n % q = x
      <3> DEFINE d == i - 1
      <3>1. d \in Int /\ x \in 0 .. q - 1 /\ d * q + x \in Nat
        BY <2>1
      <3> HIDE DEF d
      <3>2. (d * q + x) % q = x
        BY <1>2, <3>1, OneQuotient
      <3>. QED
        BY <3>2 DEF d
    <2> HIDE DEF n
    <2>4. n \in 0 .. Full - 1
      <3> DEFINE Q == N * q
      <3>1. Q \in Nat /\ n < Q /\ Full = Q + R
        BY <1>2, <1>3, <2>2
      <3> HIDE DEF Q
      <3>. QED
        BY <3>1, <2>1, <1>2, <1>3
    <2>. QED
      BY <2>2, <2>3, <2>4, <1>5 DEF n
  <1>7. ASSUME NEW n \in S PROVE \E i \in 1..N : f[i] = n
    <2>1. n \in 0 .. Full - 1 /\ n \in Nat
      BY <1>2 DEF S
    <2>2. n < N * q /\ n % q = x
      BY <2>1, <1>5
    <2> DEFINE d == n \div q
    <2>3. d \in Nat /\ n = d * q + x
      BY <2>1, <2>2, <1>2, Division
    <2> HIDE DEF d
    <2>4. d < N
      <3>1. SUFFICES ASSUME N <= d PROVE FALSE
        BY <2>3, <1>3
      <3>2. N * q <= d * q
        BY <3>1, <2>3, <1>2, <1>3, Multiples
      <3> DEFINE P == d * q
                 Q == N * q
      <3>3. P \in Nat /\ Q \in Nat /\ Q <= P /\ n = P + x /\ n < Q
        BY <3>2, <2>2, <2>3, <1>2, <1>3
      <3> HIDE DEF P, Q
      <3>. QED
        BY <3>3, <1>2
    <2>5. d + 1 \in 1..N /\ (d + 1) - 1 = d
      BY <2>3, <2>4, <1>3
    <2>6. f[d + 1] = d * q + x
      BY <2>5
    <2>. QED
      BY <2>3, <2>5, <2>6
  <1>8. ASSUME NEW i \in 1..N, NEW j \in 1..N, f[i] = f[j] PROVE i = j
    <2>1. (i - 1) * q + x = (j - 1) * q + x
      BY <1>8
    <2>2. i - 1 \in Nat /\ j - 1 \in Nat
      BY <1>3
    <2>3. (i - 1) * q <= (j - 1) * q /\ (j - 1) * q <= (i - 1) * q
      <3> DEFINE P == (i - 1) * q
                 Q == (j - 1) * q
      <3>1. P \in Nat /\ Q \in Nat /\ P + x = Q + x
        BY <2>1, <2>2, <1>2
      <3> HIDE DEF P, Q
      <3>2. P <= Q /\ Q <= P
        BY <3>1, <1>2
      <3>. QED
        BY <3>2 DEF P, Q
    <2>4. i - 1 <= j - 1 /\ j - 1 <= i - 1
      BY <2>2, <2>3, <1>2, Cancelled
    <2>. QED
      BY <2>4, <1>3
  <1> HIDE DEF f
  <1>9. f \in [1..N -> S]
    <2>1. DOMAIN f = 1..N /\ f = [i \in 1..N |-> f[i]]
      BY DEF f
    <2>. QED
      BY <2>1, <1>6
  <1>10. f \in Bijection(1..N, S)
    BY <1>7, <1>8, <1>9 DEF Bijection, Injection, Surjection, IsInjective
  <1>11. ExistsBijection(1..N, S)
    BY <1>10 DEF ExistsBijection
  <1>12. Cardinality(S) = N
    BY <1>3, <1>11, FS_CountingElements
  <1>. QED
    BY <1>12 DEF S, N, m
-----------------------------------------------------------------------------
(***************************************************************************)
(* The walk over moduli and operands of MCFieldMetadata, for any width.    *)
(***************************************************************************)
\* The invariant: the modulus is admissible, and has passed set_modulus where
\* the walk is one of a field; the second operand is reduced, the first one may
\* be left from another modulus.
Operands ==
    /\ modulus \in Nat /\ Admissible(modulus)
    /\ field => DynModulus(modulus)
    /\ a \in 0 .. Full - 1
    /\ b \in 0 .. modulus - 1

LEMMA InitOperands == Init => Operands
  <1> SUFFICES ASSUME Init PROVE Operands
    OBVIOUS
  <1>1. modulus \in Nat /\ Admissible(modulus) /\ (field => DynModulus(modulus)) /\ a = 0 /\ b = 0
    BY DEF Init, Moduli
  <1>2. modulus >= 2
    BY <1>1, ModulusLength
  <1>. QED
    BY <1>1, <1>2, Halves DEF Operands

LEMMA NextOperands == Operands /\ [Next]_vars => Operands'
  <1> SUFFICES ASSUME Operands, [Next]_vars PROVE Operands'
    OBVIOUS
  <1>1. modulus >= 2 /\ modulus < Full /\ modulus \in Nat
    BY ModulusLength, Halves DEF Operands
  <1>2. CASE NextA
    <2>1. a' = (a + 1) % modulus /\ UNCHANGED <<modulus, field, b>> /\ a + 1 \in Nat
      BY <1>2, Halves DEF NextA, Operands
    <2>2. a' \in 0 .. modulus - 1
      <3>1. (a + 1) % modulus \in 0 .. modulus - 1
        <4>1. modulus \in Nat \ {0}
          BY <1>1
        <4>. QED
          BY <2>1, <4>1, Division
      <3>. QED
        BY <2>1, <3>1
    <2>3. a' \in 0 .. Full - 1
      BY <2>2, <1>1, Halves
    <2>. QED
      BY <2>1, <2>3 DEF Operands, Admissible, DynModulus
  <1>3. CASE NextB
    <2>1. b' = (b + 1) % modulus /\ UNCHANGED <<modulus, field, a>> /\ b + 1 \in Nat
      BY <1>1, <1>3 DEF NextB, Operands
    <2>2. b' \in 0 .. modulus - 1
      <3>1. (b + 1) % modulus \in 0 .. modulus - 1
        <4>1. modulus \in Nat \ {0}
          BY <1>1
        <4>. QED
          BY <2>1, <4>1, Division
      <3>. QED
        BY <2>1, <3>1
    <2>. QED
      BY <2>1, <2>2 DEF Operands, Admissible, DynModulus
  <1>4. CASE set_modulus
    <2>1. PICK m \in Moduli : DynModulus(m) /\ modulus' = m
      BY <1>4 DEF set_modulus
    <2>2. m \in Nat /\ Admissible(m)
      BY DEF Moduli
    <2>3. m >= 2
      BY <2>2, ModulusLength
    <2>4. b = 0 /\ UNCHANGED <<field, a, b>>
      BY <1>4 DEF set_modulus
    <2>5. modulus' \in Nat /\ Admissible(modulus') /\ DynModulus(modulus') /\ b' \in 0 .. modulus' - 1
      BY <2>1, <2>2, <2>3, <2>4
    <2>. QED
      BY <2>4, <2>5 DEF Operands, Admissible, DynModulus
  <1>5. CASE UNCHANGED vars
    BY <1>5 DEF vars, Operands, Admissible, DynModulus
  <1>. QED
    BY <1>2, <1>3, <1>4, <1>5 DEF Next

LEMMA OperandsInvariant == Spec => []Operands
  BY InitOperands, NextOperands, PTL DEF Spec

LEMMA OperandsMultiply == Operands => MultiplicationIsExact
  <1> SUFFICES ASSUME Operands PROVE MultiplicationIsExact
    OBVIOUS
  <1>1. modulus \in Nat /\ Admissible(modulus) /\ a \in 0 .. Full - 1 /\ b \in 0 .. modulus - 1
        /\ modulus < Full
    BY ModulusLength, Halves DEF Operands
  <1>2. ASSUME NEW x \in {a, Full - 1 - a}, NEW y \in {b, Full - 1 - b}
        PROVE  LET wide == mul_wide(x, y) IN wide[1] < Full /\ wide[1] + Full * wide[2] = x * y
    <2>1. x \in Nat /\ y \in Nat
      BY <1>1, Halves
    <2>2. mul_wide(x, y)[1] \in 0 .. Full - 1 /\ mul_wide(x, y)[1] + Full * mul_wide(x, y)[2] = x * y
      BY <2>1, ProductIsExact
    <2>. QED
      BY <2>2, Halves
  <1>3. ASSUME a < modulus
        PROVE  /\ Mul(New(modulus), a, b) = (a * b) % modulus
               /\ mul_mod(a, b, modulus) = (a * b) % modulus
    <2>1. a \in 0 .. modulus - 1 /\ a \in Nat /\ b \in 0 .. Full - 1
      BY <1>1, <1>3, Halves
    <2>2. Mul(New(modulus), a, b) = (a * b) % modulus
      BY <1>1, <2>1, BarrettIsExact
    <2>3. mul_mod(a, b, modulus) = (a * b) % modulus
      BY <1>1, <2>1, DoublingIsExact
    <2>. QED
      BY <2>2, <2>3
  <1>. QED
    BY <1>2, <1>3 DEF MultiplicationIsExact

\* Multiplication is exact in every state of the walk.
THEOREM MultiplicationExact == Spec => []MultiplicationIsExact
  BY OperandsInvariant, OperandsMultiply, PTL

\* What is read of one operand, in OperationsAreExact's last part.
LEMMA OperandsOperate == Operands => OperationsAreExact
  <1> SUFFICES ASSUME Operands, field PROVE OperationsAreExact
    BY DEF OperationsAreExact
  <1> DEFINE m == New(modulus)
             Exact(value, n) == value = IF a < modulus THEN n % modulus ELSE Panicked
             wire == Encoding(a) \o <<0>>
             read == deserialized_reduced(m, wire)
  <1>1. modulus \in Nat /\ Admissible(modulus) /\ DynModulus(modulus) /\ a \in 0 .. Full - 1
        /\ b \in 0 .. modulus - 1 /\ modulus \in Nat \ {0} /\ modulus >= 2 /\ modulus < Full
        /\ a \in Nat /\ b \in Nat
    BY ModulusLength, Halves DEF Operands
  <1>2. m.modulus = modulus
    BY DEF New
  <1> HIDE DEF m
  <1>3. /\ Exact(DynNeg(m, a), modulus - a)
        /\ Exact(DynAdd(m, a, b), a + b)
        /\ Exact(DynSub(m, b, a), b + (modulus - a)) /\ Exact(DynSub(m, a, b), a + (modulus - b))
        /\ Exact(DynMul(m, a, b), a * b)
    BY <1>1, DynamicOperations DEF Meant, m
  <1>4. ASSUME a < modulus
        PROVE  /\ FqNeg(m, a) = DynNeg(m, a)
               /\ FqAdd(m, a, b) = DynAdd(m, a, b)
               /\ FqSub(m, a, b) = DynSub(m, a, b)
               /\ FqMul(m, a, b) = DynMul(m, a, b)
    <2>1. a \in 0 .. modulus - 1
      BY <1>1, <1>4
    <2>. QED
      BY <1>1, <2>1, ConstantOperations DEF m
  <1>5. /\ Exact(DynSum(m, <<b, a, b>>), a + 2 * b)
        /\ Exact(DynProduct(m, <<b, a, b>>), a * (b * b))
        /\ a < modulus =>
              /\ FqSum(m, <<b, a, b>>) = DynSum(m, <<b, a, b>>)
              /\ FqProduct(m, <<b, a, b>>) = DynProduct(m, <<b, a, b>>)
    BY <1>1, ThreesAreExact DEF Meant, m
  <1>6. FqModulus(modulus)
    BY <1>1 DEF FqModulus, DynModulus
  <1>7. /\ read = IF a < modulus THEN [ok |-> TRUE, rest |-> <<0>>, value |-> a]
                  ELSE [ok |-> FALSE, rest |-> wire]
        /\ ~deserialized_reduced(m, <<a % Half>>).ok
    BY <1>1, WireFormIsExact DEF m
  <1>8. \A x \in {Full - 1 - a, a * Half} :
           x < Full => FqFrom(m, x) = DynFrom(m, x) /\ DynFrom(m, x) <= DynMax(m)
    <2> SUFFICES ASSUME NEW x \in {Full - 1 - a, a * Half}
                 PROVE  FqFrom(m, x) = DynFrom(m, x) /\ DynFrom(m, x) <= DynMax(m)
      OBVIOUS
    <2>1. x \in Nat
      BY <1>1, Halves
    <2>2. x % modulus \in 0 .. modulus - 1
      BY <1>1, <2>1, Division
    <2>. QED
      BY <1>1, <1>2, <2>2 DEF FqFrom, DynFrom, DynMax
  <1>9. ASSUME a < modulus
        PROVE  Cardinality({x \in 0..(Full - 1) : Accepted(m, x) /\ FqFrom(m, x) = a}) = Full \div modulus
    <2>1. a \in 0 .. modulus - 1
      BY <1>1, <1>9
    <2>. QED
      BY <1>1, <2>1, DrawsAreFair DEF m
  <1>10. FqMax(m) = FqNeg(m, 1)
    BY DEF FqMax, FqNeg
  <1> HIDE DEF Exact, wire, read
  <1>. QED
    BY <1>3, <1>4, <1>5, <1>6, <1>7, <1>8, <1>9, <1>10
    DEF OperationsAreExact, m, Exact, wire, read

\* DynField and Fq are exact in every state of the walk.
THEOREM OperationsExact == Spec => []OperationsAreExact
  BY OperandsInvariant, OperandsOperate, PTL
-----------------------------------------------------------------------------
(***************************************************************************)
(* The modulus and the folds that crate common admits.                     *)
(***************************************************************************)
\* The prime is drawn by width only: every number of the width prime_bits gives,
\* for any shape, passes the fold gate of BitZParams::new that comes after.
THEOREM PrimeIsAdmitted ==
    ASSUME NEW s \in Shapes, NEW w \in prime_bits(s), NEW q \in Interval(w)
    PROVE  FoldGate(s, q)
PROOF
<1>1. rows(s) \in Nat \ {0}
  BY ParametersAssumption DEF Shapes, rows
<1>2. w \in 0..MAX_MODULUS_BITS /\ 2^w <= max_modulus(s) + 1
  BY DEF prime_bits, Widths
<1>3. 2^w \in Nat
  BY <1>2, ParametersAssumption
<1>4. max_modulus(s) \in Nat /\ rows(s) * max_modulus(s) <= GROUP_ORDER - 1
  BY <1>1, ParametersAssumption DEF max_modulus
<1>5. q \in Nat /\ q <= max_modulus(s)
  BY <1>2, <1>3, <1>4 DEF Interval
<1>6. rows(s) * q <= rows(s) * max_modulus(s)
  BY <1>1, <1>4, <1>5
<1> QED
  BY <1>1, <1>4, <1>5, <1>6, ParametersAssumption DEF FoldGate

\* Wider is sounder: unless the field caps the width, the top of the next
\* interval is refused, so prime_bits gives no bit away.
THEOREM WidthIsWidest ==
    ASSUME NEW s \in Shapes, NEW w \in prime_bits(s), w # MAX_MODULUS_BITS
    PROVE  ~ FoldGate(s, 2^(w + 1) - 1)
PROOF
<1>1. rows(s) \in Nat \ {0}
  BY ParametersAssumption DEF Shapes, rows
<1>2. w \in 0..MAX_MODULUS_BITS /\ w + 1 \in 0..MAX_MODULUS_BITS
  BY ParametersAssumption DEF prime_bits, Widths
<1>3. 2^(w + 1) \in Nat \ {0}
  BY <1>2, ParametersAssumption
<1>4. w + 1 \notin Widths(s)
  BY <1>2 DEF prime_bits
<1>5. 2^(w + 1) > max_modulus(s) + 1
  <2>1. max_modulus(s) \in Nat
    BY <1>1, ParametersAssumption DEF max_modulus
  <2> QED
    BY <2>1, <1>2, <1>3, <1>4 DEF Widths
<1>6. max_modulus(s) \in Nat /\ rows(s) * (max_modulus(s) + 1) > GROUP_ORDER - 1
  BY <1>1, ParametersAssumption DEF max_modulus
<1>7. rows(s) * (2^(w + 1) - 1) >= rows(s) * (max_modulus(s) + 1)
  BY <1>1, <1>3, <1>5, <1>6
<1> QED
  BY <1>1, <1>3, <1>6, <1>7, ParametersAssumption DEF FoldGate

\* What the fold gate is for: exponents are read from images, which repeat after
\* the group's order.  Two folds that the verifier's range check lets pass and
\* that have one image are one fold.
THEOREM FoldsDoNotWrap ==
    ASSUME NEW s \in Shapes, NEW q \in Nat \ {0}, FoldGate(s, q),
           NEW x \in 0..fold_bound(s, q), NEW y \in 0..fold_bound(s, q),
           x % GROUP_ORDER = y % GROUP_ORDER
    PROVE  x = y
PROOF
<1>1. rows(s) \in Nat \ {0}
  BY ParametersAssumption DEF Shapes, rows
<1>2. fold_bound(s, q) \in Nat /\ fold_bound(s, q) <= rows(s) * q
  BY <1>1 DEF fold_bound
<1>3. x \in Nat /\ x < GROUP_ORDER /\ y \in Nat /\ y < GROUP_ORDER
  BY <1>1, <1>2, ParametersAssumption DEF FoldGate
<1>4. x % GROUP_ORDER = x /\ y % GROUP_ORDER = y
  BY <1>3, ParametersAssumption
<1> QED
  BY <1>4
=============================================================================
