----------------------------- MODULE FieldWords -----------------------------
(***************************************************************************)
(* gf128::portable and Wide256: products in F_2[X] modulo                  *)
(* X^(2 WORD) + REDUCTION, of elements that are two words, the low one     *)
(* first, with unreduced products of four.  The code's words have 64 bits. *)
(* A product's top word has WORD - 1 bits, so that folding it down by a    *)
(* REDUCTION of degree g spills g - 1; folded again, these stay in a word. *)
(***************************************************************************)
EXTENDS Naturals, Sequences, SequencesExt

CONSTANTS WORD, REDUCTION

ASSUME FieldWordsAssumption ==
    \E g \in 1..WORD : REDUCTION \in 2^g..(2^(g + 1) - 1) /\ 2 * g - 2 < WORD

Bit(n, i) == (n \div 2^i) % 2
Xor(a, b) == MapThenSumSet(LAMBDA i : 2^i * ((Bit(a, i) + Bit(b, i)) % 2), 0..(WORD - 1))

words(a) == <<a % 2^WORD, a \div 2^WORD>>
to_u128(w) == w[1] + 2^WORD * w[2]

Low(n) == n % 2^WORD
Sum(S) == FoldFunction(Xor, 0, S)
XorWords(x, y) == [i \in 1..Len(x) |-> Xor(x[i], y[i])]
-----------------------------------------------------------------------------
\* Carryless product of two words: its low and its high word.
clmul64(a, b) ==
    LET ones == {i \in 0..(WORD - 1) : Bit(b, i) = 1}
    IN  <<Sum([i \in ones |-> Low(a * 2^i)]), Sum([i \in ones |-> a \div 2^(WORD - i)])>>

clmul128(a, b) ==
    LET l == clmul64(a[1], b[1])
        h == clmul64(a[2], b[2])
        m == clmul64(a[1], b[2])
        n == clmul64(a[2], b[1])
    IN  <<l[1], Xor(l[2], Xor(m[1], n[1])), Xor(h[1], Xor(m[2], n[2])), h[2]>>

times_g(w) == clmul64(w, REDUCTION)

\* Mistake: what the first folds spill is dropped.
reduce_words_one_fold(r) ==
    LET a == times_g(r[3])
        b == times_g(r[4])
    IN  <<Xor(r[1], a[1]), Xor(r[2], Xor(a[2], b[1]))>>

\* Both high words fold down by REDUCTION; what the upper one spills, once more.
reduce_words(r) ==
    LET a == times_g(r[3])
        b == times_g(r[4])
        w0 == Xor(r[1], a[1])
        w1 == Xor(r[2], Xor(a[2], b[1]))
    IN  <<Xor(w0, times_g(b[2])[1]), w1>>

mul_words(a, b) == reduce_words(clmul128(a, b))
square_words(a) == reduce_words(clmul64(a[1], a[1]) \o clmul64(a[2], a[2]))
square_n_words(a, k) == FoldLeft(LAMBDA w, i : square_words(w), a, [i \in 1..k |-> i])

\* By X: a shift by one, the top bit folded in.
mul_x(a) ==
    LET carry == IF Bit(a[2], WORD - 1) = 1 THEN REDUCTION ELSE 0
    IN  <<Xor(Low(2 * a[1]), carry), Low(2 * a[2]) + Bit(a[1], WORD - 1)>>
-----------------------------------------------------------------------------
wide_zero == <<0, 0, 0, 0>>
wide_of(a) == a \o <<0, 0>>
wide_mul(a, b) == clmul128(a, b)
wide_add(x, y) == XorWords(x, y)
wide_add_low(x, a) == XorWords(SubSeq(x, 1, 2), a) \o SubSeq(x, 3, 4)
wide_reduce(w) == reduce_words(w)

\* inner_product_serial: products are summed unreduced and reduced once.
inner_product(xs, ys) ==
    wide_reduce(FoldLeftDomain(LAMBDA sum, i : wide_add(sum, wide_mul(xs[i], ys[i])), wide_zero, xs))
=============================================================================
