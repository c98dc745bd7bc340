---------------------------- MODULE GrandProduct ----------------------------
(***************************************************************************)
(* Crate gkr: the layered sumcheck that reduces products of table entries  *)
(* to one entry of the table's multilinear extension.  A table is indexed  *)
(* from 1; the first coordinate of a point selects its halves.             *)
(***************************************************************************)
EXTENDS BinaryField

Half(table) == Len(table) \div 2
Low(table)  == SubSeq(table, 1, Half(table))
High(table) == SubSeq(table, Half(table) + 1, Len(table))

\* batched_eval: the layer above multiplies the halves entrywise.
Layer(table) == [i \in 1..Half(table) |-> table[i] ** table[i + Half(table)]]

\* SuffixTable: eq over the coordinates zs, the last one first, each new one on top.
EqTable(zs) ==
    LET Extend(table, z) ==
            [i \in 1..Len(table) |-> table[i] ++ (z ** table[i])] \o
            [i \in 1..Len(table) |-> z ** table[i]]
    IN  FoldRight(LAMBDA z, table : Extend(table, z), zs, <<1>>)

\* The low half moves toward the high half by the challenge.
Bind(table, r) ==
    [i \in 1..Half(table) |-> table[i] ++ (r ** (table[i] ++ table[i + Half(table)]))]

eq_factor(r, z) == 1 ++ (r ++ z)
-----------------------------------------------------------------------------
\* Mistake: the prover always sends the sum at zero.
RoundMessageAtZero(l, r, z, rest, factor) ==
    LET eq == EqTable(rest)
        dl == [i \in 1..Half(l) |-> Low(l)[i] ++ High(l)[i]]
        dr == [i \in 1..Half(r) |-> Low(r)[i] ++ High(r)[i]]
        At(tl, tr) == factor ** Total([i \in 1..Len(eq) |-> eq[i] ** (tl[i] ** tr[i])])
    IN  <<At(Low(l), Low(r)), At(dl, dr)>>

(***************************************************************************)
(* A round's two coefficients: the sum at zero, or at one when the bound   *)
(* coordinate is zero, and the leading coefficient.                        *)
(***************************************************************************)
RoundMessage(l, r, z, rest, factor) ==
    LET eq == EqTable(rest)
        dl == [i \in 1..Half(l) |-> Low(l)[i] ++ High(l)[i]]
        dr == [i \in 1..Half(r) |-> Low(r)[i] ++ High(r)[i]]
        At(tl, tr) == factor ** Total([i \in 1..Len(eq) |-> eq[i] ** (tl[i] ** tr[i])])
    IN  <<IF z = 0 THEN At(High(l), High(r)) ELSE At(Low(l), Low(r)), At(dl, dr)>>

\* The verifier derives the other sum from the claim and evaluates at r.
NextClaim(claim, z, message, r) ==
    LET sum0 == IF z = 0 THEN claim ELSE message[1]
        sum1 == IF z = 0 THEN message[1] ELSE (claim ++ ((1 ++ z) ** message[1])) // z
        bracket == (sum1 ++ sum0) ++ ((r ++ 1) ** message[2])
    IN  eq_factor(r, z) ** (sum0 ++ (r ** bracket))

\* The layer's last check and the claim it leaves on the layer below.
ExitHolds(prefix, pair, claim) == prefix ** (pair[1] ** pair[2]) = claim

\* Mistake: the challenge does not reach the low half's value.
ExitClaimLow(pair, r) == pair[1]

ExitClaim(pair, r) == pair[1] ++ (r ** (pair[1] ++ pair[2]))
-----------------------------------------------------------------------------
\* References, by definition: eq at an index, and an extension's value.
EqAt(zs, i) ==
    FoldLeft(LAMBDA acc, k : acc ** (IF Bit(i - 1, Len(zs) - k) = 1 THEN zs[k] ELSE 1 ++ zs[k]),
             1, [k \in 1..Len(zs) |-> k])

Extension(table, zs) == Total([i \in 1..Len(table) |-> EqAt(zs, i) ** table[i]])
=============================================================================
