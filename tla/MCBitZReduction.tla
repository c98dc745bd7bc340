-------------------------- MODULE MCBitZReduction --------------------------
(***************************************************************************)
(* Two columns of four rows modulo 5 or 7, the primes of three bits, over  *)
(* the field of 32 elements: folds reach 24 and exponents repeat after 31, *)
(* so only the range check keeps a fold from wrapping.  Two layers: the    *)
(* second binds challenges.                                                *)
(***************************************************************************)
EXTENDS BitZReduction

\* X^5 + X^2 + 1, and X generates.
MCChain == <<<<1, 1>>, <<2, 2>>>>

MCTables == {<<{0}, {0}, {1}, {0, 1}>>, <<{}, {1}, {0}, {}>>}
\* Modulo 7 the first table meets target 0; folds 5 and 32 for 5 and 1 would meet
\* target 3 on the second.  Modulo 5 the second meets it.
MCClaims == {[row |-> <<1, 6, 2, 5>>, column |-> <<1, 3>>, target |-> t] : t \in {0, 3}}

\* Zero takes the other branch of a round.
MCDraws == {0, 6}
MCSums == {0, 9, 30}
=============================================================================
