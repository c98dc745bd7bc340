---------------------------- MODULE MCChallenger ----------------------------
(***************************************************************************)
(* One proof of work, or one and an idle one; one-cell elements and        *)
(* nonces.  Streams hold 0 and 1; 4 to 7 are bytes of labels and tags,     *)
(* 9 is the mark of a challenge.                                           *)
(***************************************************************************)
EXTENDS Challenger

MCSymbol == 0..9
MCCell == 0..1
MCLabels == {<<4>>, <<5>>}
MCBasisLabel == <<4>>
MCValues == {<<0>>, <<1>>}
MCTarget == <<0>>
MCStrings == {<<1>>}
MCSlices == {<<<<0>>>>, <<<<1>>>>}
MCSchedules == {<<<<2, 3>>>>, <<<<2, 3>>, <<0, 0>>>>}

\* The nonce that works changes with the seed.
MCLeadingZeros(seed, nonce) == IF nonce[1] = Len(seed) % 2 THEN 3 ELSE 2
=============================================================================
