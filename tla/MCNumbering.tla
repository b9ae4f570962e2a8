----------------------------- MODULE MCNumbering -----------------------------
(***************************************************************************)
(* Numbering for TLC.  A tick holds two ids, so that a third message within *)
(* one tick violates the order of ids.                                      *)
(***************************************************************************)
EXTENDS Numbering, TLC

CONSTANTS r1, r2

OneRequest == {r1}
TwoRequests == {r1, r2}
BackAndForth == {-1, 1}
=============================================================================
