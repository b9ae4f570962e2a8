----------------------------- MODULE MCClientSync -----------------------------
(* Values for model checking ClientSync.                                   *)
EXTENDS ClientSync

CONSTANTS t1, t2

TwoReceivers == {t1, t2}
=============================================================================
