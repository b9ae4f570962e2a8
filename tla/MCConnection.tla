------------------------------ MODULE MCConnection ------------------------------
(* Connection for TLC: its constants are numbers, given in the .cfg.       *)
EXTENDS Connection
=============================================================================
