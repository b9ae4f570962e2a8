---------------------------- MODULE MCDatacenterAuth ----------------------------
(***************************************************************************)
(* DatacenterAuth for TLC: every number that is drawn is spent on an       *)
(* exchange, and the bounds on closes and faults bound the exchanges.      *)
(***************************************************************************)
EXTENDS DatacenterAuth
=============================================================================
