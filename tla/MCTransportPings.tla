--------------------------- MODULE MCTransportPings ---------------------------
(***************************************************************************)
(* TransportPings for TLC.  The job that is waiting in either queue is     *)
(* never far from the head: the bounds are those of the events.            *)
(***************************************************************************)
EXTENDS TransportPings, TLC
=============================================================================
