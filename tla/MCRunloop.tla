------------------------------- MODULE MCRunloop -------------------------------
(* Values for model checking Runloop: two timers that fire once, one of    *)
(* them due at once, and one that repeats.                                 *)
EXTENDS Runloop

CONSTANTS ping, backoff, short

MCTimers == {ping, backoff, short}
MCTimeout == ping :> 1 @@ backoff :> 2 @@ short :> 0
MCRepeating == {ping}
=============================================================================
