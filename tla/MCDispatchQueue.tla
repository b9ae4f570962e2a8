--------------------------- MODULE MCDispatchQueue ---------------------------
(* Values for model checking DispatchQueue.                                *)
EXTENDS DispatchQueue

CONSTANTS c1, c2, j1, j2, j3

MCClients == {c1, c2}
MCJobs == {j1, j2, j3}
MCTwoJobs == {j1, j2}
=============================================================================
