------------------------------- MODULE MCContext -------------------------------
(* Context for TLC: clients are model values, the bounds numbers.          *)
EXTENDS Context
=============================================================================
