--------------------------- MODULE MCOscInterface ---------------------------
(* Finite instances of OscInterface for TLC.                               *)
EXTENDS OscInterface, TLC
=============================================================================
