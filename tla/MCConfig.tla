------------------------------ MODULE MCConfig ------------------------------
(* Finite instances of Config for TLC.                                     *)
EXTENDS Config, TLC

CONSTANTS A, B, x, y

\* One device was stored at an address it had, another is not known yet.
OneStored == {{[id |-> A, addr |-> x]}}

\* Two devices were stored.
TwoStored == {{[id |-> A, addr |-> x], [id |-> B, addr |-> y]}}
=============================================================================
