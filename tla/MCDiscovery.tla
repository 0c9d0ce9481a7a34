----------------------------- MODULE MCDiscovery -----------------------------
(* Finite instances of Discovery for TLC.                                  *)
EXTENDS Discovery, TLC

CONSTANTS s1, s2, d1

\* One device that is announced under two names, as after it was renamed.
Renamed == (s1 :> d1) @@ (s2 :> d1)
=============================================================================
