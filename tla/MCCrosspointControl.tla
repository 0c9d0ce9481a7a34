------------------------ MODULE MCCrosspointControl ------------------------
(* Finite instances of CrosspointControl for TLC.                          *)
EXTENDS CrosspointControl, TLC, FiniteSets

\* Single outputs, and all of them at once.
JobsOn(outputs) ==
  [outputs -> Inputs] \cup UNION {[{o} -> Inputs] : o \in outputs}

\* Only outputs nobody else sets.
OwnJobs == JobsOn(Outputs \ Foreign)
=============================================================================
