------------------------ MODULE MCSyncronizedManager ------------------------
(* A finite instance of SyncronizedManager for TLC.                        *)
EXTENDS SyncronizedManager, TLC

\* A state a source comes up with, and one it leaves by.
UpAndDown == {{"connected"}, {"not_connected"}}

Symmetry == Permutations(Sources) \cup Permutations(Callers)
            \cup Permutations(Events)
=============================================================================
