------------------------ MODULE MCBackendConnection ------------------------
(***************************************************************************)
(* Finite instances of BackendConnection for TLC: which faults a run's     *)
(* environment has.                                                        *)
(***************************************************************************)
EXTENDS BackendConnection, TLC

\* Calls of one kind are interchangeable, and so are connections.  Not used
\* by the runs that check liveness.
Symmetry == Permutations(Connects) \cup Permutations(Disconnects)
            \cup Permutations(Sends) \cup Permutations(Conns)

\* An established connection fails silently if at all.
SoundLink == AllFaults \ {"garbage", "unreachable"}

\* ... a device that accepts a connection introduces itself in time, and no
\* attempt fails with an error that is reported while connect() goes on.
PromptUnrefused == SoundLink \ {"timeout", "refused"}
=============================================================================
