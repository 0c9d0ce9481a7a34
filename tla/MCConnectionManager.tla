------------------------ MODULE MCConnectionManager ------------------------
(* Finite instances of ConnectionManager for TLC.                          *)
EXTENDS ConnectionManager, TLC

\* The single states that BackendBase and Config set.
LifecycleStates == {{"not_connected"}, {"connecting"}, {"disconnecting"},
                    {"connected"}}

\* A single flag and a compound request, as BackendBase makes them.
SomeWants == {Gone, Settled}
=============================================================================
