-------------------------- MODULE BackendLifecycle --------------------------
(***************************************************************************)
(* What the state of a backend's connection_manager promises to those who  *)
(* wait on it, without the tasks that bring it about: an attempt starts    *)
(* from not_connected and ends connected or failed, an open connection is  *)
(* left through disconnecting, and neither connecting nor disconnecting    *)
(* lasts.  BackendConnection implements it as long as attempts do not      *)
(* overlap and the device does not break an established connection.        *)
(***************************************************************************)
VARIABLE state

Down == {{"not_connected"}, {"not_connected", "failure"}}
Failed == {"not_connected", "failure"}
Failing == {"disconnecting", "failure"}

Init == state = {"not_connected"}

\* A new attempt, which forgets an earlier failure.
Attempt == state \in Down /\ state' = {"connecting"}

Succeed == state = {"connecting"} /\ state' = {"connected"}

\* An attempt fails, at once or after cleaning up.
Fail == state = {"connecting"} /\ state' \in {Failing, Failed}
CleanUp == state = Failing /\ state' = Failed

Leave == state = {"connected"} /\ state' = {"disconnecting"}
Close == state = {"disconnecting"} /\ state' = {"not_connected"}

Next == Attempt \/ Succeed \/ Fail \/ CleanUp \/ Leave \/ Close

Spec == Init /\ [][Next]_state

FairSpec == /\ Spec
            /\ WF_state(Succeed \/ Fail)
            /\ WF_state(CleanUp)
            /\ WF_state(Close)
=============================================================================
