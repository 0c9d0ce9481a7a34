-------------------------- MODULE ConnectionState --------------------------
(***************************************************************************)
(* The values of common.ConnectionState and the pure part of               *)
(* common.ConnectionManager: what a setter makes of the current state and  *)
(* when a waiter is satisfied.                                             *)
(*                                                                         *)
(* An IntFlag value is the set of the single-bit members it contains, so   *)
(* "a | b" is union, "a & b" intersection and Python's "x in y" (every bit *)
(* of x is set in y) is x \subseteq y.  The strings that from_str takes    *)
(* ("connected|not_connected") are written here as the set they denote.    *)
(***************************************************************************)

Flags == {"not_connected", "connecting", "disconnecting", "connected",
          "failure"}

(* The alias ConnectionState.waiting: a member, hence with a name.         *)
Waiting == {"connecting", "disconnecting"}

(* is_compound: the value has no name of its own.                          *)
IsCompound(s) == /\ s # Waiting
                 /\ \A f \in Flags : s # {f}

(* is_connected: equal to connected, not merely containing it.             *)
IsConnected(s) == s = {"connected"}

(***************************************************************************)
(* A manager is its state together with failure_reason.  The text of a     *)
(* reason is abstracted to where it comes from: "unknown" is set by        *)
(* BackendBase.connect, "reported" by _catch_exception.                    *)
(* failure_exception is assigned and cleared with the reason.              *)
(***************************************************************************)
NoReason == "none"
Reasons == {"unknown", "reported"}

Managers == [state : SUBSET Flags, reason : Reasons \cup {NoReason}]

InitManager == [state |-> {"not_connected"}, reason |-> NoReason]

(* Mutant: the reason outlives the failure.                                *)
Bug_KeepReason(m, s) ==
  LET restarts == s \cap {"connecting", "connected"} # {}
  IN  [m EXCEPT !.state = IF "failure" \in m.state /\ ~restarts
                          THEN s \cup {"failure"} ELSE s]

(* Mutant: a new attempt does not clear the failure.                       *)
Bug_FailureForEver(m, s) ==
  [m EXCEPT !.state = IF "failure" \in m.state THEN s \cup {"failure"} ELSE s]

(* ConnectionManager._set_state: a failure sticks to the state until an    *)
(* attempt is started or succeeds, which also clears the reason.           *)
SetState(m, s) ==
  LET restarts == s \cap {"connecting", "connected"} # {}
  IN  IF "failure" \notin m.state
      THEN [m EXCEPT !.state = s]
      ELSE IF restarts
           THEN [state |-> s \ {"failure"}, reason |-> NoReason]
           ELSE [m EXCEPT !.state = s \cup {"failure"}]

(* ConnectionManager._set_failure with its default state argument.         *)
SetFailure(m, why) ==
  [state |-> {"disconnecting", "failure"}, reason |-> why]

(* Mutant: only the request is examined for being compound.                *)
Bug_WaitEqual(want, s) == IF IsCompound(want) THEN want \cap s # {}
                                              ELSE want = s

(* The predicate of _wait_for: some flag in common when either side is     *)
(* compound, equality otherwise.                                           *)
WaitPredicate(want, s) == IF IsCompound(want) \/ IsCompound(s)
                          THEN want \cap s # {}
                          ELSE want = s

(* Mutant: the answer is not masked with the request.                      *)
Bug_WaitUnmasked(want, s) == s

(* What _wait_for returns to a caller that had to wait: a compound request *)
(* is answered with the flags that matched, a single one with the whole    *)
(* state.  A caller that did not have to wait gets the whole state.        *)
WaitResult(want, s) == IF IsCompound(want) THEN want \cap s ELSE s

(* The requests the code makes by name.                                    *)
Settled == {"connected", "not_connected"}
Gone == {"not_connected"}
Decided == {"connected", "disconnecting"}

(***************************************************************************)
(* The values the state can take: one lifecycle flag, and failure only on  *)
(* the way down or once down.                                              *)
(***************************************************************************)
ValidStates == {{"not_connected"}, {"connecting"}, {"disconnecting"},
                {"connected"}, {"disconnecting", "failure"},
                {"not_connected", "failure"}}

WellFormed(m) == /\ m.state \in ValidStates
                 /\ m.reason \in Reasons \cup {NoReason}
                 /\ m.reason # NoReason <=> "failure" \in m.state
=============================================================================
