---------------------- MODULE BackendConnectionProofs ----------------------
(***************************************************************************)
(* Theorems about BackendConnection for any number of calls, connections,  *)
(* any set of faults and any overlap of the calls.                         *)
(*                                                                         *)
(* The argument: every step changes the manager in one of six ways         *)
(* (ManagerStep), each of which keeps it well formed; a well formed        *)
(* manager satisfies the assertions of connect() and disconnect().  Types  *)
(* need one fact more than TypeOK says: whoever awaits a read loop knows   *)
(* which one (JoinsAreReal).                                               *)
(***************************************************************************)
EXTENDS BackendConnection, FiniteSetTheorems, TLAPS

(***************************************************************************)
(* What _set_state and _set_failure preserve, and what a caller that       *)
(* waited for a state may conclude from the answer.                        *)
(***************************************************************************)

(* _set_failure with its default argument leaves a well formed manager     *)
(* whatever it finds.                                                      *)
LEMMA SetFailureWellFormed ==
  ASSUME NEW m, NEW why \in Reasons
  PROVE  /\ SetFailure(m, why) \in Managers
         /\ WellFormed(SetFailure(m, why))
         /\ SetFailure(m, why).state = {"disconnecting", "failure"}
  BY DEF SetFailure, WellFormed, Managers, Flags, Reasons, NoReason, ValidStates

(* _set_state on a manager that has not failed.                            *)
LEMMA SetStateHealthy ==
  ASSUME NEW m \in Managers, NEW s \in SUBSET Flags, "failure" \notin m.state
  PROVE  /\ SetState(m, s) \in Managers
         /\ SetState(m, s).state = s
         /\ SetState(m, s).reason = m.reason
  BY DEF SetState, Managers

(* _set_state on a failed manager: a new attempt or its success clears the *)
(* failure, anything else keeps it.                                        *)
LEMMA SetStateFailed ==
  ASSUME NEW m \in Managers, NEW s \in SUBSET Flags, "failure" \in m.state
  PROVE  /\ SetState(m, s) \in Managers
         /\ s \cap {"connecting", "connected"} # {} =>
              SetState(m, s) = [state |-> s \ {"failure"}, reason |-> NoReason]
         /\ s \cap {"connecting", "connected"} = {} =>
              /\ SetState(m, s).state = s \cup {"failure"}
              /\ SetState(m, s).reason = m.reason
  BY DEF SetState, Managers, Flags, Reasons, NoReason

(* Setting one lifecycle flag keeps a manager well formed, except that     *)
(* nothing but a new attempt, a success, going down or being down may      *)
(* follow a failure: the four arguments BackendBase uses.                  *)
LEMMA SetStateWellFormed ==
  ASSUME NEW m \in Managers, WellFormed(m),
         NEW s \in {{"not_connected"}, {"connecting"}, {"disconnecting"},
                    {"connected"}}
  PROVE  SetState(m, s) \in Managers /\ WellFormed(SetState(m, s))
<1>1. s \in SUBSET Flags
  BY DEF Flags
<1>2. CASE "failure" \notin m.state
  <2>1. /\ SetState(m, s) \in Managers
        /\ SetState(m, s).state = s
        /\ SetState(m, s).reason = m.reason
    BY <1>1, <1>2, SetStateHealthy
  <2>2. m.reason = NoReason
    BY <1>2 DEF WellFormed
  <2> QED
    BY <2>1, <2>2 DEF WellFormed, ValidStates
<1>3. CASE "failure" \in m.state
  <2>1. CASE s \in {{"connecting"}, {"connected"}}
    <3>1. s \cap {"connecting", "connected"} # {} /\ s \ {"failure"} = s
      BY <2>1
    <3>2. SetState(m, s) \in Managers /\ SetState(m, s) = [state |-> s, reason |-> NoReason]
      BY <1>1, <1>3, <3>1, SetStateFailed
    <3> QED
      BY <3>2, <2>1 DEF WellFormed, ValidStates
  <2>2. CASE s \in {{"not_connected"}, {"disconnecting"}}
    <3>1. s \cap {"connecting", "connected"} = {}
      BY <2>2
    <3>2. /\ SetState(m, s) \in Managers
          /\ SetState(m, s).state = s \cup {"failure"}
          /\ SetState(m, s).reason = m.reason
      BY <1>1, <1>3, <3>1, SetStateFailed
    <3>3. m.reason # NoReason /\ m.reason \in Reasons \cup {NoReason}
      BY <1>3 DEF WellFormed
    <3>4. s \cup {"failure"} \in ValidStates /\ "failure" \in s \cup {"failure"}
      BY <2>2 DEF ValidStates
    <3> QED
      BY <3>2, <3>3, <3>4 DEF WellFormed
  <2> QED
    BY <2>1, <2>2
<1> QED
  BY <1>2, <1>3

(* The two questions connect() and disconnect() ask after waiting for      *)
(* 'connected|not_connected': the manager is then connected or contains    *)
(* not_connected, and an answer other than exactly not_connected means     *)
(* connected.  The comparison is with the masked answer: the state itself  *)
(* may hold failure as well.                                               *)
LEMMA SettledAnswer ==
  ASSUME NEW s \in ValidStates, WaitPredicate(Settled, s)
  PROVE  /\ IsConnected(s) \/ "not_connected" \in s
         /\ WaitResult(Settled, s) # Gone => IsConnected(s)
<1>1. IsCompound(Settled)
  BY DEF IsCompound, Settled, Waiting, Flags
<1>2. Settled \cap s # {}
  BY <1>1 DEF WaitPredicate
<1>3. s \in {{"not_connected"}, {"connected"}, {"not_connected", "failure"}}
  BY <1>2 DEF Settled, ValidStates
<1>4. WaitResult(Settled, s) = Settled \cap s
  BY <1>1 DEF WaitResult
<1>5. CASE "not_connected" \in s
  <2>1. Settled \cap s = Gone
    BY <1>3, <1>5 DEF Settled, Gone
  <2> QED
    BY <1>4, <1>5, <2>1
<1>6. CASE s = {"connected"}
  BY <1>6 DEF IsConnected
<1> QED
  BY <1>3, <1>5, <1>6

(* connect() does not wait when the state is neither connecting nor        *)
(* disconnecting: its assertion holds just the same.                       *)
LEMMA SettledWithoutWaiting ==
  ASSUME NEW s \in ValidStates, s \cap Waiting = {}
  PROVE  IsConnected(s) \/ "not_connected" \in s
  BY DEF ValidStates, Waiting, IsConnected

(* disconnect() neither returns nor waits only when the state is connected.*)
LEMMA ConnectedOtherwise ==
  ASSUME NEW s \in ValidStates,
         s \cap {"not_connected", "disconnecting", "connecting"} = {}
  PROVE  IsConnected(s)
  BY DEF ValidStates, IsConnected

(* Where the tasks are, and what they are blocked on.                      *)
PlaceTyping ==
  /\ pc \in [Tasks -> CallPlaces \cup LoopPlaces]
  /\ \A p \in Calls : pc[p] \in CallPlaces
  /\ \A c \in Conns : pc[c] \in LoopPlaces
  /\ on \in [Tasks -> Conns \cup {NoConn}]

JoinsAreReal ==
  \A t \in Tasks : pc[t] \in {"joining", "dialJoin"} => on[t] \in Conns

(* The rest of TypeOK, but for the manager.                                *)
LinkTyping ==
  /\ client \in Conns \cup {NoConn}
  /\ opened \subseteq Conns
  /\ greeted \subseteq Conns
  /\ readEnabled \in BOOLEAN
  /\ preludeParsed \in BOOLEAN
  /\ ackOrNak \in BOOLEAN
  /\ ready \in BOOLEAN
  /\ readCoro \in Conns \cup {NoConn}
  /\ cancelled \subseteq Conns

Typing == PlaceTyping /\ JoinsAreReal /\ LinkTyping

Inv == TypeOK /\ JoinsAreReal /\ ManagerWellFormed /\ AssertionsHold

(* The ways a step may change the manager.                                 *)
ManagerStep ==
  \/ mgr' = mgr
  \/ mgr' = SetState(mgr, {"not_connected"})
  \/ mgr' = SetState(mgr, {"disconnecting"})
  \/ mgr' = SetState(mgr, {"connecting"})
  \/ "failure" \notin mgr.state /\ mgr' = SetState(mgr, {"connected"})
  \/ \E why \in Reasons :
       \/ mgr' = SetFailure(mgr, why)
       \/ mgr' = SetState(SetFailure(mgr, why), {"not_connected"})

-----------------------------------------------------------------------------
(* TypeOK is Typing with the type of the manager.                          *)
LEMMA TypeOKParts == TypeOK <=> mgr \in Managers /\ PlaceTyping /\ LinkTyping
  BY DEF TypeOK, PlaceTyping, LinkTyping

(* A task that moves to a place of its kind, with a connection when it     *)
(* awaits a read loop, keeps the types.                                    *)
LEMMA GotoTyping ==
  ASSUME PlaceTyping, JoinsAreReal,
         NEW t \in Tasks, NEW place, NEW c \in Conns \cup {NoConn},
         t \in Calls => place \in CallPlaces,
         t \in Conns => place \in LoopPlaces,
         place \in {"joining", "dialJoin"} => c \in Conns,
         Goto(t, place, c)
  PROVE  PlaceTyping' /\ JoinsAreReal'
<1>1. place \in CallPlaces \cup LoopPlaces
  BY DEF Tasks
<1>2. /\ pc' \in [Tasks -> CallPlaces \cup LoopPlaces]
      /\ on' \in [Tasks -> Conns \cup {NoConn}]
      /\ \A u \in Tasks : /\ pc'[u] = IF u = t THEN place ELSE pc[u]
                          /\ on'[u] = IF u = t THEN c ELSE on[u]
  BY <1>1 DEF Goto, PlaceTyping
<1>3. \A p \in Calls : pc'[p] \in CallPlaces
  BY <1>2 DEF PlaceTyping, Tasks
<1>4. \A d \in Conns : pc'[d] \in LoopPlaces
  BY <1>2 DEF PlaceTyping, Tasks
<1>5. JoinsAreReal'
  BY <1>2 DEF JoinsAreReal
<1> QED
  BY <1>2, <1>3, <1>4, <1>5 DEF PlaceTyping

-----------------------------------------------------------------------------
(* The shared parts of do_disconnect.                                      *)

LEMMA ReturnsTyping ==
  ASSUME Typing, NEW t \in Tasks, NEW m, NEW done,
         t \in Calls => done \in {"returned", "finish"},
         t \in Conns => done = "ended",
         DisconnectReturns(t, m, done)
  PROVE  /\ PlaceTyping' /\ JoinsAreReal'
         /\ client' \in Conns \cup {NoConn}
         /\ readCoro' \in Conns \cup {NoConn}
<1>1. Goto(t, done, NoConn)
  BY DEF DisconnectReturns
<1>2. done \notin {"joining", "dialJoin"}
  BY DEF Tasks
<1>3. t \in Calls => done \in CallPlaces
  BY DEF CallPlaces, Returned, Connecting
<1>4. t \in Conns => done \in LoopPlaces
  BY DEF LoopPlaces, Finished
<1>5. PlaceTyping' /\ JoinsAreReal'
  BY <1>1, <1>2, <1>3, <1>4, GotoTyping DEF Typing
<1> QED
  BY <1>5 DEF DisconnectReturns

LEMMA RaisesTyping ==
  ASSUME Typing, NEW t \in Tasks, NEW m, DisconnectRaises(t, m)
  PROVE  /\ PlaceTyping' /\ JoinsAreReal'
         /\ client' \in Conns \cup {NoConn}
         /\ readCoro' \in Conns \cup {NoConn}
<1>1. Goto(t, "raised", NoConn)
  BY DEF DisconnectRaises
<1>2. "raised" \in CallPlaces \cap LoopPlaces
  BY DEF CallPlaces, Returned, LoopPlaces, Finished
<1>3. PlaceTyping' /\ JoinsAreReal'
  BY <1>1, <1>2, GotoTyping DEF Typing
<1> QED
  BY <1>3 DEF DisconnectRaises, Typing, LinkTyping

(* A join awaits a read loop only when there is one.                       *)
LEMMA ReadLoopReal ==
  ASSUME Typing, ReadLoop \notin Finished
  PROVE  readCoro \in Conns
  BY DEF Typing, LinkTyping, ReadLoop, Finished

LEMMA JoinTyping ==
  ASSUME Typing, NEW t \in Tasks, NEW m, NEW done,
         t \in Calls => done = "returned",
         t \in Conns => done = "ended",
         JoinReadLoop(t, m, done, "joining")
  PROVE  /\ PlaceTyping' /\ JoinsAreReal'
         /\ client' \in Conns \cup {NoConn}
         /\ readCoro' \in Conns \cup {NoConn}
<1>1. CASE DisconnectReturns(t, m, done)
  BY <1>1, ReturnsTyping
<1>2. CASE DisconnectRaises(t, m)
  BY <1>2, RaisesTyping
<1>3. CASE /\ ReadLoop \notin Finished
           /\ UNCHANGED <<client, readCoro>>
           /\ Goto(t, "joining", readCoro)
  <2>1. readCoro \in Conns
    BY <1>3, ReadLoopReal
  <2>2. "joining" \in CallPlaces \cap LoopPlaces
    BY DEF CallPlaces, LoopPlaces
  <2>3. PlaceTyping' /\ JoinsAreReal'
    BY <1>3, <2>1, <2>2, GotoTyping DEF Typing
  <2> QED
    BY <1>3, <2>3 DEF Typing, LinkTyping
<1> QED
  BY <1>1, <1>2, <1>3 DEF JoinReadLoop

LEMMA DoneTyping ==
  ASSUME NEW t \in Tasks
  PROVE  /\ t \in Calls => Done(t) = "returned"
         /\ t \in Conns => Done(t) = "ended"
  BY ConstantsAssumption DEF Done, ConstantsAssumption

LEMMA StartDoDisconnectTyping ==
  ASSUME Typing, NEW t \in Tasks, NEW m, StartDoDisconnect(t, m)
  PROVE  Typing'
<1>1. LinkTyping' <=> /\ client' \in Conns \cup {NoConn}
                      /\ readCoro' \in Conns \cup {NoConn}
  BY DEF StartDoDisconnect, Typing, LinkTyping, device
<1>2. CASE JoinReadLoop(t, m, Done(t), "joining")
  BY <1>1, <1>2, DoneTyping, JoinTyping DEF Typing
<1>3. CASE UNCHANGED <<client, readCoro>> /\ Goto(t, "closing", client)
  <2>1. "closing" \in CallPlaces \cap LoopPlaces
    BY DEF CallPlaces, LoopPlaces
  <2>2. PlaceTyping' /\ JoinsAreReal'
    BY <1>3, <2>1, GotoTyping DEF Typing, LinkTyping
  <2> QED
    BY <1>1, <1>3, <2>2 DEF Typing, LinkTyping
<1> QED
  BY <1>2, <1>3 DEF StartDoDisconnect
-----------------------------------------------------------------------------
(* The types, step by step.                                                *)

(* A task that moves while the link stays as it is.                        *)
LEMMA MoveTyping ==
  ASSUME Typing, NEW t \in Tasks, NEW place, NEW c \in Conns \cup {NoConn},
         t \in Calls => place \in CallPlaces,
         t \in Conns => place \in LoopPlaces,
         place \in {"joining", "dialJoin"} => c \in Conns,
         Goto(t, place, c),
         UNCHANGED <<link, ready, cancelled, device>>
  PROVE  Typing'
<1>1. PlaceTyping' /\ JoinsAreReal'
  BY GotoTyping DEF Typing
<1> QED
  BY <1>1 DEF Typing, LinkTyping, link, device

LEMMA ReturnsCallTyping ==
  ASSUME Typing, NEW p \in Dialers,
         NEW r \in Conns \cup {NoConn}, NEW c \in Conns \cup {NoConn},
         ConnectReturns(p, r, c)
  PROVE  PlaceTyping' /\ JoinsAreReal'
<1>1. p \in Tasks /\ p \in Calls /\ p \notin Conns
  BY ConstantsAssumption DEF ConstantsAssumption, Tasks, Calls
<1>2. {"returned", "write"} \subseteq CallPlaces
  BY DEF CallPlaces, Returned
<1>3. \/ Goto(p, "returned", r) \/ Goto(p, "write", c)
      \/ Goto(p, "returned", NoConn)
  BY DEF ConnectReturns
<1> QED
  BY <1>1, <1>2, <1>3, GotoTyping DEF Typing

(* The first locked block of connect().                                    *)
LEMMA EnterTyping ==
  ASSUME Typing, NEW p \in Dialers, EnterConnect(p) \/ ClaimAttempt(p),
         UNCHANGED <<link, ready, cancelled, device>>
  PROVE  Typing'
<1>1. p \in Tasks /\ p \in Calls /\ p \notin Conns
  BY ConstantsAssumption DEF ConstantsAssumption, Tasks, Calls
<1>2. {"yield", "asserted", "connectWait"} \subseteq CallPlaces
  BY DEF CallPlaces, Connecting, Returned
<1>3. client \in Conns \cup {NoConn}
  BY DEF Typing, LinkTyping
<1>4. \/ ConnectReturns(p, client, client)
      \/ Goto(p, "yield", NoConn) \/ Goto(p, "asserted", NoConn)
      \/ Goto(p, "connectWait", NoConn)
  BY DEF EnterConnect, ClaimAttempt
<1>5. CASE ConnectReturns(p, client, client)
  <2>1. PlaceTyping' /\ JoinsAreReal'
    BY <1>3, <1>5, ReturnsCallTyping
  <2> QED
    BY <2>1 DEF Typing, LinkTyping, link, device
<1>6. CASE \/ Goto(p, "yield", NoConn) \/ Goto(p, "asserted", NoConn)
           \/ Goto(p, "connectWait", NoConn)
  BY <1>1, <1>2, <1>6, MoveTyping
<1> QED
  BY <1>4, <1>5, <1>6

LEMMA StartTyping == ASSUME Typing, Start PROVE Typing'
<1>1. ASSUME NEW p \in Connects, StartConnect(p) PROVE Typing'
  BY <1>1, EnterTyping DEF StartConnect, Dialers
<1>2. ASSUME NEW p \in Sends, StartSend(p) PROVE Typing'
  <2>1. p \in Tasks /\ p \in Calls /\ p \notin Conns /\ p \in Dialers
    BY ConstantsAssumption DEF ConstantsAssumption, Tasks, Calls, Dialers
  <2>2. UNCHANGED <<link, ready, cancelled, device>>
    BY <1>2 DEF StartSend
  <2>3. CASE Goto(p, "returned", NoConn)
    BY <2>1, <2>2, <2>3, MoveTyping DEF CallPlaces, Returned
  <2>4. CASE ConnectReturns(p, client, client)
    <3>1. PlaceTyping' /\ JoinsAreReal'
      BY <2>1, <2>4, ReturnsCallTyping DEF Typing, LinkTyping
    <3> QED
      BY <2>2, <3>1 DEF Typing, LinkTyping, link, device
  <2>5. CASE EnterConnect(p)
    BY <2>1, <2>2, <2>5, EnterTyping
  <2> QED
    BY <1>2, <2>3, <2>4, <2>5 DEF StartSend
<1>3. ASSUME NEW p \in Disconnects, StartDisconnect(p) PROVE Typing'
  <2>1. p \in Tasks /\ p \in Calls /\ p \notin Conns
    BY ConstantsAssumption DEF ConstantsAssumption, Tasks, Calls
  <2>2. UNCHANGED <<link, ready, cancelled, device>>
    BY <1>3 DEF StartDisconnect
  <2>3. PICK place \in {"returned", "goneWait", "disconnectWait",
                        "yieldDisconnect", "asserted"} : Goto(p, place, NoConn)
    BY <1>3 DEF StartDisconnect, ClaimDisconnect
  <2>4. place \in CallPlaces /\ place \notin {"joining", "dialJoin"}
    BY <2>3 DEF CallPlaces, Returned
  <2> QED
    BY <2>1, <2>2, <2>3, <2>4, MoveTyping
<1>4. ASSUME NEW w \in Watchers, StartWatch(w) PROVE Typing'
  <2>1. w \in Tasks /\ w \in Calls /\ w \notin Conns
    BY ConstantsAssumption DEF ConstantsAssumption, Tasks, Calls
  <2>2. UNCHANGED <<link, ready, cancelled, device>>
    BY <1>4 DEF StartWatch
  <2>3. PICK place \in {"returned", "watch", "watchGone"} : Goto(w, place, NoConn)
    BY <1>4 DEF StartWatch, EstablishedStep
  <2>4. place \in CallPlaces /\ place \notin {"joining", "dialJoin"}
    BY <2>3 DEF CallPlaces, Returned
  <2> QED
    BY <2>1, <2>2, <2>3, <2>4, MoveTyping
<1> QED
  BY <1>1, <1>2, <1>3, <1>4 DEF Start
(* Dial and Parsed move other calls from one place of their own to another.*)
LEMMA PreludePlaces ==
  /\ {"open", "stranded", "prelude", "woken", "finish", "nap"} \subseteq CallPlaces
  /\ "prelude" \notin LoopPlaces
  BY DEF CallPlaces, Connecting, Dialing, Opening, LoopPlaces, Finished

LEMMA DialTyping ==
  ASSUME Typing, NEW p \in Dialers, Dial(p) PROVE Typing'
<1>1. p \in Calls /\ p \in Tasks
  BY DEF Tasks, Calls
<1>2. /\ pc' \in [Tasks -> CallPlaces \cup LoopPlaces]
      /\ \A q \in Tasks : \/ pc'[q] = pc[q]
                          \/ q = p /\ pc'[q] = "open"
                          \/ pc[q] = "prelude" /\ pc'[q] = "stranded"
  BY PreludePlaces DEF Dial, Typing, PlaceTyping
<1>3. \A q \in Calls : pc'[q] \in CallPlaces
  BY <1>2, PreludePlaces DEF Typing, PlaceTyping, Tasks
<1>4. \A c \in Conns : pc'[c] \in LoopPlaces
  BY <1>1, <1>2, PreludePlaces, ConstantsAssumption
     DEF Typing, PlaceTyping, Tasks, ConstantsAssumption
<1>5. JoinsAreReal'
  BY <1>2 DEF Typing, JoinsAreReal, Dial
<1> QED
  BY <1>2, <1>3, <1>4, <1>5 DEF Typing, PlaceTyping, LinkTyping, Dial, link, device

(* wait_for_response moves its own call and no other.                      *)
LEMMA AwaitTyping ==
  ASSUME Typing, NEW p \in Dialers, NEW c \in Conns \cup {NoConn}, NEW others,
         NEW parsed,
         others \in [Tasks -> CallPlaces \cup LoopPlaces],
         \A q \in Calls : others[q] \in CallPlaces,
         \A d \in Conns : others[d] \in LoopPlaces,
         \A q \in Tasks : others[q] \in {"joining", "dialJoin"} => others[q] = pc[q],
         AwaitResponse(p, c, others, parsed)
  PROVE  PlaceTyping' /\ JoinsAreReal' /\ ready' \in BOOLEAN
<1>1. p \in Calls /\ p \in Tasks /\ p \notin Conns
  BY ConstantsAssumption DEF ConstantsAssumption, Tasks, Calls
<1>2. PICK place \in {"prelude", "finish", "nap"} :
        pc' = [others EXCEPT ![p] = place]
  BY DEF AwaitResponse
<1>3. place \in CallPlaces /\ place \notin {"joining", "dialJoin"}
  BY <1>2, PreludePlaces
<1>4. /\ pc' \in [Tasks -> CallPlaces \cup LoopPlaces]
      /\ \A q \in Tasks : pc'[q] = IF q = p THEN place ELSE others[q]
  BY <1>1, <1>2, <1>3
<1>5. \A q \in Calls : pc'[q] \in CallPlaces
  BY <1>3, <1>4 DEF Tasks
<1>6. \A d \in Conns : pc'[d] \in LoopPlaces
  BY <1>1, <1>4 DEF Tasks
<1>7. /\ on' \in [Tasks -> Conns \cup {NoConn}]
      /\ \A q \in Tasks : q # p => on'[q] = on[q]
  BY <1>1 DEF AwaitResponse, Typing, PlaceTyping
<1>8. JoinsAreReal'
  BY <1>3, <1>4, <1>7 DEF Typing, JoinsAreReal
<1> QED
  BY <1>4, <1>5, <1>6, <1>7, <1>8 DEF PlaceTyping, AwaitResponse

LEMMA OpenOkTyping ==
  ASSUME Typing, NEW p \in Dialers, OpenOk(p) PROVE Typing'
<1>1. PICK c \in Conns :
        /\ client' = c
        /\ opened' = opened \cup {c}
        /\ greeted' = greeted \ {c}
        /\ cancelled' = cancelled \ {c}
        /\ readCoro' = c
        /\ AwaitResponse(p, c, [pc EXCEPT ![c] = "start"], FALSE)
  BY DEF OpenOk
<1> DEFINE others == [pc EXCEPT ![c] = "start"]
<1>2. c \in Tasks /\ c \notin Calls /\ "start" \in LoopPlaces
  BY <1>1, ConstantsAssumption DEF ConstantsAssumption, Tasks, LoopPlaces
<1>3. /\ others \in [Tasks -> CallPlaces \cup LoopPlaces]
      /\ \A q \in Tasks : others[q] = IF q = c THEN "start" ELSE pc[q]
  BY <1>2 DEF Typing, PlaceTyping
<1>4. \A q \in Calls : others[q] \in CallPlaces
  BY <1>2, <1>3 DEF Tasks, Typing, PlaceTyping
<1>5. \A d \in Conns : others[d] \in LoopPlaces
  BY <1>2, <1>3 DEF Tasks, Typing, PlaceTyping
<1>6. \A q \in Tasks : others[q] \in {"joining", "dialJoin"} => others[q] = pc[q]
  BY <1>3
<1>7. AwaitResponse(p, c, others, FALSE)
  BY <1>1
<1> HIDE DEF others
<1>8. PlaceTyping' /\ JoinsAreReal' /\ ready' \in BOOLEAN
  BY <1>3, <1>4, <1>5, <1>6, <1>7, AwaitTyping
<1> QED
  BY <1>1, <1>8 DEF OpenOk, Typing, LinkTyping

LEMMA NapOverTyping ==
  ASSUME Typing, NEW p \in Dialers, NapOver(p) PROVE Typing'
<1>1. p \in Calls /\ p \in Tasks /\ p \notin Conns
  BY ConstantsAssumption DEF ConstantsAssumption, Tasks, Calls
<1>2. on[p] \in Conns \cup {NoConn}
  BY <1>1 DEF Typing, PlaceTyping
<1>3. CASE Goto(p, "finish", on[p]) /\ ackOrNak' = FALSE /\ UNCHANGED ready
  <2>1. PlaceTyping' /\ JoinsAreReal'
    BY <1>1, <1>2, <1>3, PreludePlaces, GotoTyping DEF Typing
  <2> QED
    BY <1>3, <2>1 DEF NapOver, Typing, LinkTyping, link
<1>4. CASE AwaitResponse(p, on[p], pc, preludeParsed) /\ UNCHANGED ackOrNak
  <2>1. PlaceTyping' /\ JoinsAreReal' /\ ready' \in BOOLEAN
    BY <1>2, <1>4, AwaitTyping DEF Typing, PlaceTyping
  <2> QED
    BY <1>4, <2>1 DEF NapOver, Typing, LinkTyping, link
<1> QED
  BY <1>3, <1>4 DEF NapOver

LEMMA OpenFailsTyping ==
  ASSUME Typing, NEW p \in Dialers, OpenRefused(p) \/ OpenFailed(p)
  PROVE  Typing'
<1>1. p \in Calls /\ p \in Tasks /\ p \notin Conns
  BY ConstantsAssumption DEF ConstantsAssumption, Tasks, Calls
<1>2. {"finish", "dialJoin"} \subseteq CallPlaces
  BY DEF CallPlaces, Connecting, Dialing
<1>3. CASE OpenFailed(p)
  <2>1. PlaceTyping' /\ JoinsAreReal'
    BY <1>1, <1>2, <1>3, GotoTyping DEF OpenFailed, Typing
  <2> QED
    BY <1>3, <2>1 DEF OpenFailed, Typing, LinkTyping, device
<1>4. CASE OpenRefused(p)
  <2>1. PICK m : \/ DisconnectReturns(p, m, "finish") \/ DisconnectRaises(p, m)
                 \/ /\ ReadLoop \notin Finished
                    /\ client' = NoConn
                    /\ UNCHANGED readCoro
                    /\ Goto(p, "dialJoin", readCoro)
    BY <1>4 DEF OpenRefused
  <2>2. CASE DisconnectReturns(p, m, "finish")
    BY <1>1, <1>4, <2>2, ReturnsTyping DEF OpenRefused, Typing, LinkTyping, device
  <2>3. CASE DisconnectRaises(p, m)
    BY <1>1, <1>4, <2>3, RaisesTyping DEF OpenRefused, Typing, LinkTyping, device
  <2>4. CASE /\ ReadLoop \notin Finished
             /\ client' = NoConn
             /\ UNCHANGED readCoro
             /\ Goto(p, "dialJoin", readCoro)
    <3>1. readCoro \in Conns
      BY <2>4, ReadLoopReal
    <3>2. PlaceTyping' /\ JoinsAreReal'
      BY <1>1, <1>2, <2>4, <3>1, GotoTyping DEF Typing
    <3> QED
      BY <1>4, <2>4, <3>2 DEF OpenRefused, Typing, LinkTyping, device
  <2> QED
    BY <2>1, <2>2, <2>3, <2>4
<1> QED
  BY <1>3, <1>4
LEMMA DialStepTyping ==
  ASSUME Typing, NEW p \in Dialers, DialStep(p) PROVE Typing'
<1>1. p \in Calls /\ p \in Tasks /\ p \notin Conns
  BY ConstantsAssumption DEF ConstantsAssumption, Tasks, Calls
<1>2. {"finish", "dialCancel", "returned", "raised", "nap"} \subseteq CallPlaces
  BY DEF CallPlaces, Connecting, Dialing, Opening, Returned
<1>3. on[p] \in Conns \cup {NoConn}
  BY <1>1 DEF Typing, PlaceTyping
<1>4. CASE ConnectWake(p)
  BY <1>4, EnterTyping DEF ConnectWake
<1>5. CASE PreludeWake(p)
  <2>1. PICK place \in {"finish", "nap"} : pc' = [pc EXCEPT ![p] = place]
    BY <1>5 DEF PreludeWake
  <2>2. /\ pc' \in [Tasks -> CallPlaces \cup LoopPlaces]
        /\ \A q \in Tasks : pc'[q] = IF q = p THEN place ELSE pc[q]
    BY <1>1, <1>2, <2>1 DEF Typing, PlaceTyping
  <2>3. \A q \in Calls : pc'[q] \in CallPlaces
    BY <1>2, <2>2 DEF Typing, PlaceTyping, Tasks
  <2>4. \A c \in Conns : pc'[c] \in LoopPlaces
    BY <1>1, <2>2 DEF Typing, PlaceTyping, Tasks
  <2>5. JoinsAreReal'
    BY <1>5, <2>2 DEF PreludeWake, Typing, JoinsAreReal
  <2> QED
    BY <1>5, <2>2, <2>3, <2>4, <2>5
       DEF PreludeWake, Typing, PlaceTyping, LinkTyping, link, device
<1>6. CASE DialTimeout(p)
  BY <1>1, <1>2, <1>6, MoveTyping DEF DialTimeout
<1>7. CASE DialTimeoutJoin(p)
  <2>1. on[p] \in Conns
    BY <1>1, <1>7 DEF DialTimeoutJoin, Typing, JoinsAreReal
  <2>2. Goto(p, "dialCancel", on[p])
    BY <1>1, <1>7 DEF DialTimeoutJoin, Goto, Typing, PlaceTyping
  <2>3. PlaceTyping' /\ JoinsAreReal'
    BY <1>1, <1>2, <2>1, <2>2, GotoTyping DEF Typing
  <2> QED
    BY <1>7, <2>1, <2>3 DEF DialTimeoutJoin, Typing, LinkTyping, link, device
<1>8. CASE DialJoined(p)
  <2>1. Goto(p, "raised", NoConn) \/ Goto(p, "finish", NoConn)
    BY <1>8 DEF DialJoined
  <2>2. PlaceTyping' /\ JoinsAreReal'
    BY <1>1, <1>2, <2>1, GotoTyping DEF Typing
  <2>3. /\ client' \in Conns \cup {NoConn}
        /\ readCoro' \in Conns \cup {NoConn}
    BY <1>8 DEF DialJoined, Typing, LinkTyping
  <2> QED
    BY <1>8, <2>2, <2>3 DEF DialJoined, Typing, LinkTyping, device
<1>9. CASE Finish(p)
  <2>1. client' \in Conns \cup {NoConn}
    BY <1>3, <1>9 DEF Finish, Typing, LinkTyping
  <2>2. ConnectReturns(p, on[p], client')
    BY <1>9 DEF Finish
  <2>3. PlaceTyping' /\ JoinsAreReal'
    BY <1>3, <2>1, <2>2, ReturnsCallTyping
  <2> QED
    BY <1>9, <2>1, <2>3 DEF Finish, Typing, LinkTyping, device
<1>10. CASE WriteDone(p)
  BY <1>1, <1>2, <1>10, MoveTyping DEF WriteDone
<1>11. CASE WriteFails(p)
  BY <1>1, <1>11, StartDoDisconnectTyping DEF WriteFails
<1> QED
  BY <1>4, <1>5, <1>6, <1>7, <1>8, <1>9, <1>10, <1>11,
     DialTyping, NapOverTyping, OpenOkTyping, OpenFailsTyping DEF DialStep

LEMMA DisconnectStepTyping ==
  ASSUME Typing, NEW p \in Disconnects, DisconnectStep(p) PROVE Typing'
<1>1. p \in Calls /\ p \in Tasks /\ p \notin Conns
  BY ConstantsAssumption DEF ConstantsAssumption, Tasks, Calls
<1>2. {"returned", "asserted", "yieldDisconnect"} \subseteq CallPlaces
  BY DEF CallPlaces, Returned
<1>3. CASE GoneWake(p)
  BY <1>1, <1>2, <1>3, MoveTyping DEF GoneWake
<1>4. CASE DisconnectWake(p)
  <2>1. PICK place \in {"returned", "asserted", "yieldDisconnect"} :
          Goto(p, place, NoConn)
    BY <1>4 DEF DisconnectWake, ClaimDisconnect
  <2>2. place \in CallPlaces /\ place \notin {"joining", "dialJoin"}
    BY <1>2, <2>1
  <2> QED
    BY <1>1, <1>4, <2>1, <2>2, MoveTyping DEF DisconnectWake
<1>5. CASE BeginDisconnect(p)
  BY <1>1, <1>5, StartDoDisconnectTyping DEF BeginDisconnect
<1> QED
  BY <1>3, <1>4, <1>5 DEF DisconnectStep

LEMMA WatchTyping ==
  ASSUME Typing, NEW w \in Watchers, WatchWake(w) PROVE Typing'
<1>1. w \in Calls /\ w \in Tasks /\ w \notin Conns
  BY ConstantsAssumption DEF ConstantsAssumption, Tasks, Calls
<1>2. PICK place \in {"returned", "watchGone"} : Goto(w, place, NoConn)
  BY DEF WatchWake, EstablishedStep
<1>3. place \in CallPlaces /\ place \notin {"joining", "dialJoin"}
  BY <1>2 DEF CallPlaces, Returned
<1> QED
  BY <1>1, <1>2, <1>3, MoveTyping DEF WatchWake

LEMMA CloseStepTyping ==
  ASSUME Typing, NEW t \in Tasks, CloseStep(t) PROVE Typing'
<1>1. /\ t \in Calls => Done(t) = "returned"
      /\ t \in Conns => Done(t) = "ended"
  BY DoneTyping
<1>2. CASE CloseDone(t)
  <2>1. /\ PlaceTyping' /\ JoinsAreReal'
        /\ client' \in Conns \cup {NoConn}
        /\ readCoro' \in Conns \cup {NoConn}
    BY <1>1, <1>2, JoinTyping DEF CloseDone
  <2> QED
    BY <1>2, <2>1 DEF CloseDone, Typing, LinkTyping, device
<1>3. CASE JoinDone(t)
  <2>1. DisconnectReturns(t, mgr, Done(t)) \/ DisconnectRaises(t, mgr)
    BY <1>3 DEF JoinDone
  <2>2. /\ PlaceTyping' /\ JoinsAreReal'
        /\ client' \in Conns \cup {NoConn}
        /\ readCoro' \in Conns \cup {NoConn}
    BY <1>1, <2>1, ReturnsTyping, RaisesTyping
  <2> QED
    BY <1>3, <2>2 DEF JoinDone, Typing, LinkTyping, device
<1> QED
  BY <1>2, <1>3 DEF CloseStep
LEMMA ParsedTyping ==
  ASSUME Typing, NEW c \in Conns, client \in Conns, Parsed(c)
  PROVE  PlaceTyping' /\ JoinsAreReal' /\ ready' \in BOOLEAN
<1>1. /\ pc' \in [Tasks -> CallPlaces \cup LoopPlaces]
      /\ \A q \in Tasks : \/ pc'[q] = pc[q]
                          \/ pc[q] = "prelude" /\ pc'[q] = "woken"
  BY PreludePlaces DEF Parsed, Typing, PlaceTyping
<1>2. \A q \in Calls : pc'[q] \in CallPlaces
  BY <1>1, PreludePlaces DEF Typing, PlaceTyping, Tasks
<1>3. \A d \in Conns : pc'[d] \in LoopPlaces
  BY <1>1, PreludePlaces DEF Typing, PlaceTyping, Tasks
<1>4. /\ on' \in [Tasks -> Conns \cup {NoConn}]
      /\ \A q \in Tasks : on'[q] = on[q] \/ on'[q] = client
  BY DEF Parsed, Typing, PlaceTyping, LinkTyping
<1>5. JoinsAreReal'
  BY <1>1, <1>4 DEF Typing, JoinsAreReal
<1> QED
  BY <1>1, <1>2, <1>3, <1>4, <1>5 DEF PlaceTyping, Parsed

LEMMA LoopReadsTyping ==
  ASSUME Typing, NEW c \in Conns, LoopReads(c) PROVE Typing'
<1>1. c \in Tasks /\ c \notin Calls
  BY ConstantsAssumption DEF ConstantsAssumption, Tasks
<1>2. Live(client) /\ client \in Conns
  BY DEF LoopReads, Live, Typing, LinkTyping
<1>3. CASE ReadNothing(c)
  <2>1. /\ on' \in [Tasks -> Conns \cup {NoConn}]
        /\ \A q \in Tasks : on'[q] = on[q] \/ on'[q] \in Conns
    BY <1>1, <1>2, <1>3 DEF ReadNothing, Typing, PlaceTyping
  <2>2. PlaceTyping' /\ JoinsAreReal'
    BY <1>3, <2>1 DEF ReadNothing, Typing, PlaceTyping, JoinsAreReal
  <2> QED
    BY <1>3, <2>2 DEF ReadNothing, LoopReads, Typing, LinkTyping, link, device
<1>4. CASE Parsed(c) /\ (ReadPrelude(c) \/ ReadUpdate(c) \/ ReadAck(c))
  <2>1. PlaceTyping' /\ JoinsAreReal' /\ ready' \in BOOLEAN
    BY <1>2, <1>4, ParsedTyping
  <2>2. UNCHANGED <<link, cancelled>>
    BY DEF LoopReads
  <2>3. /\ greeted' \subseteq Conns
        /\ preludeParsed' \in BOOLEAN
        /\ ackOrNak' \in BOOLEAN
    BY <1>2, <1>4 DEF ReadPrelude, ReadUpdate, ReadAck, device, Typing, LinkTyping
  <2> QED
    BY <2>1, <2>2, <2>3 DEF Typing, LinkTyping, link
<1>5. CASE ReadGarbage(c) \/ ReadReset(c)
  <2>1. PICK place \in Finished : Goto(c, place, NoConn)
    BY <1>5 DEF ReadGarbage, ReadReset, Finished
  <2>2. place \in LoopPlaces /\ place \notin {"joining", "dialJoin"}
    BY <2>1 DEF LoopPlaces, Finished
  <2>3. UNCHANGED <<link, ready, cancelled, device>>
    BY <1>5 DEF ReadGarbage, ReadReset, LoopReads
  <2> QED
    BY <1>1, <2>1, <2>2, <2>3, MoveTyping
<1> QED
  BY <1>3, <1>4, <1>5
     DEF LoopReads, Read, ReadPrelude, ReadUpdate, ReadAck

LEMMA LoopTyping ==
  ASSUME Typing, NEW c \in Conns, LoopStep(c) \/ LoopData(c) PROVE Typing'
<1>1. c \in Tasks /\ c \notin Calls
  BY ConstantsAssumption DEF ConstantsAssumption, Tasks
<1>2. {"wait", "ended", "raised"} \subseteq LoopPlaces
  BY DEF LoopPlaces, Finished
<1>3. CASE LoopTop(c)
  BY <1>1, <1>2, <1>3, MoveTyping DEF LoopTop, Typing, LinkTyping
<1>4. CASE LoopStops(c)
  BY <1>1, <1>2, <1>4, MoveTyping DEF LoopStops
<1>5. CASE LoopCatches(c)
  BY <1>1, <1>5, StartDoDisconnectTyping DEF LoopCatches
<1>6. CASE LoopCancelled(c)
  <2>1. CASE \E place \in Finished : Goto(c, place, NoConn) /\ UNCHANGED <<client, cancelled>>
    <3>1. PICK place \in Finished :
            Goto(c, place, NoConn) /\ UNCHANGED <<client, cancelled>>
      BY <2>1
    <3>2. place \in LoopPlaces /\ place \notin {"joining", "dialJoin"}
      BY <3>1 DEF LoopPlaces, Finished
    <3>3. PlaceTyping' /\ JoinsAreReal'
      BY <1>1, <3>1, <3>2, GotoTyping DEF Typing
    <3> QED
      BY <1>6, <3>1, <3>3 DEF LoopCancelled, Typing, LinkTyping, device
  <2>2. CASE client' = NoConn /\ Goto(c, "raised", NoConn) /\ UNCHANGED cancelled
    <3>1. PlaceTyping' /\ JoinsAreReal'
      BY <1>1, <1>2, <2>2, GotoTyping DEF Typing
    <3> QED
      BY <1>6, <2>2, <3>1 DEF LoopCancelled, Typing, LinkTyping, device
  <2>3. CASE /\ pc[c] = "joining"
             /\ cancelled' = cancelled \cup {on[c]}
             /\ UNCHANGED <<client, pc, on>>
    <3>1. on[c] \in Conns
      BY <1>1, <2>3 DEF Typing, JoinsAreReal
    <3> QED
      BY <1>6, <2>3, <3>1
         DEF LoopCancelled, Typing, PlaceTyping, JoinsAreReal, LinkTyping, device
  <2> QED
    BY <1>6, <2>1, <2>2, <2>3 DEF LoopCancelled
<1> QED
  BY <1>3, <1>4, <1>5, <1>6, LoopReadsTyping DEF LoopStep, LoopData, LoopClosed

(* Every step keeps the types.                                             *)
LEMMA TypingStep == Typing /\ [Next]_vars => Typing'
<1> SUFFICES ASSUME Typing, [Next]_vars PROVE Typing'
  OBVIOUS
<1>1. CASE UNCHANGED vars
  BY <1>1 DEF vars, Typing, PlaceTyping, JoinsAreReal, LinkTyping
<1>2. CASE Next
  BY <1>2, StartTyping, DialStepTyping, DisconnectStepTyping, WatchTyping,
     CloseStepTyping, LoopTyping DEF Next
<1> QED
  BY <1>1, <1>2

-----------------------------------------------------------------------------
(* The manager, step by step.                                              *)

(* The locked blocks of do_disconnect's callers, from the manager m they   *)
(* find or have left.                                                      *)
LEMMA DoDisconnectManager ==
  ASSUME NEW t, NEW m, NEW done, NEW joining,
         \/ DisconnectReturns(t, m, done) \/ DisconnectRaises(t, m)
         \/ JoinReadLoop(t, m, done, joining) \/ StartDoDisconnect(t, m)
  PROVE  mgr' = m \/ mgr' = SetState(m, {"not_connected"})
  BY DEF DisconnectReturns, DisconnectRaises, JoinReadLoop, StartDoDisconnect

LEMMA ManagerSteps ==
  ASSUME [Next]_vars PROVE ManagerStep
<1>1. CASE UNCHANGED vars
  BY <1>1 DEF vars, ManagerStep
<1>2. CASE Start
  BY <1>2 DEF Start, StartConnect, StartSend, StartDisconnect, StartWatch,
     EnterConnect, ClaimAttempt, ClaimDisconnect, ManagerStep
<1>3. ASSUME NEW p \in Dialers, DialStep(p) PROVE ManagerStep
  <2>1. CASE ConnectWake(p)
    BY <2>1 DEF ConnectWake, ClaimAttempt, ManagerStep
  <2>2. CASE \/ Dial(p) \/ PreludeWake(p) \/ NapOver(p) \/ OpenOk(p)
             \/ OpenFailed(p) \/ DialTimeout(p) \/ DialTimeoutJoin(p)
             \/ DialJoined(p) \/ WriteDone(p)
    BY <2>2 DEF Dial, PreludeWake, NapOver, OpenOk, OpenFailed, DialTimeout,
       DialTimeoutJoin, DialJoined, WriteDone, ManagerStep
  <2>3. CASE OpenRefused(p)
    <3>1. \/ mgr' = SetFailure(mgr, "reported")
          \/ mgr' = SetState(SetFailure(mgr, "reported"), {"not_connected"})
      BY <2>3, DoDisconnectManager DEF OpenRefused
    <3> QED
      BY <3>1 DEF ManagerStep, Reasons
  <2>4. CASE Finish(p)
    <3>1. CASE on[p] = NoConn /\ "failure" \notin mgr.state
      <4>1. "failure" \in SetFailure(mgr, "unknown").state
        BY DEF SetFailure
      <4>2. mgr' = SetState(SetFailure(mgr, "unknown"), {"not_connected"})
        BY <2>4, <3>1, <4>1 DEF Finish
      <4> QED
        BY <4>2 DEF ManagerStep, Reasons
    <3>2. CASE ~(on[p] = NoConn /\ "failure" \notin mgr.state)
      BY <2>4, <3>2 DEF Finish, ManagerStep
    <3> QED
      BY <3>1, <3>2
  <2>5. CASE WriteFails(p)
    <3>1. \/ mgr' = SetFailure(mgr, "reported")
          \/ mgr' = SetState(SetFailure(mgr, "reported"), {"not_connected"})
      BY <2>5, DoDisconnectManager DEF WriteFails
    <3> QED
      BY <3>1 DEF ManagerStep, Reasons
  <2> QED
    BY <1>3, <2>1, <2>2, <2>3, <2>4, <2>5 DEF DialStep
<1>4. ASSUME NEW p \in Disconnects, DisconnectStep(p) PROVE ManagerStep
  <2>1. CASE BeginDisconnect(p)
    BY <2>1, DoDisconnectManager DEF BeginDisconnect, ManagerStep
  <2> QED
    BY <1>4, <2>1 DEF DisconnectStep, GoneWake, DisconnectWake, ClaimDisconnect,
       ManagerStep
<1>5. ASSUME NEW w \in Watchers, WatchWake(w) PROVE ManagerStep
  BY <1>5 DEF WatchWake, ManagerStep
<1>6. ASSUME NEW t \in Tasks, CloseStep(t) PROVE ManagerStep
  BY <1>6, DoDisconnectManager DEF CloseStep, CloseDone, JoinDone, ManagerStep
<1>7. ASSUME NEW c \in Conns, LoopStep(c) \/ LoopData(c) PROVE ManagerStep
  <2>1. CASE LoopCatches(c)
    <3>1. \/ mgr' = SetFailure(mgr, "reported")
          \/ mgr' = SetState(SetFailure(mgr, "reported"), {"not_connected"})
      BY <2>1, DoDisconnectManager DEF LoopCatches
    <3> QED
      BY <3>1 DEF ManagerStep, Reasons
  <2>2. CASE LoopTop(c) \/ LoopReads(c) \/ LoopStops(c) \/ LoopCancelled(c)
    BY <2>2 DEF LoopTop, LoopReads, LoopStops, LoopCancelled, ManagerStep
  <2> QED
    BY <1>7, <2>1, <2>2 DEF LoopStep, LoopData, LoopClosed
<1> QED
  BY <1>1, <1>2, <1>3, <1>4, <1>5, <1>6, <1>7 DEF Next
-----------------------------------------------------------------------------
(* Assertions.                                                             *)

(* Only the two claims can end in a failed assertion.                      *)
LEMMA OnlyClaimsAssert ==
  ASSUME Typing, [Next]_vars, NEW q \in Calls, pc[q] # "asserted", pc'[q] = "asserted"
  PROVE  \/ /\ q \in Dialers
            /\ ~IsConnected(mgr.state) /\ "not_connected" \notin mgr.state
            /\ \/ mgr.state \cap Waiting = {}
               \/ WaitPredicate(Settled, mgr.state)
         \/ /\ q \in Disconnects
            /\ ~IsConnected(mgr.state)
            /\ \/ mgr.state \cap {"not_connected", "disconnecting", "connecting"} = {}
               \/ /\ WaitPredicate(Settled, mgr.state)
                  /\ WaitResult(Settled, mgr.state) # Gone
<1> USE DEF Typing, PlaceTyping
<1>0. q \in Tasks /\ q \notin Conns
  BY ConstantsAssumption DEF ConstantsAssumption, Tasks
<1>1. pc' # pc
  OBVIOUS
<1>2. ASSUME NEW t, NEW place, NEW c, Goto(t, place, c)
      PROVE  t = q /\ place = "asserted"
  <2>1. pc' = [pc EXCEPT ![t] = place]
    BY <1>2 DEF Goto
  <2> QED
    BY <1>0, <2>1
<1>3. ASSUME NEW t, NEW m, NEW done, NEW joining,
             done # "asserted", joining # "asserted",
             \/ DisconnectReturns(t, m, done) \/ DisconnectRaises(t, m)
             \/ JoinReadLoop(t, m, done, joining)
      PROVE  FALSE
  BY <1>2, <1>3 DEF DisconnectReturns, DisconnectRaises, JoinReadLoop
<1>4. ASSUME NEW t, NEW m, StartDoDisconnect(t, m) PROVE FALSE
  BY <1>2, <1>3, <1>4 DEF StartDoDisconnect, Done
<1>5. ASSUME NEW p, NEW r, NEW c, ConnectReturns(p, r, c) PROVE FALSE
  BY <1>2, <1>5 DEF ConnectReturns
<1>6. ASSUME NEW p, NEW c, NEW others, NEW parsed,
             AwaitResponse(p, c, others, parsed),
             others \in [Tasks -> CallPlaces \cup LoopPlaces], others[q] # "asserted"
      PROVE  FALSE
  <2>1. PICK place : pc' = [others EXCEPT ![p] = place] /\ place # "asserted"
    BY <1>6 DEF AwaitResponse
  <2> QED
    BY <1>0, <1>6, <2>1
<1>7. ASSUME NEW p \in Dialers, ClaimAttempt(p)
      PROVE  /\ q = p
             /\ ~IsConnected(mgr.state) /\ "not_connected" \notin mgr.state
  BY <1>2, <1>5, <1>7 DEF ClaimAttempt
<1>8. ASSUME NEW p, ClaimDisconnect(p)
      PROVE  q = p /\ ~IsConnected(mgr.state)
  BY <1>2, <1>8 DEF ClaimDisconnect
<1>9. CASE Start
  <2>1. ASSUME NEW p \in Dialers, EnterConnect(p)
        PROVE  /\ q = p /\ q \in Dialers
               /\ ~IsConnected(mgr.state) /\ "not_connected" \notin mgr.state
               /\ mgr.state \cap Waiting = {}
    BY <1>2, <1>7, <2>1 DEF EnterConnect
  <2>2. ASSUME NEW p \in Connects, StartConnect(p)
        PROVE  /\ q \in Dialers
               /\ ~IsConnected(mgr.state) /\ "not_connected" \notin mgr.state
               /\ mgr.state \cap Waiting = {}
    BY <2>1, <2>2 DEF StartConnect, Dialers
  <2>3. ASSUME NEW p \in Sends, StartSend(p)
        PROVE  /\ q \in Dialers
               /\ ~IsConnected(mgr.state) /\ "not_connected" \notin mgr.state
               /\ mgr.state \cap Waiting = {}
    BY <1>2, <1>5, <2>1, <2>3 DEF StartSend, Dialers
  <2>4. ASSUME NEW p \in Disconnects, StartDisconnect(p)
        PROVE  /\ q \in Disconnects
               /\ ~IsConnected(mgr.state)
               /\ mgr.state \cap {"not_connected", "disconnecting", "connecting"} = {}
    BY <1>2, <1>8, <2>4 DEF StartDisconnect
  <2>5. ASSUME NEW w \in Watchers, StartWatch(w) PROVE FALSE
    BY <1>2, <2>5 DEF StartWatch, EstablishedStep
  <2> QED
    BY <1>9, <2>2, <2>3, <2>4, <2>5 DEF Start
<1>10. ASSUME NEW p \in Dialers, DialStep(p)
       PROVE  /\ q \in Dialers
              /\ ~IsConnected(mgr.state) /\ "not_connected" \notin mgr.state
              /\ WaitPredicate(Settled, mgr.state)
  <2>1. CASE ConnectWake(p)
    BY <1>7, <2>1 DEF ConnectWake
  <2>2. CASE Dial(p)
    BY <1>0, <2>2 DEF Dial
  <2>3. CASE PreludeWake(p)
    <3>1. PICK place : pc' = [pc EXCEPT ![p] = place] /\ place # "asserted"
      BY <2>3 DEF PreludeWake
    <3> QED
      BY <1>0, <3>1
  <2>4. CASE NapOver(p)
    BY <1>2, <1>6, <2>4 DEF NapOver
  <2>5. CASE OpenOk(p)
    <3>1. PICK c \in Conns : AwaitResponse(p, c, [pc EXCEPT ![c] = "start"], FALSE)
      BY <2>5 DEF OpenOk
    <3>2. /\ [pc EXCEPT ![c] = "start"] \in [Tasks -> CallPlaces \cup LoopPlaces]
          /\ [pc EXCEPT ![c] = "start"][q] # "asserted"
      BY <1>0 DEF LoopPlaces
    <3> QED
      BY <1>6, <3>1, <3>2
  <2>6. CASE OpenRefused(p)
    <3>1. PICK m : \/ DisconnectReturns(p, m, "finish") \/ DisconnectRaises(p, m)
                   \/ Goto(p, "dialJoin", readCoro)
      BY <2>6 DEF OpenRefused
    <3>2. ~DisconnectReturns(p, m, "finish") /\ ~DisconnectRaises(p, m)
      BY <1>2 DEF DisconnectReturns, DisconnectRaises
    <3> QED
      BY <1>2, <3>1, <3>2
  <2>7. CASE DialTimeoutJoin(p)
    BY <1>0, <2>7 DEF DialTimeoutJoin
  <2>8. CASE OpenFailed(p) \/ DialTimeout(p) \/ DialJoined(p) \/ WriteDone(p)
    BY <1>2, <2>8 DEF OpenFailed, DialTimeout, DialJoined, WriteDone
  <2>9. CASE Finish(p)
    BY <1>5, <2>9 DEF Finish
  <2>10. CASE WriteFails(p)
    BY <1>4, <2>10 DEF WriteFails
  <2> QED
    BY <1>10, <2>1, <2>2, <2>3, <2>4, <2>5, <2>6, <2>7, <2>8, <2>9, <2>10
       DEF DialStep
<1>11. ASSUME NEW p \in Disconnects, DisconnectStep(p)
       PROVE  /\ q \in Disconnects
              /\ ~IsConnected(mgr.state)
              /\ WaitPredicate(Settled, mgr.state)
              /\ WaitResult(Settled, mgr.state) # Gone
  <2>1. CASE GoneWake(p) \/ BeginDisconnect(p)
    BY <1>2, <1>4, <2>1 DEF GoneWake, BeginDisconnect
  <2>2. CASE DisconnectWake(p)
    BY <1>2, <1>8, <2>2 DEF DisconnectWake
  <2> QED
    BY <1>11, <2>1, <2>2 DEF DisconnectStep
<1>12. ASSUME NEW w \in Watchers, WatchWake(w) PROVE FALSE
  BY <1>2, <1>12 DEF WatchWake, EstablishedStep
<1>13. ASSUME NEW t \in Tasks, CloseStep(t) PROVE FALSE
  BY <1>3, <1>13 DEF CloseStep, CloseDone, JoinDone, Done
<1>14. ASSUME NEW c \in Conns, LoopStep(c) \/ LoopData(c) PROVE FALSE
  <2>1. CASE LoopTop(c) \/ LoopStops(c) \/ LoopCancelled(c)
    BY <1>1, <1>2, <2>1 DEF LoopTop, LoopStops, LoopCancelled, Finished
  <2>2. CASE LoopReads(c)
    <3>1. ~Parsed(c)
      BY <1>0 DEF Parsed
    <3> QED
      BY <1>1, <1>2, <2>2, <3>1 DEF LoopReads, Read, ReadNothing, ReadPrelude,
         ReadUpdate, ReadAck, ReadGarbage, ReadReset
  <2>3. CASE LoopCatches(c)
    BY <1>4, <2>3 DEF LoopCatches
  <2> QED
    BY <1>14, <2>1, <2>2, <2>3 DEF LoopStep, LoopData, LoopClosed
<1> QED
  BY <1>1, <1>9, <1>10, <1>11, <1>12, <1>13, <1>14 DEF Next, vars
-----------------------------------------------------------------------------
(* The theorems.                                                           *)

(* What a step may do to a well formed manager.                            *)
LEMMA ManagerStepWellFormed ==
  ASSUME mgr \in Managers, WellFormed(mgr), ManagerStep
  PROVE  mgr' \in Managers /\ WellFormed(mgr')
<1>1. CASE mgr' = mgr
  BY <1>1
<1>2. CASE \E s \in {{"not_connected"}, {"connecting"}, {"disconnecting"},
                     {"connected"}} : mgr' = SetState(mgr, s)
  BY <1>2, SetStateWellFormed
<1>3. CASE \E why \in Reasons :
             \/ mgr' = SetFailure(mgr, why)
             \/ mgr' = SetState(SetFailure(mgr, why), {"not_connected"})
  BY <1>3, SetFailureWellFormed, SetStateWellFormed
<1> QED
  BY <1>1, <1>2, <1>3 DEF ManagerStep

LEMMA InvInit == Init => Inv
<1> SUFFICES ASSUME Init PROVE Inv
  OBVIOUS
<1>1. mgr \in Managers /\ ManagerWellFormed
  BY DEF Init, InitManager, Managers, ManagerWellFormed, WellFormed, ValidStates,
     NoReason, Reasons, Flags
<1>2. \A t \in Tasks : pc[t] = IF t \in Conns THEN "none" ELSE "idle"
  BY DEF Init
<1>3. {"none"} \subseteq LoopPlaces /\ {"idle"} \subseteq CallPlaces
  BY DEF LoopPlaces, CallPlaces
<1>4. PlaceTyping
  BY <1>2, <1>3, ConstantsAssumption
     DEF Init, PlaceTyping, ConstantsAssumption, Tasks
<1>5. LinkTyping /\ JoinsAreReal
  BY <1>2 DEF Init, LinkTyping, JoinsAreReal
<1>6. AssertionsHold
  BY <1>2 DEF AssertionsHold, Tasks
<1> QED
  BY <1>1, <1>4, <1>5, <1>6, TypeOKParts DEF Inv

LEMMA InvStep == Inv /\ [Next]_vars => Inv'
<1> SUFFICES ASSUME Inv, [Next]_vars PROVE Inv'
  OBVIOUS
<1>1. Typing /\ mgr \in Managers /\ WellFormed(mgr) /\ mgr.state \in ValidStates
  BY TypeOKParts DEF Inv, Typing, ManagerWellFormed, WellFormed
<1>2. Typing'
  BY <1>1, TypingStep
<1>3. mgr' \in Managers /\ ManagerWellFormed'
  BY <1>1, ManagerSteps, ManagerStepWellFormed DEF ManagerWellFormed
<1>4. TypeOK'
  BY <1>2, <1>3 DEF TypeOK, Typing, PlaceTyping, LinkTyping
<1>5. AssertionsHold'
  <2> SUFFICES ASSUME NEW q \in Calls, pc'[q] = "asserted" PROVE FALSE
    BY DEF AssertionsHold
  <2>1. pc[q] # "asserted"
    BY DEF Inv, AssertionsHold
  <2>2. \/ mgr.state \cap Waiting = {} \/ WaitPredicate(Settled, mgr.state)
        => IsConnected(mgr.state) \/ "not_connected" \in mgr.state
    BY <1>1, SettledAnswer, SettledWithoutWaiting
  <2>3. \/ mgr.state \cap {"not_connected", "disconnecting", "connecting"} = {}
        \/ /\ WaitPredicate(Settled, mgr.state)
           /\ WaitResult(Settled, mgr.state) # Gone
        => IsConnected(mgr.state)
    BY <1>1, SettledAnswer, ConnectedOtherwise
  <2> QED
    BY <1>1, <2>1, <2>2, <2>3, OnlyClaimsAssert
<1> QED
  BY <1>2, <1>3, <1>4, <1>5 DEF Inv, Typing

(* The inductive invariant holds in every reachable state.                 *)
THEOREM Invariance == Spec => []Inv
<1> QED
  BY InvInit, InvStep, PTL DEF Spec

(* Every variable of a backend and its calls keeps its type.               *)
THEOREM TypeCorrect == Spec => []TypeOK
<1>1. Inv => TypeOK
  BY DEF Inv
<1> QED
  BY <1>1, Invariance, PTL

(* BackendBase.connect, disconnect and _catch_exception never leave the    *)
(* manager in a combination of flags no reader of it expects, nor a reason *)
(* without a failure or a failure without one.                             *)
THEOREM ManagerStaysWellFormed == Spec => []ManagerWellFormed
<1>1. Inv => ManagerWellFormed
  BY DEF Inv
<1> QED
  BY <1>1, Invariance, PTL

(* The assertions of BackendBase.connect and disconnect hold whatever      *)
(* happened while the call waited for another one.                         *)
THEOREM AssertionsNeverFail == Spec => []AssertionsHold
<1>1. Inv => AssertionsHold
  BY DEF Inv
<1> QED
  BY <1>1, Invariance, PTL

(* A failed backend stays failed until connect() starts a new attempt.     *)
THEOREM FailureIsSticky == Spec => FailureSticks
<1>1. Inv /\ [Next]_vars
        => ("failure" \in mgr.state /\ "failure" \notin mgr'.state
              => mgr'.state = {"connecting"})
  <2> SUFFICES ASSUME Inv, [Next]_vars,
                      "failure" \in mgr.state, "failure" \notin mgr'.state
               PROVE  mgr'.state = {"connecting"}
    OBVIOUS
  <2>1. mgr \in Managers
    BY DEF Inv, TypeOK
  <2>2. ASSUME NEW s \in {{"not_connected"}, {"disconnecting"}},
               mgr' = SetState(mgr, s)
        PROVE  FALSE
    <3>1. s \in SUBSET Flags /\ s \cap {"connecting", "connected"} = {}
      BY DEF Flags
    <3>2. mgr'.state = s \cup {"failure"}
      BY <2>1, <2>2, <3>1, SetStateFailed
    <3> QED
      BY <3>2
  <2>3. ASSUME mgr' = SetState(mgr, {"connecting"})
        PROVE  mgr'.state = {"connecting"}
    <3>1. /\ {"connecting"} \in SUBSET Flags
          /\ {"connecting"} \cap {"connecting", "connected"} # {}
      BY DEF Flags
    <3>2. mgr' = [state |-> {"connecting"} \ {"failure"}, reason |-> NoReason]
      BY <2>1, <2>3, <3>1, SetStateFailed
    <3> QED
      BY <3>2
  <2>4. ASSUME NEW why \in Reasons,
               \/ mgr' = SetFailure(mgr, why)
               \/ mgr' = SetState(SetFailure(mgr, why), {"not_connected"})
        PROVE  FALSE
    <3> DEFINE m == SetFailure(mgr, why)
    <3>1. m \in Managers /\ m.state = {"disconnecting", "failure"}
      BY SetFailureWellFormed
    <3>2. CASE mgr' = m
      BY <3>1, <3>2
    <3> HIDE DEF m
    <3>3. CASE mgr' = SetState(m, {"not_connected"})
      <4>1. /\ {"not_connected"} \in SUBSET Flags
            /\ {"not_connected"} \cap {"connecting", "connected"} = {}
        BY DEF Flags
      <4>2. SetState(m, {"not_connected"}).state = {"not_connected"} \cup {"failure"}
        BY <3>1, <4>1, SetStateFailed
      <4> QED
        BY <3>3, <4>2
    <3> QED
      BY <2>4, <3>2, <3>3 DEF m
  <2> QED
    BY <2>2, <2>3, <2>4, ManagerSteps DEF ManagerStep
<1>2. Inv /\ [Next]_vars
        => [("failure" \in mgr.state /\ "failure" \notin mgr'.state)
              => mgr'.state = {"connecting"}]_vars
  BY <1>1
<1> QED
  BY <1>2, Invariance, PTL DEF Spec, FailureSticks

-----------------------------------------------------------------------------
(***************************************************************************)
(* When calls keep their turns at connecting: they do not overlap, or no   *)
(* attempt is refused.                                                     *)
(*                                                                         *)
(* Then the state follows BackendLifecycle step by step, and there is one  *)
(* link, about which the state tells the truth.  Two invariants, the       *)
(* second on top of the first.  Turns: one dialer at most is between the   *)
(* start of its attempt and its end, one disconnect() between its claim    *)
(* and its end, never both, and the state says which.  Link: what client,  *)
(* socket and read loop are at each place of the task whose turn it is;    *)
(* everybody else leaves them alone.                                       *)
(***************************************************************************)

(* What the environment and the callers have to be like.  A refused        *)
(* attempt gives the state free before connect() has come to its end, and  *)
(* a call that waits beside it starts the next one in between: so calls    *)
(* may overlap only if none is refused.                                    *)
TurnsAreKept == Overlap = FALSE \/ "refused" \notin Faults
FailsSilently == "unreachable" \notin Faults
IsPrompt == FailsSilently /\ "timeout" \notin Faults /\ "garbage" \notin Faults

(* Who attempts, who leaves, and whose turn it is with the link.           *)
Attempts(t) == t \in Dialers /\ pc[t] \in Connecting \cup {"connectWait"}
Leaves(t) == pc[t] \in {"yieldDisconnect", "closing", "joining"}
Busy(t) == Leaves(t) \/ (t \in Dialers /\ pc[t] \in Connecting)

(* What the state is during a task's turn.                                 *)
TurnState(t) ==
  /\ Leaves(t) => t \in Disconnects /\ mgr.state = {"disconnecting"}
  /\ t \in Dialers =>
       /\ pc[t] \in Opening \cup {"yield"} => mgr.state = {"connecting"}
       /\ pc[t] \in {"dialJoin", "dialCancel"} =>
            "refused" \in Faults /\ mgr.state = {"disconnecting", "failure"}
       /\ pc[t] = "finish" =>
            \/ mgr.state = {"connecting"}
            \/ "refused" \in Faults /\ mgr.state = {"not_connected", "failure"}

Turns ==
  /\ Overlap = FALSE => \A t, u \in Tasks : Attempts(t) /\ Attempts(u) => t = u
  /\ \A t, u \in Tasks : Busy(t) /\ Busy(u) => t = u
  /\ \A t \in Tasks : TurnState(t)

(* The first invariant: types and states, and whose turn it is.            *)
TurnsInv == Inv /\ Turns

(* The client and its loop, if there is one.                               *)
Usable == client \in opened /\ readEnabled

(* What the link is during a task's turn.                                  *)
TurnLink(t) ==
  /\ t \in Dialers =>
       /\ pc[t] \notin {"stranded", "dialJoin", "dialCancel"}
       /\ pc[t] \in {"yield", "open"} => client = NoConn
       /\ pc[t] \in {"prelude", "woken", "nap"} => on[t] = client /\ Usable
       /\ pc[t] = "finish" =>
            \/ on[t] = NoConn /\ client = NoConn
            \/ on[t] = client /\ Usable /\ mgr.state = {"connecting"}
  /\ pc[t] = "yieldDisconnect" => client \in opened
  /\ pc[t] = "closing" => on[t] = client /\ client \in opened
  /\ pc[t] = "joining" => on[t] = client /\ client # NoConn /\ opened = {}

Link ==
  /\ cancelled = {}
  /\ readCoro = client
  /\ opened \subseteq {client}
  /\ \A l \in Conns : \/ pc[l] \in {"none", "ended"}
                      \/ l = client /\ pc[l] \in {"start", "wait"}
  /\ "not_connected" \in mgr.state => client = NoConn
  /\ IsConnected(mgr.state) => Usable
  /\ \A t \in Tasks : TurnLink(t)

(* How a task may move when another one acts.                              *)
Drifts(u) ==
  \/ pc'[u] = pc[u]
  \/ pc[u] = "prelude" /\ pc'[u] \in {"woken", "stranded"}
  \/ u \in Conns /\ pc'[u] = "start"

(* A step as BackendLifecycle sees it.                                     *)
LifecycleStep == mgr'.state = mgr.state \/ Lifecycle!Next

-----------------------------------------------------------------------------
(* Tasks, places and states.                                               *)

(* Tasks are of one kind.                                                  *)
LEMMA Kinds ==
  /\ \A p \in Dialers : /\ p \in Tasks /\ p \in Calls /\ p \notin Conns
                        /\ p \notin Disconnects /\ p \notin Watchers
  /\ \A p \in Disconnects : /\ p \in Tasks /\ p \in Calls /\ p \notin Conns
                            /\ p \notin Dialers /\ p \notin Watchers
  /\ \A p \in Watchers : /\ p \in Tasks /\ p \in Calls /\ p \notin Conns
                         /\ p \notin Dialers /\ p \notin Disconnects
  /\ \A c \in Conns : /\ c \in Tasks /\ c \notin Calls /\ c \notin Dialers
                      /\ c \notin Disconnects /\ c \notin Watchers
  BY ConstantsAssumption DEF ConstantsAssumption, Tasks, Calls

(* What the locked blocks make of the states they find.                    *)
LEMMA StatesAre ==
  ASSUME mgr \in Managers, WellFormed(mgr)
  PROVE  /\ mgr.state \in ValidStates
         /\ "not_connected" \in mgr.state =>
              /\ mgr.state \in {{"not_connected"}, {"not_connected", "failure"}}
              /\ SetState(mgr, {"connecting"}).state = {"connecting"}
         /\ mgr.state = {"connecting"} =>
              SetState(mgr, {"connected"}).state = {"connected"}
         /\ mgr.state = {"connected"} =>
              SetState(mgr, {"disconnecting"}).state = {"disconnecting"}
         /\ mgr.state = {"disconnecting"} =>
              SetState(mgr, {"not_connected"}).state = {"not_connected"}
         /\ "failure" \in mgr.state =>
              SetState(mgr, {"not_connected"}).state = {"not_connected", "failure"}
         /\ \A why \in Reasons :
              /\ SetFailure(mgr, why).state = {"disconnecting", "failure"}
              /\ SetState(SetFailure(mgr, why), {"not_connected"}).state
                   = {"not_connected", "failure"}
<1>1. mgr.state \in ValidStates
  BY DEF WellFormed
<1>2. \A f \in Flags : {f} \in SUBSET Flags
  OBVIOUS
<1>3. {"connecting", "connected", "disconnecting", "not_connected"} \subseteq Flags
  BY DEF Flags
<1>4. \A f \in Flags : "failure" \notin mgr.state => SetState(mgr, {f}).state = {f}
  BY <1>2, SetStateHealthy
<1>5. "failure" \in mgr.state =>
        /\ SetState(mgr, {"connecting"}).state = {"connecting"}
        /\ SetState(mgr, {"not_connected"}).state = {"not_connected", "failure"}
  <2> SUFFICES ASSUME "failure" \in mgr.state
               PROVE  /\ SetState(mgr, {"connecting"}).state = {"connecting"}
                      /\ SetState(mgr, {"not_connected"}).state = {"not_connected", "failure"}
    OBVIOUS
  <2>1. SetState(mgr, {"connecting"})
          = [state |-> {"connecting"} \ {"failure"}, reason |-> NoReason]
    BY <1>2, <1>3, SetStateFailed
  <2>2. SetState(mgr, {"not_connected"}).state = {"not_connected"} \cup {"failure"}
    BY <1>2, <1>3, SetStateFailed
  <2> QED
    BY <2>1, <2>2
<1>6. ASSUME NEW why \in Reasons
      PROVE  /\ SetFailure(mgr, why).state = {"disconnecting", "failure"}
             /\ SetState(SetFailure(mgr, why), {"not_connected"}).state
                  = {"not_connected", "failure"}
  <2> DEFINE m == SetFailure(mgr, why)
  <2>1. m \in Managers /\ m.state = {"disconnecting", "failure"}
    BY SetFailureWellFormed
  <2> HIDE DEF m
  <2>2. SetState(m, {"not_connected"}).state = {"not_connected"} \cup {"failure"}
    BY <1>2, <1>3, <2>1, SetStateFailed
  <2> QED
    BY <2>1, <2>2 DEF m
<1>7. "not_connected" \in mgr.state
        => mgr.state \in {{"not_connected"}, {"not_connected", "failure"}}
  BY <1>1 DEF ValidStates
<1>8. "not_connected" \in mgr.state => SetState(mgr, {"connecting"}).state = {"connecting"}
  BY <1>3, <1>4, <1>5
<1>9. /\ mgr.state = {"connecting"} => "failure" \notin mgr.state
      /\ mgr.state = {"connected"} => "failure" \notin mgr.state
      /\ mgr.state = {"disconnecting"} => "failure" \notin mgr.state
  OBVIOUS
<1> QED
  BY <1>1, <1>3, <1>4, <1>5, <1>6, <1>7, <1>8, <1>9

-----------------------------------------------------------------------------
(* Turns: what keeps them.                                                 *)

(* Tasks that drift neither take nor lose a turn.                          *)
LEMMA DriftingIsIdle ==
  ASSUME NEW u \in Tasks, Drifts(u)
  PROVE  /\ Attempts(u)' => Attempts(u)
         /\ Busy(u)' => Busy(u)
         /\ (~Busy(u) \/ mgr'.state = mgr.state) /\ TurnState(u) => TurnState(u)'
<1>1. u \in Conns => u \notin Dialers
  BY Kinds
<1>2. CASE pc'[u] = pc[u]
  BY <1>2 DEF Attempts, Busy, Leaves, TurnState, Connecting, Dialing, Opening
<1>3. CASE pc[u] = "prelude" /\ pc'[u] \in {"woken", "stranded"}
  BY <1>3 DEF Attempts, Busy, Leaves, TurnState, Connecting, Dialing, Opening
<1>4. CASE u \in Conns /\ pc'[u] = "start"
  BY <1>1, <1>4 DEF Attempts, Busy, Leaves, TurnState
<1> QED
  BY <1>2, <1>3, <1>4 DEF Drifts

(* A step of t keeps the turns if t takes one only when nobody has it.     *)
LEMMA TurnsKept ==
  ASSUME Turns, NEW t \in Tasks,
         \A u \in Tasks : u # t => Drifts(u),
         Overlap = FALSE /\ Attempts(t)' => \A u \in Tasks : Attempts(u) => u = t,
         Busy(t)' \/ mgr'.state # mgr.state => \A u \in Tasks : Busy(u) => u = t,
         TurnState(t)'
  PROVE  Turns'
<1>1. \A u \in Tasks : u # t => /\ Attempts(u)' => Attempts(u)
                                /\ Busy(u)' => Busy(u)
                                /\ TurnState(u)'
  BY DriftingIsIdle DEF Turns
<1>2. Overlap = FALSE => \A u, v \in Tasks : Attempts(u)' /\ Attempts(v)' => u = v
  BY <1>1 DEF Turns
<1>3. \A u, v \in Tasks : Busy(u)' /\ Busy(v)' => u = v
  BY <1>1 DEF Turns
<1>4. \A u \in Tasks : TurnState(u)'
  BY <1>1
<1> QED
  BY <1>2, <1>3, <1>4 DEF Turns

(* The task whose turn it is goes on.                                      *)
LEMMA TurnsOfHolder ==
  ASSUME Turns, NEW t \in Tasks, Busy(t),
         \A u \in Tasks : u # t => Drifts(u),
         Attempts(t)' => Attempts(t), TurnState(t)'
  PROVE  Turns'
<1>1. \A u \in Tasks : Busy(u) => u = t
  BY DEF Turns
<1>2. Overlap = FALSE /\ Attempts(t)' => \A u \in Tasks : Attempts(u) => u = t
  BY DEF Turns
<1> QED
  BY <1>1, <1>2, TurnsKept

(* Another task moves to where it is not its turn.                         *)
LEMMA TurnsOfOthers ==
  ASSUME Turns, NEW t \in Tasks, mgr'.state = mgr.state,
         \A u \in Tasks : u # t => Drifts(u),
         ~Attempts(t)', ~Busy(t)'
  PROVE  Turns'
<1>1. TurnState(t)'
  BY DEF TurnState, Busy, Connecting, Dialing
<1> QED
  BY <1>1, TurnsKept

(* A task that moves alone.                                                *)
LEMMA AloneDrifts ==
  ASSUME PlaceTyping, NEW t \in Tasks, NEW place, pc' = [pc EXCEPT ![t] = place]
  PROVE  pc'[t] = place /\ \A u \in Tasks : u # t => pc'[u] = pc[u] /\ Drifts(u)
  BY DEF PlaceTyping, Drifts

(* Moves to places where no turn is needed.                                *)
LEMMA TurnsOfIdle ==
  ASSUME Turns, PlaceTyping, NEW t \in Tasks, mgr'.state = mgr.state,
         NEW place, pc' = [pc EXCEPT ![t] = place],
         place \notin {"yieldDisconnect", "closing", "joining"},
         t \in Dialers => place \notin Connecting \cup {"connectWait"}
  PROVE  Turns'
<1>1. pc'[t] = place /\ \A u \in Tasks : u # t => Drifts(u)
  BY AloneDrifts
<1>2. ~Attempts(t)' /\ ~Busy(t)'
  BY <1>1 DEF Attempts, Busy, Leaves
<1> QED
  BY <1>1, <1>2, TurnsOfOthers
-----------------------------------------------------------------------------
(* Turns and the life cycle, step by step.                                 *)

(* What the invariant gives each of the lemmas below.                      *)
LEMMA TurnsFacts ==
  ASSUME TurnsInv
  PROVE  Turns /\ Typing /\ PlaceTyping /\ mgr \in Managers /\ WellFormed(mgr)
  BY TypeOKParts DEF TurnsInv, Inv, Typing, ManagerWellFormed

(* connect() returns or goes on: no turn is taken.                         *)
LEMMA ReturnsTurns ==
  ASSUME TurnsInv, NEW p \in Dialers, NEW r, NEW c, ConnectReturns(p, r, c),
         mgr'.state = mgr.state
  PROVE  Turns'
<1>1. PICK place \in {"returned", "write"} : pc' = [pc EXCEPT ![p] = place]
  BY DEF ConnectReturns, Goto
<1>2. place \notin {"yieldDisconnect", "closing", "joining"}
      /\ place \notin Connecting \cup {"connectWait"}
  BY <1>1 DEF Connecting, Dialing, Opening
<1> QED
  BY <1>1, <1>2, TurnsFacts, Kinds, TurnsOfIdle

(* An attempt is claimed when nobody has a turn: whoever has one while the *)
(* state is not_connected was refused.                                     *)
LEMMA ClaimTurns ==
  ASSUME TurnsInv, TurnsAreKept, NEW p \in Dialers, ClaimAttempt(p),
         pc[p] \in {"idle", "connectWait"},
         Overlap = FALSE => \A u \in Tasks : Attempts(u) => u = p
  PROVE  Turns' /\ LifecycleStep
<1>1. CASE IsConnected(mgr.state)
  BY <1>1, ReturnsTurns DEF ClaimAttempt, LifecycleStep
<1>2. CASE Goto(p, "asserted", NoConn) /\ UNCHANGED mgr
  <2>1. "asserted" \notin Connecting \cup {"connectWait"}
    BY DEF Connecting, Dialing, Opening
  <2> QED
    BY <1>2, <2>1, TurnsFacts, Kinds, TurnsOfIdle DEF Goto, LifecycleStep
<1>3. CASE /\ "not_connected" \in mgr.state
           /\ mgr' = SetState(mgr, {"connecting"}) /\ Goto(p, "yield", NoConn)
  <2>1. /\ mgr.state \in {{"not_connected"}, {"not_connected", "failure"}}
        /\ mgr'.state = {"connecting"}
    BY <1>3, TurnsFacts, StatesAre
  <2>2. pc'[p] = "yield" /\ \A u \in Tasks : u # p => Drifts(u)
    BY <1>3, TurnsFacts, Kinds, AloneDrifts DEF Goto
  <2>3. TurnState(p)'
    BY <2>1, <2>2 DEF TurnState, Leaves, Opening
  <2>4. ASSUME NEW u \in Tasks, Busy(u) PROVE u = p
    <3>1. TurnState(u)
      BY TurnsFacts DEF Turns
    <3>2. CASE Overlap = FALSE
      BY <2>1, <2>4, <3>1, <3>2 DEF TurnState, Busy, Attempts
    <3>3. CASE "refused" \notin Faults
      BY <2>1, <2>4, <3>1, <3>3 DEF TurnState, Busy, Connecting, Dialing
    <3> QED
      BY <3>2, <3>3 DEF TurnsAreKept
  <2>5. Turns'
    BY <2>2, <2>3, <2>4, TurnsFacts, Kinds, TurnsKept
  <2>6. Lifecycle!Attempt
    BY <2>1 DEF Lifecycle!Attempt, Lifecycle!Down
  <2> QED
    BY <2>5, <2>6 DEF LifecycleStep, Lifecycle!Next
<1> QED
  BY <1>1, <1>2, <1>3 DEF ClaimAttempt

(* connect() starts, waiting for another one to end or not.                *)
LEMMA EnterTurns ==
  ASSUME TurnsInv, TurnsAreKept, NEW p \in Dialers, pc[p] = "idle", MayConnect,
         EnterConnect(p)
  PROVE  Turns' /\ LifecycleStep
<1>1. Overlap = FALSE => \A u \in Tasks : ~Attempts(u)
  BY DEF MayConnect, Attempts
<1>2. CASE ClaimAttempt(p)
  BY <1>1, <1>2, ClaimTurns
<1>3. CASE Goto(p, "connectWait", NoConn) /\ UNCHANGED mgr
  <2>1. pc'[p] = "connectWait" /\ \A u \in Tasks : u # p => Drifts(u)
    BY <1>3, TurnsFacts, Kinds, AloneDrifts DEF Goto
  <2>2. ~Busy(p)' /\ TurnState(p)'
    BY <2>1 DEF Busy, Leaves, TurnState, Connecting, Dialing, Opening
  <2>3. Turns'
    BY <1>1, <1>3, <2>1, <2>2, TurnsFacts, Kinds, TurnsKept
  <2> QED
    BY <1>3, <2>3 DEF LifecycleStep
<1> QED
  BY <1>2, <1>3 DEF EnterConnect

(* disconnect() claims its turn from connected, when nobody has one.       *)
LEMMA ClaimDisconnectTurns ==
  ASSUME TurnsInv, NEW d \in Disconnects, ClaimDisconnect(d)
  PROVE  Turns' /\ LifecycleStep
<1>1. CASE IsConnected(mgr.state)
  <2>1. mgr.state = {"connected"} /\ mgr'.state = {"disconnecting"}
    BY <1>1, TurnsFacts, StatesAre DEF ClaimDisconnect, IsConnected
  <2>2. pc'[d] = "yieldDisconnect" /\ \A u \in Tasks : u # d => Drifts(u)
    BY <1>1, TurnsFacts, Kinds, AloneDrifts DEF ClaimDisconnect, Goto
  <2>3. TurnState(d)' /\ ~Attempts(d)'
    BY <2>1, <2>2, Kinds DEF TurnState, Leaves, Attempts
  <2>4. \A u \in Tasks : ~Busy(u)
    <3> SUFFICES ASSUME NEW u \in Tasks, Busy(u) PROVE FALSE
      OBVIOUS
    <3>1. TurnState(u)
      BY TurnsFacts DEF Turns
    <3> QED
      BY <2>1, <3>1 DEF TurnState, Busy, Connecting, Dialing
  <2>5. Turns'
    BY <2>2, <2>3, <2>4, TurnsFacts, Kinds, TurnsKept
  <2>6. Lifecycle!Leave
    BY <2>1 DEF Lifecycle!Leave
  <2> QED
    BY <2>5, <2>6 DEF LifecycleStep, Lifecycle!Next
<1>2. CASE Goto(d, "asserted", NoConn) /\ UNCHANGED mgr
  BY <1>2, TurnsFacts, Kinds, TurnsOfIdle DEF Goto, LifecycleStep
<1> QED
  BY <1>1, <1>2 DEF ClaimDisconnect

(* A call that is made: it claims the attempt, waits for one, or returns.  *)
LEMMA StartTurns ==
  ASSUME TurnsInv, TurnsAreKept, Start PROVE Turns' /\ LifecycleStep
<1>1. ASSUME NEW p \in Connects, StartConnect(p) PROVE Turns' /\ LifecycleStep
  BY <1>1, EnterTurns DEF StartConnect, Dialers
<1>2. ASSUME NEW p \in Sends, StartSend(p) PROVE Turns' /\ LifecycleStep
  <2>1. p \in Dialers
    BY DEF Dialers
  <2>2. CASE Goto(p, "returned", NoConn) /\ UNCHANGED mgr
    <3>1. "returned" \notin Connecting \cup {"connectWait"}
      BY DEF Connecting, Dialing, Opening
    <3> QED
      BY <2>1, <2>2, <3>1, TurnsFacts, Kinds, TurnsOfIdle DEF Goto, LifecycleStep
  <2>3. CASE ConnectReturns(p, client, client) /\ UNCHANGED mgr
    BY <2>1, <2>3, ReturnsTurns DEF LifecycleStep
  <2>4. CASE MayConnect /\ EnterConnect(p)
    BY <1>2, <2>1, <2>4, EnterTurns DEF StartSend
  <2> QED
    BY <1>2, <2>2, <2>3, <2>4 DEF StartSend
<1>3. ASSUME NEW d \in Disconnects, StartDisconnect(d) PROVE Turns' /\ LifecycleStep
  <2>1. CASE ClaimDisconnect(d)
    BY <2>1, ClaimDisconnectTurns
  <2>2. CASE UNCHANGED mgr /\ \E place \in {"returned", "goneWait", "disconnectWait"} :
               Goto(d, place, NoConn)
    BY <2>2, TurnsFacts, Kinds, TurnsOfIdle DEF Goto, LifecycleStep
  <2> QED
    BY <1>3, <2>1, <2>2 DEF StartDisconnect
<1>4. ASSUME NEW w \in Watchers, StartWatch(w) PROVE Turns' /\ LifecycleStep
  <2>1. PICK place \in {"returned", "watch", "watchGone"} : Goto(w, place, NoConn)
    BY <1>4 DEF StartWatch, EstablishedStep
  <2> QED
    BY <1>4, <2>1, TurnsFacts, Kinds, TurnsOfIdle DEF Goto, StartWatch, LifecycleStep
<1> QED
  BY <1>1, <1>2, <1>3, <1>4 DEF Start
(* A dial that goes on, or comes to its end, while the state stays.        *)
LEMMA DialGoesOn ==
  ASSUME TurnsInv, NEW p \in Dialers, pc[p] \in Opening \cup {"yield"},
         UNCHANGED mgr, pc'[p] \in Opening \cup {"finish"},
         \A u \in Tasks : u # p => Drifts(u)
  PROVE  Turns' /\ LifecycleStep
<1>1. Busy(p) /\ Attempts(p) /\ TurnState(p)
  BY TurnsFacts, Kinds DEF Turns, Busy, Attempts, Connecting, Dialing
<1>2. mgr'.state = {"connecting"}
  BY <1>1 DEF TurnState
<1>3. TurnState(p)'
  BY <1>2 DEF TurnState, Leaves, Opening
<1>4. Turns'
  BY <1>1, <1>3, TurnsFacts, Kinds, TurnsOfHolder
<1> QED
  BY <1>4 DEF LifecycleStep

(* do_connect, up to its return or its first failure.                      *)
LEMMA DialTurns ==
  ASSUME TurnsInv, NEW p \in Dialers,
         \/ Dial(p) \/ OpenOk(p) \/ OpenFailed(p) \/ PreludeWake(p)
         \/ NapOver(p) \/ DialTimeout(p)
  PROVE  Turns' /\ LifecycleStep
<1>0. pc \in [Tasks -> CallPlaces \cup LoopPlaces] /\ p \in Tasks /\ p \notin Conns
  BY TurnsFacts, Kinds DEF PlaceTyping
<1>1. CASE Dial(p)
  <2>1. pc'[p] = "open" /\ \A u \in Tasks : u # p => Drifts(u)
    BY <1>0, <1>1 DEF Dial, Drifts
  <2> QED
    BY <1>1, <2>1, DialGoesOn DEF Dial, Opening
<1>2. CASE OpenOk(p)
  <2>1. PICK c \in Conns, place \in {"prelude", "finish", "nap"} :
          pc' = [[pc EXCEPT ![c] = "start"] EXCEPT ![p] = place]
    BY <1>2 DEF OpenOk, AwaitResponse
  <2>2. pc'[p] = place /\ \A u \in Tasks : u # p => Drifts(u)
    BY <1>0, <2>1, Kinds DEF Drifts
  <2> QED
    BY <1>2, <2>2, DialGoesOn DEF OpenOk, Opening
<1>3. CASE OpenFailed(p) \/ PreludeWake(p) \/ NapOver(p) \/ DialTimeout(p)
  <2>1. PICK place \in {"prelude", "finish", "nap"} : pc' = [pc EXCEPT ![p] = place]
    BY <1>3 DEF OpenFailed, PreludeWake, NapOver, DialTimeout, AwaitResponse, Goto
  <2>2. pc'[p] = place /\ \A u \in Tasks : u # p => Drifts(u)
    BY <1>0, <2>1 DEF Drifts
  <2>3. pc[p] \in Opening /\ UNCHANGED mgr
    BY <1>3 DEF OpenFailed, PreludeWake, NapOver, DialTimeout, Opening
  <2>4. place \in Opening \cup {"finish"}
    BY DEF Opening
  <2> QED
    BY <2>2, <2>3, <2>4, DialGoesOn
<1> QED
  BY <1>1, <1>2, <1>3

(* A refused attempt is reported and cleaned up.                           *)
LEMMA RefusedTurns ==
  ASSUME TurnsInv, NEW p \in Dialers, OpenRefused(p)
  PROVE  Turns' /\ LifecycleStep
<1>1. pc[p] = "open" /\ Busy(p) /\ Attempts(p) /\ mgr.state = {"connecting"}
  BY TurnsFacts, Kinds DEF OpenRefused, Turns, TurnState, Busy, Attempts,
     Connecting, Dialing, Opening
<1>2. p \notin Disconnects /\ p \in Tasks
  BY Kinds
<1>3. \/ /\ mgr' = SetState(SetFailure(mgr, "reported"), {"not_connected"})
         /\ \E place \in {"finish", "raised"} : pc' = [pc EXCEPT ![p] = place]
      \/ /\ mgr' = SetFailure(mgr, "reported")
         /\ pc' = [pc EXCEPT ![p] = "dialJoin"]
  BY <1>2 DEF OpenRefused, DisconnectReturns, DisconnectRaises, Goto
<1>4. PICK place \in {"finish", "raised", "dialJoin"} : pc' = [pc EXCEPT ![p] = place]
  BY <1>3
<1>5. pc'[p] = place /\ \A u \in Tasks : u # p => Drifts(u)
  BY <1>2, <1>4, TurnsFacts, AloneDrifts
<1>6. \/ mgr'.state = {"not_connected", "failure"} /\ pc'[p] \in {"finish", "raised"}
      \/ mgr'.state = {"disconnecting", "failure"} /\ pc'[p] = "dialJoin"
  <2>1. "reported" \in Reasons
    BY DEF Reasons
  <2>2. /\ SetFailure(mgr, "reported").state = {"disconnecting", "failure"}
        /\ SetState(SetFailure(mgr, "reported"), {"not_connected"}).state
             = {"not_connected", "failure"}
    BY <2>1, TurnsFacts, StatesAre
  <2> QED
    BY <1>2, <1>3, <2>2, TurnsFacts DEF PlaceTyping
<1>7. TurnState(p)'
  BY <1>6 DEF OpenRefused, TurnState, Leaves, Opening
<1>8. Turns'
  BY <1>1, <1>2, <1>5, <1>7, TurnsFacts, TurnsOfHolder
<1>9. Lifecycle!Fail
  BY <1>1, <1>6 DEF Lifecycle!Fail, Lifecycle!Failing, Lifecycle!Failed
<1> QED
  BY <1>8, <1>9 DEF LifecycleStep, Lifecycle!Next

(* ... or waits for the read loop of an earlier connection first.          *)
LEMMA DialJoinTurns ==
  ASSUME TurnsInv, NEW p \in Dialers, DialTimeoutJoin(p) \/ DialJoined(p)
  PROVE  Turns' /\ LifecycleStep
<1>1. /\ pc[p] \in {"dialJoin", "dialCancel"} /\ Busy(p) /\ Attempts(p)
      /\ "refused" \in Faults /\ mgr.state = {"disconnecting", "failure"}
  BY TurnsFacts, Kinds DEF DialTimeoutJoin, DialJoined, Turns, TurnState, Busy, Attempts,
     Connecting, Dialing
<1>2. \/ /\ UNCHANGED mgr /\ pc' = [pc EXCEPT ![p] = "dialCancel"]
      \/ /\ mgr' = SetState(mgr, {"not_connected"})
         /\ \E place \in {"finish", "raised"} : pc' = [pc EXCEPT ![p] = place]
  BY DEF DialTimeoutJoin, DialJoined, Goto
<1>3. PICK place : pc' = [pc EXCEPT ![p] = place]
  BY <1>2
<1>4. pc'[p] = place /\ \A u \in Tasks : u # p => Drifts(u)
  BY <1>3, TurnsFacts, Kinds, AloneDrifts
<1>5. \/ mgr'.state = mgr.state /\ pc'[p] = "dialCancel"
      \/ mgr'.state = {"not_connected", "failure"} /\ pc'[p] \in {"finish", "raised"}
  <2>1. SetState(mgr, {"not_connected"}).state = {"not_connected", "failure"}
    BY <1>1, TurnsFacts, StatesAre
  <2> QED
    BY <1>2, <2>1, TurnsFacts, Kinds DEF PlaceTyping
<1>6. TurnState(p)'
  BY <1>1, <1>5 DEF TurnState, Leaves, Opening
<1>7. Turns'
  BY <1>1, <1>4, <1>6, TurnsFacts, Kinds, TurnsOfHolder
<1>8. Lifecycle!CleanUp \/ mgr'.state = mgr.state
  BY <1>1, <1>5 DEF Lifecycle!CleanUp, Lifecycle!Failing, Lifecycle!Failed
<1> QED
  BY <1>7, <1>8 DEF LifecycleStep, Lifecycle!Next

(* The last block of connect(): an attempt that was not reported as failed *)
(* is a success or an unknown failure.                                     *)
LEMMA FinishTurns ==
  ASSUME TurnsInv, NEW p \in Dialers, Finish(p)
  PROVE  Turns' /\ LifecycleStep
<1>1. /\ pc[p] = "finish" /\ Busy(p) /\ Attempts(p)
      /\ mgr.state \in {{"connecting"}, {"not_connected", "failure"}}
  BY TurnsFacts, Kinds DEF Finish, Turns, TurnState, Busy, Attempts, Connecting
<1>2. PICK place \in {"returned", "write"} : pc' = [pc EXCEPT ![p] = place]
  BY DEF Finish, ConnectReturns, Goto
<1>3. pc'[p] = place /\ \A u \in Tasks : u # p => Drifts(u)
  BY <1>2, TurnsFacts, Kinds, AloneDrifts
<1>4. TurnState(p)' /\ ~Attempts(p)'
  BY <1>3 DEF TurnState, Leaves, Attempts, Connecting, Dialing, Opening
<1>5. Turns'
  BY <1>1, <1>3, <1>4, TurnsFacts, Kinds, TurnsOfHolder
<1>6. LifecycleStep
  <2>1. "unknown" \in Reasons
    BY DEF Reasons
  <2>2. CASE mgr.state = {"connecting"} /\ on[p] # NoConn
    <3>1. mgr' = SetState(mgr, {"connected"})
      BY <2>2 DEF Finish
    <3>2. Lifecycle!Succeed
      BY <2>2, <3>1, TurnsFacts, StatesAre DEF Lifecycle!Succeed
    <3> QED
      BY <3>2 DEF LifecycleStep, Lifecycle!Next
  <2>3. CASE mgr.state = {"connecting"} /\ on[p] = NoConn
    <3>1. SetFailure(mgr, "unknown").state = {"disconnecting", "failure"}
      BY <2>1, TurnsFacts, StatesAre
    <3>2. mgr' = SetState(SetFailure(mgr, "unknown"), {"not_connected"})
      BY <2>3, <3>1 DEF Finish
    <3>3. mgr'.state = {"not_connected", "failure"}
      BY <2>1, <3>2, TurnsFacts, StatesAre
    <3>4. Lifecycle!Fail
      BY <2>3, <3>3 DEF Lifecycle!Fail, Lifecycle!Failed
    <3> QED
      BY <3>4 DEF LifecycleStep, Lifecycle!Next
  <2>4. CASE mgr.state = {"not_connected", "failure"}
    <3>1. mgr' = SetState(mgr, {"not_connected"})
      BY <2>4 DEF Finish
    <3> QED
      BY <2>4, <3>1, TurnsFacts, StatesAre DEF LifecycleStep
  <2> QED
    BY <1>1, <2>2, <2>3, <2>4
<1> QED
  BY <1>5, <1>6

(* The rest of connect(), suspension by suspension, to its end or to the   *)
(* disconnect it makes of its own failure.                                 *)
LEMMA DialStepTurns ==
  ASSUME TurnsInv, TurnsAreKept, FailsSilently, NEW p \in Dialers, DialStep(p)
  PROVE  Turns' /\ LifecycleStep
<1>1. CASE ConnectWake(p)
  <2>1. /\ pc[p] = "connectWait"
        /\ Overlap = FALSE => \A u \in Tasks : Attempts(u) => u = p
    BY <1>1, TurnsFacts, Kinds DEF ConnectWake, Turns, Attempts
  <2> QED
    BY <1>1, <2>1, ClaimTurns DEF ConnectWake
<1>2. CASE WriteDone(p)
  <2>1. "returned" \notin Connecting \cup {"connectWait"}
    BY DEF Connecting, Dialing, Opening
  <2> QED
    BY <1>2, <2>1, TurnsFacts, Kinds, TurnsOfIdle DEF WriteDone, Goto, LifecycleStep
<1>3. ~WriteFails(p)
  BY DEF WriteFails, FailsSilently
<1> QED
  BY <1>1, <1>2, <1>3, DialTurns, RefusedTurns, DialJoinTurns, FinishTurns DEF DialStep
(* do_disconnect goes on, or ends and leaves the state not_connected.      *)
LEMMA LeaverTurns ==
  ASSUME TurnsInv, NEW d \in Tasks, Leaves(d),
         BeginDisconnect(d) \/ CloseDone(d) \/ JoinDone(d)
  PROVE  Turns' /\ LifecycleStep
<1>1. d \in Disconnects /\ mgr.state = {"disconnecting"} /\ Busy(d)
  BY TurnsFacts DEF Turns, TurnState, Busy
<1>2. d \notin Dialers /\ Done(d) = "returned"
  BY <1>1, Kinds DEF Done
<1>3. \/ mgr' = mgr /\ \E place \in {"closing", "joining", "raised"} :
                          pc' = [pc EXCEPT ![d] = place]
      \/ mgr' = SetState(mgr, {"not_connected"}) /\ pc' = [pc EXCEPT ![d] = "returned"]
  BY <1>1, <1>2 DEF BeginDisconnect, CloseDone, JoinDone, StartDoDisconnect,
     JoinReadLoop, DisconnectReturns, DisconnectRaises, Goto
<1>4. PICK place : pc' = [pc EXCEPT ![d] = place]
  BY <1>3
<1>5. pc'[d] = place /\ \A u \in Tasks : u # d => Drifts(u)
  BY <1>4, TurnsFacts, AloneDrifts
<1>6. \/ mgr'.state = {"disconnecting"} /\ pc'[d] \in {"closing", "joining", "raised"}
      \/ mgr'.state = {"not_connected"} /\ pc'[d] = "returned"
  BY <1>1, <1>3, TurnsFacts, StatesAre DEF PlaceTyping
<1>7. TurnState(d)' /\ ~Attempts(d)'
  BY <1>1, <1>2, <1>6 DEF TurnState, Leaves, Attempts
<1>8. Turns'
  BY <1>1, <1>5, <1>7, TurnsFacts, TurnsOfHolder
<1>9. Lifecycle!Close \/ mgr'.state = mgr.state
  BY <1>1, <1>6 DEF Lifecycle!Close
<1> QED
  BY <1>8, <1>9 DEF LifecycleStep, Lifecycle!Next

(* disconnect(): what it claims, it keeps until the link is closed.        *)
LEMMA DisconnectTurns ==
  ASSUME TurnsInv, NEW d \in Disconnects, DisconnectStep(d)
  PROVE  Turns' /\ LifecycleStep
<1>1. CASE BeginDisconnect(d)
  BY <1>1, Kinds, LeaverTurns DEF BeginDisconnect, Leaves
<1>2. CASE UNCHANGED mgr /\ Goto(d, "returned", NoConn)
  BY <1>2, TurnsFacts, Kinds, TurnsOfIdle DEF Goto, LifecycleStep
<1>3. CASE ClaimDisconnect(d)
  BY <1>3, ClaimDisconnectTurns
<1> QED
  BY <1>1, <1>2, <1>3 DEF DisconnectStep, GoneWake, DisconnectWake

(* Read loops never take a turn: only a reported failure makes one         *)
(* disconnect.                                                             *)
LEMMA LoopTurns ==
  ASSUME TurnsInv, FailsSilently, NEW c \in Conns, LoopStep(c) \/ LoopData(c)
  PROVE  Turns' /\ LifecycleStep
<1>1. c \in Tasks /\ c \notin Dialers /\ ~Leaves(c)
  BY TurnsFacts, Kinds DEF Turns, TurnState
<1>2. ~LoopCatches(c)
  BY DEF LoopCatches, FailsSilently
<1>3. pc \in [Tasks -> CallPlaces \cup LoopPlaces]
  BY TurnsFacts DEF PlaceTyping
<1>4. CASE UNCHANGED mgr /\ \E place \in {"wait", "ended", "raised"} : Goto(c, place, NoConn)
                                                                 \/ Goto(c, place, client)
  <2>1. PICK place \in {"wait", "ended", "raised"} : pc' = [pc EXCEPT ![c] = place]
    BY <1>4 DEF Goto
  <2> QED
    BY <1>1, <1>4, <2>1, TurnsFacts, TurnsOfIdle DEF LifecycleStep
<1>5. CASE UNCHANGED mgr /\ (Parsed(c) \/ UNCHANGED pc)
  <2>1. \A u \in Tasks : Drifts(u)
    BY <1>3, <1>5 DEF Parsed, Drifts
  <2>2. ~Attempts(c)' /\ ~Busy(c)'
    BY <1>1, <2>1, DriftingIsIdle DEF Attempts, Busy
  <2> QED
    BY <1>1, <1>5, <2>1, <2>2, TurnsFacts, TurnsOfOthers DEF LifecycleStep
<1>6. CASE LoopReads(c)
  BY <1>4, <1>5, <1>6 DEF LoopReads, Read, ReadNothing, ReadPrelude, ReadUpdate, ReadAck,
     ReadGarbage, ReadReset
<1>7. CASE LoopTop(c) \/ LoopStops(c)
  BY <1>4, <1>7 DEF LoopTop, LoopStops
<1>8. CASE LoopCancelled(c)
  BY <1>1, <1>4, <1>8 DEF LoopCancelled, Leaves, Finished
<1> QED
  BY <1>2, <1>6, <1>7, <1>8 DEF LoopStep, LoopData, LoopClosed

(* Every step keeps the turns and is one of the life cycle.                *)
LEMMA TurnsStep ==
  ASSUME TurnsInv, TurnsAreKept, FailsSilently, [Next]_vars
  PROVE  Turns' /\ LifecycleStep
<1>1. CASE UNCHANGED vars
  BY <1>1, TurnsFacts DEF vars, Turns, TurnState, Attempts, Busy, Leaves, LifecycleStep
<1>2. ASSUME NEW w \in Watchers, WatchWake(w) PROVE Turns' /\ LifecycleStep
  <2>1. PICK place \in {"returned", "watchGone"} : Goto(w, place, NoConn)
    BY <1>2 DEF WatchWake, EstablishedStep
  <2> QED
    BY <1>2, <2>1, TurnsFacts, Kinds, TurnsOfIdle DEF Goto, WatchWake, LifecycleStep
<1>3. ASSUME NEW t \in Tasks, CloseStep(t) PROVE Turns' /\ LifecycleStep
  BY <1>3, LeaverTurns DEF CloseStep, CloseDone, JoinDone, Leaves
<1> QED
  BY <1>1, <1>2, <1>3, StartTurns, DialStepTurns, DisconnectTurns, LoopTurns DEF Next

(* Before any call nobody has a turn.                                      *)
LEMMA TurnsInit == Init => TurnsInv
<1> SUFFICES ASSUME Init PROVE TurnsInv
  OBVIOUS
<1>1. \A t \in Tasks : pc[t] \in {"none", "idle"}
  BY DEF Init
<1>2. \A t \in Tasks : ~Attempts(t) /\ ~Busy(t) /\ TurnState(t)
  BY <1>1 DEF Attempts, Busy, Leaves, TurnState, Connecting, Dialing, Opening
<1> QED
  BY <1>2, InvInit DEF TurnsInv, Turns

(* With turns that are kept and links that fail silently, what             *)
(* connect(), disconnect(), send_to_client() and _catch_exception do to    *)
(* the state is the life cycle: nothing is skipped and nothing repeated,   *)
(* whatever else goes wrong.                                               *)
THEOREM ImplementsLifecycle ==
  ASSUME TurnsAreKept, FailsSilently
  PROVE  Spec => Lifecycle!Spec
<1>1. Init => TurnsInv
  BY TurnsInit
<1>2. TurnsInv /\ [Next]_vars => TurnsInv'
  BY TurnsStep, InvStep DEF TurnsInv
<1>3. Init => Lifecycle!Init
  BY DEF Init, InitManager, Lifecycle!Init
<1>4. TurnsInv /\ [Next]_vars => [Lifecycle!Next]_(mgr.state)
  BY TurnsStep DEF LifecycleStep
<1> QED
  BY <1>1, <1>2, <1>3, <1>4, PTL DEF Spec, Lifecycle!Spec
-----------------------------------------------------------------------------
(* The link: what keeps it.                                                *)

(* The second: what the link is then, too.                                 *)
LinkInv == TurnsInv /\ Link

(* Where no turn is needed, nothing is asked of the link.                  *)
LEMMA IdleLink ==
  ASSUME NEW u \in Tasks PROVE ~Busy(u)' => TurnLink(u)'
  BY DEF TurnLink, Busy, Leaves, Connecting, Dialing, Opening

(* While t has its turn or takes one, nothing is asked of the others.      *)
LEMMA OthersAreIdle ==
  ASSUME TurnsInv, Turns', NEW t \in Tasks, Busy(t) \/ Busy(t)',
         \A u \in Tasks : u # t => Drifts(u)
  PROVE  \A u \in Tasks : u # t => ~Busy(u)' /\ TurnLink(u)'
<1>1. \A u \in Tasks : u # t => ~Busy(u)'
  BY DriftingIsIdle, TurnsFacts DEF Turns
<1> QED
  BY <1>1, IdleLink

(* A step that leaves the link and the state alone.                        *)
LEMMA LinkStill ==
  ASSUME LinkInv, NEW t \in Tasks, UNCHANGED <<link, cancelled>>,
         mgr'.state = mgr.state,
         \A u \in Tasks : u # t =>
           /\ \/ pc'[u] = pc[u]
              \/ pc[u] = "prelude" /\ pc'[u] = "woken"
           /\ on'[u] = on[u],
         TurnLink(t)',
         t \in Conns => \/ pc'[t] \in {pc[t], "ended"}
                        \/ pc[t] = "start" /\ pc'[t] = "wait"
  PROVE  Link'
<1>1. UNCHANGED <<client, opened, readEnabled, readCoro, cancelled>>
  BY DEF link
<1>2. ASSUME NEW u \in Tasks, u # t PROVE TurnLink(u)'
  <2>1. TurnLink(u)
    BY DEF LinkInv, Link
  <2>2. on'[u] = on[u]
    BY <1>2
  <2>3. CASE pc'[u] = pc[u]
    BY <1>1, <2>1, <2>2, <2>3 DEF TurnLink, Usable
  <2>4. CASE pc[u] = "prelude" /\ pc'[u] = "woken"
    BY <1>1, <2>1, <2>2, <2>4 DEF TurnLink, Usable
  <2> QED
    BY <1>2, <2>3, <2>4
<1>3. \A l \in Conns : \/ pc'[l] \in {"none", "ended"}
                       \/ l = client' /\ pc'[l] \in {"start", "wait"}
  <2> SUFFICES ASSUME NEW l \in Conns
               PROVE  \/ pc'[l] \in {"none", "ended"}
                      \/ l = client' /\ pc'[l] \in {"start", "wait"}
    OBVIOUS
  <2>1. \/ pc[l] \in {"none", "ended"}
        \/ l = client /\ pc[l] \in {"start", "wait"}
    BY DEF LinkInv, Link
  <2>2. CASE l = t
    BY <1>1, <2>1, <2>2
  <2>3. CASE l # t
    <3>1. pc'[l] = pc[l]
      BY <2>1, <2>3, Kinds
    <3> QED
      BY <1>1, <2>1, <3>1
  <2> QED
    BY <2>2, <2>3
<1>4. \A u \in Tasks : TurnLink(u)'
  BY <1>2
<1> QED
  BY <1>1, <1>3, <1>4 DEF LinkInv, Link, Usable

(* A call that moves to a place where nothing is asked of the link.        *)
LEMMA LinkOfIdle ==
  ASSUME LinkInv, NEW t \in Calls, UNCHANGED <<link, cancelled>>,
         mgr'.state = mgr.state,
         NEW place, NEW c, Goto(t, place, c),
         place \notin {"yieldDisconnect", "closing", "joining"},
         t \in Dialers => place \notin Connecting
  PROVE  Link'
<1>1. t \in Tasks /\ t \notin Conns
  BY ConstantsAssumption DEF ConstantsAssumption, Tasks
<1>2. /\ pc'[t] = place
      /\ \A u \in Tasks : u # t => pc'[u] = pc[u] /\ on'[u] = on[u]
  BY <1>1, TurnsFacts DEF LinkInv, Goto, PlaceTyping
<1>3. ~Busy(t)'
  BY <1>2 DEF Busy, Leaves
<1> QED
  BY <1>1, <1>2, <1>3, IdleLink, LinkStill

(* A step of the call whose turn it is, whatever it does to the link.      *)
LEMMA LinkOfHolder ==
  ASSUME LinkInv, Turns', NEW t \in Calls, Busy(t) \/ Busy(t)',
         \A u \in Tasks : u # t => Drifts(u),
         cancelled' = {}, readCoro' = client', opened' \subseteq {client'},
         \A l \in Conns : \/ pc'[l] \in {"none", "ended"}
                          \/ l = client' /\ pc'[l] \in {"start", "wait"},
         "not_connected" \in mgr'.state => client' = NoConn,
         IsConnected(mgr'.state) => Usable',
         TurnLink(t)'
  PROVE  Link'
<1>1. t \in Tasks
  BY DEF Tasks
<1>2. \A u \in Tasks : TurnLink(u)'
  BY <1>1, OthersAreIdle DEF LinkInv
<1> QED
  BY <1>2 DEF Link

(* There is no socket without a client.                                    *)
LEMMA NoClient ==
  ASSUME LinkInv, client = NoConn
  PROVE  opened = {} /\ \A l \in Conns : pc[l] \in {"none", "ended"}
<1>1. opened \subseteq Conns /\ NoConn \notin Conns
  BY TurnsFacts, ConstantsAssumption DEF LinkInv, Typing, LinkTyping, ConstantsAssumption
<1> QED
  BY <1>1 DEF LinkInv, Link
-----------------------------------------------------------------------------
(* The link, step by step.                                                 *)

(* connect() returns or claims an attempt: the link waits for the dial.    *)
LEMMA ClaimLink ==
  ASSUME LinkInv, Turns', NEW p \in Dialers, UNCHANGED <<link, cancelled>>,
         ClaimAttempt(p) \/ EnterConnect(p)
  PROVE  Link'
<1>0. p \in Calls /\ p \in Tasks
  BY Kinds
<1>1. CASE /\ UNCHANGED mgr
           /\ \E place \in {"returned", "write", "asserted", "connectWait"}, c \in {NoConn, client} :
                Goto(p, place, c)
  <2>1. {"returned", "write", "asserted", "connectWait"} \cap Connecting = {}
    BY DEF Connecting, Dialing, Opening
  <2> QED
    BY <1>0, <1>1, <2>1, LinkOfIdle
<1>2. CASE /\ "not_connected" \in mgr.state
           /\ mgr' = SetState(mgr, {"connecting"}) /\ Goto(p, "yield", NoConn)
  <2>1. mgr'.state = {"connecting"} /\ client = NoConn
    BY <1>2, TurnsFacts, StatesAre DEF LinkInv, Link
  <2>2. pc'[p] = "yield" /\ \A u \in Tasks : u # p => pc'[u] = pc[u] /\ Drifts(u)
    BY <1>0, <1>2, TurnsFacts, AloneDrifts DEF Goto, LinkInv
  <2>3. Busy(p)' /\ TurnLink(p)'
    BY <2>1, <2>2, Kinds DEF Busy, TurnLink, Connecting, link
  <2>4. \A l \in Conns : pc'[l] = pc[l]
    BY <2>2, Kinds
  <2> QED
    BY <1>0, <2>1, <2>2, <2>3, <2>4, LinkOfHolder DEF LinkInv, Link, link, IsConnected
<1>3. ClaimAttempt(p) => \/ UNCHANGED mgr /\ ConnectReturns(p, client, client)
                         \/ UNCHANGED mgr /\ Goto(p, "asserted", NoConn)
                         \/ /\ "not_connected" \in mgr.state
                            /\ mgr' = SetState(mgr, {"connecting"})
                            /\ Goto(p, "yield", NoConn)
  BY DEF ClaimAttempt
<1>4. ConnectReturns(p, client, client) =>
        \E place \in {"returned", "write"}, c \in {NoConn, client} : Goto(p, place, c)
  BY DEF ConnectReturns
<1> QED
  BY <1>1, <1>2, <1>3, <1>4 DEF EnterConnect

(* disconnect() claims the link of a connected backend.                    *)
LEMMA ClaimDisconnectLink ==
  ASSUME LinkInv, Turns', NEW d \in Disconnects, UNCHANGED <<link, cancelled>>,
         ClaimDisconnect(d)
  PROVE  Link'
<1>0. d \in Calls /\ d \in Tasks /\ d \notin Dialers
  BY Kinds
<1>1. CASE IsConnected(mgr.state)
  <2>1. mgr'.state = {"disconnecting"} /\ client \in opened
    BY <1>1, TurnsFacts, StatesAre
       DEF ClaimDisconnect, LinkInv, Link, Usable, IsConnected
  <2>2. pc'[d] = "yieldDisconnect"
        /\ \A u \in Tasks : u # d => pc'[u] = pc[u] /\ Drifts(u)
    BY <1>0, <1>1, TurnsFacts, AloneDrifts DEF ClaimDisconnect, Goto, LinkInv
  <2>3. Busy(d)' /\ TurnLink(d)'
    BY <1>0, <2>1, <2>2 DEF Busy, Leaves, TurnLink, link
  <2>4. \A l \in Conns : pc'[l] = pc[l]
    BY <2>2, Kinds
  <2> QED
    BY <1>0, <2>1, <2>2, <2>3, <2>4, LinkOfHolder DEF LinkInv, Link, link, IsConnected
<1>2. CASE Goto(d, "asserted", NoConn) /\ UNCHANGED mgr
  BY <1>0, <1>2, LinkOfIdle
<1> QED
  BY <1>1, <1>2 DEF ClaimDisconnect

(* A call that is made finds the link as it is and leaves it alone.        *)
LEMMA StartLink == ASSUME LinkInv, Turns', Start PROVE Link'
<1>0. "returned" \notin Connecting
  BY DEF Connecting, Dialing, Opening
<1>1. ASSUME NEW p \in Connects, StartConnect(p) PROVE Link'
  BY <1>1, ClaimLink DEF StartConnect, Dialers
<1>2. ASSUME NEW p \in Sends, StartSend(p) PROVE Link'
  <2>1. p \in Dialers /\ p \in Calls
    BY DEF Dialers, Calls
  <2>2. UNCHANGED <<link, cancelled>>
    BY <1>2 DEF StartSend
  <2>3. CASE Goto(p, "returned", NoConn) /\ UNCHANGED mgr
    BY <1>0, <2>1, <2>2, <2>3, LinkOfIdle
  <2>4. CASE ConnectReturns(p, client, client) /\ UNCHANGED mgr
    <3>1. PICK place \in {"returned", "write"}, c \in {NoConn, client} : Goto(p, place, c)
      BY <2>4 DEF ConnectReturns
    <3>2. place \notin Connecting
      BY DEF Connecting, Dialing, Opening
    <3> QED
      BY <2>1, <2>2, <2>4, <3>1, <3>2, LinkOfIdle
  <2>5. CASE EnterConnect(p)
    BY <2>1, <2>2, <2>5, ClaimLink
  <2> QED
    BY <1>2, <2>3, <2>4, <2>5 DEF StartSend
<1>3. ASSUME NEW d \in Disconnects, StartDisconnect(d) PROVE Link'
  <2>1. UNCHANGED <<link, cancelled>>
    BY <1>3 DEF StartDisconnect
  <2>2. CASE ClaimDisconnect(d)
    BY <2>1, <2>2, ClaimDisconnectLink
  <2>3. CASE UNCHANGED mgr /\ \E place \in {"returned", "goneWait", "disconnectWait"} :
               Goto(d, place, NoConn)
    BY <2>1, <2>3, Kinds, LinkOfIdle
  <2> QED
    BY <1>3, <2>2, <2>3 DEF StartDisconnect
<1>4. ASSUME NEW w \in Watchers, StartWatch(w) PROVE Link'
  <2>1. PICK place \in {"returned", "watch", "watchGone"} : Goto(w, place, NoConn)
    BY <1>4 DEF StartWatch, EstablishedStep
  <2> QED
    BY <1>4, <2>1, Kinds, LinkOfIdle DEF StartWatch
<1> QED
  BY <1>1, <1>2, <1>3, <1>4 DEF Start
(* do_connect opens the next link when there is none.                      *)
LEMMA OpenLink ==
  ASSUME LinkInv, Turns', NEW p \in Dialers, OpenOk(p) PROVE Link'
<1>0. p \in Calls /\ p \in Tasks /\ p \notin Conns
  BY Kinds
<1>1. PICK c \in Conns, place \in {"prelude", "finish", "nap"} :
        /\ client' = c /\ opened' = opened \cup {c} /\ cancelled' = cancelled \ {c}
        /\ readCoro' = c /\ readEnabled' = TRUE /\ UNCHANGED mgr
        /\ pc' = [[pc EXCEPT ![c] = "start"] EXCEPT ![p] = place]
        /\ on' = [on EXCEPT ![p] = c]
  BY DEF OpenOk, AwaitResponse
<1>2. /\ pc[p] = "open" /\ mgr.state = {"connecting"} /\ Busy(p)
      /\ client = NoConn /\ cancelled = {}
  BY <1>0, TurnsFacts DEF OpenOk, LinkInv, Turns, TurnState, Link, TurnLink, Busy,
     Connecting, Dialing, Opening
<1>3. opened = {} /\ \A l \in Conns : pc[l] \in {"none", "ended"}
  BY <1>2, NoClient
<1>4. /\ pc'[p] = place /\ on'[p] = c
      /\ \A u \in Tasks : u # p => pc'[u] = (IF u = c THEN "start" ELSE pc[u]) /\ Drifts(u)
  BY <1>0, <1>1, TurnsFacts, Kinds DEF LinkInv, PlaceTyping, Drifts
<1>5. \A l \in Conns : \/ pc'[l] \in {"none", "ended"}
                       \/ l = client' /\ pc'[l] \in {"start", "wait"}
  BY <1>0, <1>1, <1>3, <1>4, Kinds
<1>6. opened' = {c} /\ cancelled' = {}
  BY <1>1, <1>2, <1>3
<1>7. TurnLink(p)'
  BY <1>0, <1>1, <1>2, <1>4, <1>6 DEF TurnLink, Usable
<1> QED
  BY <1>0, <1>1, <1>2, <1>4, <1>5, <1>6, <1>7, LinkOfHolder DEF IsConnected

(* An attempt that fails leaves none.                                      *)
LEMMA OpenFailsLink ==
  ASSUME LinkInv, Turns', NEW p \in Dialers, OpenRefused(p) \/ OpenFailed(p)
  PROVE  Link'
<1>0. p \in Calls /\ p \in Tasks /\ p \notin Conns /\ p \notin Disconnects
  BY Kinds
<1>1. /\ pc[p] = "open" /\ mgr.state = {"connecting"} /\ Busy(p)
      /\ client = NoConn /\ readCoro = NoConn /\ cancelled = {}
  BY <1>0, TurnsFacts DEF OpenRefused, OpenFailed, LinkInv, Turns, TurnState, Link,
     TurnLink, Busy, Connecting, Dialing, Opening
<1>2. opened = {} /\ \A l \in Conns : pc[l] \in {"none", "ended"}
  BY <1>1, NoClient
<1>3. ReadLoop = "ended"
  BY <1>1 DEF ReadLoop
<1>4. /\ client' = NoConn /\ readCoro' = NoConn /\ UNCHANGED <<opened, cancelled>>
      /\ Goto(p, "finish", NoConn)
      /\ \/ UNCHANGED mgr
         \/ mgr' = SetState(SetFailure(mgr, "reported"), {"not_connected"})
  BY <1>0, <1>1, <1>3 DEF OpenRefused, OpenFailed, DisconnectReturns, Finished
<1>5. pc'[p] = "finish" /\ on'[p] = NoConn
      /\ \A u \in Tasks : u # p => pc'[u] = pc[u] /\ Drifts(u)
  BY <1>0, <1>4, TurnsFacts, AloneDrifts DEF Goto, LinkInv, PlaceTyping
<1>6. ~IsConnected(mgr'.state)
  <2>1. "reported" \in Reasons
    BY DEF Reasons
  <2> QED
    BY <1>1, <1>4, <2>1, TurnsFacts, StatesAre DEF LinkInv, IsConnected
<1>7. TurnLink(p)'
  BY <1>0, <1>4, <1>5 DEF TurnLink
<1>8. \A l \in Conns : pc'[l] \in {"none", "ended"}
  BY <1>0, <1>2, <1>5, Kinds
<1> QED
  BY <1>0, <1>1, <1>2, <1>4, <1>5, <1>6, <1>7, <1>8, LinkOfHolder

(* The wait for the prelude.                                               *)
LEMMA PreludeLink ==
  ASSUME LinkInv, Turns', NEW p \in Dialers, Dial(p) \/ PreludeWake(p) \/ NapOver(p)
  PROVE  Link'
<1>0. p \in Calls /\ p \in Tasks /\ p \notin Conns
  BY Kinds
<1>1. /\ mgr.state = {"connecting"} /\ Busy(p) /\ TurnLink(p)
      /\ UNCHANGED <<mgr, client, opened, readEnabled, readCoro, cancelled>>
  BY <1>0, TurnsFacts DEF Dial, PreludeWake, NapOver, LinkInv, Turns, TurnState, Link,
     Busy, Connecting, Dialing, Opening, link
<1>2. CASE Dial(p)
  <2>1. pc'[p] = "open" /\ pc[p] = "yield" /\ \A u \in Tasks : u # p => Drifts(u)
    BY <1>0, <1>2 DEF Dial, Drifts
  <2>2. \A l \in Conns : pc'[l] = pc[l]
    BY <1>0, <1>2, Kinds DEF Dial, LinkInv, Link
  <2>3. TurnLink(p)'
    BY <1>0, <1>1, <2>1 DEF TurnLink
  <2> QED
    BY <1>0, <1>1, <2>1, <2>2, <2>3, LinkOfHolder DEF LinkInv, Link, Usable, IsConnected
<1>3. CASE PreludeWake(p) \/ NapOver(p)
  <2>1. PICK place \in {"prelude", "finish", "nap"} : pc' = [pc EXCEPT ![p] = place]
    BY <1>3 DEF PreludeWake, NapOver, AwaitResponse, Goto
  <2>2. /\ pc'[p] = place
        /\ \A u \in Tasks : u # p => pc'[u] = pc[u] /\ Drifts(u)
    BY <1>0, <2>1, TurnsFacts, AloneDrifts DEF LinkInv
  <2>3. on'[p] = on[p] /\ pc[p] \in {"woken", "nap"}
    BY <1>0, <1>3, TurnsFacts
       DEF PreludeWake, NapOver, AwaitResponse, Goto, LinkInv, PlaceTyping
  <2>4. \A l \in Conns : pc'[l] = pc[l]
    BY <1>0, <2>2, Kinds
  <2>5. on[p] = client /\ Usable
    BY <1>1, <2>3 DEF TurnLink
  <2>6. TurnLink(p)'
    BY <1>1, <2>2, <2>3, <2>5 DEF TurnLink, Usable
  <2> QED
    BY <1>0, <1>1, <2>2, <2>4, <2>6, LinkOfHolder DEF LinkInv, Link, Usable, IsConnected
<1> QED
  BY <1>2, <1>3
(* connect() hands the link over, or says that there is none.              *)
LEMMA FinishLink ==
  ASSUME LinkInv, Turns', NEW p \in Dialers, Finish(p) PROVE Link'
<1>0. p \in Calls /\ p \in Tasks /\ p \notin Conns
  BY Kinds
<1>1. /\ pc[p] = "finish" /\ Busy(p)
      /\ mgr.state \in {{"connecting"}, {"not_connected", "failure"}}
      /\ \/ on[p] = NoConn /\ client = NoConn
         \/ on[p] = client /\ Usable /\ mgr.state = {"connecting"}
  BY <1>0, TurnsFacts DEF Finish, LinkInv, Turns, TurnState, Link, TurnLink, Busy, Connecting
<1>2. UNCHANGED <<opened, readEnabled, readCoro, cancelled>>
  BY DEF Finish
<1>3. PICK place \in {"returned", "write"} : pc' = [pc EXCEPT ![p] = place]
  BY DEF Finish, ConnectReturns, Goto
<1>4. pc'[p] = place /\ \A u \in Tasks : u # p => pc'[u] = pc[u] /\ Drifts(u)
  BY <1>0, <1>3, TurnsFacts, AloneDrifts DEF LinkInv
<1>5. TurnLink(p)'
  BY <1>4 DEF TurnLink, Connecting
<1>6. \A l \in Conns : pc'[l] = pc[l]
  BY <1>0, <1>4, Kinds
<1>7. /\ client' = client
      /\ "not_connected" \in mgr'.state => client = NoConn
      /\ IsConnected(mgr'.state) => Usable
  <2>0. "unknown" \in Reasons
    BY DEF Reasons
  <2>1. CASE on[p] = NoConn /\ client = NoConn
    <3>1. client' = NoConn
      BY <2>1 DEF Finish
    <3>2. SetFailure(mgr, "unknown").state = {"disconnecting", "failure"}
      BY <2>0, TurnsFacts, StatesAre DEF LinkInv
    <3>3. \/ mgr' = SetState(SetFailure(mgr, "unknown"), {"not_connected"})
          \/ mgr' = SetState(mgr, {"not_connected"}) /\ "failure" \in mgr.state
      BY <2>1, <3>2 DEF Finish
    <3>4. mgr'.state = {"not_connected", "failure"}
      BY <2>0, <3>3, TurnsFacts, StatesAre DEF LinkInv
    <3> QED
      BY <2>1, <3>1, <3>4 DEF IsConnected
  <2>2. CASE on[p] = client /\ Usable /\ mgr.state = {"connecting"}
    <3>1. client # NoConn
      BY <2>2, TurnsFacts, ConstantsAssumption
         DEF LinkInv, Usable, Typing, LinkTyping, ConstantsAssumption
    <3>2. mgr' = SetState(mgr, {"connected"}) /\ client' = client
      BY <2>2, <3>1 DEF Finish
    <3>3. mgr'.state = {"connected"}
      BY <2>2, <3>2, TurnsFacts, StatesAre DEF LinkInv
    <3> QED
      BY <2>2, <3>2, <3>3
  <2> QED
    BY <1>1, <2>1, <2>2
<1> QED
  BY <1>0, <1>1, <1>2, <1>4, <1>5, <1>6, <1>7, LinkOfHolder DEF LinkInv, Link, Usable

(* The link along connect(): none, then opened with its read loop, then    *)
(* handed out, or closed again when the prelude does not come.             *)
LEMMA DialStepLink ==
  ASSUME LinkInv, Turns', IsPrompt, NEW p \in Dialers, DialStep(p) PROVE Link'
<1>1. CASE ConnectWake(p)
  BY <1>1, ClaimLink DEF ConnectWake
<1>2. CASE WriteDone(p)
  <2>1. "returned" \notin Connecting
    BY DEF Connecting, Dialing, Opening
  <2> QED
    BY <1>2, <2>1, Kinds, LinkOfIdle DEF WriteDone
<1>3. ~WriteFails(p) /\ ~DialTimeout(p) /\ ~DialTimeoutJoin(p)
  BY DEF WriteFails, DialTimeout, DialTimeoutJoin, IsPrompt, FailsSilently
<1>4. ~DialJoined(p)
  BY Kinds DEF DialJoined, LinkInv, Link, TurnLink
<1> QED
  BY <1>1, <1>2, <1>3, <1>4, OpenLink, OpenFailsLink, PreludeLink, FinishLink DEF DialStep

(* do_disconnect closes the socket, awaits its read loop and forgets both. *)
LEMMA LeaverLink ==
  ASSUME LinkInv, Turns', NEW d \in Tasks, Leaves(d),
         BeginDisconnect(d) \/ CloseDone(d) \/ JoinDone(d)
  PROVE  Link'
<1>1. /\ d \in Disconnects /\ mgr.state = {"disconnecting"} /\ Busy(d)
      /\ TurnLink(d) /\ readCoro = client /\ opened \subseteq {client} /\ cancelled = {}
  BY TurnsFacts DEF LinkInv, Turns, TurnState, Busy, Link
<1>2. d \notin Dialers /\ d \in Calls /\ d \notin Conns /\ Done(d) = "returned"
  BY <1>1, Kinds DEF Done
<1>3. client \in Conns
  <2>1. client \in Conns \cup {NoConn} /\ opened \subseteq Conns
    BY TurnsFacts DEF LinkInv, Typing, LinkTyping
  <2> QED
    BY <1>1, <2>1 DEF TurnLink, Leaves
<1>4. ReadLoop = pc[client] /\ ReadLoop # "raised" /\ client # NoConn
  BY <1>1, <1>3, ConstantsAssumption DEF ReadLoop, LinkInv, Link, ConstantsAssumption
<1>5. \/ /\ pc[d] = "yieldDisconnect" /\ Goto(d, "closing", client)
         /\ UNCHANGED <<mgr, client, opened, readCoro>>
      \/ /\ pc[d] = "closing" /\ pc[client] # "ended" /\ Goto(d, "joining", client)
         /\ opened' = {} /\ UNCHANGED <<mgr, client, readCoro>>
      \/ /\ pc[client] = "ended" /\ Goto(d, "returned", NoConn)
         /\ mgr' = SetState(mgr, {"not_connected"})
         /\ opened' = {} /\ client' = NoConn /\ readCoro' = NoConn
  <2>1. CASE BeginDisconnect(d)
    <3>1. client # NoConn
      BY <1>4
    <3> QED
      BY <2>1, <3>1 DEF BeginDisconnect, StartDoDisconnect
  <2>2. CASE CloseDone(d)
    <3>1. on[d] = client /\ opened' = {}
      BY <1>1, <2>2 DEF CloseDone, TurnLink
    <3>2. JoinReadLoop(d, mgr, "returned", "joining")
      BY <1>2, <2>2 DEF CloseDone
    <3> QED
      BY <1>1, <1>4, <2>2, <3>1, <3>2
         DEF CloseDone, JoinReadLoop, DisconnectReturns, Finished
  <2>3. CASE JoinDone(d)
    <3>1. on[d] = client /\ opened = {} /\ on[d] # d
      BY <1>1, <1>2, <1>3, <2>3 DEF JoinDone, TurnLink
    <3>2. pc[client] = "ended" /\ DisconnectReturns(d, mgr, "returned")
      BY <1>2, <1>4, <2>3, <3>1 DEF JoinDone
    <3> QED
      BY <2>3, <3>1, <3>2 DEF JoinDone, DisconnectReturns
  <2> QED
    BY <2>1, <2>2, <2>3
<1>6. cancelled' = {}
  BY <1>1 DEF BeginDisconnect, CloseDone, JoinDone, StartDoDisconnect
<1>7. PICK place, c : pc' = [pc EXCEPT ![d] = place] /\ on' = [on EXCEPT ![d] = c]
  BY <1>5 DEF Goto
<1>8. /\ pc'[d] = place /\ on'[d] = c
      /\ \A u \in Tasks : u # d => pc'[u] = pc[u] /\ Drifts(u)
  BY <1>7, TurnsFacts, AloneDrifts DEF LinkInv, PlaceTyping
<1>9. \A l \in Conns : pc'[l] = pc[l]
  BY <1>2, <1>8, Kinds
<1>10. CASE /\ pc[d] = "yieldDisconnect" /\ Goto(d, "closing", client)
            /\ UNCHANGED <<mgr, client, opened, readCoro>>
  <2>1. pc'[d] = "closing" /\ on'[d] = client
    BY <1>10, TurnsFacts DEF Goto, LinkInv, PlaceTyping
  <2>2. TurnLink(d)'
    BY <1>1, <1>2, <1>10, <2>1 DEF TurnLink
  <2> QED
    BY <1>1, <1>2, <1>6, <1>8, <1>9, <1>10, <2>2, LinkOfHolder DEF LinkInv, Link, IsConnected
<1>11. CASE /\ pc[d] = "closing" /\ Goto(d, "joining", client)
            /\ opened' = {} /\ UNCHANGED <<mgr, client, readCoro>>
  <2>1. pc'[d] = "joining" /\ on'[d] = client
    BY <1>11, TurnsFacts DEF Goto, LinkInv, PlaceTyping
  <2>2. TurnLink(d)'
    BY <1>2, <1>4, <1>11, <2>1 DEF TurnLink
  <2> QED
    BY <1>1, <1>2, <1>6, <1>8, <1>9, <1>11, <2>2, LinkOfHolder DEF LinkInv, Link, IsConnected
<1>12. CASE /\ pc[client] = "ended" /\ Goto(d, "returned", NoConn)
            /\ mgr' = SetState(mgr, {"not_connected"})
            /\ opened' = {} /\ client' = NoConn /\ readCoro' = NoConn
  <2>1. mgr'.state = {"not_connected"}
    BY <1>1, <1>12, TurnsFacts, StatesAre DEF LinkInv
  <2>2. pc'[d] = "returned"
    BY <1>12, TurnsFacts DEF Goto, LinkInv, PlaceTyping
  <2>3. TurnLink(d)'
    BY <1>2, <2>2 DEF TurnLink
  <2>4. \A l \in Conns : pc'[l] \in {"none", "ended"}
    BY <1>9, <1>12 DEF LinkInv, Link
  <2> QED
    BY <1>1, <1>2, <1>6, <1>8, <1>12, <2>1, <2>3, <2>4, LinkOfHolder DEF IsConnected
<1> QED
  BY <1>5, <1>10, <1>11, <1>12

(* The link along disconnect(): the socket is closed before the read loop  *)
(* is joined, and the client dropped after both.                           *)
LEMMA DisconnectLink ==
  ASSUME LinkInv, Turns', NEW d \in Disconnects, DisconnectStep(d) PROVE Link'
<1>1. CASE BeginDisconnect(d)
  BY <1>1, Kinds, LeaverLink DEF BeginDisconnect, Leaves
<1>2. CASE UNCHANGED <<mgr, link, cancelled>> /\ Goto(d, "returned", NoConn)
  BY <1>2, Kinds, LinkOfIdle
<1>3. CASE UNCHANGED <<link, cancelled>> /\ ClaimDisconnect(d)
  BY <1>3, ClaimDisconnectLink
<1> QED
  BY <1>1, <1>2, <1>3 DEF DisconnectStep, GoneWake, DisconnectWake

(* The read loop ends with its connection and changes nothing else.        *)
LEMMA LoopLink ==
  ASSUME LinkInv, IsPrompt, NEW l \in Conns, LoopStep(l) \/ LoopData(l)
  PROVE  Link'
<1>0. l \in Tasks /\ l \notin Dialers
  BY Kinds
<1>1. ~LoopCatches(l) /\ ~ReadGarbage(l) /\ ~LoopCancelled(l)
  BY DEF LoopCatches, ReadGarbage, LoopCancelled, IsPrompt, FailsSilently, LinkInv, Link
<1>2. /\ pc \in [Tasks -> CallPlaces \cup LoopPlaces]
      /\ on \in [Tasks -> Conns \cup {NoConn}]
  BY TurnsFacts DEF LinkInv, PlaceTyping
<1>3. CASE /\ UNCHANGED <<mgr, link, cancelled>>
           /\ \/ pc[l] = "start" /\ Goto(l, "wait", client)
              \/ Goto(l, "ended", NoConn)
  <2>1. \A u \in Tasks : u # l => pc'[u] = pc[u] /\ on'[u] = on[u]
    BY <1>0, <1>2, <1>3 DEF Goto
  <2>2. pc'[l] = "ended" \/ (pc[l] = "start" /\ pc'[l] = "wait")
    BY <1>0, <1>2, <1>3 DEF Goto
  <2>3. TurnLink(l)'
    BY <1>0, <2>2 DEF TurnLink
  <2> QED
    BY <1>0, <1>3, <2>1, <2>2, <2>3, LinkStill
<1>4. CASE /\ UNCHANGED <<mgr, link, cancelled>> /\ pc[l] = "wait"
           /\ Parsed(l) \/ (UNCHANGED pc /\ on' = [on EXCEPT ![l] = client])
  <2>1. \A u \in Tasks : /\ \/ pc'[u] = pc[u]
                            \/ pc[u] = "prelude" /\ pc'[u] = "woken"
                         /\ u # l => on'[u] = on[u]
    BY <1>0, <1>2, <1>4 DEF Parsed
  <2>2. pc'[l] = pc[l]
    BY <1>0, <1>4, <2>1
  <2>3. TurnLink(l)'
    BY <1>0, <1>4, <2>2 DEF TurnLink
  <2> QED
    BY <1>0, <1>4, <2>1, <2>2, <2>3, LinkStill
<1>5. CASE pc[l] = "wait" /\ LoopReads(l)
  BY <1>1, <1>3, <1>4, <1>5 DEF LoopReads, Read, ReadNothing, ReadPrelude, ReadUpdate,
     ReadAck, ReadReset
<1>6. CASE LoopTop(l) \/ LoopStops(l)
  BY <1>3, <1>6 DEF LoopTop, LoopStops
<1> QED
  BY <1>1, <1>5, <1>6 DEF LoopStep, LoopData, LoopClosed

(* Every step keeps what the link is at every place of every task.         *)
LEMMA LinkStep ==
  ASSUME LinkInv, TurnsAreKept, IsPrompt, [Next]_vars PROVE LinkInv'
<1>1. TurnsInv'
  BY TurnsStep, InvStep DEF LinkInv, TurnsInv, IsPrompt
<1>2. Turns'
  BY <1>1 DEF TurnsInv
<1>3. ASSUME UNCHANGED vars PROVE Link'
  BY <1>3 DEF vars, LinkInv, Link, TurnLink, Usable
<1>4. ASSUME NEW w \in Watchers, WatchWake(w) PROVE Link'
  <2>1. PICK place \in {"returned", "watchGone"} : Goto(w, place, NoConn)
    BY <1>4 DEF WatchWake, EstablishedStep
  <2> QED
    BY <1>4, <2>1, Kinds, LinkOfIdle DEF WatchWake
<1>5. ASSUME NEW t \in Tasks, CloseStep(t) PROVE Link'
  BY <1>2, <1>5, LeaverLink DEF CloseStep, CloseDone, JoinDone, Leaves
<1>6. Link'
  BY <1>2, <1>3, <1>4, <1>5, StartLink, DialStepLink, DisconnectLink, LoopLink DEF Next
<1> QED
  BY <1>1, <1>6 DEF LinkInv

(* Before any call there is no client and no socket.                       *)
LEMMA LinkInit == Init => LinkInv
<1> SUFFICES ASSUME Init PROVE LinkInv
  OBVIOUS
<1>1. \A t \in Tasks : pc[t] \in {"none", "idle"}
  BY DEF Init
<1>2. \A l \in Conns : pc[l] = "none"
  BY Kinds DEF Init
<1>3. \A t \in Tasks : TurnLink(t)
  BY <1>1 DEF TurnLink
<1>4. mgr.state = {"not_connected"} /\ cancelled = {} /\ readCoro = NoConn
      /\ client = NoConn /\ opened = {}
  BY DEF Init, InitManager
<1>5. Link
  BY <1>2, <1>3, <1>4 DEF Link, IsConnected
<1> QED
  BY <1>5, TurnsInit DEF LinkInv

(* The invariant the theorems below are read off.                          *)
LEMMA LinkHolds ==
  ASSUME TurnsAreKept, IsPrompt PROVE Spec => []LinkInv
BY LinkInit, LinkStep, PTL DEF Spec
-----------------------------------------------------------------------------
(* The theorems about the link.                                            *)

(* One socket and one read loop at most, however often calls connect and   *)
(* disconnect: with a prompt device that fails silently if at all, and     *)
(* calls that do not overlap or attempts none of which is refused.         *)
THEOREM OneLinkAtATime ==
  ASSUME TurnsAreKept, IsPrompt PROVE Spec => []OneLink
<1>1. ASSUME LinkInv PROVE OneLink
  <2>1. opened \subseteq {client} /\ LiveLoops \subseteq {client}
    BY <1>1 DEF LinkInv, Link, LiveLoops, Finished
  <2>2. IsFiniteSet({client}) /\ Cardinality({client}) = 1
    BY FS_Singleton
  <2>3. \A S \in SUBSET {client} : Cardinality(S) <= 1
    BY <2>2, FS_Subset
  <2> QED
    BY <2>1, <2>3 DEF OneLink
<1> QED
  BY <1>1, LinkHolds, PTL

(* Under the same assumptions not_connected says that there is no          *)
(* connection and no attempt.                                              *)
THEOREM NotConnectedIsNothing ==
  ASSUME TurnsAreKept, IsPrompt PROVE Spec => []NotConnectedMeansNothing
<1>1. ASSUME LinkInv PROVE NotConnectedMeansNothing
  <2> SUFFICES ASSUME "not_connected" \in mgr.state
               PROVE  opened = {} /\ \A p \in Dialers : pc[p] \notin Dialing
    BY DEF NotConnectedMeansNothing
  <2>1. opened = {}
    BY <1>1, NoClient DEF LinkInv, Link
  <2>2. ASSUME NEW p \in Dialers PROVE pc[p] \notin Dialing
    <3>1. TurnState(p)
      BY <1>1, Kinds, TurnsFacts DEF LinkInv, Turns
    <3> QED
      BY <3>1 DEF TurnState, Dialing
  <2> QED
    BY <2>1, <2>2
<1> QED
  BY <1>1, LinkHolds, PTL

(* Under the same assumptions connected says, while no call is under way,  *)
(* that the client is open and that disconnect() will join its read loop,  *)
(* which a reset may have ended.                                           *)
THEOREM ConnectedCanBeUsed ==
  ASSUME TurnsAreKept, IsPrompt PROVE Spec => []ConnectedIsUsable
<1>1. ASSUME LinkInv PROVE ConnectedIsUsable
  <2>1. opened \subseteq Conns /\ NoConn \notin Conns
    BY <1>1, TurnsFacts, ConstantsAssumption
       DEF LinkInv, Typing, LinkTyping, ConstantsAssumption
  <2> QED
    BY <1>1, <2>1 DEF LinkInv, Link, Usable, ConnectedIsUsable, Live
<1> QED
  BY <1>1, LinkHolds, PTL

(* What connect() returns, step by step: a claim that finds the backend    *)
(* connected returns its client, and the end of an attempt what it opened. *)
LEMMA ReturnedIsClient ==
  ASSUME LinkInv, FailsSilently, [Next]_vars, NEW q \in Connects,
         pc[q] # "returned", pc'[q] = "returned"
  PROVE  Told(on'[q], client', mgr'.state)
<1>0. /\ q \in Dialers /\ q \in Tasks /\ q \notin Conns
      /\ pc \in [Tasks -> CallPlaces \cup LoopPlaces]
      /\ on \in [Tasks -> Conns \cup {NoConn}]
  BY Kinds, TurnsFacts DEF Dialers, LinkInv, PlaceTyping
<1>1. pc' # pc
  OBVIOUS
<1>2. ASSUME NEW t, NEW place, NEW c, Goto(t, place, c)
      PROVE  t = q /\ place = "returned" /\ on'[q] = c
  <2>1. pc' = [pc EXCEPT ![t] = place] /\ on' = [on EXCEPT ![t] = c]
    BY <1>2 DEF Goto
  <2> QED
    BY <1>0, <2>1
<1>3. ASSUME NEW t, t # q, NEW m, NEW done,
             \/ DisconnectReturns(t, m, done) \/ DisconnectRaises(t, m)
             \/ JoinReadLoop(t, m, done, "joining") \/ StartDoDisconnect(t, m)
      PROVE  FALSE
  BY <1>2, <1>3 DEF DisconnectReturns, DisconnectRaises, JoinReadLoop, StartDoDisconnect
<1>4. ASSUME NEW p, NEW c, NEW others, NEW parsed,
             AwaitResponse(p, c, others, parsed),
             others \in [Tasks -> CallPlaces \cup LoopPlaces], others[q] # "returned"
      PROVE  FALSE
  <2>1. PICK place : pc' = [others EXCEPT ![p] = place] /\ place # "returned"
    BY <1>4 DEF AwaitResponse
  <2> QED
    BY <1>0, <1>4, <2>1
<1>5. ASSUME NEW p, NEW r, NEW c, ConnectReturns(p, r, c) PROVE p = q /\ on'[q] = r
  BY <1>2, <1>5, ConstantsAssumption DEF ConnectReturns, ConstantsAssumption
<1>6. ASSUME NEW p \in Dialers, ClaimAttempt(p) \/ EnterConnect(p), UNCHANGED link
      PROVE  Told(on'[q], client', mgr'.state)
  <2>1. ClaimAttempt(p)
    BY <1>2, <1>6 DEF EnterConnect
  <2>2. IsConnected(mgr.state) /\ on'[q] = client /\ client' = client /\ mgr' = mgr
    BY <1>2, <1>5, <1>6, <2>1 DEF ClaimAttempt, link
  <2>3. client # NoConn
    BY <2>2, TurnsFacts, ConstantsAssumption
       DEF LinkInv, Link, Usable, Typing, LinkTyping, ConstantsAssumption
  <2> QED
    BY <2>2, <2>3 DEF Told
<1>7. ASSUME Start PROVE Told(on'[q], client', mgr'.state)
  <2>1. ASSUME NEW p \in Connects, StartConnect(p)
        PROVE  Told(on'[q], client', mgr'.state)
    BY <1>6, <2>1 DEF StartConnect, Dialers
  <2>2. ASSUME NEW p \in Sends, StartSend(p) PROVE FALSE
    <3>1. p # q
      BY ConstantsAssumption DEF ConstantsAssumption
    <3> QED
      BY <1>2, <1>5, <2>2, <3>1 DEF StartSend, EnterConnect, ClaimAttempt
  <2>3. ASSUME NEW d \in Disconnects, StartDisconnect(d) PROVE FALSE
    BY <1>0, <1>2, <2>3, Kinds DEF StartDisconnect, ClaimDisconnect
  <2>4. ASSUME NEW w \in Watchers, StartWatch(w) PROVE FALSE
    BY <1>0, <1>2, <2>4, Kinds DEF StartWatch, EstablishedStep
  <2> QED
    BY <1>7, <2>1, <2>2, <2>3, <2>4 DEF Start
<1>8. ASSUME NEW p \in Dialers, Finish(p)
      PROVE  Told(on'[q], client', mgr'.state)
  <2>1. p = q /\ on'[q] = on[p]
    BY <1>5, <1>8 DEF Finish
  <2>2. CASE on[p] # NoConn
    <3>1. on[p] = client /\ client # NoConn /\ mgr.state = {"connecting"}
      BY <1>0, <1>8, <2>1, <2>2 DEF Finish, LinkInv, Link, TurnLink
    <3>2. client' = client /\ mgr' = SetState(mgr, {"connected"})
      BY <1>8, <3>1 DEF Finish
    <3> QED
      BY <2>1, <3>1, <3>2, TurnsFacts, StatesAre DEF LinkInv, IsConnected, Told
  <2>3. CASE on[p] = NoConn
    <3>0. "unknown" \in Reasons
      BY DEF Reasons
    <3>1. SetFailure(mgr, "unknown").state = {"disconnecting", "failure"}
      BY <3>0, TurnsFacts, StatesAre DEF LinkInv
    <3>2. \/ mgr' = SetState(SetFailure(mgr, "unknown"), {"not_connected"})
          \/ mgr' = SetState(mgr, {"not_connected"}) /\ "failure" \in mgr.state
      BY <1>8, <2>3, <3>1 DEF Finish
    <3>3. mgr'.state = {"not_connected", "failure"}
      BY <3>0, <3>2, TurnsFacts, StatesAre DEF LinkInv
    <3> QED
      BY <2>1, <2>3, <3>3 DEF IsConnected, Told
  <2> QED
    BY <2>2, <2>3
<1>9. ASSUME NEW p \in Dialers, DialStep(p)
      PROVE  Told(on'[q], client', mgr'.state)
  <2>1. CASE ConnectWake(p)
    BY <1>6, <2>1 DEF ConnectWake
  <2>2. ~Dial(p) /\ ~PreludeWake(p) /\ ~DialTimeoutJoin(p)
    BY <1>0 DEF Dial, PreludeWake, DialTimeoutJoin
  <2>3. ~NapOver(p)
    BY <1>0, <1>2, <1>4 DEF NapOver
  <2>4. ~OpenOk(p)
    <3> SUFFICES ASSUME OpenOk(p) PROVE FALSE
      OBVIOUS
    <3>1. PICK c \in Conns : AwaitResponse(p, c, [pc EXCEPT ![c] = "start"], FALSE)
      BY DEF OpenOk
    <3>2. /\ [pc EXCEPT ![c] = "start"] \in [Tasks -> CallPlaces \cup LoopPlaces]
          /\ [pc EXCEPT ![c] = "start"][q] # "returned"
      BY <1>0 DEF LoopPlaces
    <3> QED
      BY <1>4, <3>1, <3>2
  <2>5. ~OpenRefused(p)
    BY <1>2 DEF OpenRefused, DisconnectReturns, DisconnectRaises
  <2>6. ~OpenFailed(p) /\ ~DialTimeout(p) /\ ~DialJoined(p)
    BY <1>2 DEF OpenFailed, DialTimeout, DialJoined
  <2>7. ~WriteDone(p)
    BY <1>2, ConstantsAssumption DEF WriteDone, ConstantsAssumption
  <2>8. ~WriteFails(p)
    BY DEF WriteFails, FailsSilently
  <2> QED
    BY <1>8, <1>9, <2>1, <2>2, <2>3, <2>4, <2>5, <2>6, <2>7, <2>8 DEF DialStep
<1>10. ASSUME NEW d \in Disconnects, DisconnectStep(d) PROVE FALSE
  BY <1>0, <1>2, <1>3, <1>10, Kinds DEF DisconnectStep, GoneWake, DisconnectWake,
     BeginDisconnect, ClaimDisconnect
<1>11. ASSUME NEW w \in Watchers, WatchWake(w) PROVE FALSE
  BY <1>0, <1>2, <1>11, Kinds DEF WatchWake, EstablishedStep
<1>12. ASSUME NEW t \in Tasks, CloseStep(t) PROVE FALSE
  <2>1. t \in Disconnects
    BY <1>12, TurnsFacts
       DEF CloseStep, CloseDone, JoinDone, Leaves, LinkInv, Turns, TurnState
  <2> QED
    BY <1>0, <1>3, <1>12, <2>1, Kinds DEF CloseStep, CloseDone, JoinDone
<1>13. ASSUME NEW c \in Conns, LoopStep(c) \/ LoopData(c) PROVE FALSE
  <2>1. ~Parsed(c)
    BY <1>0 DEF Parsed
  <2>2. ~LoopReads(c)
    BY <1>1, <1>2, <2>1 DEF LoopReads, Read, ReadNothing, ReadPrelude, ReadUpdate,
       ReadAck, ReadGarbage, ReadReset
  <2>3. ~LoopTop(c) /\ ~LoopStops(c) /\ ~LoopCancelled(c)
    BY <1>1, <1>2 DEF LoopTop, LoopStops, LoopCancelled, Finished
  <2>4. ~LoopCatches(c)
    BY DEF LoopCatches, FailsSilently
  <2> QED
    BY <1>13, <2>2, <2>3, <2>4 DEF LoopStep, LoopData, LoopClosed
<1> QED
  BY <1>1, <1>7, <1>9, <1>10, <1>11, <1>12, <1>13 DEF Next, vars

(* connect() hands out the backend's client when the state is connected    *)
(* and nothing when it is not, however calls overlap if no attempt is      *)
(* refused, and in turn if one may be; with a prompt device.               *)
THEOREM ConnectHandsOutClient ==
  ASSUME TurnsAreKept, IsPrompt PROVE Spec => ConnectReturnsClient
<1>1. LinkInv /\ [Next]_vars =>
        [\A p \in Connects :
           (pc[p] # "returned" /\ pc'[p] = "returned")
             => Told(on'[p], client', mgr'.state)]_vars
  BY ReturnedIsClient DEF IsPrompt
<1> QED
  BY <1>1, LinkHolds, PTL DEF Spec, ConnectReturnsClient
=============================================================================
