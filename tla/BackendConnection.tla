------------------------- MODULE BackendConnection -------------------------
(***************************************************************************)
(* One telnet backend and everything that connects and disconnects it:     *)
(* BackendBase.connect / disconnect / _catch_exception (backends/base.py)  *)
(* together with read_loop, do_connect, do_disconnect, wait_for_response   *)
(* and send_to_client (backends/telnet.py).                                *)
(*                                                                         *)
(* The program is cooperative: a step runs from one suspension point of a  *)
(* coroutine to its next one.  The manager's lock is never held across a   *)
(* suspension here (module ConnectionManager shows what the lock and its   *)
(* condition then guarantee), so an "async with manager" block is one step *)
(* and a task blocked in wait_for is one whose predicate guards its step.  *)
(***************************************************************************)
EXTENDS ConnectionState, Naturals, FiniteSets

CONSTANTS
  Connects,     \* calls of connect()
  Disconnects,  \* calls of disconnect()
  Sends,        \* calls of send_to_client(), which connects when needed
  Watchers,     \* calls of wait_for_established() by an onlooker
  Conns,        \* _Telnet objects; the read loop created for one bears its name
  NoConn,       \* None
  Faults,       \* what can go wrong in this environment, see AllFaults
  Overlap       \* FALSE: no call connects while another one is connecting

AllFaults ==
  {"refused",      \* open raises an OSError that _catch_exception reports
   "oserror",      \* open raises any other OSError
   "timeout",      \* the two seconds of wait_for(do_connect()) run out
   "reset",        \* reading raises an exception that is only logged
   "unreachable",  \* reading or writing raises a reported OSError
   "garbage",      \* parse_rx_bfr raises (a line cut by a read, bad text)
   "stray_ack"}    \* an ACK line nobody was waiting for

Dialers == Connects \cup Sends
Calls == Dialers \cup Disconnects \cup Watchers
Tasks == Calls \cup Conns

ASSUME ConstantsAssumption ==
  /\ Connects \cap Sends = {}
  /\ Dialers \cap Disconnects = {}
  /\ (Dialers \cup Disconnects) \cap Watchers = {}
  /\ Calls \cap Conns = {}
  /\ NoConn \notin Conns
  /\ Faults \subseteq AllFaults
  /\ Overlap \in BOOLEAN

VARIABLES
  mgr,            \* connection_manager: state and failure_reason
  client,         \* self.client
  opened,         \* the _Telnet objects not closed by this program
  greeted,        \* those whose device has sent END PRELUDE
  readEnabled,    \* self.read_enabled
  preludeParsed,  \* self.prelude_parsed
  ackOrNak,       \* self.ack_or_nak is not None
  ready,          \* the flag of the current self.response_ready
  readCoro,       \* self.read_coro
  pc,             \* where each task is suspended
  on,             \* the connection it is blocked on, or its local result
  cancelled       \* read loops whose cancellation was requested

vars == <<mgr, client, opened, greeted, readEnabled, preludeParsed, ackOrNak,
          ready, readCoro, pc, on, cancelled>>

device == <<greeted, preludeParsed, ackOrNak>>
link == <<client, opened, readEnabled, readCoro>>

-----------------------------------------------------------------------------
(* Where tasks are.                                                        *)

\* Inside wait_for(do_connect(), timeout=2).
Opening == {"open", "prelude", "stranded", "woken", "nap"}
Dialing == Opening \cup {"dialJoin", "dialCancel"}
\* Between "connecting" and the return of connect().
Connecting == Dialing \cup {"yield", "finish"}
Returned == {"returned", "raised", "asserted"}
Finished == {"ended", "raised"}

CallPlaces == Connecting \cup Returned \cup
  {"idle", "connectWait", "disconnectWait", "goneWait", "yieldDisconnect",
   "write", "closing", "joining", "watch", "watchGone"}
LoopPlaces == {"none", "start", "wait", "closing", "joining"} \cup Finished

TypeOK ==
  /\ mgr \in Managers
  /\ client \in Conns \cup {NoConn}
  /\ opened \subseteq Conns
  /\ greeted \subseteq Conns
  /\ readEnabled \in BOOLEAN
  /\ preludeParsed \in BOOLEAN
  /\ ackOrNak \in BOOLEAN
  /\ ready \in BOOLEAN
  /\ readCoro \in Conns \cup {NoConn}
  /\ pc \in [Tasks -> CallPlaces \cup LoopPlaces]
  /\ \A p \in Calls : pc[p] \in CallPlaces
  /\ \A c \in Conns : pc[c] \in LoopPlaces
  /\ on \in [Tasks -> Conns \cup {NoConn}]
  /\ cancelled \subseteq Conns

Init ==
  /\ mgr = InitManager
  /\ client = NoConn
  /\ opened = {}
  /\ greeted = {}
  /\ readEnabled = FALSE
  /\ preludeParsed = FALSE
  /\ ackOrNak = FALSE
  /\ ready = FALSE
  /\ readCoro = NoConn
  /\ pc = [t \in Tasks |-> IF t \in Conns THEN "none" ELSE "idle"]
  /\ on = [t \in Tasks |-> NoConn]
  /\ cancelled = {}

Goto(t, place, c) == /\ pc' = [pc EXCEPT ![t] = place]
                     /\ on' = [on EXCEPT ![t] = c]

\* The client can still be read: _Telnet.close drops its reader and writer.
Live(c) == c # NoConn /\ c \in opened

-----------------------------------------------------------------------------
(***************************************************************************)
(* do_disconnect.  Its caller is a disconnect() call or, in                *)
(* _catch_exception, a read loop, a send or a failed dial; they differ in  *)
(* what runs when it returns and when it raises.                           *)
(***************************************************************************)

\* Mutant: the client is gone but the state still says disconnecting.
Bug_LeaveDisconnecting(t, m, done) ==
  /\ mgr' = m
  /\ client' = NoConn
  /\ readCoro' = NoConn
  /\ Goto(t, done, NoConn)

\* It returned: the caller clears the client and sets not_connected.
DisconnectReturns(t, m, done) ==
  /\ mgr' = SetState(m, {"not_connected"})
  /\ client' = NoConn
  /\ readCoro' = NoConn
  /\ Goto(t, done, NoConn)

\* It raised.  _catch_exception cleans up in a finally clause, disconnect()
\* has none.
DisconnectRaises(t, m) ==
  /\ IF t \in Disconnects
     THEN mgr' = m /\ UNCHANGED client
     ELSE mgr' = SetState(m, {"not_connected"}) /\ client' = NoConn
  /\ UNCHANGED readCoro
  /\ Goto(t, "raised", NoConn)

\* Where the read loop is that a join would await; none is as good as ended.
ReadLoop == IF readCoro = NoConn THEN "ended" ELSE pc[readCoro]

Done(t) == IF t \in Conns THEN "ended" ELSE "returned"

\* Mutant: do_disconnect does not wait for a read loop that still runs.
Bug_NoJoin(t, m, done, joining) ==
  IF ReadLoop = "raised" THEN DisconnectRaises(t, m)
                         ELSE DisconnectReturns(t, m, done)

\* "if self.read_coro is not None: await self.read_coro".  Awaiting a task
\* that is over does not suspend, and re-raises what ended it.
JoinReadLoop(t, m, done, joining) ==
  \/ /\ ReadLoop = "ended"
     /\ DisconnectReturns(t, m, done)
  \/ /\ ReadLoop = "raised"
     /\ DisconnectRaises(t, m)
  \/ /\ ReadLoop \notin Finished
     /\ mgr' = m
     /\ UNCHANGED <<client, readCoro>>
     /\ Goto(t, joining, readCoro)

\* From its first line to its first suspension, with the manager at m.
StartDoDisconnect(t, m) ==
  /\ readEnabled' = FALSE
  /\ UNCHANGED <<opened, ready, cancelled, device>>
  /\ \/ /\ client = NoConn
        /\ JoinReadLoop(t, m, Done(t), "joining")
     \/ /\ client # NoConn
        /\ mgr' = m
        /\ UNCHANGED <<client, readCoro>>
        /\ Goto(t, "closing", client)

\* close_async is over; read loops waiting for its data are woken.
CloseDone(t) ==
  /\ pc[t] = "closing"
  /\ opened' = opened \ {on[t]}
  /\ JoinReadLoop(t, mgr, Done(t), "joining")
  /\ UNCHANGED <<readEnabled, ready, cancelled, device>>

\* The awaited read loop is over, or is the very task that awaits it
\* ("Task cannot await on itself").
JoinDone(t) ==
  /\ pc[t] = "joining"
  /\ \/ pc[on[t]] = "ended" /\ DisconnectReturns(t, mgr, Done(t))
     \/ (on[t] = t \/ pc[on[t]] = "raised") /\ DisconnectRaises(t, mgr)
  /\ UNCHANGED <<opened, readEnabled, ready, cancelled, device>>

-----------------------------------------------------------------------------
(* connect(), up to the state it leaves the lock in.                       *)

\* connect() returns; send_to_client goes on with whatever the client is now.
ConnectReturns(p, result, c) ==
  \/ p \in Connects /\ Goto(p, "returned", result)
  \/ p \in Sends /\ c # NoConn /\ Goto(p, "write", c)
  \/ p \in Sends /\ c = NoConn /\ Goto(p, "returned", NoConn)

\* Mutant: the state is not set to connecting before the dial.
Bug_QuietAttempt(p) ==
  \/ /\ IsConnected(mgr.state)
     /\ ConnectReturns(p, client, client)
     /\ UNCHANGED mgr
  \/ /\ ~IsConnected(mgr.state)
     /\ Goto(p, "yield", NoConn)
     /\ UNCHANGED mgr

\* The rest of the first locked block, once any waiting is over.
ClaimAttempt(p) ==
  \/ /\ IsConnected(mgr.state)
     /\ ConnectReturns(p, client, client)
     /\ UNCHANGED mgr
  \/ /\ ~IsConnected(mgr.state)
     /\ IF "not_connected" \in mgr.state
        THEN mgr' = SetState(mgr, {"connecting"}) /\ Goto(p, "yield", NoConn)
        ELSE UNCHANGED mgr /\ Goto(p, "asserted", NoConn)

\* Mutant: beside an attempt, connect() returns what client there is so far.
Bug_ReturnBeside(p) ==
  \/ /\ mgr.state \cap Waiting = {}
     /\ ClaimAttempt(p)
  \/ /\ mgr.state \cap Waiting # {}
     /\ ConnectReturns(p, client, client)
     /\ UNCHANGED mgr

EnterConnect(p) ==
  \/ /\ mgr.state \cap Waiting = {}
     /\ ClaimAttempt(p)
  \/ /\ mgr.state \cap Waiting # {}
     /\ Goto(p, "connectWait", NoConn)
     /\ UNCHANGED mgr

MayConnect == Overlap \/ \A q \in Dialers : pc[q] \notin Connecting \cup {"connectWait"}

StartConnect(p) ==
  /\ p \in Connects
  /\ pc[p] = "idle"
  /\ MayConnect
  /\ EnterConnect(p)
  /\ UNCHANGED <<link, ready, cancelled, device>>

StartSend(p) ==
  /\ p \in Sends
  /\ pc[p] = "idle"
  /\ \/ /\ "failure" \in mgr.state
        /\ Goto(p, "returned", NoConn)
        /\ UNCHANGED mgr
     \/ /\ IsConnected(mgr.state)
        /\ ConnectReturns(p, client, client)
        /\ UNCHANGED mgr
     \/ /\ "failure" \notin mgr.state /\ ~IsConnected(mgr.state)
        /\ MayConnect
        /\ EnterConnect(p)
  /\ UNCHANGED <<link, ready, cancelled, device>>

ConnectWake(p) ==
  /\ pc[p] = "connectWait"
  /\ WaitPredicate(Settled, mgr.state)
  /\ ClaimAttempt(p)
  /\ UNCHANGED <<link, ready, cancelled, device>>

-----------------------------------------------------------------------------
(***************************************************************************)
(* do_connect, run under wait_for(..., timeout=2).  Each run replaces the  *)
(* response_ready Event: whoever waits on the one it replaces is stranded. *)
(***************************************************************************)

Dial(p) ==
  /\ pc[p] = "yield"
  /\ ready' = FALSE
  /\ pc' = [q \in Tasks |-> IF q = p THEN "open"
                            ELSE IF pc[q] = "prelude" THEN "stranded"
                            ELSE pc[q]]
  /\ UNCHANGED <<mgr, link, on, cancelled, device>>

\* A _Telnet object nothing refers to any more may be allocated again.
Fresh(c) == /\ pc[c] \in Finished \cup {"none"}
            /\ c \notin opened \cup {client, readCoro}
            /\ \A t \in Tasks : on[t] # c

\* wait_for_response about to look at response_ready: it goes straight on
\* when the Event is set already.  c is the client do_connect will return.
AwaitResponse(p, c, others, parsed) ==
  /\ ready' = FALSE
  /\ pc' = [others EXCEPT ![p] = IF ~ready THEN "prelude"
                                 ELSE IF parsed THEN "finish" ELSE "nap"]
  /\ on' = [on EXCEPT ![p] = c]

OpenOk(p) ==
  /\ pc[p] = "open"
  /\ \E c \in Conns :
       /\ Fresh(c)
       /\ client' = c
       /\ opened' = opened \cup {c}
       /\ greeted' = greeted \ {c}
       /\ cancelled' = cancelled \ {c}
       /\ readCoro' = c
       /\ AwaitResponse(p, c, [pc EXCEPT ![c] = "start"], FALSE)
  /\ readEnabled' = TRUE
  /\ preludeParsed' = FALSE
  /\ UNCHANGED <<mgr, ackOrNak>>

\* do_connect catches the OSError: reported by _catch_exception, which finds
\* no client but may find the read loop of an earlier connection ...
OpenRefused(p) ==
  /\ "refused" \in Faults
  /\ pc[p] = "open"
  /\ readEnabled' = FALSE
  /\ \/ /\ ReadLoop = "ended"
        /\ DisconnectReturns(p, SetFailure(mgr, "reported"), "finish")
     \/ /\ ReadLoop = "raised"
        /\ DisconnectRaises(p, SetFailure(mgr, "reported"))
     \/ /\ ReadLoop \notin Finished
        /\ mgr' = SetFailure(mgr, "reported")
        /\ client' = NoConn
        /\ UNCHANGED readCoro
        /\ Goto(p, "dialJoin", readCoro)
  /\ UNCHANGED <<opened, ready, cancelled, device>>

\* ... or only logged.
OpenFailed(p) ==
  /\ "oserror" \in Faults
  /\ pc[p] = "open"
  /\ client' = NoConn
  /\ Goto(p, "finish", NoConn)
  /\ UNCHANGED <<mgr, opened, readEnabled, readCoro, ready, cancelled, device>>

PreludeWake(p) ==
  /\ pc[p] = "woken"
  /\ ready' = FALSE
  /\ pc' = [pc EXCEPT ![p] = IF preludeParsed THEN "finish" ELSE "nap"]
  /\ UNCHANGED <<mgr, link, on, cancelled, device>>

\* After sleep(.1): any ACK or NAK ends the wait, and so does a read_enabled
\* that was cleared meanwhile.
NapOver(p) ==
  /\ pc[p] = "nap"
  /\ \/ /\ ackOrNak \/ ~readEnabled
        /\ Goto(p, "finish", on[p])
        /\ ackOrNak' = FALSE
        /\ UNCHANGED ready
     \/ /\ ~ackOrNak /\ readEnabled
        /\ AwaitResponse(p, on[p], pc, preludeParsed)
        /\ UNCHANGED ackOrNak
  /\ UNCHANGED <<mgr, link, greeted, preludeParsed, cancelled>>

\* Mutant: only the opening is timed, not the wait for the prelude.
Bug_TimedOpening(p) ==
  /\ "timeout" \in Faults
  /\ pc[p] = "open"
  /\ Goto(p, "finish", NoConn)
  /\ UNCHANGED <<mgr, link, ready, cancelled, device>>

\* The two seconds are over.  What do_connect had set up stays.
DialTimeout(p) ==
  /\ "timeout" \in Faults
  /\ pc[p] \in Opening
  /\ Goto(p, "finish", NoConn)
  /\ UNCHANGED <<mgr, link, ready, cancelled, device>>

\* Cancelled while it awaits a read loop, which is cancelled with it.
DialTimeoutJoin(p) ==
  /\ "timeout" \in Faults
  /\ pc[p] = "dialJoin"
  /\ pc' = [pc EXCEPT ![p] = "dialCancel"]
  /\ cancelled' = cancelled \cup {on[p]}
  /\ UNCHANGED <<mgr, link, ready, on, device>>

DialJoined(p) ==
  /\ pc[p] \in {"dialJoin", "dialCancel"}
  /\ pc[on[p]] \in Finished
  /\ mgr' = SetState(mgr, {"not_connected"})
  /\ client' = NoConn
  /\ readCoro' = IF pc[on[p]] = "ended" THEN NoConn ELSE readCoro
  /\ IF pc[p] = "dialJoin" /\ pc[on[p]] = "raised"
     THEN Goto(p, "raised", NoConn)
     ELSE Goto(p, "finish", NoConn)
  /\ UNCHANGED <<opened, readEnabled, ready, cancelled, device>>

\* Mutant: connect() does not look for a failure before it says connected.
Bug_FinishBlindly(p) ==
  /\ pc[p] = "finish"
  /\ mgr' = IF on[p] = NoConn THEN SetState(SetFailure(mgr, "unknown"), Gone)
                              ELSE SetState(mgr, {"connected"})
  /\ ConnectReturns(p, on[p], client)
  /\ UNCHANGED <<link, ready, cancelled, device>>

\* Mutant: an unreported False from do_connect is taken for a success.
Bug_FinishFalse(p) ==
  /\ pc[p] = "finish"
  /\ mgr' = SetState(mgr, IF "failure" \in mgr.state
                         THEN {"not_connected"} ELSE {"connected"})
  /\ ConnectReturns(p, on[p], client)
  /\ UNCHANGED <<link, ready, cancelled, device>>

\* Mutant: connect() returns False without touching the state.
Bug_FinishEarly(p) ==
  /\ pc[p] = "finish"
  /\ mgr' = IF on[p] # NoConn /\ "failure" \notin mgr.state
            THEN SetState(mgr, {"connected"}) ELSE mgr
  /\ ConnectReturns(p, on[p], client)
  /\ UNCHANGED <<link, ready, cancelled, device>>

\* The last locked block of connect(); on[p] is r, None standing for False.
Finish(p) ==
  LET m == IF on[p] = NoConn /\ "failure" \notin mgr.state
           THEN SetFailure(mgr, "unknown") ELSE mgr
      c == IF "failure" \notin m.state /\ client # NoConn
           THEN on[p] ELSE client
  IN  /\ pc[p] = "finish"
      /\ mgr' = SetState(m, IF "failure" \in m.state
                            THEN {"not_connected"} ELSE {"connected"})
      /\ client' = c
      /\ ConnectReturns(p, on[p], c)
      /\ UNCHANGED <<opened, readEnabled, readCoro, ready, cancelled, device>>

-----------------------------------------------------------------------------
(* disconnect().                                                           *)

\* Mutant: the state says not_connected before the socket is closed.
Bug_EarlyGone(p) == /\ mgr' = SetState(mgr, Gone)
                    /\ Goto(p, "yieldDisconnect", NoConn)

ClaimDisconnect(p) ==
  IF IsConnected(mgr.state)
  THEN /\ mgr' = SetState(mgr, {"disconnecting"})
       /\ Goto(p, "yieldDisconnect", NoConn)
  ELSE Goto(p, "asserted", NoConn) /\ UNCHANGED mgr

StartDisconnect(p) ==
  /\ p \in Disconnects
  /\ pc[p] = "idle"
  /\ \/ /\ "not_connected" \in mgr.state
        /\ Goto(p, "returned", NoConn)
        /\ UNCHANGED mgr
     \/ /\ "disconnecting" \in mgr.state
        /\ Goto(p, "goneWait", NoConn)
        /\ UNCHANGED mgr
     \/ /\ "connecting" \in mgr.state
        /\ Goto(p, "disconnectWait", NoConn)
        /\ UNCHANGED mgr
     \/ /\ mgr.state \cap {"not_connected", "disconnecting", "connecting"} = {}
        /\ ClaimDisconnect(p)
  /\ UNCHANGED <<link, ready, cancelled, device>>

GoneWake(p) ==
  /\ pc[p] = "goneWait"
  /\ WaitPredicate(Gone, mgr.state)
  /\ Goto(p, "returned", NoConn)
  /\ UNCHANGED <<mgr, link, ready, cancelled, device>>

DisconnectWake(p) ==
  /\ pc[p] = "disconnectWait"
  /\ WaitPredicate(Settled, mgr.state)
  /\ IF WaitResult(Settled, mgr.state) = Gone
     THEN Goto(p, "returned", NoConn) /\ UNCHANGED mgr
     ELSE ClaimDisconnect(p)
  /\ UNCHANGED <<link, ready, cancelled, device>>

BeginDisconnect(p) ==
  /\ pc[p] = "yieldDisconnect"
  /\ StartDoDisconnect(p, mgr)

-----------------------------------------------------------------------------
(* send_to_client, once it has a client to write to.                       *)

\* Written, or failed with an exception that is only logged.
WriteDone(p) ==
  /\ p \in Sends
  /\ pc[p] = "write"
  /\ Goto(p, "returned", NoConn)
  /\ UNCHANGED <<mgr, link, ready, cancelled, device>>

WriteFails(p) ==
  /\ "unreachable" \in Faults
  /\ p \in Sends
  /\ pc[p] = "write"
  /\ Live(on[p])
  /\ StartDoDisconnect(p, SetFailure(mgr, "reported"))

-----------------------------------------------------------------------------
(* wait_for_established().                                                 *)

EstablishedStep(w, result) ==
  IF result \cap {"failure", "disconnecting"} = {}
  THEN Goto(w, "returned", NoConn)
  ELSE Goto(w, IF WaitPredicate(Gone, mgr.state)
               THEN "returned" ELSE "watchGone", NoConn)

StartWatch(w) ==
  /\ w \in Watchers
  /\ pc[w] = "idle"
  /\ \/ /\ WaitPredicate(Decided, mgr.state)
        /\ EstablishedStep(w, mgr.state)
     \/ /\ ~WaitPredicate(Decided, mgr.state)
        /\ Goto(w, "watch", NoConn)
  /\ UNCHANGED <<mgr, link, ready, cancelled, device>>

WatchWake(w) ==
  /\ \/ /\ pc[w] = "watch"
        /\ WaitPredicate(Decided, mgr.state)
        /\ EstablishedStep(w, WaitResult(Decided, mgr.state))
     \/ /\ pc[w] = "watchGone"
        /\ WaitPredicate(Gone, mgr.state)
        /\ Goto(w, "returned", NoConn)
  /\ UNCHANGED <<mgr, link, ready, cancelled, device>>

-----------------------------------------------------------------------------
(***************************************************************************)
(* read_loop.  It looks self.client up each time it needs it, so a loop    *)
(* that outlived its connection goes on with the next one.                 *)
(***************************************************************************)

\* An exception from self.client being None or closed is only logged.
LoopTop(c) ==
  /\ pc[c] = "start"
  /\ IF readEnabled /\ Live(client)
     THEN Goto(c, "wait", client)
     ELSE Goto(c, "ended", NoConn)
  /\ UNCHANGED <<mgr, link, ready, cancelled, device>>

\* Mutant: the read loops are woken with those who wait for a response.
Bug_WakeAll(c) ==
  /\ ready' = TRUE
  /\ pc' = [q \in Tasks |-> IF pc[q] \in {"prelude", "wait"} THEN "woken"
                            ELSE pc[q]]
  /\ on' = [on EXCEPT ![c] = client]

\* parse_rx_bfr came to its end: response_ready is set and its waiters woken.
Parsed(c) ==
  /\ ready' = TRUE
  /\ pc' = [q \in Tasks |-> IF pc[q] = "prelude" THEN "woken" ELSE pc[q]]
  /\ on' = [on EXCEPT ![c] = client]

\* What one round of read_very_eager and parse_rx_bfr on self.client does.
ReadNothing(c) == /\ on' = [on EXCEPT ![c] = client]
                  /\ UNCHANGED <<ready, pc, device>>

ReadPrelude(c) == /\ client \notin greeted
                  /\ greeted' = greeted \cup {client}
                  /\ preludeParsed' = TRUE
                  /\ Parsed(c)
                  /\ UNCHANGED ackOrNak

ReadUpdate(c) == Parsed(c) /\ UNCHANGED device

ReadAck(c) == /\ "stray_ack" \in Faults
              /\ ackOrNak' = TRUE
              /\ Parsed(c)
              /\ UNCHANGED <<greeted, preludeParsed>>

ReadGarbage(c) == /\ "garbage" \in Faults
                  /\ Goto(c, "raised", NoConn)
                  /\ UNCHANGED <<ready, device>>

ReadReset(c) == /\ "reset" \in Faults
                /\ Goto(c, "ended", NoConn)
                /\ UNCHANGED <<ready, device>>

Read(c) == \/ ReadNothing(c) \/ ReadPrelude(c) \/ ReadUpdate(c)
           \/ ReadAck(c) \/ ReadGarbage(c) \/ ReadReset(c)

LoopReads(c) ==
  /\ readEnabled /\ Live(client)
  /\ Read(c)
  /\ UNCHANGED <<mgr, link, cancelled>>

LoopStops(c) ==
  /\ ~(readEnabled /\ Live(client))
  /\ Goto(c, "ended", NoConn)
  /\ UNCHANGED <<mgr, link, ready, cancelled, device>>

LoopCatches(c) ==
  /\ "unreachable" \in Faults
  /\ readEnabled /\ Live(client)
  /\ StartDoDisconnect(c, SetFailure(mgr, "reported"))

\* Data arrived on the connection the loop waits on: the device's choice.
LoopData(c) ==
  /\ pc[c] = "wait"
  /\ on[c] \in opened
  /\ LoopReads(c) \/ LoopStops(c) \/ LoopCatches(c)

\* That connection was closed, which sets its read_ready_event as well.
LoopClosed(c) ==
  /\ pc[c] = "wait"
  /\ on[c] \notin opened
  /\ LoopReads(c) \/ LoopStops(c) \/ LoopCatches(c)

\* The cancellation reaches the loop.  At its wait, Python 3.6 and 3.7 hand
\* CancelledError to "except Exception", which returns; later ones let it end
\* the task.  Inside _catch_exception the finally clause runs; a loop that
\* awaits another one passes the cancellation on.
LoopCancelled(c) ==
  /\ c \in cancelled
  /\ \/ /\ pc[c] \in {"start", "wait"}
        /\ \E place \in Finished : Goto(c, place, NoConn)
        /\ UNCHANGED <<mgr, client, cancelled>>
     \/ /\ pc[c] = "closing"
        /\ mgr' = SetState(mgr, {"not_connected"})
        /\ client' = NoConn
        /\ Goto(c, "raised", NoConn)
        /\ UNCHANGED cancelled
     \/ /\ pc[c] = "joining"
        /\ cancelled' = cancelled \cup {on[c]}
        /\ UNCHANGED <<mgr, client, pc, on>>
  /\ UNCHANGED <<opened, readEnabled, readCoro, ready, device>>

-----------------------------------------------------------------------------
Start == \/ \E p \in Connects : StartConnect(p)
         \/ \E p \in Sends : StartSend(p)
         \/ \E p \in Disconnects : StartDisconnect(p)
         \/ \E w \in Watchers : StartWatch(w)

DialStep(p) == \/ ConnectWake(p) \/ Dial(p) \/ PreludeWake(p) \/ NapOver(p)
               \/ OpenOk(p) \/ OpenRefused(p) \/ OpenFailed(p)
               \/ DialTimeout(p) \/ DialTimeoutJoin(p) \/ DialJoined(p)
               \/ Finish(p) \/ WriteDone(p) \/ WriteFails(p)

DisconnectStep(p) == GoneWake(p) \/ DisconnectWake(p) \/ BeginDisconnect(p)

CloseStep(t) == CloseDone(t) \/ JoinDone(t)

LoopStep(c) == LoopTop(c) \/ LoopClosed(c) \/ LoopCancelled(c)

Next == \/ Start
        \/ \E p \in Dialers : DialStep(p)
        \/ \E p \in Disconnects : DisconnectStep(p)
        \/ \E w \in Watchers : WatchWake(w)
        \/ \E t \in Tasks : CloseStep(t)
        \/ \E c \in Conns : LoopStep(c) \/ LoopData(c)

(***************************************************************************)
(* Nobody has to call anything and a device need not say anything.  The    *)
(* event loop runs every task that can go on, and the two-second timer of  *)
(* connect() fires unless the dial is over before.                         *)
(***************************************************************************)
Fairness ==
  /\ \A p \in Dialers : /\ WF_vars(DialStep(p))
                        /\ WF_vars(DialTimeout(p) \/ DialTimeoutJoin(p))
  /\ \A p \in Disconnects : WF_vars(DisconnectStep(p))
  /\ \A w \in Watchers : WF_vars(WatchWake(w))
  /\ \A t \in Tasks : WF_vars(CloseStep(t))
  /\ \A c \in Conns : WF_vars(LoopStep(c))

Spec == Init /\ [][Next]_vars

FairSpec == Spec /\ Fairness

-----------------------------------------------------------------------------
(* Safety, for every environment and any overlap of the calls.             *)

\* The manager of a backend only ever holds one lifecycle flag, failure only
\* while going or gone down, and a reason exactly when it has failed
\* (BackendBase.connect, disconnect and _catch_exception taken together,
\* however their locked blocks interleave).
ManagerWellFormed == WellFormed(mgr)

\* The assertions of BackendBase.connect ("not_connected in manager.state")
\* and disconnect ("manager.state.is_connected") never fail, whatever
\* happened while the call was waiting for another one.
AssertionsHold == \A p \in Calls : pc[p] # "asserted"

\* A failure is forgotten only by starting a new attempt: no late finish of
\* connect(), disconnect() or _catch_exception turns a failed state into a
\* healthy one.
FailureSticks ==
  [][("failure" \in mgr.state /\ "failure" \notin mgr'.state)
       => mgr'.state = {"connecting"}]_vars

-----------------------------------------------------------------------------
(***************************************************************************)
(* Safety of the link, with a device that answers in time and fails        *)
(* silently, when attempts are not made on top of each other (Overlap is   *)
(* FALSE) or none of them is refused: the error of a refused one is        *)
(* reported before its connect() has ended, and a call that waits beside   *)
(* it starts its own attempt in between.                                   *)
(***************************************************************************)

LiveLoops == {c \in Conns : pc[c] \notin Finished \cup {"none"}}

\* do_connect and do_disconnect keep at most one socket and one read loop, the
\* current client's: every reconnection closes and joins before it dials.
OneLink == /\ Cardinality(opened) <= 1
           /\ Cardinality(LiveLoops) <= 1
           /\ opened \subseteq {client}

\* "Indicates there is no connection and no connection attempts are being
\* made" (ConnectionState.not_connected): no socket is open and no do_connect
\* is running.
NotConnectedMeansNothing ==
  "not_connected" \in mgr.state =>
    opened = {} /\ \A p \in Dialers : pc[p] \notin Dialing

\* A backend that says connected, with no call under way, has an open client
\* and reading enabled, and the loop disconnect() will join is its client's,
\* though a reset may have ended it.
ConnectedIsUsable ==
  (IsConnected(mgr.state) /\ \A p \in Calls : pc[p] \in Returned \cup {"idle"})
    => Live(client) /\ readEnabled /\ readCoro = client

\* What a caller may conclude from r, returned by connect().
Told(r, c, state) == IF r # NoConn THEN c = r /\ IsConnected(state)
                                   ELSE ~IsConnected(state)

\* connect() hands out the backend's client when the state is connected, and
\* nothing when it is not, whether the call dialled itself or waited beside
\* one that did (test_connect_called_while_connecting).
ConnectReturnsClient ==
  [][\A p \in Connects :
       (pc[p] # "returned" /\ pc'[p] = "returned")
         => Told(on'[p], client', mgr'.state)]_vars

-----------------------------------------------------------------------------
(* Liveness, under FairSpec.                                               *)

\* Every connect() comes back, whatever the device and the other calls do.
ConnectsReturn ==
  \A p \in Connects : pc[p] # "idle" ~> pc[p] \in Returned

\* disconnect() waits for another one's end, but the next attempt has begun
\* before it looks.
Overtaken(p) == /\ pc[p] = "goneWait"
                /\ mgr.state \cap {"connecting", "connected"} # {}

\* Every disconnect() comes back, the one that closes the link and the one
\* that waits for it, unless it is overtaken by the next attempt.
DisconnectsReturn ==
  \A p \in Disconnects :
    []~Overtaken(p) => (pc[p] # "idle" ~> pc[p] \in Returned)

-----------------------------------------------------------------------------
\* Refinement: seen from outside, the state goes through BackendLifecycle.
Lifecycle == INSTANCE BackendLifecycle WITH state <- mgr.state
FollowsLifecycle == Lifecycle!FairSpec
=============================================================================
