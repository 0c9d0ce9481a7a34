---------------------------- MODULE OscInterface ----------------------------
(***************************************************************************)
(* The OSC interface: the vidhubs it publishes by id and by name           *)
(* (OscInterface, interface.py), the nodes that tell subscribers of them   *)
(* (PubSubOscNode, node.py) and the server whose two loops receive and     *)
(* send (OSCUDPServer, OscDispatcher, server.py), with its stop and the    *)
(* start of the next one.                                                  *)
(*                                                                         *)
(* The lock of the subscribers is never held over a suspension, so that a  *)
(* handler is one step; handlers and the messages they send run in order.  *)
(* A crosspoint command of a client is a packet whose handler waits for    *)
(* the device (module CrosspointControl); labels and presets are set in    *)
(* tasks of their own and do not hold up the loop.  A packet that cannot   *)
(* be parsed, or whose handler raises, ends the loop that handles packets. *)
(*                                                                         *)
(* A call of start() or stop() begins when the one before has come back,   *)
(* with or without an exception: nothing in the repository calls one while *)
(* another runs, and nothing in the code prevents it.                      *)
(***************************************************************************)
EXTENDS Naturals, Sequences, FiniteSetsExt, SequencesExt

CONSTANTS
  Vidhubs,       \* by their device_id
  Names,         \* device names
  Clients,
  UseDiscovery,  \* Config.USE_DISCOVERY: the service is published with zeroconf
  MaxPackets,    \* how many packets clients send
  MaxCalls,      \* how often start() and stop() are called
  MaxRenames,    \* how often a vidhub gets another name
  None

ASSUME ConstantsAssumption ==
  /\ UseDiscovery \in BOOLEAN
  /\ MaxPackets \in Nat /\ MaxCalls \in Nat /\ MaxRenames \in Nat
  /\ None \notin Vidhubs \cup Names

VARIABLES
  known,        \* config.vidhubs
  up,           \* those that are connected
  names,        \* their device_name
  adding,       \* add_vidhub calls that wait for a connection
  vidhubs,      \* OscInterface.vidhubs
  byName,       \* OscInterface.vidhubs_by_name
  clashed,      \* two vidhubs had the same name
  subscribers,  \* of the nodes by-id and by-name
  tasks,        \* handlers of bind_async, to run in order
  told,         \* what a client was sent last by a node it subscribed
  server,       \* OscInterface.server: "none", "new" or "stopped"
  running,      \* OSCUDPServer.running
  transport,    \* "none", "open" or "closed"
  rx,           \* dispatch_queue, which belongs to the OscDispatcher
  tx,           \* tx_queue, one of each server
  dispatch,     \* dispatch_loop: "waiting", "busy", "ended" or "crashed"
  sender,       \* send_loop: "waiting", "ended" or "crashed"
  control,      \* start() or stop(): where it is, "idle" once it came back or raised
  goal,         \* which of them
  published,    \* our service is in published_services (module Discovery)
  packets, calls, renames \* so far

vars == <<known, up, names, adding, vidhubs, byName, clashed, subscribers, tasks,
          told, server, running, transport, rx, tx, dispatch, sender, control,
          goal, published, packets, calls, renames>>

registry  == <<known, up, names, adding, vidhubs, byName, clashed, renames>>
loops     == <<rx, tx, dispatch, sender>>
endpoint  == <<server, running, transport>>
caller    == <<control, goal, published, calls>>

Topics == {"by-id", "by-name"}
\* "broken": it cannot be parsed, or its handler raises at once
Requests == [kind : {"subscribe", "unsubscribe", "query"}, topic : Topics, client : Clients]
Packets  == Requests \cup [kind : {"command", "broken"}]
Ack      == None   \* the answer of a _subscribe node carries nothing
Contents == (SUBSET Vidhubs) \cup (SUBSET Names) \cup {Ack}

TypeOK ==
  /\ known \subseteq Vidhubs /\ up \subseteq Vidhubs
  /\ names \in [Vidhubs -> Names]
  /\ adding \subseteq known /\ vidhubs \subseteq known
  /\ byName \in [Names -> Vidhubs \cup {None}]
  /\ clashed \in BOOLEAN
  /\ subscribers \in [Topics -> SUBSET Clients]
  /\ \A i \in DOMAIN tasks :
       tasks[i] \in Requests \cup [kind : {"changed"}, topic : Topics, client : {None}]
  /\ told \in [Topics -> [Clients -> Contents]]
  /\ server \in {"none", "new", "stopped"}
  /\ running \in BOOLEAN /\ transport \in {"none", "open", "closed"}
  /\ \A i \in DOMAIN rx : rx[i] \in Packets \cup {None}
  /\ \A i \in DOMAIN tx :
       tx[i] \in [client : Clients, topic : Topics, content : Contents] \cup {None}
  /\ dispatch \in {"waiting", "busy", "ended", "crashed"}
  /\ sender \in {"waiting", "ended", "crashed"}
  /\ control \in {"idle", "joinDispatch", "joinSend", "opening"}
  /\ goal \in {"start", "stop"} /\ published \in BOOLEAN
  /\ packets \in 0 .. MaxPackets /\ calls \in 0 .. MaxCalls
  /\ renames \in 0 .. MaxRenames
  /\ sender = "waiting" => transport = "open"

Init ==
  /\ known = {} /\ up = {} /\ adding = {} /\ vidhubs = {}
  /\ names \in [Vidhubs -> Names]
  /\ clashed = \E v, w \in Vidhubs : v # w /\ names[v] = names[w]
  /\ byName = [n \in Names |-> None]
  /\ subscribers = [t \in Topics |-> {}]
  /\ tasks = <<>>
  /\ told = [t \in Topics |-> [c \in Clients |-> Ack]]
  /\ server = "none" /\ running = FALSE /\ transport = "none"
  /\ rx = <<>> /\ tx = <<>> /\ dispatch = "ended" /\ sender = "ended"
  /\ control = "idle" /\ goal = "stop" /\ published = FALSE
  /\ packets = 0 /\ calls = 0 /\ renames = 0

-----------------------------------------------------------------------------
(* Which vidhubs are published.                                            *)

Changed(topic) == [kind |-> "changed", topic |-> topic, client |-> None]

\* update_config_vidhubs calls add_vidhub for every vidhub there is.
ConfigGains(v) ==
  /\ v \notin known
  /\ known' = known \cup {v}
  /\ adding' = adding \cup known'
  /\ UNCHANGED <<up, names, vidhubs, byName, clashed, renames, subscribers, tasks,
                 told, endpoint, loops, caller, packets>>

Connect(v) ==
  /\ v \notin up
  /\ up' = up \cup {v}
  /\ UNCHANGED <<known, names, adding, vidhubs, byName, clashed, renames,
                 subscribers, tasks, told, endpoint, loops, caller, packets>>

\* After the wait it is looked for in vidhubs and added in one go.
AddVidhub(v) ==
  /\ v \in adding /\ v \in up
  /\ adding' = adding \ {v}
  /\ IF v \in vidhubs
     THEN UNCHANGED <<vidhubs, byName, tasks>>
     ELSE /\ vidhubs' = vidhubs \cup {v}
          /\ byName' = [byName EXCEPT ![names[v]] = v]
          /\ tasks' = tasks \o <<Changed("by-id"), Changed("by-name")>>
  /\ UNCHANGED <<known, up, names, clashed, renames, subscribers, told, endpoint,
                 loops, caller, packets>>

\* wait_for('connected', 5) raises TimeoutError.
AddTimeout(v) ==
  /\ v \in adding /\ v \notin up
  /\ adding' = adding \ {v}
  /\ UNCHANGED <<known, up, names, vidhubs, byName, clashed, renames, subscribers,
                 tasks, told, endpoint, loops, caller, packets>>

\* Bug: the old name stays.
Bug_KeepName(v, n) ==
  /\ byName' = [byName EXCEPT ![n] = v]
  /\ tasks' = Append(tasks, Changed("by-name"))

\* on_vidhub_name: a KeyError when another vidhub took the old name away.
OnVidhubName(v, n) ==
  IF byName[names[v]] = None
  THEN UNCHANGED <<byName, tasks>>
  ELSE /\ byName' = [byName EXCEPT ![names[v]] = None, ![n] = v]
       /\ tasks' = Append(tasks, Changed("by-name"))

Rename(v, n) ==
  /\ renames < MaxRenames /\ renames' = renames + 1
  /\ names[v] # n
  /\ names' = [names EXCEPT ![v] = n]
  /\ clashed' = (clashed \/ \E w \in Vidhubs : names[w] = n)
  /\ IF v \in vidhubs THEN OnVidhubName(v, n) ELSE UNCHANGED <<byName, tasks>>
  /\ UNCHANGED <<known, up, adding, vidhubs, subscribers, told, endpoint, loops,
                 caller, packets>>

-----------------------------------------------------------------------------
(* The nodes and their subscribers.                                        *)

\* get_query_response, on_published_property_change: the keys as they are now.
Keys(topic) ==
  IF topic = "by-id" THEN vidhubs ELSE {n \in Names : byName[n] # None}

\* Messages for a loop that has ended are never sent.
Put(to, topic, content) ==
  IF sender # "waiting" THEN tx
  ELSE tx \o [i \in 1 .. Len(to) |->
                [client |-> to[i], topic |-> topic, content |-> content]]

HandleTask ==
  /\ tasks # <<>>
  /\ tasks' = Tail(tasks)
  /\ LET t == Head(tasks)
         s == subscribers[t.topic]
     IN \/ /\ t.kind = "changed"
           /\ tx' = Put(SetToSeq(s), t.topic, Keys(t.topic))
           /\ UNCHANGED subscribers
        \/ /\ t.kind = "query"
           /\ tx' = Put(<<t.client>>, t.topic, Keys(t.topic))
           /\ UNCHANGED subscribers
        \/ /\ t.kind \in {"subscribe", "unsubscribe"}
           /\ subscribers' = [subscribers EXCEPT ![t.topic] =
                IF t.kind = "subscribe" THEN s \cup {t.client} ELSE s \ {t.client}]
           /\ tx' = Put(<<t.client>>, t.topic, Ack)
  /\ UNCHANGED <<registry, told, endpoint, rx, dispatch, sender, caller, packets>>

-----------------------------------------------------------------------------
(* The loops of the server.                                                *)

Receive(p) ==
  /\ packets < MaxPackets /\ packets' = packets + 1
  /\ transport = "open"
  /\ rx' = Append(rx, p)
  /\ UNCHANGED <<registry, subscribers, tasks, told, endpoint, tx, dispatch, sender,
                 caller>>

\* `while self.running`, tested after each packet
GoOn == IF running THEN "waiting" ELSE "ended"

\* The handlers of a packet only emit events, except those of a command,
\* which wait for the device.  _call_handlers_for_packet raises again whatever
\* the parser or a handler raised, and nothing catches it in the loop.
DispatchLoop ==
  /\ dispatch = "waiting" /\ rx # <<>>
  /\ rx' = Tail(rx)
  /\ LET p == Head(rx) IN
       \/ p = None /\ dispatch' = "ended" /\ UNCHANGED tasks
       \/ p # None /\ p.kind = "command" /\ dispatch' = "busy" /\ UNCHANGED tasks
       \/ p # None /\ p.kind = "broken" /\ dispatch' = "crashed" /\ UNCHANGED tasks
       \/ p \in Requests /\ dispatch' = GoOn /\ tasks' = Append(tasks, p)
  /\ UNCHANGED <<registry, subscribers, told, endpoint, tx, sender, caller, packets>>

\* The command is done, or it raised, for instance because the link was lost.
CommandDone ==
  /\ dispatch = "busy"
  /\ dispatch' \in {GoOn, "crashed"}
  /\ UNCHANGED <<registry, subscribers, tasks, told, endpoint, rx, tx, sender,
                 caller, packets>>

\* What the clients have heard after the messages m, in their order.
Sent(m) ==
  [t \in Topics |-> [c \in Clients |->
     LET mine == {i \in DOMAIN m : m[i].client = c /\ m[i].topic = t} IN
     IF mine = {} THEN told[t][c] ELSE m[Max(mine)].content]]

\* One message is awaited and all that wait behind it are taken with it.  The
\* None of stop() is expected in front only: behind a message, unpacking it
\* raises TypeError before anything is sent.
SendLoop ==
  /\ sender = "waiting" /\ tx # <<>>
  /\ tx' = <<>>
  /\ \/ /\ Head(tx) = None
        /\ sender' = "ended" /\ UNCHANGED told
     \/ /\ Head(tx) # None /\ \E i \in DOMAIN tx : tx[i] = None
        /\ sender' = "crashed" /\ UNCHANGED told
     \/ /\ \A i \in DOMAIN tx : tx[i] # None
        /\ sender' = GoOn
        /\ told' = Sent(tx)
  /\ UNCHANGED <<registry, subscribers, tasks, endpoint, rx, dispatch, caller, packets>>

-----------------------------------------------------------------------------
(* start() and stop() of the interface.                                    *)

\* Bug: only the flag tells the dispatch loop to end.
Bug_NoPill ==
  /\ running' = FALSE
  /\ control' = "joinDispatch"
  /\ UNCHANGED <<server, transport, rx, tx, dispatch, sender>>

\* OSCUDPServer.stop begins: the dispatch loop is told to end and joined.
StopServer ==
  /\ running' = FALSE
  /\ rx' = Append(rx, None)
  /\ control' = "joinDispatch"
  /\ UNCHANGED <<server, transport, tx, dispatch, sender>>

\* stop() withdraws the service first and raises when it is not published.
Stop ==
  /\ control = "idle" /\ calls < MaxCalls /\ calls' = calls + 1
  /\ goal' = "stop" /\ published' = FALSE
  /\ IF UseDiscovery /\ ~published
     THEN UNCHANGED <<endpoint, loops, control>>
     ELSE IF server = "none"
     THEN UNCHANGED <<endpoint, loops, control>>
     ELSE StopServer
  /\ UNCHANGED <<registry, subscribers, tasks, told, packets>>

\* start() stops the server it has.
Start ==
  /\ control = "idle" /\ calls < MaxCalls /\ calls' = calls + 1
  /\ goal' = "start"
  /\ IF server = "none"
     THEN control' = "opening" /\ UNCHANGED <<endpoint, loops>>
     ELSE StopServer
  /\ UNCHANGED <<registry, subscribers, tasks, told, published, packets>>

\* The exception of a dispatch loop that crashed comes out where it is joined:
\* the send loop goes on, the socket stays open and so it does at every further
\* call.
JoinDispatch ==
  /\ control = "joinDispatch" /\ dispatch \in {"ended", "crashed"}
  /\ IF dispatch = "crashed"
     THEN control' = "idle" /\ UNCHANGED tx
     ELSE control' = "joinSend" /\ tx' = Append(tx, None)
  /\ UNCHANGED <<registry, subscribers, tasks, told, endpoint, rx, dispatch, sender,
                 goal, published, calls, packets>>

\* Bug: the transport is closed without waiting for the send loop.
Bug_CloseFirst ==
  /\ control = "joinSend"
  /\ transport' = "closed"
  /\ server' = IF goal = "stop" THEN "none" ELSE "stopped"
  /\ control' = IF goal = "stop" THEN "idle" ELSE "opening"
  /\ UNCHANGED <<registry, subscribers, tasks, told, running, loops, goal, published,
                 calls, packets>>

\* The exception of a send loop that crashed comes out here, and the transport
\* stays open.  A server that was stopped by a start() that failed afterwards has
\* no transport to close any more: AttributeError.
JoinSend ==
  /\ control = "joinSend" /\ sender # "waiting"
  /\ IF sender = "crashed"
     THEN control' = "idle" /\ UNCHANGED <<server, transport>>
     ELSE IF server = "stopped"
     THEN control' = "idle" /\ UNCHANGED <<server, transport>>
     ELSE /\ transport' = "closed"
          /\ server' = IF goal = "stop" THEN "none" ELSE "stopped"
          /\ control' = IF goal = "stop" THEN "idle" ELSE "opening"
  /\ UNCHANGED <<registry, subscribers, tasks, told, running, loops, goal, published,
                 calls, packets>>

\* publish_service raises for a service that is published; otherwise there is
\* a server with a send queue of its own.
Open ==
  /\ control = "opening" /\ control' = "idle"
  /\ IF UseDiscovery /\ published
     THEN UNCHANGED <<published, endpoint, loops, told>>
     ELSE /\ published' = UseDiscovery
          /\ server' = "new" /\ running' = TRUE /\ transport' = "open"
          /\ tx' = <<>> /\ dispatch' = "waiting" /\ sender' = "waiting"
          /\ told' = [t \in Topics |-> [c \in Clients |-> Ack]]
          /\ UNCHANGED rx
  /\ UNCHANGED <<registry, subscribers, tasks, goal, calls, packets>>

-----------------------------------------------------------------------------
Next ==
  \/ \E v \in Vidhubs : ConfigGains(v) \/ Connect(v) \/ AddVidhub(v) \/ AddTimeout(v)
  \/ \E v \in Vidhubs, n \in Names : Rename(v, n)
  \/ \E p \in Packets : Receive(p)
  \/ HandleTask \/ DispatchLoop \/ CommandDone \/ SendLoop
  \/ Start \/ Stop \/ JoinDispatch \/ JoinSend \/ Open

\* The event loop runs what is ready, and the device answers commands.
Fairness ==
  /\ WF_vars(HandleTask) /\ WF_vars(DispatchLoop) /\ WF_vars(CommandDone)
  /\ WF_vars(SendLoop) /\ WF_vars(JoinDispatch) /\ WF_vars(JoinSend) /\ WF_vars(Open)

Spec == Init /\ [][Next]_vars /\ Fairness

-----------------------------------------------------------------------------
(* Properties.                                                             *)

Quiet == server = "new" /\ sender = "waiting" /\ tasks = <<>> /\ tx = <<>>

\* What a client that has subscribed heard last is what there is now: the ids
\* of the vidhubs added, and the names they have, as long as no two of them have
\* had the same; however subscriptions, queries, new vidhubs and new names
\* overlap with the sending of earlier messages (OscInterface.on_vidhub_name,
\* PubSubOscNode, OSCUDPServer.send_loop).  A new server starts from nothing.
SubscribersAreCurrent ==
  Quiet =>
    /\ \A c \in subscribers["by-id"] : told["by-id"][c] \in {Ack, vidhubs}
    /\ ~clashed => \A c \in subscribers["by-name"] :
         told["by-name"][c] \in {Ack, {names[v] : v \in vidhubs}}

Stopping == control \in {"joinDispatch", "joinSend"}

\* A stop of the server, also the one in start(), comes to an end whatever its two
\* loops are at, and the socket is closed then, unless one of the loops crashed:
\* the one that handles packets on a packet that raised, the one that sends on the
\* None that stop() put behind a message (OSCUDPServer.stop, dispatch_loop,
\* send_loop).
StopFrees ==
  Stopping ~> ~Stopping /\ (transport = "closed" \/ "crashed" \in {dispatch, sender})
=============================================================================
