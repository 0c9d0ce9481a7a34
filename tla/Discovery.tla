------------------------------ MODULE Discovery ------------------------------
(***************************************************************************)
(* Listener and BMDDiscovery (discovery.py): what zeroconf announces in a  *)
(* thread of its own goes as a message through one queue to the loop of    *)
(* run(), from there as an event to the device tables, and from there to   *)
(* the configuration.  The same loop registers our own services.           *)
(*                                                                         *)
(* Config starts a new listener each time and stops it once.  The lock of  *)
(* the tables is never held over a suspension, so a handler is one step.   *)
(***************************************************************************)
EXTENDS Naturals, Sequences

CONSTANTS
  Services,     \* names of services in the network
  Devices,      \* unique ids of devices
  DeviceOf,     \* the unique id in the properties of each service
  Addresses,    \* the addresses a service may have
  Own,          \* names of services we publish
  Ports,        \* the ports they may have
  Taken,        \* names of ours that somebody else in the network uses
  MaxChanges,   \* how often the network or what we publish changes
  None

ASSUME ConstantsAssumption ==
  /\ DeviceOf \in [Services -> Devices]
  /\ Taken \subseteq Own
  /\ None \notin Services \cup Addresses \cup Ports
  /\ MaxChanges \in Nat

VARIABLES
  net,        \* the services in the network, as zeroconf's cache has them
  news,       \* what zeroconf's browser has still to tell us, in order
  browser,    \* "idle", "asking" for a service's details, or "dead"
  queue,      \* message_queue
  loop,       \* what run() does: "waiting", "registering" or "ended"
  zcInfo,     \* the port in what zeroconf is registering, or None
  running,    \* Listener.running
  stopper,    \* what stop() does: "none", "joining" or "done"
  services,   \* Listener.services
  events,     \* handlers of service_added, _updated, _removed, to run in order
  table,      \* vidhubs, smart_views and smart_scopes: whose entry is there
  told,       \* the address last emitted for a device
  left,       \* services whose removal reached the tables
  published,  \* Listener.published_services
  registered, \* what zeroconf answers for us
  changes     \* of the network and of what we publish, so far

vars == <<net, news, browser, queue, loop, zcInfo, running, stopper, services,
          events, table, told, left, published, registered, changes>>

network == <<net, news, browser>>
tables  == <<table, told, left>>
ours    == <<published, registered>>
life    == <<running, stopper>>

\* A message of the queue, or an event: what happened to which service, and
\* the address or port that goes with it.  An event carries the ServiceInfo of
\* the table, which a later update changes; the event of that update follows, so
\* that the address of the time is as good here.
Message(kind, name, value) == [kind |-> kind, name |-> name, value |-> value]
Stopping == Message("None", None, None)

FromBrowser == {"Added", "Updated", "Removed"}
FromUs      == {"Publish", "Republish", "UnPublish"}

TypeOK ==
  /\ net \in [Services -> Addresses \cup {None}]
  /\ news \in Seq([kind : FromBrowser, name : Services])
  /\ browser \in {"idle", "asking", "dead"}
  /\ queue \in Seq([kind : FromBrowser, name : Services, value : Addresses \cup {None}]
                   \cup [kind : FromUs, name : Own, value : Ports] \cup {Stopping})
  /\ loop \in {"waiting", "registering", "ended"}
  /\ zcInfo \in Ports \cup {None}
  /\ running \in BOOLEAN
  /\ stopper \in {"none", "joining", "done"}
  /\ services \in [Services -> Addresses \cup {None}]
  /\ events \in Seq([kind : FromBrowser, name : Services, value : Addresses \cup {None}])
  /\ table \in [Devices -> Services \cup {None}]
  /\ told \in [Devices -> Addresses \cup {None}]
  /\ left \subseteq Services
  /\ published \in [Own -> Ports \cup {None}]
  /\ registered \in [Own -> Ports \cup {None}]
  /\ changes \in 0 .. MaxChanges
  /\ running <=> stopper = "none"
  /\ loop = "registering" => queue # <<>> /\ zcInfo # None
  /\ browser = "asking" => news # <<>>

Init ==
  /\ net = [s \in Services |-> None]
  /\ news = <<>> /\ browser = "idle"
  /\ queue = <<>> /\ loop = "waiting" /\ zcInfo = None
  /\ running = TRUE /\ stopper = "none"
  /\ services = [s \in Services |-> None]
  /\ events = <<>>
  /\ table = [d \in Devices |-> None]
  /\ told = [d \in Devices |-> None]
  /\ left = {}
  /\ published = [o \in Own |-> None]
  /\ registered = [o \in Own |-> None]
  /\ changes = 0

-----------------------------------------------------------------------------
(* The network, and zeroconf's browser in a thread of its own.             *)

Change == changes < MaxChanges /\ changes' = changes + 1

Announce(s, a) ==
  /\ Change
  /\ net[s] # a
  /\ net' = [net EXCEPT ![s] = a]
  /\ news' = Append(news, [kind |-> IF net[s] = None THEN "Added" ELSE "Updated",
                           name |-> s])
  /\ UNCHANGED <<browser, queue, loop, zcInfo, life, services, events, tables, ours>>

Withdraw(s) ==
  /\ Change
  /\ net[s] # None
  /\ net' = [net EXCEPT ![s] = None]
  /\ news' = Append(news, [kind |-> "Removed", name |-> s])
  /\ UNCHANGED <<browser, queue, loop, zcInfo, life, services, events, tables, ours>>

\* add_service, remove_service and update_service ignore the call once
\* stopped.
Ignore ==
  /\ browser = "idle" /\ news # <<>> /\ ~running
  /\ news' = Tail(news)
  /\ UNCHANGED <<net, browser, queue, loop, zcInfo, life, services, events, tables, ours, changes>>

\* add_service and update_service ask zeroconf for the details, which takes
\* the network time to answer.
Ask ==
  /\ browser = "idle" /\ news # <<>> /\ running
  /\ Head(news).kind # "Removed"
  /\ browser' = "asking"
  /\ UNCHANGED <<net, news, queue, loop, zcInfo, life, services, events, tables, ours, changes>>

Tell(kind, name, value) ==
  /\ queue' = Append(queue, Message(kind, name, value))
  /\ news' = Tail(news)
  /\ browser' = "idle"
  /\ UNCHANGED <<net, loop, zcInfo, life, services, events, tables, ours, changes>>

RemoveService ==
  /\ browser = "idle" /\ news # <<>> /\ running
  /\ Head(news).kind = "Removed"
  /\ Tell("Removed", Head(news).name, None)

\* add_service does not expect that there are no details any more: the
\* exception ends zeroconf's thread and with it every further call.
AddService ==
  /\ browser = "asking" /\ Head(news).kind = "Added"
  /\ LET s == Head(news).name IN
       IF net[s] # None
       THEN Tell("Added", s, net[s])
       ELSE /\ browser' = "dead"
            /\ news' = Tail(news)
            /\ UNCHANGED <<net, queue, loop, zcInfo, life, services, events, tables, ours, changes>>

UpdateService ==
  /\ browser = "asking" /\ Head(news).kind = "Updated"
  /\ LET s == Head(news).name IN
       Tell(IF net[s] = None THEN "Removed" ELSE "Updated", s, net[s])

-----------------------------------------------------------------------------
(* The loop of run(): one message after the other.                         *)

\* The message is dealt with: `while self.running` tests only now.
NextMessage ==
  /\ queue' = Tail(queue) /\ zcInfo' = None
  /\ loop' = IF running THEN "waiting" ELSE "ended"

\* An exception ends run(); logger.catch only logs it.
Raise ==
  /\ queue' = Tail(queue) /\ zcInfo' = None
  /\ loop' = "ended"

Emit(kind, s, a) == events' = Append(events, Message(kind, s, a))

HandleStop ==
  /\ loop = "waiting" /\ queue # <<>> /\ Head(queue) = Stopping
  /\ Raise
  /\ UNCHANGED <<network, life, services, events, tables, ours, changes>>

\* Bug: a service that is known keeps the details it had.
Bug_KeepKnown(s, a) ==
  /\ services' = [services EXCEPT ![s] = IF @ = None THEN a ELSE @]
  /\ Emit("Updated", s, a)
  /\ NextMessage

AddServiceInfo(s, a) ==
  IF services[s] # None
  THEN Raise /\ UNCHANGED <<services, events>>
  ELSE /\ services' = [services EXCEPT ![s] = a]
       /\ Emit("Added", s, a)
       /\ NextMessage

UpdateServiceInfo(s, a) ==
  /\ services' = [services EXCEPT ![s] = a]
  /\ Emit(IF services[s] = None THEN "Added" ELSE "Updated", s, a)
  /\ NextMessage

RemoveServiceInfo(s) ==
  /\ services' = [services EXCEPT ![s] = None]
  /\ IF services[s] = None THEN UNCHANGED events ELSE Emit("Removed", s, None)
  /\ NextMessage

HandleBrowser ==
  /\ loop = "waiting" /\ queue # <<>>
  /\ LET m == Head(queue) IN
       \/ m.kind = "Added" /\ AddServiceInfo(m.name, m.value)
       \/ m.kind = "Updated" /\ UpdateServiceInfo(m.name, m.value)
       \/ m.kind = "Removed" /\ RemoveServiceInfo(m.name)
  /\ UNCHANGED <<network, life, tables, ours, changes>>

\* zeroconf gets a copy of the ServiceInfo (to_zc_info) and makes sure that
\* nobody has the name, which takes time.
HandlePublish ==
  /\ loop = "waiting" /\ queue # <<>> /\ Head(queue).kind = "Publish"
  /\ loop' = "registering" /\ zcInfo' = Head(queue).value
  /\ UNCHANGED <<network, queue, life, services, events, tables, ours, changes>>

Register ==
  /\ loop = "registering"
  /\ LET o == Head(queue).name IN
       IF o \in Taken
       THEN Raise /\ UNCHANGED registered
       ELSE /\ registered' = [registered EXCEPT ![o] = zcInfo]
            /\ NextMessage
  /\ UNCHANGED <<network, life, services, events, tables, published, changes>>

HandleRepublish ==
  /\ loop = "waiting" /\ queue # <<>>
  /\ LET m == Head(queue) IN
       /\ m.kind \in {"Republish", "UnPublish"}
       /\ registered' = [registered EXCEPT ![m.name] =
                           IF m.kind = "Republish" THEN m.value ELSE None]
  /\ NextMessage
  /\ UNCHANGED <<network, life, services, events, tables, published, changes>>

-----------------------------------------------------------------------------
(* Our own services.                                                       *)

Post(m) ==
  /\ Change
  /\ queue' = Append(queue, m)
  /\ UNCHANGED <<network, loop, zcInfo, life, services, events, tables, registered>>

\* publish_service raises for a service that is published.
PublishService(o, p) ==
  /\ published[o] = None
  /\ published' = [published EXCEPT ![o] = p]
  /\ Post(Message("Publish", o, p))

\* The messages that wait hold the ServiceInfo itself, which republish_service
\* changes: up to the message that ends its use, they have the new port.  What
\* zeroconf was given before does not.
Refreshed(o, p) ==
  [i \in DOMAIN queue |->
     IF /\ queue[i].kind \in FromUs /\ queue[i].name = o
        /\ \A j \in i .. Len(queue) : queue[j].name = o => queue[j].kind # "UnPublish"
     THEN [queue[i] EXCEPT !.value = p]
     ELSE queue[i]]

RepublishService(o, p) ==
  /\ published[o] # None
  /\ Change
  /\ published' = [published EXCEPT ![o] = p]
  /\ queue' = Append(Refreshed(o, p), Message("Republish", o, p))
  /\ UNCHANGED <<network, loop, zcInfo, life, services, events, tables, registered>>

UnpublishService(o) ==
  /\ published[o] # None
  /\ published' = [published EXCEPT ![o] = None]
  /\ Post(Message("UnPublish", o, published[o]))

-----------------------------------------------------------------------------
(* The tables of BMDDiscovery, and what it emits for the configuration.    *)

\* _add_bmd_service_info asserts that the id is new and emits nothing when
\* it is not.
AddBmd(s, a) ==
  LET d == DeviceOf[s] IN
  /\ IF table[d] = None
     THEN /\ table' = [table EXCEPT ![d] = s]
          /\ told' = [told EXCEPT ![d] = a]
     ELSE UNCHANGED <<table, told>>
  /\ UNCHANGED left

\* _update_bmd_service_info raises for an id it does not know and for an
\* entry of another service.
UpdateBmd(s, a) ==
  LET d == DeviceOf[s] IN
  /\ told' = IF table[d] = s THEN [told EXCEPT ![d] = a] ELSE told
  /\ UNCHANGED <<table, left>>

\* The message of a removal has no properties, so there is no id to look
\* for: _remove_bmd_service_info deletes nothing.
RemoveBmd(s) ==
  /\ left' = left \cup {s}
  /\ UNCHANGED <<table, told>>

HandleEvent ==
  /\ events # <<>>
  /\ events' = Tail(events)
  /\ LET e == Head(events) IN
       \/ e.kind = "Added" /\ AddBmd(e.name, e.value)
       \/ e.kind = "Updated" /\ UpdateBmd(e.name, e.value)
       \/ e.kind = "Removed" /\ RemoveBmd(e.name)
  /\ UNCHANGED <<network, queue, loop, zcInfo, life, services, ours, changes>>

-----------------------------------------------------------------------------
(* stop().                                                                 *)

\* Bug: the flag is not reset before the loop is joined.
Bug_KeepRunning ==
  /\ stopper = "none"
  /\ stopper' = "joining"
  /\ queue' = Append(queue, Stopping)
  /\ UNCHANGED <<network, loop, zcInfo, running, services, events, tables, ours, changes>>

\* Bug: only the flag is reset, so the loop waits for a message for ever.
Bug_ForgetNone ==
  /\ running
  /\ running' = FALSE /\ stopper' = "joining"
  /\ UNCHANGED <<network, queue, loop, zcInfo, services, events, tables, ours, changes>>

Stop ==
  /\ running
  /\ running' = FALSE /\ stopper' = "joining"
  /\ queue' = Append(queue, Stopping)
  /\ UNCHANGED <<network, loop, zcInfo, services, events, tables, ours, changes>>

\* run_future is awaited, then zeroconf closed with all it answered for us.
StopZeroconf ==
  /\ stopper = "joining" /\ loop = "ended"
  /\ stopper' = "done"
  /\ registered' = [o \in Own |-> None]
  /\ UNCHANGED <<network, queue, loop, zcInfo, running, services, events, tables, published, changes>>

Run == HandleStop \/ HandleBrowser \/ HandlePublish \/ Register \/ HandleRepublish

Next ==
  \/ \E s \in Services : Withdraw(s) \/ \E a \in Addresses : Announce(s, a)
  \/ Ignore \/ Ask \/ RemoveService \/ AddService \/ UpdateService
  \/ Run
  \/ \E o \in Own : UnpublishService(o)
       \/ \E p \in Ports : PublishService(o, p) \/ RepublishService(o, p)
  \/ HandleEvent
  \/ Stop \/ StopZeroconf

\* The event loop runs what is ready, and zeroconf answers a registration.
Fairness == WF_vars(Run) /\ WF_vars(HandleEvent) /\ WF_vars(StopZeroconf)

Spec == Init /\ [][Next]_vars /\ Fairness

-----------------------------------------------------------------------------
(* Properties.                                                             *)

\* Everything the network announced was dealt with, and nothing ended the
\* thread or the loop that deals with it.
Settled ==
  /\ running /\ loop = "waiting" /\ browser = "idle"
  /\ news = <<>> /\ queue = <<>> /\ events = <<>>

\* Then the services listed are those in the network, with their addresses,
\* though the details are asked for after the announcement, when the service
\* may have changed again or gone (add_service, update_service, run); the last
\* address that the configuration was told of a device is the one it has,
\* unless the service had been away or another service had the entry first
\* (BMDDiscovery.on_service_added, on_service_updated, on_service_removed); and
\* zeroconf answers for exactly what we publish, with its last port, however
\* publish_service, republish_service and unpublish_service follow on one
\* another while the loop registers one of them.
TablesSettle ==
  Settled =>
    /\ services = net
    /\ \A s \in Services \ left : net[s] # None =>
         LET d == DeviceOf[s]
         IN table[d] # None /\ (table[d] = s => told[d] = net[s])
    /\ registered = published

\* stop() returns, whatever the loop was doing and however it ended.
StopReturns == stopper = "joining" ~> stopper = "done"

=============================================================================
