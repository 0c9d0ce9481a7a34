------------------------------- MODULE Config -------------------------------
(***************************************************************************)
(* Config and DeviceConfigBase (config.py): the devices kept under their   *)
(* unique ids and in a file, while the network moves them from address to  *)
(* address, discovery tells of it, callers build backends of their own at  *)
(* any time and the configuration starts, stops, also while a stop is      *)
(* under way, and is loaded again.                                         *)
(*                                                                         *)
(* One device type.  A connection attempt ends as the network is then: the *)
(* attempt itself is module BackendConnection, the state that a device     *)
(* follows is SyncronizedManager, what discovery reports is Discovery.     *)
(* add_device awaits, but nothing it waits for is ever held, so it is one  *)
(* step.  vidhubs and all_devices have the same keys and are one table.    *)
(***************************************************************************)
EXTENDS Naturals, Sequences, SequencesExt

CONSTANTS
  Ids,          \* unique ids of devices
  Temps,        \* ids that id_for_device makes up
  Addresses,
  Files,        \* what a file may hold before the first start
  MaxMoves,     \* how often a device leaves an address or gets one
  MaxCalls,     \* how often somebody builds a backend, renames a device, starts it
                \* again or stops it while it is being stopped
  Stops,        \* calls of stop() that may be under way at the same time
  None

ASSUME ConstantsAssumption ==
  /\ Ids \cap Temps = {} /\ None \notin Ids \cup Temps \cup Addresses
  /\ Files \subseteq SUBSET [id : Ids \cup Temps, addr : Addresses]
  /\ MaxMoves \in Nat /\ MaxCalls \in Nat

VARIABLES
  where,       \* the device at each address
  unreported,  \* devices whose last move discovery has not told yet
  backends,    \* every backend made: its address, device_id and whether connected
  confs,       \* every DeviceConfig made: its backend, hostaddr and device_id
  devices,     \* the table: which of confs is under each id, or 0
  file,        \* the devices as saved
  manager,     \* connection_manager.state
  entries,     \* start_kwargs
  starter,     \* start(): "new", "loading", "listening", "none" or "failed"
  loading,     \* entries whose devices are being created
  listening,   \* there is a discovery_listener
  found,       \* add_discovered_device calls under way, in order
  builder,     \* the address build_backend is connecting to
  stopper,     \* each stop(): "none", "unlisten" or "closing"
  closing,     \* backends that it disconnects
  moves, calls, \* made so far
  rebacked,    \* devices that were given a second backend
  dropped,     \* backends whose device has got another one
  unsaved,     \* devices filed or changed since the last save
  lost,        \* backends whose link went down by itself
  intruded     \* a start(), stop() or build_backend came upon work that was under way

vars == <<where, unreported, backends, confs, devices, file, manager, entries,
          starter, loading, listening, found, builder, stopper, closing, moves,
          calls, rebacked, dropped, unsaved, lost, intruded>>

network == <<where, moves>>
objects == <<backends, confs, devices, file>>
start   == <<entries, starter, loading>>
stop    == <<stopper, closing>>

Keys   == Ids \cup Temps
Stages == {"new", "waits", "passed", "closing", "dialing", "leaving", "returning",
           "creating"}

\* add_discovered_device holds discovery_lock while it does one of these.
Holding == Stages \ {"new", "waits", "passed"}

TypeOK ==
  /\ where \in [Addresses -> Ids \cup {None}]
  /\ unreported \subseteq Ids
  /\ backends \in Seq([addr : Addresses, id : Keys \cup {None}, up : BOOLEAN])
  /\ confs \in Seq([backend : 1 .. Len(backends), addr : Addresses, id : Keys])
  /\ devices \in [Keys -> 0 .. Len(confs)]
  /\ file \subseteq [id : Keys, addr : Addresses]
  /\ manager \in {"not_connected", "connecting", "connected", "disconnecting"}
  /\ entries \subseteq [id : Keys, addr : Addresses] /\ loading \subseteq entries
  /\ starter \in {"new", "none", "loading", "listening", "failed"}
  /\ listening \in BOOLEAN
  /\ found \in Seq([id : Ids, addr : Addresses, stage : Stages,
                    backend : 0 .. Len(backends)])
  /\ builder \in Addresses \cup {None}
  /\ stopper \in [Stops -> {"none", "unlisten", "closing"}]
  /\ closing \in [Stops -> SUBSET DOMAIN backends]
  /\ moves \in 0 .. MaxMoves /\ calls \in 0 .. MaxCalls
  /\ rebacked \subseteq Ids /\ unsaved \subseteq Keys
  /\ lost \subseteq DOMAIN backends /\ dropped \subseteq DOMAIN backends
  /\ intruded \in BOOLEAN
  /\ \A i, j \in DOMAIN found :
       found[i].stage \in Holding /\ found[j].stage \in Holding => i = j

Init ==
  /\ where \in [Addresses -> Ids \cup {None}]
  /\ \A a, b \in Addresses : where[a] = where[b] => a = b \/ where[a] = None
  /\ file \in Files /\ entries = file
  /\ unreported = {} /\ backends = <<>> /\ confs = <<>>
  /\ devices = [k \in Keys |-> 0]
  /\ manager = "not_connected" /\ listening = FALSE
  /\ starter = "new" /\ loading = {}
  /\ found = <<>> /\ builder = None
  /\ stopper = [s \in Stops |-> "none"] /\ closing = [s \in Stops |-> {}]
  /\ moves = 0 /\ calls = 0
  /\ rebacked = {} /\ dropped = {} /\ unsaved = {} /\ lost = {} /\ intruded = FALSE

Call == calls < MaxCalls /\ calls' = calls + 1

NoStop == \A s \in Stops : stopper[s] = "none"

Present(d) == \E a \in Addresses : where[a] = d

-----------------------------------------------------------------------------
(* The network and what discovery tells of it.                             *)

Moved == moves < MaxMoves /\ moves' = moves + 1

Appear(d, a) ==
  /\ Moved
  /\ where[a] = None /\ ~Present(d)
  /\ where' = [where EXCEPT ![a] = d]
  /\ unreported' = unreported \cup {d}
  /\ UNCHANGED <<objects, manager, start, listening, found, builder, stop, calls,
                 rebacked, dropped, unsaved, lost, intruded>>

Depart(a) ==
  /\ Moved
  /\ where[a] # None
  /\ where' = [where EXCEPT ![a] = None]
  /\ unreported' = unreported \ {where[a]}
  /\ UNCHANGED <<objects, manager, start, listening, found, builder, stop,
                 calls, rebacked, dropped, unsaved, lost, intruded>>

\* A command finds out that the device is no longer there.
LinkLost(b) ==
  /\ backends[b].up /\ where[backends[b].addr] # backends[b].id
  /\ backends' = [backends EXCEPT ![b].up = FALSE]
  /\ lost' = lost \cup {b}
  /\ UNCHANGED <<network, unreported, confs, devices, file, manager, start,
                 listening, found, builder, stop, calls, rebacked, dropped, unsaved, intruded>>

\* on_discovery_service_added, on_discovery_service_updated
Report(d, a) ==
  /\ listening /\ d \in unreported /\ where[a] = d
  /\ unreported' = unreported \ {d}
  /\ found' = Append(found, [id |-> d, addr |-> a, stage |-> "new", backend |-> 0])
  /\ UNCHANGED <<network, objects, manager, start, listening, builder, stop, calls,
                 rebacked, dropped, unsaved, lost, intruded>>

-----------------------------------------------------------------------------
(* add_device and save.                                                    *)

\* What save() writes: the devices of the table t.
Saved(cs, t) == {[id |-> cs[t[k]].id, addr |-> cs[t[k]].addr] :
                   k \in {x \in Keys : t[x] # 0}}

\* Connected to whoever is at its address, whose id the prelude tells.
Connected(b) == [b EXCEPT !.up = where[b.addr] # None,
                          !.id = IF where[b.addr] # None THEN where[b.addr] ELSE @]

\* A backend of a known device replaces the one that device has; then the
\* assertion that the id is new fails, and nothing is saved.
Replace(b) ==
  LET c == devices[b.id] IN
  /\ confs' = [confs EXCEPT ![c].backend = Len(backends) + 1, ![c].addr = b.addr]
  /\ rebacked' = rebacked \cup {b.id} /\ dropped' = dropped \cup {confs[c].backend}
  /\ unsaved' = unsaved \cup {b.id}
  /\ UNCHANGED <<devices, file>>

\* id_for_device makes up an id from the address of the object.  Temps has one
\* for each that is made up.
Unused(t) == devices[t] = 0 /\ \A e \in file : e.id # t

AddNew(b) ==
  \E k \in IF b.id # None THEN {b.id} ELSE {t \in Temps : Unused(t)} :
    /\ confs' = Append(confs, [backend |-> Len(backends) + 1, addr |-> b.addr, id |-> k])
    /\ devices' = [devices EXCEPT ![k] = Len(confs')]
    /\ file' = Saved(confs', devices') /\ unsaved' = {}
    /\ UNCHANGED <<rebacked, dropped>>

AddDevice(b) ==
  /\ backends' = Append(backends, b)
  /\ IF b.id # None /\ devices[b.id] # 0 THEN Replace(b) ELSE AddNew(b)

\* build_backend returns the backend of a device with that address, if there
\* is one now; it looks again neither while nor after it connects.  It may be
\* called at any time, whether the configuration was started or not.
Build(a) ==
  /\ builder = None /\ Call
  /\ \A k \in Keys : devices[k] # 0 => confs[devices[k]].addr # a
  /\ builder' = a
  /\ intruded' = (intruded \/ ~NoStop)
  /\ UNCHANGED <<network, unreported, objects, manager, start, listening, found,
                 stop, rebacked, dropped, unsaved, lost>>

Built ==
  /\ builder # None
  /\ AddDevice(Connected([addr |-> builder, id |-> None, up |-> FALSE]))
  /\ builder' = None
  /\ UNCHANGED <<network, unreported, manager, start, listening, found, stop,
                 calls, lost, intruded>>

\* on_backend_prop_change: a device that is connected gets another name, which
\* saves what is in the table at the time, also in the middle of a start().
Renamed(k) ==
  /\ Call
  /\ devices[k] # 0 /\ backends[confs[devices[k]].backend].up
  /\ file' = Saved(confs, devices) /\ unsaved' = {}
  /\ UNCHANGED <<network, unreported, backends, confs, devices, manager, start,
                 listening, found, builder, stop, rebacked, dropped, lost, intruded>>

-----------------------------------------------------------------------------
(* add_discovered_device.                                                  *)

Stage(i, s, b) == found' = [found EXCEPT ![i].stage = s, ![i].backend = b]
Done(i) == found' = RemoveAt(found, i)

FirstAt(i, s) == /\ found[i].stage = s
                 /\ \A j \in 1 .. i - 1 : found[j].stage # s

\* Those that waited were woken, in order, before later ones run.
Arrive(i) ==
  /\ FirstAt(i, "new")
  /\ manager = "connected" => \A j \in DOMAIN found : found[j].stage # "waits"
  /\ CASE manager \in {"disconnecting", "not_connected"} -> Done(i)
       [] manager = "connecting" -> Stage(i, "waits", 0)
       [] manager = "connected" -> Stage(i, "passed", 0)
  /\ UNCHANGED <<network, unreported, objects, manager, start, listening, builder,
                 stop, calls, rebacked, dropped, unsaved, lost, intruded>>

Wake(i) ==
  /\ FirstAt(i, "waits") /\ manager = "connected"
  /\ Stage(i, "passed", 0)
  /\ UNCHANGED <<network, unreported, objects, manager, start, listening, builder,
                 stop, calls, rebacked, dropped, unsaved, lost, intruded>>

\* Bug: two discovered devices are dealt with at the same time.
Bug_NoLock(i) ==
  /\ FirstAt(i, "passed")
  /\ LET c == devices[found[i].id] IN
       IF c = 0 THEN Stage(i, "creating", 0)
       ELSE IF confs[c].addr # found[i].addr
       THEN Stage(i, "closing", confs[c].backend)
       ELSE IF ~backends[confs[c].backend].up
       THEN Stage(i, "leaving", confs[c].backend)
       ELSE Done(i)
  /\ UNCHANGED <<network, unreported, objects, manager, start, listening, builder,
                 stop, calls, rebacked, dropped, unsaved, lost, intruded>>

\* Under discovery_lock: a known device is reset to the address, or just
\* connected again when it is not connected; an unknown one gets a backend.
Look(i) ==
  /\ FirstAt(i, "passed")
  /\ \A j \in DOMAIN found : found[j].stage \notin Holding
  /\ LET c == devices[found[i].id] IN
       IF c = 0 THEN Stage(i, "creating", 0)
       ELSE IF confs[c].addr # found[i].addr
       THEN Stage(i, "closing", confs[c].backend)
       ELSE IF ~backends[confs[c].backend].up
       THEN Stage(i, "leaving", confs[c].backend)
       ELSE Done(i)
  /\ UNCHANGED <<network, unreported, objects, manager, start, listening, builder,
                 stop, calls, rebacked, dropped, unsaved, lost, intruded>>

\* reset_hostaddr: the backend it had is down; the one it has now gets the
\* address and is connected.
Closed(i) ==
  /\ found[i].stage = "closing"
  /\ LET c == devices[found[i].id]
         b == confs[c].backend
     IN /\ confs' = [confs EXCEPT ![c].addr = found[i].addr]
        /\ backends' = [backends EXCEPT ![found[i].backend].up = FALSE,
                                        ![b].addr = found[i].addr]
        /\ lost' = lost \ {b}
        /\ Stage(i, "dialing", b)
  /\ UNCHANGED <<network, unreported, devices, file, manager, start, listening,
                 builder, stop, calls, rebacked, dropped, unsaved, intruded>>

\* reconnect
Left(i) ==
  /\ found[i].stage = "leaving"
  /\ LET b == confs[devices[found[i].id]].backend IN
       /\ backends' = [backends EXCEPT ![found[i].backend].up = FALSE]
       /\ lost' = lost \ {b}
       /\ Stage(i, "returning", b)
  /\ UNCHANGED <<network, unreported, confs, devices, file, manager, start, listening,
                 builder, stop, calls, rebacked, dropped, unsaved, intruded>>

\* connect() of a backend that is connected returns at once.
Dials(i) ==
  LET b == found[i].backend
  IN backends' = [backends EXCEPT ![b] = IF @.up THEN @ ELSE Connected(@)]

\* Bug: the new address is not saved.
Bug_NotSaved(i) ==
  /\ found[i].stage = "dialing"
  /\ Dials(i) /\ Done(i)
  /\ UNCHANGED <<network, unreported, confs, devices, file, manager, start,
                 listening, builder, stop, calls, rebacked, dropped, unsaved, lost, intruded>>

Dialed(i) ==
  /\ found[i].stage = "dialing"
  /\ Dials(i) /\ Done(i)
  /\ file' = Saved(confs, devices) /\ unsaved' = {}
  /\ UNCHANGED <<network, unreported, confs, devices, manager, start, listening,
                 builder, stop, calls, rebacked, dropped, lost, intruded>>

Returned(i) ==
  /\ found[i].stage = "returning"
  /\ Dials(i) /\ Done(i)
  /\ UNCHANGED <<network, unreported, confs, devices, file, manager, start,
                 listening, builder, stop, calls, rebacked, dropped, unsaved, lost, intruded>>

\* Another device than the one announced is not kept, and neither is nobody.
Created(i) ==
  /\ found[i].stage = "creating"
  /\ Done(i)
  /\ LET b == Connected([addr |-> found[i].addr, id |-> None, up |-> FALSE]) IN
       IF b.id = found[i].id
       THEN AddDevice(b)
       ELSE UNCHANGED <<objects, rebacked, dropped, unsaved>>
  /\ UNCHANGED <<network, unreported, manager, start, listening, builder, stop,
                 calls, lost, intruded>>

-----------------------------------------------------------------------------
(* start and stop.                                                         *)

\* A start() that finds another one under way waits for it and returns.
Start ==
  /\ starter \in {"new", "none", "failed"} /\ loading = {}
  /\ IF starter = "new" THEN UNCHANGED calls ELSE Call
  /\ manager \in {"not_connected", "disconnecting"}
  /\ manager' = "connecting"
  /\ starter' = "loading" /\ loading' = entries
  /\ intruded' = (intruded \/ ~NoStop)
  /\ UNCHANGED <<network, unreported, objects, entries, listening, found, builder,
                 stop, rebacked, dropped, unsaved, lost>>

\* The device is filed under the id it has told, and under the saved one when
\* it could not be reached.  Under an id that is in use the assertion fails.
Load(e) ==
  /\ e \in loading
  /\ LET b == Connected([addr |-> e.addr, id |-> e.id, up |-> FALSE]) IN
       /\ backends' = Append(backends, b)
       /\ confs' = Append(confs, [backend |-> Len(backends) + 1, addr |-> e.addr,
                                  id |-> b.id])
       /\ devices' = [devices EXCEPT ![b.id] = Len(confs) + 1]
       /\ unsaved' = IF [id |-> b.id, addr |-> e.addr] \in file THEN unsaved
                     ELSE unsaved \cup {b.id}
       /\ starter' = IF devices[b.id] = 0 THEN starter ELSE "failed"
       /\ dropped' = IF devices[b.id] = 0 THEN dropped
                     ELSE dropped \cup {confs[devices[b.id]].backend}
  /\ loading' = loading \ {e}
  /\ UNCHANGED <<network, unreported, file, manager, entries, listening, found,
                 builder, stop, calls, rebacked, lost, intruded>>

\* The new listener hears of everything there is.  It is not expected that
\* there is one already.
Listen ==
  /\ starter = "loading" /\ loading = {}
  /\ IF listening
     THEN starter' = "failed" /\ UNCHANGED <<listening, unreported>>
     ELSE /\ starter' = "listening" /\ listening' = TRUE
          /\ unreported' = {d \in Ids : Present(d)}
  /\ UNCHANGED <<network, objects, manager, entries, loading, found, builder, stop,
                 calls, rebacked, dropped, unsaved, lost, intruded>>

\* Bug: those who wait for a start are not told of its end.
Bug_StaysConnecting ==
  /\ starter = "listening"
  /\ starter' = "none"
  /\ UNCHANGED <<network, unreported, objects, manager, entries, loading, listening,
                 found, builder, stop, calls, rebacked, dropped, unsaved, lost, intruded>>

Started ==
  /\ starter = "listening"
  /\ manager' = "connected" /\ starter' = "none"
  /\ UNCHANGED <<network, unreported, objects, entries, loading, listening, found,
                 builder, stop, calls, rebacked, dropped, unsaved, lost, intruded>>

\* It waits for nobody, not even for another stop(): no state contains
\* ConnectionState.waiting.
Stop(s) ==
  /\ stopper[s] = "none" /\ manager # "not_connected"
  /\ IF NoStop THEN UNCHANGED calls ELSE Call
  /\ manager' = "disconnecting" /\ stopper' = [stopper EXCEPT ![s] = "unlisten"]
  /\ intruded' = (\/ intruded \/ starter \notin {"none", "failed"} \/ loading # {}
                  \/ found # <<>> \/ builder # None)
  /\ UNCHANGED <<network, unreported, objects, start, listening, found, builder,
                 closing, rebacked, dropped, unsaved, lost>>

\* Bug: only the devices that were loaded are closed.
Bug_CloseLoaded(s) ==
  /\ stopper[s] = "unlisten"
  /\ listening' = FALSE /\ stopper' = [stopper EXCEPT ![s] = "closing"]
  /\ closing' = [closing EXCEPT ![s] = {confs[devices[k]].backend : k \in {x \in Keys :
                   devices[x] # 0 /\ \E e \in entries : e.id = x}}]
  /\ UNCHANGED <<network, unreported, objects, manager, start, found, builder,
                 calls, rebacked, dropped, unsaved, lost, intruded>>

Unlisten(s) ==
  /\ stopper[s] = "unlisten"
  /\ listening' = FALSE /\ stopper' = [stopper EXCEPT ![s] = "closing"]
  /\ closing' = [closing EXCEPT ![s] =
                   {confs[devices[k]].backend : k \in {x \in Keys : devices[x] # 0}}]
  /\ UNCHANGED <<network, unreported, objects, manager, start, found, builder,
                 calls, rebacked, dropped, unsaved, lost, intruded>>

\* disconnect() of a backend that is being connected waits for it.
Stopped(s) ==
  /\ stopper[s] = "closing"
  /\ \A i \in DOMAIN found :
       ~(found[i].stage \in {"dialing", "returning"} /\ found[i].backend \in closing[s])
  /\ backends' = [b \in DOMAIN backends |->
                    IF b \in closing[s] THEN [backends[b] EXCEPT !.up = FALSE]
                    ELSE backends[b]]
  /\ manager' = "not_connected"
  /\ stopper' = [stopper EXCEPT ![s] = "none"] /\ closing' = [closing EXCEPT ![s] = {}]
  /\ UNCHANGED <<network, unreported, confs, devices, file, start, listening, found,
                 builder, calls, rebacked, dropped, unsaved, lost, intruded>>

\* The program ends, in whatever state, and the file is loaded by a new one.
Restart ==
  /\ Call
  /\ entries' = file
  /\ backends' = <<>> /\ confs' = <<>> /\ devices' = [k \in Keys |-> 0]
  /\ manager' = "not_connected" /\ listening' = FALSE
  /\ starter' = "new" /\ loading' = {}
  /\ found' = <<>> /\ builder' = None
  /\ stopper' = [s \in Stops |-> "none"] /\ closing' = [s \in Stops |-> {}]
  /\ unreported' = {} /\ rebacked' = {} /\ dropped' = {} /\ unsaved' = {} /\ lost' = {}
  /\ intruded' = FALSE
  /\ UNCHANGED <<network, file>>

-----------------------------------------------------------------------------
Handle(i) == \/ Arrive(i) \/ Wake(i) \/ Look(i) \/ Created(i)
             \/ Closed(i) \/ Dialed(i) \/ Left(i) \/ Returned(i)

System ==
  \/ \E i \in DOMAIN found : Handle(i)
  \/ Built
  \/ \E e \in loading : Load(e)
  \/ Listen \/ Started
  \/ \E s \in Stops : Unlisten(s) \/ Stopped(s)

Next ==
  \/ System
  \/ \E a \in Addresses : Depart(a) \/ Build(a) \/ \E d \in Ids : Appear(d, a) \/ Report(d, a)
  \/ \E b \in DOMAIN backends : LinkLost(b)
  \/ \E k \in Keys : Renamed(k)
  \/ Start \/ Restart
  \/ \E s \in Stops : Stop(s)

\* The event loop runs what is ready and every attempt ends (module
\* BackendConnection).
Fairness == WF_vars(System)

Spec == Init /\ [][Next]_vars /\ Fairness

-----------------------------------------------------------------------------
(* Properties.                                                             *)

\* Started, and everything discovery had to tell was dealt with.
Settled ==
  /\ manager = "connected" /\ starter = "none" /\ NoStop /\ listening
  /\ unreported = {} /\ found = <<>> /\ builder = None /\ ~intruded

\* Every device in the network is there, at the address it has now, and
\* connected unless its link has failed since, though it may have moved
\* before, while and after an attempt to reach it was made (Config.start,
\* add_discovered_device, reset_hostaddr, reconnect).  Given a second backend
\* by add_device it follows that one.
DevicesAreReached ==
  Settled => \A a \in Addresses :
    LET d == where[a]
        c == confs[devices[d]]
    IN d # None /\ d \notin rebacked =>
         /\ devices[d] # 0 /\ c.addr = a
         /\ backends[c.backend].addr = a
         /\ backends[c.backend].up \/ c.backend \in lost

\* What was found is in the file with its last address, for the next start,
\* unless start() met it at another device's address or add_device replaced
\* its backend, neither of which saves anything (reset_hostaddr, save).
FileIsCurrent ==
  Settled => \A a \in Addresses :
    where[a] # None /\ where[a] \notin unsaved =>
      \E e \in file : e.id = where[a] /\ e.addr = a

StopEnds(s) == stopper[s] = "closing" /\ stopper'[s] = "none"

\* When stop() ends, no backend that was ever made is connected any more and
\* nobody listens, also when another stop() is under way or has just ended,
\* unless it came upon a start, a discovery or a build_backend, or one of those
\* upon it; except the backends that have lost their device to another one,
\* which stop() does not know (Config.stop, add_device, _initialize_backends).
StopCloses ==
  [][\A s \in Stops : StopEnds(s) /\ ~intruded' =>
       /\ ~listening'
       /\ \A b \in DOMAIN backends' : backends'[b].up => b \in dropped']_vars

\* "Since each device has a unique id, network address changes (due to DHCP,
\* etc) are handled appropriately" (Config): start() loads what was stored,
\* wherever the devices are now.
StartSucceeds == starter # "failed"

\* Every discovered device is dealt with, also one that has to wait for the
\* start, unless the start failed or a stop() came upon it.
DiscoveredAreHandled ==
  found # <<>> ~> found = <<>> \/ starter = "failed" \/ intruded
=============================================================================
