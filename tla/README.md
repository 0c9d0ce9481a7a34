# vidhub-control in TLA+

vidhub-control operates Blackmagic video routers (Videohub), monitors (SmartView)
and scopes (SmartScope) over a line protocol on TCP.  It is one asyncio program:
tasks interleave only where a coroutine suspends, apart from the zeroconf thread
and a user interface thread that hand work over to the event loop.  This directory
holds models of the parts whose correctness is a matter of order: who waits for
what, who holds which lock, what is read before a suspension and used after it.

`tlc -config X.cfg M` checks a run, `tlapm M.tla` a proof module.  `PROJECT.json`
maps every definition to the lines it stands for and lists the runs, the mutants
of each property, the hazards of the code and the theorems.

## The system

| part | state | operations | interacts with |
|---|---|---|---|
| `ConnectionManager` (common.py) | state, failure reason and exception, a `Lock` with a `Condition` | `set_state`, `set_failure`, `wait`, `wait_for`, `wait_for_established`, `wait_for_disconnected` | one in every backend, used by whoever connects, disconnects or waits; emits `state_changed` under its lock |
| `SyncronizedConnectionManager` (common.py) | the followed manager, an instance lock | `set_other`, `_on_other_state_changed`, `syncronize` | one in every `DeviceConfig`; follows the manager of the config's backend |
| backend connection (backends/base.py, telnet.py) | `client`, `read_enabled`, `read_coro`, `prelude_parsed`, `response_ready` | `connect`, `disconnect`, `_catch_exception`, `do_connect`, `do_disconnect`, `read_loop`, `send_to_client` | the manager; the device over `_Telnet` |
| routing and labels (base.py, telnet.py) | feedback and control properties, the answer slot `ack_or_nak` with its event, a lock per property | `set_crosspoints`, `set_output_labels`, `set_input_labels`, `parse_rx_bfr`, `on_prop_feedback`, `on_prop_control` | the device, its other controllers, the user interface, presets |
| presets (base.py, config.py) | stored crosspoints, `active`, the list, its copy in the configuration | `add_preset`, `store_preset`, `store`, `recall`, `check_active`, `on_preset_update` | routing commands and feedback; config |
| monitors (base.py, telnet.py) | the monitors with their properties, `current_section`, the answer slot | `add_monitor`, `parse_rx_bfr`, `set_property`, `on_prop_control`, `set_monitor_property` | the device, its other controllers, the user interface |
| telnet transport (aiotelnetlib.py) | reader, writer, a writer task with a queue | `open`, `close`, `close_async`, reads | the read loop |
| `Config`, `DeviceConfig` (config.py) | devices by id, the file, the run state | `load`, `start`, `stop`, `build_backend`, `add_device`, `add_discovered_device`, `reconnect`, `reset_hostaddr`, `on_backend_set`, `on_backend_prop_change`, `save` | backends, discovery |
| discovery (discovery.py) | message queue, services, device tables, services we publish | `add_service`, `remove_service`, `update_service`, `run`, `publish_service`, `republish_service`, `unpublish_service`, `stop` | zeroconf's thread; config, OSC |
| OSC (interfaces/osc) | vidhubs by id and by name, address tree, subscriptions, packet queues | `add_vidhub`, `on_vidhub_name`, subscriptions and queries, both loops, `start`, `stop` | config, backends, discovery, clients over UDP |
| dummy backends, `runserver`, user interfaces | | | |

### What is hard about it

* **Waiting for a state.**  `connect()` and `disconnect()` wait for each other
  through the manager's condition and assert afterwards that the state is one
  they can go on from; a waiter only sees what the state is when it gets the lock
  again, so states that follow each other without a suspension are invisible.
* **Cancellation in the middle.**  A two-second timeout cancels `do_connect`
  wherever it is, also inside the clean-up of a refused connection.
* **Tasks that await each other.**  `do_disconnect` awaits the read loop, which
  may be its caller; awaiting a failed task raises again what ended it.
* **Replaced objects.**  Each attempt replaces `client`, `read_coro`,
  `response_ready` and the answer event, with tasks still waiting on the old ones.
* **Two lock orders.**  Following another manager takes the own lock and the
  source's in both orders, and drops notifications under contention.
* **One answer slot.**  Commands wait for ACK or NAK in a single slot and write
  their values into the routing when it has come, while updates keep arriving.
* **A moving network.**  A device changes its address before, while and after an
  attempt to reach it is made; discovery says so from another thread, the file
  remembers an older address, and any device may answer at the one that is dialled.
* **Loops that are told to end.**  A flag, a `None` in a queue and an awaited task
  have to agree, whatever waits in the queue at that time.
* **Reads cut anywhere.**  A parser that stops before the end of what was read
  drops the rest with the buffer.
* **Feedback loops.**  Feedback sets the control property, a change of which sends
  a command, which is suppressed by looking at who holds the feedback's lock.

### What makes each part correct

* manager: at most one lifecycle flag; failure and reason together; no lost
  wake-up; the lock is owned by the task that will release it; an answer matches
  the request; a state that has come and stays is noticed.
* followed manager: shows the source once no notification is pending; nothing of
  an earlier source gets in; no lock cycle.
* connection: one socket and one read loop; `not_connected` means no socket and no
  attempt; `connected` means a usable client; assertions hold; every call returns;
  the public state follows a simple life cycle.
* routing: a command returns its own answer; what is shown is what the device
  has, after all updates are read; every command returns.
* presets: `active` exactly when the routing contains the preset; the index is the
  position; the configuration's copy agrees with the list.
* monitors: one per name, in the device's order; each shows what the device has,
  wherever the parse of a read stopped.
* config: one device per id; every device in the network is reached at the address
  it has now; the file has it too; a stop leaves connected only what no table has any
  more; no discovered device waits for ever.
* discovery: once the messages are handled, the services listed are those that
  exist, with their addresses, and zeroconf answers for exactly what we publish;
  `stop` returns.
* OSC: a subscriber has the current list; `stop` comes back, with the socket closed
  unless a loop has crashed.

## The modules

```
ConnectionState          states, set_state, set_failure, predicate of wait_for
  |-- ConnectionManager      Lock and Condition       |-- MCConnectionManager
  |     |-- ManagerProofs                             |
  |-- BackendConnection      calls, link, read loop   |-- MCBackendConnection
  |     |-- BackendConnectionProofs                   |
  |     |== BackendLifecycle (INSTANCE, refinement)   |
  |-- SyncronizedManager     following a source       |-- MCSyncronizedManager
  |     |-- ManagerProofs                             |
CrosspointControl            commands, answers, feedback  -- MCCrosspointControl
  |-- CrosspointControlProofs
SmartView                    monitors, parser, commands   -- MCSmartView
  |-- SmartViewProofs
Presets                      presets and their saved copy -- MCPresets
  |-- PresetsProofs
Config                       devices, file, start, stop   -- MCConfig
  |-- ConfigProofs
Discovery                    queue, loop, device tables   -- MCDiscovery
  |-- DiscoveryProofs
OscInterface                 subscriptions, server loops  -- MCOscInterface
  |-- OscInterfaceProofs
```

**ConnectionState.**  An `IntFlag` is the set of its single-bit members, so
`|`, `&` and `in` are union, intersection and inclusion.  `SetState`, `SetFailure`
and `WaitPredicate` are the bodies of `_set_state`, `_set_failure` and of the
predicate in `_wait_for`; a manager is its state with its reason.  The reason's
text is reduced to where it comes from.  `is_compound` asks whether the value has a
name; the alias `waiting` has one, hence `Waiting` is not compound.

**ConnectionManager.**  `queue` and `owner` are the asyncio lock, `asleep` a task
in `Condition.wait`.  A locked block without a suspension is one step.  A
`wait_for` with a timeout runs the wait in an inner task and owns the lock before
that task starts (`handoff`) and after it ended (`resume`, `expired`); the timer
may fire at any of these places.

**BackendConnection.**  One step runs a coroutine from one suspension to the
next.  `pc` says where a task is suspended and `on` what it is blocked on or what
it will return.  `Connects`, `Disconnects`, `Sends` and `Watchers` are calls of
`connect()`, `disconnect()`, `send_to_client()` and `wait_for_established()`;
`Conns` are `_Telnet` objects, each with the read loop made for it.  `Faults`
lists what the environment does: refused connections, other errors when dialling,
a device that never sends its prelude, a reset, an unreachable network, a line the
parser cannot read, an ACK nobody asked for.  The manager's lock is never held
across a suspension here, so "async with manager" is part of a step and
`wait_for` a guard; that this is what the lock and its condition amount to is
what ConnectionManager shows.

**BackendLifecycle.**  The abstract specification: what the state promises to an
observer.  BackendConnection implements it under `state <- mgr.state`.

**SyncronizedManager.**  `set_other` and `_on_other_state_changed` with the
instance lock, the own lock and the source's.  `Outside` holds a lock as a timed
`wait_for` does.  An emission schedules a task; `unbind` does not take it back.

**CrosspointControl.**  A connected backend: commands that take the emission lock
of `crosspoints`, write a block and wait for the answer slot; the read loop that
fills the slot and applies updates; `on_prop_feedback` and `on_prop_control`.  The
device, its wire and its other controllers are external: it answers in order, with
ACK and an update or with NAK, and reports every change.  It starts behind the
prelude with the routing of the device shown, which assumes that nothing came behind
`END PRELUDE` in the same read: the parser drops that (telnet.py:162-166).

**Presets.**  `store_preset`, `recall` and the `active` flag, with the copy that
`VidhubConfig` keeps and saves.  Storing never suspends and is one step; a command,
abstracted to what it sets and whether it holds the lock, holds back the emissions
that presets check themselves on.  `parsed`, `connected` and `fresh` are the
connection as presets see it; `Restart` builds a new backend from the saved copy.
`Absent` lets the routing change while the link is down and `Merging` lets callers
pass `clear_current=False`.

**SmartView.**  The monitors of a SmartView or SmartScope, from the first prelude
through commands, other controllers and reconnections.  What the device sends is a
sequence of blocks and a read takes any number of them; `AfterBlock` is the body of
the parser's loop for the lines of one block, the empty line at its end included.
One property of each monitor stands for all, which are handled alike.  `doubtful`
records for which monitors the code has given up knowing: what the parse dropped,
what was assigned and is refused or not answered yet, what was lost with the link,
until the next block or ACK for that monitor.  `overlapped` records that a command
was sent while another one waited.

**Config.**  `backends` and `confs` are every backend and `DeviceConfig` ever made,
`devices` the table of ids, `file` what was saved, `where` the network.  A step runs
to the next attempt: an attempt ends as the network is at its end, which is what
BackendConnection, BackendLifecycle and SyncronizedManager say about it.  `found`
are calls of `add_discovered_device` in the order of their locks.  `Restart` ends
the program anywhere and loads the file.  A caller may build a backend in every
state of the configuration, and any of the calls `Stops` may come while another one
is under way: `stopper` and `closing` are of each.  `intruded` records that a
`start()`, `stop()` or `build_backend` came upon work of another kind under way,
which the code does not prevent; `dropped` are the backends whose device has got
another one, of which no table knows any more; `unsaved`, `rebacked` and `lost`
record what the code knows and does not save, a second backend of a device, and a
link that fails after it was up.

**Discovery.**  `news` is what zeroconf's browser has to say in its own thread; the
details are asked for later (`Ask`), when they may have changed, and posted to the
queue.  The loop of `run()` handles one message at a time, our own registrations
among them; the events it emits run later and fill the tables.  A message of ours
holds the `ServiceInfo` itself, so that `republish_service` changes what waits
(`Refreshed`); zeroconf is given a copy before the wait (`zcInfo`, `to_zc_info` at
discovery.py:286), so that what changes meanwhile is registered by the next message.

**OscInterface.**  `rx` and `tx` are the queues of the two loops, `tasks` the
handlers that events schedule, `told` what each client heard last.  A crosspoint
command keeps the dispatch loop busy until the device answers.  A packet that
cannot be parsed, a handler that raises and a command that fails end the dispatch
loop (`crashed`), whose exception comes out of the `stop()` that joins it.
`control` is where `start()` or `stop()` is; a `start()` stops the server there is,
and a call may follow one that raised.  Calls do not overlap: nothing in the
repository makes them do so, and nothing in the code prevents it.

The modules meet at their states: `Config` takes from `BackendConnection` that an
attempt ends and what it leaves, and hears what `Discovery` emits; `OscInterface`
waits for a backend to be connected and publishes through `Discovery`.  They are
not composed in one state space; what one assumes of another is written in its
header.

## What the runs check

| run | instance | what it shows |
|---|---|---|
| `manager` | two setters, a waiter without and one with a timeout | types, one lifecycle flag, a lock with one owner and a sound queue, no lost wake-up, answers that match; a state that stays is noticed |
| `backend_safety` | a `connect`, a `disconnect`, a `send_to_client`, two connections, every fault, any overlap | assertions hold, a failure sticks |
| `backend_link` | three `connect`, two `disconnect`, a send and an onlooker, at any time; a device that is prompt, fails silently if at all and refuses nothing | one socket and one read loop, a state that tells the truth about them, and each `connect()` returns the client there is, also one that waited beside an attempt |
| `backend_lifecycle` | two `connect`, whose attempts come one after the other, two `disconnect` at any time; refusals, timeouts, resets, errors that are only logged | refinement of `BackendLifecycle`, with its liveness; every `connect()` comes back, every `disconnect()` too, also the one that waits for the other, unless a `connect()` overtakes it |
| `synced` | two sources, two `set_other`, two notifications pending | the followed state is right, no lock cycle, nothing stale |
| `crosspoints` | two outputs, two inputs, two commands, an output that only others set | own answers, the routing is what the device says, every command returns |
| `presets` | two presets, two outputs, two inputs, commands, reconnections that find the routing as it was, restarts, stores that clear | `active` is exact, the saved copy complete |
| `smartview` | two monitors, two commands, two links, another controller, reads of any length | one monitor per name; the monitors that are not `doubtful` show what the device has |
| `config` | a stored and an unknown device, two addresses, two moves, two calls of `stop` that may overlap, one more call or restart at any time | devices are reached where they are, the file is current, a stop closes all that is in the tables, every discovered device is dealt with |
| `discovery` | a device announced under two names, two names of ours of which one is taken, four changes | tables and registrations are right once the messages are handled; `stop` returns |
| `osc` | a vidhub, two names, a client with two packets that may raise, three calls of `start` and `stop` | subscribers are current; a stop comes back and closes the socket unless a loop has crashed |
| `doc_addresses` | two stored devices, anywhere | **violated**: `start()` fails when a device has taken another's stored address |

The last contradicts a sentence of the code's documentation and is explained below.

`CHECK_DEADLOCK FALSE` is used where all calls may be over and nothing is left to do.

### Bounds

* Two connections per backend are enough for an old read loop beside a new one:
  a `_Telnet` object that nothing refers to is used again (`Fresh`), so that any
  number of reconnections happens with two.
* Two callers of each kind are what an overlap needs, and two `disconnect()` what it
  takes for one to wait for the other (base.py:94); `backend_link` has three
  `connect()`, so that one can wait behind an attempt that follows a disconnect.
* Two pending notifications and two sources give an old notification beside a new
  one, and a switch from one source to the other and back.
* Two presets let the second be stored before the first exists (`store_preset`
  fills the gap) and one be checked while the other is stored.
* Two outputs and two inputs separate the output a command sets from one it leaves
  alone, and a value from its change.  `MaxUnread = 3` lets an answer, its update
  and a foreign update be unread together; only `OtherController` respects it.
* Two moves let a device go and come back elsewhere, or two devices change places;
  with two addresses every dial may meet the other device.  `Stops` has two calls of
  `stop()`, which may overlap; each may be made again.  `MaxCalls = 1` is one
  `build_backend`, one new name, one further `start`, one `stop` beside another one
  or one `Restart`, at any time.
* Four changes announce a service twice, withdraw it and publish something
  meanwhile; `Renamed` gives one device two names, which is how one entry comes to
  belong to another service.
* Three calls are a start, a stop and a start of the next server, or a start that
  stops the server it has, or a call after one that raised; two packets let a
  subscription be followed by a query, a command, its end or a packet that raises.
* Two links make a prelude meet monitors that are known; one change by another
  controller beside two commands lets blocks and answers come in one read.
* Larger instances that take longer show nothing else: `synced` with three
  notifications, the safety of `crosspoints` with three commands, `backend_link`
  with four `connect()` and three `disconnect()`, `backend_lifecycle` with three
  `connect()`.
* Symmetry is used in runs that check safety only.

`Overlap = FALSE` is the discipline "no call connects while another one connects".
Nothing in the program enforces it: `send_to_client` may connect beside a
`connect()`.  With `Overlap = TRUE` any call begins at any time.  What goes wrong then
needs an attempt that is refused: the finish of the refused one comes after another
has begun and overwrites its state (base.py:79).  So `backend_link` has every overlap
and no refusal, `backend_safety` every overlap and every fault for what holds all the
same, and `backend_lifecycle` refusals without overlap.  The theorems about the
invariants of `backend_link` cover both: no refusal, or no overlap.

### Fairness

* The event loop runs every task that can run: weak fairness of each task's steps.
  Calls are never obliged to begin.
* The two-second timer of `connect()` fires if the dial is not over: weak fairness
  of `DialTimeout`.  Nothing obliges a device to answer, connect or send data, in
  the backend modules.
* Locks are first come first served.  ConnectionManager has the queue; in
  CrosspointControl it is strong fairness of `Send`.
* CrosspointControl assumes that a connected device answers: a command waits
  without a timeout, so without an answer it would wait for ever.

* Config: whatever the event loop can do it does, and every attempt ends
  (ConnectsReturn), hence weak fairness of `System`; nothing obliges discovery,
  callers or the network.
* Discovery: weak fairness of the loop, of the handlers of events and of `stop`;
  zeroconf answers a registration, which it bounds itself.  The browser's thread
  need not go on.
* OscInterface: weak fairness of both loops, the handlers and the steps of `start`
  and `stop`; a command ends, with an answer or an exception, without which `stop`
  would wait for the dispatch loop as long as the command does.
* SmartView: no liveness is claimed, a command waits without a timeout.

## What is proved

Proof modules extend the module they are about; nothing is assumed beyond the named
`ConstantsAssumption` of the module (sets of tasks are disjoint, `None` is none of
them, arguments are those the program uses).  There is no bound on the number of
tasks, calls or connections.  Every invariant that a passing run checks is stated by
a theorem, under the conditions named below where it has some.

* **BackendConnectionProofs**: `TypeCorrect`, `ManagerStaysWellFormed`,
  `AssertionsNeverFail`, `FailureIsSticky`.  It begins with lemmas on the operators of
  ConnectionState: `SetState` and `SetFailure` keep a manager well formed for the
  arguments the program uses, and what a wait that was satisfied may answer
  (`SettledAnswer`).  The assertion of `connect()` depends
  on the answer of `wait_for`, that of `disconnect()` on the answer not being
  `not_connected`; both need that the state is one of the six well-formed ones, for
  a compound state would satisfy the predicate with other flags set.  So the
  invariant is the type invariant with `ManagerWellFormed` and `AssertionsHold`,
  and `FailureIsSticky` follows from it step by step: each change of the manager is
  a `SetState` or `SetFailure`, and `Finish` looks for a failure first.

  Its second part: `ImplementsLifecycle`, `OneLinkAtATime`, `NotConnectedIsNothing`,
  `ConnectedCanBeUsed`, `ConnectHandsOutClient`, for any number of calls.  They assume
  that no call connects while another one does, or else that no attempt is refused
  (`TurnsAreKept`), and a device that fails silently if at all (`FailsSilently`: no
  fault `unreachable`); all but the first also need it to be prompt and to send what
  can be parsed (`IsPrompt`: no timeout, no garbage).
  Without these they are false, see "What is known not to hold".  Two invariants, one
  on top of the other.  `Turns`: at most one task is between the claim of an attempt
  or a disconnect and its end, and the state says where it is, for a call that comes
  meanwhile waits for that end unless a refused attempt reports it early; this gives the
  refinement, since every change of the state is then one of `BackendLifecycle`'s
  steps.  `Link`: what client, socket and read loop are at each place of that task,
  while everybody else leaves them alone (`Drifts`); at the other places, the client
  is the one socket that is open and the one loop that lives.
  `ConnectHandsOutClient` is read off the steps: only a claim that finds the backend
  connected and the end of an attempt return a connection.
* **ManagerProofs**, about ConnectionManager: `TypeCorrect`,
  `ManagerStaysWellFormed`, `LockHasOneOwner`, `LockQueueIsSound` and both together as
  `LockStaysSound`, `NoWakeupIsLost`, `AnswersAreCurrent`.
  None is inductive alone.  A timed waiter in `handoff` will sleep without looking
  again, so the invariant says that the state does not match there; that needs the
  state to be unchanged while it owns the lock, which needs one owner, and that
  needs the queue to hold each waiting task once.

  Its second part is about SyncronizedManager, whose names and variables are others
  than those of ConnectionManager: `SyncTypeCorrect`, `FollowsItsSource`, `NoCycle`,
  `NothingStaleGetsIn`.  The invariant is about the instance lock: whoever waits
  inside owns it (`Holder`), so that there is one at most, a caller of `set_other`
  then has no lock but the manager's own, a notification none but its source's
  (`Held`), and `other` is the source it will copy (`Followed`).  `Listening` says
  what is listened to while `set_other` waits, without which a change in between
  would go unnoticed, and `Fresh` is what `FollowsTheSource` adds to it.

* **PresetsProofs**: `TypeCorrect`, `SavedIsComplete`, for any presets, callers and
  devices, merging stores and a changing routing included.  A store reaches the copy
  in up to three events, of which those that change nothing are not emitted; that the
  last one leaves the copy complete follows only if it was complete before, so
  `SavedAgrees` is inductive with the types, and every other step, restarts
  included, has to keep what each preset holds.  `ActiveFlagIsExact` needs callers
  that clear what they store over and store something (`StoresReplace`) and a routing
  that stays while the link is down (`RoutingStays`); without either a flag may be
  wrong, as listed below.  Presets that do not wait for a prelude are exact even
  while the next one is read, and before the first, when the routing is not known
  yet, all of them wait for it: so `Flags` says something of every preset in every
  state, and the property only of some.
* **CrosspointControlProofs**: `TypeCorrect`, `Truthful` and, if others leave alone the
  outputs that commands set (`OwnOutputs`), `ShownIsRouting`, from the end of a
  prelude behind which nothing was dropped.  An answer does not
  say what it answers.  `Exchange` says that between its
  sending and its return exactly one of three things is there for a command: its block
  on the wire, its answer unread, or its answer in the slot; so the answer in the slot
  is that of the command that holds the lock.  Every output will show what the device
  has once the updates on their way are read (`Agrees`, `Becomes`), and what a command
  stores after its ACK is what the device has had since (`Executed`).

* **DiscoveryProofs**: `TypeCorrect`, `EverythingSettles`, for any services, devices,
  addresses and changes.  What is right in the end has to be said of every state
  before it: `Settles` is what the messages that wait will make of what there is, for
  the queue and `services` (`ServicesFollow`), the queue and `registered`
  (`OwnFollow`), the events and the tables (`EventsFollow`).  What the loop is
  registering is what its message says, or a later message of that name waits
  (`Superseded`).  Details that are asked
  for late are those of then, so that a service with news still to come may be
  anything, and a removal that is the last news of it is still true (`NewsOK`).  A
  table keeps the address of a service that was there ever since it came (`Stays`),
  no matter what other services of the device do.

* **ConfigProofs**: `TypeCorrect`, `DevicesReached`, `FileStaysCurrent`,
  `StopLeavesNothing`, for any devices, addresses, files, moves, calls and
  discoveries, with restarts at any time.  Again, what holds once everything was dealt
  with has to be said of every state before.  A device is unreported, or its last
  discovery has the address it is at, or it is reached there (`DevicesFollow`); when
  that discovery is dialling, the device has the address already, and its backend is
  the one that is dialled (`OnItsOwn`), since a backend belongs to one device and has
  its address (`ObjectsOK`).  Nobody else touches it meanwhile because discoveries
  go on one at a time and in their order (`TurnsOK`), and because no device is
  loaded once the listener is there (`PhasesOK`, which says what can be under way
  in each state of the manager if nothing was intruded upon).  A device whose address
  is not in the file is on the list of those nothing has saved, or its discovery is
  still to save it (`FileFollows`).

  `StopLeavesNothing` looks at every backend ever made.  Each is that of a device in
  the table or in `dropped` (`AllKept`).  If nothing was intruded upon, nothing is
  built, found or started while a `stop()` closes, so that what is connected is on
  its list or in `dropped`, for each of any number of overlapping `stop()` (`Closes`
  in `PhasesOK`).  It says nothing of the backends in
  `dropped`, which stay connected, nor of a `stop()` that came upon other work.

* **SmartViewProofs**: `TypeCorrect` and `MonitorsAreShown`, for any list of monitors,
  any values, commands, links and changes by others.  The second needs that commands
  never overlapped and that the reader lives, and leaves out every monitor in
  `doubtful`: a block of it or an answer for it was dropped behind the end of a parse
  (the last known monitor's block, or a lone answer), a value assigned to it was
  refused or is not answered yet, or a command for it was lost with its link, until
  its next block or ACK.  What a read of n blocks makes of the parser is a recursive function
  inside a definition; `ParseSteps` shows that it exists and satisfies its equation,
  by an induction over 0..n (`UpTo`, from the library's least element of a
  well-founded relation), and everything else reasons about its n steps.  Which
  monitors are known, in which order, is settled by the prelude and holds whatever
  overlaps (`Always`, with the types).  The rest needs that commands do not overlap
  (`InOrder`): one exchange is under way and the answer in the slot is that of the
  command it woke (`OneExchange`, `SlotIsTaken`), a section is open only during a
  prelude (`SectionClosed`), of which what is still to come fits what is known
  (`PreludePending`), and for each monitor the last on its way about it is what the
  device has; if nothing is, then what the command that was woken takes over; else
  what is shown (`MonitorsFollow`).  Once everything is read, the last is
  `ShowsTheMonitors`.

* **OscInterfaceProofs**: `TypeCorrect` and `SubscribersHear`, for any vidhubs, names,
  clients, packets, renames and restarts.  While nobody told the send loop to end, a
  subscriber will have heard of what there is now once the messages on their way are
  sent, or a handler is to run that will tell it (`WillBeCurrent`).  The send loop
  takes all that waits at once: of each client and topic the last message counts
  (`Sent`), so that what a handler puts behind the others is what its subscribers hear
  (`PutBehind`), and a handler reads the tables when it runs, not when it is made.
  The handler enumerates the subscribers, of whom there are finitely many in every
  state (`FewSubscribe`, `Enumerated`).  `by-name` is right as long as no two vidhubs
  have had the same name: the table is then the inverse of the names (`NamesAgree`).

**Only model-checked**: liveness and fairness (the prover has neither `ENABLED` nor
fairness), those of `BackendLifecycle` included: `ImplementsLifecycle` is the safety
part of what `FollowsLifecycle` asks, and the run adds that attempts and disconnects
come to an end; likewise `StableStateIsNoticed`, `ConnectsReturn`, `DisconnectsReturn`,
`CommandsReturn`, `StopReturns`, `StopFrees` and `DiscoveredAreHandled`.

## What is assumed

* Python 3.7 to 3.9: `asyncio.wait_for` awaits the inner task it cancels, a
  cancelled `Condition.wait` takes its lock again, `CancelledError` may or may not
  be an `Exception` (both outcomes are in `LoopCancelled`), and a compound flag has
  no name.
* python-dispatch (external): an emission lock belongs to one task at a time and
  emits at its end what changed under it; `bind_async` schedules a task per
  emission.
* zeroconf (external): the browser reports in order, one call after the other; an
  exception in a call ends its thread; a registration ends, with an exception when
  somebody else has the name.
* Writing to a socket does not suspend for ever; DNS and TCP are one step.

## What is known not to hold

Behaviours the models show.  The one with the name of a run is found by that run.
Others appear when a constant or a property is changed as it says there; where a
sentence of the documentation promises something else it is quoted.

Connection:

* A `connect()` that times out waiting for the prelude closes
  nothing: the socket stays open and its read loop goes on in state `not_connected`,
  which "indicates there is no connection and no connection attempts are being made"
  (common.py:14; base.py:76).
  `NotConnectedMeansNothing` fails with the fault `timeout`.
* A refused attempt reports its error before its `connect()` has
  ended.  A call that waits beside it starts the next attempt in between, and the end
  of the first one sets `not_connected` while the second dials (base.py:79), whose own
  end then leaves an open socket under that state.  `NotConnectedMeansNothing` fails
  with `Overlap` and the fault `refused` together.
* A `disconnect()` that waits for another one's end may find that
  a `connect()` has begun before it could look (base.py:95); it then waits for the next
  disconnection, though the test of two `disconnect()` expects it to come back.
  `DisconnectsReturn` sets that case aside (`Overtaken`) and fails without that.
* A line that cannot be parsed ends the read loop with an exception that
  `disconnect()` raises again, and the state stays `disconnecting`, "the connection
  is being closed" (common.py:22; telnet.py:103).  Later calls wait for ever.
* `wait_for_established` promises "either a success or failure" (common.py:274),
  but sleeps through an attempt that is refused: `disconnecting` and `not_connected`
  are set in one locked block.
* A request for several flags returns as soon as one matches, and a caller that
  need not wait gets the whole state, flags outside the request included
  (common.py:230-232, 257).
* A reset is only logged: the read loop ends and the state stays `connected` with
  nobody reading (telnet.py:57).
* Under overlap a refused first attempt and two more can drop a client whose read
  loop goes on; a `disconnect()` then awaits that loop for ever.

Routing, presets, monitors:

* An update that the read loop has parsed since the device sent its ACK is covered
  by the command's own values (telnet.py:232): with jobs on the outputs that others
  set too, `ShowsTheRouting` fails, though `crosspoints` is "the
  currently active routing of the switcher" (base.py:144).
* A change of `crosspoint_control` made while a command waits for its answer is
  dropped (base.py:368).
* After a reconnection with another routing, after a merge that changes no entry
  and after storing nothing, a preset's `active` is wrong until the next change of
  the routing (base.py:644, 664).  `presets` runs without these.
* `set_other(None)` keeps the failure flag of the last source (common.py:408).
* Commands of different sections share the answer slot (telnet.py:128-131, 246).
* What comes behind `END PRELUDE` in the same read is dropped (telnet.py:162-166), a
  routing update among it is lost until that output changes again.
* A command whose link goes down waits for ever, holding its section's lock.

* A read that takes an answer of a SmartView with anything behind it ends the read
  loop (telnet.py:291); blocks behind the last known monitor's are dropped, so that
  after a reconnection only the first monitor may be refreshed; commands that
  overlap take each other's answer; one that nobody took ends the next wait for a
  prelude early; a value that was refused stays shown.

Config and discovery:

* **`doc_addresses`**: `start()` creates every stored device at its stored address
  and files it under the id that is reported there.  When B is at A's old address,
  A's entry is filed under B and B's own entry fails the assertion (config.py:162);
  `start()` raises, and the state stays `connecting`.
* `add_device` gives a known device the new backend and leaves the
  old one connected (config.py:302), where no table has it: `stop()` does not close
  it, though it "Stops all device backends" (config.py:216).  `build_backend` gets
  there by itself when discovery adds the device while it connects.  `StopCloses` sets such a
  backend aside (`dropped`) and fails without that.
* A `start()` of an object that was stopped finds its devices in the table and fails
  the same assertion; a `stop()` that comes upon a start, a discovery or a
  `build_backend` leaves what these connect connected, for no state contains
  `waiting` (config.py:219); a discovered device that waits for a start that fails or
  is stopped waits for ever (config.py:338).
* `add_device` with a backend of a known device raises after it has replaced the
  backend and saves nothing (config.py:308).  `start()` never saves what it learns.  An id made up for a device that could not be
  reached is saved and may be made up again for another after a restart.
* A removal carries no properties, so that the tables of `BMDDiscovery` keep the
  device; when it comes back the assertion fails and nobody is told
  (discovery.py:559, 595).  Its links recover by `reconnect` only if its service
  is updated rather than added.  A service that is gone when `add_service` asks for it
  ends zeroconf's thread; a second announcement of a known one ends the loop, as does
  a name that is taken.

OSC:

* A `None` behind a message ends the send loop with TypeError, `stop()` raises and
  the socket stays open (server.py:109); a `None` left in the packet queue ends the
  next server's dispatch loop at once.
* A packet that cannot be parsed, or a handler that raises, ends the dispatch loop
  (server.py:49-55, 126): nothing is handled any more, and `stop()` raises where it
  awaits that loop (server.py:130), before the send loop is told to end and the
  transport is closed.  `StopFrees` sets a crashed loop aside.
* Calls of `start()` and `stop()` are not kept apart (interface.py:80-96).  OscInterface
  assumes that they do not overlap, as in all uses in the repository.
* A second `start()` with discovery raises, since the service is published; so does a
  `stop()` without one.  The `start()` has stopped the server by then and keeps it, and
  no further `stop()` can close it again.
* Two vidhubs of one name share an entry that goes with either.  `add_vidhub` gives
  up after five seconds.  Subscriptions survive a restart of the server, but what
  changed meanwhile is not sent.

## Not modelled

* Bytes, lines and block formats: they are data.  What a line cut in two does to
  the parser is the fault `garbage`.
* The sizes of a switcher's tables and its labels, which are handled as the routing
  is.  Two sections at once, and a routing command whose link goes down, are listed
  as hazards.
* `on_backend_device_id` (config.py:316): a device tells its id before it is
  connected, and changes before that are ignored (config.py:650).
* `wait_for_connecting` in `build_backend` (config.py:602): that the attempt is seen
  `connecting` depends on the `sleep(0)` of `connect()`, a matter of one turn of the
  event loop.
* The nodes below a vidhub in the OSC tree, which publish its properties as the
  lists are published, and list nodes, which have no state.
* User interfaces, `runserver`, logging and the dummy backends: no order to get
  wrong, or a toolkit's.
