----------------------------- MODULE SmartView -----------------------------
(***************************************************************************)
(* SmartView and SmartScope devices: their monitors (SmartViewBackendBase, *)
(* SmartViewMonitor, backends/base.py) and the connection that shows and   *)
(* sets them (SmartViewTelnetBackendBase, backends/telnet.py).             *)
(*                                                                         *)
(* What the device sends is a sequence of blocks, each closed by an empty  *)
(* line; a read takes some of them, and parse_rx_bfr stops in several      *)
(* cases before their end.  One property of the monitors stands for all:   *)
(* they are handled alike.  The device and the wire are external: it       *)
(* introduces itself, answers each command in order and reports what other *)
(* controllers change (tests/conftest.py:209-213).                         *)
(*                                                                         *)
(* Nothing suspends between two lines, nor under a property's lock, so     *)
(* that a read is one step.  The commands that an answer wakes run before  *)
(* the next data can come in.                                              *)
(***************************************************************************)
EXTENDS Naturals, Sequences, SequencesExt

CONSTANTS
  Monitors,    \* as the device lists them
  Values,      \* of the property
  Commands,    \* runs of set_monitor_property
  MaxLinks,    \* how often we connect
  MaxChanges,  \* how often others change a monitor
  None

ASSUME ConstantsAssumption ==
  /\ Monitors \in Seq(Range(Monitors)) /\ Monitors # <<>> /\ IsInjective(Monitors)
  /\ MaxLinks \in Nat /\ MaxChanges \in Nat
  /\ None \notin Values \cup Range(Monitors) \cup Commands \cup {"head", "ACK", "NAK"}

VARIABLES
  monitors,    \* self.monitors, by name
  shown,       \* the property of each
  section,     \* self.current_section: None, "head" or a monitor
  parsed,      \* self.prelude_parsed
  slot,        \* self.ack_or_nak
  event,       \* self.ack_or_nak_event is set
  link,        \* "down", "dialled", "heard" (response_ready) or "up"
  reader,      \* the read loop: "alive", or "dead" of an exception
  pc, job,     \* where each command is and what it sets
  device,      \* the property of each monitor on the device
  toDevice, fromDevice,
  links, changes, \* so far
  doubtful,    \* monitors whose value may be wrong, see ShowsTheMonitors
  overlapped   \* commands overlapped

vars == <<monitors, shown, section, parsed, slot, event, link, reader, pc, job, device,
          toDevice, fromDevice, links, changes, doubtful, overlapped>>

parser  == <<monitors, section, parsed, reader>>
answer  == <<slot, event>>
history == <<links, changes, overlapped>>

Names == Range(Monitors)

Header       == [kind |-> "head", of |-> None, value |-> None]
Block(m)     == [kind |-> "monitor", of |-> m, value |-> device[m]]
Answer(a, c) == [kind |-> a, of |-> c, value |-> None]

TypeOK ==
  /\ IsPrefix(monitors, Monitors)  \* one each, with the position as the index
  /\ shown \in [Names -> Values \cup {None}]
  /\ \A m \in Names : shown[m] = None <=> m \notin Range(monitors)
  /\ section \in {None, "head"} \cup Names
  /\ parsed \in BOOLEAN /\ event \in BOOLEAN /\ overlapped \in BOOLEAN
  /\ slot \in {None, "ACK", "NAK"}
  /\ link \in {"down", "dialled", "heard", "up"}
  /\ reader \in {"alive", "dead"}
  /\ pc \in [Commands -> {"idle", "queued", "waiting", "woken", "stuck",
                          "accepted", "refused", "raised"}]
  /\ job \in [Commands -> [of : Names, value : Values] \cup {None}]
  /\ device \in [Names -> Values]
  /\ toDevice \in Seq(Commands)
  /\ fromDevice \in Seq({Header} \cup [kind : {"monitor"}, of : Names, value : Values]
                        \cup [kind : {"ACK", "NAK"}, of : Commands, value : {None}])
  /\ links \in 0 .. MaxLinks /\ changes \in 0 .. MaxChanges
  /\ doubtful \subseteq Names

Init ==
  /\ monitors = <<>> /\ shown = [m \in Names |-> None]
  /\ section = None /\ parsed = FALSE /\ slot = None /\ event = FALSE
  /\ link = "down" /\ reader = "alive"
  /\ pc = [c \in Commands |-> "idle"] /\ job = [c \in Commands |-> None]
  /\ device \in [Names -> Values]
  /\ toDevice = <<>> /\ fromDevice = <<>>
  /\ links = 0 /\ changes = 0 /\ doubtful = {} /\ overlapped = FALSE

-----------------------------------------------------------------------------
(* The connection, as far as the parser takes part in it.                  *)

\* do_connect: a new event, but the slot and the section stay as they are.
Connect ==
  /\ link = "down" /\ links < MaxLinks
  /\ links' = links + 1
  /\ link' = "dialled"
  /\ event' = FALSE /\ parsed' = FALSE
  /\ fromDevice' = <<Header>> \o [i \in DOMAIN Monitors |-> Block(Monitors[i])]
  /\ UNCHANGED <<monitors, shown, section, slot, reader, pc, job, device, toDevice,
                 changes, doubtful, overlapped>>

\* wait_for_response(prelude=True): an answer that nobody took ends the wait
\* for the prelude too.
Established ==
  /\ link = "heard"
  /\ \/ parsed /\ UNCHANGED answer
     \/ ~parsed /\ slot # None /\ slot' = None /\ event' = FALSE
  /\ link' = "up"
  /\ UNCHANGED <<parser, shown, pc, job, device, toDevice, fromDevice, history,
                 doubtful>>

\* disconnect(): a command that waits keeps the event that do_connect replaces.
Disconnect ==
  /\ link = "up" /\ reader = "alive"
  /\ \A c \in Commands : pc[c] # "woken"
  /\ link' = "down"
  /\ toDevice' = <<>> /\ fromDevice' = <<>>
  /\ LET lost == {c \in Commands : pc[c] = "waiting"} IN
       /\ pc' = [c \in Commands |-> IF c \in lost THEN "stuck" ELSE pc[c]]
       /\ doubtful' = doubtful \cup {job[c].of : c \in lost}
  /\ UNCHANGED <<parser, shown, answer, job, device, history>>

-----------------------------------------------------------------------------
(* parse_rx_bfr.                                                           *)

Complete(known) == Len(known) = Len(Monitors)

\* Bug: a monitor is added for every block.
Bug_AddAlways(known, m) == Append(known, m)

\* parse_monitor_line looks for the monitor by its name.
FindOrAdd(known, m) == IF m \in Range(known) THEN known ELSE Append(known, m)

\* The state s of the parser after the next block b, alone if there is no
\* other in the buffer.  go: "on", "stop" (break) or "dead", when the empty line
\* behind an answer asks for the name of a section and there is none.
AfterBlock(s, b, alone) ==
  IF s.go # "on" THEN s
  ELSE CASE b.kind = "head" -> [s EXCEPT !.section = "head", !.read = @ + 1]
    [] b.kind = "monitor" ->
         LET known == FindOrAdd(s.monitors, b.of)
             all   == Complete(known)
         IN [s EXCEPT !.monitors = known, !.shown[b.of] = b.value, !.read = @ + 1,
                      !.section = IF all THEN None ELSE b.of,
                      !.parsed = @ \/ all, !.go = IF all THEN "stop" ELSE "on"]
    [] OTHER ->
         [s EXCEPT !.slot = b.kind, !.event = TRUE, !.read = @ + 1,
                   !.section = IF alone THEN None ELSE @,
                   !.go = IF alone THEN "stop"
                          ELSE IF s.section = None THEN "dead" ELSE "on"]

Parsed(n) ==
  LET after[i \in 0 .. n] ==
        IF i = 0
        THEN [go |-> "on", read |-> 0, section |-> section, monitors |-> monitors,
              shown |-> shown, parsed |-> parsed, slot |-> slot, event |-> event]
        ELSE AfterBlock(after[i - 1], fromDevice[i], n = 1)
  IN after[n]

\* The monitors that the blocks i \in I are about.
About(I) == {IF fromDevice[i].kind = "monitor" THEN fromDevice[i].of
             ELSE job[fromDevice[i].of].of : i \in {j \in I : fromDevice[j].kind # "head"}}

\* What comes behind the end of the parse is dropped with the buffer.
Read(n) ==
  /\ link # "down" /\ reader = "alive" /\ n <= Len(fromDevice)
  /\ \A c \in Commands : pc[c] # "woken"
  /\ LET s == Parsed(n) IN
       /\ section' = s.section /\ monitors' = s.monitors /\ shown' = s.shown
       /\ parsed' = s.parsed /\ slot' = s.slot /\ event' = s.event
       /\ reader' = IF s.go = "dead" THEN "dead" ELSE reader
       /\ link' = IF link = "dialled" /\ s.go # "dead" THEN "heard" ELSE link
       /\ pc' = [c \in Commands |->
                   IF pc[c] = "waiting" /\ s.event THEN "woken" ELSE pc[c]]
       /\ doubtful' = (doubtful \ About({i \in 1 .. s.read : fromDevice[i].kind = "monitor"}))
                      \cup About(s.read + 1 .. n)
  /\ fromDevice' = SubSeq(fromDevice, n + 1, Len(fromDevice))
  /\ UNCHANGED <<job, device, toDevice, history>>

-----------------------------------------------------------------------------
(* Commands.                                                               *)

Create(c, m, v) ==
  /\ pc[c] = "idle"
  /\ pc' = [pc EXCEPT ![c] = "queued"]
  /\ job' = [job EXCEPT ![c] = [of |-> m, value |-> v]]

\* set_property, flash
SetProperty(c, m, v) ==
  /\ Create(c, m, v) /\ m \in Range(monitors)
  /\ UNCHANGED <<parser, shown, answer, link, device, toDevice, fromDevice, history,
                 doubtful>>

\* The owner assigns to the property: on_prop_control makes it a command.  No
\* lock is held then.
Assign(c, m, v) ==
  /\ Create(c, m, v) /\ m \in Range(monitors) /\ shown[m] # v
  /\ shown' = [shown EXCEPT ![m] = v]
  /\ doubtful' = doubtful \cup {m}
  /\ UNCHANGED <<parser, answer, link, device, toDevice, fromDevice, history>>

\* Bug: the value is taken over whatever the answer was.
Bug_StoreAlways(c) ==
  /\ slot' = None /\ event' = FALSE
  /\ pc' = [pc EXCEPT ![c] = CASE slot = "ACK" -> "accepted" [] slot = "NAK" -> "refused"
                               [] OTHER -> "raised"]
  /\ shown' = [shown EXCEPT ![job[c].of] = job[c].value]
  /\ doubtful' = IF slot = "ACK" THEN doubtful \ {job[c].of} ELSE doubtful

\* What set_monitor_property does with the answer in the slot; without one
\* startswith raises.
Take(c) ==
  /\ slot' = None /\ event' = FALSE
  /\ \/ /\ slot = "ACK"
        /\ pc' = [pc EXCEPT ![c] = "accepted"]
        /\ shown' = [shown EXCEPT ![job[c].of] = job[c].value]
        /\ doubtful' = doubtful \ {job[c].of}
     \/ /\ slot = "NAK"
        /\ pc' = [pc EXCEPT ![c] = "refused"]
        /\ UNCHANGED <<shown, doubtful>>
     \/ /\ slot = None
        /\ pc' = [pc EXCEPT ![c] = "raised"]
        /\ UNCHANGED <<shown, doubtful>>

\* No lock keeps commands apart; an event that is set does not suspend.
Send(c) ==
  /\ pc[c] = "queued" /\ link = "up"
  /\ overlapped' = (overlapped \/ \E d \in Commands : pc[d] \in {"waiting", "woken"})
  /\ toDevice' = Append(toDevice, c)
  /\ \/ event /\ Take(c)
     \/ /\ ~event
        /\ pc' = [pc EXCEPT ![c] = "waiting"]
        /\ UNCHANGED <<shown, answer, doubtful>>
  /\ UNCHANGED <<parser, link, job, device, fromDevice, links, changes>>

Resume(c) ==
  /\ pc[c] = "woken"
  /\ Take(c)
  /\ UNCHANGED <<parser, link, job, device, toDevice, fromDevice, history>>

-----------------------------------------------------------------------------
(* The device and those who control it beside us.                          *)

DeviceAnswers ==
  /\ toDevice # <<>>
  /\ toDevice' = Tail(toDevice)
  /\ LET c == Head(toDevice) IN
       \/ /\ device' = [device EXCEPT ![job[c].of] = job[c].value]
          /\ fromDevice' = Append(fromDevice, Answer("ACK", c))
       \/ /\ fromDevice' = Append(fromDevice, Answer("NAK", c))
          /\ UNCHANGED device
  /\ UNCHANGED <<parser, shown, answer, link, pc, job, history, doubtful>>

OtherController(m, v) ==
  /\ changes < MaxChanges /\ changes' = changes + 1
  /\ device[m] # v
  /\ device' = [device EXCEPT ![m] = v]
  /\ fromDevice' = IF link = "down" THEN fromDevice
                   ELSE Append(fromDevice, [kind |-> "monitor", of |-> m, value |-> v])
  /\ UNCHANGED <<parser, shown, answer, link, pc, job, toDevice, links, doubtful,
                 overlapped>>

-----------------------------------------------------------------------------
Next ==
  \/ Connect \/ Established \/ Disconnect
  \/ \E n \in 1 .. Len(fromDevice) : Read(n)
  \/ \E c \in Commands : Send(c) \/ Resume(c)
  \/ \E c \in Commands, m \in Names, v \in Values : SetProperty(c, m, v) \/ Assign(c, m, v)
  \/ DeviceAnswers
  \/ \E m \in Names, v \in Values : OtherController(m, v)

Spec == Init /\ [][Next]_vars

-----------------------------------------------------------------------------
(* Properties.                                                             *)

\* Once everything has been read, all monitors are known and each shows what the
\* device has, unless it is doubtful: its block or the answer to a command for it
\* was dropped behind the end of a parse, a value was assigned to it and refused
\* or not answered yet, or a command for it was lost with the link, and since
\* then no block of it was parsed and no command for it accepted.  Commands that
\* overlap take the answers of one another, a reader that died reads nothing:
\* both are left out (parse_rx_bfr, set_monitor_property, on_prop_control).
ShowsTheMonitors ==
  /\ link = "up" /\ reader = "alive" /\ ~overlapped
  /\ toDevice = <<>> /\ fromDevice = <<>> /\ \A c \in Commands : pc[c] # "woken"
  => /\ Complete(monitors)
     /\ \A m \in Names \ doubtful : shown[m] = device[m]
=============================================================================
