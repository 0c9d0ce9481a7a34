------------------------- MODULE CrosspointControl -------------------------
(***************************************************************************)
(* How a connected telnet backend and its device keep one another in step: *)
(* set_crosspoints with wait_for_ack_or_nak and the part of parse_rx_bfr   *)
(* that handles answers and updates (backends/telnet.py), on_prop_feedback *)
(* and on_prop_control (backends/base.py).  The two label sections are     *)
(* handled by the same code under other names; commands of one section are *)
(* modelled, which the section's emission_lock keeps apart.                *)
(*                                                                         *)
(* The device and the wire are external.  The device answers each command  *)
(* with ACK or NAK, in order, and reports every change of its routing, its *)
(* own and other controllers'.  emission_lock is python-dispatch's: taken  *)
(* by one task at a time, and what changes under it is emitted at its end. *)
(*                                                                         *)
(* The module starts behind the prelude, with the routing of the device    *)
(* shown.  It assumes that nothing the device sent came in one read with   *)
(* END PRELUDE and behind it: parse_rx_bfr drops that, and an update among *)
(* it is lost.                                                             *)
(***************************************************************************)
EXTENDS Naturals, Sequences

CONSTANTS
  Outputs, Inputs,
  Commands,   \* runs of set_crosspoints
  Jobs,       \* what they set: functions from some outputs to inputs
  Foreign,    \* outputs that other controllers of the device set too
  MaxUnread,  \* how much of what the device sent may be unread
  None        \* no command, no job, no answer

ASSUME ConstantsAssumption ==
  /\ \A j \in Jobs : DOMAIN j \subseteq Outputs /\ \A o \in DOMAIN j : j[o] \in Inputs
  /\ Foreign \subseteq Outputs
  /\ MaxUnread \in Nat
  /\ None \notin Commands \cup Jobs \cup Inputs \cup {"ACK", "NAK"}

VARIABLES
  crosspoints,  \* self.crosspoints
  control,      \* self.crosspoint_control
  holder,       \* who holds the emission lock of crosspoints
  noted,        \* crosspoints were changed under the lock
  slot,         \* self.ack_or_nak
  event,        \* self.ack_or_nak_event is set
  pc,           \* where each command is
  job,          \* what it sets
  device,       \* the routing of the device
  toDevice,     \* commands on the wire
  fromDevice,   \* answers and updates on the wire
  verdict       \* what the device made of each command, for the properties

vars == <<crosspoints, control, holder, noted, slot, event, pc, job, device,
          toDevice, fromDevice, verdict>>

shown == <<crosspoints, control, noted>>
wire == <<device, toDevice, fromDevice, verdict>>
answer == <<slot, event>>

Routings == [Outputs -> Inputs]
Active == {"writing", "waiting", "woken"}
Returned == {"true", "false"}

\* The change of one output.
Single(o, i) == [x \in {o} |-> i]

Update(j) == [kind |-> "update", set |-> j]
Answer(a) == [kind |-> a, set |-> None]
Messages == {Update(j) : j \in Jobs} \cup {Answer("ACK"), Answer("NAK")}
            \cup {Update(Single(o, i)) : o \in Foreign, i \in Inputs}

TypeOK ==
  /\ crosspoints \in Routings /\ control \in Routings /\ device \in Routings
  /\ holder \in Commands \cup {None}
  /\ noted \in BOOLEAN /\ event \in BOOLEAN
  /\ slot \in {None, "ACK", "NAK"}
  /\ pc \in [Commands -> {"idle", "queued"} \cup Active \cup Returned]
  /\ job \in [Commands -> Jobs \cup {None}]
  /\ toDevice \in Seq(Commands)
  /\ fromDevice \in Seq(Messages)
  /\ verdict \in [Commands -> {None, "ACK", "NAK"}]
  /\ \A c \in Commands : pc[c] \in Active <=> holder = c

\* The prelude has been parsed and nothing was dropped behind it: both sides
\* agree.
Init ==
  /\ crosspoints \in Routings
  /\ control = crosspoints
  /\ device = crosspoints
  /\ holder = None
  /\ noted = FALSE
  /\ slot = None
  /\ event = FALSE
  /\ pc = [c \in Commands |-> "idle"]
  /\ job = [c \in Commands |-> None]
  /\ toDevice = <<>>
  /\ fromDevice = <<>>
  /\ verdict = [c \in Commands |-> None]

\* The routing r with the outputs of j set.
With(r, j) == [o \in Outputs |-> IF o \in DOMAIN j THEN j[o] ELSE r[o]]

Goto(c, place) == pc' = [pc EXCEPT ![c] = place]

-----------------------------------------------------------------------------
(* Commands: from code that calls set_crosspoint(s) and from the control.  *)

Create(c, j) == /\ pc[c] = "idle"
                /\ Goto(c, "queued")
                /\ job' = [job EXCEPT ![c] = j]

Call(c) == /\ \E j \in Jobs : Create(c, j)
           /\ UNCHANGED <<shown, holder, answer, wire>>

\* Somebody assigns to an item of crosspoint_control.  on_prop_control does
\* nothing while the lock is held, or when the lists are equal now.
SetControl(o, i) ==
  /\ control[o] # i
  /\ control' = [control EXCEPT ![o] = i]
  /\ \/ /\ holder = None /\ control' # crosspoints
        /\ \E c \in Commands, j \in Jobs : /\ DOMAIN j = {o} /\ j[o] = i
                                           /\ Create(c, j)
     \/ /\ holder # None \/ control' = crosspoints
        /\ UNCHANGED <<pc, job>>
  /\ UNCHANGED <<crosspoints, noted, holder, answer, wire>>

\* on_prop_feedback, after a change to r that is emitted.  The control that it
\* sets is equal to the crosspoints then, so that on_prop_control returns.
Feedback(r) == crosspoints' = r /\ control' = r

\* Leaving the lock emits what was held back.
Unlock(r, changed) ==
  /\ holder' = None
  /\ noted' = FALSE
  /\ crosspoints' = r
  /\ control' = IF noted \/ changed THEN r ELSE control

\* Mutant: commands are sent without taking the emission lock.
Bug_SendUnlocked(c) ==
  /\ pc[c] = "queued"
  /\ holder' = c
  /\ toDevice' = Append(toDevice, c)
  /\ Goto(c, "writing")
  /\ UNCHANGED <<shown, job, answer, device, fromDevice, verdict>>

Send(c) == /\ pc[c] = "queued" /\ holder = None
           /\ holder' = c
           /\ toDevice' = Append(toDevice, c)
           /\ Goto(c, "writing")
           /\ UNCHANGED <<shown, job, answer, device, fromDevice, verdict>>

\* Mutant: the new routing is stored whatever the answer was.
Bug_StoreAlways(c) ==
  /\ slot' = None
  /\ event' = FALSE
  /\ \/ slot = "ACK" /\ Goto(c, "true")
     \/ slot = "NAK" /\ Goto(c, "false")
  /\ Unlock(With(crosspoints, job[c]), With(crosspoints, job[c]) # crosspoints)

\* Mutant: a refused command returns with the lock.
Bug_KeepLock(c) ==
  /\ slot' = None
  /\ event' = FALSE
  /\ \/ /\ slot = "ACK"
        /\ Goto(c, "true")
        /\ Unlock(With(crosspoints, job[c]), With(crosspoints, job[c]) # crosspoints)
     \/ /\ slot = "NAK"
        /\ Goto(c, "false")
        /\ UNCHANGED <<shown, holder>>

\* After the wait: set_crosspoints goes on with the answer in the slot.
Take(c) ==
  /\ slot' = None
  /\ event' = FALSE
  /\ \/ /\ slot = "ACK"
        /\ Goto(c, "true")
        /\ Unlock(With(crosspoints, job[c]), With(crosspoints, job[c]) # crosspoints)
     \/ /\ slot = "NAK"
        /\ Goto(c, "false")
        /\ Unlock(crosspoints, FALSE)

\* wait_for_ack_or_nak: an Event that is set does not suspend.
Wait(c) == /\ pc[c] = "writing"
           /\ \/ event /\ Take(c)
              \/ /\ ~event
                 /\ Goto(c, "waiting")
                 /\ UNCHANGED <<shown, holder, answer>>
           /\ UNCHANGED <<job, wire>>

Resume(c) == /\ pc[c] = "woken"
             /\ Take(c)
             /\ UNCHANGED <<job, wire>>

-----------------------------------------------------------------------------
(* The read loop.                                                          *)

\* Mutant: a line with NAK is not taken for an answer.
Bug_OnlyAck(a) ==
  \/ /\ a = "ACK"
     /\ slot' = a
     /\ event' = TRUE
     /\ pc' = [c \in Commands |-> IF pc[c] = "waiting" THEN "woken" ELSE pc[c]]
     /\ UNCHANGED <<shown, holder>>
  \/ /\ a # "ACK"
     /\ UNCHANGED <<shown, holder, answer, pc>>

ReadAnswer(a) ==
  /\ slot' = a
  /\ event' = TRUE
  /\ pc' = [c \in Commands |-> IF pc[c] = "waiting" THEN "woken" ELSE pc[c]]
  /\ UNCHANGED <<shown, holder>>

ReadUpdate(j) ==
  LET r == With(crosspoints, j)
  IN  /\ \/ /\ holder = None
            /\ IF r = crosspoints THEN UNCHANGED shown
               ELSE Feedback(r) /\ UNCHANGED noted
         \/ /\ holder # None
            /\ crosspoints' = r
            /\ noted' = (noted \/ r # crosspoints)
            /\ UNCHANGED control
      /\ UNCHANGED <<holder, answer, pc>>

Read ==
  /\ fromDevice # <<>>
  /\ fromDevice' = Tail(fromDevice)
  /\ LET m == Head(fromDevice)
     IN  \/ m.kind = "update" /\ ReadUpdate(m.set)
         \/ m.kind # "update" /\ ReadAnswer(m.kind)
  /\ UNCHANGED <<job, device, toDevice, verdict>>

-----------------------------------------------------------------------------
(* The device and those who control it beside us.                          *)

DeviceAnswers ==
  /\ toDevice # <<>>
  /\ toDevice' = Tail(toDevice)
  /\ LET c == Head(toDevice)
     IN  \/ /\ device' = With(device, job[c])
            /\ fromDevice' = fromDevice \o <<Answer("ACK"), Update(job[c])>>
            /\ verdict' = [verdict EXCEPT ![c] = "ACK"]
         \/ /\ fromDevice' = Append(fromDevice, Answer("NAK"))
            /\ verdict' = [verdict EXCEPT ![c] = "NAK"]
            /\ UNCHANGED device
  /\ UNCHANGED <<shown, holder, answer, pc, job>>

OtherController ==
  /\ Len(fromDevice) < MaxUnread
  /\ \E o \in Foreign, i \in Inputs :
       /\ device[o] # i
       /\ device' = [device EXCEPT ![o] = i]
       /\ fromDevice' = Append(fromDevice, Update(Single(o, i)))
  /\ UNCHANGED <<shown, holder, answer, pc, job, toDevice, verdict>>

-----------------------------------------------------------------------------
Run(c) == Send(c) \/ Wait(c) \/ Resume(c)

Next == \/ \E c \in Commands : Call(c) \/ Run(c)
        \/ \E o \in Outputs, i \in Inputs : SetControl(o, i)
        \/ Read \/ DeviceAnswers \/ OtherController

Spec == Init /\ [][Next]_vars

\* The event loop runs what can run, the device answers, and the lock is
\* first come first served.
Fairness == /\ \A c \in Commands : /\ WF_vars(Wait(c) \/ Resume(c))
                                   /\ SF_vars(Send(c))
            /\ WF_vars(Read)
            /\ WF_vars(DeviceAnswers)

FairSpec == Spec /\ Fairness

-----------------------------------------------------------------------------
(* Properties.                                                             *)

\* set_crosspoints returns what the device said to this command and to no
\* other, however answers, updates and commands overlap.
TruthfulReturn ==
  \A c \in Commands : /\ pc[c] = "true" => verdict[c] = "ACK"
                      /\ pc[c] = "false" => verdict[c] = "NAK"

\* What an output will show once everything unread has been read.
Announced(o) ==
  LET about == {k \in DOMAIN fromDevice :
                  fromDevice[k].kind = "update" /\ o \in DOMAIN fromDevice[k].set}
  IN  IF about = {} THEN crosspoints[o]
      ELSE fromDevice[CHOOSE k \in about : \A l \in about : l <= k].set[o]

\* "This represents the currently active routing of the switcher"
\* (VidhubBackendBase.crosspoints): if nobody else sets the outputs that our
\* commands set, which is what Jobs and Foreign say, the whole list that is
\* written after an ACK takes back no update that other controllers caused and
\* that was read since the command was sent (wait_for_ack_or_nak,
\* set_crosspoints).
ShowsTheRouting == \A o \in Outputs : Announced(o) = device[o]

\* Every command comes back if the device answers.
CommandsReturn ==
  \A c \in Commands : pc[c] # "idle" ~> pc[c] \in Returned
=============================================================================
