------------------------------- MODULE Presets -------------------------------
(***************************************************************************)
(* The presets of a Videohub backend (Preset, add_preset and store_preset  *)
(* in backends/base.py) and the copy that VidhubConfig keeps of them and   *)
(* saves (config.py), while the device's routing changes, commands wait    *)
(* for their answer and the link goes down and comes back.                 *)
(*                                                                         *)
(* store_preset never suspends: nobody holds the emission lock of a        *)
(* preset across a suspension.  That of the backend's crosspoints is held  *)
(* by a command until its answer is there (module CrosspointControl), and  *)
(* what is read meanwhile is emitted at its end.  Commands queue for that  *)
(* lock; one of them is enough here.                                       *)
(***************************************************************************)
EXTENDS Naturals, Sequences

CONSTANTS
  Outputs, Inputs,
  Unrouted,    \* the input 0 that on_num_outputs fills in
  Stores,      \* sets of outputs that callers give to store
  Merging,     \* TRUE: some callers give clear_current=False
  Jobs,        \* what others than presets set: functions from outputs to inputs
  Absent,      \* TRUE: the routing may change while the link is down
  MaxPresets,  \* how many presets there may be
  None         \* no command

ASSUME ConstantsAssumption ==
  /\ Unrouted \in Inputs
  /\ Stores \subseteq SUBSET Outputs
  /\ Merging \in BOOLEAN /\ Absent \in BOOLEAN
  /\ Jobs \subseteq UNION {[s -> Inputs] : s \in SUBSET Outputs}
  /\ MaxPresets \in Nat

VARIABLES
  crosspoints,  \* backend.crosspoints
  fresh,        \* no prelude was read since this backend was built
  parsed,       \* backend.prelude_parsed
  connected,    \* backend.connection_state.is_connected
  command,      \* what the command under way sets
  sent,         \* it holds the emission lock of crosspoints
  noted,        \* crosspoints were changed under that lock
  presets,      \* backend.presets
  saved         \* VidhubConfig.presets, as on disk

vars == <<crosspoints, fresh, parsed, connected, command, sent, noted,
          presets, saved>>

link == <<fresh, parsed, connected>>
lock == <<command, sent, noted>>

Routings == [Outputs -> Inputs]
Selections == UNION {[s -> Inputs] : s \in SUBSET Outputs}
Nothing == [o \in {} |-> Unrouted]

TypeOK ==
  /\ crosspoints \in Routings
  /\ fresh \in BOOLEAN /\ parsed \in BOOLEAN /\ connected \in BOOLEAN
  /\ command \in Selections \cup {None}
  /\ sent \in BOOLEAN /\ noted \in BOOLEAN
  /\ presets \in Seq([crosspoints : Selections, active : BOOLEAN, bound : BOOLEAN])
  /\ saved \in Seq(Selections)
  /\ (connected => parsed) /\ (parsed => ~fresh)
  /\ sent => command # None

Init ==
  /\ crosspoints = [o \in Outputs |-> Unrouted]
  /\ fresh = TRUE /\ parsed = FALSE /\ connected = FALSE
  /\ command = None
  /\ sent = FALSE /\ noted = FALSE
  /\ presets = <<>>
  /\ saved = <<>>

\* The routing r with the outputs of j set.
With(r, j) == [o \in Outputs |-> IF o \in DOMAIN j THEN j[o] ELSE r[o]]

-----------------------------------------------------------------------------
(* The active flag.                                                        *)

\* Every crosspoint of the selection is routed so; an empty one never is.
IsActive(selection, r) ==
  DOMAIN selection # {} /\ \A o \in DOMAIN selection : r[o] = selection[o]

CheckActive(preset, r) ==
  [preset EXCEPT !.active = IsActive(preset.crosspoints, r)]

\* An emission of crosspoints: presets ignore it during the prelude.
Emitted(r) ==
  presets' = IF parsed THEN [k \in DOMAIN presets |-> CheckActive(presets[k], r)]
             ELSE presets

-----------------------------------------------------------------------------
(* store_preset, with add_preset and store.                                *)

\* Preset.__init__: the flag is not checked before the backend is ready.
NewPreset == [crosspoints |-> Nothing, active |-> FALSE,
              bound |-> ~(connected /\ parsed)]

\* The list s, with blank ones appended until it has a place k.
Extended(s, k, blank) ==
  [i \in 1 .. (IF k > Len(s) THEN k ELSE Len(s)) |->
     IF i <= Len(s) THEN s[i] ELSE blank]

\* What the preset holds when the emission lock is taken, and at its end.
Cleared(old, clear) == IF clear THEN Nothing ELSE old
Stored(old, outputs, clear) ==
  LET base == Cleared(old, clear)
  IN  [o \in outputs \cup DOMAIN base |->
         IF o \in outputs THEN crosspoints[o] ELSE base[o]]

\* Mutant: what is changed under the preset's emission lock is not passed on.
Bug_SaveClearing(old, new, clear, copy) ==
  IF Cleared(old, clear) # old THEN Cleared(old, clear) ELSE copy

\* on_preset_update, called for the clearing and for what was changed under
\* the lock: an assignment that changes nothing is not emitted.
Saves(old, new, clear, copy) ==
  LET base == Cleared(old, clear)
  IN  IF new # base THEN new ELSE IF base # old THEN base ELSE copy

\* active is set in any case and checked if something was changed.
StorePreset(k, outputs, clear) ==
  LET all == Extended(presets, k, NewPreset)
      copies == Extended(saved, k, Nothing)
      old == all[k].crosspoints
      new == Stored(old, outputs, clear)
      checked == parsed /\ new # Cleared(old, clear) /\ new # Nothing
  IN  /\ presets' = [all EXCEPT ![k] =
                       [crosspoints |-> new,
                        active |-> checked => IsActive(new, crosspoints),
                        bound |-> all[k].bound]]
      /\ saved' = [copies EXCEPT ![k] = Saves(old, new, clear, copies[k])]

Store ==
  /\ \E k \in 1 .. MaxPresets, outputs \in Stores, clear \in BOOLEAN :
       /\ clear \/ Merging
       /\ StorePreset(k, outputs, clear)
  /\ UNCHANGED <<crosspoints, link, lock>>

-----------------------------------------------------------------------------
(* Commands.                                                               *)

\* recall takes its crosspoints along before it queues for the lock.  A call
\* while the link is down would first connect.
Call == /\ connected /\ command = None
        /\ \E j \in Jobs \cup {presets[k].crosspoints : k \in DOMAIN presets} :
             /\ j # Nothing
             /\ command' = j
        /\ UNCHANGED <<crosspoints, link, sent, noted, presets, saved>>

Send == /\ command # None /\ ~sent
        /\ sent' = TRUE
        /\ UNCHANGED <<crosspoints, link, command, noted, presets, saved>>

\* Mutant: the lock is kept until an emission.
Bug_KeepLock(r) ==
  /\ command' = None
  /\ noted' = FALSE
  /\ crosspoints' = r
  /\ IF noted \/ r # crosspoints THEN sent' = FALSE /\ Emitted(r)
                                ELSE UNCHANGED <<sent, presets>>

\* Leaving the lock with the routing r emits what was changed under it.
Unlock(r) ==
  /\ command' = None
  /\ sent' = FALSE
  /\ noted' = FALSE
  /\ crosspoints' = r
  /\ IF noted \/ r # crosspoints THEN Emitted(r) ELSE UNCHANGED presets

Answered == /\ sent
            /\ \E r \in {With(crosspoints, command), crosspoints} : Unlock(r)
            /\ UNCHANGED <<link, saved>>

-----------------------------------------------------------------------------
(* What is read from the device.                                           *)

\* parse_rx_bfr stores one line of a routing block.
Route(o, i) ==
  /\ crosspoints[o] # i
  /\ crosspoints' = [crosspoints EXCEPT ![o] = i]
  /\ IF sent THEN noted' = TRUE /\ UNCHANGED presets
             ELSE Emitted(crosspoints') /\ UNCHANGED noted
  /\ UNCHANGED <<link, command, sent, saved>>

ReadUpdate == /\ parsed /\ connected
              /\ \E o \in Outputs, i \in Inputs : Route(o, i)

ReadPrelude == /\ ~parsed
               /\ fresh \/ Absent
               /\ \E o \in Outputs, i \in Inputs : Route(o, i)

\* on_backend_ready: presets that have waited for it look once and are then
\* no longer bound to prelude_parsed.
EndPrelude ==
  /\ ~parsed
  /\ parsed' = TRUE
  /\ fresh' = FALSE
  /\ presets' = [k \in DOMAIN presets |->
                   IF presets[k].bound
                   THEN [CheckActive(presets[k], crosspoints) EXCEPT !.bound = FALSE]
                   ELSE presets[k]]
  /\ UNCHANGED <<crosspoints, connected, lock, saved>>

\* connect() comes to its end, with the prelude read.
Established == /\ parsed /\ ~connected
               /\ connected' = TRUE
               /\ UNCHANGED <<crosspoints, fresh, parsed, lock, presets, saved>>

\* Between commands: what a lost link does to one is not modelled here.
LinkLost == /\ connected /\ command = None
            /\ connected' = FALSE
            /\ UNCHANGED <<crosspoints, fresh, parsed, lock, presets, saved>>

\* do_connect: the next prelude is expected.
Reconnect == /\ ~connected /\ parsed
             /\ parsed' = FALSE
             /\ UNCHANGED <<crosspoints, fresh, connected, lock, presets, saved>>

\* Mutant: presets that are loaded do not wait for the prelude.
Bug_LoadReady ==
  [k \in DOMAIN saved |-> [crosspoints |-> saved[k], active |-> FALSE, bound |-> FALSE]]

\* VidhubBackendBase.__init__ with the presets of the configuration.
Loaded ==
  [k \in DOMAIN saved |-> [crosspoints |-> saved[k], active |-> FALSE, bound |-> TRUE]]

\* The program stops and starts again from its file.
Restart ==
  /\ fresh' = TRUE /\ parsed' = FALSE /\ connected' = FALSE
  /\ crosspoints' = [o \in Outputs |-> Unrouted]
  /\ command' = None /\ sent' = FALSE /\ noted' = FALSE
  /\ presets' = Loaded
  /\ UNCHANGED saved

-----------------------------------------------------------------------------
Next == \/ Store \/ Call \/ Send \/ Answered
        \/ ReadUpdate \/ ReadPrelude \/ EndPrelude
        \/ Established \/ LinkLost \/ Reconnect \/ Restart

Spec == Init /\ [][Next]_vars

-----------------------------------------------------------------------------
(* Properties.                                                             *)

\* "A flag indicating whether all of the crosspoints stored in this preset
\* are currently active on the switcher" (Preset.active): whenever no command
\* holds changes back, across stores, answers, updates and restarts, and across
\* reconnections that find the routing as they left it (Absent).  Every store
\* clears what was stored before (Merging).
ActiveIsExact ==
  (parsed /\ ~noted)
    => \A k \in DOMAIN presets :
         presets[k].active = IsActive(presets[k].crosspoints, crosspoints)

\* The configuration's copy has every preset, at its index, as it is now,
\* although it only hears of changes one event at a time.
SavedAgrees ==
  /\ Len(saved) = Len(presets)
  /\ \A k \in DOMAIN presets : saved[k] = presets[k].crosspoints
=============================================================================
