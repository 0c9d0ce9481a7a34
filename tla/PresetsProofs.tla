---------------------------- MODULE PresetsProofs ----------------------------
(***************************************************************************)
(* Theorems about Presets for any number of presets, outputs and inputs,   *)
(* any callers and any device: types, that the saved copy is complete, and *)
(* that the active flag is right.                                          *)
(*                                                                         *)
(* The copy hears of a store in up to three events, some of which are not  *)
(* emitted; what it is then depends on what it was before.  That it was    *)
(* right before is therefore part of what has to be known of each step.    *)
(***************************************************************************)
EXTENDS Presets, SequenceTheorems, TLAPS

PresetRecords == [crosspoints : Selections, active : BOOLEAN, bound : BOOLEAN]

Inv == TypeOK /\ SavedAgrees

(* A function on 1..n is a sequence of length n.                           *)
LEMMA FunctionIsSeq ==
  ASSUME NEW S, NEW n \in Nat, NEW f \in [1..n -> S]
  PROVE  f \in Seq(S) /\ Len(f) = n /\ DOMAIN f = 1..n
BY SeqDef, LenProperties

(* And the other way round.                                                *)
LEMMA SeqIsFunction ==
  ASSUME NEW S, NEW s \in Seq(S)
  PROVE  Len(s) \in Nat /\ DOMAIN s = 1..Len(s) /\ s \in [1..Len(s) -> S]
BY LenProperties

(* Indices up to a bound within another one.                               *)
LEMMA InRange ==
  ASSUME NEW m \in Nat, NEW n \in Nat, NEW i \in 1..n, i <= m
  PROVE  i \in 1..m
OBVIOUS

(* add_preset is repeated until the index exists.                          *)
LEMMA ExtendedSeq ==
  ASSUME NEW S, NEW s \in Seq(S), NEW k \in Nat \ {0}, NEW blank \in S,
         NEW n \in Nat, n = IF k > Len(s) THEN k ELSE Len(s)
  PROVE  /\ k \in 1..n
         /\ Extended(s, k, blank) \in [1..n -> S]
         /\ \A i \in 1..n : Extended(s, k, blank)[i] =
              IF i <= Len(s) THEN s[i] ELSE blank
<1>1. Len(s) \in Nat /\ s \in [1..Len(s) -> S]
  BY SeqIsFunction
<1>2. k \in 1..n /\ Len(s) <= n
  <2>1. CASE k > Len(s)
    BY <1>1, <2>1
  <2>2. CASE ~(k > Len(s))
    BY <1>1, <2>2
  <2> QED
    BY <2>1, <2>2
<1>3. Extended(s, k, blank) = [i \in 1..n |-> IF i <= Len(s) THEN s[i] ELSE blank]
  BY DEF Extended
<1>4. \A i \in 1..n : i <= Len(s) => s[i] \in S
  <2> SUFFICES ASSUME NEW i \in 1..n, i <= Len(s)
               PROVE  s[i] \in S
    OBVIOUS
  <2>1. i \in 1..Len(s)
    BY <1>1, InRange
  <2> QED
    BY <1>1, <2>1
<1> QED
  BY <1>2, <1>3, <1>4

(* Copying the events of a store makes the copy what the preset is.        *)
LEMMA SavesNew ==
  ASSUME NEW old, NEW new, NEW clear \in BOOLEAN
  PROVE  Saves(old, new, clear, old) = new
BY DEF Saves

(* An empty preset selects no output.                                      *)
LEMMA NothingIsSelection == Nothing \in Selections
<1>1. {} \in SUBSET Outputs /\ [o \in {} |-> Unrouted] \in [{} -> Inputs]
  OBVIOUS
<1> QED
  BY <1>1 DEF Nothing, Selections

(* A selection has inputs for some of the outputs.                         *)
LEMMA SelectionIs ==
  ASSUME NEW f \in Selections
  PROVE  DOMAIN f \subseteq Outputs /\ \A o \in DOMAIN f : f[o] \in Inputs
BY DEF Selections

(* Whatever is stored is a selection of the routing.                       *)
LEMMA StoredIsSelection ==
  ASSUME NEW old \in Selections, NEW outputs \in SUBSET Outputs,
         NEW clear \in BOOLEAN, crosspoints \in Routings
  PROVE  Stored(old, outputs, clear) \in Selections
<1> DEFINE base == Cleared(old, clear)
           d == outputs \cup DOMAIN base
           f == Stored(old, outputs, clear)
<1>1. base \in Selections
  BY NothingIsSelection DEF Cleared
<1>2. DOMAIN base \subseteq Outputs /\ \A o \in DOMAIN base : base[o] \in Inputs
  BY <1>1, SelectionIs
<1>3. d \in SUBSET Outputs
  BY <1>2
<1>4. \A o \in d : (IF o \in outputs THEN crosspoints[o] ELSE base[o]) \in Inputs
  BY <1>2, <1>3 DEF Routings
<1>5. f = [o \in d |-> IF o \in outputs THEN crosspoints[o] ELSE base[o]]
  BY DEF Stored
<1> HIDE DEF base, d, f
<1>6. f \in [d -> Inputs]
  BY <1>4, <1>5
<1>7. f \in Selections
  BY <1>3, <1>6 DEF Selections
<1> QED
  BY <1>7 DEF f

(* Checking the active flag of every preset keeps what they hold.          *)
LEMMA CheckKeeps ==
  ASSUME presets \in Seq(PresetRecords), NEW r
  PROVE  LET ps == [k \in DOMAIN presets |-> CheckActive(presets[k], r)]
         IN  /\ ps \in Seq(PresetRecords)
             /\ Len(ps) = Len(presets) /\ DOMAIN ps = DOMAIN presets
             /\ \A k \in DOMAIN presets : ps[k].crosspoints = presets[k].crosspoints
<1> DEFINE ps == [k \in DOMAIN presets |-> CheckActive(presets[k], r)]
<1>1. Len(presets) \in Nat /\ DOMAIN presets = 1..Len(presets)
      /\ presets \in [1..Len(presets) -> PresetRecords]
  BY SeqIsFunction
<1>2. \A k \in DOMAIN presets :
        /\ ps[k] \in PresetRecords
        /\ ps[k].crosspoints = presets[k].crosspoints
  <2> TAKE k \in DOMAIN presets
  <2>1. presets[k] \in PresetRecords
    BY <1>1
  <2>2. IsActive(presets[k].crosspoints, r) \in BOOLEAN
    BY DEF IsActive
  <2> HIDE DEF IsActive
  <2> QED
    BY <2>1, <2>2 DEF CheckActive, PresetRecords
<1> HIDE DEF ps
<1>3. ps \in [1..Len(presets) -> PresetRecords]
  BY <1>1, <1>2 DEF ps
<1>4. ps \in Seq(PresetRecords) /\ Len(ps) = Len(presets) /\ DOMAIN ps = 1..Len(presets)
  BY <1>1, <1>3, FunctionIsSeq
<1> QED
  BY <1>1, <1>2, <1>4 DEF ps

-----------------------------------------------------------------------------
(* store_preset.                                                           *)

(* One store leaves presets and copy with the same contents, in the same   *)
(* places, whichever of its events were emitted.                           *)
LEMMA StoreStep ==
  ASSUME ConstantsAssumption, Inv,
         NEW k \in 1..MaxPresets, NEW outputs \in Stores, NEW clear \in BOOLEAN,
         StorePreset(k, outputs, clear)
  PROVE  /\ presets' \in Seq(PresetRecords)
         /\ saved' \in Seq(Selections)
         /\ SavedAgrees'
<1> DEFINE all == Extended(presets, k, NewPreset)
           copies == Extended(saved, k, Nothing)
           old == all[k].crosspoints
           new == Stored(old, outputs, clear)
           shown == (parsed /\ new # Cleared(old, clear) /\ new # Nothing)
                      => IsActive(new, crosspoints)
           preset == [crosspoints |-> new, active |-> shown, bound |-> all[k].bound]
           copy == Saves(old, new, clear, copies[k])
           n == IF k > Len(presets) THEN k ELSE Len(presets)
<1>1. presets' = [all EXCEPT ![k] = preset] /\ saved' = [copies EXCEPT ![k] = copy]
  BY DEF StorePreset
<1>2. presets \in Seq(PresetRecords) /\ saved \in Seq(Selections) /\ crosspoints \in Routings
  BY DEF Inv, TypeOK, PresetRecords
<1>3. Len(saved) = Len(presets) /\ Len(presets) \in Nat
      /\ \A i \in 1..Len(presets) : saved[i] = presets[i].crosspoints
  BY <1>2, SeqIsFunction DEF Inv, SavedAgrees
<1>4. k \in Nat \ {0}
  BY DEF ConstantsAssumption
<1>5. NewPreset \in PresetRecords /\ NewPreset.crosspoints = Nothing
  BY NothingIsSelection DEF NewPreset, PresetRecords
<1>8. n \in Nat /\ n = IF k > Len(saved) THEN k ELSE Len(saved)
  BY <1>3, <1>4
<1>6. /\ k \in 1..n
      /\ all \in [1..n -> PresetRecords]
      /\ \A i \in 1..n : all[i] = IF i <= Len(presets) THEN presets[i] ELSE NewPreset
  BY <1>2, <1>4, <1>5, <1>8, ExtendedSeq
<1> HIDE DEF n
<1>7. /\ copies \in [1..n -> Selections]
      /\ \A i \in 1..n : copies[i] = IF i <= Len(saved) THEN saved[i] ELSE Nothing
  BY <1>2, <1>4, <1>8, NothingIsSelection, ExtendedSeq
<1> HIDE DEF all, copies
<1>9. \A i \in 1..n : copies[i] = all[i].crosspoints
  <2> TAKE i \in 1..n
  <2>1. CASE i <= Len(presets)
    BY <2>1, <1>3, <1>6, <1>7
  <2>2. CASE ~(i <= Len(presets))
    BY <2>2, <1>3, <1>5, <1>6, <1>7
  <2> QED
    BY <2>1, <2>2
<1>10. all[k] \in PresetRecords /\ old \in Selections /\ all[k].bound \in BOOLEAN
  BY <1>6 DEF PresetRecords
<1>11. outputs \in SUBSET Outputs
  BY DEF ConstantsAssumption
<1>12. new \in Selections
  BY <1>2, <1>10, <1>11, StoredIsSelection
<1>13. copy = new
  BY <1>6, <1>9, SavesNew
<1> HIDE DEF old, new, copy
<1>14. shown \in BOOLEAN
  BY Zenon
<1> HIDE DEF shown
<1>15. preset \in PresetRecords /\ preset.crosspoints = new
  BY <1>10, <1>12, <1>14 DEF PresetRecords
<1> HIDE DEF preset
<1>16. presets' \in [1..n -> PresetRecords]
       /\ \A i \in 1..n : presets'[i] = IF i = k THEN preset ELSE all[i]
  BY <1>1, <1>6, <1>15
<1>17. saved' \in [1..n -> Selections]
       /\ \A i \in 1..n : saved'[i] = IF i = k THEN new ELSE copies[i]
  BY <1>1, <1>7, <1>12, <1>13
<1>18. presets' \in Seq(PresetRecords) /\ Len(presets') = n /\ DOMAIN presets' = 1..n
  BY <1>8, <1>16, FunctionIsSeq
<1>19. saved' \in Seq(Selections) /\ Len(saved') = n
  BY <1>8, <1>17, FunctionIsSeq
<1>20. \A i \in 1..n : saved'[i] = presets'[i].crosspoints
  BY <1>9, <1>15, <1>16, <1>17
<1> QED
  BY <1>18, <1>19, <1>20 DEF SavedAgrees

(* A step that leaves what every preset holds and the copy alone.          *)
LEMMA KeepsSaved ==
  ASSUME SavedAgrees, saved' = saved,
         DOMAIN presets' = DOMAIN presets, Len(presets') = Len(presets),
         \A k \in DOMAIN presets : presets'[k].crosspoints = presets[k].crosspoints
  PROVE  SavedAgrees'
BY DEF SavedAgrees

(* An emission of the backend's crosspoints.                               *)
LEMMA EmittedStep ==
  ASSUME Inv, NEW r, saved' = saved, Emitted(r) \/ presets' = presets
  PROVE  presets' \in Seq(PresetRecords) /\ SavedAgrees'
<1>1. presets \in Seq(PresetRecords) /\ SavedAgrees
  BY DEF Inv, TypeOK, PresetRecords
<1>2. CASE presets' = presets
  BY <1>1, <1>2, KeepsSaved
<1>3. CASE presets' = [k \in DOMAIN presets |-> CheckActive(presets[k], r)]
  <2>1. /\ presets' \in Seq(PresetRecords)
        /\ Len(presets') = Len(presets) /\ DOMAIN presets' = DOMAIN presets
        /\ \A k \in DOMAIN presets : presets'[k].crosspoints = presets[k].crosspoints
    BY <1>1, <1>3, CheckKeeps
  <2> QED
    BY <1>1, <2>1, KeepsSaved
<1> QED
  BY <1>2, <1>3 DEF Emitted

(* The end of a prelude: the presets that waited for it look once.         *)
LEMMA ReadyStep ==
  ASSUME Inv, EndPrelude
  PROVE  presets' \in Seq(PresetRecords) /\ SavedAgrees'
<1> DEFINE checked == [k \in DOMAIN presets |-> CheckActive(presets[k], crosspoints)]
<1>1. presets \in Seq(PresetRecords) /\ SavedAgrees /\ saved' = saved
  BY DEF Inv, TypeOK, PresetRecords, EndPrelude
<1>2. Len(presets) \in Nat /\ DOMAIN presets = 1..Len(presets)
      /\ presets \in [1..Len(presets) -> PresetRecords]
  BY <1>1, SeqIsFunction
<1>3. /\ checked \in Seq(PresetRecords)
      /\ Len(checked) = Len(presets) /\ DOMAIN checked = DOMAIN presets
      /\ \A k \in DOMAIN presets : checked[k].crosspoints = presets[k].crosspoints
  BY <1>1, CheckKeeps
<1>4. checked \in [1..Len(presets) -> PresetRecords]
  BY <1>2, <1>3, SeqIsFunction
<1>5. presets' = [k \in DOMAIN presets |->
                    IF presets[k].bound THEN [checked[k] EXCEPT !.bound = FALSE]
                    ELSE presets[k]]
  BY DEF EndPrelude
<1> HIDE DEF checked
<1>6. \A k \in DOMAIN presets :
        /\ presets'[k] \in PresetRecords
        /\ presets'[k].crosspoints = presets[k].crosspoints
  <2> TAKE k \in DOMAIN presets
  <2>1. presets[k] \in PresetRecords /\ checked[k] \in PresetRecords
        /\ checked[k].crosspoints = presets[k].crosspoints
    BY <1>2, <1>3, <1>4
  <2>2. [checked[k] EXCEPT !.bound = FALSE] \in PresetRecords
        /\ [checked[k] EXCEPT !.bound = FALSE].crosspoints = presets[k].crosspoints
    BY <2>1 DEF PresetRecords
  <2> QED
    BY <1>5, <2>1, <2>2
<1>7. presets' \in [1..Len(presets) -> PresetRecords]
  BY <1>2, <1>5, <1>6
<1>8. presets' \in Seq(PresetRecords) /\ Len(presets') = Len(presets)
      /\ DOMAIN presets' = 1..Len(presets)
  BY <1>2, <1>7, FunctionIsSeq
<1> QED
  BY <1>1, <1>2, <1>6, <1>8, KeepsSaved

(* A new backend has the presets of the configuration.                     *)
LEMMA LoadedStep ==
  ASSUME Inv, presets' = Loaded, saved' = saved
  PROVE  presets' \in Seq(PresetRecords) /\ SavedAgrees'
<1>1. Len(saved) \in Nat /\ DOMAIN saved = 1..Len(saved)
      /\ saved \in [1..Len(saved) -> Selections]
  BY SeqIsFunction DEF Inv, TypeOK
<1>2. presets' \in [1..Len(saved) -> PresetRecords]
  BY <1>1 DEF Loaded, PresetRecords
<1>3. presets' \in Seq(PresetRecords) /\ Len(presets') = Len(saved)
      /\ DOMAIN presets' = 1..Len(saved)
  BY <1>1, <1>2, FunctionIsSeq
<1>4. \A k \in 1..Len(saved) : saved[k] = presets'[k].crosspoints
  BY <1>1 DEF Loaded
<1> QED
  BY <1>3, <1>4 DEF SavedAgrees

-----------------------------------------------------------------------------
(* The invariant.                                                          *)

(* The parts of the state a step leaves TypeOK to look at besides presets. *)
RestOK ==
  /\ crosspoints \in Routings
  /\ fresh \in BOOLEAN /\ parsed \in BOOLEAN /\ connected \in BOOLEAN
  /\ command \in Selections \cup {None}
  /\ sent \in BOOLEAN /\ noted \in BOOLEAN
  /\ (connected => parsed) /\ (parsed => ~fresh)
  /\ sent => command # None

PresetsOK == presets \in Seq(PresetRecords) /\ saved \in Seq(Selections)

(* TypeOK in its two halves.                                               *)
LEMMA TypeOKParts ==
  /\ TypeOK <=> RestOK /\ PresetsOK
  /\ TypeOK' <=> RestOK' /\ PresetsOK'
BY DEF TypeOK, RestOK, PresetsOK, PresetRecords

(* A new backend has no presets, and neither has the file.                 *)
LEMMA InitInv == Init => Inv
<1> SUFFICES ASSUME Init PROVE Inv
  OBVIOUS
<1>1. RestOK
  BY ConstantsAssumption DEF Init, RestOK, ConstantsAssumption, Routings
<1>2. PresetsOK /\ SavedAgrees
  BY DEF Init, PresetsOK, SavedAgrees
<1> QED
  BY <1>1, <1>2, TypeOKParts DEF Inv

(* Routing blocks set one output to an input.                              *)
LEMMA RouteStep ==
  ASSUME Inv, NEW o \in Outputs, NEW i \in Inputs, Route(o, i)
  PROVE  Inv'
<1>1. RestOK /\ PresetsOK
  BY TypeOKParts DEF Inv
<1>2. crosspoints' \in Routings
  BY <1>1 DEF RestOK, Route, Routings
<1>3. RestOK'
  BY <1>1, <1>2 DEF RestOK, Route, link
<1>4. saved' = saved /\ (Emitted(crosspoints') \/ presets' = presets)
  BY DEF Route
<1>5. presets' \in Seq(PresetRecords) /\ SavedAgrees'
  BY <1>4, EmittedStep
<1> QED
  BY <1>1, <1>3, <1>4, <1>5, TypeOKParts DEF Inv, PresetsOK

(* Every step keeps types and copy.                                        *)
LEMMA NextInv == Inv /\ [Next]_vars => Inv'
<1> SUFFICES ASSUME Inv, [Next]_vars PROVE Inv'
  OBVIOUS
<1>1. RestOK /\ PresetsOK /\ SavedAgrees
  BY TypeOKParts DEF Inv
<1> USE DEF link, lock
<1>2. CASE Store
  <2>1. PICK k \in 1..MaxPresets, outputs \in Stores, clear \in BOOLEAN :
          StorePreset(k, outputs, clear)
    BY <1>2 DEF Store
  <2>2. PresetsOK' /\ SavedAgrees'
    BY <2>1, ConstantsAssumption, StoreStep DEF PresetsOK
  <2>3. RestOK'
    BY <1>1, <1>2 DEF RestOK, Store
  <2> QED
    BY <2>2, <2>3, TypeOKParts DEF Inv
<1>3. CASE Call
  <2>1. \A k \in DOMAIN presets : presets[k].crosspoints \in Selections
    <3>1. DOMAIN presets = 1..Len(presets) /\ presets \in [1..Len(presets) -> PresetRecords]
      BY <1>1, SeqIsFunction DEF PresetsOK
    <3>2. \A k \in DOMAIN presets : presets[k] \in PresetRecords
      BY <3>1
    <3> QED
      BY <3>2 DEF PresetRecords
  <2>2. command' \in Selections
    <3>1. PICK j \in Jobs \cup {presets[k].crosspoints : k \in DOMAIN presets} : command' = j
      BY <1>3 DEF Call
    <3>2. CASE j \in Jobs
      BY <3>1, <3>2, ConstantsAssumption DEF ConstantsAssumption, Selections
    <3>3. CASE j \in {presets[k].crosspoints : k \in DOMAIN presets}
      BY <2>1, <3>1, <3>3
    <3> QED
      BY <3>1, <3>2, <3>3
  <2>3. /\ command = None
        /\ UNCHANGED <<crosspoints, fresh, parsed, connected, sent, noted, presets, saved>>
    BY <1>3 DEF Call
  <2>4. RestOK'
    BY <1>1, <2>2, <2>3 DEF RestOK
  <2> QED
    BY <1>1, <2>3, <2>4, KeepsSaved, TypeOKParts DEF Inv, PresetsOK
<1>4. CASE Send
  <2>1. RestOK'
    BY <1>1, <1>4 DEF RestOK, Send
  <2> QED
    BY <1>1, <1>4, <2>1, KeepsSaved, TypeOKParts DEF Inv, PresetsOK, Send
<1>5. CASE Answered
  <2>1. PICK r \in {With(crosspoints, command), crosspoints} : Unlock(r)
    BY <1>5 DEF Answered
  <2>2. With(crosspoints, command) \in Routings
    <3>1. command \in Selections
      BY <1>1, <1>5 DEF RestOK, Answered
    <3>2. \A o \in DOMAIN command : command[o] \in Inputs
      BY <3>1, SelectionIs
    <3> QED
      BY <1>1, <3>2 DEF With, Routings, RestOK
  <2>3. r \in Routings
    BY <1>1, <2>1, <2>2 DEF RestOK
  <2>4. RestOK'
    BY <1>1, <1>5, <2>1, <2>3 DEF RestOK, Answered, Unlock
  <2>5. saved' = saved /\ (Emitted(r) \/ presets' = presets)
    BY <1>5, <2>1 DEF Answered, Unlock
  <2>6. presets' \in Seq(PresetRecords) /\ SavedAgrees'
    BY <2>5, EmittedStep
  <2> QED
    BY <1>1, <2>4, <2>5, <2>6, TypeOKParts DEF Inv, PresetsOK
<1>6. CASE ReadUpdate
  BY <1>6, RouteStep DEF ReadUpdate
<1>7. CASE ReadPrelude
  BY <1>7, RouteStep DEF ReadPrelude
<1>8. CASE EndPrelude
  <2>1. RestOK'
    BY <1>1, <1>8 DEF RestOK, EndPrelude
  <2>2. PresetsOK' /\ SavedAgrees'
    BY <1>1, <1>8, ReadyStep DEF PresetsOK, EndPrelude
  <2> QED
    BY <2>1, <2>2, TypeOKParts DEF Inv
<1>9. CASE Established \/ LinkLost \/ Reconnect \/ UNCHANGED vars
  <2>1. RestOK'
    <3>1. CASE Established
      BY <1>1, <3>1 DEF RestOK, Established
    <3>2. CASE LinkLost
      BY <1>1, <3>2 DEF RestOK, LinkLost
    <3>3. CASE Reconnect
      BY <1>1, <3>3 DEF RestOK, Reconnect
    <3>4. CASE UNCHANGED vars
      BY <1>1, <3>4 DEF RestOK, vars
    <3> QED
      BY <1>9, <3>1, <3>2, <3>3, <3>4
  <2>2. presets' = presets /\ saved' = saved
    BY <1>9 DEF Established, LinkLost, Reconnect, vars
  <2> QED
    BY <1>1, <2>1, <2>2, KeepsSaved, TypeOKParts DEF Inv, PresetsOK
<1>10. CASE Restart
  <2>1. RestOK'
    BY <1>10, ConstantsAssumption DEF RestOK, Restart, ConstantsAssumption, Routings
  <2>2. PresetsOK' /\ SavedAgrees'
    BY <1>1, <1>10, LoadedStep DEF PresetsOK, Restart
  <2> QED
    BY <2>1, <2>2, TypeOKParts DEF Inv
<1> QED
  BY <1>2, <1>3, <1>4, <1>5, <1>6, <1>7, <1>8, <1>9, <1>10 DEF Next

(* Every reachable state is well formed: a preset and its copy always hold *)
(* outputs and inputs of the switcher, whatever was stored and merged.     *)
THEOREM TypeCorrect == Spec => []TypeOK
<1>1. Inv => TypeOK
  BY DEF Inv
<1> QED
  BY <1>1, InitInv, NextInv, PTL DEF Spec

(* What the configuration has saved is always every preset as it is now,   *)
(* with any number of presets: after every store, in any order of indices, *)
(* cleared or merged, and after every restart from that file.              *)
THEOREM SavedIsComplete == Spec => []SavedAgrees
<1>1. Inv => SavedAgrees
  BY DEF Inv
<1> QED
  BY <1>1, InitInv, NextInv, PTL DEF Spec
-----------------------------------------------------------------------------
(* The active flag.  A preset that is not bound has always been checked    *)
(* against the routing there is; one that is bound may show anything until *)
(* a prelude has been read, at the end of which it looks.  Before the      *)
(* first one the routing is not known: what there is then must be bound.   *)

(* Callers clear what they store over, and store something.                *)
StoresReplace == Merging = FALSE /\ {} \notin Stores

(* The routing is what it was when the link comes back.                    *)
RoutingStays == Absent = FALSE

Exact(preset, r) == preset.active = IsActive(preset.crosspoints, r)

FlagOK(preset) == IF fresh THEN preset.bound ELSE noted \/ Exact(preset, crosspoints)

Flags == \A k \in DOMAIN presets : FlagOK(presets[k])

ExactInv ==
  /\ Inv
  /\ noted => sent
  /\ command # None => connected
  /\ Flags

(* What is known of the variables in such a state.                         *)
LEMMA ExactFacts ==
  ASSUME ExactInv
  PROVE  /\ presets \in Seq(PresetRecords) /\ saved \in Seq(Selections)
         /\ Len(presets) \in Nat /\ DOMAIN presets = 1..Len(presets)
         /\ \A k \in DOMAIN presets : presets[k] \in PresetRecords
         /\ sent => connected /\ parsed /\ ~fresh
         /\ ~parsed => ~noted /\ ~connected
         /\ fresh => ~parsed
<1>1. RestOK /\ PresetsOK
  BY TypeOKParts DEF ExactInv, Inv
<1>2. Len(presets) \in Nat /\ DOMAIN presets = 1..Len(presets)
      /\ presets \in [1..Len(presets) -> PresetRecords]
  BY <1>1, SeqIsFunction DEF PresetsOK
<1> QED
  BY <1>1, <1>2 DEF RestOK, PresetsOK, ExactInv

(* A preset that is checked is exact, and holds what it held.              *)
LEMMA CheckedIsExact ==
  ASSUME NEW preset \in PresetRecords, NEW r
  PROVE  /\ Exact(CheckActive(preset, r), r)
         /\ Exact([CheckActive(preset, r) EXCEPT !.bound = FALSE], r)
<1>1. IsActive(preset.crosspoints, r) \in BOOLEAN
  BY DEF IsActive
<1> HIDE DEF IsActive
<1> QED
  BY <1>1 DEF Exact, CheckActive, PresetRecords

(* An emission checks them all, when it is heard.                          *)
LEMMA EmissionIsExact ==
  ASSUME ExactInv, NEW r, parsed, Emitted(r)
  PROVE  DOMAIN presets' = DOMAIN presets
         /\ \A k \in DOMAIN presets' : Exact(presets'[k], r)
<1>1. presets' = [k \in DOMAIN presets |-> CheckActive(presets[k], r)]
  BY DEF Emitted
<1> QED
  BY <1>1, ExactFacts, CheckedIsExact

(* Place i as store_preset finds it, and what it stores there.             *)
Found(i) == IF i \in DOMAIN presets THEN presets[i] ELSE NewPreset

StoredPreset(p, outputs, clear) ==
  LET new == Stored(p.crosspoints, outputs, clear)
      checked == parsed /\ new # Cleared(p.crosspoints, clear) /\ new # Nothing
  IN  [crosspoints |-> new, active |-> checked => IsActive(new, crosspoints),
       bound |-> p.bound]

(* It changes one place; the others are as they were, or new.              *)
LEMMA StorePlaces ==
  ASSUME ExactInv, NEW k \in 1..MaxPresets, MaxPresets \in Nat,
         NEW outputs, NEW clear, StorePreset(k, outputs, clear)
  PROVE  \A i \in DOMAIN presets' :
           presets'[i] = IF i = k THEN StoredPreset(Found(k), outputs, clear)
                         ELSE Found(i)
<1> DEFINE all == Extended(presets, k, NewPreset)
           n == IF k > Len(presets) THEN k ELSE Len(presets)
<1>1. Len(presets) \in Nat /\ DOMAIN presets = 1..Len(presets) /\ k \in Nat \ {0}
  BY ExactFacts
<1>2. all = [i \in 1..n |-> IF i <= Len(presets) THEN presets[i] ELSE NewPreset]
  BY DEF Extended
<1>3. n \in Nat /\ k \in 1..n
  BY <1>1
<1> HIDE DEF n
<1>4. DOMAIN all = 1..n /\ \A i \in 1..n : all[i] = Found(i)
  <2>1. \A i \in 1..n : i <= Len(presets) <=> i \in DOMAIN presets
    BY <1>1, <1>3
  <2> QED
    BY <1>2, <2>1 DEF Found
<1>5. presets' = [all EXCEPT ![k] = StoredPreset(all[k], outputs, clear)]
  BY DEF StorePreset, StoredPreset
<1> HIDE DEF all
<1>6. DOMAIN presets' = 1..n
      /\ \A i \in 1..n : presets'[i] = IF i = k THEN StoredPreset(all[k], outputs, clear)
                                       ELSE all[i]
  BY <1>3, <1>4, <1>5
<1> QED
  BY <1>3, <1>4, <1>6

(* Stored with the routing there is, a preset is active, and says so:      *)
(* whether store_preset checks or only sets the flag.                      *)
LEMMA StoredIsExact ==
  ASSUME NEW p, NEW outputs \in SUBSET Outputs, outputs # {}
  PROVE  Exact(StoredPreset(p, outputs, TRUE), crosspoints)
<1> DEFINE new == Stored(p.crosspoints, outputs, TRUE)
<1>1. new = [o \in outputs |-> crosspoints[o]]
  <2>1. Cleared(p.crosspoints, TRUE) = Nothing /\ DOMAIN Nothing = {}
    BY DEF Cleared, Nothing
  <2>2. outputs \cup {} = outputs
    OBVIOUS
  <2>3. new = [o \in outputs \cup {} |->
                 IF o \in outputs THEN crosspoints[o] ELSE Nothing[o]]
    BY <2>1 DEF Stored
  <2> QED
    BY <2>2, <2>3
<1>2. IsActive(new, crosspoints) = TRUE
  BY <1>1 DEF IsActive
<1> HIDE DEF new
<1>3. StoredPreset(p, outputs, TRUE).crosspoints = new
      /\ StoredPreset(p, outputs, TRUE).active = TRUE
  BY <1>2 DEF StoredPreset, new
<1> QED
  BY <1>2, <1>3 DEF Exact

(* A new preset is empty and inactive; before the first prelude it is bound. *)
LEMMA NewIsOK ==
  ASSUME ExactInv PROVE FlagOK(NewPreset)
<1>1. NewPreset.active = FALSE /\ NewPreset.crosspoints = Nothing
      /\ NewPreset.bound = ~(connected /\ parsed)
  BY DEF NewPreset
<1>2. IsActive(Nothing, crosspoints) = FALSE
  BY DEF IsActive, Nothing
<1> QED
  BY <1>1, <1>2, ExactFacts DEF FlagOK, Exact

(* One store keeps every flag right, whatever the others do.               *)
LEMMA StoreKeepsFlags ==
  ASSUME ExactInv, StoresReplace, Store
  PROVE  Flags'
<1>1. PICK k \in 1..MaxPresets, outputs \in Stores, clear \in BOOLEAN :
        (clear \/ Merging) /\ StorePreset(k, outputs, clear)
  BY DEF Store
<1>2. MaxPresets \in Nat /\ outputs \in SUBSET Outputs /\ outputs # {} /\ clear = TRUE
  BY <1>1, ConstantsAssumption DEF ConstantsAssumption, StoresReplace
<1>3. \A i \in DOMAIN presets' :
        presets'[i] = IF i = k THEN StoredPreset(Found(k), outputs, TRUE) ELSE Found(i)
  BY <1>1, <1>2, StorePlaces
<1>4. fresh' = fresh /\ noted' = noted /\ crosspoints' = crosspoints
  BY DEF Store, link, lock
<1>5. \A i : FlagOK(Found(i))
  BY NewIsOK DEF Found, ExactInv, Flags
<1>6. FlagOK(StoredPreset(Found(k), outputs, TRUE))
  <2>1. StoredPreset(Found(k), outputs, TRUE).bound = Found(k).bound
    BY DEF StoredPreset
  <2> QED
    BY <1>2, <1>5, <2>1, StoredIsExact DEF FlagOK
<1>7. \A i \in DOMAIN presets' : FlagOK(presets'[i])
  BY <1>3, <1>5, <1>6
<1> QED
  BY <1>4, <1>7 DEF Flags, FlagOK

(* A routing block: held back under the emission lock, else emitted.       *)
LEMMA RouteKeepsFlags ==
  ASSUME ExactInv, parsed \/ fresh, NEW o \in Outputs, NEW i \in Inputs, Route(o, i)
  PROVE  Flags' /\ (noted' => sent')
<1>1. fresh' = fresh /\ sent' = sent
  BY DEF Route, link
<1>2. CASE sent
  BY <1>1, <1>2, ExactFacts DEF Route, Flags, FlagOK
<1>3. CASE ~sent
  <2>1. noted' = noted /\ ~noted /\ Emitted(crosspoints')
    BY <1>3 DEF Route, ExactInv
  <2>2. CASE parsed
    BY <1>1, <2>1, <2>2, EmissionIsExact, ExactFacts DEF Flags, FlagOK
  <2>3. CASE ~parsed
    BY <1>1, <2>1, <2>3 DEF Emitted, ExactInv, Flags, FlagOK
  <2> QED
    BY <2>2, <2>3 DEF ExactInv, Inv, TypeOK
<1> QED
  BY <1>2, <1>3 DEF ExactInv, Inv, TypeOK

(* The end of a command emits what was held back, if anything was.         *)
LEMMA AnswerKeepsFlags ==
  ASSUME ExactInv, Answered
  PROVE  Flags' /\ noted' = FALSE /\ command' = None
<1>1. PICK r : Unlock(r)
  BY DEF Answered
<1>2. noted' = FALSE /\ command' = None /\ crosspoints' = r /\ fresh' = fresh
  BY <1>1 DEF Unlock, Answered, link
<1>3. parsed /\ ~fresh
  BY ExactFacts DEF Answered
<1>4. CASE Emitted(r)
  BY <1>2, <1>3, <1>4, EmissionIsExact DEF Flags, FlagOK
<1>5. CASE presets' = presets /\ ~noted /\ r = crosspoints
  BY <1>2, <1>3, <1>5 DEF ExactInv, Flags, FlagOK
<1> QED
  BY <1>1, <1>4, <1>5 DEF Unlock

(* The end of a prelude checks those that waited for it; the others were   *)
(* right when the link went down.                                          *)
LEMMA ReadyKeepsFlags ==
  ASSUME ExactInv, EndPrelude PROVE Flags'
<1>1. /\ presets' = [k \in DOMAIN presets |->
                       IF presets[k].bound
                       THEN [CheckActive(presets[k], crosspoints) EXCEPT !.bound = FALSE]
                       ELSE presets[k]]
      /\ fresh' = FALSE /\ crosspoints' = crosspoints /\ noted' = noted /\ ~noted
  BY ExactFacts DEF EndPrelude, lock
<1>2. \A k \in DOMAIN presets' : Exact(presets'[k], crosspoints)
  <2> SUFFICES ASSUME NEW k \in DOMAIN presets PROVE Exact(presets'[k], crosspoints)
    BY <1>1
  <2>1. CASE presets[k].bound
    BY <1>1, <2>1, ExactFacts, CheckedIsExact
  <2>2. CASE ~presets[k].bound
    BY <1>1, <2>2 DEF ExactInv, Flags, FlagOK
  <2> QED
    BY <2>1, <2>2
<1> QED
  BY <1>1, <1>2 DEF Flags, FlagOK

(* Without presets no flag is wrong.                                       *)
LEMMA InitExact == Init => ExactInv
BY InitInv DEF Init, ExactInv, Flags

(* Every step keeps every flag right, or its preset bound.                 *)
LEMMA NextExact ==
  ASSUME StoresReplace, RoutingStays
  PROVE  ExactInv /\ [Next]_vars => ExactInv'
<1> SUFFICES ASSUME ExactInv, [Next]_vars
             PROVE  (noted => sent)' /\ (command # None => connected)' /\ Flags'
  BY NextInv DEF ExactInv
<1>1. CASE Store
  BY <1>1, StoreKeepsFlags DEF Store, ExactInv, link, lock
<1>2. CASE Call
  BY <1>2 DEF Call, ExactInv, Flags, FlagOK, link
<1>3. CASE Send
  BY <1>3 DEF Send, ExactInv, Flags, FlagOK, link
<1>4. CASE Answered
  BY <1>4, AnswerKeepsFlags
<1>5. CASE ReadUpdate \/ ReadPrelude
  <2>1. PICK o \in Outputs, i \in Inputs : Route(o, i)
    BY <1>5 DEF ReadUpdate, ReadPrelude
  <2>2. parsed \/ fresh
    BY <1>5 DEF ReadUpdate, ReadPrelude, RoutingStays
  <2>3. command' = command /\ connected' = connected
    BY <2>1 DEF Route, link
  <2> QED
    BY <2>1, <2>2, <2>3, RouteKeepsFlags DEF ExactInv
<1>6. CASE EndPrelude
  BY <1>6, ReadyKeepsFlags DEF EndPrelude, ExactInv, lock
<1>7. CASE Established
  BY <1>7 DEF Established, ExactInv, Flags, FlagOK, lock
<1>8. CASE LinkLost
  BY <1>8 DEF LinkLost, ExactInv, Flags, FlagOK, lock
<1>9. CASE Reconnect
  BY <1>9 DEF Reconnect, ExactInv, Flags, FlagOK, lock
<1>10. CASE Restart
  BY <1>10 DEF Restart, Loaded, Flags, FlagOK
<1>11. CASE UNCHANGED vars
  BY <1>11 DEF vars, ExactInv, Flags, FlagOK
<1> QED
  BY <1>1, <1>2, <1>3, <1>4, <1>5, <1>6, <1>7, <1>8, <1>9, <1>10, <1>11 DEF Next

(* The active flag of every preset is right whenever no command holds      *)
(* changes back: with any number of presets, after any stores that replace *)
(* what was there, answers, updates, lost links, preludes and restarts, if *)
(* the routing does not change while the link is down.                     *)
THEOREM ActiveFlagIsExact ==
  ASSUME StoresReplace, RoutingStays
  PROVE  Spec => []ActiveIsExact
<1>1. ExactInv => ActiveIsExact
  BY ExactFacts DEF ExactInv, ActiveIsExact, Flags, FlagOK, Exact
<1> QED
  BY <1>1, InitExact, NextExact, PTL DEF Spec
=============================================================================
