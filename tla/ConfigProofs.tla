---------------------------- MODULE ConfigProofs ----------------------------
(***************************************************************************)
(* Theorems about Config for any devices, addresses, files, moves, calls   *)
(* and discoveries, restarts included: types, that every device is reached *)
(* where it is now, that the file holds that, and that stop() closes.      *)
(*                                                                         *)
(* What holds once everything was dealt with has to be said of every state *)
(* before.  A device that moved is unreported, or the last discovery of it *)
(* has its address, or it is reached there already (DevicesFollow).  That  *)
(* they are dealt with in their order, one at a time, is QueueOK; what can *)
(* be under way at each stage of start() and of each stop(), if none came  *)
(* upon the other or upon work, is PhasesOK.  That stop() knows of every   *)
(* backend that has not lost its device is AllKept.                        *)
(***************************************************************************)
EXTENDS Config, SequenceTheorems, TLAPS

(* What the tables are made of.                                            *)
Links == [addr : Addresses, id : Keys \cup {None}, up : BOOLEAN]
Records(n) == [backend : 1 .. n, addr : Addresses, id : Keys]
Discoveries(n) == [id : Ids, addr : Addresses, stage : Stages, backend : 0 .. n]
Entries == [id : Keys, addr : Addresses]

ObjectTyping ==
  /\ backends \in Seq(Links)
  /\ confs \in Seq(Records(Len(backends)))
  /\ devices \in [Keys -> 0 .. Len(confs)]
  /\ file \subseteq Entries

QueueTyping == found \in Seq(Discoveries(Len(backends)))

NetworkTyping ==
  /\ where \in [Addresses -> Ids \cup {None}]
  /\ unreported \subseteq Ids
  /\ moves \in 0 .. MaxMoves /\ calls \in 0 .. MaxCalls

RunTyping ==
  /\ manager \in {"not_connected", "connecting", "connected", "disconnecting"}
  /\ entries \subseteq Entries /\ loading \subseteq entries
  /\ starter \in {"new", "none", "loading", "listening", "failed"}
  /\ listening \in BOOLEAN
  /\ builder \in Addresses \cup {None}
  /\ stopper \in [Stops -> {"none", "unlisten", "closing"}]
  /\ intruded \in BOOLEAN

LinkTyping ==
  /\ closing \in [Stops -> SUBSET DOMAIN backends]
  /\ rebacked \subseteq Ids /\ unsaved \subseteq Keys
  /\ lost \subseteq DOMAIN backends /\ dropped \subseteq DOMAIN backends

Typing == ObjectTyping /\ QueueTyping /\ NetworkTyping /\ RunTyping /\ LinkTyping

(* The device of an id, and its backend.                                   *)
Known(k) == devices[k] # 0
ConfOf(k) == confs[devices[k]]
BackendOf(k) == confs[devices[k]].backend

(* Every device is filed under its own id, every backend belongs to one    *)
(* device and has its address.                                             *)
ObjectsOK ==
  /\ \A k \in Keys : Known(k) => ConfOf(k).id = k
  /\ \A c, e \in DOMAIN confs : confs[c].backend = confs[e].backend => c = e
  /\ \A c \in DOMAIN confs : backends[confs[c].backend].addr = confs[c].addr

(* Discoveries take their turns in order, and the first alone goes on; it  *)
(* works on a backend of its device.                                       *)
Early  == {"new", "waits"}
Moving == {"closing", "leaving", "dialing", "returning"}

OnItsOwn(i) ==
  /\ Known(found[i].id) /\ found[i].backend # 0
  /\ \A k \in Keys \ {found[i].id} : Known(k) => BackendOf(k) # found[i].backend
  /\ found[i].id \notin rebacked /\ ~intruded =>
       BackendOf(found[i].id) = found[i].backend

TurnsOK ==
  /\ \A i, j \in DOMAIN found : i < j =>
       /\ found[i].stage = "new" => found[j].stage = "new"
       /\ found[i].stage \in Early => found[j].stage \in Early
  /\ \A i \in DOMAIN found : found[i].stage \in Holding => i = 1

QueueOK ==
  /\ TurnsOK
  /\ \A i \in DOMAIN found : found[i].stage \in Moving => OnItsOwn(i)

(* What was not saved yet is on the list, or its discovery will save it.   *)
InFile(k) == [id |-> k, addr |-> ConfOf(k).addr] \in file
FileFollows ==
  \A k \in Keys : Known(k) /\ k \notin unsaved =>
    InFile(k) \/ \E i \in DOMAIN found : found[i].id = k /\ found[i].stage = "dialing"

(* A backend belongs to a device, or its device has another one now.       *)
AllKept ==
  \A b \in DOMAIN backends :
    b \in dropped \/ \E k \in Keys : Known(k) /\ BackendOf(k) = b

(* What may be under way, as long as nothing was intruded upon.  A stop()  *)
(* that closes has everything on its list that is connected and is not     *)
(* dropped: nothing is built, found or started meanwhile.                  *)
Idle ==
  /\ loading = {} /\ starter \in {"new", "none", "failed"}
  /\ \A i \in DOMAIN found : found[i].stage = "new"

Closes(s) ==
  ~listening /\ \A b \in DOMAIN backends : backends[b].up => b \in closing[s] \cup dropped

PhasesOK == ~intruded =>
  /\ manager = "not_connected" => Idle /\ ~listening
  /\ manager = "disconnecting" => Idle /\ ~NoStop
  /\ manager = "connecting" =>
       /\ NoStop
       /\ starter \in {"loading", "listening", "failed"}
       /\ starter = "listening" => loading = {}
       /\ \A i \in DOMAIN found : found[i].stage \in Early
  /\ manager = "connected" => NoStop /\ loading = {} /\ starter = "none"
  /\ ~NoStop => builder = None
  /\ \A s \in Stops : stopper[s] = "closing" => Closes(s)

(* While a start() that heard of everything goes on or is over.            *)
Active ==
  /\ ~intruded /\ listening
  /\ starter \in {"listening", "none"} /\ manager \in {"connecting", "connected"}

Reached(d, a) ==
  /\ Known(d) /\ ConfOf(d).addr = a
  /\ d \notin rebacked => backends[BackendOf(d)].up \/ BackendOf(d) \in lost

IsLast(i) == \A j \in DOMAIN found : found[j].id = found[i].id => j <= i

Follows(d, a) ==
  /\ \A i \in DOMAIN found : found[i].id = d /\ IsLast(i) =>
       /\ found[i].addr = a
       /\ found[i].stage \in Moving \ {"closing"} => ConfOf(d).addr = a
  /\ (\A i \in DOMAIN found : found[i].id # d) => Reached(d, a)

DevicesFollow ==
  Active => \A a \in Addresses, d \in Ids \ unreported : where[a] = d => Follows(d, a)

OnePlace == \A a, b \in Addresses : where[a] = where[b] => a = b \/ where[a] = None

Core == Typing /\ ObjectsOK /\ QueueOK /\ AllKept /\ PhasesOK
Inv == Core /\ FileFollows /\ OnePlace /\ DevicesFollow

USE ConstantsAssumption

-----------------------------------------------------------------------------
(* Sequences.                                                              *)

(* One more at the end.                                                    *)
LEMMA OneMore ==
  ASSUME NEW S, NEW q \in Seq(S), NEW m \in S
  PROVE  /\ Append(q, m) \in Seq(S) /\ DOMAIN q = 1..Len(q) /\ Len(q) \in Nat
         /\ Len(Append(q, m)) = Len(q) + 1
         /\ DOMAIN Append(q, m) = 1..(Len(q) + 1)
         /\ Append(q, m)[Len(q) + 1] = m
         /\ \A k \in DOMAIN q : Append(q, m)[k] = q[k]
BY AppendProperties, LenProperties

(* One replaced.                                                           *)
LEMMA OneChanged ==
  ASSUME NEW S, NEW q \in Seq(S), NEW i \in DOMAIN q, NEW m \in S
  PROVE  /\ [q EXCEPT ![i] = m] \in Seq(S) /\ Len([q EXCEPT ![i] = m]) = Len(q)
         /\ DOMAIN [q EXCEPT ![i] = m] = DOMAIN q
BY ExceptSeq, LenProperties

(* One taken out.                                                          *)
LEMMA OneLess ==
  ASSUME NEW S, NEW q \in Seq(S), NEW i \in DOMAIN q
  PROVE  /\ RemoveAt(q, i) \in Seq(S)
         /\ DOMAIN q = 1..Len(q) /\ Len(q) \in Nat \ {0}
         /\ DOMAIN RemoveAt(q, i) = 1..(Len(q) - 1)
         /\ \A k \in 1..(Len(q) - 1) :
              RemoveAt(q, i)[k] = IF k < i THEN q[k] ELSE q[k + 1]
<1> DEFINE s == SubSeq(q, 1, i - 1)
           t == SubSeq(q, i + 1, Len(q))
<1>1. DOMAIN q = 1..Len(q) /\ Len(q) \in Nat /\ i \in 1..Len(q)
      /\ \A k \in 1..Len(q) : q[k] \in S
  BY LenProperties
<1>2. s \in Seq(S) /\ Len(s) = i - 1 /\ \A k \in 1..(i - 1) : s[k] = q[k]
  <2>1. 1 \in Int /\ i - 1 \in Int /\ \A k \in 1..(i - 1) : q[k] \in S
    BY <1>1
  <2>2. /\ s \in Seq(S) /\ Len(s) = IF 1 <= i - 1 THEN i - 1 - 1 + 1 ELSE 0
        /\ \A k \in 1 .. i - 1 - 1 + 1 : s[k] = q[1 + k - 1]
    BY <2>1, SubSeqProperties
  <2> QED
    BY <1>1, <2>2
<1>3. t \in Seq(S) /\ Len(t) = Len(q) - i
      /\ \A k \in 1..(Len(q) - i) : t[k] = q[i + k]
  <2>1. i + 1 \in Int /\ Len(q) \in Int /\ \A k \in (i + 1)..Len(q) : q[k] \in S
    BY <1>1
  <2>2. /\ t \in Seq(S) /\ Len(t) = IF i + 1 <= Len(q) THEN Len(q) - (i + 1) + 1 ELSE 0
        /\ \A k \in 1 .. Len(q) - (i + 1) + 1 : t[k] = q[i + 1 + k - 1]
    BY <2>1, SubSeqProperties
  <2> QED
    BY <1>1, <2>2
<1> HIDE DEF s, t
<1>4. /\ s \o t \in Seq(S) /\ Len(s \o t) = Len(q) - 1
      /\ \A k \in 1..(Len(q) - 1) : (s \o t)[k] = IF k <= i - 1 THEN s[k] ELSE t[k - (i - 1)]
  <2>1. Len(s) + Len(t) = Len(q) - 1 /\ Len(s) = i - 1
    BY <1>1, <1>2, <1>3
  <2>2. s \in Seq(S) /\ t \in Seq(S)
    BY <1>2, <1>3
  <2>3. /\ s \o t \in Seq(S) /\ Len(s \o t) = Len(s) + Len(t)
        /\ \A k \in 1..(Len(s) + Len(t)) :
             (s \o t)[k] = IF k <= Len(s) THEN s[k] ELSE t[k - Len(s)]
    BY ONLY <2>2, ConcatProperties
  <2> QED
    BY ONLY <2>1, <2>3
<1>5. RemoveAt(q, i) = s \o t
  BY DEF RemoveAt, s, t
<1>6. ASSUME NEW k \in 1..(Len(q) - 1)
      PROVE  (s \o t)[k] = IF k < i THEN q[k] ELSE q[k + 1]
  <2>1. CASE k < i
    BY <1>1, <1>2, <1>4, <2>1
  <2>2. CASE ~(k < i)
    <3>1. k - (i - 1) \in 1..(Len(q) - i) /\ i + (k - (i - 1)) = k + 1 /\ ~(k <= i - 1)
      BY <1>1, <2>2
    <3> QED
      BY <1>3, <1>4, <2>2, <3>1
  <2> QED
    BY <2>1, <2>2
<1>7. DOMAIN (s \o t) = 1..(Len(q) - 1)
  BY <1>4, LenProperties
<1>8. Len(q) \in Nat \ {0}
  BY <1>1
<1>9. \A k \in 1..(Len(q) - 1) : RemoveAt(q, i)[k] = IF k < i THEN q[k] ELSE q[k + 1]
  BY <1>5, <1>6
<1> QED
  BY <1>1, <1>4, <1>5, <1>7, <1>8, <1>9

-----------------------------------------------------------------------------
(* Discoveries and devices.                                                *)

(* What the stage of a discovery may be.                                   *)
LEMMA StagesAre ==
  /\ Early \subseteq Stages /\ Moving \subseteq Holding /\ Holding \subseteq Stages
  /\ "new" \in Early /\ "passed" \in Stages
  /\ Holding = Moving \cup {"creating"} /\ "creating" \notin Moving
  /\ Early \cap Holding = {} /\ "passed" \notin Early \cup Holding
  /\ \A s \in Stages : s \in Early \/ s = "passed" \/ s \in Holding
BY DEF Early, Moving, Holding, Stages

(* The queue as a list.                                                    *)
LEMMA QueueIs ==
  ASSUME Typing
  PROVE  /\ DOMAIN found = 1..Len(found) /\ Len(found) \in Nat
         /\ \A i \in DOMAIN found : found[i] \in Discoveries(Len(backends))
         /\ \A i \in DOMAIN found : /\ found[i].id \in Ids /\ found[i].addr \in Addresses
                                    /\ found[i].stage \in Stages
                                    /\ found[i].backend \in 0..Len(backends)
<1>1. /\ DOMAIN found = 1..Len(found) /\ Len(found) \in Nat
      /\ \A i \in DOMAIN found : found[i] \in Discoveries(Len(backends))
  BY LenProperties DEF Typing, QueueTyping
<1> QED
  BY <1>1 DEF Discoveries

(* The tables as lists.                                                    *)
LEMMA ObjectsAre ==
  ASSUME Typing
  PROVE  /\ DOMAIN backends = 1..Len(backends) /\ Len(backends) \in Nat
         /\ DOMAIN confs = 1..Len(confs) /\ Len(confs) \in Nat
         /\ \A b \in DOMAIN backends : /\ backends[b] \in Links
                                       /\ backends[b].addr \in Addresses
                                       /\ backends[b].id \in Keys \cup {None}
                                       /\ backends[b].up \in BOOLEAN
         /\ \A c \in DOMAIN confs : /\ confs[c] \in Records(Len(backends))
                                    /\ confs[c].backend \in DOMAIN backends
                                    /\ confs[c].addr \in Addresses /\ confs[c].id \in Keys
         /\ \A k \in Keys : devices[k] \in 0..Len(confs)
         /\ \A k \in Keys : Known(k) => /\ devices[k] \in DOMAIN confs
                                        /\ ConfOf(k) \in Records(Len(backends))
                                        /\ BackendOf(k) \in DOMAIN backends
         /\ Ids \subseteq Keys /\ Temps \subseteq Keys /\ None \notin Keys
<1>1. /\ DOMAIN backends = 1..Len(backends) /\ Len(backends) \in Nat
      /\ \A b \in DOMAIN backends : backends[b] \in Links
  BY LenProperties DEF Typing, ObjectTyping
<1>2. /\ DOMAIN confs = 1..Len(confs) /\ Len(confs) \in Nat
      /\ \A c \in DOMAIN confs : confs[c] \in Records(Len(backends))
  BY LenProperties DEF Typing, ObjectTyping
<1>3. \A b \in DOMAIN backends : /\ backends[b].addr \in Addresses
                                 /\ backends[b].id \in Keys \cup {None}
                                 /\ backends[b].up \in BOOLEAN
  BY <1>1 DEF Links
<1>4. \A c \in DOMAIN confs : /\ confs[c].backend \in DOMAIN backends
                              /\ confs[c].addr \in Addresses /\ confs[c].id \in Keys
  BY <1>1, <1>2 DEF Records
<1>5. \A k \in Keys : devices[k] \in 0..Len(confs)
  BY DEF Typing, ObjectTyping
<1>6. \A k \in Keys : Known(k) => devices[k] \in DOMAIN confs
  BY <1>2, <1>5 DEF Known
<1> QED
  BY <1>1, <1>2, <1>3, <1>4, <1>5, <1>6 DEF ConfOf, BackendOf, Keys

(* A discovery has come to the stage s.                                    *)
LEMMA StageIs ==
  ASSUME Typing, NEW i \in DOMAIN found, NEW s \in Stages, NEW b \in 0..Len(backends),
         Stage(i, s, b)
  PROVE  /\ found' \in Seq(Discoveries(Len(backends)))
         /\ Len(found') = Len(found) /\ DOMAIN found' = DOMAIN found
         /\ found'[i].id = found[i].id /\ found'[i].addr = found[i].addr
         /\ found'[i].stage = s /\ found'[i].backend = b
         /\ \A j \in DOMAIN found : j # i => found'[j] = found[j]
<1> DEFINE m == [id |-> found[i].id, addr |-> found[i].addr, stage |-> s, backend |-> b]
<1>1. found[i] \in Discoveries(Len(backends)) /\ found[i].id \in Ids
      /\ found[i].addr \in Addresses
  BY QueueIs
<1>2. m \in Discoveries(Len(backends))
  BY <1>1 DEF Discoveries
<1>3. found' = [found EXCEPT ![i] = m]
  <2>1. [found[i] EXCEPT !.stage = s] =
          [id |-> found[i].id, addr |-> found[i].addr, stage |-> s,
           backend |-> found[i].backend]
    BY <1>1 DEF Discoveries
  <2>2. [[id |-> found[i].id, addr |-> found[i].addr, stage |-> s,
           backend |-> found[i].backend] EXCEPT !.backend = b] = m
    OBVIOUS
  <2>3. found' = [found EXCEPT ![i] = [[found[i] EXCEPT !.stage = s] EXCEPT !.backend = b]]
    BY DEF Stage
  <2> QED
    BY <2>1, <2>2, <2>3
<1> HIDE DEF m
<1>4. found' \in Seq(Discoveries(Len(backends))) /\ Len(found') = Len(found)
      /\ DOMAIN found' = DOMAIN found
  BY <1>2, <1>3, OneChanged DEF Typing, QueueTyping
<1>5. found'[i] = m /\ \A j \in DOMAIN found : j # i => found'[j] = found[j]
  BY <1>3
<1>6. m.id = found[i].id /\ m.addr = found[i].addr /\ m.stage = s /\ m.backend = b
  BY DEF m
<1> QED
  BY <1>4, <1>5, <1>6

(* A discovery is over: the others keep their order.  From(i, k) is where  *)
(* what is now the k-th was.                                               *)
From(i, k) == IF k < i THEN k ELSE k + 1

(* The others, in their order.                                             *)
LEMMA DoneIs ==
  ASSUME Typing, NEW i \in DOMAIN found, Done(i)
  PROVE  /\ found' \in Seq(Discoveries(Len(backends)))
         /\ DOMAIN found' = 1..(Len(found) - 1)
         /\ \A k \in DOMAIN found' : /\ From(i, k) \in DOMAIN found /\ From(i, k) # i
                                     /\ found'[k] = found[From(i, k)]
         /\ \A j, k \in DOMAIN found' : j < k => From(i, j) < From(i, k)
         /\ \A k \in DOMAIN found \ {i} :
              \E j \in DOMAIN found' : From(i, j) = k
<1>1. /\ found' \in Seq(Discoveries(Len(backends)))
      /\ DOMAIN found = 1..Len(found) /\ Len(found) \in Nat \ {0}
      /\ DOMAIN found' = 1..(Len(found) - 1)
      /\ \A k \in 1..(Len(found) - 1) : found'[k] = IF k < i THEN found[k] ELSE found[k + 1]
  BY OneLess DEF Typing, QueueTyping, Done
<1>2. \A k \in 1..(Len(found) - 1) :
        /\ From(i, k) \in DOMAIN found /\ From(i, k) # i
        /\ found'[k] = found[From(i, k)]
  BY <1>1 DEF From
<1>3. \A j, k \in 1..(Len(found) - 1) : j < k => From(i, j) < From(i, k)
  BY <1>1 DEF From
<1>4. ASSUME NEW k \in DOMAIN found \ {i}
      PROVE  \E j \in DOMAIN found' : From(i, j) = k
  <2>1. CASE k < i
    <3>1. k \in DOMAIN found' /\ From(i, k) = k
      BY <1>1, <2>1 DEF From
    <3> QED
      BY <3>1
  <2>2. CASE ~(k < i)
    <3>1. k - 1 \in DOMAIN found' /\ From(i, k - 1) = k
      BY <1>1, <2>2 DEF From
    <3> QED
      BY <3>1
  <2> QED
    BY <2>1, <2>2
<1> QED
  BY <1>1, <1>2, <1>3, <1>4

(* Whoever is at an address is found there.                                *)
LEMMA ConnectedIs ==
  ASSUME Typing, NEW b \in Links
  PROVE  /\ Connected(b) \in Links /\ Connected(b).addr = b.addr
         /\ Connected(b).up <=> where[b.addr] # None
         /\ where[b.addr] # None => Connected(b).id = where[b.addr]
         /\ where[b.addr] = None => Connected(b).id = b.id
         /\ where[b.addr] \in Ids \cup {None}
<1> DEFINE up == where[b.addr] # None
           id == IF where[b.addr] # None THEN where[b.addr] ELSE b.id
<1>1. b.addr \in Addresses /\ b.id \in Keys \cup {None}
  BY DEF Links
<1>2. where[b.addr] \in Ids \cup {None}
  BY <1>1 DEF Typing, NetworkTyping
<1>3. up \in BOOLEAN /\ id \in Keys \cup {None}
  BY <1>1, <1>2 DEF Keys
<1>4. Connected(b) = [addr |-> b.addr, id |-> id, up |-> up]
  <2>1. [b EXCEPT !.up = up] = [addr |-> b.addr, id |-> b.id, up |-> up]
    BY DEF Links
  <2>2. [[addr |-> b.addr, id |-> b.id, up |-> up] EXCEPT !.id = id]
          = [addr |-> b.addr, id |-> id, up |-> up]
    OBVIOUS
  <2>3. Connected(b) = [[b EXCEPT !.up = up] EXCEPT !.id = id]
    <3>1. [b EXCEPT !.up = up].id = b.id
      BY <2>1
    <3> QED
      BY <3>1 DEF Connected
  <2> QED
    BY <2>1, <2>2, <2>3
<1> HIDE DEF up, id
<1>5. Connected(b) \in Links /\ Connected(b).addr = b.addr /\ Connected(b).up = up
      /\ Connected(b).id = id
  BY <1>1, <1>3, <1>4 DEF Links
<1> QED
  BY <1>2, <1>5 DEF up, id

(* The file that is written has every device with its address.             *)
LEMMA SavedIs ==
  ASSUME NEW cs, NEW t,
         \A k \in Keys : t[k] # 0 => cs[t[k]].id = k /\ cs[t[k]].addr \in Addresses
  PROVE  /\ Saved(cs, t) \subseteq Entries
         /\ \A k \in Keys : t[k] # 0 => [id |-> k, addr |-> cs[t[k]].addr] \in Saved(cs, t)
BY DEF Saved, Entries

(* A device of the id k was given the backend b.                           *)
Filed(k, b) ==
  /\ k \in Keys /\ devices'[k] # 0
  /\ confs'[devices'[k]] = [backend |-> Len(backends) + 1, addr |-> b.addr, id |-> k]
  /\ \A l \in Keys \ {k} : /\ devices'[l] = devices[l]
                           /\ Known(l) => confs'[devices[l]] = confs[devices[l]]
  /\ Len(backends') = Len(backends) + 1 /\ DOMAIN backends' = 1..(Len(backends) + 1)
  /\ backends'[Len(backends) + 1] = b
  /\ \A j \in DOMAIN backends : backends'[j] = backends[j]

TablesOK ==
  /\ backends \in Seq(Links)
  /\ confs \in Seq(Records(Len(backends)))
  /\ devices \in [Keys -> 0 .. Len(confs)]
  /\ ObjectsOK

(* The link table grows by b.                                              *)
LEMMA LinksGrow ==
  ASSUME Typing, NEW b \in Links, backends' = Append(backends, b)
  PROVE  /\ backends' \in Seq(Links) /\ Len(backends') = Len(backends) + 1
         /\ DOMAIN backends' = 1..(Len(backends) + 1)
         /\ backends'[Len(backends) + 1] = b
         /\ \A j \in DOMAIN backends : backends'[j] = backends[j]
         /\ confs \in Seq(Records(Len(backends')))
         /\ found \in Seq(Discoveries(Len(backends')))
         /\ DOMAIN backends \subseteq DOMAIN backends'
<1>1. /\ backends' \in Seq(Links) /\ Len(backends') = Len(backends) + 1
      /\ DOMAIN backends' = 1..(Len(backends) + 1)
      /\ backends'[Len(backends) + 1] = b
      /\ \A j \in DOMAIN backends : backends'[j] = backends[j]
      /\ DOMAIN backends = 1..Len(backends) /\ Len(backends) \in Nat
  BY OneMore DEF Typing, ObjectTyping
<1>2. /\ Records(Len(backends)) \subseteq Records(Len(backends'))
      /\ Discoveries(Len(backends)) \subseteq Discoveries(Len(backends'))
  BY <1>1 DEF Records, Discoveries
<1>3. confs \in Seq(Records(Len(backends'))) /\ found \in Seq(Discoveries(Len(backends')))
  BY <1>2, SeqMonotonic DEF Typing, ObjectTyping, QueueTyping
<1> QED
  BY <1>1, <1>3

(* Under a new device.                                                     *)
LEMMA FiledAnew ==
  ASSUME Typing, ObjectsOK, NEW k \in Keys, NEW b \in Links,
         backends' = Append(backends, b),
         confs' = Append(confs, [backend |-> Len(backends) + 1, addr |-> b.addr, id |-> k]),
         devices' = [devices EXCEPT ![k] = Len(confs) + 1]
  PROVE  Filed(k, b) /\ TablesOK' /\ Len(confs') = Len(confs) + 1
<1> DEFINE r == [backend |-> Len(backends) + 1, addr |-> b.addr, id |-> k]
<1>1. /\ backends' \in Seq(Links) /\ Len(backends') = Len(backends) + 1
      /\ DOMAIN backends' = 1..(Len(backends) + 1)
      /\ backends'[Len(backends) + 1] = b
      /\ \A j \in DOMAIN backends : backends'[j] = backends[j]
      /\ confs \in Seq(Records(Len(backends')))
  BY LinksGrow
<1>2. DOMAIN backends = 1..Len(backends) /\ Len(backends) \in Nat
      /\ DOMAIN confs = 1..Len(confs) /\ Len(confs) \in Nat
  BY ObjectsAre
<1>3. r \in Records(Len(backends'))
  BY <1>1, <1>2 DEF Records, Links
<1>4. r.backend = Len(backends) + 1 /\ r.addr = b.addr /\ r.id = k
  OBVIOUS
<1> HIDE DEF r
<1>5. /\ confs' \in Seq(Records(Len(backends'))) /\ Len(confs') = Len(confs) + 1
      /\ DOMAIN confs' = 1..(Len(confs) + 1)
      /\ confs'[Len(confs) + 1] = r
      /\ \A j \in DOMAIN confs : confs'[j] = confs[j]
  <2>1. confs' = Append(confs, r)
    BY DEF r
  <2> HIDE DEF Records
  <2> QED
    BY <1>1, <1>3, <2>1, OneMore
<1>10. \A x \in DOMAIN confs' : x \in DOMAIN confs \/ x = Len(confs) + 1
  <2> HIDE DEF Records
  <2> QED
    BY <1>2, <1>5
<1>6. devices' \in [Keys -> 0..Len(confs')]
      /\ devices'[k] = Len(confs) + 1 /\ devices'[k] # 0
      /\ \A l \in Keys \ {k} : devices'[l] = devices[l]
  <2>1. devices \in [Keys -> 0..Len(confs)] /\ Len(confs) + 1 \in 0..Len(confs')
    BY <1>2, <1>5 DEF Typing, ObjectTyping
  <2>2. 0..Len(confs) \subseteq 0..Len(confs')
    BY <1>2, <1>5
  <2> QED
    BY <1>2, <2>1, <2>2
<1>7. \A l \in Keys : Known(l) => confs'[devices[l]] = confs[devices[l]]
  BY <1>5, ObjectsAre
<1>8. Filed(k, b)
  BY <1>1, <1>5, <1>6, <1>7 DEF Filed, r
<1>9. ObjectsOK'
  <2>1. ASSUME NEW l \in Keys, devices'[l] # 0
        PROVE  confs'[devices'[l]].id = l
    BY <1>4, <1>5, <1>6, <1>7, <2>1 DEF ObjectsOK, Known, ConfOf
  <2>2. ASSUME NEW c \in DOMAIN confs', NEW e \in DOMAIN confs',
               confs'[c].backend = confs'[e].backend
        PROVE  c = e
    <3>1. \A x \in DOMAIN confs : confs[x].backend \in DOMAIN backends
                                   /\ confs'[x].backend = confs[x].backend
      BY <1>5, ObjectsAre
    <3>2. \A x \in DOMAIN confs' : \/ x \in DOMAIN confs
                                   \/ /\ x = Len(confs) + 1
                                      /\ confs'[x].backend = Len(backends) + 1
      BY <1>4, <1>5, <1>10
    <3> QED
      BY <1>2, <2>2, <3>1, <3>2 DEF ObjectsOK
  <2>3. ASSUME NEW c \in DOMAIN confs'
        PROVE  backends'[confs'[c].backend].addr = confs'[c].addr
    <3>1. CASE c \in DOMAIN confs
      BY <1>1, <1>5, <3>1, ObjectsAre DEF ObjectsOK
    <3>2. CASE c = Len(confs) + 1
      BY <1>1, <1>4, <1>5, <3>2
    <3> QED
      BY <1>10, <3>1, <3>2
  <2> QED
    BY <2>1, <2>2, <2>3 DEF ObjectsOK, Known, ConfOf
<1> QED
  BY <1>1, <1>5, <1>6, <1>8, <1>9 DEF TablesOK

(* In place of the one it had.                                             *)
LEMMA FiledInstead ==
  ASSUME Typing, ObjectsOK, NEW k \in Keys, NEW b \in Links, Known(k),
         backends' = Append(backends, b),
         confs' = [confs EXCEPT ![devices[k]].backend = Len(backends) + 1,
                                ![devices[k]].addr = b.addr],
         devices' = devices
  PROVE  Filed(k, b) /\ TablesOK'
<1> DEFINE r == [backend |-> Len(backends) + 1, addr |-> b.addr, id |-> k]
           c0 == devices[k]
<1>1. /\ backends' \in Seq(Links) /\ Len(backends') = Len(backends) + 1
      /\ DOMAIN backends' = 1..(Len(backends) + 1)
      /\ backends'[Len(backends) + 1] = b
      /\ \A j \in DOMAIN backends : backends'[j] = backends[j]
      /\ confs \in Seq(Records(Len(backends')))
  BY LinksGrow
<1>2. DOMAIN backends = 1..Len(backends) /\ Len(backends) \in Nat
      /\ DOMAIN confs = 1..Len(confs) /\ Len(confs) \in Nat
      /\ c0 \in DOMAIN confs /\ confs[c0] \in Records(Len(backends))
      /\ confs[c0].id = k
  BY ObjectsAre DEF ObjectsOK, ConfOf
<1>3. r \in Records(Len(backends'))
  BY <1>1, <1>2 DEF Records, Links
<1>4. r.backend = Len(backends) + 1 /\ r.addr = b.addr /\ r.id = k
  OBVIOUS
<1>5. confs' = [confs EXCEPT ![c0] = r]
  <2>1. [confs[c0] EXCEPT !.backend = Len(backends) + 1] =
          [backend |-> Len(backends) + 1, addr |-> confs[c0].addr, id |-> confs[c0].id]
    BY <1>2 DEF Records
  <2>2. [[backend |-> Len(backends) + 1, addr |-> confs[c0].addr, id |-> confs[c0].id]
           EXCEPT !.addr = b.addr]
          = [backend |-> Len(backends) + 1, addr |-> b.addr, id |-> confs[c0].id]
    OBVIOUS
  <2>3. confs' = [confs EXCEPT ![c0] =
                    [[confs[c0] EXCEPT !.backend = Len(backends) + 1] EXCEPT !.addr = b.addr]]
    BY <1>2
  <2> QED
    BY <1>2, <2>1, <2>2, <2>3
<1> HIDE DEF r, c0
<1>6. /\ confs' \in Seq(Records(Len(backends'))) /\ Len(confs') = Len(confs)
      /\ DOMAIN confs' = DOMAIN confs
      /\ confs'[c0] = r /\ \A j \in DOMAIN confs : j # c0 => confs'[j] = confs[j]
  <2>1. /\ [confs EXCEPT ![c0] = r] \in Seq(Records(Len(backends')))
        /\ Len([confs EXCEPT ![c0] = r]) = Len(confs)
        /\ DOMAIN [confs EXCEPT ![c0] = r] = DOMAIN confs
    <3>1. confs \in Seq(Records(Len(backends'))) /\ c0 \in DOMAIN confs
          /\ r \in Records(Len(backends'))
      BY <1>1, <1>2, <1>3
    <3> QED
      BY ONLY <3>1, OneChanged
  <2> QED
    BY <1>2, <1>5, <2>1
<1>7. \A l \in Keys \ {k} : Known(l) => devices[l] # c0 /\ confs'[devices[l]] = confs[devices[l]]
  BY <1>2, <1>6, ObjectsAre DEF ObjectsOK, ConfOf, c0
<1>8. Filed(k, b)
  BY <1>1, <1>6, <1>7 DEF Filed, Known, r, c0
<1>9. ObjectsOK'
  <2>1. ASSUME NEW l \in Keys, devices'[l] # 0
        PROVE  confs'[devices'[l]].id = l
    <3>1. CASE l = k
      BY <1>4, <1>6, <3>1 DEF c0
    <3>2. CASE l # k
      BY <1>7, <2>1, <3>2 DEF ObjectsOK, Known, ConfOf
    <3> QED
      BY <3>1, <3>2
  <2>2. ASSUME NEW c \in DOMAIN confs', NEW e \in DOMAIN confs',
               confs'[c].backend = confs'[e].backend
        PROVE  c = e
    <3>1. \A x \in DOMAIN confs : confs[x].backend \in DOMAIN backends
      BY ObjectsAre
    <3> QED
      BY <1>2, <1>4, <1>6, <2>2, <3>1 DEF ObjectsOK
  <2>3. ASSUME NEW c \in DOMAIN confs'
        PROVE  backends'[confs'[c].backend].addr = confs'[c].addr
    <3>1. CASE c = c0
      BY <1>1, <1>4, <1>6, <3>1
    <3>2. CASE c # c0
      BY <1>1, <1>6, <3>2, ObjectsAre DEF ObjectsOK
    <3> QED
      BY <3>1, <3>2
  <2> QED
    BY <2>1, <2>2, <2>3 DEF ObjectsOK, Known, ConfOf
<1>10. devices' \in [Keys -> 0..Len(confs')]
  BY <1>6 DEF Typing, ObjectTyping
<1> QED
  BY <1>1, <1>6, <1>8, <1>9, <1>10 DEF TablesOK

(* The backend it had, if it had one, is dropped.                          *)
Drops(k) == dropped' = IF Known(k) THEN dropped \cup {BackendOf(k)} ELSE dropped

(* add_device: of which device, what is saved, and who has got a second.   *)
AddedAs(k, b) ==
  /\ Filed(k, b) /\ Drops(k)
  /\ IF b.id # None THEN k = b.id ELSE k \in Temps /\ ~Known(k)
  /\ rebacked \subseteq rebacked' /\ rebacked' \subseteq rebacked \cup {k}
  /\ Known(k) => k \in rebacked'
  /\ \/ unsaved' = unsaved \cup {k} /\ file' = file
     \/ unsaved' = {} /\ file' = Saved(confs', devices')

(* The backend goes to the device whose id it told, or to a new one.       *)
LEMMA AddDeviceIs ==
  ASSUME Typing, ObjectsOK, NEW b \in Links, b.id \in Ids \cup {None}, AddDevice(b)
  PROVE  /\ TablesOK' /\ rebacked' \subseteq Ids
         /\ \E k \in Keys : AddedAs(k, b)
<1>1. backends' = Append(backends, b)
  BY DEF AddDevice
<1>2. CASE b.id # None /\ devices[b.id] # 0
  <2>1. Replace(b) /\ b.id \in Ids /\ b.id \in Keys /\ Known(b.id)
    BY <1>2 DEF AddDevice, Known, Keys
  <2>2. Filed(b.id, b) /\ TablesOK'
    BY <1>1, <2>1, FiledInstead DEF Replace
  <2>3. /\ rebacked' = rebacked \cup {b.id} /\ unsaved' = unsaved \cup {b.id} /\ file' = file
        /\ Drops(b.id)
    BY <2>1 DEF Replace, Drops, BackendOf
  <2>4. AddedAs(b.id, b)
    BY <1>2, <2>2, <2>3 DEF AddedAs
  <2> QED
    BY <2>1, <2>2, <2>3, <2>4 DEF Typing, LinkTyping
<1>3. CASE ~(b.id # None /\ devices[b.id] # 0)
  <2>1. AddNew(b)
    BY <1>3 DEF AddDevice
  <2>2. PICK k \in (IF b.id # None THEN {b.id} ELSE {t \in Temps : Unused(t)}) :
          /\ confs' = Append(confs, [backend |-> Len(backends) + 1, addr |-> b.addr, id |-> k])
          /\ devices' = [devices EXCEPT ![k] = Len(confs')]
          /\ file' = Saved(confs', devices') /\ unsaved' = {}
          /\ rebacked' = rebacked /\ dropped' = dropped
    BY <2>1 DEF AddNew
  <2>3. /\ k \in Keys /\ ~Known(k)
        /\ IF b.id # None THEN k = b.id ELSE k \in Temps
    BY <1>3, <2>2 DEF Unused, Known, Keys
  <2>4. Len(confs') = Len(confs) + 1
    <3>1. [backend |-> Len(backends) + 1, addr |-> b.addr, id |-> k]
            \in Records(Len(backends) + 1)
      BY <2>3, ObjectsAre DEF Records, Links
    <3>2. confs \in Seq(Records(Len(backends) + 1))
      BY <1>1, LinksGrow
    <3> QED
      BY <2>2, <3>1, <3>2, OneMore
  <2>5. Filed(k, b) /\ TablesOK'
    BY <1>1, <2>2, <2>3, <2>4, FiledAnew
  <2>6. AddedAs(k, b)
    BY <2>2, <2>3, <2>5 DEF AddedAs, Drops
  <2> QED
    BY <2>2, <2>3, <2>5, <2>6 DEF Typing, LinkTyping
<1> QED
  BY <1>2, <1>3

(* What is saved then is well formed.                                      *)
LEMMA SavedKeeps ==
  ASSUME TablesOK'
  PROVE  /\ Saved(confs', devices') \subseteq Entries
         /\ \A k \in Keys : devices'[k] # 0 =>
              [id |-> k, addr |-> confs'[devices'[k]].addr] \in Saved(confs', devices')
<1>1. \A c \in DOMAIN confs' : confs'[c].addr \in Addresses
  <2>1. \A c \in DOMAIN confs' : confs'[c] \in Records(Len(backends'))
    BY LenProperties DEF TablesOK
  <2> QED
    BY <2>1 DEF Records
<1>2. \A k \in Keys : devices'[k] # 0 => devices'[k] \in DOMAIN confs'
  BY LenProperties DEF TablesOK
<1>3. \A k \in Keys : devices'[k] # 0 =>
        confs'[devices'[k]].id = k /\ confs'[devices'[k]].addr \in Addresses
  BY <1>1, <1>2 DEF TablesOK, ObjectsOK, Known, ConfOf
<1> QED
  BY <1>3, SavedIs

-----------------------------------------------------------------------------
(* What the steps do to the tables.                                        *)

(* The links change in place, their addresses stay.                        *)
LinksStay ==
  /\ backends' \in Seq(Links) /\ Len(backends') = Len(backends)
  /\ DOMAIN backends' = DOMAIN backends
  /\ \A j \in DOMAIN backends : backends'[j].addr = backends[j].addr

(* A link is closed.                                                       *)
LEMMA DownIs ==
  ASSUME Typing, NEW b \in DOMAIN backends, backends' = [backends EXCEPT ![b].up = FALSE]
  PROVE  /\ LinksStay /\ ~backends'[b].up
         /\ \A j \in DOMAIN backends : j # b => backends'[j] = backends[j]
<1> DEFINE r == [backends[b] EXCEPT !.up = FALSE]
<1>1. backends[b] \in Links
  BY ObjectsAre
<1>2. r \in Links /\ r.addr = backends[b].addr /\ ~r.up
  BY <1>1 DEF Links
<1>3. backends' = [backends EXCEPT ![b] = r]
  OBVIOUS
<1> HIDE DEF r
<1>4. /\ backends' \in Seq(Links) /\ Len(backends') = Len(backends)
      /\ DOMAIN backends' = DOMAIN backends
  <2>1. backends \in Seq(Links)
    BY DEF Typing, ObjectTyping
  <2>2. /\ [backends EXCEPT ![b] = r] \in Seq(Links)
        /\ Len([backends EXCEPT ![b] = r]) = Len(backends)
        /\ DOMAIN [backends EXCEPT ![b] = r] = DOMAIN backends
    BY ONLY <1>2, <2>1, b \in DOMAIN backends, OneChanged
  <2> QED
    BY <1>3, <2>2
<1> QED
  BY <1>2, <1>3, <1>4 DEF LinksStay

(* A connection is attempted where there is none.                          *)
LEMMA DialsIs ==
  ASSUME Typing, NEW i \in DOMAIN found, found[i].backend \in DOMAIN backends, Dials(i)
  PROVE  /\ LinksStay
         /\ \A j \in DOMAIN backends : j # found[i].backend => backends'[j] = backends[j]
         /\ LET b == found[i].backend
            IN backends'[b].up <=> backends[b].up \/ where[backends[b].addr] # None
<1> DEFINE b == found[i].backend
           r == IF backends[b].up THEN backends[b] ELSE Connected(backends[b])
<1>1. backends[b] \in Links /\ backends[b].up \in BOOLEAN
  BY ObjectsAre
<1>2. /\ Connected(backends[b]) \in Links
      /\ Connected(backends[b]).addr = backends[b].addr
      /\ Connected(backends[b]).up <=> where[backends[b].addr] # None
  BY <1>1, ConnectedIs
<1>3. r \in Links /\ r.addr = backends[b].addr
      /\ (r.up <=> backends[b].up \/ where[backends[b].addr] # None)
  BY <1>1, <1>2
<1>4. backends' = [backends EXCEPT ![b] = r]
  BY DEF Dials
<1> HIDE DEF r
<1>5. /\ backends' \in Seq(Links) /\ Len(backends') = Len(backends)
      /\ DOMAIN backends' = DOMAIN backends
  BY <1>3, <1>4, OneChanged DEF Typing, ObjectTyping
<1> QED
  BY <1>3, <1>4, <1>5 DEF LinksStay

(* stop() closes several.                                                  *)
LEMMA StoppedIs ==
  ASSUME Typing, NEW s \in Stops, Stopped(s)
  PROVE  /\ LinksStay
         /\ \A j \in DOMAIN backends : /\ j \in closing[s] => ~backends'[j].up
                                       /\ backends'[j].up => backends[j].up
<1> DEFINE r(j) == IF j \in closing[s] THEN [backends[j] EXCEPT !.up = FALSE] ELSE backends[j]
<1>1. DOMAIN backends = 1..Len(backends) /\ Len(backends) \in Nat
  BY ObjectsAre
<1>2. ASSUME NEW j \in DOMAIN backends
      PROVE  /\ r(j) \in Links /\ r(j).addr = backends[j].addr
             /\ j \in closing[s] => ~r(j).up
             /\ r(j).up => backends[j].up
  <2>1. backends[j] \in Links
    BY ObjectsAre
  <2> QED
    BY <2>1 DEF Links
<1>3. backends' = [j \in DOMAIN backends |-> r(j)]
  BY DEF Stopped
<1> HIDE DEF r
<1>4. backends' \in [1..Len(backends) -> Links]
  BY <1>1, <1>2, <1>3
<1>5. backends' \in Seq(Links) /\ Len(backends') = Len(backends)
      /\ DOMAIN backends' = DOMAIN backends
  BY <1>1, <1>3, <1>4, SeqDef, LenProperties
<1> QED
  BY <1>2, <1>3, <1>5 DEF LinksStay

(* The tables are as good as before.                                       *)
LEMMA LinksStayKeeps ==
  ASSUME Typing, ObjectsOK, LinksStay, UNCHANGED <<confs, devices>>
  PROVE  TablesOK'
<1>1. backends' \in Seq(Links) /\ confs' \in Seq(Records(Len(backends')))
      /\ devices' \in [Keys -> 0..Len(confs')]
  BY DEF Typing, ObjectTyping, LinksStay
<1>2. ObjectsOK'
  BY ObjectsAre DEF ObjectsOK, LinksStay, Known, ConfOf
<1> QED
  BY <1>1, <1>2 DEF TablesOK

(* A device gets the address it was found at.                              *)
LEMMA ClosedIs ==
  ASSUME Typing, ObjectsOK, NEW i \in DOMAIN found, OnItsOwn(i), Closed(i)
  PROVE  LET d == found[i].id
             b == BackendOf(d)
         IN /\ TablesOK' /\ Len(backends') = Len(backends)
            /\ DOMAIN backends' = DOMAIN backends
            /\ \A k \in Keys : Known(k) => confs'[devices[k]].backend = BackendOf(k)
            /\ \A k \in Keys \ {d} : Known(k) => confs'[devices[k]] = ConfOf(k)
            /\ confs'[devices[d]].addr = found[i].addr
            /\ \A j \in DOMAIN backends : j # found[i].backend => backends'[j].up = backends[j].up
            /\ b \in DOMAIN backends /\ devices' = devices /\ lost' = lost \ {b}
            /\ Stage(i, "dialing", b)
<1> DEFINE d == found[i].id
           c == devices[d]
           b == confs[c].backend
           x == found[i].backend
           a == found[i].addr
           r == [confs[c] EXCEPT !.addr = a]
           q == [backends EXCEPT ![x].up = FALSE]
           l == [q[b] EXCEPT !.addr = a]
<1>1. /\ d \in Ids /\ d \in Keys /\ a \in Addresses /\ Known(d)
      /\ c \in DOMAIN confs /\ b \in DOMAIN backends /\ confs[c] \in Records(Len(backends))
      /\ DOMAIN backends = 1..Len(backends) /\ Len(backends) \in Nat
      /\ x \in DOMAIN backends
  BY QueueIs, ObjectsAre DEF OnItsOwn
<1>2. r \in Records(Len(backends)) /\ r.addr = a /\ r.backend = b /\ r.id = confs[c].id
  BY <1>1 DEF Records
<1>3. confs' = [confs EXCEPT ![c] = r] /\ devices' = devices /\ lost' = lost \ {b}
      /\ Stage(i, "dialing", b) /\ backends' = [backends EXCEPT ![x].up = FALSE, ![b].addr = a]
  BY DEF Closed
<1>4. /\ q \in Seq(Links) /\ Len(q) = Len(backends) /\ DOMAIN q = DOMAIN backends
      /\ \A j \in DOMAIN backends : /\ q[j] \in Links /\ q[j].addr = backends[j].addr
                                    /\ j # x => q[j] = backends[j]
  <2> DEFINE m == [backends[x] EXCEPT !.up = FALSE]
  <2>1. \A j \in DOMAIN backends : backends[j] \in Links
    BY ObjectsAre
  <2>2. m \in Links /\ m.addr = backends[x].addr
    BY <1>1, <2>1 DEF Links
  <2>3. q = [backends EXCEPT ![x] = m]
    OBVIOUS
  <2> HIDE DEF m, q
  <2>4. /\ q \in Seq(Links) /\ Len(q) = Len(backends) /\ DOMAIN q = DOMAIN backends
    BY <1>1, <2>2, <2>3, OneChanged DEF Typing, ObjectTyping
  <2> QED
    BY <1>1, <2>1, <2>2, <2>3, <2>4
<1>5. backends' = [q EXCEPT ![b] = l]
  BY <1>1, <1>3
<1> HIDE DEF q
<1>6. l \in Links /\ l.addr = a /\ l.up = q[b].up
  <2>1. q[b] \in Links
    BY <1>1, <1>4
  <2> QED
    BY <1>1, <2>1 DEF Links
<1> HIDE DEF r, l
<1>7. /\ confs' \in Seq(Records(Len(backends))) /\ Len(confs') = Len(confs)
      /\ DOMAIN confs' = DOMAIN confs
      /\ confs'[c] = r /\ \A e \in DOMAIN confs : e # c => confs'[e] = confs[e]
  <2>1. /\ [confs EXCEPT ![c] = r] \in Seq(Records(Len(backends)))
        /\ Len([confs EXCEPT ![c] = r]) = Len(confs)
        /\ DOMAIN [confs EXCEPT ![c] = r] = DOMAIN confs
    <3>1. confs \in Seq(Records(Len(backends)))
      BY DEF Typing, ObjectTyping
    <3> QED
      BY <1>1, <1>2, <3>1, OneChanged
  <2> QED
    BY <1>1, <1>3, <2>1
<1>8. /\ backends' \in Seq(Links) /\ Len(backends') = Len(backends)
      /\ DOMAIN backends' = DOMAIN backends
      /\ backends'[b] = l /\ \A j \in DOMAIN backends : j # b => backends'[j] = q[j]
  <2>1. /\ [q EXCEPT ![b] = l] \in Seq(Links) /\ Len([q EXCEPT ![b] = l]) = Len(q)
        /\ DOMAIN [q EXCEPT ![b] = l] = DOMAIN q
    BY <1>1, <1>4, <1>6, OneChanged
  <2> QED
    BY <1>1, <1>4, <1>5, <2>1
<1>9. \A j \in DOMAIN backends :
        /\ backends'[j].addr = IF j = b THEN a ELSE backends[j].addr
        /\ j # x => backends'[j].up = backends[j].up
  BY <1>4, <1>6, <1>8
<1>10. \A e \in DOMAIN confs : /\ confs'[e].backend = confs[e].backend
                               /\ confs'[e].id = confs[e].id
                               /\ confs'[e].addr = IF e = c THEN a ELSE confs[e].addr
  BY <1>2, <1>7
<1>11. \A k \in Keys : Known(k) => devices[k] \in DOMAIN confs /\ (k # d => devices[k] # c)
  BY <1>1, ObjectsAre DEF ObjectsOK, ConfOf
<1>12. ObjectsOK'
  <2>1. ASSUME NEW k \in Keys, devices'[k] # 0
        PROVE  confs'[devices'[k]].id = k
    BY <1>3, <1>10, <1>11, <2>1 DEF ObjectsOK, Known, ConfOf
  <2>2. ASSUME NEW e \in DOMAIN confs', NEW f \in DOMAIN confs',
               confs'[e].backend = confs'[f].backend
        PROVE  e = f
    BY <1>7, <1>10, <2>2 DEF ObjectsOK
  <2>3. ASSUME NEW e \in DOMAIN confs'
        PROVE  backends'[confs'[e].backend].addr = confs'[e].addr
    <3>1. e \in DOMAIN confs /\ confs[e].backend \in DOMAIN backends
          /\ (confs[e].backend = b => e = c)
      BY <1>1, <1>7, ObjectsAre DEF ObjectsOK
    <3> QED
      BY <1>9, <1>10, <3>1 DEF ObjectsOK
  <2> QED
    BY <2>1, <2>2, <2>3 DEF ObjectsOK, Known, ConfOf
<1>13. TablesOK'
  BY <1>3, <1>7, <1>8, <1>12 DEF TablesOK, Typing, ObjectTyping
<1>14. /\ \A k \in Keys : Known(k) => confs'[devices[k]].backend = BackendOf(k)
       /\ \A k \in Keys \ {d} : Known(k) => confs'[devices[k]] = ConfOf(k)
       /\ confs'[devices[d]].addr = found[i].addr
  BY <1>1, <1>2, <1>7, <1>10, <1>11 DEF BackendOf, ConfOf
<1> QED
  BY <1>1, <1>3, <1>8, <1>9, <1>13, <1>14 DEF BackendOf

-----------------------------------------------------------------------------
(* What the steps do to the queue.                                         *)

(* A discovery comes to another stage in its turn.                         *)
LEMMA StageTurns ==
  ASSUME Typing, TurnsOK, NEW i \in DOMAIN found, NEW s \in Stages,
         NEW b \in 0..Len(backends), Stage(i, s, b), s # "new",
         s \in Holding => i = 1,
         s \notin Early => \A j \in 1 .. i - 1 : found[j].stage \notin Early,
         s = "waits" => /\ found[i].stage = "new"
                        /\ \A j \in 1 .. i - 1 : found[j].stage # "new"
  PROVE  TurnsOK'
<1>1. /\ DOMAIN found' = DOMAIN found /\ found'[i].stage = s
      /\ \A j \in DOMAIN found : j # i => found'[j] = found[j]
      /\ DOMAIN found = 1..Len(found) /\ Len(found) \in Nat
  BY StageIs, QueueIs
<1>2. s \in Early => s = "waits"
  BY DEF Early
<1>3. ASSUME NEW j \in DOMAIN found, NEW k \in DOMAIN found, j < k
      PROVE  /\ found'[j].stage = "new" => found'[k].stage = "new"
             /\ found'[j].stage \in Early => found'[k].stage \in Early
  <2>1. CASE j # i /\ k # i
    BY <1>1, <1>3, <2>1 DEF TurnsOK
  <2>2. CASE j = i
    BY <1>1, <1>2, <1>3, <2>2 DEF TurnsOK, Early
  <2>3. CASE k = i
    <3>1. j \in 1 .. i - 1 /\ found'[j] = found[j]
      BY <1>1, <1>3, <2>3
    <3>2. CASE s \notin Early
      BY <1>1, <2>3, <3>1, <3>2 DEF Early
    <3>3. CASE s = "waits"
      BY <1>1, <2>3, <3>1, <3>3 DEF Early
    <3> QED
      BY <1>2, <3>2, <3>3
  <2> QED
    BY <2>1, <2>2, <2>3
<1>4. \A j \in DOMAIN found : found'[j].stage \in Holding => j = 1
  BY <1>1 DEF TurnsOK
<1> QED
  BY <1>1, <1>3, <1>4 DEF TurnsOK

(* One that is over leaves the others in their order.                      *)
LEMMA DoneTurns ==
  ASSUME Typing, TurnsOK, NEW i \in DOMAIN found, Done(i)
  PROVE  TurnsOK'
<1>1. /\ DOMAIN found' = 1..(Len(found) - 1)
      /\ \A k \in DOMAIN found' : /\ From(i, k) \in DOMAIN found /\ From(i, k) # i
                                  /\ found'[k] = found[From(i, k)]
      /\ \A j, k \in DOMAIN found' : j < k => From(i, j) < From(i, k)
      /\ DOMAIN found = 1..Len(found) /\ Len(found) \in Nat
  BY DoneIs, QueueIs
<1>2. \A k \in DOMAIN found' : From(i, k) = 1 => k = 1
  BY <1>1 DEF From
<1> QED
  BY <1>1, <1>2 DEF TurnsOK

(* Discoveries that go on, go on working on a backend of their device.     *)
GoesOn(j) ==
  \/ \E i \in DOMAIN found : /\ found[i].stage \in Moving /\ found'[j].id = found[i].id
                             /\ found'[j].backend = found[i].backend
  \/ found'[j].id \in Ids /\ Known(found'[j].id) /\ found'[j].backend = BackendOf(found'[j].id)

(* That stays so when no device is filed and none loses its backend.       *)
LEMMA OwnKept ==
  ASSUME Typing, ObjectsOK, QueueOK, devices' = devices,
         \A k \in Keys : Known(k) => confs'[devices[k]].backend = BackendOf(k),
         rebacked \subseteq rebacked', intruded => intruded',
         \A j \in DOMAIN found' : found'[j].stage \in Moving => GoesOn(j)
  PROVE  \A j \in DOMAIN found' : found'[j].stage \in Moving => OnItsOwn(j)'
<1> SUFFICES ASSUME NEW j \in DOMAIN found', found'[j].stage \in Moving
             PROVE  OnItsOwn(j)'
  OBVIOUS
<1>1. CASE \E i \in DOMAIN found : /\ found[i].stage \in Moving /\ found'[j].id = found[i].id
                                   /\ found'[j].backend = found[i].backend
  <2>1. PICK i \in DOMAIN found : /\ found[i].stage \in Moving /\ found'[j].id = found[i].id
                                  /\ found'[j].backend = found[i].backend
    BY <1>1
  <2>2. OnItsOwn(i) /\ found[i].id \in Keys
    BY <2>1, QueueIs, ObjectsAre DEF QueueOK
  <2> QED
    BY <2>1, <2>2 DEF OnItsOwn, Known, BackendOf
<1>2. CASE found'[j].id \in Ids /\ Known(found'[j].id)
           /\ found'[j].backend = BackendOf(found'[j].id)
  <2>1. found'[j].id \in Keys /\ BackendOf(found'[j].id) \in DOMAIN backends
        /\ BackendOf(found'[j].id) # 0
    BY <1>2, ObjectsAre
  <2>2. \A k \in Keys : Known(k) /\ BackendOf(k) = BackendOf(found'[j].id) => k = found'[j].id
    BY <1>2, <2>1, ObjectsAre DEF ObjectsOK, BackendOf, ConfOf
  <2> QED
    BY <1>2, <2>1, <2>2 DEF OnItsOwn, Known, BackendOf
<1> QED
  BY <1>1, <1>2 DEF GoesOn

(* A device that is filed meanwhile has a backend of its own.              *)
LEMMA OwnFiled ==
  ASSUME Typing, QueueOK, NEW k, NEW b, Filed(k, b),
         rebacked \subseteq rebacked', intruded => intruded',
         Known(k) /\ ~intruded =>
           k \in rebacked' \/ \A i \in DOMAIN found : found[i].stage \notin Moving,
         \A j \in DOMAIN found' : found'[j].stage \in Moving => \E i \in DOMAIN found :
           /\ found[i].stage \in Moving /\ found'[j].id = found[i].id
           /\ found'[j].backend = found[i].backend
  PROVE  \A j \in DOMAIN found' : found'[j].stage \in Moving => OnItsOwn(j)'
<1> SUFFICES ASSUME NEW j \in DOMAIN found', found'[j].stage \in Moving
             PROVE  OnItsOwn(j)'
  OBVIOUS
<1>1. PICK i \in DOMAIN found : /\ found[i].stage \in Moving /\ found'[j].id = found[i].id
                                /\ found'[j].backend = found[i].backend
  OBVIOUS
<1>2. OnItsOwn(i) /\ found[i].id \in Keys /\ found[i].backend \in 0..Len(backends)
      /\ Len(backends) \in Nat
  BY <1>1, QueueIs, ObjectsAre DEF QueueOK
<1>3. /\ devices'[k] # 0 /\ confs'[devices'[k]].backend = Len(backends) + 1
      /\ \A l \in Keys \ {k} : /\ devices'[l] = devices[l]
                               /\ Known(l) => confs'[devices[l]] = confs[devices[l]]
  BY DEF Filed
<1>4. devices'[found[i].id] # 0
  BY <1>2, <1>3 DEF OnItsOwn, Known
<1>5. ASSUME NEW l \in Keys \ {found[i].id}, devices'[l] # 0
      PROVE  confs'[devices'[l]].backend # found[i].backend
  <2>1. CASE l = k
    BY <1>2, <1>3, <2>1
  <2>2. CASE l # k
    BY <1>2, <1>3, <1>5, <2>2 DEF OnItsOwn, Known, BackendOf
  <2> QED
    BY <2>1, <2>2
<1>6. ASSUME found[i].id \notin rebacked', ~intruded'
      PROVE  confs'[devices'[found[i].id]].backend = found[i].backend
  <2>1. found[i].id # k
    BY <1>1, <1>2, <1>6 DEF OnItsOwn
  <2> QED
    BY <1>2, <1>3, <1>6, <2>1 DEF OnItsOwn, Known, BackendOf
<1> QED
  BY <1>1, <1>2, <1>4, <1>5, <1>6 DEF OnItsOwn, Known, BackendOf

-----------------------------------------------------------------------------
(* The discoveries, as the program deals with them.                        *)

(* The first whose turn it is to be looked at is the first of all.         *)
LEMMA FirstIs ==
  ASSUME Typing, TurnsOK, NEW i \in DOMAIN found, FirstAt(i, "passed"),
         \A j \in DOMAIN found : found[j].stage \notin Holding
  PROVE  i = 1
<1>1. /\ DOMAIN found = 1..Len(found) /\ Len(found) \in Nat /\ found[i].stage = "passed"
      /\ \A j \in 1 .. i - 1 : found[j].stage # "passed"
      /\ \A j \in DOMAIN found : found[j].stage \in Stages
  BY QueueIs DEF FirstAt
<1>2. ASSUME i # 1 PROVE FALSE
  <2>1. 1 \in DOMAIN found /\ 1 < i /\ 1 \in 1 .. i - 1
    BY <1>1, <1>2
  <2>2. found[1].stage \in Early
    BY <1>1, <2>1, StagesAre
  <2> QED
    BY <1>1, <2>1, <2>2, StagesAre DEF TurnsOK
<1> QED
  BY <1>2

(* What may come of looking at one.                                        *)
LEMMA LookIs ==
  ASSUME Typing, TurnsOK, NEW i \in DOMAIN found, Look(i)
  PROVE  LET d == found[i].id
         IN /\ i = 1 /\ found[i].stage = "passed"
            /\ \/ ~Known(d) /\ Stage(i, "creating", 0)
               \/ /\ Known(d) /\ ConfOf(d).addr # found[i].addr
                  /\ Stage(i, "closing", BackendOf(d))
               \/ /\ Known(d) /\ ConfOf(d).addr = found[i].addr
                  /\ ~backends[BackendOf(d)].up
                  /\ Stage(i, "leaving", BackendOf(d))
               \/ /\ Known(d) /\ ConfOf(d).addr = found[i].addr
                  /\ backends[BackendOf(d)].up
                  /\ Done(i)
BY FirstIs DEF Look, FirstAt, Known, ConfOf, BackendOf

(* The steps of one after that.                                            *)
LEMMA MovingIs ==
  ASSUME Typing, QueueOK, NEW i \in DOMAIN found, found[i].stage \in Moving
  PROVE  LET d == found[i].id
         IN /\ i = 1 /\ OnItsOwn(i) /\ d \in Ids /\ d \in Keys /\ Known(d)
            /\ found[i].backend \in DOMAIN backends
            /\ BackendOf(d) \in DOMAIN backends /\ BackendOf(d) \in 0..Len(backends)
<1>1. i = 1 /\ OnItsOwn(i) /\ found[i].id \in Ids
      /\ found[i].backend \in 0..Len(backends) /\ found[i].backend # 0
  BY QueueIs, StagesAre DEF QueueOK, TurnsOK, OnItsOwn
<1> QED
  BY <1>1, ObjectsAre DEF OnItsOwn

(* The backend the device had is down, the one it has now comes next.      *)
LEMMA LeftIs ==
  ASSUME Typing, QueueOK, NEW i \in DOMAIN found, Left(i)
  PROVE  LET b == BackendOf(found[i].id)
         IN /\ found[i].stage \in Moving /\ LinksStay
            /\ \A j \in DOMAIN backends : j # found[i].backend => backends'[j] = backends[j]
            /\ lost' = lost \ {b} /\ Stage(i, "returning", b)
<1>1. found[i].stage \in Moving
  BY DEF Left, Moving
<1>2. found[i].backend \in DOMAIN backends
  BY <1>1, MovingIs
<1> QED
  BY <1>1, <1>2, DownIs DEF Left, BackendOf

(* Nothing but the link changes when it is dialled.                        *)
LEMMA DialedIs ==
  ASSUME Typing, QueueOK, NEW i \in DOMAIN found, Dialed(i) \/ Returned(i)
  PROVE  LET b == found[i].backend
         IN /\ found[i].stage \in Moving /\ LinksStay /\ Done(i) /\ b \in DOMAIN backends
            /\ \A j \in DOMAIN backends : j # b => backends'[j] = backends[j]
            /\ backends'[b].up <=> backends[b].up \/ where[backends[b].addr] # None
            /\ UNCHANGED <<where, unreported, confs, devices, manager, entries, starter,
                           loading, listening, builder, stopper, closing, moves, calls,
                           rebacked, dropped, lost, intruded>>
<1>1. found[i].stage \in Moving /\ Dials(i) /\ Done(i)
  BY DEF Dialed, Returned, Moving
<1>2. found[i].backend \in DOMAIN backends
  BY <1>1, MovingIs
<1>3. UNCHANGED <<where, unreported, confs, devices, manager, entries, starter, loading,
                  listening, builder, stopper, closing, moves, calls, rebacked, dropped,
                  lost, intruded>>
  BY DEF Dialed, Returned, network, start, stop
<1> QED
  BY <1>1, <1>2, <1>3, DialsIs

(* A new backend, as build_backend and add_discovered_device make one.     *)
NewLink(a) == Connected([addr |-> a, id |-> None, up |-> FALSE])

(* It has the id of whoever is there.                                      *)
LEMMA NewLinkIs ==
  ASSUME Typing, NEW a \in Addresses
  PROVE  /\ NewLink(a) \in Links /\ NewLink(a).addr = a
         /\ NewLink(a).id = where[a] /\ where[a] \in Ids \cup {None}
         /\ NewLink(a).up <=> where[a] # None
<1> DEFINE r == [addr |-> a, id |-> None, up |-> FALSE]
<1>1. r \in Links /\ r.addr = a /\ r.id = None
  BY DEF Links
<1> QED
  BY <1>1, ConnectedIs DEF NewLink

(* build_backend files what it has built.                                  *)
LEMMA BuiltIs ==
  ASSUME Typing, ObjectsOK, Built
  PROVE  /\ builder \in Addresses /\ TablesOK' /\ rebacked' \subseteq Ids
         /\ \E k \in Keys : AddedAs(k, NewLink(builder))
<1>1. builder \in Addresses /\ AddDevice(NewLink(builder))
  BY DEF Built, Typing, RunTyping, NewLink
<1> QED
  BY <1>1, NewLinkIs, AddDeviceIs

(* add_discovered_device files it if it is the device it was told of.      *)
LEMMA CreatedIs ==
  ASSUME Typing, ObjectsOK, NEW i \in DOMAIN found, Created(i)
  PROVE  LET a == found[i].addr
         IN /\ found[i].stage = "creating" /\ Done(i) /\ a \in Addresses
            /\ \/ /\ where[a] = found[i].id /\ TablesOK' /\ rebacked' \subseteq Ids
                  /\ \E k \in Keys : AddedAs(k, NewLink(a))
               \/ /\ where[a] # found[i].id
                  /\ UNCHANGED <<backends, confs, devices, file, rebacked, dropped, unsaved>>
<1>1. found[i].addr \in Addresses
  BY QueueIs
<1>2. CASE where[found[i].addr] = found[i].id
  <2>1. AddDevice(NewLink(found[i].addr))
    BY <1>1, <1>2, NewLinkIs DEF Created, NewLink
  <2> QED
    BY <1>1, <1>2, <2>1, NewLinkIs, AddDeviceIs DEF Created
<1>3. CASE where[found[i].addr] # found[i].id
  BY <1>1, <1>3, NewLinkIs DEF Created, NewLink, objects
<1> QED
  BY <1>2, <1>3

(* A stored device, under the id it told or the one it was stored under.   *)
LEMMA LoadIs ==
  ASSUME Typing, ObjectsOK, NEW e \in loading, Load(e)
  PROVE  \E k \in Keys, b \in Links :
           /\ Filed(k, b) /\ Drops(k) /\ TablesOK' /\ b.addr = e.addr /\ e.addr \in Addresses
           /\ unsaved' = unsaved \/ unsaved' = unsaved \cup {k}
           /\ k \notin unsaved' => [id |-> k, addr |-> e.addr] \in file
           /\ starter' = (IF Known(k) THEN "failed" ELSE starter)
<1> DEFINE r == [addr |-> e.addr, id |-> e.id, up |-> FALSE]
           b == Connected(r)
<1>1. e \in Entries /\ e.addr \in Addresses /\ e.id \in Keys
  BY DEF Typing, RunTyping, Entries
<1>2. r \in Links /\ r.addr = e.addr /\ r.id = e.id
  BY <1>1 DEF Links
<1>3. b \in Links /\ b.addr = e.addr /\ b.id \in Keys
  <2> HIDE DEF r
  <2> QED
    BY <1>1, <1>2, ConnectedIs DEF Keys
<1>4. /\ backends' = Append(backends, b)
      /\ confs' = Append(confs, [backend |-> Len(backends) + 1, addr |-> e.addr, id |-> b.id])
      /\ devices' = [devices EXCEPT ![b.id] = Len(confs) + 1]
      /\ unsaved' = IF [id |-> b.id, addr |-> e.addr] \in file THEN unsaved
                    ELSE unsaved \cup {b.id}
      /\ starter' = IF devices[b.id] = 0 THEN starter ELSE "failed"
      /\ dropped' = IF devices[b.id] = 0 THEN dropped
                    ELSE dropped \cup {confs[devices[b.id]].backend}
  BY DEF Load
<1> HIDE DEF b
<1>5. Filed(b.id, b) /\ TablesOK'
  BY <1>3, <1>4, FiledAnew
<1> QED
  BY <1>1, <1>3, <1>4, <1>5 DEF Known, Drops, BackendOf

-----------------------------------------------------------------------------
(* Types, and what the tables are like.                                    *)

(* A queue may stay as it is when links are added.                         *)
LEMMA QueueGrows ==
  ASSUME Typing, NEW q \in Seq(Discoveries(Len(backends))),
         Len(backends') = Len(backends) + 1
  PROVE  q \in Seq(Discoveries(Len(backends')))
<1>1. Discoveries(Len(backends)) \subseteq Discoveries(Len(backends'))
  BY ObjectsAre DEF Discoveries
<1> QED
  BY <1>1, SeqMonotonic

(* The tables do not change.                                               *)
LEMMA TablesStay ==
  ASSUME Typing, ObjectsOK, UNCHANGED <<backends, confs, devices>>
  PROVE  TablesOK' /\ LinksStay
<1>1. LinksStay
  BY DEF Typing, ObjectTyping, LinksStay
<1> QED
  BY <1>1, LinksStayKeeps

(* Types are kept by steps of the network and of start() and stop().       *)
LEMMA RunTypes ==
  ASSUME Typing, UNCHANGED <<backends, confs, devices, file, found>>,
         \/ \E a \in Addresses : Depart(a) \/ Build(a) \/ \E d \in Ids : Appear(d, a)
         \/ Start \/ Listen \/ Started \/ \E s \in Stops : Stop(s) \/ Unlisten(s)
  PROVE  NetworkTyping' /\ RunTyping' /\ LinkTyping'
<1>1. /\ MaxMoves \in Nat /\ MaxCalls \in Nat
      /\ NetworkTyping /\ RunTyping /\ LinkTyping
  BY DEF Typing
<1>2. ASSUME NEW a \in Addresses, NEW d \in Ids, Appear(d, a)
      PROVE  NetworkTyping' /\ RunTyping' /\ LinkTyping'
  BY <1>1, <1>2 DEF Appear, Moved, start, stop, NetworkTyping, RunTyping, LinkTyping
<1>3. ASSUME NEW a \in Addresses, Depart(a)
      PROVE  NetworkTyping' /\ RunTyping' /\ LinkTyping'
  BY <1>1, <1>3 DEF Depart, Moved, start, stop, NetworkTyping, RunTyping, LinkTyping
<1>4. ASSUME NEW a \in Addresses, Build(a)
      PROVE  NetworkTyping' /\ RunTyping' /\ LinkTyping'
  BY <1>1, <1>4 DEF Build, Call, network, start, stop, NetworkTyping, RunTyping, LinkTyping
<1>5. ASSUME Start
      PROVE  NetworkTyping' /\ RunTyping' /\ LinkTyping'
  BY <1>1, <1>5 DEF Start, Call, network, stop, NetworkTyping, RunTyping, LinkTyping
<1>6. ASSUME Listen
      PROVE  NetworkTyping' /\ RunTyping' /\ LinkTyping'
  <2>1. {d \in Ids : Present(d)} \subseteq Ids
    OBVIOUS
  <2> QED
    BY <1>1, <1>6, <2>1 DEF Listen, network, stop, NetworkTyping, RunTyping, LinkTyping
<1>7. ASSUME Started
      PROVE  NetworkTyping' /\ RunTyping' /\ LinkTyping'
  BY <1>1, <1>7 DEF Started, network, stop, NetworkTyping, RunTyping, LinkTyping
<1>8. ASSUME NEW s \in Stops, Stop(s)
      PROVE  NetworkTyping' /\ RunTyping' /\ LinkTyping'
  BY <1>1, <1>8 DEF Stop, Call, network, start, NetworkTyping, RunTyping, LinkTyping
<1>9. ASSUME NEW s \in Stops, Unlisten(s)
      PROVE  NetworkTyping' /\ RunTyping' /\ LinkTyping'
  <2>1. closing' = [closing EXCEPT ![s] = {BackendOf(k) : k \in {x \in Keys : Known(x)}}]
    BY <1>9 DEF Unlisten, Known, BackendOf
  <2>2. {BackendOf(k) : k \in {x \in Keys : Known(x)}} \subseteq DOMAIN backends
    BY ObjectsAre
  <2>3. closing' \in [Stops -> SUBSET DOMAIN backends]
    BY <1>1, <2>1, <2>2 DEF LinkTyping
  <2> QED
    BY <1>1, <1>9, <2>3 DEF Unlisten, network, start, NetworkTyping, RunTyping, LinkTyping
<1> QED
  BY <1>2, <1>3, <1>4, <1>5, <1>6, <1>7, <1>8, <1>9

(* A backend that is dropped is one of those there are.                    *)
LEMMA DropsTyped ==
  ASSUME Typing, NEW k \in Keys, Drops(k), DOMAIN backends \subseteq DOMAIN backends'
  PROVE  dropped' \subseteq DOMAIN backends'
BY ObjectsAre DEF Drops, Typing, LinkTyping

(* What is left alone by those who deal with links, devices and            *)
(* discoveries.                                                            *)
LEMMA OthersTyped ==
  ASSUME Typing,
         UNCHANGED <<where, moves, manager, entries, listening, stopper>>,
         unreported' \subseteq unreported, calls' \in 0 .. MaxCalls,
         loading' \subseteq loading, starter' \in {starter, "failed"},
         builder' \in {builder, None}, intruded' = intruded
  PROVE  NetworkTyping' /\ RunTyping'
BY DEF Typing, NetworkTyping, RunTyping

(* Types are kept by every step.                                           *)
LEMMA TypingStep ==
  ASSUME Core, Next
  PROVE  Typing' /\ ObjectsOK'
<1>1. Typing /\ ObjectsOK /\ QueueOK /\ TurnsOK /\ LinkTyping
      /\ file \subseteq Entries /\ found \in Seq(Discoveries(Len(backends)))
      /\ calls \in 0 .. MaxCalls /\ MaxCalls \in Nat
  BY DEF Core, QueueOK, Typing, ObjectTyping, QueueTyping, NetworkTyping
<1>2. ASSUME TablesOK', file' \subseteq Entries,
             found' \in Seq(Discoveries(Len(backends'))),
             NetworkTyping', RunTyping', LinkTyping'
      PROVE  Typing' /\ ObjectsOK'
  BY <1>2 DEF TablesOK, Typing, ObjectTyping, QueueTyping
<1>3. ASSUME UNCHANGED <<backends, confs, devices, file, found>>,
             \/ \E a \in Addresses : Depart(a) \/ Build(a) \/ \E d \in Ids : Appear(d, a)
             \/ Start \/ Listen \/ Started \/ \E s \in Stops : Stop(s) \/ Unlisten(s)
      PROVE  Typing' /\ ObjectsOK'
  BY <1>1, <1>2, <1>3, TablesStay, RunTypes
<1>4. ASSUME UNCHANGED <<backends, confs, devices, file, where, moves, calls, manager,
                         entries, starter, loading, listening, builder, stopper, closing,
                         rebacked, dropped, unsaved, lost, intruded>>,
             unreported' \subseteq unreported,
             found' \in Seq(Discoveries(Len(backends)))
      PROVE  Typing' /\ ObjectsOK'
  <2>1. NetworkTyping' /\ RunTyping'
    BY <1>1, <1>4, OthersTyped
  <2>2. LinkTyping'
    BY <1>1, <1>4 DEF LinkTyping
  <2> QED
    BY <1>1, <1>2, <1>4, <2>1, <2>2, TablesStay
<1>5. ASSUME NEW d \in Ids, NEW a \in Addresses, Report(d, a)
      PROVE  Typing' /\ ObjectsOK'
  <2>1. [id |-> d, addr |-> a, stage |-> "new", backend |-> 0]
          \in Discoveries(Len(backends))
    BY <1>1, ObjectsAre DEF Discoveries, Stages
  <2>2. found' \in Seq(Discoveries(Len(backends)))
    BY <1>1, <1>5, <2>1, OneMore DEF Report
  <2> QED
    BY <1>4, <1>5, <2>2 DEF Report, network, objects, start, stop
<1>6. ASSUME NEW i \in DOMAIN found, Arrive(i) \/ Wake(i)
      PROVE  Typing' /\ ObjectsOK'
  <2>1. Done(i) \/ \E s \in Stages : Stage(i, s, 0)
    BY <1>1, <1>6 DEF Arrive, Wake, Stages, Typing, RunTyping
  <2>2. found' \in Seq(Discoveries(Len(backends)))
    BY <1>1, <2>1, DoneIs, StageIs, ObjectsAre
  <2> QED
    BY <1>4, <1>6, <2>2 DEF Arrive, Wake, network, objects, start, stop
<1>7. ASSUME NEW i \in DOMAIN found, Look(i)
      PROVE  Typing' /\ ObjectsOK'
  <2>1. Done(i) \/ \E s \in Stages, b \in 0..Len(backends) : Stage(i, s, b)
    <3>1. found[i].id \in Keys /\ 0 \in 0..Len(backends)
          /\ (Known(found[i].id) => BackendOf(found[i].id) \in 0..Len(backends))
      BY <1>1, QueueIs, ObjectsAre
    <3> QED
      BY <1>1, <1>7, <3>1, LookIs DEF Stages
  <2>2. found' \in Seq(Discoveries(Len(backends)))
    BY <1>1, <2>1, DoneIs, StageIs
  <2> QED
    BY <1>4, <1>7, <2>2 DEF Look, network, objects, start, stop
<1>8. ASSUME NEW b \in DOMAIN backends, LinkLost(b)
      PROVE  Typing' /\ ObjectsOK'
  <2>1. LinksStay /\ UNCHANGED <<confs, devices>>
    BY <1>1, <1>8, DownIs DEF LinkLost
  <2>2. TablesOK'
    BY <1>1, <2>1, LinksStayKeeps
  <2>3. NetworkTyping' /\ RunTyping'
    BY <1>1, <1>8, OthersTyped DEF LinkLost, network, start, stop
  <2>4. LinkTyping'
    BY <1>1, <1>8, <2>1 DEF LinkLost, LinksStay, LinkTyping, stop
  <2> QED
    BY <1>1, <1>2, <1>8, <2>1, <2>2, <2>3, <2>4 DEF LinkLost, LinksStay
<1>9. ASSUME NEW k \in Keys, Renamed(k)
      PROVE  Typing' /\ ObjectsOK'
  <2>1. UNCHANGED <<backends, confs, devices, found>>
    BY <1>9 DEF Renamed
  <2>2. TablesOK'
    BY <1>1, <2>1, TablesStay
  <2>3. file' \subseteq Entries
    BY <1>9, <2>1, <2>2, SavedKeeps DEF Renamed
  <2>4. calls' \in 0 .. MaxCalls
    BY <1>1, <1>9 DEF Renamed, Call
  <2>5. NetworkTyping' /\ RunTyping'
    BY <1>1, <1>9, <2>4, OthersTyped DEF Renamed, network, start, stop
  <2>6. LinkTyping'
    BY <1>1, <1>9 DEF Renamed, LinkTyping, stop
  <2> QED
    BY <1>1, <1>2, <2>1, <2>2, <2>3, <2>5, <2>6
<1>10. ASSUME NEW i \in DOMAIN found, Closed(i)
       PROVE  Typing' /\ ObjectsOK'
  <2>1. found[i].stage \in Moving
    BY <1>10 DEF Closed, Moving
  <2>2. OnItsOwn(i) /\ BackendOf(found[i].id) \in 0..Len(backends)
    BY <1>1, <2>1, MovingIs
  <2>3. TablesOK' /\ Len(backends') = Len(backends) /\ DOMAIN backends' = DOMAIN backends
        /\ lost' \subseteq lost /\ Stage(i, "dialing", BackendOf(found[i].id))
    BY <1>1, <1>10, <2>2, ClosedIs
  <2>4. found' \in Seq(Discoveries(Len(backends')))
    <3>1. "dialing" \in Stages
      BY DEF Stages
    <3> QED
      BY <1>1, <2>2, <2>3, <3>1, StageIs
  <2>5. NetworkTyping' /\ RunTyping'
    BY <1>1, <1>10, OthersTyped DEF Closed, network, start, stop
  <2>6. LinkTyping'
    BY <1>1, <1>10, <2>3 DEF Closed, LinkTyping, stop
  <2> QED
    BY <1>1, <1>2, <1>10, <2>3, <2>4, <2>5, <2>6 DEF Closed
<1>11. ASSUME NEW i \in DOMAIN found, Left(i)
       PROVE  Typing' /\ ObjectsOK'
  <2>1. found[i].stage \in Moving /\ LinksStay /\ lost' \subseteq lost
        /\ Stage(i, "returning", BackendOf(found[i].id)) /\ UNCHANGED <<confs, devices>>
    BY <1>1, <1>11, LeftIs DEF Left
  <2>2. TablesOK'
    BY <1>1, <2>1, LinksStayKeeps
  <2>3. found' \in Seq(Discoveries(Len(backends')))
    <3>1. "returning" \in Stages
      BY DEF Stages
    <3>2. BackendOf(found[i].id) \in 0..Len(backends)
      BY <1>1, <2>1, MovingIs
    <3> QED
      BY <1>1, <2>1, <3>1, <3>2, StageIs DEF LinksStay
  <2>4. NetworkTyping' /\ RunTyping'
    BY <1>1, <1>11, OthersTyped DEF Left, network, start, stop
  <2>5. LinkTyping'
    BY <1>1, <1>11, <2>1 DEF Left, LinksStay, LinkTyping, stop
  <2> QED
    BY <1>1, <1>2, <1>11, <2>2, <2>3, <2>4, <2>5 DEF Left
<1>12. ASSUME NEW i \in DOMAIN found, Dialed(i) \/ Returned(i)
       PROVE  Typing' /\ ObjectsOK'
  <2>1. LinksStay /\ Done(i) /\ UNCHANGED <<confs, devices>>
        /\ UNCHANGED <<where, unreported, manager, entries, starter, loading, listening,
                       builder, stopper, closing, moves, calls, rebacked, dropped, lost,
                       intruded>>
    BY <1>1, <1>12, DialedIs
  <2>2. TablesOK'
    BY <1>1, <2>1, LinksStayKeeps
  <2>3. found' \in Seq(Discoveries(Len(backends')))
    BY <1>1, <2>1, DoneIs DEF LinksStay
  <2>4. file' \subseteq Entries /\ unsaved' \subseteq Keys
    BY <1>1, <1>12, <2>1, <2>2, SavedKeeps DEF Dialed, Returned, LinkTyping
  <2>5. NetworkTyping' /\ RunTyping'
    BY <1>1, <2>1, OthersTyped
  <2>6. LinkTyping'
    BY <1>1, <2>1, <2>4 DEF LinksStay, LinkTyping
  <2> QED
    BY <1>2, <2>2, <2>3, <2>4, <2>5, <2>6
<1>13. ASSUME NEW k \in Keys, NEW b, AddedAs(k, b), TablesOK', rebacked' \subseteq Ids,
              closing' = closing, lost' = lost
       PROVE  /\ file' \subseteq Entries /\ LinkTyping'
              /\ Len(backends') = Len(backends) + 1
  <2>1. Len(backends') = Len(backends) + 1 /\ DOMAIN backends \subseteq DOMAIN backends'
    BY <1>1, <1>13, ObjectsAre DEF AddedAs, Filed
  <2>2. file' \subseteq Entries /\ unsaved' \subseteq Keys
    BY <1>1, <1>13, SavedKeeps DEF AddedAs, LinkTyping
  <2>3. dropped' \subseteq DOMAIN backends'
    BY <1>1, <1>13, <2>1, DropsTyped DEF AddedAs
  <2>4. lost' \subseteq DOMAIN backends' /\ closing' \in [Stops -> SUBSET DOMAIN backends']
    BY <1>1, <1>13, <2>1 DEF LinkTyping
  <2> QED
    BY <1>13, <2>1, <2>2, <2>3, <2>4 DEF LinkTyping
<1>14. ASSUME Built
       PROVE  Typing' /\ ObjectsOK'
  <2>1. TablesOK' /\ file' \subseteq Entries /\ LinkTyping'
        /\ Len(backends') = Len(backends) + 1
    BY <1>1, <1>13, <1>14, BuiltIs DEF Built, stop
  <2>2. found' \in Seq(Discoveries(Len(backends')))
    BY <1>1, <1>14, <2>1, QueueGrows DEF Built
  <2>3. NetworkTyping' /\ RunTyping'
    BY <1>1, <1>14, OthersTyped DEF Built, network, start, stop
  <2> QED
    BY <1>2, <2>1, <2>2, <2>3
<1>15. ASSUME NEW i \in DOMAIN found, Created(i)
       PROVE  Typing' /\ ObjectsOK'
  <2>1. found' \in Seq(Discoveries(Len(backends)))
    BY <1>1, <1>15, CreatedIs, DoneIs
  <2>2. NetworkTyping' /\ RunTyping'
    BY <1>1, <1>15, OthersTyped DEF Created, network, start, stop
  <2>3. CASE UNCHANGED <<backends, confs, devices, file, rebacked, dropped, unsaved>>
    <3>1. LinkTyping'
      BY <1>1, <1>15, <2>3 DEF Created, LinkTyping, stop
    <3> QED
      BY <1>1, <1>2, <2>1, <2>2, <2>3, <3>1, TablesStay
  <2>4. CASE /\ TablesOK' /\ rebacked' \subseteq Ids
             /\ \E k \in Keys : AddedAs(k, NewLink(found[i].addr))
    <3>1. file' \subseteq Entries /\ LinkTyping' /\ Len(backends') = Len(backends) + 1
      BY <1>13, <1>15, <2>4 DEF Created, stop
    <3>2. found' \in Seq(Discoveries(Len(backends')))
      BY <1>1, <2>1, <3>1, QueueGrows
    <3> QED
      BY <1>2, <2>2, <2>4, <3>1, <3>2
  <2> QED
    BY <1>1, <1>15, <2>3, <2>4, CreatedIs
<1>16. ASSUME NEW e \in loading, Load(e)
       PROVE  Typing' /\ ObjectsOK'
  <2>1. PICK k \in Keys, b \in Links :
           /\ Filed(k, b) /\ Drops(k) /\ TablesOK'
           /\ unsaved' = unsaved \/ unsaved' = unsaved \cup {k}
           /\ starter' = (IF Known(k) THEN "failed" ELSE starter)
    BY <1>1, <1>16, LoadIs
  <2>2. Len(backends') = Len(backends) + 1 /\ DOMAIN backends \subseteq DOMAIN backends'
    BY <1>1, <2>1, ObjectsAre DEF Filed
  <2>3. found' \in Seq(Discoveries(Len(backends')))
    BY <1>1, <1>16, <2>2, QueueGrows DEF Load
  <2>4. NetworkTyping' /\ RunTyping'
    BY <1>1, <1>16, <2>1, OthersTyped DEF Load, network, stop
  <2>5. LinkTyping'
    <3>1. dropped' \subseteq DOMAIN backends'
      BY <1>1, <2>1, <2>2, DropsTyped
    <3>2. /\ closing' \in [Stops -> SUBSET DOMAIN backends']
          /\ lost' \subseteq DOMAIN backends' /\ rebacked' = rebacked
      BY <1>1, <1>16, <2>2 DEF Load, LinkTyping, stop
    <3>3. unsaved' \subseteq Keys
      BY <1>1, <2>1 DEF LinkTyping
    <3> QED
      BY <1>1, <3>1, <3>2, <3>3 DEF LinkTyping
  <2> QED
    BY <1>1, <1>2, <1>16, <2>1, <2>3, <2>4, <2>5 DEF Load
<1>17. ASSUME NEW s \in Stops, Stopped(s)
       PROVE  Typing' /\ ObjectsOK'
  <2>1. LinksStay /\ UNCHANGED <<confs, devices>>
    BY <1>1, <1>17, StoppedIs DEF Stopped
  <2>2. TablesOK'
    BY <1>1, <2>1, LinksStayKeeps
  <2>3. NetworkTyping' /\ RunTyping'
    BY <1>1, <1>17 DEF Stopped, network, start, Typing, NetworkTyping, RunTyping
  <2>4. LinkTyping'
    BY <1>1, <1>17, <2>1 DEF Stopped, LinksStay, LinkTyping
  <2> QED
    BY <1>1, <1>2, <1>17, <2>1, <2>2, <2>3, <2>4 DEF Stopped, LinksStay
<1>18. ASSUME Restart
       PROVE  Typing' /\ ObjectsOK'
  <2>1. /\ backends' = <<>> /\ confs' = <<>> /\ found' = <<>>
        /\ devices' = [k \in Keys |-> 0] /\ file' = file
    BY <1>18 DEF Restart
  <2>2. /\ backends' \in Seq(Links) /\ confs' \in Seq(Records(Len(backends')))
        /\ found' \in Seq(Discoveries(Len(backends'))) /\ Len(confs') = 0
        /\ DOMAIN confs' = {}
    BY <2>1, EmptySeq
  <2>3. TablesOK'
    BY <2>1, <2>2 DEF TablesOK, ObjectsOK, Known
  <2>4. NetworkTyping' /\ RunTyping'
    <3>1. NetworkTyping'
      BY <1>1, <1>18 DEF Restart, Call, network, Typing, NetworkTyping
    <3>2. /\ manager' = "not_connected" /\ entries' \subseteq Entries /\ loading' = {}
          /\ starter' = "new" /\ listening' = FALSE /\ builder' = None
          /\ stopper' = [s \in Stops |-> "none"] /\ intruded' = FALSE
      BY <1>1, <1>18 DEF Restart
    <3> QED
      BY <3>1, <3>2 DEF RunTyping
  <2>5. LinkTyping'
    BY <1>18 DEF Restart, LinkTyping
  <2> QED
    BY <1>1, <1>2, <2>1, <2>2, <2>3, <2>4, <2>5
<1>19. \A i \in DOMAIN found : Handle(i) => Typing' /\ ObjectsOK'
  BY <1>6, <1>7, <1>10, <1>11, <1>12, <1>15 DEF Handle
<1>20. UNCHANGED <<backends, confs, devices, file, found>> \/ ~(
         \/ \E a \in Addresses : Depart(a) \/ Build(a) \/ \E d \in Ids : Appear(d, a)
         \/ Start \/ Listen \/ Started \/ \E s \in Stops : Stop(s) \/ Unlisten(s))
  BY DEF Depart, Build, Appear, Start, Listen, Started, Stop, Unlisten, objects
<1> QED
  BY <1>3, <1>5, <1>8, <1>9, <1>14, <1>16, <1>17, <1>18, <1>19, <1>20 DEF Next, System

-----------------------------------------------------------------------------
(* The turns of the discoveries.                                           *)

(* Nobody's turn changes.                                                  *)
LEMMA TurnsStay ==
  ASSUME Core, found' = found, devices' = devices,
         \A k \in Keys : Known(k) => confs'[devices[k]].backend = BackendOf(k),
         rebacked \subseteq rebacked', intruded => intruded'
  PROVE  QueueOK'
<1>1. Typing /\ ObjectsOK /\ QueueOK /\ TurnsOK
  BY DEF Core, QueueOK
<1>2. \A j \in DOMAIN found' : found'[j].stage \in Moving => GoesOn(j)
  BY DEF GoesOn
<1> QED
  BY <1>1, <1>2, OwnKept DEF QueueOK, TurnsOK

(* A discovery is over, the tables stay.                                   *)
LEMMA TurnsGoOn ==
  ASSUME Core, NEW i \in DOMAIN found, Done(i), devices' = devices, confs' = confs,
         rebacked \subseteq rebacked', intruded => intruded'
  PROVE  QueueOK'
<1>1. Typing /\ ObjectsOK /\ QueueOK /\ TurnsOK
  BY DEF Core, QueueOK
<1>2. TurnsOK'
  BY <1>1, DoneTurns
<1>3. \A j \in DOMAIN found' : found'[j].stage \in Moving => GoesOn(j)
  BY <1>1, DoneIs DEF GoesOn
<1>4. \A k \in Keys : Known(k) => confs'[devices[k]].backend = BackendOf(k)
  BY DEF BackendOf
<1> QED
  BY <1>1, <1>2, <1>3, <1>4, OwnKept DEF QueueOK

(* A discovery comes to the next stage, with the backend of its device.    *)
LEMMA TurnsPass ==
  ASSUME Core, NEW i \in DOMAIN found, NEW s \in Stages, NEW b \in 0..Len(backends),
         Stage(i, s, b), TurnsOK', devices' = devices,
         \A k \in Keys : Known(k) => confs'[devices[k]].backend = BackendOf(k),
         rebacked \subseteq rebacked', intruded => intruded',
         s \in Moving => Known(found[i].id) /\ b = BackendOf(found[i].id)
  PROVE  QueueOK'
<1>1. Typing /\ ObjectsOK /\ QueueOK
  BY DEF Core
<1>2. /\ DOMAIN found' = DOMAIN found /\ found'[i].id = found[i].id
      /\ found'[i].stage = s /\ found'[i].backend = b /\ found[i].id \in Ids
      /\ \A j \in DOMAIN found : j # i => found'[j] = found[j]
  BY <1>1, StageIs, QueueIs
<1>3. \A j \in DOMAIN found' : found'[j].stage \in Moving => GoesOn(j)
  BY <1>2 DEF GoesOn
<1> QED
  BY <1>1, <1>3, OwnKept DEF QueueOK

(* The turns are kept by every step.                                       *)
LEMMA QueueStep ==
  ASSUME Core, Next
  PROVE  QueueOK'
<1>1. Typing /\ ObjectsOK /\ QueueOK /\ TurnsOK /\ PhasesOK
  BY DEF Core, QueueOK
<1>2. /\ DOMAIN found = 1..Len(found) /\ Len(found) \in Nat
      /\ \A i \in DOMAIN found : found[i].stage \in Stages /\ found[i].id \in Keys
      /\ 0 \in 0..Len(backends)
  BY <1>1, QueueIs, ObjectsAre
<1>3. ASSUME found' = found, devices' = devices, confs' = confs,
             rebacked \subseteq rebacked', intruded => intruded'
      PROVE  QueueOK'
  BY <1>3, TurnsStay DEF BackendOf
<1>4. ASSUME NEW d \in Ids, NEW a \in Addresses, Report(d, a)
      PROVE  QueueOK'
  <2> DEFINE m == [id |-> d, addr |-> a, stage |-> "new", backend |-> 0]
  <2>1. m \in Discoveries(Len(backends)) /\ m.stage = "new"
    BY <1>2 DEF Discoveries, Stages
  <2>2. found' = Append(found, m) /\ devices' = devices /\ confs' = confs
        /\ rebacked' = rebacked /\ intruded' = intruded
    BY <1>4 DEF Report, objects
  <2> HIDE DEF m
  <2>3. /\ DOMAIN found' = 1..(Len(found) + 1) /\ found'[Len(found) + 1] = m
        /\ \A j \in DOMAIN found : found'[j] = found[j]
    BY <1>1, <2>1, <2>2, OneMore DEF Typing, QueueTyping
  <2>4. \A j \in DOMAIN found' : j \in DOMAIN found \/ j = Len(found) + 1
    BY <1>2, <2>3
  <2>5. TurnsOK'
    BY <1>1, <1>2, <2>1, <2>3, <2>4, StagesAre DEF TurnsOK, Early
  <2>6. \A j \in DOMAIN found' : found'[j].stage \in Moving => GoesOn(j)
    <3>1. "new" \notin Moving
      BY DEF Moving
    <3> QED
      BY <2>1, <2>3, <2>4, <3>1 DEF GoesOn
  <2>7. \A k \in Keys : Known(k) => confs'[devices[k]].backend = BackendOf(k)
    BY <2>2 DEF BackendOf
  <2> QED
    BY <1>1, <2>2, <2>5, <2>6, <2>7, OwnKept DEF QueueOK
<1>5. ASSUME NEW i \in DOMAIN found, Arrive(i)
      PROVE  QueueOK'
  <2>1. UNCHANGED <<devices, confs, rebacked, intruded>>
    BY <1>5 DEF Arrive, objects
  <2>2. /\ found[i].stage = "new" /\ \A j \in 1 .. i - 1 : found[j].stage # "new"
        /\ manager = "connected" => \A j \in DOMAIN found : found[j].stage # "waits"
        /\ manager = "connecting" => Stage(i, "waits", 0)
        /\ manager = "connected" => Stage(i, "passed", 0)
        /\ manager \in {"disconnecting", "not_connected"} => Done(i)
        /\ manager \in {"not_connected", "connecting", "connected", "disconnecting"}
    BY <1>1, <1>5 DEF Arrive, FirstAt, Typing, RunTyping
  <2>3. CASE Done(i)
    BY <2>1, <2>3, TurnsGoOn
  <2>4. CASE manager = "connecting"
    <3>1. TurnsOK'
      <4>1. "waits" \in Stages /\ "waits" \notin Holding /\ "waits" \in Early
        BY DEF Stages, Holding, Early
      <4> QED
        BY <1>1, <1>2, <2>2, <2>4, <4>1, StageTurns
    <3>2. "waits" \in Stages /\ "waits" \notin Moving
      BY DEF Stages, Moving
    <3> QED
      BY <1>2, <2>1, <2>2, <2>4, <3>1, <3>2, TurnsPass DEF BackendOf
  <2>5. CASE manager = "connected"
    <3>1. TurnsOK'
      <4>1. "passed" \in Stages /\ "passed" \notin Holding
        BY DEF Stages, Holding
      <4>2. \A j \in 1 .. i - 1 : j \in DOMAIN found /\ found[j].stage \notin Early
        BY <1>2, <2>2, <2>5 DEF Early
      <4> QED
        BY <1>1, <1>2, <2>2, <2>5, <4>1, <4>2, StageTurns
    <3>2. "passed" \in Stages /\ "passed" \notin Moving
      BY DEF Stages, Moving
    <3> QED
      BY <1>2, <2>1, <2>2, <2>5, <3>1, <3>2, TurnsPass DEF BackendOf
  <2> QED
    BY <2>2, <2>3, <2>4, <2>5
<1>6. ASSUME NEW i \in DOMAIN found, Wake(i)
      PROVE  QueueOK'
  <2>1. UNCHANGED <<devices, confs, rebacked, intruded>> /\ Stage(i, "passed", 0)
        /\ found[i].stage = "waits" /\ \A j \in 1 .. i - 1 : found[j].stage # "waits"
    BY <1>6 DEF Wake, FirstAt, objects
  <2>2. TurnsOK'
    <3>1. "passed" \in Stages /\ "passed" \notin Holding
      BY DEF Stages, Holding
    <3>2. \A j \in 1 .. i - 1 : found[j].stage \notin Early
      BY <1>1, <1>2, <2>1 DEF Early, TurnsOK
    <3> QED
      BY <1>1, <1>2, <2>1, <3>1, <3>2, StageTurns
  <2>3. "passed" \in Stages /\ "passed" \notin Moving
    BY DEF Stages, Moving
  <2> QED
    BY <1>2, <2>1, <2>2, <2>3, TurnsPass DEF BackendOf
<1>7. ASSUME NEW i \in DOMAIN found, Look(i)
      PROVE  QueueOK'
  <2>1. UNCHANGED <<devices, confs, rebacked, intruded>>
    BY <1>7 DEF Look, objects
  <2>2. i = 1
    BY <1>1, <1>7, LookIs
  <2>3. CASE Done(i)
    BY <2>1, <2>3, TurnsGoOn
  <2>4. ASSUME NEW s \in Stages, NEW b \in 0..Len(backends), Stage(i, s, b), s \notin Early,
               s \in Moving => Known(found[i].id) /\ b = BackendOf(found[i].id)
        PROVE  QueueOK'
    <3>1. TurnsOK'
      BY <1>1, <2>2, <2>4, StageTurns DEF Early
    <3> QED
      BY <2>1, <2>4, <3>1, TurnsPass DEF BackendOf
  <2>5. \/ Done(i)
        \/ \E s \in Stages, b \in 0..Len(backends) :
             /\ Stage(i, s, b) /\ s \notin Early
             /\ s \in Moving => Known(found[i].id) /\ b = BackendOf(found[i].id)
    <3>1. Known(found[i].id) => BackendOf(found[i].id) \in 0..Len(backends)
      BY <1>1, <1>2, ObjectsAre
    <3>2. /\ {"creating", "closing", "leaving"} \subseteq Stages \ Early
          /\ "creating" \notin Moving
      BY DEF Stages, Early, Moving
    <3> QED
      BY <1>1, <1>2, <1>7, <3>1, <3>2, LookIs
  <2> QED
    BY <2>3, <2>4, <2>5
<1>8. ASSUME NEW i \in DOMAIN found, NEW s \in {"dialing", "returning"},
             found[i].stage \in Moving, Stage(i, s, BackendOf(found[i].id)),
             devices' = devices,
             \A k \in Keys : Known(k) => confs'[devices[k]].backend = BackendOf(k),
             rebacked' = rebacked, intruded' = intruded
      PROVE  QueueOK'
  <2>1. i = 1 /\ Known(found[i].id) /\ BackendOf(found[i].id) \in 0..Len(backends)
    BY <1>1, <1>8, MovingIs
  <2>2. s \in Stages /\ s \notin Early
    BY DEF Stages, Early
  <2>3. TurnsOK'
    BY <1>1, <1>8, <2>1, <2>2, StageTurns DEF Early
  <2> QED
    BY <1>8, <2>1, <2>2, <2>3, TurnsPass
<1>9. ASSUME NEW i \in DOMAIN found, Closed(i)
      PROVE  QueueOK'
  <2>1. found[i].stage \in Moving
    BY <1>9 DEF Closed, Moving
  <2>2. OnItsOwn(i)
    BY <1>1, <2>1, MovingIs
  <2>3. /\ \A k \in Keys : Known(k) => confs'[devices[k]].backend = BackendOf(k)
        /\ devices' = devices /\ Stage(i, "dialing", BackendOf(found[i].id))
    BY <1>1, <1>9, <2>2, ClosedIs
  <2>4. rebacked' = rebacked /\ intruded' = intruded
    BY <1>9 DEF Closed
  <2> QED
    BY <1>8, <2>1, <2>3, <2>4
<1>10. ASSUME NEW i \in DOMAIN found, Left(i)
       PROVE  QueueOK'
  <2>1. found[i].stage \in Moving /\ Stage(i, "returning", BackendOf(found[i].id))
        /\ UNCHANGED <<confs, devices, rebacked, intruded>>
    BY <1>1, <1>10, LeftIs DEF Left
  <2> QED
    BY <1>8, <2>1 DEF BackendOf
<1>11. ASSUME NEW i \in DOMAIN found, Dialed(i) \/ Returned(i)
       PROVE  QueueOK'
  BY <1>1, <1>11, DialedIs, TurnsGoOn
<1>12. ASSUME NEW k \in Keys, NEW b, AddedAs(k, b), intruded' = intruded, TurnsOK',
              \A j \in DOMAIN found' : \E i \in DOMAIN found : found'[j] = found[i]
       PROVE  QueueOK'
  <2>1. Filed(k, b) /\ rebacked \subseteq rebacked' /\ (Known(k) => k \in rebacked')
    BY <1>12 DEF AddedAs
  <2> QED
    BY <1>1, <1>12, <2>1, OwnFiled DEF QueueOK
<1>13. ASSUME Built
       PROVE  QueueOK'
  <2>1. found' = found /\ intruded' = intruded
    BY <1>13 DEF Built
  <2>2. TurnsOK'
    BY <1>1, <2>1 DEF TurnsOK
  <2> QED
    BY <1>1, <1>12, <1>13, <2>1, <2>2, BuiltIs
<1>14. ASSUME NEW i \in DOMAIN found, Created(i)
       PROVE  QueueOK'
  <2>1. Done(i) /\ intruded' = intruded
    BY <1>1, <1>14, CreatedIs DEF Created
  <2>2. CASE UNCHANGED <<backends, confs, devices, file, rebacked, dropped, unsaved>>
    BY <2>1, <2>2, TurnsGoOn
  <2>3. CASE \E k \in Keys : AddedAs(k, NewLink(found[i].addr))
    BY <1>1, <1>12, <2>1, <2>3, DoneTurns, DoneIs
  <2> QED
    BY <1>1, <1>14, <2>2, <2>3, CreatedIs
<1>15. ASSUME NEW e \in loading, Load(e)
       PROVE  QueueOK'
  <2>1. PICK k \in Keys, b \in Links : Filed(k, b)
    BY <1>1, <1>15, LoadIs
  <2>2. found' = found /\ rebacked' = rebacked /\ intruded' = intruded
    BY <1>15 DEF Load
  <2>3. ~intruded => \A i \in DOMAIN found : found[i].stage \in Early
    <3>1. ~intruded => manager = "connecting" \/ loading = {}
      BY <1>1 DEF PhasesOK, Idle, Typing, RunTyping
    <3> QED
      BY <1>1, <3>1 DEF PhasesOK
  <2>4. ~intruded => \A i \in DOMAIN found : found[i].stage \notin Moving
    BY <2>3, StagesAre
  <2>5. TurnsOK'
    BY <1>1, <2>2 DEF TurnsOK
  <2> QED
    BY <1>1, <2>1, <2>2, <2>4, <2>5, OwnFiled DEF QueueOK
<1>16. ASSUME Restart
       PROVE  QueueOK'
  <2>1. DOMAIN found' = {}
    BY <1>16, EmptySeq DEF Restart
  <2> QED
    BY <2>1 DEF QueueOK, TurnsOK
<1>17. \A i \in DOMAIN found : Handle(i) => QueueOK'
  BY <1>5, <1>6, <1>7, <1>9, <1>10, <1>11, <1>14 DEF Handle
<1>18. ASSUME \/ \E a \in Addresses : Depart(a) \/ Build(a) \/ \E d \in Ids : Appear(d, a)
              \/ \E b \in DOMAIN backends : LinkLost(b)
              \/ \E k \in Keys : Renamed(k)
              \/ Start \/ Listen \/ Started
              \/ \E s \in Stops : Stop(s) \/ Unlisten(s) \/ Stopped(s)
       PROVE  QueueOK'
  <2> DEFINE Same == /\ found' = found /\ devices' = devices /\ confs' = confs
                     /\ rebacked' = rebacked /\ (intruded => intruded')
  <2>1. /\ \A a \in Addresses : Depart(a) => Same
        /\ \A a \in Addresses : Build(a) => Same
        /\ \A a \in Addresses, d \in Ids : Appear(d, a) => Same
    <3>1. \A a \in Addresses : Build(a) => Same
      BY DEF Build, objects
    <3> QED
      BY <3>1 DEF Depart, Appear, objects
  <2>2. /\ \A b \in DOMAIN backends : LinkLost(b) => Same
        /\ \A k \in Keys : Renamed(k) => Same
    BY DEF LinkLost, Renamed
  <2>3. Start \/ Listen \/ Started => Same
    <3>1. Start => Same
      BY DEF Start, objects
    <3>2. Listen => Same
      BY DEF Listen, objects
    <3>3. Started => Same
      BY DEF Started, objects
    <3> QED
      BY <3>1, <3>2, <3>3
  <2>4. \A s \in Stops : Stop(s) \/ Unlisten(s) \/ Stopped(s) => Same
    <3>1. \A s \in Stops : Stop(s) => Same
      BY DEF Stop, objects
    <3>2. \A s \in Stops : Unlisten(s) => Same
      BY DEF Unlisten, objects
    <3>3. \A s \in Stops : Stopped(s) => Same
      BY DEF Stopped
    <3> QED
      BY <3>1, <3>2, <3>3
  <2>5. Same
    BY <1>18, <2>1, <2>2, <2>3, <2>4
  <2> QED
    BY <1>3, <2>5
<1> QED
  BY <1>4, <1>13, <1>15, <1>16, <1>17, <1>18 DEF Next, System

-----------------------------------------------------------------------------
(* Backends and their devices.                                             *)

(* A backend that is filed, and what became of the one before.             *)
LEMMA KeptFiled ==
  ASSUME Typing, AllKept, NEW k, NEW b, Filed(k, b), Drops(k)
  PROVE  AllKept'
<1>1. /\ k \in Keys /\ devices'[k] # 0 /\ confs'[devices'[k]].backend = Len(backends) + 1
      /\ \A l \in Keys \ {k} : /\ devices'[l] = devices[l]
                               /\ Known(l) => confs'[devices[l]] = confs[devices[l]]
      /\ DOMAIN backends' = 1..(Len(backends) + 1)
  BY DEF Filed
<1>2. DOMAIN backends = 1..Len(backends) /\ Len(backends) \in Nat
  BY ObjectsAre
<1>3. dropped \subseteq dropped' /\ (Known(k) => BackendOf(k) \in dropped')
  BY DEF Drops
<1>4. ASSUME NEW j \in DOMAIN backends
      PROVE  j \in dropped' \/ \E l \in Keys : Known(l)' /\ BackendOf(l)' = j
  <2>1. CASE j \in dropped
    BY <1>3, <2>1
  <2>2. CASE \E l \in Keys : Known(l) /\ BackendOf(l) = j
    <3>1. PICK l \in Keys : Known(l) /\ BackendOf(l) = j
      BY <2>2
    <3>2. CASE l = k
      BY <1>3, <3>1, <3>2
    <3>3. CASE l # k
      BY <1>1, <3>1, <3>3 DEF Known, BackendOf
    <3> QED
      BY <3>2, <3>3
  <2> QED
    BY <2>1, <2>2 DEF AllKept
<1>5. Known(k)' /\ BackendOf(k)' = Len(backends) + 1
  BY <1>1 DEF Known, BackendOf
<1> QED
  BY <1>1, <1>2, <1>4, <1>5 DEF AllKept

(* No backend is made, and each device keeps the one it has.               *)
LEMMA KeptSame ==
  ASSUME AllKept, DOMAIN backends' = DOMAIN backends, UNCHANGED <<devices, dropped>>,
         \A k \in Keys : Known(k) => confs'[devices[k]].backend = BackendOf(k)
  PROVE  AllKept'
BY DEF AllKept, Known, BackendOf

(* No step forgets a backend.                                              *)
LEMMA KeptStep ==
  ASSUME Core, Next
  PROVE  AllKept'
<1>1. Typing /\ ObjectsOK /\ QueueOK /\ TurnsOK /\ AllKept
  BY DEF Core, QueueOK
<1>2. ASSUME UNCHANGED <<backends, confs, devices, dropped>>
      PROVE  AllKept'
  BY <1>1, <1>2, KeptSame DEF BackendOf
<1>3. ASSUME LinksStay, UNCHANGED <<confs, devices, dropped>>
      PROVE  AllKept'
  BY <1>1, <1>3, KeptSame DEF BackendOf, LinksStay
<1>4. ASSUME NEW k, NEW b, AddedAs(k, b)
      PROVE  AllKept'
  BY <1>1, <1>4, KeptFiled DEF AddedAs
<1>5. ASSUME NEW i \in DOMAIN found, Handle(i)
      PROVE  AllKept'
  <2>1. CASE Arrive(i) \/ Wake(i) \/ Look(i)
    BY <1>2, <2>1 DEF Arrive, Wake, Look, objects
  <2>2. CASE Created(i)
    BY <1>1, <1>2, <1>4, <2>2, CreatedIs
  <2>3. CASE Closed(i)
    <3>1. OnItsOwn(i)
      BY <1>1, <2>3, MovingIs DEF Closed, Moving
    <3> QED
      BY <1>1, <2>3, <3>1, ClosedIs, KeptSame DEF Closed
  <2>4. CASE Left(i)
    BY <1>1, <1>3, <2>4, LeftIs DEF Left
  <2>5. CASE Dialed(i) \/ Returned(i)
    BY <1>1, <1>3, <2>5, DialedIs
  <2> QED
    BY <1>5, <2>1, <2>2, <2>3, <2>4, <2>5 DEF Handle
<1>6. ASSUME Built
      PROVE  AllKept'
  BY <1>1, <1>4, <1>6, BuiltIs
<1>7. ASSUME NEW e \in loading, Load(e)
      PROVE  AllKept'
  BY <1>1, <1>7, LoadIs, KeptFiled
<1>8. ASSUME NEW s \in Stops, Stopped(s)
      PROVE  AllKept'
  BY <1>1, <1>3, <1>8, StoppedIs DEF Stopped
<1>9. ASSUME NEW b \in DOMAIN backends, LinkLost(b)
      PROVE  AllKept'
  BY <1>1, <1>3, <1>9, DownIs DEF LinkLost
<1>10. ASSUME Restart
       PROVE  AllKept'
  BY <1>10, EmptySeq DEF Restart, AllKept
<1>11. ASSUME NEW a \in Addresses,
              Depart(a) \/ Build(a) \/ \E d \in Ids : Appear(d, a) \/ Report(d, a)
       PROVE  AllKept'
  BY <1>2, <1>11 DEF Depart, Build, Appear, Report, objects
<1>12. ASSUME Start \/ Listen \/ Started
       PROVE  AllKept'
  BY <1>2, <1>12 DEF Start, Listen, Started, objects
<1>13. ASSUME NEW s \in Stops, Stop(s) \/ Unlisten(s)
       PROVE  AllKept'
  BY <1>2, <1>13 DEF Stop, Unlisten, objects
<1>14. ASSUME NEW k \in Keys, Renamed(k)
       PROVE  AllKept'
  BY <1>2, <1>14 DEF Renamed
<1> QED
  BY <1>5, <1>6, <1>7, <1>8, <1>9, <1>10, <1>11, <1>12, <1>13, <1>14 DEF Next, System

-----------------------------------------------------------------------------
(* What may be under way.                                                  *)

(* A discovery that goes on: the start is over.                            *)
LEMMA StartIsOver ==
  ASSUME Typing, PhasesOK, ~intruded, NEW i \in DOMAIN found, found[i].stage \notin Early
  PROVE  manager = "connected"
BY DEF PhasesOK, Idle, Early, Typing, RunTyping

(* Then not much can be wrong.                                             *)
LEMMA PhasesUp ==
  ASSUME PhasesOK, ~intruded => manager = "connected",
         UNCHANGED <<manager, stopper, loading, starter, intruded>>
  PROVE  PhasesOK'
BY DEF PhasesOK, NoStop

(* Nor can it when a backend is built, which no stop() goes on with.       *)
LEMMA PhasesBuild ==
  ASSUME PhasesOK, ~intruded' => ~intruded /\ NoStop,
         UNCHANGED <<manager, stopper, loading, starter, listening, found>>
  PROVE  PhasesOK'
<1> SUFFICES ASSUME ~intruded' PROVE PhasesOK'
  BY DEF PhasesOK
<1>1. ~intruded /\ NoStop /\ NoStop' /\ \A s \in Stops : stopper'[s] # "closing"
  BY DEF NoStop
<1> QED
  BY <1>1 DEF PhasesOK, Idle

(* Links may go down and discoveries come up at any time.                  *)
LEMMA PhasesKept ==
  ASSUME Typing, PhasesOK,
         UNCHANGED <<manager, starter, loading, listening, builder, stopper, closing,
                     dropped, intruded>>,
         \A j \in DOMAIN backends' : backends'[j].up => j \in DOMAIN backends /\ backends[j].up,
         \A j \in DOMAIN found' :
           \/ found'[j].stage = "new"
           \/ found'[j].stage = "waits" /\ manager = "connecting"
           \/ manager = "connected"
           \/ \E i \in DOMAIN found : found'[j].stage = found[i].stage
  PROVE  PhasesOK'
<1> SUFFICES ASSUME ~intruded PROVE PhasesOK'
  BY DEF PhasesOK
<1>1. /\ NoStop' <=> NoStop
      /\ ~NoStop' => builder' = None
      /\ \A s \in Stops : stopper'[s] = "closing" => Closes(s)'
  BY DEF PhasesOK, NoStop, Closes
<1>2. CASE manager = "not_connected"
  BY <1>1, <1>2 DEF PhasesOK, Idle
<1>3. CASE manager = "disconnecting"
  BY <1>1, <1>3 DEF PhasesOK, Idle
<1>4. CASE manager = "connecting"
  BY <1>1, <1>4 DEF PhasesOK, Early
<1>5. CASE manager = "connected"
  BY <1>1, <1>5 DEF PhasesOK
<1> QED
  BY <1>2, <1>3, <1>4, <1>5 DEF Typing, RunTyping

(* The phases are kept by every step.                                      *)
LEMMA PhasesStep ==
  ASSUME Core, Next
  PROVE  PhasesOK'
<1>1. Typing /\ ObjectsOK /\ QueueOK /\ TurnsOK /\ AllKept /\ PhasesOK
      /\ manager \in {"not_connected", "connecting", "connected", "disconnecting"}
      /\ stopper \in [Stops -> {"none", "unlisten", "closing"}]
      /\ closing \in [Stops -> SUBSET DOMAIN backends]
  BY DEF Core, QueueOK, Typing, RunTyping, LinkTyping
<1>2. ASSUME NEW a \in Addresses, NEW d \in Ids, Appear(d, a)
      PROVE  PhasesOK'
  BY <1>1, <1>2, PhasesKept DEF Appear, objects, start, stop
<1>3. ASSUME NEW a \in Addresses, Depart(a)
      PROVE  PhasesOK'
  BY <1>1, <1>3, PhasesKept DEF Depart, objects, start, stop
<1>4. ASSUME NEW a \in Addresses, Build(a)
      PROVE  PhasesOK'
  BY <1>1, <1>4, PhasesBuild DEF Build, start, stop
<1>5. ASSUME NEW d \in Ids, NEW a \in Addresses, Report(d, a)
      PROVE  PhasesOK'
  <2> DEFINE m == [id |-> d, addr |-> a, stage |-> "new", backend |-> 0]
  <2>1. m \in Discoveries(Len(backends)) /\ m.stage = "new"
    BY <1>1, ObjectsAre DEF Discoveries, Stages
  <2>2. found' = Append(found, m)
    BY <1>5 DEF Report
  <2> HIDE DEF m
  <2>3. \A j \in DOMAIN found' :
          found'[j].stage = "new" \/ \E i \in DOMAIN found : found'[j] = found[i]
    BY <1>1, <2>1, <2>2, OneMore DEF Typing, QueueTyping
  <2> QED
    BY <1>1, <1>5, <2>3, PhasesKept DEF Report, objects, start, stop
<1>6. ASSUME NEW i \in DOMAIN found, Arrive(i)
      PROVE  PhasesOK'
  <2>1. \/ Done(i)
        \/ manager = "connecting" /\ Stage(i, "waits", 0)
        \/ manager = "connected" /\ Stage(i, "passed", 0)
    BY <1>1, <1>6 DEF Arrive
  <2>2. \A j \in DOMAIN found' :
           \/ found'[j].stage = "waits" /\ manager = "connecting"
           \/ manager = "connected"
           \/ \E k \in DOMAIN found : found'[j].stage = found[k].stage
    <3>1. CASE Done(i)
      BY <1>1, <3>1, DoneIs
    <3>2. CASE manager = "connecting" /\ Stage(i, "waits", 0)
      <4>1. "waits" \in Stages /\ 0 \in 0..Len(backends)
        BY <1>1, ObjectsAre DEF Stages
      <4> QED
        BY <1>1, <3>2, <4>1, StageIs
    <3> QED
      BY <2>1, <3>1, <3>2
  <2> QED
    BY <1>1, <1>6, <2>2, PhasesKept DEF Arrive, objects, start, stop
<1>7. ASSUME NEW i \in DOMAIN found, Wake(i)
      PROVE  PhasesOK'
  BY <1>1, <1>7, PhasesUp DEF Wake, start, stop
<1>8. ASSUME NEW i \in DOMAIN found,
             Look(i) \/ Created(i) \/ Closed(i) \/ Dialed(i) \/ Left(i) \/ Returned(i)
      PROVE  PhasesOK'
  <2>1. found[i].stage \notin Early
    BY <1>8 DEF Look, FirstAt, Created, Closed, Dialed, Left, Returned, Early
  <2>2. UNCHANGED <<manager, stopper, loading, starter, intruded>>
    <3>1. Look(i) \/ Created(i) => UNCHANGED <<manager, stopper, loading, starter, intruded>>
      BY DEF Look, Created, start, stop
    <3>2. Closed(i) \/ Left(i) => UNCHANGED <<manager, stopper, loading, starter, intruded>>
      BY DEF Closed, Left, start, stop
    <3>3. Dialed(i) \/ Returned(i) => UNCHANGED <<manager, stopper, loading, starter, intruded>>
      BY DEF Dialed, Returned, start, stop
    <3> QED
      BY <1>8, <3>1, <3>2, <3>3
  <2> QED
    BY <1>1, <2>1, <2>2, StartIsOver, PhasesUp
<1>9. ASSUME Built
      PROVE  PhasesOK'
  <2>1. /\ builder # None
        /\ UNCHANGED <<manager, stopper, loading, starter, listening, found, intruded>>
    BY <1>9 DEF Built, start, stop
  <2>2. ~intruded => NoStop
    BY <1>1, <2>1 DEF PhasesOK
  <2> QED
    BY <1>1, <2>1, <2>2, PhasesBuild
<1>10. ASSUME NEW b \in DOMAIN backends, LinkLost(b)
       PROVE  PhasesOK'
  <2>1. /\ DOMAIN backends' = DOMAIN backends
        /\ \A j \in DOMAIN backends : backends'[j].up => backends[j].up
    BY <1>1, <1>10, DownIs DEF LinkLost, LinksStay
  <2> QED
    BY <1>1, <1>10, <2>1, PhasesKept DEF LinkLost, start, stop
<1>11. ASSUME NEW k \in Keys, Renamed(k)
       PROVE  PhasesOK'
  BY <1>1, <1>11, PhasesKept DEF Renamed, start, stop
<1>12. ASSUME Start
       PROVE  PhasesOK'
  <2>1. /\ manager \in {"not_connected", "disconnecting"} /\ manager' = "connecting"
        /\ starter' = "loading" /\ intruded' = (intruded \/ ~NoStop)
        /\ UNCHANGED <<found, builder, stopper>>
    BY <1>12 DEF Start, stop
  <2>2. ASSUME ~intruded'
        PROVE  Idle /\ NoStop' /\ \A s \in Stops : stopper'[s] # "closing"
    BY <1>1, <2>1, <2>2 DEF PhasesOK, NoStop
  <2> QED
    BY <2>1, <2>2 DEF PhasesOK, Idle, Early
<1>13. ASSUME NEW e \in loading, Load(e)
       PROVE  PhasesOK'
  <2>1. /\ UNCHANGED <<found, builder, stopper, manager, intruded>>
        /\ starter' \in {starter, "failed"}
    BY <1>1, <1>13, LoadIs DEF Load, stop
  <2>2. ~intruded => manager = "connecting" /\ starter # "listening" /\ NoStop
    BY <1>1 DEF PhasesOK, Idle
  <2> QED
    BY <1>1, <2>1, <2>2 DEF PhasesOK, NoStop
<1>14. ASSUME Listen
       PROVE  PhasesOK'
  <2>1. /\ UNCHANGED <<found, builder, stopper, manager, intruded, loading>>
        /\ starter' \in {"listening", "failed"} /\ starter = "loading" /\ loading = {}
    BY <1>14 DEF Listen, stop
  <2>2. ~intruded => manager = "connecting" /\ NoStop
    BY <1>1, <2>1 DEF PhasesOK, Idle
  <2> QED
    BY <1>1, <2>1, <2>2 DEF PhasesOK, NoStop
<1>15. ASSUME Started
       PROVE  PhasesOK'
  <2>1. /\ UNCHANGED <<stopper, intruded, loading>> /\ manager' = "connected"
        /\ starter' = "none" /\ starter = "listening"
    BY <1>15 DEF Started, stop
  <2>2. ~intruded => manager = "connecting" /\ NoStop
    BY <1>1, <2>1 DEF PhasesOK, Idle
  <2> QED
    BY <1>1, <2>1, <2>2 DEF PhasesOK, NoStop
<1>16. ASSUME NEW s \in Stops, Stop(s)
       PROVE  PhasesOK'
  <2>1. /\ manager' = "disconnecting" /\ stopper' = [stopper EXCEPT ![s] = "unlisten"]
        /\ UNCHANGED <<backends, found, builder, loading, starter, listening, closing,
                       dropped>>
        /\ intruded' = (\/ intruded \/ starter \notin {"none", "failed"} \/ loading # {}
                        \/ found # <<>> \/ builder # None)
    BY <1>16 DEF Stop, start, objects
  <2>2. found = <<>> => DOMAIN found = {}
    BY EmptySeq
  <2>3. ~intruded' => Idle' /\ builder' = None
    BY <2>1, <2>2 DEF Idle
  <2>4. ~NoStop' /\ \A r \in Stops : stopper'[r] = "closing" => stopper[r] = "closing"
    BY <1>1, <2>1 DEF NoStop
  <2>5. ASSUME ~intruded', NEW r \in Stops, stopper'[r] = "closing"
        PROVE  Closes(r)'
    BY <1>1, <2>1, <2>4, <2>5 DEF PhasesOK, Closes
  <2> QED
    BY <2>1, <2>3, <2>4, <2>5 DEF PhasesOK
<1>17. ASSUME NEW s \in Stops, Unlisten(s)
       PROVE  PhasesOK'
  <2> DEFINE all == {BackendOf(k) : k \in {x \in Keys : Known(x)}}
  <2>1. /\ stopper[s] = "unlisten" /\ stopper' = [stopper EXCEPT ![s] = "closing"]
        /\ listening' = FALSE /\ closing' = [closing EXCEPT ![s] = all]
        /\ UNCHANGED <<backends, found, builder, loading, starter, manager, intruded, dropped>>
    BY <1>17 DEF Unlisten, start, objects, Known, BackendOf
  <2>2. ~NoStop /\ ~NoStop'
    BY <1>1, <2>1 DEF NoStop
  <2>3. ~intruded => manager \in {"not_connected", "disconnecting"} /\ Idle /\ builder = None
    BY <1>1, <2>2 DEF PhasesOK
  <2>4. \A b \in DOMAIN backends : b \in all \cup dropped
    BY <1>1 DEF AllKept
  <2>5. ASSUME ~intruded, NEW r \in Stops, stopper'[r] = "closing"
        PROVE  Closes(r)'
    <3>1. CASE r = s
      <4>1. closing'[s] = all
        BY <1>1, <2>1
      <4> HIDE DEF all
      <4> QED
        BY <2>1, <2>4, <3>1, <4>1 DEF Closes
    <3>2. CASE r # s
      <4>1. stopper[r] = "closing" /\ closing'[r] = closing[r]
        BY <1>1, <2>1, <2>5, <3>2
      <4> QED
        BY <1>1, <2>1, <2>5, <4>1 DEF PhasesOK, Closes
    <3> QED
      BY <3>1, <3>2
  <2>6. Idle => Idle'
    BY <2>1 DEF Idle
  <2> QED
    BY <2>1, <2>2, <2>3, <2>5, <2>6 DEF PhasesOK
<1>18. ASSUME NEW s \in Stops, Stopped(s)
       PROVE  PhasesOK'
  <2>1. /\ stopper[s] = "closing" /\ manager' = "not_connected"
        /\ stopper' = [stopper EXCEPT ![s] = "none"] /\ closing' = [closing EXCEPT ![s] = {}]
        /\ UNCHANGED <<found, builder, loading, starter, intruded, listening, dropped>>
    BY <1>18 DEF Stopped, start
  <2>2. ~NoStop
    BY <1>1, <2>1 DEF NoStop
  <2>3. ~intruded => /\ manager \in {"not_connected", "disconnecting"}
                     /\ Idle /\ ~listening /\ builder = None
    BY <1>1, <2>1, <2>2 DEF PhasesOK, Closes
  <2>4. ASSUME ~intruded, NEW r \in Stops, stopper'[r] = "closing"
        PROVE  Closes(r)'
    <3>1. r # s /\ stopper[r] = "closing" /\ closing'[r] = closing[r]
      BY <1>1, <2>1, <2>4
    <3>2. /\ DOMAIN backends' = DOMAIN backends
          /\ \A j \in DOMAIN backends : backends'[j].up => backends[j].up
      BY <1>1, <1>18, StoppedIs DEF LinksStay
    <3> QED
      BY <1>1, <2>1, <2>4, <3>1, <3>2 DEF PhasesOK, Closes
  <2>5. Idle => Idle'
    BY <2>1 DEF Idle
  <2> QED
    BY <2>1, <2>3, <2>4, <2>5 DEF PhasesOK
<1>19. ASSUME Restart
       PROVE  PhasesOK'
  <2>1. /\ manager' = "not_connected" /\ listening' = FALSE /\ starter' = "new"
        /\ loading' = {} /\ found' = <<>> /\ builder' = None
        /\ stopper' = [s \in Stops |-> "none"]
    BY <1>19 DEF Restart
  <2>2. DOMAIN found' = {}
    BY <2>1, EmptySeq
  <2> QED
    BY <2>1, <2>2 DEF PhasesOK, Idle
<1>20. \A i \in DOMAIN found : Handle(i) => PhasesOK'
  BY <1>6, <1>7, <1>8 DEF Handle
<1> QED
  BY <1>2, <1>3, <1>4, <1>5, <1>9, <1>10, <1>11, <1>12, <1>13, <1>14, <1>15, <1>16, <1>17,
     <1>18, <1>19, <1>20 DEF Next, System

-----------------------------------------------------------------------------
(* What is in the file.                                                    *)

(* Devices whose discovery will save them go on being such.                *)
DialingStays ==
  \A i \in DOMAIN found : found[i].stage = "dialing" =>
    \E j \in DOMAIN found' : found'[j].id = found[i].id /\ found'[j].stage = "dialing"

(* They do when another discovery goes on or is over.                      *)
LEMMA DialingStaysIf ==
  ASSUME Typing, NEW i \in DOMAIN found, found[i].stage # "dialing",
         Done(i) \/ \E s \in Stages, b \in 0..Len(backends) : Stage(i, s, b)
  PROVE  DialingStays
<1>1. CASE Done(i)
  <2> SUFFICES ASSUME NEW k \in DOMAIN found, found[k].stage = "dialing"
               PROVE  \E j \in DOMAIN found' : /\ found'[j].id = found[k].id
                                               /\ found'[j].stage = "dialing"
    BY DEF DialingStays
  <2>1. PICK j \in DOMAIN found' : From(i, j) = k /\ found'[j] = found[From(i, j)]
    BY <1>1, DoneIs
  <2> QED
    BY <2>1
<1>2. CASE \E s \in Stages, b \in 0..Len(backends) : Stage(i, s, b)
  BY <1>2, StageIs DEF DialingStays
<1> QED
  BY <1>1, <1>2

(* Everything was saved.                                                   *)
LEMMA FileSaved ==
  ASSUME TablesOK', file' = Saved(confs', devices')
  PROVE  FileFollows'
BY SavedKeeps DEF FileFollows, InFile, Known, ConfOf

(* Nothing that is in the file has changed.                                *)
LEMMA FileKept ==
  ASSUME FileFollows, DialingStays, UNCHANGED <<devices, file>>, unsaved \subseteq unsaved',
         \A k \in Keys : Known(k) => confs'[devices[k]].addr = ConfOf(k).addr
  PROVE  FileFollows'
<1> SUFFICES ASSUME NEW k \in Keys, devices'[k] # 0, k \notin unsaved'
             PROVE  \/ [id |-> k, addr |-> confs'[devices'[k]].addr] \in file'
                    \/ \E i \in DOMAIN found' : found'[i].id = k /\ found'[i].stage = "dialing"
  BY DEF FileFollows, InFile, Known, ConfOf
<1>1. Known(k) /\ k \notin unsaved /\ confs'[devices'[k]].addr = ConfOf(k).addr
  BY DEF Known
<1>2. \/ [id |-> k, addr |-> ConfOf(k).addr] \in file
      \/ \E i \in DOMAIN found : found[i].id = k /\ found[i].stage = "dialing"
  BY <1>1 DEF FileFollows, InFile
<1> QED
  BY <1>1, <1>2 DEF DialingStays

(* A device was filed: it is in the file, or on the list.                  *)
LEMMA FileFiled ==
  ASSUME FileFollows, DialingStays, NEW k \in Keys, NEW b, Filed(k, b), file' = file,
         unsaved \subseteq unsaved', k \notin unsaved' => [id |-> k, addr |-> b.addr] \in file
  PROVE  FileFollows'
<1> SUFFICES ASSUME NEW l \in Keys, devices'[l] # 0, l \notin unsaved'
             PROVE  \/ [id |-> l, addr |-> confs'[devices'[l]].addr] \in file'
                    \/ \E i \in DOMAIN found' : found'[i].id = l /\ found'[i].stage = "dialing"
  BY DEF FileFollows, InFile, Known, ConfOf
<1>1. CASE l = k
  <2>1. confs'[devices'[k]].addr = b.addr
    BY DEF Filed
  <2> QED
    BY <1>1, <2>1
<1>2. CASE l # k
  <2>1. devices'[l] = devices[l] /\ Known(l) /\ confs'[devices'[l]].addr = ConfOf(l).addr
    BY <1>2 DEF Filed, Known, ConfOf
  <2>2. \/ [id |-> l, addr |-> ConfOf(l).addr] \in file
        \/ \E i \in DOMAIN found : found[i].id = l /\ found[i].stage = "dialing"
    BY <2>1 DEF FileFollows, InFile
  <2> QED
    BY <2>1, <2>2 DEF DialingStays
<1> QED
  BY <1>1, <1>2

(* add_device does either.                                                 *)
LEMMA FileAdded ==
  ASSUME FileFollows, DialingStays, NEW k \in Keys, NEW b, AddedAs(k, b), TablesOK'
  PROVE  FileFollows'
<1>1. CASE unsaved' = unsaved \cup {k} /\ file' = file
  BY <1>1, FileFiled DEF AddedAs
<1>2. CASE file' = Saved(confs', devices')
  BY <1>2, FileSaved
<1> QED
  BY <1>1, <1>2 DEF AddedAs

(* The file follows the devices, whatever happens.                         *)
LEMMA FileStep ==
  ASSUME Core, FileFollows, Next
  PROVE  FileFollows'
<1>1. Typing /\ ObjectsOK /\ QueueOK /\ TurnsOK
  BY DEF Core, QueueOK
<1>2. ASSUME UNCHANGED <<devices, confs, file, unsaved>>, DialingStays
      PROVE  FileFollows'
  BY <1>2, FileKept DEF ConfOf
<1>3. found' = found => DialingStays
  BY DEF DialingStays
<1>4. ASSUME NEW d \in Ids, NEW a \in Addresses, Report(d, a)
      PROVE  FileFollows'
  <2> DEFINE m == [id |-> d, addr |-> a, stage |-> "new", backend |-> 0]
  <2>1. m \in Discoveries(Len(backends)) /\ found' = Append(found, m)
    BY <1>1, <1>4, ObjectsAre DEF Discoveries, Stages, Report
  <2> HIDE DEF m
  <2>2. DOMAIN found \subseteq DOMAIN found' /\ \A j \in DOMAIN found : found'[j] = found[j]
    BY <1>1, <2>1, OneMore DEF Typing, QueueTyping
  <2>3. DialingStays
    BY <2>2 DEF DialingStays
  <2> QED
    BY <1>2, <1>4, <2>3 DEF Report, objects
<1>5. ASSUME NEW i \in DOMAIN found, Arrive(i) \/ Wake(i)
      PROVE  FileFollows'
  <2>1. found[i].stage # "dialing" /\ (Done(i) \/ \E s \in Stages : Stage(i, s, 0))
    BY <1>1, <1>5 DEF Arrive, Wake, FirstAt, Stages, Typing, RunTyping
  <2>2. DialingStays
    <3>1. 0 \in 0..Len(backends)
      BY <1>1, ObjectsAre
    <3> QED
      BY <1>1, <2>1, <3>1, DialingStaysIf
  <2> QED
    BY <1>2, <1>5, <2>2 DEF Arrive, Wake, objects
<1>6. ASSUME NEW i \in DOMAIN found, Look(i)
      PROVE  FileFollows'
  <2>1. found[i].stage # "dialing"
        /\ (Done(i) \/ \E s \in Stages, b \in 0..Len(backends) : Stage(i, s, b))
    <3>1. found[i].id \in Keys /\ 0 \in 0..Len(backends)
          /\ (Known(found[i].id) => BackendOf(found[i].id) \in 0..Len(backends))
      BY <1>1, QueueIs, ObjectsAre
    <3> QED
      BY <1>1, <1>6, <3>1, LookIs DEF Stages
  <2>2. DialingStays
    BY <1>1, <2>1, DialingStaysIf
  <2> QED
    BY <1>2, <1>6, <2>2 DEF Look, objects
<1>7. ASSUME NEW i \in DOMAIN found, Created(i)
      PROVE  FileFollows'
  <2>1. DialingStays
    BY <1>1, <1>7, CreatedIs, DialingStaysIf
  <2>2. CASE UNCHANGED <<backends, confs, devices, file, rebacked, dropped, unsaved>>
    BY <1>2, <2>1, <2>2
  <2>3. CASE TablesOK' /\ \E k \in Keys : AddedAs(k, NewLink(found[i].addr))
    BY <2>1, <2>3, FileAdded
  <2> QED
    BY <1>1, <1>7, <2>2, <2>3, CreatedIs
<1>8. ASSUME Built
      PROVE  FileFollows'
  <2>1. DialingStays
    BY <1>3, <1>8 DEF Built
  <2> QED
    BY <1>1, <1>8, <2>1, BuiltIs, FileAdded
<1>9. ASSUME NEW i \in DOMAIN found, Closed(i)
      PROVE  FileFollows'
  <2> DEFINE d == found[i].id
  <2>1. found[i].stage \in Moving /\ found[i].stage = "closing"
    BY <1>9 DEF Closed, Moving
  <2>2. OnItsOwn(i) /\ BackendOf(d) \in 0..Len(backends)
    BY <1>1, <2>1, MovingIs
  <2>3. /\ \A k \in Keys \ {d} : Known(k) => confs'[devices[k]] = ConfOf(k)
        /\ devices' = devices /\ Stage(i, "dialing", BackendOf(d))
    BY <1>1, <1>9, <2>2, ClosedIs
  <2>4. file' = file /\ unsaved' = unsaved
    BY <1>9 DEF Closed
  <2>5. "dialing" \in Stages
    BY DEF Stages
  <2>6. DialingStays
    BY <1>1, <2>1, <2>2, <2>3, <2>5, DialingStaysIf
  <2>7. i \in DOMAIN found' /\ found'[i].id = d /\ found'[i].stage = "dialing"
    BY <1>1, <2>2, <2>3, <2>5, StageIs
  <2> SUFFICES ASSUME NEW k \in Keys, devices'[k] # 0, k \notin unsaved'
               PROVE  \/ [id |-> k, addr |-> confs'[devices'[k]].addr] \in file'
                      \/ \E j \in DOMAIN found' : found'[j].id = k /\ found'[j].stage = "dialing"
    BY DEF FileFollows, InFile, Known, ConfOf
  <2>8. CASE k = d
    BY <2>7, <2>8
  <2>9. CASE k # d
    <3>1. Known(k) /\ k \notin unsaved /\ confs'[devices'[k]] = ConfOf(k)
      BY <2>3, <2>4, <2>9 DEF Known
    <3>2. \/ [id |-> k, addr |-> ConfOf(k).addr] \in file
          \/ \E j \in DOMAIN found : found[j].id = k /\ found[j].stage = "dialing"
      BY <3>1 DEF FileFollows, InFile
    <3> QED
      BY <2>4, <2>6, <3>1, <3>2 DEF DialingStays
  <2> QED
    BY <2>8, <2>9
<1>10. ASSUME NEW i \in DOMAIN found, Left(i)
       PROVE  FileFollows'
  <2>1. found[i].stage \in Moving /\ found[i].stage = "leaving"
        /\ Stage(i, "returning", BackendOf(found[i].id))
    BY <1>1, <1>10, LeftIs DEF Left
  <2>2. BackendOf(found[i].id) \in 0..Len(backends) /\ "returning" \in Stages
    BY <1>1, <2>1, MovingIs DEF Stages
  <2>3. DialingStays
    BY <1>1, <2>1, <2>2, DialingStaysIf
  <2> QED
    BY <1>2, <1>10, <2>3 DEF Left
<1>11. ASSUME NEW i \in DOMAIN found, Returned(i)
       PROVE  FileFollows'
  <2>1. DialingStays
    BY <1>1, <1>11, DialingStaysIf DEF Returned
  <2> QED
    BY <1>2, <1>11, <2>1 DEF Returned
<1>12. ASSUME NEW i \in DOMAIN found, Dialed(i)
       PROVE  FileFollows'
  <2>1. LinksStay /\ UNCHANGED <<confs, devices>> /\ file' = Saved(confs', devices')
    BY <1>1, <1>12, DialedIs DEF Dialed
  <2> QED
    BY <1>1, <2>1, LinksStayKeeps, FileSaved
<1>13. ASSUME NEW k \in Keys, Renamed(k)
       PROVE  FileFollows'
  <2>1. UNCHANGED <<backends, confs, devices>> /\ file' = Saved(confs', devices')
    BY <1>13 DEF Renamed
  <2> QED
    BY <1>1, <2>1, TablesStay, FileSaved
<1>14. ASSUME NEW e \in loading, Load(e)
       PROVE  FileFollows'
  <2>1. DialingStays /\ file' = file
    BY <1>3, <1>14 DEF Load
  <2>2. PICK k \in Keys, b \in Links :
           /\ Filed(k, b) /\ b.addr = e.addr
           /\ unsaved' = unsaved \/ unsaved' = unsaved \cup {k}
           /\ k \notin unsaved' => [id |-> k, addr |-> e.addr] \in file
    BY <1>1, <1>14, LoadIs
  <2> QED
    BY <2>1, <2>2, FileFiled
<1>15. ASSUME Restart
       PROVE  FileFollows'
  BY <1>15 DEF Restart, FileFollows, Known
<1>16. ASSUME \/ \E a \in Addresses : Depart(a) \/ Build(a) \/ \E d \in Ids : Appear(d, a)
              \/ \E b \in DOMAIN backends : LinkLost(b)
              \/ Start \/ Listen \/ Started
              \/ \E s \in Stops : Stop(s) \/ Unlisten(s) \/ Stopped(s)
       PROVE  FileFollows'
  <2> DEFINE Same == UNCHANGED <<devices, confs, file, unsaved, found>>
  <2>1. /\ \A a \in Addresses : Depart(a) => Same
        /\ \A a \in Addresses : Build(a) => Same
        /\ \A a \in Addresses, d \in Ids : Appear(d, a) => Same
        /\ \A b \in DOMAIN backends : LinkLost(b) => Same
    BY DEF Depart, Build, Appear, LinkLost, objects
  <2>2. Start \/ Listen \/ Started => Same
    BY DEF Start, Listen, Started, objects
  <2>3. \A s \in Stops : Stop(s) \/ Unlisten(s) \/ Stopped(s) => Same
    BY DEF Stop, Unlisten, Stopped, objects
  <2>4. Same
    BY <1>16, <2>1, <2>2, <2>3
  <2> QED
    BY <1>2, <1>3, <2>4
<1>17. \A i \in DOMAIN found : Handle(i) => FileFollows'
  BY <1>5, <1>6, <1>7, <1>9, <1>10, <1>11, <1>12 DEF Handle
<1> QED
  BY <1>4, <1>8, <1>13, <1>14, <1>15, <1>16, <1>17 DEF Next, System

-----------------------------------------------------------------------------
(* Where the devices are.                                                  *)

(* A device is at one address at most.                                     *)
LEMMA OnePlaceStep ==
  ASSUME Typing, OnePlace, Next
  PROVE  OnePlace'
<1>1. ASSUME NEW a \in Addresses, NEW d \in Ids, Appear(d, a)
      PROVE  OnePlace'
  BY <1>1 DEF Appear, Present, OnePlace, Typing, NetworkTyping
<1>2. ASSUME NEW a \in Addresses, Depart(a)
      PROVE  OnePlace'
  BY <1>2 DEF Depart, OnePlace, Typing, NetworkTyping
<1>3. ASSUME where' = where
      PROVE  OnePlace'
  BY <1>3 DEF OnePlace
<1>4. \A i \in DOMAIN found : Handle(i) => where' = where
  <2>1. \A i \in DOMAIN found : Arrive(i) \/ Wake(i) \/ Look(i) \/ Created(i) => where' = where
    BY DEF Arrive, Wake, Look, Created, network
  <2>2. \A i \in DOMAIN found : Closed(i) \/ Dialed(i) \/ Left(i) \/ Returned(i) => where' = where
    BY DEF Closed, Dialed, Left, Returned, network
  <2> QED
    BY <2>1, <2>2 DEF Handle
<1>5. Built \/ (\E e \in loading : Load(e)) \/ Listen \/ Started => where' = where
  BY DEF Built, Load, Listen, Started, network
<1>6. /\ Start \/ Restart => where' = where
      /\ \A s \in Stops : Stop(s) \/ Unlisten(s) \/ Stopped(s) => where' = where
  BY DEF Unlisten, Stopped, Start, Stop, Restart, network
<1>7. \A a \in Addresses, d \in Ids : Build(a) \/ Report(d, a) => where' = where
  BY DEF Build, Report, network
<1>8. (\E b \in DOMAIN backends : LinkLost(b)) \/ (\E k \in Keys : Renamed(k)) => where' = where
  BY DEF LinkLost, Renamed, network
<1>9. \A a \in Addresses : Build(a) => where' = where
  BY DEF Build, network
<1> QED
  BY <1>1, <1>2, <1>3, <1>4, <1>5, <1>6, <1>7, <1>8, <1>9 DEF Next, System

(* What is the last discovery of a device depends on the ids alone.        *)
LEMMA LastIs ==
  ASSUME DOMAIN found' = DOMAIN found, \A j \in DOMAIN found : found'[j].id = found[j].id
  PROVE  \A j \in DOMAIN found : IsLast(j)' <=> IsLast(j)
BY DEF IsLast

(* A device that was reached still is.                                     *)
LEMMA ReachedStays ==
  ASSUME Typing, NEW d \in Keys, NEW a, Reached(d, a), devices'[d] = devices[d],
         confs'[devices[d]].addr = ConfOf(d).addr,
         confs'[devices[d]].backend = BackendOf(d),
         rebacked \subseteq rebacked',
         backends[BackendOf(d)].up => backends'[BackendOf(d)].up \/ BackendOf(d) \in lost',
         BackendOf(d) \in lost => BackendOf(d) \in lost'
  PROVE  Reached(d, a)'
BY DEF Reached, Known, ConfOf, BackendOf

(* Nothing happens to the devices.                                         *)
LEMMA FollowsSame ==
  ASSUME Typing, NEW d \in Keys, NEW a, Follows(d, a),
         UNCHANGED <<found, devices, confs, rebacked>>,
         \A b \in DOMAIN backends :
           /\ backends[b].up => backends'[b].up \/ b \in lost'
           /\ b \in lost => b \in lost'
  PROVE  Follows(d, a)'
<1>1. Reached(d, a) => Reached(d, a)'
  BY ObjectsAre, ReachedStays DEF ConfOf, BackendOf, Reached
<1> QED
  BY <1>1 DEF Follows, IsLast, ConfOf

(* A discovery comes to another stage, where the device has its address if *)
(* it is to be connected.                                                  *)
LEMMA FollowsStage ==
  ASSUME Typing, NEW d \in Keys, NEW a, Follows(d, a),
         NEW i \in DOMAIN found, NEW s \in Stages, NEW b \in 0..Len(backends),
         Stage(i, s, b), UNCHANGED <<devices, confs>>,
         s \in Moving \ {"closing"} =>
           ConfOf(found[i].id).addr = found[i].addr \/ found[i].stage \in Moving \ {"closing"},
         d # found[i].id /\ Reached(d, a) => Reached(d, a)'
  PROVE  Follows(d, a)'
<1>1. /\ DOMAIN found' = DOMAIN found
      /\ found'[i].id = found[i].id /\ found'[i].addr = found[i].addr /\ found'[i].stage = s
      /\ \A j \in DOMAIN found : j # i => found'[j] = found[j]
  BY StageIs
<1>2. \A j \in DOMAIN found : /\ found'[j].id = found[j].id /\ found'[j].addr = found[j].addr
                              /\ IsLast(j)' <=> IsLast(j)
  BY <1>1, LastIs
<1>3. ASSUME NEW j \in DOMAIN found, found[j].id = d, IsLast(j)
      PROVE  found[j].addr = a /\ (found'[j].stage \in Moving \ {"closing"} => ConfOf(d).addr = a)
  BY <1>1, <1>3 DEF Follows
<1>4. (\A j \in DOMAIN found : found[j].id # d) => Reached(d, a)'
  BY DEF Follows
<1> QED
  BY <1>1, <1>2, <1>3, <1>4 DEF Follows, ConfOf

(* The first discovery is over, and if it was the only one of the device,  *)
(* the device was reached.                                                 *)
LEMMA FollowsDone ==
  ASSUME Typing, TurnsOK, NEW d \in Keys, NEW a, Follows(d, a),
         NEW i \in DOMAIN found, i = 1, Done(i),
         d # found[i].id /\ Reached(d, a) => Reached(d, a)',
         (/\ d = found[i].id /\ found[i].addr = a
          /\ found[i].stage \in Moving \ {"closing"} => ConfOf(d).addr = a)
           => Reached(d, a)'
  PROVE  Follows(d, a)'
<1>1. /\ DOMAIN found = 1..Len(found) /\ Len(found) \in Nat
      /\ DOMAIN found' = 1..(Len(found) - 1)
      /\ \A k \in DOMAIN found' : k + 1 \in DOMAIN found /\ found'[k] = found[k + 1]
      /\ \A k \in DOMAIN found : k # 1 => k - 1 \in DOMAIN found' /\ found'[k - 1] = found[k]
  <2>1. /\ DOMAIN found = 1..Len(found) /\ Len(found) \in Nat
        /\ DOMAIN found' = 1..(Len(found) - 1)
        /\ \A k \in DOMAIN found' : From(i, k) \in DOMAIN found /\ found'[k] = found[From(i, k)]
    BY QueueIs, DoneIs
  <2>2. \A k \in DOMAIN found' : From(i, k) = k + 1
    BY <2>1 DEF From
  <2>3. \A k \in DOMAIN found : k # 1 => k - 1 \in DOMAIN found' /\ (k - 1) + 1 = k
    BY <2>1
  <2> QED
    BY <2>1, <2>2, <2>3
<1>2. ASSUME NEW k \in DOMAIN found', found'[k].id = d, IsLast(k)'
      PROVE  /\ found'[k].addr = a
             /\ found'[k].stage \in Moving \ {"closing"} => ConfOf(d)'.addr = a
  <2>1. IsLast(k + 1) /\ found[k + 1].id = d /\ k + 1 \in DOMAIN found /\ k + 1 # 1
    <3>1. k + 1 \in DOMAIN found /\ found[k + 1].id = d /\ k + 1 # 1 /\ k \in Nat
      BY <1>1, <1>2
    <3>2. ASSUME NEW j \in DOMAIN found, found[j].id = d
          PROVE  j <= k + 1
      <4>1. CASE j = 1
        BY <3>1, <4>1
      <4>2. CASE j # 1
        <5>1. j - 1 \in DOMAIN found' /\ found'[j - 1].id = d
          BY <1>1, <3>2, <4>2
        <5>2. j - 1 <= k
          BY <1>2, <5>1 DEF IsLast
        <5> QED
          BY <1>1, <3>1, <5>2
      <4> QED
        BY <4>1, <4>2
    <3> QED
      BY <3>1, <3>2 DEF IsLast
  <2>2. found[k + 1].stage \notin Moving
    BY <2>1, StagesAre DEF TurnsOK
  <2> QED
    BY <1>1, <2>1, <2>2 DEF Follows
<1>3. ASSUME \A k \in DOMAIN found' : found'[k].id # d
      PROVE  Reached(d, a)'
  <2>1. \A k \in DOMAIN found : found[k].id = d => k = i
    BY <1>1, <1>3
  <2>2. CASE found[i].id = d
    <3>1. IsLast(i)
      BY <1>1, <2>1, <2>2 DEF IsLast
    <3> QED
      BY <2>2, <3>1 DEF Follows
  <2>3. CASE found[i].id # d
    BY <2>1, <2>3 DEF Follows
  <2> QED
    BY <2>2, <2>3
<1> QED
  BY <1>2, <1>3 DEF Follows

(* A device was filed that was connected where it is.                      *)
LEMMA ReachedFiled ==
  ASSUME Typing, NEW d \in Keys, NEW a, NEW k \in Keys, NEW b, AddedAs(k, b), lost' = lost
  PROVE  /\ d # k /\ Reached(d, a) => Reached(d, a)'
         /\ d = k /\ b.addr = a /\ b.up => Reached(d, a)'
<1>1. ASSUME d # k, Reached(d, a) PROVE Reached(d, a)'
  <2>1. BackendOf(d) \in DOMAIN backends
    BY <1>1, ObjectsAre DEF Reached
  <2> QED
    BY <1>1, <2>1, ReachedStays DEF AddedAs, Filed, Reached, ConfOf, BackendOf
<1>2. ASSUME d = k, b.addr = a, b.up PROVE Reached(d, a)'
  BY <1>2 DEF AddedAs, Filed, Reached, Known, ConfOf, BackendOf
<1> QED
  BY <1>1, <1>2

(* A device is found at one address: filed there, it has that one.         *)
LEMMA AddedWhere ==
  ASSUME Typing, OnePlace, NEW a \in Addresses, NEW d \in Ids, where[a] = d,
         NEW o \in Addresses, NEW k \in Keys, AddedAs(k, NewLink(o)), k = d
  PROVE  o = a /\ NewLink(o).addr = a /\ NewLink(o).up
<1>1. d # None /\ d \notin Temps
  BY DEF Keys
<1>2. /\ NewLink(o).addr = o /\ NewLink(o).id = where[o]
      /\ NewLink(o).up <=> where[o] # None
  BY NewLinkIs
<1>3. where[o] = d
  BY <1>1, <1>2 DEF AddedAs
<1> QED
  BY <1>1, <1>2, <1>3 DEF OnePlace

(* A start() that goes on or is over did before, unless it has just heard  *)
(* of everything; and meanwhile nothing is loaded.                         *)
LEMMA ActiveBefore ==
  ASSUME Typing, PhasesOK, Active',
         UNCHANGED <<manager, starter, listening>>, intruded => intruded'
  PROVE  Active /\ loading = {}
<1>1. Active
  BY DEF Active
<1> QED
  BY <1>1 DEF Active, PhasesOK

(* The devices are followed, whatever happens.                             *)
LEMMA FollowsStep ==
  ASSUME Core, OnePlace, DevicesFollow, Next
  PROVE  DevicesFollow'
<1> SUFFICES ASSUME Active', NEW a \in Addresses, NEW d \in Ids,
                    d \notin unreported', where'[a] = d
             PROVE  Follows(d, a)'
  BY DEF DevicesFollow
<1>1. Typing /\ ObjectsOK /\ QueueOK /\ TurnsOK /\ PhasesOK /\ d \in Keys /\ d # None
  BY ObjectsAre DEF Core, QueueOK
<1>2. ASSUME UNCHANGED <<manager, starter, listening>>, intruded => intruded',
             where[a] = d, d \notin unreported
      PROVE  Active /\ Follows(d, a) /\ loading = {} /\ ~intruded
             /\ manager \in {"connecting", "connected"}
  BY <1>1, <1>2, ActiveBefore DEF DevicesFollow, Active
<1>3. ASSUME NEW e \in Ids, NEW o \in Addresses, Appear(e, o)
      PROVE  Follows(d, a)'
  <2>1. d # e /\ where[a] = d /\ d \notin unreported
    BY <1>1, <1>3 DEF Appear, Typing, NetworkTyping
  <2>2. UNCHANGED <<manager, starter, listening, intruded, found, devices, confs, rebacked,
                    backends, lost>>
    BY <1>3 DEF Appear, objects, start
  <2> QED
    BY <1>1, <1>2, <2>1, <2>2, FollowsSame
<1>4. ASSUME NEW o \in Addresses, Depart(o)
      PROVE  Follows(d, a)'
  <2>1. where[a] = d /\ d \notin unreported
    BY <1>1, <1>4 DEF Depart, OnePlace, Typing, NetworkTyping
  <2>2. UNCHANGED <<manager, starter, listening, intruded, found, devices, confs, rebacked,
                    backends, lost>>
    BY <1>4 DEF Depart, objects, start
  <2> QED
    BY <1>1, <1>2, <2>1, <2>2, FollowsSame
<1>5. ASSUME NEW o \in Addresses, Build(o)
      PROVE  Follows(d, a)'
  <2>1. UNCHANGED <<manager, starter, listening, found, devices, confs, rebacked,
                    backends, lost, where, unreported>>
    BY <1>5 DEF Build, objects, start, network
  <2>2. intruded => intruded'
    BY <1>5 DEF Build
  <2> QED
    BY <1>1, <1>2, <2>1, <2>2, FollowsSame
<1>6. ASSUME NEW k \in Keys, Renamed(k)
      PROVE  Follows(d, a)'
  <2>1. UNCHANGED <<manager, starter, listening, intruded, found, devices, confs, rebacked,
                    backends, lost, where, unreported>>
    BY <1>6 DEF Renamed, start, network
  <2> QED
    BY <1>1, <1>2, <2>1, FollowsSame
<1>7. ASSUME NEW b \in DOMAIN backends, LinkLost(b)
      PROVE  Follows(d, a)'
  <2>1. UNCHANGED <<manager, starter, listening, intruded, found, devices, confs, rebacked,
                    where, unreported>> /\ lost' = lost \cup {b}
    BY <1>7 DEF LinkLost, start, network
  <2>2. \A j \in DOMAIN backends : j # b => backends'[j] = backends[j]
    BY <1>1, <1>7, DownIs DEF LinkLost
  <2> QED
    BY <1>1, <1>2, <2>1, <2>2, FollowsSame
<1>8. ASSUME NEW e \in Ids, NEW o \in Addresses, Report(e, o)
      PROVE  Follows(d, a)'
  <2> DEFINE m == [id |-> e, addr |-> o, stage |-> "new", backend |-> 0]
  <2>1. UNCHANGED <<manager, starter, listening, intruded, devices, confs, rebacked,
                    backends, lost, where>>
        /\ where[o] = e /\ unreported' = unreported \ {e} /\ found' = Append(found, m)
    BY <1>8 DEF Report, objects, start, network
  <2>2. m \in Discoveries(Len(backends)) /\ m.id = e /\ m.addr = o /\ m.stage = "new"
    BY <1>1, ObjectsAre DEF Discoveries, Stages
  <2> HIDE DEF m
  <2>3. /\ DOMAIN found = 1..Len(found) /\ Len(found) \in Nat
        /\ DOMAIN found' = 1..(Len(found) + 1) /\ found'[Len(found) + 1] = m
        /\ \A j \in DOMAIN found : found'[j] = found[j]
    BY <1>1, <2>1, <2>2, OneMore DEF Typing, QueueTyping
  <2>4. CASE d = e
    <3>1. o = a
      BY <1>1, <2>1, <2>4 DEF OnePlace
    <3>2. \A j \in DOMAIN found' : found'[j].id = d /\ IsLast(j)' => j = Len(found) + 1
      BY <2>2, <2>3, <2>4 DEF IsLast
    <3>3. Len(found) + 1 \in DOMAIN found' /\ "new" \notin Moving
      BY <2>3 DEF Moving
    <3> QED
      BY <2>2, <2>3, <2>4, <3>1, <3>2, <3>3 DEF Follows
  <2>5. CASE d # e
    <3>1. Follows(d, a)
      BY <1>2, <2>1, <2>5
    <3>2. Reached(d, a) => Reached(d, a)'
      BY <2>1 DEF Reached, Known, ConfOf, BackendOf
    <3>3. \A j \in DOMAIN found' : found'[j].id = d => j \in DOMAIN found /\ found'[j] = found[j]
      BY <2>2, <2>3, <2>5
    <3>4. \A j \in DOMAIN found : found[j].id = d /\ IsLast(j)' => IsLast(j)
      BY <2>3, <3>3 DEF IsLast
    <3> QED
      BY <2>1, <2>3, <3>1, <3>2, <3>3, <3>4 DEF Follows, ConfOf
  <2> QED
    BY <2>4, <2>5
<1>9. ASSUME NEW i \in DOMAIN found, Arrive(i) \/ Wake(i)
      PROVE  Follows(d, a)'
  <2>1. UNCHANGED <<manager, starter, listening, intruded, devices, confs, rebacked,
                    backends, lost, where, unreported>>
    BY <1>9 DEF Arrive, Wake, objects, start, network
  <2>2. \E s \in {"waits", "passed"} : Stage(i, s, 0)
    BY <1>1, <1>2, <1>9, <2>1 DEF Arrive, Wake
  <2>3. {"waits", "passed"} \subseteq Stages \ Moving /\ 0 \in 0..Len(backends)
    BY <1>1, ObjectsAre DEF Stages, Moving
  <2>4. Reached(d, a) => Reached(d, a)'
    BY <2>1 DEF Reached, Known, ConfOf, BackendOf
  <2> QED
    BY <1>1, <1>2, <2>1, <2>2, <2>3, <2>4, FollowsStage
<1>10. ASSUME NEW i \in DOMAIN found, Look(i)
       PROVE  Follows(d, a)'
  <2> DEFINE e == found[i].id
  <2>1. UNCHANGED <<manager, starter, listening, intruded, devices, confs, rebacked,
                    backends, lost, where, unreported>>
    BY <1>10 DEF Look, objects, start, network
  <2>2. Reached(d, a) => Reached(d, a)'
    BY <2>1 DEF Reached, Known, ConfOf, BackendOf
  <2>3. Follows(d, a)
    BY <1>2, <2>1
  <2>4. CASE /\ Known(e) /\ ConfOf(e).addr = found[i].addr /\ backends[BackendOf(e)].up
             /\ Done(i)
    <3>1. d = e /\ found[i].addr = a => Reached(d, a)
      BY <2>4 DEF Reached
    <3>2. i = 1
      BY <1>1, <1>10, LookIs
    <3> QED
      BY <1>1, <2>2, <2>3, <2>4, <3>1, <3>2, FollowsDone
  <2>5. CASE \E s \in Stages, b \in 0..Len(backends) :
               /\ Stage(i, s, b)
               /\ s \in Moving \ {"closing"} => ConfOf(e).addr = found[i].addr
    BY <1>1, <2>1, <2>2, <2>3, <2>5, FollowsStage
  <2>6. \/ /\ Known(e) /\ ConfOf(e).addr = found[i].addr /\ backends[BackendOf(e)].up
           /\ Done(i)
        \/ \E s \in Stages, b \in 0..Len(backends) :
             /\ Stage(i, s, b)
             /\ s \in Moving \ {"closing"} => ConfOf(e).addr = found[i].addr
    <3>1. e \in Keys /\ 0 \in 0..Len(backends)
          /\ (Known(e) => BackendOf(e) \in 0..Len(backends))
      BY <1>1, QueueIs, ObjectsAre
    <3>2. {"creating", "closing", "leaving"} \subseteq Stages /\ "creating" \notin Moving
      BY DEF Stages, Moving
    <3> QED
      BY <1>1, <1>10, <3>1, <3>2, LookIs
  <2> QED
    BY <2>4, <2>5, <2>6
<1>11. ASSUME NEW i \in DOMAIN found, Created(i)
       PROVE  Follows(d, a)'
  <2> DEFINE o == found[i].addr
  <2>1. UNCHANGED <<manager, starter, listening, intruded, lost, where, unreported>>
    BY <1>11 DEF Created, start, network
  <2>2. /\ found[i].stage = "creating" /\ Done(i) /\ o \in Addresses
        /\ \/ /\ where[o] = found[i].id /\ \E k \in Keys : AddedAs(k, NewLink(o))
           \/ /\ where[o] # found[i].id
              /\ UNCHANGED <<backends, confs, devices, file, rebacked, dropped, unsaved>>
    BY <1>1, <1>11, CreatedIs
  <2>3. i = 1 /\ found[i].id \in Ids
    BY <1>1, <2>2, QueueIs, StagesAre DEF TurnsOK
  <2>4. Follows(d, a) /\ where[a] = d
    BY <1>2, <2>1
  <2>5. CASE /\ where[o] # found[i].id
             /\ UNCHANGED <<backends, confs, devices, file, rebacked, dropped, unsaved>>
    <3>1. Reached(d, a) => Reached(d, a)'
      BY <2>1, <2>5 DEF Reached, Known, ConfOf, BackendOf
    <3> QED
      BY <1>1, <2>2, <2>3, <2>4, <2>5, <3>1, FollowsDone
  <2>6. CASE where[o] = found[i].id /\ \E k \in Keys : AddedAs(k, NewLink(o))
    <3>1. PICK k \in Keys : AddedAs(k, NewLink(o))
      BY <2>6
    <3>2. k = found[i].id
      <4>1. NewLink(o).id = found[i].id /\ found[i].id # None
        BY <1>1, <2>2, <2>3, <2>6, NewLinkIs, ObjectsAre
      <4> QED
        BY <3>1, <4>1 DEF AddedAs
    <3>3. d # found[i].id /\ Reached(d, a) => Reached(d, a)'
      BY <1>1, <2>1, <3>1, <3>2, ReachedFiled
    <3>4. d = found[i].id => Reached(d, a)'
      BY <1>1, <2>1, <2>2, <2>4, <3>1, <3>2, AddedWhere, ReachedFiled
    <3> QED
      BY <1>1, <2>2, <2>3, <2>4, <3>3, <3>4, FollowsDone
  <2> QED
    BY <2>2, <2>5, <2>6
<1>12. ASSUME Built
       PROVE  Follows(d, a)'
  <2>1. UNCHANGED <<manager, starter, listening, intruded, lost, where, unreported, found>>
    BY <1>12 DEF Built, start, network
  <2>2. Follows(d, a) /\ where[a] = d
    BY <1>2, <2>1
  <2>3. builder \in Addresses
    BY <1>1, <1>12, BuiltIs
  <2>4. PICK k \in Keys : AddedAs(k, NewLink(builder))
    BY <1>1, <1>12, BuiltIs
  <2>5. (\A j \in DOMAIN found : found[j].id # d) => Reached(d, a)'
    BY <1>1, <2>1, <2>2, <2>3, <2>4, AddedWhere, ReachedFiled DEF Follows
  <2>6. ASSUME NEW j \in DOMAIN found, found[j].id = d, IsLast(j),
               found[j].stage \in Moving \ {"closing"}
        PROVE  confs'[devices'[d]].addr = a
    <3>1. ConfOf(d).addr = a
      BY <2>2, <2>6 DEF Follows
    <3>2. CASE k = d
      <4>1. NewLink(builder).addr = a
        BY <1>1, <2>2, <2>3, <2>4, <3>2, AddedWhere
      <4> QED
        BY <2>4, <3>2, <4>1 DEF AddedAs, Filed
    <3>3. CASE k # d
      <4>1. Known(d)
        BY <1>1, <2>6, MovingIs
      <4> QED
        BY <1>1, <2>4, <3>1, <3>3, <4>1 DEF AddedAs, Filed, ConfOf
    <3> QED
      BY <3>2, <3>3
  <2> QED
    BY <2>1, <2>2, <2>5, <2>6 DEF Follows, IsLast, ConfOf
<1>13. ASSUME NEW i \in DOMAIN found, Closed(i)
       PROVE  Follows(d, a)'
  <2> DEFINE e == found[i].id
             b == BackendOf(e)
  <2>1. UNCHANGED <<manager, starter, listening, intruded, where, unreported, rebacked>>
        /\ found[i].stage \in Moving
    BY <1>13 DEF Closed, start, network, Moving
  <2>2. Follows(d, a)
    BY <1>2, <2>1
  <2>3. i = 1 /\ OnItsOwn(i) /\ e \in Keys /\ Known(e) /\ b \in 0..Len(backends)
    BY <1>1, <2>1, MovingIs
  <2>4. /\ \A k \in Keys : Known(k) => confs'[devices[k]].backend = BackendOf(k)
        /\ \A k \in Keys \ {e} : Known(k) => confs'[devices[k]] = ConfOf(k)
        /\ confs'[devices[e]].addr = found[i].addr
        /\ \A j \in DOMAIN backends : j # found[i].backend => backends'[j].up = backends[j].up
        /\ devices' = devices /\ lost' = lost \ {b} /\ Stage(i, "dialing", b)
    BY <1>1, <1>13, <2>3, ClosedIs
  <2>5. /\ DOMAIN found' = DOMAIN found
        /\ found'[i].id = found[i].id /\ found'[i].addr = found[i].addr
        /\ \A j \in DOMAIN found : j # i => found'[j] = found[j]
    <3>1. "dialing" \in Stages
      BY DEF Stages
    <3> QED
      BY <1>1, <2>3, <2>4, <3>1, StageIs
  <2>6. \A j \in DOMAIN found : /\ found'[j].id = found[j].id /\ found'[j].addr = found[j].addr
                                /\ IsLast(j)' <=> IsLast(j)
    BY <2>5, LastIs
  <2>7. ASSUME NEW j \in DOMAIN found, found[j].id = d, IsLast(j)
        PROVE  /\ found[j].addr = a
               /\ found'[j].stage \in Moving \ {"closing"} => confs'[devices'[d]].addr = a
    <3>1. found[j].addr = a
      BY <2>2, <2>7 DEF Follows
    <3>2. CASE j = i
      BY <2>4, <2>7, <3>1, <3>2
    <3>3. CASE j # i
      BY <1>1, <2>3, <2>5, <3>1, <3>3, StagesAre DEF TurnsOK
    <3> QED
      BY <3>2, <3>3
  <2>8. ASSUME \A j \in DOMAIN found : found[j].id # d
        PROVE  Reached(d, a)'
    <3>1. Reached(d, a) /\ d # e
      BY <2>2, <2>8 DEF Follows
    <3>2. Known(d) /\ BackendOf(d) \in DOMAIN backends
      BY <1>1, <3>1, ObjectsAre DEF Reached
    <3>3. BackendOf(d) # found[i].backend
      BY <1>1, <2>3, <3>1, <3>2 DEF OnItsOwn
    <3>4. BackendOf(d) # b
      BY <1>1, <2>3, <3>1, <3>2, ObjectsAre DEF ObjectsOK, ConfOf, BackendOf
    <3> QED
      BY <1>1, <2>1, <2>4, <3>1, <3>2, <3>3, <3>4, ReachedStays DEF ConfOf, BackendOf
  <2> QED
    BY <2>5, <2>6, <2>7, <2>8 DEF Follows, ConfOf
<1>14. ASSUME NEW i \in DOMAIN found, Left(i)
       PROVE  Follows(d, a)'
  <2> DEFINE e == found[i].id
             b == BackendOf(e)
  <2>1. UNCHANGED <<manager, starter, listening, intruded, where, unreported, rebacked,
                    confs, devices>>
        /\ found[i].stage \in Moving \ {"closing"}
    BY <1>14 DEF Left, start, network, Moving
  <2>2. Follows(d, a)
    BY <1>2, <2>1
  <2>3. OnItsOwn(i) /\ e \in Keys /\ Known(e) /\ b \in 0..Len(backends)
    BY <1>1, <2>1, MovingIs
  <2>4. /\ \A j \in DOMAIN backends : j # found[i].backend => backends'[j] = backends[j]
        /\ lost' = lost \ {b} /\ Stage(i, "returning", b)
    BY <1>1, <1>14, LeftIs
  <2>5. ASSUME d # e, Reached(d, a)
        PROVE  Reached(d, a)'
    <3>1. Known(d) /\ BackendOf(d) \in DOMAIN backends
      BY <1>1, <2>5, ObjectsAre DEF Reached
    <3>2. BackendOf(d) # found[i].backend
      BY <1>1, <2>3, <2>5, <3>1 DEF OnItsOwn
    <3>3. BackendOf(d) # b
      BY <1>1, <2>3, <2>5, <3>1, ObjectsAre DEF ObjectsOK, ConfOf, BackendOf
    <3> QED
      BY <1>1, <2>1, <2>4, <2>5, <3>1, <3>2, <3>3, ReachedStays DEF ConfOf, BackendOf
  <2>6. "returning" \in Stages
    BY DEF Stages
  <2> QED
    BY <1>1, <2>1, <2>2, <2>3, <2>4, <2>5, <2>6, FollowsStage
<1>15. ASSUME NEW i \in DOMAIN found, Dialed(i) \/ Returned(i)
       PROVE  Follows(d, a)'
  <2> DEFINE e == found[i].id
             b == found[i].backend
  <2>1. /\ found[i].stage \in Moving /\ Done(i) /\ b \in DOMAIN backends
        /\ \A j \in DOMAIN backends : j # b => backends'[j] = backends[j]
        /\ backends'[b].up <=> backends[b].up \/ where[backends[b].addr] # None
        /\ UNCHANGED <<where, unreported, confs, devices, manager, starter, listening,
                       rebacked, lost, intruded>>
    BY <1>1, <1>15, DialedIs
  <2>2. Follows(d, a) /\ where[a] = d /\ ~intruded
    BY <1>2, <2>1
  <2>3. i = 1 /\ OnItsOwn(i) /\ e \in Keys /\ Known(e)
    BY <1>1, <2>1, MovingIs
  <2>4. ASSUME d # e, Reached(d, a)
        PROVE  Reached(d, a)'
    <3>1. Known(d) /\ BackendOf(d) \in DOMAIN backends
      BY <1>1, <2>4, ObjectsAre DEF Reached
    <3>2. BackendOf(d) # b
      BY <1>1, <2>4, <2>3, <3>1 DEF OnItsOwn
    <3> QED
      BY <1>1, <2>1, <2>4, <3>1, <3>2, ReachedStays DEF ConfOf, BackendOf
  <2>5. ASSUME d = e, found[i].addr = a,
               found[i].stage \in Moving \ {"closing"} => ConfOf(d).addr = a
        PROVE  Reached(d, a)'
    <3>1. ConfOf(d).addr = a
      BY <1>15, <2>1, <2>5 DEF Dialed, Returned
    <3>2. ASSUME d \notin rebacked
          PROVE  BackendOf(d) = b /\ backends'[b].up
      <4>1. BackendOf(d) = b
        BY <2>2, <2>3, <2>5, <3>2 DEF OnItsOwn
      <4>2. backends[b].addr = a
        BY <1>1, <2>3, <2>5, <3>1, <4>1, ObjectsAre DEF ObjectsOK, ConfOf, BackendOf
      <4> QED
        BY <1>1, <2>1, <2>2, <4>1, <4>2
    <3> QED
      BY <2>1, <2>3, <2>5, <3>1, <3>2 DEF Reached, Known, ConfOf, BackendOf
  <2> QED
    BY <1>1, <2>1, <2>2, <2>3, <2>4, <2>5, FollowsDone
<1>16. ASSUME NEW e \in loading, Load(e)
       PROVE  FALSE
  <2>1. UNCHANGED <<manager, listening, intruded, where, unreported>>
    BY <1>16 DEF Load, network
  <2>2. starter' = starter \/ starter' = "failed"
    BY <1>16 DEF Load
  <2>3. starter' = starter
    BY <2>2 DEF Active
  <2> QED
    BY <1>1, <1>16, <2>1, <2>3, ActiveBefore
<1>17. ASSUME Listen
       PROVE  FALSE
  <2>1. starter' = "listening" /\ unreported' = {x \in Ids : Present(x)} /\ where' = where
    BY <1>17 DEF Listen, Active, network
  <2> QED
    BY <2>1 DEF Present
<1>18. ASSUME Started
       PROVE  Follows(d, a)'
  <2>1. UNCHANGED <<listening, intruded, found, devices, confs, rebacked,
                    backends, lost, where, unreported>> /\ starter = "listening"
    BY <1>18 DEF Started, objects, network
  <2>2. Active
    BY <1>1, <2>1 DEF Active, PhasesOK, Idle, Typing, RunTyping
  <2> QED
    BY <1>1, <2>1, <2>2, FollowsSame DEF DevicesFollow
<1>19. ~(Start \/ Restart \/ \E s \in Stops : Stop(s) \/ Unlisten(s) \/ Stopped(s))
  BY DEF Start, Stop, Unlisten, Stopped, Restart, Active
<1>20. \A i \in DOMAIN found : Handle(i) => Follows(d, a)'
  BY <1>9, <1>10, <1>11, <1>13, <1>14, <1>15 DEF Handle
<1> QED
  BY <1>3, <1>4, <1>5, <1>6, <1>7, <1>8, <1>12, <1>16, <1>17, <1>18, <1>19, <1>20
  DEF Next, System

-----------------------------------------------------------------------------
(* The invariant.                                                          *)

(* It holds when the program starts, with any file it may find.            *)
LEMMA InitInv == Init => Inv
<1> SUFFICES ASSUME Init PROVE Inv
  OBVIOUS
<1>1. /\ DOMAIN backends = {} /\ DOMAIN confs = {} /\ DOMAIN found = {}
      /\ Len(backends) = 0 /\ Len(confs) = 0
      /\ backends \in Seq(Links) /\ confs \in Seq(Records(0)) /\ found \in Seq(Discoveries(0))
  BY EmptySeq DEF Init
<1>2. file \subseteq Entries /\ entries \subseteq Entries
  BY DEF Init, Entries, Keys
<1>3. ObjectTyping /\ QueueTyping
  BY <1>1, <1>2 DEF Init, ObjectTyping, QueueTyping
<1>4. NetworkTyping /\ RunTyping /\ LinkTyping
  <2>1. MaxMoves \in Nat /\ MaxCalls \in Nat
    OBVIOUS
  <2>2. NetworkTyping
    BY <2>1 DEF Init, NetworkTyping
  <2>3. RunTyping
    BY <1>2 DEF Init, RunTyping
  <2>4. LinkTyping
    BY DEF Init, LinkTyping
  <2> QED
    BY <2>2, <2>3, <2>4
<1>5. ObjectsOK /\ QueueOK /\ AllKept /\ PhasesOK
  BY <1>1 DEF Init, ObjectsOK, QueueOK, TurnsOK, AllKept, PhasesOK, Idle, Known
<1>6. FileFollows /\ OnePlace /\ DevicesFollow
  BY DEF Init, FileFollows, Known, OnePlace, DevicesFollow, Active
<1> QED
  BY <1>3, <1>4, <1>5, <1>6 DEF Inv, Core, Typing

(* It is kept by every step.                                               *)
LEMMA InvStep ==
  ASSUME Inv, [Next]_vars
  PROVE  Inv'
<1>1. CASE Next
  BY <1>1, TypingStep, QueueStep, KeptStep, PhasesStep, FileStep, OnePlaceStep, FollowsStep
  DEF Inv, Core
<1>2. CASE UNCHANGED vars
  <2>1. Typing' /\ ObjectsOK'
    BY <1>2 DEF vars, Inv, Core, Typing, ObjectTyping, QueueTyping, NetworkTyping, RunTyping,
       LinkTyping, ObjectsOK, Known, ConfOf
  <2>2. QueueOK'
    BY <1>2 DEF vars, Inv, Core, QueueOK, TurnsOK, OnItsOwn, Known, BackendOf
  <2>3. AllKept'
    BY <1>2 DEF vars, Inv, Core, AllKept, Known, BackendOf
  <2>6. PhasesOK'
    BY <1>2 DEF vars, Inv, Core, PhasesOK, Idle, NoStop, Closes
  <2>4. FileFollows' /\ OnePlace'
    BY <1>2 DEF vars, Inv, FileFollows, InFile, Known, ConfOf, OnePlace
  <2>5. DevicesFollow'
    BY <1>2 DEF vars, Inv, DevicesFollow, Active, Follows, IsLast, Reached, Known, ConfOf,
       BackendOf
  <2> QED
    BY <2>1, <2>2, <2>3, <2>4, <2>5, <2>6 DEF Inv, Core
<1> QED
  BY <1>1, <1>2

(* The invariant of everything above holds in every state.                 *)
THEOREM Invariance == Spec => []Inv
<1>1. Init => Inv
  BY InitInv
<1>2. Inv /\ [Next]_vars => Inv'
  BY InvStep
<1> QED
  BY <1>1, <1>2, PTL DEF Spec

-----------------------------------------------------------------------------
(* The theorems.                                                           *)

(* The tables stay what they are; and discovery_lock has one holder.       *)
THEOREM TypeCorrect == Spec => []TypeOK
<1>1. ASSUME Inv PROVE TypeOK
  <2>1. /\ Typing /\ ObjectTyping /\ QueueTyping /\ NetworkTyping /\ RunTyping /\ LinkTyping
        /\ TurnsOK
    BY <1>1 DEF Inv, Core, Typing, QueueOK
  <2>2. \A i, j \in DOMAIN found :
          found[i].stage \in Holding /\ found[j].stage \in Holding => i = j
    BY <2>1 DEF TurnsOK
  <2> QED
    BY <2>1, <2>2 DEF TypeOK, ObjectTyping, QueueTyping, NetworkTyping, RunTyping, LinkTyping,
       Links, Records, Discoveries, Entries
<1> QED
  BY <1>1, Invariance, PTL

(* A settled configuration is an active one that has reached its devices.  *)
LEMMA SettledReached ==
  ASSUME Inv, Settled, NEW a \in Addresses, where[a] # None
  PROVE  /\ where[a] \in Keys /\ Reached(where[a], a)
         /\ \A i \in DOMAIN found : FALSE
<1>1. Typing /\ DevicesFollow /\ Active /\ unreported = {} /\ DOMAIN found = {}
  BY EmptySeq DEF Inv, Core, Settled, Active
<1>2. where[a] \in Ids
  BY <1>1 DEF Typing, NetworkTyping
<1>3. Follows(where[a], a)
  BY <1>1, <1>2 DEF DevicesFollow
<1> QED
  BY <1>1, <1>2, <1>3 DEF Follows, Keys

(* Every device that discovery has told of is known, has the address it    *)
(* has now and is connected there, unless its link failed since: however   *)
(* the devices moved, in whatever order discoveries came in, while devices *)
(* were loaded, built and discovered (Config.start, add_discovered_device, *)
(* reset_hostaddr, reconnect).                                             *)
THEOREM DevicesReached == Spec => []DevicesAreReached
<1>1. ASSUME Inv PROVE DevicesAreReached
  <2> SUFFICES ASSUME Settled, NEW a \in Addresses, where[a] # None, where[a] \notin rebacked
               PROVE  LET d == where[a]
                          c == confs[devices[d]]
                      IN /\ devices[d] # 0 /\ c.addr = a
                         /\ backends[c.backend].addr = a
                         /\ backends[c.backend].up \/ c.backend \in lost
    BY DEF DevicesAreReached
  <2>1. where[a] \in Keys /\ Reached(where[a], a)
    BY <1>1, SettledReached
  <2>2. devices[where[a]] \in DOMAIN confs /\ ObjectsOK
    BY <1>1, <2>1, ObjectsAre DEF Inv, Core, Reached
  <2> QED
    BY <2>1, <2>2 DEF Reached, ObjectsOK, Known, ConfOf, BackendOf
<1> QED
  BY <1>1, Invariance, PTL

(* The file has every such device with that address, unless it is one of   *)
(* those whose change nothing has saved (reset_hostaddr, save).            *)
THEOREM FileStaysCurrent == Spec => []FileIsCurrent
<1>1. ASSUME Inv PROVE FileIsCurrent
  <2> SUFFICES ASSUME Settled, NEW a \in Addresses, where[a] # None, where[a] \notin unsaved
               PROVE  \E e \in file : e.id = where[a] /\ e.addr = a
    BY DEF FileIsCurrent
  <2>1. /\ where[a] \in Keys /\ Reached(where[a], a)
        /\ \A i \in DOMAIN found : FALSE
    BY <1>1, SettledReached
  <2>2. InFile(where[a]) /\ ConfOf(where[a]).addr = a
    BY <1>1, <2>1 DEF Inv, FileFollows, Reached
  <2> QED
    BY <2>2 DEF InFile
<1> QED
  BY <1>1, Invariance, PTL

(* It ends by itself, or with the program.                                 *)
LEMMA StopEndsBy ==
  ASSUME Inv, Next, NEW s \in Stops, StopEnds(s)
  PROVE  Stopped(s) \/ Restart
<1>1. stopper \in [Stops -> {"none", "unlisten", "closing"}]
      /\ stopper[s] = "closing" /\ stopper'[s] = "none"
  BY DEF Inv, Core, Typing, RunTyping, StopEnds
<1>2. ASSUME stopper' = stopper PROVE FALSE
  BY <1>1, <1>2
<1>3. \A r \in Stops : ~Stop(r) /\ ~Unlisten(r) /\ (r # s => ~Stopped(r))
  BY <1>1 DEF Stop, Unlisten, Stopped
<1>4. ASSUME NEW i \in DOMAIN found, Handle(i) PROVE FALSE
  <2>1. Arrive(i) \/ Wake(i) \/ Look(i) \/ Created(i) => stopper' = stopper
    BY DEF Arrive, Wake, Look, Created, stop
  <2>2. Closed(i) \/ Dialed(i) \/ Left(i) \/ Returned(i) => stopper' = stopper
    BY DEF Closed, Dialed, Left, Returned, stop
  <2> QED
    BY <1>2, <1>4, <2>1, <2>2 DEF Handle
<1>5. ~Built /\ ~Listen /\ ~Started /\ ~Start /\ \A e \in loading : ~Load(e)
  BY <1>2 DEF Built, Listen, Started, Start, Load, stop
<1>6. \A a \in Addresses : /\ ~Depart(a) /\ ~Build(a)
                           /\ \A d \in Ids : ~Appear(d, a) /\ ~Report(d, a)
  BY <1>2 DEF Depart, Build, Appear, Report, stop
<1>7. (\A b \in DOMAIN backends : ~LinkLost(b)) /\ \A k \in Keys : ~Renamed(k)
  BY <1>2 DEF LinkLost, Renamed, stop
<1>8. \A i \in DOMAIN found : ~Handle(i)
  BY <1>4
<1>9. ASSUME NEW r \in Stops, Stop(r) \/ Unlisten(r) \/ Stopped(r)
      PROVE  Stopped(s)
  <2>1. CASE r = s
    BY <1>3, <1>9, <2>1, Zenon
  <2>2. CASE r # s
    BY <1>3, <1>9, <2>2
  <2> QED
    BY <2>1, <2>2
<1> QED
  BY <1>5, <1>6, <1>7, <1>8, <1>9 DEF Next, System

(* When a stop() ends nobody listens, and every backend ever made that is  *)
(* still connected has lost its device to another one, so that no stop()   *)
(* knows it; several stop() calls may overlap, and whatever went before.   *)
(* A stop() that came upon a start, a discovery or a build_backend, or one *)
(* of those upon it, is not spoken of (Config.stop, add_device).           *)
THEOREM StopLeavesNothing == Spec => StopCloses
<1>1. ASSUME Inv, Next, NEW s \in Stops, StopEnds(s), ~intruded'
      PROVE  ~listening' /\ \A b \in DOMAIN backends' : backends'[b].up => b \in dropped'
  <2>1. CASE Stopped(s)
    <3>1. Typing /\ PhasesOK /\ stopper[s] = "closing"
          /\ UNCHANGED <<listening, dropped, intruded>>
      BY <1>1, <2>1 DEF Inv, Core, Stopped
    <3>2. Closes(s)
      BY <1>1, <3>1 DEF PhasesOK
    <3>3. /\ DOMAIN backends' = DOMAIN backends
          /\ \A j \in DOMAIN backends : /\ j \in closing[s] => ~backends'[j].up
                                        /\ backends'[j].up => backends[j].up
      BY <2>1, <3>1, StoppedIs DEF LinksStay
    <3> QED
      BY <3>1, <3>2, <3>3 DEF Closes
  <2>2. CASE Restart
    BY <2>2, EmptySeq DEF Restart
  <2>3. Stopped(s) \/ Restart
    BY <1>1, StopEndsBy
  <2> QED
    BY <2>1, <2>2, <2>3
<1>2. ASSUME Inv, [Next]_vars
      PROVE  [\A s \in Stops : StopEnds(s) /\ ~intruded' =>
                /\ ~listening'
                /\ \A b \in DOMAIN backends' : backends'[b].up => b \in dropped']_vars
  BY <1>1, <1>2
<1> QED
  BY <1>2, Invariance, PTL DEF Spec, StopCloses

=============================================================================
