------------------------- MODULE OscInterfaceProofs -------------------------
(***************************************************************************)
(* Theorems about OscInterface for any vidhubs, names and clients, and any *)
(* number of packets, calls and renames.                                   *)
(*                                                                         *)
(* The argument: while nobody told the send loop to end, a subscriber will *)
(* have heard of what there is now once the messages on their way are      *)
(* sent, or else a handler is to run that will tell it (WillBeCurrent);    *)
(* and the table by name is the inverse of the names, as long as no two    *)
(* vidhubs have had the same (NamesAgree).                                 *)
(***************************************************************************)
EXTENDS OscInterface, SequenceTheorems, FiniteSetTheorems, TLAPS

Messages == [client : Clients, topic : Topics, content : Contents]
Mail     == Messages \cup {None}
Tasks    == Requests \cup [kind : {"changed"}, topic : Topics, client : {None}]

Queues ==
  /\ tasks \in Seq(Tasks)
  /\ rx \in Seq(Packets \cup {None})
  /\ tx \in Seq(Mail)

\* There is always a sequence of the subscribers.
FewSubscribe == \A t \in Topics : IsFiniteSet(subscribers[t])

\* While no two vidhubs had the same name, the table by name is the inverse of the names.
NamesAgree ==
  ~clashed =>
    /\ \A v, w \in Vidhubs : names[v] = names[w] => v = w
    /\ \A v \in vidhubs : byName[names[v]] = v
    /\ \A n \in Names : byName[n] # None => byName[n] \in vidhubs /\ names[byName[n]] = n

\* A handler that is to run will tell the subscribers of t.
Waits(t) == \E i \in DOMAIN tasks : tasks[i] = Changed(t)

\* Nobody told the send loop to end.
Sends == sender = "waiting" /\ \A i \in DOMAIN tx : tx[i] # None

\* Once the messages on their way are sent, or those a handler that waits will
\* send, a subscriber has heard of what there is now.
WillBeCurrent ==
  Sends =>
    /\ Sent(tx) \in [Topics -> [Clients -> Contents]]
    /\ \A t \in Topics : \A c \in subscribers[t] :
         Waits(t) \/ Sent(tx)[t][c] \in {Ack, Keys(t)}

Inv == TypeOK /\ Queues /\ FewSubscribe /\ NamesAgree /\ WillBeCurrent

-----------------------------------------------------------------------------
(* A set that is finite is enumerated, each element once.                  *)
LEMMA Enumerated ==
  ASSUME NEW S, IsFiniteSet(S)
  PROVE  /\ SetToSeq(S) \in Seq(S)
         /\ IsInjective(SetToSeq(S))
         /\ Range(SetToSeq(S)) = S
<1> DEFINE n == Cardinality(S)
           q == SetToSeq(S)
<1>1. n \in Nat /\ ExistsBijection(1 .. n, S)
  BY FS_CardinalityType
<1>2. PICK g : g \in [1 .. n -> S] /\ IsInjective(g)
  BY <1>1 DEF ExistsBijection, Bijection, Injection
<1>3. q \in [1 .. n -> S] /\ IsInjective(q)
  <2>1. \E f \in [1 .. n -> S] : IsInjective(f)
    BY <1>2
  <2> QED
    BY <2>1 DEF SetToSeq
<1>4. q \in Injection(1 .. n, S)
  BY <1>3 DEF Injection
<1>5. q \in Surjection(1 .. n, S)
  <2>1. IsFiniteSet(1 .. n) /\ Cardinality(1 .. n) = n
    BY <1>1, FS_Interval
  <2> QED
    BY <1>4, <2>1, FS_Injection
<1>6. q \in Seq(S) /\ Len(q) = n
  BY <1>1, <1>3, SeqDef
<1>7. Range(q) = S
  BY <1>3, <1>5 DEF Surjection, Range
<1> QED
  BY <1>3, <1>6, <1>7

(* The largest of a set of numbers is what Max says.                       *)
LEMMA MaxIs ==
  ASSUME NEW S, S \subseteq Nat, NEW x \in S, \A y \in S : y <= x
  PROVE  Max(S) = x
<1>1. \A y \in S : x >= y
  OBVIOUS
<1>2. ASSUME NEW z \in S, \A y \in S : z >= y PROVE z = x
  BY <1>2
<1> QED
  BY <1>1, <1>2 DEF Max

(* A set of numbers up to n that is not empty has a largest one.           *)
LEMMA MaxExists ==
  ASSUME NEW n \in Nat, NEW S, S \subseteq 1 .. n, S # {}
  PROVE  Max(S) \in S
<1> DEFINE Below == {n - i : i \in S}
<1>1. Below \subseteq Nat /\ Below # {}
  <2>1. \A i \in S : n - i \in Nat
    OBVIOUS
  <2> QED
    BY <2>1
<1>2. PICK x \in Below : \A y \in Below : ~(<<y, x>> \in OpToRel(<, Nat))
  <2> HIDE DEF Below
  <2> QED
    BY <1>1, NatLessThanWellFounded, WFMin
<1>3. PICK k \in S : x = n - k
  OBVIOUS
<1>4. \A i \in S : i <= k
  <2> SUFFICES ASSUME NEW i \in S, ~(i <= k) PROVE FALSE
    OBVIOUS
  <2>1. n - i \in Below /\ n - i \in Nat /\ x \in Nat /\ n - i < x
    BY <1>3
  <2>2. <<n - i, x>> \in OpToRel(<, Nat)
    BY <2>1 DEF OpToRel
  <2> QED
    BY <1>2, <2>1, <2>2
<1>5. S \subseteq Nat
  OBVIOUS
<1>6. Max(S) = k
  BY <1>4, <1>5, MaxIs
<1> QED
  BY <1>6

(* The messages all are the n of q and then k more, all about one topic    *)
(* and each for a client of the list.                                      *)
Behind(q, n, to, k, topic, content, all) ==
  /\ n \in Nat /\ k \in Nat
  /\ DOMAIN q = 1 .. n /\ DOMAIN all = 1 .. n + k
  /\ \A i \in 1 .. n : all[i] = q[i]
  /\ \A i \in 1 .. k :
       all[n + i] = [client |-> to[i], topic |-> topic, content |-> content]
  /\ \A i, j \in 1 .. k : to[i] = to[j] => i = j

(* What client c hears last of topic t when the messages m are sent, if it *)
(* had heard before.                                                       *)
LastOf(m, t, c, before) ==
  LET mine == {i \in DOMAIN m : m[i].client = c /\ m[i].topic = t} IN
  IF mine = {} THEN before ELSE m[Max(mine)].content

(* Then those clients have heard these last, and nothing changes for       *)
(* anybody else or any other topic.                                        *)
LEMMA LastHeard ==
  ASSUME NEW q, NEW n, NEW to, NEW k, NEW t0, NEW x, NEW all,
         Behind(q, n, to, k, t0, x, all), NEW t, NEW c, NEW before
  PROVE  LastOf(all, t, c, before) = IF t = t0 /\ \E i \in 1 .. k : to[i] = c
                           THEN x ELSE LastOf(q, t, c, before)
<1> USE DEF Behind
<1> DEFINE mine == {i \in 1 .. n : q[i].client = c /\ q[i].topic = t}
           now == {i \in 1 .. n + k : all[i].client = c /\ all[i].topic = t}
<1>1. /\ LastOf(q, t, c, before) = IF mine = {} THEN before ELSE q[Max(mine)].content
      /\ LastOf(all, t, c, before) = IF now = {} THEN before ELSE all[Max(now)].content
  BY DEF LastOf
<1>2. mine \subseteq now /\ mine \subseteq 1 .. n /\ now \subseteq Nat
  OBVIOUS
<1>3. \A j \in 1 .. n + k : j \in 1 .. n \/ (j - n \in 1 .. k /\ j = n + (j - n))
  OBVIOUS
<1>4. \A i \in 1 .. k : n + i \in 1 .. n + k /\ (n + i \in now <=> t = t0 /\ to[i] = c)
                        /\ all[n + i].content = x
  <2> TAKE i \in 1 .. k
  <2>1. all[n + i] = [client |-> to[i], topic |-> t0, content |-> x]
    OBVIOUS
  <2> QED
    BY <2>1
<1>5. CASE t = t0 /\ \E i \in 1 .. k : to[i] = c
  <2>1. PICK i \in 1 .. k : to[i] = c
    BY <1>5
  <2>2. n + i \in now /\ all[n + i].content = x
    BY <1>4, <1>5, <2>1
  <2>3. \A j \in now : j <= n + i
    <3> TAKE j \in now
    <3>1. CASE j \in 1 .. n
      BY <3>1
    <3>2. CASE j - n \in 1 .. k /\ j = n + (j - n)
      <4>1. to[j - n] = c
        BY <1>4, <3>2
      <4> QED
        BY <2>1, <3>2, <4>1
    <3> QED
      BY <1>3, <3>1, <3>2
  <2>4. Max(now) = n + i
    <3> HIDE DEF now
    <3> QED
      BY <1>2, <2>2, <2>3, MaxIs
  <2> QED
    BY <1>1, <1>5, <2>2, <2>4
<1>6. CASE ~(t = t0 /\ \E i \in 1 .. k : to[i] = c)
  <2>1. now = mine
    <3>1. ASSUME NEW j \in now PROVE j \in mine
      <4>1. CASE j - n \in 1 .. k /\ j = n + (j - n)
        BY <1>4, <1>6, <4>1
      <4> QED
        BY <1>3, <4>1
    <3> QED
      BY <1>2, <3>1
  <2>2. CASE mine # {}
    <3>1. Max(mine) \in 1 .. n
      <4> HIDE DEF mine
      <4> QED
        BY <1>2, <2>2, MaxExists
    <3>2. all[Max(mine)] = q[Max(mine)]
      BY <3>1
    <3> QED
      BY <1>1, <1>6, <2>1, <2>2, <3>2
  <2> QED
    BY <1>1, <1>6, <2>1, <2>2
<1> QED
  BY <1>5, <1>6

(* Messages to the clients of a list about one topic, put behind others.   *)
Letters(to, topic, content) ==
  [i \in 1 .. Len(to) |-> [client |-> to[i], topic |-> topic, content |-> content]]
WithLetters(q, to, topic, content) == q \o Letters(to, topic, content)

(* They are the last on that topic for those on the list, and nothing new  *)
(* for anybody else.                                                       *)
LEMMA PutBehind ==
  ASSUME NEW q \in Seq(Mail), NEW to \in Seq(Clients), NEW t0 \in Topics,
         NEW x \in Contents, IsInjective(to),
         NEW all, all = WithLetters(q, to, t0, x)
  PROVE  /\ all \in Seq(Mail)
         /\ \A i \in DOMAIN q : i \in DOMAIN all /\ all[i] = q[i]
         /\ \A t, c, before :
              LastOf(all, t, c, before) = IF t = t0 /\ c \in Range(to) THEN x
                                          ELSE LastOf(q, t, c, before)
<1> DEFINE more == Letters(to, t0, x)
<1>1. Len(q) \in Nat /\ DOMAIN q = 1 .. Len(q) /\ Len(to) \in Nat /\ DOMAIN to = 1 .. Len(to)
      /\ \A i \in 1 .. Len(to) : to[i] \in Clients
  BY LenProperties, ElementOfSeq
<1>2. more \in [1 .. Len(to) -> Mail]
  BY <1>1 DEF Mail, Messages, Letters
<1>4. \A i \in 1 .. Len(to) : more[i] = [client |-> to[i], topic |-> t0, content |-> x]
  BY DEF Letters
<1>5. all = q \o more
  BY DEF WithLetters
<1> HIDE DEF more
<1>3. more \in Seq(Mail) /\ Len(more) = Len(to)
  BY <1>1, <1>2, SeqDef
<1>6. /\ all \in Seq(Mail) /\ Len(all) = Len(q) + Len(to)
      /\ \A i \in 1 .. Len(q) + Len(to) : all[i] = IF i <= Len(q) THEN q[i] ELSE more[i - Len(q)]
  <2>2. /\ q \o more \in Seq(Mail) /\ Len(q \o more) = Len(q) + Len(more)
        /\ \A i \in 1 .. Len(q) + Len(more) :
             (q \o more)[i] = IF i <= Len(q) THEN q[i] ELSE more[i - Len(q)]
    BY <1>3, ConcatProperties
  <2> QED
    BY <1>3, <1>5, <2>2
<1>7. DOMAIN all = 1 .. Len(q) + Len(to)
  BY <1>6, LenProperties
<1>8. \A i \in 1 .. Len(q) : i \in DOMAIN all /\ all[i] = q[i]
  <2> TAKE i \in 1 .. Len(q)
  <2>1. i \in 1 .. Len(q) + Len(to) /\ i <= Len(q)
    BY <1>1
  <2> QED
    BY <1>6, <1>7, <2>1
<1>9. \A i \in 1 .. Len(to) :
        all[Len(q) + i] = [client |-> to[i], topic |-> t0, content |-> x]
  <2> TAKE i \in 1 .. Len(to)
  <2>1. Len(q) + i \in 1 .. Len(q) + Len(to) /\ ~(Len(q) + i <= Len(q)) /\ (Len(q) + i) - Len(q) = i
    BY <1>1
  <2> QED
    BY <1>4, <1>6, <2>1
<1>10. \A t, c, before :
         LastOf(all, t, c, before) = IF t = t0 /\ c \in Range(to) THEN x
                                     ELSE LastOf(q, t, c, before)
  <2> TAKE t, c, before
  <2>1. Behind(q, Len(q), to, Len(to), t0, x, all)
    BY <1>1, <1>7, <1>8, <1>9 DEF Behind, IsInjective
  <2>2. LastOf(all, t, c, before) = IF t = t0 /\ \E i \in 1 .. Len(to) : to[i] = c
                          THEN x ELSE LastOf(q, t, c, before)
    BY <2>1, LastHeard
  <2> QED
    BY <1>1, <2>2 DEF Range
<1> QED
  BY <1>1, <1>6, <1>8, <1>10

-----------------------------------------------------------------------------
(* What the steps keep.                                                    *)

(* Keys are something to send.                                             *)
LEMMA KeysTyped ==
  ASSUME TypeOK, NEW t \in Topics
  PROVE  Keys(t) \in Contents /\ Ack \in Contents
<1>1. vidhubs \in SUBSET Vidhubs /\ {n \in Names : byName[n] # None} \in SUBSET Names
  BY DEF TypeOK
<1>2. vidhubs \in Contents /\ {n \in Names : byName[n] # None} \in Contents /\ Ack \in Contents
  BY <1>1 DEF Contents
<1> QED
  BY <1>2 DEF Keys

(* The queues, item by item.                                               *)
QueuesTyped ==
  /\ \A i \in DOMAIN tasks :
       tasks[i] \in Requests \cup [kind : {"changed"}, topic : Topics, client : {None}]
  /\ \A i \in DOMAIN rx : rx[i] \in Packets \cup {None}
  /\ \A i \in DOMAIN tx :
       tx[i] \in [client : Clients, topic : Topics, content : Contents] \cup {None}

(* A typed queue has typed items.                                          *)
LEMMA ItemsTyped ==
  /\ Queues => QueuesTyped
  /\ Queues' => QueuesTyped'
<1>1. \A S : \A q \in Seq(S) : \A i \in DOMAIN q : q[i] \in S
  BY LenProperties, ElementOfSeq
<1> QED
  BY <1>1 DEF Queues, QueuesTyped, Tasks, Messages, Mail

(* One more handler is to run: those that waited still do.                 *)
LEMMA OneMoreWaits ==
  ASSUME Queues, NEW x \in Tasks, tasks' = Append(tasks, x)
  PROVE  /\ tasks' \in Seq(Tasks)
         /\ \A t \in Topics : Waits(t) => Waits(t)'
         /\ \A t \in Topics : x = Changed(t) => Waits(t)'
<1>1. tasks \in Seq(Tasks) /\ Len(tasks) \in Nat /\ DOMAIN tasks = 1 .. Len(tasks)
  BY LenProperties DEF Queues
<1>2. /\ tasks' \in Seq(Tasks) /\ Len(tasks') = Len(tasks) + 1
      /\ \A i \in 1 .. Len(tasks) : tasks'[i] = tasks[i]
      /\ tasks'[Len(tasks) + 1] = x
  BY <1>1, AppendProperties
<1>3. DOMAIN tasks' = 1 .. Len(tasks) + 1
  BY <1>2, LenProperties
<1>4. \A i \in 1 .. Len(tasks) : i \in 1 .. Len(tasks) + 1
  BY <1>1
<1>5. Len(tasks) + 1 \in 1 .. Len(tasks) + 1
  BY <1>1
<1>6. ASSUME NEW t \in Topics, Waits(t) PROVE Waits(t)'
  BY <1>1, <1>2, <1>3, <1>4, <1>6 DEF Waits, Changed
<1>7. ASSUME NEW t \in Topics, x = Changed(t) PROVE Waits(t)'
  BY <1>2, <1>3, <1>5, <1>7 DEF Waits, Changed
<1> QED
  BY <1>2, <1>6, <1>7

(* A step that sends nothing and changes nothing of what there is to tell. *)
LEMMA NothingSent ==
  ASSUME WillBeCurrent,
         UNCHANGED <<subscribers, vidhubs, byName, told, tx, sender>>,
         \A t \in Topics : Waits(t) => Waits(t)'
  PROVE  WillBeCurrent'
<1> SUFFICES ASSUME Sends' PROVE /\ Sent(tx)' \in [Topics -> [Clients -> Contents]]
                                 /\ \A t \in Topics : \A c \in subscribers[t]' :
                                      Waits(t)' \/ Sent(tx)'[t][c] \in {Ack, Keys(t)'}
  BY DEF WillBeCurrent, Contents, Ack
<1>1. Sends
  BY DEF Sends
<1>2. Sent(tx)' = Sent(tx)
  BY DEF Sent
<1>3. \A t \in Topics : Keys(t)' = Keys(t)
  BY DEF Keys
<1> QED
  BY <1>1, <1>2, <1>3 DEF WillBeCurrent

(* Without a change of the vidhubs and names, the table still agrees.      *)
LEMMA SameNames ==
  ASSUME NamesAgree, UNCHANGED <<names, vidhubs, byName, clashed>>
  PROVE  NamesAgree'
  BY DEF NamesAgree

(* A task of config.vidhubs, of a connection or of add_vidhub that does    *)
(* not add anything.                                                       *)
LEMMA BesideInv ==
  ASSUME Inv, NEW v \in Vidhubs, ConfigGains(v) \/ Connect(v) \/ AddTimeout(v)
  PROVE  Inv'
<1>1. /\ UNCHANGED <<names, vidhubs, byName, clashed, renames, subscribers, tasks, told,
                     endpoint, loops, caller, packets>>
      /\ known' \in SUBSET Vidhubs /\ up' \in SUBSET Vidhubs /\ adding' \subseteq known'
      /\ known \subseteq known'
  BY DEF ConfigGains, Connect, AddTimeout, Inv, TypeOK
<1>2. TypeOK' /\ Queues' /\ FewSubscribe'
  BY <1>1 DEF Inv, TypeOK, Queues, FewSubscribe, endpoint, loops, caller
<1>3. NamesAgree'
  BY <1>1, SameNames DEF Inv
<1>4. WillBeCurrent'
  <2>1. \A t \in Topics : Waits(t)' = Waits(t)
    BY <1>1 DEF Waits, Changed
  <2> QED
    BY <1>1, <2>1, NothingSent DEF Inv, loops
<1> QED
  BY <1>2, <1>3, <1>4 DEF Inv

(* add_vidhub adds a vidhub that is connected: both nodes will tell.       *)
LEMMA AddVidhubInv ==
  ASSUME Inv, NEW v \in Vidhubs, AddVidhub(v)
  PROVE  Inv'
<1>1. /\ v \in adding /\ adding' = adding \ {v}
      /\ UNCHANGED <<known, up, names, clashed, renames, subscribers, told, endpoint,
                     loops, caller, packets>>
  BY DEF AddVidhub
<1>2. CASE UNCHANGED <<vidhubs, byName, tasks>>
  <2>1. TypeOK' /\ Queues' /\ FewSubscribe' /\ NamesAgree'
    BY <1>1, <1>2, SameNames
    DEF Inv, TypeOK, Queues, FewSubscribe, endpoint, loops, caller
  <2>2. \A t \in Topics : Waits(t)' = Waits(t)
    BY <1>2 DEF Waits, Changed
  <2> QED
    BY <1>1, <1>2, <2>1, <2>2, NothingSent DEF Inv, loops
<1>3. CASE /\ v \notin vidhubs /\ vidhubs' = vidhubs \cup {v}
           /\ byName' = [byName EXCEPT ![names[v]] = v]
           /\ tasks' = tasks \o <<Changed("by-id"), Changed("by-name")>>
  <2>1. /\ Changed("by-id") \in Tasks /\ Changed("by-name") \in Tasks
        /\ Topics = {"by-id", "by-name"}
    BY DEF Changed, Tasks, Topics
  <2>2. tasks' \in Seq(Tasks) /\ \A t \in Topics : Waits(t)'
    <3> DEFINE two == <<Changed("by-id"), Changed("by-name")>>
               n == Len(tasks)
    <3>1. /\ two \in Seq(Tasks) /\ Len(two) = 2
          /\ two[1] = Changed("by-id") /\ two[2] = Changed("by-name")
      BY <2>1
    <3>2. tasks \in Seq(Tasks) /\ n \in Nat
      BY LenProperties DEF Inv, Queues
    <3> HIDE DEF two, n
    <3>3. /\ tasks' \in Seq(Tasks) /\ Len(tasks') = n + 2
          /\ \A i \in 1 .. n + 2 : tasks'[i] = IF i <= n THEN tasks[i] ELSE two[i - n]
      BY <1>3, <3>1, <3>2, ConcatProperties DEF two, n
    <3>4. DOMAIN tasks' = 1 .. n + 2
      BY <3>3, LenProperties
    <3>5. /\ n + 1 \in 1 .. n + 2 /\ ~(n + 1 <= n) /\ (n + 1) - n = 1
          /\ n + 2 \in 1 .. n + 2 /\ ~(n + 2 <= n) /\ (n + 2) - n = 2
      BY <3>2
    <3>6. tasks'[n + 1] = Changed("by-id") /\ tasks'[n + 2] = Changed("by-name")
      BY <3>1, <3>3, <3>5
    <3> QED
      BY <2>1, <3>3, <3>4, <3>5, <3>6 DEF Waits, Changed
  <2>3. Queues'
    BY <1>1, <2>2 DEF Inv, Queues, loops
  <2>4. TypeOK'
    <3>1. byName' \in [Names -> Vidhubs \cup {None}]
      BY <1>3 DEF Inv, TypeOK
    <3> QED
      BY <1>1, <1>3, <2>3, <3>1, ItemsTyped
      DEF QueuesTyped, Inv, TypeOK, endpoint, loops, caller
  <2>5. FewSubscribe'
    BY <1>1 DEF Inv, FewSubscribe
  <2>6. NamesAgree'
    <3> SUFFICES ASSUME ~clashed
                 PROVE  /\ \A w \in vidhubs' : byName'[names[w]] = w
                        /\ \A n \in Names : byName'[n] # None =>
                             byName'[n] \in vidhubs' /\ names[byName'[n]] = n
      BY <1>1 DEF Inv, NamesAgree
    <3>1. /\ names \in [Vidhubs -> Names] /\ byName \in [Names -> Vidhubs \cup {None}]
          /\ vidhubs \subseteq Vidhubs
      BY DEF Inv, TypeOK
    <3>2. /\ \A a, b \in Vidhubs : names[a] = names[b] => a = b
          /\ \A w \in vidhubs : byName[names[w]] = w
          /\ \A n \in Names : byName[n] # None => byName[n] \in vidhubs /\ names[byName[n]] = n
      BY DEF Inv, NamesAgree
    <3> QED
      BY <1>3, <3>1, <3>2
  <2>7. WillBeCurrent'
    <3>1. /\ Sends' => Sends
          /\ Sent(tx)' = Sent(tx)
      BY <1>1 DEF Sends, Sent, loops
    <3> QED
      BY <1>1, <2>2, <3>1 DEF Inv, WillBeCurrent, Contents, Ack
  <2> QED
    BY <2>3, <2>4, <2>5, <2>6, <2>7 DEF Inv
<1> QED
  BY <1>2, <1>3 DEF AddVidhub

(* A vidhub gets another name: the node of names will tell, unless the     *)
(* table does not change.                                                  *)
LEMMA RenameInv ==
  ASSUME Inv, NEW v \in Vidhubs, NEW n \in Names, Rename(v, n)
  PROVE  Inv'
<1>1. /\ names[v] # n /\ names' = [names EXCEPT ![v] = n]
      /\ renames' \in 0 .. MaxRenames
      /\ clashed' = (clashed \/ \E w \in Vidhubs : names[w] = n)
      /\ UNCHANGED <<known, up, adding, vidhubs, subscribers, told, endpoint, loops,
                     caller, packets>>
  BY ConstantsAssumption DEF Rename, ConstantsAssumption, Inv, TypeOK
<1>2. /\ names \in [Vidhubs -> Names] /\ byName \in [Names -> Vidhubs \cup {None}]
      /\ vidhubs \subseteq Vidhubs /\ names[v] \in Names /\ clashed \in BOOLEAN
  BY DEF Inv, TypeOK
<1>3. names' \in [Vidhubs -> Names] /\ clashed' \in BOOLEAN
  BY <1>1, <1>2
<1>4. FewSubscribe'
  BY <1>1 DEF Inv, FewSubscribe
<1>5. CASE UNCHANGED <<byName, tasks>> /\ (v \in vidhubs => byName[names[v]] = None)
  <2>1. TypeOK' /\ Queues'
    BY <1>1, <1>3, <1>5 DEF Inv, TypeOK, Queues, endpoint, loops, caller
  <2>2. NamesAgree'
    <3> SUFFICES ASSUME ~clashed, \A w \in Vidhubs : names[w] # n
                 PROVE  /\ \A a, b \in Vidhubs : names'[a] = names'[b] => a = b
                        /\ \A w \in vidhubs : byName[names'[w]] = w
                        /\ \A m \in Names : byName[m] # None =>
                             byName[m] \in vidhubs /\ names'[byName[m]] = m
      BY <1>1, <1>5 DEF NamesAgree
    <3>1. /\ \A a, b \in Vidhubs : names[a] = names[b] => a = b
          /\ \A w \in vidhubs : byName[names[w]] = w
          /\ \A m \in Names : byName[m] # None => byName[m] \in vidhubs /\ names[byName[m]] = m
      BY DEF Inv, NamesAgree
    <3>2. v \notin vidhubs
      BY <1>2, <1>5, <3>1, ConstantsAssumption DEF ConstantsAssumption
    <3> QED
      BY <1>1, <1>2, <3>1, <3>2
  <2>3. \A t \in Topics : Waits(t)' = Waits(t)
    BY <1>5 DEF Waits, Changed
  <2> QED
    BY <1>1, <1>4, <1>5, <2>1, <2>2, <2>3, NothingSent DEF Inv, loops
<1>6. CASE /\ v \in vidhubs /\ byName[names[v]] # None
           /\ byName' = [byName EXCEPT ![names[v]] = None, ![n] = v]
           /\ tasks' = Append(tasks, Changed("by-name"))
  <2>1. Changed("by-name") \in Tasks /\ "by-name" \in Topics
    BY DEF Changed, Tasks, Topics
  <2>2. /\ tasks' \in Seq(Tasks) /\ Waits("by-name")'
        /\ \A t \in Topics : Waits(t) => Waits(t)'
    BY <1>6, <2>1, OneMoreWaits DEF Inv
  <2>3. Queues'
    BY <1>1, <2>2 DEF Inv, Queues, loops
  <2>4. TypeOK'
    <3>1. byName' \in [Names -> Vidhubs \cup {None}]
      BY <1>2, <1>6
    <3> QED
      BY <1>1, <1>3, <2>3, <3>1, ItemsTyped
      DEF QueuesTyped, Inv, TypeOK, endpoint, loops, caller
  <2>5. NamesAgree'
    <3> SUFFICES ASSUME ~clashed, \A w \in Vidhubs : names[w] # n
                 PROVE  /\ \A a, b \in Vidhubs : names'[a] = names'[b] => a = b
                        /\ \A w \in vidhubs : byName'[names'[w]] = w
                        /\ \A m \in Names : byName'[m] # None =>
                             byName'[m] \in vidhubs /\ names'[byName'[m]] = m
      BY <1>1 DEF NamesAgree
    <3>1. /\ \A a, b \in Vidhubs : names[a] = names[b] => a = b
          /\ \A w \in vidhubs : byName[names[w]] = w
          /\ \A m \in Names : byName[m] # None => byName[m] \in vidhubs /\ names[byName[m]] = m
      BY DEF Inv, NamesAgree
    <3>2. /\ byName'[names[v]] = None /\ byName'[n] = v
          /\ \A m \in Names \ {n, names[v]} : byName'[m] = byName[m]
      BY <1>1, <1>2, <1>6
    <3>3. names'[v] = n /\ \A w \in Vidhubs \ {v} : names'[w] = names[w]
      BY <1>1, <1>2
    <3>4. \A a, b \in Vidhubs : names'[a] = names'[b] => a = b
      BY <3>1, <3>3
    <3>5. \A w \in vidhubs : byName'[names'[w]] = w
      <4> TAKE w \in vidhubs
      <4>1. CASE w = v
        BY <3>2, <3>3, <4>1
      <4>2. CASE w # v
        <5>1. names'[w] = names[w] /\ names[w] \in Names \ {n, names[v]}
          BY <1>2, <3>1, <3>3, <4>2
        <5> QED
          BY <3>1, <3>2, <5>1
      <4> QED
        BY <4>1, <4>2
    <3>6. ASSUME NEW m \in Names, byName'[m] # None
          PROVE  byName'[m] \in vidhubs /\ names'[byName'[m]] = m
      <4>1. CASE m = n
        BY <1>6, <3>2, <3>3, <4>1
      <4>2. CASE m # n
        <5>1. m # names[v] /\ byName'[m] = byName[m]
          BY <3>2, <3>6, <4>2
        <5>2. byName[m] \in vidhubs /\ names[byName[m]] = m
          BY <3>1, <3>6, <5>1
        <5> QED
          BY <1>2, <3>3, <5>1, <5>2
      <4> QED
        BY <4>1, <4>2
    <3> QED
      BY <3>4, <3>5, <3>6
  <2>6. WillBeCurrent'
    <3>1. /\ Sends' => Sends
          /\ Sent(tx)' = Sent(tx)
      BY <1>1 DEF Sends, Sent, loops
    <3>2. \A t \in Topics : t = "by-name" \/ Keys(t)' = Keys(t)
      BY <1>1 DEF Keys, Topics
    <3> QED
      BY <1>1, <2>2, <3>1, <3>2 DEF Inv, WillBeCurrent, Contents, Ack
  <2> QED
    BY <1>4, <2>3, <2>4, <2>5, <2>6 DEF Inv
<1> QED
  BY <1>5, <1>6 DEF Rename, OnVidhubName

(* One packet more in the queue, or the None of stop().                    *)
LEMMA OneMoreReceived ==
  ASSUME Queues, NEW x \in Packets \cup {None}, rx' = Append(rx, x), UNCHANGED <<tasks, tx>>
  PROVE  Queues'
  BY AppendProperties DEF Queues

(* A step of start(), of stop() or of a packet that came in, which leaves  *)
(* the vidhubs, the subscribers, the handlers and the send loop alone.     *)
LEMMA AsideInv ==
  ASSUME Inv, TypeOK', Queues',
         UNCHANGED <<registry, subscribers, tasks, told, tx, sender>>
  PROVE  Inv'
<1>1. FewSubscribe' /\ NamesAgree'
  BY SameNames DEF Inv, FewSubscribe, registry
<1>2. \A t \in Topics : Waits(t)' = Waits(t)
  BY DEF Waits, Changed
<1>3. WillBeCurrent'
  BY <1>2, NothingSent DEF Inv, registry
<1> QED
  BY <1>1, <1>3 DEF Inv

(* A client sends a packet.                                                *)
LEMMA ReceiveInv ==
  ASSUME Inv, NEW p \in Packets, Receive(p)
  PROVE  Inv'
<1>1. Queues'
  BY OneMoreReceived DEF Inv, Receive
<1>2. packets' \in 0 .. MaxPackets
  BY ConstantsAssumption DEF Receive, ConstantsAssumption, Inv, TypeOK
<1>3. TypeOK'
  BY <1>1, <1>2, ItemsTyped
  DEF QueuesTyped, Receive, Inv, TypeOK, registry, endpoint, caller
<1> QED
  BY <1>1, <1>3, AsideInv DEF Receive

(* The handler of a command returned.                                      *)
LEMMA CommandDoneInv ==
  ASSUME Inv, CommandDone
  PROVE  Inv'
<1>1. Queues' /\ TypeOK'
  BY DEF CommandDone, GoOn, Inv, TypeOK, Queues, registry, endpoint, caller
<1> QED
  BY <1>1, AsideInv DEF CommandDone

(* start() and stop() begin.                                               *)
LEMMA StartStopInv ==
  ASSUME Inv, Start \/ Stop
  PROVE  Inv'
<1>1. UNCHANGED <<registry, subscribers, tasks, told, packets, server, transport, tx,
                  dispatch, sender>>
  BY DEF Start, Stop, StopServer, endpoint, loops
<1>2. calls' \in 0 .. MaxCalls /\ goal' \in {"start", "stop"}
      /\ control' \in {"idle", "joinDispatch", "joinSend", "opening"}
      /\ running' \in BOOLEAN /\ published' \in BOOLEAN
  <2>1. /\ calls \in 0 .. MaxCalls /\ calls < MaxCalls /\ calls' = calls + 1
        /\ MaxCalls \in Nat /\ published \in BOOLEAN /\ running \in BOOLEAN
        /\ control = "idle" /\ goal' \in {"start", "stop"}
    BY ConstantsAssumption DEF ConstantsAssumption, Inv, TypeOK, Start, Stop
  <2>2. /\ control' \in {"idle", "joinDispatch", "opening"}
        /\ running' = running \/ running' = FALSE
        /\ published' = published \/ published' = FALSE
    BY <2>1 DEF Start, Stop, StopServer, endpoint
  <2>3. calls' \in 0 .. MaxCalls
    BY <2>1
  <2>4. running' \in BOOLEAN /\ published' \in BOOLEAN
    BY <2>1, <2>2, Zenon
  <2> QED
    BY <2>1, <2>2, <2>3, <2>4
<1>3. Queues'
  <2>1. rx' = rx \/ rx' = Append(rx, None)
    BY DEF Start, Stop, StopServer, loops
  <2> QED
    BY <1>1, <2>1, OneMoreReceived DEF Inv, Queues
<1>4. TypeOK'
  BY <1>1, <1>2, <1>3, ItemsTyped DEF QueuesTyped, Inv, TypeOK, registry
<1> QED
  BY <1>1, <1>3, <1>4, AsideInv

(* The dispatch loop was joined: the send loop is told to end, and nothing *)
(* more is promised; or its exception comes out.                           *)
LEMMA JoinDispatchInv ==
  ASSUME Inv, JoinDispatch
  PROVE  Inv'
<1>1. /\ UNCHANGED <<registry, subscribers, tasks, told, endpoint, rx, dispatch, sender,
                     goal, published, calls, packets>>
      /\ control' \in {"idle", "joinSend"}
      /\ tx' = tx \/ tx' = Append(tx, None)
  BY DEF JoinDispatch
<1>0. CASE tx' = tx
  <2>1. Queues' /\ TypeOK'
    BY <1>0, <1>1 DEF Inv, TypeOK, Queues, registry, endpoint
  <2> QED
    BY <1>0, <1>1, <2>1, AsideInv
<1> SUFFICES ASSUME tx' = Append(tx, None) PROVE Inv'
  BY <1>0, <1>1
<1>2. tx \in Seq(Mail) /\ Len(tx) \in Nat
  BY LenProperties DEF Inv, Queues
<1>3. /\ tx' \in Seq(Mail) /\ Len(tx') = Len(tx) + 1
      /\ tx'[Len(tx) + 1] = None
  BY <1>1, <1>2, AppendProperties DEF Mail
<1>4. DOMAIN tx' = 1 .. Len(tx) + 1
  BY <1>3, LenProperties
<1>5. Queues'
  BY <1>1, <1>3 DEF Inv, Queues
<1>6. ~Sends'
  BY <1>2, <1>3, <1>4 DEF Sends
<1>7. TypeOK'
  BY <1>1, <1>5, ItemsTyped DEF QueuesTyped, Inv, TypeOK, registry, endpoint
<1>8. FewSubscribe' /\ NamesAgree'
  BY <1>1, SameNames DEF Inv, FewSubscribe, registry
<1>9. WillBeCurrent'
  BY <1>6 DEF WillBeCurrent
<1> QED
  BY <1>5, <1>7, <1>8, <1>9 DEF Inv

(* The send loop was joined: the socket is closed, unless it crashed.      *)
LEMMA JoinSendInv ==
  ASSUME Inv, JoinSend
  PROVE  Inv'
<1>1. Queues' /\ TypeOK'
  BY DEF JoinSend, Inv, TypeOK, Queues, registry, loops
<1> QED
  BY <1>1, AsideInv DEF JoinSend, loops

(* There is a new server, with nothing to send and nobody told, or an      *)
(* exception.                                                              *)
LEMMA OpenInv ==
  ASSUME Inv, Open
  PROVE  Inv'
<1>1. CASE /\ control' = "idle" /\ UNCHANGED <<published, endpoint, loops, told>>
           /\ UNCHANGED <<registry, subscribers, tasks, goal, calls, packets>>
  <2>1. Queues' /\ TypeOK'
    BY <1>1 DEF Inv, TypeOK, Queues, registry, endpoint, loops
  <2> QED
    BY <1>1, <2>1, AsideInv DEF loops
<1>2. CASE /\ control' = "idle" /\ published' = UseDiscovery
           /\ server' = "new" /\ running' = TRUE /\ transport' = "open"
           /\ tx' = <<>> /\ dispatch' = "waiting" /\ sender' = "waiting"
           /\ told' = [t \in Topics |-> [c \in Clients |-> Ack]]
           /\ UNCHANGED rx
           /\ UNCHANGED <<registry, subscribers, tasks, goal, calls, packets>>
  <2>1. Queues'
    BY <1>2, EmptySeq DEF Inv, Queues
  <2>2. \A t \in Topics, c \in Clients : told'[t][c] = Ack
    BY <1>2
  <2>3. told' \in [Topics -> [Clients -> Contents]]
    BY <1>2 DEF Contents
  <2>4. TypeOK'
    BY <1>2, <2>1, <2>3, ItemsTyped, ConstantsAssumption
    DEF QueuesTyped, Inv, TypeOK, registry, ConstantsAssumption
  <2>5. FewSubscribe' /\ NamesAgree'
    BY <1>2, SameNames DEF Inv, FewSubscribe, registry
  <2>6. Sent(tx)' = told'
    <3>1. DOMAIN tx' = {}
      BY <1>2
    <3>2. Sent(tx)' = [t \in Topics |-> [c \in Clients |-> told'[t][c]]]
      BY <3>1 DEF Sent
    <3> QED
      BY <1>2, <3>2
  <2>7. \A t \in Topics : subscribers[t] \subseteq Clients
    BY DEF Inv, TypeOK
  <2>8. WillBeCurrent'
    BY <1>2, <2>2, <2>3, <2>6, <2>7 DEF WillBeCurrent, Contents, Ack
  <2> QED
    BY <2>1, <2>4, <2>5, <2>8 DEF Inv
<1> QED
  BY <1>1, <1>2 DEF Open

(* The dispatch loop takes a packet: a handler is to run, or the loop      *)
(* waits for a command, or ends, or crashes.                               *)
LEMMA DispatchLoopInv ==
  ASSUME Inv, DispatchLoop
  PROVE  Inv'
<1>1. /\ rx # <<>> /\ rx' = Tail(rx)
      /\ UNCHANGED <<registry, subscribers, told, endpoint, tx, sender, caller, packets>>
  BY DEF DispatchLoop
<1>2. Head(rx) \in Packets \cup {None} /\ rx' \in Seq(Packets \cup {None})
  BY <1>1, HeadTailProperties DEF Inv, Queues
<1>3. dispatch' \in {"waiting", "busy", "ended", "crashed"}
  BY DEF DispatchLoop, GoOn
<1>4. \/ UNCHANGED tasks
      \/ Head(rx) \in Tasks /\ tasks' = Append(tasks, Head(rx))
  BY <1>2 DEF DispatchLoop, Tasks
<1>5. /\ tasks' \in Seq(Tasks)
      /\ \A t \in Topics : Waits(t) => Waits(t)'
  <2>1. CASE UNCHANGED tasks
    BY <2>1 DEF Inv, Queues, Waits, Changed
  <2>2. CASE Head(rx) \in Tasks /\ tasks' = Append(tasks, Head(rx))
    BY <2>2, OneMoreWaits DEF Inv
  <2> QED
    BY <1>4, <2>1, <2>2
<1>6. Queues'
  BY <1>1, <1>2, <1>5 DEF Inv, Queues
<1>7. TypeOK'
  BY <1>1, <1>3, <1>6, ItemsTyped DEF QueuesTyped, Inv, TypeOK, registry, endpoint, caller
<1>8. FewSubscribe' /\ NamesAgree'
  BY <1>1, SameNames DEF Inv, FewSubscribe, registry
<1>9. WillBeCurrent'
  BY <1>1, <1>5, NothingSent DEF Inv, registry
<1> QED
  BY <1>6, <1>7, <1>8, <1>9 DEF Inv

(* The send loop sends everything there is, or ends.                       *)
LEMMA SendLoopInv ==
  ASSUME Inv, SendLoop
  PROVE  Inv'
<1>1. /\ sender = "waiting" /\ tx # <<>> /\ tx' = <<>>
      /\ UNCHANGED <<registry, subscribers, tasks, endpoint, rx, dispatch, caller, packets>>
  BY DEF SendLoop
<1>2. Queues'
  BY <1>1, EmptySeq DEF Inv, Queues
<1>3. FewSubscribe' /\ NamesAgree'
  BY <1>1, SameNames DEF Inv, FewSubscribe, registry
<1>4. CASE sender' \in {"ended", "crashed"} /\ UNCHANGED told
  <2>1. TypeOK'
    BY <1>1, <1>2, <1>4, ItemsTyped
    DEF QueuesTyped, Inv, TypeOK, registry, endpoint, caller
  <2>2. WillBeCurrent'
    BY <1>4 DEF WillBeCurrent, Sends
  <2> QED
    BY <1>2, <1>3, <2>1, <2>2 DEF Inv
<1>5. CASE /\ \A i \in DOMAIN tx : tx[i] # None
           /\ sender' = GoOn /\ told' = Sent(tx)
  <2>1. Sends
    BY <1>1, <1>5 DEF Sends
  <2>2. told' \in [Topics -> [Clients -> Contents]]
    BY <1>5, <2>1 DEF Inv, WillBeCurrent
  <2>3. TypeOK'
    BY <1>1, <1>2, <1>5, <2>2, ItemsTyped
    DEF QueuesTyped, GoOn, Inv, TypeOK, registry, endpoint, caller
  <2>4. Sent(tx)' = told'
    <3>1. DOMAIN tx' = {}
      BY <1>1
    <3>2. Sent(tx)' = [t \in Topics |-> [c \in Clients |-> told'[t][c]]]
      BY <3>1 DEF Sent
    <3> QED
      BY <2>2, <3>2
  <2>5. \A t \in Topics : Waits(t)' = Waits(t) /\ Keys(t)' = Keys(t)
    BY <1>1 DEF Waits, Changed, Keys, registry
  <2>6. WillBeCurrent'
    BY <1>1, <1>5, <2>1, <2>2, <2>4, <2>5 DEF Inv, WillBeCurrent, Contents, Ack
  <2> QED
    BY <1>2, <1>3, <2>3, <2>6 DEF Inv
<1> QED
  BY <1>4, <1>5 DEF SendLoop

(* What has been heard once the messages that wait are sent.               *)
LEMMA SentIs ==
  ASSUME NEW t \in Topics, NEW c \in Clients
  PROVE  /\ Sent(tx)[t][c] = LastOf(tx, t, c, told[t][c])
         /\ Sent(tx)'[t][c] = LastOf(tx', t, c, told'[t][c])
  BY DEF Sent, LastOf

(* A handler runs: what it puts behind the messages that wait.             *)
LEMMA HandlerPuts ==
  ASSUME Inv, NEW to \in Seq(Clients), NEW t0 \in Topics, NEW x \in Contents,
         IsInjective(to), tx' = Put(to, t0, x), UNCHANGED <<told, sender>>
  PROVE  /\ tx' \in Seq(Mail)
         /\ Sends' => Sends
         /\ Sends' => \A t \in Topics, c \in Clients :
              Sent(tx)'[t][c] = IF t = t0 /\ c \in Range(to) THEN x ELSE Sent(tx)[t][c]
<1>1. tx \in Seq(Mail)
  BY DEF Inv, Queues
<1>2. CASE sender # "waiting"
  BY <1>1, <1>2 DEF Put, Sends
<1>3. CASE sender = "waiting"
  <2>1. tx' = WithLetters(tx, to, t0, x)
    BY <1>3 DEF Put, Letters, WithLetters
  <2>2. /\ tx' \in Seq(Mail)
        /\ \A i \in DOMAIN tx : i \in DOMAIN tx' /\ tx'[i] = tx[i]
        /\ \A t, c, before :
             LastOf(tx', t, c, before) = IF t = t0 /\ c \in Range(to) THEN x
                                         ELSE LastOf(tx, t, c, before)
    BY <1>1, <2>1, PutBehind
  <2>3. \A t \in Topics, c \in Clients :
          Sent(tx)'[t][c] = IF t = t0 /\ c \in Range(to) THEN x ELSE Sent(tx)[t][c]
    BY <2>2, SentIs
  <2> QED
    BY <1>3, <2>2, <2>3 DEF Sends
<1> QED
  BY <1>2, <1>3

(* Only a handler that tells the subscribers of a topic may be missed once *)
(* it has run.                                                             *)
LEMMA HandlerRan ==
  ASSUME Inv, tasks # <<>>, tasks' = Tail(tasks)
  PROVE  /\ Head(tasks) \in Tasks /\ tasks' \in Seq(Tasks)
         /\ \A t \in Topics : Waits(t) => Waits(t)' \/ Head(tasks) = Changed(t)
<1>1. /\ tasks \in Seq(Tasks) /\ Len(tasks) \in Nat \ {0} /\ DOMAIN tasks = 1 .. Len(tasks)
  BY LenProperties, EmptySeq DEF Inv, Queues
<1>2. /\ Head(tasks) \in Tasks /\ tasks' \in Seq(Tasks) /\ Len(tasks') = Len(tasks) - 1
      /\ \A i \in 1 .. Len(tasks') : tasks'[i] = tasks[i + 1]
      /\ Head(tasks) = tasks[1]
  BY <1>1, HeadTailProperties
<1>3. DOMAIN tasks' = 1 .. Len(tasks) - 1
  BY <1>2, LenProperties
<1>4. ASSUME NEW t \in Topics, Waits(t), Head(tasks) # Changed(t) PROVE Waits(t)'
  <2>1. PICK i \in 1 .. Len(tasks) : tasks[i] = Changed(t)
    BY <1>1, <1>4 DEF Waits
  <2>2. i # 1 /\ i - 1 \in 1 .. Len(tasks) - 1 /\ (i - 1) + 1 = i
    BY <1>1, <1>2, <1>4, <2>1
  <2>3. tasks'[i - 1] = Changed(t)
    BY <1>2, <2>1, <2>2
  <2> QED
    BY <1>3, <2>2, <2>3 DEF Waits, Changed
<1> QED
  BY <1>2, <1>4

(* A handler runs, one for each kind of packet and one for a change: only  *)
(* the subscribers and the messages to send change.                        *)
LEMMA HandleTaskInv ==
  ASSUME Inv, HandleTask
  PROVE  Inv'
<1> DEFINE h == Head(tasks)
           s == subscribers[h.topic]
<1>1. /\ tasks # <<>> /\ tasks' = Tail(tasks)
      /\ UNCHANGED <<registry, told, endpoint, rx, dispatch, sender, caller, packets>>
  BY DEF HandleTask
<1>2. /\ h \in Tasks /\ tasks' \in Seq(Tasks)
      /\ \A t \in Topics : Waits(t) => Waits(t)' \/ h = Changed(t)
  BY <1>1, HandlerRan
<1>3. /\ subscribers \in [Topics -> SUBSET Clients]
      /\ h.topic \in Topics /\ s \subseteq Clients /\ IsFiniteSet(s)
  BY <1>2 DEF Inv, TypeOK, FewSubscribe, Tasks, Requests
<1>4. \A t \in Topics : Keys(t)' = Keys(t) /\ Keys(t) \in Contents
  <2>1. \A t \in Topics : Keys(t)' = Keys(t)
    BY <1>1 DEF Keys, registry
  <2> QED
    BY <2>1, KeysTyped DEF Inv
<1>5. \A t \in Topics : h = Changed(t) => h.kind = "changed" /\ h.topic = t
  BY DEF Changed
<1>6. ASSUME /\ subscribers' \in [Topics -> SUBSET Clients] /\ FewSubscribe'
             /\ tx' \in Seq(Mail)
             /\ WillBeCurrent'
      PROVE  Inv'
  <2>1. Queues'
    BY <1>1, <1>2, <1>6 DEF Inv, Queues
  <2>2. TypeOK'
    BY <1>1, <1>6, <2>1, ItemsTyped DEF QueuesTyped, Inv, TypeOK, registry, endpoint, caller
  <2>3. NamesAgree'
    BY <1>1, SameNames DEF Inv, registry
  <2> QED
    BY <1>6, <2>1, <2>2, <2>3 DEF Inv
<1>7. ASSUME NEW to \in Seq(Clients), IsInjective(to),
             NEW x \in {Ack, Keys(h.topic)}, tx' = Put(to, h.topic, x),
             subscribers' \in [Topics -> SUBSET Clients], FewSubscribe',
             \A t \in Topics : \A c \in subscribers'[t] :
               \/ t = h.topic /\ c \in Range(to)
               \/ c \in subscribers[t] /\ h # Changed(t)
      PROVE  Inv'
  <2>1. x \in Contents
    BY <1>3, <1>4 DEF Contents
  <2>2. /\ tx' \in Seq(Mail)
        /\ Sends' => Sends
        /\ Sends' => \A t \in Topics, c \in Clients :
             Sent(tx)'[t][c] = IF t = h.topic /\ c \in Range(to) THEN x ELSE Sent(tx)[t][c]
    BY <1>1, <1>3, <1>7, <2>1, HandlerPuts
  <2>3. ASSUME Sends'
        PROVE  /\ Sent(tx)' \in [Topics -> [Clients -> Contents]]
               /\ \A t \in Topics : \A c \in subscribers'[t] :
                    Waits(t)' \/ Sent(tx)'[t][c] \in {Ack, Keys(t)'}
    <3>0. Sends
      BY <2>2, <2>3
    <3>1. /\ Sent(tx) \in [Topics -> [Clients -> Contents]]
          /\ \A t \in Topics : \A c \in subscribers[t] :
               Waits(t) \/ Sent(tx)[t][c] \in {Ack, Keys(t)}
      BY <3>0 DEF Inv, WillBeCurrent
    <3>2. \A t \in Topics, c \in Clients : Sent(tx)'[t][c] \in Contents
      BY <2>1, <2>2, <2>3, <3>1
    <3>3. Sent(tx)' \in [Topics -> [Clients -> Contents]]
      BY <3>2 DEF Sent
    <3>4. ASSUME NEW t \in Topics, NEW c \in subscribers'[t]
          PROVE  Waits(t)' \/ Sent(tx)'[t][c] \in {Ack, Keys(t)'}
      <4>1. c \in Clients /\ Keys(t)' = Keys(t)
        BY <1>4, <1>7
      <4>2. CASE t = h.topic /\ c \in Range(to)
        BY <1>7, <2>2, <2>3, <4>1, <4>2
      <4>3. CASE ~(t = h.topic /\ c \in Range(to))
        <5>1. c \in subscribers[t] /\ h # Changed(t)
          BY <1>7, <4>3
        <5>2. Sent(tx)'[t][c] = Sent(tx)[t][c]
          BY <2>2, <2>3, <4>1, <4>3
        <5> QED
          BY <1>2, <3>1, <4>1, <5>1, <5>2
      <4> QED
        BY <4>2, <4>3
    <3> QED
      BY <3>3, <3>4
  <2>4. WillBeCurrent'
    BY <2>3 DEF WillBeCurrent, Contents, Ack
  <2>5. subscribers' \in [Topics -> SUBSET Clients] /\ FewSubscribe'
    BY <1>7
  <2> QED
    BY <1>6, <2>2, <2>4, <2>5
<1>8. CASE /\ h.kind = "changed"
           /\ tx' = Put(SetToSeq(s), h.topic, Keys(h.topic)) /\ UNCHANGED subscribers
  <2> DEFINE to == SetToSeq(s)
  <2>1. to \in Seq(Clients) /\ IsInjective(to) /\ Range(to) = s
    BY <1>3, Enumerated, SeqMonotonic
  <2>2. \A t \in Topics : t = h.topic \/ h # Changed(t)
    BY <1>5
  <2>3. FewSubscribe' /\ subscribers' = subscribers
    BY <1>8 DEF Inv, FewSubscribe
  <2>4. tx' = Put(to, h.topic, Keys(h.topic))
    BY <1>8
  <2> HIDE DEF to
  <2> QED
    BY <1>3, <1>7, <2>1, <2>2, <2>3, <2>4
<1>9. ASSUME h.kind # "changed" PROVE h \in Requests /\ h.client \in Clients
             /\ \A t \in Topics : h # Changed(t)
  BY <1>2, <1>5, <1>9 DEF Tasks, Requests
<1>10. ASSUME NEW c \in Clients
       PROVE  <<c>> \in Seq(Clients) /\ IsInjective(<<c>>) /\ c \in Range(<<c>>)
  BY DEF IsInjective, Range
<1>11. CASE /\ h.kind = "query"
            /\ tx' = Put(<<h.client>>, h.topic, Keys(h.topic)) /\ UNCHANGED subscribers
  <2>1. FewSubscribe' /\ subscribers' = subscribers
    BY <1>11 DEF Inv, FewSubscribe
  <2> QED
    BY <1>3, <1>7, <1>9, <1>10, <1>11, <2>1
<1>12. CASE /\ h.kind \in {"subscribe", "unsubscribe"}
            /\ subscribers' = [subscribers EXCEPT ![h.topic] =
                 IF h.kind = "subscribe" THEN s \cup {h.client} ELSE s \ {h.client}]
            /\ tx' = Put(<<h.client>>, h.topic, Ack)
  <2>1. h.client \in Clients /\ \A t \in Topics : h # Changed(t)
    BY <1>9, <1>12
  <2>2. IsFiniteSet(s \cup {h.client}) /\ IsFiniteSet(s \ {h.client})
    BY <1>3, FS_AddElement, FS_RemoveElement
  <2>3. /\ subscribers' \in [Topics -> SUBSET Clients]
        /\ subscribers'[h.topic] \in {s \cup {h.client}, s \ {h.client}}
        /\ \A t \in Topics \ {h.topic} : subscribers'[t] = subscribers[t]
    BY <1>3, <1>12, <2>1
  <2>4. FewSubscribe'
    BY <1>3, <2>2, <2>3 DEF Inv, FewSubscribe
  <2>5. \A t \in Topics : \A c \in subscribers'[t] :
          c \in subscribers[t] \/ (t = h.topic /\ c = h.client)
    BY <2>3
  <2> QED
    BY <1>7, <1>10, <1>12, <2>1, <2>3, <2>4, <2>5
<1> QED
  BY <1>8, <1>11, <1>12 DEF HandleTask

-----------------------------------------------------------------------------
(* The theorems.                                                           *)

(* Nothing is there to tell, and nobody to be told.                        *)
LEMMA InitInv == Init => Inv
<1> SUFFICES ASSUME Init PROVE Inv
  OBVIOUS
<1>1. /\ tasks = <<>> /\ rx = <<>> /\ tx = <<>> /\ sender = "ended"
      /\ subscribers = [t \in Topics |-> {}] /\ vidhubs = {}
      /\ byName = [n \in Names |-> None]
      /\ clashed = \E v, w \in Vidhubs : v # w /\ names[v] = names[w]
  BY DEF Init
<1>2. Queues
  BY <1>1, EmptySeq DEF Queues
<1>3. TypeOK
  <2>1. told \in [Topics -> [Clients -> Contents]]
    BY DEF Init, Contents
  <2>2. packets = 0 /\ calls = 0 /\ renames = 0
    BY DEF Init
  <2>3. packets \in 0 .. MaxPackets /\ calls \in 0 .. MaxCalls /\ renames \in 0 .. MaxRenames
    BY <2>2, ConstantsAssumption DEF ConstantsAssumption
  <2> QED
    BY <1>1, <1>2, <2>1, <2>3, ItemsTyped DEF QueuesTyped, Init, TypeOK
<1>4. FewSubscribe
  BY <1>1, FS_EmptySet DEF FewSubscribe
<1>5. NamesAgree
  BY <1>1 DEF NamesAgree
<1>6. WillBeCurrent
  BY <1>1 DEF WillBeCurrent, Sends
<1> QED
  BY <1>2, <1>3, <1>4, <1>5, <1>6 DEF Inv

(* Every step keeps the invariant.                                         *)
LEMMA NextInv == Inv /\ [Next]_vars => Inv'
<1> SUFFICES ASSUME Inv, [Next]_vars PROVE Inv'
  OBVIOUS
<1>1. ASSUME NEW v \in Vidhubs, ConfigGains(v) \/ Connect(v) \/ AddTimeout(v) PROVE Inv'
  BY <1>1, BesideInv
<1>2. ASSUME NEW v \in Vidhubs, AddVidhub(v) PROVE Inv'
  BY <1>2, AddVidhubInv
<1>3. ASSUME NEW v \in Vidhubs, NEW n \in Names, Rename(v, n) PROVE Inv'
  BY <1>3, RenameInv
<1>4. ASSUME NEW p \in Packets, Receive(p) PROVE Inv'
  BY <1>4, ReceiveInv
<1>5. CASE HandleTask
  BY <1>5, HandleTaskInv
<1>6. CASE DispatchLoop
  BY <1>6, DispatchLoopInv
<1>7. CASE CommandDone
  BY <1>7, CommandDoneInv
<1>8. CASE SendLoop
  BY <1>8, SendLoopInv
<1>9. CASE Start \/ Stop
  BY <1>9, StartStopInv
<1>10. CASE JoinDispatch
  BY <1>10, JoinDispatchInv
<1>11. CASE JoinSend
  BY <1>11, JoinSendInv
<1>12. CASE Open
  BY <1>12, OpenInv
<1>13. CASE UNCHANGED vars
  <2>1. Queues' /\ TypeOK'
    BY <1>13 DEF vars, Inv, TypeOK, Queues
  <2> QED
    BY <1>13, <2>1, AsideInv DEF vars, registry
<1> QED
  BY <1>1, <1>2, <1>3, <1>4, <1>5, <1>6, <1>7, <1>8, <1>9, <1>10, <1>11, <1>12, <1>13
  DEF Next

(* The invariant holds in every state.                                     *)
THEOREM Invariance == Spec => []Inv
<1>1. Init => Inv
  BY InitInv
<1>2. Inv /\ [Next]_vars => Inv'
  BY NextInv
<1> QED
  BY <1>1, <1>2, PTL DEF Spec

(* Every variable keeps its type, whatever is called, sent and renamed; a  *)
(* send loop that waits has an open transport (OSCUDPServer.stop closes it *)
(* after the loop was joined).                                             *)
THEOREM TypeCorrect == Spec => []TypeOK
<1>1. Inv => TypeOK
  BY DEF Inv
<1> QED
  BY <1>1, Invariance, PTL

(* Once no handler is to run and nothing waits to be sent, every client    *)
(* that has subscribed has heard last of the vidhubs there are now, and of *)
(* their names unless two have had the same, or only that it subscribed:   *)
(* for any number of vidhubs, clients, packets, renames and restarts.      *)
THEOREM SubscribersHear == Spec => []SubscribersAreCurrent
<1>1. Inv => SubscribersAreCurrent
  <2> SUFFICES ASSUME Inv, Quiet
               PROVE  /\ \A c \in subscribers["by-id"] : told["by-id"][c] \in {Ack, vidhubs}
                      /\ ~clashed => \A c \in subscribers["by-name"] :
                           told["by-name"][c] \in {Ack, {names[v] : v \in vidhubs}}
    BY DEF SubscribersAreCurrent
  <2>1. sender = "waiting" /\ tasks = <<>> /\ tx = <<>>
    BY DEF Quiet
  <2>2. Sends /\ \A t \in Topics : ~Waits(t)
    BY <2>1 DEF Sends, Waits
  <2>3. /\ told \in [Topics -> [Clients -> Contents]]
        /\ \A t \in Topics : subscribers[t] \subseteq Clients
    BY DEF Inv, TypeOK
  <2>4. \A t \in Topics : \A c \in subscribers[t] : told[t][c] \in {Ack, Keys(t)}
    <3>1. DOMAIN tx = {}
      BY <2>1
    <3>2. \A t \in Topics : \A c \in subscribers[t] : Sent(tx)[t][c] = told[t][c]
      BY <2>3, <3>1 DEF Sent
    <3> QED
      BY <2>2, <3>2 DEF Inv, WillBeCurrent
  <2>5. Keys("by-id") = vidhubs /\ {"by-id", "by-name"} \subseteq Topics
    BY DEF Keys, Topics
  <2>6. ASSUME ~clashed PROVE Keys("by-name") = {names[v] : v \in vidhubs}
    <3>1. /\ names \in [Vidhubs -> Names] /\ vidhubs \subseteq Vidhubs
          /\ \A v \in vidhubs : byName[names[v]] = v
          /\ \A n \in Names : byName[n] # None => byName[n] \in vidhubs /\ names[byName[n]] = n
          /\ None \notin Vidhubs
      BY <2>6, ConstantsAssumption DEF ConstantsAssumption, Inv, TypeOK, NamesAgree
    <3>2. \A n \in Names : byName[n] # None => n \in {names[v] : v \in vidhubs}
      BY <3>1
    <3>3. \A v \in vidhubs : names[v] \in Names /\ byName[names[v]] # None
      BY <3>1
    <3>4. Keys("by-name") = {n \in Names : byName[n] # None}
      BY DEF Keys
    <3> QED
      BY <3>2, <3>3, <3>4
  <2> QED
    BY <2>4, <2>5, <2>6
<1> QED
  BY <1>1, Invariance, PTL
=============================================================================
