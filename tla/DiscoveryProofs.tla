--------------------------- MODULE DiscoveryProofs ---------------------------
(***************************************************************************)
(* Theorems about Discovery for any services, devices, addresses and       *)
(* changes, and any services of ours: types, and that everything is right  *)
(* once the messages are handled.                                          *)
(*                                                                         *)
(* What is right in the end has to be said of every state before it, so    *)
(* the invariant is about what the unread messages will make of what there *)
(* is (Settles): for the queue and the services listed, for the queue and  *)
(* what zeroconf answers, and for the events and the tables.  What is      *)
(* still to be asked for will bring the details of then (NewsOK,           *)
(* ServicesFollow).                                                        *)
(***************************************************************************)
EXTENDS Discovery, SequenceTheorems, TLAPS

(* The messages of the queue.                                              *)
BrowserMessages == [kind : FromBrowser, name : Services, value : Addresses \cup {None}]
OwnMessages == [kind : FromUs, name : Own, value : Ports]
Messages == BrowserMessages \cup OwnMessages \cup {Stopping}
News == [kind : FromBrowser, name : Services]

(* What the entries m of a queue or of the events say of the name n, where *)
(* they are, and what they leave it with.                                  *)
IsAbout(m, kinds, n) == m.kind \in kinds /\ m.name = n
About(q, kinds, n) == {k \in DOMAIN q : IsAbout(q[k], kinds, n)}
Effect(m) == IF m.kind = "UnPublish" THEN None ELSE m.value

(* When all of q is handled, n has v, if it has v0 now.                    *)
Settles(q, kinds, n, v0, v) ==
  \/ About(q, kinds, n) = {} /\ v = v0
  \/ \E k \in About(q, kinds, n) : /\ \A l \in About(q, kinds, n) : l <= k
                                   /\ Effect(q[k]) = v

(* Nothing has ended the thread or the loop.                               *)
Alive == running /\ loop # "ended" /\ browser # "dead"

(* More is to come of the service the loop is busy with.                   *)
Superseded(q) == \E k \in DOMAIN q : k # 1 /\ IsAbout(q[k], FromUs, q[1].name)

(* Only a removal has no address; the loop registers what it has to, or    *)
(* what has changed since then is still to come.                           *)
QueueOK ==
  /\ \A k \in DOMAIN queue :
       queue[k].kind \in FromBrowser =>
         (queue[k].kind = "Removed" <=> queue[k].value = None)
  /\ loop = "registering" =>
       queue[1].kind = "Publish" /\ (zcInfo = queue[1].value \/ Superseded(queue))

Inv == TypeOK /\ QueueOK

(* A removal that is the last news of a service is still true.             *)
NewsOK ==
  \A k \in DOMAIN news : news[k].kind = "Removed" =>
    \/ net[news[k].name] = None
    \/ \E l \in DOMAIN news : l > k /\ news[l].name = news[k].name

(* More is to come of a service, or what was posted is how it is.          *)
Heard(s) == Settles(queue, FromBrowser, s, services[s], net[s])
ServicesFollow ==
  Alive => \A s \in Services : (\E k \in DOMAIN news : news[k].name = s) \/ Heard(s)

(* What waits leaves registered what is published.                         *)
OwnFollow == running => loop = "ended" \/ \A o \in Own :
  Settles(queue, FromUs, o, registered[o], published[o])

(* A service that was there ever since it came, for all the tables know.   *)
Stays(s) == s \notin left /\ About(events, {"Removed"}, s) = {}
Arriving(s) == About(events, {"Added"}, s)

(* The events make the tables what services are.                           *)
EventsFollow(s) ==
  /\ About(events, FromBrowser, s) # {} =>
       Settles(events, FromBrowser, s, None, services[s])
  /\ Stays(s) =>
       /\ \A k, l \in Arriving(s) : k = l
       /\ Arriving(s) # {} => services[s] # None /\ table[DeviceOf[s]] # s
       /\ table[DeviceOf[s]] = s =>
            /\ services[s] # None
            /\ Settles(events, FromBrowser, s, told[DeviceOf[s]], services[s])
       /\ services[s] # None => table[DeviceOf[s]] # None \/ Arriving(s) # {}

Follow == NewsOK /\ ServicesFollow /\ OwnFollow /\ \A s \in Services : EventsFollow(s)

USE ConstantsAssumption

-----------------------------------------------------------------------------
(* Sequences and messages.                                                 *)

(* One more at the end.                                                    *)
LEMMA OneMore ==
  ASSUME NEW S, NEW q \in Seq(S), NEW m \in S
  PROVE  /\ Append(q, m) \in Seq(S) /\ DOMAIN q = 1..Len(q) /\ Len(q) \in Nat
         /\ DOMAIN Append(q, m) = 1..(Len(q) + 1)
         /\ Append(q, m)[Len(q) + 1] = m
         /\ \A k \in DOMAIN q : Append(q, m)[k] = q[k]
         /\ Append(q, m) # <<>>
         /\ q # <<>> => Head(Append(q, m)) = Head(q)
<1>1. /\ Append(q, m) \in Seq(S) /\ DOMAIN q = 1..Len(q) /\ Len(q) \in Nat
      /\ DOMAIN Append(q, m) = 1..(Len(q) + 1)
      /\ Append(q, m)[Len(q) + 1] = m
      /\ \A k \in DOMAIN q : Append(q, m)[k] = q[k]
      /\ Append(q, m) # <<>>
  BY AppendProperties, LenProperties
<1>2. q # <<>> => 1 \in DOMAIN q /\ Head(q) = q[1]
  BY <1>1, HeadTailProperties, EmptySeq
<1>3. Head(Append(q, m)) = Append(q, m)[1]
  BY <1>1, HeadTailProperties
<1> QED
  BY <1>1, <1>2, <1>3

(* The first one gone.                                                     *)
LEMMA OneLess ==
  ASSUME NEW S, NEW q \in Seq(S), q # <<>>
  PROVE  /\ Tail(q) \in Seq(S) /\ DOMAIN q = 1..Len(q) /\ Len(q) \in Nat \ {0}
         /\ DOMAIN Tail(q) = 1..(Len(q) - 1)
         /\ Head(q) = q[1] /\ Head(q) \in S /\ 1 \in DOMAIN q
         /\ \A k \in DOMAIN Tail(q) : Tail(q)[k] = q[k + 1] /\ k + 1 \in DOMAIN q
         /\ \A k \in DOMAIN q : k # 1 => k - 1 \in DOMAIN Tail(q) /\ Tail(q)[k - 1] = q[k]
BY HeadTailProperties, LenProperties, EmptySeq

(* What kind of message a message is.                                      *)
LEMMA MessageIs ==
  /\ \A m \in Messages : /\ m.kind \in FromBrowser => m \in BrowserMessages
                         /\ m.kind \in FromUs => m \in OwnMessages
  /\ \A m \in BrowserMessages : m.kind \in FromBrowser /\ m.name \in Services
                                /\ m.value \in Addresses \cup {None} /\ m \in Messages
  /\ \A m \in OwnMessages : m.kind \in FromUs /\ m.name \in Own /\ m.value \in Ports
                            /\ m \in Messages
  /\ Stopping \in Messages /\ Stopping.kind \notin FromBrowser \cup FromUs
  /\ FromBrowser \cap FromUs = {}
<1>1. /\ \A m \in BrowserMessages : m.kind \in FromBrowser /\ m.name \in Services
                                    /\ m.value \in Addresses \cup {None}
      /\ \A m \in OwnMessages : m.kind \in FromUs /\ m.name \in Own /\ m.value \in Ports
  BY DEF BrowserMessages, OwnMessages
<1>2. Stopping.kind = "None"
  BY DEF Stopping, Message
<1>3. "None" \notin FromBrowser \cup FromUs /\ FromBrowser \cap FromUs = {}
  BY DEF FromBrowser, FromUs
<1>4. /\ \A m \in Messages : m \in BrowserMessages \/ m \in OwnMessages \/ m = Stopping
      /\ BrowserMessages \subseteq Messages /\ OwnMessages \subseteq Messages
      /\ Stopping \in Messages
  BY DEF Messages
<1> QED
  BY <1>1, <1>2, <1>3, <1>4

(* The messages that are posted.                                           *)
LEMMA PostedIs ==
  /\ \A kind \in FromBrowser, s \in Services, a \in Addresses \cup {None} :
       Message(kind, s, a) \in BrowserMessages
  /\ \A kind \in FromUs, o \in Own, p \in Ports : Message(kind, o, p) \in OwnMessages
  /\ \A kind, name, value : /\ Message(kind, name, value).kind = kind
                            /\ Message(kind, name, value).name = name
                            /\ Message(kind, name, value).value = value
BY DEF Message, BrowserMessages, OwnMessages

-----------------------------------------------------------------------------
(* What a queue comes to.                                                  *)

(* One message more decides about its name.                                *)
LEMMA SettlesMore ==
  ASSUME NEW S, NEW q \in Seq(S), NEW m \in S, NEW kinds, NEW n, NEW v0, NEW v
  PROVE  /\ IsAbout(m, kinds, n) => Settles(Append(q, m), kinds, n, v0, Effect(m))
         /\ ~IsAbout(m, kinds, n) /\ Settles(q, kinds, n, v0, v) =>
              Settles(Append(q, m), kinds, n, v0, v)
<1> DEFINE t == Append(q, m)
<1>1. /\ DOMAIN q = 1..Len(q) /\ Len(q) \in Nat
      /\ DOMAIN t = 1..(Len(q) + 1)
      /\ t[Len(q) + 1] = m
      /\ \A k \in DOMAIN q : t[k] = q[k]
  BY OneMore
<1> HIDE DEF t
<1>2. ASSUME IsAbout(m, kinds, n) PROVE Settles(t, kinds, n, v0, Effect(m))
  <2>1. Len(q) + 1 \in About(t, kinds, n)
        /\ \A l \in About(t, kinds, n) : l <= Len(q) + 1
    BY <1>1, <1>2 DEF About
  <2> QED
    BY <1>1, <2>1 DEF Settles
<1>3. ASSUME ~IsAbout(m, kinds, n), Settles(q, kinds, n, v0, v)
      PROVE  Settles(t, kinds, n, v0, v)
  <2>1. About(t, kinds, n) = About(q, kinds, n)
        /\ \A k \in About(q, kinds, n) : t[k] = q[k]
    BY <1>1, <1>3 DEF About
  <2> QED
    BY <1>3, <2>1 DEF Settles
<1> QED
  BY <1>2, <1>3 DEF t

(* One message more, and what there is about a name.                       *)
LEMMA AboutMore ==
  ASSUME NEW S, NEW q \in Seq(S), NEW m \in S, NEW kinds, NEW n
  PROVE  About(Append(q, m), kinds, n) =
           About(q, kinds, n) \cup IF IsAbout(m, kinds, n) THEN {Len(q) + 1} ELSE {}
<1> DEFINE t == Append(q, m)
<1>1. /\ DOMAIN q = 1..Len(q) /\ Len(q) \in Nat
      /\ DOMAIN t = 1..(Len(q) + 1)
      /\ t[Len(q) + 1] = m
      /\ \A k \in DOMAIN q : t[k] = q[k]
  BY OneMore
<1> HIDE DEF t
<1>2. About(t, kinds, n) =
        About(q, kinds, n) \cup IF IsAbout(m, kinds, n) THEN {Len(q) + 1} ELSE {}
  BY <1>1 DEF About
<1> QED
  BY <1>2 DEF t

(* The first message handled is done with.                                 *)
LEMMA AboutLess ==
  ASSUME NEW S, NEW q \in Seq(S), q # <<>>, NEW kinds, NEW n
  PROVE  /\ 1 \in About(q, kinds, n) <=> IsAbout(Head(q), kinds, n)
         /\ \A k \in About(Tail(q), kinds, n) : k + 1 \in About(q, kinds, n) /\ k + 1 # 1
         /\ \A k \in About(q, kinds, n) : k # 1 =>
              k - 1 \in About(Tail(q), kinds, n) /\ Tail(q)[k - 1] = q[k]
         /\ About(q, kinds, n) \subseteq Nat /\ About(Tail(q), kinds, n) \subseteq Nat \ {0}
<1> DEFINE t == Tail(q)
<1>1. /\ DOMAIN q = 1..Len(q) /\ Len(q) \in Nat \ {0}
      /\ DOMAIN t = 1..(Len(q) - 1)
      /\ Head(q) = q[1] /\ 1 \in DOMAIN q
      /\ \A k \in DOMAIN t : t[k] = q[k + 1] /\ k + 1 \in DOMAIN q
      /\ \A k \in DOMAIN q : k # 1 => k - 1 \in DOMAIN t /\ t[k - 1] = q[k]
  BY OneLess
<1> HIDE DEF t
<1>2. /\ 1 \in About(q, kinds, n) <=> IsAbout(Head(q), kinds, n)
      /\ About(q, kinds, n) \subseteq Nat /\ About(t, kinds, n) \subseteq Nat \ {0}
  BY <1>1 DEF About
<1>3. \A k \in About(t, kinds, n) : k + 1 \in About(q, kinds, n) /\ k + 1 # 1
  BY <1>1, <1>2 DEF About
<1>4. \A k \in About(q, kinds, n) : k # 1 => k - 1 \in About(t, kinds, n) /\ t[k - 1] = q[k]
  BY <1>1 DEF About
<1> QED
  BY <1>2, <1>3, <1>4 DEF t

(* And what it left is there.                                              *)
LEMMA SettlesLess ==
  ASSUME NEW S, NEW q \in Seq(S), q # <<>>, NEW kinds, NEW n, NEW v0, NEW v,
         Settles(q, kinds, n, v0, v)
  PROVE  Settles(Tail(q), kinds, n,
                 IF IsAbout(Head(q), kinds, n) THEN Effect(Head(q)) ELSE v0, v)
<1> DEFINE t == Tail(q)
           r == IF IsAbout(Head(q), kinds, n) THEN Effect(Head(q)) ELSE v0
           old == About(q, kinds, n)
           new == About(t, kinds, n)
<1>1. /\ 1 \in old <=> IsAbout(Head(q), kinds, n)
      /\ \A k \in new : k + 1 \in old /\ k + 1 # 1
      /\ \A k \in old : k # 1 => k - 1 \in new /\ t[k - 1] = q[k]
      /\ old \subseteq Nat /\ new \subseteq Nat \ {0}
  BY AboutLess
<1>5. Head(q) = q[1]
  BY OneLess
<1>2. (1 \in old => r = Effect(q[1])) /\ (1 \notin old => r = v0)
  BY <1>1, <1>5
<1>3. \/ old = {} /\ v = v0
      \/ \E k \in old : (\A l \in old : l <= k) /\ Effect(q[k]) = v
  BY DEF Settles
<1>4. \/ new = {} /\ v = r
      \/ \E k \in new : (\A l \in new : l <= k) /\ Effect(t[k]) = v
  <2> HIDE DEF t, r, old, new
  <2>1. CASE old = {} /\ v = v0
    BY <1>1, <1>2, <2>1
  <2>2. ASSUME NEW k \in old, \A l \in old : l <= k, Effect(q[k]) = v
        PROVE  \/ new = {} /\ v = r
               \/ \E j \in new : (\A l \in new : l <= j) /\ Effect(t[j]) = v
    <3>1. CASE k = 1
      <4>1. ASSUME NEW l \in new PROVE FALSE
        <5>1. l \in Nat \ {0} /\ l + 1 <= 1
          BY <1>1, <2>2, <3>1
        <5> QED
          BY <5>1
      <4> QED
        BY <1>2, <2>2, <3>1, <4>1
    <3>2. CASE k # 1
      <4>1. k - 1 \in new /\ Effect(t[k - 1]) = v
        BY <1>1, <2>2, <3>2
      <4>2. \A l \in new : l <= k - 1
        BY <1>1, <2>2
      <4> QED
        BY <4>1, <4>2
    <3> QED
      BY <3>1, <3>2
  <2> QED
    BY <1>3, <2>1, <2>2
<1> QED
  BY <1>4 DEF Settles

(* Only what is about the name matters.                                    *)
LEMMA SettlesSame ==
  ASSUME NEW q, NEW t, NEW kinds, NEW n, NEW v0, NEW v, Settles(q, kinds, n, v0, v),
         About(t, kinds, n) = About(q, kinds, n),
         \A k \in About(q, kinds, n) : t[k] = q[k]
  PROVE  Settles(t, kinds, n, v0, v)
BY DEF Settles

(* With nothing left it has come to it.                                    *)
LEMMA SettledIs ==
  ASSUME NEW q, q = <<>>, NEW kinds, NEW n
  PROVE  /\ About(q, kinds, n) = {}
         /\ \A v0, v : Settles(q, kinds, n, v0, v) <=> v = v0
<1>1. DOMAIN q = {}
  OBVIOUS
<1>2. About(q, kinds, n) = {}
  BY <1>1 DEF About
<1> QED
  BY <1>2 DEF Settles

-----------------------------------------------------------------------------
(* Types, and what the queue has.                                          *)

QueueInv == /\ queue \in Seq(Messages) /\ loop \in {"waiting", "registering", "ended"}
            /\ zcInfo \in Ports \cup {None}
            /\ loop = "registering" => queue # <<>> /\ zcInfo # None
            /\ QueueOK

BrowserInv ==
  /\ net \in [Services -> Addresses \cup {None}]
  /\ news \in Seq(News)
  /\ browser \in {"idle", "asking", "dead"}
  /\ browser = "asking" => news # <<>>

LifeInv ==
  /\ running \in BOOLEAN /\ stopper \in {"none", "joining", "done"}
  /\ running <=> stopper = "none"

TableInv ==
  /\ services \in [Services -> Addresses \cup {None}]
  /\ events \in Seq(BrowserMessages)
  /\ table \in [Devices -> Services \cup {None}]
  /\ told \in [Devices -> Addresses \cup {None}]
  /\ left \subseteq Services

OwnInv ==
  /\ published \in [Own -> Ports \cup {None}]
  /\ registered \in [Own -> Ports \cup {None}]
  /\ changes \in 0 .. MaxChanges

(* The invariant in its parts.                                             *)
LEMMA InvParts ==
  /\ Inv <=> QueueInv /\ BrowserInv /\ LifeInv /\ TableInv /\ OwnInv
  /\ Inv' <=> QueueInv' /\ BrowserInv' /\ LifeInv' /\ TableInv' /\ OwnInv'
BY DEF Inv, TypeOK, QueueInv, BrowserInv, LifeInv, TableInv, OwnInv,
       Messages, BrowserMessages, OwnMessages, News

(* A message is posted.                                                    *)
LEMMA PostKeeps ==
  ASSUME QueueInv, NEW m \in Messages,
         m.kind \in FromBrowser => (m.kind = "Removed" <=> m.value = None),
         queue' = Append(queue, m), UNCHANGED <<loop, zcInfo>>
  PROVE  QueueInv'
<1>1. /\ queue' \in Seq(Messages) /\ DOMAIN queue = 1..Len(queue) /\ Len(queue) \in Nat
      /\ DOMAIN queue' = 1..(Len(queue) + 1)
      /\ queue'[Len(queue) + 1] = m
      /\ \A k \in DOMAIN queue : queue'[k] = queue[k]
      /\ queue' # <<>>
      /\ queue # <<>> => Head(queue') = Head(queue)
  BY OneMore DEF QueueInv
<1>2. \A k \in DOMAIN queue' : k \in DOMAIN queue \/ k = Len(queue) + 1
  BY <1>1
<1>3. queue # <<>> => queue'[1] = queue[1] /\ (Superseded(queue) => Superseded(queue'))
  BY <1>1, OneLess DEF QueueInv, Superseded
<1> QED
  BY <1>1, <1>2, <1>3 DEF QueueInv, QueueOK

(* The first one was handled.                                              *)
LEMMA HandledKeeps ==
  ASSUME QueueInv, queue # <<>>, queue' = Tail(queue),
         zcInfo' = None, loop' \in {"waiting", "ended"}
  PROVE  QueueInv'
<1>1. /\ queue' \in Seq(Messages)
      /\ \A k \in DOMAIN queue' : queue'[k] = queue[k + 1] /\ k + 1 \in DOMAIN queue
  BY OneLess DEF QueueInv
<1> QED
  BY <1>1 DEF QueueInv, QueueOK

(* A service of ours has got another port.                                 *)
LEMMA RefreshedIs ==
  ASSUME QueueInv, NEW o \in Own, NEW p \in Ports
  PROVE  /\ Refreshed(o, p) \in Seq(Messages)
         /\ DOMAIN Refreshed(o, p) = DOMAIN queue
         /\ Refreshed(o, p) # <<>> <=> queue # <<>>
         /\ \A k \in DOMAIN queue :
              /\ Refreshed(o, p)[k].kind = queue[k].kind
              /\ Refreshed(o, p)[k].name = queue[k].name
              /\ ~IsAbout(queue[k], FromUs, o) => Refreshed(o, p)[k] = queue[k]
<1> DEFINE q == Refreshed(o, p)
<1>1. DOMAIN queue = 1..Len(queue) /\ Len(queue) \in Nat
      /\ \A k \in DOMAIN queue : queue[k] \in Messages
  BY LenProperties DEF QueueInv
<1>2. /\ DOMAIN q = DOMAIN queue
      /\ \A k \in DOMAIN queue :
           \/ q[k] = queue[k]
           \/ q[k] = [queue[k] EXCEPT !.value = p] /\ IsAbout(queue[k], FromUs, o)
  BY DEF Refreshed, IsAbout
<1> HIDE DEF q
<1>3. \A k \in DOMAIN queue : /\ q[k] \in Messages
                              /\ q[k].kind = queue[k].kind /\ q[k].name = queue[k].name
                              /\ ~IsAbout(queue[k], FromUs, o) => q[k] = queue[k]
  <2> SUFFICES ASSUME NEW k \in DOMAIN queue, IsAbout(queue[k], FromUs, o),
                      q[k] = [queue[k] EXCEPT !.value = p]
               PROVE  /\ q[k] \in Messages
                      /\ q[k].kind = queue[k].kind /\ q[k].name = queue[k].name
    BY <1>1, <1>2
  <2>1. queue[k] \in OwnMessages
    BY <1>1, MessageIs DEF IsAbout
  <2>2. q[k] \in OwnMessages /\ q[k].kind = queue[k].kind /\ q[k].name = queue[k].name
    BY <2>1 DEF OwnMessages
  <2> QED
    BY <2>2, MessageIs
<1>4. q \in [1..Len(queue) -> Messages]
  <2>1. q = [k \in 1..Len(queue) |-> q[k]]
    <3>1. q = [k \in DOMAIN queue |-> q[k]]
      BY <1>2 DEF q, Refreshed
    <3> QED
      BY <1>1, <3>1
  <2> QED
    BY <1>1, <1>3, <2>1
<1>5. q \in Seq(Messages) /\ Len(q) = Len(queue)
  BY <1>1, <1>4, SeqDef, LenProperties
<1>6. q # <<>> <=> queue # <<>>
  BY <1>1, <1>5, EmptySeq DEF QueueInv
<1> QED
  BY <1>2, <1>3, <1>5, <1>6 DEF q

(* And a message of ours is posted after that.                             *)
LEMMA RefreshedKeeps ==
  ASSUME QueueInv, NEW o \in Own, NEW p \in Ports, NEW m \in Messages,
         IsAbout(m, FromUs, o),
         queue' = Append(Refreshed(o, p), m), UNCHANGED <<loop, zcInfo>>
  PROVE  QueueInv'
<1> DEFINE q == Refreshed(o, p)
<1>1. /\ q \in Seq(Messages) /\ DOMAIN q = DOMAIN queue
      /\ q # <<>> <=> queue # <<>>
      /\ \A k \in DOMAIN queue :
           /\ q[k].kind = queue[k].kind /\ q[k].name = queue[k].name
           /\ ~IsAbout(queue[k], FromUs, o) => q[k] = queue[k]
  BY RefreshedIs
<1>2. \A k \in DOMAIN queue : q[k].kind \in FromBrowser =>
        (q[k].kind = "Removed" <=> q[k].value = None)
  BY <1>1, MessageIs DEF QueueInv, QueueOK, IsAbout
<1> HIDE DEF q
<1>3. /\ queue' \in Seq(Messages) /\ DOMAIN q = 1..Len(q) /\ Len(q) \in Nat
      /\ DOMAIN queue' = 1..(Len(q) + 1)
      /\ queue'[Len(q) + 1] = m
      /\ \A k \in DOMAIN q : queue'[k] = q[k]
      /\ queue' # <<>>
  BY <1>1, OneMore DEF q
<1>4. \A k \in DOMAIN queue' : k \in DOMAIN q \/ k = Len(q) + 1
  BY <1>3
<1>5. m.kind \notin FromBrowser
  BY MessageIs DEF IsAbout
<1>6. ASSUME loop = "registering"
      PROVE  queue'[1].kind = "Publish" /\ (zcInfo = queue'[1].value \/ Superseded(queue'))
  <2>1. /\ 1 \in DOMAIN queue /\ queue[1].kind = "Publish"
        /\ zcInfo = queue[1].value \/ Superseded(queue)
    BY <1>6, OneLess DEF QueueInv, QueueOK
  <2>2. queue'[1] = q[1] /\ queue'[1].kind = "Publish" /\ queue'[1].name = queue[1].name
    BY <1>1, <1>3, <2>1
  <2>3. CASE queue[1].name = o
    <3>1. Len(q) + 1 \in DOMAIN queue' /\ Len(q) + 1 # 1
      BY <1>1, <1>3, <2>1
    <3> QED
      BY <1>3, <2>2, <2>3, <3>1 DEF Superseded, IsAbout
  <2>4. CASE queue[1].name # o
    <3>1. queue'[1] = queue[1]
      BY <1>1, <2>1, <2>2, <2>4 DEF IsAbout
    <3>2. \A k \in DOMAIN queue : k \in DOMAIN queue' /\ queue'[k].kind = queue[k].kind
                                                   /\ queue'[k].name = queue[k].name
      BY <1>1, <1>3, <1>4
    <3> QED
      BY <2>1, <2>2, <3>1, <3>2 DEF Superseded, IsAbout
  <2> QED
    BY <2>3, <2>4
<1> QED
  BY <1>1, <1>2, <1>3, <1>4, <1>5, <1>6 DEF QueueInv, QueueOK

(* What zeroconf's browser says is posted as it is then.                   *)
LEMMA ToldIs ==
  ASSUME Inv, RemoveService \/ AddService \/ UpdateService, queue' # queue
  PROVE  \E m \in BrowserMessages :
           /\ m.kind = "Removed" <=> m.value = None
           /\ m.name = Head(news).name
           /\ m.value = None \/ m.value = net[m.name]
           /\ Head(news).kind # "Removed" => m.value = net[m.name]
           /\ queue' = Append(queue, m) /\ news' = Tail(news) /\ browser' = "idle"
           /\ UNCHANGED <<net, loop, zcInfo, life, services, events, tables, ours, changes>>
<1> DEFINE s == Head(news).name
<1>1. news # <<>> /\ Head(news) \in News
  BY InvParts, OneLess DEF BrowserInv, RemoveService, AddService, UpdateService
<1>2. s \in Services /\ Head(news).kind \in FromBrowser
  BY <1>1 DEF News
<1>3. net[s] \in Addresses \cup {None}
  BY <1>2, InvParts DEF BrowserInv
<1>4. {"Added", "Updated", "Removed"} = FromBrowser
  BY DEF FromBrowser
<1> HIDE DEF s
<1>5. ASSUME NEW kind \in FromBrowser, NEW a \in Addresses \cup {None}, Tell(kind, s, a),
             kind = "Removed" <=> a = None, a = None \/ a = net[s],
             Head(news).kind # "Removed" => a = net[s]
      PROVE  \E m \in BrowserMessages :
           /\ m.kind = "Removed" <=> m.value = None
           /\ m.name = s
           /\ m.value = None \/ m.value = net[m.name]
           /\ Head(news).kind # "Removed" => m.value = net[m.name]
           /\ queue' = Append(queue, m) /\ news' = Tail(news) /\ browser' = "idle"
           /\ UNCHANGED <<net, loop, zcInfo, life, services, events, tables, ours, changes>>
  <2> DEFINE m == Message(kind, s, a)
  <2>1. m \in BrowserMessages /\ m.kind = kind /\ m.name = s /\ m.value = a
    BY <1>2, PostedIs
  <2>2. queue' = Append(queue, m) /\ news' = Tail(news) /\ browser' = "idle"
        /\ UNCHANGED <<net, loop, zcInfo, life, services, events, tables, ours, changes>>
    BY <1>5 DEF Tell
  <2> HIDE DEF m
  <2> QED
    BY <1>5, <2>1, <2>2
<1>6. CASE RemoveService
  BY <1>4, <1>5, <1>6 DEF RemoveService, s
<1>7. CASE AddService
  <2>1. Head(news).kind = "Added" /\ net[s] # None /\ Tell("Added", s, net[s])
    BY <1>7 DEF AddService, s
  <2> QED
    BY <1>3, <1>4, <1>5, <2>1 DEF s
<1>8. CASE UpdateService
  <2>1. Tell(IF net[s] = None THEN "Removed" ELSE "Updated", s, net[s])
    BY <1>8 DEF UpdateService, s
  <2>2. CASE net[s] = None
    BY <1>3, <1>4, <1>5, <2>1, <2>2 DEF s
  <2>3. CASE net[s] # None
    BY <1>3, <1>4, <1>5, <2>1, <2>3 DEF s
  <2> QED
    BY <2>2, <2>3
<1> QED
  BY <1>6, <1>7, <1>8

(* Or nobody is there to tell us.                                          *)
LEMMA UntoldIs ==
  ASSUME Inv, RemoveService \/ AddService \/ UpdateService, queue' = queue
  PROVE  /\ browser' = "dead" /\ news' = Tail(news) /\ news # <<>>
         /\ UNCHANGED <<net, queue, loop, zcInfo, life, services, events, tables, ours, changes>>
<1>1. ASSUME NEW kind, NEW s, NEW a, Tell(kind, s, a) PROVE FALSE
  <2>1. queue \in Seq(Messages \cup {Message(kind, s, a)})
    <3>1. queue \in Seq(Messages)
      BY InvParts DEF QueueInv
    <3> QED
      BY <3>1, SeqDef
  <2>2. Len(Append(queue, Message(kind, s, a))) = Len(queue) + 1 /\ Len(queue) \in Nat
    BY <2>1, AppendProperties, LenProperties
  <2> QED
    BY <1>1, <2>2 DEF Tell
<1>2. news # <<>>
  BY InvParts DEF BrowserInv, RemoveService, AddService, UpdateService
<1> QED
  BY <1>1, <1>2 DEF RemoveService, AddService, UpdateService

(* How the loop deals with a message about a service.                      *)
LEMMA ServiceHandled ==
  ASSUME Inv, HandleBrowser
  PROVE  LET m == Head(queue) IN
         /\ queue # <<>> /\ m \in BrowserMessages
         /\ (m.kind = "Removed" <=> m.value = None)
         /\ queue' = Tail(queue) /\ zcInfo' = None /\ loop' \in {"waiting", "ended"}
         /\ UNCHANGED <<network, life, tables, ours, changes>>
         /\ \/ loop' = "ended" /\ UNCHANGED <<services, events>>
            \/ /\ services' = [services EXCEPT ![m.name] = m.value]
               /\ \/ services[m.name] = None /\ m.value = None /\ events' = events
                  \/ \E kind \in FromBrowser :
                       /\ events' = Append(events, Message(kind, m.name, m.value))
                       /\ kind = "Removed" <=> m.value = None
                       /\ kind = "Added" => services[m.name] = None
                       /\ services[m.name] = None => kind = "Added"
<1> DEFINE m == Head(queue)
<1>1. queue # <<>> /\ m \in Messages /\ m.kind \in FromBrowser
  BY InvParts, OneLess DEF QueueInv, HandleBrowser, FromBrowser
<1>2. m \in BrowserMessages /\ m.kind \in {"Added", "Updated", "Removed"}
  BY <1>1, MessageIs DEF FromBrowser
<1>3. m.kind = "Removed" <=> m.value = None
  BY <1>1, OneLess, InvParts DEF QueueInv, QueueOK
<1>4. UNCHANGED <<network, life, tables, ours, changes>>
      /\ \/ m.kind = "Added" /\ AddServiceInfo(m.name, m.value)
         \/ m.kind = "Updated" /\ UpdateServiceInfo(m.name, m.value)
         \/ m.kind = "Removed" /\ RemoveServiceInfo(m.name)
  BY DEF HandleBrowser
<1> HIDE DEF m
<1>5. CASE m.kind = "Added" /\ AddServiceInfo(m.name, m.value)
  <2>1. CASE services[m.name] # None
    BY <1>1, <1>2, <1>3, <1>4, <1>5, <2>1 DEF AddServiceInfo, Raise, m
  <2>2. CASE services[m.name] = None
    BY <1>1, <1>2, <1>3, <1>4, <1>5, <2>2 DEF AddServiceInfo, NextMessage, Emit, m, FromBrowser
  <2> QED
    BY <2>1, <2>2
<1>6. CASE m.kind = "Updated" /\ UpdateServiceInfo(m.name, m.value)
  <2>1. CASE services[m.name] # None
    BY <1>1, <1>2, <1>3, <1>4, <1>6, <2>1 DEF UpdateServiceInfo, NextMessage, Emit, m, FromBrowser
  <2>2. CASE services[m.name] = None
    BY <1>1, <1>2, <1>3, <1>4, <1>6, <2>2 DEF UpdateServiceInfo, NextMessage, Emit, m, FromBrowser
  <2> QED
    BY <2>1, <2>2
<1>7. CASE m.kind = "Removed" /\ RemoveServiceInfo(m.name)
  <2>1. CASE services[m.name] # None
    BY <1>1, <1>2, <1>3, <1>4, <1>7, <2>1 DEF RemoveServiceInfo, NextMessage, Emit, m, FromBrowser
  <2>2. CASE services[m.name] = None
    BY <1>1, <1>2, <1>3, <1>4, <1>7, <2>2 DEF RemoveServiceInfo, NextMessage, Emit, m
  <2> QED
    BY <2>1, <2>2
<1> QED
  BY <1>4, <1>5, <1>6, <1>7

(* How the loop deals with a message about a service of ours: it registers *)
(* what the message says, or said, and then there is another.              *)
LEMMA OwnHandled ==
  ASSUME Inv, Register \/ HandleRepublish
  PROVE  LET m == Head(queue) IN
         /\ queue # <<>> /\ m \in OwnMessages
         /\ queue' = Tail(queue) /\ zcInfo' = None /\ loop' \in {"waiting", "ended"}
         /\ UNCHANGED <<network, life, services, events, tables, published, changes>>
         /\ \/ loop' = "ended" /\ registered' = registered
            \/ \E v \in Ports \cup {None} :
                 /\ registered' = [registered EXCEPT ![m.name] = v]
                 /\ v = Effect(m) \/ Superseded(queue)
<1> DEFINE m == Head(queue)
<1>1. /\ queue # <<>> /\ m \in Messages /\ m = queue[1]
      /\ m.kind \in {"Publish", "Republish", "UnPublish"}
  BY InvParts, OneLess DEF QueueInv, QueueOK, Register, HandleRepublish
<1>2. m \in OwnMessages
  BY <1>1, MessageIs DEF FromUs
<1>3. UNCHANGED <<network, life, services, events, tables, published, changes>>
  BY DEF Register, HandleRepublish
<1>4. CASE Register
  <2>1. /\ m.kind = "Publish" /\ zcInfo \in Ports \cup {None}
        /\ zcInfo = m.value \/ Superseded(queue)
    BY <1>1, <1>4, InvParts DEF Register, QueueInv, QueueOK
  <2>2. Effect(m) = m.value
    BY <2>1 DEF Effect
  <2>3. CASE m.name \in Taken
    BY <1>1, <1>2, <1>3, <1>4, <2>3 DEF Register, Raise
  <2>4. CASE m.name \notin Taken
    <3>1. queue' = Tail(queue) /\ zcInfo' = None /\ loop' \in {"waiting", "ended"}
          /\ registered' = [registered EXCEPT ![m.name] = zcInfo]
      BY <1>4, <2>4 DEF Register, NextMessage
    <3> QED
      BY <1>1, <1>2, <1>3, <2>1, <2>2, <3>1
  <2> QED
    BY <2>3, <2>4
<1>5. CASE HandleRepublish
  <2>1. /\ m.kind \in {"Republish", "UnPublish"}
        /\ registered' = [registered EXCEPT ![m.name] =
                            IF m.kind = "Republish" THEN m.value ELSE None]
        /\ queue' = Tail(queue) /\ zcInfo' = None /\ loop' \in {"waiting", "ended"}
    BY <1>5 DEF HandleRepublish, NextMessage
  <2>2. Effect(m) = IF m.kind = "Republish" THEN m.value ELSE None
    BY <2>1 DEF Effect
  <2>4. m.value \in Ports
    BY <1>2, MessageIs
  <2> HIDE DEF m
  <2>3. /\ registered' = [registered EXCEPT ![m.name] = Effect(m)]
        /\ Effect(m) \in Ports \cup {None}
    BY <2>1, <2>2, <2>4
  <2> QED
    BY <1>1, <1>2, <1>3, <2>1, <2>3 DEF m
<1> QED
  BY <1>4, <1>5

(* How what we publish changes.                                            *)
LEMMA OwnPosted ==
  ASSUME Inv, NEW o \in Own,
         \/ UnpublishService(o)
         \/ \E p \in Ports : PublishService(o, p) \/ RepublishService(o, p)
  PROVE  \E m \in OwnMessages :
           /\ m.name = o
           /\ published' = [published EXCEPT ![o] = Effect(m)]
           /\ \/ queue' = Append(queue, m)
              \/ \E p \in Ports : queue' = Append(Refreshed(o, p), m)
           /\ changes < MaxChanges /\ changes' = changes + 1
           /\ UNCHANGED <<network, loop, zcInfo, life, services, events, tables, registered>>
<1>0. published \in [Own -> Ports \cup {None}]
  BY InvParts DEF OwnInv
<1>1. CASE UnpublishService(o)
  <2> DEFINE m == Message("UnPublish", o, published[o])
  <2>1. m \in OwnMessages /\ m.name = o /\ m.kind = "UnPublish"
    BY <1>0, <1>1, PostedIs DEF UnpublishService, FromUs
  <2>2. Effect(m) = None
    BY <2>1 DEF Effect
  <2>3. /\ published' = [published EXCEPT ![o] = None]
        /\ queue' = Append(queue, m)
        /\ changes < MaxChanges /\ changes' = changes + 1
        /\ UNCHANGED <<network, loop, zcInfo, life, services, events, tables, registered>>
    BY <1>1 DEF UnpublishService, Post, Change
  <2> HIDE DEF m
  <2> QED
    BY <2>1, <2>2, <2>3
<1>2. ASSUME NEW p \in Ports, PublishService(o, p)
      PROVE  \E m \in OwnMessages :
               /\ m.name = o
               /\ published' = [published EXCEPT ![o] = Effect(m)]
               /\ queue' = Append(queue, m)
               /\ changes < MaxChanges /\ changes' = changes + 1
               /\ UNCHANGED <<network, loop, zcInfo, life, services, events, tables, registered>>
  <2> DEFINE m == Message("Publish", o, p)
  <2>1. m \in OwnMessages /\ m.name = o /\ m.kind = "Publish" /\ m.value = p
    BY PostedIs DEF FromUs
  <2>2. Effect(m) = p
    BY <2>1 DEF Effect
  <2>3. /\ published' = [published EXCEPT ![o] = p]
        /\ queue' = Append(queue, m)
        /\ changes < MaxChanges /\ changes' = changes + 1
        /\ UNCHANGED <<network, loop, zcInfo, life, services, events, tables, registered>>
    BY <1>2 DEF PublishService, Post, Change
  <2> HIDE DEF m
  <2> QED
    BY <2>1, <2>2, <2>3
<1>3. ASSUME NEW p \in Ports, RepublishService(o, p)
      PROVE  \E m \in OwnMessages :
               /\ m.name = o
               /\ published' = [published EXCEPT ![o] = Effect(m)]
               /\ queue' = Append(Refreshed(o, p), m)
               /\ changes < MaxChanges /\ changes' = changes + 1
               /\ UNCHANGED <<network, loop, zcInfo, life, services, events, tables, registered>>
  <2> DEFINE m == Message("Republish", o, p)
  <2>1. m \in OwnMessages /\ m.name = o /\ m.kind = "Republish" /\ m.value = p
    BY PostedIs DEF FromUs
  <2>2. Effect(m) = p
    BY <2>1 DEF Effect
  <2>3. /\ published' = [published EXCEPT ![o] = p]
        /\ queue' = Append(Refreshed(o, p), m)
        /\ changes < MaxChanges /\ changes' = changes + 1
        /\ UNCHANGED <<network, loop, zcInfo, life, services, events, tables, registered>>
    BY <1>3 DEF RepublishService, Change
  <2> HIDE DEF m
  <2> QED
    BY <2>1, <2>2, <2>3
<1> QED
  BY <1>1, <1>2, <1>3

(* At the start there is nothing.                                          *)
LEMMA InitInv == Init => Inv
<1> SUFFICES ASSUME Init PROVE Inv
  OBVIOUS
<1>1. QueueInv /\ BrowserInv /\ LifeInv
  BY DEF Init, QueueInv, QueueOK, BrowserInv, LifeInv
<1>2. TableInv /\ OwnInv
  BY DEF Init, TableInv, OwnInv, ConstantsAssumption
<1> QED
  BY <1>1, <1>2, InvParts

(* Every step keeps the types.                                             *)
LEMMA InvStep == Inv /\ [Next]_vars => Inv'
<1> SUFFICES ASSUME Inv, [Next]_vars PROVE Inv'
  OBVIOUS
<1>0. QueueInv /\ BrowserInv /\ LifeInv /\ TableInv /\ OwnInv
  BY InvParts
<1> USE DEF network, tables, ours, life
<1>1. ASSUME UNCHANGED <<queue, loop, zcInfo>> PROVE QueueInv'
  BY <1>0, <1>1 DEF QueueInv, QueueOK
<1>2. ASSUME UNCHANGED <<net, news, browser>> PROVE BrowserInv'
  BY <1>0, <1>2 DEF BrowserInv
<1>3. ASSUME UNCHANGED <<running, stopper>> PROVE LifeInv'
  BY <1>0, <1>3 DEF LifeInv
<1>4. ASSUME UNCHANGED <<services, events, table, told, left>> PROVE TableInv'
  BY <1>0, <1>4 DEF TableInv
<1>5. ASSUME UNCHANGED <<published, registered>>,
             changes' = changes \/ Change
      PROVE  OwnInv'
  BY <1>0, <1>5 DEF OwnInv, Change, ConstantsAssumption
<1>6. ASSUME NEW s \in Services, Withdraw(s) \/ \E a \in Addresses : Announce(s, a)
      PROVE  Inv'
  <2>1. PICK a \in Addresses \cup {None}, n \in News :
          net' = [net EXCEPT ![s] = a] /\ news' = Append(news, n)
    BY <1>6 DEF Withdraw, Announce, News, FromBrowser
  <2>2. news' \in Seq(News) /\ news' # <<>>
    BY <1>0, <2>1, OneMore DEF BrowserInv
  <2>3. BrowserInv'
    BY <1>0, <1>6, <2>1, <2>2 DEF BrowserInv, Withdraw, Announce
  <2> QED
    BY <1>1, <1>3, <1>4, <1>5, <1>6, <2>3, InvParts DEF Withdraw, Announce
<1>7. CASE Ignore
  <2>1. BrowserInv'
    BY <1>0, <1>7, OneLess DEF BrowserInv, Ignore
  <2> QED
    BY <1>1, <1>3, <1>4, <1>5, <1>7, <2>1, InvParts DEF Ignore
<1>8. CASE Ask
  <2>1. BrowserInv'
    BY <1>0, <1>8 DEF BrowserInv, Ask
  <2> QED
    BY <1>1, <1>3, <1>4, <1>5, <1>8, <2>1, InvParts DEF Ask
<1>9. CASE RemoveService \/ AddService \/ UpdateService
  <2>1. CASE queue' # queue
    <3>1. PICK m \in BrowserMessages :
           /\ m.kind = "Removed" <=> m.value = None
           /\ queue' = Append(queue, m) /\ news' = Tail(news) /\ browser' = "idle"
           /\ UNCHANGED <<net, loop, zcInfo, life, services, events, tables, ours, changes>>
      BY <1>9, <2>1, ToldIs
    <3>2. QueueInv'
      BY <1>0, <3>1, MessageIs, PostKeeps
    <3>3. news # <<>>
      BY <1>0, <1>9 DEF BrowserInv, RemoveService, AddService, UpdateService
    <3>4. BrowserInv'
      BY <1>0, <3>1, <3>3, OneLess DEF BrowserInv
    <3> QED
      BY <1>3, <1>4, <1>5, <3>1, <3>2, <3>4, InvParts
  <2>2. CASE queue' = queue
    <3>1. /\ browser' = "dead" /\ news' = Tail(news) /\ news # <<>>
          /\ UNCHANGED <<net, queue, loop, zcInfo, life, services, events, tables, ours, changes>>
      BY <1>9, <2>2, UntoldIs
    <3>2. BrowserInv'
      BY <1>0, <3>1, OneLess DEF BrowserInv
    <3> QED
      BY <1>1, <1>3, <1>4, <1>5, <3>1, <3>2, InvParts
  <2> QED
    BY <2>1, <2>2
<1>10. CASE HandleStop
  <2>1. QueueInv'
    BY <1>0, <1>10, HandledKeeps DEF HandleStop, Raise
  <2> QED
    BY <1>2, <1>3, <1>4, <1>5, <1>10, <2>1, InvParts DEF HandleStop
<1>11. CASE HandleBrowser
  <2> DEFINE m == Head(queue)
  <2>1. /\ queue # <<>> /\ m \in BrowserMessages
        /\ queue' = Tail(queue) /\ zcInfo' = None /\ loop' \in {"waiting", "ended"}
        /\ UNCHANGED <<network, life, tables, ours, changes>>
    BY <1>11, ServiceHandled
  <2>2. /\ services' = services \/ services' = [services EXCEPT ![m.name] = m.value]
        /\ \/ events' = events
           \/ \E kind \in FromBrowser :
                events' = Append(events, Message(kind, m.name, m.value))
    BY <1>11, ServiceHandled
  <2>3. m.name \in Services /\ m.value \in Addresses \cup {None}
    BY <2>1, MessageIs
  <2> HIDE DEF m
  <2>4. events' \in Seq(BrowserMessages)
    BY <1>0, <2>2, <2>3, PostedIs, OneMore DEF TableInv
  <2>5. TableInv'
    BY <1>0, <2>1, <2>2, <2>3, <2>4 DEF TableInv
  <2>6. QueueInv'
    BY <1>0, <2>1, HandledKeeps
  <2> QED
    BY <1>2, <1>3, <1>5, <2>1, <2>5, <2>6, InvParts
<1>12. CASE HandlePublish
  <2>1. Head(queue) = queue[1] /\ queue[1] \in Messages /\ queue[1].kind \in FromUs
    BY <1>0, <1>12, OneLess DEF HandlePublish, QueueInv, FromUs
  <2>2. queue[1].value \in Ports /\ None \notin Ports
    BY <2>1, MessageIs DEF ConstantsAssumption
  <2>3. QueueInv'
    BY <1>0, <1>12, <2>1, <2>2 DEF HandlePublish, QueueInv, QueueOK
  <2> QED
    BY <1>2, <1>3, <1>4, <1>5, <1>12, <2>3, InvParts DEF HandlePublish
<1>13. CASE Register \/ HandleRepublish
  <2> DEFINE m == Head(queue)
  <2>1. /\ queue # <<>> /\ m \in OwnMessages
        /\ queue' = Tail(queue) /\ zcInfo' = None /\ loop' \in {"waiting", "ended"}
        /\ UNCHANGED <<network, life, services, events, tables, published, changes>>
        /\ \/ registered' = registered
           \/ \E v \in Ports \cup {None} : registered' = [registered EXCEPT ![m.name] = v]
    BY <1>13, OwnHandled
  <2>2. m.name \in Own
    BY <2>1, MessageIs
  <2> HIDE DEF m
  <2>3. OwnInv'
    BY <1>0, <2>1, <2>2 DEF OwnInv
  <2>4. QueueInv'
    BY <1>0, <2>1, HandledKeeps
  <2> QED
    BY <1>2, <1>3, <1>4, <2>1, <2>3, <2>4, InvParts
<1>14. ASSUME NEW o \in Own,
              \/ UnpublishService(o)
              \/ \E p \in Ports : PublishService(o, p) \/ RepublishService(o, p)
       PROVE  Inv'
  <2>1. PICK m \in OwnMessages :
           /\ m.name = o
           /\ published' = [published EXCEPT ![o] = Effect(m)]
           /\ \/ queue' = Append(queue, m)
              \/ \E p \in Ports : queue' = Append(Refreshed(o, p), m)
           /\ changes < MaxChanges /\ changes' = changes + 1
           /\ UNCHANGED <<network, loop, zcInfo, life, services, events, tables, registered>>
    BY <1>14, OwnPosted
  <2>2. /\ m \in Messages /\ m.kind \notin FromBrowser /\ Effect(m) \in Ports \cup {None}
        /\ IsAbout(m, FromUs, o)
    BY <2>1, MessageIs DEF Effect, IsAbout
  <2>3. OwnInv'
    BY <1>0, <2>1, <2>2 DEF OwnInv, ConstantsAssumption
  <2>4. ASSUME queue' = Append(queue, m) PROVE QueueInv'
    BY <1>0, <2>1, <2>2, <2>4, PostKeeps
  <2>5. ASSUME NEW p \in Ports, queue' = Append(Refreshed(o, p), m) PROVE QueueInv'
    BY <1>0, <2>1, <2>2, <2>5, RefreshedKeeps
  <2> QED
    BY <1>2, <1>3, <1>4, <2>1, <2>3, <2>4, <2>5, InvParts
<1>15. CASE HandleEvent
  <2> DEFINE e == Head(events)
  <2>1. events # <<>> /\ e \in BrowserMessages /\ events' = Tail(events)
        /\ Tail(events) \in Seq(BrowserMessages)
    BY <1>0, <1>15, OneLess DEF HandleEvent, TableInv
  <2>2. e.name \in Services /\ e.value \in Addresses \cup {None} /\ DeviceOf[e.name] \in Devices
    BY <2>1, MessageIs DEF ConstantsAssumption
  <2>3. /\ \/ AddBmd(e.name, e.value) \/ UpdateBmd(e.name, e.value) \/ RemoveBmd(e.name)
        /\ UNCHANGED <<network, queue, loop, zcInfo, life, services, ours, changes>>
    BY <1>15 DEF HandleEvent
  <2> HIDE DEF e
  <2>4. TableInv'
    BY <1>0, <2>1, <2>2, <2>3 DEF TableInv, AddBmd, UpdateBmd, RemoveBmd
  <2> QED
    BY <1>1, <1>2, <1>3, <1>5, <2>3, <2>4, InvParts
<1>16. CASE Stop
  <2>1. QueueInv'
    BY <1>0, <1>16, MessageIs, PostKeeps DEF Stop
  <2>2. LifeInv'
    BY <1>0, <1>16 DEF LifeInv, Stop
  <2> QED
    BY <1>2, <1>4, <1>5, <1>16, <2>1, <2>2, InvParts DEF Stop
<1>17. CASE StopZeroconf
  <2>1. LifeInv' /\ OwnInv'
    BY <1>0, <1>17 DEF LifeInv, OwnInv, StopZeroconf
  <2> QED
    BY <1>1, <1>2, <1>4, <1>17, <2>1, InvParts DEF StopZeroconf
<1>18. CASE UNCHANGED vars
  BY <1>1, <1>2, <1>3, <1>4, <1>5, <1>18, InvParts DEF vars
<1> QED
  BY <1>6, <1>7, <1>8, <1>9, <1>10, <1>11, <1>12, <1>13, <1>14, <1>15, <1>16, <1>17, <1>18
     DEF Next, Run

-----------------------------------------------------------------------------
(* What zeroconf has still to tell.                                        *)

(* The network changes.                                                    *)
LEMMA NetChange ==
  ASSUME Inv, NewsOK, ServicesFollow, NEW s \in Services,
         Withdraw(s) \/ \E a \in Addresses : Announce(s, a)
  PROVE  NewsOK' /\ ServicesFollow'
<1>1. PICK a \in Addresses \cup {None}, n \in News :
        /\ n.name = s /\ (n.kind = "Removed" => a = None)
        /\ net' = [net EXCEPT ![s] = a] /\ news' = Append(news, n)
        /\ UNCHANGED <<browser, queue, loop, zcInfo, running, services>>
  BY DEF Withdraw, Announce, News, FromBrowser, life
<1>2. /\ net \in [Services -> Addresses \cup {None}] /\ news \in Seq(News)
      /\ \A u \in Services : net'[u] = IF u = s THEN a ELSE net[u]
  BY <1>1, InvParts DEF BrowserInv
<1>3. /\ DOMAIN news = 1..Len(news) /\ Len(news) \in Nat
      /\ DOMAIN news' = 1..(Len(news) + 1)
      /\ news'[Len(news) + 1] = n
      /\ \A k \in DOMAIN news : news'[k] = news[k] /\ news[k] \in News
  BY <1>1, <1>2, OneMore, LenProperties
<1>4. \A k \in DOMAIN news : k \in DOMAIN news' /\ k < Len(news) + 1
  BY <1>3
<1>5. \A k \in DOMAIN news' : k \in DOMAIN news \/ k = Len(news) + 1
  BY <1>3
<1>6. Len(news) + 1 \in DOMAIN news'
  BY <1>3
<1>7. NewsOK'
  <2> SUFFICES ASSUME NEW k \in DOMAIN news', news'[k].kind = "Removed"
               PROVE  \/ net'[news'[k].name] = None
                      \/ \E l \in DOMAIN news' : l > k /\ news'[l].name = news'[k].name
    BY DEF NewsOK
  <2>1. CASE k = Len(news) + 1
    BY <1>1, <1>2, <1>3, <2>1
  <2>2. CASE k \in DOMAIN news /\ news[k].name = s
    <3>1. Len(news) + 1 > k /\ news'[Len(news) + 1].name = news'[k].name
      BY <1>1, <1>3, <1>4, <2>2
    <3> QED
      BY <1>6, <3>1
  <2>3. CASE k \in DOMAIN news /\ news[k].name # s
    <3>1. news[k].name \in Services /\ news'[k] = news[k]
      BY <1>3, <2>3 DEF News
    <3>2. \/ net[news[k].name] = None
          \/ \E l \in DOMAIN news : l > k /\ news[l].name = news[k].name
      BY <2>3, <3>1 DEF NewsOK
    <3>3. CASE net[news[k].name] = None
      BY <1>2, <2>3, <3>1, <3>3
    <3>4. ASSUME NEW l \in DOMAIN news, l > k, news[l].name = news[k].name
          PROVE  \E j \in DOMAIN news' : j > k /\ news'[j].name = news'[k].name
      BY <1>3, <1>4, <3>1, <3>4
    <3> QED
      BY <3>2, <3>3, <3>4
  <2> QED
    BY <1>5, <2>1, <2>2, <2>3
<1>8. ServicesFollow'
  <2> SUFFICES ASSUME Alive', NEW u \in Services
               PROVE  (\E k \in DOMAIN news' : news'[k].name = u) \/ Heard(u)'
    BY DEF ServicesFollow
  <2>1. Alive
    BY <1>1 DEF Alive
  <2>2. CASE u = s
    BY <1>1, <1>3, <1>6, <2>2
  <2>3. CASE u # s
    <3>1. (\E k \in DOMAIN news : news[k].name = u) \/ Heard(u)
      BY <2>1 DEF ServicesFollow
    <3>2. Heard(u) => Heard(u)'
      BY <1>1, <1>2, <2>3 DEF Heard
    <3> QED
      BY <1>3, <1>4, <3>1, <3>2
  <2> QED
    BY <2>2, <2>3
<1> QED
  BY <1>7, <1>8

(* A piece of news is dealt with.                                          *)
LEMMA NewsLess ==
  ASSUME Inv, NewsOK, news # <<>>, news' = Tail(news), net' = net
  PROVE  /\ NewsOK'
         /\ \A u : (\E k \in DOMAIN news : news[k].name = u) =>
              u = Head(news).name \/ \E k \in DOMAIN news' : news'[k].name = u
         /\ \/ \E k \in DOMAIN news' : news'[k].name = Head(news).name
            \/ Head(news).kind = "Removed" => net[Head(news).name] = None
<1>1. /\ DOMAIN news = 1..Len(news) /\ Len(news) \in Nat \ {0}
      /\ DOMAIN news' = 1..(Len(news) - 1)
      /\ Head(news) = news[1] /\ 1 \in DOMAIN news
      /\ \A k \in DOMAIN news' : news'[k] = news[k + 1] /\ k + 1 \in DOMAIN news
      /\ \A k \in DOMAIN news : k # 1 => k - 1 \in DOMAIN news' /\ news'[k - 1] = news[k]
  BY InvParts, OneLess DEF BrowserInv
<1>2. \A k, l \in DOMAIN news : l > k => l # 1 /\ l - 1 > k - 1
  BY <1>1
<1>3. NewsOK'
  <2> SUFFICES ASSUME NEW k \in DOMAIN news', news'[k].kind = "Removed"
               PROVE  \/ net[news'[k].name] = None
                      \/ \E l \in DOMAIN news' : l > k /\ news'[l].name = news'[k].name
    BY DEF NewsOK
  <2>1. k + 1 \in DOMAIN news /\ news'[k] = news[k + 1] /\ (k + 1) - 1 = k
    BY <1>1
  <2>2. \/ net[news[k + 1].name] = None
        \/ \E l \in DOMAIN news : l > k + 1 /\ news[l].name = news[k + 1].name
    BY <2>1 DEF NewsOK
  <2>3. ASSUME NEW l \in DOMAIN news, l > k + 1, news[l].name = news[k + 1].name
        PROVE  \E j \in DOMAIN news' : j > k /\ news'[j].name = news'[k].name
    BY <1>1, <1>2, <2>1, <2>3
  <2> QED
    BY <2>1, <2>2, <2>3
<1>4. ASSUME NEW k \in DOMAIN news
      PROVE  news[k].name = Head(news).name
             \/ \E j \in DOMAIN news' : news'[j].name = news[k].name
  BY <1>1
<1>5. \/ \E k \in DOMAIN news' : news'[k].name = Head(news).name
      \/ Head(news).kind = "Removed" => net[Head(news).name] = None
  <2> SUFFICES ASSUME news[1].kind = "Removed", net[news[1].name] # None
               PROVE  \E k \in DOMAIN news' : news'[k].name = news[1].name
    BY <1>1
  <2>1. PICK l \in DOMAIN news : l > 1 /\ news[l].name = news[1].name
    BY <1>1 DEF NewsOK
  <2>2. l # 1
    BY <1>1, <2>1
  <2>3. l - 1 \in DOMAIN news' /\ news'[l - 1] = news[l]
    BY <1>1, <2>2
  <2> QED
    BY <2>1, <2>3
<1> QED
  BY <1>3, <1>4, <1>5

(* What is told is how it is, or more is to come.                          *)
LEMMA TellFollows ==
  ASSUME Inv, NewsOK, ServicesFollow, RemoveService \/ AddService \/ UpdateService
  PROVE  NewsOK' /\ ServicesFollow'
<1>0. news # <<>> /\ browser # "dead"
  BY InvParts DEF BrowserInv, RemoveService, AddService, UpdateService
<1>1. CASE queue' # queue
  <2>1. PICK m \in BrowserMessages :
           /\ m.name = Head(news).name
           /\ m.value = None \/ m.value = net[m.name]
           /\ Head(news).kind # "Removed" => m.value = net[m.name]
           /\ queue' = Append(queue, m) /\ news' = Tail(news) /\ browser' = "idle"
           /\ UNCHANGED <<net, loop, zcInfo, life, services, events, tables, ours, changes>>
    BY <1>1, ToldIs
  <2>2. /\ NewsOK'
        /\ \A u : (\E k \in DOMAIN news : news[k].name = u) =>
              u = Head(news).name \/ \E k \in DOMAIN news' : news'[k].name = u
        /\ \/ \E k \in DOMAIN news' : news'[k].name = Head(news).name
           \/ Head(news).kind = "Removed" => net[Head(news).name] = None
    BY <1>0, <2>1, NewsLess
  <2>3. m \in Messages /\ m.kind \in FromBrowser /\ Effect(m) = m.value
        /\ queue \in Seq(Messages)
    BY MessageIs, InvParts DEF Effect, FromBrowser, QueueInv
  <2>4. ASSUME Alive', NEW u \in Services
        PROVE  (\E k \in DOMAIN news' : news'[k].name = u) \/ Heard(u)'
    <3>1. Alive
      BY <1>0, <2>1, <2>4 DEF Alive, life
    <3>2. CASE u = m.name
      <4>1. CASE \E k \in DOMAIN news' : news'[k].name = u
        BY <4>1
      <4>2. CASE Effect(m) = net[u]
        <5>1. Settles(Append(queue, m), FromBrowser, u, services[u], Effect(m))
          BY <2>3, <3>2, SettlesMore DEF IsAbout
        <5> QED
          BY <2>1, <4>2, <5>1 DEF Heard
      <4> QED
        BY <2>1, <2>2, <2>3, <3>2, <4>1, <4>2
    <3>3. CASE u # m.name
      <4>1. (\E k \in DOMAIN news : news[k].name = u) \/ Heard(u)
        BY <3>1 DEF ServicesFollow
      <4>2. Heard(u) => Settles(Append(queue, m), FromBrowser, u, services[u], net[u])
        BY <2>3, <3>3, SettlesMore DEF IsAbout, Heard
      <4>3. Heard(u) => Heard(u)'
        BY <2>1, <4>2 DEF Heard
      <4> QED
        BY <2>1, <2>2, <3>3, <4>1, <4>3
    <3> QED
      BY <3>2, <3>3
  <2> QED
    BY <2>2, <2>4 DEF ServicesFollow
<1>2. CASE queue' = queue
  BY <1>0, <1>2, UntoldIs, NewsLess DEF ServicesFollow, Alive
<1> QED
  BY <1>1, <1>2

(* The loop brings the services listed on.                                 *)
LEMMA HandledFollows ==
  ASSUME Inv, ServicesFollow, HandleBrowser \/ Register \/ HandleRepublish
  PROVE  ServicesFollow'
<1> SUFFICES ASSUME Alive', NEW u \in Services
             PROVE  (\E k \in DOMAIN news' : news'[k].name = u) \/ Heard(u)'
  BY DEF ServicesFollow
<1> DEFINE m == Head(queue)
<1>1. services \in [Services -> Addresses \cup {None}] /\ queue \in Seq(Messages)
  BY InvParts DEF TableInv, QueueInv
<1>2. /\ queue # <<>> /\ queue' = Tail(queue)
      /\ news' = news /\ net' = net /\ browser' = browser /\ running' = running
      /\ services'[u] = IF IsAbout(m, FromBrowser, u) THEN Effect(m) ELSE services[u]
  <2>1. CASE HandleBrowser
    <3>1. /\ queue # <<>> /\ m \in BrowserMessages /\ queue' = Tail(queue)
          /\ UNCHANGED <<network, life, tables, ours, changes>>
          /\ loop' = "ended" \/ services' = [services EXCEPT ![m.name] = m.value]
      BY <2>1, ServiceHandled
    <3>2. m.kind \in FromBrowser /\ m.name \in Services /\ Effect(m) = m.value
      BY <3>1, MessageIs DEF Effect, FromBrowser
    <3> HIDE DEF m
    <3>3. services'[u] = IF u = m.name THEN m.value ELSE services[u]
      BY <1>1, <3>1, <3>2 DEF Alive
    <3> QED
      BY <3>1, <3>2, <3>3 DEF network, life, IsAbout
  <2>2. CASE Register \/ HandleRepublish
    <3>1. /\ queue # <<>> /\ m \in OwnMessages /\ queue' = Tail(queue)
          /\ UNCHANGED <<network, life, services, events, tables, published, changes>>
      BY <2>2, OwnHandled
    <3>2. m.kind \notin FromBrowser
      BY <3>1, MessageIs
    <3> QED
      BY <3>1, <3>2 DEF network, life, IsAbout
  <2> QED
    BY <2>1, <2>2
<1>3. loop # "ended"
  BY DEF HandleBrowser, Register, HandleRepublish
<1>4. (\E k \in DOMAIN news : news[k].name = u) \/ Heard(u)
  BY <1>2, <1>3 DEF ServicesFollow, Alive
<1>5. Heard(u) => Settles(Tail(queue), FromBrowser, u,
                   IF IsAbout(m, FromBrowser, u) THEN Effect(m) ELSE services[u], net[u])
  BY <1>1, <1>2, SettlesLess DEF Heard
<1>6. Heard(u) => Heard(u)'
  BY <1>2, <1>5 DEF Heard
<1> QED
  BY <1>2, <1>4, <1>6

-----------------------------------------------------------------------------
(* What we publish.                                                        *)

(* A new port in the messages of one service says nothing of the others.   *)
LEMMA RefreshedSettles ==
  ASSUME QueueInv, NEW o \in Own, NEW p \in Ports, NEW kinds, NEW n, NEW v0, NEW v,
         Settles(queue, kinds, n, v0, v), n # o \/ kinds \cap FromUs = {}
  PROVE  Settles(Refreshed(o, p), kinds, n, v0, v)
<1> DEFINE q == Refreshed(o, p)
<1>1. /\ DOMAIN q = DOMAIN queue
      /\ \A k \in DOMAIN queue :
           /\ q[k].kind = queue[k].kind /\ q[k].name = queue[k].name
           /\ ~IsAbout(queue[k], FromUs, o) => q[k] = queue[k]
  BY RefreshedIs
<1> HIDE DEF q
<1>2. About(q, kinds, n) = About(queue, kinds, n)
  BY <1>1 DEF About, IsAbout
<1>3. \A k \in About(queue, kinds, n) : q[k] = queue[k]
  BY <1>1 DEF About, IsAbout
<1>4. Settles(q, kinds, n, v0, v)
  BY <1>2, <1>3, SettlesSame
<1> QED
  BY <1>4 DEF q

(* What we publish is what the queue comes to, and the rest of it what it  *)
(* came to before.                                                         *)
LEMMA PostedFollows ==
  ASSUME Inv, ServicesFollow, OwnFollow, NEW o \in Own,
         \/ UnpublishService(o)
         \/ \E p \in Ports : PublishService(o, p) \/ RepublishService(o, p)
  PROVE  ServicesFollow' /\ OwnFollow'
<1>1. PICK m \in OwnMessages :
        /\ m.name = o
        /\ published' = [published EXCEPT ![o] = Effect(m)]
        /\ \/ queue' = Append(queue, m)
           \/ \E p \in Ports : queue' = Append(Refreshed(o, p), m)
        /\ UNCHANGED <<network, loop, zcInfo, life, services, events, tables, registered>>
  BY OwnPosted
<1>2. QueueInv /\ queue \in Seq(Messages) /\ published \in [Own -> Ports \cup {None}]
  BY InvParts DEF QueueInv, OwnInv
<1>3. m \in Messages /\ m.kind \in FromUs /\ m.kind \notin FromBrowser
      /\ FromBrowser \cap FromUs = {}
  BY MessageIs
<1>4. PICK q \in Seq(Messages) :
        /\ queue' = Append(q, m)
        /\ \A kinds, n, v0, v :
             Settles(queue, kinds, n, v0, v) /\ (n # o \/ kinds \cap FromUs = {})
               => Settles(q, kinds, n, v0, v)
  <2>1. CASE queue' = Append(queue, m)
    BY <1>2, <2>1
  <2>2. ASSUME NEW p \in Ports, queue' = Append(Refreshed(o, p), m)
        PROVE  /\ Refreshed(o, p) \in Seq(Messages)
               /\ \A kinds, n, v0, v :
                    Settles(queue, kinds, n, v0, v) /\ (n # o \/ kinds \cap FromUs = {})
                      => Settles(Refreshed(o, p), kinds, n, v0, v)
    BY <1>2, RefreshedIs, RefreshedSettles
  <2> QED
    BY <1>1, <2>1, <2>2
<1>5. ASSUME NEW u \in Services, Heard(u) PROVE Heard(u)'
  <2>1. Settles(q, FromBrowser, u, services[u], net[u])
    BY <1>3, <1>4, <1>5 DEF Heard
  <2>2. Settles(queue', FromBrowser, u, services[u], net[u])
    BY <1>3, <1>4, <2>1, SettlesMore DEF IsAbout
  <2> QED
    BY <1>1, <2>2 DEF Heard, network
<1>6. ServicesFollow'
  <2>1. /\ news' = news /\ browser' = browser /\ loop' = loop /\ running' = running
    BY <1>1 DEF network, life
  <2> QED
    BY <1>5, <2>1 DEF ServicesFollow, Alive
<1>7. OwnFollow'
  <2> SUFFICES ASSUME running', loop' # "ended", NEW u \in Own
               PROVE  Settles(queue', FromUs, u, registered'[u], published'[u])
    BY DEF OwnFollow
  <2>1. Settles(queue, FromUs, u, registered[u], published[u]) /\ registered' = registered
    BY <1>1 DEF OwnFollow, life
  <2>2. CASE u = o
    <3>1. Settles(queue', FromUs, u, registered[u], Effect(m))
      BY <1>1, <1>3, <1>4, <2>2, SettlesMore DEF IsAbout
    <3>2. published'[u] = Effect(m)
      BY <1>1, <1>2, <2>2
    <3> QED
      BY <2>1, <3>1, <3>2
  <2>3. CASE u # o
    <3>1. Settles(q, FromUs, u, registered[u], published[u])
      BY <1>4, <2>1, <2>3
    <3>2. Settles(queue', FromUs, u, registered[u], published[u])
      BY <1>1, <1>4, <1>3, <2>3, <3>1, SettlesMore DEF IsAbout
    <3>3. published'[u] = published[u]
      BY <1>1, <1>2, <2>3
    <3> QED
      BY <2>1, <3>2, <3>3
  <2> QED
    BY <2>2, <2>3
<1> QED
  BY <1>6, <1>7

(* The loop brings on what zeroconf answers for us.                        *)
LEMMA HandledRegisters ==
  ASSUME Inv, OwnFollow, HandleBrowser \/ Register \/ HandleRepublish
  PROVE  OwnFollow'
<1> SUFFICES ASSUME running', loop' # "ended", NEW u \in Own
             PROVE  Settles(queue', FromUs, u, registered'[u], published'[u])
  BY DEF OwnFollow
<1> DEFINE m == Head(queue)
<1>1. registered \in [Own -> Ports \cup {None}] /\ queue \in Seq(Messages)
  BY InvParts DEF OwnInv, QueueInv
<1>2. /\ queue # <<>> /\ queue' = Tail(queue)
      /\ published' = published /\ running' = running
      /\ \/ registered'[u] = IF IsAbout(m, FromUs, u) THEN Effect(m) ELSE registered[u]
         \/ IsAbout(m, FromUs, u) /\ Superseded(queue)
  <2>1. CASE HandleBrowser
    <3>1. /\ queue # <<>> /\ m \in BrowserMessages /\ queue' = Tail(queue)
          /\ UNCHANGED <<network, life, tables, ours, changes>>
      BY <2>1, ServiceHandled
    <3>2. m.kind \notin FromUs
      BY <3>1, MessageIs
    <3> QED
      BY <3>1, <3>2 DEF ours, life, IsAbout
  <2>2. CASE Register \/ HandleRepublish
    <3>1. /\ queue # <<>> /\ m \in OwnMessages /\ queue' = Tail(queue)
          /\ UNCHANGED <<network, life, services, events, tables, published, changes>>
          /\ \/ loop' = "ended"
             \/ \E v \in Ports \cup {None} :
                  /\ registered' = [registered EXCEPT ![m.name] = v]
                  /\ v = Effect(m) \/ Superseded(queue)
      BY <2>2, OwnHandled
    <3>2. m.kind \in FromUs /\ m.name \in Own
      BY <3>1, MessageIs
    <3> HIDE DEF m
    <3>3. \/ registered'[u] = IF u = m.name THEN Effect(m) ELSE registered[u]
          \/ u = m.name /\ Superseded(queue)
      BY <1>1, <3>1, <3>2
    <3> QED
      BY <3>1, <3>2, <3>3 DEF life, IsAbout
  <2> QED
    BY <2>1, <2>2
<1>3. loop # "ended"
  BY DEF HandleBrowser, Register, HandleRepublish
<1>4. Settles(queue, FromUs, u, registered[u], published[u])
  BY <1>2, <1>3 DEF OwnFollow
<1>5. Settles(Tail(queue), FromUs, u,
              IF IsAbout(m, FromUs, u) THEN Effect(m) ELSE registered[u], published[u])
  BY <1>1, <1>2, <1>4, SettlesLess
<1>6. ASSUME IsAbout(m, FromUs, u), Superseded(queue) PROVE About(Tail(queue), FromUs, u) # {}
  <2>1. PICK k \in DOMAIN queue : k # 1 /\ IsAbout(queue[k], FromUs, queue[1].name)
    BY <1>6 DEF Superseded
  <2>2. m = queue[1] /\ m.name = u
    BY <1>1, <1>2, <1>6, OneLess DEF IsAbout
  <2>3. k \in About(queue, FromUs, u)
    BY <2>1, <2>2 DEF About
  <2> QED
    BY <1>1, <1>2, <2>1, <2>3, AboutLess
<1>7. ASSUME IsAbout(m, FromUs, u), Superseded(queue)
      PROVE  Settles(Tail(queue), FromUs, u, registered'[u], published[u])
  BY <1>5, <1>6, <1>7 DEF Settles
<1> QED
  BY <1>2, <1>5, <1>7

(* What the browser says is not about our services.                        *)
LEMMA ToldRegisters ==
  ASSUME Inv, OwnFollow, RemoveService \/ AddService \/ UpdateService
  PROVE  OwnFollow'
<1>1. CASE queue' # queue
  <2>1. PICK m \in BrowserMessages :
           /\ queue' = Append(queue, m)
           /\ UNCHANGED <<net, loop, zcInfo, life, services, events, tables, ours, changes>>
    BY <1>1, ToldIs
  <2>2. m \in Messages /\ m.kind \notin FromUs /\ queue \in Seq(Messages)
    BY MessageIs, InvParts DEF QueueInv
  <2>3. \A u, v0, v : Settles(queue, FromUs, u, v0, v) => Settles(queue', FromUs, u, v0, v)
    BY <2>1, <2>2, SettlesMore DEF IsAbout
  <2> QED
    BY <2>1, <2>3 DEF OwnFollow, life, ours
<1>2. CASE queue' = queue
  BY <1>2, UntoldIs DEF OwnFollow, life, ours
<1> QED
  BY <1>1, <1>2

-----------------------------------------------------------------------------
(* The tables.                                                             *)

(* Nobody but the loop and the handlers of its events touches them.        *)
LEMMA EventsAlone ==
  ASSUME NEW s, EventsFollow(s), UNCHANGED <<services, events, table, told, left>>
  PROVE  EventsFollow(s)'
BY DEF EventsFollow, Stays, Arriving

(* The loop changes a service and emits that.                              *)
LEMMA EmitFollows ==
  ASSUME Inv, HandleBrowser, NEW s \in Services, EventsFollow(s)
  PROVE  EventsFollow(s)'
<1> DEFINE m == Head(queue)
           d == DeviceOf[s]
<1>1. /\ m \in BrowserMessages
      /\ UNCHANGED <<table, told, left>>
      /\ \/ UNCHANGED <<services, events>>
         \/ /\ services' = [services EXCEPT ![m.name] = m.value]
            /\ \/ services[m.name] = None /\ m.value = None /\ events' = events
               \/ \E kind \in FromBrowser :
                    /\ events' = Append(events, Message(kind, m.name, m.value))
                    /\ kind = "Removed" <=> m.value = None
                    /\ kind = "Added" => services[m.name] = None
                    /\ services[m.name] = None => kind = "Added"
  BY ServiceHandled DEF tables
<1>2. /\ m.name \in Services /\ m.value \in Addresses \cup {None}
      /\ services \in [Services -> Addresses \cup {None}] /\ events \in Seq(BrowserMessages)
  BY <1>1, MessageIs, InvParts DEF TableInv
<1> HIDE DEF m
<1>3. CASE services'[s] = services[s] /\ events' = events
  BY <1>1, <1>3 DEF EventsFollow, Stays, Arriving
<1>4. ASSUME NEW kind \in FromBrowser,
             services' = [services EXCEPT ![m.name] = m.value],
             events' = Append(events, Message(kind, m.name, m.value)),
             kind = "Removed" <=> m.value = None,
             kind = "Added" => services[m.name] = None,
             services[m.name] = None => kind = "Added"
      PROVE  EventsFollow(s)'
  <2> DEFINE e == Message(kind, m.name, m.value)
  <2>1. e \in BrowserMessages /\ e.kind = kind /\ e.name = m.name /\ e.value = m.value
    BY <1>2, PostedIs
  <2> HIDE DEF e
  <2>2. /\ events' = Append(events, e)
        /\ services'[s] = IF s = m.name THEN m.value ELSE services[s]
    BY <1>2, <1>4 DEF e
  <2>3. Effect(e) = m.value
    BY <2>1 DEF Effect, FromBrowser
  <2>4. \A kinds : About(events', kinds, s) =
          About(events, kinds, s) \cup IF IsAbout(e, kinds, s) THEN {Len(events) + 1} ELSE {}
    BY <1>2, <2>1, <2>2, AboutMore
  <2>5. CASE s # m.name
    <3>1. \A kinds : About(events', kinds, s) = About(events, kinds, s)
      BY <2>1, <2>4, <2>5 DEF IsAbout
    <3>2. \A v0, v : Settles(events, FromBrowser, s, v0, v)
                       => Settles(events', FromBrowser, s, v0, v)
      BY <1>2, <2>1, <2>2, <2>5, SettlesMore DEF IsAbout
    <3>3. services'[s] = services[s]
      BY <2>2, <2>5
    <3> QED
      BY <1>1, <3>1, <3>2, <3>3 DEF EventsFollow, Stays, Arriving
  <2>6. CASE s = m.name
    <3>1. \A v0 : Settles(events', FromBrowser, s, v0, m.value)
      BY <1>2, <1>4, <2>1, <2>2, <2>3, <2>6, SettlesMore DEF IsAbout
    <3>2. services'[s] = m.value
      BY <2>2, <2>6
    <3>3. ASSUME Stays(s)' PROVE Stays(s) /\ kind # "Removed" /\ m.value # None
      <4>1. About(events', {"Removed"}, s) = {} /\ s \notin left
        BY <1>1, <3>3 DEF Stays
      <4>2. /\ About(events, {"Removed"}, s) = {}
            /\ ~IsAbout(e, {"Removed"}, s)
        BY <2>4, <4>1
      <4>3. kind # "Removed"
        BY <2>1, <2>6, <4>2 DEF IsAbout
      <4> QED
        BY <1>4, <4>1, <4>2, <4>3 DEF Stays
    <3>4. Arriving(s)' = Arriving(s) \cup IF kind = "Added" THEN {Len(events) + 1} ELSE {}
      BY <2>1, <2>4, <2>6 DEF Arriving, IsAbout
    <3>5. ASSUME Stays(s)'
          PROVE  /\ \A k, l \in Arriving(s)' : k = l
                 /\ Arriving(s)' # {} => table[d] # s
                 /\ table[d] # None \/ Arriving(s)' # {}
      <4>1. /\ \A k, l \in Arriving(s) : k = l
            /\ Arriving(s) # {} => services[s] # None /\ table[d] # s
            /\ table[d] = s => services[s] # None
            /\ services[s] # None => table[d] # None \/ Arriving(s) # {}
        BY <3>3, <3>5 DEF EventsFollow
      <4>2. CASE kind = "Added"
        BY <1>4, <2>6, <3>4, <4>1, <4>2
      <4>3. CASE kind # "Added"
        BY <1>4, <2>6, <3>4, <4>1, <4>3
      <4> QED
        BY <4>2, <4>3
    <3> QED
      BY <1>1, <3>1, <3>2, <3>3, <3>5 DEF EventsFollow
  <2> QED
    BY <2>5, <2>6
<1>5. CASE services' = [services EXCEPT ![m.name] = m.value]
           /\ services[m.name] = None /\ m.value = None /\ events' = events
  <2>1. services'[s] = services[s]
    BY <1>2, <1>5
  <2> QED
    BY <1>3, <1>5, <2>1
<1> QED
  BY <1>1, <1>3, <1>4, <1>5

(* The handler of an event brings the tables on.                           *)
LEMMA EventFollows ==
  ASSUME Inv, HandleEvent, NEW s \in Services, EventsFollow(s)
  PROVE  EventsFollow(s)'
<1> DEFINE e == Head(events)
           d == DeviceOf[s]
<1>1. /\ events # <<>> /\ events' = Tail(events) /\ services' = services
      /\ \/ e.kind = "Added" /\ AddBmd(e.name, e.value)
         \/ e.kind = "Updated" /\ UpdateBmd(e.name, e.value)
         \/ e.kind = "Removed" /\ RemoveBmd(e.name)
  BY DEF HandleEvent
<1>2. /\ events \in Seq(BrowserMessages) /\ e \in BrowserMessages
      /\ table \in [Devices -> Services \cup {None}]
      /\ told \in [Devices -> Addresses \cup {None}]
  BY <1>1, InvParts, OneLess DEF TableInv
<1>3. e.name \in Services /\ DeviceOf[e.name] \in Devices /\ d \in Devices /\ s # None
      /\ e.kind \in FromBrowser /\ Effect(e) = e.value
  BY <1>2, MessageIs DEF ConstantsAssumption, Effect, FromBrowser
<1>4. \A kinds :
        /\ 1 \in About(events, kinds, s) <=> IsAbout(e, kinds, s)
        /\ \A k \in About(events', kinds, s) : k + 1 \in About(events, kinds, s) /\ k + 1 # 1
        /\ \A k \in About(events, kinds, s) : k # 1 => k - 1 \in About(events', kinds, s)
        /\ About(events', kinds, s) \subseteq Nat
  BY <1>1, <1>2, AboutLess
<1>5. \A v0, v : Settles(events, FromBrowser, s, v0, v) =>
        Settles(events', FromBrowser, s,
                IF IsAbout(e, FromBrowser, s) THEN Effect(e) ELSE v0, v)
  BY <1>1, <1>2, SettlesLess
<1> HIDE DEF e, d
<1>6. /\ \A x \in Devices : table[x] # None => table'[x] = table[x]
      /\ left \subseteq left'
      /\ e.kind = "Added" /\ e.name = s => table'[d] # None
      /\ table'[d] = s /\ table[d] # s =>
           e.kind = "Added" /\ e.name = s /\ told'[d] = e.value
      /\ table[d] = s /\ e.name # s => told'[d] = told[d]
      /\ table[d] = s /\ e.name = s /\ e.kind = "Updated" => told'[d] = e.value
      /\ e.kind = "Removed" /\ e.name = s => s \in left'
  <2>1. CASE e.kind = "Added" /\ AddBmd(e.name, e.value)
    BY <1>2, <1>3, <2>1 DEF AddBmd, d
  <2>2. CASE e.kind = "Updated" /\ UpdateBmd(e.name, e.value)
    BY <1>2, <1>3, <2>2 DEF UpdateBmd, d
  <2>3. CASE e.kind = "Removed" /\ RemoveBmd(e.name)
    BY <1>2, <1>3, <2>3 DEF RemoveBmd, d
  <2> QED
    BY <1>1, <2>1, <2>2, <2>3
<1>7. About(events', FromBrowser, s) # {} =>
        Settles(events', FromBrowser, s, None, services[s])
  <2> SUFFICES ASSUME About(events', FromBrowser, s) # {}
               PROVE  Settles(events', FromBrowser, s, None, services[s])
    OBVIOUS
  <2>1. About(events, FromBrowser, s) # {}
    BY <1>4
  <2>2. \E v0 : Settles(events', FromBrowser, s, v0, services[s])
    BY <1>5, <2>1 DEF EventsFollow
  <2> QED
    BY <2>2 DEF Settles
<1>8. ASSUME Stays(s)' PROVE Stays(s) /\ ~(e.kind = "Removed" /\ e.name = s)
  <2>1. s \notin left' /\ About(events', {"Removed"}, s) = {}
    BY <1>8 DEF Stays
  <2>2. s \notin left /\ ~(e.kind = "Removed" /\ e.name = s)
    BY <1>6, <2>1
  <2>3. ASSUME NEW k \in About(events, {"Removed"}, s) PROVE FALSE
    <3>1. k # 1
      BY <1>4, <2>2, <2>3 DEF IsAbout
    <3> QED
      BY <1>4, <2>1, <2>3, <3>1
  <2> QED
    BY <2>2, <2>3 DEF Stays
<1>9. ASSUME Stays(s)'
      PROVE  /\ \A k, l \in Arriving(s)' : k = l
             /\ Arriving(s)' # {} => services[s] # None /\ table'[d] # s
             /\ table'[d] = s => /\ services[s] # None
                                 /\ Settles(events', FromBrowser, s, told'[d], services[s])
             /\ services[s] # None => table'[d] # None \/ Arriving(s)' # {}
  <2>1. /\ \A k, l \in Arriving(s) : k = l
        /\ Arriving(s) # {} => services[s] # None /\ table[d] # s
        /\ table[d] = s => /\ services[s] # None
                           /\ Settles(events, FromBrowser, s, told[d], services[s])
        /\ services[s] # None => table[d] # None \/ Arriving(s) # {}
    BY <1>8, <1>9 DEF EventsFollow, d
  <2>2. /\ 1 \in Arriving(s) <=> e.kind = "Added" /\ e.name = s
        /\ \A k \in Arriving(s)' : k + 1 \in Arriving(s) /\ k + 1 # 1 /\ k \in Nat
        /\ \A k \in Arriving(s) : k # 1 => k - 1 \in Arriving(s)'
    BY <1>4 DEF Arriving, IsAbout
  <2>3. \A k, l \in Arriving(s)' : k = l
    <3> SUFFICES ASSUME NEW k \in Arriving(s)', NEW l \in Arriving(s)' PROVE k = l
      OBVIOUS
    <3>1. k + 1 = l + 1 /\ k \in Nat /\ l \in Nat
      BY <2>1, <2>2
    <3> QED
      BY <3>1
  <2>4. Arriving(s)' # {} => services[s] # None /\ table'[d] # s
    BY <1>6, <2>1, <2>2
  <2>5. CASE table'[d] = s /\ table[d] = s
    <3>1. ~(e.kind = "Added" /\ e.name = s)
      BY <2>1, <2>2, <2>5
    <3>2. told'[d] = IF IsAbout(e, FromBrowser, s) THEN Effect(e) ELSE told[d]
      BY <1>3, <1>6, <1>8, <1>9, <2>5, <3>1 DEF IsAbout, FromBrowser
    <3> QED
      BY <1>5, <2>1, <2>3, <2>4, <2>5, <3>2
  <2>6. CASE table'[d] = s /\ table[d] # s
    <3>1. e.kind = "Added" /\ e.name = s /\ told'[d] = Effect(e)
      BY <1>3, <1>6, <2>6
    <3>2. IsAbout(e, FromBrowser, s) /\ 1 \in About(events, FromBrowser, s)
      BY <1>3, <1>4, <3>1 DEF IsAbout
    <3>3. Settles(events, FromBrowser, s, None, services[s])
      BY <3>2 DEF EventsFollow
    <3>4. Settles(events', FromBrowser, s, told'[d], services[s])
      BY <1>5, <3>1, <3>2, <3>3
    <3> QED
      BY <1>3, <2>1, <2>2, <2>3, <2>4, <2>6, <3>1, <3>4
  <2>7. CASE table'[d] # s
    <3>1. services[s] # None => table'[d] # None \/ Arriving(s)' # {}
      <4>1. CASE table[d] # None
        BY <1>3, <1>6, <4>1
      <4>2. ASSUME NEW k \in Arriving(s) PROVE table'[d] # None \/ Arriving(s)' # {}
        BY <1>6, <2>2, <4>2
      <4> QED
        BY <2>1, <4>1, <4>2
    <3> QED
      BY <2>3, <2>4, <2>7, <3>1
  <2> QED
    BY <2>5, <2>6, <2>7
<1> QED
  BY <1>1, <1>7, <1>9 DEF EventsFollow, d

-----------------------------------------------------------------------------
(* The invariant and the theorems.                                         *)

FollowInv == Inv /\ Follow

(* At the start nothing is there, and nothing waits.                       *)
LEMMA InitFollows == Init => FollowInv
<1> SUFFICES ASSUME Init PROVE FollowInv
  OBVIOUS
<1>1. queue = <<>> /\ events = <<>> /\ news = <<>>
  BY DEF Init
<1>2. NewsOK /\ ServicesFollow /\ OwnFollow
  <2>1. \A s \in Services : Heard(s)
    BY <1>1, SettledIs DEF Init, Heard
  <2>2. \A o \in Own : Settles(queue, FromUs, o, registered[o], published[o])
    BY <1>1, SettledIs DEF Init
  <2> QED
    BY <1>1, <2>1, <2>2 DEF NewsOK, ServicesFollow, OwnFollow
<1>3. ASSUME NEW s \in Services PROVE EventsFollow(s)
  <2>1. services[s] = None /\ table[DeviceOf[s]] = None /\ s # None
    BY DEF Init, ConstantsAssumption
  <2>2. About(events, FromBrowser, s) = {} /\ About(events, {"Added"}, s) = {}
    BY <1>1, SettledIs
  <2> QED
    BY <2>1, <2>2 DEF EventsFollow, Arriving
<1> QED
  BY <1>2, <1>3, InitInv DEF FollowInv, Follow

(* Every step keeps what all that waits comes to.                          *)
LEMMA FollowStep == FollowInv /\ [Next]_vars => FollowInv'
<1> SUFFICES ASSUME FollowInv, [Next]_vars PROVE Follow'
  BY InvStep DEF FollowInv
<1>0. /\ Inv /\ NewsOK /\ ServicesFollow /\ OwnFollow
      /\ \A s \in Services : EventsFollow(s)
  BY DEF FollowInv, Follow
<1> USE DEF network, tables, ours, life
<1>1. ASSUME UNCHANGED <<news, net>> PROVE NewsOK'
  BY <1>0, <1>1 DEF NewsOK
<1>2. ASSUME UNCHANGED <<news, net, queue, services>>, Alive' => Alive
      PROVE  ServicesFollow'
  BY <1>0, <1>2 DEF ServicesFollow, Heard
<1>3. ASSUME UNCHANGED <<queue, registered, published>>,
             running' => running, loop' # "ended" => loop # "ended"
      PROVE  OwnFollow'
  BY <1>0, <1>3 DEF OwnFollow
<1>4. ASSUME UNCHANGED <<services, events, table, told, left>>
      PROVE  \A s \in Services : EventsFollow(s)'
  BY <1>0, <1>4, EventsAlone
<1>5. ASSUME NEW s \in Services, Withdraw(s) \/ \E a \in Addresses : Announce(s, a)
      PROVE  Follow'
  <2>1. NewsOK' /\ ServicesFollow'
    BY <1>0, <1>5, NetChange
  <2> QED
    BY <1>3, <1>4, <1>5, <2>1 DEF Follow, Withdraw, Announce
<1>6. CASE Ignore
  <2>1. NewsOK'
    BY <1>0, <1>6, NewsLess DEF Ignore
  <2>2. ServicesFollow'
    BY <1>6 DEF Ignore, ServicesFollow, Alive
  <2> QED
    BY <1>3, <1>4, <1>6, <2>1, <2>2 DEF Follow, Ignore
<1>7. CASE Ask
  <2>1. ServicesFollow'
    BY <1>2, <1>7 DEF Ask, Alive
  <2> QED
    BY <1>1, <1>3, <1>4, <1>7, <2>1 DEF Follow, Ask
<1>8. CASE RemoveService \/ AddService \/ UpdateService
  <2>1. NewsOK' /\ ServicesFollow' /\ OwnFollow'
    BY <1>0, <1>8, TellFollows, ToldRegisters
  <2>2. UNCHANGED <<services, events, table, told, left>>
    BY <1>8 DEF RemoveService, AddService, UpdateService, Tell
  <2> QED
    BY <1>4, <2>1, <2>2 DEF Follow
<1>9. CASE HandleStop
  <2>1. loop' = "ended"
    BY <1>9 DEF HandleStop, Raise
  <2>2. ServicesFollow' /\ OwnFollow'
    BY <2>1 DEF ServicesFollow, OwnFollow, Alive
  <2> QED
    BY <1>1, <1>4, <1>9, <2>2 DEF Follow, HandleStop
<1>10. CASE HandleBrowser
  <2>1. ServicesFollow' /\ OwnFollow'
    BY <1>0, <1>10, HandledFollows, HandledRegisters
  <2>2. \A s \in Services : EventsFollow(s)'
    BY <1>0, <1>10, EmitFollows
  <2> QED
    BY <1>1, <1>10, <2>1, <2>2 DEF Follow, HandleBrowser
<1>11. CASE HandlePublish
  <2>1. ServicesFollow'
    BY <1>2, <1>11 DEF HandlePublish, Alive
  <2> QED
    BY <1>1, <1>3, <1>4, <1>11, <2>1 DEF Follow, HandlePublish
<1>12. CASE Register \/ HandleRepublish
  <2>1. ServicesFollow' /\ OwnFollow'
    BY <1>0, <1>12, HandledFollows, HandledRegisters
  <2> QED
    BY <1>1, <1>4, <1>12, <2>1 DEF Follow, Register, HandleRepublish
<1>13. ASSUME NEW o \in Own,
              \/ UnpublishService(o)
              \/ \E p \in Ports : PublishService(o, p) \/ RepublishService(o, p)
       PROVE  Follow'
  <2>1. ServicesFollow' /\ OwnFollow'
    BY <1>0, <1>13, PostedFollows
  <2> QED
    BY <1>1, <1>4, <1>13, <2>1 DEF Follow, UnpublishService, PublishService,
       RepublishService, Post
<1>14. CASE HandleEvent
  <2>1. \A s \in Services : EventsFollow(s)'
    BY <1>0, <1>14, EventFollows
  <2>2. ServicesFollow'
    BY <1>2, <1>14 DEF HandleEvent, Alive
  <2> QED
    BY <1>1, <1>3, <1>14, <2>1, <2>2 DEF Follow, HandleEvent
<1>15. CASE Stop
  <2>1. ServicesFollow' /\ OwnFollow'
    BY <1>15 DEF Stop, ServicesFollow, OwnFollow, Alive
  <2> QED
    BY <1>1, <1>4, <1>15, <2>1 DEF Follow, Stop
<1>16. CASE StopZeroconf
  <2>1. ~running'
    BY <1>0, <1>16, InvParts DEF StopZeroconf, LifeInv
  <2>2. ServicesFollow' /\ OwnFollow'
    BY <2>1 DEF ServicesFollow, OwnFollow, Alive
  <2> QED
    BY <1>1, <1>4, <1>16, <2>2 DEF Follow, StopZeroconf
<1>17. CASE UNCHANGED vars
  BY <1>1, <1>2, <1>3, <1>4, <1>17 DEF vars, Follow, Alive
<1> QED
  BY <1>5, <1>6, <1>7, <1>8, <1>9, <1>10, <1>11, <1>12, <1>13, <1>14, <1>15, <1>16, <1>17
     DEF Next, Run

(* Whatever is announced, withdrawn, published and stopped, and wherever   *)
(* the loop or the browser's thread ends, the tables hold services and     *)
(* their addresses, and the loop registers only what it has a message for. *)
THEOREM TypeCorrect == Spec => []TypeOK
<1>1. Inv => TypeOK
  BY DEF Inv
<1> QED
  BY <1>1, InitInv, InvStep, PTL DEF Spec

(* Whenever all messages are handled and nothing has ended the loop or the *)
(* thread, the services listed are those in the network with their         *)
(* addresses, every device whose services never went has its entry with    *)
(* the address of its service, and zeroconf answers for exactly what we    *)
(* publish: for any services, devices, names, ports and changes.           *)
THEOREM EverythingSettles == Spec => []TablesSettle
<1>1. ASSUME FollowInv PROVE TablesSettle
  <2> SUFFICES ASSUME Settled
               PROVE  /\ services = net
                      /\ \A s \in Services \ left : net[s] # None =>
                           LET d == DeviceOf[s]
                           IN table[d] # None /\ (table[d] = s => told[d] = net[s])
                      /\ registered = published
    BY DEF TablesSettle
  <2>1. /\ Alive /\ running /\ loop # "ended"
        /\ queue = <<>> /\ events = <<>> /\ DOMAIN news = {}
    BY DEF Settled, Alive
  <2>2. /\ services \in [Services -> Addresses \cup {None}]
        /\ net \in [Services -> Addresses \cup {None}]
        /\ registered \in [Own -> Ports \cup {None}]
        /\ published \in [Own -> Ports \cup {None}]
    BY <1>1, InvParts DEF FollowInv, TableInv, BrowserInv, OwnInv
  <2>3. /\ \A s \in Services : Heard(s)
        /\ \A o \in Own : Settles(queue, FromUs, o, registered[o], published[o])
        /\ \A s \in Services : EventsFollow(s)
    BY <1>1, <2>1 DEF FollowInv, Follow, ServicesFollow, OwnFollow
  <2>4. \A kinds, n, v0, v : /\ Settles(queue, kinds, n, v0, v) => v = v0
                             /\ Settles(events, kinds, n, v0, v) => v = v0
                             /\ About(events, kinds, n) = {}
    BY <2>1, SettledIs
  <2>5. \A s \in Services : services[s] = net[s]
    BY <2>3, <2>4 DEF Heard
  <2>6. \A o \in Own : registered[o] = published[o]
    BY <2>3, <2>4
  <2>7. ASSUME NEW s \in Services \ left, net[s] # None
        PROVE  /\ table[DeviceOf[s]] # None
               /\ table[DeviceOf[s]] = s => told[DeviceOf[s]] = net[s]
    <3>1. Stays(s) /\ Arriving(s) = {}
      BY <2>4 DEF Stays, Arriving
    <3>2. services[s] = net[s] /\ EventsFollow(s)
      BY <2>3, <2>5
    <3> QED
      BY <2>7, <2>4, <3>1, <3>2 DEF EventsFollow
  <2> QED
    BY <2>2, <2>5, <2>6, <2>7
<1> QED
  BY <1>1, InitFollows, FollowStep, PTL DEF Spec
=============================================================================
