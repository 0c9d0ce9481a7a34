---------------------- MODULE CrosspointControlProofs ----------------------
(***************************************************************************)
(* Theorems about CrosspointControl for any tables, any number of commands *)
(* and any amount of unread data: a command returns the device's answer to *)
(* itself, and the routing that is shown agrees with the device.           *)
(*                                                                         *)
(* Both rest on the emission lock: between Send and Take there is exactly  *)
(* one of a command on the wire, an answer on the wire and an answer in    *)
(* the slot (Exchange), so that the one a command takes is its own.  What  *)
(* is stored after an ACK is then what the device has had since that ACK   *)
(* (Executed), whatever was read in between.                               *)
(***************************************************************************)
EXTENDS CrosspointControl, SequenceTheorems, TLAPS

(* What the unread messages s say of answers.                              *)
NoAnswer(s) == \A k \in DOMAIN s : s[k].kind = "update"
OneAnswer(s, a) ==
  \E k \in DOMAIN s : /\ s[k].kind = a
                      /\ \A l \in DOMAIN s : l # k => s[l].kind = "update"

(* The stages of the command that has the lock.                            *)
Unasked == toDevice = <<>> /\ NoAnswer(fromDevice) /\ slot = None /\ ~event

Asked(c) == /\ toDevice = <<c>> /\ NoAnswer(fromDevice) /\ slot = None /\ ~event
            /\ pc[c] \in {"writing", "waiting"} /\ verdict[c] = None

Answered(c) ==
  /\ toDevice = <<>> /\ OneAnswer(fromDevice, verdict[c]) /\ slot = None /\ ~event
  /\ pc[c] \in {"writing", "waiting"} /\ verdict[c] # None

Heard(c) == /\ toDevice = <<>> /\ NoAnswer(fromDevice) /\ slot = verdict[c] /\ event
            /\ pc[c] \in {"writing", "woken"} /\ verdict[c] # None

Exchange == /\ holder = None => Unasked
            /\ \A c \in Commands : holder = c => Asked(c) \/ Answered(c) \/ Heard(c)

(* A command that was not sent has no answer; one that was called has a    *)
(* job.                                                                    *)
Sent == \A c \in Commands : /\ pc[c] \in {"idle", "queued"} => verdict[c] = None
                            /\ pc[c] # "idle" => job[c] \in Jobs

Inv == TypeOK /\ Exchange /\ Sent /\ TruthfulReturn

(* What the messages s make of output o, which shows i before them.        *)
About(s, o) == {k \in DOMAIN s : s[k].kind = "update" /\ o \in DOMAIN s[k].set}
Becomes(s, o, i, j) ==
  \/ About(s, o) = {} /\ j = i
  \/ \E k \in About(s, o) : /\ \A l \in About(s, o) : l <= k
                            /\ s[k].set[o] = j

(* The device has what the command with the lock will store.               *)
Executed ==
  \A c \in Commands : holder = c /\ verdict[c] = "ACK" =>
    \A o \in DOMAIN job[c] : device[o] = job[c][o]

(* Every output will come to show what the device has.                     *)
Agrees ==
  \A o \in Outputs : Becomes(fromDevice, o, crosspoints[o], device[o])

RoutingInv == Inv /\ Executed /\ Agrees

(* Outputs that commands set are set by nobody else.                       *)
OwnOutputs == \A j \in Jobs : DOMAIN j \cap Foreign = {}

USE ConstantsAssumption

-----------------------------------------------------------------------------
(* Messages.                                                               *)

(* Whatever is on the wire is an update of some outputs or an answer.      *)
LEMMA MessageIs ==
  ASSUME NEW m \in Messages
  PROVE  /\ m.kind \in {"update", "ACK", "NAK"}
         /\ m.kind = "update" => /\ DOMAIN m.set \subseteq Outputs
                                 /\ \A o \in DOMAIN m.set : m.set[o] \in Inputs
<1>1. CASE \E j \in Jobs : m = Update(j)
  BY <1>1 DEF Update
<1>2. CASE m = Answer("ACK") \/ m = Answer("NAK")
  BY <1>2 DEF Answer
<1>3. CASE \E x \in Foreign, i \in Inputs : m = Update(Single(x, i))
  <2>1. PICK x \in Foreign, i \in Inputs : m = Update(Single(x, i))
    BY <1>3
  <2>2. m.kind = "update" /\ m.set = Single(x, i)
    BY <2>1 DEF Update
  <2>3. DOMAIN Single(x, i) = {x} /\ Single(x, i)[x] = i
    BY DEF Single
  <2> QED
    BY <2>2, <2>3
<1> DEFINE own == {Update(j) : j \in Jobs}
           answers == {Answer("ACK"), Answer("NAK")}
           foreign == {Update(Single(x, i)) : x \in Foreign, i \in Inputs}
<1>4. m \in own => \E j \in Jobs : m = Update(j)
  OBVIOUS
<1>5. m \in answers => m = Answer("ACK") \/ m = Answer("NAK")
  OBVIOUS
<1>6. m \in foreign => \E x \in Foreign, i \in Inputs : m = Update(Single(x, i))
  OBVIOUS
<1>7. Messages = own \cup answers \cup foreign
  BY DEF Messages
<1> HIDE DEF own, answers, foreign
<1> QED
  BY <1>1, <1>2, <1>3, <1>4, <1>5, <1>6, <1>7

(* What the device sends are messages.                                     *)
LEMMA SentIsMessage ==
  /\ \A j \in Jobs : Update(j) \in Messages /\ Update(j).kind = "update" /\ Update(j).set = j
  /\ \A a \in {"ACK", "NAK"} : Answer(a) \in Messages /\ Answer(a).kind = a
  /\ \A x \in Foreign, i \in Inputs : Update(Single(x, i)) \in Messages
  /\ \A f : Update(f).kind = "update" /\ Update(f).set = f
<1> DEFINE own == {Update(j) : j \in Jobs}
           answers == {Answer("ACK"), Answer("NAK")}
           foreign == {Update(Single(x, i)) : x \in Foreign, i \in Inputs}
<1>1. \A j \in Jobs : Update(j) \in own
  OBVIOUS
<1>2. \A a \in {"ACK", "NAK"} : Answer(a) \in answers
  OBVIOUS
<1>3. \A x \in Foreign, i \in Inputs : Update(Single(x, i)) \in foreign
  OBVIOUS
<1>4. /\ \A a \in {"ACK", "NAK"} : Answer(a).kind = a
      /\ \A f : Update(f).kind = "update" /\ Update(f).set = f
  BY DEF Update, Answer
<1>5. Messages = own \cup answers \cup foreign
  BY DEF Messages
<1>6. own \subseteq Messages /\ answers \subseteq Messages /\ foreign \subseteq Messages
  <2> HIDE DEF own, answers, foreign
  <2> QED
    BY <1>5
<1>7. \A x \in Foreign, i \in Inputs : Update(Single(x, i)) \in Messages
  BY <1>3, <1>6
<1> QED
  BY <1>1, <1>2, <1>4, <1>6, <1>7

(* A routing with some outputs set is a routing.                           *)
LEMMA WithIsRouting ==
  ASSUME NEW r \in Routings, NEW j, DOMAIN j \subseteq Outputs,
         \A o \in DOMAIN j : j[o] \in Inputs
  PROVE  /\ With(r, j) \in Routings
         /\ \A o \in Outputs : With(r, j)[o] = IF o \in DOMAIN j THEN j[o] ELSE r[o]
BY DEF With, Routings

(* A message more at the end.                                              *)
LEMMA OneMore ==
  ASSUME NEW s \in Seq(Messages), NEW m \in Messages
  PROVE  /\ Append(s, m) \in Seq(Messages) /\ DOMAIN s = 1..Len(s) /\ Len(s) \in Nat
         /\ DOMAIN Append(s, m) = 1..(Len(s) + 1)
         /\ Append(s, m)[Len(s) + 1] = m
         /\ \A k \in DOMAIN s : Append(s, m)[k] = s[k]
BY AppendProperties, LenProperties

(* The first message gone.                                                 *)
LEMMA OneLess ==
  ASSUME NEW s \in Seq(Messages), s # <<>>
  PROVE  /\ Tail(s) \in Seq(Messages) /\ DOMAIN s = 1..Len(s) /\ Len(s) \in Nat \ {0}
         /\ DOMAIN Tail(s) = 1..(Len(s) - 1)
         /\ Head(s) = s[1] /\ Head(s) \in Messages
         /\ \A k \in DOMAIN Tail(s) : Tail(s)[k] = s[k + 1]
BY HeadTailProperties, LenProperties, EmptySeq

-----------------------------------------------------------------------------
(* Answers among the unread messages.                                      *)

(* An update more does not change the answers.                           *)
LEMMA AnswersAfterUpdate ==
  ASSUME NEW s \in Seq(Messages), NEW m \in Messages, m.kind = "update", NEW a
  PROVE  /\ NoAnswer(s) => NoAnswer(Append(s, m))
         /\ OneAnswer(s, a) => OneAnswer(Append(s, m), a)
<1>1. /\ DOMAIN s = 1..Len(s) /\ Len(s) \in Nat
      /\ DOMAIN Append(s, m) = 1..(Len(s) + 1)
      /\ Append(s, m)[Len(s) + 1] = m
      /\ \A k \in DOMAIN s : Append(s, m)[k] = s[k]
  BY OneMore
<1>2. \A k \in DOMAIN Append(s, m) : k \in DOMAIN s \/ k = Len(s) + 1
  BY <1>1
<1>3. NoAnswer(s) => NoAnswer(Append(s, m))
  BY <1>1, <1>2 DEF NoAnswer
<1>4. ASSUME OneAnswer(s, a) PROVE OneAnswer(Append(s, m), a)
  <2>1. PICK k \in DOMAIN s : /\ s[k].kind = a
                              /\ \A l \in DOMAIN s : l # k => s[l].kind = "update"
    BY <1>4 DEF OneAnswer
  <2>2. k \in DOMAIN Append(s, m) /\ Append(s, m)[k].kind = a
    BY <1>1, <2>1
  <2>3. \A l \in DOMAIN Append(s, m) : l # k => Append(s, m)[l].kind = "update"
    BY <1>1, <1>2, <2>1
  <2> QED
    BY <2>2, <2>3 DEF OneAnswer
<1> QED
  BY <1>3, <1>4

(* An answer more is the one answer if there was none.                   *)
LEMMA AnswersAfterAnswer ==
  ASSUME NEW s \in Seq(Messages), NEW m \in Messages, NoAnswer(s)
  PROVE  OneAnswer(Append(s, m), m.kind)
<1>1. /\ DOMAIN s = 1..Len(s) /\ Len(s) \in Nat
      /\ DOMAIN Append(s, m) = 1..(Len(s) + 1)
      /\ Append(s, m)[Len(s) + 1] = m
      /\ \A k \in DOMAIN s : Append(s, m)[k] = s[k]
  BY OneMore
<1>2. \A l \in DOMAIN Append(s, m) : l # Len(s) + 1 => l \in DOMAIN s
  BY <1>1
<1>3. Len(s) + 1 \in DOMAIN Append(s, m)
  BY <1>1
<1> QED
  BY <1>1, <1>2, <1>3 DEF NoAnswer, OneAnswer

(* Reading an update keeps the answers, reading the answer takes it.     *)
LEMMA AnswersAfterReading ==
  ASSUME NEW s \in Seq(Messages), s # <<>>
  PROVE  /\ NoAnswer(s) => Head(s).kind = "update" /\ NoAnswer(Tail(s))
         /\ \A a \in {"ACK", "NAK"} : OneAnswer(s, a) =>
              IF Head(s).kind = "update" THEN OneAnswer(Tail(s), a)
              ELSE Head(s).kind = a /\ NoAnswer(Tail(s))
<1>1. /\ DOMAIN s = 1..Len(s) /\ Len(s) \in Nat \ {0}
      /\ DOMAIN Tail(s) = 1..(Len(s) - 1)
      /\ Head(s) = s[1]
      /\ \A k \in DOMAIN Tail(s) : Tail(s)[k] = s[k + 1]
  BY OneLess
<1>2. \A k \in DOMAIN Tail(s) : k + 1 \in DOMAIN s /\ k + 1 # 1
  BY <1>1
<1>3. 1 \in DOMAIN s
  BY <1>1
<1>4. NoAnswer(s) => Head(s).kind = "update" /\ NoAnswer(Tail(s))
  BY <1>1, <1>2, <1>3 DEF NoAnswer
<1>5. ASSUME NEW a \in {"ACK", "NAK"}, OneAnswer(s, a)
      PROVE  IF Head(s).kind = "update" THEN OneAnswer(Tail(s), a)
             ELSE Head(s).kind = a /\ NoAnswer(Tail(s))
  <2>1. PICK k \in DOMAIN s : /\ s[k].kind = a
                              /\ \A l \in DOMAIN s : l # k => s[l].kind = "update"
    BY <1>5 DEF OneAnswer
  <2>2. CASE k = 1
    BY <1>1, <1>2, <2>1, <2>2 DEF NoAnswer
  <2>3. CASE k # 1
    <3>1. Head(s).kind = "update"
      BY <1>1, <1>3, <2>1, <2>3
    <3>2. k - 1 \in DOMAIN Tail(s) /\ Tail(s)[k - 1] = s[k]
      BY <1>1, <2>3
    <3>3. \A l \in DOMAIN Tail(s) : l # k - 1 => Tail(s)[l].kind = "update"
      BY <1>1, <1>2, <2>1
    <3>4. OneAnswer(Tail(s), a)
      BY <2>1, <3>2, <3>3 DEF OneAnswer
    <3> QED
      BY <3>1, <3>4
  <2> QED
    BY <2>2, <2>3
<1> QED
  BY <1>4, <1>5

-----------------------------------------------------------------------------
(* What unread messages make of an output.                                 *)

(* A message more decides what an output becomes if it is about it.      *)
LEMMA BecomesAfterSending ==
  ASSUME NEW s \in Seq(Messages), NEW m \in Messages, NEW o, NEW i, NEW j,
         Becomes(s, o, i, j)
  PROVE  Becomes(Append(s, m), o, i,
                 IF m.kind = "update" /\ o \in DOMAIN m.set THEN m.set[o] ELSE j)
<1> DEFINE t == Append(s, m)
<1>1. /\ DOMAIN s = 1..Len(s) /\ Len(s) \in Nat
      /\ DOMAIN t = 1..(Len(s) + 1)
      /\ t[Len(s) + 1] = m
      /\ \A k \in DOMAIN s : t[k] = s[k]
  BY OneMore
<1> HIDE DEF t
<1>2. CASE m.kind = "update" /\ o \in DOMAIN m.set
  <2>1. Len(s) + 1 \in About(t, o) /\ \A l \in About(t, o) : l <= Len(s) + 1
    BY <1>1, <1>2 DEF About
  <2>2. Becomes(t, o, i, m.set[o])
    BY <1>1, <2>1 DEF Becomes
  <2> QED
    BY <1>2, <2>2 DEF t
<1>3. CASE ~(m.kind = "update" /\ o \in DOMAIN m.set)
  <2>1. About(t, o) = About(s, o) /\ \A k \in About(s, o) : t[k] = s[k]
    BY <1>1, <1>3 DEF About
  <2>2. Becomes(t, o, i, j)
    BY <2>1 DEF Becomes
  <2> QED
    BY <1>3, <2>2 DEF t
<1> QED
  BY <1>2, <1>3

(* A message that was read and is shown decides nothing any more.        *)
LEMMA BecomesAfterReading ==
  ASSUME NEW s \in Seq(Messages), s # <<>>, NEW o, NEW i, NEW j,
         Becomes(s, o, i, j)
  PROVE  Becomes(Tail(s), o,
                 IF Head(s).kind = "update" /\ o \in DOMAIN Head(s).set
                 THEN Head(s).set[o] ELSE i, j)
<1> DEFINE t == Tail(s)
           r == IF Head(s).kind = "update" /\ o \in DOMAIN Head(s).set
                THEN Head(s).set[o] ELSE i
<1>1. /\ DOMAIN s = 1..Len(s) /\ Len(s) \in Nat \ {0}
      /\ DOMAIN t = 1..(Len(s) - 1)
      /\ Head(s) = s[1]
      /\ \A k \in DOMAIN t : t[k] = s[k + 1]
  BY OneLess
<1>2. 1 \in About(s, o) => r = s[1].set[o]
  BY <1>1 DEF About
<1>3. 1 \notin About(s, o) => r = i
  BY <1>1 DEF About
<1> HIDE DEF t, r
<1>4. \A k \in About(t, o) : k + 1 \in About(s, o)
  BY <1>1 DEF About
<1>5. \A k \in About(s, o) : k # 1 => k - 1 \in About(t, o) /\ t[k - 1] = s[k]
  BY <1>1 DEF About
<1>6. About(t, o) \subseteq Nat /\ About(s, o) \subseteq Nat
  BY <1>1 DEF About
<1>7. CASE About(s, o) = {}
  <2>1. About(t, o) = {} /\ j = i /\ r = i
    BY <1>3, <1>4, <1>7 DEF Becomes
  <2> QED
    BY <2>1 DEF Becomes, t, r
<1>8. ASSUME NEW k \in About(s, o), \A l \in About(s, o) : l <= k, s[k].set[o] = j
      PROVE  Becomes(t, o, r, j)
  <2>1. CASE k = 1
    <3>1. About(t, o) = {}
      <4> SUFFICES ASSUME NEW l \in About(t, o) PROVE FALSE
        OBVIOUS
      <4>1. l + 1 <= 1 /\ l \in DOMAIN t
        BY <1>4, <1>8, <2>1 DEF About
      <4> QED
        BY <1>1, <4>1
    <3> QED
      BY <1>2, <1>8, <2>1, <3>1 DEF Becomes
  <2>2. CASE k # 1
    <3>1. k - 1 \in About(t, o) /\ t[k - 1].set[o] = j
      BY <1>5, <1>8, <2>2
    <3>2. \A l \in About(t, o) : l <= k - 1
      BY <1>4, <1>6, <1>8
    <3> QED
      BY <3>1, <3>2 DEF Becomes
  <2> QED
    BY <2>1, <2>2
<1>9. Becomes(t, o, r, j)
  BY <1>7, <1>8 DEF Becomes, t, r
<1> QED
  BY <1>9 DEF t, r

(* Announced is what an output becomes.                                    *)
LEMMA BecomesAnnounced ==
  ASSUME fromDevice \in Seq(Messages), NEW o, NEW j,
         Becomes(fromDevice, o, crosspoints[o], j)
  PROVE  Announced(o) = j
<1> DEFINE about == About(fromDevice, o)
<1>1. Announced(o) = IF about = {} THEN crosspoints[o]
        ELSE fromDevice[CHOOSE k \in about : \A l \in about : l <= k].set[o]
  BY DEF Announced, About
<1>2. about \subseteq Nat
  BY LenProperties DEF About
<1> HIDE DEF about
<1>3. ASSUME NEW k \in about, \A l \in about : l <= k
      PROVE  about # {} /\ k = CHOOSE n \in about : \A l \in about : l <= n
  <2>1. \A n \in about : (\A l \in about : l <= n) => n = k
    BY <1>2, <1>3
  <2> QED
    BY <1>3, <2>1
<1>4. \/ about = {} /\ j = crosspoints[o]
      \/ \E k \in about : (\A l \in about : l <= k) /\ fromDevice[k].set[o] = j
  BY DEF Becomes, about
<1> QED
  BY <1>1, <1>3, <1>4

-----------------------------------------------------------------------------
(* The exchange: each action keeps Inv.                                    *)

(* A command that is created takes no part in the exchange.                *)
LEMMA CreateKeepsInv ==
  ASSUME Inv, NEW c \in Commands, NEW j \in Jobs, Create(c, j), control' \in Routings,
         UNCHANGED <<crosspoints, noted, holder, answer, wire>>
  PROVE  Inv'
<1> USE DEF Create, Goto, answer, wire
<1>1. /\ pc[c] = "idle" /\ holder # c
      /\ pc' = [pc EXCEPT ![c] = "queued"] /\ job' = [job EXCEPT ![c] = j]
      /\ UNCHANGED <<crosspoints, noted, holder, slot, event, device, toDevice,
                     fromDevice, verdict>>
  BY DEF Inv, TypeOK, Active
<1> HIDE DEF Create
<1>2. pc'[c] = "queued" /\ \A d \in Commands : d # c => pc'[d] = pc[d] /\ job'[d] = job[d]
  BY <1>1 DEF Inv, TypeOK
<1>3. TypeOK'
  BY <1>1 DEF Inv, TypeOK, Active, Routings, Returned
<1>4. Exchange'
  BY <1>1, <1>2 DEF Inv, Exchange, Unasked, Asked, Answered, Heard
<1>5. Sent'
  BY <1>1, <1>2 DEF Inv, Sent, TypeOK
<1>6. TruthfulReturn'
  BY <1>1, <1>2 DEF Inv, TruthfulReturn
<1> QED
  BY <1>3, <1>4, <1>5, <1>6 DEF Inv

(* When neither commands nor the exchange change, only types matter.       *)
LEMMA StillKeepsInv ==
  ASSUME Inv, crosspoints' \in Routings, control' \in Routings, noted' \in BOOLEAN,
         UNCHANGED <<holder, answer, wire, pc, job>>
  PROVE  Inv'
BY DEF Inv, TypeOK, Exchange, Unasked, Asked, Answered, Heard, Sent, TruthfulReturn,
       answer, wire

(* set_crosspoints is called.                                            *)
LEMMA CallKeepsInv ==
  ASSUME Inv, NEW c \in Commands, Call(c) PROVE Inv'
<1>1. PICK j \in Jobs : Create(c, j)
  BY DEF Call
<1>2. control' \in Routings /\ UNCHANGED <<crosspoints, noted, holder, answer, wire>>
  BY DEF Call, shown, Inv, TypeOK
<1> QED
  BY <1>1, <1>2, CreateKeepsInv

(* An item of crosspoint_control is assigned.                            *)
LEMMA SetControlKeepsInv ==
  ASSUME Inv, NEW o \in Outputs, NEW i \in Inputs, SetControl(o, i) PROVE Inv'
<1>1. control' \in Routings /\ UNCHANGED <<crosspoints, noted, holder, answer, wire>>
  BY DEF SetControl, Inv, TypeOK, Routings
<1>2. CASE \E c \in Commands, j \in Jobs : Create(c, j)
  BY <1>1, <1>2, CreateKeepsInv
<1>3. CASE UNCHANGED <<pc, job>>
  BY <1>1, <1>3, StillKeepsInv DEF Inv, TypeOK
<1> QED
  BY <1>2, <1>3 DEF SetControl

(* Nothing of an earlier command is left when the lock is taken.           *)
LEMMA SendKeepsInv ==
  ASSUME Inv, NEW c \in Commands, Send(c) PROVE Inv'
<1>1. /\ pc[c] = "queued" /\ holder = None /\ holder' = c
      /\ toDevice' = Append(toDevice, c) /\ pc' = [pc EXCEPT ![c] = "writing"]
      /\ UNCHANGED <<crosspoints, control, noted, job, slot, event, device, fromDevice, verdict>>
  BY DEF Send, Goto, shown, answer
<1>2. Unasked /\ verdict[c] = None
  BY <1>1 DEF Inv, Exchange, Sent
<1>3. toDevice' = <<c>>
  BY <1>1, <1>2 DEF Unasked
<1>4. \A d \in Commands : pc[d] \notin Active
  BY <1>1 DEF Inv, TypeOK
<1>5. pc'[c] = "writing" /\ \A d \in Commands : d # c => pc'[d] = pc[d]
  BY <1>1 DEF Inv, TypeOK
<1>6. TypeOK'
  <2>1. toDevice' \in Seq(Commands)
    BY <1>3
  <2>2. \A d \in Commands : pc'[d] \in Active <=> holder' = d
    BY <1>1, <1>4, <1>5 DEF Active
  <2>3. pc' \in [Commands -> {"idle", "queued"} \cup Active \cup Returned]
    BY <1>1 DEF Inv, TypeOK, Active
  <2> QED
    BY <1>1, <2>1, <2>2, <2>3 DEF Inv, TypeOK
<1>7. Exchange'
  <2>1. Asked(c)'
    BY <1>1, <1>2, <1>3, <1>5 DEF Asked, Unasked
  <2> QED
    BY <1>1, <2>1 DEF Exchange
<1>8. Sent'
  BY <1>1, <1>5 DEF Inv, Sent
<1>9. TruthfulReturn'
  BY <1>1, <1>5 DEF Inv, TruthfulReturn
<1> QED
  BY <1>6, <1>7, <1>8, <1>9 DEF Inv

(* The answer that a command takes is the one to itself.                   *)
LEMMA TakeKeepsInv ==
  ASSUME Inv, NEW c \in Commands, holder = c, event, Take(c), UNCHANGED <<job, wire>>
  PROVE  Inv'
<1>1. Heard(c)
  BY DEF Inv, Exchange, Asked, Answered
<1>2. /\ slot' = None /\ event' = FALSE /\ holder' = None /\ ~noted' /\ noted' \in BOOLEAN
      /\ \/ slot = "ACK" /\ pc' = [pc EXCEPT ![c] = "true"]
         \/ slot = "NAK" /\ pc' = [pc EXCEPT ![c] = "false"]
      /\ UNCHANGED <<job, device, toDevice, fromDevice, verdict>>
  BY DEF Take, Unlock, Goto, wire
<1>3. job[c] \in Jobs
  BY <1>1 DEF Inv, Sent, Heard
<1>4. crosspoints' \in Routings /\ control' \in Routings
  <2>1. With(crosspoints, job[c]) \in Routings /\ crosspoints \in Routings
        /\ control \in Routings
    BY <1>3, WithIsRouting DEF Inv, TypeOK
  <2> QED
    BY <2>1 DEF Take, Unlock
<1>5. /\ \/ pc'[c] = "true" /\ verdict[c] = "ACK"
         \/ pc'[c] = "false" /\ verdict[c] = "NAK"
      /\ \A d \in Commands : d # c => pc'[d] = pc[d]
  <2>1. slot = verdict[c] /\ pc \in [Commands -> {"idle", "queued"} \cup Active \cup Returned]
    BY <1>1 DEF Heard, Inv, TypeOK
  <2>2. CASE slot = "ACK" /\ pc' = [pc EXCEPT ![c] = "true"]
    BY <2>1, <2>2
  <2>3. CASE slot = "NAK" /\ pc' = [pc EXCEPT ![c] = "false"]
    BY <2>1, <2>3
  <2> QED
    BY <1>2, <2>2, <2>3
<1>6. TypeOK'
  <2>1. pc' \in [Commands -> {"idle", "queued"} \cup Active \cup Returned]
    BY <1>2 DEF Inv, TypeOK, Returned
  <2>2. \A d \in Commands : pc'[d] \notin Active /\ d # None
    <3>1. \A d \in Commands : d # None /\ (pc[d] \in Active <=> d = c)
      BY DEF Inv, TypeOK
    <3> QED
      BY <1>5, <3>1 DEF Active
  <2>3. slot' \in {None, "ACK", "NAK"} /\ event' \in BOOLEAN /\ holder' \in Commands \cup {None}
    BY <1>2
  <2>4. UNCHANGED <<job, device, toDevice, fromDevice, verdict>>
    BY <1>2
  <2>5. \A d \in Commands : pc'[d] \in Active <=> holder' = d
    BY <1>2, <2>2
  <2> QED
    BY <1>2, <1>4, <2>1, <2>3, <2>4, <2>5 DEF Inv, TypeOK
<1>7. Exchange'
  BY <1>1, <1>2 DEF Exchange, Unasked, Heard
<1>8. Sent'
  BY <1>1, <1>2, <1>5 DEF Inv, Sent, Heard
<1>9. TruthfulReturn'
  BY <1>2, <1>5 DEF Inv, TruthfulReturn
<1> QED
  BY <1>6, <1>7, <1>8, <1>9 DEF Inv

(* A command goes on at once if its answer was read while it was written.*)
LEMMA WaitKeepsInv ==
  ASSUME Inv, NEW c \in Commands, Wait(c) PROVE Inv'
<1>1. pc[c] = "writing" /\ holder = c
  BY DEF Wait, Inv, TypeOK, Active
<1>2. CASE event /\ Take(c)
  BY <1>1, <1>2, TakeKeepsInv DEF Wait
<1>3. CASE ~event /\ Goto(c, "waiting") /\ UNCHANGED <<shown, holder, answer>>
  <2>1. /\ pc' = [pc EXCEPT ![c] = "waiting"]
        /\ UNCHANGED <<crosspoints, control, noted, holder, slot, event, job, device,
                       toDevice, fromDevice, verdict>>
    BY <1>3 DEF Wait, Goto, shown, answer, wire
  <2>2. pc'[c] = "waiting" /\ \A d \in Commands : d # c => pc'[d] = pc[d]
    BY <2>1 DEF Inv, TypeOK
  <2>3. TypeOK'
    BY <1>1, <2>1, <2>2 DEF Inv, TypeOK, Active
  <2>4. Exchange'
    BY <1>1, <1>3, <2>1, <2>2 DEF Inv, Exchange, Unasked, Asked, Answered, Heard
  <2>5. Sent'
    BY <1>1, <2>1, <2>2 DEF Inv, Sent
  <2>6. TruthfulReturn'
    BY <2>1, <2>2 DEF Inv, TruthfulReturn
  <2> QED
    BY <2>3, <2>4, <2>5, <2>6 DEF Inv
<1> QED
  BY <1>2, <1>3 DEF Wait

(* A command goes on once it is woken.                                   *)
LEMMA ResumeKeepsInv ==
  ASSUME Inv, NEW c \in Commands, Resume(c) PROVE Inv'
<1>1. pc[c] = "woken" /\ holder = c
  BY DEF Resume, Inv, TypeOK, Active
<1>2. event
  BY <1>1 DEF Inv, Exchange, Asked, Answered, Heard
<1> QED
  BY <1>1, <1>2, TakeKeepsInv DEF Resume

(* An answer is read while a command waits for it, and is the one to it.   *)
LEMMA ReadAnswerKeepsInv ==
  ASSUME Inv, Read, Head(fromDevice).kind # "update", ReadAnswer(Head(fromDevice).kind)
  PROVE  Inv'
<1> DEFINE a == Head(fromDevice).kind
<1>1. /\ slot' = a /\ event' /\ event' \in BOOLEAN
      /\ pc' = [c \in Commands |-> IF pc[c] = "waiting" THEN "woken" ELSE pc[c]]
      /\ fromDevice' = Tail(fromDevice) /\ fromDevice # <<>>
      /\ UNCHANGED <<crosspoints, control, noted, holder, job, device, toDevice, verdict>>
  BY DEF Read, ReadAnswer, shown
<1>2. /\ fromDevice \in Seq(Messages) /\ Tail(fromDevice) \in Seq(Messages)
      /\ Head(fromDevice) \in Messages
  BY <1>1, OneLess DEF Inv, TypeOK
<1>3. a \in {"ACK", "NAK"}
  BY <1>2, MessageIs
<1>4. ~NoAnswer(fromDevice)
  BY <1>1, <1>2, AnswersAfterReading
<1>5. holder # None
  BY <1>4 DEF Inv, Exchange, Unasked
<1>6. PICK c \in Commands : holder = c
  BY <1>5 DEF Inv, TypeOK
<1>7. Answered(c) /\ verdict[c] \in {"ACK", "NAK"}
  BY <1>4, <1>6 DEF Inv, Exchange, Asked, Heard, Answered, TypeOK
<1>8. a = verdict[c] /\ NoAnswer(fromDevice')
  <2>1. OneAnswer(fromDevice, verdict[c])
    BY <1>7 DEF Answered
  <2> QED
    BY <1>1, <1>2, <1>7, <2>1, AnswersAfterReading
<1> HIDE DEF a
<1>9. \A d \in Commands : pc'[d] = IF pc[d] = "waiting" THEN "woken" ELSE pc[d]
  BY <1>1
<1>10. TypeOK'
  <2>1. pc' \in [Commands -> {"idle", "queued"} \cup Active \cup Returned]
    BY <1>1 DEF Inv, TypeOK, Active
  <2>2. \A d \in Commands : pc'[d] \in Active <=> pc[d] \in Active
    BY <1>9 DEF Active
  <2> QED
    BY <1>1, <1>2, <1>3, <2>1, <2>2 DEF Inv, TypeOK
<1>11. Exchange'
  <2>1. Heard(c)'
    BY <1>1, <1>7, <1>8, <1>9 DEF Answered, Heard
  <2> QED
    BY <1>1, <1>5, <1>6, <2>1 DEF Exchange
<1>12. Sent' /\ TruthfulReturn'
  BY <1>1, <1>9 DEF Inv, Sent, TruthfulReturn
<1> QED
  BY <1>10, <1>11, <1>12 DEF Inv

(* Reading an update leaves the answers alone.                             *)
LEMMA ReadUpdateKeepsInv ==
  ASSUME Inv, Read, Head(fromDevice).kind = "update", ReadUpdate(Head(fromDevice).set)
  PROVE  Inv'
<1> DEFINE m == Head(fromDevice)
           r == With(crosspoints, m.set)
<1>1. /\ fromDevice' = Tail(fromDevice) /\ fromDevice # <<>>
      /\ UNCHANGED <<holder, slot, event, pc, job, device, toDevice, verdict>>
  BY DEF Read, ReadUpdate, answer
<1>2. /\ fromDevice \in Seq(Messages) /\ Tail(fromDevice) \in Seq(Messages)
      /\ Head(fromDevice) \in Messages
  BY <1>1, OneLess DEF Inv, TypeOK
<1>3. r \in Routings
  BY <1>2, MessageIs, WithIsRouting DEF Inv, TypeOK
<1>4. crosspoints' \in Routings /\ control' \in Routings /\ noted' \in BOOLEAN
  <2> HIDE DEF r
  <2>1. crosspoints \in Routings /\ control \in Routings /\ noted \in BOOLEAN
    BY DEF Inv, TypeOK
  <2>2. \/ crosspoints' = r /\ control' = r /\ noted' = noted
        \/ crosspoints' = crosspoints /\ control' = control /\ noted' = noted
        \/ crosspoints' = r /\ control' = control /\ noted' = (noted \/ r # crosspoints)
    BY DEF ReadUpdate, Feedback, shown, r
  <2> QED
    BY <1>3, <2>1, <2>2
<1>5. NoAnswer(fromDevice) => NoAnswer(fromDevice')
  BY <1>1, <1>2, AnswersAfterReading
<1>6. \A a \in {"ACK", "NAK"} : OneAnswer(fromDevice, a) => OneAnswer(fromDevice', a)
  BY <1>1, <1>2, AnswersAfterReading
<1>7. TypeOK'
  BY <1>1, <1>2, <1>4 DEF Inv, TypeOK
<1>8. Exchange'
  <2>1. holder' = None => Unasked'
    BY <1>1, <1>5 DEF Inv, Exchange, Unasked
  <2>2. ASSUME NEW c \in Commands, holder' = c PROVE (Asked(c) \/ Answered(c) \/ Heard(c))'
    <3>1. verdict[c] \in {None, "ACK", "NAK"} /\ (Asked(c) \/ Answered(c) \/ Heard(c))
      BY <1>1, <2>2 DEF Inv, Exchange, TypeOK
    <3> QED
      BY <1>1, <1>5, <1>6, <3>1 DEF Asked, Answered, Heard
  <2> QED
    BY <2>1, <2>2 DEF Exchange
<1>9. Sent' /\ TruthfulReturn'
  BY <1>1 DEF Inv, Sent, TruthfulReturn
<1> QED
  BY <1>7, <1>8, <1>9 DEF Inv

(* Whatever is read.                                                     *)
LEMMA ReadKeepsInv == ASSUME Inv, Read PROVE Inv'
BY ReadAnswerKeepsInv, ReadUpdateKeepsInv DEF Read

(* The device answers the one command it was sent, once.                   *)
LEMMA DeviceAnswersKeepsInv == ASSUME Inv, DeviceAnswers PROVE Inv'
<1>1. PICK c \in Commands : holder = c /\ Asked(c) /\ toDevice = <<c>>
  BY DEF DeviceAnswers, Inv, TypeOK, Exchange, Unasked, Asked, Answered, Heard
<1>2. c = Head(toDevice) /\ holder = c /\ toDevice' = <<>>
  BY <1>1 DEF DeviceAnswers
<1>3. /\ \/ /\ device' = With(device, job[c])
            /\ fromDevice' = fromDevice \o <<Answer("ACK"), Update(job[c])>>
            /\ verdict' = [verdict EXCEPT ![c] = "ACK"]
         \/ /\ fromDevice' = Append(fromDevice, Answer("NAK"))
            /\ verdict' = [verdict EXCEPT ![c] = "NAK"]
            /\ device' = device
      /\ UNCHANGED <<crosspoints, control, noted, holder, slot, event, pc, job>>
  BY <1>2 DEF DeviceAnswers, shown, answer
<1>4. job[c] \in Jobs /\ NoAnswer(fromDevice) /\ fromDevice \in Seq(Messages)
      /\ device \in Routings /\ verdict \in [Commands -> {None, "ACK", "NAK"}]
      /\ pc[c] \in {"writing", "waiting"} /\ slot = None /\ ~event
  BY <1>1, <1>2 DEF Inv, TypeOK, Sent, Asked
<1>5. PICK a \in {"ACK", "NAK"} :
        /\ verdict' = [verdict EXCEPT ![c] = a]
        /\ OneAnswer(fromDevice', a)
        /\ fromDevice' \in Seq(Messages)
        /\ device' \in Routings
  <2>1. CASE /\ device' = With(device, job[c])
             /\ fromDevice' = fromDevice \o <<Answer("ACK"), Update(job[c])>>
             /\ verdict' = [verdict EXCEPT ![c] = "ACK"]
    <3>1. fromDevice' = Append(Append(fromDevice, Answer("ACK")), Update(job[c]))
      BY <1>4, <2>1, SentIsMessage
    <3>2. OneAnswer(Append(fromDevice, Answer("ACK")), "ACK")
      BY <1>4, SentIsMessage, AnswersAfterAnswer
    <3>3. Append(fromDevice, Answer("ACK")) \in Seq(Messages)
      BY <1>4, SentIsMessage, OneMore
    <3>4. OneAnswer(fromDevice', "ACK") /\ fromDevice' \in Seq(Messages)
      BY <1>4, <3>1, <3>2, <3>3, SentIsMessage, AnswersAfterUpdate, OneMore
    <3>5. device' \in Routings
      BY <1>4, <2>1, WithIsRouting
    <3> QED
      BY <2>1, <3>4, <3>5
  <2>2. CASE /\ fromDevice' = Append(fromDevice, Answer("NAK"))
             /\ verdict' = [verdict EXCEPT ![c] = "NAK"]
             /\ device' = device
    BY <1>4, <2>2, SentIsMessage, AnswersAfterAnswer, OneMore
  <2> QED
    BY <1>3, <2>1, <2>2
<1>6. verdict'[c] = a /\ \A d \in Commands : d # c => verdict'[d] = verdict[d]
  BY <1>2, <1>4, <1>5
<1>7. TypeOK'
  BY <1>2, <1>3, <1>5 DEF Inv, TypeOK
<1>8. Exchange'
  <2>1. Answered(c)'
    BY <1>2, <1>3, <1>4, <1>5, <1>6 DEF Answered
  <2> QED
    BY <1>2, <1>3, <2>1 DEF Exchange
<1>9. Sent' /\ TruthfulReturn'
  BY <1>3, <1>4, <1>6 DEF Inv, Sent, TruthfulReturn, Returned
<1> QED
  BY <1>7, <1>8, <1>9 DEF Inv

(* What other controllers do adds updates only.                            *)
LEMMA OtherControllerKeepsInv == ASSUME Inv, OtherController PROVE Inv'
<1>1. PICK o \in Foreign, i \in Inputs :
        /\ device' = [device EXCEPT ![o] = i]
        /\ fromDevice' = Append(fromDevice, Update(Single(o, i)))
  BY DEF OtherController
<1>2. UNCHANGED <<crosspoints, control, noted, holder, slot, event, pc, job, toDevice, verdict>>
  BY DEF OtherController, shown, answer
<1>3. fromDevice \in Seq(Messages) /\ device \in Routings
  BY DEF Inv, TypeOK
<1>4. Update(Single(o, i)) \in Messages /\ Update(Single(o, i)).kind = "update"
  BY SentIsMessage
<1>5. /\ NoAnswer(fromDevice) => NoAnswer(fromDevice')
      /\ \A a : OneAnswer(fromDevice, a) => OneAnswer(fromDevice', a)
  BY <1>1, <1>3, <1>4, AnswersAfterUpdate
<1>6. TypeOK'
  <2>1. fromDevice' \in Seq(Messages)
    BY <1>1, <1>3, <1>4, OneMore
  <2>2. device' \in Routings
    BY <1>1, <1>3 DEF Routings
  <2> QED
    BY <1>2, <2>1, <2>2 DEF Inv, TypeOK
<1>7. Exchange'
  BY <1>2, <1>5 DEF Inv, Exchange, Unasked, Asked, Answered, Heard
<1>8. Sent' /\ TruthfulReturn'
  BY <1>2 DEF Inv, Sent, TruthfulReturn
<1> QED
  BY <1>6, <1>7, <1>8 DEF Inv

(* Nothing is under way.                                                 *)
LEMMA InitInv == Init => Inv
<1> SUFFICES ASSUME Init PROVE Inv
  OBVIOUS
<1>1. NoAnswer(<<>>)
  BY DEF NoAnswer
<1>2. TypeOK
  <2>1. \A c \in Commands : pc[c] = "idle" /\ c # holder
    BY DEF Init
  <2>2. toDevice \in Seq(Commands) /\ fromDevice \in Seq(Messages)
    BY DEF Init
  <2>3. pc \in [Commands -> {"idle", "queued"} \cup Active \cup Returned]
    BY DEF Init
  <2>4. \A c \in Commands : pc[c] \in Active <=> holder = c
    BY <2>1 DEF Active
  <2> QED
    BY <2>2, <2>3, <2>4 DEF Init, TypeOK
<1>3. Exchange
  BY <1>1 DEF Init, Exchange, Unasked
<1>4. Sent /\ TruthfulReturn
  BY DEF Init, Sent, TruthfulReturn
<1> QED
  BY <1>2, <1>3, <1>4 DEF Inv

(* All actions together.                                                 *)
LEMMA NextInv == ASSUME Inv, [Next]_vars PROVE Inv'
<1>1. CASE UNCHANGED vars
  BY <1>1, StillKeepsInv DEF vars, answer, wire, Inv, TypeOK
<1>2. ASSUME NEW c \in Commands, Call(c) \/ Run(c) PROVE Inv'
  BY <1>2, CallKeepsInv, SendKeepsInv, WaitKeepsInv, ResumeKeepsInv DEF Run
<1>3. ASSUME NEW o \in Outputs, NEW i \in Inputs, SetControl(o, i) PROVE Inv'
  BY <1>3, SetControlKeepsInv
<1> QED
  BY <1>1, <1>2, <1>3, ReadKeepsInv, DeviceAnswersKeepsInv, OtherControllerKeepsInv DEF Next

(* Inv is an invariant.                                                  *)
LEMMA InvHolds == Spec => []Inv
BY InitInv, NextInv, PTL DEF Spec

(* The variables have their types; a command is between Send and the end   *)
(* of Take exactly while it holds the emission lock.                       *)
THEOREM TypeCorrect == Spec => []TypeOK
<1>1. Inv => TypeOK
  BY DEF Inv
<1> QED
  BY <1>1, InvHolds, PTL

(* set_crosspoints returns the device's answer to this command and to no   *)
(* other, whatever the commands set and whoever else sets it.              *)
THEOREM Truthful == Spec => []TruthfulReturn
<1>1. Inv => TruthfulReturn
  BY DEF Inv
<1> QED
  BY <1>1, InvHolds, PTL

-----------------------------------------------------------------------------
(* The routing: each action keeps Executed and Agrees.                     *)

(* Where routing and wire stay, so does their agreement.                   *)
LEMMA StillAgrees ==
  ASSUME Agrees, UNCHANGED <<crosspoints, device, fromDevice>> PROVE Agrees'
BY DEF Agrees

(* A command that is created does not hold the lock.                       *)
LEMMA CreateKeepsRouting ==
  ASSUME RoutingInv, NEW c \in Commands, NEW j, Create(c, j),
         UNCHANGED <<crosspoints, holder, wire>>
  PROVE  Executed' /\ Agrees'
<1>1. holder # c /\ job' = [job EXCEPT ![c] = j]
  BY DEF Create, RoutingInv, Inv, TypeOK, Active
<1>2. \A d \in Commands : d # c => job'[d] = job[d]
  BY <1>1 DEF RoutingInv, Inv, TypeOK
<1>3. Executed'
  BY <1>1, <1>2 DEF RoutingInv, Executed, wire
<1> QED
  BY <1>3, StillAgrees DEF RoutingInv, wire

(* set_crosspoints is called.                                            *)
LEMMA CallKeepsRouting ==
  ASSUME RoutingInv, NEW c \in Commands, Call(c) PROVE Executed' /\ Agrees'
BY CreateKeepsRouting DEF Call, shown

(* An item of crosspoint_control is assigned.                            *)
LEMMA SetControlKeepsRouting ==
  ASSUME RoutingInv, NEW o \in Outputs, NEW i \in Inputs, SetControl(o, i)
  PROVE  Executed' /\ Agrees'
<1>1. CASE \E c \in Commands, j \in Jobs : Create(c, j)
  BY <1>1, CreateKeepsRouting DEF SetControl
<1>2. CASE UNCHANGED <<pc, job>>
  BY <1>2, StillAgrees DEF SetControl, RoutingInv, Executed, wire
<1> QED
  BY <1>1, <1>2 DEF SetControl

(* The device has not answered a command that is only now sent.            *)
LEMMA SendKeepsRouting ==
  ASSUME RoutingInv, NEW c \in Commands, Send(c) PROVE Executed' /\ Agrees'
<1>1. holder' = c /\ verdict' = verdict /\ verdict[c] = None
  BY DEF Send, RoutingInv, Inv, Sent
<1>2. Executed'
  BY <1>1 DEF Executed
<1> QED
  BY <1>2, StillAgrees DEF Send, RoutingInv, shown

(* What is stored after an ACK is what the device has, unless an unread    *)
(* update will overwrite it.                                               *)
LEMMA TakeKeepsRouting ==
  ASSUME RoutingInv, NEW c \in Commands, holder = c, event, Take(c),
         UNCHANGED <<job, wire>>
  PROVE  Executed' /\ Agrees'
<1>1. Heard(c) /\ job[c] \in Jobs
  BY DEF RoutingInv, Inv, Exchange, Asked, Answered, Heard, Sent
<1>2. holder' = None /\ UNCHANGED <<device, fromDevice>>
  BY DEF Take, Unlock, wire
<1>3. Executed'
  BY <1>2 DEF Executed
<1>4. \/ crosspoints' = With(crosspoints, job[c]) /\ verdict[c] = "ACK"
      \/ crosspoints' = crosspoints
  BY <1>1 DEF Take, Unlock, Heard
<1>5. \A o \in Outputs : crosspoints'[o] \in {crosspoints[o], device[o]}
  <2>1. CASE crosspoints' = With(crosspoints, job[c]) /\ verdict[c] = "ACK"
    <3>1. \A o \in DOMAIN job[c] : device[o] = job[c][o]
      BY <2>1 DEF RoutingInv, Executed
    <3>2. \A o \in Outputs : crosspoints'[o] = IF o \in DOMAIN job[c] THEN job[c][o]
                                              ELSE crosspoints[o]
      BY <1>1, <2>1, WithIsRouting DEF RoutingInv, Inv, TypeOK
    <3> QED
      BY <3>1, <3>2
  <2> QED
    BY <1>4, <2>1
<1>6. Agrees'
  BY <1>2, <1>5 DEF RoutingInv, Agrees, Becomes
<1> QED
  BY <1>3, <1>6

(* A command goes on at once, or waits.                                  *)
LEMMA WaitKeepsRouting ==
  ASSUME RoutingInv, NEW c \in Commands, Wait(c) PROVE Executed' /\ Agrees'
<1>1. pc[c] = "writing" /\ holder = c
  BY DEF Wait, RoutingInv, Inv, TypeOK, Active
<1>2. CASE event /\ Take(c)
  BY <1>1, <1>2, TakeKeepsRouting DEF Wait
<1>3. CASE ~event /\ UNCHANGED <<shown, holder, answer>>
  BY <1>3, StillAgrees DEF Wait, RoutingInv, Executed, shown, wire
<1> QED
  BY <1>2, <1>3 DEF Wait

(* A command goes on once it is woken.                                   *)
LEMMA ResumeKeepsRouting ==
  ASSUME RoutingInv, NEW c \in Commands, Resume(c) PROVE Executed' /\ Agrees'
<1>1. pc[c] = "woken" /\ holder = c
  BY DEF Resume, RoutingInv, Inv, TypeOK, Active
<1>2. event
  BY <1>1 DEF RoutingInv, Inv, Exchange, Asked, Answered, Heard
<1> QED
  BY <1>1, <1>2, TakeKeepsRouting DEF Resume

(* An update that is read is shown at once, under the lock or not.         *)
LEMMA ReadKeepsRouting == ASSUME RoutingInv, Read PROVE Executed' /\ Agrees'
<1> DEFINE m == Head(fromDevice)
<1>1. /\ fromDevice # <<>> /\ fromDevice \in Seq(Messages)
      /\ fromDevice' = Tail(fromDevice)
      /\ UNCHANGED <<holder, job, device, verdict>>
  BY DEF Read, ReadUpdate, ReadAnswer, RoutingInv, Inv, TypeOK
<1>2. m \in Messages
  BY <1>1, OneLess
<1>3. Executed'
  BY <1>1 DEF RoutingInv, Executed
<1>4. ASSUME NEW o \in Outputs
      PROVE  crosspoints'[o] = IF m.kind = "update" /\ o \in DOMAIN m.set
                               THEN m.set[o] ELSE crosspoints[o]
  <2>1. CASE m.kind = "update"
    <3>1. ReadUpdate(m.set)
      BY <2>1 DEF Read
    <3>2. crosspoints' = With(crosspoints, m.set)
      BY <3>1 DEF ReadUpdate, Feedback, shown
    <3> QED
      BY <1>2, <2>1, <3>2, MessageIs, WithIsRouting DEF RoutingInv, Inv, TypeOK
  <2>2. CASE m.kind # "update"
    BY <2>2 DEF Read, ReadAnswer, shown
  <2> QED
    BY <2>1, <2>2
<1>5. ASSUME NEW o \in Outputs
      PROVE  Becomes(fromDevice', o, crosspoints'[o], device'[o])
  <2>1. Becomes(fromDevice, o, crosspoints[o], device[o])
    BY DEF RoutingInv, Agrees
  <2>2. Becomes(Tail(fromDevice), o,
                IF m.kind = "update" /\ o \in DOMAIN m.set
                THEN m.set[o] ELSE crosspoints[o], device[o])
    BY <1>1, <2>1, BecomesAfterReading
  <2> HIDE DEF m
  <2> QED
    BY <1>1, <1>4, <2>2
<1> QED
  BY <1>3, <1>5 DEF Agrees

(* An ACK is followed by the update of the command.                        *)
LEMMA DeviceAnswersKeepsRouting == ASSUME RoutingInv, DeviceAnswers PROVE Executed' /\ Agrees'
<1>1. PICK c \in Commands : holder = c /\ toDevice = <<c>> /\ Head(toDevice) = c
  BY DEF DeviceAnswers, RoutingInv, Inv, TypeOK, Exchange, Unasked, Asked, Answered, Heard
<1>2. /\ job[c] \in Jobs /\ fromDevice \in Seq(Messages) /\ device \in Routings
      /\ verdict \in [Commands -> {None, "ACK", "NAK"}]
      /\ \A o \in Outputs : Becomes(fromDevice, o, crosspoints[o], device[o])
  BY <1>1 DEF RoutingInv, Inv, TypeOK, Sent, Exchange, Asked, Answered, Heard, Agrees
<1>3. UNCHANGED <<crosspoints, holder, job>>
  BY DEF DeviceAnswers, shown
<1>4. CASE /\ device' = With(device, job[c])
           /\ fromDevice' = fromDevice \o <<Answer("ACK"), Update(job[c])>>
           /\ verdict' = [verdict EXCEPT ![c] = "ACK"]
  <2> DEFINE s == Append(fromDevice, Answer("ACK"))
  <2>1. fromDevice' = Append(s, Update(job[c])) /\ s \in Seq(Messages)
    BY <1>2, <1>4, SentIsMessage, OneMore
  <2>2. \A o \in Outputs : device'[o] = IF o \in DOMAIN job[c] THEN job[c][o] ELSE device[o]
    BY <1>2, <1>4, WithIsRouting
  <2>3. Executed'
    BY <1>1, <1>2, <1>3, <2>2 DEF Executed
  <2>4. ASSUME NEW o \in Outputs
        PROVE  Becomes(fromDevice', o, crosspoints'[o], device'[o])
    <3>1. Answer("ACK") \in Messages /\ Answer("ACK").kind # "update"
      BY SentIsMessage
    <3>2. Becomes(s, o, crosspoints[o], device[o])
      <4>1. Becomes(s, o, crosspoints[o],
                    IF Answer("ACK").kind = "update" /\ o \in DOMAIN Answer("ACK").set
                    THEN Answer("ACK").set[o] ELSE device[o])
        BY <1>2, <3>1, BecomesAfterSending
      <4> QED
        BY <3>1, <4>1
    <3> HIDE DEF s
    <3>3. Update(job[c]) \in Messages /\ Update(job[c]).kind = "update" /\ Update(job[c]).set = job[c]
      BY <1>2, SentIsMessage
    <3>4. Becomes(Append(s, Update(job[c])), o, crosspoints[o],
                  IF Update(job[c]).kind = "update" /\ o \in DOMAIN Update(job[c]).set
                  THEN Update(job[c]).set[o] ELSE device[o])
      BY <2>1, <3>2, <3>3, BecomesAfterSending
    <3> QED
      BY <1>3, <2>1, <2>2, <3>3, <3>4
  <2> QED
    BY <2>3, <2>4 DEF Agrees
<1>5. CASE /\ fromDevice' = Append(fromDevice, Answer("NAK"))
           /\ verdict' = [verdict EXCEPT ![c] = "NAK"]
           /\ device' = device
  <2>1. Executed'
    BY <1>1, <1>2, <1>3, <1>5 DEF Executed
  <2>2. ASSUME NEW o \in Outputs
        PROVE  Becomes(fromDevice', o, crosspoints'[o], device'[o])
    <3>1. Answer("NAK") \in Messages /\ Answer("NAK").kind # "update"
      BY SentIsMessage
    <3>2. Becomes(Append(fromDevice, Answer("NAK")), o, crosspoints[o],
                  IF Answer("NAK").kind = "update" /\ o \in DOMAIN Answer("NAK").set
                  THEN Answer("NAK").set[o] ELSE device[o])
      BY <1>2, <3>1, BecomesAfterSending
    <3> QED
      BY <1>3, <1>5, <3>1, <3>2
  <2> QED
    BY <2>1, <2>2 DEF Agrees
<1> QED
  BY <1>1, <1>4, <1>5 DEF DeviceAnswers

(* Other controllers leave the outputs of a command alone.                 *)
LEMMA OtherControllerKeepsRouting ==
  ASSUME RoutingInv, OwnOutputs, OtherController PROVE Executed' /\ Agrees'
<1>1. PICK x \in Foreign, i \in Inputs :
        /\ device' = [device EXCEPT ![x] = i]
        /\ fromDevice' = Append(fromDevice, Update(Single(x, i)))
  BY DEF OtherController
<1>2. UNCHANGED <<crosspoints, holder, job, verdict>>
  BY DEF OtherController, shown
<1>3. /\ fromDevice \in Seq(Messages) /\ device \in Routings /\ x \in Outputs
      /\ \A o \in Outputs : Becomes(fromDevice, o, crosspoints[o], device[o])
  BY DEF RoutingInv, Inv, TypeOK, Agrees
<1>4. \A o \in Outputs : device'[o] = IF o = x THEN i ELSE device[o]
  BY <1>1, <1>3 DEF Routings
<1>5. Executed'
  <2> SUFFICES ASSUME NEW c \in Commands, holder = c, verdict[c] = "ACK",
                      NEW o \in DOMAIN job[c]
               PROVE  device'[o] = job[c][o]
    BY <1>2 DEF Executed
  <2>1. job[c] \in Jobs /\ device[o] = job[c][o]
    BY DEF RoutingInv, Executed, Inv, Sent, Exchange, Asked, Answered, Heard
  <2>2. o # x /\ o \in Outputs
    BY <2>1 DEF OwnOutputs
  <2> QED
    BY <1>4, <2>1, <2>2
<1>6. ASSUME NEW o \in Outputs
      PROVE  Becomes(fromDevice', o, crosspoints'[o], device'[o])
  <2> DEFINE m == Update(Single(x, i))
  <2>1. m \in Messages /\ m.kind = "update" /\ m.set = Single(x, i)
    BY SentIsMessage
  <2>2. DOMAIN Single(x, i) = {x} /\ Single(x, i)[x] = i
    BY DEF Single
  <2> HIDE DEF m
  <2>3. Becomes(Append(fromDevice, m), o, crosspoints[o],
                IF m.kind = "update" /\ o \in DOMAIN m.set THEN m.set[o] ELSE device[o])
    BY <1>3, <2>1, BecomesAfterSending
  <2>4. fromDevice' = Append(fromDevice, m)
    BY <1>1 DEF m
  <2> QED
    BY <1>2, <1>4, <2>1, <2>2, <2>3, <2>4
<1> QED
  BY <1>5, <1>6 DEF Agrees

(* Both sides agree.                                                     *)
LEMMA InitRouting == Init => RoutingInv
<1> SUFFICES ASSUME Init PROVE RoutingInv
  OBVIOUS
<1>1. Executed
  BY DEF Init, Executed
<1>2. \A o : About(<<>>, o) = {}
  BY DEF About
<1>3. Agrees
  BY <1>2 DEF Init, Agrees, Becomes
<1> QED
  BY <1>1, <1>3, InitInv DEF RoutingInv

(* All actions together, if commands have their outputs to themselves.   *)
LEMMA NextRouting == ASSUME RoutingInv, OwnOutputs, [Next]_vars PROVE RoutingInv'
<1>1. Inv'
  BY NextInv DEF RoutingInv
<1>2. CASE UNCHANGED vars
  BY <1>1, <1>2, StillAgrees DEF vars, RoutingInv, Executed
<1>3. ASSUME NEW c \in Commands, Call(c) \/ Run(c) PROVE RoutingInv'
  BY <1>1, <1>3, CallKeepsRouting, SendKeepsRouting, WaitKeepsRouting, ResumeKeepsRouting
     DEF Run, RoutingInv
<1>4. ASSUME NEW o \in Outputs, NEW i \in Inputs, SetControl(o, i) PROVE RoutingInv'
  BY <1>1, <1>4, SetControlKeepsRouting DEF RoutingInv
<1>5. CASE Read \/ DeviceAnswers \/ OtherController
  BY <1>1, <1>5, ReadKeepsRouting, DeviceAnswersKeepsRouting, OtherControllerKeepsRouting
     DEF RoutingInv
<1> QED
  BY <1>2, <1>3, <1>4, <1>5 DEF Next

(* The crosspoints, with the updates not read yet, are the device's        *)
(* routing, if nobody else sets the outputs that commands set: what is     *)
(* stored after an ACK never undoes or outruns an update.                  *)
THEOREM ShownIsRouting == ASSUME OwnOutputs PROVE Spec => []ShowsTheRouting
<1>1. Init => RoutingInv
  BY InitRouting
<1>2. RoutingInv /\ [Next]_vars => RoutingInv'
  BY NextRouting
<1>3. RoutingInv => ShowsTheRouting
  BY BecomesAnnounced DEF RoutingInv, Inv, TypeOK, Agrees, ShowsTheRouting
<1> QED
  BY <1>1, <1>2, <1>3, PTL DEF Spec

=============================================================================
