-------------------------- MODULE SmartViewProofs --------------------------
(***************************************************************************)
(* Theorems about SmartView for any monitors, values and commands, any     *)
(* number of links and of changes by others.                               *)
(*                                                                         *)
(* The argument: which monitors are known is settled by the prelude, and   *)
(* holds whatever overlaps (Always).  While commands do not overlap        *)
(* (InOrder) one exchange is under way, the answer in the slot is that of  *)
(* the command it woke, and for every monitor the last that is on its way  *)
(* about it is what the device has; if nothing is, what the command that   *)
(* was woken takes over; else what is shown.                               *)
(***************************************************************************)
EXTENDS SmartView, SequenceTheorems, WellFoundedInduction, TLAPS

Jobs == [of : Names, value : Values]

Blocks == {Header} \cup [kind : {"monitor"}, of : Names, value : Values]
          \cup [kind : {"ACK", "NAK"}, of : Commands, value : {None}]

IsAnswer(b) == b.kind \in {"ACK", "NAK"}

Active == {c \in Commands : pc[c] \in {"waiting", "woken"}}

(* The monitors known are the first ones of the device.                    *)
Begins(known) ==
  /\ known \in Seq(Names) /\ Len(known) <= Len(Monitors)
  /\ \A i \in 1 .. Len(known) : known[i] = Monitors[i]

(* A command that was made has a job, and so has one that is at the device *)
(* or was answered.                                                        *)
JobsGiven ==
  /\ \A c \in Commands : pc[c] # "idle" => job[c] \in Jobs
  /\ \A i \in DOMAIN toDevice : pc[toDevice[i]] # "idle"
  /\ \A i \in DOMAIN fromDevice : IsAnswer(fromDevice[i]) => pc[fromDevice[i].of] # "idle"

(* No link is up before all the monitors are known.                        *)
KnownFirst == link = "up" \/ parsed \/ overlapped => Complete(monitors)

(* Without a link that is up no command is under way.                      *)
NoneUnderWay ==
  link # "up" =>
    /\ toDevice = <<>> /\ Active = {}
    /\ \A i \in DOMAIN fromDevice : ~IsAnswer(fromDevice[i])

Always == TypeOK /\ Begins(monitors) /\ JobsGiven /\ KnownFirst /\ NoneUnderWay

(* Commands that do not overlap: one at a time, and the answer in the slot *)
(* is that of the one that was woken.                                      *)
OneActive == \A c, d \in Active : c = d

SlotIsTaken ==
  /\ event <=> \E c \in Commands : pc[c] = "woken"
  /\ slot = None <=> ~event

(* A command or its answer is under way once, while the command waits.     *)
OneExchange ==
  /\ Len(toDevice) <= 1
  /\ \A i \in DOMAIN toDevice : pc[toDevice[i]] = "waiting"
  /\ \A i \in DOMAIN fromDevice : IsAnswer(fromDevice[i]) =>
       pc[fromDevice[i].of] = "waiting" /\ toDevice = <<>>
  /\ \A i, j \in DOMAIN fromDevice :
       IsAnswer(fromDevice[i]) /\ IsAnswer(fromDevice[j]) => i = j

(* After the prelude there is no section, and no header to come.           *)
SectionClosed ==
  /\ parsed => section = None /\ \A i \in DOMAIN fromDevice : fromDevice[i].kind # "head"
  /\ link = "up" => parsed
  /\ link = "down" => section = None /\ (Complete(monitors) \/ monitors = <<>>)

(* What is still to come behind the first p blocks, for a parser with this *)
(* section and these monitors: the header, unless it was read, and the     *)
(* monitors not known yet, or all of them when the device is known from an *)
(* earlier link; then only what others change.                             *)
Heads(sec) == IF sec = None THEN 1 ELSE 0
Reached(known) == IF Complete(known) THEN 0 ELSE Len(known)

PreludeComes(p, sec, known) ==
  LET h == p + Heads(sec) IN
  /\ sec = None => p < Len(fromDevice) /\ fromDevice[h].kind = "head" /\ Reached(known) = 0
  /\ h + Len(Monitors) - Reached(known) <= Len(fromDevice)
  /\ \A i \in 1 .. Len(Monitors) - Reached(known) :
       fromDevice[h + i].of = Monitors[Reached(known) + i]
  /\ \A i \in DOMAIN fromDevice : h < i => fromDevice[i].kind = "monitor"

PreludePending == link # "down" /\ ~parsed => PreludeComes(0, section, monitors)

(* The blocks on their way that say something of m, and what they say.     *)
Tells(b, m) == \/ b.kind = "monitor" /\ b.of = m
               \/ b.kind = "ACK" /\ job[b.of].of = m
Told(b) == IF b.kind = "monitor" THEN b.value ELSE job[b.of].value

About1(m) == {i \in DOMAIN fromDevice : Tells(fromDevice[i], m)}

(* The commands that were woken and take over their value for m.           *)
Taking(m) == {c \in Commands : pc[c] = "woken" /\ slot = "ACK" /\ job[c].of = m}

(* What comes last of all that is on its way is what the device has; if    *)
(* nothing is, then what a command takes over; else what is shown.         *)
Follows(m) ==
  /\ \A i \in About1(m) : (\A j \in About1(m) : j <= i) => Told(fromDevice[i]) = device[m]
  /\ About1(m) = {} => \A c \in Taking(m) : job[c].value = device[m]
  /\ m \notin doubtful /\ About1(m) = {} /\ Taking(m) = {} => shown[m] = device[m]

MonitorsFollow == link # "down" /\ reader = "alive" => \A m \in Names : Follows(m)

InOrder == OneActive /\ SlotIsTaken /\ OneExchange /\ SectionClosed /\ PreludePending
           /\ MonitorsFollow

Inv == Always /\ (~overlapped => InOrder)

-----------------------------------------------------------------------------
(* Sequences.                                                              *)

(* Induction over 0 .. n: a set that holds 0 and with every number the     *)
(* next holds all.                                                         *)
LEMMA UpTo ==
  ASSUME NEW n \in Nat, NEW T, 0 \in T, \A i \in 0 .. n - 1 : i \in T => i + 1 \in T
  PROVE  \A i \in 0 .. n : i \in T
<1> DEFINE Out == {i \in 0 .. n : i \notin T}
<1> SUFFICES ASSUME Out # {} PROVE FALSE
  OBVIOUS
<1>1. Out \subseteq Nat
  OBVIOUS
<1>2. PICK x \in Out : \A y \in Out : ~(y < x)
  <2> HIDE DEF Out
  <2>1. PICK x \in Out : \A y \in Out : ~(<<y, x>> \in OpToRel(<, Nat))
    BY <1>1, NatLessThanWellFounded, WFMin
  <2>2. ASSUME NEW y \in Out, y < x PROVE FALSE
    <3>1. <<y, x>> \in OpToRel(<, Nat)
      BY <1>1, <2>2 DEF OpToRel
    <3> QED
      BY <2>1, <3>1
  <2> QED
    BY <2>2
<1>0. x \in 0 .. n /\ x \notin T
  OBVIOUS
<1>3. x \in 1 .. n /\ x - 1 \in 0 .. n - 1 /\ x - 1 < x /\ (x - 1) + 1 = x
  BY <1>0
<1>4. x - 1 \in T
  BY <1>2, <1>3
<1> QED
  BY <1>0, <1>3, <1>4

(* The device lists its monitors, one each.                                *)
LEMMA MonitorsListed ==
  /\ Monitors \in Seq(Names) /\ Len(Monitors) \in Nat \ {0}
  /\ DOMAIN Monitors = 1 .. Len(Monitors)
  /\ \A i, j \in 1 .. Len(Monitors) : Monitors[i] = Monitors[j] => i = j
  /\ Names = {Monitors[i] : i \in 1 .. Len(Monitors)}
<1>1. Monitors \in Seq(Names) /\ Monitors # <<>> /\ IsInjective(Monitors)
  BY ConstantsAssumption DEF Names
<1>2. Len(Monitors) \in Nat \ {0} /\ DOMAIN Monitors = 1 .. Len(Monitors)
  BY <1>1, EmptySeq, LenProperties
<1>3. Names = {Monitors[i] : i \in 1 .. Len(Monitors)}
  BY <1>2 DEF Names, Range
<1> QED
  BY <1>1, <1>2, <1>3 DEF IsInjective

(* What begins as the list of the device does is a prefix of it.           *)
LEMMA BeginsIsPrefix ==
  ASSUME NEW known, Begins(known)
  PROVE  IsPrefix(known, Monitors)
<1> DEFINE k == Len(known)
<1>1. known \in Seq(Names) /\ k \in Nat /\ k <= Len(Monitors) /\ Len(Monitors) \in Nat
  BY LenProperties, MonitorsListed DEF Begins
<1>2. \A i \in 1 .. k : known[i] \in Names /\ Monitors[i] \in Names /\ known[i] = Monitors[i]
  BY <1>1, MonitorsListed, ElementOfSeq DEF Begins
<1> HIDE DEF k
<1>3. /\ SubSeq(known, 1, k) \in Seq(Names) /\ Len(SubSeq(known, 1, k)) = k
      /\ \A i \in 1 .. k : SubSeq(known, 1, k)[i] = known[i]
  <2>1. /\ SubSeq(known, 1, k) \in Seq(Names)
        /\ Len(SubSeq(known, 1, k)) = IF 1 <= k THEN k - 1 + 1 ELSE 0
        /\ \A i \in 1 .. k - 1 + 1 : SubSeq(known, 1, k)[i] = known[1 + i - 1]
    BY ONLY <1>1, <1>2, SubSeqProperties
  <2> QED
    BY ONLY <1>1, <2>1
<1>4. /\ SubSeq(Monitors, 1, k) \in Seq(Names) /\ Len(SubSeq(Monitors, 1, k)) = k
      /\ \A i \in 1 .. k : SubSeq(Monitors, 1, k)[i] = Monitors[i]
  <2>1. /\ SubSeq(Monitors, 1, k) \in Seq(Names)
        /\ Len(SubSeq(Monitors, 1, k)) = IF 1 <= k THEN k - 1 + 1 ELSE 0
        /\ \A i \in 1 .. k - 1 + 1 : SubSeq(Monitors, 1, k)[i] = Monitors[1 + i - 1]
    BY ONLY <1>1, <1>2, SubSeqProperties
  <2> QED
    BY ONLY <1>1, <2>1
<1>5. SubSeq(known, 1, k) = SubSeq(Monitors, 1, k)
  BY <1>2, <1>3, <1>4, SeqEqual
<1> QED
  BY <1>1, <1>5 DEF IsPrefix, k

(* All are known, or the next one is not.                                  *)
LEMMA AllOrNext ==
  ASSUME NEW known, Begins(known)
  PROVE  /\ Len(known) \in 0 .. Len(Monitors)
         /\ Range(known) \subseteq Names
         /\ Complete(known) => Range(known) = Names
         /\ ~Complete(known) =>
              LET m == Monitors[Len(known) + 1] IN
              /\ m \in Names \ Range(known)
              /\ Begins(Append(known, m)) /\ Len(Append(known, m)) = Len(known) + 1
              /\ Range(Append(known, m)) = Range(known) \cup {m}
<1>1. known \in Seq(Names) /\ Len(known) \in 0 .. Len(Monitors) /\ DOMAIN known = 1 .. Len(known)
  BY LenProperties, MonitorsListed DEF Begins
<1>2. \A i \in 1 .. Len(known) : known[i] = Monitors[i]
  BY DEF Begins
<1>3. Range(known) = {Monitors[i] : i \in 1 .. Len(known)}
  BY <1>1, <1>2 DEF Range
<1>4. Range(known) \subseteq Names
  BY <1>1, <1>3, MonitorsListed
<1>5. ASSUME Complete(known) PROVE Range(known) = Names
  BY <1>5, <1>3, MonitorsListed DEF Complete
<1>6. ASSUME ~Complete(known)
      PROVE  LET m == Monitors[Len(known) + 1] IN
              /\ m \in Names \ Range(known)
              /\ Begins(Append(known, m)) /\ Len(Append(known, m)) = Len(known) + 1
              /\ Range(Append(known, m)) = Range(known) \cup {m}
  <2> DEFINE k == Len(known)
             m == Monitors[k + 1]
             new == Append(known, m)
  <2>1. k \in Nat /\ k + 1 \in 1 .. Len(Monitors)
    <3>1. k # Len(Monitors) /\ k \in 0 .. Len(Monitors) /\ Len(Monitors) \in Nat
      BY <1>1, <1>6, MonitorsListed DEF Complete
    <3> QED
      BY <3>1
  <2>2. m \in Names
    BY <2>1, MonitorsListed
  <2>3. m \notin Range(known)
    BY <1>1, <1>3, <2>1, MonitorsListed
  <2>4. /\ new \in Seq(Names) /\ Len(new) = k + 1
        /\ \A i \in 1 .. k : new[i] = known[i]
        /\ new[k + 1] = m
    BY <1>1, <2>2, AppendProperties
  <2>5. \A i \in 1 .. k + 1 : new[i] = Monitors[i]
    BY <1>2, <2>1, <2>4
  <2>6. Begins(new)
    BY <2>1, <2>4, <2>5, MonitorsListed DEF Begins
  <2>7. DOMAIN new = 1 .. k + 1
    BY <2>4, LenProperties
  <2> HIDE DEF new
  <2>8. Range(new) = {Monitors[i] : i \in 1 .. k + 1}
    BY <2>5, <2>7 DEF Range
  <2>9. Range(new) = Range(known) \cup {m}
    BY <1>3, <2>1, <2>8
  <2> QED
    BY <2>2, <2>3, <2>4, <2>6, <2>9 DEF new
<1> QED
  BY <1>1, <1>4, <1>5, <1>6

-----------------------------------------------------------------------------
(* The parser.                                                             *)

States ==
  [go : {"on", "stop", "dead"}, read : Nat, section : {None, "head"} \cup Names,
   monitors : Seq(Names), shown : [Names -> Values \cup {None}], parsed : BOOLEAN,
   slot : {None, "ACK", "NAK"}, event : BOOLEAN]

\* The parser before it reads.
ParserNow ==
  [go |-> "on", read |-> 0, section |-> section, monitors |-> monitors,
   shown |-> shown, parsed |-> parsed, slot |-> slot, event |-> event]

(* The steps of the parser, each field by itself.                          *)
LEMMA AfterHead ==
  ASSUME NEW s \in States, NEW b, NEW alone, s.go = "on", b.kind = "head"
  PROVE  AfterBlock(s, b, alone) =
           [go |-> "on", read |-> s.read + 1, section |-> "head", monitors |-> s.monitors,
            shown |-> s.shown, parsed |-> s.parsed, slot |-> s.slot, event |-> s.event]
<1>1. AfterBlock(s, b, alone) = [s EXCEPT !.section = "head", !.read = @ + 1]
  BY DEF AfterBlock
<1> QED
  BY <1>1 DEF States

(* The parser at a block about a monitor: it knows the monitor, shows its  *)
(* value, and has the prelude once it knows them all.                      *)
LEMMA AfterMonitor ==
  ASSUME NEW s \in States, NEW b \in Blocks, NEW alone, s.go = "on", b.kind = "monitor"
  PROVE  LET known == FindOrAdd(s.monitors, b.of)
             all == Complete(known)
         IN AfterBlock(s, b, alone) =
           [go |-> IF all THEN "stop" ELSE "on", read |-> s.read + 1,
            section |-> IF all THEN None ELSE b.of, monitors |-> known,
            shown |-> [s.shown EXCEPT ![b.of] = b.value], parsed |-> s.parsed \/ all,
            slot |-> s.slot, event |-> s.event]
<1> DEFINE known == FindOrAdd(s.monitors, b.of)
           all == Complete(known)
<1>1. AfterBlock(s, b, alone) =
        [s EXCEPT !.monitors = known, !.shown[b.of] = b.value, !.read = @ + 1,
                  !.section = IF all THEN None ELSE b.of,
                  !.parsed = @ \/ all, !.go = IF all THEN "stop" ELSE "on"]
  BY DEF AfterBlock
<1> HIDE DEF known, all
<1>2. AfterBlock(s, b, alone) =
        [go |-> IF all THEN "stop" ELSE "on", read |-> s.read + 1,
         section |-> IF all THEN None ELSE b.of, monitors |-> known,
         shown |-> [s.shown EXCEPT ![b.of] = b.value], parsed |-> s.parsed \/ all,
         slot |-> s.slot, event |-> s.event]
  BY <1>1 DEF States
<1> QED
  BY <1>2 DEF known, all

(* The parser at an ACK or NAK: it goes to the slot, and where it was the  *)
(* whole of the read the parse stops there.                                *)
LEMMA AfterAnswer ==
  ASSUME NEW s \in States, NEW b \in Blocks, NEW alone \in BOOLEAN, s.go = "on", IsAnswer(b)
  PROVE  AfterBlock(s, b, alone) =
           [go |-> IF alone THEN "stop" ELSE IF s.section = None THEN "dead" ELSE "on",
            read |-> s.read + 1, section |-> IF alone THEN None ELSE s.section,
            monitors |-> s.monitors, shown |-> s.shown, parsed |-> s.parsed,
            slot |-> b.kind, event |-> TRUE]
<1>1. b.kind # "head" /\ b.kind # "monitor"
  BY DEF IsAnswer
<1>2. AfterBlock(s, b, alone) =
        [s EXCEPT !.slot = b.kind, !.event = TRUE, !.read = @ + 1,
                  !.section = IF alone THEN None ELSE @,
                  !.go = IF alone THEN "stop"
                         ELSE IF s.section = None THEN "dead" ELSE "on"]
  BY <1>1 DEF AfterBlock
<1> QED
  BY <1>2 DEF States

(* Every block is one of three kinds.                                      *)
LEMMA BlockKinds ==
  ASSUME NEW b \in Blocks
  PROVE  \/ b.kind = "head" /\ ~IsAnswer(b)
         \/ b.kind = "monitor" /\ ~IsAnswer(b) /\ b.of \in Names /\ b.value \in Values
         \/ IsAnswer(b) /\ b.kind # "head" /\ b.kind # "monitor" /\ b.of \in Commands
  BY DEF Blocks, Header, IsAnswer

(* The recursive definition of the parse says what it should: there is a   *)
(* function of which every value is what the next block makes of the last. *)
LEMMA ParseExists ==
  ASSUME NEW n \in Nat
  PROVE  \E f : f = [i \in 0 .. n |->
                       IF i = 0 THEN ParserNow ELSE AfterBlock(f[i - 1], fromDevice[i], n = 1)]
<1> DEFINE First(k, f) == f = [i \in 0 .. k |->
             IF i = 0 THEN ParserNow ELSE AfterBlock(f[i - 1], fromDevice[i], n = 1)]
           T == {k \in 0 .. n : \E f : First(k, f)}
<1>1. 0 \in T
  <2> DEFINE f == [i \in 0 .. 0 |-> ParserNow]
  <2>1. f = [i \in 0 .. 0 |->
             IF i = 0 THEN ParserNow ELSE AfterBlock(f[i - 1], fromDevice[i], n = 1)]
    OBVIOUS
  <2>2. \E g : First(0, g)
    BY <2>1
  <2> QED
    BY <2>2
<1>2. ASSUME NEW k \in 0 .. n - 1, k \in T
      PROVE  k + 1 \in T
  <2>1. PICK f : First(k, f)
    BY <1>2
  <2> DEFINE g == [i \in 0 .. k + 1 |->
                     IF i = k + 1 THEN AfterBlock(f[k], fromDevice[k + 1], n = 1) ELSE f[i]]
  <2>2. g = [i \in 0 .. k + 1 |->
               IF i = 0 THEN ParserNow ELSE AfterBlock(g[i - 1], fromDevice[i], n = 1)]
    <3>1. ASSUME NEW i \in 0 .. k + 1
          PROVE  g[i] = IF i = 0 THEN ParserNow ELSE AfterBlock(g[i - 1], fromDevice[i], n = 1)
      <4>1. CASE i = k + 1
        <5>1. k \in 0 .. k + 1 /\ k # k + 1 /\ i # 0 /\ i - 1 = k
          BY <4>1
        <5>2. g[k] = f[k]
          BY <5>1
        <5> QED
          BY <4>1, <5>1, <5>2
      <4>2. CASE i = 0
        <5>1. g[i] = f[i] /\ i \in 0 .. k
          BY <4>2
        <5> QED
          BY <4>2, <5>1, <2>1
      <4>3. CASE i \in 1 .. k
        <5>1. i \in 0 .. k /\ i - 1 \in 0 .. k + 1 /\ i # k + 1 /\ i - 1 # k + 1 /\ i # 0
          BY <4>3
        <5>2. g[i] = f[i] /\ g[i - 1] = f[i - 1]
          BY <5>1
        <5>3. f[i] = AfterBlock(f[i - 1], fromDevice[i], n = 1)
          BY <5>1, <2>1
        <5> QED
          BY <5>1, <5>2, <5>3
      <4> QED
        BY <4>1, <4>2, <4>3
    <3> HIDE DEF First
    <3>2. g = [i \in 0 .. k + 1 |-> g[i]]
      OBVIOUS
    <3> HIDE DEF g
    <3> QED
      BY <3>1, <3>2
  <2>3. First(k + 1, g)
    BY <2>2
  <2>4. k + 1 \in 0 .. n
    OBVIOUS
  <2> HIDE DEF First, g
  <2> QED
    BY <2>3, <2>4
<1>3. n \in T
  <2> HIDE DEF T
  <2> QED
    BY <1>1, <1>2, UpTo
<1> QED
  BY <1>3

(* What a parse of n blocks reaches is n steps of AfterBlock from the      *)
(* parser as it stands.                                                    *)
LEMMA ParseSteps ==
  ASSUME NEW n \in Nat
  PROVE  \E f : /\ f[0] = ParserNow /\ Parsed(n) = f[n]
                /\ \A i \in 1 .. n : f[i] = AfterBlock(f[i - 1], fromDevice[i], n = 1)
<1> DEFINE f == CHOOSE g : g = [i \in 0 .. n |->
                  IF i = 0 THEN ParserNow ELSE AfterBlock(g[i - 1], fromDevice[i], n = 1)]
<1>1. f = [i \in 0 .. n |->
             IF i = 0 THEN ParserNow ELSE AfterBlock(f[i - 1], fromDevice[i], n = 1)]
  BY ParseExists
<1>2. Parsed(n) = f[n]
  BY DEF Parsed, ParserNow
<1> HIDE DEF f
<1>3. f[0] = ParserNow
  BY <1>1
<1>4. \A i \in 1 .. n : f[i] = AfterBlock(f[i - 1], fromDevice[i], n = 1)
  BY <1>1
<1> QED
  BY <1>2, <1>3, <1>4

(* The parse goes no further than the block at which it stopped.           *)
LEMMA StoppedStays ==
  ASSUME NEW s, NEW b, NEW alone, s.go # "on"
  PROVE  AfterBlock(s, b, alone) = s
  BY DEF AfterBlock

(* The parser as it stands is a state to parse from.                       *)
LEMMA NowTyped ==
  ASSUME TypeOK, Begins(monitors)
  PROVE  ParserNow \in States /\ fromDevice \in Seq(Blocks)
  BY DEF TypeOK, Begins, ParserNow, States, Blocks

(* What the monitors show once all are known.                              *)
LEMMA AllShow ==
  ASSUME TypeOK, Begins(monitors), Complete(monitors)
  PROVE  shown \in [Names -> Values]
<1>1. Range(monitors) = Names
  BY AllOrNext
<1>2. \A m \in Names : shown[m] \in Values \cup {None} /\ shown[m] # None
  BY <1>1 DEF TypeOK
<1> QED
  BY <1>2 DEF TypeOK

(* When all monitors are known, whatever is read leaves them.              *)
LEMMA ParseOfKnown ==
  ASSUME TypeOK, Begins(monitors), Complete(monitors), NEW n \in 1 .. Len(fromDevice)
  PROVE  /\ Parsed(n) \in States /\ Parsed(n).read \in 0 .. n
         /\ Parsed(n).monitors = monitors
         /\ Parsed(n).shown \in [Names -> Values]
<1>1. PICK f : /\ f[0] = ParserNow /\ Parsed(n) = f[n]
               /\ \A i \in 1 .. n : f[i] = AfterBlock(f[i - 1], fromDevice[i], n = 1)
  BY ParseSteps
<1> DEFINE Good(i) == /\ f[i] \in States /\ f[i].read <= i
                      /\ f[i].monitors = monitors /\ f[i].shown \in [Names -> Values]
           T == {i \in 0 .. n : Good(i)}
<1>2. 0 \in T
  <2>1. Good(0)
    BY <1>1, NowTyped, AllShow DEF ParserNow
  <2> QED
    BY <2>1
<1>3. ASSUME NEW i \in 0 .. n - 1, i \in T
      PROVE  i + 1 \in T
  <2> DEFINE s == f[i]
             b == fromDevice[i + 1]
  <2>1. Good(i)
    BY <1>3
  <2>2. f[i + 1] = AfterBlock(s, b, n = 1)
    BY <1>1
  <2>3. b \in Blocks
    <3>1. i + 1 \in 1 .. Len(fromDevice)
      OBVIOUS
    <3> QED
      BY <3>1, NowTyped, ElementOfSeq
  <2>4. s \in States /\ s.read \in Nat
    BY <2>1 DEF States
  <2>5. Good(i + 1)
    <3>1. CASE s.go # "on"
      BY <2>1, <2>2, <2>4, <3>1, StoppedStays
    <3>2. CASE s.go = "on" /\ b.kind = "head"
      <4>1. f[i + 1] = [go |-> "on", read |-> s.read + 1, section |-> "head",
              monitors |-> s.monitors, shown |-> s.shown, parsed |-> s.parsed,
              slot |-> s.slot, event |-> s.event]
        BY <2>2, <2>4, <3>2, AfterHead
      <4> QED
        BY <4>1, <2>1, <2>4 DEF States
    <3>3. CASE s.go = "on" /\ b.kind = "monitor"
      <4> DEFINE known == FindOrAdd(s.monitors, b.of)
                 all == Complete(known)
      <4>1. b.of \in Names /\ b.value \in Values
        BY <2>3, <3>3, BlockKinds DEF IsAnswer
      <4>2. known = monitors
        BY <2>1, <4>1, AllOrNext DEF FindOrAdd
      <4>3. all
        BY <4>2
      <4>4. f[i + 1] = [go |-> IF all THEN "stop" ELSE "on", read |-> s.read + 1,
            section |-> IF all THEN None ELSE b.of, monitors |-> known,
            shown |-> [s.shown EXCEPT ![b.of] = b.value], parsed |-> s.parsed \/ all,
            slot |-> s.slot, event |-> s.event]
        BY <2>2, <2>3, <2>4, <3>3, AfterMonitor
      <4> HIDE DEF known, all
      <4>5. f[i + 1] = [go |-> "stop", read |-> s.read + 1, section |-> None,
            monitors |-> monitors, shown |-> [s.shown EXCEPT ![b.of] = b.value],
            parsed |-> TRUE, slot |-> s.slot, event |-> s.event]
        BY <4>2, <4>3, <4>4
      <4>6. [s.shown EXCEPT ![b.of] = b.value] \in [Names -> Values]
        BY <2>1, <4>1
      <4>7. f[i + 1] \in States
        BY <4>5, <4>6, <2>1, <2>4 DEF States
      <4> QED
        BY <4>5, <4>6, <4>7, <2>1, <2>4
    <3>4. CASE s.go = "on" /\ IsAnswer(b)
      <4>1. f[i + 1] =
           [go |-> IF n = 1 THEN "stop" ELSE IF s.section = None THEN "dead" ELSE "on",
            read |-> s.read + 1, section |-> IF n = 1 THEN None ELSE s.section,
            monitors |-> s.monitors, shown |-> s.shown, parsed |-> s.parsed,
            slot |-> b.kind, event |-> TRUE]
        BY <2>2, <2>3, <2>4, <3>4, AfterAnswer
      <4>2. b.kind \in {"ACK", "NAK"}
        BY <3>4 DEF IsAnswer
      <4>3. f[i + 1] \in States
        BY <4>1, <4>2, <2>4 DEF States
      <4> QED
        BY <4>1, <4>3, <2>1, <2>4
    <3> QED
      BY <2>3, <3>1, <3>2, <3>3, <3>4, BlockKinds
  <2> HIDE DEF Good
  <2> QED
    BY <2>5
<1>4. n \in T
  <2> HIDE DEF T
  <2>1. n \in Nat
    OBVIOUS
  <2>2. \A i \in 0 .. n : i \in T
    BY <1>2, <1>3, <2>1, UpTo
  <2> QED
    BY <2>1, <2>2
<1>5. Good(n) /\ f[n].read \in Nat
  BY <1>4 DEF States
<1> QED
  BY <1>1, <1>5

(* After the prelude, with no section, a read ends at its first block: at  *)
(* a monitor, or at an answer, which must be alone.                        *)
LEMMA ParseOfOne ==
  ASSUME TypeOK, Begins(monitors), Complete(monitors), section = None, parsed,
         NEW n \in 1 .. Len(fromDevice), fromDevice[1].kind # "head"
  PROVE  LET b == fromDevice[1] IN
         \/ /\ b.kind = "monitor" /\ b.of \in Names /\ b.value \in Values
            /\ Parsed(n) = [go |-> "stop", read |-> 1, section |-> None,
                 monitors |-> monitors, shown |-> [shown EXCEPT ![b.of] = b.value],
                 parsed |-> TRUE, slot |-> slot, event |-> event]
         \/ /\ IsAnswer(b) /\ b.of \in Commands
            /\ Parsed(n) = [go |-> IF n = 1 THEN "stop" ELSE "dead", read |-> 1,
                 section |-> None, monitors |-> monitors, shown |-> shown,
                 parsed |-> TRUE, slot |-> b.kind, event |-> TRUE]
<1> DEFINE b == fromDevice[1]
           s == AfterBlock(ParserNow, b, n = 1)
<1>1. PICK f : /\ f[0] = ParserNow /\ Parsed(n) = f[n]
               /\ \A i \in 1 .. n : f[i] = AfterBlock(f[i - 1], fromDevice[i], n = 1)
  BY ParseSteps
<1>2. b \in Blocks /\ ParserNow \in States
  <2>1. 1 \in 1 .. Len(fromDevice)
    OBVIOUS
  <2> QED
    BY <2>1, NowTyped, ElementOfSeq
<1>3. \/ /\ b.kind = "monitor" /\ b.of \in Names /\ b.value \in Values
         /\ s = [go |-> "stop", read |-> 1, section |-> None,
              monitors |-> monitors, shown |-> [shown EXCEPT ![b.of] = b.value],
              parsed |-> TRUE, slot |-> slot, event |-> event]
      \/ /\ IsAnswer(b) /\ b.of \in Commands
         /\ s = [go |-> IF n = 1 THEN "stop" ELSE "dead", read |-> 1,
              section |-> None, monitors |-> monitors, shown |-> shown,
              parsed |-> TRUE, slot |-> b.kind, event |-> TRUE]
  <2>0. /\ ParserNow.go = "on" /\ ParserNow.read = 0 /\ ParserNow.section = None
        /\ ParserNow.monitors = monitors /\ ParserNow.shown = shown
        /\ ParserNow.parsed = TRUE /\ ParserNow.slot = slot /\ ParserNow.event = event
    BY DEF ParserNow, TypeOK
  <2>1. CASE b.kind = "monitor"
    <3>1. b.of \in Names /\ b.value \in Values
      BY <1>2, <2>1, BlockKinds DEF IsAnswer
    <3> DEFINE known == FindOrAdd(ParserNow.monitors, b.of)
               all == Complete(known)
    <3>2. known = monitors
      BY <2>0, <3>1, AllOrNext DEF FindOrAdd
    <3>3. all
      BY <3>2
    <3>4. s = [go |-> IF all THEN "stop" ELSE "on", read |-> ParserNow.read + 1,
            section |-> IF all THEN None ELSE b.of, monitors |-> known,
            shown |-> [ParserNow.shown EXCEPT ![b.of] = b.value],
            parsed |-> ParserNow.parsed \/ all,
            slot |-> ParserNow.slot, event |-> ParserNow.event]
      BY <1>2, <2>0, <2>1, AfterMonitor
    <3> HIDE DEF known, all, s
    <3>5. /\ (ParserNow.parsed \/ all) = TRUE /\ ParserNow.read + 1 = 1
          /\ (IF all THEN "stop" ELSE "on") = "stop" /\ (IF all THEN None ELSE b.of) = None
      BY <3>3, <2>0
    <3>6. s = [go |-> "stop", read |-> 1, section |-> None,
              monitors |-> monitors, shown |-> [shown EXCEPT ![b.of] = b.value],
              parsed |-> TRUE, slot |-> slot, event |-> event]
      BY <3>2, <3>4, <3>5, <2>0
    <3> QED
      BY <2>1, <3>1, <3>6
  <2>2. CASE IsAnswer(b)
    <3>1. s = [go |-> IF n = 1 THEN "stop" ELSE IF ParserNow.section = None THEN "dead" ELSE "on",
            read |-> ParserNow.read + 1,
            section |-> IF n = 1 THEN None ELSE ParserNow.section,
            monitors |-> ParserNow.monitors, shown |-> ParserNow.shown,
            parsed |-> ParserNow.parsed, slot |-> b.kind, event |-> TRUE]
      BY <1>2, <2>0, <2>2, AfterAnswer
    <3>2. b.of \in Commands
      BY <1>2, <2>2, BlockKinds DEF IsAnswer
    <3>3. /\ (IF n = 1 THEN None ELSE ParserNow.section) = None
          /\ (IF ParserNow.section = None THEN "dead" ELSE "on") = "dead"
          /\ ParserNow.read + 1 = 1
      BY <2>0
    <3> HIDE DEF s
    <3> QED
      BY <3>1, <3>2, <3>3, <2>0, <2>2
  <2> QED
    BY <1>2, <2>1, <2>2, BlockKinds
<1>4. s.go # "on"
  <2> HIDE DEF s
  <2> QED
    BY <1>3
<1> DEFINE T == {0} \cup {i \in 1 .. n : f[i] = s}
<1>5. ASSUME NEW i \in 0 .. n - 1, i \in T
      PROVE  i + 1 \in T
  <2>1. f[i + 1] = AfterBlock(f[i], fromDevice[i + 1], n = 1)
    <3>1. i + 1 \in 1 .. n /\ (i + 1) - 1 = i
      OBVIOUS
    <3> QED
      BY <1>1, <3>1
  <2>2. f[i + 1] = s
    <3>1. CASE i = 0
      BY <1>1, <2>1, <3>1
    <3>2. CASE i # 0
      BY <1>4, <1>5, <2>1, <3>2, StoppedStays
    <3> QED
      BY <3>1, <3>2
  <2> HIDE DEF s
  <2> QED
    BY <2>2
<1>6. n \in T
  <2> HIDE DEF T
  <2>1. n \in Nat /\ 0 \in T
    BY DEF T
  <2>2. \A i \in 0 .. n : i \in T
    BY <1>5, <2>1, UpTo
  <2> QED
    BY <2>1, <2>2
<1> HIDE DEF s
<1>7. Parsed(n) = s
  BY <1>1, <1>6
<1> QED
  BY <1>3, <1>7

-----------------------------------------------------------------------------
(* The prelude.                                                            *)

(* A header that comes leads to the same monitors.                         *)
LEMMA PreludeHead ==
  ASSUME NEW p \in Nat, NEW known, PreludeComes(p, None, known)
  PROVE  /\ p + 1 <= Len(fromDevice) /\ fromDevice[p + 1].kind = "head"
         /\ PreludeComes(p + 1, "head", known)
<1>1. Heads(None) = 1 /\ Heads("head") = 0
  BY ConstantsAssumption DEF Heads
<1>2. p + Heads(None) = p + 1 /\ p + 1 + Heads("head") = p + 1 /\ p + 1 \in Nat
  BY <1>1
<1>3. p < Len(fromDevice) /\ fromDevice[p + 1].kind = "head"
  BY <1>2 DEF PreludeComes
<1>4. p + 1 <= Len(fromDevice)
  BY <1>3
<1>5. PreludeComes(p + 1, "head", known)
  BY <1>2, ConstantsAssumption DEF PreludeComes
<1> QED
  BY <1>3, <1>4, <1>5

(* Without a section missing, the next monitor comes.                      *)
LEMMA PreludeMonitor ==
  ASSUME NEW p \in Nat, NEW sec, sec # None, NEW known, Begins(known),
         PreludeComes(p, sec, known), fromDevice \in Seq(Blocks),
         NEW new \in Names \* the next section
  PROVE  /\ p + 1 <= Len(fromDevice) /\ fromDevice[p + 1].kind = "monitor"
         /\ fromDevice[p + 1].of = Monitors[Reached(known) + 1]
         /\ LET next == Append(known, fromDevice[p + 1].of) IN
            ~Complete(known) /\ ~Complete(next) => PreludeComes(p + 1, new, next)
<1>1. Heads(sec) = 0 /\ Heads(new) = 0 /\ new # None
  BY ConstantsAssumption DEF Heads, Names
<1>2. p + Heads(sec) = p /\ p + 1 + Heads(new) = p + 1 /\ p + 1 \in Nat
  BY <1>1
<1>3. Len(Monitors) \in Nat \ {0} /\ Len(known) \in 0 .. Len(Monitors) /\ Len(fromDevice) \in Nat
  BY MonitorsListed, AllOrNext, LenProperties
<1>4. Reached(known) \in Nat /\ Reached(known) < Len(Monitors)
  BY <1>3 DEF Reached, Complete
<1>5. /\ p + Len(Monitors) - Reached(known) <= Len(fromDevice)
      /\ \A i \in 1 .. Len(Monitors) - Reached(known) :
           fromDevice[p + i].of = Monitors[Reached(known) + i]
      /\ \A i \in DOMAIN fromDevice : p < i => fromDevice[i].kind = "monitor"
  BY <1>2 DEF PreludeComes
<1>6. p + 1 \in 1 .. Len(fromDevice) /\ DOMAIN fromDevice = 1 .. Len(fromDevice)
  BY <1>3, <1>4, <1>5, LenProperties
<1>7. fromDevice[p + 1].kind = "monitor" /\ fromDevice[p + 1].of = Monitors[Reached(known) + 1]
  <2>1. 1 \in 1 .. Len(Monitors) - Reached(known) /\ p < p + 1
    BY <1>3, <1>4
  <2> QED
    BY <1>5, <1>6, <2>1
<1> DEFINE next == Append(known, fromDevice[p + 1].of)
<1>8. ASSUME ~Complete(known), ~Complete(next)
      PROVE  PreludeComes(p + 1, new, next)
  <2>1. Reached(known) = Len(known)
    BY <1>8 DEF Reached
  <2>2. Len(next) = Len(known) + 1
    BY <1>7, <1>8, <2>1, AllOrNext
  <2> HIDE DEF next
  <2>3. Reached(next) = Reached(known) + 1
    BY <1>8, <2>1, <2>2 DEF Reached
  <2>4. p + 1 + Len(Monitors) - Reached(next) <= Len(fromDevice)
    BY <1>3, <1>4, <1>5, <2>3
  <2>5. ASSUME NEW i \in 1 .. Len(Monitors) - Reached(next)
        PROVE  fromDevice[p + 1 + i].of = Monitors[Reached(next) + i]
    <3>1. /\ i + 1 \in 1 .. Len(Monitors) - Reached(known)
          /\ p + (i + 1) = p + 1 + i /\ Reached(known) + (i + 1) = Reached(next) + i
      BY <1>3, <1>4, <2>3
    <3>2. fromDevice[p + (i + 1)].of = Monitors[Reached(known) + (i + 1)]
      BY <1>5, <3>1
    <3> QED
      BY <3>1, <3>2
  <2>6. \A i \in DOMAIN fromDevice : p + 1 < i => fromDevice[i].kind = "monitor"
    BY <1>5, <1>6
  <2> QED
    BY <1>1, <1>2, <2>4, <2>5, <2>6 DEF PreludeComes
<1> QED
  BY <1>6, <1>7, <1>8

(* What is shown of m after r blocks: what the last block of m said, or    *)
(* what was shown before when there was none.                              *)
Says(i, m) == fromDevice[i].kind = "monitor" /\ fromDevice[i].of = m
LastSaid(m, r, now) ==
  \/ \E i \in 1 .. r : /\ Says(i, m) /\ now = fromDevice[i].value
                       /\ \A j \in 1 .. r : Says(j, m) => j <= i
  \/ now = shown[m] /\ \A i \in 1 .. r : ~Says(i, m)

(* If r blocks tell what is shown of each monitor, r + 1 blocks do after   *)
(* AfterBlock's change to it.                                              *)
LEMMA LastSaidNext ==
  ASSUME NEW r \in Nat, NEW now \in [Names -> Values \cup {None}],
         NEW next \in [Names -> Values \cup {None}],
         \A m \in Names : LastSaid(m, r, now[m]),
         LET b == fromDevice[r + 1] IN
         \/ b.kind = "monitor" /\ b.of \in Names /\ next = [now EXCEPT ![b.of] = b.value]
         \/ b.kind # "monitor" /\ next = now
  PROVE  \A m \in Names : LastSaid(m, r + 1, next[m])
<1> SUFFICES ASSUME NEW m \in Names PROVE LastSaid(m, r + 1, next[m])
  OBVIOUS
<1>0. r + 1 \in 1 .. r + 1 /\ 1 .. r + 1 = (1 .. r) \cup {r + 1} /\ \A i \in 1 .. r : i <= r + 1
  OBVIOUS
<1>1. CASE Says(r + 1, m)
  <2>1. next[m] = fromDevice[r + 1].value
    BY <1>1 DEF Says
  <2>2. \A j \in 1 .. r + 1 : j <= r + 1
    OBVIOUS
  <2> QED
    BY <1>0, <1>1, <2>1, <2>2 DEF LastSaid
<1>2. CASE ~Says(r + 1, m)
  <2>1. next[m] = now[m]
    BY <1>2 DEF Says
  <2>2. LastSaid(m, r, now[m])
    OBVIOUS
  <2>3. CASE now[m] = shown[m] /\ \A i \in 1 .. r : ~Says(i, m)
    BY <1>0, <1>2, <2>1, <2>3 DEF LastSaid
  <2>4. CASE \E i \in 1 .. r : /\ Says(i, m) /\ now[m] = fromDevice[i].value
                               /\ \A j \in 1 .. r : Says(j, m) => j <= i
    <3>1. PICK i \in 1 .. r : /\ Says(i, m) /\ now[m] = fromDevice[i].value
                              /\ \A j \in 1 .. r : Says(j, m) => j <= i
      BY <2>4
    <3>2. i \in 1 .. r + 1 /\ \A j \in 1 .. r + 1 : Says(j, m) => j <= i
      BY <1>0, <1>2, <3>1
    <3> QED
      BY <2>1, <3>1, <3>2 DEF LastSaid
  <2> QED
    BY <2>2, <2>3, <2>4 DEF LastSaid
<1> QED
  BY <1>1, <1>2

(* How far a parser got in the prelude.                                    *)
Midway(s, r) ==
  /\ s \in States /\ s.slot = slot /\ s.event = event
  /\ s.read \in 0 .. r
  /\ Begins(s.monitors)
  /\ \A m \in Names : s.shown[m] = None <=> m \notin Range(s.monitors)
  /\ \A m \in Names : LastSaid(m, s.read, s.shown[m])
  /\ \/ /\ s.go = "on" /\ s.read = r /\ ~s.parsed
        /\ PreludeComes(r, s.section, s.monitors)
     \/ s.go = "stop" /\ s.parsed /\ s.section = None /\ Complete(s.monitors)

(* One block further.                                                      *)
LEMMA MidwayNext ==
  ASSUME fromDevice \in Seq(Blocks), NEW r \in Nat, r < Len(fromDevice),
         NEW s, Midway(s, r), NEW alone
  PROVE  Midway(AfterBlock(s, fromDevice[r + 1], alone), r + 1)
<1> DEFINE b == fromDevice[r + 1]
           t == AfterBlock(s, b, alone)
<1> SUFFICES Midway(t, r + 1)
  OBVIOUS
<1>1. s \in States /\ s.read \in Nat /\ r + 1 \in 1 .. Len(fromDevice)
  BY LenProperties DEF Midway
<1>2. b \in Blocks
  BY <1>1, ElementOfSeq
<1>3. CASE s.go # "on"
  <2>1. t = s
    BY <1>3, StoppedStays
  <2>2. s.read \in 0 .. r + 1
    BY DEF Midway
  <2> HIDE DEF t
  <2> QED
    BY <1>3, <2>1, <2>2 DEF Midway
<1>4. CASE s.go = "on"
  <2>1. s.read = r /\ ~s.parsed /\ PreludeComes(r, s.section, s.monitors)
    BY <1>4 DEF Midway
  <2>2. CASE s.section = None
    <3>1. b.kind = "head" /\ PreludeComes(r + 1, "head", s.monitors)
      BY <2>1, <2>2, PreludeHead
    <3>2. t = [go |-> "on", read |-> s.read + 1, section |-> "head", monitors |-> s.monitors,
               shown |-> s.shown, parsed |-> s.parsed, slot |-> s.slot, event |-> s.event]
      BY <1>1, <1>4, <3>1, AfterHead
    <3> HIDE DEF t
    <3>3. /\ t \in States /\ t.slot = slot /\ t.event = event
          /\ t.read = r + 1 /\ t.monitors = s.monitors /\ t.shown = s.shown
          /\ t.go = "on" /\ ~t.parsed /\ t.section = "head"
      BY <1>1, <2>1, <3>2 DEF Midway, States
    <3>4. \A m \in Names : LastSaid(m, r, s.shown[m])
      BY <2>1 DEF Midway
    <3>5. b.kind # "monitor" /\ s.shown \in [Names -> Values \cup {None}]
      BY <3>1, <1>1 DEF States
    <3>6. \A m \in Names : LastSaid(m, r + 1, s.shown[m])
      BY <3>4, <3>5, LastSaidNext
    <3>7. /\ Begins(t.monitors) /\ t.read \in 0 .. r + 1
          /\ \A m \in Names : t.shown[m] = None <=> m \notin Range(t.monitors)
          /\ \A m \in Names : LastSaid(m, t.read, t.shown[m])
      BY <3>3, <3>6 DEF Midway
    <3>8. PreludeComes(r + 1, t.section, t.monitors)
      BY <3>1, <3>3
    <3> QED
      BY <3>3, <3>7, <3>8 DEF Midway
  <2>3. CASE s.section # None
    <3> DEFINE known == FindOrAdd(s.monitors, b.of)
               all == Complete(known)
    <3>1. Begins(s.monitors)
      BY DEF Midway
    <3>2. /\ b.kind = "monitor" /\ b.of \in Names /\ b.value \in Values
          /\ b.of = Monitors[Reached(s.monitors) + 1]
      <4>1. PICK new \in Names : TRUE
        BY MonitorsListed
      <4>2. b.kind = "monitor" /\ b.of = Monitors[Reached(s.monitors) + 1]
        BY <2>1, <2>3, <3>1, <4>1, PreludeMonitor
      <4> QED
        BY <4>2, <1>2, BlockKinds DEF IsAnswer
    <3>3. t = [go |-> IF all THEN "stop" ELSE "on", read |-> s.read + 1,
            section |-> IF all THEN None ELSE b.of, monitors |-> known,
            shown |-> [s.shown EXCEPT ![b.of] = b.value], parsed |-> s.parsed \/ all,
            slot |-> s.slot, event |-> s.event]
      BY <1>1, <1>2, <1>4, <3>2, AfterMonitor
    <3>4. /\ Begins(known) /\ Range(known) = Range(s.monitors) \cup {b.of}
          /\ ~all => ~Complete(s.monitors) /\ known = Append(s.monitors, b.of)
      <4>1. CASE Complete(s.monitors)
        <5>1. known = s.monitors /\ Range(known) = Names
          BY <3>1, <3>2, <4>1, AllOrNext DEF FindOrAdd
        <5> QED
          BY <3>1, <3>2, <4>1, <5>1
      <4>2. CASE ~Complete(s.monitors)
        <5>1. b.of = Monitors[Len(s.monitors) + 1]
          BY <3>2, <4>2 DEF Reached
        <5>2. b.of \notin Range(s.monitors)
          BY <3>1, <4>2, <5>1, AllOrNext
        <5>3. known = Append(s.monitors, b.of)
          BY <5>2 DEF FindOrAdd
        <5> HIDE DEF known
        <5> QED
          BY <3>1, <4>2, <5>1, <5>3, AllOrNext
      <4> QED
        BY <4>1, <4>2
    <3>5. ~all => PreludeComes(r + 1, b.of, known)
      <4>1. ~Complete(s.monitors) /\ ~Complete(Append(s.monitors, b.of)) =>
              PreludeComes(r + 1, b.of, Append(s.monitors, b.of))
        BY <2>1, <2>3, <3>1, <3>2, PreludeMonitor
      <4> HIDE DEF known
      <4> QED
        BY <3>4, <4>1
    <3>6. known \in Seq(Names)
      BY <3>4 DEF Begins
    <3> HIDE DEF t, known, all
    <3>7. s.shown \in [Names -> Values \cup {None}] /\ s.read = r /\ s.parsed = FALSE
      BY <1>1, <2>1 DEF States
    <3>8. /\ t.go = IF all THEN "stop" ELSE "on"
          /\ t.read = r + 1 /\ t.section = IF all THEN None ELSE b.of
          /\ t.monitors = known /\ t.shown = [s.shown EXCEPT ![b.of] = b.value]
          /\ t.parsed = (s.parsed \/ all) /\ t.slot = s.slot /\ t.event = s.event
      BY <3>3, <3>7
    <3>9. t.shown \in [Names -> Values \cup {None}]
      BY <3>2, <3>7, <3>8
    <3>10. t \in States
      <4>1. /\ t.go \in {"on", "stop", "dead"} /\ t.read \in Nat
            /\ t.section \in {None, "head"} \cup Names /\ t.monitors \in Seq(Names)
            /\ t.slot \in {None, "ACK", "NAK"} /\ t.event \in BOOLEAN
        BY <1>1, <3>2, <3>6, <3>8 DEF States
      <4>2. (s.parsed \/ all) \in BOOLEAN
        OBVIOUS
      <4> QED
        BY <3>3, <3>9, <4>1, <4>2, <3>8 DEF States
    <3>11. \A m \in Names : LastSaid(m, r + 1, t.shown[m])
      <4>1. \A m \in Names : LastSaid(m, r, s.shown[m])
        BY <2>1 DEF Midway
      <4> QED
        BY <3>2, <3>7, <3>8, <3>9, <4>1, LastSaidNext
    <3>12. \A m \in Names : t.shown[m] = None <=> m \notin Range(t.monitors)
      <4>1. \A m \in Names : s.shown[m] = None <=> m \notin Range(s.monitors)
        BY DEF Midway
      <4>2. b.value # None
        BY <3>2, ConstantsAssumption
      <4> QED
        BY <3>2, <3>4, <3>7, <3>8, <4>1, <4>2
    <3>13. t.slot = slot /\ t.event = event /\ t.read \in 0 .. r + 1 /\ Begins(t.monitors)
      BY <3>4, <3>8 DEF Midway
    <3>14. CASE all
      <4>1. t.go = "stop" /\ t.parsed /\ t.section = None /\ Complete(t.monitors)
        BY <3>8, <3>14 DEF all
      <4> QED
        BY <3>8, <3>10, <3>11, <3>12, <3>13, <4>1 DEF Midway
    <3>15. CASE ~all
      <4>1. t.go = "on" /\ t.read = r + 1 /\ ~t.parsed /\ t.section = b.of
        BY <3>7, <3>8, <3>15
      <4>2. PreludeComes(r + 1, t.section, t.monitors)
        BY <3>5, <3>8, <3>15, <4>1
      <4> QED
        BY <3>8, <3>10, <3>11, <3>12, <3>13, <4>1, <4>2 DEF Midway
    <3> QED
      BY <3>14, <3>15
  <2> QED
    BY <2>2, <2>3
<1> QED
  BY <1>3, <1>4

(* A read of the prelude gets somewhere in it.                             *)
LEMMA ParseOfPrelude ==
  ASSUME TypeOK, Begins(monitors), ~parsed, PreludeComes(0, section, monitors),
         NEW n \in 1 .. Len(fromDevice)
  PROVE  Midway(Parsed(n), n)
<1>1. PICK f : /\ f[0] = ParserNow /\ Parsed(n) = f[n]
               /\ \A i \in 1 .. n : f[i] = AfterBlock(f[i - 1], fromDevice[i], n = 1)
  BY ParseSteps
<1>2. ParserNow \in States /\ fromDevice \in Seq(Blocks) /\ Len(fromDevice) \in Nat
  BY NowTyped, LenProperties
<1> DEFINE T == {i \in 0 .. n : Midway(f[i], i)}
<1>3. 0 \in T
  <2>1. /\ ParserNow.slot = slot /\ ParserNow.event = event /\ ParserNow.read = 0
        /\ ParserNow.monitors = monitors /\ ParserNow.shown = shown /\ ParserNow.go = "on"
        /\ ParserNow.parsed = parsed /\ ParserNow.section = section
    BY DEF ParserNow
  <2>2. \A m \in Names : LastSaid(m, 0, shown[m])
    BY DEF LastSaid
  <2>3. \A m \in Names : shown[m] = None <=> m \notin Range(monitors)
    BY DEF TypeOK
  <2>4. Midway(ParserNow, 0)
    BY <1>2, <2>1, <2>2, <2>3 DEF Midway
  <2> QED
    BY <1>1, <2>4
<1>4. ASSUME NEW i \in 0 .. n - 1, i \in T
      PROVE  i + 1 \in T
  <2>1. i + 1 \in 1 .. n /\ (i + 1) - 1 = i /\ i < Len(fromDevice) /\ i \in Nat
    BY <1>2
  <2>2. f[i + 1] = AfterBlock(f[i], fromDevice[i + 1], n = 1)
    BY <1>1, <2>1
  <2>3. Midway(f[i], i)
    BY <1>4
  <2>4. Midway(f[i + 1], i + 1)
    BY <1>2, <2>1, <2>2, <2>3, MidwayNext
  <2> QED
    BY <2>1, <2>4
<1>5. n \in T
  <2> HIDE DEF T
  <2>1. n \in Nat
    BY <1>2
  <2>2. \A i \in 0 .. n : i \in T
    BY <1>3, <1>4, <2>1, UpTo
  <2> QED
    BY <2>1, <2>2
<1> QED
  BY <1>1, <1>5

-----------------------------------------------------------------------------
(* The invariant: its start, and what most steps keep of it.               *)

(* Nothing is known, on its way or under way to begin with.                *)
LEMMA InitInv == Init => Inv
<1> SUFFICES ASSUME Init PROVE Inv
  OBVIOUS
<1>1. monitors = <<>> /\ monitors \in Seq(Names) /\ Len(monitors) = 0
  BY EmptySeq DEF Init
<1>2. Len(Monitors) \in Nat \ {0}
  BY MonitorsListed
<1>3. Begins(monitors) /\ ~Complete(monitors)
  BY <1>1, <1>2 DEF Begins, Complete
<1>4. toDevice = <<>> /\ fromDevice = <<>> /\ toDevice \in Seq(Commands) /\ fromDevice \in Seq(Blocks)
  BY EmptySeq DEF Init
<1>5. DOMAIN toDevice = {} /\ DOMAIN fromDevice = {} /\ Len(toDevice) = 0
  <2>1. DOMAIN toDevice = 1 .. 0 /\ DOMAIN fromDevice = 1 .. 0
    BY <1>4, EmptySeq, LenProperties
  <2> QED
    BY <2>1, <1>4, EmptySeq
<1>6. TypeOK
  <2>1. Range(monitors) = {}
    <3>1. DOMAIN monitors = 1 .. 0
      BY <1>1, LenProperties
    <3> QED
      BY <3>1 DEF Range
  <2>2. IsPrefix(monitors, Monitors)
    BY <1>3, BeginsIsPrefix
  <2>3. MaxLinks \in Nat /\ MaxChanges \in Nat
    BY ConstantsAssumption
  <2>4. /\ shown \in [Names -> Values \cup {None}]
        /\ \A m \in Names : shown[m] = None <=> m \notin Range(monitors)
    BY <2>1 DEF Init
  <2>5. /\ pc \in [Commands -> {"idle", "queued", "waiting", "woken", "stuck",
                                "accepted", "refused", "raised"}]
        /\ job \in [Commands -> Jobs \cup {None}] /\ device \in [Names -> Values]
        /\ links \in 0 .. MaxLinks /\ changes \in 0 .. MaxChanges
        /\ section = None /\ parsed = FALSE /\ event = FALSE /\ overlapped = FALSE
        /\ slot = None /\ link = "down" /\ reader = "alive" /\ doubtful = {}
    BY <2>3 DEF Init
  <2> QED
    BY <1>4, <2>2, <2>4, <2>5 DEF TypeOK, Blocks, Jobs
<1>7. JobsGiven
  BY <1>5 DEF Init, JobsGiven
<1>8. KnownFirst /\ NoneUnderWay
  BY <1>4, <1>5 DEF Init, KnownFirst, NoneUnderWay, Active
<1>9. OneActive /\ SlotIsTaken /\ OneExchange
  BY <1>5 DEF Init, OneActive, Active, SlotIsTaken, OneExchange
<1>10. SectionClosed /\ PreludePending /\ MonitorsFollow
  BY <1>1 DEF Init, SectionClosed, PreludePending, MonitorsFollow
<1> QED
  BY <1>3, <1>6, <1>7, <1>8, <1>9, <1>10 DEF Inv, Always, InOrder

(* Nothing that the device sent or has changed, and no command was woken:  *)
(* what was shown is shown, or doubtful.                                   *)
LEMMA FollowsSame ==
  ASSUME JobsGiven, UNCHANGED <<fromDevice, device, slot>>,
         \A c \in Commands : pc[c] # "idle" => job'[c] = job[c],
         \A c \in Commands : pc'[c] = "woken" <=> pc[c] = "woken",
         fromDevice \in Seq(Blocks),
         NEW m \in Names, Follows(m),
         m \notin doubtful' => m \notin doubtful /\ shown'[m] = shown[m]
  PROVE  Follows(m)'
<1>1. \A i \in DOMAIN fromDevice : fromDevice[i].kind = "ACK" =>
        /\ fromDevice[i].of \in Commands
        /\ job'[fromDevice[i].of] = job[fromDevice[i].of]
  <2>1. ASSUME NEW i \in DOMAIN fromDevice, fromDevice[i].kind = "ACK"
        PROVE  fromDevice[i].of \in Commands /\ job'[fromDevice[i].of] = job[fromDevice[i].of]
    <3>1. fromDevice[i] \in Blocks /\ IsAnswer(fromDevice[i])
      BY <2>1, LenProperties, ElementOfSeq DEF IsAnswer
    <3> QED
      BY <3>1, BlockKinds DEF JobsGiven
  <2> QED
    BY <2>1
<1>2. About1(m)' = About1(m)
  BY <1>1 DEF About1, Tells
<1>3. \A i \in About1(m) : Told(fromDevice[i])' = Told(fromDevice[i])
  BY <1>1 DEF About1, Tells, Told
<1>4. Taking(m)' = Taking(m)
  BY DEF Taking
<1>5. \A c \in Taking(m) : job'[c] = job[c]
  BY DEF Taking
<1> QED
  BY <1>2, <1>3, <1>4, <1>5 DEF Follows

(* Without a link that is up, and in order, nobody was woken.              *)
LEMMA SlotFree ==
  ASSUME Inv, ~overlapped, \A c \in Commands : pc[c] # "woken"
  PROVE  ~event /\ slot = None
  BY DEF Inv, InOrder, SlotIsTaken

(* do_connect ends: the prelude was parsed, or what was taken for an answer *)
(* woke it.                                                                *)
LEMMA EstablishedInv ==
  ASSUME Inv, Established
  PROVE  Inv'
<1> USE DEF parser, answer, history
<1>1. /\ link = "heard" /\ link' = "up"
      /\ UNCHANGED <<monitors, section, parsed, reader, shown, pc, job, device, toDevice,
                     fromDevice, links, changes, overlapped, doubtful>>
  BY DEF Established
<1>2. TypeOK /\ Begins(monitors) /\ JobsGiven /\ KnownFirst /\ NoneUnderWay
  BY DEF Inv, Always
<1>3. ~overlapped => parsed /\ UNCHANGED <<slot, event>>
  <2>1. ASSUME ~overlapped PROVE slot = None
    <3>1. \A c \in Commands : pc[c] # "woken"
      BY <1>1, <1>2 DEF NoneUnderWay, Active
    <3> QED
      BY <2>1, <3>1, SlotFree
  <2> QED
    BY <2>1 DEF Established
<1>4. Complete(monitors)
  BY <1>2, <1>3 DEF KnownFirst
<1>5. Always'
  <2>1. TypeOK'
    <3>1. slot' \in {None, "ACK", "NAK"} /\ event' \in BOOLEAN
      BY <1>2 DEF Established, TypeOK
    <3> QED
      BY <1>1, <1>2, <3>1 DEF TypeOK
  <2>2. Begins(monitors)' /\ JobsGiven'
    BY <1>1, <1>2 DEF Begins, JobsGiven
  <2>3. KnownFirst' /\ NoneUnderWay'
    BY <1>1, <1>4 DEF KnownFirst, NoneUnderWay, Complete
  <2> QED
    BY <2>1, <2>2, <2>3 DEF Always
<1>6. ASSUME ~overlapped' PROVE InOrder'
  <2>1. InOrder /\ parsed /\ UNCHANGED <<slot, event>>
    BY <1>1, <1>3, <1>6 DEF Inv
  <2>2. OneActive' /\ SlotIsTaken' /\ OneExchange'
    BY <1>1, <2>1 DEF InOrder, OneActive, Active, SlotIsTaken, OneExchange
  <2>3. SectionClosed' /\ PreludePending'
    BY <1>1, <2>1 DEF InOrder, SectionClosed, PreludePending
  <2>4. MonitorsFollow'
    <3>1. ASSUME NEW m \in Names, Follows(m) PROVE Follows(m)'
      <4>1. fromDevice \in Seq(Blocks)
        BY <1>2, NowTyped
      <4> QED
        BY <1>1, <1>2, <2>1, <3>1, <4>1, FollowsSame
    <3> QED
      BY <1>1, <2>1, <3>1 DEF InOrder, MonitorsFollow
  <2> QED
    BY <2>2, <2>3, <2>4 DEF InOrder
<1> QED
  BY <1>5, <1>6 DEF Inv

(* The connection is dropped: nothing is on its way, who waited is stuck.  *)
LEMMA DisconnectInv ==
  ASSUME Inv, Disconnect
  PROVE  Inv'
<1> USE DEF parser, answer, history
<1>1. /\ link = "up" /\ link' = "down" /\ toDevice' = <<>> /\ fromDevice' = <<>>
      /\ UNCHANGED <<monitors, section, parsed, reader, shown, slot, event, job, device,
                     links, changes, overlapped>>
      /\ \A c \in Commands : pc[c] # "woken"
  BY DEF Disconnect
<1>2. TypeOK /\ Begins(monitors) /\ JobsGiven /\ KnownFirst
  BY DEF Inv, Always
<1>3. /\ pc' \in [Commands -> {"idle", "queued", "waiting", "woken", "stuck",
                              "accepted", "refused", "raised"}]
      /\ \A c \in Commands : pc'[c] = IF pc[c] = "waiting" THEN "stuck" ELSE pc[c]
      /\ doubtful' = doubtful \cup {job[c].of : c \in {x \in Commands : pc[x] = "waiting"}}
  BY <1>2 DEF Disconnect, TypeOK
<1>4. /\ toDevice' \in Seq(Commands) /\ fromDevice' \in Seq(Blocks)
      /\ DOMAIN toDevice' = {} /\ DOMAIN fromDevice' = {} /\ Len(toDevice') = 0
  BY <1>1, EmptySeq, LenProperties
<1>5. Always'
  <2>1. doubtful' \subseteq Names
    <3>1. \A c \in Commands : pc[c] = "waiting" => job[c].of \in Names
      BY <1>2 DEF JobsGiven, Jobs
    <3> QED
      BY <1>2, <1>3, <3>1 DEF TypeOK
  <2>2. TypeOK'
    BY <1>1, <1>2, <1>3, <1>4, <2>1 DEF TypeOK, Blocks
  <2>3. Begins(monitors)' /\ JobsGiven'
    BY <1>1, <1>2, <1>3, <1>4 DEF Begins, JobsGiven
  <2>4. KnownFirst' /\ NoneUnderWay'
    BY <1>1, <1>2, <1>3, <1>4 DEF KnownFirst, NoneUnderWay, Complete, Active
  <2> QED
    BY <2>2, <2>3, <2>4 DEF Always
<1>6. ASSUME ~overlapped' PROVE InOrder'
  <2>1. InOrder /\ ~overlapped
    BY <1>1, <1>6 DEF Inv
  <2>2. OneActive' /\ OneExchange'
    BY <1>1, <1>3, <1>4 DEF OneActive, Active, OneExchange
  <2>3. SlotIsTaken'
    BY <1>1, <1>3, <2>1 DEF InOrder, SlotIsTaken
  <2>4. SectionClosed' /\ PreludePending'
    BY <1>1, <1>2, <1>4, <2>1 DEF InOrder, SectionClosed, PreludePending, KnownFirst, Complete
  <2>5. MonitorsFollow'
    BY <1>1 DEF MonitorsFollow
  <2> QED
    BY <2>2, <2>3, <2>4, <2>5 DEF InOrder
<1> QED
  BY <1>5, <1>6 DEF Inv

(* What the device sends first on every link.                              *)
LEMMA Introduction ==
  ASSUME device \in [Names -> Values]
  PROVE  LET q == <<Header>> \o [i \in DOMAIN Monitors |-> Block(Monitors[i])] IN
         /\ q \in Seq(Blocks) /\ Len(q) = Len(Monitors) + 1
         /\ q[1] = Header
         /\ \A i \in 1 .. Len(Monitors) : q[i + 1] = Block(Monitors[i])
<1> DEFINE all == [i \in DOMAIN Monitors |-> Block(Monitors[i])]
           q == <<Header>> \o all
<1>1. Header \in Blocks /\ \A i \in 1 .. Len(Monitors) : Block(Monitors[i]) \in Blocks
  <2>1. ASSUME NEW i \in 1 .. Len(Monitors) PROVE Block(Monitors[i]) \in Blocks
    <3>1. Monitors[i] \in Names
      BY MonitorsListed
    <3> QED
      BY <3>1 DEF Block, Blocks
  <2> QED
    BY <2>1 DEF Blocks
<1>2. all \in Seq(Blocks) /\ Len(all) = Len(Monitors)
  <2>1. all \in [1 .. Len(Monitors) -> Blocks] /\ Len(Monitors) \in Nat
    BY <1>1, MonitorsListed
  <2> HIDE DEF all
  <2> QED
    BY <2>1
<1>3. \A i \in 1 .. Len(Monitors) : all[i] = Block(Monitors[i])
  BY MonitorsListed
<1>4. <<Header>> \in Seq(Blocks) /\ Len(<<Header>>) = 1 /\ <<Header>>[1] = Header
  BY <1>1
<1> HIDE DEF all
<1>5. /\ q \in Seq(Blocks) /\ Len(q) = Len(Monitors) + 1 /\ q[1] = Header
      /\ \A i \in 1 .. Len(Monitors) : q[i + 1] = all[i]
  BY <1>2, <1>4, MonitorsListed
<1> QED
  BY <1>3, <1>5 DEF all

(* A new connection: the device sends its list of monitors.                *)
LEMMA ConnectInv ==
  ASSUME Inv, Connect
  PROVE  Inv'
<1>1. /\ link = "down" /\ link' = "dialled" /\ links < MaxLinks /\ links' = links + 1
      /\ event' = FALSE /\ parsed' = FALSE
      /\ fromDevice' = <<Header>> \o [i \in DOMAIN Monitors |-> Block(Monitors[i])]
      /\ UNCHANGED <<monitors, shown, section, slot, reader, pc, job, device, toDevice,
                     changes, doubtful, overlapped>>
  BY DEF Connect
<1>2. TypeOK /\ Begins(monitors) /\ JobsGiven /\ KnownFirst /\ NoneUnderWay
  BY DEF Inv, Always
<1>3. /\ fromDevice' \in Seq(Blocks) /\ Len(fromDevice') = Len(Monitors) + 1
      /\ fromDevice'[1] = Header
      /\ \A i \in 1 .. Len(Monitors) : fromDevice'[i + 1] = Block(Monitors[i])
  <2>1. device \in [Names -> Values]
    BY <1>2 DEF TypeOK
  <2> QED
    BY <1>1, <2>1, Introduction
<1>4. Len(Monitors) \in Nat \ {0} /\ DOMAIN fromDevice' = 1 .. Len(Monitors) + 1
  BY <1>3, MonitorsListed, LenProperties
<1>5. /\ fromDevice'[1].kind = "head"
      /\ \A i \in DOMAIN fromDevice' : i # 1 =>
           /\ i - 1 \in 1 .. Len(Monitors)
           /\ fromDevice'[i].kind = "monitor" /\ fromDevice'[i].of = Monitors[i - 1]
           /\ fromDevice'[i].value = device[Monitors[i - 1]]
  <2>1. ASSUME NEW i \in DOMAIN fromDevice', i # 1
        PROVE  i - 1 \in 1 .. Len(Monitors) /\ fromDevice'[i] = Block(Monitors[i - 1])
    <3>1. i - 1 \in 1 .. Len(Monitors) /\ (i - 1) + 1 = i
      BY <1>4, <2>1
    <3> QED
      BY <1>3, <3>1
  <2> QED
    BY <1>3, <2>1 DEF Header, Block
<1>6. \A i \in DOMAIN fromDevice' : ~IsAnswer(fromDevice'[i])
  BY <1>5 DEF IsAnswer
<1>7. Always'
  <2>1. TypeOK'
    <3>1. links' \in 0 .. MaxLinks
      BY <1>1, <1>2, ConstantsAssumption DEF TypeOK
    <3> QED
      BY <1>1, <1>2, <1>3, <3>1 DEF TypeOK, Blocks
  <2>2. Begins(monitors)' /\ KnownFirst'
    BY <1>1, <1>2 DEF Begins, KnownFirst, Complete
  <2>3. JobsGiven' /\ NoneUnderWay'
    BY <1>1, <1>2, <1>6 DEF JobsGiven, NoneUnderWay, Active, IsAnswer
  <2> QED
    BY <2>1, <2>2, <2>3 DEF Always
<1>8. ASSUME ~overlapped' PROVE InOrder'
  <2>1. InOrder /\ ~overlapped
    BY <1>1, <1>8 DEF Inv
  <2>2. OneActive' /\ OneExchange'
    BY <1>1, <1>6, <2>1 DEF InOrder, OneActive, Active, OneExchange, IsAnswer
  <2>3. SlotIsTaken'
    <3>1. \A c \in Commands : pc[c] # "woken"
      BY <1>1, <1>2 DEF NoneUnderWay, Active
    <3>2. slot = None
      BY <2>1, <3>1, SlotFree
    <3> QED
      BY <1>1, <3>1, <3>2 DEF SlotIsTaken
  <2>4. section' = None /\ (Complete(monitors') \/ monitors' = <<>>)
    BY <1>1, <2>1 DEF InOrder, SectionClosed
  <2>5. SectionClosed'
    BY <1>1 DEF SectionClosed
  <2>6. PreludePending'
    <3>1. Heads(section') = 1
      BY <2>4 DEF Heads
    <3>2. Reached(monitors') = 0
      BY <2>4, EmptySeq DEF Reached
    <3>3. \A i \in 1 .. Len(Monitors) - 0 : fromDevice'[0 + 1 + i].of = Monitors[0 + i]
      <4>1. ASSUME NEW i \in 1 .. Len(Monitors)
            PROVE  i + 1 \in DOMAIN fromDevice' /\ i + 1 # 1 /\ (i + 1) - 1 = i
        BY <1>4
      <4>2. \A i \in 1 .. Len(Monitors) : 0 + 1 + i = i + 1 /\ 0 + i = i
        OBVIOUS
      <4> QED
        BY <1>4, <1>5, <4>1, <4>2
    <3>4. /\ 0 < Len(fromDevice') /\ fromDevice'[0 + 1].kind = "head"
          /\ 0 + 1 + Len(Monitors) - 0 <= Len(fromDevice')
          /\ \A i \in DOMAIN fromDevice' : 0 + 1 < i => fromDevice'[i].kind = "monitor"
      BY <1>3, <1>4, <1>5
    <3> QED
      BY <3>1, <3>2, <3>3, <3>4 DEF PreludePending, PreludeComes
  <2>7. MonitorsFollow'
    <3>1. ASSUME NEW m \in Names PROVE Follows(m)'
      <4>1. PICK k \in 1 .. Len(Monitors) : m = Monitors[k]
        BY MonitorsListed
      <4>2. /\ k + 1 \in DOMAIN fromDevice' /\ k + 1 # 1 /\ (k + 1) - 1 = k
        BY <1>4
      <4>3. k + 1 \in About1(m)'
        BY <1>5, <4>1, <4>2 DEF About1, Tells
      <4>4. ASSUME NEW i \in About1(m)' PROVE Told(fromDevice[i])' = device'[m]
        <5>1. i \in DOMAIN fromDevice' /\ Tells(fromDevice[i], m)'
          BY <4>4 DEF About1
        <5>2. i # 1
          BY <1>5, <5>1 DEF Tells
        <5>3. fromDevice'[i].kind = "monitor" /\ fromDevice'[i].of = m
          BY <1>5, <5>1, <5>2 DEF Tells
        <5> QED
          BY <1>1, <1>5, <5>1, <5>2, <5>3 DEF Told
      <4> QED
        BY <4>3, <4>4 DEF Follows
    <3> QED
      BY <3>1 DEF MonitorsFollow
  <2> QED
    BY <2>2, <2>3, <2>5, <2>6, <2>7 DEF InOrder
<1> QED
  BY <1>7, <1>8 DEF Inv

(* A command that is made: the property shown may change with it.          *)
LEMMA CreateInv ==
  ASSUME Inv, NEW c \in Commands, NEW m \in Names, NEW v \in Values,
         m \in Range(monitors), SetProperty(c, m, v) \/ Assign(c, m, v)
  PROVE  Inv'
<1> USE DEF parser, answer, history
<1>1. /\ pc[c] = "idle" /\ pc' = [pc EXCEPT ![c] = "queued"]
      /\ job' = [job EXCEPT ![c] = [of |-> m, value |-> v]]
      /\ UNCHANGED <<monitors, section, parsed, reader, slot, event, link, device,
                     toDevice, fromDevice, links, changes, overlapped>>
  BY DEF SetProperty, Assign, Create
<1>2. TypeOK /\ Begins(monitors) /\ JobsGiven /\ KnownFirst /\ NoneUnderWay
  BY DEF Inv, Always
<1>3. /\ pc' \in [Commands -> {"idle", "queued", "waiting", "woken", "stuck",
                              "accepted", "refused", "raised"}]
      /\ job' \in [Commands -> Jobs \cup {None}] /\ job'[c] \in Jobs
      /\ \A d \in Commands : d # c => pc'[d] = pc[d] /\ job'[d] = job[d]
      /\ pc'[c] = "queued"
  BY <1>1, <1>2 DEF TypeOK, Jobs
<1>4. Active' = Active /\ \A d \in Commands : pc[d] # "idle" => d # c
  BY <1>1, <1>3 DEF Active
<1>5. /\ shown' \in [Names -> Values \cup {None}] /\ doubtful' \subseteq Names
      /\ \A x \in Names : shown'[x] = None <=> x \notin Range(monitors)
      /\ \A x \in Names : x \notin doubtful' => x \notin doubtful /\ shown'[x] = shown[x]
  <2>1. CASE SetProperty(c, m, v)
    BY <1>2, <2>1 DEF TypeOK, SetProperty
  <2>2. CASE Assign(c, m, v)
    <3>1. shown' = [shown EXCEPT ![m] = v] /\ doubtful' = doubtful \cup {m}
      BY <2>2 DEF Assign
    <3>2. v # None
      BY ConstantsAssumption
    <3> QED
      BY <1>2, <3>1, <3>2 DEF TypeOK
  <2> QED
    BY <2>1, <2>2
<1>6. Always'
  <2>1. TypeOK'
    BY <1>1, <1>2, <1>3, <1>5 DEF TypeOK, Jobs
  <2>2. Begins(monitors)' /\ KnownFirst'
    BY <1>1, <1>2 DEF Begins, KnownFirst, Complete
  <2>3. JobsGiven'
    <3>1. \A d \in Commands : pc'[d] # "idle" => job'[d] \in Jobs
      BY <1>2, <1>3 DEF JobsGiven
    <3>2. \A i \in DOMAIN toDevice : toDevice[i] \in Commands
      BY <1>2, LenProperties, ElementOfSeq DEF TypeOK
    <3>3. \A i \in DOMAIN toDevice : pc'[toDevice[i]] # "idle"
      BY <1>2, <1>3, <3>2 DEF JobsGiven
    <3>4. \A i \in DOMAIN fromDevice : IsAnswer(fromDevice[i]) => fromDevice[i].of \in Commands
      BY <1>2, NowTyped, LenProperties, ElementOfSeq, BlockKinds
    <3>5. \A i \in DOMAIN fromDevice : IsAnswer(fromDevice[i]) => pc'[fromDevice[i].of] # "idle"
      BY <1>2, <1>3, <3>4 DEF JobsGiven
    <3> QED
      BY <1>1, <3>1, <3>3, <3>5 DEF JobsGiven, IsAnswer
  <2>4. NoneUnderWay'
    BY <1>1, <1>2, <1>4 DEF NoneUnderWay, IsAnswer
  <2> QED
    BY <2>1, <2>2, <2>3, <2>4 DEF Always
<1>7. ASSUME ~overlapped' PROVE InOrder'
  <2>1. InOrder /\ ~overlapped
    BY <1>1, <1>7 DEF Inv
  <2>2. OneActive' /\ SlotIsTaken'
    BY <1>1, <1>3, <1>4, <2>1 DEF InOrder, OneActive, SlotIsTaken
  <2>3. OneExchange'
    <3>1. \A d : pc[d] = "waiting" /\ d \in Commands => pc'[d] = "waiting"
      BY <1>1, <1>3
    <3>2. \A i \in DOMAIN toDevice : toDevice[i] \in Commands
      BY <1>2, LenProperties, ElementOfSeq DEF TypeOK
    <3>3. \A i \in DOMAIN fromDevice : IsAnswer(fromDevice[i]) => fromDevice[i].of \in Commands
      BY <1>2, NowTyped, LenProperties, ElementOfSeq, BlockKinds
    <3> QED
      BY <1>1, <2>1, <3>1, <3>2, <3>3 DEF InOrder, OneExchange, IsAnswer
  <2>4. SectionClosed' /\ PreludePending'
    BY <1>1, <2>1 DEF InOrder, SectionClosed, PreludePending, PreludeComes, Complete
  <2>5. MonitorsFollow'
    <3>1. ASSUME NEW x \in Names, Follows(x) PROVE Follows(x)'
      <4>1. fromDevice \in Seq(Blocks)
        BY <1>2, NowTyped
      <4>2. \A d \in Commands : pc[d] # "idle" => job'[d] = job[d]
        BY <1>3, <1>4
      <4>3. \A d \in Commands : pc'[d] = "woken" <=> pc[d] = "woken"
        BY <1>1, <1>3
      <4> QED
        BY <1>1, <1>2, <1>5, <3>1, <4>1, <4>2, <4>3, FollowsSame
    <3> QED
      BY <1>1, <2>1, <3>1 DEF InOrder, MonitorsFollow
  <2> QED
    BY <2>2, <2>3, <2>4, <2>5 DEF InOrder
<1> QED
  BY <1>6, <1>7 DEF Inv

(* What a command makes of its answer has its type, and it ends the        *)
(* command.                                                                *)
LEMMA TakeTyped ==
  ASSUME TypeOK, Begins(monitors), Complete(monitors),
         NEW c \in Commands, job[c] \in Jobs, Take(c)
  PROVE  /\ slot' = None /\ event' = FALSE
         /\ pc' \in [Commands -> {"idle", "queued", "waiting", "woken", "stuck",
                                 "accepted", "refused", "raised"}]
         /\ pc'[c] \in {"accepted", "refused", "raised"}
         /\ \A d \in Commands : d # c => pc'[d] = pc[d]
         /\ shown' \in [Names -> Values \cup {None}] /\ doubtful' \subseteq Names
         /\ \A m \in Names : shown'[m] = None <=> m \notin Range(monitors)
<1>1. job[c].of \in Names /\ job[c].value \in Values /\ job[c].value # None
  BY ConstantsAssumption DEF Jobs
<1>2. Range(monitors) = Names
  BY AllOrNext
<1>3. CASE slot = "ACK" /\ pc' = [pc EXCEPT ![c] = "accepted"]
           /\ shown' = [shown EXCEPT ![job[c].of] = job[c].value]
           /\ doubtful' = doubtful \ {job[c].of}
  BY <1>1, <1>2, <1>3 DEF TypeOK, Take
<1>4. CASE (pc' = [pc EXCEPT ![c] = "refused"] \/ pc' = [pc EXCEPT ![c] = "raised"])
           /\ UNCHANGED <<shown, doubtful>>
  BY <1>4 DEF TypeOK, Take
<1> QED
  BY <1>3, <1>4 DEF Take

(* A command sends its block, and waits unless the event is already set.   *)
LEMMA SendInv ==
  ASSUME Inv, NEW c \in Commands, Send(c)
  PROVE  Inv'
<1> USE DEF parser, answer
<1>1. /\ pc[c] = "queued" /\ link = "up"
      /\ overlapped' = (overlapped \/ \E d \in Commands : pc[d] \in {"waiting", "woken"})
      /\ toDevice' = Append(toDevice, c)
      /\ UNCHANGED <<monitors, section, parsed, reader, link, job, device, fromDevice,
                     links, changes>>
  BY DEF Send
<1>2. TypeOK /\ Begins(monitors) /\ JobsGiven /\ KnownFirst /\ NoneUnderWay
  BY DEF Inv, Always
<1>3. Complete(monitors) /\ job[c] \in Jobs
  BY <1>1, <1>2 DEF KnownFirst, JobsGiven
<1>4. /\ toDevice \in Seq(Commands) /\ toDevice' \in Seq(Commands)
      /\ DOMAIN toDevice' = 1 .. Len(toDevice) + 1 /\ Len(toDevice) \in Nat
      /\ Len(toDevice') = Len(toDevice) + 1
      /\ \A i \in 1 .. Len(toDevice) : toDevice'[i] = toDevice[i] /\ toDevice[i] \in Commands
      /\ toDevice'[Len(toDevice) + 1] = c /\ DOMAIN toDevice = 1 .. Len(toDevice)
  <2>1. toDevice \in Seq(Commands)
    BY <1>2 DEF TypeOK
  <2> QED
    BY <1>1, <2>1, AppendProperties, LenProperties, ElementOfSeq
<1>5. \A i \in DOMAIN fromDevice : IsAnswer(fromDevice[i]) => fromDevice[i].of \in Commands
  BY <1>2, NowTyped, LenProperties, ElementOfSeq, BlockKinds
<1>6. /\ pc' \in [Commands -> {"idle", "queued", "waiting", "woken", "stuck",
                              "accepted", "refused", "raised"}]
      /\ pc'[c] # "idle" /\ \A d \in Commands : d # c => pc'[d] = pc[d]
      /\ shown' \in [Names -> Values \cup {None}] /\ doubtful' \subseteq Names
      /\ \A m \in Names : shown'[m] = None <=> m \notin Range(monitors)
      /\ slot' \in {None, "ACK", "NAK"} /\ event' \in BOOLEAN
  <2>1. CASE Take(c)
    BY <1>2, <1>3, <2>1, TakeTyped
  <2>2. CASE pc' = [pc EXCEPT ![c] = "waiting"] /\ UNCHANGED <<shown, answer, doubtful>>
    BY <1>2, <2>2 DEF TypeOK
  <2> QED
    BY <2>1, <2>2 DEF Send
<1>7. Always'
  <2>1. TypeOK'
    <3>1. overlapped' \in BOOLEAN
      BY <1>1
    <3> QED
      BY <1>1, <1>2, <1>4, <1>6, <3>1 DEF TypeOK
  <2>2. Begins(monitors)' /\ KnownFirst'
    BY <1>1, <1>2, <1>3 DEF Begins, KnownFirst, Complete
  <2>3. JobsGiven'
    <3>1. \A d \in Commands : pc'[d] # "idle" => job'[d] \in Jobs
      BY <1>1, <1>2, <1>3, <1>6 DEF JobsGiven
    <3>2. \A i \in DOMAIN toDevice' : pc'[toDevice'[i]] # "idle"
      <4>1. ASSUME NEW i \in DOMAIN toDevice' PROVE pc'[toDevice'[i]] # "idle"
        <5>1. CASE i = Len(toDevice) + 1
          BY <1>4, <1>6, <5>1
        <5>2. CASE i \in 1 .. Len(toDevice)
          BY <1>2, <1>4, <1>6, <5>2 DEF JobsGiven
        <5> QED
          BY <1>4, <5>1, <5>2
      <4> QED
        BY <4>1
    <3>3. \A i \in DOMAIN fromDevice' : IsAnswer(fromDevice'[i]) => pc'[fromDevice'[i].of] # "idle"
      BY <1>1, <1>2, <1>5, <1>6 DEF JobsGiven
    <3> QED
      BY <3>1, <3>2, <3>3 DEF JobsGiven, IsAnswer
  <2>4. NoneUnderWay'
    BY <1>1 DEF NoneUnderWay
  <2> QED
    BY <2>1, <2>2, <2>3, <2>4 DEF Always
<1>8. ASSUME ~overlapped' PROVE InOrder'
  <2>1. InOrder /\ ~overlapped /\ Active = {}
    BY <1>1, <1>8 DEF Inv, Active
  <2>2. pc' = [pc EXCEPT ![c] = "waiting"] /\ UNCHANGED <<shown, slot, event, doubtful>> /\ ~event
    <3>1. ~event
      BY <2>1 DEF InOrder, SlotIsTaken, Active
    <3> QED
      BY <3>1 DEF Send
  <2>3. /\ Active' = {c} /\ \A d \in Commands : pc'[d] # "woken" /\ pc[d] # "woken"
        /\ pc'[c] = "waiting"
    BY <1>2, <2>1, <2>2 DEF Active, TypeOK
  <2>4. OneActive' /\ SlotIsTaken'
    BY <2>1, <2>2, <2>3 DEF InOrder, OneActive, SlotIsTaken
  <2>5. Len(toDevice) = 0
    <3>1. ASSUME Len(toDevice) # 0 PROVE FALSE
      <4>1. 1 \in 1 .. Len(toDevice)
        BY <1>4, <3>1
      <4> QED
        BY <1>4, <2>1, <4>1 DEF InOrder, OneExchange, Active
    <3> QED
      BY <3>1
  <2>6. \A i \in DOMAIN fromDevice : ~IsAnswer(fromDevice[i])
    BY <1>5, <2>1 DEF InOrder, OneExchange, Active
  <2>7. OneExchange'
    <3>1. \A i \in DOMAIN toDevice' : i = 1 /\ toDevice'[i] = c
      BY <1>4, <2>5
    <3> QED
      BY <1>1, <1>4, <2>3, <2>5, <2>6, <3>1 DEF OneExchange, IsAnswer
  <2>8. SectionClosed' /\ PreludePending'
    BY <1>1, <2>1 DEF InOrder, SectionClosed, PreludePending, PreludeComes, Complete
  <2>9. MonitorsFollow'
    <3>1. ASSUME NEW x \in Names, Follows(x) PROVE Follows(x)'
      <4>1. fromDevice \in Seq(Blocks)
        BY <1>2, NowTyped
      <4> QED
        BY <1>1, <1>2, <2>2, <2>3, <3>1, <4>1, FollowsSame
    <3> QED
      BY <1>1, <2>1, <3>1 DEF InOrder, MonitorsFollow
  <2> QED
    BY <2>4, <2>7, <2>8, <2>9 DEF InOrder
<1> QED
  BY <1>7, <1>8 DEF Inv

(* The command that was woken takes its answer from the slot.              *)
LEMMA ResumeInv ==
  ASSUME Inv, NEW c \in Commands, Resume(c)
  PROVE  Inv'
<1> USE DEF parser, answer, history
<1>1. /\ pc[c] = "woken" /\ Take(c)
      /\ UNCHANGED <<monitors, section, parsed, reader, link, job, device, toDevice,
                     fromDevice, links, changes, overlapped>>
  BY DEF Resume
<1>2. TypeOK /\ Begins(monitors) /\ JobsGiven /\ KnownFirst /\ NoneUnderWay
  BY DEF Inv, Always
<1>3. link = "up" /\ Complete(monitors) /\ job[c] \in Jobs
  BY <1>1, <1>2 DEF KnownFirst, NoneUnderWay, Active, JobsGiven
<1>4. /\ slot' = None /\ event' = FALSE
      /\ pc' \in [Commands -> {"idle", "queued", "waiting", "woken", "stuck",
                              "accepted", "refused", "raised"}]
      /\ pc'[c] \in {"accepted", "refused", "raised"}
      /\ \A d \in Commands : d # c => pc'[d] = pc[d]
      /\ shown' \in [Names -> Values \cup {None}] /\ doubtful' \subseteq Names
      /\ \A m \in Names : shown'[m] = None <=> m \notin Range(monitors)
  BY <1>1, <1>2, <1>3, TakeTyped
<1>5. \A i \in DOMAIN toDevice : toDevice[i] \in Commands
  BY <1>2, LenProperties, ElementOfSeq DEF TypeOK
<1>6. \A i \in DOMAIN fromDevice : IsAnswer(fromDevice[i]) => fromDevice[i].of \in Commands
  BY <1>2, NowTyped, LenProperties, ElementOfSeq, BlockKinds
<1>7. Always'
  <2>1. TypeOK'
    BY <1>1, <1>2, <1>4 DEF TypeOK
  <2>2. Begins(monitors)' /\ KnownFirst'
    BY <1>1, <1>2 DEF Begins, KnownFirst, Complete
  <2>3. JobsGiven'
    <3>1. \A d \in Commands : pc'[d] # "idle" => job'[d] \in Jobs
      BY <1>1, <1>2, <1>3, <1>4 DEF JobsGiven
    <3>2. \A d \in Commands : pc[d] # "idle" => pc'[d] # "idle"
      BY <1>4
    <3> QED
      BY <1>1, <1>2, <1>5, <1>6, <3>1, <3>2 DEF JobsGiven, IsAnswer
  <2>4. NoneUnderWay'
    BY <1>1, <1>3 DEF NoneUnderWay
  <2> QED
    BY <2>1, <2>2, <2>3, <2>4 DEF Always
<1>8. ASSUME ~overlapped' PROVE InOrder'
  <2>1. InOrder /\ ~overlapped
    BY <1>1, <1>8 DEF Inv
  <2>2. \A d \in Commands : pc[d] = "woken" \/ pc[d] = "waiting" => d = c
    BY <1>1, <2>1 DEF InOrder, OneActive, Active
  <2>3. Active' = {} /\ \A d \in Commands : pc'[d] # "woken"
    BY <1>4, <2>2 DEF Active
  <2>4. OneActive' /\ SlotIsTaken'
    BY <1>4, <2>3 DEF OneActive, SlotIsTaken
  <2>5. OneExchange'
    <3>1. \A i \in DOMAIN toDevice : FALSE
      BY <1>1, <1>5, <2>1, <2>2 DEF InOrder, OneExchange
    <3>2. \A i \in DOMAIN fromDevice : ~IsAnswer(fromDevice[i])
      BY <1>1, <1>6, <2>1, <2>2 DEF InOrder, OneExchange
    <3> QED
      BY <1>1, <2>1, <3>1, <3>2 DEF InOrder, OneExchange, IsAnswer
  <2>6. SectionClosed' /\ PreludePending'
    BY <1>1, <2>1 DEF InOrder, SectionClosed, PreludePending, PreludeComes, Complete
  <2>7. MonitorsFollow'
    <3>1. ASSUME NEW m \in Names, Follows(m) PROVE Follows(m)'
      <4>1. About1(m)' = About1(m) /\ \A i \in About1(m) : Told(fromDevice[i])' = Told(fromDevice[i])
        BY <1>1 DEF About1, Tells, Told
      <4>2. Taking(m)' = {}
        BY <1>4, ConstantsAssumption DEF Taking
      <4>3. ASSUME m \notin doubtful', About1(m) = {}
            PROVE  shown'[m] = device[m]
        <5>1. CASE slot = "ACK"
          <6>1. /\ shown' = [shown EXCEPT ![job[c].of] = job[c].value]
                /\ doubtful' = doubtful \ {job[c].of}
            BY <1>1, <5>1, ConstantsAssumption DEF Take
          <6>2. CASE m = job[c].of
            <7>1. c \in Taking(m)
              BY <1>1, <5>1, <6>2 DEF Taking
            <7>2. job[c].value = device[m]
              BY <3>1, <4>3, <7>1 DEF Follows
            <7> QED
              BY <1>2, <6>1, <6>2, <7>2 DEF TypeOK
          <6>3. CASE m # job[c].of
            <7>1. Taking(m) = {}
              BY <2>2, <6>3 DEF Taking
            <7>2. shown[m] = device[m]
              BY <3>1, <4>3, <6>1, <6>3, <7>1 DEF Follows
            <7> QED
              BY <1>2, <6>1, <6>3, <7>2 DEF TypeOK
          <6> QED
            BY <6>2, <6>3
        <5>2. CASE slot # "ACK"
          <6>1. UNCHANGED <<shown, doubtful>>
            BY <1>1, <5>2 DEF Take
          <6>2. Taking(m) = {}
            BY <5>2 DEF Taking
          <6> QED
            BY <3>1, <4>3, <6>1, <6>2 DEF Follows
        <5> QED
          BY <5>1, <5>2
      <4> QED
        BY <1>1, <3>1, <4>1, <4>2, <4>3 DEF Follows
    <3> QED
      BY <1>1, <2>1, <3>1 DEF InOrder, MonitorsFollow
  <2> QED
    BY <2>4, <2>5, <2>6, <2>7 DEF InOrder
<1> QED
  BY <1>7, <1>8 DEF Inv

(* The device sends one block more.                                        *)
LEMMA BlockSent ==
  ASSUME fromDevice \in Seq(Blocks), NEW b \in Blocks, fromDevice' = Append(fromDevice, b)
  PROVE  /\ fromDevice' \in Seq(Blocks) /\ Len(fromDevice') = Len(fromDevice) + 1
         /\ Len(fromDevice) \in Nat /\ DOMAIN fromDevice = 1 .. Len(fromDevice)
         /\ DOMAIN fromDevice' = (1 .. Len(fromDevice)) \cup {Len(fromDevice) + 1}
         /\ \A i \in 1 .. Len(fromDevice) : fromDevice'[i] = fromDevice[i]
         /\ fromDevice'[Len(fromDevice) + 1] = b
<1>1. /\ fromDevice' \in Seq(Blocks) /\ Len(fromDevice') = Len(fromDevice) + 1
      /\ \A i \in 1 .. Len(fromDevice) : fromDevice'[i] = fromDevice[i]
      /\ fromDevice'[Len(fromDevice) + 1] = b
  BY AppendProperties
<1>2. /\ Len(fromDevice) \in Nat /\ DOMAIN fromDevice = 1 .. Len(fromDevice)
      /\ DOMAIN fromDevice' = 1 .. Len(fromDevice')
  BY <1>1, LenProperties
<1>3. DOMAIN fromDevice' = (1 .. Len(fromDevice)) \cup {Len(fromDevice) + 1}
  BY <1>1, <1>2
<1> QED
  BY <1>1, <1>2, <1>3

(* If that says what the device has now, or nothing of a monitor that the  *)
(* device has as before, then what is shown follows still.                 *)
LEMMA FollowsSent ==
  ASSUME fromDevice \in Seq(Blocks), NEW b \in Blocks, fromDevice' = Append(fromDevice, b),
         UNCHANGED <<job, pc, slot, shown, doubtful>>,
         NEW m \in Names, Follows(m),
         \/ Tells(b, m) /\ Told(b) = device'[m]
         \/ ~Tells(b, m) /\ device'[m] = device[m]
  PROVE  Follows(m)'
<1>0. PICK n \in Nat : n = Len(fromDevice)
  BY LenProperties
<1>1. /\ n \in Nat /\ DOMAIN fromDevice = 1 .. n /\ DOMAIN fromDevice' = (1 .. n) \cup {n + 1}
      /\ \A i \in 1 .. n : fromDevice'[i] = fromDevice[i]
      /\ fromDevice'[n + 1] = b
  BY <1>0, BlockSent
<1>2. Taking(m)' = Taking(m)
  BY DEF Taking
<1>3. \A i \in 1 .. n : /\ Tells(fromDevice[i], m)' <=> Tells(fromDevice[i], m)
                        /\ Told(fromDevice[i])' = Told(fromDevice[i])
  BY <1>1 DEF Tells, Told
<1>4. CASE Tells(b, m) /\ Told(b) = device'[m]
  <2>1. n + 1 \in About1(m)'
    BY <1>1, <1>4 DEF About1, Tells
  <2>2. Told(fromDevice[n + 1])' = device'[m]
    BY <1>1, <1>4 DEF Told
  <2>3. \A i \in About1(m)' : n + 1 <= i => i = n + 1
    BY <1>1 DEF About1
  <2> QED
    BY <2>1, <2>2, <2>3 DEF Follows
<1>5. CASE ~Tells(b, m) /\ device'[m] = device[m]
  <2>1. About1(m)' = About1(m)
    <3>1. ~Tells(fromDevice[n + 1], m)'
      BY <1>1, <1>5 DEF Tells
    <3> QED
      BY <1>1, <1>3, <3>1 DEF About1
  <2>2. \A i \in About1(m) : Told(fromDevice[i])' = Told(fromDevice[i])
    BY <1>1, <1>3 DEF About1
  <2>3. \A c \in Taking(m) : job'[c] = job[c]
    OBVIOUS
  <2> QED
    BY <1>2, <1>5, <2>1, <2>2 DEF Follows
<1> QED
  BY <1>4, <1>5

(* The device answers the first command that reached it, and does what it  *)
(* says if it accepts it.                                                  *)
LEMMA DeviceAnswersInv ==
  ASSUME Inv, DeviceAnswers
  PROVE  Inv'
<1> USE DEF parser, answer, history
<1> DEFINE c == Head(toDevice)
           n == Len(fromDevice)
<1>1. /\ toDevice # <<>> /\ toDevice' = Tail(toDevice)
      /\ UNCHANGED <<monitors, section, parsed, reader, shown, slot, event, link, pc, job,
                     links, changes, overlapped, doubtful>>
  BY DEF DeviceAnswers
<1>2. TypeOK /\ Begins(monitors) /\ JobsGiven /\ KnownFirst /\ NoneUnderWay
  BY DEF Inv, Always
<1>3. /\ toDevice \in Seq(Commands) /\ c \in Commands /\ c = toDevice[1]
      /\ toDevice' \in Seq(Commands) /\ Len(toDevice') = Len(toDevice) - 1
      /\ DOMAIN toDevice = 1 .. Len(toDevice) /\ Len(toDevice) \in Nat \ {0}
      /\ DOMAIN toDevice' = 1 .. Len(toDevice) - 1
      /\ \A i \in 1 .. Len(toDevice) - 1 : toDevice'[i] = toDevice[i + 1]
  <2>1. toDevice \in Seq(Commands)
    BY <1>2 DEF TypeOK
  <2>2. /\ c \in Commands /\ toDevice' \in Seq(Commands) /\ Len(toDevice') = Len(toDevice) - 1
        /\ \A i \in 1 .. Len(toDevice') : toDevice'[i] = toDevice[i + 1]
    BY <1>1, <2>1, HeadTailProperties
  <2>3. DOMAIN toDevice = 1 .. Len(toDevice) /\ Len(toDevice) \in Nat \ {0}
    BY <1>1, <2>1, EmptySeq, LenProperties
  <2>4. DOMAIN toDevice' = 1 .. Len(toDevice) - 1
    BY <2>2, LenProperties
  <2>5. c = toDevice[1]
    BY <1>1, <2>1
  <2> QED
    BY <2>1, <2>2, <2>3, <2>4, <2>5
<1>4. link = "up" /\ pc[c] # "idle" /\ job[c] \in Jobs
  BY <1>1, <1>2, <1>3 DEF NoneUnderWay, JobsGiven
<1>5. PICK a \in {"ACK", "NAK"} :
        /\ fromDevice' = Append(fromDevice, Answer(a, c))
        /\ a = "ACK" => device' = [device EXCEPT ![job[c].of] = job[c].value]
        /\ a = "NAK" => device' = device
  BY DEF DeviceAnswers
<1> HIDE DEF c
<1>6. Answer(a, c) \in Blocks /\ Answer(a, c).kind = a /\ Answer(a, c).of = c
  BY <1>3 DEF Answer, Blocks
<1>7. fromDevice \in Seq(Blocks)
  BY <1>2, NowTyped
<1>8. /\ fromDevice' \in Seq(Blocks) /\ n \in Nat /\ DOMAIN fromDevice = 1 .. n
      /\ DOMAIN fromDevice' = (1 .. n) \cup {n + 1}
      /\ \A i \in 1 .. n : fromDevice'[i] = fromDevice[i]
      /\ fromDevice'[n + 1] = Answer(a, c)
  BY <1>5, <1>6, <1>7, BlockSent
<1> HIDE DEF n
<1>9. Always'
  <2>1. TypeOK'
    <3>1. device' \in [Names -> Values]
      BY <1>2, <1>4, <1>5 DEF TypeOK, Jobs
    <3> QED
      BY <1>1, <1>2, <1>3, <1>8, <3>1 DEF TypeOK, Blocks
  <2>2. Begins(monitors)' /\ KnownFirst' /\ NoneUnderWay'
    BY <1>1, <1>2, <1>4 DEF Begins, KnownFirst, Complete, NoneUnderWay
  <2>3. JobsGiven'
    <3>1. \A i \in DOMAIN toDevice' : pc[toDevice'[i]] # "idle"
      <4>1. \A i \in 1 .. Len(toDevice) - 1 : i + 1 \in 1 .. Len(toDevice)
        BY <1>3
      <4> QED
        BY <1>2, <1>3, <4>1 DEF JobsGiven
    <3>2. \A i \in DOMAIN fromDevice' : IsAnswer(fromDevice'[i]) => pc[fromDevice'[i].of] # "idle"
      BY <1>2, <1>4, <1>6, <1>8 DEF JobsGiven
    <3> QED
      BY <1>1, <1>2, <3>1, <3>2 DEF JobsGiven, IsAnswer
  <2> QED
    BY <2>1, <2>2, <2>3 DEF Always
<1>10. ASSUME ~overlapped' PROVE InOrder'
  <2>1. InOrder /\ ~overlapped
    BY <1>1, <1>10 DEF Inv
  <2>2. OneActive' /\ SlotIsTaken'
    BY <1>1, <2>1 DEF InOrder, OneActive, Active, SlotIsTaken
  <2>3. parsed /\ \A i \in DOMAIN fromDevice : fromDevice[i].kind # "head"
    BY <1>4, <2>1 DEF InOrder, SectionClosed
  <2>4. SectionClosed' /\ PreludePending'
    <3>1. \A i \in DOMAIN fromDevice' : fromDevice'[i].kind # "head"
      BY <1>6, <1>8, <2>3
    <3> QED
      BY <1>1, <1>4, <2>1, <2>3, <3>1 DEF InOrder, SectionClosed, PreludePending
  <2>5. OneExchange'
    <3>1. Len(toDevice) = 1 /\ pc[c] = "waiting"
      BY <1>3, <2>1 DEF InOrder, OneExchange
    <3>2. toDevice' = <<>> /\ Len(toDevice') = 0 /\ DOMAIN toDevice' = {}
      BY <1>3, <3>1, EmptySeq
    <3>3. \A i \in 1 .. n : ~IsAnswer(fromDevice[i])
      BY <1>1, <1>8, <2>1 DEF InOrder, OneExchange
    <3>4. \A i \in DOMAIN fromDevice' : IsAnswer(fromDevice'[i]) =>
            i = n + 1 /\ fromDevice'[i].of = c
      BY <1>6, <1>8, <3>3
    <3> QED
      BY <1>1, <3>1, <3>2, <3>4 DEF OneExchange, IsAnswer
  <2>6. MonitorsFollow'
    <3>1. ASSUME NEW m \in Names, Follows(m) PROVE Follows(m)'
      <4>1. \/ Tells(Answer(a, c), m) /\ Told(Answer(a, c)) = device'[m]
            \/ ~Tells(Answer(a, c), m) /\ device'[m] = device[m]
        <5>1. CASE a = "ACK"
          BY <1>2, <1>4, <1>5, <1>6, <5>1 DEF TypeOK, Jobs, Tells, Told
        <5>2. CASE a = "NAK"
          BY <1>5, <1>6, <5>2 DEF Tells
        <5> QED
          BY <5>1, <5>2
      <4> QED
        BY <1>1, <1>5, <1>6, <1>7, <3>1, <4>1, FollowsSent
    <3> QED
      BY <1>1, <2>1, <3>1 DEF InOrder, MonitorsFollow
  <2> QED
    BY <2>2, <2>4, <2>5, <2>6 DEF InOrder
<1> QED
  BY <1>9, <1>10 DEF Inv

(* Another controller changes a monitor: the device says so.               *)
LEMMA OtherControllerInv ==
  ASSUME Inv, NEW m \in Names, NEW v \in Values, OtherController(m, v)
  PROVE  Inv'
<1> USE DEF parser, answer
<1> DEFINE b == [kind |-> "monitor", of |-> m, value |-> v]
           n == Len(fromDevice)
<1>1. /\ changes < MaxChanges /\ changes' = changes + 1
      /\ device' = [device EXCEPT ![m] = v]
      /\ UNCHANGED <<monitors, section, parsed, reader, shown, slot, event, link, pc, job,
                     toDevice, links, overlapped, doubtful>>
      /\ \/ link = "down" /\ fromDevice' = fromDevice
         \/ link # "down" /\ fromDevice' = Append(fromDevice, b)
  BY DEF OtherController
<1>2. TypeOK /\ Begins(monitors) /\ JobsGiven /\ KnownFirst /\ NoneUnderWay
  BY DEF Inv, Always
<1>3. b \in Blocks /\ b.kind = "monitor" /\ b.of = m /\ b.value = v /\ ~IsAnswer(b)
  BY DEF Blocks, IsAnswer
<1> HIDE DEF b
<1>4. fromDevice \in Seq(Blocks) /\ n \in Nat /\ DOMAIN fromDevice = 1 .. n
  BY <1>2, NowTyped, LenProperties
<1>5. link # "down" =>
        /\ fromDevice' \in Seq(Blocks) /\ Len(fromDevice') = n + 1
        /\ DOMAIN fromDevice' = (1 .. n) \cup {n + 1}
        /\ \A i \in 1 .. n : fromDevice'[i] = fromDevice[i]
        /\ fromDevice'[n + 1] = b
  BY <1>1, <1>3, <1>4, BlockSent
<1> HIDE DEF n
<1>6. \A i \in DOMAIN fromDevice' :
        \/ i \in DOMAIN fromDevice /\ fromDevice'[i] = fromDevice[i]
        \/ link # "down" /\ i = n + 1 /\ fromDevice'[i] = b
  BY <1>1, <1>4, <1>5
<1>7. Always'
  <2>1. TypeOK'
    <3>1. device' \in [Names -> Values] /\ changes' \in 0 .. MaxChanges
      BY <1>1, <1>2, ConstantsAssumption DEF TypeOK
    <3>2. fromDevice' \in Seq(Blocks)
      BY <1>1, <1>4, <1>5
    <3> QED
      BY <1>1, <1>2, <3>1, <3>2 DEF TypeOK, Blocks
  <2>2. Begins(monitors)' /\ KnownFirst'
    BY <1>1, <1>2 DEF Begins, KnownFirst, Complete
  <2>3. JobsGiven' /\ NoneUnderWay'
    BY <1>1, <1>2, <1>3, <1>6 DEF JobsGiven, NoneUnderWay, Active, IsAnswer
  <2> QED
    BY <2>1, <2>2, <2>3 DEF Always
<1>8. ASSUME ~overlapped' PROVE InOrder'
  <2>1. InOrder /\ ~overlapped
    BY <1>1, <1>8 DEF Inv
  <2>2. OneActive' /\ SlotIsTaken'
    BY <1>1, <2>1 DEF InOrder, OneActive, Active, SlotIsTaken
  <2>3. OneExchange'
    <3>1. \A i \in DOMAIN fromDevice' : IsAnswer(fromDevice'[i]) =>
            i \in DOMAIN fromDevice /\ fromDevice'[i] = fromDevice[i]
      BY <1>3, <1>6
    <3> QED
      BY <1>1, <2>1, <3>1 DEF InOrder, OneExchange, IsAnswer
  <2>4. SectionClosed'
    <3>1. parsed => \A i \in DOMAIN fromDevice' : fromDevice'[i].kind # "head"
      BY <1>3, <1>6, <2>1 DEF InOrder, SectionClosed
    <3> QED
      BY <1>1, <2>1, <3>1 DEF InOrder, SectionClosed, Complete
  <2>5. PreludePending'
    <3>1. SUFFICES ASSUME link # "down", ~parsed
                   PROVE  PreludeComes(0, section, monitors)'
      BY <1>1 DEF PreludePending
    <3>2. PreludeComes(0, section, monitors)
      BY <2>1, <3>1 DEF InOrder, PreludePending
    <3> DEFINE h == 0 + Heads(section)
               k == Reached(monitors)
    <3>3. h \in {0, 1} /\ k \in Nat /\ k < Len(Monitors) /\ Len(Monitors) \in Nat
      <4>1. Len(Monitors) \in Nat \ {0} /\ Len(monitors) \in 0 .. Len(Monitors)
        BY <1>2, MonitorsListed, AllOrNext
      <4> QED
        BY <4>1 DEF Heads, Reached, Complete
    <3>4. Heads(section') = Heads(section) /\ Reached(monitors') = k
      BY <1>1
    <3>5. /\ section = None => 0 < n /\ fromDevice[h].kind = "head" /\ k = 0
          /\ h + Len(Monitors) - k <= n
          /\ \A i \in 1 .. Len(Monitors) - k : fromDevice[h + i].of = Monitors[k + i]
          /\ \A i \in DOMAIN fromDevice : h < i => fromDevice[i].kind = "monitor"
      BY <3>2 DEF PreludeComes, n
    <3>6. section = None => h = 1
      BY DEF Heads
    <3> HIDE DEF h, k
    <3>7. \A i \in 1 .. Len(Monitors) - k : h + i \in 1 .. n
      BY <1>4, <3>3, <3>5
    <3>8. /\ section = None => 0 < n + 1 /\ fromDevice'[h].kind = "head" /\ k = 0
          /\ h + Len(Monitors) - k <= n + 1
          /\ \A i \in 1 .. Len(Monitors) - k : fromDevice'[h + i].of = Monitors[k + i]
          /\ \A i \in DOMAIN fromDevice' : h < i => fromDevice'[i].kind = "monitor"
      <4>1. section = None => h \in 1 .. n
        BY <1>4, <3>5, <3>6
      <4>2. h + Len(Monitors) - k <= n + 1
        BY <1>4, <3>3, <3>5
      <4> QED
        BY <1>3, <1>4, <1>5, <1>6, <3>1, <3>5, <3>7, <4>1, <4>2
    <3> QED
      BY <1>1, <1>5, <3>1, <3>4, <3>8 DEF PreludeComes, h, k
  <2>6. MonitorsFollow'
    <3>1. ASSUME NEW x \in Names, Follows(x), link # "down" PROVE Follows(x)'
      <4>1. \/ Tells(b, x) /\ Told(b) = device'[x]
            \/ ~Tells(b, x) /\ device'[x] = device[x]
        BY <1>1, <1>2, <1>3 DEF TypeOK, Tells, Told
      <4> QED
        BY <1>1, <1>3, <1>4, <3>1, <4>1, FollowsSent
    <3> QED
      BY <1>1, <2>1, <3>1 DEF InOrder, MonitorsFollow
  <2> QED
    BY <2>2, <2>3, <2>4, <2>5, <2>6 DEF InOrder
<1> QED
  BY <1>7, <1>8 DEF Inv

-----------------------------------------------------------------------------
(* A read.                                                                 *)

(* What is left on its way.                                                *)
LEMMA Rest ==
  ASSUME fromDevice \in Seq(Blocks), NEW n \in 1 .. Len(fromDevice),
         fromDevice' = SubSeq(fromDevice, n + 1, Len(fromDevice))
  PROVE  /\ fromDevice' \in Seq(Blocks) /\ Len(fromDevice') = Len(fromDevice) - n
         /\ Len(fromDevice) \in Nat /\ n \in Nat /\ DOMAIN fromDevice = 1 .. Len(fromDevice)
         /\ \A i \in DOMAIN fromDevice' :
              /\ i \in Nat \ {0} /\ n + i \in DOMAIN fromDevice
              /\ fromDevice'[i] = fromDevice[n + i]
         /\ \A j \in DOMAIN fromDevice : n < j =>
              /\ j - n \in DOMAIN fromDevice' /\ n + (j - n) = j
<1> DEFINE L == Len(fromDevice)
<1>1. L \in Nat /\ n \in Nat /\ n <= L /\ DOMAIN fromDevice = 1 .. L
  BY LenProperties
<1>2. \A i \in n + 1 .. L : fromDevice[i] \in Blocks
  <2>1. \A i \in n + 1 .. L : i \in 1 .. L
    BY <1>1
  <2> QED
    BY <2>1, ElementOfSeq
<1> HIDE DEF L
<1>3. /\ SubSeq(fromDevice, n + 1, L) \in Seq(Blocks)
      /\ Len(SubSeq(fromDevice, n + 1, L)) = IF n + 1 <= L THEN L - (n + 1) + 1 ELSE 0
      /\ \A i \in 1 .. L - (n + 1) + 1 : SubSeq(fromDevice, n + 1, L)[i] = fromDevice[(n + 1) + i - 1]
  <2>1. n + 1 \in Int /\ L \in Int
    BY <1>1
  <2> QED
    BY ONLY <2>1, <1>2, SubSeqProperties
<1>4. fromDevice' = SubSeq(fromDevice, n + 1, L)
  BY DEF L
<1>5. fromDevice' \in Seq(Blocks) /\ Len(fromDevice') = L - n
  BY <1>1, <1>3, <1>4
<1>6. DOMAIN fromDevice' = 1 .. L - n
  BY <1>5, LenProperties
<1>7. \A i \in 1 .. L - n :
        /\ i \in Nat \ {0} /\ n + i \in 1 .. L /\ i \in 1 .. L - (n + 1) + 1
        /\ (n + 1) + i - 1 = n + i
  BY <1>1
<1>8. \A i \in 1 .. L - n : fromDevice'[i] = fromDevice[n + i]
  BY <1>3, <1>4, <1>7
<1>9. \A j \in 1 .. L : n < j => j - n \in 1 .. L - n /\ n + (j - n) = j
  BY <1>1
<1> QED
  BY <1>1, <1>5, <1>6, <1>7, <1>8, <1>9 DEF L

(* Blocks are about monitors.                                              *)
LEMMA AboutNames ==
  ASSUME TypeOK, Begins(monitors), JobsGiven, NEW I, I \subseteq DOMAIN fromDevice
  PROVE  About(I) \subseteq Names
<1>1. ASSUME NEW i \in I, fromDevice[i].kind # "head"
      PROVE  (IF fromDevice[i].kind = "monitor" THEN fromDevice[i].of
              ELSE job[fromDevice[i].of].of) \in Names
  <2>1. fromDevice[i] \in Blocks
    BY NowTyped, LenProperties, ElementOfSeq
  <2>2. CASE fromDevice[i].kind = "monitor"
    BY <2>1, <2>2, BlockKinds DEF IsAnswer
  <2>3. CASE IsAnswer(fromDevice[i])
    <3>1. fromDevice[i].kind # "monitor" /\ fromDevice[i].of \in Commands
      BY <2>1, <2>3, BlockKinds
    <3>2. job[fromDevice[i].of] \in Jobs
      BY <2>3, <3>1 DEF JobsGiven
    <3> QED
      BY <3>1, <3>2 DEF Jobs
  <2> QED
    BY <1>1, <2>1, <2>2, <2>3, BlockKinds
<1> QED
  BY <1>1 DEF About

(* A monitor that no block of these is about is told nothing by them.      *)
LEMMA NotAbout ==
  ASSUME NEW I, I \subseteq DOMAIN fromDevice, NEW m, m \notin About(I), NEW i \in I
  PROVE  ~Tells(fromDevice[i], m)
<1>1. SUFFICES ASSUME Tells(fromDevice[i], m) PROVE FALSE
  OBVIOUS
<1>2. fromDevice[i].kind # "head"
  BY <1>1 DEF Tells
<1>3. m = IF fromDevice[i].kind = "monitor" THEN fromDevice[i].of
          ELSE job[fromDevice[i].of].of
  BY <1>1 DEF Tells
<1> QED
  BY <1>2, <1>3 DEF About

(* What every read keeps.                                                  *)
LEMMA ReadTyped ==
  ASSUME Inv, NEW n \in 1 .. Len(fromDevice), link # "down"
  PROVE  LET s == Parsed(n) IN
         /\ s \in States /\ s.read \in 0 .. n
         /\ Begins(s.monitors)
         /\ Complete(monitors) \/ s.parsed => Complete(s.monitors)
         /\ \A m \in Names : s.shown[m] = None <=> m \notin Range(s.monitors)
<1>1. TypeOK /\ Begins(monitors) /\ KnownFirst /\ n \in Nat
  <2>1. TypeOK /\ Begins(monitors) /\ KnownFirst
    BY DEF Inv, Always
  <2> QED
    BY <2>1, NowTyped, LenProperties
<1>2. CASE Complete(monitors)
  <2>1. /\ Parsed(n) \in States /\ Parsed(n).read \in 0 .. n
        /\ Parsed(n).monitors = monitors
        /\ Parsed(n).shown \in [Names -> Values]
    BY <1>1, <1>2, ParseOfKnown
  <2>2. Range(monitors) = Names
    BY <1>1, <1>2, AllOrNext
  <2>3. \A m \in Names : Parsed(n).shown[m] # None
    BY <2>1, ConstantsAssumption
  <2> QED
    BY <1>1, <1>2, <2>1, <2>2, <2>3
<1>3. CASE ~Complete(monitors)
  <2>1. ~parsed /\ ~overlapped
    BY <1>1, <1>3 DEF KnownFirst
  <2>2. PreludeComes(0, section, monitors)
    BY <2>1 DEF Inv, InOrder, PreludePending
  <2>3. Midway(Parsed(n), n)
    BY <1>1, <2>1, <2>2, ParseOfPrelude
  <2> QED
    BY <1>3, <2>3 DEF Midway
<1> QED
  BY <1>2, <1>3

(* One read of the loop, n blocks of it: the part of the invariant that    *)
(* holds whether or not commands overlapped.                               *)
LEMMA ReadAlways ==
  ASSUME Inv, NEW n \in 1 .. Len(fromDevice), Read(n)
  PROVE  Always'
<1> DEFINE s == Parsed(n)
<1>1. /\ link # "down"
      /\ section' = s.section /\ monitors' = s.monitors /\ shown' = s.shown
      /\ parsed' = s.parsed /\ slot' = s.slot /\ event' = s.event
      /\ reader' = IF s.go = "dead" THEN "dead" ELSE reader
      /\ link' = IF link = "dialled" /\ s.go # "dead" THEN "heard" ELSE link
      /\ pc' = [c \in Commands |-> IF pc[c] = "waiting" /\ s.event THEN "woken" ELSE pc[c]]
      /\ doubtful' = (doubtful \ About({i \in 1 .. s.read : fromDevice[i].kind = "monitor"}))
                     \cup About(s.read + 1 .. n)
      /\ fromDevice' = SubSeq(fromDevice, n + 1, Len(fromDevice))
      /\ UNCHANGED <<job, device, toDevice, links, changes, overlapped>>
  BY DEF Read, history
<1>2. TypeOK /\ Begins(monitors) /\ JobsGiven /\ KnownFirst /\ NoneUnderWay
  BY DEF Inv, Always
<1>3. /\ s \in States /\ s.read \in 0 .. n
      /\ Begins(s.monitors)
      /\ Complete(monitors) \/ s.parsed => Complete(s.monitors)
      /\ \A m \in Names : s.shown[m] = None <=> m \notin Range(s.monitors)
  BY <1>1, ReadTyped
<1> HIDE DEF s
<1>4. /\ fromDevice' \in Seq(Blocks) /\ n \in Nat /\ DOMAIN fromDevice = 1 .. Len(fromDevice)
      /\ \A i \in DOMAIN fromDevice' : n + i \in DOMAIN fromDevice /\ fromDevice'[i] = fromDevice[n + i]
  BY <1>1, <1>2, NowTyped, Rest
<1>5. doubtful' \subseteq Names
  <2>1. s.read + 1 .. n \subseteq DOMAIN fromDevice
    BY <1>3, <1>4
  <2>2. About(s.read + 1 .. n) \subseteq Names
    BY <1>2, <2>1, AboutNames
  <2> QED
    BY <1>1, <1>2, <2>2 DEF TypeOK
<1>6. /\ pc' \in [Commands -> {"idle", "queued", "waiting", "woken", "stuck",
                              "accepted", "refused", "raised"}]
      /\ \A c \in Commands : pc'[c] = "idle" <=> pc[c] = "idle"
      /\ \A c \in Commands : c \in Active' <=> c \in Active
  BY <1>1, <1>2 DEF TypeOK, Active
<1>7. TypeOK'
  <2>1. IsPrefix(monitors', Monitors)
    BY <1>1, <1>3, BeginsIsPrefix
  <2>2. /\ section' \in {None, "head"} \cup Names /\ parsed' \in BOOLEAN
        /\ shown' \in [Names -> Values \cup {None}]
        /\ slot' \in {None, "ACK", "NAK"} /\ event' \in BOOLEAN
    BY <1>1, <1>3 DEF States
  <2>3. \A m \in Names : shown'[m] = None <=> m \notin Range(monitors')
    BY <1>1, <1>3
  <2>4. reader' \in {"alive", "dead"} /\ link' \in {"down", "dialled", "heard", "up"}
    BY <1>1, <1>2 DEF TypeOK
  <2> QED
    BY <1>1, <1>2, <1>4, <1>5, <1>6, <2>1, <2>2, <2>3, <2>4 DEF TypeOK, Blocks
<1>8. Begins(monitors)' /\ KnownFirst'
  <2>1. Begins(monitors')
    BY <1>1, <1>3
  <2>2. link' = "up" \/ parsed' \/ overlapped' => Complete(monitors')
    BY <1>1, <1>2, <1>3 DEF KnownFirst
  <2> QED
    BY <2>1, <2>2 DEF Begins, KnownFirst, Complete
<1>9. JobsGiven'
  <2>1. \A i \in DOMAIN toDevice : toDevice[i] \in Commands
    BY <1>2, LenProperties, ElementOfSeq DEF TypeOK
  <2>2. \A i \in DOMAIN fromDevice : IsAnswer(fromDevice[i]) => fromDevice[i].of \in Commands
    BY <1>2, NowTyped, LenProperties, ElementOfSeq, BlockKinds
  <2>3. \A c \in Commands : pc'[c] # "idle" => job'[c] \in Jobs
    BY <1>1, <1>2, <1>6 DEF JobsGiven
  <2>4. \A i \in DOMAIN toDevice' : pc'[toDevice'[i]] # "idle"
    BY <1>1, <1>2, <1>6, <2>1 DEF JobsGiven
  <2>5. \A i \in DOMAIN fromDevice' : IsAnswer(fromDevice'[i]) => pc'[fromDevice'[i].of] # "idle"
    BY <1>2, <1>4, <1>6, <2>2 DEF JobsGiven
  <2> QED
    BY <2>3, <2>4, <2>5 DEF JobsGiven, IsAnswer
<1>10. NoneUnderWay'
  <2>1. SUFFICES ASSUME link' # "up"
                 PROVE  /\ toDevice' = <<>> /\ Active' = {}
                        /\ \A i \in DOMAIN fromDevice' : ~IsAnswer(fromDevice'[i])
    BY DEF NoneUnderWay, IsAnswer
  <2>2. link # "up"
    BY <1>1, <2>1
  <2>3. \A c \in Commands : c \notin Active'
    BY <1>2, <1>6, <2>2 DEF NoneUnderWay
  <2>4. Active' = {}
    BY <2>3 DEF Active
  <2> QED
    BY <1>1, <1>2, <1>4, <2>2, <2>4 DEF NoneUnderWay
<1> QED
  BY <1>7, <1>8, <1>9, <1>10 DEF Always

(* What comes last stays last when what is before it is taken.             *)
LEMMA LastStays ==
  ASSUME fromDevice \in Seq(Blocks), NEW n \in 1 .. Len(fromDevice),
         fromDevice' = SubSeq(fromDevice, n + 1, Len(fromDevice)),
         UNCHANGED <<job, device>>, NEW m \in Names, Follows(m)
  PROVE  /\ \A i \in About1(m)' :
              (\A j \in About1(m)' : j <= i) => Told(fromDevice[i])' = device'[m]
         /\ \A j \in About1(m) : n < j => About1(m)' # {}
<1>1. /\ n \in Nat
      /\ \A i \in DOMAIN fromDevice' :
           /\ i \in Nat \ {0} /\ n + i \in DOMAIN fromDevice
           /\ fromDevice'[i] = fromDevice[n + i]
      /\ \A j \in DOMAIN fromDevice : n < j =>
           /\ j - n \in DOMAIN fromDevice' /\ n + (j - n) = j
  BY Rest
<1>2. DOMAIN fromDevice \subseteq Nat
  BY LenProperties
<1>3. \A i \in DOMAIN fromDevice' : i \in About1(m)' <=> n + i \in About1(m)
  BY <1>1 DEF About1, Tells
<1>4. \A j \in About1(m) : n < j => j - n \in About1(m)'
  <2>1. ASSUME NEW j \in About1(m), n < j PROVE j - n \in About1(m)'
    <3>1. j \in DOMAIN fromDevice
      BY DEF About1
    <3>2. j - n \in DOMAIN fromDevice' /\ n + (j - n) = j
      BY <1>1, <2>1, <3>1
    <3> QED
      BY <1>3, <3>2
  <2> QED
    BY <2>1
<1>5. ASSUME NEW i \in About1(m)', \A j \in About1(m)' : j <= i
      PROVE  Told(fromDevice[i])' = device'[m]
  <2>1. i \in DOMAIN fromDevice'
    BY DEF About1
  <2>2. n + i \in About1(m) /\ i \in Nat
    BY <1>1, <1>3, <2>1
  <2>3. ASSUME NEW j \in About1(m) PROVE j <= n + i
    <3>1. j \in Nat
      BY <1>2 DEF About1
    <3>2. CASE n < j
      <4>1. j - n <= i
        BY <1>4, <1>5, <3>2
      <4> QED
        BY <1>1, <2>2, <3>1, <4>1
    <3>3. CASE ~(n < j)
      BY <1>1, <2>2, <3>1, <3>3
    <3> QED
      BY <3>2, <3>3
  <2>4. Told(fromDevice[n + i]) = device[m]
    BY <2>2, <2>3 DEF Follows
  <2> QED
    BY <1>1, <2>1, <2>4 DEF Told
<1> QED
  BY <1>4, <1>5

(* A read of monitors.                                                     *)
LEMMA FollowsMonitors ==
  ASSUME fromDevice \in Seq(Blocks), NEW n \in 1 .. Len(fromDevice),
         fromDevice' = SubSeq(fromDevice, n + 1, Len(fromDevice)),
         UNCHANGED <<job, device>>, NEW m \in Names, Follows(m),
         \A c \in Commands : pc[c] # "woken" /\ pc'[c] # "woken",
         NEW r \in 0 .. n, \A i \in 1 .. r : ~IsAnswer(fromDevice[i]),
         LastSaid(m, r, shown'[m]),
         doubtful' = (doubtful \ About({i \in 1 .. r : fromDevice[i].kind = "monitor"}))
                     \cup About(r + 1 .. n)
  PROVE  Follows(m)'
<1>1. n \in Nat /\ r \in Nat /\ r <= n /\ DOMAIN fromDevice = 1 .. Len(fromDevice) /\ Len(fromDevice) \in Nat
  BY LenProperties
<1>2. Taking(m) = {} /\ Taking(m)' = {}
  BY DEF Taking
<1>3. ASSUME m \notin doubtful', About1(m)' = {}
      PROVE  shown'[m] = device[m]
  <2>1. \A i \in r + 1 .. n : ~Tells(fromDevice[i], m)
    <3>1. r + 1 .. n \subseteq DOMAIN fromDevice
      BY <1>1
    <3> QED
      BY <1>3, <3>1, NotAbout
  <2>2. \A i \in About1(m) : i \in 1 .. r /\ Says(i, m)
    <3>1. ASSUME NEW i \in About1(m) PROVE i \in 1 .. r /\ Says(i, m)
      <4>1. i \in 1 .. Len(fromDevice) /\ Tells(fromDevice[i], m)
        BY <1>1 DEF About1
      <4>2. ~(n < i)
        BY <1>3, LastStays
      <4>3. i \notin r + 1 .. n
        BY <2>1, <4>1
      <4>4. i \in 1 .. r
        BY <1>1, <4>1, <4>2, <4>3
      <4> QED
        BY <4>1, <4>4 DEF Tells, Says, IsAnswer
    <3> QED
      BY <3>1
  <2>3. CASE \E i \in 1 .. r : /\ Says(i, m) /\ shown'[m] = fromDevice[i].value
                               /\ \A j \in 1 .. r : Says(j, m) => j <= i
    <3>1. PICK i \in 1 .. r : /\ Says(i, m) /\ shown'[m] = fromDevice[i].value
                              /\ \A j \in 1 .. r : Says(j, m) => j <= i
      BY <2>3
    <3>2. i \in About1(m)
      BY <1>1, <3>1 DEF About1, Tells, Says
    <3>3. Told(fromDevice[i]) = device[m]
      BY <2>2, <3>1, <3>2 DEF Follows
    <3> QED
      BY <3>1, <3>3 DEF Told, Says
  <2>4. CASE shown'[m] = shown[m] /\ \A i \in 1 .. r : ~Says(i, m)
    <3>1. About1(m) = {}
      BY <2>2, <2>4
    <3>2. m \notin About({i \in 1 .. r : fromDevice[i].kind = "monitor"})
      BY <2>4 DEF About, Says
    <3>3. m \notin doubtful
      BY <1>3, <3>2
    <3> QED
      BY <1>2, <2>4, <3>1, <3>3 DEF Follows
  <2> QED
    BY <2>3, <2>4 DEF LastSaid
<1> QED
  BY <1>2, <1>3, LastStays DEF Follows

(* A read of the answer to c, alone.                                       *)
LEMMA FollowsAnswer ==
  ASSUME fromDevice \in Seq(Blocks), 1 \in 1 .. Len(fromDevice),
         fromDevice' = SubSeq(fromDevice, 1 + 1, Len(fromDevice)),
         UNCHANGED <<job, device, shown, doubtful>>, NEW m \in Names, Follows(m),
         NEW c \in Commands, IsAnswer(fromDevice[1]), fromDevice[1].of = c,
         slot' = fromDevice[1].kind, \A d \in Commands : pc'[d] = "woken" <=> d = c,
         \A d \in Commands : pc[d] # "woken"
  PROVE  Follows(m)'
<1>1. DOMAIN fromDevice = 1 .. Len(fromDevice) /\ fromDevice[1].kind # "monitor"
  BY LenProperties DEF IsAnswer
<1>2. ASSUME About1(m)' = {} PROVE \A i \in About1(m) : i = 1
  <2>1. ASSUME NEW i \in About1(m) PROVE i = 1
    <3>1. i \in 1 .. Len(fromDevice)
      BY <1>1 DEF About1
    <3>2. ~(1 < i)
      BY <1>2, LastStays
    <3> QED
      BY <3>1, <3>2
  <2> QED
    BY <2>1
<1>3. ASSUME About1(m)' = {}, NEW d \in Taking(m)' PROVE job'[d].value = device'[m]
  <2>1. d = c /\ fromDevice[1].kind = "ACK" /\ job[c].of = m
    BY <1>3 DEF Taking
  <2>2. 1 \in About1(m)
    BY <1>1, <2>1 DEF About1, Tells
  <2>3. Told(fromDevice[1]) = device[m]
    BY <1>2, <1>3, <2>2 DEF Follows
  <2> QED
    BY <1>1, <2>1, <2>3 DEF Told
<1>4. ASSUME m \notin doubtful', About1(m)' = {}, Taking(m)' = {}
      PROVE  shown'[m] = device'[m]
  <2>1. ~(fromDevice[1].kind = "ACK" /\ job[c].of = m)
    BY <1>4 DEF Taking
  <2>2. 1 \notin About1(m)
    BY <1>1, <2>1 DEF About1, Tells
  <2>3. About1(m) = {}
    BY <1>2, <1>4, <2>2
  <2>4. Taking(m) = {}
    BY DEF Taking
  <2> QED
    BY <1>4, <2>3, <2>4 DEF Follows
<1>5. \A i \in About1(m)' :
        (\A j \in About1(m)' : j <= i) => Told(fromDevice[i])' = device'[m]
  BY LastStays
<1> QED
  BY <1>3, <1>4, <1>5 DEF Follows

(* What is left of the prelude is left of it behind the read.              *)
LEMMA PreludeShift ==
  ASSUME fromDevice \in Seq(Blocks), NEW n \in 1 .. Len(fromDevice),
         fromDevice' = SubSeq(fromDevice, n + 1, Len(fromDevice)),
         Begins(monitors'), PreludeComes(n, section', monitors')
  PROVE  PreludeComes(0, section, monitors)'
<1> DEFINE h == Heads(section')
           k == Reached(monitors')
           L == Len(fromDevice)
<1>1. /\ n \in Nat /\ L \in Nat /\ Len(fromDevice') = L - n
      /\ \A i \in DOMAIN fromDevice' :
           /\ i \in Nat \ {0} /\ n + i \in DOMAIN fromDevice
           /\ fromDevice'[i] = fromDevice[n + i]
      /\ \A j \in DOMAIN fromDevice : n < j =>
           /\ j - n \in DOMAIN fromDevice' /\ n + (j - n) = j
      /\ fromDevice' \in Seq(Blocks)
  BY Rest
<1>2. DOMAIN fromDevice' = 1 .. L - n
  BY <1>1, LenProperties
<1>3. h \in {0, 1} /\ (section' = None => h = 1) /\ k \in Nat /\ k < Len(Monitors) /\ Len(Monitors) \in Nat
  <2>1. Len(Monitors) \in Nat \ {0} /\ Len(monitors') \in 0 .. Len(Monitors)
    BY MonitorsListed, AllOrNext
  <2> QED
    BY <2>1 DEF Heads, Reached, Complete
<1>4. /\ section' = None => n < L /\ fromDevice[n + h].kind = "head" /\ k = 0
      /\ n + h + Len(Monitors) - k <= L
      /\ \A i \in 1 .. Len(Monitors) - k : fromDevice[n + h + i].of = Monitors[k + i]
      /\ \A i \in DOMAIN fromDevice : n + h < i => fromDevice[i].kind = "monitor"
  BY DEF PreludeComes
<1> HIDE DEF h, k, L
<1>5. section' = None => 0 < L - n /\ fromDevice'[0 + h].kind = "head" /\ k = 0
  BY <1>1, <1>2, <1>3, <1>4
<1>6. 0 + h + Len(Monitors) - k <= L - n
  BY <1>1, <1>3, <1>4
<1>7. ASSUME NEW i \in 1 .. Len(Monitors) - k
      PROVE  fromDevice'[0 + h + i].of = Monitors[k + i]
  <2>1. 0 + h + i \in DOMAIN fromDevice' /\ n + (0 + h + i) = n + h + i
    <3>1. i \in Nat \ {0} /\ i <= Len(Monitors) - k
      BY <1>3
    <3>2. n \in Nat /\ L \in Nat /\ h \in Nat
      BY <1>1, <1>3
    <3>3. 0 + h + i \in 1 .. L - n /\ n + (0 + h + i) = n + h + i
      BY ONLY <1>3, <1>6, <3>1, <3>2
    <3> QED
      BY <1>2, <3>3
  <2> QED
    BY <1>1, <1>4, <2>1
<1>8. ASSUME NEW i \in DOMAIN fromDevice', 0 + h < i
      PROVE  fromDevice'[i].kind = "monitor"
  <2>1. n + h < n + i
    <3>1. i \in Nat /\ n \in Nat
      BY <1>1
    <3> QED
      BY ONLY <1>3, <1>8, <3>1
  <2> QED
    BY <1>1, <1>4, <2>1
<1> QED
  BY <1>1, <1>5, <1>6, <1>7, <1>8 DEF PreludeComes, h, k

(* A read of monitors wakes nobody and keeps the order.                    *)
LEMMA ReadOfMonitors ==
  ASSUME Inv, ~overlapped, NEW n \in 1 .. Len(fromDevice), Read(n),
         LET s == Parsed(n) IN
         /\ s.slot = slot /\ s.event = event /\ s.read \in 0 .. n
         /\ \A m \in Names : LastSaid(m, s.read, s.shown[m])
         /\ s.parsed => s.section = None
         /\ ~s.parsed => PreludeComes(n, s.section, s.monitors),
         \A i \in 1 .. Parsed(n).read : ~IsAnswer(fromDevice[i]),
         \A i \in DOMAIN fromDevice : n < i => fromDevice[i].kind # "head",
         parsed => Parsed(n).parsed
  PROVE  InOrder'
<1> DEFINE s == Parsed(n)
<1>1. /\ link # "down" /\ reader = "alive" /\ \A c \in Commands : pc[c] # "woken"
      /\ section' = s.section /\ monitors' = s.monitors /\ shown' = s.shown
      /\ parsed' = s.parsed /\ slot' = s.slot /\ event' = s.event
      /\ link' = IF link = "dialled" /\ s.go # "dead" THEN "heard" ELSE link
      /\ pc' = [c \in Commands |-> IF pc[c] = "waiting" /\ s.event THEN "woken" ELSE pc[c]]
      /\ doubtful' = (doubtful \ About({i \in 1 .. s.read : fromDevice[i].kind = "monitor"}))
                     \cup About(s.read + 1 .. n)
      /\ fromDevice' = SubSeq(fromDevice, n + 1, Len(fromDevice))
      /\ UNCHANGED <<job, device, toDevice, links, changes, overlapped>>
  BY DEF Read, history
<1>2. /\ s.slot = slot /\ s.event = event /\ s.read \in 0 .. n
      /\ \A m \in Names : LastSaid(m, s.read, s.shown[m])
      /\ s.parsed => s.section = None
      /\ ~s.parsed => PreludeComes(n, s.section, s.monitors)
      /\ \A i \in 1 .. s.read : ~IsAnswer(fromDevice[i])
      /\ parsed => s.parsed
  OBVIOUS
<1>3. Begins(s.monitors)
  BY <1>1, ReadTyped
<1> HIDE DEF s
<1>4. fromDevice \in Seq(Blocks) /\ TypeOK /\ InOrder
  BY NowTyped DEF Inv, Always
<1>5. ~event /\ slot = None
  BY <1>1, SlotFree
<1>6. \A c \in Commands : pc'[c] = pc[c]
  BY <1>1, <1>2, <1>5
<1>7. /\ n \in Nat
      /\ \A i \in DOMAIN fromDevice' :
           /\ i \in Nat \ {0} /\ n + i \in DOMAIN fromDevice
           /\ fromDevice'[i] = fromDevice[n + i]
  BY <1>1, <1>4, Rest
<1>8. OneActive'
  <2>1. \A c \in Commands : c \in Active' <=> c \in Active
    BY <1>6 DEF Active
  <2>2. Active' \subseteq Commands
    BY DEF Active
  <2> QED
    BY <1>4, <2>1, <2>2 DEF InOrder, OneActive
<1>9. SlotIsTaken'
  BY <1>1, <1>2, <1>5, <1>6 DEF SlotIsTaken
<1>10. OneExchange'
  <2>1. \A i \in DOMAIN toDevice : toDevice[i] \in Commands
    BY <1>4, LenProperties, ElementOfSeq DEF TypeOK
  <2>2. \A i \in DOMAIN fromDevice : IsAnswer(fromDevice[i]) => fromDevice[i].of \in Commands
    BY <1>4, LenProperties, ElementOfSeq, BlockKinds
  <2>3. \A i \in DOMAIN toDevice' : pc'[toDevice'[i]] = "waiting"
    BY <1>1, <1>4, <1>6, <2>1 DEF InOrder, OneExchange
  <2>4. \A i \in DOMAIN fromDevice' : IsAnswer(fromDevice'[i]) =>
          pc'[fromDevice'[i].of] = "waiting" /\ toDevice' = <<>>
    BY <1>1, <1>4, <1>6, <1>7, <2>2 DEF InOrder, OneExchange
  <2>5. \A i, j \in DOMAIN fromDevice' :
          IsAnswer(fromDevice'[i]) /\ IsAnswer(fromDevice'[j]) => i = j
    <3>1. ASSUME NEW i \in DOMAIN fromDevice', NEW j \in DOMAIN fromDevice',
                 IsAnswer(fromDevice'[i]), IsAnswer(fromDevice'[j])
          PROVE  i = j
      <4>1. n + i = n + j
        BY <1>4, <1>7, <3>1 DEF InOrder, OneExchange
      <4>2. i \in Nat /\ j \in Nat /\ n \in Nat
        BY <1>7
      <4> QED
        BY ONLY <4>1, <4>2
    <3> QED
      BY <3>1
  <2>6. Len(toDevice') <= 1
    BY <1>1, <1>4 DEF InOrder, OneExchange
  <2> QED
    BY <2>3, <2>4, <2>5, <2>6 DEF OneExchange, IsAnswer
<1>11. SectionClosed'
  <2>1. \A i \in DOMAIN fromDevice' : fromDevice'[i].kind # "head"
    <3>1. \A i \in DOMAIN fromDevice' : n < n + i
      BY <1>7
    <3> QED
      BY <1>7, <3>1
  <2>2. link' = "up" => parsed'
    BY <1>1, <1>2, <1>4 DEF InOrder, SectionClosed
  <2>3. link' # "down"
    BY <1>1
  <2> QED
    BY <1>1, <1>2, <2>1, <2>2, <2>3 DEF SectionClosed
<1>12. PreludePending'
  <2>1. ASSUME ~parsed' PROVE PreludeComes(0, section, monitors)'
    <3>1. Begins(monitors') /\ PreludeComes(n, section', monitors')
      BY <1>1, <1>2, <1>3, <2>1
    <3> QED
      BY <1>1, <1>4, <3>1, PreludeShift
  <2> QED
    BY <2>1 DEF PreludePending
<1>13. MonitorsFollow'
  <2>1. ASSUME NEW m \in Names PROVE Follows(m)'
    <3>1. Follows(m)
      BY <1>1, <1>4 DEF InOrder, MonitorsFollow
    <3>2. LastSaid(m, s.read, shown'[m])
      BY <1>1, <1>2
    <3>3. \A c \in Commands : pc[c] # "woken" /\ pc'[c] # "woken"
      BY <1>1, <1>6
    <3> QED
      BY <1>1, <1>2, <1>4, <3>1, <3>2, <3>3, FollowsMonitors
  <2> QED
    BY <2>1 DEF MonitorsFollow
<1> QED
  BY <1>8, <1>9, <1>10, <1>11, <1>12, <1>13 DEF InOrder

(* A read of an answer wakes the command that waits for it, and ends the   *)
(* read loop when it is not alone.                                         *)
LEMMA ReadOfAnswer ==
  ASSUME Inv, ~overlapped, parsed, NEW n \in 1 .. Len(fromDevice), Read(n),
         IsAnswer(fromDevice[1]),
         Parsed(n) = [go |-> IF n = 1 THEN "stop" ELSE "dead", read |-> 1,
                      section |-> None, monitors |-> monitors, shown |-> shown,
                      parsed |-> TRUE, slot |-> fromDevice[1].kind, event |-> TRUE]
  PROVE  InOrder'
<1> DEFINE b == fromDevice[1]
           c == b.of
<1>1. /\ link # "down" /\ reader = "alive" /\ \A d \in Commands : pc[d] # "woken"
      /\ section' = None /\ monitors' = monitors /\ shown' = shown
      /\ parsed' = TRUE /\ slot' = b.kind /\ event' = TRUE
      /\ reader' = IF n = 1 THEN reader ELSE "dead"
      /\ link' = IF link = "dialled" /\ n = 1 THEN "heard" ELSE link
      /\ pc' = [d \in Commands |-> IF pc[d] = "waiting" THEN "woken" ELSE pc[d]]
      /\ doubtful' = (doubtful \ About({i \in 1 .. 1 : fromDevice[i].kind = "monitor"}))
                     \cup About(1 + 1 .. n)
      /\ fromDevice' = SubSeq(fromDevice, n + 1, Len(fromDevice))
      /\ UNCHANGED <<job, device, toDevice, links, changes, overlapped>>
  BY DEF Read, history
<1>2. fromDevice \in Seq(Blocks) /\ TypeOK /\ InOrder /\ NoneUnderWay
  BY NowTyped DEF Inv, Always
<1>3. /\ n \in Nat /\ n >= 1 /\ 1 \in DOMAIN fromDevice
      /\ \A i \in DOMAIN fromDevice' :
           /\ i \in Nat \ {0} /\ n + i \in DOMAIN fromDevice
           /\ fromDevice'[i] = fromDevice[n + i]
  <2>1. /\ n \in Nat /\ DOMAIN fromDevice = 1 .. Len(fromDevice)
        /\ \A i \in DOMAIN fromDevice' :
             /\ i \in Nat \ {0} /\ n + i \in DOMAIN fromDevice
             /\ fromDevice'[i] = fromDevice[n + i]
    BY <1>1, <1>2, Rest
  <2>2. n >= 1 /\ 1 \in 1 .. Len(fromDevice)
    BY <1>2, <2>1, LenProperties
  <2> QED
    BY <2>1, <2>2
<1>4. c \in Commands /\ pc[c] = "waiting" /\ toDevice = <<>> /\ link = "up"
  <2>1. b \in Blocks
    BY <1>2, <1>3, LenProperties, ElementOfSeq
  <2>2. c \in Commands
    BY <2>1, BlockKinds
  <2>3. pc[c] = "waiting" /\ toDevice = <<>>
    BY <1>2, <1>3 DEF InOrder, OneExchange
  <2>4. link = "up"
    BY <1>2, <1>3 DEF NoneUnderWay
  <2> QED
    BY <2>2, <2>3, <2>4
<1> HIDE DEF c
<1>5. \A d \in Commands : /\ pc[d] = "waiting" <=> d = c
                          /\ pc'[d] = "woken" <=> d = c
                          /\ pc'[d] # "waiting"
  <2>1. \A d \in Commands : pc[d] = "waiting" => d = c
    BY <1>2, <1>4 DEF InOrder, OneActive, Active
  <2> QED
    BY <1>1, <1>4, <2>1
<1>6. \A i \in DOMAIN fromDevice' : ~IsAnswer(fromDevice'[i])
  <2>1. \A i \in DOMAIN fromDevice : IsAnswer(fromDevice[i]) => i = 1
    BY <1>2, <1>3 DEF InOrder, OneExchange
  <2>2. \A i \in DOMAIN fromDevice' : n + i # 1
    BY <1>3
  <2> QED
    BY <1>3, <2>1, <2>2
<1>7. OneActive'
  BY <1>5 DEF OneActive, Active
<1>8. SlotIsTaken'
  <2>1. b.kind # None
    BY ConstantsAssumption DEF IsAnswer
  <2> QED
    BY <1>1, <1>4, <1>5, <2>1 DEF SlotIsTaken
<1>9. OneExchange'
  <2>1. toDevice' = <<>> /\ DOMAIN toDevice' = {} /\ Len(toDevice') = 0
    BY <1>1, <1>4, EmptySeq
  <2> QED
    BY <1>6, <2>1 DEF OneExchange, IsAnswer
<1>10. SectionClosed'
  BY <1>1, <1>2, <1>3, <1>4 DEF InOrder, SectionClosed
<1>11. PreludePending'
  BY <1>1 DEF PreludePending
<1>12. MonitorsFollow'
  <2>1. ASSUME reader' = "alive", NEW m \in Names PROVE Follows(m)'
    <3>1. n = 1
      BY <1>1, <2>1
    <3>2. doubtful' = doubtful
      <4>1. {i \in 1 .. 1 : fromDevice[i].kind = "monitor"} = {} /\ 1 + 1 .. n = {}
        BY <3>1 DEF IsAnswer
      <4>2. About({}) = {}
        BY DEF About
      <4> QED
        BY <1>1, <4>1, <4>2
    <3>3. Follows(m)
      BY <1>1, <1>2 DEF InOrder, MonitorsFollow
    <3>4. fromDevice' = SubSeq(fromDevice, 1 + 1, Len(fromDevice))
      BY <1>1, <3>1
    <3>5. 1 \in 1 .. Len(fromDevice) /\ fromDevice[1].of = c /\ slot' = fromDevice[1].kind
      BY <1>1, <3>1 DEF c
    <3>6. \A d \in Commands : pc'[d] = "woken" <=> d = c
      BY <1>5
    <3>7. \A d \in Commands : pc[d] # "woken"
      BY <1>1
    <3> QED
      BY <1>1, <1>2, <1>4, <3>2, <3>3, <3>4, <3>5, <3>6, <3>7, FollowsAnswer
  <2> QED
    BY <2>1 DEF MonitorsFollow
<1> QED
  BY <1>7, <1>8, <1>9, <1>10, <1>11, <1>12 DEF InOrder

(* One read of the loop keeps the invariant.                               *)
LEMMA ReadInv ==
  ASSUME Inv, NEW n \in 1 .. Len(fromDevice), Read(n)
  PROVE  Inv'
<1> DEFINE s == Parsed(n)
<1>1. Always'
  BY ReadAlways
<1>2. /\ TypeOK /\ Begins(monitors) /\ KnownFirst /\ link # "down" /\ overlapped' = overlapped
      /\ NoneUnderWay
  BY DEF Inv, Always, Read, history
<1>3. /\ fromDevice \in Seq(Blocks) /\ n \in Nat /\ n >= 1
      /\ DOMAIN fromDevice = 1 .. Len(fromDevice) /\ Len(fromDevice) \in Nat
  <2>1. fromDevice \in Seq(Blocks)
    BY <1>2, NowTyped
  <2>2. DOMAIN fromDevice = 1 .. Len(fromDevice) /\ Len(fromDevice) \in Nat
    BY <2>1, LenProperties
  <2> QED
    BY <2>1, <2>2
<1>4. ASSUME ~overlapped PROVE InOrder'
  <2>1. InOrder
    BY <1>4 DEF Inv
  <2>2. CASE parsed
    <3>1. /\ Complete(monitors) /\ section = None
          /\ \A i \in DOMAIN fromDevice : fromDevice[i].kind # "head"
      BY <1>2, <2>1, <2>2 DEF KnownFirst, InOrder, SectionClosed
    <3> DEFINE b == fromDevice[1]
    <3>2. b.kind # "head"
      BY <1>3, <3>1
    <3>3. \/ /\ b.kind = "monitor" /\ b.of \in Names /\ b.value \in Values
             /\ s = [go |-> "stop", read |-> 1, section |-> None,
                  monitors |-> monitors, shown |-> [shown EXCEPT ![b.of] = b.value],
                  parsed |-> TRUE, slot |-> slot, event |-> event]
          \/ /\ IsAnswer(b) /\ b.of \in Commands
             /\ s = [go |-> IF n = 1 THEN "stop" ELSE "dead", read |-> 1,
                  section |-> None, monitors |-> monitors, shown |-> shown,
                  parsed |-> TRUE, slot |-> b.kind, event |-> TRUE]
      BY <1>2, <2>2, <3>1, <3>2, ParseOfOne
    <3>4. CASE IsAnswer(b)
      <4>1. b.kind # "monitor"
        BY <3>4 DEF IsAnswer
      <4> QED
        BY <1>4, <2>2, <3>3, <3>4, <4>1, ReadOfAnswer
    <3>5. CASE ~IsAnswer(b)
      <4>1. /\ b.kind = "monitor" /\ b.of \in Names /\ b.value \in Values
            /\ s = [go |-> "stop", read |-> 1, section |-> None,
                 monitors |-> monitors, shown |-> [shown EXCEPT ![b.of] = b.value],
                 parsed |-> TRUE, slot |-> slot, event |-> event]
        BY <3>3, <3>5
      <4> HIDE DEF s
      <4>2. /\ s.slot = slot /\ s.event = event /\ s.read = 1 /\ s.section = None /\ s.parsed
            /\ s.shown = [shown EXCEPT ![b.of] = b.value]
        BY <4>1
      <4>3. \A m \in Names : LastSaid(m, 1, s.shown[m])
        <5>1. ASSUME NEW m \in Names PROVE LastSaid(m, 1, s.shown[m])
          <6>1. CASE b.of = m
            <7>1. s.shown[m] = b.value /\ Says(1, m)
              BY <1>2, <4>1, <4>2, <6>1 DEF TypeOK, Says
            <7> QED
              BY <7>1 DEF LastSaid
          <6>2. CASE b.of # m
            <7>1. s.shown[m] = shown[m] /\ ~Says(1, m)
              BY <1>2, <4>1, <4>2, <6>2 DEF TypeOK, Says
            <7> QED
              BY <7>1 DEF LastSaid
          <6> QED
            BY <6>1, <6>2
        <5> QED
          BY <5>1
      <4>4. \A i \in 1 .. s.read : ~IsAnswer(fromDevice[i])
        BY <3>5, <4>2
      <4>5. s.read \in 0 .. n
        BY <1>3, <4>2
      <4> QED
        BY <1>4, <3>1, <4>2, <4>3, <4>4, <4>5, ReadOfMonitors DEF s
    <3> QED
      BY <3>4, <3>5
  <2>3. CASE ~parsed
    <3>1. PreludeComes(0, section, monitors)
      BY <1>2, <2>1, <2>3 DEF InOrder, PreludePending
    <3>2. Midway(s, n)
      BY <1>2, <2>3, <3>1, ParseOfPrelude
    <3>3. link # "up"
      BY <2>1, <2>3 DEF InOrder, SectionClosed
    <3>4. \A i \in DOMAIN fromDevice : ~IsAnswer(fromDevice[i])
      BY <1>2, <3>3 DEF NoneUnderWay
    <3>5. \A i \in DOMAIN fromDevice : n < i => fromDevice[i].kind # "head"
      <4>1. Heads(section) \in {0, 1}
        BY DEF Heads
      <4>2. \A i \in DOMAIN fromDevice : n < i => 0 + Heads(section) < i
        BY <1>3, <4>1
      <4> QED
        BY <3>1, <4>2 DEF PreludeComes
    <3> HIDE DEF s
    <3>6. /\ s.slot = slot /\ s.event = event /\ s.read \in 0 .. n
          /\ \A m \in Names : LastSaid(m, s.read, s.shown[m])
          /\ s.parsed => s.section = None
          /\ ~s.parsed => PreludeComes(n, s.section, s.monitors)
      BY <3>2 DEF Midway
    <3>7. \A i \in 1 .. s.read : i \in DOMAIN fromDevice
      BY <1>3, <3>6
    <3> QED
      BY <1>4, <2>3, <3>4, <3>5, <3>6, <3>7, ReadOfMonitors DEF s
  <2> QED
    BY <2>2, <2>3
<1> QED
  BY <1>1, <1>2, <1>4 DEF Inv

-----------------------------------------------------------------------------
(* The theorems.                                                           *)

(* Nothing happens.                                                        *)
LEMMA StutterInv ==
  ASSUME Inv, UNCHANGED vars
  PROVE  Inv'
<1> USE DEF vars
<1>1. Always'
  <2>1. TypeOK' /\ Begins(monitors)' /\ JobsGiven'
    BY DEF Inv, Always, TypeOK, Begins, JobsGiven, IsAnswer
  <2>2. KnownFirst' /\ NoneUnderWay'
    BY DEF Inv, Always, KnownFirst, Complete, NoneUnderWay, Active, IsAnswer
  <2> QED
    BY <2>1, <2>2 DEF Always
<1>2. ASSUME ~overlapped' PROVE InOrder'
  <2>1. InOrder
    BY <1>2 DEF Inv
  <2>2. OneActive' /\ SlotIsTaken' /\ OneExchange'
    BY <2>1 DEF InOrder, OneActive, Active, SlotIsTaken, OneExchange, IsAnswer
  <2>3. SectionClosed' /\ PreludePending'
    BY <2>1 DEF InOrder, SectionClosed, PreludePending, PreludeComes, Complete
  <2>4. MonitorsFollow'
    <3>1. ASSUME NEW m \in Names, Follows(m) PROVE Follows(m)'
      BY <3>1 DEF Follows, About1, Tells, Told, Taking
    <3> QED
      BY <2>1, <3>1 DEF InOrder, MonitorsFollow
  <2> QED
    BY <2>2, <2>3, <2>4 DEF InOrder
<1> QED
  BY <1>1, <1>2 DEF Inv

(* Every step keeps the invariant.                                         *)
LEMMA NextInv == Inv /\ [Next]_vars => Inv'
<1> SUFFICES ASSUME Inv, [Next]_vars PROVE Inv'
  OBVIOUS
<1>1. CASE Connect
  BY <1>1, ConnectInv
<1>2. CASE Established
  BY <1>2, EstablishedInv
<1>3. CASE Disconnect
  BY <1>3, DisconnectInv
<1>4. CASE \E n \in 1 .. Len(fromDevice) : Read(n)
  BY <1>4, ReadInv
<1>5. CASE \E c \in Commands : Send(c) \/ Resume(c)
  BY <1>5, SendInv, ResumeInv
<1>6. CASE \E c \in Commands, m \in Names, v \in Values : SetProperty(c, m, v) \/ Assign(c, m, v)
  <2>1. PICK c \in Commands, m \in Names, v \in Values : SetProperty(c, m, v) \/ Assign(c, m, v)
    BY <1>6
  <2>2. m \in Range(monitors)
    BY <2>1 DEF SetProperty, Assign
  <2> QED
    BY <2>1, <2>2, CreateInv
<1>7. CASE DeviceAnswers
  BY <1>7, DeviceAnswersInv
<1>8. CASE \E m \in Names, v \in Values : OtherController(m, v)
  BY <1>8, OtherControllerInv
<1>9. CASE UNCHANGED vars
  BY <1>9, StutterInv
<1> QED
  BY <1>1, <1>2, <1>3, <1>4, <1>5, <1>6, <1>7, <1>8, <1>9 DEF Next

(* The inductive invariant holds in every reachable state.                 *)
THEOREM Invariance == Spec => []Inv
<1>1. Init => Inv
  BY InitInv
<1>2. Inv /\ [Next]_vars => Inv'
  BY NextInv
<1> QED
  BY <1>1, <1>2, PTL DEF Spec

(* Every variable keeps its type, and the monitors known are the first of  *)
(* the device, in its order and once each, whatever overlaps.              *)
THEOREM TypeCorrect == Spec => []TypeOK
<1>1. Inv => TypeOK
  BY DEF Inv, Always
<1> QED
  BY <1>1, Invariance, PTL

(* Once everything has been read, if commands never overlapped and the     *)
(* reader lives, all the monitors are known, and each that is not doubtful *)
(* shows what the device has.  Doubtful is a monitor of which a block, or  *)
(* the answer to a command, was dropped behind the end of a parse, one     *)
(* that a value was assigned to which the device refused or has not        *)
(* answered, and one whose command was lost with the link, until its next  *)
(* block is parsed or command accepted.  That holds for any number of      *)
(* monitors, commands and other changes, and wherever reads cut.           *)
THEOREM MonitorsAreShown == Spec => []ShowsTheMonitors
<1>1. Inv => ShowsTheMonitors
  <2> SUFFICES ASSUME Inv, link = "up", reader = "alive", ~overlapped, toDevice = <<>>,
                      fromDevice = <<>>, \A c \in Commands : pc[c] # "woken"
               PROVE  /\ Complete(monitors)
                      /\ \A m \in Names \ doubtful : shown[m] = device[m]
    BY DEF ShowsTheMonitors
  <2>1. Complete(monitors)
    BY DEF Inv, Always, KnownFirst
  <2>2. ASSUME NEW m \in Names \ doubtful PROVE shown[m] = device[m]
    <3>1. Follows(m)
      BY DEF Inv, InOrder, MonitorsFollow
    <3>2. Taking(m) = {}
      BY DEF Taking
    <3>3. About1(m) = {}
      <4>1. fromDevice \in Seq(Blocks) /\ Len(fromDevice) = 0
        BY EmptySeq
      <4>2. DOMAIN fromDevice = 1 .. 0
        BY <4>1, LenProperties
      <4> QED
        BY <4>2 DEF About1
    <3> QED
      BY <3>1, <3>2, <3>3 DEF Follows
  <2> QED
    BY <2>1, <2>2
<1> QED
  BY <1>1, Invariance, PTL
=============================================================================
