--------------------------- MODULE ManagerProofs ---------------------------
(***************************************************************************)
(* Theorems about ConnectionManager for any number of setters and waiters, *)
(* and about SyncronizedManager for any number of sources, callers and     *)
(* notifications.                                                          *)
(*                                                                         *)
(* ConnectionManager: NoLostWakeup, OwnerHolds and ResumesSatisfied only   *)
(* hold together: a task falls asleep on a state it has examined because   *)
(* whoever holds the lock keeps every other task from changing it, and     *)
(* that the holder is the one who will release it follows from the same    *)
(* facts one step earlier.  Inv adds the state of a task that has examined *)
(* the predicate, holds the lock and does not sleep yet ("handoff").       *)
(*                                                                         *)
(* SyncronizedManager: it follows its source, nothing stale gets in, and   *)
(* the two lock orders never block each other.  All of it rests on the     *)
(* instance lock: at most one task is inside, it is the only one of this   *)
(* manager's that holds another lock, and other does not change under it.  *)
(* So a task that goes on has the source it copies, and what it gives up   *)
(* leaves no lock behind.                                                  *)
(***************************************************************************)
EXTENDS ConnectionManager, SyncronizedManager, SequenceTheorems, TLAPS

QueuedTasks == {t \in Tasks : pc[t] \in Queued}

(* A queue that holds exactly the tasks of W, each once.                   *)
Holds(q, W) ==
  /\ q \in Seq(Tasks)
  /\ \A t \in Tasks : t \in W <=> \E i \in 1..Len(q) : q[i] = t
  /\ \A i, j \in 1..Len(q) : q[i] = q[j] => i = j

(* What each waiter knows about the lock and the state.                    *)
WaiterInv(w) ==
  /\ pc[w] \in Holding <=> owner = w
  /\ pc[w] \in {"asleep", "handoff"} => ~Matches(w)
  /\ pc[w] = "resume" => Matches(w) \/ want[w] = NextChange

OwnerIsWaiter == owner \in Waiters \cup {NoTask}

Inv == /\ TypeOK
       /\ ManagerWellFormed
       /\ OwnerIsWaiter
       /\ Holds(queue, QueuedTasks)
       /\ \A w \in Waiters : WaiterInv(w)

-----------------------------------------------------------------------------
(* The queue of the lock.                                                  *)

LEMMA TailHolds ==
  ASSUME NEW q, NEW W, Holds(q, W), q # <<>>
  PROVE  Holds(Tail(q), W \ {Head(q)})
<1>1. /\ Head(q) = q[1] /\ Head(q) \in Tasks
      /\ Tail(q) \in Seq(Tasks)
      /\ Len(Tail(q)) = Len(q) - 1
      /\ \A i \in 1..Len(Tail(q)) : Tail(q)[i] = q[i + 1]
  BY HeadTailProperties DEF Holds
<1>2. Len(q) \in Nat /\ Len(q) > 0
  BY EmptySeq DEF Holds
<1>3. ASSUME NEW i \in 1..Len(Tail(q)), NEW j \in 1..Len(Tail(q)),
             Tail(q)[i] = Tail(q)[j]
      PROVE  i = j
  <2>1. q[i + 1] = q[j + 1] /\ i + 1 \in 1..Len(q) /\ j + 1 \in 1..Len(q)
    BY <1>1, <1>2, <1>3
  <2> QED
    BY <2>1 DEF Holds
<1>4. ASSUME NEW t \in Tasks
      PROVE  t \in W \ {Head(q)} <=> \E i \in 1..Len(Tail(q)) : Tail(q)[i] = t
  <2>1. ASSUME NEW i \in 1..Len(Tail(q)), Tail(q)[i] = t
        PROVE  t \in W \ {Head(q)}
    <3>1. i + 1 \in 1..Len(q) /\ q[i + 1] = t /\ i + 1 # 1 /\ 1 \in 1..Len(q)
      BY <1>1, <1>2, <2>1
    <3> QED
      BY <1>1, <3>1 DEF Holds
  <2>2. ASSUME t \in W, t # Head(q)
        PROVE  \E i \in 1..Len(Tail(q)) : Tail(q)[i] = t
    <3>1. PICK j \in 1..Len(q) : q[j] = t
      BY <2>2 DEF Holds
    <3>2. j # 1
      BY <1>1, <2>2, <3>1
    <3>3. j - 1 \in 1..Len(Tail(q)) /\ (j - 1) + 1 = j
      BY <1>1, <1>2, <3>2
    <3> QED
      BY <1>1, <3>1, <3>3
  <2> QED
    BY <2>1, <2>2
<1> QED
  BY <1>1, <1>3, <1>4 DEF Holds

LEMMA AppendHolds ==
  ASSUME NEW q, NEW W, Holds(q, W), NEW t \in Tasks, t \notin W
  PROVE  Holds(Append(q, t), W \cup {t})
<1>1. /\ Append(q, t) \in Seq(Tasks)
      /\ Len(Append(q, t)) = Len(q) + 1
      /\ \A i \in 1..Len(q) : Append(q, t)[i] = q[i]
      /\ Append(q, t)[Len(q) + 1] = t
  BY AppendProperties DEF Holds
<1>2. Len(q) \in Nat
  BY EmptySeq DEF Holds
<1>3. \A i \in 1..Len(Append(q, t)) : i \in 1..Len(q) \/ i = Len(q) + 1
  BY <1>1, <1>2
<1>4. \A i \in 1..Len(q) : q[i] # t
  BY DEF Holds
<1>5. ASSUME NEW i \in 1..Len(Append(q, t)), NEW j \in 1..Len(Append(q, t)),
             Append(q, t)[i] = Append(q, t)[j]
      PROVE  i = j
  BY <1>1, <1>3, <1>4, <1>5 DEF Holds
<1>6. ASSUME NEW u \in Tasks
      PROVE  u \in W \cup {t}
               <=> \E i \in 1..Len(Append(q, t)) : Append(q, t)[i] = u
  <2>1. Len(q) + 1 \in 1..Len(Append(q, t)) /\ 1..Len(q) \subseteq 1..Len(Append(q, t))
    BY <1>1, <1>2
  <2> QED
    BY <1>1, <1>3, <2>1 DEF Holds
<1> QED
  BY <1>1, <1>5, <1>6 DEF Holds

LEMMA WithoutHolds ==
  ASSUME NEW W, Holds(queue, W), NEW t \in Tasks, t \in W
  PROVE  Holds(Without(t), W \ {t})
<1> DEFINE n == Len(queue)
           k == CHOOSE i \in DOMAIN queue : queue[i] = t
           r == Without(t)
<1>1. DOMAIN queue = 1..n /\ n \in Nat /\ queue \in [1..n -> Tasks]
  BY LenProperties DEF Holds
<1>2. k \in 1..n /\ queue[k] = t
  BY <1>1 DEF Holds
<1>3. r = [i \in 1..(n - 1) |-> queue[IF i < k THEN i ELSE i + 1]]
  BY DEF Without
<1> HIDE DEF k, r
<1>4. \A i \in 1..(n - 1) : /\ (IF i < k THEN i ELSE i + 1) \in 1..n
                            /\ (IF i < k THEN i ELSE i + 1) # k
  BY <1>1, <1>2
<1>5. r \in [1..(n - 1) -> Tasks]
  BY <1>1, <1>3, <1>4
<1>6. r \in Seq(Tasks) /\ Len(r) = n - 1
  <2>1. n - 1 \in Nat
    BY <1>1, <1>2
  <2> QED
    BY <1>5, <2>1, IsASeq, LenProperties
<1>7. ASSUME NEW i \in 1..Len(r), NEW j \in 1..Len(r), r[i] = r[j]
      PROVE  i = j
  <2>1. queue[IF i < k THEN i ELSE i + 1] = queue[IF j < k THEN j ELSE j + 1]
    BY <1>3, <1>6, <1>7
  <2>2. (IF i < k THEN i ELSE i + 1) = (IF j < k THEN j ELSE j + 1)
    BY <1>4, <1>6, <2>1 DEF Holds
  <2> QED
    BY <1>1, <1>2, <1>6, <2>2
<1>8. ASSUME NEW u \in Tasks
      PROVE  u \in W \ {t} <=> \E i \in 1..Len(r) : r[i] = u
  <2>1. ASSUME NEW i \in 1..Len(r), r[i] = u
        PROVE  u \in W \ {t}
    <3>1. PICK j \in 1..n : j # k /\ queue[j] = u
      BY <1>3, <1>4, <1>6, <2>1
    <3> QED
      BY <1>2, <3>1 DEF Holds
  <2>2. ASSUME u \in W, u # t
        PROVE  \E i \in 1..Len(r) : r[i] = u
    <3>1. PICK j \in 1..n : queue[j] = u
      BY <2>2 DEF Holds
    <3>2. j # k
      BY <1>2, <2>2, <3>1
    <3>3. CASE j < k
      <4>1. j \in 1..(n - 1)
        BY <1>1, <1>2, <3>3
      <4> QED
        BY <1>3, <1>6, <3>1, <3>3, <4>1
    <3>4. CASE j > k
      <4>1. j - 1 \in 1..(n - 1) /\ ~(j - 1 < k) /\ (j - 1) + 1 = j
        BY <1>1, <1>2, <3>4
      <4> QED
        BY <1>3, <1>6, <3>1, <4>1
    <3> QED
      BY <1>1, <1>2, <3>2, <3>3, <3>4
  <2> QED
    BY <2>1, <2>2
<1>9. Holds(r, W \ {t})
  BY <1>6, <1>7, <1>8 DEF Holds
<1> QED
  BY <1>9 DEF r
LEMMA QueuedTasksMove ==
  ASSUME TypeOK, NEW t \in Tasks, NEW place, pc' = [pc EXCEPT ![t] = place]
  PROVE  QueuedTasks' = IF place \in Queued THEN QueuedTasks \cup {t}
                                            ELSE QueuedTasks \ {t}
<1>1. \A u \in Tasks : pc'[u] = IF u = t THEN place ELSE pc[u]
  BY DEF TypeOK
<1> QED
  BY <1>1 DEF QueuedTasks

(* Who has its turn leaves the queue, if it was in it.                     *)
LEMMA TurnHolds ==
  ASSUME TypeOK, Holds(queue, QueuedTasks), NEW t \in Tasks, HasTurn(t),
         LeaveQueue, QueuedTasks' = QueuedTasks \ {t}
  PROVE  Holds(queue', QueuedTasks')
<1>1. CASE queue = <<>>
  <2>1. queue' = queue
    BY <1>1 DEF LeaveQueue
  <2>2. QueuedTasks \ {t} = QueuedTasks
    <3>1. Len(queue) = 0
      BY <1>1
    <3>2. ~ \E i \in 1..Len(queue) : queue[i] = t
      BY <3>1
    <3> QED
      BY <3>2 DEF Holds
  <2> QED
    BY <2>1, <2>2
<1>2. CASE queue # <<>>
  <2>1. Head(queue) \in Tasks
    BY <1>2, HeadTailProperties DEF Holds
  <2>2. Head(queue) = t
    BY <1>2, <2>1, ConstantsAssumption DEF HasTurn, First, ConstantsAssumption
  <2>3. queue' = Tail(queue)
    BY <1>2 DEF LeaveQueue
  <2> QED
    BY <1>2, <2>2, <2>3, TailHolds
<1> QED
  BY <1>1, <1>2

-----------------------------------------------------------------------------
(* One task moves and the manager stays as it is.                          *)
LEMMA MoveKeeps ==
  ASSUME Inv, NEW t \in Tasks, NEW place \in Places,
         t \in Setters => place \in {"idle", "entering"},
         pc' = [pc EXCEPT ![t] = place],
         mgr' = mgr,
         want' \in [Waiters -> Wants \cup {NextChange}],
         \A w \in Waiters : w # t => want'[w] = want[w],
         owner' = IF place \in Holding THEN t
                  ELSE IF pc[t] \in Holding THEN NoTask ELSE owner,
         place \in Holding => owner \in {NoTask, t},
         t \in Waiters /\ place \in {"asleep", "handoff"} => ~Matches(t)',
         t \in Waiters /\ place = "resume" => Matches(t)' \/ want'[t] = NextChange,
         Holds(queue', QueuedTasks')
  PROVE  Inv'
<1>1. /\ pc' \in [Tasks -> Places]
      /\ \A u \in Tasks : pc'[u] = IF u = t THEN place ELSE pc[u]
  BY DEF Inv, TypeOK
<1>2. t \in Waiters \/ t \in Setters
  BY DEF Tasks
<1>3. {"idle", "entering"} \cap Holding = {}
  BY DEF Holding
<1>4. owner' \in Waiters \cup {NoTask}
  BY <1>2, <1>3 DEF Inv, OwnerIsWaiter
<1>5. TypeOK'
  BY <1>1, <1>4 DEF Inv, TypeOK, Holds, Tasks
<1>6. ManagerWellFormed'
  BY DEF Inv, ManagerWellFormed
<1>7. ASSUME NEW w \in Waiters PROVE WaiterInv(w)'
  <2>1. w \in Tasks /\ w # NoTask
    BY ConstantsAssumption DEF ConstantsAssumption, Tasks
  <2>2. WaiterInv(w)
    BY DEF Inv
  <2>3. CASE w = t
    <3>1. pc'[w] = place
      BY <1>1, <2>1, <2>3
    <3>2. pc'[w] \in Holding <=> owner' = w
      BY <2>1, <2>2, <2>3, <3>1 DEF WaiterInv
    <3> QED
      BY <2>3, <3>1, <3>2 DEF WaiterInv
  <2>4. CASE w # t
    <3>1. pc'[w] = pc[w] /\ want'[w] = want[w]
      BY <1>1, <2>1, <2>4
    <3>2. Matches(w)' <=> Matches(w)
      BY <3>1 DEF Matches
    <3>3. pc[w] \in Holding <=> owner' = w
      <4>1. CASE place \in Holding
        BY <2>1, <2>2, <2>4, <4>1 DEF WaiterInv
      <4>2. CASE place \notin Holding /\ pc[t] \in Holding
        <5>1. t \in Waiters
          BY <1>2, <1>3, <4>2 DEF Inv, TypeOK
        <5>2. owner = t
          BY <4>2, <5>1 DEF Inv, WaiterInv
        <5> QED
          BY <2>1, <2>2, <2>4, <4>2, <5>2 DEF WaiterInv
      <4>3. CASE place \notin Holding /\ pc[t] \notin Holding
        BY <2>2, <4>3 DEF WaiterInv
      <4> QED
        BY <4>1, <4>2, <4>3
    <3> QED
      BY <2>2, <3>1, <3>2, <3>3 DEF WaiterInv
  <2> QED
    BY <2>3, <2>4
<1> QED
  BY <1>4, <1>5, <1>6, <1>7 DEF Inv, OwnerIsWaiter

(* _set_state with the arguments setters use keeps a manager well formed.  *)
LEMMA SetStateWellFormed ==
  ASSUME NEW m \in Managers, WellFormed(m),
         NEW s \in {{"not_connected"}, {"connecting"}, {"disconnecting"},
                    {"connected"}}
  PROVE  SetState(m, s) \in Managers /\ WellFormed(SetState(m, s))
<1>1. CASE "failure" \notin m.state
  BY <1>1 DEF SetState, WellFormed, ValidStates, Managers, Flags, Reasons, NoReason
<1>2. CASE "failure" \in m.state /\ s \in {{"connecting"}, {"connected"}}
  <2>1. SetState(m, s) = [state |-> s, reason |-> NoReason]
    BY <1>2 DEF SetState
  <2> QED
    BY <2>1, <1>2 DEF WellFormed, ValidStates, Managers, Flags
<1>3. CASE "failure" \in m.state /\ s \in {{"not_connected"}, {"disconnecting"}}
  <2>1. SetState(m, s) = [m EXCEPT !.state = s \cup {"failure"}]
    BY <1>3 DEF SetState
  <2> QED
    BY <2>1, <1>3 DEF WellFormed, ValidStates, Managers, Flags
<1> QED
  BY <1>1, <1>2, <1>3

(* _set_failure leaves a well formed manager whatever it finds.            *)
LEMMA SetFailureWellFormed ==
  ASSUME NEW m, NEW why \in Reasons
  PROVE  SetFailure(m, why) \in Managers /\ WellFormed(SetFailure(m, why))
BY DEF SetFailure, WellFormed, Managers, Flags, Reasons, NoReason, ValidStates

(* A setter's locked block: the manager changes, and whoever slept is up.  *)
LEMMA ChangeKeeps ==
  ASSUME Inv, NEW s \in Setters, SetterRuns(s) PROVE Inv'
<1>1. s \in Tasks /\ s \notin Waiters
  BY ConstantsAssumption DEF ConstantsAssumption, Tasks
<1>2. mgr \in Managers /\ WellFormed(mgr) /\ owner = NoTask /\ UNCHANGED <<owner, want>>
  BY DEF Inv, TypeOK, ManagerWellFormed, SetterRuns, HasTurn
<1>3. mgr' \in Managers /\ WellFormed(mgr')
  <2>1. CASE \E a \in SetArgs : mgr' = SetState(mgr, a)
    <3>1. PICK a \in SetArgs : mgr' = SetState(mgr, a)
      BY <2>1
    <3>2. a \in {{"not_connected"}, {"connecting"}, {"disconnecting"},
                 {"connected"}}
      BY ConstantsAssumption DEF ConstantsAssumption
    <3> QED
      BY <1>2, <3>1, <3>2, SetStateWellFormed
  <2>2. CASE \E why \in Reasons : mgr' = SetFailure(mgr, why)
    BY <2>2, SetFailureWellFormed
  <2> QED
    BY <2>1, <2>2 DEF SetterRuns, Change
<1>4. \/ pc' = Notified([pc EXCEPT ![s] = "idle"])
      \/ pc' = [pc EXCEPT ![s] = "idle"] /\ mgr'.state = mgr.state
  BY DEF SetterRuns, Change
<1>5. "idle" \in Places /\ "notified" \in Places /\ "idle" \notin Queued
      /\ "asleep" \notin Queued /\ "notified" \notin Queued
      /\ {"idle", "notified", "asleep"} \cap Holding = {}
  BY DEF Places, Queued, Holding
<1>6. /\ pc' \in [Tasks -> Places]
      /\ pc'[s] = "idle"
      /\ \A u \in Tasks : u # s => \/ pc'[u] = pc[u]
                                   \/ pc[u] = "asleep" /\ pc'[u] = "notified"
      /\ mgr'.state # mgr.state => \A u \in Tasks : pc'[u] # "asleep"
  BY <1>1, <1>4, <1>5 DEF Notified, Inv, TypeOK
<1>7. \A u \in Tasks : u # s => (pc'[u] \in Queued <=> pc[u] \in Queued)
  BY <1>5, <1>6
<1>8. QueuedTasks' = QueuedTasks \ {s}
  BY <1>1, <1>5, <1>6, <1>7 DEF QueuedTasks
<1>9. Holds(queue', QueuedTasks')
  BY <1>1, <1>8, TurnHolds DEF Inv, SetterRuns
<1>10. TypeOK'
  <2>1. \A u \in Setters : pc'[u] \in {"idle", "entering"}
    BY <1>1, <1>6 DEF Inv, TypeOK, Tasks
  <2> QED
    BY <1>2, <1>3, <1>6, <1>9, <2>1 DEF Inv, TypeOK, Holds
<1>11. ASSUME NEW w \in Waiters PROVE WaiterInv(w)'
  <2>1. w \in Tasks /\ w # s /\ w # NoTask
    BY <1>1, ConstantsAssumption DEF ConstantsAssumption, Tasks
  <2>2. WaiterInv(w) /\ pc[w] \notin Holding
    BY <1>2, <2>1 DEF Inv, WaiterInv
  <2>3. pc'[w] \notin Holding /\ owner' # w
    BY <1>2, <1>5, <1>6, <2>1, <2>2
  <2>4. pc'[w] = "asleep" => ~Matches(w)'
    BY <1>2, <1>6, <2>1, <2>2 DEF WaiterInv, Matches
  <2>5. pc'[w] # "handoff" /\ pc'[w] # "resume"
    BY <2>3 DEF Holding
  <2> QED
    BY <2>3, <2>4, <2>5 DEF WaiterInv
<1> QED
  BY <1>2, <1>3, <1>9, <1>10, <1>11 DEF Inv, ManagerWellFormed, OwnerIsWaiter
(* How a waiter knows that its condition holds.                            *)
LEMMA SatisfiedMatches ==
  ASSUME NEW w, NEW woken \in BOOLEAN
  PROVE  /\ Matches(w) => Satisfied(want[w], woken)
         /\ Satisfied(want[w], woken) => Matches(w) \/ want[w] = NextChange
         /\ Satisfied(want[w], FALSE) <=> Matches(w)
  BY DEF Matches, Satisfied

LEMMA WaiterIsTask ==
  ASSUME NEW w \in Waiters
  PROVE  w \in Tasks /\ w \notin Setters /\ w # NoTask
  BY ConstantsAssumption DEF ConstantsAssumption, Tasks

(* Joining the queue of the lock.                                          *)
LEMMA EnqueueKeeps ==
  ASSUME Inv, NEW t \in Tasks, NEW place \in Queued,
         t \in Setters => place = "entering",
         pc[t] \notin Queued \cup Holding,
         Enqueue(t, place), UNCHANGED <<mgr, owner>>,
         want' \in [Waiters -> Wants \cup {NextChange}],
         \A w \in Waiters : w # t => want'[w] = want[w]
  PROVE  Inv'
<1>1. place \in Places /\ place \notin Holding
      /\ place \notin {"asleep", "handoff", "resume"}
  BY DEF Places, Queued, Holding
<1>2. pc' = [pc EXCEPT ![t] = place] /\ queue' = Append(queue, t)
  BY DEF Enqueue
<1>3. QueuedTasks' = QueuedTasks \cup {t} /\ t \notin QueuedTasks
  BY <1>2, QueuedTasksMove DEF Inv, QueuedTasks
<1>4. Holds(queue', QueuedTasks')
  BY <1>2, <1>3, AppendHolds DEF Inv
<1> QED
  BY <1>1, <1>2, <1>4, MoveKeeps

(* A waiter that has the lock examines its condition for the first time.   *)
LEMMA EnterKeeps ==
  ASSUME Inv, NEW w \in Waiters, pc[w] \in {"idle", "entering"},
         HasTurn(w), Enter(w, want'[w]), LeaveQueue, UNCHANGED mgr,
         want' \in [Waiters -> Wants \cup {NextChange}],
         \A v \in Waiters : v # w => want'[v] = want[v]
  PROVE  Inv'
<1>1. w \in Tasks /\ w \notin Setters
  BY WaiterIsTask
<1>2. owner = NoTask /\ pc[w] \notin Holding
  BY DEF HasTurn, Holding
<1>3. PICK place \in {"idle", "asleep", "handoff"} :
        /\ pc' = [pc EXCEPT ![w] = place]
        /\ place = "handoff" => owner' = w
        /\ place # "handoff" => owner' = owner
        /\ place # "idle" => ~Satisfied(want'[w], FALSE)
  BY DEF Enter
<1>4. place \in Places /\ place \notin Queued /\ (place \in Holding <=> place = "handoff")
      /\ place # "resume"
  BY <1>3 DEF Places, Holding, Queued
<1>5. place # "idle" => ~Matches(w)'
  BY <1>3 DEF Satisfied, Matches
<1>6. QueuedTasks' = QueuedTasks \ {w}
  BY <1>1, <1>3, <1>4, QueuedTasksMove DEF Inv
<1>7. Holds(queue', QueuedTasks')
  BY <1>1, <1>6, TurnHolds DEF Inv
<1>8. owner' = IF place \in Holding THEN w
               ELSE IF pc[w] \in Holding THEN NoTask ELSE owner
  BY <1>2, <1>3, <1>4
<1> QED
  BY <1>1, <1>2, <1>3, <1>4, <1>5, <1>7, <1>8, MoveKeeps

(* A waiter that was woken and has the lock again examines it once more.   *)
LEMMA RecheckKeeps ==
  ASSUME Inv, NEW w \in Waiters, pc[w] \in {"notified", "rechecking"},
         HasTurn(w), Recheck(w), LeaveQueue, UNCHANGED <<mgr, want>>
  PROVE  Inv'
<1>1. w \in Tasks /\ w \notin Setters
  BY WaiterIsTask
<1>2. owner = NoTask /\ pc[w] \notin Holding
  BY DEF HasTurn, Holding
<1>3. PICK place \in {"idle", "asleep", "resume"} :
        /\ pc' = [pc EXCEPT ![w] = place]
        /\ place = "resume" => owner' = w /\ Satisfied(want[w], TRUE)
        /\ place # "resume" => owner' = owner
        /\ place = "asleep" => ~Satisfied(want[w], TRUE)
  BY DEF Recheck
<1>4. place \in Places /\ place \notin Queued /\ (place \in Holding <=> place = "resume")
      /\ place # "handoff"
  BY <1>3 DEF Places, Holding, Queued
<1>5. /\ Matches(w)' <=> Matches(w)
      /\ place = "asleep" => ~Matches(w)'
      /\ place = "resume" => Matches(w)' \/ want'[w] = NextChange
  BY <1>3, SatisfiedMatches DEF Matches
<1>6. QueuedTasks' = QueuedTasks \ {w}
  BY <1>1, <1>3, <1>4, QueuedTasksMove DEF Inv
<1>7. Holds(queue', QueuedTasks')
  BY <1>1, <1>6, TurnHolds DEF Inv
<1>8. want' \in [Waiters -> Wants \cup {NextChange}]
  BY DEF Inv, TypeOK
<1>9. owner' = IF place \in Holding THEN w
               ELSE IF pc[w] \in Holding THEN NoTask ELSE owner
  BY <1>2, <1>3, <1>4
<1> QED
  BY <1>1, <1>2, <1>3, <1>4, <1>5, <1>7, <1>8, <1>9, MoveKeeps

(* A waiter that moves without the queue: it was not in it and stays out.  *)
LEMMA OutsideKeeps ==
  ASSUME Inv, NEW w \in Waiters, NEW place \in Places \ Queued,
         pc[w] \notin Queued, pc' = [pc EXCEPT ![w] = place],
         UNCHANGED <<mgr, queue, want>>,
         owner' = IF place \in Holding THEN w
                  ELSE IF pc[w] \in Holding THEN NoTask ELSE owner,
         place \in Holding => owner = w,
         place = "asleep" => ~Matches(w),
         place \notin {"handoff", "resume"}
  PROVE  Inv'
<1>1. w \in Tasks /\ w \notin Setters
  BY WaiterIsTask
<1>2. QueuedTasks' = QueuedTasks
  BY <1>1, QueuedTasksMove DEF Inv, QueuedTasks
<1>3. Holds(queue', QueuedTasks')
  BY <1>2 DEF Inv
<1>4. Matches(w)' <=> Matches(w)
  BY DEF Matches
<1>5. want' \in [Waiters -> Wants \cup {NextChange}]
  BY DEF Inv, TypeOK
<1> QED
  BY <1>1, <1>3, <1>4, <1>5, MoveKeeps
(* Timeouts and the way out of wait_for.                                   *)
LEMMA TimeoutKeeps ==
  ASSUME Inv, NEW w \in Waiters, Timeout(w) PROVE Inv'
<1>1. w \in Tasks /\ w \notin Setters /\ w # NoTask /\ WaiterInv(w)
  BY WaiterIsTask DEF Inv
<1>2. /\ {"expired", "cancelled"} \subseteq Places \ Queued
      /\ {"handoff", "expired"} \subseteq Holding
      /\ {"asleep", "notified", "cancelled"} \cap (Queued \cup Holding) = {}
      /\ "handoff" \notin Queued /\ "rechecking" \in Queued \ Holding
  BY DEF Places, Queued, Holding
<1>3. CASE pc[w] = "handoff"
  <2>1. owner = w
    BY <1>1, <1>2, <1>3 DEF WaiterInv
  <2>2. pc' = [pc EXCEPT ![w] = "expired"] /\ UNCHANGED <<mgr, owner, queue, want>>
    BY <1>3 DEF Timeout
  <2> QED
    BY <1>2, <1>3, <2>1, <2>2, OutsideKeeps
<1>4. CASE pc[w] \in {"asleep", "notified"}
  <2>1. pc' = [pc EXCEPT ![w] = "cancelled"] /\ UNCHANGED <<mgr, owner, queue, want>>
    BY <1>4 DEF Timeout
  <2> QED
    BY <1>2, <1>4, <2>1, OutsideKeeps
<1>5. CASE pc[w] = "rechecking"
  <2>1. /\ pc' = [pc EXCEPT ![w] = "cancelled"]
        /\ queue' = Without(w)
        /\ UNCHANGED <<mgr, owner, want>>
    BY <1>5 DEF Timeout
  <2>2. QueuedTasks' = QueuedTasks \ {w} /\ w \in QueuedTasks
    BY <1>1, <1>2, <1>5, <2>1, QueuedTasksMove DEF Inv, QueuedTasks
  <2>3. Holds(queue', QueuedTasks')
    BY <1>1, <2>1, <2>2, WithoutHolds DEF Inv
  <2>4. want' \in [Waiters -> Wants \cup {NextChange}]
    BY <2>1 DEF Inv, TypeOK
  <2> QED
    BY <1>1, <1>2, <1>5, <2>1, <2>3, <2>4, MoveKeeps
<1> QED
  BY <1>3, <1>4, <1>5 DEF Timeout

(* A cancelled wait takes the lock before it raises.                       *)
LEMMA ExpireKeeps ==
  ASSUME Inv, NEW w \in Waiters, pc[w] \in {"cancelled", "expiring"},
         HasTurn(w), pc' = [pc EXCEPT ![w] = "expired"], owner' = w,
         LeaveQueue, UNCHANGED <<mgr, want>>
  PROVE  Inv'
<1>1. w \in Tasks /\ w \notin Setters
  BY WaiterIsTask
<1>2. "expired" \in Places /\ "expired" \in Holding /\ "expired" \notin Queued
  BY DEF Places, Holding, Queued
<1>3. owner = NoTask
  BY DEF HasTurn
<1>4. QueuedTasks' = QueuedTasks \ {w}
  BY <1>1, <1>2, QueuedTasksMove DEF Inv
<1>5. Holds(queue', QueuedTasks')
  BY <1>1, <1>4, TurnHolds DEF Inv
<1>6. want' \in [Waiters -> Wants \cup {NextChange}]
  BY DEF Inv, TypeOK
<1> QED
  BY <1>1, <1>2, <1>3, <1>5, <1>6, MoveKeeps

LEMMA GoesOnKeeps ==
  ASSUME Inv, NEW w \in Waiters, WaiterGoesOn(w) PROVE Inv'
<1>1. w \in Tasks /\ w \notin Setters /\ w # NoTask /\ WaiterInv(w)
  BY WaiterIsTask DEF Inv
<1>2. want \in [Waiters -> Wants \cup {NextChange}]
  BY DEF Inv, TypeOK
<1>3. /\ {"idle", "asleep"} \subseteq Places \ (Queued \cup Holding)
      /\ {"handoff", "resume", "expired"} = Holding
      /\ Queued = {"entering", "rechecking", "expiring"}
  BY DEF Places, Queued, Holding
<1>4. CASE WaitEnters(w)
  BY <1>2, <1>4, EnterKeeps DEF WaitEnters
<1>5. CASE InnerStarts(w)
  <2>1. ~Matches(w) /\ pc[w] \in Holding
    BY <1>1, <1>3, <1>5 DEF InnerStarts, WaiterInv
  <2> QED
    BY <1>3, <1>5, <2>1, OutsideKeeps DEF InnerStarts
<1>6. CASE WakeUp(w)
  <2>1. CASE HasTurn(w) /\ Recheck(w) /\ LeaveQueue
    BY <1>6, <2>1, RecheckKeeps DEF WakeUp
  <2>2. CASE Enqueue(w, "rechecking") /\ UNCHANGED owner
    <3>1. pc[w] \notin Queued \cup Holding /\ "rechecking" \in Queued
      BY <1>3, <1>6 DEF WakeUp
    <3> QED
      BY <1>1, <1>2, <1>6, <2>2, <3>1, EnqueueKeeps DEF WakeUp
  <2> QED
    BY <1>6, <2>1, <2>2 DEF WakeUp
<1>7. CASE Rechecks(w)
  BY <1>7, RecheckKeeps DEF Rechecks
<1>8. CASE Reacquire(w)
  <2>1. CASE HasTurn(w) /\ pc' = [pc EXCEPT ![w] = "expired"] /\ owner' = w /\ LeaveQueue
    BY <1>8, <2>1, ExpireKeeps DEF Reacquire
  <2>2. CASE Enqueue(w, "expiring") /\ UNCHANGED owner
    <3>1. pc[w] \notin Queued \cup Holding /\ "expiring" \in Queued
      BY <1>3, <1>8 DEF Reacquire
    <3> QED
      BY <1>1, <1>2, <1>8, <2>2, <3>1, EnqueueKeeps DEF Reacquire
  <2> QED
    BY <1>8, <2>1, <2>2 DEF Reacquire
<1>9. CASE Expires(w)
  BY <1>9, ExpireKeeps DEF Expires
<1>10. CASE Leave(w)
  <2>1. pc[w] \in Holding
    BY <1>3, <1>10 DEF Leave
  <2> QED
    BY <1>3, <1>10, <2>1, OutsideKeeps DEF Leave
<1> QED
  BY <1>4, <1>5, <1>6, <1>7, <1>8, <1>9, <1>10 DEF WaiterGoesOn

LEMMA WaitCallKeeps ==
  ASSUME Inv, NEW w \in Waiters, WaitCall(w) PROVE Inv'
<1>1. w \in Tasks /\ w \notin Setters
  BY WaiterIsTask
<1>2. PICK x \in Wants \cup {NextChange} :
        /\ want' = [want EXCEPT ![w] = x]
        /\ \/ HasTurn(w) /\ Enter(w, x) /\ LeaveQueue
           \/ Enqueue(w, "entering") /\ UNCHANGED owner
  BY DEF WaitCall
<1>3. /\ want' \in [Waiters -> Wants \cup {NextChange}]
      /\ want'[w] = x
      /\ \A v \in Waiters : v # w => want'[v] = want[v]
  BY <1>2 DEF Inv, TypeOK
<1>4. CASE HasTurn(w) /\ Enter(w, x) /\ LeaveQueue
  BY <1>3, <1>4, EnterKeeps DEF WaitCall
<1>5. CASE Enqueue(w, "entering") /\ UNCHANGED owner
  <2>1. pc[w] \notin Queued \cup Holding /\ "entering" \in Queued
    BY DEF WaitCall, Queued, Holding
  <2> QED
    BY <1>1, <1>3, <1>5, <2>1, EnqueueKeeps DEF WaitCall
<1> QED
  BY <1>2, <1>4, <1>5

LEMMA SetterKeeps ==
  ASSUME Inv, NEW s \in Setters, SetterStep(s) PROVE Inv'
<1>1. CASE SetterRuns(s)
  BY <1>1, ChangeKeeps
<1>2. CASE SetterQueues(s)
  <2>1. pc[s] \notin Queued \cup Holding /\ "entering" \in Queued /\ s \in Tasks
    BY <1>2 DEF SetterQueues, Queued, Holding, Tasks
  <2>2. want' \in [Waiters -> Wants \cup {NextChange}]
    BY <1>2 DEF SetterQueues, Inv, TypeOK
  <2> QED
    BY <1>2, <2>1, <2>2, EnqueueKeeps DEF SetterQueues
<1> QED
  BY <1>1, <1>2 DEF SetterStep

-----------------------------------------------------------------------------
(* The theorems.                                                           *)

LEMMA InvInit == Init => Inv
<1> SUFFICES ASSUME Init PROVE Inv
  OBVIOUS
<1>1. mgr \in Managers /\ ManagerWellFormed
  BY DEF Init, InitManager, Managers, ManagerWellFormed, WellFormed, ValidStates,
     NoReason, Reasons, Flags
<1>2. /\ \A t \in Tasks : pc[t] = "idle"
      /\ pc \in [Tasks -> Places]
      /\ want \in [Waiters -> Wants \cup {NextChange}]
      /\ "idle" \notin Queued \cup Holding
  BY DEF Init, Places, Queued, Holding
<1>3. QueuedTasks = {}
  BY <1>2 DEF QueuedTasks
<1>4. Holds(queue, {})
  BY EmptySeq DEF Init, Holds
<1>5. TypeOK
  BY <1>1, <1>2, <1>4 DEF TypeOK, Init, Holds, Tasks
<1>6. ASSUME NEW w \in Waiters PROVE WaiterInv(w)
  <2>1. pc[w] = "idle" /\ owner # w
    BY <1>2, WaiterIsTask DEF Init
  <2> QED
    BY <1>2, <2>1 DEF WaiterInv
<1> QED
  BY <1>1, <1>3, <1>4, <1>5, <1>6 DEF Inv, OwnerIsWaiter, Init

LEMMA InvStep == Inv /\ [Next]_vars => Inv'
<1> SUFFICES ASSUME Inv, [Next]_vars PROVE Inv'
  OBVIOUS
<1>1. CASE UNCHANGED vars
  BY <1>1 DEF vars, Inv, TypeOK, ManagerWellFormed, OwnerIsWaiter, Holds,
     QueuedTasks, WaiterInv, Matches
<1>2. CASE Next
  BY <1>2, SetterKeeps, WaitCallKeeps, GoesOnKeeps, TimeoutKeeps DEF Next
<1> QED
  BY <1>1, <1>2

(* The inductive invariant holds in every reachable state.                 *)
THEOREM Invariance == Spec => []Inv
<1> QED
  BY InvInit, InvStep, PTL DEF Spec

(* The state, the lock and its queue, and the tasks keep their types.      *)
THEOREM TypeCorrect == Spec => []TypeOK
<1>1. Inv => TypeOK
  BY DEF Inv
<1> QED
  BY <1>1, Invariance, PTL

(* set_state and set_failure, in any order and by any number of tasks,     *)
(* leave one lifecycle flag, and a reason exactly with a failure.          *)
THEOREM ManagerStaysWellFormed == Spec => []ManagerWellFormed
<1>1. Inv => ManagerWellFormed
  BY DEF Inv
<1> QED
  BY <1>1, Invariance, PTL

(* wait and wait_for with a timeout hand the lock back and forth between   *)
(* two tasks without ever releasing it twice or for somebody else.         *)
THEOREM LockHasOneOwner == Spec => []OwnerHolds
<1>1. Inv => OwnerHolds
  BY DEF Inv, WaiterInv, OwnerHolds
<1> QED
  BY <1>1, Invariance, PTL

(* No task sleeps while the state it waits for is there.                   *)
THEOREM NoWakeupIsLost == Spec => []NoLostWakeup
<1>1. Inv => NoLostWakeup
  BY DEF Inv, WaiterInv, NoLostWakeup
<1> QED
  BY <1>1, Invariance, PTL

(* wait_for with a timeout returns a state its argument matches, however   *)
(* late its caller gets to run.                                            *)
THEOREM AnswersAreCurrent == Spec => []ResumesSatisfied
<1>1. Inv => ResumesSatisfied
  BY DEF Inv, WaiterInv, ResumesSatisfied
<1> QED
  BY <1>1, Invariance, PTL

(* The lock's queue holds those who wait for it, each once: a cancelled    *)
(* wait leaves no future behind and a woken one takes nobody's place.      *)
THEOREM LockQueueIsSound == Spec => []QueueIsSound
<1>1. Inv => QueueIsSound
  <2> SUFFICES ASSUME Inv PROVE QueueIsSound
    OBVIOUS
  <2>1. DOMAIN queue = 1..Len(queue)
    BY LenProperties DEF Inv, TypeOK
  <2> QED
    BY <2>1 DEF Inv, Holds, QueuedTasks, QueueIsSound
<1> QED
  BY <1>1, Invariance, PTL

(* Lock and condition together, as the run "manager" checks them.          *)
THEOREM LockStaysSound == Spec => []LockIsSound
<1>1. OwnerHolds /\ QueueIsSound => LockIsSound
  BY DEF LockIsSound
<1> QED
  BY <1>1, LockHasOneOwner, LockQueueIsSound, PTL

-----------------------------------------------------------------------------
(* SyncronizedManager.                                                     *)

(* Who is inside has the instance lock.                                    *)
Holder == \A t \in Inside : instance = t

(* A caller that waits has at most the own lock, a notification that waits *)
(* at most the lock of its source.                                         *)
Held ==
  /\ ownLock \in SyncTasks => ownLock \in Callers /\ at[ownLock] = "wantSource"
  /\ \A m \in Sources : srcLock[m] \in SyncTasks =>
       srcLock[m] \in Events /\ at[srcLock[m]] = "wantOwn"

(* The source a task waits for inside is the one that is followed.         *)
Followed ==
  \A t \in Inside :
    /\ arg[t] = other
    /\ t \in Events \/ at[t] = "wantSource" => other # None

(* A task of set_other stops listening before it waits.                    *)
Listening ==
  /\ instance = None => bound = {other} \ {None}
  /\ instance \in Callers => bound = {}
  /\ instance \in Events => bound = {other}

(* A change that is not shown yet is one that somebody will look at.       *)
Fresh == other # None /\ instance = None /\ ~Pending(other) => own = src[other]

SyncInv == SyncTypeOK /\ Holder /\ Held /\ Followed /\ Listening /\ Fresh

USE SyncConstantsAssumption

(* _set_state of the instance makes a manager of a manager.                *)
LEMMA SetStateIsManager ==
  ASSUME NEW m \in Managers, NEW s \in SUBSET Flags
  PROVE  SetState(m, s) \in Managers
BY DEF SetState, Managers, Flags, Reasons, NoReason

(* With nobody inside, nobody of this manager's tasks has a lock.          *)
LEMMA NobodyInside ==
  ASSUME SyncTypeOK, Holder, instance = None
  PROVE  /\ Inside = {}
         /\ ownLock \in {None, Outside}
         /\ \A m \in Sources : srcLock[m] \in {None, Outside}
<1>1. Inside = {}
  BY DEF Holder, Inside, SyncTasks
<1> QED
  BY <1>1 DEF SyncTypeOK

(* A task that ends, whether it was inside or had just come in.            *)
LEMMA Released ==
  ASSUME SyncTypeOK, Holder, NEW t \in SyncTasks, instance \in {None, t}, Release(t)
  PROVE  /\ Inside' = {} /\ instance' = None
         /\ ownLock' \in {None, Outside}
         /\ srcLock' \in [Sources -> {None, Outside}]
         /\ at' = [at EXCEPT ![t] = "idle"]
         /\ arg' = [arg EXCEPT ![t] = None]
<1>1. Inside \subseteq {t}
  BY DEF Holder, Inside, SyncTasks
<1>2. at' = [at EXCEPT ![t] = "idle"] /\ arg' = [arg EXCEPT ![t] = None] /\ instance' = None
  BY DEF Release, Finish, Goto
<1>3. Inside' = {}
  BY <1>1, <1>2 DEF Inside, SyncTypeOK
<1>4. ownLock' \in {None, Outside}
  BY <1>1 DEF Release, SyncTypeOK
<1>5. srcLock' \in [Sources -> {None, Outside}]
  BY <1>1 DEF Release, SyncTypeOK
<1> QED
  BY <1>2, <1>3, <1>4, <1>5

(* A task that waits for a lock inside.                                    *)
LEMMA Suspended ==
  ASSUME SyncTypeOK, Holder, NEW t \in SyncTasks, instance \in {None, t},
         NEW x \in Sources \cup {None}, NEW place \in {"wantOwn", "wantSource"},
         Suspend(t, x, place)
  PROVE  /\ Inside' = {t} /\ instance' = t /\ own' = own
         /\ at' = [at EXCEPT ![t] = place] /\ at'[t] = place
         /\ arg' = [arg EXCEPT ![t] = x] /\ arg'[t] = x
<1>1. Inside \subseteq {t}
  BY DEF Holder, Inside, SyncTasks
<1>2. /\ at' = [at EXCEPT ![t] = place] /\ arg' = [arg EXCEPT ![t] = x]
      /\ instance' = t /\ own' = own
  BY DEF Suspend, Goto
<1>3. at'[t] = place /\ arg'[t] = x
  BY <1>2 DEF SyncTypeOK
<1>4. Inside' = {t}
  BY <1>1, <1>2 DEF Inside, SyncTypeOK
<1> QED
  BY <1>2, <1>3, <1>4

(* Steps after which nobody is inside: the task t has ended, the source    *)
(* that is followed is listened to, and it is shown or somebody will look. *)
LEMMA EndsWell ==
  ASSUME SyncInv, NEW t \in SyncTasks, instance \in {None, t}, Release(t), src' = src,
         own' \in Managers, other' \in Sources \cup {None},
         bound' = {other'} \ {None},
         other' # None => \/ own' = src[other']
                          \/ \E e \in Events \ {t} : at[e] \in {"scheduled", "queued"}
                                                    /\ arg[e] = other'
  PROVE  SyncInv'
<1>1. /\ Inside' = {} /\ instance' = None
      /\ ownLock' \in {None, Outside}
      /\ srcLock' \in [Sources -> {None, Outside}]
      /\ at' = [at EXCEPT ![t] = "idle"]
      /\ arg' = [arg EXCEPT ![t] = None]
  BY Released DEF SyncInv
<1>2. /\ at' \in [SyncTasks -> {"idle", "scheduled", "queued", "wantOwn", "wantSource"}]
      /\ \A c \in Callers : at'[c] # "scheduled"
      /\ arg' \in [SyncTasks -> Sources \cup {None}]
      /\ \A e \in Events : arg'[e] = None <=> at'[e] = "idle"
  BY <1>1 DEF SyncInv, SyncTypeOK, SyncTasks
<1>3. SyncTypeOK'
  BY <1>1, <1>2 DEF SyncInv, SyncTypeOK
<1>4. Holder' /\ Held' /\ Followed'
  BY <1>1 DEF Holder, Held, Followed
<1>5. Listening'
  BY <1>1 DEF Listening, SyncTasks
<1>6. Fresh'
  <2>1. \A e \in Events \ {t} : at'[e] = at[e] /\ arg'[e] = arg[e]
    BY <1>1 DEF SyncInv, SyncTypeOK, SyncTasks
  <2> QED
    BY <2>1 DEF Fresh, Pending
<1> QED
  BY <1>3, <1>4, <1>5, <1>6 DEF SyncInv

(* Steps after which t waits inside for the lock of another.               *)
LEMMA WaitsWell ==
  ASSUME SyncInv, NEW t \in SyncTasks, instance \in {None, t},
         NEW place \in {"wantOwn", "wantSource"}, Suspend(t, other', place), src' = src,
         other' \in Sources \cup {None},
         t \in Events \/ place = "wantSource" => other' # None,
         t \in Callers => bound' = {},
         t \in Events => bound' = {other'},
         ownLock' \in {None, Outside} \/ (ownLock' = t /\ t \in Callers /\ place = "wantSource"),
         srcLock' \in [Sources -> {None, Outside}]
           \/ /\ t \in Events /\ place = "wantOwn"
              /\ srcLock' \in [Sources -> {None, Outside, t}]
  PROVE  SyncInv'
<1>1. /\ Inside' = {t} /\ instance' = t /\ own' = own
      /\ at' = [at EXCEPT ![t] = place] /\ at'[t] = place
      /\ arg' = [arg EXCEPT ![t] = other'] /\ arg'[t] = other'
  BY Suspended DEF SyncInv
<1>2. /\ at' \in [SyncTasks -> {"idle", "scheduled", "queued", "wantOwn", "wantSource"}]
      /\ \A c \in Callers : at'[c] # "scheduled"
      /\ arg' \in [SyncTasks -> Sources \cup {None}]
      /\ \A e \in Events : arg'[e] = None <=> at'[e] = "idle"
  BY <1>1 DEF SyncInv, SyncTypeOK, SyncTasks
<1>3. bound' \subseteq Sources /\ own' \in Managers
  BY <1>1 DEF SyncInv, SyncTypeOK, SyncTasks
<1>4. ownLock' \in {t, None, Outside} /\ srcLock' \in [Sources -> {t, None, Outside}]
  OBVIOUS
<1>5. SyncTypeOK'
  BY <1>1, <1>2, <1>3, <1>4 DEF SyncInv, SyncTypeOK
<1>6. Holder' /\ Followed'
  BY <1>1 DEF Holder, Followed
<1>7. Held'
  BY <1>1 DEF Held
<1>8. Listening' /\ Fresh'
  BY <1>1 DEF Listening, Fresh, SyncTasks
<1> QED
  BY <1>5, <1>6, <1>7, <1>8 DEF SyncInv

(* Steps that change neither who is inside nor what they know.             *)
LEMMA StaysOutside ==
  ASSUME SyncInv, NEW t \in SyncTasks, t \notin Inside,
         NEW place \in {"idle", "scheduled", "queued"}, Goto(t, place),
         arg' \in [SyncTasks -> Sources \cup {None}],
         \A u \in SyncTasks \ {t} : arg'[u] = arg[u],
         t \in Callers => place # "scheduled",
         t \in Events => (arg'[t] = None <=> place = "idle"),
         UNCHANGED <<own, other, bound, instance, ownLock, srcLock>>,
         src' \in [Sources -> Managers], Fresh'
  PROVE  SyncInv'
<1>1. at' = [at EXCEPT ![t] = place]
  BY DEF Goto
<1>2. Inside' = Inside
  BY <1>1 DEF Inside, SyncInv, SyncTypeOK
<1>3. \A u \in Inside : at'[u] = at[u] /\ arg'[u] = arg[u]
  BY <1>1 DEF Inside, SyncInv, SyncTypeOK
<1>4. /\ at' \in [SyncTasks -> {"idle", "scheduled", "queued", "wantOwn", "wantSource"}]
      /\ \A c \in Callers : at'[c] # "scheduled"
      /\ \A e \in Events : arg'[e] = None <=> at'[e] = "idle"
  BY <1>1 DEF SyncInv, SyncTypeOK, SyncTasks
<1>5. SyncTypeOK'
  BY <1>2, <1>4 DEF SyncInv, SyncTypeOK
<1>6. Holder' /\ Listening'
  BY <1>2 DEF SyncInv, Holder, Listening
<1>7. Followed'
  BY <1>2, <1>3 DEF SyncInv, Followed
<1>8. Held'
  <2>1. ownLock \in SyncTasks => ownLock \in Inside
    BY DEF SyncInv, Held, Inside, SyncTasks
  <2>2. \A m \in Sources : srcLock[m] \in SyncTasks => srcLock[m] \in Inside
    BY DEF SyncInv, Held, Inside, SyncTasks
  <2> QED
    BY <2>1, <2>2, <1>3 DEF SyncInv, Held
<1> QED
  BY <1>5, <1>6, <1>7, <1>8 DEF SyncInv

-----------------------------------------------------------------------------
(* A caller inside: no task but itself has a lock, and it at most the own. *)
LEMMA CallerInside ==
  ASSUME SyncInv, NEW t \in Callers, t \in Inside
  PROVE  /\ instance = t /\ arg[t] = other /\ bound = {}
         /\ ownLock \in {None, Outside} \/ (ownLock = t /\ at[t] = "wantSource")
         /\ srcLock \in [Sources -> {None, Outside}]
<1>1. instance = t /\ arg[t] = other /\ bound = {}
  BY DEF SyncInv, Holder, Followed, Listening
<1>2. Inside = {t}
  BY <1>1 DEF SyncInv, Holder, Inside, SyncTasks
<1>3. t \notin Events
  OBVIOUS
<1>4. ownLock \in {None, Outside} \/ (ownLock = t /\ at[t] = "wantSource")
  BY <1>2 DEF SyncInv, SyncTypeOK, Held, SyncTasks
<1>5. srcLock \in [Sources -> {None, Outside}]
  BY <1>2, <1>3 DEF SyncInv, SyncTypeOK, Held, SyncTasks
<1> QED
  BY <1>1, <1>4, <1>5

(* A notification inside: no task but itself has a lock, and it at most    *)
(* the source's.                                                           *)
LEMMA EventInside ==
  ASSUME SyncInv, NEW e \in Events, e \in Inside
  PROVE  /\ instance = e /\ arg[e] = other /\ other \in Sources /\ bound = {other}
         /\ ownLock \in {None, Outside}
         /\ srcLock \in [Sources -> {None, Outside, e}]
         /\ at[e] = "wantSource" => srcLock \in [Sources -> {None, Outside}]
<1>1. instance = e /\ arg[e] = other /\ bound = {other}
  BY DEF SyncInv, Holder, Followed, Listening
<1>2. Inside = {e}
  BY <1>1 DEF SyncInv, Holder, Inside, SyncTasks
<1>3. e \notin Callers
  OBVIOUS
<1>4. other \in Sources
  BY DEF SyncInv, SyncTypeOK, Followed
<1>5. ownLock \in {None, Outside}
  BY <1>2, <1>3 DEF SyncInv, SyncTypeOK, Held, SyncTasks
<1>6. /\ srcLock \in [Sources -> {None, Outside, e}]
      /\ at[e] = "wantSource" => srcLock \in [Sources -> {None, Outside}]
  BY <1>2 DEF SyncInv, SyncTypeOK, Held, SyncTasks
<1> QED
  BY <1>1, <1>4, <1>5, <1>6

(* With the instance and the own lock: set_other takes the source's state  *)
(* or waits for its lock.                                                  *)
LEMMA FollowKeeps ==
  ASSUME SyncInv, NEW t \in Callers, instance \in {None, t}, src' = src,
         other' \in Sources \cup {None}, Follow(t, other', {}),
         ownLock = None, srcLock \in [Sources -> {None, Outside}]
  PROVE  SyncInv'
<1>1. t \in SyncTasks /\ t \notin Events
  BY DEF SyncTasks
<1>2. CASE other' = None
  <2>1. own' = SetState(own, {"not_connected"}) /\ bound' = {} /\ Release(t)
    BY <1>2 DEF Follow
  <2>2. own' \in Managers
    BY <2>1, SetStateIsManager DEF SyncInv, SyncTypeOK, Flags
  <2> QED
    BY <1>1, <1>2, <2>1, <2>2, EndsWell
<1>3. CASE other' # None /\ srcLock[other'] = None
  <2>1. own' = src[other'] /\ Release(t) /\ bound' = {other'} \ {None}
    BY <1>3 DEF Follow, Copy
  <2>2. own' \in Managers
    BY <1>3, <2>1 DEF SyncInv, SyncTypeOK
  <2> QED
    BY <1>1, <2>1, <2>2, EndsWell
<1>4. CASE other' # None /\ srcLock[other'] # None
  <2>1. /\ ownLock' = t /\ bound' = {} /\ srcLock' = srcLock
        /\ Suspend(t, other', "wantSource")
    BY <1>4 DEF Follow
  <2> QED
    BY <1>1, <1>4, <2>1, WaitsWell
<1> QED
  BY <1>2, <1>3, <1>4

(* With the instance lock: set_other changes what is followed.             *)
LEMMA SwitchKeeps ==
  ASSUME SyncInv, NEW t \in Callers, NEW x \in Sources \cup {None},
         instance = None, Switch(t, x), src' = src
  PROVE  SyncInv'
<1>1. t \in SyncTasks /\ t \notin Events
  BY DEF SyncTasks
<1>2. /\ ownLock \in {None, Outside} /\ srcLock \in [Sources -> {None, Outside}]
      /\ bound = {other} \ {None}
  BY NobodyInside DEF SyncInv, SyncTypeOK, Listening
<1>3. CASE x = other
  <2>1. Release(t) /\ own' = own /\ other' = other /\ bound' = bound
    BY <1>3 DEF Switch
  <2>2. own' \in Managers /\ other' \in Sources \cup {None} /\ bound' = {other'} \ {None}
    BY <2>1, <1>2 DEF SyncInv, SyncTypeOK
  <2>3. other # None => \/ own = src[other]
                        \/ \E e \in Events \ {t} : at[e] \in {"scheduled", "queued"}
                                                  /\ arg[e] = other
    BY <1>1 DEF SyncInv, Fresh, Pending
  <2> QED
    BY <1>1, <2>1, <2>2, <2>3, EndsWell
<1>4. CASE x # other
  <2>1. other' = x /\ bound \ {other} = {}
    BY <1>2, <1>4 DEF Switch
  <2>2. CASE ownLock = None
    <3>1. Follow(t, other', bound \ {other})
      BY <1>4, <2>2 DEF Switch, Follow, Copy, Suspend
    <3>2. Follow(t, other', {})
      BY <2>1, <3>1
    <3>3. instance \in {None, t} /\ other' \in Sources \cup {None}
      BY <2>1
    <3> QED
      BY <1>2, <2>2, <3>2, <3>3, FollowKeeps
  <2>3. CASE ownLock # None
    <3>1. bound' = {} /\ Suspend(t, other', "wantOwn") /\ ownLock' = ownLock
          /\ srcLock' = srcLock
      BY <1>4, <2>1, <2>3 DEF Switch
    <3> QED
      BY <1>1, <1>2, <2>1, <3>1, WaitsWell
  <2> QED
    BY <2>2, <2>3
<1> QED
  BY <1>3, <1>4

(* set_other is called: it runs, or queues for the instance lock.          *)
LEMMA SetOtherKeeps ==
  ASSUME SyncInv, NEW t \in Callers, SetOther(t)
  PROVE  SyncInv'
<1>1. t \in SyncTasks /\ t \notin Events /\ src' = src /\ at[t] = "idle"
  BY DEF SetOther, SyncTasks
<1>2. PICK x \in Sources \cup {None} :
        \/ ~Contended /\ Switch(t, x)
        \/ /\ Goto(t, "queued")
           /\ arg' = [arg EXCEPT ![t] = x]
           /\ UNCHANGED <<own, other, bound, instance, ownLock, srcLock>>
  BY DEF SetOther
<1>3. CASE ~Contended /\ Switch(t, x)
  BY <1>1, <1>3, SwitchKeeps DEF Contended
<1>4. CASE /\ Goto(t, "queued")
           /\ arg' = [arg EXCEPT ![t] = x]
           /\ UNCHANGED <<own, other, bound, instance, ownLock, srcLock>>
  <2>1. /\ arg' \in [SyncTasks -> Sources \cup {None}]
        /\ \A u \in SyncTasks \ {t} : arg'[u] = arg[u] /\ at'[u] = at[u]
    BY <1>1, <1>4 DEF SyncInv, SyncTypeOK, Goto
  <2>2. Fresh'
    BY <1>1, <1>4, <2>1 DEF SyncInv, Fresh, Pending, SyncTasks
  <2>3. t \notin Inside /\ src' \in [Sources -> Managers]
    BY <1>1 DEF Inside, SyncInv, SyncTypeOK
  <2> QED
    BY <1>1, <1>4, <2>1, <2>2, <2>3, StaysOutside
<1> QED
  BY <1>2, <1>3, <1>4

(* set_other gets the lock it waited for.                                  *)
LEMMA SetOtherGoesOnKeeps ==
  ASSUME SyncInv, NEW t \in Callers, SetOtherGoesOn(t)
  PROVE  SyncInv'
<1>1. t \in SyncTasks /\ t \notin Events /\ src' = src /\ arg[t] \in Sources \cup {None}
  BY DEF SetOtherGoesOn, SyncTasks, SyncInv, SyncTypeOK
<1>2. CASE at[t] = "queued" /\ instance = None /\ Switch(t, arg[t])
  BY <1>1, <1>2, SwitchKeeps
<1>3. CASE /\ at[t] = "wantOwn" /\ ownLock = None
           /\ Follow(t, arg[t], bound)
           /\ UNCHANGED other
  <2>1. t \in Inside
    BY <1>1, <1>3 DEF Inside
  <2>2. /\ instance = t /\ arg[t] = other /\ bound = {}
        /\ srcLock \in [Sources -> {None, Outside}]
    BY <2>1, CallerInside
  <2>3. other' = arg[t] /\ Follow(t, other', {})
    BY <1>3, <2>2
  <2> QED
    BY <1>1, <1>3, <2>2, <2>3, FollowKeeps
<1>4. CASE /\ at[t] = "wantSource" /\ Copy(t, arg[t])
           /\ bound' = bound \cup {arg[t]}
           /\ UNCHANGED other
  <2>1. t \in Inside
    BY <1>1, <1>4 DEF Inside
  <2>2. instance = t /\ arg[t] = other /\ bound = {}
    BY <2>1, CallerInside
  <2>3. other # None
    BY <2>1, <1>4 DEF SyncInv, Followed
  <2>4. /\ Release(t) /\ own' = src[other'] /\ bound' = {other'} \ {None}
        /\ other' \in Sources
    BY <1>1, <1>4, <2>2, <2>3 DEF Copy
  <2>5. own' \in Managers
    BY <2>4, <1>4 DEF SyncInv, SyncTypeOK
  <2> QED
    BY <1>1, <2>2, <2>4, <2>5, EndsWell
<1> QED
  BY <1>2, <1>3, <1>4 DEF SetOtherGoesOn

(* With the instance lock: a notification takes the source's state, gives  *)
(* up because it is no longer followed, or waits.                          *)
LEMMA SyncronizeKeeps ==
  ASSUME SyncInv, NEW e \in Events, instance = None, at[e] # "idle", Syncronize(e),
         UNCHANGED <<src, other, bound>>
  PROVE  SyncInv'
<1>1. e \in SyncTasks /\ e \notin Callers /\ arg[e] \in Sources
  BY DEF SyncTasks, SyncInv, SyncTypeOK
<1>2. /\ ownLock \in {None, Outside} /\ srcLock \in [Sources -> {None, Outside}]
      /\ bound' = {other'} \ {None} /\ other' \in Sources \cup {None}
  BY NobodyInside DEF SyncInv, SyncTypeOK, Listening
<1>3. CASE other # arg[e]
  <2>1. Release(e) /\ own' = own
    BY <1>3 DEF Syncronize
  <2>2. own' \in Managers
    BY <2>1 DEF SyncInv, SyncTypeOK
  <2>3. other # None => \/ own = src[other]
                        \/ \E f \in Events \ {e} : at[f] \in {"scheduled", "queued"}
                                                  /\ arg[f] = other
    BY <1>3 DEF SyncInv, Fresh, Pending
  <2> QED
    BY <1>1, <1>2, <2>1, <2>2, <2>3, EndsWell
<1>4. CASE other = arg[e] /\ srcLock[arg[e]] # None
  <2>1. Suspend(e, other', "wantSource") /\ UNCHANGED <<ownLock, srcLock>>
    BY <1>4 DEF Syncronize
  <2> QED
    BY <1>1, <1>2, <1>4, <2>1, WaitsWell
<1>5. CASE other = arg[e] /\ srcLock[arg[e]] = None /\ ownLock # None
  <2>1. /\ Suspend(e, other', "wantOwn") /\ ownLock' = ownLock
        /\ srcLock' = [srcLock EXCEPT ![arg[e]] = e]
    BY <1>5 DEF Syncronize
  <2>2. srcLock' \in [Sources -> {None, Outside, e}]
    BY <1>2, <2>1
  <2> QED
    BY <1>1, <1>2, <1>5, <2>1, <2>2, WaitsWell
<1>6. CASE other = arg[e] /\ srcLock[arg[e]] = None /\ ownLock = None
  <2>1. Release(e) /\ own' = src[other']
    BY <1>6 DEF Syncronize, Copy
  <2>2. own' \in Managers
    BY <1>1, <1>6, <2>1 DEF SyncInv, SyncTypeOK
  <2> QED
    BY <1>1, <1>2, <2>1, <2>2, EndsWell
<1> QED
  BY <1>3, <1>4, <1>5, <1>6

(* A notification runs: it is dropped, syncronizes, or queues.             *)
LEMMA NotifiedKeeps ==
  ASSUME SyncInv, NEW e \in Events, OnOtherStateChanged(e)
  PROVE  SyncInv'
<1>1. /\ e \in SyncTasks /\ e \notin Callers /\ arg[e] \in Sources /\ at[e] = "scheduled"
      /\ e \notin Inside /\ UNCHANGED <<src, other, bound>>
  BY DEF OnOtherStateChanged, SyncTasks, SyncInv, SyncTypeOK, Inside
<1>2. CASE /\ instance # None \/ other # arg[e]
           /\ Finish(e)
           /\ UNCHANGED <<own, instance, ownLock, srcLock>>
  <2>1. /\ Goto(e, "idle") /\ arg' \in [SyncTasks -> Sources \cup {None}]
        /\ arg'[e] = None
        /\ \A u \in SyncTasks \ {e} : arg'[u] = arg[u] /\ at'[u] = at[u]
    BY <1>1, <1>2 DEF SyncInv, SyncTypeOK, Finish, Goto
  <2>2. Fresh'
    <3>1. instance = None => other # arg[e]
      BY <1>2
    <3>2. Pending(other) /\ other # arg[e] => Pending(other)'
      BY <1>1, <2>1 DEF Pending, SyncTasks
    <3> QED
      BY <1>1, <1>2, <3>1, <3>2 DEF SyncInv, Fresh
  <2>3. src' \in [Sources -> Managers]
    BY <1>1 DEF SyncInv, SyncTypeOK
  <2> QED
    BY <1>1, <1>2, <2>1, <2>2, <2>3, StaysOutside
<1>3. CASE ~Contended /\ Syncronize(e)
  BY <1>1, <1>3, SyncronizeKeeps DEF Contended
<1>4. CASE /\ Goto(e, "queued")
           /\ UNCHANGED <<arg, own, instance, ownLock, srcLock>>
  <2>1. \A u \in SyncTasks \ {e} : arg'[u] = arg[u] /\ at'[u] = at[u]
    BY <1>1, <1>4 DEF SyncInv, SyncTypeOK, Goto
  <2>2. at'[e] = "queued" /\ arg' = arg /\ arg' \in [SyncTasks -> Sources \cup {None}]
        /\ arg'[e] # None
    BY <1>1, <1>4 DEF SyncInv, SyncTypeOK, Goto
  <2>3. Fresh'
    BY <1>1, <1>4, <2>1, <2>2 DEF SyncInv, Fresh, Pending, SyncTasks
  <2>4. src' \in [Sources -> Managers]
    BY <1>1 DEF SyncInv, SyncTypeOK
  <2> QED
    BY <1>1, <1>4, <2>1, <2>2, <2>3, <2>4, StaysOutside
<1> QED
  BY <1>2, <1>3, <1>4 DEF OnOtherStateChanged

(* A notification gets the lock it waited for.                             *)
LEMMA NotifiedGoesOnKeeps ==
  ASSUME SyncInv, NEW e \in Events, StateChangedGoesOn(e)
  PROVE  SyncInv'
<1>1. e \in SyncTasks /\ e \notin Callers /\ UNCHANGED <<src, other, bound>>
  BY DEF StateChangedGoesOn, SyncTasks
<1>2. CASE at[e] = "queued" /\ instance = None /\ Syncronize(e)
  BY <1>1, <1>2, SyncronizeKeeps
<1>3. CASE at[e] \in {"wantSource", "wantOwn"} /\ Copy(e, arg[e])
  <2>1. e \in Inside
    BY <1>1, <1>3 DEF Inside
  <2>2. instance = e /\ arg[e] = other /\ other \in Sources /\ bound = {other}
    BY <2>1, EventInside
  <2>3. /\ Release(e) /\ own' = src[other'] /\ bound' = {other'} \ {None}
        /\ other' \in Sources
    BY <1>1, <1>3, <2>2 DEF Copy
  <2>4. own' \in Managers
    BY <1>1, <2>2, <2>3 DEF SyncInv, SyncTypeOK
  <2> QED
    BY <1>1, <2>2, <2>3, <2>4, EndsWell
<1>4. CASE /\ at[e] = "wantSource"
           /\ srcLock' = [srcLock EXCEPT ![arg[e]] = e]
           /\ Suspend(e, arg[e], "wantOwn")
           /\ UNCHANGED ownLock
  <2>1. e \in Inside
    BY <1>1, <1>4 DEF Inside
  <2>2. /\ instance = e /\ arg[e] = other /\ other \in Sources /\ bound = {other}
        /\ ownLock \in {None, Outside} /\ srcLock \in [Sources -> {None, Outside}]
    BY <2>1, <1>4, EventInside
  <2>3. srcLock' \in [Sources -> {None, Outside, e}]
    BY <1>4, <2>2
  <2>4. Suspend(e, other', "wantOwn") /\ other' \in Sources /\ bound' = {other'}
    BY <1>1, <1>4, <2>2
  <2> QED
    BY <1>1, <1>4, <2>2, <2>3, <2>4, WaitsWell
<1> QED
  BY <1>2, <1>3, <1>4 DEF StateChangedGoesOn

(* A source changes: while it is listened to, somebody is told.            *)
LEMMA SourceChangesKeeps ==
  ASSUME SyncInv, NEW m \in Sources, SourceChanges(m)
  PROVE  SyncInv'
<1>1. src' \in [Sources -> Managers] /\ \A n \in Sources \ {m} : src'[n] = src[n]
  <2>1. CASE \E a \in SourceArgs : src' = [src EXCEPT ![m] = SetState(@, a)]
    <3>1. PICK a \in SourceArgs : src' = [src EXCEPT ![m] = SetState(@, a)]
      BY <2>1
    <3>2. a \in SUBSET Flags
      BY DEF Flags
    <3>3. SetState(src[m], a) \in Managers
      BY <3>2, SetStateIsManager DEF SyncInv, SyncTypeOK
    <3> QED
      BY <3>1, <3>3 DEF SyncInv, SyncTypeOK
  <2>2. CASE \E why \in Whys : src' = [src EXCEPT ![m] = SetFailure(@, why)]
    <3>1. PICK why \in Whys : src' = [src EXCEPT ![m] = SetFailure(@, why)]
      BY <2>2
    <3>2. SetFailure(src[m], why) \in Managers
      BY DEF SetFailure, Managers, Flags, Reasons, NoReason
    <3> QED
      BY <3>1, <3>2 DEF SyncInv, SyncTypeOK
  <2> QED
    BY <2>1, <2>2 DEF SourceChanges
<1>2. UNCHANGED <<own, other, bound, instance, ownLock, srcLock>>
  BY DEF SourceChanges
<1>3. CASE m \notin bound /\ UNCHANGED <<at, arg>>
  <2>1. instance = None => other # m
    BY <1>3 DEF SyncInv, Listening, SyncTypeOK
  <2>2. Fresh'
    BY <1>1, <1>2, <1>3, <2>1 DEF SyncInv, SyncTypeOK, Fresh, Pending
  <2> QED
    BY <1>1, <1>2, <1>3, <2>2
    DEF SyncInv, SyncTypeOK, Holder, Held, Followed, Listening, Inside
<1>4. CASE m \in bound /\ \E e \in Events : /\ at[e] = "idle"
                                           /\ Goto(e, "scheduled")
                                           /\ arg' = [arg EXCEPT ![e] = m]
  <2>1. PICK e \in Events : /\ at[e] = "idle"
                            /\ Goto(e, "scheduled")
                            /\ arg' = [arg EXCEPT ![e] = m]
    BY <1>4
  <2>2. /\ e \in SyncTasks /\ e \notin Callers /\ e \notin Inside
        /\ arg' \in [SyncTasks -> Sources \cup {None}] /\ arg'[e] = m /\ m # None
        /\ at'[e] = "scheduled"
        /\ \A u \in SyncTasks \ {e} : arg'[u] = arg[u] /\ at'[u] = at[u]
    BY <2>1 DEF SyncTasks, Inside, SyncInv, SyncTypeOK, Goto
  <2>3. Fresh'
    <3>1. CASE other = m
      BY <1>2, <2>2, <3>1 DEF Fresh, Pending
    <3>2. CASE other # m
      <4>1. Pending(other) => Pending(other)'
        BY <1>2, <2>1, <2>2 DEF Pending, SyncTasks
      <4> QED
        BY <1>1, <1>2, <3>2, <4>1 DEF SyncInv, SyncTypeOK, Fresh
    <3> QED
      BY <3>1, <3>2
  <2> QED
    BY <1>1, <1>2, <2>1, <2>2, <2>3, StaysOutside
<1> QED
  BY <1>3, <1>4 DEF SourceChanges

(* Whoever else takes or leaves a lock does not touch the tasks' locks.    *)
LEMMA OutsidersKeep ==
  ASSUME SyncInv, \/ Grab \/ ReleaseOwn \/ \E m \in Sources : ReleaseSource(m)
  PROVE  SyncInv'
<1>1. UNCHANGED <<own, src, other, bound, instance, at, arg>>
  BY DEF Grab, ReleaseOwn, ReleaseSource
<1>2. Inside' = Inside
  BY <1>1 DEF Inside
<1>3. /\ ownLock' \in Inside \cup {None, Outside}
      /\ ownLock' \in {ownLock, None, Outside}
  BY DEF Grab, ReleaseOwn, ReleaseSource, SyncInv, SyncTypeOK
<1>4. /\ srcLock' \in [Sources -> Inside \cup {None, Outside}]
      /\ \A m \in Sources : srcLock'[m] \in {srcLock[m], None, Outside}
  BY DEF Grab, ReleaseOwn, ReleaseSource, SyncInv, SyncTypeOK
<1>5. SyncTypeOK' /\ Holder' /\ Followed' /\ Listening'
  BY <1>1, <1>2, <1>3, <1>4 DEF SyncInv, SyncTypeOK, Holder, Followed, Listening
<1>6. Held'
  BY <1>1, <1>3, <1>4 DEF SyncInv, Held
<1>7. Fresh'
  BY <1>1 DEF SyncInv, Fresh, Pending
<1> QED
  BY <1>5, <1>6, <1>7 DEF SyncInv

(* The config announces its own attempt while nothing is followed.         *)
LEMMA OwnAttemptKeeps ==
  ASSUME SyncInv, OwnAttempt
  PROVE  SyncInv'
<1>1. /\ other = None /\ own' = SetState(own, {"connecting"})
      /\ UNCHANGED <<src, other, bound, instance, ownLock, srcLock, at, arg>>
  BY DEF OwnAttempt
<1>2. own' \in Managers
  BY <1>1, SetStateIsManager DEF SyncInv, SyncTypeOK, Flags
<1> QED
  BY <1>1, <1>2
  DEF SyncInv, SyncTypeOK, Holder, Held, Followed, Listening, Fresh, Pending, Inside

-----------------------------------------------------------------------------
(* The initial states satisfy the invariant.                               *)
LEMMA SyncInitInv == SyncInit => SyncInv
<1> SUFFICES ASSUME SyncInit PROVE SyncInv
  OBVIOUS
<1>1. Inside = {}
  BY DEF SyncInit, Inside
<1>2. InitManager \in Managers
  BY DEF InitManager, Managers, ValidStates, Flags
<1>3. SyncTypeOK
  BY <1>1, <1>2 DEF SyncInit, SyncTypeOK, SyncTasks
<1>4. Holder /\ Held /\ Followed
  BY <1>1, <1>3 DEF SyncInit, SyncTypeOK, Holder, Held, Followed
<1>5. Listening /\ Fresh
  BY DEF SyncInit, Listening, Fresh, SyncTasks
<1> QED
  BY <1>3, <1>4, <1>5 DEF SyncInv

(* Every step keeps it.                                                    *)
LEMMA SyncNextInv == SyncInv /\ [SyncNext]_syncVars => SyncInv'
<1> SUFFICES ASSUME SyncInv, [SyncNext]_syncVars PROVE SyncInv'
  OBVIOUS
<1>1. CASE UNCHANGED syncVars
  BY <1>1
  DEF syncVars, SyncInv, SyncTypeOK, Holder, Held, Followed, Listening, Fresh, Pending, Inside
<1>2. CASE \E t \in Callers : SetOther(t) \/ SetOtherGoesOn(t)
  BY <1>2, SetOtherKeeps, SetOtherGoesOnKeeps
<1>3. CASE \E e \in Events : OnOtherStateChanged(e) \/ StateChangedGoesOn(e)
  BY <1>3, NotifiedKeeps, NotifiedGoesOnKeeps
<1>4. CASE \E m \in Sources : SourceChanges(m)
  BY <1>4, SourceChangesKeeps
<1>5. CASE Grab \/ ReleaseOwn \/ \E m \in Sources : ReleaseSource(m)
  BY <1>5, OutsidersKeep
<1>6. CASE OwnAttempt
  BY <1>6, OwnAttemptKeeps
<1> QED
  BY <1>1, <1>2, <1>3, <1>4, <1>5, <1>6 DEF SyncNext

(* The invariant holds in every reachable state.                           *)
LEMMA SyncInvariance == SyncSpec => []SyncInv
BY SyncInitInv, SyncNextInv, PTL DEF SyncSpec

(* Types: in particular, no task that has ended still has a lock.          *)
THEOREM SyncTypeCorrect == SyncSpec => []SyncTypeOK
<1>1. SyncInv => SyncTypeOK
  BY DEF SyncInv
<1> QED
  BY <1>1, SyncInvariance, PTL

(* SyncronizedConnectionManager shows its source: it listens to it and to  *)
(* nothing else, and shows its state once no notification waits.           *)
THEOREM FollowsItsSource == SyncSpec => []FollowsTheSource
<1>1. SyncInv => FollowsTheSource
  <2> SUFFICES ASSUME SyncInv PROVE FollowsTheSource
    OBVIOUS
  <2>1. instance \in SyncTasks \cup {None}
    BY DEF SyncInv, SyncTypeOK, Inside
  <2>2. bound \subseteq {other}
    BY <2>1 DEF SyncInv, Listening, SyncTasks
  <2> QED
    BY <2>2 DEF SyncInv, Listening, Fresh, FollowsTheSource
<1> QED
  BY <1>1, SyncInvariance, PTL

(* set_other takes own before source, _on_other_state_changed source       *)
(* before own, and yet no task of the manager waits for another of them.   *)
THEOREM NoCycle == SyncSpec => []NoLockCycle
<1>1. SyncInv => NoLockCycle
  <2> SUFFICES ASSUME SyncInv, NEW t \in SyncTasks
               PROVE  /\ at[t] = "wantOwn" => ownLock \in {None, Outside}
                      /\ at[t] = "wantSource" => srcLock[arg[t]] \in {None, Outside}
    BY DEF NoLockCycle
  <2> SUFFICES ASSUME t \in Inside
               PROVE  /\ at[t] = "wantOwn" => ownLock \in {None, Outside}
                      /\ at[t] = "wantSource" => srcLock[arg[t]] \in {None, Outside}
    BY DEF Inside
  <2>1. CASE t \in Callers
    <3>1. at[t] = "wantSource" => arg[t] \in Sources
      BY DEF SyncInv, SyncTypeOK, Followed
    <3> QED
      BY <2>1, <3>1, CallerInside
  <2>2. CASE t \in Events
    BY <2>2, EventInside
  <2> QED
    BY <2>1, <2>2 DEF SyncTasks
<1> QED
  BY <1>1, SyncInvariance, PTL

-----------------------------------------------------------------------------
(* What a step may write to the manager.                                   *)
LEMMA WritesTheSource ==
  ASSUME SyncInv, SyncNext
  PROVE  own' # own => other' = None \/ own' = src[other']
<1>1. ASSUME NEW t \in Callers, SetOther(t)
      PROVE  own' # own => other' = None \/ own' = src[other']
  BY <1>1 DEF SetOther, Switch, Follow, Copy, Suspend
<1>2. ASSUME NEW t \in Callers, SetOtherGoesOn(t)
      PROVE  own' # own => other' = None \/ own' = src[other']
  <2>1. t \in SyncTasks /\ (at[t] \in {"wantOwn", "wantSource"} => arg[t] = other)
    BY DEF SyncTasks, Inside, SyncInv, Followed
  <2> QED
    BY <1>2, <2>1 DEF SetOtherGoesOn, Switch, Follow, Copy, Suspend
<1>3. ASSUME NEW e \in Events, OnOtherStateChanged(e) \/ StateChangedGoesOn(e)
      PROVE  own' # own => other' = None \/ own' = src[other']
  <2>1. e \in SyncTasks /\ (at[e] \in {"wantOwn", "wantSource"} => arg[e] = other)
    BY DEF SyncTasks, Inside, SyncInv, Followed
  <2> QED
    BY <1>3, <2>1 DEF OnOtherStateChanged, StateChangedGoesOn, Syncronize, Copy, Suspend
<1>4. ASSUME \/ \E m \in Sources : SourceChanges(m) \/ ReleaseSource(m)
             \/ Grab \/ ReleaseOwn \/ OwnAttempt
      PROVE  own' # own => other' = None \/ own' = src[other']
  BY <1>4 DEF SourceChanges, ReleaseSource, Grab, ReleaseOwn, OwnAttempt
<1> QED
  BY <1>1, <1>2, <1>3, <1>4 DEF SyncNext

(* What the manager is set to is the state of the source it follows then:  *)
(* a notification of an earlier source changes nothing.                    *)
THEOREM NothingStaleGetsIn == SyncSpec => NothingStale
<1>1. SyncInv /\ [SyncNext]_syncVars
        => [own' # own => other' = None \/ own' = src[other']]_syncVars
  BY WritesTheSource
<1> QED
  BY <1>1, SyncInvariance, PTL DEF SyncSpec, NothingStale
=============================================================================
