------------------------- MODULE ConnectionManager -------------------------
(***************************************************************************)
(* common.ConnectionManager with its asyncio.Lock and asyncio.Condition:   *)
(* tasks that set the state and tasks that wait for it, each inside        *)
(* "async with manager".                                                   *)
(*                                                                         *)
(* A setter does not suspend between taking and releasing the lock, and a  *)
(* waiter without a timeout only inside Condition.wait, which gives the    *)
(* lock back.  With a timeout, asyncio.wait_for runs Condition.wait_for in *)
(* a task of its own, and the lock is then held across the suspensions     *)
(* before that task starts and after it ends.  Lock and Condition are      *)
(* those of Python 3.7 to 3.9: the lock is first come first served, and a  *)
(* cancelled Condition.wait takes the lock again before it raises.         *)
(***************************************************************************)
EXTENDS ConnectionState, Naturals, Sequences

CONSTANTS
  Setters,     \* tasks that call set_state and set_failure
  Plain,       \* tasks that call wait_for and wait without a timeout
  Timed,       \* tasks that call them with a timeout
  SetArgs,     \* arguments of set_state
  Wants,       \* arguments of wait_for
  NextChange,  \* stands for a call of wait() in the place of an argument
  NoTask

Waiters == Plain \cup Timed
Tasks == Setters \cup Waiters

ASSUME ConstantsAssumption ==
  /\ Setters \cap Waiters = {}
  /\ Plain \cap Timed = {}
  /\ NoTask \notin Tasks
  /\ SetArgs \subseteq {{"not_connected"}, {"connecting"}, {"disconnecting"},
                        {"connected"}}
  /\ Wants \subseteq SUBSET Flags
  /\ NextChange \notin Wants

VARIABLES
  mgr,    \* the state and the failure reason
  owner,  \* who holds the lock across a suspension
  queue,  \* who waits for the lock, in order
  pc,     \* where each task is suspended
  want    \* what each waiter waits for

vars == <<mgr, owner, queue, pc, want>>

\* In wait_for(..., timeout): the lock is held and the inner task is not
\* running: before it starts, after it succeeded, after it was cancelled.
Holding == {"handoff", "resume", "expired"}
\* Waiting for the lock: on entry, after a wake-up, after a cancellation.
Queued == {"entering", "rechecking", "expiring"}
Places == Holding \cup Queued \cup {"idle", "asleep", "notified", "cancelled"}

TypeOK ==
  /\ mgr \in Managers
  /\ owner \in Tasks \cup {NoTask}
  /\ queue \in Seq(Tasks)
  /\ pc \in [Tasks -> Places]
  /\ \A s \in Setters : pc[s] \in {"idle", "entering"}
  /\ want \in [Waiters -> Wants \cup {NextChange}]

Init ==
  /\ mgr = InitManager
  /\ owner = NoTask
  /\ queue = <<>>
  /\ pc = [t \in Tasks |-> "idle"]
  /\ want = [w \in Waiters |-> NextChange]

-----------------------------------------------------------------------------
(* The lock.                                                               *)

\* t can take the lock now: it is free and nobody is ahead of t.
First == IF queue = <<>> THEN NoTask ELSE Head(queue)

HasTurn(t) == owner = NoTask /\ First \in {t, NoTask}

\* Whoever has its turn is first in the queue or finds it empty.
LeaveQueue == queue' = IF queue = <<>> THEN queue ELSE Tail(queue)

Enqueue(t, place) == /\ ~HasTurn(t)
                     /\ queue' = Append(queue, t)
                     /\ pc' = [pc EXCEPT ![t] = place]

-----------------------------------------------------------------------------
(* Setters.                                                                *)

\* Mutant: notify in the place of notify_all.
Bug_NotifyOne(places) ==
  LET asleep == {t \in Tasks : places[t] = "asleep"}
  IN  IF asleep = {} THEN places
      ELSE [places EXCEPT ![CHOOSE t \in asleep : TRUE] = "notified"]

\* Mutant: tasks waiting for the lock are taken for sleeping ones.
Bug_NotifyQueued(places) ==
  [t \in Tasks |-> IF places[t] \in {"asleep", "entering"} THEN "notified"
                   ELSE places[t]]

\* notify_all
Notified(places) ==
  [t \in Tasks |-> IF places[t] = "asleep" THEN "notified" ELSE places[t]]

\* One locked block with one call in it.
Change(s) ==
  /\ \/ \E a \in SetArgs :
          /\ mgr' = SetState(mgr, a)
          /\ pc' = LET after == [pc EXCEPT ![s] = "idle"]
                   IN  IF mgr'.state # mgr.state THEN Notified(after) ELSE after
     \/ \E why \in Reasons :
          /\ mgr' = SetFailure(mgr, why)
          /\ pc' = Notified([pc EXCEPT ![s] = "idle"])

SetterRuns(s) == /\ pc[s] \in {"idle", "entering"}
                 /\ HasTurn(s)
                 /\ Change(s)
                 /\ LeaveQueue
                 /\ UNCHANGED <<owner, want>>

SetterQueues(s) == /\ pc[s] = "idle"
                   /\ Enqueue(s, "entering")
                   /\ UNCHANGED <<mgr, owner, want>>

-----------------------------------------------------------------------------
(* Waiters.                                                                *)

\* wait() is over at the first notification.
Satisfied(x, woken) ==
  IF x = NextChange THEN woken ELSE WaitPredicate(x, mgr.state)

\* With the lock, for the first time: return, or sleep without the lock, or
\* wait, with the lock, for the inner task to start.
Enter(w, x) ==
  \/ /\ Satisfied(x, FALSE)
     /\ pc' = [pc EXCEPT ![w] = "idle"]
     /\ UNCHANGED owner
  \/ /\ ~Satisfied(x, FALSE) /\ w \in Plain
     /\ pc' = [pc EXCEPT ![w] = "asleep"]
     /\ UNCHANGED owner
  \/ /\ ~Satisfied(x, FALSE) /\ w \in Timed
     /\ pc' = [pc EXCEPT ![w] = "handoff"]
     /\ owner' = w

WaitCall(w) == /\ pc[w] = "idle"
               /\ \E x \in Wants \cup {NextChange} :
                    /\ want' = [want EXCEPT ![w] = x]
                    /\ \/ HasTurn(w) /\ Enter(w, x) /\ LeaveQueue
                       \/ Enqueue(w, "entering") /\ UNCHANGED owner
               /\ UNCHANGED mgr

WaitEnters(w) == /\ pc[w] = "entering"
                 /\ HasTurn(w)
                 /\ Enter(w, want[w])
                 /\ LeaveQueue
                 /\ UNCHANGED <<mgr, want>>

\* Condition.wait_for evaluates the predicate again, with the outcome it had
\* a moment ago: the lock was held.
InnerStarts(w) == /\ pc[w] = "handoff"
                  /\ pc' = [pc EXCEPT ![w] = "asleep"]
                  /\ owner' = NoTask
                  /\ UNCHANGED <<mgr, queue, want>>

\* Mutant: whoever is woken returns without looking at the state again.
Bug_NoRecheck(w) ==
  IF w \in Plain THEN pc' = [pc EXCEPT ![w] = "idle"] /\ UNCHANGED owner
                 ELSE pc' = [pc EXCEPT ![w] = "resume"] /\ owner' = w

\* With the lock again after a wake-up: Condition.wait_for looks once more.
Recheck(w) ==
  \/ /\ ~Satisfied(want[w], TRUE)
     /\ pc' = [pc EXCEPT ![w] = "asleep"]
     /\ UNCHANGED owner
  \/ /\ Satisfied(want[w], TRUE) /\ w \in Plain
     /\ pc' = [pc EXCEPT ![w] = "idle"]
     /\ UNCHANGED owner
  \/ /\ Satisfied(want[w], TRUE) /\ w \in Timed
     /\ pc' = [pc EXCEPT ![w] = "resume"]
     /\ owner' = w

WakeUp(w) == /\ pc[w] = "notified"
             /\ \/ HasTurn(w) /\ Recheck(w) /\ LeaveQueue
                \/ Enqueue(w, "rechecking") /\ UNCHANGED owner
             /\ UNCHANGED <<mgr, want>>

Rechecks(w) == /\ pc[w] = "rechecking"
               /\ HasTurn(w)
               /\ Recheck(w)
               /\ LeaveQueue
               /\ UNCHANGED <<mgr, want>>

\* Mutant: a cancelled wait stays in the queue of the lock.
Bug_StaysQueued(w) ==
  /\ w \in Timed
  /\ pc[w] \in {"handoff", "asleep", "notified", "rechecking"}
  /\ pc' = [pc EXCEPT ![w] = IF pc[w] = "handoff" THEN "expired" ELSE "cancelled"]
  /\ UNCHANGED <<mgr, owner, queue, want>>

\* The queue without w: its future is removed from where it is.
Without(w) ==
  LET place == CHOOSE i \in DOMAIN queue : queue[i] = w
  IN  [i \in 1..(Len(queue) - 1) |-> queue[IF i < place THEN i ELSE i + 1]]

\* The timer fires: the inner task is cancelled where it is.  It had not
\* started, or it sleeps or is about to wake, or it loses its place in the
\* queue.
Timeout(w) ==
  /\ w \in Timed
  /\ \/ /\ pc[w] = "handoff"
        /\ pc' = [pc EXCEPT ![w] = "expired"]
        /\ UNCHANGED queue
     \/ /\ pc[w] \in {"asleep", "notified"}
        /\ pc' = [pc EXCEPT ![w] = "cancelled"]
        /\ UNCHANGED queue
     \/ /\ pc[w] = "rechecking"
        /\ pc' = [pc EXCEPT ![w] = "cancelled"]
        /\ queue' = Without(w)
  /\ UNCHANGED <<mgr, owner, want>>

\* Mutant: a cancelled wait raises without the lock.
Bug_RaiseUnlocked(w) == /\ pc[w] = "cancelled"
                        /\ pc' = [pc EXCEPT ![w] = "expired"]
                        /\ UNCHANGED <<mgr, owner, queue, want>>

\* Condition.wait takes the lock again and re-raises.
Reacquire(w) == /\ pc[w] = "cancelled"
                /\ \/ /\ HasTurn(w)
                      /\ pc' = [pc EXCEPT ![w] = "expired"]
                      /\ owner' = w
                      /\ LeaveQueue
                   \/ Enqueue(w, "expiring") /\ UNCHANGED owner
                /\ UNCHANGED <<mgr, want>>

Expires(w) == /\ pc[w] = "expiring"
              /\ HasTurn(w)
              /\ pc' = [pc EXCEPT ![w] = "expired"]
              /\ owner' = w
              /\ LeaveQueue
              /\ UNCHANGED <<mgr, want>>

\* The outer task goes on, with the state or with TimeoutError, and leaves
\* "async with".
Leave(w) == /\ pc[w] \in {"resume", "expired"}
            /\ pc' = [pc EXCEPT ![w] = "idle"]
            /\ owner' = NoTask
            /\ UNCHANGED <<mgr, queue, want>>

-----------------------------------------------------------------------------
SetterStep(s) == SetterRuns(s) \/ SetterQueues(s)

\* What the event loop runs of a call that was made.
WaiterGoesOn(w) == \/ WaitEnters(w) \/ InnerStarts(w) \/ WakeUp(w)
                   \/ Rechecks(w) \/ Reacquire(w) \/ Expires(w) \/ Leave(w)

Next == \/ \E s \in Setters : SetterStep(s)
        \/ \E w \in Waiters : WaitCall(w) \/ WaiterGoesOn(w) \/ Timeout(w)

Spec == Init /\ [][Next]_vars

\* Nobody has to set a state or to wait for one, and timers may be long.
Fairness ==
  /\ \A s \in Setters : WF_vars(pc[s] = "entering" /\ SetterRuns(s))
  /\ \A w \in Waiters : WF_vars(WaiterGoesOn(w))

FairSpec == Spec /\ Fairness

-----------------------------------------------------------------------------
(* Properties.                                                             *)

\* Whatever is set, one lifecycle flag; failure and reason go together.
ManagerWellFormed == WellFormed(mgr)

\* A task that will leave "async with" holds the lock, and nobody else does:
\* wait_for with a timeout never releases a lock that is not its own.
OwnerHolds == \A w \in Waiters : pc[w] \in Holding <=> owner = w

\* The state is one that w asked wait_for to wait for.
Matches(w) ==
  IF want[w] = NextChange THEN FALSE ELSE WaitPredicate(want[w], mgr.state)

\* No task sleeps through the state it waits for: between the predicate and
\* the sleep nothing changes, and every change notifies.
NoLostWakeup == \A w \in Waiters : pc[w] = "asleep" => ~Matches(w)

\* wait_for with a timeout that succeeded returns a state that satisfies it,
\* although the caller resumes later than the inner task.
ResumesSatisfied ==
  \A w \in Waiters : pc[w] = "resume" => Matches(w) \/ want[w] = NextChange

\* The lock's queue holds exactly those who wait for it, once.
QueueIsSound ==
  /\ \A t \in Tasks : pc[t] \in Queued <=> \E i \in DOMAIN queue : queue[i] = t
  /\ \A i, j \in DOMAIN queue : queue[i] = queue[j] => i = j

\* Both hold of asyncio.Lock and Condition as wait_for uses them.
LockIsSound == OwnerHolds /\ QueueIsSound

\* A waiter whose state has come and stays returns.
StableStateIsNoticed ==
  \A w \in Waiters :
    (pc[w] # "idle" /\ Matches(w)) ~> (pc[w] = "idle" \/ ~Matches(w))
=============================================================================
