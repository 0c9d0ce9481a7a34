------------------------- MODULE SyncronizedManager -------------------------
(***************************************************************************)
(* common.SyncronizedConnectionManager: the manager a device config shows  *)
(* to its observers, which follows the manager of whatever backend the     *)
(* config has at the moment.                                               *)
(*                                                                         *)
(* Tasks run set_other and, once for every change of a source that is      *)
(* listened to, _on_other_state_changed.  Three kinds of locks are taken:  *)
(* the instance lock, the manager's own, and that of a source.  A free     *)
(* lock is taken without a suspension, so that a task only stops where a   *)
(* lock is held; the two kinds of tasks take the last two in opposite      *)
(* orders.  Which of several waiters gets a lock first is left open.       *)
(*                                                                         *)
(* bind_async and unbind belong to python-dispatch: an emission schedules  *)
(* a task, and unbind does not take back what is scheduled already.        *)
(*                                                                         *)
(* No name is one of ConnectionManager's: ManagerProofs extends both.      *)
(***************************************************************************)
EXTENDS ConnectionState

CONSTANTS
  Sources,    \* managers of backends
  Callers,    \* tasks that call set_other
  Events,     \* runs of _on_other_state_changed: how many may be pending at once
  SourceArgs, \* arguments of set_state on a source
  Whys,       \* reasons of its set_failure
  None,       \* no manager, no task
  Outside     \* whoever else holds a lock across a suspension

SyncTasks == Callers \cup Events

ASSUME SyncConstantsAssumption ==
  /\ Callers \cap Events = {}
  /\ None \notin Sources \cup SyncTasks
  /\ Outside \notin SyncTasks \cup {None}
  /\ SourceArgs \subseteq {{"not_connected"}, {"connecting"},
                           {"disconnecting"}, {"connected"}}
  /\ Whys \subseteq Reasons

VARIABLES
  own,        \* this manager's own state and reason
  src,        \* those of each source
  other,      \* self.other
  bound,      \* the sources that notify this manager
  instance,   \* who holds the instance lock
  ownLock,    \* who holds this manager's lock
  srcLock,    \* who holds each source's lock
  at,         \* where each task is suspended
  arg         \* set_other's argument; the instance of a notification

syncVars == <<own, src, other, bound, instance, ownLock, srcLock, at, arg>>

\* Tasks suspended inside the instance lock.
Inside == {t \in SyncTasks : at[t] \in {"wantOwn", "wantSource"}}

\* No task is left with a lock once it has ended.
SyncTypeOK ==
  /\ own \in Managers
  /\ src \in [Sources -> Managers]
  /\ other \in Sources \cup {None}
  /\ bound \subseteq Sources
  /\ at \in [SyncTasks ->
             {"idle", "scheduled", "queued", "wantOwn", "wantSource"}]
  /\ \A t \in Callers : at[t] # "scheduled"
  /\ arg \in [SyncTasks -> Sources \cup {None}]
  /\ \A e \in Events : arg[e] = None <=> at[e] = "idle"
  /\ instance \in Inside \cup {None}
  /\ ownLock \in Inside \cup {None, Outside}
  /\ srcLock \in [Sources -> Inside \cup {None, Outside}]

SyncInit ==
  /\ own = InitManager
  /\ src = [m \in Sources |-> InitManager]
  /\ other = None
  /\ bound = {}
  /\ instance = None
  /\ ownLock = None
  /\ srcLock = [m \in Sources |-> None]
  /\ at = [t \in SyncTasks |-> "idle"]
  /\ arg = [t \in SyncTasks |-> None]

Goto(t, place) == at' = [at EXCEPT ![t] = place]

-----------------------------------------------------------------------------
(* Sources and other users of the locks.                                   *)

\* One locked block of a backend.  Every change is emitted, under the lock.
SourceChanges(m) ==
  /\ srcLock[m] = None
  /\ \/ /\ \E a \in SourceArgs : src' = [src EXCEPT ![m] = SetState(@, a)]
        /\ src'[m].state # src[m].state
     \/ \E why \in Whys : src' = [src EXCEPT ![m] = SetFailure(@, why)]
  /\ \/ m \notin bound /\ UNCHANGED <<at, arg>>
     \/ /\ m \in bound
        /\ \E e \in Events : /\ at[e] = "idle"
                             /\ Goto(e, "scheduled")
                             /\ arg' = [arg EXCEPT ![e] = m]
  /\ UNCHANGED <<own, other, bound, instance, ownLock, srcLock>>

\* wait_for with a timeout holds a manager's lock across suspensions.
Grab == \/ /\ ownLock = None
           /\ ownLock' = Outside
           /\ UNCHANGED <<own, src, other, bound, instance, srcLock, at, arg>>
        \/ \E m \in Sources :
             /\ srcLock[m] = None
             /\ srcLock' = [srcLock EXCEPT ![m] = Outside]
             /\ UNCHANGED <<own, src, other, bound, instance, ownLock, at, arg>>

ReleaseOwn == /\ ownLock = Outside
              /\ ownLock' = None
              /\ UNCHANGED <<own, src, other, bound, instance, srcLock, at, arg>>

ReleaseSource(m) ==
  /\ srcLock[m] = Outside
  /\ srcLock' = [srcLock EXCEPT ![m] = None]
  /\ UNCHANGED <<own, src, other, bound, instance, ownLock, at, arg>>

\* DeviceConfigBase.build_backend, which runs before the config is used by
\* anybody else: between set_other(None) and set_other(backend).
OwnAttempt ==
  /\ other = None /\ instance = None /\ ownLock = None
  /\ own' = SetState(own, {"connecting"})
  /\ UNCHANGED <<src, other, bound, instance, ownLock, srcLock, at, arg>>

-----------------------------------------------------------------------------
(* The end of both kinds of tasks.                                         *)

Finish(t) == Goto(t, "idle") /\ arg' = [arg EXCEPT ![t] = None]

\* Mutant: the source's lock is not released.
Bug_KeepSourceLock(t) ==
  /\ instance' = None
  /\ ownLock' = IF ownLock = t THEN None ELSE ownLock
  /\ Finish(t)
  /\ UNCHANGED srcLock

\* t leaves every "async with" it is in.
Release(t) ==
  /\ instance' = None
  /\ ownLock' = IF ownLock = t THEN None ELSE ownLock
  /\ srcLock' = [m \in Sources |-> IF srcLock[m] = t THEN None ELSE srcLock[m]]
  /\ Finish(t)

\* _syncronize copies what the source is now, not what was emitted.
Copy(t, m) == own' = src[m] /\ Release(t)

\* t, which runs with x, is suspended inside the instance lock.
Suspend(t, x, place) == /\ instance' = t
                        /\ Goto(t, place)
                        /\ arg' = [arg EXCEPT ![t] = x]
                        /\ UNCHANGED own

\* Mutant: the instance lock keeps nobody out.
Bug_NoInstanceLock == FALSE

\* The instance lock is not to be had without queueing for it.
Contended == instance # None \/ \E t \in SyncTasks : at[t] = "queued"

-----------------------------------------------------------------------------
(* set_other: instance lock, own lock, source lock.                        *)

\* With the instance and the own lock.
Follow(t, x, listening) ==
  \/ /\ x = None
     /\ own' = SetState(own, {"not_connected"})
     /\ bound' = listening
     /\ Release(t)
  \/ /\ x # None /\ srcLock[x] = None
     /\ Copy(t, x)
     /\ bound' = listening \cup {x}
  \/ /\ x # None /\ srcLock[x] # None
     /\ ownLock' = t
     /\ bound' = listening
     /\ Suspend(t, x, "wantSource")
     /\ UNCHANGED srcLock

\* Mutant: the source left behind keeps notifying.
Bug_KeepListening(t, x) ==
  \/ /\ x = other
     /\ Release(t)
     /\ UNCHANGED <<own, other, bound>>
  \/ /\ x # other
     /\ other' = x
     /\ \/ ownLock = None /\ Follow(t, x, bound)
        \/ /\ ownLock # None
           /\ Suspend(t, x, "wantOwn")
           /\ UNCHANGED <<bound, ownLock, srcLock>>

\* With the instance lock.
Switch(t, x) ==
  \/ /\ x = other
     /\ Release(t)
     /\ UNCHANGED <<own, other, bound>>
  \/ /\ x # other
     /\ other' = x
     /\ \/ ownLock = None /\ Follow(t, x, bound \ {other})
        \/ /\ ownLock # None
           /\ bound' = bound \ {other}
           /\ Suspend(t, x, "wantOwn")
           /\ UNCHANGED <<ownLock, srcLock>>

SetOther(t) ==
  /\ at[t] = "idle"
  /\ \E x \in Sources \cup {None} :
       /\ \/ ~Contended /\ Switch(t, x)
          \/ /\ Contended
             /\ Goto(t, "queued")
             /\ arg' = [arg EXCEPT ![t] = x]
             /\ UNCHANGED <<own, other, bound, instance, ownLock, srcLock>>
  /\ UNCHANGED src

SetOtherGoesOn(t) ==
  /\ \/ at[t] = "queued" /\ instance = None /\ Switch(t, arg[t])
     \/ /\ at[t] = "wantOwn" /\ ownLock = None
        /\ Follow(t, arg[t], bound)
        /\ UNCHANGED other
     \/ /\ at[t] = "wantSource" /\ srcLock[arg[t]] = None
        /\ Copy(t, arg[t])
        /\ bound' = bound \cup {arg[t]}
        /\ UNCHANGED other
  /\ UNCHANGED src

-----------------------------------------------------------------------------
(* _on_other_state_changed: instance lock, source lock, own lock.          *)

\* Mutant: other is not compared again once the instance lock is there.
Bug_NoSecondLook(e) ==
  LET m == arg[e]
  IN  \/ /\ srcLock[m] # None
         /\ Suspend(e, m, "wantSource")
         /\ UNCHANGED <<ownLock, srcLock>>
      \/ /\ srcLock[m] = None /\ ownLock # None
         /\ srcLock' = [srcLock EXCEPT ![m] = e]
         /\ Suspend(e, m, "wantOwn")
         /\ UNCHANGED ownLock
      \/ /\ srcLock[m] = None /\ ownLock = None
         /\ Copy(e, m)

\* With the instance lock: look at other again, then syncronize.
Syncronize(e) ==
  LET m == arg[e]
  IN  \/ /\ other # m
         /\ Release(e)
         /\ UNCHANGED own
      \/ /\ other = m /\ srcLock[m] # None
         /\ Suspend(e, m, "wantSource")
         /\ UNCHANGED <<ownLock, srcLock>>
      \/ /\ other = m /\ srcLock[m] = None /\ ownLock # None
         /\ srcLock' = [srcLock EXCEPT ![m] = e]
         /\ Suspend(e, m, "wantOwn")
         /\ UNCHANGED ownLock
      \/ /\ other = m /\ srcLock[m] = None /\ ownLock = None
         /\ Copy(e, m)

\* Mutant: a notification is dropped whenever the manager's own lock is taken.
Bug_DropWhenBusy(e) ==
  /\ at[e] = "scheduled"
  /\ \/ /\ ownLock # None
        /\ Finish(e)
        /\ UNCHANGED <<own, instance, ownLock, srcLock>>
     \/ ownLock = None /\ ~Contended /\ Syncronize(e)
     \/ /\ ownLock = None /\ Contended
        /\ Goto(e, "queued")
        /\ UNCHANGED <<arg, own, instance, ownLock, srcLock>>
  /\ UNCHANGED <<src, other, bound>>

\* The task runs; it is dropped while somebody holds the instance lock.
OnOtherStateChanged(e) ==
  /\ at[e] = "scheduled"
  /\ \/ /\ instance # None \/ other # arg[e]
        /\ Finish(e)
        /\ UNCHANGED <<own, instance, ownLock, srcLock>>
     \/ /\ other = arg[e] /\ ~Contended
        /\ Syncronize(e)
     \/ /\ instance = None /\ other = arg[e] /\ Contended
        /\ Goto(e, "queued")
        /\ UNCHANGED <<arg, own, instance, ownLock, srcLock>>
  /\ UNCHANGED <<src, other, bound>>

StateChangedGoesOn(e) ==
  /\ \/ at[e] = "queued" /\ instance = None /\ Syncronize(e)
     \/ /\ at[e] = "wantSource" /\ srcLock[arg[e]] = None
        /\ \/ ownLock = None /\ Copy(e, arg[e])
           \/ /\ ownLock # None
              /\ srcLock' = [srcLock EXCEPT ![arg[e]] = e]
              /\ Suspend(e, arg[e], "wantOwn")
              /\ UNCHANGED ownLock
     \/ /\ at[e] = "wantOwn" /\ ownLock = None
        /\ Copy(e, arg[e])
  /\ UNCHANGED <<src, other, bound>>

-----------------------------------------------------------------------------
SyncNext ==
  \/ \E t \in Callers : SetOther(t) \/ SetOtherGoesOn(t)
  \/ \E e \in Events : OnOtherStateChanged(e) \/ StateChangedGoesOn(e)
  \/ \E m \in Sources : SourceChanges(m) \/ ReleaseSource(m)
  \/ Grab \/ ReleaseOwn \/ OwnAttempt

SyncSpec == SyncInit /\ [][SyncNext]_syncVars

-----------------------------------------------------------------------------
(* Properties.                                                             *)

\* A notification of the source in use that has still to be looked at.
Pending(m) ==
  \E e \in Events : at[e] \in {"scheduled", "queued"} /\ arg[e] = m

\* The manager listens to the source it follows and to nothing else; in
\* between, while set_other waits for a lock, to nothing.  When no change waits
\* to be looked at and nobody is at it, it shows the source's state: no
\* notification that is dropped, because another task has the instance lock,
\* is one that was needed.
FollowsTheSource ==
  /\ bound \subseteq {other}
  /\ instance = None => bound = {other} \ {None}
  /\ (other # None /\ instance = None /\ ~Pending(other)) => own = src[other]

\* Nothing of an earlier source gets in after set_other, not even from a
\* notification that was on its way or had to queue.
NothingStale ==
  [][own' # own => other' = None \/ own' = src[other']]_syncVars

\* The two orders in which locks are taken never block each other: whoever a
\* task inside the instance lock waits for is none of this manager's tasks.
NoLockCycle ==
  \A t \in SyncTasks :
    /\ at[t] = "wantOwn" => ownLock \in {None, Outside}
    /\ at[t] = "wantSource" => srcLock[arg[t]] \in {None, Outside}
=============================================================================
