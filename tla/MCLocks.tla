-------------------------------- MODULE MCLocks -------------------------------
(***************************************************************************)
(* Model values for the queue lock, MCSLock, and for robust mutexes.  One  *)
(* run checks the safety of three scenes side by side, which share no      *)
(* state: "queue", the lock with events for every wait (MCSLock under its  *)
(* own names); "events", the lock of the threads Starved, for whom         *)
(* CreateEvent may fail; "robust", the mutex of the threads Users.         *)
(***************************************************************************)
EXTENDS MCSLock, TLC

CONSTANTS
  t1, t2, t3, k,
  Starved,
  Users, NoThread, Kinds, MaxCount, Ops, TimedKinds  \* as in RobustMutex

Three  == {t1, t2, t3, k}
Keeper == {k}

Symmetry == Permutations({t1, t2, t3})

VARIABLES
  scene,
  xlock, xnext, xflag, xev, xpc, xnode, xpeer, xarg, xret, xproxyHeld, xqueue,
  mutex, kind, lock_idx, event, owner, count, state, lists, rpc, op, result, held

X == INSTANCE MCSLock WITH
       Threads <- Starved, Keepers <- {}, EventExhaustion <- TRUE, lock <- xlock,
       next <- xnext, flag <- xflag, ev <- xev, pc <- xpc, node <- xnode, peer <- xpeer,
       arg <- xarg, ret <- xret, proxyHeld <- xproxyHeld, queue <- xqueue

R == INSTANCE RobustMutex WITH Threads <- Users, pc <- rpc

eventVars  == <<xlock, xnext, xflag, xev, xpc, xnode, xpeer, xarg, xret, xproxyHeld, xqueue>>
robustVars == <<mutex, kind, lock_idx, event, owner, count, state, lists, rpc, op, result,
                held>>
allVars    == <<scene, vars, eventVars, robustVars>>

ScenesInit ==
  /\ scene \in {"queue", "events", "robust"}
  /\ Init /\ X!Init /\ R!Init
  /\ scene # "robust" => kind = "normal"

QueueNext == scene = "queue" /\ Next /\ UNCHANGED <<scene, eventVars, robustVars>>

\* Without the waits of the lock threads come and go at will: a bound on how
\* far the history may run ahead.
MaxQueue == Len(xqueue) <= 3

EventsNext == scene = "events" /\ X!Next /\ UNCHANGED <<scene, vars, robustVars>>

RobustNext == scene = "robust" /\ R!Next /\ UNCHANGED <<scene, vars, eventVars>>

\* A thread that returned without having waited may have come to an end; in the
\* other scenes that would be a deadlock.
MayEnd == scene = "events" /\ UNCHANGED allVars

ScenesNext == QueueNext \/ EventsNext \/ RobustNext \/ MayEnd

ScenesSpec == ScenesInit /\ [][ScenesNext]_allVars

-----------------------------------------------------------------------------
\* MCSLock: no path through the flag routines leaks an event, also when
\* CreateEvent fails for some waits and they go ahead without one.
EventsClosed == X!NoHandleLeak

\* RobustMutex: one holder, also across the death of an owner; between calls the
\* holder, ownerThread and robustMxList agree; and nobody is told 0 about a state
\* that may be inconsistent.
RobustSound ==
  R!TypeOK /\ R!MutualExclusion /\ R!OwnershipRecorded /\ R!DeathIsReported

Owned == INSTANCE OwnedLock WITH
  Threads <- Users, exists <- mutex = "live", depth <- held, health <- state

\* RobustMutex: the mutex passes from a holder only when that unlocks it or dies;
\* after a death one thread takes it over, is told, and has it repaired or lost
\* before anybody else has it: the abstract lock.
TakeoverSpec == Owned!Spec
=============================================================================
