----------------------------- MODULE LocksProofs ------------------------------
(***************************************************************************)
(* What the scenes "robust" and "events" of MCLocks check, for all values  *)
(* of their constants: a robust mutex has one holder, who is recorded,     *)
(* across the deaths of owners; the queue lock leaks no event.             *)
(*                                                                         *)
(* For a robust mutex neither the exclusion of holders nor their record is *)
(* inductive alone: who may take the mutex depends on lock_idx and on      *)
(* stateInconsistent, and these on where the holder is.  RobustInv says    *)
(* how they hang together.                                                 *)
(***************************************************************************)
EXTENDS MCLocks, Integers, TLAPS

-----------------------------------------------------------------------------
(* Robust mutexes: the inductive invariant. *)

\* t is recorded as the owner of the mutex: it holds it and is neither about to
\* be recorded nor has given it up.
Recorded(t) == held[t] > 0 /\ rpc[t] \notin {"add", "final", "release", "mark"}

Owners ==
  \A t \in Users : (owner = t <=> Recorded(t)) /\ (t \in lists <=> Recorded(t))

\* Where a holder may be.
Holders ==
  \A t \in Users :
    /\ held[t] > 0 =>
         rpc[t] \in {"idle", "enter", "inherit", "add", "final", "unlock", "release", "mark"}
    /\ rpc[t] \in {"add", "final", "unlock", "release", "mark"} => held[t] > 0
    /\ rpc[t] \in {"add", "final"} => held[t] = 1
    /\ held[t] > 0 /\ rpc[t] = "enter" /\ kind = "normal" => op[t] = "trylock"
    /\ held[t] > 0 /\ rpc[t] = "inherit" => op[t] = "trylock"
    /\ rpc[t] = "enter" /\ op[t] = "timedlock" => kind \in TimedKinds

\* The mutex is locked while it has a holder, or while a dead owner's state is
\* still to be inherited or repaired.
Locked ==
  /\ \A t \in Users : held[t] > 0 => lock_idx # 0 /\ state # "ownerDead"
  /\ state \in {"ownerDead", "inconsistent"} => lock_idx # 0
  /\ \A t \in Users : rpc[t] \in {"unlock", "release"} => state # "inconsistent"

\* recursive_count is the number of the locks of the owner.
Counted ==
  \A t \in Users : Recorded(t) /\ kind = "recursive" =>
    held[t] = count /\ (rpc[t] = "enter" => count < MaxCount)

\* A mutex that has been destroyed is used by nobody.
Unused ==
  mutex = "null" => \A t \in Users : held[t] = 0 /\ rpc[t] \in {"idle", "dead"}

RobustInv ==
  /\ R!TypeOK /\ R!MutualExclusion /\ R!DeathIsReported
  /\ Owners /\ Holders /\ Locked /\ Counted /\ Unused

\* The calls of timedlock for the kind normal are left out: when the mutex is
\* free they do not record the owner.
Legal == R!RobustAssumption /\ "normal" \notin TimedKinds

-----------------------------------------------------------------------------
(* Every step keeps it. *)

LEMMA RobustStep ==
  ASSUME Legal, RobustInv, R!Next
  PROVE  RobustInv'
<1> USE DEF Legal, R!RobustAssumption, RobustInv, R!TypeOK, R!MutualExclusion,
            R!DeathIsReported, Owners, Holders, Locked, Counted, Unused, Recorded,
            R!At, R!Goto, R!Labels, R!mx
\* A free mutex is taken: nobody holds it, and no dead owner's state is due.
<1>1. ASSUME NEW t \in Users, R!ExchangeOne(t) PROVE RobustInv'
  BY <1>1 DEF R!ExchangeOne, R!Acquired, R!Blocking
<1>2. ASSUME NEW t \in Users, R!CompareExchange(t) PROVE RobustInv'
  BY <1>2 DEF R!CompareExchange, R!Acquired, R!Blocking
<1>3. ASSUME NEW t \in Users, R!Swap(t) PROVE RobustInv'
  BY <1>3 DEF R!Swap, R!Acquired, R!TestsWhenWoken
\* A mutex whose owner has died is inherited, by one thread only.
<1>4. ASSUME NEW t \in Users, R!Inherit(t) PROVE RobustInv'
  BY <1>4 DEF R!Inherit, R!Acquired, R!Blocking, R!TestsWhenWoken
<1>5. ASSUME NEW t \in Users, R!DestroyInherits(t) PROVE RobustInv'
  BY <1>5 DEF R!DestroyInherits, R!MayDestroy, R!Acquired
\* The new holder is recorded, or finds that the mutex is lost.
<1>6. ASSUME NEW t \in Users, R!Final(t) PROVE RobustInv'
  BY <1>6 DEF R!Final
<1>7. ASSUME NEW t \in Users, R!Add(t) PROVE RobustInv'
  BY <1>7 DEF R!Add
\* The owner calls, and calls again.
<1>8. ASSUME NEW t \in Users, R!Call(t) PROVE RobustInv'
  BY <1>8 DEF R!Call
<1>9. ASSUME NEW t \in Users, R!Reenter(t) PROVE RobustInv'
  BY <1>9 DEF R!Reenter, R!Blocking
<1>10. ASSUME NEW t \in Users, R!Contend(t) PROVE RobustInv'
  BY <1>10 DEF R!Contend, R!Blocking
\* The owner gives the mutex up.
<1>11. ASSUME NEW t \in Users, R!Unlock(t) \/ R!Consistent(t) PROVE RobustInv'
  BY <1>11 DEF R!Unlock, R!Consistent
<1>12. ASSUME NEW t \in Users, R!Remove(t) PROVE RobustInv'
  BY <1>12 DEF R!Remove
<1>13. ASSUME NEW t \in Users, R!Release(t) PROVE RobustInv'
  BY <1>13 DEF R!Release
\* The owner dies.
<1>14. ASSUME NEW t \in Users, R!Terminate(t) PROVE RobustInv'
  BY <1>14 DEF R!Terminate
<1>15. ASSUME NEW t \in Users, R!Mark(t) PROVE RobustInv'
  BY <1>15 DEF R!Mark
<1>16. ASSUME NEW t \in Users, R!WakeOne(t) PROVE RobustInv'
  BY <1>16 DEF R!WakeOne
<1>17. ASSUME NEW t \in Users, R!Create(t) PROVE RobustInv'
  BY <1>17 DEF R!Create
\* Those who wait hold nothing.
<1>18. ASSUME NEW t \in Users, R!Wake(t) PROVE RobustInv'
  BY <1>18, ZenonT(60) DEF R!Wake, R!TestsWhenWoken
<1>19. ASSUME NEW t \in Users, R!TimeOut(t) \/ R!Woken(t) PROVE RobustInv'
  BY <1>19 DEF R!TimeOut, R!Woken
<1>20. ASSUME NEW t \in Users, R!PassOn(t) PROVE RobustInv'
  BY <1>20 DEF R!PassOn
\* The mutex is destroyed and initialised when nobody holds or uses it.
<1>21. ASSUME NEW t \in Users, R!Destroy(t) PROVE RobustInv'
  BY <1>21 DEF R!Destroy, R!MayDestroy
<1>22. ASSUME NEW t \in Users, R!Reinit(t) PROVE RobustInv'
  <2>1. /\ mutex' = "live" /\ lock_idx' = 0 /\ event' = FALSE /\ owner' = NoThread
        /\ count' = 0 /\ state' = "consistent" /\ kind' \in Kinds
        /\ UNCHANGED <<lists, rpc, op, result, held>>
    BY <1>22 DEF R!Reinit
  <2>2. \A u \in Users : held[u] = 0 /\ rpc[u] \in {"idle", "dead"} /\ u # NoThread
    BY <1>22 DEF R!Reinit
  <2>3. R!TypeOK'
    <3>1. 0 \in 0..MaxCount
      OBVIOUS
    <3>2. /\ mutex' \in {"live", "null"} /\ kind' \in Kinds /\ lock_idx' \in {-1, 0, 1}
          /\ event' \in BOOLEAN /\ owner' \in Users \cup {NoThread}
      BY <2>1
    <3>3. /\ count' \in 0..MaxCount
          /\ state' \in {"consistent", "inconsistent", "notRecoverable", "ownerDead"}
      BY <2>1, <3>1
    <3> QED
      BY <2>1, <3>2, <3>3
  <2> QED
    BY <2>1, <2>2, <2>3
<1> QED
  BY <1>1, <1>2, <1>3, <1>4, <1>5, <1>6, <1>7, <1>8, <1>9, <1>10, <1>11, <1>12, <1>13, <1>14,
     <1>15, <1>16, <1>17, <1>18, <1>19, <1>20, <1>21, <1>22 DEF R!Next, R!Step

LEMMA RobustInit == Legal /\ R!Init => RobustInv
<1> SUFFICES ASSUME Legal, R!Init PROVE RobustInv
  OBVIOUS
<1> USE DEF Legal, R!RobustAssumption, R!Init
<1>1. 0 \in 0..MaxCount
  OBVIOUS
<1>2. R!TypeOK
  BY <1>1 DEF R!TypeOK, R!Labels
<1>3. R!MutualExclusion /\ R!DeathIsReported
  BY DEF R!MutualExclusion, R!DeathIsReported
<1>4. Owners /\ Holders /\ Locked /\ Counted /\ Unused
  BY DEF Owners, Holders, Locked, Counted, Unused, Recorded
<1> QED
  BY <1>2, <1>3, <1>4 DEF RobustInv

LEMMA RobustStutter == RobustInv /\ UNCHANGED R!vars => RobustInv'
BY DEF RobustInv, R!vars, R!mx, R!TypeOK, R!MutualExclusion, R!DeathIsReported, Owners,
       Holders, Locked, Counted, Unused, Recorded

\* However many threads lock, try, wait with a time-out, unlock and die: at most
\* one holds a robust mutex, between calls ownerThread and robustMxList name the
\* holder and nobody else, and nobody is told 0 about a state that a dead owner
\* may have left inconsistent.
THEOREM RobustSafety ==
  ASSUME R!RobustAssumption, "normal" \notin TimedKinds
  PROVE  R!Spec => []RobustSound
<1>1. Legal
  BY DEF Legal
<1>2. RobustInv /\ [R!Next]_(R!vars) => RobustInv'
  BY <1>1, RobustStep, RobustStutter
<1>3. R!Init => RobustInv
  BY <1>1, RobustInit
<1>4. RobustInv => RobustSound
  BY DEF RobustInv, RobustSound, R!OwnershipRecorded, R!At, Owners, Recorded
<1> QED
  BY <1>2, <1>3, <1>4, PTL DEF R!Spec

-----------------------------------------------------------------------------
(* A robust mutex implements the abstract lock.                              *)

\* Only the owner of a recursive mutex holds it more than once; a thread that
\* releases lock_idx holds it once.
HeldOnce ==
  \A t \in Users : held[t] > 1 => kind = "recursive" /\ rpc[t] # "release"

LEMMA RobustHeldOnce ==
  ASSUME Legal, RobustInv, HeldOnce, R!Next
  PROVE  HeldOnce'
<1> USE DEF HeldOnce, RobustInv, R!TypeOK, R!At, R!Goto, R!mx
<1>1. ASSUME NEW t \in Users, R!ExchangeOne(t) \/ R!CompareExchange(t) \/ R!Swap(t)
      PROVE  HeldOnce'
  BY <1>1 DEF R!ExchangeOne, R!CompareExchange, R!Swap, R!Acquired
<1>2. ASSUME NEW t \in Users, R!Inherit(t) \/ R!DestroyInherits(t) PROVE HeldOnce'
  BY <1>2 DEF R!Inherit, R!DestroyInherits, R!Acquired
<1>3. ASSUME NEW t \in Users, R!Reenter(t) PROVE HeldOnce'
  BY <1>3 DEF R!Reenter
<1>4. ASSUME NEW t \in Users, R!Remove(t) PROVE HeldOnce'
  <2>1. kind = "recursive" => held[t] = count
    BY <1>4 DEF R!Remove, Counted, Recorded, Holders
  <2>2. rpc'[t] = "release" => held'[t] <= 1 /\ held'[t] = held[t]
    BY <1>4, <2>1 DEF R!Remove, Legal, R!RobustAssumption
  <2>3. held'[t] > 1 => kind = "recursive"
    BY <1>4, <2>1 DEF R!Remove, Legal, R!RobustAssumption
  <2>4. kind' = kind /\ \A u \in Users : u # t => held'[u] = held[u] /\ rpc'[u] = rpc[u]
    BY <1>4 DEF R!Remove
  <2> QED
    BY <2>2, <2>3, <2>4
<1>5. ASSUME NEW t \in Users, R!Final(t) \/ R!Release(t) \/ R!Mark(t) PROVE HeldOnce'
  BY <1>5 DEF R!Final, R!Release, R!Mark
<1>6. ASSUME NEW t \in Users, R!Call(t) \/ R!Contend(t) \/ R!Wake(t) PROVE HeldOnce'
  BY <1>6 DEF R!Call, R!Contend, R!Wake
<1>7. ASSUME NEW t \in Users, R!TimeOut(t) \/ R!Woken(t) \/ R!PassOn(t) \/ R!Add(t)
      PROVE  HeldOnce'
  BY <1>7 DEF R!TimeOut, R!Woken, R!PassOn, R!Add
<1>8. ASSUME NEW t \in Users, R!Unlock(t) \/ R!Consistent(t) \/ R!Terminate(t) PROVE HeldOnce'
  BY <1>8 DEF R!Unlock, R!Consistent, R!Terminate
<1>9. ASSUME NEW t \in Users, R!WakeOne(t) \/ R!Create(t) \/ R!Destroy(t) PROVE HeldOnce'
  BY <1>9 DEF R!WakeOne, R!Create, R!Destroy
<1>10. ASSUME NEW t \in Users, R!Reinit(t) PROVE HeldOnce'
  BY <1>10 DEF R!Reinit, Unused
<1> QED
  BY <1>1, <1>2, <1>3, <1>4, <1>5, <1>6, <1>7, <1>8, <1>9, <1>10 DEF R!Next, R!Step

\* Every step of a robust mutex is one of the abstract lock, or leaves that as
\* it is.
LEMMA RobustOwnedStep ==
  ASSUME Legal, RobustInv, HeldOnce, R!Next
  PROVE  [Owned!Next]_Owned!vars
<1> USE DEF R!At, R!Goto, R!mx, Owned!vars
\* Who finds lock_idx 0 takes a mutex that nobody holds and whose state is settled.
<1>1. ASSUME NEW t \in Users, lock_idx = 0, rpc[t] \in {"enter", "swap"},
             UNCHANGED <<mutex, state>>, held' = [held EXCEPT ![t] = 1]
      PROVE  Owned!Take(t)
  <2>1. mutex = "live"
    BY <1>1 DEF RobustInv, R!TypeOK, Unused
  <2>2. \A u \in Users : held[u] = 0
    BY <1>1 DEF RobustInv, R!TypeOK, Locked
  <2>3. state \in {"consistent", "notRecoverable"}
    BY <1>1 DEF RobustInv, R!TypeOK, Locked
  <2> QED
    BY <1>1, <2>1, <2>2, <2>3 DEF Owned!Take, Owned!Free
<1>2. ASSUME NEW t \in Users, R!ExchangeOne(t) \/ R!CompareExchange(t) \/ R!Swap(t)
      PROVE  [Owned!Next]_Owned!vars
  <2>1. rpc[t] \in {"enter", "swap"} /\ UNCHANGED <<mutex, state>>
    BY <1>2 DEF R!ExchangeOne, R!CompareExchange, R!Swap
  <2>2. (lock_idx = 0 /\ held' = [held EXCEPT ![t] = 1]) \/ held' = held
    BY <1>2 DEF R!ExchangeOne, R!CompareExchange, R!Swap, R!Acquired
  <2> QED
    BY <1>1, <2>1, <2>2 DEF Owned!Next
\* Who finds that the owner has died takes the mutex over.
<1>3. ASSUME NEW t \in Users, mutex = "live", state = "ownerDead", state' = "inconsistent",
             mutex' = mutex, held' = [held EXCEPT ![t] = 1]
      PROVE  Owned!TakeOver(t)
  <2>1. \A u \in Users : held[u] = 0
    BY <1>3 DEF RobustInv, R!TypeOK, Locked
  <2> QED
    BY <1>3, <2>1 DEF Owned!TakeOver, Owned!Free
<1>4. ASSUME NEW t \in Users, R!Inherit(t) PROVE [Owned!Next]_Owned!vars
  <2>1. mutex = "live" /\ mutex' = mutex
    BY <1>4 DEF RobustInv, R!TypeOK, Unused, R!Inherit
  <2>2. \/ state = "ownerDead" /\ state' = "inconsistent" /\ held' = [held EXCEPT ![t] = 1]
        \/ UNCHANGED <<state, held>>
    BY <1>4 DEF R!Inherit, R!Acquired
  <2> QED
    BY <1>3, <2>1, <2>2 DEF Owned!Next
<1>5. ASSUME NEW t \in Users, R!DestroyInherits(t) PROVE Owned!TakeOver(t)
  BY <1>3, <1>5 DEF R!DestroyInherits, R!MayDestroy, R!Acquired
\* The holder.
<1>6. ASSUME NEW t \in Users, R!Reenter(t) PROVE [Owned!Next]_Owned!vars
  <2>1. held[t] > 0
    BY <1>6 DEF RobustInv, Owners, Recorded, R!Reenter
  <2> QED
    BY <1>6, <2>1 DEF R!Reenter, Owned!Next, Owned!Again
<1>7. ASSUME NEW t \in Users, R!Unlock(t) \/ R!Consistent(t) PROVE [Owned!Next]_Owned!vars
  <2>1. held[t] > 0
    BY <1>7 DEF RobustInv, Owners, Recorded, R!Unlock, R!Consistent
  <2> QED
    BY <1>7, <2>1 DEF R!Unlock, R!Consistent, Owned!Next, Owned!Answer
\* It gives one lock back when the question of the state has been answered.
<1>8. ASSUME NEW t \in Users, state # "inconsistent", held[t] > 0,
             UNCHANGED <<mutex, state>>, held' = [held EXCEPT ![t] = @ - 1]
      PROVE  Owned!GiveBack(t)
  BY <1>8 DEF Owned!GiveBack
<1>9. ASSUME NEW t \in Users, R!Remove(t) PROVE [Owned!Next]_Owned!vars
  <2>1. state # "inconsistent" /\ held[t] > 0
    BY <1>9 DEF RobustInv, Locked, Holders, R!Remove
  <2>2. UNCHANGED <<mutex, state>> /\ (held' = held \/ held' = [held EXCEPT ![t] = @ - 1])
    BY <1>9 DEF R!Remove
  <2> QED
    BY <1>8, <2>1, <2>2 DEF Owned!Next
<1>10. ASSUME NEW t \in Users, held[t] = 1, held' = [held EXCEPT ![t] = 0]
       PROVE  held' = [held EXCEPT ![t] = @ - 1]
  BY <1>10
<1>11. ASSUME NEW t \in Users, R!Release(t) PROVE Owned!GiveBack(t)
  <2>1. held[t] = 1
    BY <1>11 DEF RobustInv, R!TypeOK, Holders, HeldOnce, R!Release
  <2>2. state # "inconsistent" /\ UNCHANGED <<mutex, state>>
    BY <1>11 DEF RobustInv, Locked, R!Release
  <2>3. held' = [held EXCEPT ![t] = 0]
    BY <1>11 DEF R!Release
  <2>4. held' = [held EXCEPT ![t] = @ - 1]
    BY <1>10, <2>1, <2>3
  <2>5. held[t] > 0
    BY <2>1
  <2> QED
    BY <1>8, <2>2, <2>4, <2>5
\* A timedlock that finds in the end that the mutex is lost does not keep it.
<1>12. ASSUME NEW t \in Users, R!Final(t) PROVE [Owned!Next]_Owned!vars
  <2>1. held[t] = 1 /\ UNCHANGED <<mutex, state>>
    BY <1>12 DEF RobustInv, Holders, R!Final
  <2>2. held' = held \/ (held' = [held EXCEPT ![t] = 0] /\ state = "notRecoverable")
    BY <1>12 DEF R!Final
  <2> QED
    BY <1>8, <1>10, <2>1, <2>2 DEF Owned!Next
<1>13. ASSUME NEW t \in Users, R!Mark(t) PROVE Owned!Die(t)
  BY <1>13 DEF RobustInv, Holders, R!Mark, Owned!Die
\* Destruction and initialisation.
<1>14. ASSUME NEW t \in Users, R!Destroy(t) PROVE Owned!Destroy
  <2>1. state \in {"consistent", "notRecoverable"}
    BY <1>14 DEF RobustInv, R!TypeOK, Locked, R!Destroy
  <2> QED
    BY <1>14, <2>1 DEF R!Destroy, R!MayDestroy, Owned!Destroy, Owned!Free
<1>15. ASSUME NEW t \in Users, R!Reinit(t) PROVE Owned!Create
  BY <1>15 DEF R!Reinit, Owned!Create
\* The other steps.
<1>16. ASSUME NEW t \in Users,
              \/ R!Call(t) \/ R!Contend(t) \/ R!Wake(t) \/ R!TimeOut(t) \/ R!Woken(t)
              \/ R!PassOn(t) \/ R!Add(t) \/ R!Terminate(t) \/ R!WakeOne(t) \/ R!Create(t)
       PROVE  UNCHANGED Owned!vars
  BY <1>16 DEF R!Call, R!Contend, R!Wake, R!TimeOut, R!Woken, R!PassOn, R!Add, R!Terminate,
               R!WakeOne, R!Create
<1> QED
  BY <1>2, <1>4, <1>5, <1>6, <1>7, <1>9, <1>11, <1>12, <1>13, <1>14, <1>15, <1>16
  DEF R!Next, R!Step, Owned!Next

\* For every set of threads, which may die at any point, a robust mutex is the
\* abstract lock: it leaves a holder only when that unlocks it or dies, and after
\* a death one thread takes it over, is told so, and has settled what is to become
\* of the state before anybody else has the mutex.
THEOREM RobustImplementation ==
  ASSUME R!RobustAssumption, "normal" \notin TimedKinds
  PROVE  R!Spec => TakeoverSpec
<1>1. Legal
  BY DEF Legal
<1>2. RobustInv /\ [R!Next]_(R!vars) => RobustInv'
  BY <1>1, RobustStep, RobustStutter
<1>3. R!Init => RobustInv
  BY <1>1, RobustInit
<1>4. R!Init => HeldOnce
  BY DEF R!Init, HeldOnce
<1>5. RobustInv /\ HeldOnce /\ [R!Next]_(R!vars) => HeldOnce'
  BY <1>1, RobustHeldOnce DEF HeldOnce, R!vars
<1>6. RobustInv /\ HeldOnce /\ [R!Next]_(R!vars) => [Owned!Next]_Owned!vars
  BY <1>1, RobustOwnedStep DEF R!vars, R!mx, Owned!vars
<1>7. R!Init => Owned!Init
  BY DEF R!Init, Owned!Init
<1> QED
  BY <1>2, <1>3, <1>4, <1>5, <1>6, <1>7, PTL DEF R!Spec, TakeoverSpec, Owned!Spec

-----------------------------------------------------------------------------
(* The events of the queue lock. *)

\* The theorems about the queue lock, for this scene.
P == INSTANCE MCSLockProofs WITH
       Threads <- Starved, Keepers <- {}, EventExhaustion <- TRUE, lock <- xlock,
       next <- xnext, flag <- xflag, ev <- xev, pc <- xpc, node <- xnode, peer <- xpeer,
       arg <- xarg, ret <- xret, proxyHeld <- xproxyHeld, queue <- xqueue

\* Also where CreateEvent fails for some waits no path through the flag routines
\* leaves an event open that nobody is going to close.
THEOREM EventsNeverLeak ==
  ASSUME X!MCSAssumption
  PROVE  X!Spec => []EventsClosed
<1>1. P!MCSAssumption
  BY DEF X!MCSAssumption, P!MCSAssumption
<1>2. P!Spec => []P!NoHandleLeak
  BY <1>1, P!NoLeak
<1>3. X!Init => P!Init
  BY DEF X!Init, P!Init, X!Nodes, P!Nodes, X!Flags, P!Flags
<1>4. X!Next => P!Next
  BY DEF X!Nodes, X!Flags, X!Goto, X!At, X!Local, X!Clear, X!Rest, X!Pop, X!MoveToProxy,
         X!FlagSet, X!Resume, X!Signal, X!FlagWait, X!CreateEvent, X!StoreEvent, X!Wake,
         X!Swap, X!Try, X!Link, X!Notify, X!AwaitReady, X!Release, X!ReleaseOwn,
         X!ReleaseProxy, X!Free, X!AwaitNext, X!Reload, X!Pass, X!Transfer, X!Spin,
         X!AwaitLink, X!Copy, X!Step, X!Call, X!Next, P!Nodes, P!Flags, P!Goto, P!At,
         P!Local, P!Clear, P!Rest, P!Pop, P!MoveToProxy, P!FlagSet, P!Resume, P!Signal,
         P!FlagWait, P!CreateEvent, P!StoreEvent, P!Wake, P!Swap, P!Try, P!Link, P!Notify,
         P!AwaitReady, P!Release, P!ReleaseOwn, P!ReleaseProxy, P!Free, P!AwaitNext,
         P!Reload, P!Pass, P!Transfer, P!Spin, P!AwaitLink, P!Copy, P!Step, P!Call, P!Next
<1>5. P!NoHandleLeak => EventsClosed
  BY DEF EventsClosed, X!NoHandleLeak, P!NoHandleLeak, X!Flags, P!Flags, X!Nodes, P!Nodes
<1>6. [X!Next]_(X!vars) => [P!Next]_(P!vars)
  BY <1>4 DEF X!vars, P!vars
<1> QED
  BY <1>2, <1>3, <1>5, <1>6, PTL DEF X!Spec, P!Spec

-----------------------------------------------------------------------------
\* What MCLocks runs is the lock, the events and the robust mutex, next to each
\* other: so the theorems hold of it.
THEOREM ScenesRun == ScenesSpec => Spec /\ X!Spec /\ R!Spec
<1> USE DEF ScenesNext, QueueNext, EventsNext, RobustNext, MayEnd, allVars, eventVars, robustVars
<1>1. ScenesInit => Init /\ X!Init /\ R!Init
  BY DEF ScenesInit
<1>2. [ScenesNext]_allVars => [Next]_vars
  BY DEF vars
<1>3. [ScenesNext]_allVars => [X!Next]_(X!vars)
  BY DEF X!vars
<1>4. [ScenesNext]_allVars => [R!Next]_(R!vars)
  BY DEF R!vars, R!mx
<1> QED
  BY <1>1, <1>2, <1>3, <1>4, PTL DEF ScenesSpec, Spec, X!Spec, R!Spec
=============================================================================
