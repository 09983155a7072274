---------------------------- MODULE SyncObjectsProofs --------------------------
(***************************************************************************)
(* What MCSyncObjects checks of semaphores, barriers, spin locks,          *)
(* pthread_once and the list of condition variables, each on its own, for  *)
(* all values of the constants.                                            *)
(*                                                                         *)
(* A semaphore no sem_wait of which is cancelled is a counting semaphore.  *)
(* Conservation rests on Accounting: a thread that gives up and finds no   *)
(* token may raise value only because value is negative, which follows     *)
(* from there being a waiting thread and no token.  The other invariants   *)
(* are strengthened by where the threads may be, and that of the list by a *)
(* sequence in the order of which it is linked: that each element points   *)
(* back to the one before does not exclude a cycle apart from the head.    *)
(***************************************************************************)
EXTENDS MCSyncObjects, FiniteSetTheorems, TLAPS

-----------------------------------------------------------------------------
(* Semaphores. *)

\* Only a sem_timedwait ends in a clean-up.
TimedCleanup == \A t \in Threads : At(t, "cleanup") => op[t] = "timedwait"

\* The inductive invariant.
Inv == TypeOK /\ Accounting /\ Conservation /\ TimedCleanup

-----------------------------------------------------------------------------
\* A set of threads is finite and no larger than Threads.
LEMMA Counted ==
  ASSUME NEW W \in SUBSET Threads
  PROVE  /\ IsFiniteSet(W) /\ Cardinality(W) \in Nat
         /\ Cardinality(Threads) \in Nat /\ Cardinality(W) <= Cardinality(Threads)
  BY FS_Subset, FS_CardinalityType, SemaphoreAssumption

\* So the waiting threads are.
LEMMA WaitingFinite ==
  /\ IsFiniteSet(Waiting) /\ Cardinality(Waiting) \in Nat
  <1>1. Waiting \in SUBSET Threads
    BY DEF Waiting
  <1> QED
    BY <1>1, Counted

\* The number of waiting threads grows by one when a thread begins to wait.
LEMMA Enters ==
  ASSUME TypeOK, NEW t \in Threads, At(t, "idle"), Goto(t, "wait")
  PROVE  Cardinality(Waiting') = Cardinality(Waiting) + 1
  <1>1. Waiting' = Waiting \cup {t} /\ t \notin Waiting
    BY DEF TypeOK, At, Goto, Waiting
  <1> QED
    BY <1>1, WaitingFinite, FS_AddElement

\* It shrinks by one when a thread leaves its wait.
LEMMA Leaves ==
  ASSUME TypeOK, NEW t \in Threads, pc[t] \in {"wait", "cleanup"}, Goto(t, "idle")
  PROVE  /\ Cardinality(Waiting') = Cardinality(Waiting) - 1
         /\ Cardinality(Waiting) > 0
  <1>1. Waiting' = Waiting \ {t} /\ t \in Waiting
    BY DEF TypeOK, Goto, Waiting
  <1>2. /\ Cardinality(Waiting \ {t}) = Cardinality(Waiting) - 1
        /\ IsFiniteSet(Waiting \ {t})
    BY <1>1, WaitingFinite, FS_RemoveElement
  <1>3. Cardinality(Waiting \ {t}) \in Nat
    BY <1>2, FS_CardinalityType
  <1> QED
    BY <1>1, <1>2, <1>3, WaitingFinite

\* It stays the same when a waiting thread gives up and goes to its clean-up.
LEMMA Remains ==
  ASSUME TypeOK, NEW t \in Threads, At(t, "wait"), Goto(t, "cleanup")
  PROVE  Waiting' = Waiting
  BY DEF TypeOK, At, Goto, Waiting

\* If Accounting holds then value is as low as the number of threads allows.
LEMMA ValueBound ==
  ASSUME NEW v \in Int, v <= MaxValue, NEW n \in Nat, NEW W \in SUBSET Threads,
         n = Cardinality(W) + Lesser(v, 0)
  PROVE  v \in (-Cardinality(Threads))..MaxValue
  <1>1. v >= -Cardinality(W) \/ v >= 0
    BY Counted DEF Lesser
  <1> QED
    BY <1>1, Counted, SemaphoreAssumption

-----------------------------------------------------------------------------
\* Nobody waits at first.
LEMMA InitInv == Init => Inv
  <1> SUFFICES ASSUME Init PROVE Inv
    OBVIOUS
  <1>1. Waiting = {}
    BY DEF Init, Waiting
  <1>2. Accounting
    BY <1>1, FS_EmptySet, SemaphoreAssumption DEF Init, Accounting, Lesser
  <1>3. TypeOK
    <2>1. Initial \in Int /\ Initial <= MaxValue
      BY SemaphoreAssumption
    <2>2. Initial \in (-Cardinality(Threads))..MaxValue
      BY <1>1, <1>2, <2>1, ValueBound DEF Init, Accounting
    <2> QED
      BY <2>1, <2>2 DEF Init, TypeOK
  <1>4. Conservation /\ TimedCleanup
    BY SemaphoreAssumption DEF Init, Conservation, TimedCleanup, At
  <1> QED
    BY <1>2, <1>3, <1>4 DEF Inv

\* A thread takes a permit or begins to wait.
LEMMA WaitInv ==
  ASSUME Inv, NEW t \in Threads, Wait(t)  PROVE  Inv'
  <1> USE DEF Inv
  <1>0. value \in Int /\ value <= MaxValue /\ tokens \in Nat /\ due \in Int /\ MaxValue \in Nat
    BY WaitingFinite, SemaphoreAssumption DEF TypeOK
  <1>1. Accounting'
    <2>1. CASE value' < 0
      <3>1. Cardinality(Waiting') = Cardinality(Waiting) + 1
        BY <2>1, Enters DEF Wait
      <3> QED
        BY <1>0, <2>1, <3>1, WaitingFinite DEF Accounting, Lesser, Wait
    <2>2. CASE ~(value' < 0)
      <3>1. Waiting' = Waiting
        BY <2>2 DEF Wait, Waiting
      <3> QED
        BY <1>0, <2>2, <3>1, WaitingFinite DEF Accounting, Lesser, Wait
    <2> QED
      BY <2>1, <2>2
  <1>2. TypeOK'
    <2>1. value' \in Int /\ value' <= MaxValue /\ tokens' = tokens
      BY <1>0 DEF Wait
    <2>2. value' \in (-Cardinality(Threads))..MaxValue
      BY <1>0, <1>1, <2>1, ValueBound DEF Accounting, Waiting
    <2>3. op' \in [Threads -> {"wait", "timedwait"}]
      BY DEF TypeOK, Wait
    <2>4. pc' \in [Threads -> {"idle", "wait", "cleanup"}] /\ due' \in Int
      BY <1>0 DEF TypeOK, Wait, Goto
    <2> QED
      BY <1>0, <2>1, <2>2, <2>3, <2>4 DEF TypeOK, Wait
  <1>3. Conservation'
    BY <1>0 DEF Conservation, Wait
  <1>4. TimedCleanup'
    BY DEF TypeOK, TimedCleanup, At, Goto, Wait
  <1> QED
    BY <1>1, <1>2, <1>3, <1>4

\* A permit is taken without waiting, or made: no waiting thread is concerned,
\* apart from those that a post wakes.
LEMMA TryWaitInv ==
  ASSUME Inv, NEW t \in Threads, TryWait(t)  PROVE  Inv'
  <1> USE DEF Inv
  <1>0. value \in Int /\ value <= MaxValue /\ tokens \in Nat /\ due \in Int /\ MaxValue \in Nat
    BY WaitingFinite, SemaphoreAssumption DEF TypeOK
  <1>1. Accounting'
    BY <1>0, WaitingFinite DEF Accounting, Lesser, TryWait, Waiting
  <1>2. TypeOK'
    BY <1>0, Counted, SemaphoreAssumption DEF TypeOK, TryWait
  <1>3. Conservation' /\ TimedCleanup'
    BY <1>0 DEF Conservation, TimedCleanup, At, TryWait
  <1> QED
    BY <1>1, <1>2, <1>3

\* A token reaches a waiting thread.
LEMMA WakeInv ==
  ASSUME Inv, NEW t \in Threads, Wake(t)  PROVE  Inv'
  <1> USE DEF Inv
  <1>0. value \in Int /\ tokens \in Nat /\ due \in Int /\ tokens' = tokens - 1 /\ tokens' \in Nat
    BY WaitingFinite, SemaphoreAssumption DEF TypeOK, Wake
  <1>1. Cardinality(Waiting') = Cardinality(Waiting) - 1
    BY Leaves DEF Wake, At
  <1>2. Accounting'
    BY <1>0, <1>1, WaitingFinite DEF Accounting, Lesser, Wake
  <1>3. TypeOK'
    BY <1>0 DEF TypeOK, Wake, Goto
  <1>4. Conservation' /\ TimedCleanup'
    BY <1>0 DEF TypeOK, Conservation, TimedCleanup, At, Goto, Wake
  <1> QED
    BY <1>2, <1>3, <1>4

\* A thread gives up its wait, after a time-out or when it is cancelled: value
\* still counts it until its clean-up.
LEMMA GiveUpInv ==
  ASSUME Inv, Cancels # "all", NEW t \in Threads, TimeOut(t) \/ Cancel(t)
  PROVE  Inv'
  <1> USE DEF Inv
  <1>1. /\ At(t, "wait") /\ op[t] = "timedwait" /\ Goto(t, "cleanup")
        /\ UNCHANGED <<value, tokens, alive, op, due>>
    BY SemaphoreAssumption DEF TimeOut, Cancel, TypeOK
  <1>2. Accounting'
    BY <1>1, Remains DEF Accounting
  <1>3. TypeOK'
    BY <1>1 DEF TypeOK, Goto
  <1>4. Conservation' /\ TimedCleanup'
    BY <1>1 DEF TypeOK, Conservation, TimedCleanup, At, Goto
  <1> QED
    BY <1>2, <1>3, <1>4

\* A thread that has given up takes a token that is there; if there is none,
\* value is negative on its account.
LEMMA CleanupInv ==
  ASSUME Inv, NEW t \in Threads, Cleanup(t)  PROVE  Inv'
  <1> USE DEF Inv
  <1>0. /\ value \in Int /\ value <= MaxValue /\ tokens \in Nat /\ due \in Int
        /\ MaxValue \in Nat
    BY WaitingFinite, SemaphoreAssumption DEF TypeOK
  <1>1. /\ Cardinality(Waiting') = Cardinality(Waiting) - 1
        /\ Cardinality(Waiting) > 0
    BY Leaves DEF Cleanup, At
  <1>2. /\ tokens > 0 => tokens' = tokens - 1 /\ due' = due - 1 /\ value' = value
        /\ tokens = 0 => value' = value + 1 /\ tokens' = tokens /\ due' = due
    BY <1>0 DEF Cleanup, TakeOrLeave, TimedCleanup
  <1>3. tokens = 0 => value < 0
    BY <1>0, <1>1, WaitingFinite DEF Accounting, Lesser
  <1>4. Accounting'
    BY <1>0, <1>1, <1>2, <1>3, WaitingFinite DEF Accounting, Lesser
  <1>5. TypeOK'
    <2>1. value' \in (-Cardinality(Threads))..MaxValue
      BY <1>0, <1>2, <1>3, Counted DEF TypeOK
    <2> QED
      BY <1>0, <1>2, <2>1 DEF TypeOK, Cleanup, TakeOrLeave, Goto
  <1>6. Conservation'
    BY <1>0, <1>2, <1>3 DEF Conservation
  <1>7. TimedCleanup'
    BY DEF TypeOK, TimedCleanup, At, Goto, Cleanup
  <1> QED
    BY <1>4, <1>5, <1>6, <1>7

\* A post makes as many tokens as it wakes threads.
LEMMA PostInv ==
  ASSUME Inv, NEW t \in Threads, NEW n \in 1..MaxPost, Post(t, n)  PROVE  Inv'
  <1> USE DEF Inv
  <1>0. /\ value \in Int /\ tokens \in Nat /\ due \in Int
        /\ MaxValue \in Nat /\ n \in Nat \ {0}
    BY WaitingFinite, SemaphoreAssumption DEF TypeOK
  <1>1. Accounting'
    BY <1>0, WaitingFinite DEF Accounting, Lesser, Post, Waiting
  <1>2. TypeOK'
    BY <1>0, Counted DEF TypeOK, Lesser, Post
  <1>3. Conservation' /\ TimedCleanup'
    BY <1>0 DEF Conservation, TimedCleanup, Lesser, At, Post
  <1> QED
    BY <1>1, <1>2, <1>3

\* Destruction changes no count; a new semaphore has no waiting threads.
LEMMA LifeInv ==
  ASSUME Inv, NEW t \in Threads, Destroy(t) \/ Create(t)  PROVE  Inv'
  <1> USE DEF Inv
  <1>1. CASE Destroy(t)
    BY <1>1 DEF Destroy, TypeOK, Accounting, Conservation, TimedCleanup, Waiting, At
  <1>2. CASE Create(t)
    <2>1. Waiting' = {}
      BY <1>2 DEF Create, At, Waiting
    <2>2. Accounting'
      BY <1>2, <2>1, FS_EmptySet, SemaphoreAssumption DEF Create, Accounting, Lesser
    <2>3. value' \in (-Cardinality(Threads))..MaxValue
      BY <1>2, Counted, SemaphoreAssumption DEF Create
    <2>4. TypeOK'
      BY <1>2, <2>3, SemaphoreAssumption DEF Create, TypeOK
    <2>5. Conservation' /\ TimedCleanup'
      BY <1>2, SemaphoreAssumption DEF Create, Conservation, TimedCleanup, At
    <2> QED
      BY <2>2, <2>4, <2>5
  <1> QED
    BY <1>1, <1>2

-----------------------------------------------------------------------------
\* Every step preserves Inv.
LEMMA StepInv ==
  ASSUME Cancels # "all", Inv, [Next]_vars  PROVE  Inv'
  <1>1. CASE UNCHANGED vars
    BY <1>1 DEF vars, Inv, TypeOK, Accounting, Conservation, TimedCleanup, Waiting, At
  <1>2. ASSUME NEW t \in Threads, Step(t)  PROVE Inv'
    BY <1>2, WakeInv, GiveUpInv, CleanupInv DEF Step
  <1> QED
    BY <1>1, <1>2, WaitInv, TryWaitInv, GiveUpInv, LifeInv, PostInv DEF Next

\* The variables keep their types, the Win32 semaphore and value agree on who
\* waits, and no permit is made or lost, whatever the interleaving of posts,
\* waits, time-outs and cancelled timed waits.
THEOREM Invariance ==
  ASSUME Cancels # "all"  PROVE  Spec => []PermitsKept
  <1>1. Init => Inv
    BY InitInv
  <1>2. Inv /\ [Next]_vars => Inv'
    BY StepInv
  <1>3. Inv => PermitsKept
    BY DEF Inv, PermitsKept
  <1> QED
    BY <1>1, <1>2, <1>3, PTL DEF Spec

\* A semaphore that is only destroyed when no thread is in a call implements a
\* counting semaphore: each step takes a permit that is there, gives some,
\* destroys or creates the semaphore, or leaves it alone.
THEOREM Implementation ==
  ASSUME Cancels # "all"
  PROVE  Spec => PermitSpec
  <1> DEFINE Attended == \A t \in Threads : pc[t] # "idle" => alive
  <1>1. Init => Permits!Init /\ Attended
    BY DEF Init, Permits!Init
  <1>2. Attended /\ TypeOK /\ [Next]_vars => Attended'
    BY DEF Next, vars, Step, Wait, TryWait, Wake, TimeOut, Cancel, Cleanup, Post,
           Destroy, Create, At, Goto, TypeOK
  <1>3. Inv /\ Attended /\ [Next]_vars => [Permits!Next]_(Permits!vars)
    <2> SUFFICES ASSUME Inv, Attended, [Next]_vars  PROVE [Permits!Next]_(Permits!vars)
      OBVIOUS
    <2> USE DEF Permits!vars, Permits!Next
    <2>1. due = tokens + (IF value > 0 THEN value ELSE 0)
      BY DEF Inv, Conservation
    <2>2. value \in Int /\ tokens \in Nat /\ alive \in BOOLEAN
      BY WaitingFinite, Counted, SemaphoreAssumption DEF Inv, TypeOK
    <2>3. ASSUME NEW t \in Threads, Wait(t) \/ TryWait(t) \/ Wake(t) \/ Cleanup(t)
          PROVE  [Permits!Next]_(Permits!vars)
      <3>1. CASE Wait(t)
        BY <2>1, <2>2, <3>1 DEF Wait, Permits!Take
      <3>2. CASE TryWait(t)
        BY <2>1, <2>2, <3>2 DEF TryWait, Permits!Take
      <3>3. CASE Wake(t)
        BY <2>1, <2>2, <3>3 DEF Wake, At, Permits!Take
      <3>4. CASE Cleanup(t)
        BY <2>1, <2>2, <3>4 DEF Cleanup, TakeOrLeave, At, Permits!Take
      <3> QED
        BY <2>3, <3>1, <3>2, <3>3, <3>4
    <2>4. ASSUME NEW t \in Threads, NEW n \in 1..MaxPost, Post(t, n)
          PROVE  [Permits!Next]_(Permits!vars)
      BY <2>1, <2>2, <2>4, SemaphoreAssumption DEF Post, Permits!Give
    <2>5. ASSUME NEW t \in Threads, TimeOut(t) \/ Cancel(t)  PROVE UNCHANGED Permits!vars
      BY <2>5 DEF TimeOut, Cancel
    <2>6. ASSUME NEW t \in Threads, Destroy(t) \/ Create(t)  PROVE Permits!Next
      BY <2>2, <2>6 DEF Destroy, Create, Permits!Destroy, Permits!Create
    <2> QED
      BY <2>3, <2>4, <2>5, <2>6 DEF Next, Step, vars
  <1>4. Inv /\ [Next]_vars => Inv'
    BY StepInv
  <1>5. Inv => TypeOK
    BY DEF Inv
  <1> QED
    BY <1>1, <1>2, <1>3, <1>4, <1>5, InitInv, PTL DEF Spec, PermitSpec, Permits!Spec

-----------------------------------------------------------------------------
(* pthread_once and spin locks.  NoThread is nobody. *)

NoOwner == NoThread \notin Users

\* The lock is held by the thread in the routine, which has not been completed
\* then; done says whether it has, and nobody returns before.
OnceInv ==
  /\ O!TypeOK
  /\ \A p \in Users : O!At(p, "routine") => olock = p /\ ~done
  /\ finished = IF done THEN 1 ELSE 0
  /\ returned # {} => done

\* Whatever threads call pthread_once and are cancelled in the routine, it runs
\* to its end at most once and in one thread at a time, and nobody returns before.
THEOREM OnceSafety ==
  ASSUME NoOwner
  PROVE  O!Spec => []OnceSound
<1> USE DEF NoOwner, OnceInv, O!TypeOK, O!At, O!Goto
<1>1. ASSUME O!Init PROVE OnceInv
  <2>1. O!TypeOK
    <3>1. returned \in SUBSET Users /\ begun \in SUBSET Users
      BY <1>1 DEF O!Init
    <3>2. opc \in [Users -> {"idle", "lock", "routine", "ended"}]
      BY <1>1 DEF O!Init
    <3>3. finished \in 0..2
      BY <1>1 DEF O!Init
    <3> QED
      BY <1>1, <3>1, <3>2, <3>3 DEF O!Init
  <2> QED
    BY <1>1, <2>1 DEF O!Init
<1>2. ASSUME OnceInv, [O!Next]_O!vars PROVE OnceInv'
  <2>1. ASSUME NEW p \in Users, O!Call(p) PROVE OnceInv'
    BY <1>2, <2>1 DEF O!Call
  <2>2. ASSUME NEW p \in Users, O!Acquire(p) PROVE OnceInv'
    BY <1>2, <2>2 DEF O!Acquire
  <2>3. ASSUME NEW p \in Users, O!Finish(p) PROVE OnceInv'
    BY <1>2, <2>3 DEF O!Finish
  <2>4. ASSUME NEW p \in Users, O!Cancelled(p) PROVE OnceInv'
    BY <1>2, <2>4 DEF O!Cancelled
  <2>5. CASE UNCHANGED O!vars
    BY <1>2, <2>5 DEF O!vars
  <2> QED
    BY <1>2, <2>1, <2>2, <2>3, <2>4, <2>5 DEF O!Next, O!Step
<1>3. OnceInv => OnceSound
  BY DEF OnceSound, O!RunsOnce
<1> QED
  BY <1>1, <1>2, <1>3, PTL DEF O!Spec

\* A thread that spins does so on a lock that has been initialised, and it is
\* at the mutex only if the lock is one.
SpinInv ==
  /\ SpinSound
  /\ \A p \in Users :
       /\ spc[p] \in {"spin", "mutex"} => ptr = "live"
       /\ S!At(p, "mutex") => interlock = "use_mutex"
  /\ ptr = "live" => interlock # "invalid"

\* A spin lock excludes, as a word or as a mutex, from its static initialiser on
\* and across its destruction, for every set of threads.
THEOREM SpinSafety ==
  ASSUME NoOwner
  PROVE  S!Spec => []SpinSound
<1> USE DEF NoOwner, SpinInv, SpinSound, S!SpinExclusion, S!TypeOK, S!At, S!Goto
<1>1. S!Init => SpinInv
  BY DEF S!Init
<1>2. ASSUME SpinInv, [S!Next]_S!vars PROVE SpinInv'
  <2>1. ASSUME NEW p \in Users, NEW o \in {"lock", "trylock"}, S!Enter(p, o) PROVE SpinInv'
    BY <1>2, <2>1 DEF S!Enter
  <2>2. ASSUME NEW p \in Users, S!NeedInit(p) PROVE SpinInv'
    BY <1>2, <2>2 DEF S!NeedInit, S!Create
  <2>3. ASSUME NEW p \in Users, S!Spin(p) PROVE SpinInv'
    BY <1>2, <2>3 DEF S!Spin
  <2>4. ASSUME NEW p \in Users, S!TrySpin(p) PROVE SpinInv'
    <3>1. interlock \in {"unlocked", "locked", "use_mutex"}
      BY <1>2, <2>4 DEF S!TrySpin
    <3>2. CASE interlock = "unlocked"
      BY <1>2, <2>4, <3>2 DEF S!TrySpin
    <3>3. CASE interlock = "locked"
      BY <1>2, <2>4, <3>3 DEF S!TrySpin
    <3>4. CASE interlock = "use_mutex"
      BY <1>2, <2>4, <3>4 DEF S!TrySpin
    <3> QED
      BY <3>1, <3>2, <3>3, <3>4
  <2>5. ASSUME NEW p \in Users, S!TakeMutex(p) PROVE SpinInv'
    BY <1>2, <2>5 DEF S!TakeMutex
  <2>6. ASSUME NEW p \in Users, S!DestroyStatic(p) PROVE SpinInv'
    BY <1>2, <2>6 DEF S!DestroyStatic
  <2>7. ASSUME NEW p \in Users, S!Unlock(p) PROVE SpinInv'
    BY <1>2, <2>7 DEF S!Unlock
  <2>8. ASSUME NEW p \in Users, S!Destroy(p) PROVE SpinInv'
    BY <1>2, <2>8 DEF S!Destroy
  <2>9. ASSUME NEW p \in Users, S!InitLock(p) PROVE SpinInv'
    BY <1>2, <2>9 DEF S!InitLock, S!Create
  <2>10. CASE UNCHANGED S!vars
    BY <1>2, <2>10 DEF S!vars
  <2> QED
    BY <1>2, <2>1, <2>2, <2>3, <2>4, <2>5, <2>6, <2>7, <2>8, <2>9, <2>10 DEF S!Next, S!Step
<1>3. SpinInv => SpinSound
  OBVIOUS
<1> QED
  BY <1>1, <1>2, <1>3, PTL DEF S!Spec

-----------------------------------------------------------------------------
(* Barriers. *)

\* The owners of the lock that are no threads are none and differ, counts are
\* positive (EINVAL), and nobody destroys a barrier that a thread is leaving.
BarrierAssumption ==
  /\ NoThread \notin Users /\ Proxy \notin Users /\ NoThread # Proxy
  /\ Heights \subseteq Nat \ {0}
  /\ ~DestroyEarly

\* Who waits, or has still to count itself out, is of the round that fills or of
\* the one that is over.
WhereTheyAre ==
  \A p \in Users :
    /\ p \in arrived => B!At(p, "wait")
    /\ p \in leaving => bpc[p] \in {"wait", "count"}
    /\ B!At(p, "wait") => p \in arrived \union leaving

\* The lock is the proxy's until the last thread of the round has left, which is
\* the serial one, and a destroyer that has the lock is alone with those who wait.
LockKept ==
  /\ \A p \in Users : (lock = p) = B!At(p, "destroy") /\ (lock = p => valid)
  /\ \A p, q \in Users : B!At(p, "destroy") => q = p \/ bpc[q] \in {"idle", "wait"}
  /\ lock = Proxy => serial = {}
  /\ \A p \in Users : B!At(p, "compare_last") =>
       /\ lock = Proxy /\ leaving = {}
       /\ \A q \in Users : B!At(q, "compare_last") => q = p
  /\ lock = Proxy /\ leaving = {} => \E p \in Users : B!At(p, "compare_last")

\* The inductive invariant.
BarrierInv ==
  /\ BarrierSound /\ WhereTheyAre /\ LockKept
  /\ IsFiniteSet(arrived) /\ IsFiniteSet(leaving)
  /\ ~valid => arrived = {} /\ leaving = {}

\* The operators of FiniteSets, as the instance has them.
LEMMA SameCount == \A s : B!Cardinality(s) = Cardinality(s)
<1>1. ASSUME NEW s PROVE B!Cardinality(s) = Cardinality(s)
  BY DEF B!Cardinality, Cardinality
<1> QED
  BY <1>1

\* Rounds do not mix, the count is right, one thread of a round is the serial one
\* and the barrier is not freed under a thread, for every count and set of threads.
THEOREM BarrierSafety ==
  ASSUME BarrierAssumption
  PROVE  B!Spec => []BarrierSound
<1> USE DEF BarrierAssumption, BarrierInv, BarrierSound, WhereTheyAre, LockKept,
            B!TypeOK, B!RoundsSeparate,
            B!HeightKept, B!OneSerialThread, B!NoUseAfterFree, B!At, B!Goto, B!heights
<1>0. B!Cardinality({}) = 0 /\ IsFiniteSet({})
  BY SameCount, FS_EmptySet
<1>1. ASSUME B!Init PROVE BarrierInv
  <2>1. B!TypeOK
    <3>1. arrived \in SUBSET Users /\ leaving \in SUBSET Users /\ serial \in SUBSET Users
      BY <1>1 DEF B!Init
    <3>2. nCurrentBarrierHeight \in 0..nInitialBarrierHeight /\ nInitialBarrierHeight \in Heights
      BY <1>1 DEF B!Init
    <3>3. bpc \in [Users -> {"idle", "lock", "wait", "count", "compare", "compare_last", "destroy"}]
      BY <1>1 DEF B!Init
    <3> QED
      BY <1>1, <3>1, <3>2, <3>3 DEF B!Init
  <2>2. {p \in leaving : B!At(p, "wait")} = {} /\ leaving = {} /\ arrived = {} /\ serial = {}
    BY <1>1 DEF B!Init
  <2>3. B!RoundsSeparate /\ B!HeightKept /\ B!OneSerialThread /\ B!NoUseAfterFree
    BY <1>0, <1>1, <2>2 DEF B!Init
  <2> QED
    BY <1>0, <1>1, <2>1, <2>2, <2>3 DEF B!Init
<1>2. ASSUME BarrierInv, [B!Next]_B!vars PROVE BarrierInv'
  <2>1. ASSUME NEW p \in Users, B!Arrive(p) PROVE BarrierInv'
    <3>1. leaving = {} /\ p \notin arrived /\ valid
      BY <1>2, <2>1 DEF B!Arrive
    <3>2. PICK n \in Nat : n = B!Cardinality(arrived)
      BY <1>2, SameCount, FS_CardinalityType
    <3>3. B!Cardinality(arrived') = n + 1 /\ IsFiniteSet(arrived')
      BY <1>2, <2>1, <3>1, <3>2, SameCount, FS_AddElement DEF B!Arrive
    <3>4. {q \in leaving : B!At(q, "wait")}' = {q \in leaving : B!At(q, "wait")}
      BY <1>2, <2>1, <3>1 DEF B!Arrive
    <3>5. B!TypeOK'
      BY <1>2, <2>1 DEF B!Arrive
    <3>6. B!RoundsSeparate'
      BY <1>2, <2>1, <3>1, <3>4 DEF B!Arrive
    <3>7. B!HeightKept'
      BY <1>2, <2>1, <3>1, <3>2, <3>3 DEF B!Arrive
    <3>8. B!OneSerialThread' /\ B!NoUseAfterFree' /\ WhereTheyAre' /\ LockKept'
      BY <1>2, <2>1, <3>1 DEF B!Arrive
    <3> QED
      BY <1>2, <2>1, <3>1, <3>3, <3>5, <3>6, <3>7, <3>8 DEF B!Arrive
  <2>2. ASSUME NEW p \in Users, B!Breach(p) PROVE BarrierInv'
    <3>1. leaving = {} /\ p \notin arrived /\ valid
      BY <1>2, <2>2 DEF B!Breach
    <3>2. PICK n \in Nat : n = B!Cardinality(arrived)
      BY <1>2, SameCount, FS_CardinalityType
    <3>3. B!Cardinality(leaving') = n + 1 /\ IsFiniteSet(leaving')
      BY <1>2, <2>2, <3>1, <3>2, SameCount, FS_AddElement DEF B!Breach
    <3>4. {q \in leaving : B!At(q, "wait")}' = arrived /\ {q \in leaving : B!At(q, "wait")} = {}
      BY <1>2, <2>2, <3>1 DEF B!Breach
    <3>40. nInitialBarrierHeight = n + 1 /\ semBarrierBreeched = 0
      BY <1>0, <1>2, <2>2, <3>1, <3>2, <3>4 DEF B!Breach
    <3>5. B!TypeOK'
      BY <1>2, <2>2, <3>40 DEF B!Breach
    <3>50. semBarrierBreeched' = n
      BY <2>2, <3>2, <3>40 DEF B!Breach
    <3>6. B!RoundsSeparate'
      BY <1>2, <2>2, <3>1, <3>2, <3>4, <3>50, ZenonT(60) DEF B!Breach
    <3>7. B!HeightKept'
      BY <1>2, <2>2, <3>1, <3>2, <3>3, <3>40 DEF B!Breach
    <3>8. B!OneSerialThread' /\ B!NoUseAfterFree'
      BY <1>0, <1>2, <2>2, <3>1 DEF B!Breach
    <3>9. WhereTheyAre'
      BY <1>2, <2>2, <3>1 DEF B!Breach
    <3>10. LockKept'
      BY <1>2, <2>2, <3>1 DEF B!Breach
    <3> QED
      BY <1>0, <1>2, <2>2, <3>1, <3>3, <3>5, <3>6, <3>7, <3>8, <3>9, <3>10 DEF B!Breach
  <2>3. ASSUME NEW p \in Users, B!Pass(p) PROVE BarrierInv'
    <3> DEFINE W == {q \in leaving : B!At(q, "wait")}
    <3>1. IsFiniteSet(W)
      BY <1>2, SameCount, FS_Subset
    <3>2. W # {}
      BY <1>0, <1>2, <2>3 DEF B!Pass
    <3>3. p \in W
      BY <1>2, <2>3, <3>2 DEF B!Pass
    <3>4. W' = W \ {p}
      BY <1>2, <2>3 DEF B!Pass
    <3>5. PICK n \in Nat : n = B!Cardinality(W)
      BY <3>1, SameCount, FS_CardinalityType
    <3>6. B!Cardinality(W') = n - 1
      BY <3>1, <3>3, <3>4, <3>5, SameCount, FS_RemoveElement
    <3>7. B!TypeOK'
      BY <1>2, <2>3 DEF B!Pass
    <3>8. B!RoundsSeparate'
      BY <1>2, <2>3, <3>3, <3>5, <3>6 DEF B!Pass
    <3>9. B!HeightKept' /\ B!OneSerialThread' /\ B!NoUseAfterFree'
      BY <1>2, <2>3 DEF B!Pass
    <3>10. WhereTheyAre' /\ LockKept'
      BY <1>2, <2>3, <3>3 DEF B!Pass
    <3> QED
      BY <1>2, <2>3, <3>7, <3>8, <3>9, <3>10 DEF B!Pass
  <2>4. ASSUME NEW p \in Users, B!CountOut(p) PROVE BarrierInv'
    <3>1. p \in leaving /\ lock = Proxy /\ arrived = {} /\ valid
      BY <1>2, <2>4 DEF B!CountOut
    <3>2. PICK n \in Nat : n = B!Cardinality(leaving)
      BY <1>2, SameCount, FS_CardinalityType
    <3>3. B!Cardinality(leaving') = n - 1 /\ IsFiniteSet(leaving')
      BY <1>2, <2>4, <3>1, <3>2, SameCount, FS_RemoveElement DEF B!CountOut
    <3>4. {q \in leaving : B!At(q, "wait")}' = {q \in leaving : B!At(q, "wait")}
      BY <1>2, <2>4 DEF B!CountOut
    <3>5. nCurrentBarrierHeight = nInitialBarrierHeight - n
      BY <1>2, <3>1, <3>2
    <3>6. (leaving' = {}) = (n = 1)
      <4>1. leaving' = {} => n = 1
        BY <1>0, <3>2, <3>3
      <4>2. n = 1 => leaving' = {}
        BY <3>3, SameCount, FS_EmptySet
      <4> QED
        BY <4>1, <4>2
    <3>7. n >= 1
      <4>1. n # 0
        BY <1>2, <3>1, <3>2, SameCount, FS_EmptySet
      <4> QED
        BY <4>1
    <3>8. B!TypeOK'
      BY <1>2, <2>4, <3>5, <3>7 DEF B!CountOut
    <3>9. B!RoundsSeparate'
      BY <1>2, <2>4, <3>4 DEF B!CountOut
    <3>10. B!HeightKept'
      <4>1. nCurrentBarrierHeight' = nInitialBarrierHeight - (n - 1)
        BY <1>2, <2>4, <3>5, <3>7 DEF B!CountOut
      <4>2. CASE n = 1
        BY <2>4, <3>6, <4>1, <4>2, <1>0, <3>1 DEF B!CountOut
      <4>3. CASE n # 1
        BY <2>4, <3>3, <3>6, <4>1, <4>3 DEF B!CountOut
      <4> QED
        BY <4>2, <4>3
    <3>11. B!OneSerialThread' /\ B!NoUseAfterFree' /\ WhereTheyAre'
      BY <1>2, <2>4, <3>1 DEF B!CountOut
    <3>12. LockKept'
      <4>1. CASE n = 1
        BY <1>2, <2>4, <3>1, <3>5, <3>6, <4>1 DEF B!CountOut
      <4>2. CASE n # 1
        BY <1>2, <2>4, <3>1, <3>5, <3>6, <4>2 DEF B!CountOut
      <4> QED
        BY <4>1, <4>2
    <3> QED
      BY <1>2, <2>4, <3>1, <3>3, <3>8, <3>9, <3>10, <3>11, <3>12 DEF B!CountOut
  <2>5. ASSUME NEW p \in Users, B!Leave(p) PROVE BarrierInv'
    <3>1. serial = {} /\ leaving = {}
      BY <1>2, <2>5 DEF B!Leave
    <3>2. serial' = {p} /\ B!Cardinality(serial') = 1
      BY <2>5, <3>1, SameCount, FS_Singleton DEF B!Leave
    <3>3. {q \in leaving : B!At(q, "wait")}' = {q \in leaving : B!At(q, "wait")}
      BY <2>5, <3>1 DEF B!Leave
    <3>4. B!TypeOK' /\ WhereTheyAre' /\ LockKept'
      BY <1>2, <2>5, <3>1 DEF B!Leave
    <3>5. B!RoundsSeparate'
      BY <1>2, <2>5, <3>1, <3>3 DEF B!Leave
    <3>6. B!HeightKept' /\ B!OneSerialThread' /\ B!NoUseAfterFree'
      BY <1>2, <2>5, <3>1, <3>2 DEF B!Leave
    <3> QED
      BY <1>2, <2>5, <3>4, <3>5, <3>6 DEF B!Leave
  <2>6. ASSUME NEW p \in Users, B!Return(p) PROVE BarrierInv'
    <3>1. {q \in leaving : B!At(q, "wait")}' = {q \in leaving : B!At(q, "wait")}
      BY <1>2, <2>6 DEF B!Return
    <3>2. LockKept' /\ WhereTheyAre'
      BY <1>2, <2>6 DEF B!Return
    <3>3. B!RoundsSeparate'
      BY <1>2, <2>6, <3>1 DEF B!Return
    <3>4. B!TypeOK' /\ B!HeightKept' /\ B!OneSerialThread' /\ B!NoUseAfterFree'
      BY <1>2, <2>6 DEF B!Return
    <3> QED
      BY <1>2, <2>6, <3>2, <3>3, <3>4 DEF B!Return
  <2>7. ASSUME NEW p \in Users, B!DestroyEnd(p) PROVE BarrierInv'
    <3>1. leaving = {} /\ lock = p
      BY <1>2, <2>7 DEF B!DestroyEnd
    <3>2. {q \in leaving : B!At(q, "wait")}' = {q \in leaving : B!At(q, "wait")}
      BY <2>7, <3>1 DEF B!DestroyEnd
    <3>3. ~valid' => arrived = {}
      <4>1. PICK n \in Nat : n = B!Cardinality(arrived)
        BY <1>2, SameCount, FS_CardinalityType
      <4>2. n = 0 => arrived = {}
        BY <1>2, <4>1, SameCount, FS_EmptySet
      <4>3. valid => nCurrentBarrierHeight = nInitialBarrierHeight - n
        BY <1>2, <3>1, <4>1
      <4> QED
        BY <1>2, <2>7, <4>2, <4>3 DEF B!DestroyEnd
    <3>4. \A q \in Users : q # p => bpc[q] \in {"idle", "wait"}
      BY <1>2, <2>7 DEF B!DestroyEnd
    <3>5. B!TypeOK' /\ WhereTheyAre' /\ LockKept'
      BY <1>2, <2>7, <3>1, <3>4 DEF B!DestroyEnd
    <3>6. B!RoundsSeparate' /\ B!OneSerialThread'
      BY <1>2, <2>7, <3>1, <3>2, <3>4 DEF B!DestroyEnd
    <3>7. B!NoUseAfterFree'
      BY <1>2, <2>7, <3>1, <3>3, <3>4 DEF B!DestroyEnd
    <3>8. B!HeightKept'
      BY <1>2, <2>7 DEF B!DestroyEnd
    <3> QED
      BY <1>2, <2>7, <3>1, <3>3, <3>5, <3>6, <3>7, <3>8 DEF B!DestroyEnd
  <2>8. ASSUME NEW p \in Users, B!Enter(p) PROVE BarrierInv'
    <3>1. {q \in leaving : B!At(q, "wait")}' = {q \in leaving : B!At(q, "wait")}
      BY <1>2, <2>8 DEF B!Enter
    <3> QED
      BY <1>2, <2>8, <3>1 DEF B!Enter
  <2>9. ASSUME NEW p \in Users, B!Destroy(p) PROVE BarrierInv'
    <3>1. {q \in leaving : B!At(q, "wait")}' = {q \in leaving : B!At(q, "wait")}
      BY <1>2, <2>9 DEF B!Destroy
    <3> QED
      BY <1>2, <2>9, <3>1 DEF B!Destroy, B!MayDestroy
  <2>10. ASSUME NEW p \in Users, NEW count \in Heights, B!Create(p, count) PROVE BarrierInv'
    <3>1. arrived' = {} /\ leaving' = {} /\ serial' = {} /\ {q \in leaving : B!At(q, "wait")}' = {}
      BY <2>10 DEF B!Create
    <3>2. B!TypeOK'
      BY <1>2, <2>10 DEF B!Create
    <3> QED
      BY <1>0, <1>2, <2>10, <3>1, <3>2 DEF B!Create
  <2>11. CASE UNCHANGED B!vars
    <3>1. {q \in leaving : B!At(q, "wait")}' = {q \in leaving : B!At(q, "wait")}
      BY <2>11 DEF B!vars
    <3> QED
      BY <1>2, <2>11, <3>1 DEF B!vars, B!heights
  <2> QED
    BY <1>2, <2>1, <2>2, <2>3, <2>4, <2>5, <2>6, <2>7, <2>8, <2>9, <2>10, <2>11 DEF B!Next, B!Step
<1>3. BarrierInv => BarrierSound
  OBVIOUS
<1> QED
  BY <1>1, <1>2, <1>3, PTL DEF B!Spec

-----------------------------------------------------------------------------
(* The list of the condition variables. *)

\* NoThread is nobody, and Null points to nothing.
ListAssumption == NoThread \notin Walkers /\ Null \notin Conds

\* f is the list, from the head to the tail, and n its length.
IsList(n, f) ==
  /\ linked = {f[i] : i \in 1..n}
  /\ \A i, j \in 1..n : f[i] = f[j] => i = j
  /\ head = IF n = 0 THEN Null ELSE f[1]
  /\ tail = IF n = 0 THEN Null ELSE f[n]
  /\ \A i \in 1..n : /\ next[f[i]] = IF i = n THEN Null ELSE f[i + 1]
                     /\ prev[f[i]] = IF i = 1 THEN Null ELSE f[i - 1]

\* A walk has told what is before the place it has come to.
IsWalked(n, f) ==
  \A p \in Walkers : L!At(p, "walk") =>
    \E j \in 1..n + 1 :
      /\ told = {f[i] : i \in 1..j - 1}
      /\ cv[p] = IF j = n + 1 THEN Null ELSE f[j]

\* There is such a list.
Chained == \E n \in Nat : \E f \in [1..n -> Conds] : IsList(n, f) /\ IsWalked(n, f)

\* Where a condition variable is created, and where destroyed.
Building == {"link", "publish"}
Removing == {"destroy", "gate"}

\* Who creates or destroys a condition variable is alone with it, and holds the
\* lock for first uses when it is static.
Alone ==
  /\ \A p \in Walkers : lpc[p] \in Building \union Removing =>
       \A q \in Walkers : lpc[q] \in Building \union Removing /\ cv[q] = cv[p] => q = p
  /\ \A p \in Walkers : lpc[p] \in Building =>
       \/ handle[cv[p]] = "null" /\ initLock # p
       \/ handle[cv[p]] = "static" /\ initLock = p
  /\ \A p \in Walkers : initLock = p => lpc[p] \in Building
  /\ \A p \in Walkers : lpc[p] \in Removing => handle[cv[p]] = "live"
  /\ \A p \in Walkers : lpc[p] \notin {"idle", "walk"} => cv[p] \in Conds

\* What is in the list has been published or is about to be.
LinkedWhen ==
  \A c \in Conds :
    (c \in linked) = (handle[c] = "live" \/ \E p \in Walkers : L!At(p, "publish") /\ cv[p] = c)

\* Who has the lock of the list, and when the handler has told anybody.
ListLockKept ==
  /\ \A p \in Walkers : lpc[p] \in {"gate", "walk"} => listLock = p
  /\ told # {} => \E p \in Walkers : L!At(p, "walk")

\* The inductive invariant.
ListInv == L!TypeOK /\ Alone /\ LinkedWhen /\ ListLockKept /\ Chained

\* What the list consists of does not change.
LEMMA ListUnchanged ==
  ASSUME UNCHANGED <<head, tail, next, prev, linked, told>>, Chained,
         \A p \in Walkers : L!At(p, "walk")' => L!At(p, "walk") /\ cv'[p] = cv[p]
  PROVE  Chained'
<1>1. PICK n \in Nat : \E f \in [1..n -> Conds] : IsList(n, f) /\ IsWalked(n, f)
  BY DEF Chained
<1>2. PICK f \in [1..n -> Conds] : IsList(n, f) /\ IsWalked(n, f)
  BY <1>1
<1>3. IsList(n, f)'
  BY <1>2 DEF IsList
<1>4. IsWalked(n, f)'
  BY <1>2 DEF IsWalked, L!At
<1> QED
  BY <1>3, <1>4 DEF Chained

\* A new element goes to the end.
LEMMA Appended ==
  ASSUME ListAssumption, ListInv, NEW p \in Walkers, L!Link(p)
  PROVE  Chained'
<1> DEFINE c == cv[p]
<1>0. PICK n \in Nat : \E f \in [1..n -> Conds] : IsList(n, f) /\ IsWalked(n, f)
  BY DEF ListInv, Chained
<1>1. PICK f \in [1..n -> Conds] : IsList(n, f) /\ IsWalked(n, f)
  BY <1>0
<1>2. c \in Conds /\ c \notin linked
  BY DEF L!Link, ListInv, Alone, LinkedWhen, L!At, Building, Removing
<1>4. PICK g \in [1..n + 1 -> Conds] : g = [i \in 1..n + 1 |-> IF i = n + 1 THEN c ELSE f[i]]
  <2> DEFINE h == [i \in 1..n + 1 |-> IF i = n + 1 THEN c ELSE f[i]]
  <2>1. \A i \in 1..n + 1 : i = n + 1 \/ i \in 1..n
    OBVIOUS
  <2>2. h \in [1..n + 1 -> Conds]
    BY <1>2, <2>1
  <2> QED
    BY <2>2
<1>3. \A q \in Walkers : ~L!At(q, "walk")'
  BY DEF L!Link, ListInv, ListLockKept, L!At, L!Goto, L!TypeOK, ListAssumption
<1>5. IsList(n + 1, g)'
  <2> USE DEF IsList, L!Link
  <2>0. g[n + 1] = c /\ \A i \in 1..n : g[i] = f[i] /\ f[i] # c /\ f[i] \in Conds
    BY <1>1, <1>2, <1>4
  <2>1. linked' = {g[i] : i \in 1..n + 1}
    <3>1. \A d : d \in linked' => d \in {g[i] : i \in 1..n + 1}
      BY <1>1, <2>0
    <3>2. \A i \in 1..n + 1 : g[i] \in linked'
      BY <1>1, <2>0
    <3> QED
      BY <3>1, <3>2
  <2>2. \A i, j \in 1..n + 1 : g[i] = g[j] => i = j
    BY <1>1, <2>0
  <2>3. head' = g[1] /\ tail' = g[n + 1]
    BY <1>1, <2>0 DEF ListAssumption
  <2>6. next \in [Conds -> Conds \union {Null}] /\ next'[c] = Null
    BY <1>2 DEF ListAssumption, ListInv, L!TypeOK
  <2>4. ASSUME NEW i \in 1..n + 1 PROVE next'[g[i]] = IF i = n + 1 THEN Null ELSE g[i + 1]
    <3>1. CASE i = n + 1
      BY <2>0, <2>6, <3>1
    <3>2. CASE i = n
      BY <1>1, <1>2, <2>0, <2>6, <3>2 DEF ListAssumption
    <3>3. CASE i < n
      <4>1. i \in 1..n /\ i + 1 \in 1..n /\ f[i] # f[n] /\ tail = f[n]
        BY <1>1, <3>3
      <4>2. next'[f[i]] = next[f[i]]
        BY <1>1, <1>2, <2>0, <2>6, <4>1
      <4> QED
        BY <1>1, <2>0, <3>3, <4>1, <4>2
    <3> QED
      BY <3>1, <3>2, <3>3
  <2>5. \A i \in 1..n + 1 : prev'[g[i]] = IF i = 1 THEN Null ELSE g[i - 1]
    BY <1>1, <1>2, <2>0 DEF ListAssumption, ListInv, L!TypeOK
  <2>7. n + 1 # 0
    OBVIOUS
  <2> QED
    BY <2>1, <2>2, <2>3, <2>4, <2>5, <2>7
<1>6. IsWalked(n + 1, g)'
  BY <1>3 DEF IsWalked
<1> QED
  BY <1>5, <1>6 DEF Chained

\* Remove(c) takes the k-th element out.
LEMMA Removed ==
  ASSUME ListAssumption, L!TypeOK,
         NEW c \in Conds, NEW n \in Nat, NEW f \in [1..n -> Conds], NEW k0 \in 1..n,
         IsList(n, f), c = f[k0], L!Remove(c), linked' = linked \ {c}
  PROVE  \E g \in [1..n - 1 -> Conds] : IsList(n - 1, g)'
<1>1. PICK g \in [1..n - 1 -> Conds] : g = [i \in 1..n - 1 |-> IF i < k0 THEN f[i] ELSE f[i + 1]]
  <2> DEFINE h == [i \in 1..n - 1 |-> IF i < k0 THEN f[i] ELSE f[i + 1]]
  <2>1. \A i \in 1..n - 1 : i \in 1..n /\ i + 1 \in 1..n
    OBVIOUS
  <2>2. h \in [1..n - 1 -> Conds]
    BY <2>1
  <2> QED
    BY <2>2
<1> USE DEF IsList, L!Remove
<1>2. linked' = {g[i] : i \in 1..n - 1}
  <2>1. ASSUME NEW d \in linked' PROVE d \in {g[i] : i \in 1..n - 1}
    <3>1. PICK i \in 1..n : d = f[i] /\ i # k0
      BY <2>1
    <3>2. CASE i < k0
      BY <1>1, <3>1, <3>2
    <3>3. CASE i > k0
      <4>1. i - 1 \in 1..n - 1 /\ g[i - 1] = d
        BY <1>1, <3>1, <3>3
      <4> QED
        BY <4>1
    <3> QED
      BY <3>1, <3>2, <3>3
  <2>2. ASSUME NEW i \in 1..n - 1 PROVE g[i] \in linked'
    BY <1>1
  <2>3. {g[i] : i \in 1..n - 1} \subseteq linked'
    BY <2>2
  <2>4. linked' \subseteq {g[i] : i \in 1..n - 1}
    BY <2>1
  <2> QED
    BY <2>3, <2>4, Zenon
<1>3. \A i, j \in 1..n - 1 : g[i] = g[j] => i = j
  BY <1>1
<1>4. head' = IF n - 1 = 0 THEN Null ELSE g[1]
  BY <1>1
<1>5. tail' = IF n - 1 = 0 THEN Null ELSE g[n - 1]
  BY <1>1
<1>6. ASSUME NEW i \in 1..n - 1 PROVE next'[g[i]] = IF i = n - 1 THEN Null ELSE g[i + 1]
  BY <1>1 DEF ListAssumption
<1>7. ASSUME NEW i \in 1..n - 1 PROVE prev'[g[i]] = IF i = 1 THEN Null ELSE g[i - 1]
  BY <1>1, SMTT(60) DEF ListAssumption
<1> QED
  BY <1>2, <1>3, <1>4, <1>5, <1>6, <1>7, ZenonT(60)

\* The list has every condition variable that exists, in both directions, and
\* the handler reaches all of them, for every set of threads and variables.
THEOREM ListSafety ==
  ASSUME ListAssumption
  PROVE  L!Spec => []ListSound
<1>1. ASSUME L!Init PROVE ListInv
  <2>1. linked = {} /\ told = {} /\ closed = {}
    BY <1>1 DEF L!Init
  <2>2. L!TypeOK
    BY <1>1, <2>1 DEF L!Init, L!TypeOK
  <2>3. Alone /\ LinkedWhen /\ ListLockKept
    BY <1>1, <2>1 DEF L!Init, Alone, LinkedWhen, ListLockKept, Building, Removing, L!At,
         ListAssumption
  <2>4. PICK f \in [1..0 -> Conds] : TRUE
    <3>1. [i \in 1..0 |-> Null] \in [1..0 -> Conds]
      OBVIOUS
    <3> QED
      BY <3>1
  <2>5. IsList(0, f) /\ IsWalked(0, f)
    BY <1>1 DEF L!Init, IsList, IsWalked, L!At
  <2> QED
    BY <2>2, <2>3, <2>5 DEF ListInv, Chained
<1>3. ASSUME ListInv PROVE L!ListKept /\ L!WalkComplete
  <2>0. PICK n \in Nat : \E f \in [1..n -> Conds] : IsList(n, f) /\ IsWalked(n, f)
    BY <1>3 DEF ListInv, Chained
  <2>1. PICK f \in [1..n -> Conds] : IsList(n, f) /\ IsWalked(n, f)
    BY <2>0
  <2>2. L!ListKept
    <3> USE DEF IsList
    <3>1. {c \in Conds : handle[c] = "live"} \subseteq linked
      BY <1>3 DEF ListInv, LinkedWhen
    <3>2. linked = {} <=> n = 0
      <4>1. n # 0 => f[1] \in linked
        BY <2>1
      <4>2. n = 0 => linked = {}
        BY <2>1
      <4> QED
        BY <4>1, <4>2
    <3>3. (head = Null) = (linked = {}) /\ (tail = Null) = (linked = {})
      BY <2>1, <3>2 DEF ListAssumption
    <3>4. linked # {} => {head, tail} \subseteq linked /\ prev[head] = Null /\ next[tail] = Null
      BY <2>1, <3>2
    <3>5. ASSUME NEW c \in linked
          PROVE  /\ c # tail => next[c] \in linked /\ prev[next[c]] = c
                 /\ c # head => prev[c] \in linked /\ next[prev[c]] = c
      <4>1. PICK i \in 1..n : c = f[i]
        BY <2>1
      <4>2. ASSUME c # tail PROVE next[c] \in linked /\ prev[next[c]] = c
        <5>1. i + 1 \in 1..n /\ next[c] = f[i + 1] /\ i + 1 # 1 /\ (i + 1) - 1 = i
          BY <2>1, <4>1, <4>2
        <5>2. prev[f[i + 1]] = f[i] /\ f[i + 1] \in linked
          BY <2>1, <5>1
        <5> QED
          BY <4>1, <5>1, <5>2
      <4>3. ASSUME c # head PROVE prev[c] \in linked /\ next[prev[c]] = c
        <5>1. i - 1 \in 1..n /\ prev[c] = f[i - 1]
          BY <2>1, <4>1, <4>3
        <5> QED
          BY <2>1, <4>1, <5>1
      <4> QED
        BY <4>2, <4>3
    <3> QED
      BY <3>1, <3>3, <3>4, <3>5 DEF L!ListKept
  <2>3. L!WalkComplete
    BY <1>3, <2>1 DEF ListInv, L!WalkComplete, IsList, IsWalked, ListAssumption, L!At
  <2> QED
    BY <2>2, <2>3
<1>2. ASSUME ListInv, [L!Next]_L!vars PROVE ListInv'
  <2> USE DEF L!TypeOK, Alone, LinkedWhen, ListLockKept, Building, Removing, L!At, L!Goto, L!Takes,
              L!Returns, L!links,
              ListAssumption, ListInv
  <2>17. L!ListKept /\ L!WalkComplete
    BY <1>2, <1>3
  <2>1. ASSUME NEW p \in Walkers, NEW c \in Conds, L!Create(p, c) PROVE ListInv'
    <3>1. L!TypeOK'
      BY <1>2, <2>1 DEF L!Create, L!Unused
    <3>3. Alone'
      <4>1. \A q \in Walkers : q # p => lpc'[q] = lpc[q] /\ cv'[q] = cv[q]
        BY <1>2, <2>1 DEF L!Create
      <4>2. lpc'[p] = "link" /\ cv'[p] = c /\ handle' = handle /\ initLock' = initLock
        BY <1>2, <2>1 DEF L!Create
      <4>3. \A q \in Walkers : lpc[q] \in Building \union Removing => cv[q] # c
        BY <2>1 DEF L!Create, L!Unused
      <4>4. initLock # p /\ handle[c] = "null"
        BY <1>2, <2>1 DEF L!Create
      <4> QED
        BY <1>2, <4>1, <4>2, <4>3, <4>4
    <3>4. LinkedWhen'
      BY <1>2, <2>1 DEF L!Create, L!Unused
    <3>5. ListLockKept'
      BY <1>2, <2>1 DEF L!Create, L!Unused
    <3>2. Chained'
      BY <1>2, <2>1, ListUnchanged DEF L!Create, L!Unused
    <3> QED
      BY <3>1, <3>2, <3>3, <3>4, <3>5
  <2>2. ASSUME NEW p \in Walkers, NEW c \in Conds, L!Use(p, c) PROVE ListInv'
    <3>1. L!TypeOK'
      BY <1>2, <2>2 DEF L!Use
    <3>3. Alone'
      BY <1>2, <2>2 DEF L!Use
    <3>4. LinkedWhen'
      BY <1>2, <2>2 DEF L!Use
    <3>5. ListLockKept'
      BY <1>2, <2>2 DEF L!Use
    <3>2. Chained'
      BY <1>2, <2>2, ListUnchanged DEF L!Use
    <3> QED
      BY <3>1, <3>2, <3>3, <3>4, <3>5
  <2>3. ASSUME NEW p \in Walkers, NEW c \in Conds, L!Destroy(p, c) PROVE ListInv'
    <3>1. L!TypeOK'
      BY <1>2, <2>3 DEF L!Destroy, L!Unused
    <3>3. Alone'
      BY <1>2, <2>3 DEF L!Destroy, L!Unused
    <3>4. LinkedWhen'
      BY <1>2, <2>3 DEF L!Destroy, L!Unused
    <3>5. ListLockKept'
      BY <1>2, <2>3 DEF L!Destroy, L!Unused
    <3>2. Chained'
      BY <1>2, <2>3, ListUnchanged DEF L!Destroy, L!Unused
    <3> QED
      BY <3>1, <3>2, <3>3, <3>4, <3>5
  <2>4. ASSUME NEW p \in Walkers, L!NeedInit(p) PROVE ListInv'
    <3>1. L!TypeOK'
      BY <1>2, <2>4 DEF L!NeedInit
    <3>3. Alone'
      BY <1>2, <2>4 DEF L!NeedInit
    <3>4. LinkedWhen'
      BY <1>2, <2>4 DEF L!NeedInit
    <3>5. ListLockKept'
      BY <1>2, <2>4 DEF L!NeedInit
    <3>2. Chained'
      BY <1>2, <2>4, ListUnchanged DEF L!NeedInit
    <3> QED
      BY <3>1, <3>2, <3>3, <3>4, <3>5
  <2>5. ASSUME NEW p \in Walkers, L!Link(p) PROVE ListInv'
    <3>1. L!TypeOK'
      BY <1>2, <2>5 DEF L!Link
    <3>3. Alone'
      BY <1>2, <2>5 DEF L!Link
    <3>4. LinkedWhen'
      BY <1>2, <2>5 DEF L!Link
    <3>5. ListLockKept'
      BY <1>2, <2>5 DEF L!Link
    <3>2. Chained'
      BY <1>2, <2>5, Appended
    <3> QED
      BY <3>1, <3>2, <3>3, <3>4, <3>5
  <2>6. ASSUME NEW p \in Walkers, L!Publish(p) PROVE ListInv'
    <3>1. L!TypeOK'
      BY <1>2, <2>6 DEF L!Publish
    <3>3. Alone'
      BY <1>2, <2>6 DEF L!Publish
    <3>4. LinkedWhen'
      BY <1>2, <2>6 DEF L!Publish
    <3>5. ListLockKept'
      BY <1>2, <2>6 DEF L!Publish
    <3>2. Chained'
      BY <1>2, <2>6, ListUnchanged DEF L!Publish
    <3> QED
      BY <3>1, <3>2, <3>3, <3>4, <3>5
  <2>7. ASSUME NEW p \in Walkers, L!DestroyBegin(p) PROVE ListInv'
    <3>1. L!TypeOK'
      BY <1>2, <2>7 DEF L!DestroyBegin
    <3>3. Alone'
      BY <1>2, <2>7 DEF L!DestroyBegin
    <3>4. LinkedWhen'
      BY <1>2, <2>7 DEF L!DestroyBegin
    <3>5. ListLockKept'
      BY <1>2, <2>7 DEF L!DestroyBegin
    <3>2. Chained'
      BY <1>2, <2>7, ListUnchanged DEF L!DestroyBegin
    <3> QED
      BY <3>1, <3>2, <3>3, <3>4, <3>5
  <2>8. ASSUME NEW p \in Walkers, L!DestroyEnd(p) PROVE ListInv'
    <3>1. L!TypeOK'
      BY <1>2, <2>8 DEF L!DestroyEnd, L!Remove
    <3>3. Alone'
      BY <1>2, <2>8 DEF L!DestroyEnd, L!Remove
    <3>4. LinkedWhen'
      BY <1>2, <2>8 DEF L!DestroyEnd, L!Remove
    <3>5. ListLockKept'
      BY <1>2, <2>8 DEF L!DestroyEnd, L!Remove
    <3>2. Chained'
      <4>1. CASE UNCHANGED <<handle, L!links, linked>>
        BY <1>2, <2>8, <4>1, ListUnchanged DEF L!DestroyEnd
      <4>2. CASE linked' = linked \ {cv[p]} /\ L!Remove(cv[p])
        <5>0. PICK n \in Nat : \E f \in [1..n -> Conds] : IsList(n, f) /\ IsWalked(n, f)
          BY <1>2 DEF Chained
        <5>1. PICK f \in [1..n -> Conds] : IsList(n, f) /\ IsWalked(n, f)
          BY <5>0
        <5>2. cv[p] \in Conds /\ cv[p] \in linked
          BY <1>2, <2>8 DEF L!DestroyEnd
        <5>3. PICK k0 \in 1..n : cv[p] = f[k0]
          BY <5>1, <5>2 DEF IsList
        <5>4. PICK g \in [1..n - 1 -> Conds] : IsList(n - 1, g)'
          <6> HIDE DEF ListAssumption, L!TypeOK
          <6>1. L!TypeOK
            BY <1>2
          <6> QED
            BY <4>2, <5>1, <5>2, <5>3, <6>1, Removed
        <5>5. IsWalked(n - 1, g)'
          BY <1>2, <2>8 DEF L!DestroyEnd, IsWalked
        <5>6. n - 1 \in Nat
          OBVIOUS
        <5> QED
          BY <5>4, <5>5, <5>6 DEF Chained
      <4> QED
        BY <2>8, <4>1, <4>2 DEF L!DestroyEnd
    <3> QED
      BY <3>1, <3>2, <3>3, <3>4, <3>5
  <2>9. ASSUME NEW p \in Walkers, L!DestroyStatic(p) PROVE ListInv'
    <3>1. L!TypeOK'
      BY <1>2, <2>9 DEF L!DestroyStatic
    <3>3. Alone'
      BY <1>2, <2>9 DEF L!DestroyStatic
    <3>4. LinkedWhen'
      BY <1>2, <2>9 DEF L!DestroyStatic
    <3>5. ListLockKept'
      BY <1>2, <2>9 DEF L!DestroyStatic
    <3>2. Chained'
      BY <1>2, <2>9, ListUnchanged DEF L!DestroyStatic
    <3> QED
      BY <3>1, <3>2, <3>3, <3>4, <3>5
  <2>10. ASSUME NEW p \in Walkers, L!Walk(p) PROVE ListInv'
    <3>1. L!TypeOK'
      <4>1. cv[p] \in linked
        BY <2>10, <2>17 DEF L!Walk, L!WalkComplete
      <4> QED
        BY <1>2, <2>10, <4>1 DEF L!Walk
    <3>3. Alone'
      BY <1>2, <2>10 DEF L!Walk
    <3>4. LinkedWhen'
      BY <1>2, <2>10 DEF L!Walk
    <3>5. ListLockKept'
      BY <1>2, <2>10 DEF L!Walk
    <3>2. Chained'
      <4>0. PICK n \in Nat : \E f \in [1..n -> Conds] : IsList(n, f) /\ IsWalked(n, f)
        BY <1>2 DEF Chained
      <4>1. PICK f \in [1..n -> Conds] : IsList(n, f) /\ IsWalked(n, f)
        BY <4>0
      <4>2. IsList(n, f)'
        BY <2>10, <4>1 DEF L!Walk, IsList
      <4>3. PICK j \in 1..n + 1 : /\ told = {f[i] : i \in 1..j - 1}
                                 /\ cv[p] = IF j = n + 1 THEN Null ELSE f[j]
        BY <2>10, <4>1 DEF L!Walk, IsWalked
      <4>4. j \in 1..n /\ cv[p] = f[j] /\ j + 1 \in 1..n + 1
        BY <2>10, <4>3 DEF L!Walk
      <4>5. told' = {f[i] : i \in 1..(j + 1) - 1}
        BY <2>10, <4>3, <4>4 DEF L!Walk
      <4>6. cv'[p] = IF j + 1 = n + 1 THEN Null ELSE f[j + 1]
        BY <1>2, <2>10, <4>1, <4>4 DEF L!Walk, IsList
      <4>7. \A q \in Walkers : L!At(q, "walk")' => q = p
        BY <1>2, <2>10 DEF L!Walk
      <4>8. IsWalked(n, f)'
        BY <4>4, <4>5, <4>6, <4>7 DEF IsWalked
      <4> QED
        BY <4>2, <4>8 DEF Chained
    <3> QED
      BY <3>1, <3>2, <3>3, <3>4, <3>5
  <2>11. ASSUME NEW p \in Walkers, L!WalkEnd(p) PROVE ListInv'
    <3>1. L!TypeOK'
      BY <1>2, <2>11 DEF L!WalkEnd
    <3>3. Alone'
      BY <1>2, <2>11 DEF L!WalkEnd
    <3>4. LinkedWhen'
      BY <1>2, <2>11 DEF L!WalkEnd
    <3>5. ListLockKept'
      BY <1>2, <2>11 DEF L!WalkEnd
    <3>2. Chained'
      <4>0. PICK n \in Nat : \E f \in [1..n -> Conds] : IsList(n, f) /\ IsWalked(n, f)
        BY <1>2 DEF Chained
      <4>1. PICK f \in [1..n -> Conds] : IsList(n, f) /\ IsWalked(n, f)
        BY <4>0
      <4>2. IsList(n, f)'
        BY <2>11, <4>1 DEF L!WalkEnd, IsList
      <4>3. IsWalked(n, f)'
        BY <1>2, <2>11 DEF L!WalkEnd, IsWalked
      <4> QED
        BY <4>2, <4>3 DEF Chained
    <3> QED
      BY <3>1, <3>2, <3>3, <3>4, <3>5
  <2>12. ASSUME NEW p \in Walkers, L!CreateFails(p) PROVE ListInv'
    <3>1. L!TypeOK'
      BY <1>2, <2>12 DEF L!CreateFails
    <3>3. Alone'
      BY <1>2, <2>12 DEF L!CreateFails
    <3>4. LinkedWhen'
      BY <1>2, <2>12 DEF L!CreateFails
    <3>5. ListLockKept'
      BY <1>2, <2>12 DEF L!CreateFails
    <3>2. Chained'
      BY <1>2, <2>12, ListUnchanged DEF L!CreateFails
    <3> QED
      BY <3>1, <3>2, <3>3, <3>4, <3>5
  <2>13. ASSUME NEW p \in Walkers, L!WalkBegin(p) PROVE ListInv'
    <3>1. L!TypeOK'
      BY <1>2, <2>13 DEF L!WalkBegin
    <3>3. Alone'
      BY <1>2, <2>13 DEF L!WalkBegin
    <3>4. LinkedWhen'
      BY <1>2, <2>13 DEF L!WalkBegin
    <3>5. ListLockKept'
      BY <1>2, <2>13 DEF L!WalkBegin
    <3>2. Chained'
      <4>0. PICK n \in Nat : \E f \in [1..n -> Conds] : IsList(n, f) /\ IsWalked(n, f)
        BY <1>2 DEF Chained
      <4>1. PICK f \in [1..n -> Conds] : IsList(n, f) /\ IsWalked(n, f)
        BY <4>0
      <4>2. IsList(n, f)'
        BY <2>13, <4>1 DEF L!WalkBegin, IsList
      <4>3. told = {} /\ told' = told
        BY <1>2, <2>13 DEF L!WalkBegin
      <4>4. \A q \in Walkers : L!At(q, "walk")' => q = p
        BY <1>2, <2>13 DEF L!WalkBegin
      <4>5. cv'[p] = IF 1 = n + 1 THEN Null ELSE f[1]
        BY <1>2, <2>13, <4>1 DEF L!WalkBegin, IsList
      <4>6. told' = {f[i] : i \in 1..1 - 1} /\ 1 \in 1..n + 1
        BY <4>3
      <4>7. IsWalked(n, f)'
        BY <4>4, <4>5, <4>6 DEF IsWalked
      <4> QED
        BY <4>2, <4>7 DEF Chained
    <3> QED
      BY <3>1, <3>2, <3>3, <3>4, <3>5
  <2>14. ASSUME NEW c \in Conds, L!Close(c) PROVE ListInv'
    <3>1. L!TypeOK'
      BY <1>2, <2>14 DEF L!Close
    <3>3. Alone'
      BY <1>2, <2>14 DEF L!Close
    <3>4. LinkedWhen'
      BY <1>2, <2>14 DEF L!Close
    <3>5. ListLockKept'
      BY <1>2, <2>14 DEF L!Close
    <3>2. Chained'
      BY <1>2, <2>14, ListUnchanged DEF L!Close
    <3> QED
      BY <3>1, <3>2, <3>3, <3>4, <3>5
  <2>15. ASSUME NEW c \in Conds, L!Open(c) PROVE ListInv'
    <3>1. L!TypeOK'
      BY <1>2, <2>15 DEF L!Open
    <3>3. Alone'
      BY <1>2, <2>15 DEF L!Open
    <3>4. LinkedWhen'
      BY <1>2, <2>15 DEF L!Open
    <3>5. ListLockKept'
      BY <1>2, <2>15 DEF L!Open
    <3>2. Chained'
      BY <1>2, <2>15, ListUnchanged DEF L!Open
    <3> QED
      BY <3>1, <3>2, <3>3, <3>4, <3>5
  <2>16. CASE UNCHANGED L!vars
    <3>1. L!TypeOK'
      BY <1>2, <2>16 DEF L!vars
    <3>3. Alone'
      BY <1>2, <2>16 DEF L!vars
    <3>4. LinkedWhen'
      BY <1>2, <2>16 DEF L!vars
    <3>5. ListLockKept'
      BY <1>2, <2>16 DEF L!vars
    <3>2. Chained'
      BY <1>2, <2>16, ListUnchanged DEF L!vars
    <3> QED
      BY <3>1, <3>2, <3>3, <3>4, <3>5
  <2> QED
    BY <1>2, <2>1, <2>2, <2>3, <2>4, <2>5, <2>6, <2>7, <2>8, <2>9, <2>10, <2>11, <2>12, <2>13, <2>14, <2>15, <2>16
       DEF L!Next, L!Step
<1>4. ListInv => ListSound
  BY <1>3 DEF ListInv, ListSound
<1> QED
  BY <1>1, <1>2, <1>4, PTL DEF L!Spec

-----------------------------------------------------------------------------
\* What MCSyncObjects runs is each of the five, next to the others: so the
\* theorems hold of it.
THEOREM ObjectsRun == ObjectsSpec => Spec /\ B!Spec /\ S!Spec /\ O!Spec /\ L!Spec
<1> USE DEF ObjectsNext, SemaphoreNext, QueueNext, BarrierNext, SpinNext, OnceNext, ListNext,
            MayEnd, objectVars, queueVars, barrierVars, spinVars, onceVars, listVars
<1>1. ObjectsInit => Init /\ B!Init /\ S!Init /\ O!Init /\ L!Init
  BY DEF ObjectsInit
<1>2. [ObjectsNext]_objectVars => [Next]_vars
  BY DEF vars
<1>3. [ObjectsNext]_objectVars => [B!Next]_B!vars
  BY DEF B!vars, B!heights
<1>4. [ObjectsNext]_objectVars => [S!Next]_S!vars
  BY DEF S!vars
<1>5. [ObjectsNext]_objectVars => [O!Next]_O!vars
  BY DEF O!vars
<1>6. [ObjectsNext]_objectVars => [L!Next]_L!vars
  BY DEF L!vars, L!links
<1> QED
  BY <1>1, <1>2, <1>3, <1>4, <1>5, <1>6, PTL DEF ObjectsSpec, Spec, B!Spec, S!Spec, O!Spec, L!Spec
=============================================================================
