----------------------------- MODULE MutexProofs ------------------------------
(***************************************************************************)
(* For every set of threads and every kind: a mutex has one holder at      *)
(* most, ownerThread names nobody else, and no waiter is forgotten.        *)
(*                                                                         *)
(* MutualExclusion is not inductive: a step of a destroyer or of a thread  *)
(* that is about to record itself must not disturb a holder.  Inv adds     *)
(* what lock_idx, *mutex and ownerThread say of a thread inside a call.    *)
(***************************************************************************)
EXTENDS Mutex, TLAPS

\* lock_idx is not 0 on account of t.
Possesses(t) == held[t] > 0 \/ pc[t] = "destroy"

\* One thread at most has lock_idx to itself.
Exclusive ==
  \A t, u \in Threads : Possesses(t) /\ Possesses(u) => t = u

\* Nobody else finds it 0 meanwhile.
Marked ==
  \A t \in Threads : Possesses(t) => lock_idx # 0

\* A thread that is past the tests of *mutex has a mutex to work on.
Allocated ==
  \A t \in Threads :
    /\ held[t] > 0 => mutex = "live"
    /\ pc[t] \in {"enter", "swap", "wait", "own", "release"} => mutex = "live"
    /\ pc[t] = "destroy" => mutex = "null"

\* What ownerThread says of the thread it names.
Owners ==
  \A t \in Threads : owner = t =>
    /\ kind # "normal"
    /\ \/ pc[t] = "destroy"
       \/ /\ held[t] > 0 /\ pc[t] \notin {"own", "release", "destroy"}
          /\ kind = "recursive" => held[t] = count
    /\ pc[t] = "enter" => count < MaxCount

\* Where a holder may be, and whether it has recorded itself there.
Holders ==
  \A t \in Threads :
    /\ held[t] > 0 => pc[t] \in {"idle", "enter", "own", "release"}
    /\ held[t] > 0 /\ kind # "normal" /\ pc[t] \in {"idle", "enter"} => owner = t
    /\ held[t] > 0 /\ kind = "normal" /\ pc[t] = "enter" => op[t] = "trylock"
    /\ pc[t] = "own" => kind # "normal" /\ held[t] = 1
    /\ pc[t] = "release" => kind # "normal" /\ held[t] > 0

\* The inductive invariant.
Inv ==
  TypeOK /\ Exclusive /\ Marked /\ Allocated /\ Owners /\ Holders /\ NoLostWakeup

-----------------------------------------------------------------------------
\* The counts that steps store.
LEMMA Counts == 0 \in 0..MaxCount /\ 1 \in 0..MaxCount
  BY MutexAssumption

\* Inv holds of a static mutex that nobody has used.
LEMMA InitInv == Init => Inv
  <1> SUFFICES ASSUME Init PROVE Inv
    OBVIOUS
  <1> USE MutexAssumption DEF Init
  <1>1. TypeOK
    BY Counts DEF TypeOK, Labels
  <1>2. Exclusive /\ Marked
    BY DEF Exclusive, Marked, Possesses
  <1>3. Allocated /\ Owners /\ Holders
    BY DEF Allocated, Owners, Holders
  <1>4. NoLostWakeup
    BY DEF NoLostWakeup, At
  <1> QED
    BY <1>1, <1>2, <1>3, <1>4 DEF Inv

\* The lazy initialisation resets lock_idx only while nobody can hold it.
LEMMA CheckNeedInitInv ==
  ASSUME Inv, NEW t \in Threads, CheckNeedInit(t)  PROVE  Inv'
  <1> USE DEF Inv, CheckNeedInit, At, Goto, Fresh, mx
  <1>1. TypeOK'
    <2>1. CASE mutex = "static"
      BY <2>1, Counts DEF TypeOK, Labels
    <2>2. CASE mutex # "static"
      BY <2>2 DEF TypeOK, Labels
    <2> QED
      BY <2>1, <2>2
  <1>2. Exclusive'
    BY DEF Exclusive, Possesses
  <1>3. Marked'
    BY DEF Marked, Possesses, Allocated
  <1>4. Allocated'
    BY DEF TypeOK, Allocated
  <1>5. Owners'
    BY DEF TypeOK, Owners, Holders, Allocated
  <1>6. Holders'
    BY DEF Holders, Allocated
  <1>7. NoLostWakeup'
    BY DEF NoLostWakeup, Allocated
  <1> QED
    BY <1>1, <1>2, <1>3, <1>4, <1>5, <1>6, <1>7

\* A normal mutex is acquired only by the exchange that finds 0.
LEMMA ExchangeOneInv ==
  ASSUME Inv, NEW t \in Threads, ExchangeOne(t)  PROVE  Inv'
  <1> USE DEF Inv, ExchangeOne, At, Goto, Acquired
  <1>1. TypeOK'
    BY MutexAssumption DEF TypeOK, Labels
  <1>2. Exclusive'
    BY DEF TypeOK, Exclusive, Marked, Possesses
  <1>3. Marked'
    BY DEF Marked
  <1>4. Allocated'
    BY DEF TypeOK, Allocated
  <1>5. Owners'
    BY DEF Owners
  <1>6. Holders'
    BY DEF TypeOK, Holders
  <1>7. NoLostWakeup'
    BY DEF TypeOK, NoLostWakeup
  <1> QED
    BY <1>1, <1>2, <1>3, <1>4, <1>5, <1>6, <1>7

\* The compare-and-exchange acquires the mutex only if it is free.
LEMMA CompareExchangeInv ==
  ASSUME Inv, NEW t \in Threads, CompareExchange(t)  PROVE  Inv'
  <1> USE DEF Inv, CompareExchange, At, Acquired, Goto
  <1>1. TypeOK'
    BY MutexAssumption DEF TypeOK, Labels
  <1>2. Exclusive'
    BY DEF Exclusive, Marked, Possesses
  <1>3. Marked'
    BY DEF Marked
  <1>4. Allocated'
    BY DEF Allocated
  <1>5. Owners'
    BY DEF Owners, Possesses, Marked
  <1>6. Holders'
    BY DEF TypeOK, Holders
  <1>7. NoLostWakeup'
    BY DEF NoLostWakeup
  <1> QED
    BY <1>1, <1>2, <1>3, <1>4, <1>5, <1>6, <1>7

\* The owner of a recursive mutex holds it already.
LEMMA AgainInv ==
  ASSUME Inv, NEW t \in Threads, Again(t)  PROVE  Inv'
  <1> USE DEF Inv, Again, At, Goto
  <1>1. TypeOK'
    BY MutexAssumption DEF TypeOK, Labels, Owners
  <1>2. Exclusive'
    BY DEF Exclusive, Possesses, Owners
  <1>3. Marked'
    BY DEF Marked
  <1>4. Allocated'
    BY DEF Allocated
  <1>5. Owners'
    BY DEF TypeOK, Owners
  <1>6. Holders'
    BY DEF Holders
  <1>7. NoLostWakeup'
    BY DEF NoLostWakeup
  <1> QED
    BY <1>1, <1>2, <1>3, <1>4, <1>5, <1>6, <1>7

\* A refused call changes nothing.
LEMMA RefuseInv ==
  ASSUME Inv, NEW t \in Threads, Refuse(t)  PROVE  Inv'
  <1> USE DEF Inv, Refuse, At, Goto, mx
  <1>1. TypeOK'
    BY DEF TypeOK, Labels
  <1>2. Exclusive'
    BY DEF Exclusive, Possesses
  <1>3. Marked'
    BY DEF Marked
  <1>4. Allocated'
    BY DEF Allocated
  <1>5. Owners'
    BY DEF Owners
  <1>6. Holders'
    BY DEF Holders
  <1>7. NoLostWakeup'
    BY DEF NoLostWakeup
  <1> QED
    BY <1>1, <1>2, <1>3, <1>4, <1>5, <1>6, <1>7

\* A thread that goes to wait does not hold the mutex.
LEMMA ContendInv ==
  ASSUME Inv, NEW t \in Threads, Contend(t)  PROVE  Inv'
  <1> USE DEF Inv, Contend, At, Goto, mx
  <1>1. TypeOK'
    BY DEF TypeOK, Labels
  <1>2. Exclusive'
    BY DEF Exclusive, Possesses
  <1>3. Marked'
    BY DEF Marked
  <1>4. Allocated'
    BY DEF Allocated
  <1>5. Owners'
    BY DEF Owners
  <1>6. Holders'
    BY DEF Holders
  <1>7. NoLostWakeup'
    BY DEF NoLostWakeup
  <1> QED
    BY <1>1, <1>2, <1>3, <1>4, <1>5, <1>6, <1>7

\* A waiter acquires the mutex only by the exchange that finds 0.
LEMMA SwapInv ==
  ASSUME Inv, NEW t \in Threads, Swap(t)  PROVE  Inv'
  <1> USE DEF Inv, Swap, At, Goto, Acquired
  <1>1. TypeOK'
    BY MutexAssumption DEF TypeOK, Labels
  <1>2. Exclusive'
    BY DEF TypeOK, Exclusive, Marked, Possesses
  <1>3. Marked'
    BY DEF Marked
  <1>4. Allocated'
    BY DEF TypeOK, Allocated
  <1>5. Owners'
    BY DEF TypeOK, Owners, Holders
  <1>6. Holders'
    BY DEF TypeOK, Holders
  <1>7. NoLostWakeup'
    BY DEF NoLostWakeup
  <1> QED
    BY <1>1, <1>2, <1>3, <1>4, <1>5, <1>6, <1>7

\* A woken waiter tries again: it takes the signal over from the event.
LEMMA WakeInv ==
  ASSUME Inv, NEW t \in Threads, Wake(t)  PROVE  Inv'
  <1> USE DEF Inv, Wake, At, Goto
  <1>1. TypeOK'
    BY DEF TypeOK, Labels
  <1>2. Exclusive'
    BY DEF Exclusive, Possesses
  <1>3. Marked'
    BY DEF Marked, Possesses
  <1>4. Allocated'
    BY DEF Allocated
  <1>5. Owners'
    BY DEF Owners
  <1>6. Holders'
    BY DEF Holders
  <1>7. NoLostWakeup'
    BY DEF TypeOK, NoLostWakeup
  <1> QED
    BY <1>1, <1>2, <1>3, <1>4, <1>5, <1>6, <1>7

\* A waiter that times out has taken no signal.
LEMMA TimeOutInv ==
  ASSUME Inv, NEW t \in Threads, TimeOut(t)  PROVE  Inv'
  <1> USE DEF Inv, TimeOut, At, Goto, mx
  <1>1. TypeOK'
    BY DEF TypeOK, Labels
  <1>2. Exclusive'
    BY DEF Exclusive, Possesses
  <1>3. Marked'
    BY DEF Marked, Possesses
  <1>4. Allocated'
    BY DEF Allocated
  <1>5. Owners'
    BY DEF Owners
  <1>6. Holders'
    BY DEF Holders
  <1>7. NoLostWakeup'
    BY DEF NoLostWakeup
  <1> QED
    BY <1>1, <1>2, <1>3, <1>4, <1>5, <1>6, <1>7

\* The holder of a mutex that is not normal becomes its owner.
LEMMA OwnInv ==
  ASSUME Inv, NEW t \in Threads, Own(t)  PROVE  Inv'
  <1> USE DEF Inv, Own, At, Goto
  <1>1. TypeOK'
    BY MutexAssumption DEF TypeOK, Labels
  <1>2. Exclusive'
    BY DEF Exclusive, Possesses
  <1>3. Marked'
    BY DEF Marked, Possesses
  <1>4. Allocated'
    BY DEF Allocated
  <1>5. Owners'
    BY DEF TypeOK, Owners, Holders
  <1>6. Holders'
    BY DEF Holders, Possesses, Exclusive
  <1>7. NoLostWakeup'
    BY DEF NoLostWakeup
  <1> QED
    BY <1>1, <1>2, <1>3, <1>4, <1>5, <1>6, <1>7

\* An inner unlock leaves the mutex with its owner.
LEMMA UnlockInnerInv ==
  ASSUME Inv, NEW t \in Threads, UnlockInner(t)  PROVE  Inv'
  <1> USE DEF Inv, UnlockInner, At
  <1>1. TypeOK'
    BY MutexAssumption DEF TypeOK, Owners
  <1>2. Exclusive'
    BY DEF TypeOK, Exclusive, Possesses
  <1>3. Marked'
    BY DEF TypeOK, Marked, Possesses
  <1>4. Allocated'
    BY DEF Allocated
  <1>5. Owners'
    BY DEF TypeOK, Owners
  <1>6. Holders'
    BY DEF Holders
  <1>7. NoLostWakeup'
    BY DEF NoLostWakeup
  <1> QED
    BY <1>1, <1>2, <1>3, <1>4, <1>5, <1>6, <1>7

\* An owner that unlocks is disowned before lock_idx is reset.
LEMMA DisownInv ==
  ASSUME Inv, NEW t \in Threads, Disown(t)  PROVE  Inv'
  <1> USE DEF Inv, Disown, At, Goto
  <1>1. TypeOK'
    BY MutexAssumption DEF TypeOK, Labels
  <1>2. Exclusive'
    BY DEF Exclusive, Possesses
  <1>3. Marked'
    BY DEF Marked, Possesses
  <1>4. Allocated'
    BY DEF Allocated
  <1>5. Owners'
    BY MutexAssumption DEF Owners
  <1>6. Holders'
    BY DEF TypeOK, Holders, Owners
  <1>7. NoLostWakeup'
    BY DEF NoLostWakeup
  <1> QED
    BY <1>1, <1>2, <1>3, <1>4, <1>5, <1>6, <1>7

\* The mutex becomes free when its holder stores 0, and a waiter is then due a signal.
LEMMA ReleaseInv ==
  ASSUME Inv, NEW t \in Threads, Release(t)  PROVE  Inv'
  <1> USE DEF Inv, Release, At, Goto
  <1>1. TypeOK'
    BY MutexAssumption DEF TypeOK, Labels
  <1>2. Exclusive'
    BY DEF Exclusive, Possesses
  <1>3. Marked'
    BY DEF TypeOK, Exclusive, Marked, Possesses, Holders
  <1>4. Allocated'
    BY DEF Allocated
  <1>5. Owners'
    BY DEF Owners
  <1>6. Holders'
    BY DEF TypeOK, Holders
  <1>7. NoLostWakeup'
    BY DEF TypeOK, NoLostWakeup
  <1> QED
    BY <1>1, <1>2, <1>3, <1>4, <1>5, <1>6, <1>7

\* A signal reaches the event of a live mutex.
LEMMA SignalInv ==
  ASSUME Inv, NEW t \in Threads, Signal(t)  PROVE  Inv'
  <1> USE DEF Inv, Signal, At, Goto
  <1>1. TypeOK'
    BY DEF TypeOK, Labels
  <1>2. Exclusive'
    BY DEF Exclusive, Possesses
  <1>3. Marked'
    BY DEF Marked, Possesses
  <1>4. Allocated'
    BY DEF Allocated
  <1>5. Owners'
    BY DEF Owners
  <1>6. Holders'
    BY DEF Holders
  <1>7. NoLostWakeup'
    BY DEF TypeOK, NoLostWakeup, Allocated
  <1> QED
    BY <1>1, <1>2, <1>3, <1>4, <1>5, <1>6, <1>7

\* A call that begins disturbs nobody.
LEMMA CallInv ==
  ASSUME Inv, NEW t \in Threads, Call(t)  PROVE  Inv'
  <1> USE DEF Inv, Call, At, Goto, mx
  <1>1. TypeOK'
    BY DEF TypeOK, Labels
  <1>2. Exclusive'
    BY DEF Exclusive, Possesses
  <1>3. Marked'
    BY DEF Marked, Possesses
  <1>4. Allocated'
    BY DEF TypeOK, Allocated
  <1>5. Owners'
    BY DEF Owners
  <1>6. Holders'
    BY DEF TypeOK, Holders, Allocated
  <1>7. NoLostWakeup'
    BY DEF NoLostWakeup
  <1> QED
    BY <1>1, <1>2, <1>3, <1>4, <1>5, <1>6, <1>7

\* A destroyer locks a mutex that no thread holds.
LEMMA DestroyInv ==
  ASSUME Inv, NEW t \in Threads, Destroy(t)  PROVE  Inv'
  <1> USE DEF Inv, Destroy, At, Goto, LastUser
  <1>1. TypeOK'
    BY MutexAssumption DEF TypeOK, Labels
  <1>2. Exclusive'
    BY DEF Exclusive, Possesses
  <1>3. Marked'
    BY DEF Marked
  <1>4. Allocated'
    BY DEF Allocated, Possesses, Marked
  <1>5. Owners'
    BY DEF TypeOK, Owners
  <1>6. Holders'
    BY DEF Holders, Marked, Possesses
  <1>7. NoLostWakeup'
    BY DEF NoLostWakeup
  <1> QED
    BY <1>1, <1>2, <1>3, <1>4, <1>5, <1>6, <1>7

\* A mutex is freed by its destroyer.
LEMMA FreeInv ==
  ASSUME Inv, NEW t \in Threads, Free(t)  PROVE  Inv'
  <1> USE DEF Inv, Free, At, Goto
  <1>1. TypeOK'
    BY Counts DEF TypeOK, Labels
  <1>2. Exclusive'
    BY DEF Exclusive, Possesses
  <1>3. Marked'
    BY DEF TypeOK, Exclusive, Marked, Possesses, Holders
  <1>4. Allocated'
    BY DEF Allocated
  <1>5. Owners'
    BY MutexAssumption DEF Owners
  <1>6. Holders'
    BY DEF Holders, Possesses, Exclusive
  <1>7. NoLostWakeup'
    BY DEF NoLostWakeup, Allocated
  <1> QED
    BY <1>1, <1>2, <1>3, <1>4, <1>5, <1>6, <1>7

\* A thread sets out to destroy a static mutex.
LEMMA BeginDestroyStaticInv ==
  ASSUME Inv, NEW t \in Threads, BeginDestroyStatic(t)  PROVE  Inv'
  <1> USE DEF Inv, BeginDestroyStatic, At, Goto, mx
  <1>1. TypeOK'
    BY DEF TypeOK, Labels
  <1>2. Exclusive'
    BY DEF Exclusive, Possesses
  <1>3. Marked'
    BY DEF Marked, Possesses
  <1>4. Allocated'
    BY DEF Allocated
  <1>5. Owners'
    BY DEF Owners
  <1>6. Holders'
    BY DEF Holders, Allocated
  <1>7. NoLostWakeup'
    BY DEF NoLostWakeup
  <1> QED
    BY <1>1, <1>2, <1>3, <1>4, <1>5, <1>6, <1>7

\* A static mutex that is destroyed was never held.
LEMMA DestroyStaticInv ==
  ASSUME Inv, NEW t \in Threads, DestroyStatic(t)  PROVE  Inv'
  <1> USE DEF Inv, DestroyStatic, At, Goto, mx
  <1>1. TypeOK'
    BY DEF TypeOK, Labels
  <1>2. Exclusive'
    BY DEF Exclusive, Possesses
  <1>3. Marked'
    BY DEF Marked, Possesses
  <1>4. Allocated'
    BY DEF Allocated
  <1>5. Owners'
    BY DEF Owners
  <1>6. Holders'
    BY DEF Holders
  <1>7. NoLostWakeup'
    BY DEF NoLostWakeup
  <1> QED
    BY <1>1, <1>2, <1>3, <1>4, <1>5, <1>6, <1>7

\* A mutex that is initialised again is held by nobody.
LEMMA ReinitInv ==
  ASSUME Inv, NEW t \in Threads, Reinit(t)  PROVE  Inv'
  <1> USE DEF Inv, Reinit, At, Fresh
  <1>1. TypeOK'
    BY Counts DEF TypeOK
  <1>2. Exclusive'
    BY DEF Exclusive, Possesses
  <1>3. Marked'
    BY DEF Marked, Possesses, Allocated
  <1>4. Allocated'
    BY DEF Allocated
  <1>5. Owners'
    BY DEF TypeOK, Owners, Allocated
  <1>6. Holders'
    BY DEF Holders, Allocated
  <1>7. NoLostWakeup'
    BY DEF NoLostWakeup
  <1> QED
    BY <1>1, <1>2, <1>3, <1>4, <1>5, <1>6, <1>7
-----------------------------------------------------------------------------
\* Every step preserves Inv.
LEMMA StepInv == Inv /\ [Next]_vars => Inv'
  <1> SUFFICES ASSUME Inv, [Next]_vars PROVE Inv'
    OBVIOUS
  <1>1. CASE UNCHANGED vars
    BY <1>1
    DEF vars, Inv, TypeOK, Exclusive, Marked, Allocated, Owners, Holders,
        NoLostWakeup, Possesses, At
  <1>2. ASSUME NEW t \in Threads, Step(t)  PROVE Inv'
    BY <1>2, CheckNeedInitInv, ExchangeOneInv, CompareExchangeInv, AgainInv,
       RefuseInv, ContendInv, SwapInv, WakeInv, TimeOutInv, OwnInv, ReleaseInv,
       SignalInv, FreeInv, DestroyStaticInv
    DEF Step
  <1>3. ASSUME NEW t \in Threads, Unlock(t)  PROVE Inv'
    BY <1>3, UnlockInnerInv, DisownInv, ReleaseInv DEF Unlock
  <1> QED
    BY <1>1, <1>2, <1>3, CallInv, DestroyInv, BeginDestroyStaticInv, ReinitInv DEF Next

\* Inv is an invariant of every behaviour.
THEOREM Invariance == Spec => []Inv
  BY InitInv, StepInv, PTL DEF Spec

\* The variables keep their types.
THEOREM TypeCorrect == Spec => []TypeOK
  BY Invariance, PTL DEF Inv

\* At most one thread holds the mutex, and it has marked it so in lock_idx,
\* whatever the kind and however the calls of lock, trylock, timedlock, unlock,
\* destroy and the lazy initialisation interleave.
THEOREM Exclusion == Spec => []MutualExclusion
  <1>1. Inv => MutualExclusion
    BY DEF Inv, TypeOK, MutualExclusion, Exclusive, Marked, Allocated, Possesses
  <1> QED
    BY <1>1, Invariance, PTL

\* ownerThread names the holder, and recursive_count counts its locks.
THEOREM OwnerIsHolder == Spec => []OwnerHolds
  <1>1. Inv => OwnerHolds
    BY DEF Inv, OwnerHolds, Owners, At
  <1> QED
    BY <1>1, Invariance, PTL

\* All three: the mutex has one owner, as its records have it.
THEOREM OneOwner == Spec => []Ownership
  <1>1. TypeOK /\ MutualExclusion /\ OwnerHolds => Ownership
    BY DEF Ownership
  <1> QED
    BY <1>1, TypeCorrect, Exclusion, OwnerIsHolder, PTL

\* A thread that waits for the event has been, or will be, signalled.
THEOREM NobodyForgotten == Spec => []NoLostWakeup
  BY Invariance, PTL DEF Inv

-----------------------------------------------------------------------------
(* The mutex implements the abstract lock.  Its unlock gives back one lock,   *)
(* whatever it stores: so a thread that is about to release lock_idx holds    *)
(* the mutex once, which Inv does not say.                                    *)

\* Only the owner of a recursive mutex holds it more than once, and not while it
\* records itself or releases lock_idx.
HeldOnce ==
  \A t \in Threads :
    held[t] > 1 => kind = "recursive" /\ pc[t] \in {"idle", "enter"}

LEMMA HeldOnceStep == Inv /\ HeldOnce /\ [Next]_vars => HeldOnce'
  <1> SUFFICES ASSUME Inv, HeldOnce, [Next]_vars PROVE HeldOnce'
    OBVIOUS
  <1> USE DEF HeldOnce, Inv, TypeOK, At, Goto, mx
  <1>1. CASE UNCHANGED vars
    BY <1>1 DEF vars
  <1>2. ASSUME NEW t \in Threads, ExchangeOne(t) \/ CompareExchange(t) \/ Swap(t) PROVE HeldOnce'
    BY <1>2 DEF ExchangeOne, CompareExchange, Swap, Acquired
  <1>3. ASSUME NEW t \in Threads, Again(t) \/ UnlockInner(t) PROVE HeldOnce'
    BY <1>3 DEF Again, UnlockInner
  <1>4. ASSUME NEW t \in Threads, Disown(t) PROVE HeldOnce'
    BY <1>4 DEF Disown, Owners
  <1>5. ASSUME NEW t \in Threads, Release(t) PROVE HeldOnce'
    BY <1>5 DEF Release
  \* A thread that holds the mutex makes a call of a mutex that is initialised.
  <1>6. ASSUME NEW t \in Threads, Call(t) PROVE HeldOnce'
    <2>1. held[t] > 1 => pc'[t] = "enter"
      BY <1>6 DEF Call, Allocated
    <2>2. \A u \in Threads : u # t => pc'[u] = pc[u]
      BY <1>6 DEF Call
    <2> QED
      BY <1>6, <2>1, <2>2 DEF Call
  <1>7. ASSUME NEW t \in Threads, CheckNeedInit(t) \/ Refuse(t) PROVE HeldOnce'
    BY <1>7 DEF CheckNeedInit, Refuse
  <1>8. ASSUME NEW t \in Threads, Wake(t) \/ TimeOut(t) \/ Own(t) \/ Signal(t) PROVE HeldOnce'
    BY <1>8 DEF Wake, TimeOut, Own, Signal
  <1>9. ASSUME NEW t \in Threads, Destroy(t) \/ Free(t) PROVE HeldOnce'
    BY <1>9 DEF Destroy, Free, Marked, Possesses
  <1>10. ASSUME NEW t \in Threads, BeginDestroyStatic(t) \/ DestroyStatic(t) PROVE HeldOnce'
    BY <1>10 DEF BeginDestroyStatic, DestroyStatic, Allocated
  <1>11. ASSUME NEW t \in Threads, Reinit(t) PROVE HeldOnce'
    BY <1>11 DEF Reinit, Allocated
  \* A thread that holds the mutex does not wait for it.
  <1>12. ASSUME NEW t \in Threads, Contend(t) PROVE HeldOnce'
    <2>1. ~(held[t] > 1)
      BY <1>12 DEF Contend, Holders
    <2> QED
      BY <1>12, <2>1 DEF Contend
  <1> QED
    BY <1>1, <1>2, <1>3, <1>4, <1>5, <1>6, <1>7, <1>8, <1>9, <1>10, <1>11,
       <1>12 DEF Next, Step, Unlock

\* Every step of a mutex is one of the abstract lock, or leaves that as it is.
LEMMA OwnedStep == Inv /\ HeldOnce /\ [Next]_vars => [Owned!Next]_Owned!vars
  <1> SUFFICES ASSUME Inv, HeldOnce, [Next]_vars PROVE [Owned!Next]_Owned!vars
    OBVIOUS
  <1> USE DEF At, Goto, mx, Owned!vars
  <1>1. CASE UNCHANGED vars
    BY <1>1 DEF vars
  \* An exchange that finds 0 takes a mutex that nobody holds.
  <1>2. ASSUME NEW t \in Threads, lock_idx = 0, mutex = "live", mutex' = mutex, Acquired(t)
        PROVE  Owned!Take(t)
    BY <1>2 DEF Inv, TypeOK, Marked, Possesses, Acquired, Owned!Take, Owned!Free
  <1>3. ASSUME NEW t \in Threads, ExchangeOne(t) \/ CompareExchange(t) \/ Swap(t)
        PROVE  [Owned!Next]_Owned!vars
    <2>1. mutex = "live" /\ mutex' = mutex
      BY <1>3 DEF Inv, Allocated, ExchangeOne, CompareExchange, Swap
    <2>2. (lock_idx = 0 /\ Acquired(t)) \/ held' = held
      BY <1>3 DEF ExchangeOne, CompareExchange, Swap
    <2> QED
      BY <1>2, <2>1, <2>2 DEF Owned!Next
  <1>4. ASSUME NEW t \in Threads, Again(t) PROVE Owned!Again(t)
    BY <1>4 DEF Inv, Owners, Again, Owned!Again
  <1>5. ASSUME NEW t \in Threads, UnlockInner(t) PROVE Owned!GiveBack(t)
    BY <1>5 DEF Inv, Owners, UnlockInner, Owned!GiveBack
  <1>6. ASSUME NEW t \in Threads, Release(t) PROVE Owned!GiveBack(t)
    <2>1. held[t] > 0 /\ held[t] \in Nat
      BY <1>6 DEF Inv, TypeOK, Holders, Release
    <2>2. held[t] <= 1
      BY <1>6, <2>1 DEF HeldOnce, Release
    <2>3. held[t] - 1 = 0
      BY <2>1, <2>2
    <2> QED
      BY <1>6, <2>1, <2>3 DEF Release, Owned!GiveBack
  <1>7. ASSUME NEW t \in Threads, Destroy(t) PROVE Owned!Destroy
    BY <1>7 DEF Inv, TypeOK, Marked, Possesses, Destroy, Owned!Destroy, Owned!Free
  <1>8. ASSUME NEW t \in Threads, DestroyStatic(t) PROVE [Owned!Next]_Owned!vars
    <2>1. CASE mutex = "static"
      BY <1>8, <2>1 DEF Inv, TypeOK, Allocated, DestroyStatic, Owned!Next, Owned!Destroy, Owned!Free
    <2>2. CASE mutex # "static"
      BY <1>8, <2>2 DEF DestroyStatic
    <2> QED
      BY <2>1, <2>2
  <1>9. ASSUME NEW t \in Threads, Reinit(t) PROVE Owned!Create
    BY <1>9 DEF Reinit, Owned!Create
  \* The initialisation of a static mutex creates nothing that a caller could tell.
  <1>10. ASSUME NEW t \in Threads, CheckNeedInit(t) PROVE UNCHANGED Owned!vars
    BY <1>10 DEF CheckNeedInit
  <1>11. ASSUME NEW t \in Threads,
               \/ Call(t) \/ Refuse(t) \/ Contend(t) \/ Wake(t) \/ TimeOut(t) \/ Own(t)
               \/ Disown(t) \/ Signal(t) \/ Free(t) \/ BeginDestroyStatic(t)
         PROVE UNCHANGED Owned!vars
    BY <1>11 DEF Call, Refuse, Contend, Wake, TimeOut, Own, Disown, Signal, Free,
                 BeginDestroyStatic
  <1> QED
    BY <1>1, <1>3, <1>4, <1>5, <1>6, <1>7, <1>8, <1>9, <1>10, <1>11
    DEF Next, Step, Unlock, Owned!Next

\* For every set of threads and every kind a mutex is the abstract lock: it is
\* given to one thread at a time, only while it exists, kept until it has been
\* unlocked as often as locked, and not destroyed under its holder.
THEOREM Implementation == Spec => OwnedSpec
  <1>1. Init => HeldOnce
    BY DEF Init, HeldOnce
  <1>2. Spec => []HeldOnce
    BY <1>1, HeldOnceStep, Invariance, PTL DEF Spec
  <1>3. Init => Owned!Init
    BY DEF Init, Owned!Init
  <1> QED
    BY <1>2, <1>3, OwnedStep, Invariance, PTL DEF Spec, OwnedSpec, Owned!Spec
=============================================================================
