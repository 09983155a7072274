-------------------------------- MODULE Mutex --------------------------------
(***************************************************************************)
(* A non-robust mutex: pthread_mutex_lock, _timedlock, _trylock, _unlock   *)
(* and _destroy, with the initialisation of a static mutex on first use.   *)
(*                                                                         *)
(* lock_idx is 0 when the mutex is free, 1 when it is locked and -1 when   *)
(* it is locked and somebody may be waiting for event, which is an         *)
(* auto-reset event: a wait that succeeds resets it.  The events and       *)
(* interlocked operations are the atomic steps.                            *)
(***************************************************************************)
EXTENDS Integers

CONSTANTS
  Threads,   \* the threads that use the mutex
  NoThread,  \* ownerThread.p = NULL
  Kinds,     \* the kinds that the mutex may have
  MaxCount   \* bound: how often the owner of a recursive mutex may lock it

ASSUME MutexAssumption ==
  /\ NoThread \notin Threads
  /\ Kinds \subseteq {"normal", "errorcheck", "recursive"}
  /\ MaxCount \in Nat \ {0, 1}

VARIABLES
  mutex,      \* *mutex: "static" (an initialiser), "live" (allocated) or "null"
  kind,       \* mx->kind, or the kind that the initialiser stands for
  lock_idx,   \* mx->lock_idx
  event,      \* whether mx->event is signalled
  owner,      \* mx->ownerThread
  count,      \* mx->recursive_count
  pc,         \* pc[t]: where thread t is
  op,         \* op[t]: the call t is in: "lock", "timedlock" or "trylock"
  held        \* history: how often t has locked the mutex and not unlocked it

mx == <<lock_idx, event, owner, count>>
vars == <<mutex, kind, lock_idx, event, owner, count, pc, op, held>>

Goto(t, l) == pc' = [pc EXCEPT ![t] = l]

At(t, l) == pc[t] = l

Init ==
  /\ mutex = "static"
  /\ kind \in Kinds
  /\ lock_idx = 0
  /\ event = FALSE
  /\ owner = NoThread
  /\ count = 0
  /\ pc = [t \in Threads |-> "idle"]
  /\ op = [t \in Threads |-> "lock"]
  /\ held = [t \in Threads |-> 0]

\* pthread_mutex_init: the fields of a new mutex.
Fresh == lock_idx' = 0 /\ event' = FALSE /\ owner' = NoThread /\ count' = 0

-----------------------------------------------------------------------------
(* Locking. *)

\* The quick check of *mutex at the start of a call: EINVAL if it is null.  The
\* holder of a normal mutex does not wait for itself.
Call(t) ==
  /\ At(t, "idle") /\ mutex # "null"
  /\ owner = t => count < MaxCount  \* the bound
  /\ \E o \in {"lock", "timedlock", "trylock"} :
       /\ kind = "normal" /\ held[t] > 0 => o = "trylock"
       /\ op' = [op EXCEPT ![t] = o]
  /\ Goto(t, IF mutex = "static" THEN "init" ELSE "enter")
  /\ UNCHANGED <<mutex, kind, mx, held>>

\* ptw32_mutex_check_need_init, under ptw32_mutex_test_init_lock.
CheckNeedInit(t) ==
  /\ At(t, "init")
  /\ IF mutex = "static" THEN mutex' = "live" /\ Fresh ELSE UNCHANGED <<mutex, mx>>
  /\ Goto(t, IF mutex = "null" THEN "idle" ELSE "enter")
  /\ UNCHANGED <<kind, op, held>>

\* t has exchanged lock_idx and found 0: the mutex is its own.
Acquired(t) ==
  /\ held' = [held EXCEPT ![t] = 1]
  /\ Goto(t, IF kind = "normal" THEN "idle" ELSE "own")

\* lock and timedlock of a normal mutex: exchange lock_idx by 1.
ExchangeOne(t) ==
  /\ At(t, "enter") /\ kind = "normal" /\ op[t] # "trylock"
  /\ lock_idx' = 1
  /\ IF lock_idx = 0 THEN Acquired(t) ELSE Goto(t, "swap") /\ UNCHANGED held
  /\ UNCHANGED <<mutex, kind, event, owner, count, op>>

\* The other calls: compare lock_idx with 0 and exchange it by 1.
CompareExchange(t) ==
  /\ At(t, "enter") /\ (kind # "normal" \/ op[t] = "trylock")
  /\ lock_idx = 0
  /\ lock_idx' = 1
  /\ Acquired(t)
  /\ UNCHANGED <<mutex, kind, event, owner, count, op>>

\* The owner of a recursive mutex locks it once more.
Again(t) ==
  /\ At(t, "enter") /\ kind = "recursive" /\ lock_idx # 0 /\ owner = t
  /\ count' = count + 1
  /\ held' = [held EXCEPT ![t] = @ + 1]
  /\ Goto(t, "idle")
  /\ UNCHANGED <<mutex, kind, lock_idx, event, owner, op>>

\* EBUSY from trylock; EDEADLK from lock by the owner of an errorcheck mutex.
Refuse(t) ==
  /\ At(t, "enter") /\ lock_idx # 0
  /\ \/ op[t] = "trylock" /\ ~(kind = "recursive" /\ owner = t)
     \/ kind = "errorcheck" /\ owner = t
  /\ Goto(t, "idle")
  /\ UNCHANGED <<mutex, kind, mx, op, held>>

\* A lock that is neither free nor the caller's: go and wait for it.
Contend(t) ==
  /\ At(t, "enter") /\ kind # "normal" /\ op[t] # "trylock"
  /\ lock_idx # 0 /\ owner # t
  /\ Goto(t, "swap")
  /\ UNCHANGED <<mutex, kind, mx, op, held>>

\* Fault: the waiting loop marks the mutex as merely locked.
SwapOne(t) ==
  /\ At(t, "swap")
  /\ lock_idx' = 1
  /\ IF lock_idx = 0 THEN Acquired(t) ELSE Goto(t, "wait") /\ UNCHANGED held
  /\ UNCHANGED <<mutex, kind, event, owner, count, op>>

\* The head of the waiting loop: exchange lock_idx by -1.
Swap(t) ==
  /\ At(t, "swap")
  /\ lock_idx' = -1
  /\ IF lock_idx = 0 THEN Acquired(t) ELSE Goto(t, "wait") /\ UNCHANGED held
  /\ UNCHANGED <<mutex, kind, event, owner, count, op>>

\* WaitForSingleObject(mx->event) succeeds, and resets the event.
Wake(t) ==
  /\ At(t, "wait") /\ event
  /\ event' = FALSE
  /\ Goto(t, "swap")
  /\ UNCHANGED <<mutex, kind, lock_idx, owner, count, op, held>>

\* ETIMEDOUT from timedlock.
TimeOut(t) ==
  /\ At(t, "wait") /\ op[t] = "timedlock" /\ ~event
  /\ Goto(t, "idle")
  /\ UNCHANGED <<mutex, kind, mx, op, held>>

\* The new holder of a mutex that is not normal records itself.
Own(t) ==
  /\ At(t, "own")
  /\ count' = 1
  /\ owner' = t
  /\ Goto(t, "idle")
  /\ UNCHANGED <<mutex, kind, lock_idx, event, op, held>>

-----------------------------------------------------------------------------
(* Unlocking.  The callers of a normal mutex hold it; for the other kinds the *)
(* code checks that they do.                                                  *)

\* The owner of a recursive mutex unlocks it, but not for the last time.
UnlockInner(t) ==
  /\ At(t, "idle") /\ mutex = "live"
  /\ kind = "recursive" /\ owner = t /\ count > 1
  /\ count' = count - 1
  /\ held' = [held EXCEPT ![t] = @ - 1]
  /\ UNCHANGED <<mutex, kind, lock_idx, event, owner, pc, op>>

\* Fault: the owner is not cleared.
DisownLate(t) ==
  /\ At(t, "idle") /\ mutex = "live"
  /\ kind # "normal" /\ owner = t /\ (kind = "recursive" => count = 1)
  /\ count' = IF kind = "recursive" THEN count - 1 ELSE count
  /\ Goto(t, "release")
  /\ UNCHANGED <<mutex, kind, lock_idx, event, owner, op, held>>

Disown(t) ==
  /\ At(t, "idle") /\ mutex = "live"
  /\ kind # "normal" /\ owner = t /\ (kind = "recursive" => count = 1)
  /\ count' = IF kind = "recursive" THEN count - 1 ELSE count
  /\ owner' = NoThread
  /\ Goto(t, "release")
  /\ UNCHANGED <<mutex, kind, lock_idx, event, op, held>>

\* Exchange lock_idx by 0: if it was -1, somebody may be waiting.
Release(t) ==
  /\ \/ At(t, "release")
     \/ At(t, "idle") /\ kind = "normal" /\ mutex = "live" /\ held[t] > 0
  /\ lock_idx' = 0
  /\ held' = [held EXCEPT ![t] = 0]
  /\ Goto(t, IF lock_idx < 0 THEN "signal" ELSE "idle")
  /\ UNCHANGED <<mutex, kind, event, owner, count, op>>

\* SetEvent(mx->event).
Signal(t) ==
  /\ At(t, "signal")
  /\ event' = TRUE
  /\ Goto(t, "idle")
  /\ UNCHANGED <<mutex, kind, lock_idx, owner, count, op, held>>

-----------------------------------------------------------------------------
(* Destruction and initialisation.  A caller must be the last user of an      *)
(* allocated mutex: no other thread holds it or is in a call, also not in    *)
(* the SetEvent of an unlock.  A static mutex may be destroyed at any time.  *)

LastUser(t) == \A u \in Threads \ {t} : held[u] = 0 /\ At(u, "idle")

\* trylock succeeds and *mutex is set to NULL.
Destroy(t) ==
  /\ At(t, "idle") /\ mutex = "live" /\ LastUser(t)
  /\ lock_idx = 0
  /\ lock_idx' = 1
  /\ mutex' = "null"
  /\ IF kind = "normal" THEN UNCHANGED <<owner, count>> ELSE owner' = t /\ count' = 1
  /\ Goto(t, "destroy")
  /\ UNCHANGED <<kind, event, op, held>>

\* unlock succeeds, the event is closed and the mutex is freed.
Free(t) ==
  /\ At(t, "destroy")
  /\ lock_idx' = 0
  /\ event' = FALSE
  /\ owner' = NoThread
  /\ count' = 0
  /\ Goto(t, "idle")
  /\ UNCHANGED <<mutex, kind, op, held>>

\* The destruction of a static mutex, under ptw32_mutex_test_init_lock: EBUSY
\* if it has been initialised in the meantime.
BeginDestroyStatic(t) ==
  /\ At(t, "idle") /\ mutex = "static"
  /\ Goto(t, "destroyStatic")
  /\ UNCHANGED <<mutex, kind, mx, op, held>>

\* Fault: whether the mutex is still static is not tested under the lock.
DestroyUntested(t) ==
  /\ At(t, "destroyStatic")
  /\ mutex' = "null"
  /\ Goto(t, "idle")
  /\ UNCHANGED <<kind, mx, op, held>>

DestroyStatic(t) ==
  /\ At(t, "destroyStatic")
  /\ mutex' = IF mutex = "static" THEN "null" ELSE mutex
  /\ Goto(t, "idle")
  /\ UNCHANGED <<kind, mx, op, held>>

\* A destroyed mutex is initialised again.
Reinit(t) ==
  /\ At(t, "idle") /\ mutex = "null"
  /\ \A u \in Threads : At(u, "idle")
  /\ mutex' = "live" /\ Fresh /\ kind' \in Kinds
  /\ UNCHANGED <<pc, op, held>>

-----------------------------------------------------------------------------
\* What a thread does inside a call, and the calls.
Step(t) ==
  \/ CheckNeedInit(t) \/ ExchangeOne(t) \/ CompareExchange(t) \/ Again(t)
  \/ Refuse(t) \/ Contend(t) \/ Swap(t) \/ Wake(t) \/ TimeOut(t) \/ Own(t)
  \/ (At(t, "release") /\ Release(t))
  \/ Signal(t) \/ Free(t) \/ DestroyStatic(t)

Unlock(t) == UnlockInner(t) \/ Disown(t) \/ (At(t, "idle") /\ Release(t))

Next ==
  \E t \in Threads :
    Step(t) \/ Unlock(t) \/ Call(t) \/ Destroy(t) \/ BeginDestroyStatic(t) \/ Reinit(t)

Spec == Init /\ [][Next]_vars

\* A thread inside a call is scheduled, and unlocks in the end what it holds.
Fairness == \A t \in Threads : WF_vars(Step(t)) /\ WF_vars(Unlock(t))

FairSpec == Spec /\ Fairness

-----------------------------------------------------------------------------
(* Properties. *)

Labels == {"idle", "init", "enter", "swap", "wait", "own", "release", "signal",
           "destroy", "destroyStatic"}

\* Type invariant.
TypeOK ==
  /\ mutex \in {"static", "live", "null"}
  /\ kind \in Kinds
  /\ lock_idx \in {-1, 0, 1}
  /\ event \in BOOLEAN
  /\ owner \in Threads \cup {NoThread}
  /\ count \in 0..MaxCount
  /\ pc \in [Threads -> Labels]
  /\ op \in [Threads -> {"lock", "timedlock", "trylock"}]
  /\ held \in [Threads -> 0..MaxCount]

\* At most one thread holds the mutex, and whoever holds it has made lock_idx
\* differ from 0.  A second initialisation of a static mutex would free it
\* under its holder.
MutualExclusion ==
  \A t \in Threads : held[t] > 0 =>
    lock_idx # 0 /\ mutex = "live" /\ \A u \in Threads \ {t} : held[u] = 0

\* ownerThread never names a thread that does not hold the mutex: a recursive
\* lock or an unlock by a thread that lost it would succeed.
OwnerHolds ==
  \A t \in Threads : owner = t =>
    \/ held[t] > 0 /\ (kind = "recursive" => held[t] = count)
    \/ At(t, "destroy")

\* The mutex has one owner, as ownerThread, recursive_count and lock_idx have it,
\* each within its type.
Ownership == TypeOK /\ MutualExclusion /\ OwnerHolds

\* A thread that waits for the event is not forgotten: the event is signalled,
\* or the next unlock will signal it, or some thread is about to.
NoLostWakeup ==
  \A t \in Threads : At(t, "wait") =>
    event \/ lock_idx = -1 \/ \E u \in Threads : pc[u] \in {"swap", "signal"}

Owned == INSTANCE OwnedLock WITH
  exists <- mutex # "null", depth <- held, health <- "consistent"

\* The mutex is given to a thread only while it exists and nobody holds it, stays
\* with that thread until it has been unlocked as often as locked, and is
\* destroyed only when nobody holds it: the abstract lock, without deaths.
OwnedSpec == Owned!Spec

\* As long as a thread waits for the mutex somebody comes to hold it.
Progress ==
  (\E t \in Threads : pc[t] \in {"swap", "wait"}) ~>
    \/ \E t \in Threads : held[t] > 0
    \/ \A t \in Threads : pc[t] \notin {"swap", "wait"}
=============================================================================
