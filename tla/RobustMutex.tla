----------------------------- MODULE RobustMutex ------------------------------
(***************************************************************************)
(* A robust mutex: locking, unlocking, pthread_mutex_consistent,           *)
(* destruction, and the termination of a thread that holds it.             *)
(*                                                                         *)
(* Compared with module Mutex every kind records its owner, the mutex is   *)
(* on a list of its owner, and stateInconsistent says whether an owner has *)
(* died: "ownerDead" is the -1 that a terminating thread stores.           *)
(***************************************************************************)
EXTENDS Integers

CONSTANTS
  Threads,   \* the threads that use the mutex
  NoThread,  \* an ownerThread that is no running thread
  Kinds,     \* the kinds that the mutex may have
  MaxCount,  \* bound: how often the owner of a recursive mutex may lock it
  Ops,       \* the calls that threads make to lock or destroy the mutex
  TimedKinds \* the kinds of mutex that they call timedlock for

\* What the constants are taken to be.
RobustAssumption ==
  /\ NoThread \notin Threads
  /\ Kinds \subseteq {"normal", "errorcheck", "recursive"}
  /\ MaxCount \in Nat \ {0, 1}
  /\ Ops \subseteq {"lock", "trylock", "destroy"}
  /\ TimedKinds \subseteq Kinds

VARIABLES
  mutex,      \* *mutex: "live" or "null"
  kind,       \* mx->kind, taken as the non-negative kind it stands for
  lock_idx,   \* mx->lock_idx
  event,      \* whether mx->event is signalled
  owner,      \* mx->ownerThread
  count,      \* mx->recursive_count
  state,      \* mx->robustNode->stateInconsistent
  lists,      \* the threads that have the mutex on their robustMxList
  pc,         \* pc[t]: where thread t is
  op,         \* op[t]: the locking call t is in
  result,     \* result[t]: what t's last successful locking call returned
  held        \* history: how often t has locked the mutex and not unlocked it

mx == <<lock_idx, event, owner, count, state>>
vars == <<mutex, kind, mx, lists, pc, op, result, held>>

Goto(t, l) == pc' = [pc EXCEPT ![t] = l]

At(t, l) == pc[t] = l

\* A call that makes threads wait; a timed wait for a normal mutex tests the
\* state when it has been woken, like lock, for the other kinds it does not.
Blocking(t) == op[t] # "trylock"
TestsWhenWoken(t) == op[t] = "lock" \/ kind = "normal"

Init ==
  /\ mutex = "live"
  /\ kind \in Kinds
  /\ lock_idx = 0 /\ event = FALSE /\ owner = NoThread /\ count = 0
  /\ state = "consistent"
  /\ lists = {}
  /\ pc = [t \in Threads |-> "idle"]
  /\ op = [t \in Threads |-> "lock"]
  /\ result = [t \in Threads |-> "0"]
  /\ held = [t \in Threads |-> 0]

-----------------------------------------------------------------------------
(* Locking. *)

\* A call begins: it fails with ENOTRECOVERABLE if the state says so.  The
\* holder of a normal mutex does not wait for itself.
Call(t) ==
  /\ At(t, "idle") /\ mutex = "live" /\ state # "notRecoverable"
  /\ owner = t => count < MaxCount  \* the bound
  /\ \E o \in (Ops \cap {"lock", "trylock"}) \cup {"timedlock"} :
       /\ o = "timedlock" => kind \in TimedKinds
       /\ kind = "normal" /\ held[t] > 0 => o = "trylock"
       /\ op' = [op EXCEPT ![t] = o]
  /\ Goto(t, "enter")
  /\ UNCHANGED <<mutex, kind, mx, lists, result, held>>

\* The mutex is t's; what is left to do is at label l.
Acquired(t, r, l) ==
  /\ held' = [held EXCEPT ![t] = 1]
  /\ result' = [result EXCEPT ![t] = r]
  /\ Goto(t, l)

\* lock and timedlock of a normal mutex: exchange lock_idx by 1.  When the
\* mutex is free timedlock returns without recording the owner.
ExchangeOne(t) ==
  /\ At(t, "enter") /\ kind = "normal" /\ Blocking(t)
  /\ lock_idx' = 1
  /\ IF lock_idx = 0
       THEN Acquired(t, "0", IF op[t] = "timedlock" THEN "idle" ELSE "add")
       ELSE Goto(t, "inherit") /\ UNCHANGED <<result, held>>
  /\ UNCHANGED <<mutex, kind, event, owner, count, state, lists, op>>

\* The other calls: compare lock_idx with 0 and exchange it by 1.
CompareExchange(t) ==
  /\ At(t, "enter") /\ (kind # "normal" \/ ~Blocking(t))
  /\ lock_idx = 0
  /\ lock_idx' = 1
  /\ Acquired(t, "0", "add")
  /\ UNCHANGED <<mutex, kind, event, owner, count, state, lists, op>>

\* The owner calls again: a recursive mutex is locked once more, lock and
\* timedlock of an errorcheck mutex return EDEADLK.
Reenter(t) ==
  /\ At(t, "enter") /\ lock_idx # 0 /\ owner = t
  /\ kind = "recursive" \/ (kind = "errorcheck" /\ Blocking(t))
  /\ IF kind = "recursive"
       THEN count' = count + 1 /\ held' = [held EXCEPT ![t] = @ + 1]
       ELSE UNCHANGED <<count, held>>
  /\ Goto(t, "idle")
  /\ UNCHANGED <<mutex, kind, lock_idx, event, owner, state, lists, op, result>>

Contend(t) ==
  /\ At(t, "enter") /\ (kind # "normal" \/ ~Blocking(t)) /\ lock_idx # 0
  /\ owner = t => ~Blocking(t) /\ kind # "recursive"
  /\ Goto(t, "inherit")
  /\ UNCHANGED <<mutex, kind, mx, lists, op, result, held>>

\* ptw32_robust_mutex_inherit: take over from an owner that has died, give up
\* if the mutex is lost; else trylock returns EBUSY and the others go on.
Inherit(t) ==
  /\ At(t, "inherit")
  /\ \/ /\ state = "ownerDead"
        /\ state' = "inconsistent"
        /\ Acquired(t, "EOWNERDEAD", "add")
     \/ /\ state = "notRecoverable"
        /\ Goto(t, IF Blocking(t) /\ ~TestsWhenWoken(t) THEN "passOn" ELSE "idle")
        /\ UNCHANGED <<state, result, held>>
     \/ /\ state \in {"consistent", "inconsistent"}
        /\ Goto(t, IF Blocking(t) THEN "swap" ELSE "idle")
        /\ UNCHANGED <<state, result, held>>
  /\ UNCHANGED <<mutex, kind, lock_idx, event, owner, count, lists, op>>

Swap(t) ==
  /\ At(t, "swap")
  /\ lock_idx' = -1
  /\ IF lock_idx = 0
       THEN Acquired(t, "0", IF TestsWhenWoken(t) THEN "add" ELSE "final")
       ELSE Goto(t, "wait") /\ UNCHANGED <<result, held>>
  /\ UNCHANGED <<mutex, kind, event, owner, count, state, lists, op>>

Wake(t) ==
  /\ At(t, "wait") /\ event
  /\ event' = FALSE
  /\ Goto(t, IF TestsWhenWoken(t) THEN "woken" ELSE "inherit")
  /\ UNCHANGED <<mutex, kind, lock_idx, owner, count, state, lists, op, result, held>>

TimeOut(t) ==
  /\ At(t, "wait") /\ op[t] = "timedlock" /\ ~event
  /\ Goto(t, "idle")
  /\ UNCHANGED <<mutex, kind, mx, lists, op, result, held>>

\* A woken thread finds that the mutex is lost, or tries again.
Woken(t) ==
  /\ At(t, "woken")
  /\ Goto(t, IF state = "notRecoverable" THEN "passOn" ELSE "inherit")
  /\ UNCHANGED <<mutex, kind, mx, lists, op, result, held>>

\* timedlock of a kind that is not normal tests the state after its loop; the
\* mutex stays locked without an owner if it is lost.
Final(t) ==
  /\ At(t, "final")
  /\ IF state = "notRecoverable"
       THEN Goto(t, "passOn") /\ held' = [held EXCEPT ![t] = 0]
       ELSE Goto(t, "add") /\ UNCHANGED held
  /\ UNCHANGED <<mutex, kind, mx, lists, op, result>>

\* SetEvent(mx->event): unblock the next thread.
PassOn(t) ==
  /\ At(t, "passOn")
  /\ event' = TRUE
  /\ Goto(t, "idle")
  /\ UNCHANGED <<mutex, kind, lock_idx, owner, count, state, lists, op, result, held>>

\* recursive_count = 1 (for a kind that uses it) and ptw32_robust_mutex_add
Add(t) ==
  /\ At(t, "add")
  /\ count' = IF kind = "normal" THEN count ELSE 1
  /\ owner' = t
  /\ lists' = lists \cup {t}
  /\ Goto(t, "idle")
  /\ UNCHANGED <<mutex, kind, lock_idx, event, state, op, result, held>>

-----------------------------------------------------------------------------
(* Unlocking by the owner; EPERM for anybody else. *)

\* Fault: an inconsistent mutex that is unlocked is not marked as lost.
UnlockUnmarked(t) ==
  /\ At(t, "idle") /\ mutex = "live" /\ owner = t
  /\ Goto(t, "unlock")
  /\ UNCHANGED <<mutex, kind, mx, lists, op, result, held>>

\* An inconsistent mutex that is unlocked is lost.
Unlock(t) ==
  /\ At(t, "idle") /\ mutex = "live" /\ owner = t
  /\ state' = IF state = "inconsistent" THEN "notRecoverable" ELSE state
  /\ Goto(t, "unlock")
  /\ UNCHANGED <<mutex, kind, lock_idx, event, owner, count, lists, op, result, held>>

\* Fault: the mutex stays on the list of its former owner.
RemoveOwnerOnly(t) ==
  /\ At(t, "unlock")
  /\ count' = IF kind = "recursive" THEN count - 1 ELSE count
  /\ IF kind = "recursive" /\ count > 1
       THEN /\ held' = [held EXCEPT ![t] = @ - 1]
            /\ Goto(t, "idle")
            /\ UNCHANGED owner
       ELSE /\ owner' = NoThread
            /\ Goto(t, "release")
            /\ UNCHANGED held
  /\ UNCHANGED <<mutex, kind, lock_idx, event, state, lists, op, result>>

\* ptw32_robust_mutex_remove, unless a recursive mutex stays locked.
Remove(t) ==
  /\ At(t, "unlock")
  /\ count' = IF kind = "recursive" THEN count - 1 ELSE count
  /\ IF kind = "recursive" /\ count > 1
       THEN /\ held' = [held EXCEPT ![t] = @ - 1]
            /\ Goto(t, "idle")
            /\ UNCHANGED <<owner, lists>>
       ELSE /\ owner' = NoThread
            /\ lists' = lists \ {t}
            /\ Goto(t, "release")
            /\ UNCHANGED held
  /\ UNCHANGED <<mutex, kind, lock_idx, event, state, op, result>>

Release(t) ==
  /\ At(t, "release")
  /\ lock_idx' = 0
  /\ held' = [held EXCEPT ![t] = 0]
  /\ Goto(t, IF lock_idx < 0 THEN "passOn" ELSE "idle")
  /\ UNCHANGED <<mutex, kind, event, owner, count, state, lists, op, result>>

\* pthread_mutex_consistent, which the new owner calls.
Consistent(t) ==
  /\ At(t, "idle") /\ mutex = "live" /\ owner = t
  /\ state = "inconsistent"
  /\ state' = "consistent"
  /\ UNCHANGED <<mutex, kind, lock_idx, event, owner, count, lists, pc, op, result, held>>

-----------------------------------------------------------------------------
(* The termination of a thread (pthread_win32_thread_detach_np): each mutex  *)
(* on its list is removed from it, marked, and its event is signalled.       *)

Terminate(t) ==
  /\ At(t, "idle")
  /\ IF t \in lists
       THEN owner' = NoThread /\ lists' = lists \ {t} /\ Goto(t, "mark")
       ELSE Goto(t, "dead") /\ UNCHANGED <<owner, lists>>
  /\ UNCHANGED <<mutex, kind, lock_idx, event, count, state, op, result, held>>

Mark(t) ==
  /\ At(t, "mark")
  /\ state' = "ownerDead"
  /\ held' = [held EXCEPT ![t] = 0]
  /\ Goto(t, "wakeOne")
  /\ UNCHANGED <<mutex, kind, lock_idx, event, owner, count, lists, op, result>>

\* Fault: nobody is told of the death.
WakeNobody(t) ==
  /\ At(t, "wakeOne")
  /\ Goto(t, "dead")
  /\ UNCHANGED <<mutex, kind, mx, lists, op, result, held>>

WakeOne(t) ==
  /\ At(t, "wakeOne")
  /\ event' = TRUE
  /\ Goto(t, "dead")
  /\ UNCHANGED <<mutex, kind, lock_idx, owner, count, state, lists, op, result, held>>

\* A new thread.
Create(t) ==
  /\ At(t, "dead") /\ held[t] = 0
  /\ Goto(t, "idle")
  /\ result' = [result EXCEPT ![t] = "0"]
  /\ UNCHANGED <<mutex, kind, mx, lists, op, held>>

-----------------------------------------------------------------------------
(* Destruction, by a caller that no other thread disturbs, when nobody holds *)
(* the mutex.  The code goes on when trylock gives the mutex to the caller   *)
(* or says that it is lost.                                                  *)

MayDestroy(t) ==
  /\ At(t, "idle") /\ mutex = "live"
  /\ \A u \in Threads \ {t} : pc[u] \in {"idle", "dead"}
  /\ "destroy" \in Ops /\ \A u \in Threads : held[u] = 0

\* trylock succeeds.  (It also does for the owner of a recursive mutex, which
\* here makes no such call.)
Destroy(t) ==
  /\ MayDestroy(t)
  /\ state = "notRecoverable" \/ lock_idx = 0
  /\ mutex' = "null"
  /\ UNCHANGED <<kind, mx, lists, pc, op, result, held>>

\* trylock inherits the mutex: destroy returns EOWNERDEAD, and the caller holds
\* the mutex.
DestroyInherits(t) ==
  /\ MayDestroy(t)
  /\ lock_idx # 0 /\ state = "ownerDead"
  /\ state' = "inconsistent"
  /\ Acquired(t, "EOWNERDEAD", "add")
  /\ UNCHANGED <<mutex, kind, lock_idx, event, owner, count, lists, op>>

\* pthread_mutex_init
Reinit(t) ==
  /\ At(t, "idle") /\ mutex = "null"
  /\ mutex' = "live"
  /\ lock_idx' = 0 /\ event' = FALSE /\ owner' = NoThread /\ count' = 0
  /\ state' = "consistent"
  /\ kind' \in Kinds
  /\ UNCHANGED <<lists, pc, op, result, held>>

-----------------------------------------------------------------------------
Step(t) ==
  \/ ExchangeOne(t) \/ CompareExchange(t) \/ Reenter(t) \/ Contend(t)
  \/ Inherit(t) \/ Swap(t) \/ Wake(t) \/ TimeOut(t) \/ Woken(t) \/ Final(t)
  \/ PassOn(t) \/ Add(t) \/ Remove(t) \/ Release(t) \/ Mark(t) \/ WakeOne(t)

Next ==
  \E t \in Threads :
    \/ Step(t) \/ Call(t) \/ Unlock(t) \/ Consistent(t) \/ Terminate(t)
    \/ Create(t) \/ Destroy(t) \/ DestroyInherits(t) \/ Reinit(t)

Spec == Init /\ [][Next]_vars

\* A thread inside a call is scheduled; it unlocks in the end what it holds,
\* whatever else it calls meanwhile.
Fairness == \A t \in Threads : WF_vars(Step(t)) /\ SF_vars(Unlock(t))

FairSpec == Spec /\ Fairness

-----------------------------------------------------------------------------
(* Properties. *)

Labels == {"idle", "enter", "inherit", "swap", "wait", "woken", "final", "passOn",
           "add", "unlock", "release", "mark", "wakeOne", "dead"}

\* Type invariant.
TypeOK ==
  /\ mutex \in {"live", "null"}
  /\ kind \in Kinds
  /\ lock_idx \in {-1, 0, 1}
  /\ event \in BOOLEAN
  /\ owner \in Threads \cup {NoThread}
  /\ count \in 0..MaxCount
  /\ state \in {"consistent", "inconsistent", "notRecoverable", "ownerDead"}
  /\ lists \subseteq Threads
  /\ pc \in [Threads -> Labels]
  /\ op \in [Threads -> {"lock", "timedlock", "trylock"}]
  /\ result \in [Threads -> {"0", "EOWNERDEAD"}]
  /\ held \in [Threads -> 0..MaxCount]

\* At most one thread holds the mutex, also while it passes from a thread that
\* has died to the one that inherits it.
MutualExclusion ==
  \A t, u \in Threads : held[t] > 0 /\ held[u] > 0 => t = u

\* Between two calls a holder is recorded as the owner and has the mutex on its
\* list, and nobody else is or has: else it could not unlock the mutex, or its
\* death would go unnoticed.
OwnershipRecorded ==
  \A t \in Threads : At(t, "idle") =>
    (held[t] > 0 <=> owner = t) /\ (held[t] > 0 <=> t \in lists)

\* Whoever holds the mutex after the death of an owner knows it: a result of 0
\* is never returned for a state that may be inconsistent.
DeathIsReported ==
  \A t \in Threads : held[t] > 0 /\ result[t] = "0" =>
    state \notin {"ownerDead", "inconsistent"}

\* A mutex that is lost is not acquired any more: pthread_mutexattr_setrobust.c
\* says that all attempts to lock it fail.
LostIsUnusable ==
  [][state = "notRecoverable" => \A t \in Threads : held[t] = 0 => held'[t] = 0]_vars

\* The threads that wait for a mutex when it is lost are all woken: none waits
\* for ever while the mutex stays lost.
WaitersToldOfLoss ==
  \A t \in Threads : ~<>[](state = "notRecoverable" /\ At(t, "wait"))

\* When the owner of the mutex has died and a thread waits for it, somebody
\* takes it over.
DeathIsNoticed ==
  (state = "ownerDead" /\ \E t \in Threads : At(t, "wait")) ~> state # "ownerDead"

=============================================================================
