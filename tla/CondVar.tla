-------------------------------- MODULE CondVar --------------------------------
(***************************************************************************)
(* A condition variable: pthread_cond_wait, _timedwait, _signal,           *)
(* _broadcast, _init and _destroy, and the cancellation of a waiting       *)
(* thread.                                                                 *)
(*                                                                         *)
(* The semaphore semBlockLock is a gate: whoever has come to wait passes   *)
(* it, and from a signal until the last thread that was signalled has      *)
(* retracted it is closed.  A thread waits for the semaphore semBlockQueue.*)
(* The counters are protected by mtxUnblockLock, and nWaitersBlocked also  *)
(* by the gate.                                                            *)
(*                                                                         *)
(* A critical section of mtxUnblockLock is one step (module Mutex), unless *)
(* the thread waits for the gate inside it.  semBlockQueue is a counting   *)
(* semaphore (module CountingSemaphore); the gate, on which sem_wait may   *)
(* be cancelled, is a semaphore of module Semaphore.                       *)
(***************************************************************************)
EXTENDS Integers, FiniteSets

CONSTANTS
  Threads,      \* the threads that use the condition variable
  NoThread,     \* the holder of a mutex that is free
  GoneLimit     \* INT_MAX / 2

ASSUME CondVarAssumption ==
  /\ IsFiniteSet(Threads) /\ NoThread \notin Threads
  /\ GoneLimit \in Nat \ {0, 1}

VARIABLES
  alive,              \* the condition variable is initialised
  nWaitersBlocked,    \* cv->nWaitersBlocked
  nWaitersGone,       \* cv->nWaitersGone
  nWaitersToUnblock,  \* cv->nWaitersToUnblock
  gateValue,          \* the value of cv->semBlockLock
  gateTokens,         \* the count of its Win32 semaphore
  queue,              \* the permits of cv->semBlockQueue
  unblocker,          \* who holds cv->mtxUnblockLock between two steps
  external,           \* who holds the mutex of the callers
  pc,                 \* pc[t]: where thread t is
  goal,               \* goal[t]: where t goes when it has passed the gate
  toIssue,            \* toIssue[t]: the local nSignalsToIssue of t
  called              \* history: the threads in a wait at the last broadcast
                      \* that have not retracted since

counts == <<nWaitersBlocked, nWaitersGone, nWaitersToUnblock>>
gate   == <<gateValue, gateTokens>>
vars   == <<alive, counts, gate, queue, unblocker, external, pc, goal, toIssue, called>>

Goto(t, l) == pc' = [pc EXCEPT ![t] = l]

At(t, l) == pc[t] = l

Init ==
  /\ alive = TRUE
  /\ nWaitersBlocked = 0 /\ nWaitersGone = 0 /\ nWaitersToUnblock = 0
  /\ gateValue = 1 /\ gateTokens = 0
  /\ queue = 0
  /\ unblocker = NoThread
  /\ external = NoThread
  /\ pc = [t \in Threads |-> "idle"]
  /\ goal = [t \in Threads |-> "announce"]
  /\ toIssue = [t \in Threads |-> 0]
  /\ called = {}

-----------------------------------------------------------------------------
(* The gate: sem_wait and sem_post of semBlockLock. *)

\* Begin to pass the gate on the way to label l.
GateDown(t, l) ==
  /\ gateValue' = gateValue - 1
  /\ IF gateValue' < 0
       THEN Goto(t, "gate") /\ goal' = [goal EXCEPT ![t] = l]
       ELSE Goto(t, l) /\ UNCHANGED goal
  /\ UNCHANGED gateTokens

\* Open the gate.
GateUp ==
  /\ gateValue' = gateValue + 1
  /\ gateTokens' = IF gateValue < 0 THEN gateTokens + 1 ELSE gateTokens

\* A thread that was waiting for the gate passes it.
GatePass(t) ==
  /\ At(t, "gate") /\ gateTokens > 0
  /\ gateTokens' = gateTokens - 1
  /\ Goto(t, goal[t])
  /\ goal' = [goal EXCEPT ![t] = "announce"]
  /\ UNCHANGED <<alive, counts, gateValue, queue, unblocker, external, toIssue, called>>

-----------------------------------------------------------------------------
(* The mutex of the callers. *)

Lock(t) ==
  /\ At(t, "idle") /\ external = NoThread
  /\ external' = t
  /\ UNCHANGED <<alive, counts, gate, queue, unblocker, pc, goal, toIssue, called>>

Unlock(t) ==
  /\ At(t, "idle") /\ external = t
  /\ external' = NoThread
  /\ UNCHANGED <<alive, counts, gate, queue, unblocker, pc, goal, toIssue, called>>

-----------------------------------------------------------------------------
(* Waiting. *)

\* A thread that has locked the mutex calls pthread_cond_wait or _timedwait.
Wait(t) ==
  /\ At(t, "idle") /\ external = t /\ alive
  /\ GateDown(t, "announce")
  /\ UNCHANGED <<alive, counts, queue, unblocker, external, toIssue, called>>

\* nWaitersBlocked is increased, and the gate left open for the next one.
Announce(t) ==
  /\ At(t, "announce")
  /\ nWaitersBlocked' = nWaitersBlocked + 1
  /\ GateUp
  /\ Goto(t, "release")
  /\ UNCHANGED <<alive, nWaitersGone, nWaitersToUnblock, queue, unblocker, external, goal,
                 toIssue, called>>

Release(t) ==
  /\ At(t, "release")
  /\ external' = NoThread
  /\ Goto(t, "queue")
  /\ UNCHANGED <<alive, counts, gate, queue, unblocker, goal, toIssue, called>>

\* sem_timedwait of semBlockQueue succeeds, or the thread is cancelled in it
\* but takes a post that came late.
Take(t) ==
  /\ At(t, "queue") /\ queue > 0
  /\ queue' = queue - 1
  /\ Goto(t, "retract")
  /\ UNCHANGED <<alive, counts, gate, unblocker, external, goal, toIssue, called>>

\* sem_timedwait times out or is cancelled.
GiveUp(t) ==
  /\ At(t, "queue") /\ queue = 0
  /\ Goto(t, "retract")
  /\ UNCHANGED <<alive, counts, gate, queue, unblocker, external, goal, toIssue, called>>

\* Fault: every signalled thread opens the gate.
RetractOpening(t) ==
  /\ At(t, "retract") /\ unblocker = NoThread /\ nWaitersToUnblock # 0
  /\ nWaitersToUnblock' = nWaitersToUnblock - 1
  /\ called' = called \ {t}
  /\ Goto(t, "open")
  /\ UNCHANGED <<alive, nWaitersBlocked, nWaitersGone, gate, queue, unblocker, external,
                 goal, toIssue>>

\* ptw32_cond_wait_cleanup: the thread is one of those to unblock; the last of
\* them opens the gate.
Retract(t) ==
  /\ At(t, "retract") /\ unblocker = NoThread /\ nWaitersToUnblock # 0
  /\ nWaitersToUnblock' = nWaitersToUnblock - 1
  /\ called' = called \ {t}
  /\ Goto(t, IF nWaitersToUnblock = 1 THEN "open" ELSE "relock")
  /\ UNCHANGED <<alive, nWaitersBlocked, nWaitersGone, gate, queue, unblocker, external,
                 goal, toIssue>>

\* Nobody is to be unblocked: the thread is counted as gone, and when there are
\* too many of them the counters are to be rebased.
Retire(t) ==
  /\ At(t, "retract") /\ unblocker = NoThread /\ nWaitersToUnblock = 0
  /\ nWaitersGone' = nWaitersGone + 1
  /\ called' = called \ {t}
  /\ IF nWaitersGone' = GoneLimit
       THEN unblocker' = t /\ GateDown(t, "rebase")
       ELSE Goto(t, "relock") /\ UNCHANGED <<gate, unblocker, goal>>
  /\ UNCHANGED <<alive, nWaitersBlocked, nWaitersToUnblock, queue, external, toIssue>>

Rebase(t) ==
  /\ At(t, "rebase")
  /\ nWaitersBlocked' = nWaitersBlocked - nWaitersGone
  /\ nWaitersGone' = 0
  /\ GateUp
  /\ unblocker' = NoThread
  /\ Goto(t, "relock")
  /\ UNCHANGED <<alive, nWaitersToUnblock, queue, external, goal, toIssue, called>>

Open(t) ==
  /\ At(t, "open")
  /\ GateUp
  /\ Goto(t, "relock")
  /\ UNCHANGED <<alive, counts, queue, unblocker, external, goal, toIssue, called>>

Relock(t) ==
  /\ At(t, "relock") /\ external = NoThread
  /\ external' = t
  /\ Goto(t, "idle")
  /\ UNCHANGED <<alive, counts, gate, queue, unblocker, goal, toIssue, called>>

-----------------------------------------------------------------------------
(* pthread_cond_signal and pthread_cond_broadcast (all), called with or      *)
(* without the mutex.  A call that finds nobody to unblock is no step.       *)

\* The threads that are counted as waiting.
InWait == {t \in Threads : pc[t] \in {"release", "queue", "retract"}}

MaySignal(t) ==
  /\ At(t, "idle") /\ alive
  /\ \A u \in Threads : ~At(u, "destroy") /\ goal[u] # "destroy"
  /\ unblocker = NoThread

\* Fault: the threads that are to be unblocked stay counted as blocked.
SignalTwice(t, all) ==
  /\ MaySignal(t)
  /\ nWaitersToUnblock # 0 /\ nWaitersBlocked # 0
  /\ nWaitersToUnblock' = nWaitersToUnblock + (IF all THEN nWaitersBlocked ELSE 1)
  /\ toIssue' = [toIssue EXCEPT ![t] = IF all THEN nWaitersBlocked ELSE 1]
  /\ called' = IF all THEN InWait ELSE called
  /\ Goto(t, "post")
  /\ UNCHANGED <<alive, nWaitersBlocked, nWaitersGone, gate, queue, unblocker, external, goal>>

\* The gate is closed already: more threads are to be unblocked.
SignalMore(t, all) ==
  /\ MaySignal(t)
  /\ nWaitersToUnblock # 0 /\ nWaitersBlocked # 0
  /\ nWaitersToUnblock' = nWaitersToUnblock + (IF all THEN nWaitersBlocked ELSE 1)
  /\ nWaitersBlocked' = IF all THEN 0 ELSE nWaitersBlocked - 1
  /\ toIssue' = [toIssue EXCEPT ![t] = IF all THEN nWaitersBlocked ELSE 1]
  /\ called' = IF all THEN InWait ELSE called
  /\ Goto(t, "post")
  /\ UNCHANGED <<alive, nWaitersGone, gate, queue, unblocker, external, goal>>

\* Threads wait that are not gone: close the gate ...
Signal(t, all) ==
  /\ MaySignal(t)
  /\ nWaitersToUnblock = 0 /\ nWaitersBlocked > nWaitersGone
  /\ unblocker' = t
  /\ GateDown(t, IF all THEN "closeAll" ELSE "closeOne")
  /\ UNCHANGED <<alive, counts, queue, external, toIssue, called>>

\* Fault: the threads that are gone stay counted.
CloseForgetting(t) ==
  /\ pc[t] \in {"closeOne", "closeAll"}
  /\ LET n == IF At(t, "closeAll") THEN nWaitersBlocked - nWaitersGone ELSE 1
     IN /\ nWaitersToUnblock' = n
        /\ nWaitersBlocked' = nWaitersBlocked - nWaitersGone - n
        /\ toIssue' = [toIssue EXCEPT ![t] = n]
  /\ called' = IF At(t, "closeAll") THEN InWait ELSE called
  /\ unblocker' = NoThread
  /\ Goto(t, "post")
  /\ UNCHANGED <<alive, nWaitersGone, gate, queue, external, goal>>

\* ... and settle how many of them are to be unblocked.
Close(t) ==
  /\ pc[t] \in {"closeOne", "closeAll"}
  /\ LET n == IF At(t, "closeAll") THEN nWaitersBlocked - nWaitersGone ELSE 1
     IN /\ nWaitersToUnblock' = n
        /\ nWaitersBlocked' = nWaitersBlocked - nWaitersGone - n
        /\ toIssue' = [toIssue EXCEPT ![t] = n]
  /\ nWaitersGone' = 0
  /\ called' = IF At(t, "closeAll") THEN InWait ELSE called
  /\ unblocker' = NoThread
  /\ Goto(t, "post")
  /\ UNCHANGED <<alive, gate, queue, external, goal>>

\* Fault: sem_post in the place of sem_post_multiple.
PostOne(t) ==
  /\ At(t, "post")
  /\ queue' = queue + 1
  /\ toIssue' = [toIssue EXCEPT ![t] = 0]
  /\ Goto(t, "idle")
  /\ UNCHANGED <<alive, counts, gate, unblocker, external, goal, called>>

\* sem_post_multiple of semBlockQueue.
Post(t) ==
  /\ At(t, "post")
  /\ queue' = queue + toIssue[t]
  /\ toIssue' = [toIssue EXCEPT ![t] = 0]
  /\ Goto(t, "idle")
  /\ UNCHANGED <<alive, counts, gate, unblocker, external, goal, called>>

-----------------------------------------------------------------------------
(* Destruction, by a thread that has locked the mutex, so that nobody can     *)
(* begin to wait, and while nobody is signalling.                             *)

\* Whether t may destroy the condition variable: nobody is signalling.
MayDestroy(t) ==
  /\ At(t, "idle") /\ external = t /\ alive
  /\ \A u \in Threads : /\ pc[u] \notin {"closeOne", "closeAll", "post", "destroy"}
                        /\ At(u, "gate") => goal[u] = "rebase"

\* Fault: the gate is not closed before the counters are tested.
DestroyAtOnce(t) ==
  /\ MayDestroy(t)
  /\ unblocker = NoThread /\ nWaitersBlocked <= nWaitersGone
  /\ alive' = FALSE
  /\ UNCHANGED <<counts, gate, queue, unblocker, external, pc, goal, toIssue, called>>

\* Close the gate.
Destroy(t) ==
  /\ MayDestroy(t)
  /\ GateDown(t, "destroy")
  /\ UNCHANGED <<alive, counts, queue, unblocker, external, toIssue, called>>

\* The gate is closed: destroy the condition variable, or open the gate again
\* if it is in use (EBUSY).
DestroyEnd(t) ==
  /\ At(t, "destroy")
  /\ IF unblocker = NoThread /\ nWaitersBlocked <= nWaitersGone
       THEN alive' = FALSE /\ UNCHANGED gate
       ELSE GateUp /\ UNCHANGED alive
  /\ Goto(t, "idle")
  /\ UNCHANGED <<counts, queue, unblocker, external, goal, toIssue, called>>

\* pthread_cond_init
Create(t) ==
  /\ At(t, "idle") /\ ~alive
  /\ alive' = TRUE
  /\ nWaitersBlocked' = 0 /\ nWaitersGone' = 0 /\ nWaitersToUnblock' = 0
  /\ gateValue' = 1 /\ gateTokens' = 0
  /\ queue' = 0
  /\ unblocker' = NoThread
  /\ UNCHANGED <<external, pc, goal, toIssue, called>>

-----------------------------------------------------------------------------
\* What a thread does inside a call, and the calls.
Step(t) ==
  \/ GatePass(t) \/ Announce(t) \/ Release(t) \/ Take(t)
  \/ Retract(t) \/ Retire(t) \/ Rebase(t) \/ Open(t) \/ Relock(t)
  \/ Close(t) \/ Post(t) \/ DestroyEnd(t)

Next ==
  \E t \in Threads :
    \/ Step(t) \/ GiveUp(t)
    \/ Lock(t) \/ Unlock(t) \/ Wait(t) \/ Destroy(t) \/ Create(t)
    \/ \E all \in BOOLEAN : SignalMore(t, all) \/ Signal(t, all)

Spec == Init /\ [][Next]_vars

\* A thread that can go on inside a call does so.
FairSpec == Spec /\ \A t \in Threads : WF_vars(Step(t))

-----------------------------------------------------------------------------
(* Cancellation of a thread that waits for the gate, a variant of its own:    *)
(* elsewhere a cancelled wait is a wait given up.                             *)

\* pthread_cancel wakes up a thread in the sem_wait of pthread_cond_wait.
GateCancel(t) ==
  /\ At(t, "gate") /\ goal[t] = "announce" /\ gateTokens = 0
  /\ Goto(t, "cancelled")
  /\ UNCHANGED <<alive, counts, gate, queue, unblocker, external, goal, toIssue, called>>

\* ptw32_sem_wait_cleanup, which passes over a value of 0 (module Semaphore);
\* the thread ends with the mutex of the callers locked.
GateCleanup(t) ==
  /\ At(t, "cancelled")
  /\ \/ gateValue = 0 /\ UNCHANGED gate
     \/ gateValue # 0 /\ gateTokens > 0
        /\ gateTokens' = gateTokens - 1 /\ UNCHANGED gateValue
     \/ gateValue # 0 /\ gateTokens = 0
        /\ gateValue' = gateValue + 1 /\ UNCHANGED gateTokens
  /\ Goto(t, "idle")
  /\ UNCHANGED <<alive, counts, queue, unblocker, external, goal, toIssue, called>>

CancelSpec ==
  Init /\ [][Next \/ \E t \in Threads : GateCancel(t) \/ GateCleanup(t)]_vars

-----------------------------------------------------------------------------
(* Properties. *)

Labels == {"idle", "gate", "cancelled", "announce", "release", "queue", "retract", "open",
           "rebase", "relock", "closeOne", "closeAll", "post", "destroy"}

\* Type invariant.
TypeOK ==
  /\ alive \in BOOLEAN
  /\ nWaitersBlocked \in Nat
  /\ nWaitersGone \in 0..GoneLimit
  /\ nWaitersToUnblock \in Nat
  /\ gateValue \in Int /\ gateValue <= 1
  /\ gateTokens \in Nat
  /\ queue \in Nat
  /\ unblocker \in Threads \cup {NoThread}
  /\ external \in Threads \cup {NoThread}
  /\ pc \in [Threads -> Labels]
  /\ goal \in [Threads -> {"announce", "rebase", "closeOne", "closeAll", "destroy"}]
  /\ toIssue \in [Threads -> Nat]
  /\ called \subseteq Threads

\* The three counters together count the threads in a wait: those that are
\* blocked, but not gone, and those that are to be unblocked.
WaitersCounted ==
  nWaitersBlocked - nWaitersGone + nWaitersToUnblock = Cardinality(InWait)

\* They do so without passing their bounds: none falls below 0, and nWaitersGone
\* never passes the limit at which the counters are rebased.
CountersKept == TypeOK /\ WaitersCounted

\* The threads that have passed the gate and not yet opened it again.
Inside == {t \in Threads : pc[t] \in {"announce", "rebase", "closeOne", "closeAll",
                                      "open", "destroy"}}

\* The gate is open, or one thread is inside, or it is closed on account of
\* the threads that are to be unblocked: never two of these at once, or none.
GateKept ==
  alive =>
    gateTokens + (IF gateValue > 0 THEN gateValue ELSE 0) + Cardinality(Inside)
      + (IF nWaitersToUnblock > 0 THEN 1 ELSE 0) = 1

\* A broadcast reaches all that were waiting: nobody else comes to wait before
\* the last of them has been woken up and has retracted.
BroadcastFirst ==
  called # {} => \A t \in Threads : ~At(t, "announce")

\* A condition variable that is destroyed is used by nobody, although threads
\* that have been woken up may still be on their way out of their wait.
DestroyedUnused ==
  ~alive => \A t \in Threads : pc[t] \in {"idle", "relock"}

\* The threads that a broadcast has called leave before anybody else comes, and
\* the condition variable that is destroyed behind them is not used any more.
CalledLeave == BroadcastFirst /\ DestroyedUnused

Waiters == INSTANCE WaitSet WITH waiting <- InWait, due <- nWaitersToUnblock

\* A signal wakes up a thread that was waiting when it was made, or one that
\* leaves its wait in the meantime, and never one that came later; a broadcast
\* all that were waiting: the abstract condition variable.
WaitersSpec == Waiters!Spec

\* Once nobody signals the gate opens again: all that are to be unblocked are.
GateReopens ==
  ~<>[](/\ nWaitersToUnblock > 0
        /\ \A t \in Threads : pc[t] \notin {"closeOne", "closeAll", "post"})
=============================================================================
