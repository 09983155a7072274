-------------------------------- MODULE Barrier -------------------------------
(***************************************************************************)
(* Barriers: pthread_barrier_init, pthread_barrier_wait and                *)
(* pthread_barrier_destroy.                                                *)
(*                                                                         *)
(* b->lock is an MCS lock (module MCSLock), here a lock that is taken in   *)
(* one step; its last owner of a round moves it to b->proxynode, so that   *)
(* the thread that leaves last can release it.  semBarrierBreeched is the  *)
(* number of its permits (module CountingSemaphore).                       *)
(***************************************************************************)
EXTENDS Integers, FiniteSets

CONSTANTS
  Threads,      \* the threads that use the barrier
  Heights,      \* the counts that pthread_barrier_init is called with
  NoThread,     \* the owner of b->lock when it is free
  Proxy,        \* the owner of b->lock that is b->proxynode
  DestroyEarly  \* may the application destroy the barrier as soon as one
                \* thread has returned, while others are still returning?

VARIABLES
  valid,                 \* *barrier is not PTW32_OBJECT_INVALID
  nInitialBarrierHeight,
  nCurrentBarrierHeight,
  lock,                  \* the owner of b->lock
  semBarrierBreeched,
  pc,                    \* pc[p]: where p is in its call
  arrived,               \* history: who has arrived in the round that fills
  leaving,               \* history: who has not left the round that is over
  serial                 \* history: who was the serial thread of that round

heights == <<nInitialBarrierHeight, nCurrentBarrierHeight>>
vars == <<valid, heights, lock, semBarrierBreeched, pc, arrived, leaving, serial>>

Goto(p, l) == pc' = [pc EXCEPT ![p] = l]
At(p, l) == pc[p] = l

Init ==
  /\ valid = FALSE
  /\ nInitialBarrierHeight \in Heights
  /\ nCurrentBarrierHeight = nInitialBarrierHeight
  /\ lock = NoThread
  /\ semBarrierBreeched = 0
  /\ pc = [p \in Threads |-> "idle"]
  /\ arrived = {} /\ leaving = {} /\ serial = {}

\* pthread_barrier_init, for a barrier that is not in use; ENOMEM is no step.
Create(p, count) ==
  /\ ~valid /\ \A q \in Threads : At(q, "idle")
  /\ valid' = TRUE
  /\ nInitialBarrierHeight' = count /\ nCurrentBarrierHeight' = count
  /\ lock' = NoThread
  /\ semBarrierBreeched' = 0
  /\ arrived' = {} /\ leaving' = {} /\ serial' = {}
  /\ UNCHANGED pc

-----------------------------------------------------------------------------
(* pthread_barrier_wait. *)

\* The application does not enter a barrier that is being destroyed.
Enter(p) ==
  /\ valid /\ At(p, "idle")
  /\ \A q \in Threads : ~At(q, "destroy")
  /\ Goto(p, "lock")
  /\ UNCHANGED <<valid, heights, lock, semBarrierBreeched, arrived, leaving, serial>>

\* A thread that is not the last one releases the lock and waits.
Arrive(p) ==
  /\ At(p, "lock") /\ lock = NoThread
  /\ nCurrentBarrierHeight > 1
  /\ nCurrentBarrierHeight' = nCurrentBarrierHeight - 1
  /\ arrived' = arrived \union {p}
  /\ Goto(p, "wait")
  /\ UNCHANGED <<valid, nInitialBarrierHeight, lock, semBarrierBreeched, leaving, serial>>

\* Fault: sem_post_multiple posts for the last thread too.
BreachForAll(p) ==
  /\ At(p, "lock") /\ lock = NoThread
  /\ nCurrentBarrierHeight = 1
  /\ nCurrentBarrierHeight' = 0
  /\ lock' = Proxy
  /\ semBarrierBreeched' = semBarrierBreeched + nInitialBarrierHeight
  /\ arrived' = {} /\ leaving' = arrived \union {p} /\ serial' = {}
  /\ Goto(p, "count")
  /\ UNCHANGED <<valid, nInitialBarrierHeight>>

\* The last thread moves the lock to the proxy node and posts for the others.
Breach(p) ==
  /\ At(p, "lock") /\ lock = NoThread
  /\ nCurrentBarrierHeight = 1
  /\ nCurrentBarrierHeight' = 0
  /\ lock' = Proxy
  /\ semBarrierBreeched' = semBarrierBreeched + nInitialBarrierHeight - 1
  /\ arrived' = {} /\ leaving' = arrived \union {p} /\ serial' = {}
  /\ Goto(p, "count")
  /\ UNCHANGED <<valid, nInitialBarrierHeight>>

\* ptw32_semwait returns.
Pass(p) ==
  /\ At(p, "wait") /\ semBarrierBreeched > 0
  /\ semBarrierBreeched' = semBarrierBreeched - 1
  /\ Goto(p, "count")
  /\ UNCHANGED <<valid, heights, lock, arrived, leaving, serial>>

\* The increment, whose result is in place of a program counter: "compare" of
\* the thread that made it nInitialBarrierHeight is "compare_last".
CountOut(p) ==
  /\ At(p, "count")
  /\ nCurrentBarrierHeight' = nCurrentBarrierHeight + 1
  /\ leaving' = leaving \ {p}
  /\ Goto(p, IF nCurrentBarrierHeight' = nInitialBarrierHeight
               THEN "compare_last" ELSE "compare")
  /\ UNCHANGED <<valid, nInitialBarrierHeight, lock, semBarrierBreeched, arrived, serial>>

\* The last thread out releases the lock: PTHREAD_BARRIER_SERIAL_THREAD.
Leave(p) ==
  /\ At(p, "compare_last")
  /\ lock' = NoThread
  /\ serial' = serial \union {p}
  /\ Goto(p, "idle")
  /\ UNCHANGED <<valid, heights, semBarrierBreeched, arrived, leaving>>

\* The others read nInitialBarrierHeight, see that they are not, and return.
Return(p) ==
  /\ At(p, "compare")
  /\ Goto(p, "idle")
  /\ UNCHANGED <<valid, heights, lock, semBarrierBreeched, arrived, leaving, serial>>

-----------------------------------------------------------------------------
(* pthread_barrier_destroy. *)

\* The application calls it when no thread is about to enter the barrier, and,
\* unless DestroyEarly, when none is on its way out; some may be waiting.
MayDestroy ==
  /\ valid
  /\ \A q \in Threads : pc[q] \in {"idle", "wait"} \union
                                  (IF DestroyEarly THEN {"count", "compare", "compare_last"} ELSE {})

\* EBUSY, without a step, when ptw32_mcs_lock_try_acquire fails.
Destroy(p) ==
  /\ At(p, "idle") /\ MayDestroy
  /\ lock = NoThread
  /\ lock' = p
  /\ Goto(p, "destroy")
  /\ UNCHANGED <<valid, heights, semBarrierBreeched, arrived, leaving, serial>>

\* EBUSY when a round has begun, else the barrier is invalidated and freed.
DestroyEnd(p) ==
  /\ At(p, "destroy")
  /\ valid' = (nCurrentBarrierHeight < nInitialBarrierHeight)
  /\ lock' = NoThread
  /\ Goto(p, "idle")
  /\ UNCHANGED <<heights, semBarrierBreeched, arrived, leaving, serial>>

-----------------------------------------------------------------------------
Step(p) ==
  \/ Arrive(p) \/ Breach(p) \/ Pass(p) \/ CountOut(p) \/ Leave(p) \/ Return(p)
  \/ DestroyEnd(p)

Next ==
  \E p \in Threads :
    \/ Step(p) \/ Enter(p) \/ Destroy(p)
    \/ \E count \in Heights : Create(p, count)

Spec == Init /\ [][Next]_vars

\* Threads in a call go on, and so does each that wants the lock: it is FIFO.
Fair(p) == WF_vars(Step(p)) /\ SF_vars(Arrive(p) \/ Breach(p))

-----------------------------------------------------------------------------
(* Properties. *)

TypeOK ==
  /\ valid \in BOOLEAN
  /\ nInitialBarrierHeight \in Heights
  /\ nCurrentBarrierHeight \in 0..nInitialBarrierHeight
  /\ lock \in Threads \union {NoThread, Proxy}
  /\ semBarrierBreeched \in Nat
  /\ pc \in [Threads -> {"idle", "lock", "wait", "count", "compare", "compare_last", "destroy"}]
  /\ {arrived, leaving, serial} \subseteq SUBSET Threads

\* Rounds do not mix: a permit of the semaphore is for a thread of the round
\* that is over, so no thread of the next one can take it, and while one of the
\* former round is left the lock keeps the next round out.
RoundsSeparate ==
  /\ semBarrierBreeched = Cardinality({p \in leaving : At(p, "wait")})
  /\ \A p \in Threads : At(p, "count") => p \in leaving
  /\ leaving # {} => lock = Proxy /\ arrived = {}

\* Nobody passes before the last thread has arrived, and no round loses count.
HeightKept ==
  valid => nCurrentBarrierHeight = IF leaving = {}
                                     THEN nInitialBarrierHeight - Cardinality(arrived)
                                     ELSE nInitialBarrierHeight - Cardinality(leaving)

\* A round that everybody has left had exactly one serial thread.
OneSerialThread ==
  /\ Cardinality(serial) <= 1
  /\ \A p \in Threads : lock # Proxy /\ At(p, "compare") => serial # {}

\* The structure is not freed while a thread has still to read it.
NoUseAfterFree == ~valid => \A p \in Threads : pc[p] \in {"idle", "destroy"}

\* A thread that waits in a round whose last thread has arrived returns.
RoundEnds == \A p \in Threads : p \in leaving ~> p \notin leaving
=============================================================================
