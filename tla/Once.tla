---------------------------------- MODULE Once --------------------------------
(***************************************************************************)
(* pthread_once: the test of once_control->done with a barrier, the lock   *)
(* (module MCSLock, here taken in one step), the second test under it, the *)
(* initialisation routine, and its cancellation or pthread_exit, which     *)
(* runs the clean-up handler ptw32_mcs_lock_cleanup.                       *)
(***************************************************************************)
EXTENDS Naturals

CONSTANTS
  Threads,   \* the threads that call pthread_once
  NoThread   \* the owner of the lock when it is free

VARIABLES
  done,      \* once_control->done
  lock,      \* the owner of once_control->lock
  pc,        \* pc[p]: "idle", "lock", "routine", "ended" (by a cancellation)
  returned,  \* history: who has returned from pthread_once
  begun,     \* history: the threads that have begun to run the routine
  finished   \* history: how often the routine has run to its end: 0, 1, many (2)

vars == <<done, lock, pc, returned, begun, finished>>

Goto(p, l) == pc' = [pc EXCEPT ![p] = l]
At(p, l) == pc[p] = l

Init ==
  /\ done = FALSE
  /\ lock = NoThread
  /\ pc = [p \in Threads |-> "idle"]
  /\ returned = {} /\ begun = {} /\ finished = 0

\* The first test.
Call(p) ==
  /\ At(p, "idle") /\ p \notin returned
  /\ IF done
       THEN returned' = returned \union {p} /\ UNCHANGED pc
       ELSE Goto(p, "lock") /\ UNCHANGED returned
  /\ UNCHANGED <<done, lock, begun, finished>>

\* Fault: done is set before the routine has run.
AcquireDone(p) ==
  /\ At(p, "lock") /\ lock = NoThread
  /\ IF done
       THEN /\ returned' = returned \union {p}
            /\ Goto(p, "idle")
            /\ UNCHANGED <<done, lock, begun>>
       ELSE /\ lock' = p
            /\ done' = TRUE
            /\ begun' = begun \union {p}
            /\ Goto(p, "routine")
            /\ UNCHANGED returned
  /\ UNCHANGED finished

\* The lock is acquired, and done tested again.
Acquire(p) ==
  /\ At(p, "lock") /\ lock = NoThread
  /\ IF done
       THEN /\ returned' = returned \union {p}
            /\ Goto(p, "idle")
            /\ UNCHANGED <<lock, begun>>
       ELSE /\ lock' = p
            /\ begun' = begun \union {p}
            /\ Goto(p, "routine")
            /\ UNCHANGED returned
  /\ UNCHANGED <<done, finished>>

\* The routine returns: done is set and the lock released.
Finish(p) ==
  /\ At(p, "routine")
  /\ finished' = IF finished = 0 THEN 1 ELSE 2
  /\ done' = TRUE
  /\ lock' = NoThread
  /\ returned' = returned \union {p}
  /\ Goto(p, "idle")
  /\ UNCHANGED begun

\* Fault: the clean-up handler is missing.
EndHoldingLock(p) ==
  /\ At(p, "routine")
  /\ Goto(p, "ended")
  /\ UNCHANGED <<done, lock, returned, begun, finished>>

\* The thread is cancelled, or exits, in the routine: the handler releases the
\* lock, and done is still clear.
Cancelled(p) ==
  /\ At(p, "routine")
  /\ lock' = NoThread
  /\ Goto(p, "ended")
  /\ UNCHANGED <<done, returned, begun, finished>>

Step(p) == Acquire(p) \/ Finish(p)

Next == \E p \in Threads : Call(p) \/ Step(p) \/ Cancelled(p)

Spec == Init /\ [][Next]_vars

\* A routine that is not cancelled ends, and the lock is FIFO.
Fair(p) == WF_vars(Step(p)) /\ SF_vars(Acquire(p))

TypeOK ==
  /\ done \in BOOLEAN
  /\ lock \in Threads \union {NoThread}
  /\ pc \in [Threads -> {"idle", "lock", "routine", "ended"}]
  /\ {returned, begun} \subseteq SUBSET Threads
  /\ finished \in 0..2

\* The routine runs to its end at most once, in one thread at a time, and
\* nobody returns before it has: also when it was cancelled and begun again.
RunsOnce ==
  /\ finished <= 1
  /\ \A p, q \in Threads : At(p, "routine") /\ At(q, "routine") => p = q
  /\ returned # {} => finished = 1

\* Whoever waits for the lock gets it, whether the owner ends or is cancelled.
OnceReturns == \A p \in Threads : At(p, "lock") ~> ~At(p, "lock")
=============================================================================
