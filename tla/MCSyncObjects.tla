----------------------------- MODULE MCSyncObjects ----------------------------
(***************************************************************************)
(* Model values for the synchronisation objects Semaphore, Barrier,        *)
(* SpinLock, Once and CondList, and for what MCSLock promises to those who *)
(* wait.  As modelled they share no state, so one run checks them side by  *)
(* side: each behaviour is that of the one object named by object.         *)
(* Semaphore, about which theorems are proved, keeps its names; those of   *)
(* the others are renamed where they would clash.                          *)
(***************************************************************************)
EXTENDS Semaphore

CONSTANTS t1, t2, t3, t4, c1, c2, c3, k, NoThread, Proxy, Null

\* The constants of the instances, to which the .cfg gives values.
CONSTANTS
  Users,         \* the threads that use the barrier, the spin lock, pthread_once
  Walkers,       \* the threads that use the list of condition variables
  Conds, Heights, DestroyEarly

Four  == {t1, t2, t3, t4}
Three == {t1, t2, t3}
Two   == {t1, t2}
Vars  == {c1, c2, c3}
Legal == {"wait", "timedwait", "trywait", "post", "destroy"}

VARIABLES
  object,
  qlock, qnext, flag, ev, qpc, node, peer, arg, ret, proxyHeld, queue,
  valid, nInitialBarrierHeight, nCurrentBarrierHeight, lock, semBarrierBreeched,
  bpc, arrived, leaving, serial,
  ptr, interlock, mutex, spc, sop, holder,
  done, olock, opc, returned, begun, finished,
  handle, head, tail, next, prev, listLock, initLock, closed, lpc, cv, linked, told

Q == INSTANCE MCSLock WITH Threads <- {t1, t2, k}, Keepers <- {k}, NULL <- Null,
                           EventExhaustion <- FALSE, lock <- qlock, next <- qnext, pc <- qpc
B == INSTANCE Barrier WITH Threads <- Users, pc <- bpc
S == INSTANCE SpinLock WITH Threads <- Users, pc <- spc, op <- sop
O == INSTANCE Once WITH Threads <- Users, lock <- olock, pc <- opc
L == INSTANCE CondList WITH Threads <- Walkers, pc <- lpc

queueVars   == <<qlock, qnext, flag, ev, qpc, node, peer, arg, ret, proxyHeld, queue>>
barrierVars == <<valid, nInitialBarrierHeight, nCurrentBarrierHeight, lock,
                 semBarrierBreeched, bpc, arrived, leaving, serial>>
spinVars    == <<ptr, interlock, mutex, spc, sop, holder>>
onceVars    == <<done, olock, opc, returned, begun, finished>>
listVars    == <<handle, head, tail, next, prev, listLock, initLock, closed, lpc, cv,
                 linked, told>>
objectVars  == <<object, vars, queueVars, barrierVars, spinVars, onceVars, listVars>>

ObjectsInit ==
  /\ object \in {"semaphore", "queue", "barrier", "spin", "once", "condlist"}
  /\ Init /\ Q!Init /\ B!Init /\ S!Init /\ O!Init /\ L!Init
  /\ object # "barrier" => nInitialBarrierHeight = 1

SemaphoreNext ==
  /\ object = "semaphore" /\ Next
  /\ UNCHANGED <<object, queueVars, barrierVars, spinVars, onceVars, listVars>>

QueueNext ==
  /\ object = "queue" /\ Q!Next
  /\ UNCHANGED <<object, vars, barrierVars, spinVars, onceVars, listVars>>

BarrierNext ==
  /\ object = "barrier" /\ B!Next
  /\ UNCHANGED <<object, vars, queueVars, spinVars, onceVars, listVars>>

SpinNext ==
  /\ object = "spin" /\ S!Next
  /\ UNCHANGED <<object, vars, queueVars, barrierVars, onceVars, listVars>>

OnceNext ==
  /\ object = "once" /\ O!Next
  /\ UNCHANGED <<object, vars, queueVars, barrierVars, spinVars, listVars>>

ListNext ==
  /\ object = "condlist" /\ L!Next
  /\ UNCHANGED <<object, vars, queueVars, barrierVars, spinVars, onceVars>>

\* All but the queue lock may come to an end; there it would be a deadlock.
MayEnd == object # "queue" /\ UNCHANGED objectVars

ObjectsNext ==
  SemaphoreNext \/ QueueNext \/ BarrierNext \/ SpinNext \/ OnceNext \/ ListNext \/ MayEnd

\* The fairness of the objects, put together: which steps a thread has depends
\* on the object.  A spin lock promises nothing.
Moves(p) ==
  \/ /\ object = "semaphore" /\ p \in Threads /\ (Wake(p) \/ Cleanup(p))
     /\ UNCHANGED <<object, queueVars, barrierVars, spinVars, onceVars, listVars>>
  \/ /\ object = "queue" /\ p \in {t1, t2, k} /\ Q!Moves(p)
     /\ UNCHANGED <<object, vars, barrierVars, spinVars, onceVars, listVars>>
  \/ /\ object = "barrier" /\ p \in Users /\ B!Step(p)
     /\ UNCHANGED <<object, vars, queueVars, spinVars, onceVars, listVars>>
  \/ /\ object = "once" /\ p \in Users /\ O!Step(p)
     /\ UNCHANGED <<object, vars, queueVars, barrierVars, spinVars, listVars>>
  \/ /\ object = "condlist" /\ p \in Walkers /\ L!Step(p)
     /\ UNCHANGED <<object, vars, queueVars, barrierVars, spinVars, onceVars>>

GetsLock(p) ==
  \/ /\ object = "barrier" /\ (B!Arrive(p) \/ B!Breach(p))
     /\ UNCHANGED <<object, vars, queueVars, spinVars, onceVars, listVars>>
  \/ /\ object = "once" /\ O!Acquire(p)
     /\ UNCHANGED <<object, vars, queueVars, barrierVars, spinVars, listVars>>

ObjectsSpec ==
  /\ ObjectsInit /\ [][ObjectsNext]_objectVars
  /\ \A p \in Four \union {k} : WF_objectVars(Moves(p))
  /\ \A p \in Users : SF_objectVars(GetsLock(p))
  /\ \A c \in Conds : L!Reopens(c)

-----------------------------------------------------------------------------
\* MCSLock: a thread that has queued up comes to hold the lock, and a releaser
\* does not wait for ever for its successor's link.
QueueLive == Q!EveryAcquireHolds /\ Q!EveryReleaseReturns

\* Barrier: a thread of the next round takes no permit of this one; the count
\* tells who has arrived, or who has still to leave; exactly one thread of a
\* round is told that it is the serial one; and the barrier is not freed under a
\* thread in pthread_barrier_wait.
BarrierSound ==
  /\ B!TypeOK
  /\ B!RoundsSeparate /\ B!HeightKept /\ B!OneSerialThread /\ B!NoUseAfterFree

\* SpinLock: one holder, whom the word or the mutex knows, from the static
\* initialiser on.
SpinSound == S!TypeOK /\ S!SpinExclusion

\* Once: the routine is completed once, before anybody returns.
OnceSound == O!TypeOK /\ O!RunsOnce

\* CondList: the list has every condition variable, in both directions, and the
\* handler reaches them all and no other.
ListSound == L!TypeOK /\ L!ListKept /\ L!WalkComplete

\* Semaphore, Barrier, Once, CondList: a permit that is there is taken by one of
\* those who wait; when the last thread has arrived all of its round return; a
\* cancelled routine leaves no thread waiting; the lock of the list is always
\* given back.
WaitsEnd == PostedWake /\ B!RoundEnds /\ O!OnceReturns /\ L!ListLockFreed
=============================================================================
