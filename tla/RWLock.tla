-------------------------------- MODULE RWLock --------------------------------
(***************************************************************************)
(* Read-write locks: the read, write, timed and try variants of locking,   *)
(* unlocking, first use of a static lock, pthread_rwlock_init and          *)
(* pthread_rwlock_destroy, and the cancellation of a waiting writer.       *)
(*                                                                         *)
(* The two mutexes are taken as atomic locks (module Mutex) and the        *)
(* condition variable as a set of threads that have been woken (module     *)
(* CondVar): a timed wait may end with ETIMEDOUT at any time, also after a *)
(* signal, and pthread_timechange_handler_np wakes every waiting thread.   *)
(* A writer that waits or holds the lock keeps mtxExclusiveAccess; readers *)
(* count themselves in under it, and out under mtxSharedAccessCompleted.   *)
(***************************************************************************)
EXTENDS Integers, FiniteSets

CONSTANTS
  Threads,          \* the threads that use the lock
  NoThread,         \* the owner of a free mutex
  IntMax,           \* INT_MAX
  RebaseMayTimeOut  \* may pthread_rwlock_timedrdlock time out on its second mutex?

ASSUME RWLockAssumption ==
  /\ IsFiniteSet(Threads) /\ NoThread \notin Threads
  /\ IntMax \in Nat /\ Cardinality(Threads) < IntMax
  /\ RebaseMayTimeOut \in BOOLEAN

VARIABLES
  ptr,    \* *rwlock: "static" (PTHREAD_RWLOCK_INITIALIZER), "live" or "null"
  mtxExclusiveAccess, mtxSharedAccessCompleted,  \* owners of the two mutexes
  nSharedAccessCount, nExclusiveAccessCount, nCompletedSharedAccessCount,
  woken,  \* the threads that cndSharedAccessCompleted has woken
  pc,     \* pc[p]: where p is in its call, "idle" outside of one
  op,     \* op[p]: the locking call of p
  hold    \* hold[p]: "none", "read" or "write"

locks  == <<mtxExclusiveAccess, mtxSharedAccessCompleted>>
counts == <<nSharedAccessCount, nExclusiveAccessCount, nCompletedSharedAccessCount>>
vars   == <<ptr, locks, counts, woken, pc, op, hold>>

ReadCalls  == {"rdlock", "timedrdlock", "tryrdlock"}
WriteCalls == {"wrlock", "timedwrlock", "trywrlock"}
Timed(o)   == o \in {"timedrdlock", "timedwrlock"}
Places     == {"idle", "need_init", "exclusive", "rebase", "shared", "wait",
               "count_out", "leave", "leave_exclusive", "destroy_static",
               "destroy_exclusive", "destroy_shared"}

Goto(p, l)  == pc' = [pc EXCEPT ![p] = l]
At(p, l)    == pc[p] = l
Holds(p, h) == hold' = [hold EXCEPT ![p] = h]
Readers     == {p \in Threads : hold[p] = "read"}

\* A C int: IntMax + 1 wraps to -IntMax - 1.
CInt(n) == ((n + IntMax + 1) % (2 * IntMax + 2)) - IntMax - 1

\* Outside of every call, or in pthread_rwlock_unlock.
Passive(p) == pc[p] = "idle" \/ op[p] = "unlock"

Destroying == \E p \in Threads : op[p] = "destroy" /\ pc[p] # "idle"

\* The application destroys a lock when no other call than an unlock is in
\* progress on it, or while others wait to initialise it.
MayDestroy(p) ==
  /\ ptr # "null" /\ hold[p] = "none" /\ At(p, "idle") /\ ~Destroying
  /\ \A q \in Threads : Passive(q) \/ (At(q, "need_init") /\ ptr = "static")

Init ==
  /\ ptr = "static"
  /\ mtxExclusiveAccess = NoThread /\ mtxSharedAccessCompleted = NoThread
  /\ nSharedAccessCount = 0 /\ nExclusiveAccessCount = 0
  /\ nCompletedSharedAccessCount = 0
  /\ woken = {}
  /\ pc = [p \in Threads |-> "idle"]
  /\ op = [p \in Threads |-> "unlock"]
  /\ hold = [p \in Threads |-> "none"]

-----------------------------------------------------------------------------
(* Initialisation, and the entry of a call. *)

\* pthread_rwlock_init: ENOMEM, or EAGAIN from its mutexes, leaves NULL.
Create ==
  \/ /\ ptr' = "live"
     /\ nSharedAccessCount' = 0 /\ nExclusiveAccessCount' = 0
     /\ nCompletedSharedAccessCount' = 0
  \/ /\ ptr' = "null" /\ UNCHANGED counts

\* The application initialises a destroyed lock when nobody else uses it.
InitLock(p) ==
  /\ ptr = "null" /\ \A q \in Threads : At(q, "idle")
  /\ Create
  /\ UNCHANGED <<locks, woken, pc, op, hold>>

\* The tests of *rwlock at the start of a call; EINVAL for NULL is no step.
Enter(p, o) ==
  /\ At(p, "idle") /\ hold[p] = "none" /\ ~Destroying
  /\ ptr # "null"
  /\ op' = [op EXCEPT ![p] = o]
  /\ Goto(p, IF ptr = "static" THEN "need_init" ELSE "exclusive")
  /\ UNCHANGED <<ptr, locks, counts, woken, hold>>

\* ptw32_rwlock_check_need_init, under ptw32_rwlock_test_init_lock.
NeedInit(p) ==
  /\ At(p, "need_init")
  /\ IF ptr = "static" THEN Create ELSE UNCHANGED <<ptr, counts>>
  /\ Goto(p, IF ptr' = "null" THEN "idle" ELSE "exclusive")
  /\ UNCHANGED <<locks, woken, op, hold>>

TakeExclusive(p, next) ==
  /\ mtxExclusiveAccess = NoThread
  /\ mtxExclusiveAccess' = p
  /\ Goto(p, next)
  /\ UNCHANGED <<ptr, mtxSharedAccessCompleted, counts, woken, op, hold>>

\* EBUSY from pthread_mutex_trylock, ETIMEDOUT from pthread_mutex_timedlock.
GiveUp(p) ==
  /\ mtxExclusiveAccess # NoThread
  /\ Goto(p, "idle")
  /\ UNCHANGED <<ptr, locks, counts, woken, op, hold>>

-----------------------------------------------------------------------------
(* Readers. *)

RdLock(p) ==
  At(p, "exclusive") /\ op[p] = "rdlock" /\ TakeExclusive(p, "shared")

TimedRdLock(p) ==
  /\ At(p, "exclusive") /\ op[p] = "timedrdlock"
  /\ TakeExclusive(p, "shared") \/ GiveUp(p)

\* Fault: a try does not need the mutex when no writer holds the lock.
SlipIn(p) ==
  /\ At(p, "exclusive") /\ op[p] = "tryrdlock"
  /\ nExclusiveAccessCount = 0
  /\ nSharedAccessCount' = CInt(nSharedAccessCount + 1)
  /\ Goto(p, "idle") /\ Holds(p, "read")
  /\ UNCHANGED <<ptr, locks, nExclusiveAccessCount, nCompletedSharedAccessCount, woken, op>>

TryRdLock(p) ==
  /\ At(p, "exclusive") /\ op[p] = "tryrdlock"
  /\ TakeExclusive(p, "shared") \/ GiveUp(p)

\* A reader counts itself in; at INT_MAX the counters are rebased.
CountIn(p) ==
  /\ At(p, "shared") /\ op[p] \in ReadCalls
  /\ nSharedAccessCount' = CInt(nSharedAccessCount + 1)
  /\ Holds(p, "read")
  /\ Goto(p, IF nSharedAccessCount' = IntMax THEN "rebase" ELSE "leave_exclusive")
  /\ UNCHANGED <<ptr, locks, nExclusiveAccessCount, nCompletedSharedAccessCount, woken, op>>

Rebase(p) ==
  /\ At(p, "rebase") /\ mtxSharedAccessCompleted = NoThread
  /\ nSharedAccessCount' = nSharedAccessCount - nCompletedSharedAccessCount
  /\ nCompletedSharedAccessCount' = 0
  /\ Goto(p, "leave_exclusive")
  /\ UNCHANGED <<ptr, locks, nExclusiveAccessCount, woken, op, hold>>

\* ETIMEDOUT from the second mutex of a timed call.  The reader's increment is
\* not under that mutex: it may be lost to the one of the thread that holds it.
SharedTimesOut(p) ==
  /\ Timed(op[p]) /\ mtxSharedAccessCompleted # NoThread
  /\ \/ At(p, "shared") /\ op[p] \in WriteCalls
     \/ At(p, "rebase") /\ RebaseMayTimeOut
  /\ IF At(p, "rebase")
       THEN /\ \E lost \in {0, 1} :
                 nCompletedSharedAccessCount' = nCompletedSharedAccessCount + 1 - lost
            /\ Holds(p, "none")
       ELSE UNCHANGED <<nCompletedSharedAccessCount, hold>>
  /\ Goto(p, "leave_exclusive")
  /\ UNCHANGED <<ptr, locks, nSharedAccessCount, nExclusiveAccessCount, woken, op>>

-----------------------------------------------------------------------------
(* Writers. *)

WrLock(p) ==
  At(p, "exclusive") /\ op[p] = "wrlock" /\ TakeExclusive(p, "shared")

TimedWrLock(p) ==
  /\ At(p, "exclusive") /\ op[p] = "timedwrlock"
  /\ TakeExclusive(p, "shared") \/ GiveUp(p)

TryWrLock(p) ==
  /\ At(p, "exclusive") /\ op[p] = "trywrlock"
  /\ TakeExclusive(p, "shared") \/ GiveUp(p)

\* The second pthread_mutex_trylock of pthread_rwlock_trywrlock fails.
TrySharedFails(p) ==
  /\ At(p, "shared") /\ op[p] = "trywrlock"
  /\ mtxSharedAccessCompleted # NoThread
  /\ Goto(p, "leave_exclusive")
  /\ UNCHANGED <<ptr, locks, counts, woken, op, hold>>

\* The completed readers are taken off; those that are left must leave.
Remaining ==
  IF nCompletedSharedAccessCount > 0
    THEN CInt(nSharedAccessCount - nCompletedSharedAccessCount)
    ELSE nSharedAccessCount

MustWait == nExclusiveAccessCount = 0 /\ Remaining > 0

\* pthread_rwlock_wrlock waits for the readers, with the negated number of them
\* in nCompletedSharedAccessCount.
WriterWaits(p) ==
  /\ At(p, "shared") /\ op[p] \in {"wrlock", "timedwrlock"}
  /\ mtxSharedAccessCompleted = NoThread /\ MustWait
  /\ nSharedAccessCount' = Remaining
  /\ nCompletedSharedAccessCount' = -Remaining
  /\ Goto(p, "wait")
  /\ UNCHANGED <<ptr, locks, nExclusiveAccessCount, woken, op, hold>>

\* pthread_rwlock_trywrlock returns EBUSY.
TryWriteFails(p) ==
  /\ At(p, "shared") /\ op[p] = "trywrlock"
  /\ mtxSharedAccessCompleted = NoThread /\ MustWait
  /\ mtxSharedAccessCompleted' = p
  /\ nSharedAccessCount' = Remaining
  /\ nCompletedSharedAccessCount' = IF nCompletedSharedAccessCount > 0
                                      THEN 0 ELSE nCompletedSharedAccessCount
  /\ Goto(p, "leave")
  /\ UNCHANGED <<ptr, mtxExclusiveAccess, nExclusiveAccessCount, woken, op, hold>>

\* There is no reader: the writer keeps both mutexes.
WriterEnters(p) ==
  /\ At(p, "shared") /\ op[p] \in WriteCalls
  /\ mtxSharedAccessCompleted = NoThread /\ ~MustWait
  /\ mtxSharedAccessCompleted' = p
  /\ nSharedAccessCount' = Remaining
  /\ nCompletedSharedAccessCount' = IF nCompletedSharedAccessCount > 0
                                      THEN 0 ELSE nCompletedSharedAccessCount
  /\ nExclusiveAccessCount' = nExclusiveAccessCount + 1
  /\ Goto(p, "idle") /\ Holds(p, "write")
  /\ UNCHANGED <<ptr, mtxExclusiveAccess, woken, op>>

\* Fault: a woken writer does not look whether the readers have left.
TrustWakeup(p) ==
  /\ At(p, "wait") /\ p \in woken /\ mtxSharedAccessCompleted = NoThread
  /\ woken' = woken \ {p}
  /\ mtxSharedAccessCompleted' = p
  /\ nSharedAccessCount' = 0
  /\ nExclusiveAccessCount' = nExclusiveAccessCount + 1
  /\ Goto(p, "idle") /\ Holds(p, "write")
  /\ UNCHANGED <<ptr, mtxExclusiveAccess, nCompletedSharedAccessCount, op>>

\* pthread_cond_wait returns 0: the writer waits again while readers are left.
WriterWakes(p) ==
  /\ At(p, "wait") /\ p \in woken /\ mtxSharedAccessCompleted = NoThread
  /\ woken' = woken \ {p}
  /\ IF nCompletedSharedAccessCount < 0
       THEN UNCHANGED <<mtxSharedAccessCompleted, counts, pc, hold>>
       ELSE /\ mtxSharedAccessCompleted' = p
            /\ nSharedAccessCount' = 0
            /\ nExclusiveAccessCount' = nExclusiveAccessCount + 1
            /\ Goto(p, "idle") /\ Holds(p, "write")
            /\ UNCHANGED nCompletedSharedAccessCount
  /\ UNCHANGED <<ptr, mtxExclusiveAccess, op>>

\* Fault: the clean-up takes it that the counters are as they were.
CancelKeepCount(p) ==
  /\ mtxSharedAccessCompleted' = p
  /\ nCompletedSharedAccessCount' = 0
  /\ Goto(p, "leave")
  /\ UNCHANGED nSharedAccessCount

\* ptw32_rwlock_cancelwrwait.
CancelWrWait(p) ==
  /\ mtxSharedAccessCompleted' = p
  /\ nSharedAccessCount' = -nCompletedSharedAccessCount
  /\ nCompletedSharedAccessCount' = 0
  /\ Goto(p, "leave")

\* The writer is cancelled, or its pthread_cond_timedwait returns ETIMEDOUT.
WriterGivesUp(p) ==
  /\ At(p, "wait") /\ mtxSharedAccessCompleted = NoThread
  /\ woken' = woken \ {p}
  /\ CancelWrWait(p)
  /\ UNCHANGED <<ptr, mtxExclusiveAccess, nExclusiveAccessCount, op, hold>>

\* pthread_timechange_handler_np broadcasts every condition variable.
TimeChange ==
  /\ woken' = {p \in Threads : At(p, "wait")}
  /\ woken' # woken
  /\ UNCHANGED <<ptr, locks, counts, pc, op, hold>>

-----------------------------------------------------------------------------
(* Unlocking, and the ends of the calls. *)

\* pthread_rwlock_unlock, which reads nExclusiveAccessCount without a mutex.
Unlock(p) ==
  /\ At(p, "idle") /\ hold[p] # "none"
  /\ op' = [op EXCEPT ![p] = "unlock"]
  /\ IF nExclusiveAccessCount = 0
       THEN Goto(p, "count_out") /\ UNCHANGED <<nExclusiveAccessCount, hold>>
       ELSE /\ nExclusiveAccessCount' = nExclusiveAccessCount - 1
            /\ Goto(p, "leave") /\ Holds(p, "none")
  /\ UNCHANGED <<ptr, locks, nSharedAccessCount, nCompletedSharedAccessCount, woken>>

\* Fault: the last reader is taken to be the one that makes the counts equal.
SignalWhenEqual(p) ==
  /\ At(p, "count_out") /\ mtxSharedAccessCompleted = NoThread
  /\ mtxSharedAccessCompleted' = p
  /\ nCompletedSharedAccessCount' = nCompletedSharedAccessCount + 1
  /\ woken' = IF nCompletedSharedAccessCount' = nSharedAccessCount
                THEN woken \union {q \in Threads : At(q, "wait")} ELSE woken
  /\ Goto(p, "leave") /\ Holds(p, "none")
  /\ UNCHANGED <<ptr, mtxExclusiveAccess, nSharedAccessCount, nExclusiveAccessCount, op>>

\* A reader counts itself out; the last one signals the writer, if there is one.
CountOut(p) ==
  /\ At(p, "count_out") /\ mtxSharedAccessCompleted = NoThread
  /\ mtxSharedAccessCompleted' = p
  /\ nCompletedSharedAccessCount' = nCompletedSharedAccessCount + 1
  /\ woken' = IF nCompletedSharedAccessCount' = 0
                THEN woken \union {q \in Threads : At(q, "wait")} ELSE woken
  /\ Goto(p, "leave") /\ Holds(p, "none")
  /\ UNCHANGED <<ptr, mtxExclusiveAccess, nSharedAccessCount, nExclusiveAccessCount, op>>

LeaveShared(p) ==
  /\ At(p, "leave")
  /\ mtxSharedAccessCompleted' = NoThread
  /\ Goto(p, IF mtxExclusiveAccess = p THEN "leave_exclusive" ELSE "idle")
  /\ UNCHANGED <<ptr, mtxExclusiveAccess, counts, woken, op, hold>>

LeaveExclusive(p) ==
  /\ At(p, "leave_exclusive")
  /\ mtxExclusiveAccess' = NoThread
  /\ Goto(p, "idle")
  /\ UNCHANGED <<ptr, mtxSharedAccessCompleted, counts, woken, op, hold>>

-----------------------------------------------------------------------------
(* pthread_rwlock_destroy. *)

Destroy(p) ==
  /\ MayDestroy(p)
  /\ op' = [op EXCEPT ![p] = "destroy"]
  /\ Goto(p, IF ptr = "static" THEN "destroy_static" ELSE "destroy_exclusive")
  /\ UNCHANGED <<ptr, locks, counts, woken, hold>>

\* EBUSY when the lock has been initialised meanwhile.
DestroyStatic(p) ==
  /\ At(p, "destroy_static")
  /\ ptr' = IF ptr = "static" THEN "null" ELSE ptr
  /\ Goto(p, "idle")
  /\ UNCHANGED <<locks, counts, woken, op, hold>>

DestroyWaits(p) ==
  At(p, "destroy_exclusive") /\ TakeExclusive(p, "destroy_shared")

Busy == \/ nExclusiveAccessCount > 0
        \/ nSharedAccessCount > nCompletedSharedAccessCount

\* EBUSY, or the lock is marked, both mutexes released and everything destroyed.
DestroyDone(p) ==
  /\ At(p, "destroy_shared") /\ mtxSharedAccessCompleted = NoThread
  /\ IF Busy
       THEN Goto(p, "leave") /\ mtxSharedAccessCompleted' = p /\ UNCHANGED <<ptr, mtxExclusiveAccess>>
       ELSE /\ ptr' = "null"
            /\ mtxExclusiveAccess' = NoThread
            /\ Goto(p, "idle") /\ UNCHANGED mtxSharedAccessCompleted
  /\ UNCHANGED <<counts, woken, op, hold>>

-----------------------------------------------------------------------------
Step(p) ==
  \/ NeedInit(p)
  \/ RdLock(p) \/ TimedRdLock(p) \/ TryRdLock(p) \/ CountIn(p) \/ Rebase(p)
  \/ SharedTimesOut(p)
  \/ WrLock(p) \/ TimedWrLock(p) \/ TryWrLock(p) \/ TrySharedFails(p)
  \/ WriterWaits(p) \/ TryWriteFails(p) \/ WriterEnters(p) \/ WriterWakes(p)
  \/ CountOut(p) \/ LeaveShared(p) \/ LeaveExclusive(p)
  \/ DestroyStatic(p) \/ DestroyWaits(p) \/ DestroyDone(p)

Next ==
  \/ \E p \in Threads :
       \/ \E o \in ReadCalls \union WriteCalls : Enter(p, o)
       \/ Step(p) \/ Unlock(p) \/ InitLock(p) \/ WriterGivesUp(p) \/ Destroy(p)
  \/ TimeChange

Spec == Init /\ [][Next]_vars

\* Threads in a call go on, and a thread that holds the lock gives it up.
Fair(p) == WF_vars(Step(p)) /\ WF_vars(Unlock(p))

FairSpec == Spec /\ \A p \in Threads : Fair(p)

-----------------------------------------------------------------------------
(* Properties. *)

\* The variables are in their ranges; counters are C ints.
TypeOK ==
  /\ ptr \in {"static", "live", "null"}
  /\ {mtxExclusiveAccess, mtxSharedAccessCompleted} \subseteq Threads \union {NoThread}
  /\ {nSharedAccessCount, nCompletedSharedAccessCount} \subseteq (-IntMax - 1)..IntMax
  /\ nExclusiveAccessCount \in 0..1
  /\ woken \subseteq Threads
  /\ pc \in [Threads -> Places]
  /\ op \in [Threads -> ReadCalls \union WriteCalls \union {"unlock", "destroy"}]
  /\ hold \in [Threads -> {"none", "read", "write"}]

\* A thread that may write is alone: no spurious wake-up, time-out or
\* cancellation of a writer lets one in beside the readers.
Exclusion ==
  \A p, q \in Threads : hold[p] = "write" /\ p # q => hold[q] = "none"

\* The two counters always tell how many readers there are, through rebasing,
\* time-outs and cancellations: their difference or, while a writer waits, the
\* negated count of completed readers.
ReadersCounted ==
  Cardinality(Readers) =
    IF \E p \in Threads : At(p, "wait")
      THEN -nCompletedSharedAccessCount
      ELSE nSharedAccessCount - nCompletedSharedAccessCount

\* No thread gets the lock, for reading or for writing, while a writer waits
\* for the readers.
NotOvertaken ==
  [][\A p, q \in Threads :
       At(p, "wait") /\ q # p /\ hold[q] = "none" => hold'[q] = "none"]_vars

\* pthread_rwlock_destroy takes no lock from a thread that holds it: "report
\* BUSY if so" (pthread_rwlock_destroy.c:83).
DestroyedUnheld == ptr # "live" => \A p \in Threads : hold[p] = "none"

\* A writer shares the lock with nobody, and only a lock that nobody holds is
\* destroyed.
Excluded == Exclusion /\ DestroyedUnheld

\* The calls do to the lock what SharedLock says: beside exclusion and NotOvertaken,
\* that a writer waits only for readers that there are, that a wait ends with the
\* lock or with the withdrawal of the claim, and that the lock comes into being
\* once, on its first use, and goes only when it is free and unclaimed.
Shared == INSTANCE SharedLock WITH
  exists <- ptr = "live",
  readers <- Readers,
  writers <- {p \in Threads : hold[p] = "write"},
  claims <- {p \in Threads : At(p, "wait")}

SharedSpec == Shared!Spec

\* The three counts keep their ranges, through INT_MAX, and give the readers that
\* are there.
Counted == TypeOK /\ ReadersCounted

\* A writer that waits for the readers does not wait for ever: the signal of the
\* last of them is not missed, and later readers cannot prolong the wait.
WriterWaitEnds ==
  \A p \in Threads : At(p, "wait") ~> ~At(p, "wait")
=============================================================================
