-------------------------------- MODULE SpinLock ------------------------------
(***************************************************************************)
(* Spin locks: pthread_spin_init, _lock, _trylock, _unlock, _destroy, and  *)
(* the first use of a static one.  On a machine with one processor the     *)
(* lock is a mutex (module Mutex), and interlock says so for ever.         *)
(***************************************************************************)
CONSTANTS
  Threads,   \* the threads that use the lock
  NoThread   \* the owner of the mutex when it is free

VARIABLES
  ptr,        \* *lock: "static" (PTHREAD_SPINLOCK_INITIALIZER), "live" or "null"
  interlock,  \* s->interlock: "unlocked", "locked", "use_mutex" or "invalid"
  mutex,      \* the owner of s->u.mutex
  pc,         \* pc[p]: where p is in its call, "idle" outside of one
  op,         \* op[p]: "lock" or "trylock"
  holder      \* history: the threads that hold the lock

vars == <<ptr, interlock, mutex, pc, op, holder>>

Goto(p, l) == pc' = [pc EXCEPT ![p] = l]
At(p, l) == pc[p] = l

Init ==
  /\ ptr = "static"
  /\ interlock = "invalid"
  /\ mutex = NoThread
  /\ pc = [p \in Threads |-> "idle"]
  /\ op = [p \in Threads |-> "lock"]
  /\ holder = {}

\* pthread_spin_init: several processors, one processor, or a failure: ENOMEM
\* leaves *lock alone, and a failure of pthread_mutex_init sets it to NULL.
Create ==
  /\ \/ ptr' = "live" /\ interlock' \in {"unlocked", "use_mutex"}
     \/ ptr' \in {ptr, "null"} /\ UNCHANGED interlock
  /\ mutex' = NoThread

\* The application initialises a destroyed lock when nobody else uses it.
InitLock(p) ==
  /\ ptr = "null" /\ \A q \in Threads : At(q, "idle")
  /\ Create
  /\ UNCHANGED <<pc, op, holder>>

\* The tests at the start of pthread_spin_lock and _trylock.
Enter(p, o) ==
  /\ At(p, "idle") /\ p \notin holder /\ ptr # "null"
  /\ \A q \in Threads : ~At(q, "destroy_static")
  /\ op' = [op EXCEPT ![p] = o]
  /\ Goto(p, IF ptr = "static" THEN "need_init" ELSE "spin")
  /\ UNCHANGED <<ptr, interlock, mutex, holder>>

\* Fault: the first use does not look again once it has the lock.
InitAgain(p) ==
  /\ At(p, "need_init")
  /\ Create
  /\ Goto(p, IF ptr' = "live" THEN "spin" ELSE "idle")
  /\ UNCHANGED <<op, holder>>

\* ptw32_spinlock_check_need_init, under ptw32_spinlock_test_init_lock.
NeedInit(p) ==
  /\ At(p, "need_init")
  /\ IF ptr = "static" THEN Create ELSE UNCHANGED <<ptr, interlock, mutex>>
  /\ Goto(p, IF ptr' = "live" THEN "spin" ELSE "idle")
  /\ UNCHANGED <<op, holder>>

\* pthread_spin_lock: the compare and exchange, repeated while it finds "locked".
Spin(p) ==
  /\ At(p, "spin") /\ op[p] = "lock"
  /\ \/ /\ interlock = "unlocked" /\ interlock' = "locked"
        /\ holder' = holder \union {p}
        /\ Goto(p, "idle")
     \/ /\ interlock = "use_mutex"
        /\ Goto(p, "mutex")
        /\ UNCHANGED <<interlock, holder>>
  /\ UNCHANGED <<ptr, mutex, op>>

\* pthread_spin_trylock: EBUSY when it finds "locked".
TrySpin(p) ==
  /\ At(p, "spin") /\ op[p] = "trylock"
  /\ CASE interlock = "unlocked"  -> /\ interlock' = "locked"
                                     /\ holder' = holder \union {p}
                                     /\ Goto(p, "idle")
       [] interlock = "locked"    -> Goto(p, "idle") /\ UNCHANGED <<interlock, holder>>
       [] interlock = "use_mutex" -> Goto(p, "mutex") /\ UNCHANGED <<interlock, holder>>
  /\ UNCHANGED <<ptr, mutex, op>>

\* pthread_mutex_lock or _trylock of s->u.mutex.
TakeMutex(p) ==
  /\ At(p, "mutex")
  /\ IF mutex = NoThread
       THEN mutex' = p /\ holder' = holder \union {p}
       ELSE op[p] = "trylock" /\ UNCHANGED <<mutex, holder>>
  /\ Goto(p, "idle")
  /\ UNCHANGED <<ptr, interlock, op>>

\* pthread_spin_unlock by the thread that holds the lock.
Unlock(p) ==
  /\ At(p, "idle") /\ p \in holder
  /\ interlock' = IF interlock = "locked" THEN "unlocked" ELSE interlock
  /\ mutex' = IF interlock = "use_mutex" THEN NoThread ELSE mutex
  /\ holder' = holder \ {p}
  /\ UNCHANGED <<ptr, pc, op>>

\* pthread_spin_destroy, "relying on the application to ensure that all other
\* threads have finished with the spinlock" unless they hold it, or wait to
\* initialise it.
Destroy(p) ==
  /\ At(p, "idle") /\ ptr # "null" /\ p \notin holder
  /\ \A q \in Threads : At(q, "idle") \/ (At(q, "need_init") /\ ptr = "static")
  /\ IF ptr = "static"
       THEN Goto(p, "destroy_static") /\ UNCHANGED <<ptr, interlock>>
       ELSE /\ \/ interlock = "unlocked" /\ interlock' = "invalid"
               \/ interlock = "use_mutex" /\ mutex = NoThread /\ UNCHANGED interlock
            /\ ptr' = "null"
            /\ UNCHANGED pc
  /\ UNCHANGED <<mutex, op, holder>>

\* EBUSY when the lock has been initialised meanwhile.
DestroyStatic(p) ==
  /\ At(p, "destroy_static")
  /\ ptr' = IF ptr = "static" THEN "null" ELSE ptr
  /\ Goto(p, "idle")
  /\ UNCHANGED <<interlock, mutex, op, holder>>

Step(p) == NeedInit(p) \/ Spin(p) \/ TrySpin(p) \/ TakeMutex(p) \/ DestroyStatic(p)

Next ==
  \E p \in Threads :
    \/ \E o \in {"lock", "trylock"} : Enter(p, o)
    \/ Step(p) \/ Unlock(p) \/ Destroy(p) \/ InitLock(p)

Spec == Init /\ [][Next]_vars

TypeOK ==
  /\ ptr \in {"static", "live", "null"}
  /\ interlock \in {"unlocked", "locked", "use_mutex", "invalid"}
  /\ mutex \in Threads \union {NoThread}
  /\ pc \in [Threads -> {"idle", "need_init", "spin", "mutex", "destroy_static"}]
  /\ op \in [Threads -> {"lock", "trylock"}]
  /\ holder \subseteq Threads

\* At most one thread holds the lock, whatever the number of processors, and
\* the word or the mutex that is in use says so; a lock that somebody holds is
\* neither initialised again by a late first use nor destroyed.
SpinExclusion ==
  /\ \A p, q \in holder : p = q
  /\ ptr = "live" /\ interlock # "use_mutex" => (interlock = "locked") = (holder # {})
  /\ ptr = "live" /\ interlock = "use_mutex" => (mutex # NoThread) = (holder # {})
  /\ holder # {} => ptr = "live"
=============================================================================
