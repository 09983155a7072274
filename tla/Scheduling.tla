------------------------------ MODULE Scheduling ------------------------------
(***************************************************************************)
(* The priority and the CPU affinity of threads: what the library records  *)
(* of them, sched_priority and cpuset, and what is in force in Windows.    *)
(* Threads set and read those of each other; the application may call      *)
(* Windows itself; a Win32 thread gets a handle by pthread_self, others    *)
(* are created and inherit.  A priority is set under threadLock of the     *)
(* thread, an affinity under ptw32_thread_reuse_lock; the affinity of the  *)
(* process is changed with no lock at all.                                 *)
(***************************************************************************)
EXTENDS Integers

CONSTANTS
  Threads,
  First,       \* the thread that is there from the start
  CPUs,        \* the system mask
  Priorities,  \* the priorities that are asked for
  Idle, Lowest, Normal, Highest, TimeCritical,  \* THREAD_PRIORITY_*, in order
  MaxDirect,   \* a bound: how often Windows is called directly, and the process
               \* affinity is set
  AffinityFails, \* may the affinity calls of pthread_self fail?
  Null

Masks == SUBSET CPUs \ {{}}

VARIABLES
  status,          \* status[t]: "none", "win32" or "posix": its handle is valid
  self,            \* self[t]: the thread whose structure is under
                   \* ptw32_selfThreadKey of t, or Null
  process,         \* the affinity of the process
  mask, priority,  \* in force in Windows
  cpuset, sched_priority,     \* the fields of ptw32_thread_t
  threadLock, reuseLock,
  pc, target, saved,          \* pc[t], and what its call is about
  inForce,         \* history: the affinity that was last asked for
  raced,           \* history: was the affinity changed directly during a call?
  known,           \* history: should cpuset be right?
  direct           \* bounds the direct changes

os     == <<process, mask, priority>>
fields == <<cpuset, sched_priority>>
locks  == <<threadLock, reuseLock>>
frames == <<pc, target, saved>>
ghosts == <<inForce, raced, known>>
vars   == <<status, self, os, fields, locks, frames, ghosts, direct>>

Init ==
  /\ status \in [Threads -> {"none", "win32", "posix"}]
  /\ \A t \in Threads : status[t] = "posix" <=> t = First
  /\ self = [t \in Threads |-> IF t = First THEN t ELSE Null]
  /\ process = CPUs
  /\ mask = [t \in Threads |-> CPUs]
  /\ priority = [t \in Threads |-> Normal]
  /\ cpuset = [t \in Threads |-> IF t = First THEN CPUs ELSE {}]
  /\ sched_priority = [t \in Threads |-> Normal]
  /\ threadLock = [t \in Threads |-> Null]
  /\ reuseLock = Null
  /\ pc = [t \in Threads |-> "idle"]
  /\ target = [t \in Threads |-> t]
  /\ saved = [t \in Threads |-> {}]
  /\ inForce = [t \in Threads |-> CPUs]
  /\ raced = [t \in Threads |-> FALSE]
  /\ known = [t \in Threads |-> t = First]
  /\ direct = 0

Idling(t) == self[t] # Null /\ pc[t] = "idle"
Posix(t)  == status[t] = "posix"
Step(t, l, u, m) ==
  /\ pc' = [pc EXCEPT ![t] = l]
  /\ target' = [target EXCEPT ![t] = u]
  /\ saved' = [saved EXCEPT ![t] = m]
Done(t) == Step(t, "idle", t, {})

\* Some call is about to change the affinity of t.
Busy(t) == \E u \in Threads : pc[u] \in {"set", "get", "self"} /\ target[u] = t

-----------------------------------------------------------------------------
(* Priorities. *)

\* Priorities that Windows does not have become the nearest towards normal.
Adjusted(p) ==
  IF Idle < p /\ p < Lowest THEN Lowest
  ELSE IF Highest < p /\ p < TimeCritical THEN Highest
  ELSE p

\* pthread_setschedparam, ptw32_setthreadpriority: under threadLock, Windows ...
SetPriority(t, u, p) ==
  /\ Idling(t) /\ Posix(u)
  /\ threadLock[u] = Null
  /\ threadLock' = [threadLock EXCEPT ![u] = t]
  /\ priority' = [priority EXCEPT ![u] = Adjusted(p)]
  /\ Step(t, "record", u, {p})
  /\ UNCHANGED <<status, self, process, mask, fields, reuseLock, ghosts, direct>>

\* ... and then the priority as given.
RecordPriority(t) ==
  /\ pc[t] = "record"
  /\ sched_priority' = [sched_priority EXCEPT ![target[t]] = CHOOSE p \in saved[t] : TRUE]
  /\ threadLock' = [threadLock EXCEPT ![target[t]] = Null]
  /\ Done(t)
  /\ UNCHANGED <<status, self, os, cpuset, reuseLock, ghosts, direct>>

-----------------------------------------------------------------------------
(* Threads that are new to the library. *)

\* ptw32_new, by which u gets a structure, and what is under its key then.  A
\* structure that pthread_self has given back is used again; the threads that
\* still have it under their key then name u.
New(u, named) ==
  LET given == {v \in Threads : status[v] = "win32" /\ self[v] = v}
  IN  \E v \in IF given = {} THEN {u} ELSE given :
        self' = [w \in Threads |-> IF w = u THEN named
                                   ELSE IF self[w] = v THEN u ELSE self[w]]

\* pthread_create by c, with the attributes inherit, p and attrMask, or with
\* none: the thread is suspended until both are set.  A mask that the process
\* does not have is recorded, though Windows refuses it; a priority is not.
Create(c, t, attr, inherit, p, attrMask) ==
  LET m    == IF attr /\ attrMask # {} THEN attrMask ELSE cpuset[self[c]]
      prio == IF inherit THEN sched_priority[self[c]] ELSE p
      ok   == m # {} /\ m \subseteq process
  IN  /\ Idling(c) /\ status[t] = "none"
      /\ ~attr => ~inherit /\ p = Normal /\ attrMask = {}
      /\ New(t, t)
      /\ status' = [status EXCEPT ![t] = "posix"]
      /\ cpuset' = [cpuset EXCEPT ![t] = m]
      /\ mask' = [mask EXCEPT ![t] = IF ok THEN m ELSE process]
      /\ inForce' = [inForce EXCEPT ![t] = IF ok THEN m ELSE process]
      /\ known' = [known EXCEPT ![t] = ok]
      /\ \/ /\ attr
            /\ sched_priority' = [sched_priority EXCEPT ![t] = prio]
            /\ priority' = [priority EXCEPT ![t] = Adjusted(prio)]
         \/ UNCHANGED <<sched_priority, priority>>
      /\ UNCHANGED <<process, locks, frames, raced, direct>>

\* pthread_self in a Win32 thread: the affinity of the thread can only be read
\* by setting it, to that of the process ...  If Windows refuses to, there is no
\* handle, but the structure is under the key and in the list of free ones.
SelfWiden(t) ==
  /\ status[t] = "win32" /\ self[t] = Null /\ pc[t] = "idle"
  /\ \E fails \in {FALSE, AffinityFails} :
       IF fails THEN New(t, t) /\ Done(t) /\ UNCHANGED mask
       ELSE /\ New(t, Null)
            /\ Step(t, "self", t, mask[t])
            /\ mask' = [mask EXCEPT ![t] = process]
  /\ UNCHANGED <<status, process, priority, fields, locks, ghosts, direct>>

\* ... and back.  If Windows refuses that, the same, and the thread stays so.
SelfRestore(t) ==
  /\ pc[t] = "self"
  /\ self' = [self EXCEPT ![t] = t]
  /\ IF saved[t] \subseteq process
       THEN /\ mask' = [mask EXCEPT ![t] = saved[t]]
            /\ cpuset' = [cpuset EXCEPT ![t] = saved[t]]
            /\ known' = [known EXCEPT ![t] = TRUE]
            /\ status' = [status EXCEPT ![t] = "posix"]
            /\ sched_priority' = [sched_priority EXCEPT ![t] = priority[t]]
       ELSE UNCHANGED <<mask, cpuset, known, status, sched_priority>>
  /\ Done(t)
  /\ UNCHANGED <<process, priority, locks, inForce, raced, direct>>

-----------------------------------------------------------------------------
(* Affinities. *)

\* pthread_setaffinity_np: under ptw32_thread_reuse_lock, the mask is cut to
\* the process affinity of now (sched_getaffinity) ...
SetAffinity(t, u, m) ==
  /\ Idling(t) /\ Posix(u) /\ reuseLock = Null
  /\ m \intersect process # {}
  /\ reuseLock' = t
  /\ Step(t, "set", u, m \intersect process)
  /\ UNCHANGED <<status, self, os, fields, threadLock, ghosts, direct>>

\* ... set, and recorded.  EAGAIN if the process affinity has changed meanwhile
\* so that Windows refuses it.
ThreadAffinitySet(t) ==
  LET u == target[t]
  IN  /\ pc[t] = "set"
      /\ IF saved[t] \subseteq process
           THEN /\ mask' = [mask EXCEPT ![u] = saved[t]]
                /\ cpuset' = [cpuset EXCEPT ![u] = saved[t]]
                /\ inForce' = [inForce EXCEPT ![u] = saved[t]]
                /\ known' = [known EXCEPT ![u] = TRUE]
                /\ raced' = [raced EXCEPT ![u] = FALSE]
           ELSE UNCHANGED <<mask, cpuset, ghosts>>
      /\ reuseLock' = Null
      /\ Done(t)
      /\ UNCHANGED <<status, self, process, priority, sched_priority, threadLock, direct>>

\* Fault: ptw32_thread_reuse_lock is not taken.
GetAffinityUnlocked(t, u) ==
  /\ Idling(t) /\ Posix(u)
  /\ cpuset[u] # {} /\ cpuset[u] \subseteq process
  /\ reuseLock' = t
  /\ mask' = [mask EXCEPT ![u] = cpuset[u]]
  /\ Step(t, "get", u, mask[u])
  /\ UNCHANGED <<status, self, process, priority, fields, threadLock, ghosts, direct>>

\* pthread_getaffinity_np: under the lock the record is put in force, which
\* tells what was.  (When Windows refuses, nothing is changed.)
GetAffinity(t, u) ==
  /\ Idling(t) /\ Posix(u) /\ reuseLock = Null
  /\ cpuset[u] # {} /\ cpuset[u] \subseteq process
  /\ reuseLock' = t
  /\ mask' = [mask EXCEPT ![u] = cpuset[u]]
  /\ Step(t, "get", u, mask[u])
  /\ UNCHANGED <<status, self, process, priority, fields, threadLock, ghosts, direct>>

\* If it was something else, set by the application, it is put back and recorded.
AdoptAffinity(t) ==
  LET u == target[t]
  IN  /\ pc[t] = "get"
      /\ mask' = IF saved[t] # cpuset[u] /\ saved[t] \subseteq process
                   THEN [mask EXCEPT ![u] = saved[t]] ELSE mask
      /\ cpuset' = [cpuset EXCEPT ![u] = saved[t]]
      /\ known' = [known EXCEPT ![u] = ~raced[u]]
      /\ reuseLock' = Null
      /\ Done(t)
      /\ UNCHANGED <<status, self, process, priority, sched_priority, threadLock, inForce,
                     raced, direct>>

\* sched_setaffinity: Windows gives every thread the new mask of the process.
\* One that is in pthread_self may then be refused to be put back.
ProcessAffinity(m) ==
  /\ direct < MaxDirect /\ direct' = direct + 1
  /\ AffinityFails \/ \A t \in Threads : pc[t] = "self" => saved[t] \subseteq m
  /\ process' = m
  /\ mask' = [t \in Threads |-> m]
  /\ inForce' = [t \in Threads |-> m]
  /\ known' = [t \in Threads |-> FALSE]
  /\ raced' = [t \in Threads |-> Busy(t)]
  /\ UNCHANGED <<status, self, priority, fields, locks, frames>>

\* The application calls SetThreadAffinityMask itself.
Win32Affinity(t, m) ==
  /\ direct < MaxDirect /\ direct' = direct + 1
  /\ status[t] # "none" /\ m \subseteq process
  /\ mask' = [mask EXCEPT ![t] = m]
  /\ inForce' = [inForce EXCEPT ![t] = m]
  /\ known' = [known EXCEPT ![t] = FALSE]
  /\ raced' = [raced EXCEPT ![t] = Busy(t)]
  /\ UNCHANGED <<status, self, process, priority, fields, locks, frames>>

-----------------------------------------------------------------------------
Next ==
  \/ \E t, u \in Threads :
       \/ \E p \in Priorities : SetPriority(t, u, p)
       \/ \E m \in Masks : SetAffinity(t, u, m)
       \/ GetAffinity(t, u)
       \/ \E attr, inherit \in BOOLEAN, p \in Priorities, m \in Masks \union {{}} :
            Create(t, u, attr, inherit, p, m)
  \/ \E t \in Threads :
       \/ RecordPriority(t) \/ SelfWiden(t) \/ SelfRestore(t)
       \/ ThreadAffinitySet(t) \/ AdoptAffinity(t)
       \/ \E m \in Masks : Win32Affinity(t, m)
  \/ \E m \in Masks : ProcessAffinity(m)

Spec == Init /\ [][Next]_vars

-----------------------------------------------------------------------------
\* The priority that pthread_getschedparam tells a thread of itself is the one
\* that is in force, up to the adjustment, whoever sets it at the same time, and
\* however the thread has come by its first one.
PriorityRecorded ==
  \A t \in Threads : self[t] # Null /\ Posix(self[t]) /\ threadLock[self[t]] = Null =>
    priority[t] = Adjusted(sched_priority[self[t]])

\* Between calls the affinity in force is the one asked for last, of the
\* library or of Windows: that of a thread is read by changing it, but is put
\* back.  A change from outside in the middle of such a call may be lost.
AffinityKept ==
  \A t \in Threads : ~Busy(t) /\ ~raced[t] /\ status[t] # "none" => mask[t] = inForce[t]

\* The cpuset of the structure a thread has under its key is what is in force for
\* it, from the time it is set or read by the library until it is changed past it.
AffinityRecorded ==
  \A t \in Threads :
    self[t] # Null /\ Posix(self[t]) /\ ~Busy(t) /\ ~raced[t] /\ known[self[t]] =>
      cpuset[self[t]] = mask[t]
=============================================================================
