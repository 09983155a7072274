----------------------------- MODULE DataProofs ------------------------------
(***************************************************************************)
(* What MCData checks of names, scheduling, start-up and termination,      *)
(* attribute objects, times, thread-specific data and cleanup handlers,    *)
(* each on its own, for all values of the constants; but times are for the *)
(* units and the widths that the code has.                                 *)
(***************************************************************************)
EXTENDS MCData, SequenceTheorems, FiniteSetTheorems, TLAPS

-----------------------------------------------------------------------------
(* Names of threads. *)

\* A thread is about to rename another; it has both names; it reads one.
Renaming == {"set_lock", "set_free"}
Locking  == {"set_free", "get_copy"}

NameTypes ==
  /\ heap \in [Buffers -> {"unused", "used", "freed"}]
  /\ exists \in SUBSET Targets
  /\ thrname \in Buffers \union {Null}
  /\ name \in [Targets -> Buffers \union {Null}]
  /\ nameLock \in [Targets -> Users \union {Null}]
  /\ npc \in [Users -> {"user", "set_lock", "set_free", "get_lock", "get_copy"}]
  /\ ntarget \in [Users -> Targets \union {Null}]
  /\ newname \in [Users -> Buffers \union {Null}]
  /\ oldname \in [Users -> Buffers \union {Null}]
  /\ s \in [Users -> Buffers \union {Null}]

\* Who has the lock of which thread, and what is null when.
NamePlaces ==
  \A u \in Users :
    /\ npc[u] # "user" => ntarget[u] \in exists
    /\ npc[u] = "user" => ntarget[u] = Null
    /\ npc[u] \in Locking => nameLock[ntarget[u]] = u
    /\ newname[u] # Null <=> npc[u] \in Renaming
    /\ oldname[u] # Null => npc[u] = "set_free"
    /\ s[u] # Null => npc[u] = "get_copy"

\* A copy that has not been exchanged yet is of no other owner; one that has
\* is the name of the thread; and the old name is nobody's.
NameOwners ==
  /\ thrname # Null => heap[thrname] = "used"
  /\ \A x \in Targets : name[x] # Null =>
       /\ x \in exists /\ heap[name[x]] = "used" /\ name[x] # thrname
       /\ \A y \in Targets : name[y] = name[x] => y = x
  /\ \A u \in Users : N!At(u, "set_lock") =>
       /\ heap[newname[u]] = "used" /\ newname[u] # thrname
       /\ \A x \in Targets : name[x] # newname[u]
       /\ \A v \in Users : newname[v] = newname[u] => v = u
  /\ \A u \in Users : N!At(u, "set_free") => newname[u] = name[ntarget[u]]
  /\ \A u \in Users : N!At(u, "get_copy") => s[u] = name[ntarget[u]]
  /\ \A u \in Users : oldname[u] # Null =>
       /\ heap[oldname[u]] = "used" /\ oldname[u] # thrname
       /\ \A x \in Targets : name[x] # oldname[u]
       /\ \A v \in Users : newname[v] # oldname[u]
       /\ \A v \in Users : oldname[v] = oldname[u] => v = u

NamesInv == NameTypes /\ NamePlaces /\ NameOwners

\* Null is no thread and no buffer.
NamesAssumption == Null \notin Users /\ Null \notin Targets /\ Null \notin Buffers

\* A name of a thread is owned once and freed once, and none is read after that,
\* however many threads rename it and read its name at the same time.
THEOREM NamesSafety ==
  ASSUME NamesAssumption
  PROVE  N!Spec => []NamesOwned
<1> USE DEF NamesAssumption, NamesInv, NameTypes, NamePlaces, NameOwners, Renaming, Locking,
            N!At, N!Goto, N!call
<1>1. ASSUME N!Init PROVE NamesInv
  BY <1>1, SMTT(60) DEF N!Init
<1>2. ASSUME NamesInv, [N!Next]_N!vars PROVE NamesInv'
  <2>1. ASSUME NEW u \in Users, NEW n \in Buffers, N!AttrSetname(u, n)
         PROVE  NamesInv'
    BY <1>2, <2>1 DEF N!AttrSetname, N!Free, N!Unused
  <2>2. ASSUME NEW u \in Users, NEW n \in Buffers, NEW x \in Targets, N!Create(u, x, n)
         PROVE  NamesInv'
    BY <1>2, <2>2 DEF N!Create, N!Unused
  <2>3. ASSUME NEW u \in Users, NEW n \in Buffers, NEW x \in Targets, N!SetnameCopy(u, x, n)
         PROVE  NamesInv'
    BY <1>2, <2>3 DEF N!SetnameCopy, N!Unused
  <2>4. ASSUME NEW u \in Users, NEW x \in Targets, N!Join(u, x)
         PROVE  NamesInv'
    BY <1>2, <2>4 DEF N!Join
  <2>5. ASSUME NEW u \in Users, NEW x \in Targets, N!GetnameCall(u, x)
         PROVE  NamesInv'
    BY <1>2, <2>5 DEF N!GetnameCall
  <2>6. ASSUME NEW u \in Users, N!SetnameSwap(u)
         PROVE  NamesInv'
    BY <1>2, <2>6 DEF N!SetnameSwap
  <2>7. ASSUME NEW u \in Users, N!SetnameFree(u)
         PROVE  NamesInv'
    BY <1>2, <2>7 DEF N!SetnameFree, N!Free, N!Return
  <2>8. ASSUME NEW u \in Users, N!GetnameLock(u)
         PROVE  NamesInv'
    BY <1>2, <2>8 DEF N!GetnameLock
  <2>9. ASSUME NEW u \in Users, N!GetnameCopy(u)
         PROVE  NamesInv'
    BY <1>2, <2>9 DEF N!GetnameCopy
  <2>10. ASSUME NEW u \in Users, N!GetnameReturn(u)
         PROVE  NamesInv'
    BY <1>2, <2>10 DEF N!GetnameReturn, N!Return
  <2>11. CASE UNCHANGED N!vars
    BY <1>2, <2>11 DEF N!vars
  <2> QED
    BY <1>2, <2>1, <2>2, <2>3, <2>4, <2>5, <2>6, <2>7, <2>8, <2>9, <2>10, <2>11 DEF N!Next
<1>3. NamesInv => NamesOwned
  BY DEF NamesOwned, N!NameOwnedOnce, N!ReadsLiveName, N!Owned
<1> QED
  BY <1>1, <1>2, <1>3, PTL DEF N!Spec
-----------------------------------------------------------------------------
(* Scheduling. *)

SchedulingTypes ==
  /\ status \in [Threads -> {"none", "win32", "posix"}]
  /\ process \in SUBSET CPUs
  /\ mask \in [Threads -> SUBSET process]
  /\ priority \in [Threads -> Int] /\ sched_priority \in [Threads -> Int]
  /\ cpuset \in [Threads -> SUBSET CPUs]
  /\ schedLock \in [Threads -> Threads \union {Null}]
  /\ reuseLock \in Threads \union {Null}
  /\ self = [t \in Threads |-> IF S!Posix(t) THEN t ELSE Null]
  /\ spc \in [Threads -> {"idle", "record", "self", "set", "get"}]
  /\ starget \in [Threads -> Threads]
  /\ inForce \in [Threads -> SUBSET CPUs]
  /\ DOMAIN saved = Threads /\ DOMAIN raced = Threads /\ DOMAIN known = Threads

\* A priority that is in force and not recorded yet is what its setter will
\* record; a thread the library does not know has the normal one.
PrioritiesInv ==
  /\ \A t \in Threads : spc[t] = "record" =>
       /\ schedLock[starget[t]] = t /\ S!Posix(starget[t])
       /\ \E p \in Int : saved[t] = {p} /\ priority[starget[t]] = S!Adjusted(p)
  /\ \A t \in Threads : schedLock[t] # Null =>
       spc[schedLock[t]] = "record" /\ starget[schedLock[t]] = t
  /\ \A t \in Threads : ~S!Posix(t) => priority[t] = Normal /\ sched_priority[t] = Normal

\* What the calls that are about an affinity rely on.
AffinitiesInv ==
  /\ \A t \in Threads : spc[t] \in {"set", "get"} =>
       reuseLock = t /\ S!Posix(starget[t])
  /\ \A t \in Threads : spc[t] = "self" =>
       starget[t] = t /\ status[t] = "win32" /\ saved[t] \subseteq process
  /\ \A t \in Threads : spc[t] \in {"set", "get", "self"} => saved[t] \subseteq CPUs
  /\ \A t \in Threads :
       LET u == starget[t]
       IN  ~raced[u] =>
             /\ spc[t] = "set" => mask[u] = inForce[u] /\ (known[u] => cpuset[u] = mask[u])
             /\ spc[t] \in {"get", "self"} => saved[t] = inForce[u] /\ saved[t] \subseteq process
             /\ spc[t] = "get" => mask[u] = cpuset[u]

\* What is recorded of a thread with a handle; only such a thread has a structure
\* under its key.
PosixPriorities ==
  \A t \in Threads : S!Posix(t) /\ schedLock[t] = Null =>
    priority[t] = S!Adjusted(sched_priority[t])

PosixAffinities ==
  \A t \in Threads : S!Posix(t) /\ ~S!Busy(t) /\ ~raced[t] /\ known[t] => cpuset[t] = mask[t]

Recorded == PosixPriorities /\ PosixAffinities /\ S!AffinityKept

SchedulingInv == SchedulingTypes /\ PrioritiesInv /\ AffinitiesInv /\ Recorded

\* The priorities are integers in the order of Windows, and Null is no thread.
SchedulingAssumption ==
  /\ Null \notin Threads
  /\ Idle \in Int /\ Lowest \in Int /\ Normal \in Int /\ Highest \in Int
  /\ TimeCritical \in Int
  /\ Idle <= Lowest /\ Lowest <= Normal /\ Normal <= Highest /\ Highest <= TimeCritical
  /\ Priorities \subseteq Int

\* As long as pthread_self does not fail, no structure is under two keys.
LEMMA OnesOwn ==
  ASSUME SchedulingAssumption, NEW u \in Threads, ~S!Posix(u), NEW named, S!New(u, named),
         self = [t \in Threads |-> IF S!Posix(t) THEN t ELSE Null]
  PROVE  self' = [self EXCEPT ![u] = named]
<1>1. {v \in Threads : status[v] = "win32" /\ self[v] = v} = {}
  BY DEF SchedulingAssumption, S!Posix
<1>2. self' = [w \in Threads |-> IF w = u THEN named ELSE IF self[w] = u THEN u ELSE self[w]]
  BY <1>1 DEF S!New
<1>3. \A w \in Threads : self[w] # u
  BY DEF SchedulingAssumption
<1> QED
  BY <1>2, <1>3

\* The priority and the affinity that are recorded are those in force, whoever
\* sets and reads them at the same time, if pthread_self can have the affinity of
\* a thread.
THEOREM SchedulingSafety ==
  ASSUME SchedulingAssumption, ~AffinityFails
  PROVE  S!Spec => []SchedulingKept
<1> USE DEF SchedulingAssumption, SchedulingInv, SchedulingTypes, PrioritiesInv, AffinitiesInv,
            Recorded, PosixPriorities, PosixAffinities, S!AffinityKept,
            S!Posix, S!Idling, S!Busy, S!Step, S!Done,
            S!os, S!fields, S!locks, S!frames, S!ghosts
<1>0. S!Adjusted(Normal) = Normal /\ \A p \in Int : S!Adjusted(p) \in Int
  BY DEF S!Adjusted
<1>1. ASSUME S!Init PROVE SchedulingInv
  BY <1>0, <1>1 DEF S!Init
<1>2. ASSUME SchedulingInv, [S!Next]_S!vars PROVE SchedulingInv'
  <2>1. ASSUME NEW t \in Threads, NEW u \in Threads, NEW p \in Priorities, S!SetPriority(t, u, p)
         PROVE  SchedulingInv'
    <3>1. SchedulingTypes'
      BY <1>0, <1>2, <2>1 DEF S!SetPriority
    <3>2. PrioritiesInv'
      BY <1>0, <1>2, <2>1, SMTT(60) DEF S!SetPriority
    <3>3. AffinitiesInv' /\ Recorded'
      BY <1>0, <1>2, <2>1 DEF S!SetPriority
    <3> QED
      BY <3>1, <3>2, <3>3
  <2>2. ASSUME NEW t \in Threads, NEW u \in Threads, NEW m \in S!Masks, S!SetAffinity(t, u, m)
         PROVE  SchedulingInv'
    <3>1. SchedulingTypes' /\ PrioritiesInv'
      BY <1>0, <1>2, <2>2 DEF S!SetAffinity, S!Masks
    <3>2. AffinitiesInv'
      BY <1>0, <1>2, <2>2 DEF S!SetAffinity, S!Masks
    <3>3. Recorded'
      BY <1>0, <1>2, <2>2 DEF S!SetAffinity, S!Masks
    <3> QED
      BY <3>1, <3>2, <3>3
  <2>3. ASSUME NEW t \in Threads, NEW u \in Threads, S!GetAffinity(t, u)
         PROVE  SchedulingInv'
    <3>1. SchedulingTypes'
      BY <1>2, <2>3 DEF S!GetAffinity
    <3>2. PrioritiesInv'
      BY <1>2, <2>3 DEF S!GetAffinity
    <3>3. AffinitiesInv'
      BY <1>2, <2>3 DEF S!GetAffinity
    <3>4. Recorded'
      BY <1>2, <2>3 DEF S!GetAffinity
    <3> QED
      BY <3>1, <3>2, <3>3, <3>4
  <2>4. ASSUME NEW t \in Threads, NEW u \in Threads, NEW fromAttr \in BOOLEAN, NEW inherit \in BOOLEAN,
                NEW p \in Priorities, NEW m \in S!Masks \union {{}},
                S!Create(t, u, fromAttr, inherit, p, m)
         PROVE  SchedulingInv'
    <3>0. self' = [self EXCEPT ![u] = u] /\ self[t] = t
      BY <1>2, <2>4, OnesOwn DEF S!Create
    <3>1. SchedulingTypes' /\ PrioritiesInv' /\ AffinitiesInv'
      <4>1. SchedulingTypes'
        BY <1>0, <1>2, <2>4, <3>0 DEF S!Create, S!Masks
      <4>2. PrioritiesInv'
        BY <1>0, <1>2, <2>4 DEF S!Create
      <4>3. AffinitiesInv'
        BY <1>0, <1>2, <2>4 DEF S!Create, S!Masks
      <4> QED
        BY <4>1, <4>2, <4>3
    <3>2. PosixPriorities' /\ S!AffinityKept'
      BY <1>0, <1>2, <2>4 DEF S!Create
    <3>3. known'[u] => cpuset'[u] = mask'[u]
      BY <1>2, <2>4, ZenonT(60) DEF S!Create
    <3>4. \A v \in Threads \ {u} :
            known'[v] = known[v] /\ cpuset'[v] = cpuset[v] /\ mask'[v] = mask[v]
      BY <1>2, <2>4 DEF S!Create
    <3>5. PosixAffinities'
      BY <1>2, <2>4, <3>3, <3>4 DEF S!Create
    <3> QED
      BY <3>1, <3>2, <3>5
  <2>5. ASSUME NEW t \in Threads, S!RecordPriority(t)
         PROVE  SchedulingInv'
    <3>1. PICK p \in Int :
            (CHOOSE q \in saved[t] : TRUE) = p /\ priority[starget[t]] = S!Adjusted(p)
      BY <1>2, <2>5 DEF S!RecordPriority
    <3>2. sched_priority' = [sched_priority EXCEPT ![starget[t]] = p]
      BY <2>5, <3>1 DEF S!RecordPriority
    <3>3. SchedulingTypes'
      <4>1. sched_priority' \in [Threads -> Int]
        BY <1>2, <3>1, <3>2
      <4> QED
        BY <1>2, <2>5, <4>1 DEF S!RecordPriority
    <3>4. PrioritiesInv' /\ AffinitiesInv'
      BY <1>2, <2>5 DEF S!RecordPriority
    <3>5. PosixPriorities'
      <4>1. UNCHANGED <<status, priority>> /\ schedLock' = [schedLock EXCEPT ![starget[t]] = Null]
        BY <2>5 DEF S!RecordPriority
      <4> QED
        BY <1>2, <3>1, <3>2, <4>1
    <3>6. S!AffinityKept' /\ PosixAffinities'
      BY <1>2, <2>5 DEF S!RecordPriority
    <3> QED
      BY <3>3, <3>4, <3>5, <3>6
  <2>6. ASSUME NEW t \in Threads, S!SelfWiden(t)
         PROVE  SchedulingInv'
    <3>1. PICK fails \in {FALSE, AffinityFails} :
            IF fails THEN S!New(t, t) /\ S!Done(t) /\ UNCHANGED mask
            ELSE /\ S!New(t, Null)
                 /\ S!Step(t, "self", t, mask[t])
                 /\ mask' = [mask EXCEPT ![t] = process]
      BY <2>6, Zenon DEF S!SelfWiden
    <3>2. ~fails
      BY <3>1, Zenon
    <3>3. /\ S!New(t, Null) /\ S!Step(t, "self", t, mask[t])
          /\ mask' = [mask EXCEPT ![t] = process]
      BY <3>1, <3>2
    <3>4. self' = self
      BY <1>2, <2>6, <3>3, OnesOwn DEF S!SelfWiden
    <3>5. SchedulingTypes' /\ PrioritiesInv'
      BY <1>2, <2>6, <3>3, <3>4 DEF S!SelfWiden
    <3>6. AffinitiesInv' /\ Recorded'
      BY <1>2, <2>6, <3>3 DEF S!SelfWiden
    <3> QED
      BY <3>5, <3>6
  <2>7. ASSUME NEW t \in Threads, S!SelfRestore(t)
         PROVE  SchedulingInv'
    <3>1. SchedulingTypes'
      <4>1. CASE saved[t] \subseteq process
        <5>1. saved[t] \in SUBSET process /\ saved[t] \in SUBSET CPUs
          BY <1>2, <4>1
        <5>2. /\ mask' = [mask EXCEPT ![t] = saved[t]]
              /\ cpuset' = [cpuset EXCEPT ![t] = saved[t]]
              /\ known' = [known EXCEPT ![t] = TRUE]
              /\ status' = [status EXCEPT ![t] = "posix"]
              /\ sched_priority' = [sched_priority EXCEPT ![t] = priority[t]]
              /\ self' = [self EXCEPT ![t] = t]
              /\ spc' = [spc EXCEPT ![t] = "idle"]
              /\ starget' = [starget EXCEPT ![t] = t]
              /\ saved' = [saved EXCEPT ![t] = {}]
              /\ UNCHANGED <<process, priority, schedLock, reuseLock, inForce, raced>>
          BY <2>7, <4>1 DEF S!SelfRestore
        <5>3. self' = [u \in Threads |-> IF S!Posix(u)' THEN u ELSE Null]
          BY <1>2, <5>2
        <5>4. mask' \in [Threads -> SUBSET process'] /\ cpuset' \in [Threads -> SUBSET CPUs]
          BY <1>2, <5>1, <5>2
        <5>5. /\ status' \in [Threads -> {"none", "win32", "posix"}]
              /\ sched_priority' \in [Threads -> Int]
              /\ spc' \in [Threads -> {"idle", "record", "self", "set", "get"}]
              /\ starget' \in [Threads -> Threads]
              /\ DOMAIN saved' = Threads /\ DOMAIN known' = Threads
          BY <1>2, <5>2
        <5> QED
          BY <1>2, <5>2, <5>3, <5>4, <5>5
      <4>2. CASE ~(saved[t] \subseteq process)
        BY <1>2, <2>7, <4>2 DEF S!SelfRestore
      <4> QED
        BY <4>1, <4>2
    <3>2. PrioritiesInv' /\ AffinitiesInv'
      BY <1>0, <1>2, <2>7 DEF S!SelfRestore
    <3>3. PosixPriorities'
      BY <1>0, <1>2, <2>7 DEF S!SelfRestore
    <3>4. S!AffinityKept' /\ PosixAffinities'
      BY <1>2, <2>7 DEF S!SelfRestore
    <3> QED
      BY <3>1, <3>2, <3>3, <3>4
  <2>8. ASSUME NEW t \in Threads, S!ThreadAffinitySet(t)
         PROVE  SchedulingInv'
    <3>1. SchedulingTypes'
      <4>1. CASE saved[t] \subseteq process
        <5>1. saved[t] \in SUBSET process /\ saved[t] \in SUBSET CPUs
          BY <1>2, <4>1
        <5> QED
          BY <1>2, <2>8, <4>1, <5>1 DEF S!ThreadAffinitySet
      <4>2. CASE ~(saved[t] \subseteq process)
        BY <1>2, <2>8, <4>2 DEF S!ThreadAffinitySet
      <4> QED
        BY <4>1, <4>2
    <3>2. PrioritiesInv' /\ AffinitiesInv'
      BY <1>0, <1>2, <2>8 DEF S!ThreadAffinitySet
    <3>3. Recorded'
      BY <1>0, <1>2, <2>8, SMTT(60) DEF S!ThreadAffinitySet
    <3> QED
      BY <3>1, <3>2, <3>3
  <2>9. ASSUME NEW t \in Threads, S!AdoptAffinity(t)
         PROVE  SchedulingInv'
    BY <1>2, <2>9 DEF S!AdoptAffinity
  <2>10. ASSUME NEW t \in Threads, NEW m \in S!Masks, S!Win32Affinity(t, m)
         PROVE  SchedulingInv'
    BY <1>2, <2>10 DEF S!Win32Affinity
  <2>11. ASSUME NEW m \in S!Masks, S!ProcessAffinity(m)
         PROVE  SchedulingInv'
    BY <1>2, <2>11 DEF S!ProcessAffinity, S!Masks
  <2>12. CASE UNCHANGED S!vars
    BY <1>2, <2>12 DEF S!vars
  <2> HIDE DEF SchedulingInv
  <2> QED
    BY <1>2, <2>1, <2>2, <2>3, <2>4, <2>5, <2>6, <2>7, <2>8, <2>9, <2>10, <2>11, <2>12 DEF S!Next
<1>3. SchedulingInv => SchedulingKept
  <2>1. ASSUME SchedulingInv, NEW t \in Threads, self[t] # Null PROVE self[t] = t /\ S!Posix(t)
    BY <2>1
  <2> HIDE DEF S!Posix, S!Busy
  <2> QED
    BY <2>1 DEF SchedulingKept, S!PriorityRecorded, S!AffinityRecorded
<1> QED
  BY <1>1, <1>2, <1>3, PTL DEF S!Spec

-----------------------------------------------------------------------------
(* The process. *)

\* No two threads have the same structure, and the count of QUSEREX.DLL is what
\* its handle says while the process is attached.
ProcessInv ==
  /\ ProcessSound
  /\ twice \in BOOLEAN
  /\ tls \in [Threads -> Structs \union {Null}]
  /\ detachState \in [Structs -> BOOLEAN]
  /\ struct \in [Structs -> {"unused", "used", "pushed", "freed"}]
  /\ reuse \in SUBSET Structs
  /\ \A t, u \in Threads : tls[t] # Null /\ tls[t] = tls[u] => t = u
  /\ loaded \in Nat /\ attached \in Nat
  /\ ptw32_h_quserex => attached > 0 /\ (ptw32_processInitialized => loaded > 0)

\* Main is a thread, and Null no structure and not one of the two functions.
ProcessAssumption ==
  Main \in Threads /\ Null \notin Structs /\ Null \notin {"substitute", "QueueUserAPCEx"}

\* A thread structure is pushed and freed once, and asynchronous cancellation can
\* be delivered by the library that is loaded, however often the process is
\* attached and detached, if pthread_self can have the affinity of a thread.
THEOREM ProcessSafety ==
  ASSUME ProcessAssumption, ~AffinityFails
  PROVE  P!Spec => []ProcessSound
<1> USE DEF ProcessAssumption, ProcessInv, ProcessSound, P!StructsOnce, P!CancellationKnown,
            P!keyVars, P!apcVars, P!poolVars
<1>1. ASSUME P!Init PROVE ProcessInv
  BY <1>1 DEF P!Init
<1>2. ASSUME ProcessInv, [P!Next]_P!vars PROVE ProcessInv'
  <2>1. ASSUME P!ProcessAttach
         PROVE  ProcessInv'
    BY <1>2, <2>1 DEF P!ProcessAttach, P!ProcessInitialize, P!LoadQuserex
  <2>2. ASSUME P!LazyInitialize
         PROVE  ProcessInv'
    BY <1>2, <2>2 DEF P!LazyInitialize, P!ProcessInitialize
  <2>3. ASSUME P!ProcessDetach
         PROVE  ProcessInv'
    <3>1. ~twice' /\ twice' \in BOOLEAN
      BY <1>2, <2>3 DEF P!ProcessDetach, P!ProcessTerminate
    <3> QED
      BY <1>2, <2>3, <3>1 DEF P!ProcessDetach, P!ProcessTerminate
  <2>4. ASSUME NEW t \in Threads, NEW p \in Structs, NEW detached \in BOOLEAN,
                P!Enter(t, p, detached)
         PROVE  ProcessInv'
    BY <1>2, <2>4 DEF P!Enter, P!New
  <2>5. ASSUME NEW t \in Threads, P!ThreadDetach(t)
         PROVE  ProcessInv'
    BY <1>2, <2>5 DEF P!ThreadDetach, P!DestroyDetached
  <2>6. ASSUME NEW t \in Threads, P!Join(t)
         PROVE  ProcessInv'
    BY <1>2, <2>6 DEF P!Join
  <2>7. ASSUME NEW t \in Threads, NEW p \in Structs, P!EnterFails(t, p)
         PROVE  ProcessInv'
    <3>1. tls' = tls
      <4>1. PICK affinity \in {FALSE, AffinityFails} :
              tls' = IF affinity THEN [tls EXCEPT ![t] = p] ELSE tls
        BY <2>7 DEF P!EnterFails
      <4>2. ~affinity
        BY <4>1, Zenon
      <4> QED
        BY <4>1, <4>2, Zenon
    <3> QED
      BY <1>2, <2>7, <3>1 DEF P!EnterFails, P!New
  <2>8. CASE UNCHANGED P!vars
    BY <1>2, <2>8 DEF P!vars
  <2> QED
    BY <1>2, <2>1, <2>2, <2>3, <2>4, <2>5, <2>6, <2>7, <2>8 DEF P!Next
<1> QED
  BY <1>1, <1>2, PTL DEF P!Spec

-----------------------------------------------------------------------------
(* Times. *)

\* The units and the widths of the code; a wait that begins within 68 years after
\* its time was asked for; the bounds are any.
TimesAssumption ==
  /\ NsPerTick = 100 /\ TicksPerMs = 100 * 100 /\ MsPerSec = 1000
  /\ DwordValues = 256 * 256 * 256 * 256 /\ IntValues = 256 * 256 * 256 * 256
  /\ Offset \in Nat /\ Horizon \in Nat /\ MaxSec \in Nat /\ Lag \in Nat
  /\ Lag <= 128 * 256 * 256 * 256 * 1000 * 100 * 100

\* The time that the application has got is the one it asked for, and the wait is
\* computed from it.
TimesInv ==
  /\ asked \in Offset..(Offset + Horizon) /\ ft \in asked..(asked + Lag)
  /\ relative \in T!Intervals
  /\ phase \in {"ask", "wait", "done", "delay"}
  /\ phase \in {"ask", "delay"} => abstime = T!FiletimeToTimespec(asked)
  /\ phase \in {"wait", "done"} => abstime = T!GetAbstime(asked, relative)
  /\ phase \in {"ask", "wait"} => wait = 0
  /\ phase = "ask" => ft = asked
  /\ phase = "done" => wait = T!RelMillisecs(abstime, ft)
  /\ phase = "delay" => wait = T!DelayMillisecs(relative) /\ T!Ns(relative) > 0

\* The units, multiplied.
LEMMA Units ==
  ASSUME TimesAssumption
  PROVE  /\ T!NsPerMs = 100 * 100 * 100
         /\ T!NsPerSec = 1000 * 100 * 100 * 100
         /\ T!TicksPerSec = 1000 * 100 * 100
         /\ T!INFINITE = 256 * 256 * 256 * 256 - 1
  BY DEF TimesAssumption, T!NsPerMs, T!NsPerSec, T!TicksPerSec, T!INFINITE

\* Seconds and ticks of a second of a system time.
LEMMA Timespec ==
  ASSUME TimesAssumption, NEW t \in Nat, t >= Offset
  PROVE  \E q, r \in Nat :
           /\ r < T!TicksPerSec /\ t - Offset = q * T!TicksPerSec + r
           /\ T!FiletimeToTimespec(t) = [tv_sec |-> T!ToInt(q), tv_nsec |-> r * 100]
<1> DEFINE q == (t - Offset) \div T!TicksPerSec
           r == (t - Offset) % T!TicksPerSec
<1>1. q \in Nat /\ r \in Nat /\ r < T!TicksPerSec /\ t - Offset = q * T!TicksPerSec + r
  BY Units DEF TimesAssumption
<1>2. T!FiletimeToTimespec(t) = [tv_sec |-> T!ToInt(q), tv_nsec |-> r * 100]
  BY DEF TimesAssumption, T!FiletimeToTimespec
<1> QED
  BY <1>1, <1>2

\* Numbers of seconds that are not too far apart differ as much when they are cast
\* to int, but for the wrap.
LEMMA Casts ==
  ASSUME TimesAssumption, NEW m \in Nat, NEW n \in Nat, m <= n, n - m < IntValues,
         T!ToInt(n) >= T!ToInt(m)
  PROVE  T!ToInt(n) - T!ToInt(m) = n - m /\ T!ToInt(n) \in Int /\ T!ToInt(m) \in Int
  BY DEF TimesAssumption, T!ToInt

\* A timed wait waits for what is left of its interval to within a millisecond on
\* either side, and not at all, or for ever, only if it should; a delay is not
\* short; and a system time comes back as it was.
THEOREM TimesSafety ==
  ASSUME TimesAssumption
  PROVE  T!Spec => []TimesAccurate
<1>1. ASSUME T!Init PROVE TimesInv
  <2>1. [tv_sec |-> 0, tv_nsec |-> 0] \in T!Intervals
    BY Units DEF TimesAssumption, T!Intervals
  <2> QED
    BY <1>1, <2>1 DEF T!Init, TimesInv, TimesAssumption
<1>2. ASSUME TimesInv, [T!Next]_T!vars PROVE TimesInv'
  <2> USE DEF TimesInv
  <2>1. ASSUME NEW rel \in T!Intervals, T!Ask(rel) PROVE TimesInv'
    BY <1>2, <2>1 DEF T!Ask
  <2>2. ASSUME T!Tick PROVE TimesInv'
    BY <1>2, <2>2, TimesAssumption DEF T!Tick, TimesAssumption
  <2>3. ASSUME T!TimedWait PROVE TimesInv'
    BY <1>2, <2>3 DEF T!TimedWait
  <2>4. ASSUME NEW rel \in T!Intervals, T!Delay(rel) PROVE TimesInv'
    BY <1>2, <2>4 DEF T!Delay
  <2>5. CASE UNCHANGED T!vars
    BY <1>2, <2>5 DEF T!vars
  <2> QED
    BY <1>2, <2>1, <2>2, <2>3, <2>4, <2>5 DEF T!Next
<1>3. TimesInv => TimesAccurate
  <2> SUFFICES ASSUME TimesInv PROVE TimesAccurate
    OBVIOUS
  <2> USE DEF TimesInv, TimesAssumption
  <2>0. /\ ft \in Nat /\ asked \in Nat /\ Offset <= asked /\ asked <= ft
        /\ relative.tv_sec \in Nat /\ relative.tv_nsec \in Nat
        /\ relative.tv_nsec < T!NsPerSec
    BY Units DEF T!Intervals
  <2>1. PICK qa, ra \in Nat :
          /\ ra < T!TicksPerSec /\ asked - Offset = qa * T!TicksPerSec + ra
          /\ T!FiletimeToTimespec(asked) = [tv_sec |-> T!ToInt(qa), tv_nsec |-> ra * 100]
    BY <2>0, Timespec
  <2>2. PICK qf, rf \in Nat :
          /\ rf < T!TicksPerSec /\ ft - Offset = qf * T!TicksPerSec + rf
          /\ T!FiletimeToTimespec(ft) = [tv_sec |-> T!ToInt(qf), tv_nsec |-> rf * 100]
    BY <2>0, Timespec
  <2>3. qa <= qf /\ qf - qa < IntValues
    BY <2>0, <2>1, <2>2, Units
  <2>4. \A q \in Nat : T!ToInt(q) \in Int
    BY DEF T!ToInt
  <2>5. /\ T!GetAbstime(asked, relative).tv_nsec \in Nat
        /\ T!GetAbstime(asked, relative).tv_nsec < T!NsPerSec
        /\ T!GetAbstime(asked, relative).tv_sec \in Int
        /\ T!Ns(T!GetAbstime(asked, relative))
             = T!Ns(T!FiletimeToTimespec(asked)) + T!Ns(relative)
    BY <2>0, <2>1, <2>4, Units DEF T!GetAbstime, T!Ns
  <2>6. T!TypeOK
    <3>1. ft \in Offset..(Offset + Horizon + Lag) /\ relative \in T!Intervals
      BY <2>0
    <3>2. abstime.tv_nsec \in 0..(T!NsPerSec - 1)
      BY <2>1, <2>5, Units
    <3>3. wait \in 0..(T!INFINITE - 1) \union {T!EINVAL}
      <4>1. CASE phase \in {"ask", "wait"}
        BY <4>1, Units
      <4>2. CASE phase = "done"
        <5>1. T!Ns(abstime) - T!Ns(T!FiletimeToTimespec(ft)) \in Int
          BY <2>0, <2>1, <2>2, <2>4, <2>5, <4>2, Units DEF T!Ns
        <5> QED
          BY <4>2, <5>1, Units DEF T!RelMillisecs
      <4>3. CASE phase = "delay"
        BY <2>0, <4>3, Units DEF T!DelayMillisecs, T!Dword
      <4> QED
        BY <4>1, <4>2, <4>3
    <3> QED
      BY <3>1, <3>2, <3>3 DEF T!TypeOK
  <2>7. T!WaitAccurate
    <3> SUFFICES ASSUME phase = "done", ~T!Wraps PROVE T!WaitAccurate!2
      BY DEF T!WaitAccurate
    <3>1. T!ToInt(qf) - T!ToInt(qa) = qf - qa
      BY <2>1, <2>2, <2>3, <2>4, Casts DEF T!Wraps
    <3>2. T!Ns(abstime) - T!Ns(T!FiletimeToTimespec(ft)) = T!Left
      BY <2>0, <2>1, <2>2, <2>4, <2>5, <3>1, Units DEF T!Ns, T!Left
    <3>3. T!Left \in Int
      BY <2>0, Units DEF T!Left, T!Ns
    <3> QED
      BY <3>2, <3>3, Units DEF T!RelMillisecs
  <2>8. T!DelayAccurate
    <3> SUFFICES ASSUME phase = "delay", T!Ns(relative) <= T!INFINITE * T!NsPerMs
                 PROVE  T!DelayAccurate!2
      BY DEF T!DelayAccurate
    <3> DEFINE up == (relative.tv_nsec + T!NsPerMs - 1) \div T!NsPerMs
    <3>1. /\ up \in Nat
          /\ up * T!NsPerMs >= relative.tv_nsec
          /\ up * T!NsPerMs - relative.tv_nsec < T!NsPerMs
      BY <2>0, Units
    <3>2. T!Dword(relative.tv_sec * MsPerSec) = relative.tv_sec * MsPerSec
      BY <2>0, Units DEF T!Dword, T!Ns
    <3>3. wait = LET ms == T!Dword(relative.tv_sec * MsPerSec + up)
                 IN  IF ms >= DwordValues \div 2 THEN T!EINVAL ELSE ms
      BY <3>2 DEF T!DelayMillisecs
    <3> HIDE DEF up
    <3>4. T!Ns(relative) = (relative.tv_sec * MsPerSec) * T!NsPerMs + relative.tv_nsec
      BY <2>0, Units DEF T!Ns
    <3>5. relative.tv_sec * MsPerSec + up \in Nat /\ relative.tv_sec * MsPerSec + up < DwordValues
      BY <2>0, <3>1, <3>4, Units
    <3>6. T!Dword(relative.tv_sec * MsPerSec + up) = relative.tv_sec * MsPerSec + up
      BY <3>5 DEF T!Dword
    <3> QED
      BY <2>0, <3>1, <3>3, <3>4, <3>5, <3>6, Units DEF T!EINVAL
  <2>9. T!RoundTrip
    BY <2>0, <2>2, Units DEF T!RoundTrip, T!TimespecToFiletime, T!ToInt
  <2> QED
    BY <2>6, <2>7, <2>8, <2>9 DEF TimesAccurate
<1> QED
  BY <1>1, <1>2, <1>3, PTL DEF T!Spec

-----------------------------------------------------------------------------
(* Attribute objects. *)

\* What a setter has stored in the attributes of a mutex is legal, and nothing that
\* was made is shared.
AttributesInv ==
  /\ family = "mutex" /\ A!IsAttr =>
       attr \in [kind : 0..2, robustness : {0, 1}, pshared : {0, 1}]
  /\ A!NothingShared

\* What a call promises.
Tells == A!FailureChangesNothing /\ A!KindTells

\* Each call keeps the former and does the latter: those that create and destroy
\* an object, set and read a field or fail, in general, ...
LEMMA NewTells ==
  ASSUME AttributesInv, NEW f \in A!Families, A!New(f)
  PROVE  AttributesInv' /\ Tells
<1> USE DEF AttributesInv, Tells, A!New, A!Fails, A!IsAttr, A!NothingShared,
            A!FailureChangesNothing, A!KindTells
<1>1. A!Default["mutex"] \in [kind : 0..2, robustness : {0, 1}, pshared : {0, 1}]
  BY DEF A!Default, A!Families, A!FAST, A!STALLED, A!PRIVATE
<1> QED
  BY <1>1

LEMMA FreeTells ==
  ASSUME AttributesInv, NEW f \in A!Families, A!Free(f)
  PROVE  AttributesInv' /\ Tells
  BY DEF AttributesInv, Tells, A!Free, A!Fails, A!IsAttr, A!NothingShared,
         A!FailureChangesNothing, A!KindTells

LEMMA GetTells ==
  ASSUME AttributesInv, NEW f, NEW field, A!Get(f, field)
  PROVE  AttributesInv' /\ Tells
  BY DEF AttributesInv, Tells, A!Get, A!Fails, A!IsAttr, A!NothingShared,
         A!FailureChangesNothing, A!KindTells

LEMMA FailTells ==
  ASSUME AttributesInv, NEW f, NEW code, A!Fails(f, code)
  PROVE  AttributesInv' /\ Tells
  BY DEF AttributesInv, Tells, A!Fails, A!IsAttr, A!NothingShared,
         A!FailureChangesNothing, A!KindTells

\* a setter of a mutex attribute if what it takes for legal is,
LEMMA SetTells ==
  ASSUME AttributesInv, NEW f, NEW field, NEW v, NEW legal, A!Set(f, field, v, legal),
         f = "mutex" =>
           \/ field = "kind" /\ legal \subseteq 0..2
           \/ field \in {"robustness", "pshared"} /\ legal \subseteq {0, 1}
  PROVE  AttributesInv' /\ Tells
<1> USE DEF AttributesInv, Tells, A!Set, A!Fails, A!IsAttr, A!NothingShared,
            A!FailureChangesNothing, A!KindTells
<1>1. CASE family # "mutex"
  BY <1>1
<1>2. CASE family = "mutex" /\ field = "kind"
  BY <1>2
<1>3. CASE family = "mutex" /\ field = "robustness"
  BY <1>3
<1>4. CASE family = "mutex" /\ field = "pshared"
  BY <1>4
<1>5. CASE ~(A!IsAttr /\ v \in legal) /\ A!Fails(f, "EINVAL")
  BY <1>5
<1> QED
  BY <1>1, <1>2, <1>3, <1>4, <1>5

\* and those that make something: it is shared when the attributes say so,
LEMMA MakeMakes ==
  ASSUME NEW k, A!Make(k), ~(A!IsAttr /\ attr.pshared = A!SHARED)
  PROVE  /\ made'.kind = k /\ ~made'.shared
         /\ family' = family /\ attr' = attr /\ result' = "0"
<1>1. made' = [kind |-> k, shared |-> FALSE]
  BY DEF A!Make
<1> QED
  BY <1>1 DEF A!Make

\* which all of them refuse.
LEMMA MakeTells ==
  ASSUME AttributesInv,
         A!MutexInit \/ A!CondInit \/ A!RwlockInit \/ A!BarrierInit
  PROVE  AttributesInv' /\ Tells
<1> DEFINE Makes(k) ==
      /\ A!Make(k) /\ ~(A!IsAttr /\ attr.pshared = A!SHARED)
      /\ family = "mutex" =>
           k = IF ~A!IsAttr THEN 0 ELSE IF attr.robustness = 1 THEN -attr.kind - 1 ELSE attr.kind
<1>1. (\E k : Makes(k)) \/ (\E f, code : A!Fails(f, code))
  <2>1. CASE A!MutexInit
    BY <2>1 DEF A!MutexInit, A!FAST, A!ROBUST
  <2>2. CASE A!CondInit
    BY <2>2 DEF A!CondInit
  <2>3. CASE A!RwlockInit
    BY <2>3 DEF A!RwlockInit
  <2>4. CASE A!BarrierInit
    BY <2>4 DEF A!BarrierInit
  <2> QED
    BY <2>1, <2>2, <2>3, <2>4
<1>2. ASSUME NEW f, NEW code, A!Fails(f, code) PROVE AttributesInv' /\ Tells
  BY <1>2, FailTells
<1>3. ASSUME NEW k, Makes(k) PROVE AttributesInv' /\ Tells
  <2>1. /\ made'.kind = k /\ ~made'.shared
        /\ family' = family /\ attr' = attr /\ result' = "0"
    BY <1>3, MakeMakes
  <2>2. AttributesInv'
    BY <2>1 DEF AttributesInv, A!IsAttr, A!NothingShared
  <2>3. A!FailureChangesNothing
    BY <2>1 DEF A!FailureChangesNothing
  <2>4. A!KindTells
    BY <1>3, <2>1 DEF AttributesInv, A!KindTells, A!IsAttr, A!FAST, A!ROBUST
  <2> QED
    BY <2>2, <2>3, <2>4 DEF Tells
<1> QED
  BY <1>1, <1>2, <1>3

\* A call on an attribute object that fails leaves it as it was; mutexes have the
\* type and the robustness that their attributes told, in one number; and nothing
\* is shared between processes, whatever the attributes say.
THEOREM AttributesSafety == A!Spec => AttributesTell
<1>1. A!Init => AttributesInv
  BY DEF A!Init, AttributesInv, A!IsAttr, A!NothingShared
<1>2. ASSUME AttributesInv, A!Next PROVE AttributesInv' /\ Tells
  <2> USE DEF A!Values, A!Families, A!FAST, A!RECURSIVE_NP, A!ERRORCHECK, A!STALLED, A!ROBUST,
              A!PRIVATE, A!SHARED
  <2>1. CASE A!MutexattrInit \/ A!CondattrInit \/ A!RwlockattrInit \/ A!BarrierattrInit
               \/ A!AttrInit
    BY <1>2, <2>1, NewTells DEF A!MutexattrInit, A!CondattrInit, A!RwlockattrInit,
         A!BarrierattrInit, A!AttrInit
  <2>2. CASE A!MutexattrDestroy \/ A!CondattrDestroy \/ A!RwlockattrDestroy
               \/ A!BarrierattrDestroy \/ A!AttrDestroy
    BY <1>2, <2>2, FreeTells DEF A!MutexattrDestroy, A!CondattrDestroy, A!RwlockattrDestroy,
         A!BarrierattrDestroy, A!AttrDestroy
  <2>3. CASE A!MutexattrGettype \/ A!MutexattrGetrobust \/ A!MutexattrGetpshared
               \/ A!CondattrGetpshared \/ A!RwlockattrGetpshared \/ A!BarrierattrGetpshared
    BY <1>2, <2>3, GetTells DEF A!MutexattrGettype, A!MutexattrGetrobust,
         A!MutexattrGetpshared, A!CondattrGetpshared, A!RwlockattrGetpshared,
         A!BarrierattrGetpshared
  <2>4. CASE A!AttrGetdetachstate \/ A!AttrGetstacksize \/ A!AttrGetinheritsched
               \/ A!AttrGetaffinity \/ A!AttrGetschedparam \/ A!AttrGetscope
    BY <1>2, <2>4, GetTells DEF A!AttrGetdetachstate, A!AttrGetstacksize,
         A!AttrGetinheritsched, A!AttrGetaffinity, A!AttrGetschedparam, A!AttrGetscope
  <2>5. CASE A!AttrGetschedpolicy
    <3>1. CASE A!Fails("thread", "EINVAL")
      BY <1>2, <3>1, FailTells
    <3>2. CASE result' = "0" /\ UNCHANGED <<family, attr, made>>
      BY <1>2, <3>2 DEF AttributesInv, Tells, A!IsAttr, A!NothingShared,
           A!FailureChangesNothing, A!KindTells
    <3> QED
      BY <2>5, <3>1, <3>2 DEF A!AttrGetschedpolicy
  <2>6. CASE A!AttrSetstackaddr \/ A!AttrGetstackaddr
    BY <1>2, <2>6, FailTells DEF A!AttrSetstackaddr, A!AttrGetstackaddr
  <2>7. ASSUME NEW v \in A!Values,
               A!MutexattrSettype(v) \/ A!MutexattrSetrobust(v) \/ A!MutexattrSetpshared(v)
        PROVE  AttributesInv' /\ Tells
    <3>1. CASE A!MutexattrSettype(v)
      BY <1>2, <3>1, SetTells DEF A!MutexattrSettype
    <3>2. CASE A!MutexattrSetrobust(v)
      BY <1>2, <3>2, SetTells DEF A!MutexattrSetrobust
    <3>3. CASE A!MutexattrSetpshared(v)
      BY <1>2, <3>3, SetTells DEF A!MutexattrSetpshared, A!SetPshared
    <3> QED
      BY <2>7, <3>1, <3>2, <3>3
  <2>8. ASSUME NEW v \in A!Values,
               A!CondattrSetpshared(v) \/ A!RwlockattrSetpshared(v)
                 \/ A!BarrierattrSetpshared(v)
        PROVE  AttributesInv' /\ Tells
    BY <1>2, <2>8, SetTells DEF A!CondattrSetpshared, A!RwlockattrSetpshared,
         A!BarrierattrSetpshared, A!SetPshared
  <2>9. ASSUME NEW v \in A!Values,
               A!AttrSetdetachstate(v) \/ A!AttrSetinheritsched(v) \/ A!AttrSetstacksize(v)
        PROVE  AttributesInv' /\ Tells
    BY <1>2, <2>9, SetTells DEF A!AttrSetdetachstate, A!AttrSetinheritsched, A!AttrSetstacksize
  <2>10. ASSUME NEW v \in A!Values, A!AttrSetschedpolicy(v) \/ A!AttrSetscope(v)
         PROVE  AttributesInv' /\ Tells
    BY <1>2, <2>10, SetTells, FailTells DEF A!AttrSetschedpolicy, A!AttrSetscope
  <2>11. ASSUME NEW p \in -2..2, A!AttrSetschedparam(p) PROVE AttributesInv' /\ Tells
    BY <1>2, <2>11, SetTells DEF A!AttrSetschedparam
  <2>12. ASSUME NEW m \in {{}, {1}}, A!AttrSetaffinity(m) PROVE AttributesInv' /\ Tells
    BY <1>2, <2>12, SetTells DEF A!AttrSetaffinity
  <2>13. CASE A!MutexInit \/ A!CondInit \/ A!RwlockInit \/ A!BarrierInit
    BY <1>2, <2>13, MakeTells
  <2> QED
    BY <1>2, <2>1, <2>2, <2>3, <2>4, <2>5, <2>6, <2>7, <2>8, <2>9, <2>10, <2>11, <2>12, <2>13
    DEF A!Next
<1>3. AttributesInv /\ [A!Next]_A!vars
        => AttributesInv' /\ [Tells /\ (A!NothingShared)']_attrVars
  <2>1. UNCHANGED A!vars <=> UNCHANGED attrVars
    BY DEF A!vars, attrVars
  <2>2. AttributesInv /\ UNCHANGED A!vars => AttributesInv'
    BY DEF AttributesInv, A!IsAttr, A!NothingShared, A!vars
  <2>3. AttributesInv' => (A!NothingShared)'
    BY DEF AttributesInv
  <2> QED
    BY <1>2, <2>1, <2>2, <2>3
<1> QED
  BY <1>1, <1>3, PTL DEF A!Spec, AttributesTell, Tells

-----------------------------------------------------------------------------
(* Thread-specific data. *)

\* Where a thread sets a key, deletes one, and has the lock of one.
Setting  == {"set_lock", "set_assoc", "set_value"}
Deleting == {"del_lock", "del_next", "del_assoc", "del_tls", "del_drain"}
KeyHeld  == {"set_assoc", "del_assoc", "unlock"}

DataTypes ==
  /\ key \in [Keys -> {"none", "live", "deleting", "freed"}]
  /\ value \in [Threads -> [Keys -> BOOLEAN]]
  /\ keys \in [Threads -> Seq(Keys \ Plain)]
  /\ threads \in [Keys -> Seq(Threads)]
  /\ nextAssoc \in [Threads -> Keys \union {Null}]
  /\ keyLock \in [Keys -> Threads \union {Null}]
  /\ threadLock \in [Threads -> Threads \union {Null}]
  /\ dpc \in [Threads -> D!Places]
  /\ cur \in [Threads -> Keys \union {Null}]
  /\ iterations \in [Threads -> 0..(Iterations + 1)]
  /\ remaining \in [Threads -> BOOLEAN]
  /\ given \in [Threads -> SUBSET Keys]

\* Who sets a key has not to reckon with its deletion, and has the association
\* before the value; one thread at most deletes a key; and who is where has the
\* locks it needs.
DataPlace(t) ==
  /\ dpc[t] \in Setting => cur[t] \in Keys \ Plain /\ key[cur[t]] = "live"
  /\ dpc[t] = "set_value" => D!Contains(keys[t], cur[t])
  /\ dpc[t] \in Deleting =>
       /\ cur[t] \in Keys /\ key[cur[t]] = "deleting"
       /\ \A u \in Threads : dpc[u] \in Deleting /\ cur[u] = cur[t] => u = t
  /\ dpc[t] \in {"del_tls", "del_drain"} => threads[cur[t]] = <<>>
  /\ dpc[t] \in {"try", "unlock"} => cur[t] \in Keys
  /\ dpc[t] \in KeyHeld => keyLock[cur[t]] = t
  /\ dpc[t] = "try" => threadLock[t] = t

DataPlaces == \A t \in Threads : DataPlace(t)

\* A thread in a round that has given nothing yet has the head of its chain
\* before it: that is why nothing is left when it ends.
DataRound(t) ==
  /\ remaining[t] /\ dpc[t] # "round" => iterations[t] <= Iterations
  /\ D!Exiting(t) => remaining[t] \/ dpc[t] \in {"round", "next", "try", "unlock", "done"}
  /\ dpc[t] \in {"next", "try", "unlock"} =>
       D!Exiting(t) /\ (remaining[t] \/ nextAssoc[t] = D!Head1(keys[t]))
  /\ dpc[t] \in {"round", "destructor", "return"} => D!Exiting(t)
  /\ dpc[t] = "unlock" /\ D!Contains(keys[t], cur[t]) => remaining[t]
  /\ dpc[t] = "done" => keys[t] = <<>>

DataRounds == \A t \in Threads : DataRound(t)

\* What is to be shown of the chains; and a key not created yet has no value.
DataChains ==
  /\ D!ChainsAgree /\ D!NextIsThere /\ D!FreedUnlocked /\ D!ValuesAssociated
  /\ \A t \in Threads, k \in Keys : key[k] = "none" => ~value[t][k]

DataInv == DataTypes /\ DataPlaces /\ DataRounds /\ DataChains

\* Null is no thread and no key.
DataAssumption ==
  /\ Null \notin Threads /\ Null \notin Keys
  /\ Plain \subseteq Keys /\ Iterations \in Nat

\* What becomes of the chains when the association of t and k is taken out of
\* both, and when it is put into both.
TakenOut(t, k) ==
  /\ keys' \in [Threads -> Seq(Keys \ Plain)] /\ threads' \in [Keys -> Seq(Threads)]
  /\ \A u \in Threads : D!IsInjective(keys'[u])
  /\ \A l \in Keys : D!IsInjective(threads'[l])
  /\ \A u \in Threads, l \in Keys :
       /\ D!Contains(keys'[u], l) <=> D!Contains(keys[u], l) /\ ~(u = t /\ l = k)
       /\ D!Contains(threads'[l], u) <=> D!Contains(threads[l], u) /\ ~(u = t /\ l = k)
  /\ \A u \in Threads : u # t => keys'[u] = keys[u]
  /\ \A l \in Keys : l # k => threads'[l] = threads[l]
  /\ D!After(keys[t], k) \in Keys \union {Null}
  /\ D!After(keys[t], k) # Null => D!Contains(keys'[t], D!After(keys[t], k))
  /\ D!Head1(keys'[t])
       = IF D!Head1(keys[t]) = k THEN D!After(keys[t], k) ELSE D!Head1(keys[t])

PutIn(t, k) ==
  /\ keys' \in [Threads -> Seq(Keys \ Plain)] /\ threads' \in [Keys -> Seq(Threads)]
  /\ \A u \in Threads : D!IsInjective(keys'[u])
  /\ \A l \in Keys : D!IsInjective(threads'[l])
  /\ \A u \in Threads, l \in Keys :
       /\ D!Contains(keys'[u], l) <=> D!Contains(keys[u], l) \/ (u = t /\ l = k)
       /\ D!Contains(threads'[l], u) <=> D!Contains(threads[l], u) \/ (u = t /\ l = k)
  /\ \A u \in Threads : u # t => keys'[u] = keys[u]
  /\ \A l \in Keys : l # k => threads'[l] = threads[l]

(* Chains as sequences: an element is put in front, or taken out. *)

LEMMA Created ==
  ASSUME NEW El, NEW q \in Seq(El), NEW e \in El, ~D!Contains(q, e), D!IsInjective(q)
  PROVE  /\ <<e>> \o q \in Seq(El) /\ D!IsInjective(<<e>> \o q)
         /\ \A x : D!Contains(<<e>> \o q, x) <=> x = e \/ D!Contains(q, x)
<1> DEFINE r == <<e>> \o q
<1>1. /\ r \in Seq(El) /\ Len(r) = Len(q) + 1
      /\ \A i \in 1..Len(r) : r[i] = IF i = 1 THEN e ELSE q[i - 1]
  OBVIOUS
<1> SUFFICES /\ r \in Seq(El) /\ D!IsInjective(r)
             /\ \A x : D!Contains(r, x) <=> x = e \/ D!Contains(q, x)
  OBVIOUS
<1> HIDE DEF r
<1>2. ASSUME NEW x PROVE D!Contains(r, x) <=> x = e \/ D!Contains(q, x)
  <2>1. D!Contains(r, x) => x = e \/ D!Contains(q, x)
    BY <1>1 DEF D!Contains
  <2>2. D!Contains(r, e)
    BY <1>1 DEF D!Contains
  <2>3. D!Contains(q, x) => D!Contains(r, x)
    <3> SUFFICES ASSUME NEW i \in 1..Len(q), q[i] = x PROVE r[i + 1] = x /\ i + 1 \in 1..Len(r)
      BY DEF D!Contains
    <3> QED
      BY <1>1
  <2> QED
    BY <2>1, <2>2, <2>3
<1>3. D!IsInjective(r)
  <2>1. \A i, j \in 1..Len(q) : q[i] = q[j] => i = j
    <3>1. DOMAIN q = 1..Len(q)
      OBVIOUS
    <3> QED
      BY <3>1, Zenon DEF D!IsInjective
  <2>2. \A i \in 1..Len(q) : q[i] # e
    BY DEF D!Contains
  <2>3. \A i, j \in 1..Len(r) : r[i] = r[j] => i = j
    <3> SUFFICES ASSUME NEW i \in 1..Len(r), NEW j \in 1..Len(r), r[i] = r[j] PROVE i = j
      OBVIOUS
    <3>1. CASE i = 1 \/ j = 1
      <4>1. ASSUME NEW l \in 1..Len(r), l # 1 PROVE r[l] # e
        <5>1. l - 1 \in 1..Len(q) /\ r[l] = q[l - 1]
          BY <1>1, <4>1
        <5> QED
          BY <2>2, <5>1
      <4> QED
        BY <1>1, <3>1, <4>1
    <3>2. CASE i # 1 /\ j # 1
      <4>1. i - 1 \in 1..Len(q) /\ j - 1 \in 1..Len(q) /\ q[i - 1] = q[j - 1]
        BY <1>1, <3>2
      <4>2. i - 1 = j - 1
        BY <2>1, <4>1
      <4> QED
        BY <1>1, <4>2
    <3> QED
      BY <3>1, <3>2
  <2>4. DOMAIN r = 1..Len(r)
    BY <1>1
  <2> QED
    BY <2>3, <2>4, Zenon DEF D!IsInjective
<1> QED
  BY <1>1, <1>2, <1>3

LEMMA Removed ==
  ASSUME NEW El, Null \notin El, NEW q \in Seq(El), D!IsInjective(q), NEW e, D!Contains(q, e),
         NEW r, r = D!Without(q, e)
  PROVE  /\ r \in Seq(El) /\ D!IsInjective(r)
         /\ \A x : D!Contains(r, x) <=> x # e /\ D!Contains(q, x)
         /\ D!After(q, e) # Null => D!Contains(r, D!After(q, e))
         /\ D!After(q, e) \in El \union {Null}
         /\ D!Head1(r) = IF D!Head1(q) = e THEN D!After(q, e) ELSE D!Head1(q)
<1> DEFINE p == D!Position(q, e)
           n == Len(q)
<1>1. p \in 1..n /\ q[p] = e
  <2>1. \E i \in 1..Len(q) : q[i] = e
    BY DEF D!Contains
  <2>2. p = CHOOSE i \in 1..Len(q) : q[i] = e
    BY DEF D!Position
  <2> HIDE DEF p
  <2> QED
    BY <2>1, <2>2
<1> HIDE DEF p
<1>2. /\ SubSeq(q, 1, p - 1) \in Seq(El) /\ Len(SubSeq(q, 1, p - 1)) = p - 1
      /\ \A i \in 1..(p - 1) : SubSeq(q, 1, p - 1)[i] = q[i]
  BY <1>1, SubSeqProperties
<1>3. /\ SubSeq(q, p + 1, n) \in Seq(El) /\ Len(SubSeq(q, p + 1, n)) = n - p
      /\ \A i \in 1..(n - p) : SubSeq(q, p + 1, n)[i] = q[p + i]
  BY <1>1, SubSeqProperties
<1>4. r = SubSeq(q, 1, p - 1) \o SubSeq(q, p + 1, n)
  BY DEF D!Without, D!RemoveAt, p
<1>5. /\ r \in Seq(El) /\ Len(r) = n - 1
      /\ \A i \in 1..(n - 1) : r[i] = IF i < p THEN q[i] ELSE q[i + 1]
  <2>1. /\ r \in Seq(El) /\ Len(r) = n - 1
        /\ \A i \in 1..(n - 1) : r[i] = IF i <= p - 1 THEN SubSeq(q, 1, p - 1)[i]
                                            ELSE SubSeq(q, p + 1, n)[i - (p - 1)]
    <3> DEFINE u == SubSeq(q, 1, p - 1)
               w == SubSeq(q, p + 1, n)
    <3>1. u \in Seq(El) /\ w \in Seq(El) /\ Len(u) = p - 1 /\ Len(w) = n - p /\ r = u \o w
      BY <1>2, <1>3, <1>4
    <3> SUFFICES /\ r \in Seq(El) /\ Len(r) = n - 1
                 /\ \A i \in 1..(n - 1) : r[i] = IF i <= p - 1 THEN u[i] ELSE w[i - (p - 1)]
      OBVIOUS
    <3> HIDE DEF u, w
    <3>2. /\ u \o w \in Seq(El) /\ Len(u \o w) = Len(u) + Len(w)
          /\ \A i \in 1..(Len(u) + Len(w)) :
               (u \o w)[i] = IF i <= Len(u) THEN u[i] ELSE w[i - Len(u)]
      BY <3>1, ConcatProperties
    <3>3. Len(u) + Len(w) = n - 1
      BY <1>1, <3>1
    <3> QED
      BY <3>1, <3>2, <3>3
  <2>2. ASSUME NEW i \in 1..(n - 1), i < p PROVE r[i] = q[i]
    <3>1. i <= p - 1 /\ i \in 1..(p - 1)
      BY ONLY <1>1, <2>2, i \in 1..(n - 1)
    <3>2. SubSeq(q, 1, p - 1)[i] = q[i]
      BY <1>2, <3>1
    <3>3. r[i] = IF i <= p - 1 THEN SubSeq(q, 1, p - 1)[i] ELSE SubSeq(q, p + 1, n)[i - (p - 1)]
      BY <2>1
    <3> QED
      BY <3>1, <3>2, <3>3
  <2>3. ASSUME NEW i \in 1..(n - 1), ~(i < p) PROVE r[i] = q[i + 1]
    <3>1. i - (p - 1) \in 1..(n - p) /\ p + (i - (p - 1)) = i + 1
      BY <1>1, <2>3
    <3> QED
      BY <1>1, <1>3, <2>1, <2>3, <3>1
  <2> QED
    BY <2>1, <2>2, <2>3
<1>6. \A i, j \in 1..n : q[i] = q[j] => i = j
  <2>1. DOMAIN q = 1..n
    OBVIOUS
  <2> QED
    BY <2>1, Zenon DEF D!IsInjective
<1>7. D!IsInjective(r)
  BY <1>1, <1>5, <1>6, SMTT(60) DEF D!IsInjective
<1>8. ASSUME NEW x PROVE D!Contains(r, x) <=> x # e /\ D!Contains(q, x)
  <2>1. ASSUME NEW i \in 1..(n - 1) PROVE r[i] # e /\ D!Contains(q, r[i])
    BY <1>1, <1>5, <1>6 DEF D!Contains
  <2>2. ASSUME NEW i \in 1..n, q[i] # e PROVE D!Contains(r, q[i])
    <3>1. CASE i < p
      BY <1>1, <1>5, <3>1, SMTT(60) DEF D!Contains
    <3>2. CASE i > p
      <4>1. i - 1 \in 1..(n - 1) /\ r[i - 1] = q[i]
        BY <1>1, <1>5, <3>2
      <4> QED
        BY <1>5, <4>1 DEF D!Contains
    <3> QED
      BY <1>1, <2>2, <3>1, <3>2
  <2>3. CASE D!Contains(r, x)
    <3>1. PICK i \in 1..(n - 1) : r[i] = x
      BY <1>5, <2>3 DEF D!Contains
    <3> QED
      BY <2>1, <2>3, <3>1
  <2>4. CASE x # e /\ D!Contains(q, x)
    <3>1. PICK i \in 1..n : q[i] = x
      BY <2>4 DEF D!Contains
    <3> QED
      BY <2>2, <2>4, <3>1
  <2> QED
    BY <2>3, <2>4
<1>9. D!After(q, e) = IF p = n THEN Null ELSE q[p + 1]
  BY DEF D!After, p
<1>10. D!After(q, e) # Null => D!Contains(r, D!After(q, e))
  BY <1>1, <1>5, <1>9 DEF D!Contains
<1>11. D!After(q, e) \in El \union {Null}
  BY <1>1, <1>9
<1>12. D!Head1(r) = IF D!Head1(q) = e THEN D!After(q, e) ELSE D!Head1(q)
  <2>1. q # <<>> /\ D!Head1(q) = q[1]
    BY <1>1 DEF D!Head1
  <2>2. D!Head1(r) = IF n = 1 THEN Null ELSE r[1]
    BY <1>1, <1>5 DEF D!Head1
  <2>3. D!Head1(q) = e <=> p = 1
    BY <1>1, <1>6, <2>1
  <2> QED
    BY <1>1, <1>5, <1>9, <2>1, <2>2, <2>3
<1> QED
  BY <1>5, <1>7, <1>8, <1>10, <1>11, <1>12

\* A chain is empty when it has nothing.
LEMMA Emptied ==
  ASSUME NEW El, Null \notin El, NEW q \in Seq(El)
  PROVE  /\ D!Head1(q) = Null <=> q = <<>>
         /\ D!Head1(q) \in El \union {Null}
         /\ q = <<>> <=> \A x : ~D!Contains(q, x)
         /\ q # <<>> => Head(q) \in El /\ D!Contains(q, Head(q)) /\ D!Head1(q) = Head(q)
         /\ \A x : D!Contains(q, x) => x \in El
         /\ D!IsInjective(<<>>)
<1>1. q = <<>> => \A x : ~D!Contains(q, x)
  BY DEF D!Contains
<1>2. q # <<>> => Head(q) \in El /\ D!Contains(q, Head(q)) /\ D!Head1(q) = Head(q)
  <2>1. q # <<>> => 1 \in 1..Len(q) /\ Head(q) = q[1] /\ q[1] \in El
    OBVIOUS
  <2> QED
    BY <2>1 DEF D!Contains, D!Head1
<1>3. \A x : D!Contains(q, x) => x \in El
  BY DEF D!Contains
<1>4. D!IsInjective(<<>>)
  BY DEF D!IsInjective
<1>5. q = <<>> => D!Head1(q) = Null
  BY DEF D!Head1
<1> QED
  BY <1>1, <1>2, <1>3, <1>4, <1>5

\* The chain of a key is empty when it is in no chain of a thread.
LEMMA Unused ==
  ASSUME DataAssumption, DataTypes, DataChains, NEW l \in Keys
  PROVE  threads[l] = <<>> <=> \A u \in Threads : ~D!Contains(keys[u], l)
<1>1. threads[l] \in Seq(Threads) /\ Null \notin Threads
  BY DEF DataTypes, DataAssumption
<1>2. /\ threads[l] = <<>> <=> \A x : ~D!Contains(threads[l], x)
      /\ \A x : D!Contains(threads[l], x) => x \in Threads
  BY <1>1, Emptied
<1> QED
  BY <1>2 DEF DataChains, D!ChainsAgree

\* So that = between two of these is <=>.
LEMMA ContainsIsBoolean == \A q, e : D!Contains(q, e) \in BOOLEAN
  BY DEF D!Contains

\* The chain of a thread.
LEMMA ChainHead ==
  ASSUME DataAssumption, DataTypes, NEW t \in Threads
  PROVE  /\ D!Head1(keys[t]) = Null <=> keys[t] = <<>>
         /\ D!Head1(keys[t]) \in (Keys \ Plain) \union {Null}
         /\ D!Head1(keys[t]) # Null => D!Contains(keys[t], D!Head1(keys[t]))
         /\ \A k : D!Contains(keys[t], k) => k \in Keys \ Plain /\ keys[t] # <<>>
<1>1. keys[t] \in Seq(Keys \ Plain) /\ Null \notin Keys \ Plain
  BY DEF DataTypes, DataAssumption
<1> QED
  BY <1>1, Emptied

\* An association is taken out of both chains.
LEMMA Destroyed ==
  ASSUME DataAssumption, DataTypes, DataChains,
         NEW t \in Threads, NEW k \in Keys, D!Contains(keys[t], k),
         keys' = [keys EXCEPT ![t] = D!Without(@, k)],
         threads' = [threads EXCEPT ![k] = D!Without(@, t)]
  PROVE  TakenOut(t, k)
<1>1. /\ keys[t] \in Seq(Keys \ Plain) /\ D!IsInjective(keys[t])
      /\ threads[k] \in Seq(Threads) /\ D!IsInjective(threads[k])
      /\ D!Contains(threads[k], t)
  BY DEF DataTypes, DataChains, D!ChainsAgree
<1>2. keys'[t] = D!Without(keys[t], k) /\ threads'[k] = D!Without(threads[k], t)
  BY DEF DataTypes
<1>3. /\ keys'[t] \in Seq(Keys \ Plain) /\ D!IsInjective(keys'[t])
      /\ \A x : D!Contains(keys'[t], x) <=> x # k /\ D!Contains(keys[t], x)
      /\ D!After(keys[t], k) # Null => D!Contains(keys'[t], D!After(keys[t], k))
      /\ D!After(keys[t], k) \in (Keys \ Plain) \union {Null}
      /\ D!Head1(keys'[t])
           = IF D!Head1(keys[t]) = k THEN D!After(keys[t], k) ELSE D!Head1(keys[t])
  <2>1. Null \notin Keys \ Plain
    BY DEF DataAssumption
  <2> QED
    BY <1>1, <1>2, <2>1, Removed
<1>4. /\ threads'[k] \in Seq(Threads) /\ D!IsInjective(threads'[k])
      /\ \A x : D!Contains(threads'[k], x) <=> x # t /\ D!Contains(threads[k], x)
  <2>1. Null \notin Threads
    BY DEF DataAssumption
  <2> QED
    BY <1>1, <1>2, <2>1, Removed
<1>5. /\ \A u \in Threads : u # t => keys'[u] = keys[u]
      /\ \A l \in Keys : l # k => threads'[l] = threads[l]
  BY DEF DataTypes
<1>6. keys' \in [Threads -> Seq(Keys \ Plain)] /\ threads' \in [Keys -> Seq(Threads)]
  BY <1>2, <1>3, <1>4 DEF DataTypes
<1>7. /\ \A u \in Threads : D!IsInjective(keys'[u])
      /\ \A l \in Keys : D!IsInjective(threads'[l])
  BY <1>3, <1>4, <1>5 DEF DataChains, D!ChainsAgree
<1> QED
  BY <1>3, <1>4, <1>5, <1>6, <1>7 DEF TakenOut

\* An association is put at the head of both chains.
LEMMA Associated ==
  ASSUME DataAssumption, DataTypes, DataChains,
         NEW t \in Threads, NEW k \in Keys \ Plain, ~D!Contains(keys[t], k),
         D!AssocCreate(t, k)
  PROVE  PutIn(t, k)
<1>1. /\ keys[t] \in Seq(Keys \ Plain) /\ D!IsInjective(keys[t])
      /\ threads[k] \in Seq(Threads) /\ D!IsInjective(threads[k])
      /\ ~D!Contains(threads[k], t)
  BY DEF DataTypes, DataChains, D!ChainsAgree
<1>2. keys'[t] = <<k>> \o keys[t] /\ threads'[k] = <<t>> \o threads[k]
  BY DEF DataTypes, D!AssocCreate
<1>3. /\ keys'[t] \in Seq(Keys \ Plain) /\ D!IsInjective(keys'[t])
      /\ \A x : D!Contains(keys'[t], x) <=> x = k \/ D!Contains(keys[t], x)
  BY <1>1, <1>2, Created
<1>4. /\ threads'[k] \in Seq(Threads) /\ D!IsInjective(threads'[k])
      /\ \A x : D!Contains(threads'[k], x) <=> x = t \/ D!Contains(threads[k], x)
  <2>1. /\ threads[k] \in Seq(Threads) /\ D!IsInjective(threads[k])
        /\ ~D!Contains(threads[k], t) /\ threads'[k] = <<t>> \o threads[k]
    BY <1>1, <1>2
  <2> QED
    BY <2>1, Created
<1>5. /\ \A u \in Threads : u # t => keys'[u] = keys[u]
      /\ \A l \in Keys : l # k => threads'[l] = threads[l]
  BY DEF DataTypes, D!AssocCreate
<1>6. keys' \in [Threads -> Seq(Keys \ Plain)] /\ threads' \in [Keys -> Seq(Threads)]
  BY <1>2, <1>3, <1>4 DEF DataTypes, D!AssocCreate
<1>7. /\ \A u \in Threads : D!IsInjective(keys'[u])
      /\ \A l \in Keys : D!IsInjective(threads'[l])
  BY <1>3, <1>4, <1>5 DEF DataChains, D!ChainsAgree
<1> QED
  BY <1>3, <1>4, <1>5, <1>6, <1>7 DEF PutIn

(* Each action keeps the invariant. *)

LEMMA KeyCreateKeeps ==
  ASSUME DataAssumption, DataInv, NEW t \in Threads,
         NEW k \in Keys, D!KeyCreate(t, k)
  PROVE  DataInv'
<1> USE DEF DataAssumption, DataInv, D!KeyCreate, D!At, D!Goto, D!Return, D!Calls,
            D!Exiting, D!chains, D!locks, D!rounds
<1>1. DataTypes'
  BY DEF DataTypes, D!Places
<1>2. DataPlaces'
  BY DEF DataTypes, DataPlaces, DataPlace, Setting, Deleting, KeyHeld
<1>3. DataRounds'
  BY DEF DataTypes, DataRounds, DataRound
<1>4. DataChains'
  BY DEF DataTypes, DataPlaces, DataPlace, DataChains, D!ChainsAgree, D!NextIsThere,
         D!FreedUnlocked,
         D!ValuesAssociated, Setting, Deleting, KeyHeld
<1> QED
  BY <1>1, <1>2, <1>3, <1>4

LEMMA SetPlainKeeps ==
  ASSUME DataAssumption, DataInv, NEW t \in Threads,
         NEW k \in Keys, NEW v \in BOOLEAN, D!SetPlain(t, k, v)
  PROVE  DataInv'
<1> USE DEF DataAssumption, DataInv, D!SetPlain, D!At, D!Goto, D!Return, D!Calls,
            D!Exiting, D!chains, D!locks, D!rounds
<1>1. DataTypes'
  BY DEF DataTypes, D!Places
<1>2. DataPlaces'
  BY DEF DataTypes, DataPlaces, DataPlace, Setting, Deleting, KeyHeld
<1>3. DataRounds'
  BY DEF DataTypes, DataRounds, DataRound
<1>4. DataChains'
  BY DEF DataTypes, DataPlaces, DataPlace, DataChains, D!ChainsAgree, D!NextIsThere,
         D!FreedUnlocked,
         D!ValuesAssociated, Setting, Deleting, KeyHeld
<1> QED
  BY <1>1, <1>2, <1>3, <1>4

LEMMA SetCallKeeps ==
  ASSUME DataAssumption, DataInv, NEW t \in Threads,
         NEW k \in Keys, D!SetCall(t, k)
  PROVE  DataInv'
<1> USE DEF DataAssumption, DataInv, D!SetCall, D!At, D!Goto, D!Return, D!Calls, D!Exiting,
            D!chains, D!locks, D!rounds
<1>1. DataTypes'
  BY DEF DataTypes, D!Places
<1>2. DataPlaces'
  BY DEF DataTypes, DataPlaces, DataPlace, Setting, Deleting, KeyHeld
<1>3. DataRounds'
  BY DEF DataTypes, DataRounds, DataRound
<1>4. DataChains'
  BY DEF DataTypes, DataPlaces, DataPlace, DataChains, D!ChainsAgree, D!NextIsThere,
         D!FreedUnlocked,
         D!ValuesAssociated, Setting, Deleting, KeyHeld
<1> QED
  BY <1>1, <1>2, <1>3, <1>4

LEMMA SetLocksKeyKeeps ==
  ASSUME DataAssumption, DataInv, NEW t \in Threads, D!SetLocksKey(t)
  PROVE  DataInv'
<1> USE DEF DataAssumption, DataInv, D!SetLocksKey, D!At, D!Goto, D!Return, D!Calls,
            D!Exiting, D!chains, D!locks, D!rounds
<1>1. DataTypes'
  BY DEF DataTypes, D!Places
<1>2. DataPlaces'
  BY DEF DataTypes, DataPlaces, DataPlace, Setting, Deleting, KeyHeld
<1>3. DataRounds'
  BY DEF DataTypes, DataRounds, DataRound
<1>4. DataChains'
  BY DEF DataTypes, DataPlaces, DataPlace, DataChains, D!ChainsAgree, D!NextIsThere,
         D!FreedUnlocked,
         D!ValuesAssociated, Setting, Deleting, KeyHeld
<1> QED
  BY <1>1, <1>2, <1>3, <1>4

LEMMA SetValueKeeps ==
  ASSUME DataAssumption, DataInv, NEW t \in Threads, D!SetValue(t)
  PROVE  DataInv'
<1> USE DEF DataAssumption, DataInv, D!SetValue, D!At, D!Goto, D!Return, D!Calls,
            D!Exiting, D!chains, D!locks, D!rounds
<1>1. DataTypes'
  BY DEF DataTypes, D!Places
<1>2. DataPlaces'
  BY DEF DataTypes, DataPlaces, DataPlace, Setting, Deleting, KeyHeld
<1>3. DataRounds'
  BY DEF DataTypes, DataRounds, DataRound
<1>4. DataChains'
  BY DEF DataTypes, DataPlaces, DataPlace, DataChains, D!ChainsAgree, D!NextIsThere,
         D!FreedUnlocked,
         D!ValuesAssociated, Setting, Deleting, KeyHeld
<1> QED
  BY <1>1, <1>2, <1>3, <1>4

LEMMA DeleteCallKeeps ==
  ASSUME DataAssumption, DataInv, NEW t \in Threads,
         NEW k \in Keys, D!DeleteCall(t, k)
  PROVE  DataInv'
<1> USE DEF DataAssumption, DataInv, D!DeleteCall, D!At, D!Goto, D!Return, D!Calls,
            D!Exiting, D!chains, D!locks, D!rounds
<1>1. DataTypes'
  BY DEF DataTypes, D!Places
<1>2. DataPlaces'
  <2>1. k \in Plain => threads[k] = <<>>
    BY Unused, ChainHead
  <2> QED
    BY <2>1, SMTT(60) DEF DataTypes, DataPlaces, DataPlace, Setting, Deleting, KeyHeld
<1>3. DataRounds'
  BY DEF DataTypes, DataRounds, DataRound
<1>4. DataChains'
  BY DEF DataTypes, DataPlaces, DataPlace, DataChains, D!ChainsAgree, D!NextIsThere,
         D!FreedUnlocked,
         D!ValuesAssociated, Setting, Deleting, KeyHeld
<1> QED
  BY <1>1, <1>2, <1>3, <1>4

LEMMA DeleteLocksKeyKeeps ==
  ASSUME DataAssumption, DataInv, NEW t \in Threads, D!DeleteLocksKey(t)
  PROVE  DataInv'
<1> USE DEF DataAssumption, DataInv, D!DeleteLocksKey, D!At, D!Goto, D!Return, D!Calls,
            D!Exiting, D!chains, D!locks, D!rounds
<1>1. DataTypes'
  BY DEF DataTypes, D!Places
<1>2. DataPlaces'
  BY DEF DataTypes, DataPlaces, DataPlace, Setting, Deleting, KeyHeld
<1>3. DataRounds'
  BY DEF DataTypes, DataRounds, DataRound
<1>4. DataChains'
  BY DEF DataTypes, DataPlaces, DataPlace, DataChains, D!ChainsAgree, D!NextIsThere,
         D!FreedUnlocked,
         D!ValuesAssociated, Setting, Deleting, KeyHeld
<1> QED
  BY <1>1, <1>2, <1>3, <1>4

LEMMA DeleteTlsKeeps ==
  ASSUME DataAssumption, DataInv, NEW t \in Threads, D!DeleteTls(t)
  PROVE  DataInv'
<1> USE DEF DataAssumption, DataInv, D!DeleteTls, D!At, D!Goto, D!Return, D!Calls,
            D!Exiting, D!chains, D!locks, D!rounds
<1>1. DataTypes'
  BY DEF DataTypes, D!Places
<1>2. DataPlaces'
  BY DEF DataTypes, DataPlaces, DataPlace, Setting, Deleting, KeyHeld
<1>3. DataRounds'
  BY DEF DataTypes, DataRounds, DataRound
<1>4. DataChains'
  BY DEF DataTypes, DataPlaces, DataPlace, DataChains, D!ChainsAgree, D!NextIsThere,
         D!FreedUnlocked,
         D!ValuesAssociated, Setting, Deleting, KeyHeld
<1> QED
  BY <1>1, <1>2, <1>3, <1>4

LEMMA DeleteDrainsKeeps ==
  ASSUME DataAssumption, DataInv, NEW t \in Threads, D!DeleteDrains(t)
  PROVE  DataInv'
<1> USE DEF DataAssumption, DataInv, D!DeleteDrains, D!At, D!Goto, D!Return, D!Calls,
            D!Exiting, D!chains, D!locks, D!rounds
<1>1. DataTypes'
  BY DEF DataTypes, D!Places
<1>2. DataPlaces'
  BY DEF DataTypes, DataPlaces, DataPlace, Setting, Deleting, KeyHeld
<1>3. DataRounds'
  BY DEF DataTypes, DataRounds, DataRound
<1>4. DataChains'
  <2>1. \A u \in Threads : ~D!Contains(keys[u], cur[t])
    BY Unused DEF DataPlaces, DataPlace, Deleting
  <2> QED
    BY <2>1
    DEF DataTypes, DataPlaces, DataPlace, DataChains, D!ChainsAgree, D!NextIsThere,
        D!FreedUnlocked,
         D!ValuesAssociated, Setting, Deleting, KeyHeld
<1> QED
  BY <1>1, <1>2, <1>3, <1>4

LEMMA ExitKeeps ==
  ASSUME DataAssumption, DataInv, NEW t \in Threads, D!Exit(t)
  PROVE  DataInv'
<1> USE DEF DataAssumption, DataInv, D!Exit, D!At, D!Goto, D!Return, D!Calls, D!Exiting,
            D!chains, D!locks, D!rounds
<1>1. DataTypes'
  BY DEF DataTypes, D!Places
<1>2. DataPlaces'
  BY DEF DataTypes, DataPlaces, DataPlace, Setting, Deleting, KeyHeld
<1>3. DataRounds'
  BY DEF DataTypes, DataRounds, DataRound
<1>4. DataChains'
  BY DEF DataTypes, DataPlaces, DataPlace, DataChains, D!ChainsAgree, D!NextIsThere,
         D!FreedUnlocked,
         D!ValuesAssociated, Setting, Deleting, KeyHeld
<1> QED
  BY <1>1, <1>2, <1>3, <1>4

LEMMA RoundKeeps ==
  ASSUME DataAssumption, DataInv, NEW t \in Threads, D!Round(t)
  PROVE  DataInv'
<1> USE DEF DataAssumption, DataInv, D!Round, D!At, D!Goto, D!Return, D!Calls, D!Exiting,
            D!chains, D!locks, D!rounds
<1>1. DataTypes'
  BY ChainHead DEF DataTypes, D!Places
<1>2. DataPlaces'
  BY ChainHead DEF DataTypes, DataPlaces, DataPlace, Setting, Deleting, KeyHeld
<1>3. DataRounds'
  BY ChainHead DEF DataTypes, DataRounds, DataRound
<1>4. DataChains'
  BY ChainHead
  DEF DataTypes, DataPlaces, DataPlace, DataChains, D!ChainsAgree, D!NextIsThere,
      D!FreedUnlocked,
         D!ValuesAssociated, Setting, Deleting, KeyHeld
<1> QED
  BY <1>1, <1>2, <1>3, <1>4

LEMMA NextAssocKeeps ==
  ASSUME DataAssumption, DataInv, NEW t \in Threads, D!NextAssoc(t)
  PROVE  DataInv'
<1> USE DEF DataAssumption, DataInv, D!NextAssoc, D!At, D!Goto, D!Return, D!Calls,
            D!Exiting, D!chains, D!locks, D!rounds
<1>1. DataTypes'
  <2>1. CASE nextAssoc[t] = Null /\ remaining[t]
    <3>1. iterations[t] \in 0..(Iterations + 1) /\ iterations[t] <= Iterations
      BY <2>1 DEF DataTypes, DataRounds, DataRound
    <3>2. iterations' = [iterations EXCEPT ![t] = iterations[t] + 1]
      BY <2>1
    <3>3. iterations' \in [Threads -> 0..(Iterations + 1)]
      BY <3>1, <3>2 DEF DataTypes
    <3> QED
      BY <2>1, <3>3, ZenonT(60) DEF DataTypes, D!Places
  <2>2. CASE nextAssoc[t] = Null /\ ~remaining[t]
    BY <2>2 DEF DataTypes, D!Places
  <2>3. CASE nextAssoc[t] # Null
    <3>1. nextAssoc[t] \in Keys
      BY <2>3 DEF DataTypes
    <3>2. /\ dpc' = [dpc EXCEPT ![t] = "try"] /\ cur' = [cur EXCEPT ![t] = nextAssoc[t]]
          /\ threadLock' = [threadLock EXCEPT ![t] = t]
          /\ UNCHANGED <<key, value, keys, threads, nextAssoc, keyLock, iterations, remaining,
                         given>>
      BY <2>3
    <3> QED
      BY <3>1, <3>2 DEF DataTypes, D!Places
  <2> QED
    BY <2>1, <2>2, <2>3
<1>2. DataPlaces'
  <2>1. CASE nextAssoc[t] = Null
    BY <2>1 DEF DataTypes, DataPlaces, DataPlace, Setting, Deleting, KeyHeld
  <2>2. CASE nextAssoc[t] # Null
    <3>1. nextAssoc[t] \in Keys
      BY <2>2 DEF DataTypes
    <3>2. /\ dpc' = [dpc EXCEPT ![t] = "try"] /\ cur' = [cur EXCEPT ![t] = nextAssoc[t]]
          /\ threadLock' = [threadLock EXCEPT ![t] = t]
          /\ UNCHANGED <<key, keys, threads, keyLock>>
      BY <2>2
    <3> QED
      BY <3>1, <3>2 DEF DataTypes, DataPlaces, DataPlace, Setting, Deleting, KeyHeld
  <2> QED
    BY <2>1, <2>2
<1>3. DataRounds'
  <2>1. CASE nextAssoc[t] = Null /\ remaining[t]
    BY <2>1 DEF DataTypes, DataRounds, DataRound
  <2>2. CASE nextAssoc[t] = Null /\ ~remaining[t]
    <3>1. keys[t] = <<>>
      BY <2>2, ChainHead DEF DataRounds, DataRound
    <3> QED
      BY <2>2, <3>1 DEF DataTypes, DataRounds, DataRound
  <2>3. CASE nextAssoc[t] # Null
    BY <2>3 DEF DataTypes, DataRounds, DataRound
  <2> QED
    BY <2>1, <2>2, <2>3
<1>4. DataChains'
  <2>0. /\ UNCHANGED <<key, value, keys, threads, keyLock, nextAssoc>>
        /\ \A u \in Threads : dpc'[u] = "try" =>
             (dpc[u] = "try" /\ cur'[u] = cur[u]) \/ (u = t /\ cur'[u] = nextAssoc[u])
    <3>1. UNCHANGED <<key, value, keys, threads, keyLock, nextAssoc>>
      OBVIOUS
    <3>2. CASE nextAssoc[t] = Null
      BY <3>1, <3>2 DEF DataTypes
    <3>3. CASE nextAssoc[t] # Null
      BY <3>1, <3>3 DEF DataTypes
    <3> QED
      BY <3>2, <3>3
  <2>1. D!ChainsAgree'
    BY <2>0 DEF DataChains, D!ChainsAgree
  <2>2. D!NextIsThere'
    BY <2>0 DEF DataChains, D!NextIsThere
  <2>3. D!FreedUnlocked' /\ D!ValuesAssociated'
    BY <2>0 DEF DataChains, D!FreedUnlocked, D!ValuesAssociated
  <2> QED
    BY <2>0, <2>1, <2>2, <2>3 DEF DataChains
<1> QED
  BY <1>1, <1>2, <1>3, <1>4

LEMMA TryFailsKeeps ==
  ASSUME DataAssumption, DataInv, NEW t \in Threads, D!TryFails(t)
  PROVE  DataInv'
<1> USE DEF DataAssumption, DataInv, D!TryFails, D!At, D!Goto, D!Return, D!Calls,
            D!Exiting, D!chains, D!locks, D!rounds
<1>1. DataTypes'
  BY DEF DataTypes, D!Places
<1>2. DataPlaces'
  BY DEF DataTypes, DataPlaces, DataPlace, Setting, Deleting, KeyHeld
<1>3. DataRounds'
  BY DEF DataTypes, DataRounds, DataRound
<1>4. DataChains'
  BY DEF DataTypes, DataPlaces, DataPlace, DataChains, D!ChainsAgree, D!NextIsThere,
         D!FreedUnlocked,
         D!ValuesAssociated, Setting, Deleting, KeyHeld
<1> QED
  BY <1>1, <1>2, <1>3, <1>4

LEMMA UnlockKeeps ==
  ASSUME DataAssumption, DataInv, NEW t \in Threads, D!Unlock(t)
  PROVE  DataInv'
<1> USE DEF DataAssumption, DataInv, D!Unlock, D!At, D!Goto, D!Return, D!Calls, D!Exiting,
            D!chains, D!locks, D!rounds
<1>1. DataTypes'
  BY DEF DataTypes, D!Places
<1>2. DataPlaces'
  BY DEF DataTypes, DataPlaces, DataPlace, Setting, Deleting, KeyHeld
<1>3. DataRounds'
  BY DEF DataTypes, DataRounds, DataRound
<1>4. DataChains'
  BY DEF DataTypes, DataPlaces, DataPlace, DataChains, D!ChainsAgree, D!NextIsThere,
         D!FreedUnlocked,
         D!ValuesAssociated, Setting, Deleting, KeyHeld
<1> QED
  BY <1>1, <1>2, <1>3, <1>4

LEMMA DestructorReturnsKeeps ==
  ASSUME DataAssumption, DataInv, NEW t \in Threads, D!DestructorReturns(t)
  PROVE  DataInv'
<1> USE DEF DataAssumption, DataInv, D!DestructorReturns, D!At, D!Goto, D!Return, D!Calls,
            D!Exiting, D!chains, D!locks, D!rounds
<1>1. DataTypes'
  BY DEF DataTypes, D!Places
<1>2. DataPlaces'
  BY DEF DataTypes, DataPlaces, DataPlace, Setting, Deleting, KeyHeld
<1>3. DataRounds'
  BY DEF DataTypes, DataRounds, DataRound
<1>4. DataChains'
  BY DEF DataTypes, DataPlaces, DataPlace, DataChains, D!ChainsAgree, D!NextIsThere,
         D!FreedUnlocked,
         D!ValuesAssociated, Setting, Deleting, KeyHeld
<1> QED
  BY <1>1, <1>2, <1>3, <1>4

LEMMA SetAssociatesKeeps ==
  ASSUME DataAssumption, DataInv, NEW t \in Threads, D!SetAssociates(t)
  PROVE  DataInv'
<1> USE DEF DataAssumption, DataInv, D!SetAssociates, D!At, D!Goto, D!Return, D!Calls,
            D!Exiting, D!chains, D!locks, D!rounds
<1> DEFINE k == cur[t]
<1>0. k \in Keys \ Plain /\ key[k] = "live"
  BY DEF DataPlaces, DataPlace, Setting
<1> HIDE DEF k
<1>1. CASE ~D!Contains(keys[t], k) /\ D!AssocCreate(t, k) /\ dpc' = [dpc EXCEPT ![t] = "set_value"]
            /\ UNCHANGED cur
  <2>0. /\ dpc[t] = "set_assoc" /\ keyLock' = [keyLock EXCEPT ![k] = Null] /\ k = cur[t]
        /\ UNCHANGED <<key, value, nextAssoc, threadLock, iterations, remaining, given>>
    BY <1>1 DEF D!AssocCreate, k
  <2>5. PutIn(t, k)
    BY <1>0, <1>1, Associated
  <2> HIDE DEF D!SetAssociates
  <2>1. DataTypes'
    BY <1>0, <1>1, <2>0, <2>5 DEF PutIn, DataTypes, D!Places
  <2>2. DataPlaces'
    <3> SUFFICES ASSUME NEW v \in Threads PROVE DataPlace(v)'
      BY DEF DataPlaces
    <3>1. DataPlace(v)
      BY DEF DataPlaces
    <3>2. CASE v = t
      BY <1>0, <1>1, <2>0, <2>5, <3>1, <3>2
      DEF PutIn, DataTypes, DataPlaces, DataPlace, Setting, Deleting, KeyHeld
    <3>3. CASE v # t
      BY <1>0, <1>1, <2>0, <2>5, <3>1, <3>3
      DEF PutIn, DataTypes, DataPlaces, DataPlace, Setting, Deleting, KeyHeld
    <3> QED
      BY <3>2, <3>3
  <2>3. DataRounds'
    <3> SUFFICES ASSUME NEW v \in Threads PROVE DataRound(v)'
      BY DEF DataRounds
    <3>1. DataRound(v)
      BY DEF DataRounds
    <3>2. CASE v = t
      BY <1>0, <1>1, <2>0, <2>5, <3>1, <3>2, ChainHead
      DEF PutIn, DataTypes, DataPlaces, DataPlace, DataRound, Setting, Deleting, KeyHeld
    <3>3. CASE v # t
      BY <1>0, <1>1, <2>0, <2>5, <3>1, <3>3, ChainHead, SMTT(60)
      DEF PutIn, DataTypes, DataPlaces, DataPlace, DataRound, Setting, Deleting, KeyHeld
    <3> QED
      BY <3>2, <3>3
  <2>4. DataChains'
    <3>1. D!ChainsAgree'
      BY ContainsIsBoolean, <1>0, <1>1, <2>0, <2>5
      DEF PutIn, DataTypes, DataPlaces, DataPlace, DataChains, D!ChainsAgree, Setting,
          Deleting, KeyHeld
    <3>2. D!NextIsThere'
      BY <1>0, <1>1, <2>0, <2>5
      DEF PutIn, DataTypes, DataPlaces, DataPlace, DataChains, D!NextIsThere, Setting,
          Deleting, KeyHeld
    <3>3. D!FreedUnlocked'
      BY <1>0, <1>1, <2>0, <2>5
      DEF PutIn, DataTypes, DataPlaces, DataPlace, DataChains, D!FreedUnlocked, Setting,
          Deleting, KeyHeld
    <3>4. D!ValuesAssociated'
      BY <1>0, <1>1, <2>0, <2>5
      DEF PutIn, DataTypes, DataPlaces, DataPlace, DataChains, D!ValuesAssociated, Setting,
          Deleting, KeyHeld
    <3>5. \A v \in Threads, l \in Keys : key'[l] = "none" => ~value'[v][l]
      BY <1>0, <1>1, <2>0, <2>5 DEF PutIn, DataTypes, DataChains
    <3> QED
      BY <3>1, <3>2, <3>3, <3>4, <3>5 DEF DataChains
  <2> QED
    BY <2>1, <2>2, <2>3, <2>4
<1>2. CASE UNCHANGED <<keys, threads, nextAssoc>>
           /\ \/ D!Contains(keys[t], k) /\ dpc' = [dpc EXCEPT ![t] = "set_value"] /\ UNCHANGED cur
              \/ D!Return(t)
  <2>0. /\ dpc[t] = "set_assoc" /\ keyLock' = [keyLock EXCEPT ![k] = Null] /\ k = cur[t]
        /\ UNCHANGED <<key, value, threadLock, iterations, remaining, given>>
    BY DEF k
  <2> HIDE DEF D!SetAssociates
  <2>5. /\ dpc' \in [Threads -> D!Places] /\ cur' \in [Threads -> Keys \union {Null}]
        /\ \/ dpc'[t] = "set_value" /\ D!Contains(keys[t], k) /\ cur'[t] = k
           \/ dpc'[t] \in {"user", "return"}
        /\ \A v \in Threads : v # t => dpc'[v] = dpc[v] /\ cur'[v] = cur[v]
    BY <1>0, <1>2, <2>0, ZenonT(60) DEF DataTypes, D!Places
  <2>1. DataTypes'
    BY <1>0, <1>2, <2>0 DEF DataTypes, D!Places
  <2>2. DataPlaces'
    <3> SUFFICES ASSUME NEW v \in Threads PROVE DataPlace(v)'
      BY DEF DataPlaces
    <3>1. DataPlace(v)
      BY DEF DataPlaces
    <3>2. CASE v = t
      BY <1>0, <1>2, <2>0, <2>5, <3>1, <3>2
      DEF DataTypes, DataPlaces, DataPlace, Setting, Deleting, KeyHeld
    <3>3. CASE v # t
      <4>1. /\ dpc[v] \in KeyHeld => cur[v] \in Keys
            /\ dpc'[v] = dpc[v] /\ cur'[v] = cur[v]
        BY <2>0, <2>5, <3>1, <3>3 DEF DataPlace, KeyHeld, Setting, Deleting
      <4>2. dpc[v] \in KeyHeld => cur[v] # k
        BY <2>0, <3>1, <3>3 DEF DataPlaces, DataPlace, KeyHeld
      <4>3. \A u \in Threads : dpc'[u] \in Deleting => dpc[u] \in Deleting /\ cur'[u] = cur[u]
        BY <2>5 DEF Deleting
      <4>4. UNCHANGED <<key, keys, threads, threadLock>>
        BY <1>2, <2>0
      <4>5. dpc[v] \in KeyHeld => keyLock'[cur[v]] = v
        BY <2>0, <3>1, <4>1, <4>2 DEF DataPlace, DataTypes
      <4> QED
        BY <3>1, <4>1, <4>3, <4>4, <4>5 DEF DataPlace
    <3> QED
      BY <3>2, <3>3
  <2>3. DataRounds'
    <3> SUFFICES ASSUME NEW v \in Threads PROVE DataRound(v)'
      BY DEF DataRounds
    <3>1. DataRound(v)
      BY DEF DataRounds
    <3>2. CASE v = t
      BY <1>0, <1>2, <2>0, <2>5, <3>1, <3>2, ChainHead
      DEF DataTypes, DataPlaces, DataPlace, DataRound, Setting, Deleting, KeyHeld
    <3>3. CASE v # t
      BY <1>0, <1>2, <2>0, <2>5, <3>1, <3>3, ChainHead
      DEF DataTypes, DataPlaces, DataPlace, DataRound, Setting, Deleting, KeyHeld
    <3> QED
      BY <3>2, <3>3
  <2>4. DataChains'
    <3>1. D!ChainsAgree'
      BY ContainsIsBoolean, <1>0, <1>2, <2>0
      DEF DataTypes, DataPlaces, DataPlace, DataChains, D!ChainsAgree, Setting, Deleting,
          KeyHeld
    <3>2. D!NextIsThere'
      BY <1>0, <1>2, <2>0
      DEF DataTypes, DataPlaces, DataPlace, DataChains, D!NextIsThere, Setting, Deleting,
          KeyHeld
    <3>3. D!FreedUnlocked'
      BY <1>0, <1>2, <2>0
      DEF DataTypes, DataPlaces, DataPlace, DataChains, D!FreedUnlocked, Setting, Deleting,
          KeyHeld
    <3>4. D!ValuesAssociated'
      BY <1>0, <1>2, <2>0
      DEF DataTypes, DataPlaces, DataPlace, DataChains, D!ValuesAssociated, Setting,
          Deleting, KeyHeld
    <3>5. \A v \in Threads, l \in Keys : key'[l] = "none" => ~value'[v][l]
      BY <1>0, <1>2, <2>0 DEF DataTypes, DataChains
    <3> QED
      BY <3>1, <3>2, <3>3, <3>4, <3>5 DEF DataChains
  <2> QED
    BY <2>1, <2>2, <2>3, <2>4
<1> QED
  BY <1>1, <1>2 DEF k

LEMMA DeleteAssocKeeps ==
  ASSUME DataAssumption, DataInv, NEW t \in Threads, D!DeleteAssoc(t)
  PROVE  DataInv'
<1> USE DEF DataAssumption, DataInv, D!DeleteAssoc, D!At, D!Goto, D!Return, D!Calls,
            D!Exiting, D!chains, D!locks, D!rounds
<1> DEFINE k == cur[t]
           u == Head(threads[k])
<1>0. k \in Keys /\ key[k] = "deleting" /\ dpc[t] = "del_assoc" /\ k = cur[t]
  BY DEF DataPlaces, DataPlace, Deleting
<1> HIDE DEF k
<1>1. CASE threads[k] # <<>>
  <2>5. u \in Threads /\ D!Contains(keys[u], k)
    <3>1. threads[k] \in Seq(Threads) /\ Null \notin Threads
      BY <1>0 DEF DataTypes
    <3>2. u \in Threads /\ D!Contains(threads[k], u)
      BY <1>1, <3>1, Emptied
    <3> QED
      BY <1>0, <3>2 DEF DataChains, D!ChainsAgree
  <2>6. threadLock[u] = Null /\ D!AssocDestroy(u, k)
    BY <1>1 DEF k
  <2> HIDE DEF u
  <2>7. /\ nextAssoc' = [nextAssoc EXCEPT ![u] = IF @ = k THEN D!After(keys[u], k) ELSE @]
        /\ UNCHANGED <<key, value, keyLock, threadLock, dpc, cur, iterations, remaining, given>>
    BY <1>1, <2>6 DEF D!AssocDestroy, k
  <2>8. TakenOut(u, k)
    <3>1. /\ keys' = [keys EXCEPT ![u] = D!Without(@, k)]
          /\ threads' = [threads EXCEPT ![k] = D!Without(@, u)]
      BY <2>6 DEF D!AssocDestroy
    <3>2. DataAssumption /\ DataTypes /\ DataChains
      OBVIOUS
    <3> QED
      BY ONLY <1>0, <2>5, <3>1, <3>2, Destroyed
  <2> HIDE DEF D!DeleteAssoc
  <2>1. DataTypes'
    BY <1>0, <2>5, <2>6, <2>7, <2>8 DEF TakenOut, DataTypes, D!Places
  <2>2. DataPlaces'
    <3> SUFFICES ASSUME NEW v \in Threads PROVE DataPlace(v)'
      BY DEF DataPlaces
    <3>1. DataPlace(v)
      BY DEF DataPlaces
    <3>2. CASE v = u
      BY <1>0, <2>5, <2>6, <2>7, <2>8, <3>1, <3>2
      DEF TakenOut, DataTypes, DataPlaces, DataPlace, Setting, Deleting, KeyHeld
    <3>3. CASE v # u
      BY <1>0, <2>5, <2>6, <2>7, <2>8, <3>1, <3>3
      DEF TakenOut, DataTypes, DataPlaces, DataPlace, Setting, Deleting, KeyHeld
    <3> QED
      BY <3>2, <3>3
  <2>3. DataRounds'
    <3> SUFFICES ASSUME NEW v \in Threads PROVE DataRound(v)'
      BY DEF DataRounds
    <3>1. DataRound(v)
      BY DEF DataRounds
    <3>2. CASE v = u
      <4>1. keys[u] # <<>>
        BY <2>5, ChainHead
      <4>2. dpc[u] = "unlock" => cur[u] # k /\ cur[u] \in Keys
        BY <1>0, <2>5 DEF DataPlaces, DataPlace, KeyHeld
      <4> QED
        BY <2>5, <2>7, <2>8, <3>1, <3>2, <4>1, <4>2 DEF TakenOut, DataTypes, DataRound
    <3>3. CASE v # u
      BY <2>7, <2>8, <3>1, <3>3 DEF TakenOut, DataTypes, DataRound
    <3> QED
      BY <3>2, <3>3
  <2>4. DataChains'
    <3>1. D!ChainsAgree'
      BY ContainsIsBoolean, <1>0, <2>5, <2>6, <2>7, <2>8, SMTT(60)
      DEF TakenOut, DataTypes, DataPlaces, DataPlace, DataChains, D!ChainsAgree, Setting,
          Deleting, KeyHeld
    <3>2. D!NextIsThere'
      BY <1>0, <2>5, <2>6, <2>7, <2>8
      DEF TakenOut, DataTypes, DataPlaces, DataPlace, DataChains, D!NextIsThere, Setting,
          Deleting, KeyHeld
    <3>3. D!FreedUnlocked'
      BY <1>0, <2>5, <2>6, <2>7, <2>8
      DEF TakenOut, DataTypes, DataPlaces, DataPlace, DataChains, D!FreedUnlocked, Setting,
          Deleting, KeyHeld
    <3>4. D!ValuesAssociated'
      BY <1>0, <2>5, <2>6, <2>7, <2>8
      DEF TakenOut, DataTypes, DataPlaces, DataPlace, DataChains, D!ValuesAssociated,
          Setting, Deleting, KeyHeld
    <3>5. \A v \in Threads, l \in Keys : key'[l] = "none" => ~value'[v][l]
      BY <1>0, <2>5, <2>6, <2>7, <2>8 DEF TakenOut, DataTypes, DataChains
    <3> QED
      BY <3>1, <3>2, <3>3, <3>4, <3>5 DEF DataChains
  <2> QED
    BY <2>1, <2>2, <2>3, <2>4
<1>2. CASE threads[k] = <<>>
  <2>0. /\ keyLock' = [keyLock EXCEPT ![k] = Null] /\ dpc' = [dpc EXCEPT ![t] = "del_tls"]
        /\ UNCHANGED <<key, value, keys, threads, nextAssoc, threadLock, cur, iterations,
                       remaining, given>>
    BY <1>2 DEF k
  <2> HIDE DEF D!DeleteAssoc
  <2>1. DataTypes'
    BY <1>0, <1>2, <2>0 DEF DataTypes, D!Places
  <2>2. DataPlaces'
    <3> SUFFICES ASSUME NEW v \in Threads PROVE DataPlace(v)'
      BY DEF DataPlaces
    <3>1. DataPlace(v)
      BY DEF DataPlaces
    <3>2. CASE v = t
      BY <1>0, <1>2, <2>0, <3>1, <3>2
      DEF DataTypes, DataPlaces, DataPlace, Setting, Deleting, KeyHeld
    <3>3. CASE v # t
      BY <1>0, <1>2, <2>0, <3>1, <3>3
      DEF DataTypes, DataPlaces, DataPlace, Setting, Deleting, KeyHeld
    <3> QED
      BY <3>2, <3>3
  <2>3. DataRounds'
    <3> SUFFICES ASSUME NEW v \in Threads PROVE DataRound(v)'
      BY DEF DataRounds
    <3>1. DataRound(v)
      BY DEF DataRounds
    <3>2. CASE v = t
      BY <1>0, <1>2, <2>0, <3>1, <3>2, ChainHead
      DEF DataTypes, DataPlaces, DataPlace, DataRound, Setting, Deleting, KeyHeld
    <3>3. CASE v # t
      BY <1>0, <1>2, <2>0, <3>1, <3>3, ChainHead
      DEF DataTypes, DataPlaces, DataPlace, DataRound, Setting, Deleting, KeyHeld
    <3> QED
      BY <3>2, <3>3
  <2>4. DataChains'
    <3>1. D!ChainsAgree'
      BY ContainsIsBoolean, <1>0, <1>2, <2>0
      DEF DataTypes, DataPlaces, DataPlace, DataChains, D!ChainsAgree, Setting, Deleting,
          KeyHeld
    <3>2. D!NextIsThere'
      BY <1>0, <1>2, <2>0
      DEF DataTypes, DataPlaces, DataPlace, DataChains, D!NextIsThere, Setting, Deleting,
          KeyHeld
    <3>3. D!FreedUnlocked'
      BY <1>0, <1>2, <2>0
      DEF DataTypes, DataPlaces, DataPlace, DataChains, D!FreedUnlocked, Setting, Deleting,
          KeyHeld
    <3>4. D!ValuesAssociated'
      BY <1>0, <1>2, <2>0
      DEF DataTypes, DataPlaces, DataPlace, DataChains, D!ValuesAssociated, Setting,
          Deleting, KeyHeld
    <3>5. \A v \in Threads, l \in Keys : key'[l] = "none" => ~value'[v][l]
      BY <1>0, <1>2, <2>0 DEF DataTypes, DataChains
    <3> QED
      BY <3>1, <3>2, <3>3, <3>4, <3>5 DEF DataChains
  <2> QED
    BY <2>1, <2>2, <2>3, <2>4
<1> QED
  BY <1>1, <1>2

LEMMA TrySucceedsKeeps ==
  ASSUME DataAssumption, DataInv, NEW t \in Threads, D!TrySucceeds(t)
  PROVE  DataInv'
<1> USE DEF DataAssumption, DataInv, D!TrySucceeds, D!At, D!Goto, D!Return, D!Calls,
            D!Exiting, D!chains, D!locks, D!rounds
<1> DEFINE k == cur[t]
           after == D!After(keys[t], k)
<1>0. /\ k \in Keys /\ k = nextAssoc[t] /\ D!Contains(keys[t], k)
      /\ dpc[t] = "try" /\ k = cur[t] /\ keyLock[k] = Null
  BY DEF DataPlaces, DataPlace, DataChains, D!NextIsThere
<1> HIDE DEF k
<1>1. /\ keyLock' = [keyLock EXCEPT ![k] = t] /\ threadLock' = [threadLock EXCEPT ![t] = Null]
      /\ value' = [value EXCEPT ![t][k] = FALSE]
      /\ nextAssoc' = [nextAssoc EXCEPT ![t] = after]
      /\ dpc' = [dpc EXCEPT ![t] = "unlock"]
      /\ UNCHANGED <<key, cur, iterations>>
  BY DEF k
<1>2. CASE value[t][k] /\ iterations[t] <= Iterations
  <2>0. /\ remaining' = [remaining EXCEPT ![t] = TRUE]
        /\ given' = [given EXCEPT ![t] = @ \union {k}]
        /\ UNCHANGED <<keys, threads>>
    BY <1>2 DEF k
  <2>5. /\ after \in Keys \union {Null}
        /\ after # Null => D!Contains(keys[t], after)
    <3>1. /\ keys[t] \in Seq(Keys \ Plain) /\ D!IsInjective(keys[t])
          /\ Null \notin Keys \ Plain
      BY <1>0 DEF DataTypes, DataChains, D!ChainsAgree
    <3> QED
      BY <1>0, <3>1, Removed
  <2> HIDE DEF D!TrySucceeds, after
  <2>1. DataTypes'
    BY <1>0, <1>1, <1>2, <2>0, <2>5 DEF DataTypes, D!Places
  <2>2. DataPlaces'
    <3> SUFFICES ASSUME NEW v \in Threads PROVE DataPlace(v)'
      BY DEF DataPlaces
    <3>1. DataPlace(v)
      BY DEF DataPlaces
    <3>2. CASE v = t
      BY <1>0, <1>1, <1>2, <2>0, <2>5, <3>1, <3>2
      DEF DataTypes, DataPlaces, DataPlace, Setting, Deleting, KeyHeld
    <3>3. CASE v # t
      BY <1>0, <1>1, <1>2, <2>0, <2>5, <3>1, <3>3
      DEF DataTypes, DataPlaces, DataPlace, Setting, Deleting, KeyHeld
    <3> QED
      BY <3>2, <3>3
  <2>3. DataRounds'
    <3> SUFFICES ASSUME NEW v \in Threads PROVE DataRound(v)'
      BY DEF DataRounds
    <3>1. DataRound(v)
      BY DEF DataRounds
    <3>2. CASE v = t
      BY <1>0, <1>1, <1>2, <2>0, <2>5, <3>1, <3>2, ChainHead
      DEF DataTypes, DataPlaces, DataPlace, DataRound, Setting, Deleting, KeyHeld
    <3>3. CASE v # t
      BY <1>0, <1>1, <1>2, <2>0, <2>5, <3>1, <3>3, ChainHead
      DEF DataTypes, DataPlaces, DataPlace, DataRound, Setting, Deleting, KeyHeld
    <3> QED
      BY <3>2, <3>3
  <2>4. DataChains'
    <3>1. D!ChainsAgree'
      BY ContainsIsBoolean, <1>0, <1>1, <1>2, <2>0, <2>5
      DEF DataTypes, DataPlaces, DataPlace, DataChains, D!ChainsAgree, Setting, Deleting,
          KeyHeld
    <3>2. D!NextIsThere'
      BY <1>0, <1>1, <1>2, <2>0, <2>5
      DEF DataTypes, DataPlaces, DataPlace, DataChains, D!NextIsThere, Setting, Deleting,
          KeyHeld
    <3>3. D!FreedUnlocked'
      <4>1. key[k] # "freed"
        BY <1>0 DEF DataChains, D!ChainsAgree
      <4> QED
        BY <1>0, <1>1, <4>1 DEF DataTypes, DataChains, D!FreedUnlocked
    <3>4. D!ValuesAssociated'
      BY <1>0, <1>1, <1>2, <2>0, <2>5
      DEF DataTypes, DataPlaces, DataPlace, DataChains, D!ValuesAssociated, Setting,
          Deleting, KeyHeld
    <3>5. \A v \in Threads, l \in Keys : key'[l] = "none" => ~value'[v][l]
      BY <1>0, <1>1, <1>2, <2>0, <2>5 DEF DataTypes, DataChains
    <3> QED
      BY <3>1, <3>2, <3>3, <3>4, <3>5 DEF DataChains
  <2> QED
    BY <2>1, <2>2, <2>3, <2>4
<1>3. CASE ~(value[t][k] /\ iterations[t] <= Iterations)
  <2>0. /\ keys' = [keys EXCEPT ![t] = D!Without(@, k)]
        /\ threads' = [threads EXCEPT ![k] = D!Without(@, t)]
        /\ UNCHANGED <<remaining, given>>
    BY <1>3 DEF k
  <2>5. TakenOut(t, k)
    BY <1>0, <2>0, Destroyed
  <2> HIDE DEF D!TrySucceeds, after
  <2>1. DataTypes'
    BY <1>0, <1>1, <1>3, <2>0, <2>5 DEF TakenOut, after, DataTypes, D!Places
  <2>2. DataPlaces'
    <3> SUFFICES ASSUME NEW v \in Threads PROVE DataPlace(v)'
      BY DEF DataPlaces
    <3>1. DataPlace(v)
      BY DEF DataPlaces
    <3>2. CASE v = t
      BY <1>0, <1>1, <1>3, <2>0, <2>5, <3>1, <3>2
      DEF TakenOut, after, DataTypes, DataPlaces, DataPlace, Setting, Deleting, KeyHeld
    <3>3. CASE v # t
      <4>1. threads[k] # <<>>
        BY <1>0, Unused
      <4> QED
        BY <1>0, <1>1, <2>0, <2>5, <3>1, <3>3, <4>1
        DEF TakenOut, DataTypes, DataPlaces, DataPlace, Setting, Deleting, KeyHeld
    <3> QED
      BY <3>2, <3>3
  <2>3. DataRounds'
    <3> SUFFICES ASSUME NEW v \in Threads PROVE DataRound(v)'
      BY DEF DataRounds
    <3>1. DataRound(v)
      BY DEF DataRounds
    <3>2. CASE v = t
      <4>1. ~D!Contains(keys'[t], k) /\ cur'[t] = k
        BY <1>0, <1>1, <2>5 DEF TakenOut, after
      <4>2. remaining[t] \/ nextAssoc'[t] = D!Head1(keys'[t])
        BY <1>0, <1>1, <2>5, <3>1, <3>2 DEF TakenOut, after, DataTypes, DataRound
      <4> QED
        BY <1>0, <1>1, <2>0, <3>1, <3>2, <4>1, <4>2 DEF DataTypes, DataRound
    <3>3. CASE v # t
      BY <1>0, <1>1, <1>3, <2>0, <2>5, <3>1, <3>3, ChainHead
      DEF TakenOut, after, DataTypes, DataPlaces, DataPlace, DataRound, Setting, Deleting,
          KeyHeld
    <3> QED
      BY <3>2, <3>3
  <2>4. DataChains'
    <3>1. D!ChainsAgree'
      BY ContainsIsBoolean, <1>0, <1>1, <1>3, <2>0, <2>5
      DEF TakenOut, after, DataTypes, DataPlaces, DataPlace, DataChains, D!ChainsAgree,
          Setting, Deleting, KeyHeld
    <3>2. D!NextIsThere'
      BY <1>0, <1>1, <1>3, <2>0, <2>5
      DEF TakenOut, after, DataTypes, DataPlaces, DataPlace, DataChains, D!NextIsThere,
          Setting, Deleting, KeyHeld
    <3>3. D!FreedUnlocked'
      <4>1. key[k] # "freed"
        BY <1>0 DEF DataChains, D!ChainsAgree
      <4> QED
        BY <1>0, <1>1, <4>1 DEF DataTypes, DataChains, D!FreedUnlocked
    <3>4. D!ValuesAssociated'
      BY <1>0, <1>1, <1>3, <2>0, <2>5
      DEF TakenOut, after, DataTypes, DataPlaces, DataPlace, DataChains,
          D!ValuesAssociated, Setting, Deleting, KeyHeld
    <3>5. \A v \in Threads, l \in Keys : key'[l] = "none" => ~value'[v][l]
      BY <1>0, <1>1, <1>3, <2>0, <2>5 DEF TakenOut, after, DataTypes, DataChains
    <3> QED
      BY <3>1, <3>2, <3>3, <3>4, <3>5 DEF DataChains
  <2> QED
    BY <2>1, <2>2, <2>3, <2>4
<1> QED
  BY <1>2, <1>3

\* The action of ValuesGiven.
ValueGiven ==
  \A t \in Threads, k \in Keys \ Plain :
    value[t][k] /\ ~value'[t][k] /\ key[k] = "live" /\ D!Exiting(t) /\ D!At(t, "try") =>
      (k \in given'[t] /\ dpc'[t] = "unlock") \/ iterations[t] > Iterations

\* The invariant holds at the start, and every step keeps it.
LEMMA DataInitially == ASSUME DataAssumption, D!Init PROVE DataInv
<1> USE DEF DataAssumption, D!Init
<1>1. \A x : ~D!Contains(<<>>, x)
  BY DEF D!Contains
<1>2. D!IsInjective(<<>>)
  BY DEF D!IsInjective
<1>3. DataTypes
  BY DEF DataTypes, D!Places
<1>4. DataPlaces
  BY DEF DataPlaces, DataPlace, Setting, Deleting, KeyHeld
<1>5. DataRounds
  BY DEF DataRounds, DataRound, D!Exiting
<1>6. DataChains
  BY <1>1, <1>2, ContainsIsBoolean
  DEF DataChains, D!ChainsAgree, D!NextIsThere, D!FreedUnlocked, D!ValuesAssociated, D!At
<1> QED
  BY <1>3, <1>4, <1>5, <1>6 DEF DataInv

LEMMA DataKept == ASSUME DataAssumption, DataInv, [D!Next]_D!vars PROVE DataInv'
<1>0. CASE UNCHANGED D!vars
  BY <1>0
  DEF DataInv, DataTypes, DataPlaces, DataPlace, DataRounds, DataRound, DataChains,
      D!ChainsAgree, D!NextIsThere, D!FreedUnlocked, D!ValuesAssociated, D!At, D!Exiting,
      D!vars, D!chains, D!locks, D!rounds
<1> SUFFICES ASSUME D!Next PROVE DataInv'
  BY <1>0
<1>1. PICK t \in Threads : D!Call(t) \/ D!Step(t)
  BY DEF D!Next
<1>2. CASE D!Call(t)
  BY <1>2, KeyCreateKeeps, SetCallKeeps, DeleteCallKeeps, SetPlainKeeps, ExitKeeps
  DEF D!Call
<1>3. CASE D!Step(t)
  BY <1>3, SetLocksKeyKeeps, SetAssociatesKeeps, SetValueKeeps, DeleteLocksKeyKeeps,
     DeleteAssocKeeps, DeleteTlsKeeps, DeleteDrainsKeeps, RoundKeeps, NextAssocKeeps,
     TryFailsKeeps, TrySucceedsKeeps, UnlockKeeps, DestructorReturnsKeeps
  DEF D!Step
<1> QED
  BY <1>1, <1>2, <1>3

\* What is said of the chains, of the locks, and of who has ended.
LEMMA DataSound == ASSUME DataAssumption, DataInv PROVE ChainsSound
<1> USE DEF DataInv
<1>1. D!TypeOK
  <2>1. \A t \in Threads : D!ToSet(keys[t]) \subseteq Keys \ Plain
    <3> SUFFICES ASSUME NEW t \in Threads PROVE D!ToSet(keys[t]) \subseteq Keys \ Plain
      OBVIOUS
    <3>1. keys[t] \in Seq(Keys \ Plain)
      BY DEF DataTypes
    <3> QED
      BY <3>1 DEF D!ToSet
  <2>2. iterations \in [Threads -> 0..(Iterations + 2)]
    BY DEF DataTypes, DataAssumption
  <2> QED
    BY <2>1, <2>2 DEF DataTypes, D!TypeOK
<1>2. D!NothingLeft
  BY ChainHead
  DEF DataRounds, DataRound, DataChains, D!ValuesAssociated, D!NothingLeft, D!At
<1> QED
  BY <1>1, <1>2 DEF ChainsSound, DataChains

\* The chains of threads and of keys have the same associations, each once; an
\* ending thread comes next to one that is there, whatever keys are deleted in
\* between; a value is only set where a destructor will be found; and a thread that
\* has ended leaves nothing behind: for any number of threads, keys and rounds.
THEOREM DataSafety ==
  ASSUME DataAssumption
  PROVE  D!Spec => []ChainsSound
<1> QED
  BY DataInitially, DataKept, DataSound, PTL DEF D!Spec

\* The value that is taken from an ending thread is given to the destructor, but
\* for the rounds being used up.
THEOREM ValuesReach ==
  ASSUME DataAssumption
  PROVE  D!Spec => D!ValuesGiven
<1>1. ASSUME DataInv, D!Next PROVE ValueGiven
  <2> SUFFICES ASSUME NEW t \in Threads, NEW k \in Keys \ Plain,
                      value[t][k], ~value'[t][k], key[k] = "live", dpc[t] = "try"
               PROVE  (k \in given'[t] /\ dpc'[t] = "unlock") \/ iterations[t] > Iterations
    BY DEF ValueGiven, D!At
  <2> USE DEF DataInv, DataTypes, DataAssumption, D!At, D!Goto, D!chains, D!locks, D!rounds
  <2>1. PICK u \in Threads : D!Call(u) \/ D!Step(u)
    BY <1>1 DEF D!Next
  <2>2. value'[t] # value[t]
    OBVIOUS
  <2>3. CASE D!TrySucceeds(u)
    <3>1. u = t /\ cur[t] = k
      BY <1>1, <2>2, <2>3 DEF DataPlaces, DataPlace, D!TrySucceeds
    <3> QED
      BY <1>1, <2>3, <3>1 DEF D!TrySucceeds
  <2>4. CASE D!DeleteTls(u)
    BY <1>1, <2>4 DEF DataPlaces, DataPlace, Deleting, D!DeleteTls
  <2>5. CASE D!SetValue(u)
    BY <1>1, <2>5 DEF DataPlaces, DataPlace, Setting, D!SetValue
  <2>6. CASE D!Call(u)
    BY <1>1, <2>2, <2>6
    DEF D!Call, D!KeyCreate, D!SetCall, D!DeleteCall, D!SetPlain, D!Exit, D!Calls
  <2>7. CASE D!Step(u) /\ UNCHANGED value
    BY <2>2, <2>7
  <2> QED
    BY <2>1, <2>3, <2>4, <2>5, <2>6, <2>7
    DEF D!Step, D!SetLocksKey, D!SetAssociates, D!DeleteLocksKey, D!DeleteAssoc,
        D!DeleteDrains,
        D!Round, D!NextAssoc, D!TryFails, D!Unlock, D!DestructorReturns
<1> QED
  BY <1>1, DataInitially, DataKept, PTL DEF D!Spec, D!ValuesGiven, ValueGiven

-----------------------------------------------------------------------------
(* Cleanup handlers. *)

\* What is being executed, the outermost first; and whether it goes on, or is to be
\* left by the longjmp of a ptw32_throw above it.
Frame(d) == calls[Len(calls) + 1 - d]
Alive(d) == d \in 1..Len(calls) /\ \A e \in d..Len(calls) : Frame(e) # Throw

\* A handler that ends the thread has been begun twice.
RunTwice == \E g \in Exits : runs[g] > 1

HandlerTypes ==
  /\ cleanupKey \in Handlers \union {Null}
  /\ prev \in [Handlers -> Handlers \union {Null}]
  /\ calls \in Seq(Handlers \union {Throw})
  /\ scope \in [Handlers -> Nat]
  /\ over \in BOOLEAN
  /\ pushed \in SUBSET Handlers
  /\ skipped \in SUBSET Handlers
  /\ runs \in [Handlers -> Nat]
  /\ returned \in [Handlers -> Nat]

\* What has become of each handler.
Histories ==
  \A h \in Handlers :
    /\ returned[h] <= 1
    /\ h \in skipped => runs[h] = 0
    /\ h \notin pushed => runs[h] = 0 /\ returned[h] = 0 /\ h \notin skipped
    /\ runs[h] > 1 => RunTwice

\* f is the chain: all that have been pushed, and neither returned nor popped.
Chained(f) ==
  /\ C!IsChain(f)
  /\ \A i, j \in 1..Len(f) : f[i] = f[j] => i = j
  /\ \A h \in Handlers :
       (\E i \in 1..Len(f) : f[i] = h) <=> h \in pushed \ skipped /\ returned[h] = 0
  /\ \A i \in 1..Len(f) : scope[f[i]] <= Len(calls)
  /\ over /\ posix => f = <<>>

\* A handler that is alive is in the chain, behind those, and only those, that
\* have been pushed in its scope or further in; and scopes are nested.
Framed(f) ==
  /\ \A d \in 1..Len(calls) : Alive(d) =>
       \E p \in 1..Len(f) :
         f[p] = Frame(d) /\ \A i \in 1..Len(f) : i < p <=> scope[f[i]] >= d
  /\ \A d \in 2..Len(calls) : Alive(d - 1) => scope[Frame(d)] = d - 1

\* A handler in the chain that has been begun is being executed, further in than
\* it was pushed.  If it is not alive, one that has ended the thread is in front of
\* it, and will be begun a second time before this one is.
Begun(f) ==
  \A i \in 1..Len(f) : runs[f[i]] > 0 =>
    /\ \E d \in 1..Len(calls) : Frame(d) = f[i] /\ scope[f[i]] < d
    /\ \/ \E d \in 1..Len(calls) : Alive(d) /\ Frame(d) = f[i]
       \/ RunTwice
       \/ \E j \in 1..i :
            /\ f[j] \in Exits /\ runs[f[j]] > 0
            /\ \A d \in 1..Len(calls) : Alive(d) => Frame(d) # f[j]

\* There is a sequence that is the chain, of which all this holds.
HandlersInv ==
  /\ HandlerTypes /\ Histories
  /\ \E f \in Seq(Handlers) : Chained(f) /\ Framed(f) /\ Begun(f)

\* Null is no handler, and ptw32_throw is none.
HandlersAssumption ==
  /\ Exits \subseteq Handlers /\ IsFiniteSet(Handlers)
  /\ Null \notin Handlers /\ Throw \notin Handlers

\* Something is put in front of a sequence, or its head is taken.
LEMMA Prepended ==
  ASSUME NEW El, NEW q \in Seq(El), NEW e \in El
  PROVE  LET r == <<e>> \o q IN
         /\ r \in Seq(El) /\ Len(r) = Len(q) + 1 /\ r # <<>> /\ r[1] = e
         /\ \A i \in 1..Len(q) : r[i + 1] = q[i]
         /\ \A i \in 2..Len(r) : r[i] = q[i - 1]
<1> DEFINE r == <<e>> \o q
<1>1. /\ r \in Seq(El) /\ Len(r) = Len(q) + 1 /\ r # <<>> /\ r[1] = e
      /\ \A i \in 1..Len(q) : r[i + 1] = q[i]
  OBVIOUS
<1>2. ASSUME NEW i \in 2..Len(r) PROVE r[i] = q[i - 1]
  <2>1. i - 1 \in 1..Len(q) /\ (i - 1) + 1 = i
    BY <1>1
  <2> QED
    BY <1>1, <2>1
<1> QED
  BY <1>1, <1>2

LEMMA Headless ==
  ASSUME NEW El, NEW q \in Seq(El), q # <<>>
  PROVE  LET r == Tail(q) IN
         /\ r \in Seq(El) /\ Len(r) = Len(q) - 1 /\ Head(q) = q[1] /\ Len(q) >= 1
         /\ \A i \in 1..Len(r) : r[i] = q[i + 1]
         /\ \A i \in 2..Len(q) : q[i] = r[i - 1]
<1> DEFINE r == Tail(q)
<1>1. /\ r \in Seq(El) /\ Len(r) = Len(q) - 1 /\ Head(q) = q[1] /\ Len(q) >= 1
      /\ \A i \in 1..Len(r) : r[i] = q[i + 1]
  OBVIOUS
<1>2. ASSUME NEW i \in 2..Len(q) PROVE q[i] = r[i - 1]
  <2>1. i - 1 \in 1..Len(r) /\ (i - 1) + 1 = i
    BY <1>1
  <2> QED
    BY <1>1, <2>1
<1> QED
  BY <1>1, <1>2

LEMMA Called ==
  ASSUME HandlerTypes, NEW x \in Handlers \union {Throw}, calls' = <<x>> \o calls
  PROVE  /\ calls' \in Seq(Handlers \union {Throw}) /\ Len(calls') = Len(calls) + 1
         /\ Frame(Len(calls))' = x
         /\ \A d \in 1..Len(calls) : Frame(d)' = Frame(d)
<1> DEFINE r == calls'
<1>1. calls \in Seq(Handlers \union {Throw})
  BY DEF HandlerTypes
<1>2. /\ r \in Seq(Handlers \union {Throw}) /\ Len(r) = Len(calls) + 1 /\ r[1] = x
      /\ \A i \in 1..Len(calls) : r[i + 1] = calls[i]
  BY <1>1, Prepended
<1>3. Frame(Len(calls))' = x
  BY <1>1, <1>2 DEF Frame
<1>4. ASSUME NEW d \in 1..Len(calls) PROVE Frame(d)' = Frame(d)
  <2>1. Len(calls) + 1 - d \in 1..Len(calls) /\ Len(r) + 1 - d = (Len(calls) + 1 - d) + 1
    BY <1>1, <1>2
  <2> QED
    BY <1>2, <2>1 DEF Frame
<1> QED
  BY <1>2, <1>3, <1>4

LEMMA Left ==
  ASSUME HandlerTypes, calls # <<>>, calls' = Tail(calls)
  PROVE  /\ calls' \in Seq(Handlers \union {Throw}) /\ Len(calls') = Len(calls) - 1
         /\ \A d \in 1..Len(calls') : Frame(d)' = Frame(d)
<1> DEFINE r == calls'
<1>1. calls \in Seq(Handlers \union {Throw})
  BY DEF HandlerTypes
<1>2. /\ r \in Seq(Handlers \union {Throw}) /\ Len(r) = Len(calls) - 1
      /\ \A i \in 1..Len(r) : r[i] = calls[i + 1]
  BY <1>1, Headless
<1>3. ASSUME NEW d \in 1..Len(r) PROVE Frame(d)' = Frame(d)
  <2>1. Len(r) + 1 - d \in 1..Len(r) /\ (Len(r) + 1 - d) + 1 = Len(calls) + 1 - d
    BY <1>1, <1>2
  <2> QED
    BY <1>2, <2>1 DEF Frame
<1> QED
  BY <1>2, <1>3

LEMMA Innermosts ==
  ASSUME HandlerTypes
  PROVE  /\ Len(calls) \in Nat
         /\ calls # <<>> =>
              /\ Len(calls) \in 1..Len(calls)
              /\ Head(calls) = Frame(Len(calls)) /\ Head(calls) \in Handlers \union {Throw}
         /\ calls = <<>> => Len(calls) = 0
         /\ C!Active /\ calls # <<>> => Alive(Len(calls)) /\ Head(calls) \in Handlers
<1>1. calls \in Seq(Handlers \union {Throw})
  BY DEF HandlerTypes
<1>2. Len(calls) \in Nat /\ (calls = <<>> => Len(calls) = 0)
  BY <1>1
<1>3. ASSUME calls # <<>>
      PROVE  /\ Len(calls) \in 1..Len(calls) /\ Head(calls) = Frame(Len(calls))
             /\ Head(calls) \in Handlers \union {Throw}
  <2>1. Len(calls) >= 1 /\ Head(calls) = calls[1] /\ Head(calls) \in Handlers \union {Throw}
    BY <1>1, <1>3
  <2>2. Len(calls) + 1 - Len(calls) = 1
    BY <1>2
  <2> QED
    BY <1>2, <2>1, <2>2 DEF Frame
<1>4. ASSUME C!Active, calls # <<>> PROVE Alive(Len(calls)) /\ Head(calls) \in Handlers
  BY <1>2, <1>3, <1>4 DEF C!Active, Alive
<1> QED
  BY <1>2, <1>3, <1>4

LEMMA PushKeeps ==
  ASSUME HandlersAssumption, HandlersInv, NEW h \in Handlers, C!Push(h)
  PROVE  HandlersInv'
<1> USE DEF HandlersAssumption
<1>1. /\ C!Active /\ h \notin pushed
      /\ prev' = [prev EXCEPT ![h] = cleanupKey] /\ cleanupKey' = h
      /\ pushed' = pushed \union {h} /\ scope' = [scope EXCEPT ![h] = Len(calls)]
      /\ UNCHANGED <<posix, calls, over, runs, returned, skipped>>
  BY DEF C!Push
<1>2. HandlerTypes /\ Histories
  BY DEF HandlersInv
<1>3. PICK f \in Seq(Handlers) : Chained(f) /\ Framed(f) /\ Begun(f)
  BY DEF HandlersInv
<1> DEFINE g == <<h>> \o f
<1>4. /\ g \in Seq(Handlers) /\ Len(g) = Len(f) + 1 /\ g # <<>> /\ g[1] = h
      /\ \A i \in 1..Len(f) : g[i + 1] = f[i]
      /\ \A i \in 2..Len(g) : g[i] = f[i - 1]
  BY <1>3, Prepended
<1> HIDE DEF g
<1>5. /\ Len(calls) \in Nat /\ ~over
      /\ \A d : Frame(d)' = Frame(d) /\ (Alive(d)' <=> Alive(d))
  BY <1>1, <1>2, Innermosts DEF C!Active, Frame, Alive
<1>6. /\ \A i \in 1..Len(f) : f[i] \in Handlers /\ f[i] # h
      /\ runs[h] = 0 /\ returned[h] = 0 /\ h \notin skipped
      /\ f = <<>> <=> Len(f) = 0
      /\ Len(f) \in Nat
  BY <1>1, <1>2, <1>3 DEF Histories, Chained
<1>7. HandlerTypes'
  BY <1>1, <1>2, <1>5 DEF HandlerTypes
<1>8. Histories'
  BY <1>1, <1>2 DEF Histories, HandlerTypes, RunTwice
<1>9. Chained(g)'
  <2>1. C!IsChain(g)'
    <3> SUFFICES ASSUME NEW i \in 1..Len(g)
                 PROVE  prev'[g[i]] = IF i = Len(g) THEN Null ELSE g[i + 1]
      BY <1>1, <1>4 DEF C!IsChain
    <3>1. CASE i = 1
      <4>1. prev'[g[i]] = cleanupKey
        BY <1>1, <1>2, <1>4, <3>1 DEF HandlerTypes
      <4> QED
        BY <1>3, <1>4, <1>6, <3>1, <4>1 DEF Chained, C!IsChain
    <3>2. CASE i # 1
      <4>1. i - 1 \in 1..Len(f) /\ g[i] = f[i - 1]
        BY <1>4, <1>6, <3>2
      <4>2. prev'[g[i]] = prev[f[i - 1]]
        BY <1>1, <1>2, <1>6, <4>1 DEF HandlerTypes
      <4>3. i # Len(g) => g[i + 1] = f[i]
        BY <1>4, <1>6, <4>1
      <4> QED
        BY <1>3, <1>4, <4>1, <4>2, <4>3 DEF Chained, C!IsChain
    <3> QED
      BY <3>1, <3>2
  <2>2. \A i, j \in 1..Len(g) : g[i] = g[j] => i = j
    <3> SUFFICES ASSUME NEW i \in 1..Len(g), NEW j \in 1..Len(g), g[i] = g[j] PROVE i = j
      OBVIOUS
    <3>1. \A k \in 1..Len(g) : k # 1 => k - 1 \in 1..Len(f) /\ g[k] = f[k - 1]
      BY <1>4, <1>6
    <3>2. CASE i = 1 \/ j = 1
      BY <1>4, <1>6, <3>1, <3>2
    <3>3. CASE i # 1 /\ j # 1
      <4>1. i - 1 = j - 1
        BY <1>3, <3>1, <3>3 DEF Chained
      <4> QED
        BY <1>4, <4>1
    <3> QED
      BY <3>2, <3>3
  <2>3. ASSUME NEW x \in Handlers
        PROVE  (\E i \in 1..Len(g) : g[i] = x) <=> x = h \/ \E i \in 1..Len(f) : f[i] = x
    <3>1. ASSUME NEW i \in 1..Len(g), g[i] = x PROVE x = h \/ \E k \in 1..Len(f) : f[k] = x
      <4>1. i # 1 => i - 1 \in 1..Len(f) /\ g[i] = f[i - 1]
        BY <1>4, <1>6
      <4> QED
        BY <1>4, <3>1, <4>1
    <3>2. ASSUME NEW i \in 1..Len(f), f[i] = x PROVE \E k \in 1..Len(g) : g[k] = x
      <4>1. i + 1 \in 1..Len(g) /\ g[i + 1] = f[i]
        BY <1>4, <1>6
      <4> QED
        BY <3>2, <4>1
    <3>3. 1 \in 1..Len(g)
      BY <1>4, <1>6
    <3> QED
      BY <1>4, <3>1, <3>2, <3>3
  <2>4. \A x \in Handlers :
           (\E i \in 1..Len(g) : g[i] = x) <=> x \in pushed' \ skipped' /\ returned'[x] = 0
    BY <1>1, <1>3, <1>6, <2>3 DEF Chained
  <2>5. \A i \in 1..Len(g) : scope'[g[i]] <= Len(calls)
    <3> SUFFICES ASSUME NEW i \in 1..Len(g) PROVE scope'[g[i]] <= Len(calls)
      OBVIOUS
    <3>1. CASE i = 1
      BY <1>1, <1>2, <1>4, <1>5, <3>1 DEF HandlerTypes
    <3>2. CASE i # 1
      <4>1. i - 1 \in 1..Len(f) /\ g[i] = f[i - 1]
        BY <1>4, <1>6, <3>2
      <4> QED
        BY <1>1, <1>2, <1>3, <1>6, <4>1, SMTT(60) DEF HandlerTypes, Chained
    <3> QED
      BY <3>1, <3>2
  <2> QED
    BY <1>1, <1>5, <2>1, <2>2, <2>4, <2>5 DEF Chained
<1>10. ASSUME NEW i \in 1..Len(g), i # 1
       PROVE  /\ i - 1 \in 1..Len(f) /\ g[i] = f[i - 1] /\ f[i - 1] \in Handlers
              /\ scope'[g[i]] = scope[f[i - 1]]
  <2>1. i - 1 \in 1..Len(f) /\ g[i] = f[i - 1]
    BY <1>4, <1>6, <1>10
  <2> QED
    BY <1>1, <1>2, <1>6, <2>1 DEF HandlerTypes
<1>11. Framed(g)'
  <2>1. ASSUME NEW d \in 1..Len(calls), Alive(d)
        PROVE  \E p \in 1..Len(g) :
                 g[p] = Frame(d) /\ \A i \in 1..Len(g) : i < p <=> scope'[g[i]] >= d
    <3>1. PICK p \in 1..Len(f) :
            f[p] = Frame(d) /\ \A i \in 1..Len(f) : i < p <=> scope[f[i]] >= d
      BY <1>3, <2>1 DEF Framed
    <3>2. p + 1 \in 1..Len(g) /\ g[p + 1] = Frame(d)
      BY <1>4, <1>6, <3>1
    <3>3. ASSUME NEW i \in 1..Len(g) PROVE i < p + 1 <=> scope'[g[i]] >= d
      <4>1. CASE i = 1
        BY <1>1, <1>2, <1>4, <1>5, <4>1 DEF HandlerTypes
      <4>2. CASE i # 1
        <5>1. /\ i - 1 \in 1..Len(f) /\ scope'[g[i]] = scope[f[i - 1]]
              /\ i - 1 < p <=> scope[f[i - 1]] >= d
          BY <1>10, <3>1, <4>2
        <5> QED
          BY <5>1
      <4> QED
        BY <4>1, <4>2
    <3> QED
      BY <3>2, <3>3
  <2>2. ASSUME NEW d \in 2..Len(calls), Alive(d - 1) PROVE scope'[Frame(d)] = d - 1
    <3>1. scope[Frame(d)] = d - 1 /\ d \in 1..Len(calls) /\ Alive(d)
      BY <1>3, <1>5, <2>2 DEF Framed, Alive
    <3>2. \E p \in 1..Len(f) : f[p] = Frame(d)
      BY <1>3, <3>1 DEF Framed
    <3>3. Frame(d) \in Handlers /\ Frame(d) # h
      BY <1>6, <3>2
    <3> QED
      BY <1>1, <1>2, <3>1, <3>3 DEF HandlerTypes
  <2> QED
    BY <1>1, <1>5, <2>1, <2>2 DEF Framed
<1>12. Begun(g)'
  <2> SUFFICES ASSUME NEW i \in 1..Len(g), runs[g[i]] > 0
               PROVE  /\ \E d \in 1..Len(calls) : Frame(d) = g[i] /\ scope'[g[i]] < d
                      /\ \/ \E d \in 1..Len(calls) : Alive(d) /\ Frame(d) = g[i]
                         \/ RunTwice
                         \/ \E j \in 1..i :
                              /\ g[j] \in Exits /\ runs[g[j]] > 0
                              /\ \A d \in 1..Len(calls) : Alive(d) => Frame(d) # g[j]
    BY <1>1, <1>5 DEF Begun, RunTwice
  <2>1. i # 1
    BY <1>4, <1>6
  <2>2. i - 1 \in 1..Len(f) /\ g[i] = f[i - 1] /\ scope'[g[i]] = scope[f[i - 1]]
    BY <1>10, <2>1
  <2>3. ASSUME NEW j \in 1..(i - 1) PROVE j + 1 \in 1..i /\ g[j + 1] = f[j]
    BY <1>4, <1>6, <2>2
  <2>4. /\ \E d \in 1..Len(calls) : Frame(d) = f[i - 1] /\ scope[f[i - 1]] < d
        /\ \/ \E d \in 1..Len(calls) : Alive(d) /\ Frame(d) = f[i - 1]
           \/ RunTwice
           \/ \E j \in 1..(i - 1) :
                /\ f[j] \in Exits /\ runs[f[j]] > 0
                /\ \A d \in 1..Len(calls) : Alive(d) => Frame(d) # f[j]
    BY <1>3, <2>2 DEF Begun
  <2>5. CASE \E j \in 1..(i - 1) :
               /\ f[j] \in Exits /\ runs[f[j]] > 0
               /\ \A d \in 1..Len(calls) : Alive(d) => Frame(d) # f[j]
    <3>1. PICK j \in 1..(i - 1) :
            /\ f[j] \in Exits /\ runs[f[j]] > 0
            /\ \A d \in 1..Len(calls) : Alive(d) => Frame(d) # f[j]
      BY <2>5
    <3>2. j + 1 \in 1..i /\ g[j + 1] = f[j]
      BY <2>3
    <3> QED
      BY <2>2, <2>4, <3>1, <3>2
  <2> QED
    BY <2>2, <2>4, <2>5
<1> QED
  BY <1>4, <1>7, <1>8, <1>9, <1>11, <1>12 DEF HandlersInv

\* What is called is alive unless it is ptw32_throw, which leaves nothing alive.
LEMMA CalledAlive ==
  ASSUME HandlerTypes, NEW x \in Handlers \union {Throw}, calls' = <<x>> \o calls
  PROVE  /\ \A d \in 1..Len(calls) : Alive(d)' <=> Alive(d) /\ x # Throw
         /\ Alive(Len(calls))' <=> x # Throw
<1>1. /\ Len(calls) \in Nat /\ Len(calls') = Len(calls) + 1
      /\ Frame(Len(calls))' = x
      /\ \A d \in 1..Len(calls) : Frame(d)' = Frame(d)
  BY Called, Innermosts
<1>2. ASSUME NEW d \in 1..Len(calls) PROVE Alive(d)' <=> Alive(d) /\ x # Throw
  <2>1. \A e : e \in d..Len(calls') <=> e \in d..Len(calls) \/ e = Len(calls')
    BY <1>1
  <2>2. \A e \in d..Len(calls) : Frame(e)' = Frame(e)
    BY <1>1
  <2>3. d \in 1..Len(calls')
    BY <1>1
  <2> QED
    BY <1>1, <2>1, <2>2, <2>3 DEF Alive
<1>3. Alive(Len(calls))' <=> x # Throw
  BY <1>1 DEF Alive
<1> QED
  BY <1>2, <1>3

LEMMA LeftAlive ==
  ASSUME HandlerTypes, calls # <<>>, Head(calls) # Throw, calls' = Tail(calls)
  PROVE  \A d \in 1..Len(calls') : Alive(d)' <=> Alive(d)
<1>1. /\ Len(calls) \in Nat /\ Len(calls') = Len(calls) - 1
      /\ Frame(Len(calls)) # Throw
      /\ \A d \in 1..Len(calls') : Frame(d)' = Frame(d)
  BY Left, Innermosts
<1>2. ASSUME NEW d \in 1..Len(calls') PROVE Alive(d)' <=> Alive(d)
  <2>1. \A e : e \in d..Len(calls) <=> e \in d..Len(calls') \/ e = Len(calls)
    BY <1>1
  <2>2. \A e \in d..Len(calls') : Frame(e)' = Frame(e)
    BY <1>1
  <2>3. d \in 1..Len(calls)
    BY <1>1
  <2> QED
    BY <1>1, <2>1, <2>2, <2>3 DEF Alive
<1> QED
  BY <1>2

\* The handler pushed last is taken out of the chain.
LEMMA Dropped ==
  ASSUME HandlersAssumption, HandlerTypes, NEW f \in Seq(Handlers), f # <<>>, Chained(f),
         cleanupKey' = prev[f[1]], UNCHANGED <<posix, prev, scope, over>>, Len(calls') \in Nat,
         \A x \in Handlers :
           x \in pushed' \ skipped' /\ returned'[x] = 0
             <=> x # f[1] /\ x \in pushed \ skipped /\ returned[x] = 0,
         \A i \in 2..Len(f) : scope[f[i]] <= Len(calls')
  PROVE  Chained(Tail(f))'
<1> USE DEF HandlersAssumption
<1> DEFINE g == Tail(f)
<1>0. /\ g \in Seq(Handlers) /\ Len(g) = Len(f) - 1 /\ Len(f) >= 1 /\ Len(f) \in Nat
      /\ \A i \in 1..Len(g) : g[i] = f[i + 1]
      /\ \A i \in 2..Len(f) : f[i] = g[i - 1]
  BY Headless
<1> HIDE DEF g
<1>1. /\ g \in Seq(Handlers) /\ Len(g) = Len(f) - 1 /\ Len(f) >= 1 /\ Len(f) \in Nat
      /\ \A i \in 1..Len(g) : g[i] = f[i + 1] /\ i + 1 \in 2..Len(f) /\ i + 1 \in 1..Len(f)
      /\ \A i \in 2..Len(f) : f[i] = g[i - 1] /\ i - 1 \in 1..Len(g)
      /\ \A i \in 1..Len(f) : f[i] \in Handlers
  <2>1. /\ g \in Seq(Handlers) /\ Len(g) = Len(f) - 1 /\ Len(f) >= 1 /\ Len(f) \in Nat
        /\ \A i \in 1..Len(f) : f[i] \in Handlers
    BY <1>0
  <2>2. \A i \in 1..Len(g) : g[i] = f[i + 1] /\ i + 1 \in 2..Len(f) /\ i + 1 \in 1..Len(f)
    BY <1>0
  <2>3. \A i \in 2..Len(f) : f[i] = g[i - 1] /\ i - 1 \in 1..Len(g)
    BY <1>0
  <2> QED
    BY <2>1, <2>2, <2>3
<1>2. g = <<>> <=> Len(g) = 0
  BY <1>1
<1>3. C!IsChain(g)'
  <2>1. cleanupKey' = IF g = <<>> THEN Null ELSE g[1]
    <3>1. prev[f[1]] = IF 1 = Len(f) THEN Null ELSE f[2]
      <4>1. \A i \in 1..Len(f) : prev[f[i]] = IF i = Len(f) THEN Null ELSE f[i + 1]
        BY DEF Chained, C!IsChain
      <4>2. 1 \in 1..Len(f) /\ 1 + 1 = 2
        BY <1>1
      <4> QED
        BY <4>1, <4>2
    <3>2. 1 # Len(f) => 2 \in 2..Len(f) /\ f[2] = g[1]
      <4>1. 1 # Len(f) => 2 \in 2..Len(f) /\ 2 - 1 = 1
        BY <1>1
      <4> QED
        BY <1>1, <4>1
    <3> QED
      BY <1>1, <1>2, <3>1, <3>2
  <2>2. ASSUME NEW i \in 1..Len(g)
        PROVE  prev[g[i]] = IF i = Len(g) THEN Null ELSE g[i + 1]
    <3>1. prev[f[i + 1]] = IF i + 1 = Len(f) THEN Null ELSE f[(i + 1) + 1]
      BY <1>1 DEF Chained, C!IsChain
    <3>2. i # Len(g) => g[i + 1] = f[(i + 1) + 1]
      BY <1>1
    <3> QED
      BY <1>1, <3>1, <3>2
  <2> QED
    BY <2>1, <2>2 DEF C!IsChain
<1>4. \A i, j \in 1..Len(g) : g[i] = g[j] => i = j
  <2> SUFFICES ASSUME NEW i \in 1..Len(g), NEW j \in 1..Len(g), g[i] = g[j] PROVE i = j
    OBVIOUS
  <2>1. i + 1 = j + 1
    BY <1>1 DEF Chained
  <2> QED
    BY <1>1, <2>1
<1>5. ASSUME NEW x \in Handlers
      PROVE  (\E i \in 1..Len(g) : g[i] = x) <=> x # f[1] /\ \E i \in 1..Len(f) : f[i] = x
  <2>1. ASSUME NEW i \in 1..Len(g), g[i] = x PROVE x # f[1] /\ \E k \in 1..Len(f) : f[k] = x
    <3>1. i + 1 \in 1..Len(f) /\ 1 \in 1..Len(f) /\ i + 1 # 1
      BY <1>1
    <3> QED
      BY <1>1, <2>1, <3>1 DEF Chained
  <2>2. ASSUME NEW i \in 1..Len(f), f[i] = x, x # f[1] PROVE \E k \in 1..Len(g) : g[k] = x
    <3>1. i \in 2..Len(f)
      BY <1>1, <2>2
    <3> QED
      BY <1>1, <2>2, <3>1
  <2> QED
    BY <2>1, <2>2
<1>6. \A x \in Handlers :
         (\E i \in 1..Len(g) : g[i] = x) <=> x \in pushed' \ skipped' /\ returned'[x] = 0
  BY <1>5 DEF Chained
<1>7. \A i \in 1..Len(g) : scope[g[i]] <= Len(calls')
  BY <1>1
<1>8. ~(over /\ posix)
  BY DEF Chained
<1> QED
  BY <1>3, <1>4, <1>6, <1>7, <1>8 DEF Chained, g

\* The handler pushed last is run, by pthread_cleanup_pop or as the thread ends.
LEMMA RunKeeps ==
  ASSUME HandlersAssumption, HandlersInv, cleanupKey # Null, C!Run(cleanupKey),
         UNCHANGED <<posix, cleanupKey, prev, scope, over, pushed, returned, skipped>>,
         \/ C!Active /\ scope[cleanupKey] = Len(calls)
         \/ calls # <<>> /\ Head(calls) = Throw
  PROVE  HandlersInv'
<1> USE DEF HandlersAssumption
<1>1. HandlerTypes /\ Histories
  BY DEF HandlersInv
<1>2. PICK f \in Seq(Handlers) : Chained(f) /\ Framed(f) /\ Begun(f)
  BY DEF HandlersInv
<1>3. /\ f # <<>> /\ Len(f) \in Nat /\ 1 \in 1..Len(f)
      /\ cleanupKey = f[1] /\ f[1] \in Handlers
      /\ \A i \in 1..Len(f) : f[i] \in Handlers /\ (f[i] = f[1] => i = 1)
  <2>1. f # <<>> /\ cleanupKey = f[1]
    BY <1>2 DEF Chained, C!IsChain
  <2>2. Len(f) \in Nat /\ 1 \in 1..Len(f)
    BY <2>1
  <2> QED
    BY <1>2, <2>1, <2>2 DEF Chained
<1>4. /\ calls' = <<f[1]>> \o calls
      /\ runs' = [runs EXCEPT ![f[1]] = @ + 1]
  BY <1>3 DEF C!Run
<1>5. /\ Len(calls) \in Nat /\ Len(calls') = Len(calls) + 1
      /\ calls' \in Seq(Handlers \union {Throw})
      /\ Frame(Len(calls))' = f[1] /\ Alive(Len(calls))'
      /\ \A d \in 1..Len(calls) : Frame(d)' = Frame(d)
      /\ \A d \in 1..Len(calls) : Alive(d)' <=> Alive(d)
  BY <1>1, <1>3, <1>4, Called, CalledAlive, Innermosts
<1>6. /\ scope[f[1]] \in Nat /\ scope[f[1]] <= Len(calls)
      /\ f[1] \in pushed \ skipped /\ returned[f[1]] = 0
  BY <1>1, <1>2, <1>3 DEF HandlerTypes, Chained
<1>7. /\ runs'[f[1]] = runs[f[1]] + 1 /\ runs[f[1]] \in Nat
      /\ \A x \in Handlers : x # f[1] => runs'[x] = runs[x]
  BY <1>1, <1>3, <1>4 DEF HandlerTypes
<1>8. \A d \in 1..Len(calls) : Alive(d) => Frame(d) # f[1]
  <2> SUFFICES ASSUME NEW d \in 1..Len(calls), Alive(d), Frame(d) = f[1] PROVE FALSE
    OBVIOUS
  <2>1. CASE C!Active /\ scope[cleanupKey] = Len(calls)
    <3>1. PICK p \in 1..Len(f) :
            f[p] = Frame(d) /\ \A i \in 1..Len(f) : i < p <=> scope[f[i]] >= d
      BY <1>2 DEF Framed
    <3>2. p = 1
      BY <1>3, <3>1
    <3> QED
      BY <1>3, <1>5, <2>1, <3>1, <3>2
  <2>2. CASE calls # <<>> /\ Head(calls) = Throw
    <3>1. Len(calls) \in d..Len(calls) /\ Frame(Len(calls)) = Throw
      BY <1>1, <1>5, <2>2, Innermosts
    <3> QED
      BY <3>1 DEF Alive
  <2> QED
    BY <2>1, <2>2
<1>9. RunTwice => RunTwice'
  BY <1>7 DEF RunTwice
<1>10. f[1] \in Exits /\ runs[f[1]] > 0 => RunTwice'
  BY <1>7 DEF RunTwice
<1>11. HandlerTypes'
  <2>1. runs' \in [Handlers -> Nat]
    BY <1>1, <1>3, <1>4 DEF HandlerTypes
  <2> QED
    BY <1>1, <1>5, <2>1 DEF HandlerTypes
<1>12. Histories'
  <2> SUFFICES ASSUME NEW x \in Handlers
               PROVE  /\ returned[x] <= 1
                      /\ x \in skipped => runs'[x] = 0
                      /\ x \notin pushed =>
                           runs'[x] = 0 /\ returned[x] = 0 /\ x \notin skipped
                      /\ runs'[x] > 1 => RunTwice'
    BY DEF Histories
  <2>1. CASE x # f[1]
    BY <1>1, <1>7, <1>9, <2>1 DEF Histories
  <2>2. CASE x = f[1]
    <3>1. runs[f[1]] > 0 => RunTwice'
      <4> SUFFICES ASSUME runs[f[1]] > 0 PROVE RunTwice'
        OBVIOUS
      <4>1. \/ \E d \in 1..Len(calls) : Alive(d) /\ Frame(d) = f[1]
            \/ RunTwice
            \/ \E j \in 1..1 : f[j] \in Exits /\ runs[f[j]] > 0
        BY <1>2, <1>3 DEF Begun
      <4>2. \A j \in 1..1 : j = 1
        OBVIOUS
      <4> QED
        BY <1>8, <1>9, <1>10, <4>1, <4>2
    <3> QED
      BY <1>1, <1>3, <1>6, <1>7, <2>2, <3>1 DEF Histories
  <2> QED
    BY <2>1, <2>2
<1>13. Chained(f)'
  <2>1. \A i \in 1..Len(f) : scope[f[i]] <= Len(calls')
    <3> SUFFICES ASSUME NEW i \in 1..Len(f) PROVE scope[f[i]] <= Len(calls')
      OBVIOUS
    <3>1. scope[f[i]] <= Len(calls) /\ scope[f[i]] \in Nat
      BY <1>1, <1>2, <1>3 DEF HandlerTypes, Chained
    <3> QED
      BY <1>5, <3>1
  <2>2. C!IsChain(f)'
    BY <1>2 DEF Chained, C!IsChain
  <2> QED
    BY <1>2, <2>1, <2>2 DEF Chained
<1>14. Framed(f)'
  <2>1. ASSUME NEW d \in 1..Len(calls'), Alive(d)'
        PROVE  \E p \in 1..Len(f) :
                 f[p] = Frame(d)' /\ \A i \in 1..Len(f) : i < p <=> scope[f[i]] >= d
    <3>1. CASE d \in 1..Len(calls)
      BY <1>2, <1>5, <2>1, <3>1 DEF Framed
    <3>2. CASE d = Len(calls')
      <4>1. f[1] = Frame(d)'
        BY <1>5, <3>2
      <4>2. \A i \in 1..Len(f) : ~(i < 1) /\ ~(scope[f[i]] >= d)
        <5> SUFFICES ASSUME NEW i \in 1..Len(f) PROVE ~(i < 1) /\ ~(scope[f[i]] >= d)
          OBVIOUS
        <5>1. scope[f[i]] <= Len(calls) /\ scope[f[i]] \in Nat
          BY <1>1, <1>2, <1>3, SMTT(60) DEF HandlerTypes, Chained
        <5> QED
          BY <1>5, <3>2, <5>1
      <4> QED
        BY <1>3, <4>1, <4>2
    <3> QED
      BY <1>5, <3>1, <3>2
  <2>2. ASSUME NEW d \in 2..Len(calls'), Alive(d - 1)' PROVE scope[Frame(d)'] = d - 1
    <3>1. d - 1 \in 1..Len(calls) /\ Alive(d - 1)
      BY <1>5, <2>2
    <3>2. CASE d \in 1..Len(calls)
      BY <1>2, <1>5, <3>1, <3>2 DEF Framed
    <3>3. CASE d = Len(calls')
      <4>1. Frame(d)' = f[1] /\ d - 1 = Len(calls) /\ Alive(Len(calls))
        BY <1>5, <3>1, <3>3
      <4>2. ~(calls # <<>> /\ Head(calls) = Throw)
        <5>1. Len(calls) \in Len(calls)..Len(calls)
          BY <1>5
        <5>2. Frame(Len(calls)) # Throw
          BY <4>1, <5>1 DEF Alive
        <5> QED
          BY <1>1, <5>2, Innermosts
      <4> QED
        BY <1>3, <4>1, <4>2
    <3> QED
      BY <1>5, <3>2, <3>3
  <2> QED
    BY <2>1, <2>2 DEF Framed
<1>15. Begun(f)'
  <2> SUFFICES ASSUME NEW i \in 1..Len(f), runs'[f[i]] > 0
               PROVE  /\ \E d \in 1..Len(calls') : Frame(d)' = f[i] /\ scope[f[i]] < d
                      /\ \/ \E d \in 1..Len(calls') : Alive(d)' /\ Frame(d)' = f[i]
                         \/ RunTwice'
                         \/ \E j \in 1..i :
                              /\ f[j] \in Exits /\ runs'[f[j]] > 0
                              /\ \A d \in 1..Len(calls') : Alive(d)' => Frame(d)' # f[j]
    BY DEF Begun
  <2>1. CASE i = 1
    <3>1. /\ Len(calls') \in 1..Len(calls') /\ Frame(Len(calls))' = f[i]
          /\ scope[f[i]] < Len(calls') /\ Alive(Len(calls))'
      BY <1>5, <1>6, <2>1
    <3> QED
      BY <3>1
  <2>2. CASE i # 1
    <3>1. f[i] # f[1] /\ runs[f[i]] > 0
      BY <1>3, <1>7, <2>2
    <3>2. PICK d \in 1..Len(calls) : Frame(d) = f[i] /\ scope[f[i]] < d
      BY <1>2, <3>1 DEF Begun
    <3>3. d \in 1..Len(calls') /\ Frame(d)' = f[i]
      BY <1>5, <3>2
    <3>4. CASE \E q \in 1..Len(calls) : Alive(q) /\ Frame(q) = f[i]
      <4>1. PICK q \in 1..Len(calls) : Alive(q) /\ Frame(q) = f[i]
        BY <3>4
      <4>2. q \in 1..Len(calls') /\ Alive(q)' /\ Frame(q)' = f[i]
        BY <1>5, <4>1
      <4> QED
        BY <3>2, <3>3, <4>2
    <3>5. CASE RunTwice
      BY <1>9, <3>2, <3>3, <3>5
    <3>6. CASE \E j \in 1..i :
                 /\ f[j] \in Exits /\ runs[f[j]] > 0
                 /\ \A q \in 1..Len(calls) : Alive(q) => Frame(q) # f[j]
      <4>1. PICK j \in 1..i :
              /\ f[j] \in Exits /\ runs[f[j]] > 0
              /\ \A q \in 1..Len(calls) : Alive(q) => Frame(q) # f[j]
        BY <3>6
      <4>2. CASE j = 1
        BY <1>10, <3>2, <3>3, <4>1, <4>2
      <4>3. CASE j # 1
        <5>1. j \in 1..Len(f) /\ f[j] # f[1] /\ runs'[f[j]] > 0
          BY <1>3, <1>7, <4>1, <4>3
        <5>2. \A q \in 1..Len(calls') : q \in 1..Len(calls) \/ q = Len(calls')
          BY <1>5, SMTT(60)
        <5>3. \A q \in 1..Len(calls') : Alive(q)' => Frame(q)' # f[j]
          BY <1>5, <4>1, <5>1, <5>2
        <5> QED
          BY <3>2, <3>3, <4>1, <5>1, <5>3
      <4> QED
        BY <4>2, <4>3
    <3> QED
      BY <1>2, <3>1, <3>4, <3>5, <3>6 DEF Begun
  <2> QED
    BY <2>1, <2>2
<1> QED
  BY <1>2, <1>11, <1>12, <1>13, <1>14, <1>15 DEF HandlersInv

\* What is being executed is as before, but for what was the handler pushed last.
LEMMA DroppedBegun ==
  ASSUME HandlersAssumption, HandlersInv, NEW f \in Seq(Handlers), f # <<>>,
         Chained(f), Framed(f), Begun(f), UNCHANGED <<scope, runs>>,
         Len(calls') \in Nat, Len(calls') <= Len(calls),
         \A d \in 1..Len(calls') : Frame(d)' = Frame(d),
         \A d \in 1..Len(calls') : Alive(d)' <=> Alive(d),
         \A d \in 1..Len(calls') : Alive(d) => scope[f[1]] >= d,
         \A d \in 1..Len(calls) : d > Len(calls') => Frame(d) = f[1],
         runs[f[1]] = 0 \/ \E d \in 1..Len(calls) : Alive(d) /\ Frame(d) = f[1]
  PROVE  Framed(Tail(f))' /\ Begun(Tail(f))'
<1> DEFINE g == Tail(f)
<1>1. /\ g \in Seq(Handlers) /\ Len(g) = Len(f) - 1 /\ Len(f) >= 1 /\ Len(f) \in Nat
      /\ \A i \in 1..Len(g) : g[i] = f[i + 1]
      /\ \A i \in 2..Len(f) : f[i] = g[i - 1]
  BY Headless
<1> HIDE DEF g
<1>2. /\ \A i \in 1..Len(g) : g[i] = f[i + 1] /\ i + 1 \in 2..Len(f) /\ i + 1 \in 1..Len(f)
      /\ \A i \in 2..Len(f) : f[i] = g[i - 1] /\ i - 1 \in 1..Len(g) /\ i \in 1..Len(f)
  BY <1>1
<1>3. Len(calls) \in Nat /\ \A d \in 1..Len(calls') : d \in 1..Len(calls)
  BY Innermosts DEF HandlersInv
<1>4. \A i \in 2..Len(f) : f[i] # f[1] /\ f[i] \in Handlers
  <2>1. 1 \in 1..Len(f) /\ \A i \in 2..Len(f) : i # 1
    BY <1>1
  <2> QED
    BY <1>2, <2>1 DEF Chained
<1>5. Framed(g)'
  <2>1. ASSUME NEW d \in 1..Len(calls'), Alive(d)
        PROVE  \E p \in 1..Len(g) :
                 g[p] = Frame(d) /\ \A i \in 1..Len(g) : i < p <=> scope[g[i]] >= d
    <3>1. PICK p \in 1..Len(f) :
            f[p] = Frame(d) /\ \A i \in 1..Len(f) : i < p <=> scope[f[i]] >= d
      BY <1>3, <2>1 DEF Framed
    <3>2. p \in 2..Len(f)
      <4>1. 1 \in 1..Len(f) /\ scope[f[1]] >= d
        BY <1>1, <2>1
      <4>2. 1 < p
        BY <3>1, <4>1
      <4> QED
        BY <1>1, <4>2
    <3>3. p - 1 \in 1..Len(g) /\ g[p - 1] = Frame(d)
      BY <1>2, <3>1, <3>2
    <3>4. ASSUME NEW i \in 1..Len(g) PROVE i < p - 1 <=> scope[g[i]] >= d
      <4>1. (i + 1) < p <=> scope[g[i]] >= d
        BY <1>2, <3>1
      <4> QED
        BY <1>1, <3>2, <4>1
    <3> QED
      BY <3>3, <3>4
  <2>2. ASSUME NEW d \in 2..Len(calls'), Alive(d - 1) PROVE scope[Frame(d)] = d - 1
    BY <1>3, <2>2 DEF Framed
  <2>3. \A d \in 2..Len(calls') : d \in 1..Len(calls') /\ d - 1 \in 1..Len(calls')
    OBVIOUS
  <2> QED
    BY <1>3, <2>1, <2>2, <2>3 DEF Framed
<1>6. Begun(g)'
  <2> SUFFICES ASSUME NEW i \in 1..Len(g), runs[g[i]] > 0
               PROVE  /\ \E d \in 1..Len(calls') : Frame(d)' = g[i] /\ scope[g[i]] < d
                      /\ \/ \E d \in 1..Len(calls') : Alive(d)' /\ Frame(d)' = g[i]
                         \/ RunTwice
                         \/ \E j \in 1..i :
                              /\ g[j] \in Exits /\ runs[g[j]] > 0
                              /\ \A d \in 1..Len(calls') : Alive(d)' => Frame(d)' # g[j]
    BY DEF Begun, RunTwice
  <2>1. i + 1 \in 1..Len(f) /\ g[i] = f[i + 1] /\ g[i] # f[1]
    BY <1>2, <1>4
  <2>2. \A d \in 1..Len(calls) : Frame(d) = g[i] => d \in 1..Len(calls')
    <3> SUFFICES ASSUME NEW d \in 1..Len(calls), Frame(d) = g[i] PROVE d \in 1..Len(calls')
      OBVIOUS
    <3>1. ~(d > Len(calls'))
      BY <2>1
    <3> QED
      BY <3>1
  <2>3. PICK d \in 1..Len(calls) : Frame(d) = g[i] /\ scope[g[i]] < d
    BY <2>1 DEF Begun
  <2>4. d \in 1..Len(calls') /\ Frame(d)' = g[i]
    BY <2>2, <2>3
  <2>5. CASE \E q \in 1..Len(calls) : Alive(q) /\ Frame(q) = g[i]
    <3>1. PICK q \in 1..Len(calls) : Alive(q) /\ Frame(q) = g[i]
      BY <2>5
    <3>2. q \in 1..Len(calls') /\ Alive(q)' /\ Frame(q)' = g[i]
      BY <2>2, <3>1
    <3> QED
      BY <2>3, <2>4, <3>2
  <2>6. CASE RunTwice
    BY <2>3, <2>4, <2>6
  <2>7. CASE \E j \in 1..(i + 1) :
               /\ f[j] \in Exits /\ runs[f[j]] > 0
               /\ \A q \in 1..Len(calls) : Alive(q) => Frame(q) # f[j]
    <3>1. PICK j \in 1..(i + 1) :
            /\ f[j] \in Exits /\ runs[f[j]] > 0
            /\ \A q \in 1..Len(calls) : Alive(q) => Frame(q) # f[j]
      BY <2>7
    <3>2. j # 1
      BY <3>1
    <3>3. j - 1 \in 1..i /\ j \in 2..Len(f)
      BY <2>1, <3>2
    <3>4. g[j - 1] = f[j]
      BY <1>2, <3>3
    <3>5. \A q \in 1..Len(calls') : Alive(q)' => Frame(q)' # g[j - 1]
      BY <1>3, <3>1, <3>4
    <3> QED
      BY <2>3, <2>4, <3>1, <3>3, <3>4, <3>5
  <2> QED
    BY <2>1, <2>5, <2>6, <2>7 DEF Begun
<1> QED
  BY <1>5, <1>6 DEF g

LEMMA SkipKeeps ==
  ASSUME HandlersAssumption, HandlersInv, C!Pop(FALSE)
  PROVE  HandlersInv'
<1> USE DEF HandlersAssumption
<1>1. /\ cleanupKey # Null /\ scope[cleanupKey] = Len(calls)
      /\ cleanupKey' = prev[cleanupKey] /\ skipped' = skipped \union {cleanupKey}
      /\ UNCHANGED <<posix, prev, calls, runs, scope, over, pushed, returned>>
  BY DEF C!Pop, C!Local
<1>2. HandlerTypes /\ Histories
  BY DEF HandlersInv
<1>3. PICK f \in Seq(Handlers) : Chained(f) /\ Framed(f) /\ Begun(f)
  BY DEF HandlersInv
<1>4. f # <<>> /\ cleanupKey = f[1]
  BY <1>1, <1>3 DEF Chained, C!IsChain
<1>5. Len(f) \in Nat /\ 1 \in 1..Len(f) /\ f[1] \in Handlers /\ Tail(f) \in Seq(Handlers)
  BY <1>4
<1>6. /\ Len(calls) \in Nat
      /\ \A d : Frame(d)' = Frame(d) /\ (Alive(d)' <=> Alive(d))
  BY <1>1, <1>2, Innermosts DEF Frame, Alive
<1>7. runs[f[1]] = 0
  <2>1. ~(runs[f[1]] > 0)
    <3> SUFFICES ASSUME runs[f[1]] > 0 PROVE FALSE
      OBVIOUS
    <3>1. PICK d \in 1..Len(calls) : scope[f[1]] < d
      BY <1>3, <1>5 DEF Begun
    <3> QED
      BY <1>1, <1>4, <1>6, <3>1
  <2>2. runs[f[1]] \in Nat
    BY <1>2, <1>5 DEF HandlerTypes
  <2> QED
    BY <2>1, <2>2
<1>8. f[1] \in pushed \ skipped /\ returned[f[1]] = 0
  BY <1>3, <1>5 DEF Chained
<1>9. HandlerTypes'
  BY <1>1, <1>2, <1>4, <1>5 DEF HandlerTypes
<1>10. Histories'
  BY <1>1, <1>2, <1>4, <1>7, <1>8 DEF Histories, RunTwice
<1>11. Chained(Tail(f))'
  <2>1. \A x \in Handlers :
           x \in pushed' \ skipped' /\ returned'[x] = 0
             <=> x # f[1] /\ x \in pushed \ skipped /\ returned[x] = 0
    BY <1>1, <1>4
  <2>2. \A i \in 2..Len(f) : scope[f[i]] <= Len(calls')
    <3>1. \A i \in 2..Len(f) : i \in 1..Len(f)
      BY <1>5
    <3> QED
      BY <1>1, <1>3, <3>1 DEF Chained
  <2> QED
    BY <1>1, <1>2, <1>3, <1>4, <1>6, <2>1, <2>2, Dropped
<1>12. Framed(Tail(f))' /\ Begun(Tail(f))'
  <2>1. \A d \in 1..Len(calls') : scope[f[1]] >= d
    BY <1>1, <1>4, <1>6
  <2>2. \A d \in 1..Len(calls) : ~(d > Len(calls'))
    BY <1>1, <1>6
  <2>3. Len(calls') \in Nat /\ Len(calls') <= Len(calls)
    BY <1>1, <1>6
  <2> QED
    BY <1>1, <1>3, <1>4, <1>6, <1>7, <2>1, <2>2, <2>3, DroppedBegun
<1> QED
  BY <1>5, <1>9, <1>10, <1>11, <1>12 DEF HandlersInv

LEMMA ReturnKeeps ==
  ASSUME HandlersAssumption, HandlersInv, C!Return
  PROVE  HandlersInv'
<1> USE DEF HandlersAssumption
<1>1. /\ C!Active /\ calls # <<>> /\ ~C!Local
      /\ cleanupKey' = prev[Head(calls)] /\ calls' = Tail(calls)
      /\ returned' = [returned EXCEPT ![Head(calls)] = @ + 1]
      /\ UNCHANGED <<posix, prev, scope, over, pushed, runs, skipped>>
  BY DEF C!Return
<1>2. HandlerTypes /\ Histories
  BY DEF HandlersInv
<1>3. PICK f \in Seq(Handlers) : Chained(f) /\ Framed(f) /\ Begun(f)
  BY DEF HandlersInv
<1>4. /\ Len(calls) \in Nat /\ Len(calls) \in 1..Len(calls)
      /\ Head(calls) = Frame(Len(calls)) /\ Head(calls) \in Handlers /\ Alive(Len(calls))
      /\ Len(calls') = Len(calls) - 1 /\ calls' \in Seq(Handlers \union {Throw})
      /\ \A d \in 1..Len(calls') : Frame(d)' = Frame(d)
      /\ \A d \in 1..Len(calls') : Alive(d)' <=> Alive(d)
  BY <1>1, <1>2, Innermosts, Left, LeftAlive
\* The handler that returns is the one pushed last.
<1>5. /\ f # <<>> /\ Len(f) \in Nat /\ 1 \in 1..Len(f) /\ f[1] = Head(calls)
      /\ \A i \in 1..Len(f) : ~(scope[f[i]] >= Len(calls))
  <2>1. PICK p \in 1..Len(f) :
          f[p] = Head(calls) /\ \A i \in 1..Len(f) : i < p <=> scope[f[i]] >= Len(calls)
    BY <1>3, <1>4 DEF Framed
  <2>2. f # <<>> /\ Len(f) \in Nat /\ 1 \in 1..Len(f) /\ f[1] \in Handlers
    BY <2>1
  <2>3. cleanupKey = f[1]
    BY <1>3, <2>2 DEF Chained, C!IsChain
  <2>4. scope[f[1]] # Len(calls) /\ scope[f[1]] <= Len(calls) /\ scope[f[1]] \in Nat
    BY <1>1, <1>2, <1>3, <2>2, <2>3 DEF C!Local, HandlerTypes, Chained
  <2>5. p = 1
    BY <1>4, <2>1, <2>2, <2>4
  <2> QED
    BY <2>1, <2>2, <2>5
<1>6. /\ Tail(f) \in Seq(Handlers) /\ f[1] \in Handlers
      /\ f[1] \in pushed \ skipped /\ returned[f[1]] = 0
  BY <1>3, <1>4, <1>5 DEF Chained
<1>7. HandlerTypes'
  <2>1. returned' \in [Handlers -> Nat] /\ cleanupKey' \in Handlers \union {Null}
    BY <1>1, <1>2, <1>4 DEF HandlerTypes
  <2> QED
    BY <1>1, <1>2, <1>4, <2>1 DEF HandlerTypes
<1>8. /\ returned'[f[1]] = 1
      /\ \A x \in Handlers : x # f[1] => returned'[x] = returned[x]
  BY <1>1, <1>2, <1>5, <1>6 DEF HandlerTypes
<1>9. Histories'
  BY <1>1, <1>2, <1>6, <1>8 DEF Histories, RunTwice
<1>10. Chained(Tail(f))'
  <2>1. \A x \in Handlers :
           x \in pushed' \ skipped' /\ returned'[x] = 0
             <=> x # f[1] /\ x \in pushed \ skipped /\ returned[x] = 0
    BY <1>1, <1>8
  <2>2. \A i \in 2..Len(f) : scope[f[i]] <= Len(calls')
    <3> SUFFICES ASSUME NEW i \in 2..Len(f) PROVE scope[f[i]] <= Len(calls')
      OBVIOUS
    <3>1. i \in 1..Len(f) /\ f[i] \in Handlers
      BY <1>5
    <3>2. scope[f[i]] \in Nat /\ ~(scope[f[i]] >= Len(calls))
      BY <1>2, <1>5, <3>1 DEF HandlerTypes
    <3> QED
      BY <1>4, <3>2
  <2>3. Len(calls') \in Nat
    BY <1>4
  <2> QED
    BY <1>1, <1>2, <1>3, <1>5, <2>1, <2>2, <2>3, Dropped
<1>11. Framed(Tail(f))' /\ Begun(Tail(f))'
  <2>1. \A d \in 1..Len(calls') : Alive(d) => scope[f[1]] >= d
    <3> SUFFICES ASSUME NEW d \in 1..Len(calls'), Alive(d) PROVE scope[f[1]] >= d
      OBVIOUS
    <3>1. Len(calls) \in 2..Len(calls) /\ Len(calls) - 1 \in d..Len(calls)
          /\ Len(calls) - 1 \in 1..Len(calls)
          /\ \A e \in (Len(calls) - 1)..Len(calls) : e \in d..Len(calls)
      BY <1>4
    <3>2. Alive(Len(calls) - 1)
      BY <3>1 DEF Alive
    <3>3. scope[f[1]] = Len(calls) - 1
      BY <1>3, <1>4, <1>5, <3>1, <3>2 DEF Framed
    <3> QED
      BY <1>4, <3>3
  <2>2. \A d \in 1..Len(calls) : d > Len(calls') => Frame(d) = f[1]
    <3>1. \A d \in 1..Len(calls) : d > Len(calls') => d = Len(calls)
      BY <1>4
    <3> QED
      BY <1>4, <1>5, <3>1
  <2>3. Len(calls') \in Nat /\ Len(calls') <= Len(calls)
    BY <1>4
  <2> QED
    BY <1>1, <1>3, <1>4, <1>5, <2>1, <2>2, <2>3, DroppedBegun
<1> QED
  BY <1>6, <1>7, <1>9, <1>10, <1>11 DEF HandlersInv

LEMMA ThrowKeeps ==
  ASSUME HandlersAssumption, HandlersInv, C!Exit, posix
  PROVE  HandlersInv'
<1> USE DEF HandlersAssumption
<1>1. /\ C!Active
      /\ calls # <<>> => Head(calls) \in Exits /\ runs[Head(calls)] = 1
      /\ calls' = <<Throw>> \o calls
      /\ UNCHANGED <<posix, cleanupKey, prev, scope, over, pushed, runs, returned, skipped>>
  BY DEF C!Exit
<1>2. HandlerTypes /\ Histories
  BY DEF HandlersInv
<1>3. PICK f \in Seq(Handlers) : Chained(f) /\ Framed(f) /\ Begun(f)
  BY DEF HandlersInv
<1>4. /\ Len(calls) \in Nat /\ Len(calls') = Len(calls) + 1
      /\ calls' \in Seq(Handlers \union {Throw})
      /\ \A d \in 1..Len(calls) : Frame(d)' = Frame(d)
      /\ \A d \in 1..Len(calls') : ~Alive(d)'
      /\ calls = <<>> => Len(calls) = 0
      /\ calls # <<>> => /\ Len(calls) \in 1..Len(calls) /\ Alive(Len(calls))
                         /\ Head(calls) = Frame(Len(calls))
  <2>1. /\ Len(calls) \in Nat /\ Len(calls') = Len(calls) + 1
        /\ \A d \in 1..Len(calls) : ~Alive(d)'
        /\ ~Alive(Len(calls))'
    BY <1>1, <1>2, CalledAlive, Called, Innermosts
  <2>2. \A d \in 1..Len(calls') : d \in 1..Len(calls) \/ d = Len(calls')
    BY <2>1
  <2> QED
    BY <1>1, <1>2, <2>1, <2>2, Called, Innermosts
<1>5. HandlerTypes'
  BY <1>1, <1>2, <1>4 DEF HandlerTypes
<1>6. Histories'
  BY <1>1, <1>2 DEF Histories, RunTwice
<1>7. Chained(f)'
  <2>1. \A i \in 1..Len(f) : scope[f[i]] <= Len(calls')
    <3> SUFFICES ASSUME NEW i \in 1..Len(f) PROVE scope[f[i]] <= Len(calls')
      OBVIOUS
    <3>1. scope[f[i]] <= Len(calls) /\ scope[f[i]] \in Nat
      BY <1>2, <1>3, SMTT(60) DEF HandlerTypes, Chained
    <3> QED
      BY <1>4, <3>1
  <2>2. C!IsChain(f)'
    BY <1>1, <1>3 DEF Chained, C!IsChain
  <2> QED
    BY <1>1, <1>3, <2>1, <2>2 DEF Chained
<1>8. Framed(f)'
  <2>1. \A d \in 2..Len(calls') : d - 1 \in 1..Len(calls')
    BY <1>4
  <2> QED
    BY <1>4, <2>1 DEF Framed
<1>9. Begun(f)'
  <2> SUFFICES ASSUME NEW i \in 1..Len(f), runs[f[i]] > 0
               PROVE  /\ \E d \in 1..Len(calls') : Frame(d)' = f[i] /\ scope[f[i]] < d
                      /\ \E j \in 1..i : f[j] \in Exits /\ runs[f[j]] > 0
    BY <1>1, <1>4 DEF Begun
  <2>1. PICK d \in 1..Len(calls) : Frame(d) = f[i] /\ scope[f[i]] < d
    BY <1>3 DEF Begun
  <2>2. d \in 1..Len(calls') /\ Frame(d)' = f[i] /\ calls # <<>>
    BY <1>4, <2>1
  <2>3. PICK p \in 1..Len(f) :
          /\ f[p] = Frame(Len(calls))
          /\ \A k \in 1..Len(f) : k < p <=> scope[f[k]] >= Len(calls)
    BY <1>3, <1>4, <2>2 DEF Framed
  <2>4. p \in 1..i
    <3>1. scope[f[i]] \in Nat
      BY <1>2 DEF HandlerTypes
    <3>2. ~(scope[f[i]] >= Len(calls))
      BY <1>4, <2>1, <3>1
    <3> QED
      BY <2>3, <3>2
  <2>5. f[p] \in Exits /\ runs[f[p]] > 0
    BY <1>1, <1>4, <2>2, <2>3
  <2> QED
    BY <2>1, <2>2, <2>4, <2>5
<1> QED
  BY <1>3, <1>5, <1>6, <1>7, <1>8, <1>9 DEF HandlersInv

\* A Win32 thread leaves with the chain as it is.
LEMMA LeaveKeeps ==
  ASSUME HandlersAssumption, HandlersInv, C!Exit, ~posix
  PROVE  HandlersInv'
<1>1. /\ over' = TRUE
      /\ UNCHANGED <<posix, calls, runs, cleanupKey, prev, scope, pushed, returned, skipped>>
  BY DEF C!Exit
<1>2. HandlerTypes /\ Histories
  BY DEF HandlersInv
<1>3. PICK f \in Seq(Handlers) : Chained(f) /\ Framed(f) /\ Begun(f)
  BY DEF HandlersInv
<1>5. \A d : Frame(d)' = Frame(d) /\ (Alive(d)' <=> Alive(d))
  BY <1>1 DEF Frame, Alive
<1>6. HandlerTypes' /\ Histories'
  BY <1>1, <1>2 DEF HandlerTypes, Histories, RunTwice
<1>7. Chained(f)' /\ Framed(f)' /\ Begun(f)'
  BY <1>1, <1>3, <1>5 DEF Chained, C!IsChain, Framed, Begun, RunTwice
<1> QED
  BY <1>3, <1>6, <1>7 DEF HandlersInv

LEMMA EndKeeps ==
  ASSUME HandlersAssumption, HandlersInv, C!PopAll, cleanupKey = Null
  PROVE  HandlersInv'
<1> USE DEF HandlersAssumption
<1>1. /\ over' = TRUE
      /\ UNCHANGED <<posix, calls, runs, cleanupKey, prev, scope, pushed, returned, skipped>>
  BY DEF C!PopAll
<1>2. HandlerTypes /\ Histories
  BY DEF HandlersInv
<1>3. PICK f \in Seq(Handlers) : Chained(f) /\ Framed(f) /\ Begun(f)
  BY DEF HandlersInv
<1>4. f = <<>>
  <2>1. f # <<>> => f[1] \in Handlers
    OBVIOUS
  <2> QED
    BY <1>3, <2>1 DEF Chained, C!IsChain
<1>5. \A d : Frame(d)' = Frame(d) /\ (Alive(d)' <=> Alive(d))
  BY <1>1 DEF Frame, Alive
<1>6. HandlerTypes' /\ Histories'
  BY <1>1, <1>2 DEF HandlerTypes, Histories, RunTwice
<1>7. Chained(f)' /\ Framed(f)' /\ Begun(f)'
  BY <1>1, <1>3, <1>4, <1>5 DEF Chained, C!IsChain, Framed, Begun, RunTwice
<1> QED
  BY <1>3, <1>6, <1>7 DEF HandlersInv

LEMMA HandlersInitially == ASSUME HandlersAssumption, C!Init PROVE HandlersInv
<1> USE DEF HandlersAssumption, C!Init
<1>1. HandlerTypes /\ Histories
  <2>1. calls \in Seq(Handlers \union {Throw})
    OBVIOUS
  <2>2. /\ cleanupKey \in Handlers \union {Null}
        /\ prev \in [Handlers -> Handlers \union {Null}]
        /\ scope \in [Handlers -> Nat]
    OBVIOUS
  <2>3. over \in BOOLEAN /\ pushed \in SUBSET Handlers /\ skipped \in SUBSET Handlers
    OBVIOUS
  <2>4. runs \in [Handlers -> Nat] /\ returned \in [Handlers -> Nat]
    OBVIOUS
  <2>5. HandlerTypes
    BY <2>1, <2>2, <2>3, <2>4 DEF HandlerTypes
  <2>6. Histories
    BY DEF Histories
  <2> QED
    BY <2>5, <2>6
<1>2. <<>> \in Seq(Handlers) /\ Len(<<>>) = 0
  OBVIOUS
<1>3. Chained(<<>>)
  BY <1>2 DEF Chained, C!IsChain
<1>4. Framed(<<>>) /\ Begun(<<>>)
  <2>1. Len(calls) = 0
    OBVIOUS
  <2> QED
    BY <1>2, <2>1 DEF Framed, Begun
<1> QED
  BY <1>1, <1>2, <1>3, <1>4 DEF HandlersInv

LEMMA HandlersKept ==
  ASSUME HandlersAssumption, HandlersInv, [C!Next]_C!vars
  PROVE  HandlersInv'
<1>1. CASE UNCHANGED C!vars
  <2>1. /\ UNCHANGED <<posix, cleanupKey, prev, calls, scope, over, pushed>>
        /\ UNCHANGED <<runs, returned, skipped>>
    BY <1>1 DEF C!vars
  <2>2. \A d : Frame(d)' = Frame(d) /\ (Alive(d)' <=> Alive(d))
    BY <2>1 DEF Frame, Alive
  <2>3. HandlerTypes' /\ Histories'
    BY <2>1 DEF HandlersInv, HandlerTypes, Histories, RunTwice
  <2>4. PICK f \in Seq(Handlers) : Chained(f) /\ Framed(f) /\ Begun(f)
    BY DEF HandlersInv
  <2>5. Chained(f)'
    BY <2>1, <2>4 DEF Chained, C!IsChain
  <2>6. Framed(f)' /\ Begun(f)'
    BY <2>1, <2>2, <2>4 DEF Framed, Begun, RunTwice
  <2> QED
    BY <2>3, <2>4, <2>5, <2>6 DEF HandlersInv
<1>2. CASE \E h \in Handlers : C!Push(h)
  BY <1>2, PushKeeps
<1>3. CASE \E execute \in BOOLEAN : C!Pop(execute)
  <2>1. CASE C!Pop(TRUE)
    <3>1. /\ cleanupKey # Null /\ C!Run(cleanupKey)
          /\ UNCHANGED <<posix, cleanupKey, prev, scope, over, pushed, returned, skipped>>
          /\ C!Active /\ scope[cleanupKey] = Len(calls)
      BY <2>1 DEF C!Pop, C!Local
    <3> QED
      BY <3>1, RunKeeps
  <2>2. CASE C!Pop(FALSE)
    BY <2>2, SkipKeeps
  <2> QED
    BY <1>3, <2>1, <2>2
<1>4. CASE C!Return
  BY <1>4, ReturnKeeps
<1>5. CASE C!Exit
  BY <1>5, ThrowKeeps, LeaveKeeps
<1>6. CASE C!PopAll
  <2>1. CASE cleanupKey = Null
    BY <1>6, <2>1, EndKeeps
  <2>2. CASE cleanupKey # Null
    <3>1. /\ C!Run(cleanupKey) /\ calls # <<>> /\ Head(calls) = Throw
          /\ UNCHANGED <<posix, cleanupKey, prev, scope, over, pushed, returned, skipped>>
      BY <1>6, <2>2 DEF C!PopAll
    <3> QED
      BY <2>2, <3>1, RunKeeps
  <2> QED
    BY <2>1, <2>2
<1> QED
  BY <1>1, <1>2, <1>3, <1>4, <1>5, <1>6 DEF C!Next

LEMMA HandlersSound == ASSUME HandlersAssumption, HandlersInv PROVE HandlersRun
<1> USE DEF HandlersAssumption
<1>1. HandlerTypes /\ Histories
  BY DEF HandlersInv
<1>2. PICK f \in Seq(Handlers) : Chained(f) /\ Framed(f) /\ Begun(f)
  BY DEF HandlersInv
<1>3. C!AllRun
  <2> SUFFICES ASSUME posix, over, NEW h \in pushed \ skipped PROVE returned[h] = 1
    BY DEF C!AllRun
  <2>1. h \in Handlers /\ returned[h] # 0
    <3>1. f = <<>> /\ Len(f) = 0
      BY <1>2 DEF Chained
    <3>2. h \in Handlers
      BY <1>1 DEF HandlerTypes
    <3> QED
      BY <1>2, <3>1, <3>2 DEF Chained
  <2>2. returned[h] \in Nat /\ returned[h] <= 1
    BY <1>1, <2>1 DEF HandlerTypes, Histories
  <2> QED
    BY <2>1, <2>2
<1>4. C!RunOnce
  BY <1>1 DEF C!RunOnce, Histories, RunTwice
<1>5. C!Innermost
  <2>0. C!Cardinality(Handlers) = Cardinality(Handlers)
    BY DEF C!Cardinality, Cardinality
  <2> SUFFICES ASSUME C!Active, calls # <<>>
               PROVE  \E n \in 1..Cardinality(Handlers) : \E q \in [1..n -> Handlers] :
                        /\ C!IsChain(q)
                        /\ \E i \in 1..n : /\ q[i] = Head(calls)
                                           /\ \A j \in 1..(i - 1) : scope[q[j]] = Len(calls)
    BY <2>0, SMTT(30) DEF C!Innermost
  <2>1. /\ Len(calls) \in Nat /\ Len(calls) \in 1..Len(calls)
        /\ Head(calls) = Frame(Len(calls)) /\ Alive(Len(calls))
    BY <1>1, Innermosts
  <2>2. PICK p \in 1..Len(f) :
          f[p] = Head(calls) /\ \A i \in 1..Len(f) : i < p <=> scope[f[i]] >= Len(calls)
    BY <1>2, <2>1 DEF Framed
  <2>3. ASSUME NEW j \in 1..(p - 1) PROVE scope[f[j]] = Len(calls)
    <3>1. j \in 1..Len(f) /\ j < p
      BY <2>2
    <3>2. f[j] \in Handlers
      BY <3>1
    <3>3. scope \in [Handlers -> Nat]
      BY <1>1 DEF HandlerTypes
    <3>4. scope[f[j]] <= Len(calls)
      <4>1. \A i \in 1..Len(f) : scope[f[i]] <= Len(calls)
        BY <1>2 DEF Chained
      <4> QED
        BY <3>1, <4>1
    <3>5. scope[f[j]] >= Len(calls)
      BY <2>2, <3>1
    <3>6. scope[f[j]] \in Nat
      BY <3>2, <3>3
    <3> QED
      BY <2>1, <3>4, <3>5, <3>6
  <2>4. Len(f) \in 1..Cardinality(Handlers) /\ f \in [1..Len(f) -> Handlers]
    <3>1. f \in [1..Len(f) -> Handlers] /\ Len(f) \in Nat /\ Len(f) >= 1
      BY <2>2
    <3>2. f \in Injection(1..Len(f), Handlers)
      BY <1>2, <3>1 DEF Chained, Injection, IsInjective
    <3>3. Cardinality(1..Len(f)) <= Cardinality(Handlers)
      BY <3>2, FS_Injection
    <3>4. Cardinality(1..Len(f)) = Len(f)
      BY <3>1, FS_Interval
    <3>5. Cardinality(Handlers) \in Nat
      BY FS_CardinalityType
    <3> QED
      BY <3>1, <3>3, <3>4, <3>5
  <2> QED
    BY <1>2, <2>2, <2>3, <2>4 DEF Chained
<1> QED
  BY <1>3, <1>4, <1>5 DEF HandlersRun

\* pthread_cleanup_push, pthread_cleanup_pop, pthread_exit: when a thread made by
\* pthread_create ends every handler has been run to its end, unless popped without,
\* and in any thread none is twice, and they are run in the reverse of the order in
\* which they were pushed.
THEOREM HandlersSafety == ASSUME HandlersAssumption PROVE C!Spec => []HandlersRun
<1>1. C!Init => HandlersInv
  BY HandlersInitially
<1>2. HandlersInv /\ [C!Next]_C!vars => HandlersInv'
  BY HandlersKept
<1>3. HandlersInv => HandlersRun
  BY HandlersSound
<1> QED
  BY <1>1, <1>2, <1>3, PTL DEF C!Spec

-----------------------------------------------------------------------------
\* What MCData runs is each of the seven parts: so the theorems hold of it.
THEOREM PartsRun ==
  FairSpec => D!Spec /\ C!Spec /\ S!Spec /\ N!Spec /\ A!Spec /\ T!Spec /\ P!Spec
<1> USE DEF vars, dataVars, cleanupVars, schedVars, nameVars, attrVars, timeVars, processVars
<1>1. Init => D!Init /\ C!Init /\ S!Init /\ N!Init /\ A!Init /\ T!Init /\ P!Init
  BY DEF Init
<1>2. [Next]_vars => [S!Next]_S!vars
  BY DEF Next, DataNext, CleanupNext, SchedulingNext, NamesNext, AttributesNext, TimeNext,
         ProcessNext, S!vars, S!os, S!fields, S!locks, S!frames, S!ghosts
<1>3. [Next]_vars => [N!Next]_N!vars
  BY DEF Next, DataNext, CleanupNext, SchedulingNext, NamesNext, AttributesNext, TimeNext,
         ProcessNext, N!vars
<1>4. [Next]_vars => [T!Next]_T!vars
  BY DEF Next, DataNext, CleanupNext, SchedulingNext, NamesNext, AttributesNext, TimeNext,
         ProcessNext, T!vars
<1>5. [Next]_vars => [P!Next]_P!vars
  BY DEF Next, DataNext, CleanupNext, SchedulingNext, NamesNext, AttributesNext, TimeNext,
         ProcessNext, P!vars, P!keyVars, P!apcVars, P!poolVars
<1>6. [Next]_vars => [A!Next]_A!vars
  BY DEF Next, DataNext, CleanupNext, SchedulingNext, NamesNext, AttributesNext, TimeNext,
         ProcessNext, A!vars
<1>7. [Next]_vars => [D!Next]_D!vars
  BY DEF Next, DataNext, CleanupNext, SchedulingNext, NamesNext, AttributesNext, TimeNext,
         ProcessNext, D!vars, D!chains, D!locks, D!rounds
<1>8. [Next]_vars => [C!Next]_C!vars
  BY DEF Next, DataNext, CleanupNext, SchedulingNext, NamesNext, AttributesNext, TimeNext,
         ProcessNext, C!vars
<1> QED
  BY <1>1, <1>2, <1>3, <1>4, <1>5, <1>6, <1>7, <1>8, PTL
  DEF FairSpec, D!Spec, C!Spec, S!Spec, N!Spec, A!Spec, T!Spec, P!Spec
=============================================================================
