------------------------------- MODULE Attributes -----------------------------
(***************************************************************************)
(* The attribute objects, of mutexes, condition variables, read-write      *)
(* locks, barriers and threads, and what is made from them.  An object is  *)
(* used by one thread; each behaviour is that of one object of one family. *)
(*                                                                         *)
(* pthread.h defines _POSIX_THREAD_PROCESS_SHARED as -1: it is not         *)
(* supported, but defined.                                                 *)
(***************************************************************************)
EXTENDS Integers

CONSTANTS
  Null,
  Sizes,       \* the stack sizes that are asked for; PTHREAD_STACK_MIN is 0
  Priorities, MinPriority, MaxPriority,  \* asked for; and sched_get_priority_*
  CpuSets

VARIABLES
  family,
  a,           \* the attribute object, or Null
  result,      \* of the last call
  got,         \* the attribute that the last successful getter has told
  made         \* the object made last: kind (of a mutex) and shared

vars == <<family, a, result, got, made>>

Families == {"mutex", "cond", "rwlock", "barrier", "thread"}

FAST == 0
RECURSIVE_NP == 1
ERRORCHECK == 2
PRIVATE == 0
SHARED  == 1
STALLED == 0
ROBUST  == 1
JOINABLE == 0
DETACHED == 1
INHERIT == 0
EXPLICIT == 1
SCOPE_PROCESS == 0
SCOPE_SYSTEM  == 1
SCHED_OTHER == 0
Values == 0..3     \* what is passed to the setters: more than what is legal

\* sched_get_priority_min, sched_get_priority_max
ValidPriority(p) == MinPriority <= p /\ p <= MaxPriority

Default ==
  [f \in Families |->
     CASE f = "mutex"  -> [kind |-> FAST, robustness |-> STALLED, pshared |-> PRIVATE]
       [] f = "thread" -> [detachstate |-> JOINABLE, stacksize |-> 0, param |-> 0,
                           inheritsched |-> EXPLICIT, contentionscope |-> SCOPE_SYSTEM,
                           cpuset |-> {}]
       [] OTHER        -> [pshared |-> PRIVATE]]

Init ==
  /\ family \in Families
  /\ a = Null
  /\ result = "0"
  /\ got = Null
  /\ made = [kind |-> FAST, shared |-> FALSE]

\* ptw32_is_attr, and the tests of the other families: is there an object?
IsAttr == a # Null

Fails(f, code) == family = f /\ result' = code /\ UNCHANGED <<family, a, got, made>>

New(f) ==
  \/ /\ family = f /\ ~IsAttr
     /\ a' = Default[f]
     /\ result' = "0"
     /\ UNCHANGED <<family, got, made>>
  \/ ~IsAttr /\ Fails(f, "ENOMEM")

Free(f) ==
  \/ /\ family = f /\ IsAttr
     /\ a' = Null
     /\ result' = "0"
     /\ UNCHANGED <<family, got, made>>
  \/ ~IsAttr /\ Fails(f, "EINVAL")

Set(f, field, v, legal) ==
  \/ /\ family = f /\ IsAttr /\ v \in legal
     /\ a' = [a EXCEPT ![field] = v]
     /\ result' = "0"
     /\ UNCHANGED <<family, got, made>>
  \/ ~(IsAttr /\ v \in legal) /\ Fails(f, "EINVAL")

Get(f, field) ==
  \/ /\ family = f /\ IsAttr
     /\ got' = <<field, a[field]>>
     /\ result' = "0"
     /\ UNCHANGED <<family, a, made>>
  \/ ~IsAttr /\ Fails(f, "EINVAL")

\* The process-shared attribute is refused only where it is not defined at all.
SetPshared(f, v) == Set(f, "pshared", v, {PRIVATE, SHARED})

\* An object is made as its attributes say; without any, private.
Make(kind) ==
  /\ made' = [kind |-> kind, shared |-> IsAttr /\ a.pshared = SHARED]
  /\ result' = "0"
  /\ UNCHANGED <<family, a, got>>

-----------------------------------------------------------------------------
MutexattrInit          == New("mutex")
MutexattrDestroy       == Free("mutex")

\* Fault: the kind is stored before it is looked at.
MutexattrSettypeFirst(v) ==
  /\ family = "mutex" /\ IsAttr
  /\ a' = [a EXCEPT !.kind = v]
  /\ result' = IF v \in {FAST, RECURSIVE_NP, ERRORCHECK} THEN "0" ELSE "EINVAL"
  /\ UNCHANGED <<family, got, made>>

MutexattrSettype(v)    == Set("mutex", "kind", v, {FAST, RECURSIVE_NP, ERRORCHECK})
MutexattrGettype       == Get("mutex", "kind")
MutexattrSetrobust(v)  == Set("mutex", "robustness", v, {STALLED, ROBUST})
MutexattrGetrobust     == Get("mutex", "robustness")
MutexattrSetpshared(v) == SetPshared("mutex", v)
MutexattrGetpshared    == Get("mutex", "pshared")

CondattrInit          == New("cond")
CondattrDestroy       == Free("cond")
CondattrSetpshared(v) == SetPshared("cond", v)
CondattrGetpshared    == Get("cond", "pshared")

RwlockattrInit          == New("rwlock")
RwlockattrDestroy       == Free("rwlock")
RwlockattrSetpshared(v) == SetPshared("rwlock", v)
RwlockattrGetpshared    == Get("rwlock", "pshared")

BarrierattrInit          == New("barrier")
BarrierattrDestroy       == Free("barrier")
BarrierattrSetpshared(v) == SetPshared("barrier", v)
BarrierattrGetpshared    == Get("barrier", "pshared")

-----------------------------------------------------------------------------
(* Thread attributes. *)

AttrInit                 == New("thread")
AttrDestroy              == Free("thread")
AttrSetdetachstate(v)    == Set("thread", "detachstate", v, {JOINABLE, DETACHED})
AttrGetdetachstate       == Get("thread", "detachstate")
AttrSetstacksize(v)      == v \in Sizes /\ Set("thread", "stacksize", v, Sizes)
AttrGetstacksize         == Get("thread", "stacksize")
AttrSetinheritsched(v)   == Set("thread", "inheritsched", v, {INHERIT, EXPLICIT})
AttrGetinheritsched      == Get("thread", "inheritsched")
AttrSetaffinity(m)       == Set("thread", "cpuset", m, CpuSets)
AttrGetaffinity          == Get("thread", "cpuset")
AttrSetschedparam(p) ==
  Set("thread", "param", p, {q \in Priorities : ValidPriority(q)})
AttrGetschedparam        == Get("thread", "param")

\* Stack addresses are not supported.
AttrSetstackaddr == Fails("thread", "ENOSYS")
AttrGetstackaddr == Fails("thread", "ENOSYS")

\* The only policy is not stored.
AttrSetschedpolicy(v) ==
  IF ~IsAttr THEN Fails("thread", "EINVAL")
  ELSE Fails("thread", IF v = SCHED_OTHER THEN "0" ELSE "ENOTSUP")

AttrGetschedpolicy ==
  \/ /\ family = "thread" /\ IsAttr
     /\ got' = <<"policy", SCHED_OTHER>>
     /\ result' = "0"
     /\ UNCHANGED <<family, a, made>>
  \/ ~IsAttr /\ Fails("thread", "EINVAL")

\* These two do not look whether there is an object: the caller must have one.
AttrSetscope(v) ==
  /\ IsAttr
  /\ IF v = SCOPE_PROCESS THEN Fails("thread", "ENOTSUP")
     ELSE Set("thread", "contentionscope", v, {SCOPE_SYSTEM})
AttrGetscope == IsAttr /\ Get("thread", "contentionscope")

-----------------------------------------------------------------------------
(* What is made from them. *)

\* pthread_mutex_init: the kinds 0, 1, 2 become -1, -2, -3 for robust mutexes.
MutexInit ==
  LET robust == IsAttr /\ a.robustness = ROBUST
  IN  /\ family = "mutex"
      /\ IF IsAttr /\ a.pshared = SHARED THEN Fails("mutex", "ENOSYS")
         ELSE \/ Make(IF ~IsAttr THEN FAST ELSE IF robust THEN -a.kind - 1 ELSE a.kind)
              \/ Fails("mutex", "ENOMEM")

CondInit ==
  /\ family = "cond"
  /\ IF IsAttr /\ a.pshared = SHARED THEN Fails("cond", "ENOSYS") ELSE Make(FAST)

\* Attributes are not supported at all.
RwlockInit ==
  /\ family = "rwlock"
  /\ IF IsAttr THEN Fails("rwlock", "EINVAL") ELSE Make(FAST)

\* The attribute is handed on to sem_init, which fails; that is told as ENOMEM.
BarrierInit ==
  /\ family = "barrier"
  /\ IF IsAttr /\ a.pshared = SHARED THEN Fails("barrier", "ENOMEM") ELSE Make(FAST)

Next ==
  \/ MutexattrInit \/ MutexattrDestroy \/ MutexattrGettype \/ MutexattrGetrobust
  \/ MutexattrGetpshared \/ CondattrInit \/ CondattrDestroy \/ CondattrGetpshared
  \/ RwlockattrInit \/ RwlockattrDestroy \/ RwlockattrGetpshared
  \/ BarrierattrInit \/ BarrierattrDestroy \/ BarrierattrGetpshared
  \/ \E v \in Values :
       \/ MutexattrSettype(v) \/ MutexattrSetrobust(v) \/ MutexattrSetpshared(v)
       \/ CondattrSetpshared(v) \/ RwlockattrSetpshared(v) \/ BarrierattrSetpshared(v)
       \/ AttrSetdetachstate(v) \/ AttrSetinheritsched(v) \/ AttrSetstacksize(v)
       \/ AttrSetschedpolicy(v) \/ AttrSetscope(v)
  \/ AttrInit \/ AttrDestroy \/ AttrGetdetachstate \/ AttrGetstacksize
  \/ AttrGetinheritsched \/ AttrGetaffinity \/ AttrGetschedparam \/ AttrGetschedpolicy
  \/ AttrGetscope \/ AttrSetstackaddr \/ AttrGetstackaddr
  \/ \E p \in Priorities : AttrSetschedparam(p)
  \/ \E m \in CpuSets : AttrSetaffinity(m)
  \/ MutexInit \/ CondInit \/ RwlockInit \/ BarrierInit

Spec == Init /\ [][Next]_vars

-----------------------------------------------------------------------------
\* A call that fails leaves the attributes as they were (of each step).
FailureChangesNothing == result' # "0" => a' = a

\* The type and the robustness of a mutex can both be told from its kind, as
\* pthread_mutex_lock does: robust mutexes are those with a negative kind (of each
\* step).
KindTells ==
  family = "mutex" /\ made' # made =>
    LET k == made'.kind
        robust == k < 0
    IN  IF ~IsAttr THEN k = FAST
        ELSE /\ robust <=> a.robustness = ROBUST
             /\ a.kind = (IF robust THEN -k - 1 ELSE k)

\* Nothing is made that is said to be shared between processes, which only the
\* attribute objects can be.
NothingShared == ~made.shared

\* The setters of the process-shared attribute refuse what is not supported.
SharedRefused == a # Null /\ family # "thread" => a.pshared = PRIVATE
=============================================================================
