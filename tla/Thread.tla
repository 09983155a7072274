--------------------------------- MODULE Thread -------------------------------
(***************************************************************************)
(* The life of a thread: pthread_self for a thread that the library did    *)
(* not create, pthread_create and ptw32_threadStart, the return from the   *)
(* start routine and pthread_exit, pthread_win32_thread_detach_np, and     *)
(* pthread_join with its timed and try variants and pthread_detach.        *)
(*                                                                         *)
(* ptw32_thread_reuse_lock is only held for the short sections that are    *)
(* one step here; stateLock is a lock, because cancellation holds it for   *)
(* longer.  ptw32_threadStart, ptw32_throw and pthread_win32_thread_detach *)
(* _np write or read fields without it, which is kept.  The destructors    *)
(* of thread-specific data are in module ThreadData, the robust mutexes of *)
(* an ending thread in module RobustMutex.                                 *)
(***************************************************************************)
EXTENDS ThreadStruct

CONSTANTS
  Main,            \* the thread that the library did not create
  Calls,           \* bound: Calls[t], the functions that t calls
  DetachMeetsExit, \* may pthread_detach find its thread exiting?
  AffinityFails,   \* may the affinity calls of pthread_self fail?
  AsyncMeetsCall   \* may a thread that is about to be cancelled asynchronously
                   \* go on to a call of the library, or to its end?

VARIABLES
  pc,        \* pc[t]: where t is, "unborn" before its creation
  self,      \* self[t]: the structure under ptw32_selfThreadKey, or Null
  arg,       \* arg[t]: the handle that t is working on
  how,       \* how[t]: why t ends, "return", "exit" or "cancel"; before, the
             \* argument of the call that it is in
  val,       \* val[t]: what pthread_join has given to t
  handleOf,  \* history: handleOf[t] is the handle of t, or NoHandle
  killed     \* history: the threads that pthread_kill has ended

localVars  == <<self, arg, how, val>>
ghosts     == <<handleOf, killed>>
threadVars == <<structVars, pc, localVars, ghosts>>

NoHandle == [p |-> Null, x |-> 0]
Handles  == {handleOf[t] : t \in Threads} \ {NoHandle}

At(t, l)    == pc[t] = l
Goto(t, l)  == pc' = [pc EXCEPT ![t] = l]
For(t, h)   == arg' = [arg EXCEPT ![t] = h]
Return(t)   == Goto(t, "user") /\ For(t, NoHandle)
Ended(t)    == pc[t] = "ended"
Fields(t)   == tp[self[t]]

Places == {"unborn", "start", "user", "self", "create", "join", "join_cancel",
           "join_detach", "destroy", "delay", "delay_cancel", "cancel",
           "cancel_async", "cancel_set", "testcancel", "set", "kill", "terminate", "throw",
           "unwind", "detach_np", "leave", "ended"}

Settings == {"enable", "disable", "async", "deferred"}
Ways     == {"return", "exit", "cancel", "joinable", "detached"} \union Settings

\* pthread_cancel has found t asynchronously cancelable, and not suspended it yet.
Targeted(t) == \E u \in Threads : At(u, "cancel_async") /\ arg[u].p = self[t]
Undisturbed(t) == AsyncMeetsCall \/ ~Targeted(t)

\* A thread with asynchronous cancelability calls only functions that are
\* safe then: pthread_cancel, pthread_setcancelstate and pthread_setcanceltype.
MayCall(t, c) ==
  /\ At(t, "user") /\ self[t] # Null /\ c \in Calls[t]
  /\ c \notin {"return", "exit"} => Undisturbed(t)
  /\ Fields(t).enabled /\ Fields(t).async => c \in {"cancel", "return"} \union Settings

\* The application joins or detaches a thread once, and lets no call that
\* names a thread run on while it does.
Using(h) == {t \in Threads : arg[t] = h /\ pc[t] \notin {"self", "create", "start", "ended"}}

ThreadInit ==
  /\ StructInit
  /\ pc = [t \in Threads |-> IF t = Main THEN "user" ELSE "unborn"]
  /\ self = [t \in Threads |-> Null]
  /\ arg = [t \in Threads |-> NoHandle]
  /\ how = [t \in Threads |-> "return"]
  /\ val = [t \in Threads |-> Null]
  /\ handleOf = [t \in Threads |-> NoHandle]
  /\ killed = {}

-----------------------------------------------------------------------------
(* The handle of a thread that the library did not create. *)

\* pthread_self finds no handle, and takes a structure.
Self(t) ==
  /\ At(t, "user") /\ self[t] = Null
  /\ \E s \in Structs : New(s) /\ For(t, [p |-> s, x |-> tp[s].x])
  /\ Goto(t, "self")
  /\ UNCHANGED <<self, how, val, ghosts>>

\* The thread has its own handle and its affinity: the structure is set up.
SelfDone(t) ==
  /\ At(t, "self")
  /\ LET s == arg[t].p
     IN  /\ tp' = [tp EXCEPT ![s].implicit = TRUE, ![s].detached = TRUE,
                             ![s].threadH = t, ![s].state = Running]
         /\ self' = [self EXCEPT ![t] = s]
  /\ handleOf' = [handleOf EXCEPT ![t] = arg[t]]
  /\ Return(t)
  /\ UNCHANGED <<heap, stateLock, reuseTop, reuseBottom, how, val, killed>>

\* DuplicateHandle fails, or a call for the affinity does; the key is then set
\* all the same, to a structure that is pushed.  (When ptw32_new fails, the code
\* follows the NULL pointer: no step comes after that.)
SelfFails(t) ==
  /\ At(t, "self") /\ arg[t].x < MaxReuse
  /\ Push(arg[t].p)
  /\ \E affinity \in {FALSE, AffinityFails} :
       self' = IF affinity THEN [self EXCEPT ![t] = arg[t].p] ELSE self
  /\ Return(t)
  /\ UNCHANGED <<how, val, ghosts>>

-----------------------------------------------------------------------------
(* Creation. *)

\* pthread_create: a structure, with the detach state of the attributes.
Create(t, detached) ==
  /\ MayCall(t, "create")
  /\ \E s \in Structs :
       /\ New(s)
       /\ For(t, [p |-> s, x |-> tp[s].x])
       /\ how' = [how EXCEPT ![t] = IF detached THEN "detached" ELSE "joinable"]
  /\ Goto(t, "create")
  /\ UNCHANGED <<self, val, ghosts>>

\* _beginthreadex returns the handle of a suspended thread, which is resumed.
CreateBegins(t, u) ==
  /\ At(t, "create") /\ At(u, "unborn")
  /\ LET s == arg[t].p
     IN  tp' = [tp EXCEPT ![s].state = Initial, ![s].threadH = u,
                          ![s].detached = (how[t] = "detached")]
  /\ handleOf' = [handleOf EXCEPT ![u] = arg[t]]
  /\ arg' = [arg EXCEPT ![t] = NoHandle, ![u] = arg[t]]
  /\ how' = [how EXCEPT ![t] = "return"]
  /\ pc' = [pc EXCEPT ![t] = "user", ![u] = "start"]
  /\ UNCHANGED <<heap, stateLock, reuseTop, reuseBottom, self, val, killed>>

\* CreateEvent, malloc or _beginthreadex fail: ptw32_threadDestroy.
CreateFails(t) ==
  /\ At(t, "create") /\ arg[t].x < MaxReuse
  /\ Push(arg[t].p)
  /\ how' = [how EXCEPT ![t] = "return"]
  /\ Return(t)
  /\ UNCHANGED <<self, val, ghosts>>

\* ptw32_threadStart, up to the call of the start routine.  The state that
\* was there before is lost.
Start(t) ==
  /\ At(t, "start")
  /\ LET s == arg[t].p
     IN  /\ stateLock[s] = NoThread
         /\ tp' = [tp EXCEPT ![s].state = Running]
         /\ self' = [self EXCEPT ![t] = s]
  /\ Return(t)
  /\ UNCHANGED <<heap, stateLock, reuseTop, reuseBottom, how, val, ghosts>>

-----------------------------------------------------------------------------
(* The end of a thread. *)

\* The start routine returns, or calls pthread_exit: sp->exitStatus.
Exit(t, w) ==
  /\ MayCall(t, w)
  /\ (w = "return" => ~Fields(t).implicit)
  /\ tp' = [tp EXCEPT ![self[t]].exitStatus = t]
  /\ how' = [how EXCEPT ![t] = w]
  /\ Goto(t, "throw")
  /\ UNCHANGED <<heap, stateLock, reuseTop, reuseBottom, self, arg, val, ghosts>>

\* sp->state = PThreadStateExiting, without the lock; then the clean-up
\* handlers, if the library made the thread.
Throw(t) ==
  /\ At(t, "throw")
  /\ tp' = [tp EXCEPT ![self[t]].state = Exiting]
  /\ Goto(t, "unwind")
  /\ UNCHANGED <<heap, stateLock, reuseTop, reuseBottom, localVars, ghosts>>

\* ptw32_threadStart records the status of a cancelled thread.
Unwind(t) ==
  /\ At(t, "unwind") /\ Undisturbed(t)
  /\ tp' = IF how[t] = "cancel" /\ ~Fields(t).implicit
             THEN [tp EXCEPT ![self[t]].exitStatus = Canceled] ELSE tp
  /\ Goto(t, "detach_np")
  /\ UNCHANGED <<heap, stateLock, reuseTop, reuseBottom, localVars, ghosts>>

\* pthread_win32_thread_detach_np, up to the state PThreadStateLast.
ThreadDetach(t) ==
  /\ At(t, "detach_np")
  /\ stateLock[self[t]] = NoThread
  /\ tp' = [tp EXCEPT ![self[t]].state = Last]
  /\ Goto(t, "leave")
  /\ UNCHANGED <<heap, stateLock, reuseTop, reuseBottom, localVars, ghosts>>

\* It destroys the structure of a detached thread, and the thread ends.
Leave(t) ==
  /\ At(t, "leave")
  /\ IF Fields(t).detached
       THEN Push(self[t]) /\ self' = [self EXCEPT ![t] = Null]
       ELSE UNCHANGED <<structVars, self>>
  /\ Goto(t, "ended")
  /\ UNCHANGED <<arg, how, val, ghosts>>

-----------------------------------------------------------------------------
(* Joining and detaching. *)

\* pthread_join and its variants: the tests of the handle.  ESRCH, EINVAL,
\* ENOENT and EDEADLK are no steps.
Join(t, h) ==
  /\ MayCall(t, "join")
  /\ Joinable(h) /\ h # Handle(self[t]) /\ Using(h) = {}
  /\ For(t, h)
  /\ Goto(t, "join")
  /\ UNCHANGED <<structVars, self, how, val, ghosts>>

\* The thread has ended: its status, and then pthread_detach.
JoinEnds(t) ==
  /\ At(t, "join") /\ Ended(tp[arg[t].p].threadH)
  /\ val' = [val EXCEPT ![t] = tp[arg[t].p].exitStatus]
  /\ Goto(t, "join_detach")
  /\ UNCHANGED <<structVars, self, arg, how, ghosts>>

\* ETIMEDOUT of pthread_timedjoin_np, EBUSY of pthread_tryjoin_np.
JoinTimesOut(t) ==
  /\ At(t, "join") /\ ~Ended(tp[arg[t].p].threadH)
  /\ Return(t)
  /\ UNCHANGED <<structVars, self, how, val, ghosts>>

\* Fault: pthread_detach leaves a thread that has ended to itself.
DetachNow(t, h) ==
  /\ Joinable(h) /\ stateLock[h.p] = NoThread
  /\ tp' = [tp EXCEPT ![h.p].detached = TRUE]
  /\ val' = [val EXCEPT ![t] = Null]
  /\ Return(t)
  /\ UNCHANGED <<heap, stateLock, reuseTop, reuseBottom, self, how, ghosts>>

\* pthread_detach, under ptw32_thread_reuse_lock and stateLock: destroyIt,
\* or the thread will do it.
DetachLocked(t, h) ==
  /\ Joinable(h) /\ stateLock[h.p] = NoThread
  /\ DetachMeetsExit \/ tp[h.p].state # Exiting
  /\ IF tp[h.p].state < Last
       THEN tp' = [tp EXCEPT ![h.p].detached = TRUE]
       ELSE UNCHANGED tp
  /\ IF tp[h.p].state >= Exiting THEN Goto(t, "destroy") /\ For(t, h) ELSE Return(t)
  /\ val' = [val EXCEPT ![t] = Null]
  /\ UNCHANGED <<heap, stateLock, reuseTop, reuseBottom, self, how, ghosts>>

Detach(t, h) == MayCall(t, "detach") /\ Using(h) = {} /\ DetachLocked(t, h)
JoinDetach(t) == At(t, "join_detach") /\ DetachLocked(t, arg[t])

\* The detacher waits until the thread has ended, and destroys the structure.
Destroy(t) ==
  /\ At(t, "destroy")
  /\ LET u == tp[arg[t].p].threadH IN u = NoThread \/ Ended(u)
  /\ Push(arg[t].p)
  /\ Return(t)
  /\ UNCHANGED <<self, how, val, ghosts>>

-----------------------------------------------------------------------------
CreationNext(t) ==
  \/ Self(t) \/ SelfDone(t) \/ SelfFails(t)
  \/ \E d \in BOOLEAN : Create(t, d)
  \/ \E u \in Threads : CreateBegins(t, u)
  \/ CreateFails(t) \/ Start(t)

EndNext(t) ==
  \/ \E w \in {"return", "exit"} : Exit(t, w)
  \/ Throw(t) \/ Unwind(t) \/ ThreadDetach(t) \/ Leave(t)

JoinNext(t) ==
  \/ \E h \in Handles : Join(t, h) \/ Detach(t, h)
  \/ JoinEnds(t) \/ JoinTimesOut(t) \/ JoinDetach(t) \/ Destroy(t)

-----------------------------------------------------------------------------
ThreadTypeOK ==
  /\ StructTypeOK
  /\ pc \in [Threads -> Places]
  /\ self \in [Threads -> Structs \union {Null}]
  /\ how \in [Threads -> Ways]
  /\ val \in [Threads -> Threads \union {Null, Canceled}]

\* The handle of a thread is never given to another, although structures are
\* used again: pthread_equal tells threads apart.
HandlesUnique ==
  \A t, u \in Threads : t # u /\ handleOf[t] = handleOf[u] => handleOf[t] = NoHandle

\* A living thread has its structure for itself: it is neither on the list
\* of free ones nor that of another living thread.
StructureOwned ==
  \A t \in Threads : self[t] # Null /\ ~Ended(t) =>
    /\ self[t] \notin Free /\ Handle(self[t]) = handleOf[t]
    /\ \A u \in Threads \ {t} : ~Ended(u) => self[u] # self[t]

\* pthread_join returns the status of the thread that the handle names, and
\* PTHREAD_CANCELED just when that thread was cancelled or killed.
JoinStatus ==
  \A t, u \in Threads :
    At(t, "join_detach") /\ arg[t] = handleOf[u] =>
      IF u \in killed THEN val[t] \in {u, Canceled}
      ELSE val[t] = IF how[u] = "cancel" THEN Canceled ELSE u

\* When every thread has ended, the structures of those that were detached or
\* joined are all free again.
NothingLost ==
  \A t \in Threads :
    Ended(t) /\ t \notin killed /\ handleOf[t] # NoHandle /\ Valid(handleOf[t]) =>
      \/ ~tp[handleOf[t].p].detached
      \/ \E u \in Threads : At(u, "destroy") /\ arg[u] = handleOf[t]
=============================================================================
