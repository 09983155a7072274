------------------------------ MODULE Cancellation ----------------------------
(***************************************************************************)
(* Cancellation, and pthread_kill, on top of the life of a thread: what    *)
(* pthread_cancel does to the state of the target, at once or at its next  *)
(* cancellation point; pthread_testcancel, the waits of pthread_join and   *)
(* pthread_delay_np as cancellation points, pthread_setcancelstate and     *)
(* pthread_setcanceltype.                                                  *)
(*                                                                         *)
(* For an asynchronous cancellation the target is tested, suspended, sent  *)
(* to ptw32_cancel_self and resumed.  It runs on between the test and the  *)
(* suspension; the rest is one step, as it does not run meanwhile.         *)
(*                                                                         *)
(* What the library does not survive is let happen only when a constant    *)
(* says so: CancelMeetsStart, and AsyncMeetsCall, DetachMeetsExit and      *)
(* AffinityFails of module Thread.                                         *)
(***************************************************************************)
EXTENDS Thread

CONSTANT
  CancelMeetsStart  \* may a thread be cancelled or killed before ptw32_threadStart?

VARIABLES
  asked,  \* history: the threads that a pthread_cancel has named
  acted   \* history: acted[t], how often t has acted on a cancellation: 0, 1, 2

cancelVars == <<asked, acted>>
vars == <<threadVars, cancelVars>>

stackVars == <<heap, reuseTop, reuseBottom>>

\* The threads that the handles that t may use name, of those that may end
\* while they are named: joinable ones, or itself.
MayName(t, h) ==
  /\ \E u \in Threads : handleOf[u] = h
  /\ ~Valid(h) \/ h = Handle(self[t])
       \/ (Joinable(h) /\ \A u \in Using(h) : pc[u] \notin {"join", "join_detach", "destroy"})

\* What a thread sets when it acts on a cancellation.
Act(t) ==
  /\ how' = [how EXCEPT ![t] = "cancel"]
  /\ acted' = [acted EXCEPT ![t] = IF @ = 0 THEN 1 ELSE 2]

BeginsCanceling(s) ==
  tp' = [tp EXCEPT ![s].state = Canceling, ![s].enabled = FALSE]

Init ==
  /\ ThreadInit
  /\ asked = {}
  /\ acted = [t \in Threads |-> 0]

-----------------------------------------------------------------------------
(* pthread_cancel. *)

\* Fault: the handle is not compared with its structure.
CancelUnchecked(t, h) ==
  /\ MayCall(t, "cancel") /\ MayName(t, h)
  /\ tp[h.p].threadH # NoThread
  /\ asked' = asked \union {u \in Threads : handleOf[u] = h}
  /\ For(t, h)
  /\ Goto(t, "cancel")
  /\ UNCHANGED <<structVars, self, how, val, ghosts, acted>>

\* pthread_kill (thread, 0); ESRCH is no step.
Cancel(t, h) ==
  /\ MayCall(t, "cancel") /\ MayName(t, h)
  /\ Valid(h) /\ tp[h.p].threadH # NoThread
  /\ asked' = asked \union {u \in Threads : handleOf[u] = h}
  /\ For(t, h)
  /\ Goto(t, "cancel")
  /\ UNCHANGED <<structVars, self, how, val, ghosts, acted>>

Asynchronous(f) == f.async /\ f.enabled /\ f.state < Canceling

\* The thread cancels itself at once.
CancelSelf(t) ==
  /\ At(t, "cancel") /\ arg[t] = Handle(self[t])
  /\ stateLock[self[t]] = NoThread /\ Asynchronous(Fields(t))
  /\ BeginsCanceling(self[t])
  /\ Act(t)
  /\ Goto(t, "throw") /\ For(t, NoHandle)
  /\ UNCHANGED <<stackVars, stateLock, self, val, ghosts, asked>>

\* Another thread is to be cancelled at once: the test, and the lock is kept.
CancelTestAsync(t) ==
  LET s == arg[t].p
      u == tp[s].threadH
  IN  /\ At(t, "cancel") /\ u # t
      /\ stateLock[s] = NoThread /\ Asynchronous(tp[s])
      /\ AsyncMeetsCall \/ pc[u] \in {"user", "throw"}
      /\ stateLock' = [stateLock EXCEPT ![s] = t]
      /\ Goto(t, "cancel_async")
      /\ UNCHANGED <<stackVars, tp, localVars, ghosts, cancelVars>>

\* A thread at one of these places may stand in the queue for its own lock.
AwaitsOwnLock(u) ==
  pc[u] \in {"set", "detach_np"} \/ (At(u, "cancel") /\ arg[u] = Handle(self[u]))

\* Wherever it is by now, it is suspended and sent to ptw32_throw.  When the lock
\* is released, its node in the queue gets it, and nobody will release that; nor a
\* lock that it has.  If it has ended, the lock is not released.
CancelAsync(t) ==
  LET s == arg[t].p
      u == tp[s].threadH
  IN  /\ At(t, "cancel_async")
      /\ IF Ended(u)
           THEN Return(t) /\ UNCHANGED <<tp, stateLock, how, acted>>
           ELSE /\ BeginsCanceling(s)
                /\ Act(u)
                /\ pc' = [pc EXCEPT ![t] = "user", ![u] = "throw"]
                /\ arg' = [arg EXCEPT ![t] = NoHandle, ![u] = NoHandle]
                /\ \E next \in {NoThread} \union {v \in {u} : AwaitsOwnLock(v)} :
                     stateLock' = [stateLock EXCEPT ![s] = next]
      /\ UNCHANGED <<stackVars, self, val, ghosts, asked>>

\* The deferred request: the state is read, and nothing done when a request
\* is pending (0) or the thread is on its way out (ESRCH).
CancelTest(t) ==
  LET s == arg[t].p
  IN  /\ At(t, "cancel")
      /\ stateLock[s] = NoThread /\ ~Asynchronous(tp[s])
      /\ CancelMeetsStart \/ tp[s].state # Initial
      /\ IF tp[s].state < CancelPending
           THEN /\ stateLock' = [stateLock EXCEPT ![s] = t]
                /\ Goto(t, "cancel_set") /\ UNCHANGED arg
           ELSE Return(t) /\ UNCHANGED stateLock
      /\ UNCHANGED <<stackVars, tp, self, how, val, ghosts, cancelVars>>

\* Fault: the lock of the target is kept.
CancelSetHolding(t) ==
  LET s == arg[t].p
  IN  /\ At(t, "cancel_set")
      /\ tp' = [tp EXCEPT ![s].state = CancelPending, ![s].cancelEvent = TRUE]
      /\ Return(t)
      /\ UNCHANGED <<stackVars, stateLock, self, how, val, ghosts, cancelVars>>

\* PThreadStateCancelPending and the event; the target may have begun to exit
\* in the meantime, and written its state without the lock.
CancelSet(t) ==
  LET s == arg[t].p
  IN  /\ At(t, "cancel_set")
      /\ tp' = [tp EXCEPT ![s].state = CancelPending, ![s].cancelEvent = TRUE]
      /\ stateLock' = [stateLock EXCEPT ![s] = NoThread]
      /\ Return(t)
      /\ UNCHANGED <<stackVars, self, how, val, ghosts, cancelVars>>

-----------------------------------------------------------------------------
(* Cancellation points. *)

\* pthread_testcancel reads the state without the lock.
TestCancel(t) ==
  /\ MayCall(t, "testcancel") /\ Fields(t).state = CancelPending
  /\ Goto(t, "testcancel")
  /\ UNCHANGED <<structVars, localVars, ghosts, cancelVars>>

\* And acts on it under the lock, unless cancellation is disabled.
TestCancelLocked(t) ==
  /\ At(t, "testcancel") /\ stateLock[self[t]] = NoThread
  /\ IF Fields(t).enabled
       THEN /\ tp' = [tp EXCEPT ![self[t]].state = Canceling, ![self[t]].enabled = FALSE,
                                ![self[t]].cancelEvent = FALSE]
            /\ Act(t) /\ Goto(t, "throw")
       ELSE Goto(t, "user") /\ UNCHANGED <<tp, how, acted>>
  /\ UNCHANGED <<stackVars, stateLock, self, arg, val, ghosts, asked>>

\* ptw32_cancelable_wait in pthread_join: the thread that is waited for has
\* not ended, and the event is set, which is reset at once.
JoinCancelled(t) ==
  /\ At(t, "join") /\ ~Ended(tp[arg[t].p].threadH)
  /\ Fields(t).enabled /\ Fields(t).cancelEvent
  /\ tp' = [tp EXCEPT ![self[t]].cancelEvent = FALSE]
  /\ Goto(t, "join_cancel")
  /\ UNCHANGED <<stackVars, stateLock, localVars, ghosts, cancelVars>>

\* pthread_delay_np: it waits for the event, or the interval ends.
Delay(t) ==
  /\ MayCall(t, "delay")
  /\ Goto(t, "delay")
  /\ UNCHANGED <<structVars, localVars, ghosts, cancelVars>>

DelayEnds(t) ==
  /\ At(t, "delay")
  /\ Goto(t, IF Fields(t).enabled /\ Fields(t).cancelEvent THEN "delay_cancel" ELSE "user")
  /\ UNCHANGED <<structVars, localVars, ghosts, cancelVars>>

\* Either acts on the cancellation under the lock.  If pthread_kill has been
\* there before, the wait fails with EINVAL, the delay with ESRCH.
WaitActs(t) ==
  /\ pc[t] \in {"join_cancel", "delay_cancel"} /\ stateLock[self[t]] = NoThread
  /\ IF Fields(t).state < Canceling
       THEN BeginsCanceling(self[t]) /\ Act(t) /\ Goto(t, "throw")
       ELSE Goto(t, "user") /\ UNCHANGED <<tp, how, acted>>
  /\ For(t, NoHandle)
  /\ UNCHANGED <<stackVars, stateLock, self, val, ghosts, asked>>

\* pthread_setcancelstate and pthread_setcanceltype are called ...
SetCall(t, w) ==
  /\ MayCall(t, w)
  /\ how' = [how EXCEPT ![t] = w]
  /\ Goto(t, "set")
  /\ UNCHANGED <<structVars, self, arg, val, ghosts, cancelVars>>

\* ... and, under the lock, set the field.  A request that waited for the
\* thread to be asynchronously cancelable takes effect.
SetFields(f, w) ==
  [f EXCEPT !.enabled = IF w \in {"enable", "disable"} THEN w = "enable" ELSE @,
            !.async = IF w \in {"async", "deferred"} THEN w = "async" ELSE @]

SetDone(t) ==
  LET f == SetFields(Fields(t), how[t])
  IN  /\ At(t, "set") /\ stateLock[self[t]] = NoThread
      /\ IF how[t] \in {"enable", "async"} /\ f.enabled /\ f.async /\ f.cancelEvent
           THEN /\ tp' = [tp EXCEPT ![self[t]] =
                           [f EXCEPT !.state = Canceling, !.enabled = FALSE,
                                     !.cancelEvent = FALSE]]
                /\ Act(t) /\ Goto(t, "throw")
           ELSE /\ tp' = [tp EXCEPT ![self[t]] = f]
                /\ how' = [how EXCEPT ![t] = "return"]
                /\ Goto(t, "user")
                /\ UNCHANGED acted
      /\ UNCHANGED <<stackVars, stateLock, self, arg, val, ghosts, asked>>

-----------------------------------------------------------------------------
(* pthread_kill with SIGINT, SIGTERM, SIGBREAK or SIGABRT. *)

Kill(t, h) ==
  /\ MayCall(t, "kill") /\ MayName(t, h) /\ h # Handle(self[t])
  /\ Valid(h) /\ tp[h.p].threadH # NoThread
  /\ For(t, h)
  /\ Goto(t, "kill")
  /\ UNCHANGED <<structVars, self, how, val, ghosts, cancelVars>>

\* Under the lock: PThreadStateLast, and no cancellation any more.
KillLocked(t) ==
  LET s == arg[t].p
  IN  /\ At(t, "kill") /\ stateLock[s] = NoThread
      /\ CancelMeetsStart \/ tp[s].state # Initial
      /\ IF tp[s].state < Last
           THEN /\ tp' = [tp EXCEPT ![s].state = Last, ![s].enabled = FALSE]
                /\ Goto(t, "terminate") /\ UNCHANGED arg
           ELSE Return(t) /\ UNCHANGED tp
      /\ UNCHANGED <<stackVars, stateLock, self, how, val, ghosts, cancelVars>>

\* TerminateThread, which is taken to find the thread outside of the library
\* or in a wait, or ended (EINVAL).
Terminate(t) ==
  LET s == arg[t].p
      u == tp[s].threadH
  IN  /\ At(t, "terminate") /\ pc[u] \in {"user", "join", "delay", "ended"}
      /\ pc' = [pc EXCEPT ![t] = "user", ![u] = "ended"]
      /\ killed' = IF Ended(u) THEN killed ELSE killed \union {u}
      /\ arg' = [arg EXCEPT ![t] = NoHandle]
      /\ tp' = [tp EXCEPT ![s].exitStatus = IF @ = Null THEN Canceled ELSE @]
      /\ UNCHANGED <<stackVars, stateLock, self, how, val, handleOf, cancelVars>>

-----------------------------------------------------------------------------
CancelNext(t) ==
  \/ \E h \in Handles : Cancel(t, h) \/ Kill(t, h)
  \/ CancelSelf(t) \/ CancelTestAsync(t) \/ CancelAsync(t) \/ CancelTest(t) \/ CancelSet(t)
  \/ TestCancel(t) \/ TestCancelLocked(t)
  \/ JoinCancelled(t) \/ Delay(t) \/ DelayEnds(t) \/ WaitActs(t)
  \/ \E w \in Settings : SetCall(t, w)
  \/ SetDone(t) \/ KillLocked(t) \/ Terminate(t)

LifeNext(t) ==
  (CreationNext(t) \/ EndNext(t) \/ JoinNext(t)) /\ UNCHANGED cancelVars

Next == \E t \in Threads : LifeNext(t) \/ CancelNext(t)

Spec == Init /\ [][Next]_vars

\* A thread in a call of the library goes on; the application need not call.
Fair(t) ==
  /\ WF_vars(CancelAsync(t)) /\ WF_vars(CancelSet(t))
  /\ WF_vars(JoinCancelled(t)) /\ WF_vars(WaitActs(t)) /\ WF_vars(Terminate(t))
  /\ WF_vars((JoinEnds(t) \/ Start(t) \/ Throw(t) \/ Unwind(t) \/ ThreadDetach(t) \/ Leave(t))
               /\ UNCHANGED cancelVars)

FairSpec == Spec /\ \A t \in Threads : Fair(t)

-----------------------------------------------------------------------------
TypeOK ==
  /\ ThreadTypeOK
  /\ asked \subseteq Threads
  /\ acted \in [Threads -> 0..2]

\* A thread acts on a cancellation at most once, and only when a
\* pthread_cancel has named it and no other thread: a handle whose structure
\* is used again hits nobody.
CancelledOnceWhenAsked ==
  \A t \in Threads : acted[t] < 2 /\ (acted[t] = 1 => t \in asked)

\* What pthread_testcancel relies on: when the event of a thread is set, its
\* state tells that a cancellation is pending, so that it need not ask for it.
RequestKept ==
  \A t \in Threads : self[t] # Null /\ ~Ended(t) /\ Fields(t).cancelEvent =>
    Fields(t).state >= CancelPending

\* The lock of a structure is held by a thread that is in pthread_cancel, and
\* will release it.
LockReleased ==
  \A s \in Structs : stateLock[s] # NoThread =>
    pc[stateLock[s]] \in {"cancel_set", "cancel_async"} /\ arg[stateLock[s]].p = s

\* A thread that accepts cancellation asynchronously has no request pending.
NotPendingAsync ==
  \A t \in Threads : At(t, "user") /\ self[t] # Null =>
    ~(Fields(t).async /\ Fields(t).enabled /\ Fields(t).cancelEvent)

\* A thread that waits in pthread_join with a request pending comes out.
WaitIsCancelled ==
  \A t \in Threads :
    (At(t, "join") /\ Fields(t).enabled /\ Fields(t).state = CancelPending)
      ~> ~At(t, "join")

\* A thread that acts on a cancellation, or exits, ends.
ExitEnds == \A t \in Threads : At(t, "throw") ~> Ended(t)
=============================================================================
