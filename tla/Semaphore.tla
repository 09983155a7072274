------------------------------ MODULE Semaphore -------------------------------
(***************************************************************************)
(* A POSIX semaphore on top of a Win32 semaphore: sem_wait, sem_timedwait, *)
(* sem_trywait, sem_post, sem_post_multiple, sem_destroy, and the          *)
(* cancellation of a waiting thread.                                       *)
(*                                                                         *)
(* A critical section of s->lock is one step (module MCSLock).  A thread   *)
(* that finds no permit has lowered value below 0 and waits for the Win32  *)
(* semaphore, which posts release only for such threads.                   *)
(***************************************************************************)
EXTENDS Integers, FiniteSets

CONSTANTS
  Threads,   \* the threads that use the semaphore
  Initial,   \* its initial value
  MaxValue,  \* SEM_VALUE_MAX
  MaxPost,   \* bound: the largest count given to sem_post_multiple
  Ops,       \* the calls that are made
  Cancels    \* "none", "timed" (only in a sem_timedwait) or "all": which waits
             \* are cancelled

ASSUME SemaphoreAssumption ==
  /\ IsFiniteSet(Threads)
  /\ MaxValue \in Nat \ {0} /\ Initial \in 0..MaxValue
  /\ MaxPost \in 1..MaxValue
  /\ Ops \subseteq {"wait", "timedwait", "trywait", "post", "destroy"}
  /\ Cancels \in {"none", "timed", "all"}

VARIABLES
  value,   \* s->value
  tokens,  \* the count of the Win32 semaphore s->sem
  alive,   \* the semaphore has not been destroyed
  pc,      \* pc[t]: "idle", "wait" or "cleanup"
  op,      \* op[t]: the wait t is in: "wait" or "timedwait"
  due      \* history: Initial, plus what was posted, less what was taken

vars == <<value, tokens, alive, pc, op, due>>

Goto(t, l) == pc' = [pc EXCEPT ![t] = l]

At(t, l) == pc[t] = l

Lesser(m, n) == IF m <= n THEN m ELSE n

Init ==
  /\ value = Initial
  /\ tokens = 0
  /\ alive = TRUE
  /\ pc = [t \in Threads |-> "idle"]
  /\ op = [t \in Threads |-> "wait"]
  /\ due = Initial

-----------------------------------------------------------------------------
(* Waiting. *)

\* sem_wait and sem_timedwait: take a permit, or one that is still to come.
Wait(t) ==
  /\ At(t, "idle") /\ alive
  /\ \E o \in Ops \cap {"wait", "timedwait"} : op' = [op EXCEPT ![t] = o]
  /\ value' = value - 1
  /\ IF value' < 0
       THEN Goto(t, "wait") /\ UNCHANGED due
       ELSE due' = due - 1 /\ UNCHANGED pc
  /\ UNCHANGED <<tokens, alive>>

\* sem_trywait, when it does not return EAGAIN.
TryWait(t) ==
  /\ At(t, "idle") /\ alive /\ "trywait" \in Ops
  /\ value > 0
  /\ value' = value - 1
  /\ due' = due - 1
  /\ UNCHANGED <<tokens, alive, pc, op>>

\* The wait for s->sem succeeds, also when the thread has been cancelled.
Wake(t) ==
  /\ At(t, "wait") /\ tokens > 0
  /\ tokens' = tokens - 1
  /\ Goto(t, "idle")
  /\ due' = due - 1
  /\ UNCHANGED <<value, alive, op>>

TimeOut(t) ==
  /\ At(t, "wait") /\ op[t] = "timedwait" /\ tokens = 0
  /\ Goto(t, "cleanup")
  /\ UNCHANGED <<value, tokens, alive, op, due>>

\* pthread_cancel wakes t up; it is going to end after its clean-up.
Cancel(t) ==
  /\ At(t, "wait") /\ tokens = 0
  /\ Cancels = "all" \/ (Cancels = "timed" /\ op[t] = "timedwait")
  /\ Goto(t, "cleanup")
  /\ UNCHANGED <<value, tokens, alive, op, due>>

\* Fault: a thread that gives up does not try to take a post that came late.
CleanupBlindly(t) ==
  /\ At(t, "cleanup")
  /\ value' = value + 1
  /\ Goto(t, "idle")
  /\ UNCHANGED <<tokens, alive, op, due>>

\* ptw32_sem_timedwait_cleanup: take a post that came late, or be counted out.
TakeOrLeave ==
  IF tokens > 0
    THEN tokens' = tokens - 1 /\ due' = due - 1 /\ UNCHANGED value
    ELSE value' = value + 1 /\ UNCHANGED <<tokens, due>>

\* ptw32_sem_wait_cleanup does so too unless *((sem_t *)sem) is NULL; its sem is
\* the semaphore itself, whose first field is value.
Cleanup(t) ==
  /\ At(t, "cleanup")
  /\ IF op[t] = "wait" /\ value = 0
       THEN UNCHANGED <<value, tokens, due>>
       ELSE TakeOrLeave
  /\ Goto(t, "idle")
  /\ UNCHANGED <<alive, op>>

-----------------------------------------------------------------------------
(* Posting: ERANGE, without a step, when the value would become too large. *)

\* Fault: sem_post_multiple releases the Win32 semaphore count times.
PostAll(t, n) ==
  /\ At(t, "idle") /\ alive /\ "post" \in Ops
  /\ value <= MaxValue - n
  /\ value' = value + n
  /\ tokens' = IF value < 0 THEN tokens + n ELSE tokens
  /\ due' = due + n
  /\ UNCHANGED <<alive, pc, op>>

\* sem_post (n = 1) and sem_post_multiple.
Post(t, n) ==
  /\ At(t, "idle") /\ alive /\ "post" \in Ops
  /\ value <= MaxValue - n
  /\ value' = value + n
  /\ tokens' = IF value < 0 THEN tokens + Lesser(-value, n) ELSE tokens
  /\ due' = due + n
  /\ UNCHANGED <<alive, pc, op>>

\* sem_destroy: EBUSY, without a step, when threads are counted as waiting.
Destroy(t) ==
  /\ alive /\ "destroy" \in Ops /\ \A u \in Threads : At(u, "idle")
  /\ value >= 0
  /\ alive' = FALSE
  /\ UNCHANGED <<value, tokens, pc, op, due>>

\* sem_init
Create(t) ==
  /\ At(t, "idle") /\ ~alive /\ \A u \in Threads : At(u, "idle")
  /\ alive' = TRUE /\ value' = Initial /\ tokens' = 0 /\ due' = Initial
  /\ UNCHANGED <<pc, op>>

-----------------------------------------------------------------------------
Step(t) == Wake(t) \/ TimeOut(t) \/ Cleanup(t)

Next ==
  \E t \in Threads :
    \/ Step(t) \/ Wait(t) \/ TryWait(t) \/ Cancel(t) \/ Destroy(t) \/ Create(t)
    \/ \E n \in 1..MaxPost : Post(t, n)

Spec == Init /\ [][Next]_vars

\* A thread that can leave its wait does so.
Fairness == \A t \in Threads : WF_vars(Wake(t)) /\ WF_vars(Cleanup(t))

FairSpec == Spec /\ Fairness

-----------------------------------------------------------------------------
(* Properties. *)

\* Type invariant.
TypeOK ==
  /\ value \in (-Cardinality(Threads))..MaxValue
  /\ tokens \in Nat
  /\ alive \in BOOLEAN
  /\ pc \in [Threads -> {"idle", "wait", "cleanup"}]
  /\ op \in [Threads -> {"wait", "timedwait"}]
  /\ due \in Int

\* The threads that value was lowered for and that have not left their wait.
Waiting == {t \in Threads : pc[t] \in {"wait", "cleanup"}}

\* The Win32 semaphore holds one token for each waiting thread that has been
\* posted and none else, and a negative value counts the others.  This is what
\* sem_destroy, sem_getvalue and sem_trywait read value for.
Accounting == tokens = Cardinality(Waiting) + Lesser(value, 0)

\* Permits are neither made nor lost: those in value and those on their way to
\* a waiting thread are the initial ones and the posted ones less those taken,
\* also when a thread gives up its wait while it is being posted.
Conservation == due = tokens + (IF value > 0 THEN value ELSE 0)

\* All of them: the three counts agree and keep their ranges.
PermitsKept == TypeOK /\ Accounting /\ Conservation

Permits == INSTANCE CountingSemaphore WITH permits <- due

\* A wait succeeds only when there is a permit to take.
PermitSpec == Permits!Spec

\* Nobody waits for ever while value says that nobody has to.
PostedWake ==
  \A t \in Threads : ~<>[](At(t, "wait") /\ value >= 0)
=============================================================================
