----------------------------- MODULE MCCancellation ---------------------------
(***************************************************************************)
(* Model values for Cancellation: the main thread and two created ones.    *)
(***************************************************************************)
EXTENDS Cancellation, TLC

CONSTANTS a, b
MCThreads == {Main, a, b}

\* Main creates the others and detaches them.  a returns, tests for a
\* cancellation, sets its cancelability in every way but back to deferred, and
\* cancels and kills; b exits, waits in a delay and a join, and cancels.
MCCalls ==
  Main :> {"create", "detach"}
  @@ a :> {"return", "testcancel", "async", "disable", "enable", "cancel", "kill"}
  @@ b :> {"exit", "cancel", "delay", "join"}
-----------------------------------------------------------------------------
\* A structure on the free list is nobody's, one in use has one thread, and no
\* two threads have had the same handle.
StructuresSound == TypeOK /\ FreeListSound /\ HandlesUnique /\ StructureOwned

\* pthread_join gives the status of the thread that its handle names, and every
\* structure goes back to the free list once nobody can join its thread.
JoinSound == JoinStatus /\ NothingLost

\* A thread that ends as cancelled was asked to, once; a request is not forgotten
\* or left for later by a thread that can be cancelled at any time; and no call
\* leaves stateLock locked.
CancelSound == CancelledOnceWhenAsked /\ RequestKept /\ LockReleased /\ NotPendingAsync

\* A thread that is cancelled in a wait leaves it, and one that ends comes to its
\* end.
EndsReached == WaitIsCancelled /\ ExitEnds
=============================================================================
