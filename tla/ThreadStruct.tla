------------------------------ MODULE ThreadStruct ----------------------------
(***************************************************************************)
(* The structures of threads, ptw32_thread_t_, and the list of those that  *)
(* are free to be used again.  A structure is never given back to the      *)
(* heap.  A handle, pthread_t, is the structure and the value its counter  *)
(* had when the thread got it: the counter is raised when the structure is *)
(* pushed on the list, so that older handles are known to be stale.        *)
(* Structures are taken from the top of the list and pushed at its bottom. *)
(***************************************************************************)
EXTENDS Integers, FiniteSets

CONSTANTS
  Threads,    \* the threads of the operating system
  Structs,    \* the structures that calloc may return
  NoThread,   \* in the place of a thread: none
  Null,       \* in the place of a structure: NULL
  End,        \* PTW32_THREAD_REUSE_EMPTY
  MaxReuse    \* bound: how often a structure may be used again

VARIABLES
  heap,         \* the structures that calloc has returned
  tp,           \* tp[s]: the fields of structure s
  stateLock,    \* stateLock[s]: the thread that has the lock of s
  reuseTop,     \* ptw32_threadReuseTop
  reuseBottom   \* ptw32_threadReuseBottom

structVars == <<heap, tp, stateLock, reuseTop, reuseBottom>>

\* PThreadState, in its order: the code compares states with <.
Initial       == 0
Reuse         == 1
Running       == 2
CancelPending == 4
Canceling     == 5
Exiting       == 6
Last          == 7
States        == {Initial, Reuse, Running, CancelPending, Canceling, Exiting, Last}

Canceled == "PTHREAD_CANCELED"

\* What stands for "none" is no thread and no structure.
ASSUME StructAssumption ==
  /\ NoThread \notin Threads /\ Null \notin Threads /\ Canceled \notin Threads
  /\ Null \notin Structs /\ End \notin Structs /\ Null # Canceled
  /\ IsFiniteSet(Structs) /\ MaxReuse \in Nat

\* What memset leaves of a structure, and ptw32_new makes of it.
Clean(x, st) ==
  [x |-> x, state |-> st, detached |-> FALSE, enabled |-> TRUE, async |-> FALSE,
   implicit |-> FALSE, exitStatus |-> Null, threadH |-> NoThread,
   cancelEvent |-> FALSE, prevReuse |-> End]

Handle(s) == [p |-> s, x |-> tp[s].x]

\* The two tests of a handle against its structure.
Valid(h)    == tp[h.p].x = h.x
Joinable(h) == Valid(h) /\ ~tp[h.p].detached

StructInit ==
  /\ heap = {}
  /\ tp = [s \in Structs |-> Clean(0, Initial)]
  /\ stateLock = [s \in Structs |-> NoThread]
  /\ reuseTop = End /\ reuseBottom = End

\* ptw32_threadReusePop, or calloc when the list is empty, and the default
\* fields that ptw32_new gives.
New(s) ==
  /\ IF reuseTop # End
       THEN /\ s = reuseTop
            /\ reuseTop' = tp[s].prevReuse
            /\ reuseBottom' = IF reuseTop' = End THEN End ELSE reuseBottom
            /\ UNCHANGED heap
       ELSE /\ heap # Structs /\ s = CHOOSE r \in Structs : r \notin heap
            /\ heap' = heap \union {s}
            /\ UNCHANGED <<reuseTop, reuseBottom>>
  /\ tp[s].x <= MaxReuse
  /\ tp' = [tp EXCEPT ![s] = Clean(@.x, @.state)]
  /\ stateLock' = [stateLock EXCEPT ![s] = NoThread]

\* Fault: the counter is not raised.
PushUncounted(s) ==
  /\ tp' = IF reuseBottom = End
             THEN [tp EXCEPT ![s] = Clean(@.x, Reuse)]
             ELSE [tp EXCEPT ![s] = Clean(@.x, Reuse), ![reuseBottom].prevReuse = s]
  /\ stateLock' = [stateLock EXCEPT ![s] = NoThread]
  /\ reuseTop' = IF reuseBottom = End THEN s ELSE reuseTop
  /\ reuseBottom' = s
  /\ UNCHANGED heap

\* ptw32_threadReusePush: all but the counter is wiped, the lock as well.
Push(s) ==
  LET wiped == [tp EXCEPT ![s] = Clean(@.x + 1, Reuse)]
  IN  /\ tp' = IF reuseBottom = End THEN wiped
               ELSE [wiped EXCEPT ![reuseBottom].prevReuse = s]
      /\ stateLock' = [stateLock EXCEPT ![s] = NoThread]
      /\ reuseTop' = IF reuseBottom = End THEN s ELSE reuseTop
      /\ reuseBottom' = s
      /\ UNCHANGED heap

-----------------------------------------------------------------------------
\* Following prevReuse from the top; the list has at most all structures.
Walk[n \in Nat] ==
  IF n = 0 THEN reuseTop
  ELSE IF Walk[n - 1] \in Structs THEN tp[Walk[n - 1]].prevReuse ELSE Walk[n - 1]

Free == {Walk[n] : n \in 0..Cardinality(Structs)} \ {End}

StructTypeOK ==
  /\ heap \subseteq Structs
  /\ \A s \in Structs :
       /\ tp[s].state \in States /\ tp[s].x \in 0..(MaxReuse + 1)
       /\ tp[s].threadH \in Threads \union {NoThread}
       /\ tp[s].exitStatus \in Threads \union {Null, Canceled}
       /\ tp[s].prevReuse \in Structs \union {End}
       /\ stateLock[s] \in Threads \union {NoThread}
  /\ {reuseTop, reuseBottom} \subseteq heap \union {End}

\* The list of free structures ends, with the bottom, and has nothing that a
\* thread still has its handle, its state or its cancel event in; what
\* ptw32_reuse.c says of it.  A structure that is pushed twice closes a cycle.
FreeListSound ==
  /\ Walk[Cardinality(Structs)] = End
  /\ (reuseTop = End) = (reuseBottom = End)
  /\ \A s \in Free :
       /\ tp[s].state = Reuse /\ tp[s].threadH = NoThread
       /\ (tp[s].prevReuse = End) = (s = reuseBottom)
=============================================================================
