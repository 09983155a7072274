------------------------------- MODULE WaitSet --------------------------------
(***************************************************************************)
(* What a condition variable promises: a signal is for a thread that was   *)
(* waiting when it was made, and a broadcast for all of these.  So nobody  *)
(* comes to wait while there are threads to be woken up.                   *)
(***************************************************************************)
EXTENDS Naturals, FiniteSets

CONSTANT Threads

VARIABLES
  alive,    \* whether there is a condition variable
  waiting,  \* the threads that wait
  due       \* how many of them have been signalled

vars == <<alive, waiting, due>>

Init == alive = TRUE /\ waiting = {} /\ due = 0

Join(t) ==
  /\ alive /\ due = 0
  /\ t \notin waiting
  /\ waiting' = waiting \cup {t}
  /\ UNCHANGED <<alive, due>>

\* A signal that is not lost, and a broadcast.
Signal ==
  /\ alive /\ due < Cardinality(waiting)
  /\ due' \in {due + 1, Cardinality(waiting)}
  /\ UNCHANGED <<alive, waiting>>

\* A thread has been signalled, gives up, or wakes up for no reason.  It counts
\* as one of those that were signalled as long as there are any.
Leave(t) ==
  /\ t \in waiting
  /\ waiting' = waiting \ {t}
  /\ due' = IF due = 0 THEN 0 ELSE due - 1
  /\ UNCHANGED alive

Destroy ==
  /\ alive /\ waiting = {}
  /\ alive' = FALSE
  /\ UNCHANGED <<waiting, due>>

Create == ~alive /\ alive' = TRUE /\ UNCHANGED <<waiting, due>>

Next == (\E t \in Threads : Join(t) \/ Leave(t)) \/ Signal \/ Destroy \/ Create

Spec == Init /\ [][Next]_vars
=============================================================================
