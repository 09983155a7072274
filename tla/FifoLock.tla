------------------------------ MODULE FifoLock -------------------------------
(***************************************************************************)
(* What the MCS lock promises: a queue of nodes whose head, once it has    *)
(* been granted the lock, leaves the queue or hands its place to Proxy.    *)
(***************************************************************************)
EXTENDS Sequences, Naturals

CONSTANTS Threads, Proxy

VARIABLES
  queue,   \* the nodes that want or have the lock, in order of arrival
  granted  \* whether the head of the queue has the lock

vars == <<queue, granted>>

Init == queue = <<>> /\ granted = FALSE

\* t arrives; it has the lock at once if nobody is before it.
Arrive(t) ==
  /\ queue' = Append(queue, t)
  /\ granted' = (granted \/ queue = <<>>)

\* The head of the queue takes the lock it has been passed.
Grant ==
  /\ ~granted /\ queue # <<>>
  /\ granted' = TRUE
  /\ UNCHANGED queue

\* The holder passes the lock, or frees it.
Depart ==
  /\ granted
  /\ queue' = Tail(queue)
  /\ granted' = FALSE

\* The holder hands the lock over to the node of global scope.
Move ==
  /\ granted /\ Head(queue) # Proxy
  /\ queue' = <<Proxy>> \o Tail(queue)
  /\ UNCHANGED granted

Next == (\E t \in Threads : Arrive(t)) \/ Grant \/ Depart \/ Move

Spec == Init /\ [][Next]_vars
=============================================================================
