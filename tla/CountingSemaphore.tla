-------------------------- MODULE CountingSemaphore ---------------------------
(* What a semaphore promises: a thread gets a permit that is there, only     *)
(* posts make permits, and a destroyed semaphore has none to give.           *)
EXTENDS Naturals

CONSTANT Initial  \* the permits of a new semaphore

VARIABLES permits, alive

vars == <<permits, alive>>

Init == permits = Initial /\ alive = TRUE

Take == alive /\ permits > 0 /\ permits' = permits - 1 /\ UNCHANGED alive

Give == alive /\ permits' \in Nat /\ permits' > permits /\ UNCHANGED alive

Destroy == alive /\ alive' = FALSE /\ UNCHANGED permits

Create == ~alive /\ alive' = TRUE /\ permits' = Initial

Next == Take \/ Give \/ Destroy \/ Create

Spec == Init /\ [][Next]_vars
=============================================================================
