------------------------------ MODULE OwnedLock -------------------------------
(***************************************************************************)
(* What a mutex promises, robust or not: it is given to one thread at a    *)
(* time, which keeps it until it gives it back or dies; and if it dies,    *)
(* the next one is told and answers for the state that the mutex protects. *)
(***************************************************************************)
EXTENDS Naturals

CONSTANT Threads

VARIABLES
  exists,  \* whether there is a mutex
  depth,   \* depth[t]: how often t has locked it and not unlocked it
  health   \* "consistent", "ownerDead" (nobody has been told), "inconsistent"
           \* (its holder has been told) or "notRecoverable"

vars == <<exists, depth, health>>

Init ==
  /\ exists \in BOOLEAN
  /\ depth = [t \in Threads |-> 0]
  /\ health = "consistent"

Free == \A t \in Threads : depth[t] = 0

\* A free mutex is taken, with the result 0.  (One that is lost also is, by a
\* caller that tested for that before it was: RobustMutex!LostIsUnusable.)
Take(t) ==
  /\ exists /\ Free
  /\ health \in {"consistent", "notRecoverable"}
  /\ depth' = [depth EXCEPT ![t] = 1]
  /\ UNCHANGED <<exists, health>>

\* EOWNERDEAD: one thread takes over from the dead holder.
TakeOver(t) ==
  /\ exists /\ Free
  /\ health = "ownerDead"
  /\ depth' = [depth EXCEPT ![t] = 1]
  /\ health' = "inconsistent"
  /\ UNCHANGED exists

\* The holder of a recursive mutex locks it once more.
Again(t) ==
  /\ depth[t] > 0
  /\ depth' = [depth EXCEPT ![t] = @ + 1]
  /\ UNCHANGED <<exists, health>>

\* The holder repairs the state, or is about to unlock the mutex and has not.
Answer(t) ==
  /\ depth[t] > 0
  /\ health = "inconsistent"
  /\ health' \in {"consistent", "notRecoverable"}
  /\ UNCHANGED <<exists, depth>>

\* The holder gives one lock back, never with the question of the state open.
GiveBack(t) ==
  /\ depth[t] > 0
  /\ health # "inconsistent"
  /\ depth' = [depth EXCEPT ![t] = @ - 1]
  /\ UNCHANGED <<exists, health>>

\* The holder dies.
Die(t) ==
  /\ depth[t] > 0
  /\ depth' = [depth EXCEPT ![t] = 0]
  /\ health' = "ownerDead"
  /\ UNCHANGED exists

\* Nobody holds a mutex that is destroyed, nor is its state open.
Destroy ==
  /\ exists /\ Free
  /\ health \in {"consistent", "notRecoverable"}
  /\ exists' = FALSE
  /\ UNCHANGED <<depth, health>>

Create ==
  /\ ~exists
  /\ exists' = TRUE
  /\ health' = "consistent"
  /\ UNCHANGED depth

Next ==
  \/ \E t \in Threads :
       Take(t) \/ TakeOver(t) \/ Again(t) \/ Answer(t) \/ GiveBack(t) \/ Die(t)
  \/ Destroy \/ Create

Spec == Init /\ [][Next]_vars
=============================================================================
