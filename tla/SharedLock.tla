------------------------------ MODULE SharedLock ------------------------------
(***************************************************************************)
(* What a read-write lock promises: readers share it and a writer has it   *)
(* to itself, and a writer that waits for the readers it has found is the  *)
(* next to get the lock, unless it gives up.                               *)
(***************************************************************************)

CONSTANT Threads

VARIABLES
  exists,   \* whether there is a lock
  readers, writers,  \* the threads that hold it
  claims    \* the writer that waits for the readers to leave, or nobody

vars == <<exists, readers, writers, claims>>

Init == exists = FALSE /\ readers = {} /\ writers = {} /\ claims = {}

Read(t) ==
  /\ exists /\ writers = {} /\ claims = {}
  /\ t \notin readers
  /\ readers' = readers \union {t}
  /\ UNCHANGED <<exists, writers, claims>>

Claim(t) ==
  /\ exists /\ readers # {} /\ writers = {} /\ claims = {}
  /\ t \notin readers
  /\ claims' = {t}
  /\ UNCHANGED <<exists, readers, writers>>

\* ETIMEDOUT, or the writer is cancelled.
Withdraw(t) ==
  /\ t \in claims
  /\ claims' = claims \ {t}
  /\ UNCHANGED <<exists, readers, writers>>

Write(t) ==
  /\ exists /\ readers = {} /\ writers = {} /\ claims \subseteq {t}
  /\ writers' = {t} /\ claims' = {}
  /\ UNCHANGED <<exists, readers>>

Leave(t) ==
  /\ t \in readers \union writers
  /\ readers' = readers \ {t} /\ writers' = writers \ {t}
  /\ UNCHANGED <<exists, claims>>

Destroy ==
  /\ exists /\ readers = {} /\ writers = {} /\ claims = {}
  /\ exists' = FALSE
  /\ UNCHANGED <<readers, writers, claims>>

Create == ~exists /\ exists' = TRUE /\ UNCHANGED <<readers, writers, claims>>

Next ==
  \/ \E t \in Threads : Read(t) \/ Claim(t) \/ Withdraw(t) \/ Write(t) \/ Leave(t)
  \/ Destroy \/ Create

Spec == Init /\ [][Next]_vars
=============================================================================
