------------------------------- MODULE MCRWLock -------------------------------
(* Model values for RWLock. *)
EXTENDS RWLock

CONSTANTS t1, t2, t3

Three == {t1, t2, t3}
=============================================================================
