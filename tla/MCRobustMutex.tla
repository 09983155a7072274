---------------------------- MODULE MCRobustMutex -----------------------------
(* Model values for RobustMutex. *)
EXTENDS RobustMutex

CONSTANTS t1, t2, t3

Two   == {t1, t2}
Three == {t1, t2, t3}

Normal   == {"normal"}
LockOnly == {"lock"}
None     == {}
=============================================================================
