------------------------------ MODULE MCSemaphore ------------------------------
(* Model values for Semaphore. *)
EXTENDS Semaphore

CONSTANTS t1, t2, t3, t4

Two == {t1, t2}

Untimed == {"wait", "post"}
=============================================================================
