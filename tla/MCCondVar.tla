------------------------------- MODULE MCCondVar -------------------------------
(* Model values for CondVar. *)
EXTENDS CondVar

CONSTANTS t1, t2, t3, t4

Four == {t1, t2, t3, t4}
=============================================================================
