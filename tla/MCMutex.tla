------------------------------- MODULE MCMutex -------------------------------
(***************************************************************************)
(* Model values for Mutex, and for what RobustMutex promises when an owner *)
(* dies.  The two share no state: each behaviour is that of one of them.   *)
(***************************************************************************)
EXTENDS Mutex

CONSTANTS t1, t2, t3

Three == {t1, t2, t3}

EveryKind == {"normal", "errorcheck", "recursive"}

VARIABLES
  robust,  \* is it the robust mutex that is used?
  rmutex, rkind, rlock_idx, revent, rowner, rcount, rstate, rlists, rpc, rop, rresult, rheld

R == INSTANCE RobustMutex WITH
       MaxCount <- 2, Ops <- {"lock"}, TimedKinds <- {},
       mutex <- rmutex, kind <- rkind, lock_idx <- rlock_idx, event <- revent,
       owner <- rowner, count <- rcount, state <- rstate, lists <- rlists, pc <- rpc,
       op <- rop, result <- rresult, held <- rheld

robustVars == <<rmutex, rkind, rlock_idx, revent, rowner, rcount, rstate, rlists, rpc, rop,
                rresult, rheld>>

MutexesInit ==
  /\ robust \in BOOLEAN
  /\ Init /\ R!Init
  /\ IF robust THEN kind = "normal" ELSE rkind = "normal"

MutexesNext ==
  \/ ~robust /\ Next /\ UNCHANGED <<robust, robustVars>>
  \/ robust /\ R!Next /\ UNCHANGED <<robust, vars>>

\* The fairness of both.
MutexesSpec ==
  /\ MutexesInit /\ [][MutexesNext]_<<robust, vars, robustVars>>
  /\ Fairness /\ R!Fairness

-----------------------------------------------------------------------------
\* As long as threads wait for a mutex somebody comes to hold it; and if they wait
\* for a robust mutex whose owner has died, one of them takes it over.
SleepersGoOn == Progress /\ R!DeathIsNoticed
=============================================================================
