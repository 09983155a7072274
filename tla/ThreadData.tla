------------------------------- MODULE ThreadData -----------------------------
(***************************************************************************)
(* Thread-specific data: keys with and without a destructor, the values of *)
(* the threads, and the associations ThreadKeyAssoc between a thread and a *)
(* key.  An association is in two chains, that of its thread and that of   *)
(* its key; it is changed with the locks of both held.  All but the ending *)
(* thread lock the key first; ptw32_callUserDestroyRoutines has to start   *)
(* from the thread, and gives up when the key is locked.                   *)
(*                                                                         *)
(* A chain is a sequence, head first, and an association is named by its   *)
(* thread and key: there is never a second one of the two.  Locks are      *)
(* taken in one step (module MCSLock); that they are handed on in the      *)
(* order of arrival is what the strong fairness stands for.                *)
(***************************************************************************)
EXTENDS Naturals, SequencesExt

CONSTANTS
  Threads,
  Keys,
  Plain,       \* the keys that are created without a destructor
  Iterations,  \* PTHREAD_DESTRUCTOR_ITERATIONS
  Null,
  Does         \* a bound: Does[t] has the keys that the thread t creates, sets,
               \* and deletes, and whether it ends

VARIABLES
  key,         \* key[k]: "none", "live", "deleting" or "freed"
  value,       \* value[t][k]: is the value of k in t other than NULL?
  keys,        \* keys[t]: the chain sp->keys, as a sequence of keys
  threads,     \* threads[k]: the chain key->threads, as a sequence of threads
  nextAssoc,   \* nextAssoc[t]: the key of sp->nextAssoc
  keyLock, threadLock,  \* the holders of the locks, or Null
  pc,          \* pc[t]
  cur,         \* cur[t]: the key that t is working on
  iterations,  \* iterations[t], in ptw32_callUserDestroyRoutines
  remaining,   \* remaining[t]: is assocsRemaining positive?
  given        \* history: given[t], the keys whose value a destructor has got

chains == <<keys, threads, nextAssoc>>
locks  == <<keyLock, threadLock>>
rounds == <<iterations, remaining>>
vars   == <<key, value, chains, locks, pc, cur, rounds, given>>

Places == {"user", "set_lock", "set_assoc", "set_value", "del_lock", "del_next",
           "del_assoc", "del_tls", "del_drain", "round", "next", "try", "unlock",
           "destructor", "return", "done"}

At(t, l)   == pc[t] = l
Goto(t, l) == pc' = [pc EXCEPT ![t] = l]

\* A destructor calls the library at most once (a bound).
Calls(t)   == pc[t] \in {"user", "destructor"}
Exiting(t) == iterations[t] > 0
Return(t)  == /\ Goto(t, IF Exiting(t) THEN "return" ELSE "user")
              /\ cur' = [cur EXCEPT ![t] = Null]

Head1(s) == IF s = <<>> THEN Null ELSE Head(s)

\* Where e is in a chain, which has it once; what comes after it, if anything;
\* and the chain without it.
Position(s, e)  == CHOOSE i \in 1..Len(s) : s[i] = e
After(s, e)  == IF Position(s, e) = Len(s) THEN Null ELSE s[Position(s, e) + 1]
Without(s, e) == RemoveAt(s, Position(s, e))

Init ==
  /\ key = [k \in Keys |-> "none"]
  /\ value = [t \in Threads |-> [k \in Keys |-> FALSE]]
  /\ keys = [t \in Threads |-> <<>>]
  /\ threads = [k \in Keys |-> <<>>]
  /\ nextAssoc = [t \in Threads |-> Null]
  /\ keyLock = [k \in Keys |-> Null]
  /\ threadLock = [t \in Threads |-> Null]
  /\ pc = [t \in Threads |-> "user"]
  /\ cur = [t \in Threads |-> Null]
  /\ iterations = [t \in Threads |-> 0]
  /\ remaining = [t \in Threads |-> FALSE]
  /\ given = [t \in Threads |-> {}]

-----------------------------------------------------------------------------
(* The associations, with both locks held. *)

\* ptw32_tkAssocCreate: at the head of both chains.
AssocCreate(t, k) ==
  /\ keys' = [keys EXCEPT ![t] = <<k>> \o @]
  /\ threads' = [threads EXCEPT ![k] = <<t>> \o @]
  /\ UNCHANGED nextAssoc

\* Fault: a thread that is to come to the association next is not told.
AssocDestroyUntold(t, k) ==
  /\ keys' = [keys EXCEPT ![t] = Without(@, k)]
  /\ threads' = [threads EXCEPT ![k] = Without(@, t)]
  /\ UNCHANGED nextAssoc

\* ptw32_tkAssocDestroy: out of both chains, and the thread, if it is ending
\* and was to come to it, goes on with the one after it.
AssocDestroy(t, k) ==
  /\ nextAssoc' = [nextAssoc EXCEPT ![t] = IF @ = k THEN After(keys[t], k) ELSE @]
  /\ keys' = [keys EXCEPT ![t] = Without(@, k)]
  /\ threads' = [threads EXCEPT ![k] = Without(@, t)]

-----------------------------------------------------------------------------
(* Keys and values. *)

\* pthread_key_create; ENOMEM and EAGAIN are no steps.
KeyCreate(t, k) ==
  /\ At(t, "user") /\ key[k] = "none" /\ k \in Does[t].create
  /\ key' = [key EXCEPT ![k] = "live"]
  /\ UNCHANGED <<value, chains, locks, pc, cur, rounds, given>>

\* pthread_setspecific, where no association is needed.
SetPlain(t, k, v) ==
  /\ Calls(t) /\ key[k] = "live"
  /\ k \in Does[t].set
  /\ k \in Plain \/ ~v
  /\ value' = [value EXCEPT ![t][k] = v]
  /\ Return(t)
  /\ UNCHANGED <<key, chains, locks, rounds, given>>

\* pthread_setspecific of a value for a key with a destructor: key->keyLock ...
SetCall(t, k) ==
  /\ Calls(t) /\ key[k] = "live" /\ k \notin Plain /\ k \in Does[t].set
  /\ cur' = [cur EXCEPT ![t] = k]
  /\ Goto(t, "set_lock")
  /\ UNCHANGED <<key, value, chains, locks, rounds, given>>

SetLocksKey(t) ==
  /\ At(t, "set_lock") /\ keyLock[cur[t]] = Null
  /\ keyLock' = [keyLock EXCEPT ![cur[t]] = t]
  /\ Goto(t, "set_assoc")
  /\ UNCHANGED <<key, value, chains, threadLock, cur, rounds, given>>

\* ... sp->threadLock, an association if there is none, and both released.
\* ENOMEM leaves the value as it was.
SetAssociates(t) ==
  LET k == cur[t]
  IN  /\ At(t, "set_assoc") /\ threadLock[t] = Null
      /\ keyLock' = [keyLock EXCEPT ![k] = Null]
      /\ \/ /\ IF Contains(keys[t], k) THEN UNCHANGED chains ELSE AssocCreate(t, k)
            /\ Goto(t, "set_value") /\ UNCHANGED cur
         \/ /\ ~Contains(keys[t], k)
            /\ Return(t) /\ UNCHANGED chains
      /\ UNCHANGED <<key, value, threadLock, rounds, given>>

SetValue(t) ==
  /\ At(t, "set_value")
  /\ value' = [value EXCEPT ![t][cur[t]] = TRUE]
  /\ Return(t)
  /\ UNCHANGED <<key, chains, locks, rounds, given>>

\* pthread_key_delete; the application no longer uses the key.  key->threads
\* is read without the lock.
DeleteCall(t, k) ==
  /\ Calls(t) /\ key[k] = "live" /\ k \in Does[t].delete
  /\ \A u \in Threads : cur[u] = k => pc[u] \notin {"set_lock", "set_assoc", "set_value"}
  /\ key' = [key EXCEPT ![k] = "deleting"]
  /\ cur' = [cur EXCEPT ![t] = k]
  /\ Goto(t, IF k \notin Plain /\ threads[k] # <<>> THEN "del_lock" ELSE "del_tls")
  /\ UNCHANGED <<value, chains, locks, rounds, given>>

DeleteLocksKey(t) ==
  /\ At(t, "del_lock") /\ keyLock[cur[t]] = Null
  /\ keyLock' = [keyLock EXCEPT ![cur[t]] = t]
  /\ Goto(t, "del_assoc")
  /\ UNCHANGED <<key, value, chains, threadLock, cur, rounds, given>>

\* Every association of the key is destroyed, under the lock of its thread.
DeleteAssoc(t) ==
  LET k == cur[t]
      u == Head(threads[k])
  IN  /\ At(t, "del_assoc")
      /\ IF threads[k] # <<>>
           THEN /\ threadLock[u] = Null
                /\ AssocDestroy(u, k) /\ UNCHANGED <<keyLock, pc>>
           ELSE /\ keyLock' = [keyLock EXCEPT ![k] = Null]
                /\ Goto(t, "del_tls")
                /\ UNCHANGED chains
      /\ UNCHANGED <<key, value, threadLock, cur, rounds, given>>

\* TlsFree; a thread that could be holding the lock is waited for.
DeleteTls(t) ==
  /\ At(t, "del_tls")
  /\ value' = [u \in Threads |-> [value[u] EXCEPT ![cur[t]] = FALSE]]
  /\ Goto(t, "del_drain")
  /\ UNCHANGED <<key, chains, locks, cur, rounds, given>>

DeleteDrains(t) ==
  /\ At(t, "del_drain") /\ keyLock[cur[t]] = Null
  /\ key' = [key EXCEPT ![cur[t]] = "freed"]
  /\ Return(t)
  /\ UNCHANGED <<value, chains, locks, rounds, given>>

-----------------------------------------------------------------------------
(* ptw32_callUserDestroyRoutines. *)

\* The thread ends: its associations are gone through again and again.
Exit(t) ==
  /\ At(t, "user") /\ Does[t].exit
  /\ Goto(t, "round")
  /\ iterations' = [iterations EXCEPT ![t] = 1]
  /\ UNCHANGED <<key, value, chains, locks, cur, remaining, given>>

\* Under threadLock: sp->nextAssoc = sp->keys.
Round(t) ==
  /\ At(t, "round") /\ threadLock[t] = Null
  /\ remaining' = [remaining EXCEPT ![t] = FALSE]
  /\ nextAssoc' = [nextAssoc EXCEPT ![t] = Head1(keys[t])]
  /\ Goto(t, "next")
  /\ UNCHANGED <<key, value, keys, threads, locks, cur, iterations, given>>

\* The next association, or the next round, or the end.
NextAssoc(t) ==
  /\ At(t, "next") /\ threadLock[t] = Null
  /\ IF nextAssoc[t] = Null
       THEN /\ IF remaining[t]
                 THEN /\ iterations' = [iterations EXCEPT ![t] = @ + 1]
                      /\ Goto(t, "round")
                 ELSE Goto(t, "done") /\ UNCHANGED iterations
            /\ UNCHANGED <<threadLock, cur>>
       ELSE /\ threadLock' = [threadLock EXCEPT ![t] = t]
            /\ cur' = [cur EXCEPT ![t] = nextAssoc[t]]
            /\ Goto(t, "try")
            /\ UNCHANGED iterations
  /\ UNCHANGED <<key, value, chains, keyLock, remaining, given>>

\* Fault: the lock of the thread is kept while that of the key is waited for.
TryKeepsLock(t) ==
  /\ At(t, "try") /\ keyLock[cur[t]] # Null
  /\ UNCHANGED <<key, value, chains, locks, pc, cur, rounds, given>>

\* EBUSY from the lock of the key: the lock of the thread is released.
TryFails(t) ==
  /\ At(t, "try") /\ keyLock[cur[t]] # Null
  /\ threadLock' = [threadLock EXCEPT ![t] = Null]
  /\ cur' = [cur EXCEPT ![t] = Null]
  /\ Goto(t, "next")
  /\ UNCHANGED <<key, value, chains, keyLock, rounds, given>>

\* With both locks: the pointer moves on, the value is taken and set to NULL,
\* and given to the destructor; an association without a value is destroyed,
\* and any when the rounds are used up.  The lock of the thread is released.
TrySucceeds(t) ==
  LET k == cur[t]
  IN  /\ At(t, "try") /\ keyLock[k] = Null
      /\ keyLock' = [keyLock EXCEPT ![k] = t]
      /\ threadLock' = [threadLock EXCEPT ![t] = Null]
      /\ value' = [value EXCEPT ![t][k] = FALSE]
      /\ nextAssoc' = [nextAssoc EXCEPT ![t] = After(keys[t], k)]
      /\ IF value[t][k] /\ iterations[t] <= Iterations
           THEN /\ remaining' = [remaining EXCEPT ![t] = TRUE]
                /\ given' = [given EXCEPT ![t] = @ \union {k}]
                /\ UNCHANGED <<keys, threads>>
           ELSE /\ keys' = [keys EXCEPT ![t] = Without(@, k)]
                /\ threads' = [threads EXCEPT ![k] = Without(@, t)]
                /\ UNCHANGED <<remaining, given>>
      /\ Goto(t, "unlock")
      /\ UNCHANGED <<key, cur, iterations>>

\* The lock of the key is released, and the destructor runs.
Unlock(t) ==
  /\ At(t, "unlock")
  /\ keyLock' = [keyLock EXCEPT ![cur[t]] = Null]
  /\ Goto(t, IF Contains(keys[t], cur[t]) THEN "destructor" ELSE "next")
  /\ cur' = [cur EXCEPT ![t] = Null]
  /\ UNCHANGED <<key, value, chains, threadLock, rounds, given>>

\* It returns, having called the library or not.
DestructorReturns(t) ==
  /\ pc[t] \in {"destructor", "return"}
  /\ Goto(t, "next")
  /\ UNCHANGED <<key, value, chains, locks, cur, rounds, given>>

-----------------------------------------------------------------------------
Call(t) ==
  \/ \E k \in Keys :
       \/ KeyCreate(t, k) \/ SetCall(t, k) \/ DeleteCall(t, k)
       \/ \E v \in BOOLEAN : SetPlain(t, k, v)
  \/ Exit(t)

\* The thread goes on in a function of the library.
Step(t) ==
  \/ SetLocksKey(t) \/ SetAssociates(t) \/ SetValue(t)
  \/ DeleteLocksKey(t) \/ DeleteAssoc(t) \/ DeleteTls(t) \/ DeleteDrains(t)
  \/ Round(t) \/ NextAssoc(t) \/ TryFails(t) \/ TrySucceeds(t)
  \/ Unlock(t) \/ DestructorReturns(t)

Next == \E t \in Threads : Call(t) \/ Step(t)

Spec == Init /\ [][Next]_vars

\* A thread is scheduled, its destructors return, and a lock it waits for is
\* handed on in the order of arrival.
Fair(t) == SF_vars(Step(t))

FairSpec == Spec /\ \A t \in Threads : Fair(t)

-----------------------------------------------------------------------------
TypeOK ==
  /\ key \in [Keys -> {"none", "live", "deleting", "freed"}]
  /\ value \in [Threads -> [Keys -> BOOLEAN]]
  /\ \A t \in Threads : ToSet(keys[t]) \subseteq Keys \ Plain
  /\ nextAssoc \in [Threads -> Keys \union {Null}]
  /\ pc \in [Threads -> Places]
  /\ iterations \in [Threads -> 0..(Iterations + 2)]
  /\ remaining \in [Threads -> BOOLEAN]

\* The two chains have the same associations, each once, and none of a key
\* that has been freed.
ChainsAgree ==
  \A t \in Threads, k \in Keys :
    /\ Contains(keys[t], k) = Contains(threads[k], t)
    /\ IsInjective(keys[t]) /\ IsInjective(threads[k])
    /\ Contains(keys[t], k) => key[k] \in {"live", "deleting"}

\* An ending thread comes next to an association that is still there, even
\* if pthread_key_delete has been there while the thread had to give up its
\* lock, or while a destructor ran.
NextIsThere ==
  \A t \in Threads :
    /\ nextAssoc[t] # Null => Contains(keys[t], nextAssoc[t])
    /\ At(t, "try") => cur[t] = nextAssoc[t]

\* A key is not freed under a thread that holds its lock.
FreedUnlocked == \A k \in Keys : key[k] = "freed" => keyLock[k] = Null

\* A value is only set where the destructor will be found.
ValuesAssociated ==
  \A t \in Threads, k \in Keys \ Plain :
    value[t][k] /\ key[k] = "live" => Contains(keys[t], k)

\* A thread that has ended leaves no association, and no value that a
\* destructor had to get.
NothingLeft ==
  \A t \in Threads : At(t, "done") =>
    /\ keys[t] = <<>>
    /\ \A k \in Keys \ Plain : key[k] = "live" => ~value[t][k]

\* No destructor gets a value once the rounds are used up, and every value
\* that is taken before goes to a destructor.
ValuesGiven ==
  [][\A t \in Threads, k \in Keys \ Plain :
       value[t][k] /\ ~value'[t][k] /\ key[k] = "live" /\ Exiting(t) /\ At(t, "try") =>
         (k \in given'[t] /\ pc'[t] = "unlock") \/ iterations[t] > Iterations]_vars

\* A thread that ends comes to its end, whatever keys the others delete
\* meanwhile: ptw32_callUserDestroyRoutines, which takes the locks in the
\* other order, never waits for a key with its threadLock held.  Only by
\* setting a key again and again can others make it try for ever.
ExitEnds ==
  \A t \in Threads :
    <>[](\A u \in Threads \ {t} : pc[u] \notin {"set_lock", "set_assoc"}) =>
      (At(t, "round") ~> At(t, "done"))

\* pthread_key_delete returns, though threads end and have to be waited for.
DeleteEnds == \A k \in Keys : key[k] = "deleting" ~> key[k] = "freed"
=============================================================================
