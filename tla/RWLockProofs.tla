----------------------------- MODULE RWLockProofs -----------------------------
(***************************************************************************)
(* For every finite set of threads and every INT_MAX above their number: a *)
(* writer excludes all others, the three counters give the readers that    *)
(* are there, and nobody overtakes a waiting writer; in all, the lock is   *)
(* the abstract one of SharedLock.                                         *)
(*                                                                         *)
(* Excluded is not inductive: that a writer may enter rests on the         *)
(* counters, and that these are right on who owns the two mutexes.  IInv   *)
(* adds what the mutexes, *rwlock and nExclusiveAccessCount say of the     *)
(* places of the threads, and that the counters have room.                 *)
(***************************************************************************)
EXTENDS RWLock, FiniteSetTheorems, TLAPS

-----------------------------------------------------------------------------
(* The inductive invariant. *)

\* The places at which a thread has mtxExclusiveAccess.
Exclusives == {"shared", "rebase", "wait", "leave_exclusive", "destroy_shared"}

\* Who owns the two mutexes, as the places of the threads tell.
Owners ==
  /\ \A p \in Threads :
       pc[p] \in Exclusives \/ hold[p] = "write" => mtxExclusiveAccess = p
  /\ \A p \in Threads :
       mtxExclusiveAccess = p => pc[p] \in Exclusives \union {"leave"} \/ hold[p] = "write"
  /\ \A p \in Threads :
       mtxSharedAccessCompleted = p <=> pc[p] = "leave" \/ hold[p] = "write"

\* Where a thread may hold the lock, and in which calls it may be.
Where ==
  \A p \in Threads :
    /\ hold[p] = "write" => pc[p] = "idle"
    /\ hold[p] = "read" => pc[p] \in {"idle", "rebase", "leave_exclusive", "count_out"}
    /\ pc[p] \in {"rebase", "count_out"} => hold[p] = "read"
    /\ op[p] = "unlock" => pc[p] \in {"idle", "count_out", "leave", "leave_exclusive"}
    /\ pc[p] \in {"destroy_exclusive", "destroy_shared"} => op[p] = "destroy"

\* Nobody is past the tests of *rwlock of a lock that is not there.
Unused ==
  ptr # "live" => \A p \in Threads :
    hold[p] = "none" /\ pc[p] \in {"idle", "need_init", "destroy_static"}

\* A destroyer that waits for the mutexes has to wait only for unlocks.
Alone ==
  \A p \in Threads : pc[p] \in {"destroy_exclusive", "destroy_shared"} =>
    ptr = "live" /\ \A q \in Threads : q # p => Passive(q)

\* nExclusiveAccessCount tells whether there is a writer.
Writing ==
  nExclusiveAccessCount = IF \E p \in Threads : hold[p] = "write" THEN 1 ELSE 0

WriterWaiting == \E p \in Threads : At(p, "wait")

\* The counters of the readers have room for one more: at INT_MAX somebody is
\* about to rebase them.
Room ==
  /\ nSharedAccessCount \in 0..IntMax
  /\ nSharedAccessCount = IntMax => \E p \in Threads : At(p, "rebase")
  /\ ~WriterWaiting => nCompletedSharedAccessCount >= 0

IInv ==
  /\ TypeOK /\ Owners /\ Where /\ Unused /\ Alone /\ Writing
  /\ Exclusion /\ ReadersCounted /\ Room

-----------------------------------------------------------------------------
(* Counters and readers. *)

\* In its range a C int is the number itself.
LEMMA CIntIdentity ==
  ASSUME NEW n \in Int, -IntMax - 1 <= n, n <= IntMax
  PROVE  CInt(n) = n
<1>1. IntMax \in Nat
  BY RWLockAssumption
<1>2. n + IntMax + 1 \in 0..(2 * IntMax + 1)
  BY <1>1
<1>3. (n + IntMax + 1) % (2 * IntMax + 2) = n + IntMax + 1
  BY <1>1, <1>2
<1> QED
  BY <1>1, <1>3 DEF CInt

\* The readers are fewer than INT_MAX.
LEMMA ReadersFinite ==
  /\ IsFiniteSet(Readers)
  /\ Cardinality(Readers) \in Nat /\ Cardinality(Readers) < IntMax
<1>1. IsFiniteSet(Threads) /\ IntMax \in Nat /\ Cardinality(Threads) < IntMax
  BY RWLockAssumption
<1>2. Readers \subseteq Threads
  BY DEF Readers
<1> QED
  BY <1>1, <1>2, FS_Subset, FS_CardinalityType

\* At its places in mtxExclusiveAccess a thread is the only one there.
LEMMA AloneThere ==
  ASSUME IInv, NEW p \in Threads, pc[p] \in Exclusives,
         NEW q \in Threads, pc[q] \in Exclusives \/ hold[q] = "write"
  PROVE  p = q
BY DEF IInv, Owners


-----------------------------------------------------------------------------
(* Owners, places and *rwlock. *)

Structure == Owners /\ Where /\ Unused /\ Alone /\ Writing

Calls == ReadCalls \union WriteCalls

\* Every step keeps them; that of a destroyer because there is no reader when it
\* has found the counters equal.
LEMMA StructureStep ==
  ASSUME IInv, Next
  PROVE  Structure'
<1> USE RWLockAssumption
<1> USE DEF IInv, TypeOK, Owners, Where, Unused, Alone, Writing, Structure, Goto, At, Holds,
            Exclusives, Passive, Destroying, ReadCalls, WriteCalls, Places, locks, counts, Timed
<1>1. ASSUME NEW p \in Threads,
           InitLock(p) \/ NeedInit(p)
      PROVE  Structure'
  BY <1>1 DEF InitLock, NeedInit, Create
<1>2. ASSUME NEW p \in Threads,
           RdLock(p) \/ TimedRdLock(p) \/ TryRdLock(p) \/ WrLock(p) \/ TimedWrLock(p)
           \/ TryWrLock(p) \/ DestroyWaits(p)
      PROVE  Structure'
  BY <1>2 DEF RdLock, TimedRdLock, TryRdLock, WrLock, TimedWrLock, TryWrLock,
                    DestroyWaits, TakeExclusive, GiveUp
<1>3. ASSUME NEW p \in Threads,
           CountIn(p) \/ Rebase(p) \/ SharedTimesOut(p)
      PROVE  Structure'
  BY <1>3 DEF CountIn, Rebase, SharedTimesOut
<1>4. ASSUME NEW p \in Threads,
           TrySharedFails(p) \/ WriterWaits(p) \/ TryWriteFails(p)
      PROVE  Structure'
  BY <1>4 DEF TrySharedFails, WriterWaits, TryWriteFails
<1>5. ASSUME NEW p \in Threads,
           WriterEnters(p) \/ WriterWakes(p)
      PROVE  Structure'
  BY <1>5 DEF WriterEnters, WriterWakes
<1>6. ASSUME NEW p \in Threads,
           WriterGivesUp(p)
      PROVE  Structure'
  BY <1>6 DEF WriterGivesUp, CancelWrWait
<1>7. ASSUME NEW p \in Threads,
           Unlock(p)
      PROVE  Structure'
  BY <1>7 DEF Unlock, Exclusion
<1>8. ASSUME NEW p \in Threads,
           CountOut(p) \/ LeaveShared(p) \/ LeaveExclusive(p)
      PROVE  Structure'
  BY <1>8 DEF CountOut, LeaveShared, LeaveExclusive
<1>9. ASSUME NEW p \in Threads,
           Destroy(p) \/ DestroyStatic(p)
      PROVE  Structure'
  BY <1>9 DEF Destroy, DestroyStatic, MayDestroy
<1>10. ASSUME NEW p \in Threads, DestroyDone(p) PROVE Structure'
  <2>1. Busy \/ \A q \in Threads : hold[q] = "none"
    <3>1. SUFFICES ASSUME ~Busy PROVE \A q \in Threads : hold[q] = "none"
      OBVIOUS
    <3>2. ~WriterWaiting /\ \A q \in Threads : hold[q] # "write"
      BY <1>10, AloneThere DEF DestroyDone, WriterWaiting
    <3>3. Cardinality(Readers) = 0
      BY <3>1, <3>2, ReadersFinite DEF Busy, ReadersCounted, WriterWaiting
    <3>4. Readers = {}
      BY <3>3, ReadersFinite, FS_EmptySet
    <3> QED
      BY <3>2, <3>4 DEF Readers
  <2> QED
    BY <1>10, <2>1 DEF DestroyDone
<1>11. ASSUME NEW p \in Threads, NEW o \in Calls, Enter(p, o) PROVE Structure'
  BY <1>11 DEF Enter, Calls
<1>12. ASSUME TimeChange PROVE Structure'
  BY <1>12 DEF TimeChange
<1> QED
  BY <1>1, <1>2, <1>3, <1>4, <1>5, <1>6, <1>7, <1>8, <1>9, <1>10, <1>11, <1>12 DEF Next, Step, Calls

LEMMA SameReaders ==
  ASSUME \A p \in Threads : hold'[p] = "read" <=> hold[p] = "read"
  PROVE  Readers' = Readers
BY DEF Readers

\* A step that leaves the readers, their counters and the places that tell
\* something of them alone.
LEMMA CountsStay ==
  ASSUME IInv, UNCHANGED <<nSharedAccessCount, nCompletedSharedAccessCount>>,
         \A p \in Threads : hold'[p] = "read" <=> hold[p] = "read",
         \A p \in Threads : At(p, "wait")' <=> At(p, "wait"),
         \A p \in Threads : At(p, "rebase") => At(p, "rebase")'
  PROVE  ReadersCounted' /\ Room'
<1>1. Readers' = Readers
  BY SameReaders
<1>2. WriterWaiting' <=> WriterWaiting
  BY DEF WriterWaiting
<1>3. ReadersCounted'
  BY <1>1, <1>2 DEF IInv, ReadersCounted, WriterWaiting
<1>4. Room'
  BY <1>2 DEF IInv, Room
<1> QED
  BY <1>3, <1>4

\* A step after which the counters say of n readers that none has completed,
\* and no writer waits.
LEMMA CountsAnew ==
  ASSUME Cardinality(Readers') = nSharedAccessCount', nCompletedSharedAccessCount' = 0,
         ~WriterWaiting'
  PROVE  ReadersCounted' /\ Room'
<1>1. Cardinality(Readers') \in Nat /\ Cardinality(Readers') < IntMax
  <2>1. IsFiniteSet(Threads) /\ Readers' \subseteq Threads /\ IntMax \in Nat
        /\ Cardinality(Threads) < IntMax
    BY RWLockAssumption DEF Readers
  <2> QED
    BY <2>1, FS_Subset, FS_CardinalityType
<1>2. ReadersCounted'
  BY <1>1 DEF ReadersCounted, WriterWaiting
<1>3. Room'
  BY <1>1, RWLockAssumption DEF Room
<1> QED
  BY <1>2, <1>3

\* What is left when the completed readers are taken off are the readers.
LEMMA RemainingReaders ==
  ASSUME IInv, ~WriterWaiting
  PROVE  Remaining = Cardinality(Readers)
<1>1. /\ Cardinality(Readers) = nSharedAccessCount - nCompletedSharedAccessCount
      /\ nCompletedSharedAccessCount \in Nat /\ nSharedAccessCount \in 0..IntMax
      /\ IntMax \in Nat
  BY RWLockAssumption DEF IInv, TypeOK, ReadersCounted, WriterWaiting, Room
<1>2. CInt(nSharedAccessCount - nCompletedSharedAccessCount)
        = nSharedAccessCount - nCompletedSharedAccessCount
  <2>1. /\ nSharedAccessCount - nCompletedSharedAccessCount \in Int
        /\ -IntMax - 1 <= nSharedAccessCount - nCompletedSharedAccessCount
        /\ nSharedAccessCount - nCompletedSharedAccessCount <= IntMax
    BY <1>1, ReadersFinite
  <2> QED
    BY <2>1, CIntIdentity
<1> QED
  BY <1>1, <1>2 DEF Remaining

\* One more reader, or one less.
LEMMA ReaderEnters ==
  ASSUME NEW p \in Threads, hold[p] # "read", hold' = [hold EXCEPT ![p] = "read"], TypeOK
  PROVE  Cardinality(Readers') = Cardinality(Readers) + 1
<1>1. Readers' = Readers \cup {p} /\ p \notin Readers
  BY DEF Readers, TypeOK
<1> QED
  BY <1>1, ReadersFinite, FS_AddElement

LEMMA ReaderLeaves ==
  ASSUME NEW p \in Threads, hold[p] = "read", hold' = [hold EXCEPT ![p] = "none"], TypeOK
  PROVE  Cardinality(Readers') = Cardinality(Readers) - 1
<1>1. Readers' = Readers \ {p} /\ p \in Readers
  BY DEF Readers, TypeOK
<1> QED
  BY <1>1, ReadersFinite, FS_RemoveElement

-----------------------------------------------------------------------------
(* The counters, step by step. *)

\* A reader counts itself in: nobody waits, and nobody else is at INT_MAX.
LEMMA CountInStep ==
  ASSUME IInv, NEW p \in Threads, CountIn(p)
  PROVE  ReadersCounted' /\ Room'
<1>1. /\ pc[p] = "shared" /\ nSharedAccessCount' = CInt(nSharedAccessCount + 1)
      /\ hold' = [hold EXCEPT ![p] = "read"]
      /\ pc' = [pc EXCEPT ![p] = IF nSharedAccessCount' = IntMax
                                   THEN "rebase" ELSE "leave_exclusive"]
      /\ UNCHANGED nCompletedSharedAccessCount
  BY DEF CountIn, At, Holds, Goto
<1>2. hold[p] = "none" /\ IntMax \in Nat
  BY <1>1, RWLockAssumption DEF IInv, TypeOK, Where
<1>3. \A q \in Threads : pc[q] \notin {"wait", "rebase"}
  BY <1>1, AloneThere DEF Exclusives
<1>4. nSharedAccessCount \in 0..(IntMax - 1) /\ nCompletedSharedAccessCount \in Nat
  BY <1>2, <1>3 DEF IInv, TypeOK, Room, WriterWaiting, At
<1>5. nSharedAccessCount' = nSharedAccessCount + 1
  BY <1>1, <1>2, <1>4, CIntIdentity
<1>6. ~WriterWaiting /\ ~WriterWaiting'
  BY <1>1, <1>3 DEF WriterWaiting, At, IInv, TypeOK
<1>7. Cardinality(Readers') = Cardinality(Readers) + 1 /\ Cardinality(Readers) \in Nat
  BY <1>1, <1>2, ReaderEnters, ReadersFinite DEF IInv
<1>8. ReadersCounted'
  BY <1>1, <1>4, <1>5, <1>6, <1>7 DEF IInv, ReadersCounted, WriterWaiting
<1>9. nSharedAccessCount' = IntMax => At(p, "rebase")'
  BY <1>1 DEF At, IInv, TypeOK
<1>10. Room'
  BY <1>1, <1>2, <1>4, <1>5, <1>9 DEF Room
<1> QED
  BY <1>8, <1>10

LEMMA RebaseStep ==
  ASSUME IInv, NEW p \in Threads, Rebase(p)
  PROVE  ReadersCounted' /\ Room'
<1>1. /\ pc[p] = "rebase"
      /\ nSharedAccessCount' = nSharedAccessCount - nCompletedSharedAccessCount
      /\ nCompletedSharedAccessCount' = 0
      /\ pc' = [pc EXCEPT ![p] = "leave_exclusive"] /\ UNCHANGED hold
  BY DEF Rebase, At, Goto
<1>2. ~WriterWaiting /\ ~WriterWaiting'
  BY <1>1, AloneThere DEF WriterWaiting, At, Exclusives, IInv, TypeOK
<1>3. Readers' = Readers
  BY <1>1, SameReaders
<1>4. Cardinality(Readers) = nSharedAccessCount'
  BY <1>1, <1>2 DEF IInv, ReadersCounted, WriterWaiting
<1> QED
  BY <1>1, <1>2, <1>3, <1>4, CountsAnew

\* A writer finds readers, and waits or gives up, or finds none.
LEMMA WriterSteps ==
  ASSUME IInv, NEW p \in Threads, WriterWaits(p) \/ TryWriteFails(p) \/ WriterEnters(p)
  PROVE  ReadersCounted' /\ Room'
<1>1. pc[p] = "shared" /\ nSharedAccessCount' = Remaining
  BY DEF WriterWaits, TryWriteFails, WriterEnters, At
<1>2. ~WriterWaiting /\ hold[p] = "none"
  BY <1>1, AloneThere DEF WriterWaiting, At, Exclusives, IInv, TypeOK, Where
<1>3. /\ Remaining = Cardinality(Readers)
      /\ Cardinality(Readers) \in Nat /\ Cardinality(Readers) < IntMax /\ IntMax \in Nat
      /\ nCompletedSharedAccessCount \in Nat
  BY <1>2, RemainingReaders, ReadersFinite, RWLockAssumption DEF IInv, TypeOK, Room
<1>4. Readers' = Readers
  BY <1>2, SameReaders DEF WriterWaits, TryWriteFails, WriterEnters, Holds, IInv, TypeOK
<1>5. CASE WriterWaits(p)
  <2>1. nCompletedSharedAccessCount' = -Remaining /\ At(p, "wait")'
    BY <1>5 DEF WriterWaits, Goto, At, IInv, TypeOK
  <2>2. WriterWaiting'
    BY <2>1 DEF WriterWaiting
  <2>3. ReadersCounted'
    BY <1>3, <1>4, <2>1, <2>2 DEF ReadersCounted, WriterWaiting
  <2>4. Room'
    BY <1>1, <1>3, <2>2 DEF Room
  <2> QED
    BY <2>3, <2>4
<1>6. CASE TryWriteFails(p) \/ WriterEnters(p)
  <2>1. /\ nCompletedSharedAccessCount' = 0
        /\ \E l \in {"leave", "idle"} : pc' = [pc EXCEPT ![p] = l]
    BY <1>3, <1>6 DEF TryWriteFails, WriterEnters, Goto
  <2>2. ~WriterWaiting'
    BY <1>2, <2>1 DEF WriterWaiting, At, IInv, TypeOK
  <2> QED
    BY <1>1, <1>3, <1>4, <2>1, <2>2, CountsAnew
<1> QED
  BY <1>5, <1>6

\* A writer has waited: the readers have left, or it gives up.
LEMMA WaiterSteps ==
  ASSUME IInv, NEW p \in Threads, WriterWakes(p) \/ WriterGivesUp(p)
  PROVE  ReadersCounted' /\ Room'
<1>1. pc[p] = "wait" /\ hold[p] = "none"
  BY DEF WriterWakes, WriterGivesUp, At, IInv, TypeOK, Where
<1>2. /\ Cardinality(Readers) = -nCompletedSharedAccessCount
      /\ Cardinality(Readers) \in Nat /\ nCompletedSharedAccessCount \in Int
  BY <1>1, ReadersFinite, RWLockAssumption DEF IInv, TypeOK, ReadersCounted, At
<1>3. Readers' = Readers
  BY <1>1, SameReaders DEF WriterWakes, WriterGivesUp, Holds, IInv, TypeOK
<1>4. CASE /\ UNCHANGED <<nSharedAccessCount, nCompletedSharedAccessCount, pc>>
  BY <1>1, <1>4, CountsStay DEF WriterWakes, WriterGivesUp, Holds, At, IInv, TypeOK
<1>5. CASE /\ nCompletedSharedAccessCount' = 0
           /\ nSharedAccessCount' = -nCompletedSharedAccessCount
           /\ \E l \in {"idle", "leave"} : pc' = [pc EXCEPT ![p] = l]
  <2>1. ~WriterWaiting'
    BY <1>1, <1>5, AloneThere DEF WriterWaiting, At, Exclusives, IInv, TypeOK
  <2> QED
    BY <1>2, <1>3, <1>5, <2>1, CountsAnew
<1> QED
  BY <1>2, <1>4, <1>5 DEF WriterWakes, WriterGivesUp, CancelWrWait, Goto, counts

\* A reader counts itself out; there is at least one, itself.
LEMMA CountOutStep ==
  ASSUME IInv, NEW p \in Threads, CountOut(p)
  PROVE  ReadersCounted' /\ Room'
<1>1. /\ pc[p] = "count_out" /\ hold' = [hold EXCEPT ![p] = "none"]
      /\ nCompletedSharedAccessCount' = nCompletedSharedAccessCount + 1
      /\ pc' = [pc EXCEPT ![p] = "leave"] /\ UNCHANGED nSharedAccessCount
  BY DEF CountOut, At, Holds, Goto
<1>2. hold[p] = "read" /\ nSharedAccessCount \in Int /\ nCompletedSharedAccessCount \in Int
  BY <1>1, RWLockAssumption DEF IInv, TypeOK, Where
<1>3. \A q \in Threads : pc[q] # "count_out" => pc'[q] = pc[q]
  BY <1>1 DEF IInv, TypeOK
<1>4. WriterWaiting' <=> WriterWaiting
  BY <1>1, <1>3 DEF WriterWaiting, At, IInv, TypeOK
<1>5. Cardinality(Readers') = Cardinality(Readers) - 1 /\ Cardinality(Readers) \in Nat
  BY <1>1, <1>2, ReaderLeaves, ReadersFinite DEF IInv
<1>6. ReadersCounted'
  BY <1>1, <1>2, <1>4, <1>5 DEF IInv, ReadersCounted, WriterWaiting
<1>7. Room'
  BY <1>1, <1>2, <1>3, <1>4 DEF IInv, Room, At
<1> QED
  BY <1>6, <1>7

\* The lock is initialised: nobody holds it.
LEMMA CreateStep ==
  ASSUME IInv, NEW p \in Threads, InitLock(p) \/ NeedInit(p)
  PROVE  ReadersCounted' /\ Room'
<1>1. /\ UNCHANGED hold
      /\ UNCHANGED pc \/ (pc[p] = "need_init" /\ \E l \in {"idle", "exclusive"} : pc' = [pc EXCEPT ![p] = l])
  BY DEF InitLock, NeedInit, Goto, At
<1>2. CASE UNCHANGED counts
  BY <1>1, <1>2, CountsStay DEF counts, At, IInv, TypeOK
<1>3. CASE /\ ptr # "live" /\ nSharedAccessCount' = 0 /\ nCompletedSharedAccessCount' = 0
  <2>1. Readers' = {}
    BY <1>1, <1>3 DEF Readers, IInv, Unused
  <2>2. Cardinality(Readers') = 0
    BY <2>1, FS_EmptySet
  <2>3. ~WriterWaiting'
    BY <1>1, <1>3 DEF WriterWaiting, At, IInv, TypeOK, Unused
  <2> QED
    BY <1>3, <2>2, <2>3, CountsAnew
<1> QED
  BY <1>2, <1>3 DEF InitLock, NeedInit, Create, counts

\* The other steps.
LEMMA OtherSteps ==
  ASSUME IInv, ~RebaseMayTimeOut, NEW p \in Threads,
         \/ \E o \in Calls : Enter(p, o)
         \/ RdLock(p) \/ TimedRdLock(p) \/ TryRdLock(p) \/ WrLock(p) \/ TimedWrLock(p)
         \/ TryWrLock(p) \/ DestroyWaits(p) \/ SharedTimesOut(p) \/ TrySharedFails(p)
         \/ Unlock(p) \/ LeaveShared(p) \/ LeaveExclusive(p)
         \/ Destroy(p) \/ DestroyStatic(p) \/ DestroyDone(p)
  PROVE  ReadersCounted' /\ Room'
<1>1. \E l \in Places \ {"wait", "rebase"} :
        pc[p] \notin {"wait", "rebase"} /\ pc' = [pc EXCEPT ![p] = l]
  BY DEF Enter, RdLock, TimedRdLock, TryRdLock, WrLock, TimedWrLock, TryWrLock, DestroyWaits,
         TakeExclusive, GiveUp, SharedTimesOut, TrySharedFails, Unlock, LeaveShared,
         LeaveExclusive, Destroy, MayDestroy, DestroyStatic, DestroyDone, Goto, At, Places
<1>2. UNCHANGED <<nSharedAccessCount, nCompletedSharedAccessCount>>
  BY DEF Enter, RdLock, TimedRdLock, TryRdLock, WrLock, TimedWrLock, TryWrLock, DestroyWaits,
         TakeExclusive, GiveUp, SharedTimesOut, TrySharedFails, Unlock, LeaveShared,
         LeaveExclusive, Destroy, DestroyStatic, DestroyDone, At, counts
<1>3. \A q \in Threads : hold'[q] = "read" <=> hold[q] = "read"
  <2>1. CASE UNCHANGED hold
    BY <2>1
  <2>2. CASE Unlock(p) /\ nExclusiveAccessCount # 0
    <3>1. hold' = [hold EXCEPT ![p] = "none"] /\ hold[p] # "none"
      BY <2>2 DEF Unlock, Holds
    <3>2. hold[p] # "read"
      BY <2>2, <3>1 DEF IInv, Writing, Exclusion
    <3> QED
      BY <3>1, <3>2 DEF IInv, TypeOK
  <2> QED
    BY <2>1, <2>2
       DEF Enter, RdLock, TimedRdLock, TryRdLock, WrLock, TimedWrLock, TryWrLock,
           DestroyWaits, TakeExclusive, GiveUp, SharedTimesOut, TrySharedFails, Unlock,
           LeaveShared, LeaveExclusive, Destroy, DestroyStatic, DestroyDone, At
<1> QED
  BY <1>1, <1>2, <1>3, CountsStay DEF At, IInv, TypeOK

-----------------------------------------------------------------------------
(* The invariant. *)

\* A writer is let in when there is no reader, and it has both mutexes.
LEMMA ExclusionStep ==
  ASSUME IInv, Next
  PROVE  Exclusion'
<1>1. ASSUME NEW p \in Threads, WriterEnters(p) \/ WriterWakes(p) PROVE Exclusion'
  <2>1. CASE UNCHANGED hold
    BY <2>1 DEF IInv, Exclusion
  <2>2. CASE hold' = [hold EXCEPT ![p] = "write"] /\ Cardinality(Readers) = 0
    <3>1. Readers = {}
      BY <2>2, ReadersFinite, FS_EmptySet
    <3>2. \A q \in Threads : q # p => hold[q] # "write"
      BY <1>1, AloneThere DEF WriterEnters, WriterWakes, At, Exclusives
    <3>3. \A q \in Threads : q # p => hold'[q] = "none"
      BY <2>2, <3>1, <3>2 DEF Readers, IInv, TypeOK
    <3> QED
      BY <3>3 DEF Exclusion
  <2>3. CASE WriterEnters(p)
    <3>1. pc[p] = "shared" /\ ~MustWait /\ hold' = [hold EXCEPT ![p] = "write"]
      BY <2>3 DEF WriterEnters, At, Holds
    <3>2. ~WriterWaiting /\ \A q \in Threads : hold[q] # "write"
      BY <3>1, AloneThere DEF WriterWaiting, At, Exclusives, IInv, Where
    <3>3. nExclusiveAccessCount = 0
      BY <3>2 DEF IInv, Writing
    <3>4. Cardinality(Readers) = 0
      BY <3>1, <3>2, <3>3, RemainingReaders, ReadersFinite DEF MustWait
    <3> QED
      BY <2>2, <3>1, <3>4
  <2>4. CASE WriterWakes(p) /\ ~(nCompletedSharedAccessCount < 0)
    <3>1. Cardinality(Readers) = -nCompletedSharedAccessCount
      BY <2>4 DEF WriterWakes, IInv, ReadersCounted
    <3>2. Cardinality(Readers) = 0
      BY <2>4, <3>1, ReadersFinite, RWLockAssumption DEF IInv, TypeOK
    <3> QED
      BY <2>2, <2>4, <3>2 DEF WriterWakes, Holds
  <2> QED
    BY <1>1, <2>1, <2>3, <2>4 DEF WriterWakes
<1>2. ASSUME \A p \in Threads : hold'[p] = hold[p] \/ hold'[p] = "none" PROVE Exclusion'
  BY <1>2 DEF IInv, Exclusion
<1>3. ASSUME NEW p \in Threads, CountIn(p) PROVE Exclusion'
  <2>1. \A q \in Threads : hold[q] # "write"
    BY <1>3, AloneThere DEF CountIn, At, Exclusives, IInv, Where
  <2> QED
    BY <1>3, <2>1 DEF CountIn, Holds, Exclusion, IInv, TypeOK
<1>4. CASE UNCHANGED hold
  BY <1>2, <1>4
<1>5. ASSUME NEW p \in Threads, SharedTimesOut(p) \/ Unlock(p) \/ CountOut(p)
      PROVE  Exclusion'
  BY <1>2, <1>5 DEF SharedTimesOut, Unlock, CountOut, Holds, IInv, TypeOK
<1> QED
  BY <1>1, <1>3, <1>4, <1>5
     DEF Next, Step, Enter, NeedInit, RdLock, TimedRdLock, TryRdLock, WrLock, TimedWrLock,
         TryWrLock, TakeExclusive, GiveUp, Rebase, TrySharedFails, WriterWaits, TryWriteFails,
         LeaveShared, LeaveExclusive, DestroyStatic, DestroyWaits, DestroyDone, InitLock,
         WriterGivesUp, Destroy, TimeChange

\* The counters stay C ints: the readers are fewer than INT_MAX.
LEMMA CountersTyped ==
  ASSUME ReadersCounted', Room', nCompletedSharedAccessCount' \in Int
  PROVE  {nSharedAccessCount', nCompletedSharedAccessCount'} \subseteq (-IntMax - 1)..IntMax
<1>1. Cardinality(Readers') \in Nat /\ Cardinality(Readers') < IntMax /\ IntMax \in Nat
  <2>1. IsFiniteSet(Threads) /\ Readers' \subseteq Threads /\ IntMax \in Nat
        /\ Cardinality(Threads) < IntMax
    BY RWLockAssumption DEF Readers
  <2> QED
    BY <2>1, FS_Subset, FS_CardinalityType
<1> PICK r \in Nat : r = Cardinality(Readers')
  BY <1>1
<1>2. nSharedAccessCount' \in (-IntMax - 1)..IntMax /\ nSharedAccessCount' \in 0..IntMax
  BY <1>1 DEF Room
<1>3. nCompletedSharedAccessCount' \in (-IntMax - 1)..IntMax
  <2>1. CASE WriterWaiting'
    <3>1. Cardinality(Readers') = -nCompletedSharedAccessCount'
      BY <2>1 DEF ReadersCounted, WriterWaiting
    <3>2. PICK c \in Int : c = nCompletedSharedAccessCount'
      OBVIOUS
    <3>3. r = -c
      BY <3>1, <3>2
    <3>4. c \in (-IntMax - 1)..IntMax
      BY <1>1, <3>3
    <3> QED
      BY <3>2, <3>4
  <2>2. CASE ~WriterWaiting'
    <3>1. /\ Cardinality(Readers') = nSharedAccessCount' - nCompletedSharedAccessCount'
          /\ nCompletedSharedAccessCount' >= 0
      BY <2>2 DEF ReadersCounted, Room, WriterWaiting
    <3>2. r = nSharedAccessCount' - nCompletedSharedAccessCount'
      BY <3>1
    <3>3. PICK c \in Int, n \in Int :
            c = nCompletedSharedAccessCount' /\ n = nSharedAccessCount'
      BY <1>2
    <3>4. r = n - c /\ c >= 0 /\ n <= IntMax
      BY <1>1, <1>2, <3>1, <3>2, <3>3
    <3>5. c \in (-IntMax - 1)..IntMax
      BY <1>1, <3>4
    <3> QED
      BY <3>3, <3>5
  <2> QED
    BY <2>1, <2>2
<1> QED
  BY <1>2, <1>3

\* What the type invariant says besides; nExclusiveAccessCount is counted by
\* Writing.
Typed ==
  /\ ptr \in {"static", "live", "null"}
  /\ {mtxExclusiveAccess, mtxSharedAccessCompleted} \subseteq Threads \union {NoThread}
  /\ nCompletedSharedAccessCount \in Int
  /\ woken \subseteq Threads
  /\ pc \in [Threads -> Places]
  /\ op \in [Threads -> Calls \union {"unlock", "destroy"}]
  /\ hold \in [Threads -> {"none", "read", "write"}]

LEMMA TypedStep ==
  ASSUME IInv, Next, Room'
  PROVE  Typed'
<1> USE DEF Calls, ReadCalls, WriteCalls, Places, At, Goto, Holds, locks, counts
<1>1. Typed /\ nSharedAccessCount \in Int /\ nSharedAccessCount' \in Int
  BY RWLockAssumption DEF IInv, TypeOK, Typed, Room
<1>2. ASSUME NEW p \in Threads,
             InitLock(p) \/ NeedInit(p) \/ (\E o \in Calls : Enter(p, o)) \/ DestroyStatic(p)
               \/ Destroy(p) \/ DestroyDone(p)
      PROVE  Typed'
  BY <1>1, <1>2 DEF InitLock, NeedInit, Create, Enter, DestroyStatic, Destroy, DestroyDone, Typed
<1>3. ASSUME NEW p \in Threads,
             RdLock(p) \/ TimedRdLock(p) \/ TryRdLock(p) \/ WrLock(p) \/ TimedWrLock(p)
               \/ TryWrLock(p) \/ DestroyWaits(p)
      PROVE  Typed'
  BY <1>1, <1>3 DEF RdLock, TimedRdLock, TryRdLock, WrLock, TimedWrLock, TryWrLock, DestroyWaits,
                    TakeExclusive, GiveUp, Typed
<1>4. ASSUME NEW p \in Threads,
             CountIn(p) \/ Rebase(p) \/ SharedTimesOut(p) \/ TrySharedFails(p) \/ CountOut(p)
               \/ LeaveShared(p) \/ LeaveExclusive(p) \/ Unlock(p)
      PROVE  Typed'
  BY <1>1, <1>4 DEF CountIn, Rebase, SharedTimesOut, TrySharedFails, CountOut, LeaveShared,
                    LeaveExclusive, Unlock, Typed
<1>5. ASSUME NEW p \in Threads,
             WriterWaits(p) \/ TryWriteFails(p) \/ WriterEnters(p) \/ WriterWakes(p)
               \/ WriterGivesUp(p)
      PROVE  Typed'
  BY <1>1, <1>5 DEF WriterWaits, TryWriteFails, WriterEnters, WriterWakes, WriterGivesUp,
                    CancelWrWait, Typed
<1>6. ASSUME TimeChange PROVE Typed'
  BY <1>1, <1>6 DEF TimeChange, Typed
<1> QED
  BY <1>2, <1>3, <1>4, <1>5, <1>6 DEF Next, Step

\* The inductive invariant, without time-outs on the second mutex of a timed
\* read lock: they lose counts.
LEMMA InvStep ==
  ASSUME IInv, ~RebaseMayTimeOut, [Next]_vars
  PROVE  IInv'
<1>1. CASE UNCHANGED vars
  BY <1>1 DEF vars, locks, counts, IInv, TypeOK, Owners, Where, Unused, Alone, Writing, Exclusion,
              ReadersCounted, Readers, Room, WriterWaiting, At, Passive
<1>2. CASE Next
  <2>1. ReadersCounted' /\ Room'
    <3>1. CASE TimeChange
      BY <3>1, CountsStay DEF TimeChange, counts, At
    <3>2. ASSUME NEW p \in Threads,
                 \/ \E o \in ReadCalls \union WriteCalls : Enter(p, o)
                 \/ Step(p) \/ Unlock(p) \/ InitLock(p) \/ WriterGivesUp(p) \/ Destroy(p)
          PROVE  ReadersCounted' /\ Room'
      BY <3>2, CountInStep, RebaseStep, WriterSteps, WaiterSteps, CountOutStep, CreateStep,
         OtherSteps DEF Step, Calls
    <3> QED
      BY <1>2, <3>1, <3>2 DEF Next
  <2>2. Typed'
    BY <1>2, <2>1, TypedStep
  <2>3. Structure' /\ Exclusion'
    BY <1>2, StructureStep, ExclusionStep
  <2>4. nExclusiveAccessCount' \in 0..1
    BY <2>3 DEF Structure, Writing
  <2>5. TypeOK'
    BY <2>1, <2>2, <2>4, CountersTyped DEF Typed, TypeOK, Calls
  <2> QED
    BY <2>1, <2>3, <2>5 DEF IInv, Structure
<1> QED
  BY <1>1, <1>2

LEMMA InvInit == Init => IInv
<1> SUFFICES ASSUME Init PROVE IInv
  OBVIOUS
<1> USE RWLockAssumption DEF Init
<1>1. Readers = {} /\ Cardinality(Readers) = 0
  <2>1. Readers = {}
    BY DEF Readers
  <2> QED
    BY <2>1, FS_EmptySet
<1>2. TypeOK
  BY DEF TypeOK, ReadCalls, WriteCalls, Places
<1>3. Owners /\ Where /\ Unused /\ Alone /\ Writing /\ Exclusion
  BY DEF Owners, Where, Unused, Alone, Writing, Exclusion, Exclusives
<1>4. ReadersCounted /\ Room
  <2>1. ~WriterWaiting
    BY DEF WriterWaiting, At
  <2>2. ReadersCounted
    BY <1>1, <2>1 DEF ReadersCounted, WriterWaiting
  <2>3. IntMax # 0 /\ IntMax \in Nat
    BY <1>1, ReadersFinite
  <2> QED
    BY <2>1, <2>2, <2>3 DEF Room
<1> QED
  BY <1>2, <1>3, <1>4 DEF IInv

LEMMA Inductive ==
  ASSUME ~RebaseMayTimeOut
  PROVE  Spec => []IInv
<1>1. IInv /\ [Next]_vars => IInv'
  BY InvStep
<1> QED
  BY <1>1, InvInit, PTL DEF Spec

-----------------------------------------------------------------------------
(* The theorems. *)

\* However many threads lock, time out, are cancelled and unlock, and wherever
\* INT_MAX lies above their number, the three counters stay in their ranges and
\* give the readers that are there.
THEOREM CountsKept ==
  ASSUME ~RebaseMayTimeOut
  PROVE  Spec => []Counted
<1>1. IInv => Counted
  BY DEF IInv, Counted
<1> QED
  BY <1>1, Inductive, PTL

\* A writer shares the lock with nobody, and pthread_rwlock_destroy destroys only
\* a lock that nobody holds.
THEOREM Exclusive ==
  ASSUME ~RebaseMayTimeOut
  PROVE  Spec => []Excluded
<1>1. IInv => Excluded
  BY DEF IInv, Excluded, Unused, DestroyedUnheld
<1> QED
  BY <1>1, Inductive, PTL

\* While a writer waits for the readers to leave it keeps mtxExclusiveAccess, and
\* nobody else is let in.
THEOREM NobodyOvertakes ==
  ASSUME ~RebaseMayTimeOut
  PROVE  Spec => NotOvertaken
<1> DEFINE Turn == \A p, q \in Threads :
                     At(p, "wait") /\ q # p /\ hold[q] = "none" => hold'[q] = "none"
<1>1. ASSUME IInv, [Next]_vars PROVE [Turn]_vars
  <2>1. SUFFICES ASSUME Next, NEW p \in Threads, NEW q \in Threads,
                        At(p, "wait"), q # p, hold[q] = "none"
                 PROVE  hold'[q] = "none"
    BY <1>1
  <2>2. pc[q] \notin Exclusives
    BY <1>1, <2>1, AloneThere DEF At, Exclusives
  <2>3. ASSUME NEW r \in Threads,
               CountIn(r) \/ WriterEnters(r) \/ WriterWakes(r)
        PROVE  hold'[q] = "none"
    <3>1. r # q
      BY <2>2, <2>3 DEF CountIn, WriterEnters, WriterWakes, At, Exclusives
    <3> QED
      BY <1>1, <2>1, <2>3, <3>1 DEF CountIn, WriterEnters, WriterWakes, Holds, IInv, TypeOK
  <2>4. ASSUME NEW r \in Threads, SharedTimesOut(r) \/ Unlock(r) \/ CountOut(r)
        PROVE  hold'[q] = "none"
    BY <1>1, <2>1, <2>4 DEF SharedTimesOut, Unlock, CountOut, Holds, IInv, TypeOK
  <2>5. CASE UNCHANGED hold
    BY <2>1, <2>5
  <2> QED
    BY <2>1, <2>3, <2>4, <2>5
       DEF Next, Step, Enter, NeedInit, RdLock, TimedRdLock, TryRdLock, WrLock, TimedWrLock,
           TryWrLock, TakeExclusive, GiveUp, Rebase, TrySharedFails, WriterWaits, TryWriteFails,
           LeaveShared, LeaveExclusive, DestroyStatic, DestroyWaits, DestroyDone, InitLock,
           WriterGivesUp, Destroy, TimeChange
<1>2. IInv /\ [Next]_vars => [Turn]_vars
  BY <1>1
<1> QED
  BY <1>2, Inductive, PTL DEF Spec, NotOvertaken

-----------------------------------------------------------------------------
(* What the lock promises: each step is one of SharedLock, or none. *)

Writers == {p \in Threads : hold[p] = "write"}
Claims  == {p \in Threads : At(p, "wait")}

\* Who is past the tests of *rwlock, or holds the lock, is so of one that is there.
LEMMA LiveThere ==
  ASSUME IInv, NEW p \in Threads,
         hold[p] # "none" \/ pc[p] \notin {"idle", "need_init", "destroy_static"}
  PROVE  ptr = "live"
BY DEF IInv, Unused

\* With mtxExclusiveAccess a thread knows that there is no writer but itself.
LEMMA NoWriterThere ==
  ASSUME IInv, NEW p \in Threads, pc[p] \in Exclusives
  PROVE  Writers = {} /\ Claims \subseteq {p} /\ hold[p] # "write"
<1>1. \A q \in Threads : hold[q] = "write" \/ pc[q] = "wait" => q = p
  BY AloneThere DEF Exclusives
<1>2. hold[p] # "write"
  BY DEF IInv, Where, Exclusives
<1> QED
  BY <1>1, <1>2 DEF Writers, Claims, At

\* A step that leaves those who hold the lock and those who wait for it alone.
LEMMA SharedStays ==
  ASSUME IInv, UNCHANGED hold, (ptr = "live")' <=> ptr = "live",
         \A q \in Threads : At(q, "wait")' <=> At(q, "wait")
  PROVE  UNCHANGED Shared!vars
<1>1. Readers' = Readers /\ Writers' = Writers /\ Claims' = Claims
  BY DEF Readers, Writers, Claims
<1>2. (ptr = "live")' = (ptr = "live")
  OBVIOUS
<1> QED
  BY <1>1, <1>2 DEF Shared!vars, Writers, Claims

LEMMA ReadShared ==
  ASSUME IInv, NEW p \in Threads, CountIn(p)
  PROVE  Shared!Read(p)
<1>1. /\ pc[p] = "shared" /\ UNCHANGED ptr /\ hold' = [hold EXCEPT ![p] = "read"]
      /\ \E l \in {"rebase", "leave_exclusive"} : pc' = [pc EXCEPT ![p] = l]
  BY DEF CountIn, At, Goto, Holds
<1>2. ptr = "live" /\ hold[p] = "none"
  BY <1>1, LiveThere DEF IInv, TypeOK, Where
<1>3. Writers = {} /\ Claims = {}
  BY <1>1, NoWriterThere DEF Exclusives, Claims, At
<1>4. Readers' = Readers \union {p} /\ p \notin Readers /\ Writers' = Writers
  BY <1>1, <1>2 DEF Readers, Writers, IInv, TypeOK
<1>5. Claims' = Claims
  BY <1>1 DEF Claims, At, IInv, TypeOK
<1> QED
  BY <1>1, <1>2, <1>3, <1>4, <1>5 DEF Shared!Read, Writers, Claims

\* A writer that finds readers and waits has found some.
LEMMA ClaimShared ==
  ASSUME IInv, NEW p \in Threads, WriterWaits(p)
  PROVE  Shared!Claim(p)
<1>1. /\ pc[p] = "shared" /\ UNCHANGED <<ptr, hold>> /\ pc' = [pc EXCEPT ![p] = "wait"]
      /\ Remaining > 0
  BY DEF WriterWaits, MustWait, At, Goto
<1>2. ptr = "live" /\ hold[p] = "none"
  BY <1>1, LiveThere DEF IInv, TypeOK, Where
<1>3. Writers = {} /\ Claims = {}
  BY <1>1, NoWriterThere DEF Exclusives, Claims, At
<1>4. Remaining = Cardinality(Readers)
  BY <1>3, RemainingReaders DEF Claims, WriterWaiting
<1>5. Readers # {}
  BY <1>1, <1>4, FS_EmptySet
<1>6. Readers' = Readers /\ Writers' = Writers /\ p \notin Readers
  BY <1>1, <1>2 DEF Readers, Writers
<1>7. Claims' = {p}
  BY <1>1, <1>3 DEF Claims, At, IInv, TypeOK
<1> QED
  BY <1>1, <1>2, <1>3, <1>5, <1>6, <1>7 DEF Shared!Claim, Writers, Claims

LEMMA WithdrawShared ==
  ASSUME IInv, NEW p \in Threads, WriterGivesUp(p)
  PROVE  Shared!Withdraw(p)
<1>1. pc[p] = "wait" /\ UNCHANGED <<ptr, hold>> /\ pc' = [pc EXCEPT ![p] = "leave"]
  BY DEF WriterGivesUp, CancelWrWait, At, Goto
<1>2. Readers' = Readers /\ Writers' = Writers
  BY <1>1 DEF Readers, Writers
<1>3. Claims' = Claims \ {p} /\ p \in Claims
  BY <1>1 DEF Claims, At, IInv, TypeOK
<1> QED
  BY <1>1, <1>2, <1>3 DEF Shared!Withdraw, Writers, Claims

\* A writer is let in when there is nobody else, and nobody else has a claim.
LEMMA WriteShared ==
  ASSUME IInv, Exclusion', NEW p \in Threads, WriterEnters(p) \/ WriterWakes(p)
  PROVE  Shared!Write(p) \/ UNCHANGED Shared!vars
<1>1. pc[p] \in {"shared", "wait"} /\ UNCHANGED ptr
  BY DEF WriterEnters, WriterWakes, At
<1>2. ptr = "live" /\ hold[p] = "none"
  BY <1>1, LiveThere DEF IInv, TypeOK, Where
<1>3. Writers = {} /\ Claims \subseteq {p}
  BY <1>1, NoWriterThere DEF Exclusives
<1>4. CASE hold' = [hold EXCEPT ![p] = "write"] /\ pc' = [pc EXCEPT ![p] = "idle"]
  <2>1. \A q \in Threads : q # p => hold[q] = "none"
    BY <1>4 DEF Exclusion, IInv, TypeOK
  <2>2. Readers = {} /\ Readers' = {} /\ Writers' = {p}
    BY <1>2, <1>4, <2>1 DEF Readers, Writers, IInv, TypeOK
  <2>3. Claims' = {}
    BY <1>3, <1>4 DEF Claims, At, IInv, TypeOK
  <2> QED
    BY <1>1, <1>2, <1>3, <2>2, <2>3 DEF Shared!Write, Writers, Claims
<1>5. CASE UNCHANGED <<pc, hold>>
  BY <1>1, <1>5, SharedStays DEF At
<1> QED
  BY <1>4, <1>5 DEF WriterEnters, WriterWakes, Goto, Holds

\* pthread_rwlock_unlock, by a writer at once, by a reader when it has counted
\* itself out.
LEMMA LeaveShares ==
  ASSUME IInv, NEW p \in Threads, Unlock(p) \/ CountOut(p)
  PROVE  Shared!Leave(p) \/ UNCHANGED Shared!vars
<1>1. /\ pc[p] \in {"idle", "count_out"} /\ UNCHANGED ptr
      /\ \E l \in {"leave", "count_out"} : pc' = [pc EXCEPT ![p] = l]
  BY DEF Unlock, CountOut, At, Goto
<1>2. Claims' = Claims
  BY <1>1 DEF Claims, At, IInv, TypeOK
<1>3. CASE UNCHANGED hold
  BY <1>1, <1>3, SharedStays DEF At, IInv, TypeOK
<1>4. CASE hold' = [hold EXCEPT ![p] = "none"] /\ hold[p] # "none"
  <2>1. Readers' = Readers \ {p} /\ Writers' = Writers \ {p} /\ p \in Readers \union Writers
    BY <1>4 DEF Readers, Writers, IInv, TypeOK
  <2> QED
    BY <1>1, <1>2, <2>1 DEF Shared!Leave, Writers, Claims
<1>5. CountOut(p) => hold[p] # "none"
  BY DEF CountOut, At, IInv, Where
<1> QED
  BY <1>3, <1>4, <1>5 DEF Unlock, CountOut, Holds

\* The lock comes into being.
LEMMA CreateShared ==
  ASSUME IInv, NEW p \in Threads, InitLock(p) \/ NeedInit(p)
  PROVE  Shared!Create \/ UNCHANGED Shared!vars
<1>1. /\ UNCHANGED hold /\ (ptr = "live" => ptr' = "live")
      /\ UNCHANGED pc \/ (pc[p] = "need_init" /\ \E l \in {"idle", "exclusive"} : pc' = [pc EXCEPT ![p] = l])
  BY DEF InitLock, NeedInit, Goto, At
<1>2. \A q \in Threads : At(q, "wait")' <=> At(q, "wait")
  BY <1>1 DEF At, IInv, TypeOK
<1>3. CASE ptr # "live" /\ ptr' = "live"
  <2>1. Readers' = Readers /\ Writers' = Writers /\ Claims' = Claims
    BY <1>1, <1>2 DEF Readers, Writers, Claims
  <2> QED
    BY <1>3, <2>1 DEF Shared!Create, Writers, Claims
<1> QED
  BY <1>1, <1>2, <1>3, SharedStays

\* It goes when nobody holds it and nobody waits for it.
LEMMA DestroyShared ==
  ASSUME IInv, Structure', NEW p \in Threads, DestroyDone(p)
  PROVE  Shared!Destroy \/ UNCHANGED Shared!vars
<1>1. /\ pc[p] = "destroy_shared" /\ UNCHANGED hold
      /\ \E l \in {"idle", "leave"} : pc' = [pc EXCEPT ![p] = l]
  BY DEF DestroyDone, At, Goto
<1>2. \A q \in Threads : At(q, "wait")' <=> At(q, "wait")
  BY <1>1 DEF At, IInv, TypeOK
<1>3. ptr = "live"
  BY <1>1, LiveThere
<1>4. CASE ptr' = "null"
  <2>1. \A q \in Threads : hold'[q] = "none" /\ ~At(q, "wait")'
    BY <1>4 DEF Structure, Unused, At
  <2>2. \A q \in Threads : hold[q] = "none" /\ ~At(q, "wait")
    BY <1>1, <1>2, <2>1
  <2>3. Readers = {} /\ Writers = {} /\ Claims = {}
    BY <2>2 DEF Readers, Writers, Claims
  <2>4. Readers' = {} /\ Writers' = {} /\ Claims' = {}
    BY <2>1 DEF Readers, Writers, Claims
  <2> QED
    BY <1>3, <1>4, <2>3, <2>4 DEF Shared!Destroy, Writers, Claims
<1>5. CASE UNCHANGED ptr
  BY <1>1, <1>2, <1>5, SharedStays
<1> QED
  BY <1>4, <1>5 DEF DestroyDone

\* The other steps are not seen in what the lock promises.
LEMMA HiddenStep ==
  ASSUME IInv, ~RebaseMayTimeOut, NEW p \in Threads,
         \/ \E o \in Calls : Enter(p, o)
         \/ RdLock(p) \/ TimedRdLock(p) \/ TryRdLock(p) \/ WrLock(p) \/ TimedWrLock(p)
         \/ TryWrLock(p) \/ DestroyWaits(p) \/ SharedTimesOut(p) \/ TrySharedFails(p)
         \/ Rebase(p) \/ TryWriteFails(p) \/ LeaveShared(p) \/ LeaveExclusive(p)
         \/ Destroy(p) \/ DestroyStatic(p)
  PROVE  UNCHANGED Shared!vars
<1>1. \E l \in Places \ {"wait"} : pc[p] # "wait" /\ pc' = [pc EXCEPT ![p] = l]
  BY DEF Enter, RdLock, TimedRdLock, TryRdLock, WrLock, TimedWrLock, TryWrLock, DestroyWaits,
         TakeExclusive, GiveUp, SharedTimesOut, TrySharedFails, Rebase, TryWriteFails,
         LeaveShared, LeaveExclusive, Destroy, MayDestroy, DestroyStatic, Goto, At, Places
<1>2. UNCHANGED hold /\ ((ptr = "live")' <=> ptr = "live")
  BY DEF Enter, RdLock, TimedRdLock, TryRdLock, WrLock, TimedWrLock, TryWrLock, DestroyWaits,
         TakeExclusive, GiveUp, SharedTimesOut, TrySharedFails, Rebase, TryWriteFails,
         LeaveShared, LeaveExclusive, Destroy, DestroyStatic, At
<1>3. \A q \in Threads : At(q, "wait")' <=> At(q, "wait")
  BY <1>1 DEF At, IInv, TypeOK
<1> QED
  BY <1>2, <1>3, SharedStays

LEMMA SharedStep ==
  ASSUME IInv, ~RebaseMayTimeOut, [Next]_vars
  PROVE  [Shared!Next]_Shared!vars
<1>1. CASE UNCHANGED vars
  BY <1>1, SharedStays DEF vars, At
<1>2. CASE TimeChange
  BY <1>2, SharedStays DEF TimeChange, At
<1>3. ASSUME NEW p \in Threads,
             \/ \E o \in ReadCalls \union WriteCalls : Enter(p, o)
             \/ Step(p) \/ Unlock(p) \/ InitLock(p) \/ WriterGivesUp(p) \/ Destroy(p)
      PROVE  Shared!Next \/ UNCHANGED Shared!vars
  <2>1. Next
    BY <1>3 DEF Next
  <2>2. Exclusion' /\ Structure'
    BY <2>1, ExclusionStep, StructureStep
  <2> QED
    BY <1>3, <2>2, ReadShared, ClaimShared, WithdrawShared, WriteShared, LeaveShares,
       CreateShared, DestroyShared, HiddenStep DEF Step, Calls, Shared!Next
<1> QED
  BY <1>1, <1>2, <1>3 DEF Next

\* A read-write lock implements SharedLock, for every finite set of threads and
\* every INT_MAX above their number: through rebased counts, time-outs, cancelled
\* writers, first use and destruction nobody sees more than readers that share it,
\* one writer that waits for those it has found, and a lock that goes when free.
THEOREM Implementation ==
  ASSUME ~RebaseMayTimeOut
  PROVE  Spec => SharedSpec
<1>1. Init => Shared!Init
  BY DEF Init, Shared!Init, Readers, At
<1>2. IInv /\ [Next]_vars => [Shared!Next]_Shared!vars
  BY SharedStep
<1> QED
  BY <1>1, <1>2, Inductive, PTL DEF Spec, SharedSpec, Shared!Spec
=============================================================================
