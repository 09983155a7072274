----------------------------- MODULE CondVarProofs -----------------------------
(***************************************************************************)
(* A condition variable keeps its counters and its gate, for every set of  *)
(* threads and every limit on those that are gone.  (Spec has no thread    *)
(* cancelled at the gate; CancelSpec, which has, loses the gate.)          *)
(*                                                                         *)
(* The three properties lean on one another: the counters are safe because *)
(* only one thread is inside the gate, and the gate is because a counter   *)
(* tells the last signalled thread that it is the last.                    *)
(***************************************************************************)
EXTENDS CondVar, FiniteSetTheorems, TLAPS

\* t is in a signal or a broadcast that closes the gate; it is going to rebase
\* the counters; it comes to wait; it destroys the condition variable.
On(t, goals)  == pc[t] \in goals \/ (pc[t] = "gate" /\ goal[t] \in goals)
Closes(t)   == On(t, {"closeOne", "closeAll"})
Rebases(t)  == On(t, {"rebase"})
Arrives(t)  == On(t, {"announce"})
Destroys(t) == On(t, {"destroy"})

\* mtxUnblockLock is held by those that wait for the gate with it, and they
\* find the counters as they left them.
UnlockHeld ==
  /\ \A t \in Threads : unblocker = t <=> (Closes(t) \/ Rebases(t))
  /\ unblocker = NoThread => nWaitersGone < GoneLimit
  /\ \A t \in Threads : Closes(t) =>
       nWaitersToUnblock = 0 /\ nWaitersBlocked > nWaitersGone
  /\ \A t \in Threads : Rebases(t) => nWaitersToUnblock = 0

\* No thread is gone while threads are to be unblocked.
GoneFirst == nWaitersToUnblock > 0 => nWaitersGone = 0

\* Who comes to wait, or destroys, holds the mutex of the callers.
CallersHold ==
  \A t \in Threads : Arrives(t) \/ pc[t] = "release" \/ Destroys(t) => external = t

\* Nobody signals what is being destroyed.
Quiet ==
  \A t \in Threads : Destroys(t) =>
    alive /\ \A u \in Threads : pc[u] # "post" /\ ~Closes(u)

\* After a broadcast all that wait are to be unblocked.
CalledAll ==
  called # {} => called = InWait /\ nWaitersBlocked = 0 /\ nWaitersGone = 0

\* Only a thread at the gate has a goal, and none is cancelled there.
Goals == \A t \in Threads : pc[t] # "cancelled" /\ (pc[t] # "gate" => goal[t] = "announce")

\* The inductive invariant.
Inv ==
  /\ TypeOK /\ WaitersCounted /\ GateKept /\ DestroyedUnused
  /\ UnlockHeld /\ GoneFirst /\ CallersHold /\ Quiet /\ CalledAll /\ Goals

InsideLabels == {"announce", "rebase", "closeOne", "closeAll", "open", "destroy"}
WaitLabels == {"release", "queue", "retract"}

\* The threads at a set of labels.
Where(S) == {t \in Threads : pc[t] \in S}

\* The permits of the gate.
Permits == gateTokens + (IF gateValue > 0 THEN gateValue ELSE 0)

-----------------------------------------------------------------------------
(* Counting threads. *)

\* One thread's step changes the number of threads at a set of labels by one.
LEMMA Moves ==
  ASSUME TypeOK, NEW S, NEW t \in Threads, NEW l, Goto(t, l)
  PROVE  /\ Cardinality(Where(S)) \in Nat /\ Cardinality(Where(S)') \in Nat
         /\ Cardinality(Where(S)') = Cardinality(Where(S))
              - (IF pc[t] \in S THEN 1 ELSE 0) + (IF l \in S THEN 1 ELSE 0)
  <1>1. IsFiniteSet(Where(S)) /\ IsFiniteSet(Where(S)')
    <2>1. Where(S) \in SUBSET Threads /\ Where(S)' \in SUBSET Threads
      BY DEF Where
    <2> QED
      BY <2>1, FS_Subset, CondVarAssumption
  <1>2. Cardinality(Where(S)) \in Nat /\ Cardinality(Where(S)') \in Nat
    BY <1>1, FS_CardinalityType
  <1>3. \A u \in Threads : pc'[u] = IF u = t THEN l ELSE pc[u]
    BY DEF TypeOK, Goto
  <1>4. CASE pc[t] \in S /\ l \in S
    <2>1. Where(S)' = Where(S)
      BY <1>3, <1>4 DEF Where
    <2> QED
      BY <1>2, <1>4, <2>1
  <1>5. CASE pc[t] \in S /\ l \notin S
    <2>1. Where(S)' = Where(S) \ {t} /\ t \in Where(S)
      BY <1>3, <1>5 DEF Where
    <2>2. Cardinality(Where(S) \ {t}) = Cardinality(Where(S)) - 1
      BY <1>1, <2>1, FS_RemoveElement
    <2> QED
      BY <1>2, <1>5, <2>1, <2>2
  <1>6. CASE pc[t] \notin S /\ l \in S
    <2>1. Where(S)' = Where(S) \cup {t} /\ t \notin Where(S)
      BY <1>3, <1>6 DEF Where
    <2>2. Cardinality(Where(S) \cup {t}) = Cardinality(Where(S)) + 1
      BY <1>1, <2>1, FS_AddElement
    <2> QED
      BY <1>2, <1>6, <2>1, <2>2
  <1>7. CASE pc[t] \notin S /\ l \notin S
    <2>1. Where(S)' = Where(S)
      BY <1>3, <1>7 DEF Where
    <2> QED
      BY <1>2, <1>7, <2>1
  <1> QED
    BY <1>4, <1>5, <1>6, <1>7

\* So it is with the threads inside the gate and those in a wait.
LEMMA CountsMove ==
  ASSUME TypeOK, NEW t \in Threads, NEW l, Goto(t, l)
  PROVE  /\ Cardinality(Inside) \in Nat /\ Cardinality(Inside') \in Nat
         /\ Cardinality(InWait) \in Nat /\ Cardinality(InWait') \in Nat
         /\ Cardinality(Inside') = Cardinality(Inside)
              - (IF pc[t] \in InsideLabels THEN 1 ELSE 0) + (IF l \in InsideLabels THEN 1 ELSE 0)
         /\ Cardinality(InWait') = Cardinality(InWait)
              - (IF pc[t] \in WaitLabels THEN 1 ELSE 0) + (IF l \in WaitLabels THEN 1 ELSE 0)
  <1>1. Inside = Where(InsideLabels) /\ Inside' = Where(InsideLabels)'
    BY DEF Inside, InsideLabels, Where
  <1>2. InWait = Where(WaitLabels) /\ InWait' = Where(WaitLabels)'
    BY DEF InWait, WaitLabels, Where
  <1> QED
    BY <1>1, <1>2, Moves

\* A set of threads is finite; it is empty if and only if it counts 0.
LEMMA Counted ==
  ASSUME NEW W \in SUBSET Threads
  PROVE  /\ Cardinality(W) \in Nat
         /\ Cardinality(W) = 0 <=> W = {}
  BY FS_Subset, FS_CardinalityType, FS_EmptySet, CondVarAssumption

\* A thread inside the gate is alone there, and then nobody is to be unblocked.
LEMMA Alone ==
  ASSUME Inv, NEW t \in Threads, pc[t] \in InsideLabels
  PROVE  alive /\ Cardinality(Inside) = 1 /\ Permits = 0 /\ nWaitersToUnblock = 0
  <1>1. alive
    BY DEF Inv, DestroyedUnused, InsideLabels, counts
  <1>2. Inside \in SUBSET Threads /\ t \in Inside
    BY DEF Inside, InsideLabels, counts
  <1>3. Cardinality(Inside) \in Nat /\ Cardinality(Inside) # 0
    BY <1>2, Counted
  <1>4. gateTokens \in Nat /\ gateValue \in Int /\ nWaitersToUnblock \in Nat
    BY DEF Inv, TypeOK
  <1> QED
    BY <1>1, <1>3, <1>4 DEF Inv, GateKept, Permits

\* Whoever begins to pass the gate takes a permit or waits for one.
LEMMA Down ==
  ASSUME TypeOK, NEW t \in Threads, NEW l \in InsideLabels, GateDown(t, l),
         pc[t] \notin InsideLabels
  PROVE  /\ Permits' + Cardinality(Inside') = Permits + Cardinality(Inside)
         /\ gateValue' \in Int /\ gateValue' <= 1 /\ gateTokens' = gateTokens
         /\ Cardinality(InWait') = Cardinality(InWait) - (IF pc[t] \in WaitLabels THEN 1 ELSE 0)
  <1>1. gateValue \in Int /\ gateTokens \in Nat
    BY DEF TypeOK
  <1>2. CASE gateValue' < 0
    <2>1. Goto(t, "gate") /\ gateValue' = gateValue - 1 /\ gateTokens' = gateTokens
      BY <1>2 DEF GateDown
    <2> QED
      BY <1>1, <1>2, <2>1, CountsMove DEF Permits, TypeOK, InsideLabels, WaitLabels
  <1>3. CASE ~(gateValue' < 0)
    <2>1. Goto(t, l) /\ gateValue' = gateValue - 1 /\ gateTokens' = gateTokens
      BY <1>3 DEF GateDown
    <2> QED
      BY <1>1, <1>3, <2>1, CountsMove DEF Permits, TypeOK, InsideLabels, WaitLabels
  <1> QED
    BY <1>2, <1>3

\* Whoever opens the gate makes a permit.
LEMMA Up ==
  ASSUME TypeOK, Permits = 0, GateUp
  PROVE  Permits' = 1 /\ gateValue' \in Int /\ gateValue' <= 1 /\ gateTokens' \in Nat
  BY DEF TypeOK, Permits, GateUp

\* GateKept after a step, in terms of Permits.
LEMMA Kept ==
  ASSUME Permits' + Cardinality(Inside') + (IF nWaitersToUnblock' > 0 THEN 1 ELSE 0) = 1
  PROVE  GateKept'
  BY DEF GateKept, Permits

\* GateKept is kept by a step that keeps the sum of permits and threads inside,
\* and does not begin or end an unblocking.
LEMMA Keeps ==
  ASSUME Inv, alive, Permits' + Cardinality(Inside') = Permits + Cardinality(Inside),
         nWaitersToUnblock' = nWaitersToUnblock
  PROVE  GateKept'
  <1>1. Permits + Cardinality(Inside) + (IF nWaitersToUnblock > 0 THEN 1 ELSE 0) = 1
    BY DEF Inv, GateKept, Permits
  <1> QED
    BY <1>1, Kept

\* The number of threads in a wait.
LEMMA CountInWait == Cardinality(InWait) \in Nat
  <1>1. InWait \in SUBSET Threads
    BY DEF InWait
  <1> QED
    BY <1>1, Counted

-----------------------------------------------------------------------------
(* One lemma per action. *)

\* A thread that was waiting for the gate passes it.
LEMMA GatePassInv ==
  ASSUME Inv, NEW t \in Threads, GatePass(t)
  PROVE  Inv'
  <1>1. /\ Goto(t, goal[t]) /\ pc[t] = "gate" /\ goal[t] \in InsideLabels
        /\ goal' = [goal EXCEPT ![t] = "announce"]
    BY DEF GatePass, At, Inv, TypeOK, InsideLabels, counts
  <1>2. /\ Cardinality(Inside') = Cardinality(Inside) + 1
        /\ Cardinality(InWait') = Cardinality(InWait)
    BY <1>1, CountsMove DEF Inv, InsideLabels, WaitLabels
  <1>3. TypeOK'
    BY <1>1 DEF Inv, TypeOK, GatePass, Goto, Labels, counts
  <1>4. WaitersCounted'
    BY <1>2 DEF Inv, WaitersCounted, GatePass, counts
  <1>5. GateKept'
    BY <1>2, CountsMove, <1>1 DEF Inv, TypeOK, GateKept, GatePass, counts
  <1>6. \A u \in Threads : pc'[u] = (IF u = t THEN goal[t] ELSE pc[u])
                           /\ goal'[u] = (IF u = t THEN "announce" ELSE goal[u])
    BY <1>1 DEF Inv, TypeOK, Goto
  <1>7. \A u \in Threads : /\ Closes(u)' = Closes(u) /\ Rebases(u)' = Rebases(u)
                           /\ Arrives(u)' = Arrives(u) /\ Destroys(u)' = Destroys(u)
    BY <1>1, <1>6 DEF Closes, Rebases, Arrives, Destroys, On, InsideLabels, counts
  <1>8. DestroyedUnused' /\ UnlockHeld' /\ GoneFirst' /\ CallersHold' /\ Quiet'
    BY <1>1, <1>6, <1>7 DEF Inv, GatePass, DestroyedUnused, UnlockHeld, GoneFirst, CallersHold,
       Quiet, InsideLabels, counts
  <1>9. CalledAll' /\ Goals'
    BY <1>1, <1>6 DEF Inv, GatePass, CalledAll, Goals, InWait, InsideLabels, counts
  <1> QED
    BY <1>3, <1>4, <1>5, <1>8, <1>9 DEF Inv

\* A thread that came to wait is counted, and opens the gate.
LEMMA AnnounceInv ==
  ASSUME Inv, NEW t \in Threads, Announce(t)
  PROVE  Inv'
  <1>1. Goto(t, "release") /\ pc[t] = "announce"
    BY DEF Announce, At
  <1>2. \A u \in Threads : pc'[u] = IF u = t THEN "release" ELSE pc[u]
    BY <1>1 DEF Inv, TypeOK, Goto
  <1>3. /\ Cardinality(Inside') = Cardinality(Inside) - 1
        /\ Cardinality(InWait') = Cardinality(InWait) + 1
    BY <1>1, CountsMove DEF Inv, InsideLabels, WaitLabels
  <1>4. alive /\ Cardinality(Inside) = 1 /\ Permits = 0 /\ nWaitersToUnblock = 0
    BY <1>1, Alone DEF InsideLabels, counts
  <1>5. Permits' = 1 /\ gateValue' \in Int /\ gateValue' <= 1 /\ gateTokens' \in Nat
    BY <1>4, Up DEF Inv, Announce
  <1>6. TypeOK'
    BY <1>1, <1>5 DEF Inv, TypeOK, Announce, Goto, Labels
  <1>7. WaitersCounted'
    BY <1>3 DEF Inv, TypeOK, WaitersCounted, Announce
  <1>8. GateKept'
    <2>1. Cardinality(Inside') = 0 /\ nWaitersToUnblock' = 0
      BY <1>3, <1>4 DEF Announce
    <2> QED
      BY <1>5, <2>1, Kept
  <1>9. DestroyedUnused' /\ UnlockHeld' /\ GoneFirst' /\ CallersHold' /\ Quiet' /\ Goals'
    BY <1>1, <1>2, <1>4 DEF Inv, TypeOK, Announce, DestroyedUnused, UnlockHeld, GoneFirst,
       CallersHold, Quiet, Goals,
       Closes, Rebases, Arrives, Destroys, On
  <1>10. CalledAll'
    <2>1. InWait \in SUBSET Threads
      BY DEF InWait
    <2>2. called # {} => Cardinality(InWait) = 0 /\ InWait # {}
      BY <1>4 DEF Inv, WaitersCounted, CalledAll
    <2>3. called = {}
      BY <2>1, <2>2, Counted
    <2> QED
      BY <2>3 DEF Announce, CalledAll
  <1> QED
    BY <1>6, <1>7, <1>8, <1>9, <1>10 DEF Inv

\* A signalled thread retracts.
LEMMA RetractInv ==
  ASSUME Inv, NEW t \in Threads, Retract(t)
  PROVE  Inv'
  <1> DEFINE l == IF nWaitersToUnblock = 1 THEN "open" ELSE "relock"
  <1>1. Goto(t, l) /\ pc[t] = "retract" /\ nWaitersToUnblock \in Nat \ {0}
    BY DEF Retract, At, Inv, TypeOK
  <1>2. \A u \in Threads : pc'[u] = IF u = t THEN l ELSE pc[u]
    BY <1>1 DEF Inv, TypeOK, Goto
  <1>3. /\ Cardinality(Inside') = Cardinality(Inside) + (IF l = "open" THEN 1 ELSE 0)
        /\ Cardinality(InWait') = Cardinality(InWait) - 1
    BY <1>1, CountsMove DEF Inv, InsideLabels, WaitLabels
  <1>4. TypeOK'
    BY <1>1 DEF Inv, TypeOK, Retract, Goto, Labels, gate
  <1>5. WaitersCounted'
    BY <1>1, <1>3 DEF Inv, TypeOK, WaitersCounted, Retract
  <1>6. GateKept'
    BY <1>1, <1>3, CountsMove DEF Inv, TypeOK, GateKept, Retract, gate
  <1>7. DestroyedUnused' /\ UnlockHeld' /\ GoneFirst' /\ CallersHold' /\ Quiet' /\ Goals'
    BY <1>1, <1>2 DEF Inv, TypeOK, Retract, DestroyedUnused, UnlockHeld, GoneFirst, CallersHold,
       Quiet, Goals,
       Closes, Rebases, Arrives, Destroys, On
  <1>8. CalledAll'
    BY <1>1, <1>2 DEF Inv, Retract, CalledAll, InWait, TypeOK
  <1> QED
    BY <1>4, <1>5, <1>6, <1>7, <1>8 DEF Inv

\* Inside the gate a thread is alone.
LEMMA OnlyOne ==
  ASSUME Inv, NEW t \in Threads, pc[t] \in InsideLabels, NEW u \in Threads, u # t
  PROVE  pc[u] \notin InsideLabels
  <1>1. Inside \in SUBSET Threads /\ t \in Inside
    BY DEF Inside, InsideLabels
  <1>2. IsFiniteSet(Inside) /\ Cardinality(Inside) = 1
    BY <1>1, Alone, FS_Subset, CondVarAssumption
  <1>3. Cardinality(Inside \ {t}) = 0
    <2>1. Cardinality(Inside \ {t}) = Cardinality(Inside) - 1
      BY <1>1, <1>2, FS_RemoveElement
    <2> QED
      BY <1>2, <2>1
  <1>4. Inside \ {t} = {}
    BY <1>1, <1>3, Counted
  <1> QED
    BY <1>4 DEF Inside, InsideLabels

\* Where a thread is that has begun to pass the gate.
LEMMA DownMoves ==
  ASSUME Inv, NEW t \in Threads,
         NEW l \in {"announce", "rebase", "closeOne", "closeAll", "destroy"},
         GateDown(t, l), pc[t] \in {"idle", "retract"}
  PROVE  /\ pc' \in [Threads -> Labels]
         /\ goal' \in [Threads -> {"announce", "rebase", "closeOne", "closeAll", "destroy"}]
         /\ \A u \in Threads \ {t} : pc'[u] = pc[u] /\ goal'[u] = goal[u]
         /\ \/ pc'[t] = "gate" /\ goal'[t] = l
            \/ pc'[t] = l /\ goal'[t] = "announce"
         /\ \A u \in Threads \ {t} :
              /\ (Closes(u)' <=> Closes(u)) /\ (Rebases(u)' <=> Rebases(u))
              /\ (Arrives(u)' <=> Arrives(u)) /\ (Destroys(u)' <=> Destroys(u))
         /\ (Closes(t)' <=> (l \in {"closeOne", "closeAll"})) /\ (Rebases(t)' <=> (l = "rebase"))
         /\ (Arrives(t)' <=> (l = "announce")) /\ (Destroys(t)' <=> (l = "destroy"))
         /\ ~Closes(t) /\ ~Rebases(t) /\ ~Arrives(t) /\ ~Destroys(t)
         /\ Goals'
  <1>1. goal[t] = "announce"
    BY DEF Inv, Goals
  <1>2. \/ pc' = [pc EXCEPT ![t] = "gate"] /\ goal' = [goal EXCEPT ![t] = l]
        \/ pc' = [pc EXCEPT ![t] = l] /\ goal' = goal
    BY DEF GateDown, Goto
  <1>3. /\ pc' \in [Threads -> Labels]
        /\ goal' \in [Threads -> {"announce", "rebase", "closeOne", "closeAll", "destroy"}]
    BY <1>2 DEF Inv, TypeOK, Labels
  <1>4. \A u \in Threads \ {t} : pc'[u] = pc[u] /\ goal'[u] = goal[u]
    BY <1>2 DEF Inv, TypeOK
  <1>5. \/ pc'[t] = "gate" /\ goal'[t] = l
        \/ pc'[t] = l /\ goal'[t] = "announce"
    BY <1>1, <1>2 DEF Inv, TypeOK
  <1>6. Goals'
    BY <1>4, <1>5 DEF Inv, Goals
  <1>7. \A u \in Threads \ {t} :
          /\ (Closes(u)' <=> Closes(u)) /\ (Rebases(u)' <=> Rebases(u))
          /\ (Arrives(u)' <=> Arrives(u)) /\ (Destroys(u)' <=> Destroys(u))
    BY <1>4 DEF Closes, Rebases, Arrives, Destroys, On
  <1>8. /\ (Closes(t)' <=> (l \in {"closeOne", "closeAll"})) /\ (Rebases(t)' <=> (l = "rebase"))
        /\ (Arrives(t)' <=> (l = "announce")) /\ (Destroys(t)' <=> (l = "destroy"))
    BY <1>5 DEF Closes, Rebases, Arrives, Destroys, On
  <1>9. ~Closes(t) /\ ~Rebases(t) /\ ~Arrives(t) /\ ~Destroys(t)
    BY DEF Closes, Rebases, Arrives, Destroys, On
  <1> QED
    BY <1>3, <1>4, <1>5, <1>6, <1>7, <1>8, <1>9

\* A thread comes to wait.
LEMMA WaitInv ==
  ASSUME Inv, NEW t \in Threads, Wait(t)
  PROVE  Inv'
  <1>1. pc[t] = "idle" /\ external = t /\ alive /\ GateDown(t, "announce")
    BY DEF Wait, At
  <1>2. /\ pc' \in [Threads -> Labels]
        /\ goal' \in [Threads -> {"announce", "rebase", "closeOne", "closeAll", "destroy"}]
        /\ \A u \in Threads \ {t} : pc'[u] = pc[u]
        /\ pc'[t] \in {"gate", "announce"}
        /\ Goals'
    BY <1>1, DownMoves
  <1>3. /\ \A u \in Threads : (Closes(u)' <=> Closes(u)) /\ (Rebases(u)' <=> Rebases(u))
                              /\ (Destroys(u)' <=> Destroys(u))
        /\ \A u \in Threads \ {t} : (Arrives(u)' <=> Arrives(u))
    BY <1>1, DownMoves
  <1>4. /\ Permits' + Cardinality(Inside') = Permits + Cardinality(Inside)
        /\ gateValue' \in Int /\ gateValue' <= 1 /\ gateTokens' = gateTokens
        /\ Cardinality(InWait') = Cardinality(InWait) - (IF pc[t] \in WaitLabels THEN 1 ELSE 0)
    <2>1. "announce" \in InsideLabels /\ pc[t] \notin InsideLabels
      BY <1>1 DEF InsideLabels
    <2> QED
      BY <1>1, <2>1, Down DEF Inv
  <1>5. TypeOK'
    BY <1>2, <1>4 DEF Inv, TypeOK, Wait, counts
  <1>6. WaitersCounted'
    BY <1>1, <1>4, CountInWait DEF Inv, WaitersCounted, Wait, counts, WaitLabels
  <1>7. GateKept'
    BY <1>1, <1>4, Keeps DEF Wait, counts
  <1>8. DestroyedUnused' /\ UnlockHeld' /\ GoneFirst' /\ CallersHold' /\ Quiet'
    BY <1>1, <1>2, <1>3 DEF Inv, DestroyedUnused, UnlockHeld, GoneFirst, CallersHold, Quiet,
       Wait, counts
  <1>9. CalledAll'
    BY <1>1, <1>2 DEF Inv, CalledAll, InWait, Wait, counts
  <1> QED
    BY <1>2, <1>5, <1>6, <1>7, <1>8, <1>9 DEF Inv

\* A thread locks or unlocks the callers' mutex.
LEMMA LockInv ==
  ASSUME Inv, NEW t \in Threads, Lock(t) \/ Unlock(t)
  PROVE  Inv'
  <1>1. /\ UNCHANGED <<alive, nWaitersBlocked, nWaitersGone, nWaitersToUnblock, gateValue,
                       gateTokens, queue, unblocker, pc, goal, toIssue, called>>
        /\ external' \in Threads \cup {NoThread}
    BY DEF Lock, Unlock, counts, gate
  <1>2. /\ Inside' = Inside /\ InWait' = InWait
        /\ \A u \in Threads : /\ (Closes(u)' <=> Closes(u)) /\ (Rebases(u)' <=> Rebases(u))
                              /\ (Arrives(u)' <=> Arrives(u)) /\ (Destroys(u)' <=> Destroys(u))
    BY <1>1 DEF Inside, InWait, Closes, Rebases, Arrives, Destroys, On
  <1>3. TypeOK' /\ WaitersCounted' /\ GateKept' /\ DestroyedUnused' /\ CalledAll' /\ Goals'
    BY <1>1, <1>2 DEF Inv, TypeOK, WaitersCounted, GateKept, DestroyedUnused, CalledAll, Goals
  <1>4. UnlockHeld' /\ GoneFirst' /\ Quiet'
    BY <1>1, <1>2 DEF Inv, UnlockHeld, GoneFirst, Quiet
  <1>5. CallersHold'
    <2>1. pc[t] = "idle" /\ external \in {t, NoThread}
      BY DEF Lock, Unlock, At
    <2>2. ~Arrives(t) /\ ~Destroys(t)
      BY <2>1 DEF Arrives, Destroys, On
    <2>3. \A u \in Threads : ~(Arrives(u) \/ pc[u] = "release" \/ Destroys(u))
      BY <2>1, <2>2, CondVarAssumption DEF Inv, CallersHold
    <2> QED
      BY <1>1, <1>2, <2>3 DEF CallersHold
  <1> QED
    BY <1>3, <1>4, <1>5 DEF Inv

\* A waiting thread unlocks the callers' mutex.
LEMMA ReleaseInv ==
  ASSUME Inv, NEW t \in Threads, Release(t)
  PROVE  Inv'
  <1>1. Goto(t, "queue") /\ pc[t] = "release" /\ external' = NoThread
    BY DEF Release, At
  <1>2. \A u \in Threads : pc'[u] = IF u = t THEN "queue" ELSE pc[u]
    BY <1>1 DEF Inv, TypeOK, Goto
  <1>3. /\ Cardinality(Inside') = Cardinality(Inside)
        /\ Cardinality(InWait') = Cardinality(InWait)
    BY <1>1, CountsMove DEF Inv, InsideLabels, WaitLabels
  <1>4. TypeOK' /\ WaitersCounted' /\ GateKept'
    BY <1>1, <1>3 DEF Inv, TypeOK, WaitersCounted, GateKept, Release, Goto, Labels, counts, gate
  <1>5. /\ external = t
        /\ \A u \in Threads : Arrives(u) \/ pc[u] = "release" \/ Destroys(u) => u = t
    BY <1>1 DEF Inv, CallersHold
  <1>6. DestroyedUnused' /\ UnlockHeld' /\ GoneFirst' /\ CallersHold' /\ Quiet' /\ Goals'
    BY <1>1, <1>2, <1>5 DEF Inv, TypeOK, DestroyedUnused, UnlockHeld, GoneFirst, CallersHold,
       Quiet, Goals, Closes, Rebases, Arrives, Destroys, On, Release, counts
  <1>7. CalledAll'
    BY <1>1, <1>2 DEF Inv, Release, CalledAll, InWait, counts
  <1> QED
    BY <1>4, <1>6, <1>7 DEF Inv

\* A thread takes a permit of semBlockQueue, or gives up waiting for one.
LEMMA QueueInv ==
  ASSUME Inv, NEW t \in Threads, Take(t) \/ GiveUp(t)
  PROVE  Inv'
  <1>1. /\ Goto(t, "retract") /\ pc[t] = "queue" /\ queue' \in Nat
        /\ UNCHANGED <<alive, nWaitersBlocked, nWaitersGone, nWaitersToUnblock, gateValue,
                       gateTokens, unblocker, external, goal, toIssue, called>>
    BY DEF Take, GiveUp, At, Inv, TypeOK, counts, gate
  <1>2. \A u \in Threads : pc'[u] = IF u = t THEN "retract" ELSE pc[u]
    BY <1>1 DEF Inv, TypeOK, Goto
  <1>3. /\ Cardinality(Inside') = Cardinality(Inside)
        /\ Cardinality(InWait') = Cardinality(InWait)
    BY <1>1, CountsMove DEF Inv, InsideLabels, WaitLabels
  <1>4. TypeOK' /\ WaitersCounted' /\ GateKept'
    BY <1>1, <1>3 DEF Inv, TypeOK, WaitersCounted, GateKept, Goto, Labels
  <1>5. DestroyedUnused' /\ UnlockHeld' /\ GoneFirst' /\ CallersHold' /\ Quiet' /\ Goals'
    BY <1>1, <1>2 DEF Inv, TypeOK, DestroyedUnused, UnlockHeld, GoneFirst, CallersHold, Quiet,
       Goals, Closes, Rebases, Arrives, Destroys, On
  <1>6. CalledAll'
    BY <1>1, <1>2 DEF Inv, CalledAll, InWait
  <1> QED
    BY <1>4, <1>5, <1>6 DEF Inv

\* A thread that nobody is to unblock is counted as gone.
LEMMA RetireInv ==
  ASSUME Inv, NEW t \in Threads, Retire(t)
  PROVE  Inv'
  <1>1. /\ pc[t] = "retract" /\ unblocker = NoThread /\ nWaitersToUnblock = 0 /\ alive
        /\ nWaitersGone' = nWaitersGone + 1 /\ nWaitersGone < GoneLimit
        /\ called' = called \ {t}
        /\ UNCHANGED <<alive, nWaitersBlocked, nWaitersToUnblock, queue, external, toIssue>>
    BY DEF Retire, At, Inv, UnlockHeld, DestroyedUnused
  <1>2. nWaitersGone' \in 0..GoneLimit
    BY <1>1, CondVarAssumption DEF Inv, TypeOK
  <1>3. called = {}
    <2>1. t \in InWait /\ InWait \in SUBSET Threads
      BY <1>1 DEF InWait
    <2>2. called # {} => Cardinality(InWait) = 0
      BY <1>1 DEF Inv, CalledAll, WaitersCounted
    <2> QED
      BY <2>1, <2>2, Counted
  <1>4. \A u \in Threads : ~Closes(u) /\ ~Rebases(u)
    BY <1>1, CondVarAssumption DEF Inv, UnlockHeld
  <1>5. CASE nWaitersGone' = GoneLimit
    <2>1. unblocker' = t /\ GateDown(t, "rebase")
      BY <1>5 DEF Retire
    <2>2. /\ pc' \in [Threads -> Labels]
          /\ goal' \in [Threads -> {"announce", "rebase", "closeOne", "closeAll", "destroy"}]
          /\ \A u \in Threads \ {t} : pc'[u] = pc[u]
          /\ pc'[t] \in {"gate", "rebase"}
          /\ Goals'
      BY <1>1, <2>1, DownMoves
    <2>3. /\ \A u \in Threads : /\ (Closes(u)' <=> Closes(u)) /\ (Destroys(u)' <=> Destroys(u))
                                /\ (Arrives(u)' <=> Arrives(u))
          /\ \A u \in Threads \ {t} : (Rebases(u)' <=> Rebases(u))
          /\ Rebases(t)'
      BY <1>1, <2>1, DownMoves
    <2>4. /\ Permits' + Cardinality(Inside') = Permits + Cardinality(Inside)
          /\ gateValue' \in Int /\ gateValue' <= 1 /\ gateTokens' = gateTokens
          /\ Cardinality(InWait') = Cardinality(InWait) - (IF pc[t] \in WaitLabels THEN 1 ELSE 0)
      <3>1. "rebase" \in InsideLabels /\ pc[t] \notin InsideLabels
        BY <1>1 DEF InsideLabels
      <3> QED
        BY <2>1, <3>1, Down DEF Inv
    <2>5. TypeOK'
      BY <1>1, <1>2, <2>1, <2>2, <2>4 DEF Inv, TypeOK
    <2>6. WaitersCounted'
      BY <1>1, <2>4, CountInWait DEF Inv, TypeOK, WaitersCounted, WaitLabels
    <2>7. GateKept'
      BY <1>1, <2>4, Keeps
    <2>8. DestroyedUnused' /\ GoneFirst' /\ CallersHold' /\ Quiet'
      BY <1>1, <2>2, <2>3 DEF Inv, DestroyedUnused, GoneFirst, CallersHold, Quiet
    <2>9. UnlockHeld' /\ CalledAll'
      BY <1>1, <1>3, <1>4, <2>1, <2>3, CondVarAssumption DEF UnlockHeld, CalledAll
    <2> QED
      BY <2>2, <2>5, <2>6, <2>7, <2>8, <2>9 DEF Inv
  <1>6. CASE nWaitersGone' # GoneLimit
    <2>1. Goto(t, "relock") /\ UNCHANGED <<gateValue, gateTokens, unblocker, goal>>
      BY <1>6 DEF Retire, gate
    <2>2. \A u \in Threads : pc'[u] = IF u = t THEN "relock" ELSE pc[u]
      BY <2>1 DEF Inv, TypeOK, Goto
    <2>3. /\ Cardinality(Inside') = Cardinality(Inside)
          /\ Cardinality(InWait') = Cardinality(InWait) - 1
      BY <1>1, <2>1, CountsMove DEF Inv, InsideLabels, WaitLabels
    <2>4. TypeOK'
      BY <1>1, <1>2, <2>1 DEF Inv, TypeOK, Goto, Labels
    <2>5. WaitersCounted'
      BY <1>1, <2>3, CountInWait DEF Inv, TypeOK, WaitersCounted
    <2>6. GateKept'
      BY <1>1, <2>1, <2>3 DEF Inv, GateKept
    <2>7. DestroyedUnused' /\ GoneFirst' /\ CallersHold' /\ Quiet' /\ Goals'
      BY <1>1, <2>1, <2>2 DEF Inv, DestroyedUnused, GoneFirst, CallersHold, Quiet, Goals,
         Closes, Arrives, Destroys, On
    <2>8. UnlockHeld' /\ CalledAll'
      <3>1. \A u \in Threads : ~Closes(u)' /\ ~Rebases(u)'
        BY <1>4, <2>1, <2>2 DEF Closes, Rebases, On
      <3>2. nWaitersGone' < GoneLimit
        BY <1>2, <1>6, CondVarAssumption
      <3> QED
        BY <1>1, <1>3, <2>1, <3>1, <3>2, CondVarAssumption DEF UnlockHeld, CalledAll
    <2> QED
      BY <2>4, <2>5, <2>6, <2>7, <2>8 DEF Inv
  <1> QED
    BY <1>5, <1>6

\* While nobody is to be unblocked there is no broadcast under way.
LEMMA NotCalled ==
  ASSUME Inv, nWaitersToUnblock = 0
  PROVE  called = {}
  <1>1. InWait \in SUBSET Threads
    BY DEF InWait
  <1>2. called # {} => Cardinality(InWait) = 0 /\ InWait # {}
    BY DEF Inv, WaitersCounted, CalledAll
  <1> QED
    BY <1>1, <1>2, Counted

\* Whoever leaves the gate opens it.
LEMMA UpLeaves ==
  ASSUME Inv, NEW t \in Threads, pc[t] \in InsideLabels, NEW l \in Labels, l \notin InsideLabels,
         Goto(t, l), GateUp, nWaitersToUnblock' = nWaitersToUnblock
  PROVE  /\ GateKept'
         /\ gateValue' \in Int /\ gateValue' <= 1 /\ gateTokens' \in Nat
         /\ Cardinality(InWait') = Cardinality(InWait) + (IF l \in WaitLabels THEN 1 ELSE 0)
  <1>1. /\ Cardinality(Inside') = Cardinality(Inside) - 1
        /\ Cardinality(InWait') = Cardinality(InWait) + (IF l \in WaitLabels THEN 1 ELSE 0)
    <2>1. pc[t] \notin WaitLabels
      BY DEF InsideLabels, WaitLabels
    <2> QED
      BY <2>1, CountsMove DEF Inv
  <1>2. Cardinality(Inside) = 1 /\ Permits = 0 /\ nWaitersToUnblock = 0
    BY Alone
  <1>3. Permits' = 1 /\ gateValue' \in Int /\ gateValue' <= 1 /\ gateTokens' \in Nat
    BY <1>2, Up DEF Inv
  <1>4. Cardinality(Inside') = 0 /\ nWaitersToUnblock' = 0
    BY <1>1, <1>2
  <1> QED
    BY <1>1, <1>3, <1>4, Kept

\* The counters are rebased.
LEMMA RebaseInv ==
  ASSUME Inv, NEW t \in Threads, Rebase(t)
  PROVE  Inv'
  <1>1. /\ Goto(t, "relock") /\ pc[t] = "rebase" /\ GateUp
        /\ nWaitersBlocked' = nWaitersBlocked - nWaitersGone /\ nWaitersGone' = 0
        /\ unblocker' = NoThread
        /\ UNCHANGED <<alive, nWaitersToUnblock, queue, external, goal, toIssue, called>>
    BY DEF Rebase, At
  <1>2. alive /\ nWaitersToUnblock = 0
    BY <1>1, Alone DEF InsideLabels
  <1>3. called = {}
    BY <1>2, NotCalled
  <1>4. \A u \in Threads : pc'[u] = IF u = t THEN "relock" ELSE pc[u]
    BY <1>1 DEF Inv, TypeOK, Goto
  <1>5. /\ GateKept'
        /\ gateValue' \in Int /\ gateValue' <= 1 /\ gateTokens' \in Nat
        /\ Cardinality(InWait') = Cardinality(InWait)
    BY <1>1, UpLeaves, CountInWait DEF InsideLabels, WaitLabels, Labels
  <1>6. nWaitersBlocked' = Cardinality(InWait) /\ nWaitersBlocked' \in Nat
    BY <1>1, <1>2, CountInWait DEF Inv, TypeOK, WaitersCounted
  <1>7. TypeOK'
    BY <1>1, <1>5, <1>6, CondVarAssumption DEF Inv, TypeOK, Goto, Labels
  <1>8. WaitersCounted'
    BY <1>1, <1>2, <1>5, <1>6, CountInWait DEF WaitersCounted
  <1>9. UnlockHeld'
    <2>1. unblocker = t
      BY <1>1 DEF Inv, UnlockHeld, Rebases, On
    <2>2. \A u \in Threads : u # t => ~Closes(u) /\ ~Rebases(u)
      BY <2>1 DEF Inv, UnlockHeld
    <2>3. \A u \in Threads : ~Closes(u)' /\ ~Rebases(u)'
      BY <1>1, <1>4, <2>2 DEF Closes, Rebases, On
    <2> QED
      BY <1>1, <2>3, CondVarAssumption DEF UnlockHeld
  <1>10. DestroyedUnused' /\ GoneFirst' /\ CallersHold' /\ Quiet' /\ Goals'
    BY <1>1, <1>2, <1>4 DEF Inv, DestroyedUnused, GoneFirst, CallersHold, Quiet, Goals, Closes,
       Arrives, Destroys, On
  <1>11. CalledAll'
    BY <1>1, <1>3 DEF CalledAll
  <1> QED
    BY <1>5, <1>7, <1>8, <1>9, <1>10, <1>11 DEF Inv

\* The last of the signalled threads opens the gate.
LEMMA OpenInv ==
  ASSUME Inv, NEW t \in Threads, Open(t)
  PROVE  Inv'
  <1>1. /\ Goto(t, "relock") /\ pc[t] = "open" /\ GateUp
        /\ UNCHANGED <<alive, nWaitersBlocked, nWaitersGone, nWaitersToUnblock, queue,
                       unblocker, external, goal, toIssue, called>>
    BY DEF Open, At, counts
  <1>2. alive /\ nWaitersToUnblock = 0
    BY <1>1, Alone DEF InsideLabels
  <1>3. called = {}
    BY <1>2, NotCalled
  <1>4. \A u \in Threads : pc'[u] = IF u = t THEN "relock" ELSE pc[u]
    BY <1>1 DEF Inv, TypeOK, Goto
  <1>5. /\ GateKept'
        /\ gateValue' \in Int /\ gateValue' <= 1 /\ gateTokens' \in Nat
        /\ Cardinality(InWait') = Cardinality(InWait)
    BY <1>1, UpLeaves, CountInWait DEF InsideLabels, WaitLabels, Labels
  <1>6. TypeOK' /\ WaitersCounted'
    BY <1>1, <1>5 DEF Inv, TypeOK, WaitersCounted, Goto, Labels
  <1>7. DestroyedUnused' /\ UnlockHeld' /\ GoneFirst' /\ CallersHold' /\ Quiet' /\ Goals'
    BY <1>1, <1>2, <1>4 DEF Inv, TypeOK, DestroyedUnused, UnlockHeld, GoneFirst, CallersHold,
       Quiet, Goals, Closes, Rebases, Arrives, Destroys, On
  <1>8. CalledAll'
    BY <1>1, <1>3 DEF CalledAll
  <1> QED
    BY <1>5, <1>6, <1>7, <1>8 DEF Inv

\* A thread locks the callers' mutex again, which nobody holds.
LEMMA RelockInv ==
  ASSUME Inv, NEW t \in Threads, Relock(t)
  PROVE  Inv'
  <1>1. /\ Goto(t, "idle") /\ pc[t] = "relock" /\ external = NoThread /\ external' = t
        /\ UNCHANGED <<alive, nWaitersBlocked, nWaitersGone, nWaitersToUnblock, gateValue,
                       gateTokens, queue, unblocker, goal, toIssue, called>>
    BY DEF Relock, At, counts, gate
  <1>2. \A u \in Threads : pc'[u] = IF u = t THEN "idle" ELSE pc[u]
    BY <1>1 DEF Inv, TypeOK, Goto
  <1>3. /\ Cardinality(Inside') = Cardinality(Inside)
        /\ Cardinality(InWait') = Cardinality(InWait)
    BY <1>1, CountsMove DEF Inv, InsideLabels, WaitLabels
  <1>4. TypeOK' /\ WaitersCounted' /\ GateKept'
    BY <1>1, <1>3 DEF Inv, TypeOK, WaitersCounted, GateKept, Goto, Labels
  <1>5. \A u \in Threads : ~Arrives(u) /\ pc[u] # "release" /\ ~Destroys(u)
    BY <1>1, CondVarAssumption DEF Inv, CallersHold
  <1>6. DestroyedUnused' /\ UnlockHeld' /\ GoneFirst' /\ CallersHold' /\ Quiet' /\ Goals'
    BY <1>1, <1>2, <1>5 DEF Inv, TypeOK, DestroyedUnused, UnlockHeld, GoneFirst, CallersHold,
       Quiet, Goals, Closes, Rebases, Arrives, Destroys, On
  <1>7. CalledAll'
    BY <1>1, <1>2 DEF Inv, CalledAll, InWait
  <1> QED
    BY <1>4, <1>6, <1>7 DEF Inv

\* More threads are to be unblocked while the gate is closed.
LEMMA SignalMoreInv ==
  ASSUME Inv, NEW t \in Threads, NEW all \in BOOLEAN, SignalMore(t, all)
  PROVE  Inv'
  <1>1. /\ Goto(t, "post") /\ pc[t] = "idle" /\ alive /\ unblocker = NoThread
        /\ \A u \in Threads : ~Destroys(u)
        /\ nWaitersToUnblock \in Nat \ {0} /\ nWaitersBlocked \in Nat \ {0} /\ nWaitersGone = 0
        /\ UNCHANGED <<alive, nWaitersGone, gateValue, gateTokens, queue, unblocker, external,
                       goal>>
    BY DEF SignalMore, MaySignal, At, Inv, TypeOK, GoneFirst, Destroys, On, gate
  <1>2. /\ nWaitersToUnblock' \in Nat \ {0} /\ nWaitersBlocked' \in Nat
        /\ nWaitersBlocked' + nWaitersToUnblock' = nWaitersBlocked + nWaitersToUnblock
        /\ toIssue' \in [Threads -> Nat]
    BY <1>1 DEF SignalMore, Inv, TypeOK
  <1>3. \A u \in Threads : pc'[u] = IF u = t THEN "post" ELSE pc[u]
    BY <1>1 DEF Inv, TypeOK, Goto
  <1>4. /\ Cardinality(Inside') = Cardinality(Inside)
        /\ Cardinality(InWait') = Cardinality(InWait)
    BY <1>1, CountsMove DEF Inv, InsideLabels, WaitLabels
  <1>5. InWait' = InWait
    BY <1>1, <1>3 DEF InWait
  <1>6. called' \in SUBSET Threads /\ CalledAll'
    <2>1. CASE all
      BY <1>1, <1>5, <2>1 DEF SignalMore, CalledAll, InWait
    <2>2. CASE ~all
      BY <1>1, <2>2 DEF SignalMore, CalledAll, Inv
    <2> QED
      BY <2>1, <2>2
  <1>7. TypeOK'
    BY <1>1, <1>2, <1>6 DEF Inv, TypeOK, Goto, Labels
  <1>8. WaitersCounted'
    <2>1. nWaitersBlocked - 0 = nWaitersBlocked /\ nWaitersBlocked' - 0 = nWaitersBlocked'
      <3>1. \A m \in Nat : m - 0 = m
        OBVIOUS
      <3>2. nWaitersBlocked \in Nat /\ nWaitersBlocked' \in Nat
        BY <1>1, <1>2
      <3> QED
        BY <3>1, <3>2
    <2>2. nWaitersBlocked + nWaitersToUnblock = Cardinality(InWait) /\ nWaitersGone' = 0
      BY <1>1, <2>1 DEF Inv, WaitersCounted
    <2> QED
      BY <1>2, <1>4, <2>1, <2>2 DEF WaitersCounted
  <1>9. GateKept'
    BY <1>1, <1>2, <1>4 DEF Inv, GateKept
  <1>10. DestroyedUnused' /\ UnlockHeld' /\ GoneFirst' /\ CallersHold' /\ Quiet' /\ Goals'
    <2>1. \A u \in Threads : ~Closes(u) /\ ~Rebases(u)
      BY <1>1, CondVarAssumption DEF Inv, UnlockHeld
    <2>2. \A u \in Threads : /\ (Closes(u)' <=> Closes(u)) /\ (Rebases(u)' <=> Rebases(u))
                             /\ (Arrives(u)' <=> Arrives(u)) /\ (Destroys(u)' <=> Destroys(u))
      BY <1>1, <1>3 DEF Closes, Rebases, Arrives, Destroys, On
    <2>3. UnlockHeld'
      BY <1>1, <2>1, <2>2, CondVarAssumption DEF UnlockHeld
    <2> QED
      BY <1>1, <1>3, <2>2, <2>3
      DEF Inv, DestroyedUnused, GoneFirst, CallersHold, Quiet, Goals
  <1> QED
    BY <1>6, <1>7, <1>8, <1>9, <1>10 DEF Inv

\* A signal or a broadcast begins to close the gate.
LEMMA SignalInv ==
  ASSUME Inv, NEW t \in Threads, NEW all \in BOOLEAN, Signal(t, all)
  PROVE  Inv'
  <1> DEFINE l == IF all THEN "closeAll" ELSE "closeOne"
  <1>1. /\ GateDown(t, l) /\ l \in {"closeOne", "closeAll"} /\ pc[t] = "idle" /\ alive
        /\ unblocker = NoThread /\ unblocker' = t
        /\ \A u \in Threads : ~Destroys(u)
        /\ nWaitersToUnblock = 0 /\ nWaitersBlocked > nWaitersGone
        /\ UNCHANGED <<alive, nWaitersBlocked, nWaitersGone, nWaitersToUnblock, queue, external,
                       toIssue, called>>
    BY DEF Signal, MaySignal, At, Inv, Destroys, On, Goals, counts
  <1> HIDE DEF l
  <1>2. /\ pc' \in [Threads -> Labels]
        /\ goal' \in [Threads -> {"announce", "rebase", "closeOne", "closeAll", "destroy"}]
        /\ \A u \in Threads \ {t} : pc'[u] = pc[u]
        /\ pc'[t] \in {"gate", "closeOne", "closeAll"}
        /\ Goals'
    BY <1>1, DownMoves
  <1>3. /\ \A u \in Threads : /\ (Rebases(u)' <=> Rebases(u)) /\ (Destroys(u)' <=> Destroys(u))
                              /\ (Arrives(u)' <=> Arrives(u))
        /\ \A u \in Threads \ {t} : (Closes(u)' <=> Closes(u))
        /\ Closes(t)'
    BY <1>1, DownMoves
  <1>4. /\ Permits' + Cardinality(Inside') = Permits + Cardinality(Inside)
        /\ gateValue' \in Int /\ gateValue' <= 1 /\ gateTokens' = gateTokens
        /\ Cardinality(InWait') = Cardinality(InWait) - (IF pc[t] \in WaitLabels THEN 1 ELSE 0)
    <2>1. l \in InsideLabels /\ pc[t] \notin InsideLabels
      BY <1>1 DEF InsideLabels
    <2> QED
      BY <1>1, <2>1, Down DEF Inv
  <1>5. TypeOK'
    BY <1>1, <1>2, <1>4 DEF Inv, TypeOK
  <1>6. WaitersCounted'
    BY <1>1, <1>4, CountInWait DEF Inv, WaitersCounted, WaitLabels
  <1>7. GateKept'
    BY <1>1, <1>4, Keeps
  <1>8. DestroyedUnused' /\ GoneFirst' /\ CallersHold' /\ Quiet'
    BY <1>1, <1>2, <1>3 DEF Inv, DestroyedUnused, GoneFirst, CallersHold, Quiet
  <1>9. UnlockHeld'
    <2>1. \A u \in Threads : ~Closes(u) /\ ~Rebases(u)
      BY <1>1, CondVarAssumption DEF Inv, UnlockHeld
    <2> QED
      BY <1>1, <1>3, <2>1, CondVarAssumption DEF UnlockHeld
  <1>10. CalledAll'
    BY <1>1, NotCalled DEF CalledAll
  <1> QED
    BY <1>2, <1>5, <1>6, <1>7, <1>8, <1>9, <1>10 DEF Inv

\* With the gate closed it is settled how many threads are to be unblocked.
LEMMA CloseInv ==
  ASSUME Inv, NEW t \in Threads, Close(t)
  PROVE  Inv'
  <1> DEFINE n == IF pc[t] = "closeAll" THEN nWaitersBlocked - nWaitersGone ELSE 1
  <1>1. /\ Goto(t, "post") /\ pc[t] \in {"closeOne", "closeAll"}
        /\ nWaitersToUnblock' = n /\ nWaitersBlocked' = nWaitersBlocked - nWaitersGone - n
        /\ toIssue' = [toIssue EXCEPT ![t] = n]
        /\ nWaitersGone' = 0 /\ unblocker' = NoThread
        /\ called' = IF pc[t] = "closeAll" THEN InWait ELSE called
        /\ UNCHANGED <<alive, gateValue, gateTokens, queue, external, goal>>
    BY DEF Close, At, gate
  <1>2. /\ alive /\ Cardinality(Inside) = 1 /\ Permits = 0 /\ nWaitersToUnblock = 0
        /\ called = {}
    BY <1>1, Alone, NotCalled DEF InsideLabels
  <1>3. Closes(t) /\ unblocker = t /\ nWaitersBlocked > nWaitersGone
    BY <1>1 DEF Inv, UnlockHeld, Closes, On
  <1>4. /\ n \in Nat \ {0} /\ nWaitersBlocked' \in Nat
        /\ nWaitersBlocked' + n = nWaitersBlocked - nWaitersGone
    BY <1>1, <1>3 DEF Inv, TypeOK
  <1> HIDE DEF n
  <1>5. \A u \in Threads : pc'[u] = IF u = t THEN "post" ELSE pc[u]
    BY <1>1 DEF Inv, TypeOK, Goto
  <1>6. /\ Cardinality(Inside') = Cardinality(Inside) - 1
        /\ Cardinality(InWait') = Cardinality(InWait) /\ Cardinality(InWait') \in Nat
    BY <1>1, CountsMove DEF Inv, InsideLabels, WaitLabels
  <1>7. InWait' = InWait /\ InWait \in SUBSET Threads
    BY <1>1, <1>5 DEF InWait
  <1>8. TypeOK'
    <2>1. called' \in SUBSET Threads /\ 0 \in 0..GoneLimit
      BY <1>1, <1>2, <1>7, CondVarAssumption
    <2> QED
      BY <1>1, <1>4, <2>1 DEF Inv, TypeOK, Goto, Labels
  <1>9. WaitersCounted'
    BY <1>1, <1>2, <1>4, <1>6 DEF Inv, TypeOK, WaitersCounted
  <1>10. GateKept'
    <2>1. Permits' = 0 /\ Cardinality(Inside') = 0 /\ nWaitersToUnblock' > 0
      BY <1>1, <1>2, <1>4, <1>6 DEF Permits
    <2> QED
      BY <2>1, Kept
  <1>11. UnlockHeld'
    <2>1. \A u \in Threads : u # t => ~Closes(u) /\ ~Rebases(u)
      BY <1>3 DEF Inv, UnlockHeld
    <2>2. \A u \in Threads : ~Closes(u)' /\ ~Rebases(u)'
      BY <1>1, <1>5, <2>1 DEF Closes, Rebases, On
    <2> QED
      BY <1>1, <2>2, CondVarAssumption DEF UnlockHeld
  <1>12. DestroyedUnused' /\ GoneFirst' /\ CallersHold' /\ Quiet' /\ Goals'
    <2>1. \A u \in Threads : ~Destroys(u)
      BY <1>3 DEF Inv, Quiet
    <2> QED
      BY <1>1, <1>2, <1>5, <2>1
      DEF Inv, DestroyedUnused, GoneFirst, CallersHold, Quiet, Goals, Arrives, Destroys, On
  <1>13. CalledAll'
    <2>1. CASE pc[t] = "closeAll"
      <3>1. nWaitersBlocked' = 0
        BY <1>1, <1>3, <2>1 DEF n, Inv, TypeOK
      <3> QED
        BY <1>1, <1>7, <2>1, <3>1 DEF CalledAll
    <2>2. CASE pc[t] # "closeAll"
      BY <1>1, <1>2, <2>2 DEF CalledAll
    <2> QED
      BY <2>1, <2>2
  <1> QED
    BY <1>8, <1>9, <1>10, <1>11, <1>12, <1>13 DEF Inv

\* The permits for the threads to be unblocked are posted.
LEMMA PostInv ==
  ASSUME Inv, NEW t \in Threads, Post(t)
  PROVE  Inv'
  <1>1. /\ Goto(t, "idle") /\ pc[t] = "post" /\ queue' \in Nat /\ toIssue' \in [Threads -> Nat]
        /\ UNCHANGED <<alive, nWaitersBlocked, nWaitersGone, nWaitersToUnblock, gateValue,
                       gateTokens, unblocker, external, goal, called>>
    BY DEF Post, At, Inv, TypeOK, counts, gate
  <1>2. \A u \in Threads : pc'[u] = IF u = t THEN "idle" ELSE pc[u]
    BY <1>1 DEF Inv, TypeOK, Goto
  <1>3. /\ Cardinality(Inside') = Cardinality(Inside)
        /\ Cardinality(InWait') = Cardinality(InWait)
    BY <1>1, CountsMove DEF Inv, InsideLabels, WaitLabels
  <1>4. TypeOK' /\ WaitersCounted' /\ GateKept'
    BY <1>1, <1>3 DEF Inv, TypeOK, WaitersCounted, GateKept, Goto, Labels
  <1>5. DestroyedUnused' /\ UnlockHeld' /\ GoneFirst' /\ CallersHold' /\ Quiet' /\ Goals'
    BY <1>1, <1>2 DEF Inv, TypeOK, DestroyedUnused, UnlockHeld, GoneFirst, CallersHold, Quiet,
       Goals, Closes, Rebases, Arrives, Destroys, On
  <1>6. CalledAll'
    BY <1>1, <1>2 DEF Inv, CalledAll, InWait
  <1> QED
    BY <1>4, <1>5, <1>6 DEF Inv

\* A destruction begins to close the gate.
LEMMA DestroyInv ==
  ASSUME Inv, NEW t \in Threads, Destroy(t)
  PROVE  Inv'
  <1>1. /\ pc[t] = "idle" /\ external = t /\ alive /\ GateDown(t, "destroy")
        /\ \A u \in Threads : pc[u] # "post" /\ ~Closes(u)
        /\ UNCHANGED <<alive, nWaitersBlocked, nWaitersGone, nWaitersToUnblock, queue, unblocker,
                       external, toIssue, called>>
    BY DEF Destroy, MayDestroy, At, Closes, On, counts
  <1>2. /\ pc' \in [Threads -> Labels]
        /\ goal' \in [Threads -> {"announce", "rebase", "closeOne", "closeAll", "destroy"}]
        /\ \A u \in Threads \ {t} : pc'[u] = pc[u]
        /\ pc'[t] \in {"gate", "destroy"}
        /\ Goals'
    BY <1>1, DownMoves
  <1>3. /\ \A u \in Threads : (Closes(u)' <=> Closes(u)) /\ (Rebases(u)' <=> Rebases(u))
                              /\ (Arrives(u)' <=> Arrives(u))
        /\ \A u \in Threads \ {t} : (Destroys(u)' <=> Destroys(u))
    BY <1>1, DownMoves
  <1>4. /\ Permits' + Cardinality(Inside') = Permits + Cardinality(Inside)
        /\ gateValue' \in Int /\ gateValue' <= 1 /\ gateTokens' = gateTokens
        /\ Cardinality(InWait') = Cardinality(InWait) - (IF pc[t] \in WaitLabels THEN 1 ELSE 0)
    <2>1. "destroy" \in InsideLabels /\ pc[t] \notin InsideLabels
      BY <1>1 DEF InsideLabels
    <2> QED
      BY <1>1, <2>1, Down DEF Inv
  <1>5. TypeOK'
    BY <1>1, <1>2, <1>4 DEF Inv, TypeOK
  <1>6. WaitersCounted'
    BY <1>1, <1>4, CountInWait DEF Inv, WaitersCounted, WaitLabels
  <1>7. GateKept'
    BY <1>1, <1>4, Keeps
  <1>8. DestroyedUnused' /\ UnlockHeld' /\ GoneFirst' /\ CallersHold' /\ Quiet'
    BY <1>1, <1>2, <1>3 DEF Inv, DestroyedUnused, UnlockHeld, GoneFirst, CallersHold, Quiet
  <1>9. CalledAll'
    BY <1>1, <1>2 DEF Inv, CalledAll, InWait
  <1> QED
    BY <1>2, <1>5, <1>6, <1>7, <1>8, <1>9 DEF Inv

\* A destruction succeeds, and then nobody uses the condition variable, or it
\* opens the gate again.
LEMMA DestroyEndInv ==
  ASSUME Inv, NEW t \in Threads, DestroyEnd(t)
  PROVE  Inv'
  <1>1. /\ Goto(t, "idle") /\ pc[t] = "destroy" /\ pc[t] \in InsideLabels
        /\ UNCHANGED <<nWaitersBlocked, nWaitersGone, nWaitersToUnblock, queue, unblocker,
                       external, goal, toIssue, called>>
    BY DEF DestroyEnd, At, counts, InsideLabels
  <1>2. /\ alive /\ nWaitersToUnblock = 0 /\ called = {} /\ external = t
        /\ \A u \in Threads : pc[u] # "post" /\ ~Closes(u)
    BY <1>1, Alone, NotCalled DEF Inv, CallersHold, Quiet, Destroys, On
  <1>3. \A u \in Threads : pc'[u] = IF u = t THEN "idle" ELSE pc[u]
    BY <1>1 DEF Inv, TypeOK, Goto
  <1>4. CASE unblocker = NoThread /\ nWaitersBlocked <= nWaitersGone
    <2>1. alive' = FALSE /\ UNCHANGED <<gateValue, gateTokens>>
      BY <1>4 DEF DestroyEnd, gate
    <2>2. Cardinality(InWait') = Cardinality(InWait)
      BY <1>1, CountsMove DEF Inv, InsideLabels, WaitLabels
    <2>3. InWait = {}
      <3>1. InWait \in SUBSET Threads
        BY DEF InWait
      <3>2. Cardinality(InWait) \in Nat
        BY <3>1, Counted
      <3>3. Cardinality(InWait) = 0
        BY <1>2, <1>4, <3>2 DEF Inv, TypeOK, WaitersCounted
      <3> QED
        BY <3>1, <3>3, Counted
    <2>4. \A u \in Threads : u # t => pc[u] \in {"idle", "relock"}
      <3> SUFFICES ASSUME NEW u \in Threads, u # t
                   PROVE  pc[u] \in {"idle", "relock"}
        OBVIOUS
      <3>1. pc[u] \notin InsideLabels
        BY <1>1, OnlyOne
      <3>2. pc[u] \notin {"release", "queue", "retract"}
        BY <2>3 DEF InWait
      <3>3. ~Rebases(u) /\ ~Arrives(u) /\ ~Destroys(u) /\ ~Closes(u)
        BY <1>2, <1>4, CondVarAssumption DEF Inv, UnlockHeld, CallersHold
      <3>4. pc[u] # "gate"
        BY <3>3 DEF Inv, TypeOK, Rebases, Arrives, Destroys, Closes, On
      <3> QED
        BY <1>2, <3>1, <3>2, <3>4 DEF Inv, TypeOK, Goals, Labels, InsideLabels
    <2>5. TypeOK' /\ WaitersCounted' /\ GateKept' /\ DestroyedUnused'
      BY <1>1, <1>3, <2>1, <2>2, <2>4
      DEF Inv, TypeOK, WaitersCounted, GateKept, DestroyedUnused, Goto, Labels
    <2>6. UnlockHeld' /\ GoneFirst' /\ CallersHold' /\ Quiet' /\ Goals'
      BY <1>1, <1>3, <2>4 DEF Inv, TypeOK, DestroyedUnused, UnlockHeld, GoneFirst, CallersHold,
         Quiet, Goals, Closes, Rebases, Arrives, Destroys, On
    <2> QED
      BY <1>1, <1>2, <2>5, <2>6 DEF Inv, CalledAll
  <1>5. CASE ~(unblocker = NoThread /\ nWaitersBlocked <= nWaitersGone)
    <2>1. GateUp /\ alive' = alive
      BY <1>5 DEF DestroyEnd
    <2>2. /\ GateKept'
          /\ gateValue' \in Int /\ gateValue' <= 1 /\ gateTokens' \in Nat
          /\ Cardinality(InWait') = Cardinality(InWait)
      BY <1>1, <2>1, UpLeaves, CountInWait DEF InsideLabels, WaitLabels, Labels
    <2>3. TypeOK' /\ WaitersCounted'
      BY <1>1, <2>1, <2>2 DEF Inv, TypeOK, WaitersCounted, Goto, Labels
    <2>4. DestroyedUnused' /\ UnlockHeld' /\ GoneFirst' /\ CallersHold' /\ Quiet' /\ Goals'
      BY <1>1, <1>2, <1>3, <2>1 DEF Inv, TypeOK, DestroyedUnused, UnlockHeld, GoneFirst,
         CallersHold, Quiet, Goals, Closes, Rebases, Arrives, Destroys, On
    <2> QED
      BY <1>1, <1>2, <2>2, <2>3, <2>4 DEF Inv, CalledAll
  <1> QED
    BY <1>4, <1>5

\* A condition variable is made where one was destroyed.
LEMMA CreateInv ==
  ASSUME Inv, NEW t \in Threads, Create(t)
  PROVE  Inv'
  <1>1. /\ ~alive /\ alive' = TRUE
        /\ nWaitersBlocked' = 0 /\ nWaitersGone' = 0 /\ nWaitersToUnblock' = 0
        /\ gateValue' = 1 /\ gateTokens' = 0 /\ queue' = 0 /\ unblocker' = NoThread
        /\ UNCHANGED <<external, pc, goal, toIssue, called>>
    BY DEF Create
  <1>2. \A u \in Threads : pc[u] \in {"idle", "relock"}
    BY <1>1 DEF Inv, DestroyedUnused
  <1>3. Inside' = {} /\ InWait' = {} /\ InWait = {}
    BY <1>1, <1>2 DEF Inside, InWait
  <1>4. Cardinality(Inside') = 0 /\ Cardinality(InWait') = 0
    BY <1>3, FS_EmptySet
  <1>5. TypeOK'
    BY <1>1, CondVarAssumption DEF Inv, TypeOK
  <1>6. WaitersCounted' /\ GateKept'
    BY <1>1, <1>4 DEF WaitersCounted, GateKept
  <1>7. \A u \in Threads : ~Closes(u)' /\ ~Rebases(u)' /\ ~Arrives(u)' /\ ~Destroys(u)'
    BY <1>1, <1>2 DEF Closes, Rebases, Arrives, Destroys, On
  <1>8. DestroyedUnused' /\ UnlockHeld' /\ GoneFirst' /\ CallersHold' /\ Quiet' /\ Goals'
    BY <1>1, <1>2, <1>7, CondVarAssumption
    DEF Inv, DestroyedUnused, UnlockHeld, GoneFirst, CallersHold, Quiet, Goals
  <1>9. CalledAll'
    BY <1>1, <1>3 DEF Inv, CalledAll
  <1> QED
    BY <1>5, <1>6, <1>8, <1>9 DEF Inv

-----------------------------------------------------------------------------
(* The theorems. *)

\* The initial state satisfies the invariant.
LEMMA InitInv == Init => Inv
  <1> SUFFICES ASSUME Init
               PROVE  Inv
    OBVIOUS
  <1>1. Inside = {} /\ InWait = {}
    BY DEF Init, Inside, InWait
  <1>2. Cardinality(Inside) = 0 /\ Cardinality(InWait) = 0
    BY <1>1, FS_EmptySet
  <1>3. TypeOK
    BY CondVarAssumption DEF Init, TypeOK, Labels
  <1>4. WaitersCounted /\ GateKept
    BY <1>2 DEF Init, WaitersCounted, GateKept
  <1>5. DestroyedUnused /\ UnlockHeld /\ GoneFirst /\ CallersHold /\ Quiet /\ CalledAll /\ Goals
    BY CondVarAssumption DEF Inv, TypeOK, DestroyedUnused, UnlockHeld, GoneFirst, CallersHold,
       Quiet, Goals, Closes, Rebases, Arrives, Destroys, On, Init, CalledAll
  <1> QED
    BY <1>3, <1>4, <1>5 DEF Inv

\* Every step keeps the invariant.
LEMMA StepInv == Inv /\ [Next]_vars => Inv'
  <1> SUFFICES ASSUME Inv, [Next]_vars
               PROVE  Inv'
    OBVIOUS
  <1>1. CASE UNCHANGED vars
    BY <1>1 DEF vars, counts, gate, Inv, TypeOK, WaitersCounted, GateKept, DestroyedUnused,
         UnlockHeld, GoneFirst, CallersHold, Quiet, CalledAll, Goals, InWait, Inside,
         Closes, Rebases, Arrives, Destroys, On
  <1>2. ASSUME NEW t \in Threads, Step(t)
        PROVE  Inv'
    BY <1>2, GatePassInv, AnnounceInv, ReleaseInv, QueueInv, RetractInv, RetireInv, RebaseInv,
       OpenInv, RelockInv, CloseInv, PostInv, DestroyEndInv DEF Step
  <1>3. ASSUME NEW t \in Threads,
               GiveUp(t) \/ Lock(t) \/ Unlock(t) \/ Wait(t) \/ Destroy(t) \/ Create(t)
        PROVE  Inv'
    BY <1>3, QueueInv, LockInv, WaitInv, DestroyInv, CreateInv
  <1>4. ASSUME NEW t \in Threads, NEW all \in BOOLEAN, SignalMore(t, all) \/ Signal(t, all)
        PROVE  Inv'
    BY <1>4, SignalMoreInv, SignalInv
  <1> QED
    BY <1>1, <1>2, <1>3, <1>4 DEF Next

\* The invariant holds in every state.
LEMMA Invariant == Spec => []Inv
  BY InitInv, StepInv, PTL DEF Spec

\* While a broadcast is under way nobody has passed the gate to wait.
LEMMA InvBroadcast == Inv => BroadcastFirst
  <1> SUFFICES ASSUME Inv, called # {}, NEW t \in Threads, pc[t] = "announce"
               PROVE  FALSE
    BY DEF BroadcastFirst, At
  <1>1. pc[t] \in InsideLabels
    BY DEF InsideLabels
  <1>2. nWaitersToUnblock = 0
    BY <1>1, Alone
  <1> QED
    BY <1>2, NotCalled

\* Every variable keeps its type: the limit on the threads that are gone is
\* never passed, and no counter falls below 0.
THEOREM TypeCorrect == Spec => []TypeOK
  BY Invariant, PTL DEF Inv

\* The three counters together always count the threads in a wait: no wake-up
\* is promised to a thread that has gone, and none is forgotten; and they keep
\* their bounds.
THEOREM CountersAgree == Spec => []CountersKept
  <1>1. Inv => CountersKept
    BY DEF Inv, CountersKept
  <1> QED
    BY <1>1, Invariant, PTL

\* The gate is open, or has one thread inside, or is closed for those that are
\* to be unblocked: semBlockLock excludes as a lock would, although another
\* thread opens it than the one that closed it.
THEOREM GateExcludes == Spec => []GateKept
  BY Invariant, PTL DEF Inv

\* Nobody begins to wait between a broadcast and the last retraction of those
\* it reached.
THEOREM BroadcastReaches == Spec => []BroadcastFirst
  BY Invariant, InvBroadcast, PTL

\* pthread_cond_destroy succeeds only when nobody is left at the gate, in the
\* queue or in the critical sections of the condition variable.
THEOREM DestroyedSafely == Spec => []DestroyedUnused
  BY Invariant, PTL DEF Inv

\* Both: the threads that a broadcast has called are neither overtaken nor left
\* with a condition variable that has been destroyed.
THEOREM CalledAreServed == Spec => []CalledLeave
  <1>1. BroadcastFirst /\ DestroyedUnused => CalledLeave
    BY DEF CalledLeave
  <1> QED
    BY <1>1, BroadcastReaches, DestroyedSafely, PTL

-----------------------------------------------------------------------------
(* A condition variable implements the abstract one, of which InWait is the   *)
(* set and nWaitersToUnblock the number of those that have been signalled.    *)

LEMMA SameCardinality == \A W : Waiters!Cardinality(W) = Cardinality(W)
  BY DEF Waiters!Cardinality, Cardinality

\* The threads in a wait after a step of t to label l.
LEMMA InWaitMoves ==
  ASSUME TypeOK, NEW t \in Threads, NEW l, Goto(t, l)
  PROVE  InWait' = IF l \in WaitLabels THEN InWait \cup {t} ELSE InWait \ {t}
  <1>1. \A u \in Threads : pc'[u] = IF u = t THEN l ELSE pc[u]
    BY DEF TypeOK, Goto
  <1> QED
    BY <1>1 DEF InWait, WaitLabels

\* A step between two labels that are not those of a wait.
LEMMA InWaitStays ==
  ASSUME TypeOK, NEW t \in Threads, NEW l, Goto(t, l), pc[t] \in WaitLabels <=> l \in WaitLabels
  PROVE  InWait' = InWait
  <1>1. t \in InWait <=> pc[t] \in WaitLabels
    BY DEF InWait, WaitLabels
  <1> QED
    BY <1>1, InWaitMoves

\* Those that wait and have not been signalled are the blocked that are not gone.
LEMMA Unsignalled ==
  ASSUME Inv
  PROVE  /\ Waiters!Cardinality(InWait) = nWaitersBlocked - nWaitersGone + nWaitersToUnblock
         /\ nWaitersBlocked \in Nat /\ nWaitersGone \in Nat /\ nWaitersToUnblock \in Nat
  BY SameCardinality DEF Inv, TypeOK, WaitersCounted

\* A thread joins those that wait when nobody is to be woken up any more.
LEMMA JoinStep ==
  ASSUME Inv, NEW t \in Threads, Announce(t)
  PROVE  Waiters!Join(t)
  <1>1. Goto(t, "release") /\ pc[t] = "announce" /\ UNCHANGED <<alive, nWaitersToUnblock>>
    BY DEF Announce, At
  <1>2. alive /\ nWaitersToUnblock = 0
    BY <1>1, Alone DEF InsideLabels
  <1>3. t \notin InWait
    BY <1>1 DEF InWait
  <1>4. InWait' = InWait \cup {t}
    BY <1>1, InWaitMoves DEF Inv, WaitLabels
  <1> QED
    BY <1>1, <1>2, <1>3, <1>4 DEF Waiters!Join

\* A thread leaves them, and counts as signalled as long as anybody is.
LEMMA LeaveStep ==
  ASSUME Inv, NEW t \in Threads, Retract(t) \/ Retire(t)
  PROVE  Waiters!Leave(t)
  <1>1. t \in InWait /\ alive' = alive
    BY DEF Retract, Retire, At, InWait
  <1>2. nWaitersToUnblock' = IF nWaitersToUnblock = 0 THEN 0 ELSE nWaitersToUnblock - 1
    BY DEF Retract, Retire
  <1>3. PICK l \in {"open", "relock", "gate", "rebase"} : Goto(t, l)
    BY DEF Retract, Retire, GateDown
  <1>4. InWait' = InWait \ {t}
    BY <1>3, InWaitMoves DEF Inv, WaitLabels
  <1> QED
    BY <1>1, <1>2, <1>4 DEF Waiters!Leave

\* A signal or a broadcast is for those that wait.
LEMMA SignalStep ==
  ASSUME Inv, NEW t \in Threads, NEW all \in BOOLEAN, SignalMore(t, all) \/ Close(t)
  PROVE  Waiters!Signal
  <1>1. CASE SignalMore(t, all)
    <2>1. Goto(t, "post") /\ pc[t] = "idle" /\ alive /\ alive' = alive
      BY <1>1 DEF SignalMore, MaySignal, At
    <2>2. InWait' = InWait
      BY <2>1, InWaitStays DEF Inv, WaitLabels
    <2>3. nWaitersGone = 0 /\ nWaitersBlocked # 0
      BY <1>1, Unsignalled DEF SignalMore, Inv, GoneFirst
    <2>4. nWaitersToUnblock' \in {nWaitersToUnblock + 1, nWaitersBlocked + nWaitersToUnblock}
      BY <1>1, Unsignalled DEF SignalMore
    <2> QED
      BY <2>1, <2>2, <2>3, <2>4, Unsignalled DEF Waiters!Signal
  <1>2. CASE Close(t)
    <2>1. Goto(t, "post") /\ pc[t] \in {"closeOne", "closeAll"} /\ alive' = alive
      BY <1>2 DEF Close
    <2>2. alive /\ nWaitersToUnblock = 0
      BY <2>1, Alone DEF InsideLabels
    <2>3. nWaitersBlocked > nWaitersGone
      BY <2>1 DEF Inv, UnlockHeld, Closes, On
    <2>4. InWait' = InWait
      BY <2>1, InWaitStays DEF Inv, WaitLabels
    <2>5. nWaitersToUnblock' \in {1, nWaitersBlocked - nWaitersGone}
      BY <1>2 DEF Close
    <2> QED
      BY <2>1, <2>2, <2>3, <2>4, <2>5, Unsignalled DEF Waiters!Signal
  <1> QED
    BY <1>1, <1>2

\* A condition variable is destroyed when nobody waits.
LEMMA DestroyStep ==
  ASSUME Inv, Inv', NEW t \in Threads, DestroyEnd(t)
  PROVE  Waiters!Destroy \/ UNCHANGED Waiters!vars
  <1>1. Goto(t, "idle") /\ pc[t] = "destroy" /\ nWaitersToUnblock' = nWaitersToUnblock
    BY DEF DestroyEnd, At, counts
  <1>2. InWait' = InWait
    BY <1>1, InWaitStays DEF Inv, WaitLabels
  <1>3. alive
    BY <1>1, Alone DEF InsideLabels
  <1>4. CASE alive' = FALSE
    <2>1. InWait' = {}
      BY <1>4 DEF Inv, DestroyedUnused, InWait
    <2> QED
      BY <1>1, <1>2, <1>3, <1>4, <2>1 DEF Waiters!Destroy
  <1>5. CASE alive' = alive
    BY <1>1, <1>2, <1>5 DEF Waiters!vars
  <1> QED
    BY <1>4, <1>5 DEF DestroyEnd

LEMMA CreateStep ==
  ASSUME Inv, NEW t \in Threads, Create(t)
  PROVE  Waiters!Create
  <1>1. ~alive /\ alive' = TRUE /\ nWaitersToUnblock' = 0 /\ pc' = pc
    BY DEF Create
  <1>2. InWait = {} /\ InWait' = InWait
    BY <1>1 DEF Inv, DestroyedUnused, InWait
  <1>3. nWaitersBlocked - nWaitersGone + nWaitersToUnblock = 0
    BY <1>2, FS_EmptySet DEF Inv, WaitersCounted
  <1>4. nWaitersToUnblock = 0
    BY <1>3, Unsignalled DEF Inv, GoneFirst
  <1> QED
    BY <1>1, <1>2, <1>4 DEF Waiters!Create

\* The other steps are none of the abstract condition variable.
LEMMA StillStep ==
  ASSUME Inv, NEW t \in Threads, NEW all \in BOOLEAN,
         \/ GatePass(t) \/ Release(t) \/ Take(t) \/ GiveUp(t) \/ Rebase(t) \/ Open(t)
         \/ Relock(t) \/ Post(t) \/ Lock(t) \/ Unlock(t) \/ Wait(t) \/ Destroy(t)
         \/ Signal(t, all)
  PROVE  UNCHANGED Waiters!vars
  <1>1. UNCHANGED <<alive, nWaitersToUnblock>>
    BY DEF GatePass, Release, Take, GiveUp, Rebase, Open, Relock, Post, Lock, Unlock, Wait,
           Destroy, Signal, counts
  <1>2. InWait' = InWait
    <2>1. CASE Lock(t) \/ Unlock(t)
      BY <2>1 DEF Lock, Unlock, InWait
    <2>2. CASE Release(t) \/ Take(t) \/ GiveUp(t)
      <3>1. PICK l \in WaitLabels : Goto(t, l) /\ pc[t] \in WaitLabels
        BY <2>2 DEF Release, Take, GiveUp, At, WaitLabels
      <3> QED
        BY <3>1, InWaitStays DEF Inv
    <2>3. CASE ~(Lock(t) \/ Unlock(t) \/ Release(t) \/ Take(t) \/ GiveUp(t))
      <3>1. pc[t] \notin WaitLabels
        BY <2>3 DEF GatePass, Rebase, Open, Relock, Post, Wait, Destroy, Signal, MaySignal,
           MayDestroy, At, WaitLabels
      <3>2. goal[t] \notin WaitLabels
        BY DEF Inv, TypeOK, WaitLabels
      <3>3. PICK l : l \notin WaitLabels /\ Goto(t, l)
        <4>1. CASE GatePass(t)
          BY <3>2, <4>1 DEF GatePass
        <4>2. CASE Rebase(t) \/ Open(t) \/ Relock(t) \/ Post(t)
          BY <4>2 DEF Rebase, Open, Relock, Post, WaitLabels
        <4>3. CASE Wait(t) \/ Destroy(t) \/ Signal(t, all)
          BY <4>3 DEF Wait, Destroy, Signal, GateDown, WaitLabels
        <4> QED
          BY <2>3, <4>1, <4>2, <4>3
      <3> QED
        BY <3>1, <3>3, InWaitStays DEF Inv
    <2> QED
      BY <2>1, <2>2, <2>3
  <1> QED
    BY <1>1, <1>2 DEF Waiters!vars

\* Every step is one of the abstract condition variable, or none.
LEMMA WaitersStep == Inv /\ Inv' /\ [Next]_vars => [Waiters!Next]_Waiters!vars
  <1> SUFFICES ASSUME Inv, Inv', [Next]_vars
               PROVE  Waiters!Next \/ UNCHANGED Waiters!vars
    OBVIOUS
  <1>1. CASE UNCHANGED vars
    BY <1>1 DEF vars, counts, InWait, Waiters!vars
  <1>2. ASSUME NEW t \in Threads, Step(t) \/ GiveUp(t)
        PROVE  Waiters!Next \/ UNCHANGED Waiters!vars
    BY <1>2, JoinStep, LeaveStep, SignalStep, DestroyStep, StillStep DEF Step, Waiters!Next
  <1>3. ASSUME NEW t \in Threads, Lock(t) \/ Unlock(t) \/ Wait(t) \/ Destroy(t) \/ Create(t)
        PROVE  Waiters!Next \/ UNCHANGED Waiters!vars
    BY <1>3, CreateStep, StillStep DEF Waiters!Next
  <1>4. ASSUME NEW t \in Threads, NEW all \in BOOLEAN, SignalMore(t, all) \/ Signal(t, all)
        PROVE  Waiters!Next \/ UNCHANGED Waiters!vars
    BY <1>4, SignalStep, StillStep DEF Waiters!Next
  <1> QED
    BY <1>1, <1>2, <1>3, <1>4 DEF Next

\* For every set of threads and every limit a condition variable is the abstract
\* one: a signal is for one of those that wait when it is made, a broadcast for
\* all of them, nobody else joins them before they have left, and none is left
\* when the condition variable is destroyed.
THEOREM Implementation == Spec => WaitersSpec
  <1>1. Init => Waiters!Init
    BY DEF Init, InWait, Waiters!Init
  <1> QED
    BY <1>1, Invariant, WaitersStep, PTL DEF Spec, WaitersSpec, Waiters!Spec
=============================================================================
