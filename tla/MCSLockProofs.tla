---------------------------- MODULE MCSLockProofs ----------------------------
(***************************************************************************)
(* For every set of threads: the queue lock keeps its types and leaks no   *)
(* event; and, where CreateEvent does not fail, it excludes, leaves no     *)
(* access to a node that is gone, and implements FifoLock.                 *)
(*                                                                         *)
(* The last three are not inductive.  IInv relates the memory to the       *)
(* history queue: the nodes in it and their order, the links between       *)
(* neighbours, and that a flag tells only what has come about.             *)
(***************************************************************************)
EXTENDS MCSLock, SequenceTheorems, TLAPS

\* The members of the sets that the steps mention.
LEMMA Members ==
  /\ \A t \in Threads : t \in Nodes /\ <<t, "ready">> \in Flags /\ <<t, "next">> \in Flags
  /\ \A n \in Nodes : <<n, "ready">> \in Flags /\ <<n, "next">> \in Flags
  /\ Proxy \in Nodes
  /\ \A l \in {"idle", "await", "held", "reload", "pass", "copy"} : l \in Labels
  /\ "link" \in Labels /\ "notify" \in Labels /\ "free" \in Labels
  /\ "awaitNext" \in Labels /\ "spin" \in Labels /\ "awaitLink" \in Labels
  /\ "signal" \in Labels /\ "fault" \in Labels
  /\ "create" \in Labels /\ "store" \in Labels /\ "block" \in Labels
  BY DEF Nodes, Flags, Labels, Waits

Resumable == {"idle", "await", "held", "reload", "pass", "copy"}

\* What a return from a flag routine leaves in the locals of t.
LEMMA ResumeType ==
  ASSUME TypeOK, NEW t \in Threads, Resume(t)
  PROVE  /\ pc' \in [Threads -> Labels]
         /\ arg' \in [Threads -> Flags]
         /\ ret' \in [Threads -> Resumable]
  <1>1. pc' = [pc EXCEPT ![t] = ret[t]] /\ ret[t] \in Labels
    BY Members DEF TypeOK, Resume, Goto
  <1>2. arg' = [arg EXCEPT ![t] = <<t, "ready">>] /\ <<t, "ready">> \in Flags
    BY Members DEF Resume, Local
  <1> QED
    BY <1>1, <1>2 DEF TypeOK, Resume, Local, Resumable

\* What ptw32_mcs_flag_set leaves in the locals of t and in the flags.
LEMMA FlagSetType ==
  ASSUME TypeOK, NEW t \in Threads, NEW g \in Flags, NEW l \in Resumable,
         FlagSet(t, g, l)
  PROVE  /\ pc' \in [Threads -> Labels]
         /\ arg' \in [Threads -> Flags]
         /\ ret' \in [Threads -> Resumable]
         /\ flag' \in [Flags -> {"zero", "set", "event"}]
  <1>1. CASE flag[g] = "event"
    BY <1>1, Members DEF TypeOK, FlagSet, Goto, Local, Resumable
  <1>2. CASE flag[g] # "event"
    BY <1>2, Members DEF TypeOK, FlagSet, Goto, Local, Resumable
  <1> QED
    BY <1>1, <1>2

\* What ptw32_mcs_flag_wait leaves in the locals of t.
LEMMA FlagWaitType ==
  ASSUME TypeOK, NEW t \in Threads, NEW g \in Flags, NEW l \in Resumable,
         FlagWait(t, g, l)
  PROVE  /\ pc' \in [Threads -> Labels]
         /\ arg' \in [Threads -> Flags]
         /\ ret' \in [Threads -> Resumable]
  BY Members DEF TypeOK, FlagWait, Goto, Local, Resumable

\* The history stays a sequence of nodes.
LEMMA QueueType ==
  ASSUME queue \in Seq(Nodes)
  PROVE  Rest \in Seq(Nodes) /\ <<Proxy>> \o Rest \in Seq(Nodes)
  <1>1. Rest \in Seq(Nodes)
    BY HeadTailProperties, EmptySeq DEF Rest
  <1>2. <<Proxy>> \in Seq(Nodes)
    BY Members
  <1> QED
    BY <1>1, <1>2, ConcatProperties

\* Every step keeps the type invariant.
LEMMA TypeStep == TypeOK /\ [Next]_vars => TypeOK'
<1> USE DEF At
<1> SUFFICES ASSUME TypeOK, [Next]_vars PROVE TypeOK'
  OBVIOUS
<1>1. CASE UNCHANGED vars
  BY <1>1 DEF TypeOK, vars
<1>2. ASSUME NEW t \in Threads, Signal(t) PROVE TypeOK'
  <2>1. pc' \in [Threads -> Labels] /\ arg' \in [Threads -> Flags] /\ ret' \in [Threads -> Resumable]
    BY <1>2, ResumeType DEF Signal
  <2>2. ev' \in [Flags -> {"none", "unset", "set"}]
    BY <1>2 DEF TypeOK, Signal
  <2>3. \A u \in Threads : pc'[u] \in {"link", "notify"} => peer'[u] \in Nodes
    BY <1>2 DEF TypeOK, Signal, Resume, Goto
  <2> QED
    BY <1>2, <2>1, <2>2, <2>3 DEF TypeOK, Signal, Resumable
<1>3. ASSUME NEW t \in Threads, CreateEvent(t) PROVE TypeOK'
  <2>1. pc' \in [Threads -> Labels] /\ arg' \in [Threads -> Flags] /\ ret' \in [Threads -> Resumable]
    BY <1>3, ResumeType, Members DEF TypeOK, CreateEvent, Goto, Resumable
  <2>2. ev' \in [Flags -> {"none", "unset", "set"}]
    BY <1>3 DEF TypeOK, CreateEvent
  <2>3. \A u \in Threads : pc'[u] \in {"link", "notify"} => peer'[u] \in Nodes
    BY <1>3 DEF TypeOK, CreateEvent, Resume, Goto
  <2> QED
    BY <1>3, <2>1, <2>2, <2>3 DEF TypeOK, CreateEvent, Resumable
<1>4. ASSUME NEW t \in Threads, StoreEvent(t) PROVE TypeOK'
  <2>1. pc' \in [Threads -> Labels] /\ arg' \in [Threads -> Flags] /\ ret' \in [Threads -> Resumable]
    <3>1. CASE Resume(t)
      BY <3>1, ResumeType
    <3>2. CASE Goto(t, "block") /\ UNCHANGED <<arg, ret>>
      BY <3>2, Members DEF TypeOK, Goto, Resumable
    <3> QED
      BY <1>4, <3>1, <3>2 DEF StoreEvent
  <2>2. flag' \in [Flags -> {"zero", "set", "event"}]
    <3>1. flag' = flag \/ flag' = [flag EXCEPT ![arg[t]] = "event"]
      BY <1>4 DEF StoreEvent
    <3> QED
      BY <3>1 DEF TypeOK
  <2>3. ev' \in [Flags -> {"none", "unset", "set"}]
    BY <1>4 DEF TypeOK, StoreEvent
  <2>4. \A u \in Threads : pc'[u] \in {"link", "notify"} => peer'[u] \in Nodes
    BY <1>4 DEF TypeOK, StoreEvent, Resume, Goto
  <2> QED
    BY <1>4, <2>1, <2>2, <2>3, <2>4 DEF TypeOK, StoreEvent, Resumable
<1>5. ASSUME NEW t \in Threads, Wake(t) PROVE TypeOK'
  <2>1. pc' \in [Threads -> Labels] /\ arg' \in [Threads -> Flags] /\ ret' \in [Threads -> Resumable]
    BY <1>5, ResumeType DEF Wake
  <2>2. ev' \in [Flags -> {"none", "unset", "set"}]
    BY <1>5 DEF TypeOK, Wake
  <2>3. \A u \in Threads : pc'[u] \in {"link", "notify"} => peer'[u] \in Nodes
    BY <1>5 DEF TypeOK, Wake, Resume, Goto
  <2> QED
    BY <1>5, <2>1, <2>2, <2>3 DEF TypeOK, Wake, Resumable
<1>6. ASSUME NEW t \in Threads, Link(t) PROVE TypeOK'
  BY <1>6, Members DEF TypeOK, Link, Goto
<1>7. ASSUME NEW t \in Threads, Notify(t) PROVE TypeOK'
  <2>1. <<peer[t], "next">> \in Flags
    BY <1>7, Members DEF TypeOK, Notify
  <2>2. /\ pc' \in [Threads -> Labels] /\ arg' \in [Threads -> Flags] /\ ret' \in [Threads -> Resumable]
        /\ flag' \in [Flags -> {"zero", "set", "event"}]
    BY <1>7, <2>1, FlagSetType DEF Notify, Resumable
  <2>3. \A u \in Threads : pc'[u] \in {"link", "notify"} => peer'[u] \in Nodes
    BY <1>7 DEF TypeOK, Notify, FlagSet, Goto, Local
  <2>4. peer' \in [Threads -> Nodes \cup {NULL}]
    BY <1>7 DEF TypeOK, Notify, Local
  <2> QED
    BY <1>7, <2>2, <2>3, <2>4 DEF TypeOK, Notify, Resumable
<1>8. ASSUME NEW t \in Threads, AwaitReady(t) PROVE TypeOK'
  <2>1. <<t, "ready">> \in Flags
    BY <1>8, Members DEF TypeOK
  <2>2. pc' \in [Threads -> Labels] /\ arg' \in [Threads -> Flags] /\ ret' \in [Threads -> Resumable]
    BY <1>8, <2>1, FlagWaitType DEF AwaitReady, Resumable
  <2>3. \A u \in Threads : pc'[u] \in {"link", "notify"} => peer'[u] \in Nodes
    BY <1>8 DEF TypeOK, AwaitReady, FlagWait, Goto
  <2>4. UNCHANGED <<lock, next, flag, ev, node, peer, proxyHeld, queue>>
    BY <1>8 DEF AwaitReady
  <2> QED
    BY <2>2, <2>3, <2>4 DEF TypeOK, Resumable
<1>9. ASSUME NEW t \in Threads, Free(t) PROVE TypeOK'
  <2>1. lock' \in Nodes \cup {NULL}
    BY <1>9 DEF TypeOK, Free
  <2>2. pc' \in [Threads -> Labels]
    BY <1>9, Members DEF TypeOK, Free, Goto
  <2>3. node' \in [Threads -> Nodes]
    BY <1>9, Members DEF TypeOK, Free, Local
  <2>4. queue' \in Seq(Nodes)
    BY <1>9, QueueType DEF TypeOK, Free, Pop
  <2>5. \A u \in Threads : pc'[u] \in {"link", "notify"} => peer'[u] \in Nodes
    BY <1>9 DEF TypeOK, Free, Goto
  <2> QED
    BY <1>9, <2>1, <2>2, <2>3, <2>4, <2>5 DEF TypeOK, Free, Resumable
<1>10. ASSUME NEW t \in Threads, AwaitNext(t) PROVE TypeOK'
  <2>1. <<node[t], "next">> \in Flags
    BY <1>10, Members DEF TypeOK
  <2>2. pc' \in [Threads -> Labels] /\ arg' \in [Threads -> Flags] /\ ret' \in [Threads -> Resumable]
    BY <1>10, <2>1, FlagWaitType DEF AwaitNext, Resumable
  <2>3. \A u \in Threads : pc'[u] \in {"link", "notify"} => peer'[u] \in Nodes
    BY <1>10 DEF TypeOK, AwaitNext, FlagWait, Goto
  <2>4. UNCHANGED <<lock, next, flag, ev, node, peer, proxyHeld, queue>>
    BY <1>10 DEF AwaitNext
  <2> QED
    BY <2>2, <2>3, <2>4 DEF TypeOK, Resumable
<1>11. ASSUME NEW t \in Threads, Reload(t) PROVE TypeOK'
  BY <1>11, Members DEF TypeOK, Reload, Goto, Local
<1>12. ASSUME NEW t \in Threads, Pass(t) PROVE TypeOK'
  <2>1. CASE peer[t] = NULL
    BY <1>12, <2>1, Members DEF TypeOK, Pass, Goto
  <2>2. CASE peer[t] # NULL
    <3>1. <<peer[t], "ready">> \in Flags
      BY <1>12, <2>2, Members DEF TypeOK
    <3>2. /\ pc' \in [Threads -> Labels] /\ arg' \in [Threads -> Flags] /\ ret' \in [Threads -> Resumable]
          /\ flag' \in [Flags -> {"zero", "set", "event"}]
      BY <1>12, <2>2, <3>1, FlagSetType DEF Pass, Resumable
    <3>3. \A u \in Threads : pc'[u] \in {"link", "notify"} => peer'[u] \in Nodes
      BY <1>12, <2>2 DEF TypeOK, Pass, FlagSet, Goto, Local
    <3>4. peer' \in [Threads -> Nodes \cup {NULL}] /\ node' \in [Threads -> Nodes]
      BY <1>12, <2>2, Members DEF TypeOK, Pass, Local
    <3>5. queue' \in Seq(Nodes)
      BY <1>12, <2>2, QueueType DEF TypeOK, Pass, Pop
    <3> QED
      BY <1>12, <3>2, <3>3, <3>4, <3>5 DEF TypeOK, Pass, Resumable
  <2> QED
    BY <2>1, <2>2
<1>13. ASSUME NEW t \in Threads, Spin(t) PROVE TypeOK'
  BY <1>13, Members DEF TypeOK, Spin, Goto
<1>14. ASSUME NEW t \in Threads, AwaitLink(t) PROVE TypeOK'
  <2>1. <<t, "next">> \in Flags
    BY <1>14, Members DEF TypeOK
  <2>2. pc' \in [Threads -> Labels] /\ arg' \in [Threads -> Flags] /\ ret' \in [Threads -> Resumable]
    BY <1>14, <2>1, FlagWaitType DEF AwaitLink, Resumable
  <2>3. \A u \in Threads : pc'[u] \in {"link", "notify"} => peer'[u] \in Nodes
    BY <1>14 DEF TypeOK, AwaitLink, FlagWait, Goto
  <2>4. UNCHANGED <<lock, next, flag, ev, node, peer, proxyHeld, queue>>
    BY <1>14 DEF AwaitLink
  <2> QED
    BY <2>2, <2>3, <2>4 DEF TypeOK, Resumable
<1>15. ASSUME NEW t \in Threads, Copy(t) PROVE TypeOK'
  <2>1. next' \in [Nodes -> Nodes \cup {NULL}]
    BY <1>15, Members DEF TypeOK, Copy
  <2>2. flag' \in [Flags -> {"zero", "set", "event"}]
    BY <1>15, Members DEF TypeOK, Copy
  <2>3. pc' \in [Threads -> Labels]
    BY <1>15, Members DEF TypeOK, Copy, Goto
  <2>4. queue' \in Seq(Nodes)
    BY <1>15, QueueType DEF TypeOK, Copy, MoveToProxy
  <2>5. \A u \in Threads : pc'[u] \in {"link", "notify"} => peer'[u] \in Nodes
    BY <1>15 DEF TypeOK, Copy, Goto
  <2> QED
    BY <1>15, <2>1, <2>2, <2>3, <2>4, <2>5 DEF TypeOK, Copy, Resumable
<1>16. ASSUME NEW t \in Threads, Swap(t) PROVE TypeOK'
  <2>1. next' \in [Nodes -> Nodes \cup {NULL}]
    BY <1>16 DEF TypeOK, Swap, Clear
  <2>2. flag' \in [Flags -> {"zero", "set", "event"}]
    BY <1>16 DEF TypeOK, Swap, Clear
  <2>3. lock' \in Nodes \cup {NULL}
    BY <1>16, Members DEF Swap
  <2>4. pc' \in [Threads -> Labels]
    BY <1>16, Members DEF TypeOK, Swap, Goto
  <2>5. peer' \in [Threads -> Nodes \cup {NULL}]
    BY <1>16 DEF TypeOK, Swap, Local
  <2>6. queue' \in Seq(Nodes)
    BY <1>16, Members, AppendProperties DEF TypeOK, Swap
  <2>7. \A u \in Threads : pc'[u] \in {"link", "notify"} => peer'[u] \in Nodes
    BY <1>16 DEF TypeOK, Swap, Goto, Local
  <2> QED
    BY <1>16, <2>1, <2>2, <2>3, <2>4, <2>5, <2>6, <2>7 DEF TypeOK, Swap, Resumable
<1>17. ASSUME NEW t \in Threads, Try(t) PROVE TypeOK'
  <2>1. next' \in [Nodes -> Nodes \cup {NULL}]
    BY <1>17 DEF TypeOK, Try, Clear
  <2>2. flag' \in [Flags -> {"zero", "set", "event"}]
    BY <1>17 DEF TypeOK, Try, Clear
  <2>3. lock' \in Nodes \cup {NULL}
    BY <1>17, Members DEF Try
  <2>4. pc' \in [Threads -> Labels]
    BY <1>17, Members DEF TypeOK, Try, Goto
  <2>5. queue' \in Seq(Nodes)
    BY <1>17, Members, AppendProperties DEF TypeOK, Try
  <2>6. \A u \in Threads : pc'[u] \in {"link", "notify"} => peer'[u] \in Nodes
    BY <1>17 DEF TypeOK, Try, Goto
  <2> QED
    BY <1>17, <2>1, <2>2, <2>3, <2>4, <2>5, <2>6 DEF TypeOK, Try, Resumable
<1>18. ASSUME NEW t \in Threads, ReleaseOwn(t) PROVE TypeOK'
  BY <1>18, Members DEF TypeOK, ReleaseOwn, Release, Goto, Local
<1>19. ASSUME NEW t \in Threads, ReleaseProxy(t) PROVE TypeOK'
  BY <1>19, Members DEF TypeOK, ReleaseProxy, Release, Goto, Local
<1>20. ASSUME NEW t \in Threads, Transfer(t) PROVE TypeOK'
  <2>1. next' \in [Nodes -> Nodes \cup {NULL}]
    BY <1>20 DEF TypeOK, Transfer, Clear
  <2>2. flag' \in [Flags -> {"zero", "set", "event"}]
    BY <1>20 DEF TypeOK, Transfer, Clear
  <2>3. lock' \in Nodes \cup {NULL}
    BY <1>20, Members DEF TypeOK, Transfer
  <2>4. pc' \in [Threads -> Labels]
    BY <1>20, Members DEF TypeOK, Transfer, Goto
  <2>5. queue' \in Seq(Nodes)
    BY <1>20, QueueType DEF TypeOK, Transfer, MoveToProxy
  <2>6. \A u \in Threads : pc'[u] \in {"link", "notify"} => peer'[u] \in Nodes
    BY <1>20 DEF TypeOK, Transfer, Goto
  <2> QED
    BY <1>20, <2>1, <2>2, <2>3, <2>4, <2>5, <2>6 DEF TypeOK, Transfer, Resumable
<1> QED
  BY <1>1, <1>2, <1>3, <1>4, <1>5, <1>6, <1>7, <1>8, <1>9, <1>10, <1>11,
     <1>12, <1>13, <1>14, <1>15, <1>16, <1>17, <1>18, <1>19, <1>20
     DEF Next, Step, Call

LEMMA InitType == Init => TypeOK
<1> SUFFICES ASSUME Init PROVE TypeOK
  OBVIOUS
<1>1. arg \in [Threads -> Flags] /\ node \in [Threads -> Nodes]
  BY Members DEF Init
<1>2. /\ pc \in [Threads -> Labels]
      /\ ret \in [Threads -> Resumable]
      /\ peer \in [Threads -> Nodes \cup {NULL}]
  BY Members DEF Init, Resumable
<1>3. next \in [Nodes -> Nodes \cup {NULL}] /\ queue \in Seq(Nodes)
  BY EmptySeq DEF Init
<1>4. /\ flag \in [Flags -> {"zero", "set", "event"}]
      /\ ev \in [Flags -> {"none", "unset", "set"}]
      /\ \A t \in Threads : pc[t] = "idle"
  BY DEF Init
<1> QED
  BY <1>1, <1>2, <1>3, <1>4 DEF Init, TypeOK, Resumable

\* The type invariant holds for any set of threads, with or without events.
THEOREM TypeCorrect == Spec => []TypeOK
  BY InitType, TypeStep, PTL DEF Spec

-----------------------------------------------------------------------------
(* Sequences without repetitions. *)

\* n is in s; n is followed by m in s; n is the first, the last of s.
In(s, n)      == \E i \in 1..Len(s) : s[i] = n
Succ(s, n, m) == \E i \in 1..(Len(s) - 1) : s[i] = n /\ s[i + 1] = m
First(s, n)   == s # <<>> /\ s[1] = n
Last(s, n)    == s # <<>> /\ s[Len(s)] = n
Distinct(s)   == \A i, j \in 1..Len(s) : s[i] = s[j] => i = j

\* How a sequence without repetitions hangs together.
LEMMA Chain ==
  ASSUME NEW S, NEW s \in Seq(S), Distinct(s)
  PROVE  /\ \A n : First(s, n) => In(s, n) /\ n \in S
         /\ \A n : Last(s, n) => In(s, n) /\ n \in S
         /\ \A n, m : First(s, n) /\ First(s, m) => n = m
         /\ \A n, m : Last(s, n) /\ Last(s, m) => n = m
         /\ \A n, m : Succ(s, n, m) => /\ In(s, n) /\ In(s, m) /\ n # m
                                       /\ n \in S /\ m \in S
                                       /\ ~First(s, m) /\ ~Last(s, n)
         /\ \A n, m, k : Succ(s, n, m) /\ Succ(s, n, k) => m = k
         /\ \A n, m, k : Succ(s, n, m) /\ Succ(s, k, m) => n = k
         /\ \A n : In(s, n) /\ ~Last(s, n) => \E m \in S : Succ(s, n, m)
         /\ \A n : First(s, n) /\ Last(s, n) => \A m : In(s, m) => m = n
         /\ s = <<>> => \A n : ~In(s, n)
<1> /\ Len(s) \in Nat
    /\ s # <<>> <=> Len(s) # 0
    /\ \A i \in 1..Len(s) : s[i] \in S
  BY EmptySeq
<1>8. \A n : In(s, n) /\ ~Last(s, n) => \E m \in S : Succ(s, n, m)
  <2> TAKE n
  <2> HAVE In(s, n) /\ ~Last(s, n)
  <2>1. PICK i \in 1..Len(s) : s[i] = n
    BY DEF In
  <2>2. i \in 1..(Len(s) - 1)
    BY <2>1 DEF Last
  <2> QED
    BY <2>1, <2>2 DEF Succ
<1> QED
  BY <1>8 DEF Distinct, In, Succ, First, Last

\* A node joins at the end.
LEMMA Push ==
  ASSUME NEW S, NEW s \in Seq(S), Distinct(s), NEW t \in S, ~In(s, t)
  PROVE  LET u == Append(s, t) IN
         /\ Distinct(u)
         /\ u # <<>> /\ Last(u, t)
         /\ \A n : In(u, n) <=> In(s, n) \/ n = t
         /\ \A n, m : Succ(u, n, m) <=> Succ(s, n, m) \/ (Last(s, n) /\ m = t)
         /\ \A n : First(u, n) <=> First(s, n) \/ (s = <<>> /\ n = t)
<1> DEFINE u == Append(s, t)
<1>1. /\ Len(s) \in Nat /\ Len(u) = Len(s) + 1
      /\ \A i \in 1..Len(s) : u[i] = s[i]
      /\ u[Len(s) + 1] = t
      /\ u \in Seq(S)
  BY AppendProperties
<1>2. (s = <<>> <=> Len(s) = 0) /\ u # <<>>
  BY <1>1, EmptySeq
<1> HIDE DEF u
<1>3. Distinct(u)
  BY <1>1, <1>2 DEF Distinct, In
<1>4. \A n : In(u, n) <=> In(s, n) \/ n = t
  BY <1>1, <1>2 DEF In
<1>5. \A n, m : Succ(u, n, m) <=> Succ(s, n, m) \/ (Last(s, n) /\ m = t)
  <2> TAKE n, m
  <2>1. ASSUME Succ(u, n, m) PROVE Succ(s, n, m) \/ (Last(s, n) /\ m = t)
    <3>1. PICK i \in 1..(Len(u) - 1) : u[i] = n /\ u[i + 1] = m
      BY <2>1 DEF Succ
    <3>2. CASE i = Len(s)
      BY <3>1, <3>2, <1>1, <1>2 DEF Last
    <3>3. CASE i # Len(s)
      BY <3>1, <3>3, <1>1 DEF Succ
    <3> QED
      BY <3>2, <3>3
  <2>2. ASSUME Succ(s, n, m) PROVE Succ(u, n, m)
    BY <2>2, <1>1 DEF Succ
  <2>3. ASSUME Last(s, n), m = t PROVE Succ(u, n, m)
    BY <2>3, <1>1, <1>2 DEF Succ, Last
  <2> QED
    BY <2>1, <2>2, <2>3
<1>6. /\ \A n : First(u, n) <=> First(s, n) \/ (s = <<>> /\ n = t)
      /\ Last(u, t)
  BY <1>1, <1>2 DEF First, Last
<1> QED
  BY <1>2, <1>3, <1>4, <1>5, <1>6 DEF u

\* The first node leaves.
LEMMA Leave ==
  ASSUME NEW S, NEW s \in Seq(S), Distinct(s), NEW h, First(s, h)
  PROVE  LET u == Tail(s) IN
         /\ Distinct(u)
         /\ u = <<>> <=> Last(s, h)
         /\ \A n : Last(u, n) <=> Last(s, n) /\ n # h
         /\ \A n : In(u, n) <=> In(s, n) /\ n # h
         /\ \A n, m : Succ(u, n, m) <=> Succ(s, n, m) /\ n # h
         /\ \A n : First(u, n) <=> Succ(s, h, n)
<1> DEFINE u == Tail(s)
<1>1. /\ Len(s) \in Nat /\ Len(s) # 0 /\ s[1] = h
      /\ Len(u) = Len(s) - 1
      /\ \A i \in 1..Len(u) : u[i] = s[i + 1]
      /\ u \in Seq(S)
  BY HeadTailProperties, EmptySeq DEF First
<1>2. (u = <<>> <=> Len(u) = 0) /\ s # <<>>
  BY <1>1, EmptySeq
<1> HIDE DEF u
<1>3. Distinct(u)
  BY <1>1 DEF Distinct
<1>4. u = <<>> <=> Last(s, h)
  BY <1>1, <1>2 DEF Distinct, Last
<1>5. \A n : In(u, n) <=> In(s, n) /\ n # h
  <2> TAKE n
  <2>1. ASSUME In(u, n) PROVE In(s, n) /\ n # h
    BY <2>1, <1>1 DEF In, Distinct
  <2>2. ASSUME In(s, n), n # h PROVE In(u, n)
    <3>1. PICK i \in 1..Len(s) : s[i] = n
      BY <2>2 DEF In
    <3>2. i - 1 \in 1..Len(u) /\ u[i - 1] = n
      BY <3>1, <2>2, <1>1
    <3> QED
      BY <3>2 DEF In
  <2> QED
    BY <2>1, <2>2
<1>6. \A n, m : Succ(u, n, m) <=> Succ(s, n, m) /\ n # h
  <2> TAKE n, m
  <2>1. ASSUME Succ(u, n, m) PROVE Succ(s, n, m) /\ n # h
    BY <2>1, <1>1, SMTT(60) DEF Succ, Distinct
  <2>2. ASSUME Succ(s, n, m), n # h PROVE Succ(u, n, m)
    <3>1. PICK i \in 1..(Len(s) - 1) : s[i] = n /\ s[i + 1] = m
      BY <2>2 DEF Succ
    <3>2. i - 1 \in 1..(Len(u) - 1) /\ u[i - 1] = n /\ u[i] = m
      BY <3>1, <2>2, <1>1
    <3> QED
      BY <3>2, <1>1 DEF Succ
  <2> QED
    BY <2>1, <2>2
<1>7. \A n : First(u, n) <=> Succ(s, h, n)
  BY <1>1, <1>2 DEF First, Succ, Distinct
<1>8. \A n : Last(u, n) <=> Last(s, n) /\ n # h
  BY <1>1, <1>2 DEF Last, Distinct
<1> QED
  BY <1>3, <1>4, <1>5, <1>6, <1>7, <1>8 DEF u

\* The first node is replaced by one that is not in the sequence.
LEMMA Replace ==
  ASSUME NEW S, NEW s \in Seq(S), Distinct(s), NEW h, First(s, h), NEW p \in S, ~In(s, p)
  PROVE  LET u == <<p>> \o Tail(s) IN
         /\ Distinct(u)
         /\ u # <<>>
         /\ \A n : Last(u, n) <=> (Last(s, n) /\ n # h) \/ (Last(s, h) /\ n = p)
         /\ \A n : In(u, n) <=> (In(s, n) /\ n # h) \/ n = p
         /\ \A n, m : Succ(u, n, m) <=>
                        (Succ(s, n, m) /\ n # h) \/ (Succ(s, h, m) /\ n = p)
         /\ \A n : First(u, n) <=> n = p
<1> DEFINE u == <<p>> \o Tail(s)
<1>1. /\ Len(s) \in Nat /\ Len(s) # 0 /\ s[1] = h
      /\ Len(Tail(s)) = Len(s) - 1
      /\ \A i \in 1..Len(Tail(s)) : Tail(s)[i] = s[i + 1]
      /\ Tail(s) \in Seq(S)
  BY HeadTailProperties, EmptySeq DEF First
<1>2. /\ u \in Seq(S) /\ Len(u) = Len(s)
      /\ u[1] = p
      /\ \A i \in 2..Len(s) : u[i] = s[i]
  <2>1. /\ <<p>> \in Seq(S) /\ Len(<<p>>) = 1 /\ <<p>>[1] = p
    OBVIOUS
  <2>2. /\ u \in Seq(S) /\ Len(u) = 1 + Len(Tail(s))
        /\ \A i \in 1..(1 + Len(Tail(s))) :
             u[i] = IF i <= 1 THEN <<p>>[i] ELSE Tail(s)[i - 1]
    BY <2>1, <1>1, ConcatProperties
  <2> QED
    BY <2>1, <2>2, <1>1
<1>3. s # <<>> /\ u # <<>>
  BY <1>1, <1>2, EmptySeq
<1> HIDE DEF u
<1>4. Distinct(u)
  BY <1>1, <1>2 DEF Distinct, In
<1>5. \A n : In(u, n) <=> (In(s, n) /\ n # h) \/ n = p
  <2> TAKE n
  <2>1. ASSUME In(u, n) PROVE (In(s, n) /\ n # h) \/ n = p
    <3>1. PICK i \in 1..Len(u) : u[i] = n
      BY <2>1 DEF In
    <3>2. CASE i = 1
      BY <3>1, <3>2, <1>2
    <3>3. CASE i # 1
      BY <3>1, <3>3, <1>1, <1>2 DEF In, Distinct
    <3> QED
      BY <3>2, <3>3
  <2>2. ASSUME In(s, n), n # h PROVE In(u, n)
    BY <2>2, <1>1, <1>2 DEF In
  <2>3. ASSUME n = p PROVE In(u, n)
    BY <2>3, <1>1, <1>2 DEF In
  <2> QED
    BY <2>1, <2>2, <2>3
<1>6. \A n, m : Succ(u, n, m) <=> (Succ(s, n, m) /\ n # h) \/ (Succ(s, h, m) /\ n = p)
  <2> TAKE n, m
  <2>1. ASSUME Succ(u, n, m) PROVE (Succ(s, n, m) /\ n # h) \/ (Succ(s, h, m) /\ n = p)
    <3>1. PICK i \in 1..(Len(u) - 1) : u[i] = n /\ u[i + 1] = m
      BY <2>1 DEF Succ
    <3>2. s[i + 1] = m
      BY <3>1, <1>1, <1>2
    <3>3. CASE i = 1
      BY <3>1, <3>2, <3>3, <1>1, <1>2 DEF Succ
    <3>4. CASE i # 1
      BY <3>1, <3>2, <3>4, <1>1, <1>2 DEF Succ, Distinct
    <3> QED
      BY <3>3, <3>4
  <2>2. ASSUME Succ(s, n, m), n # h PROVE Succ(u, n, m)
    BY <2>2, <1>1, <1>2 DEF Succ
  <2>3. ASSUME Succ(s, h, m), n = p PROVE Succ(u, n, m)
    BY <2>3, <1>1, <1>2 DEF Succ, Distinct
  <2> QED
    BY <2>1, <2>2, <2>3
<1>7. \A n : First(u, n) <=> n = p
  BY <1>2, <1>3 DEF First
<1>8. \A n : Last(u, n) <=> (Last(s, n) /\ n # h) \/ (Last(s, h) /\ n = p)
  BY <1>1, <1>2, <1>3 DEF Last, Distinct
<1> QED
  BY <1>3, <1>4, <1>5, <1>6, <1>7, <1>8 DEF u

-----------------------------------------------------------------------------
(* Mutual exclusion: the inductive invariant. *)

\* t has queued up and not yet been let in.
Waiting(t) ==
  \/ pc[t] \in {"link", "notify", "await"}
  \/ pc[t] \in Waits /\ arg[t][2] = "ready"
  \/ pc[t] = "signal" /\ ret[t] = "await"

\* The successor of node n has linked itself and set nextFlag.
Notified(n) == \E s \in Threads : Succ(queue, n, s) /\ pc[s] \notin {"link", "notify"}

\* What flag g tells has come about: a successor, or the turn of its node.
Told(g) == IF g[2] = "next" THEN Notified(g[1]) ELSE First(queue, g[1])

\* A thread waits in the kernel for the event of flag g.
Blocked(g) == \E t \in Threads : pc[t] = "block" /\ arg[t] = g

\* t knows, or is about to know, that its node has a successor.
Succeeded(t) ==
  \/ pc[t] \in {"awaitNext", "reload", "pass", "spin", "awaitLink", "copy"}
  \/ pc[t] \in Waits /\ arg[t][2] = "next"

\* The nodes in the queue are those of the threads that wait or hold, and Proxy
\* at most at its head; the lock word points at its tail.
Order ==
  /\ Distinct(queue)
  /\ queue = <<>> => lock = NULL
  /\ queue # <<>> => Last(queue, lock)
  /\ In(queue, Proxy) => First(queue, Proxy)
  /\ \A t \in Threads : In(queue, t) <=> Waiting(t) \/ (Holds(t) /\ node[t] = t)

\* The lock is held through the head of the queue.
Heads ==
  /\ \A t \in Threads : Holds(t) => First(queue, node[t])
  /\ proxyHeld => First(queue, Proxy)

\* What the locals of a thread say at each place.
Locals ==
  \A t \in Threads :
    /\ node[t] \in {t, Proxy}
    /\ ~Holds(t) \/ pc[t] \in {"held", "spin", "awaitLink", "copy"} => node[t] = t
    /\ pc[t] \in Waits =>
         \/ arg[t] = <<t, "ready">> /\ ret[t] = "held"
         \/ /\ arg[t] = <<node[t], "next">>
            /\ \/ ret[t] = "reload" /\ peer[t] = NULL
               \/ ret[t] = "pass" /\ peer[t] # NULL
               \/ ret[t] = "copy" /\ peer[t] = NULL /\ node[t] = t
    /\ pc[t] = "signal" =>
         \/ ret[t] = "await" /\ arg[t][2] = "next"
         \/ ret[t] = "idle" /\ arg[t][2] = "ready"
    /\ pc[t] \in {"held", "free", "spin", "awaitLink", "copy"} => peer[t] = NULL
    /\ pc[t] = "pass" => peer[t] # NULL
    /\ pc[t] # "fault"

\* A node's link is that of its successor, from the step that links it on, and
\* a thread that remembers a neighbour remembers the right one.
Links ==
  /\ \A n \in Nodes, s \in Threads :
       Succ(queue, n, s) => next[n] = IF pc[s] = "link" THEN NULL ELSE s
  /\ queue # <<>> => next[lock] = NULL
  /\ \A t \in Threads :
       peer[t] # NULL =>
         \/ pc[t] \in {"link", "notify"} /\ Succ(queue, peer[t], t)
         \/ Holds(t) /\ Succ(queue, node[t], peer[t])

\* A releaser waits only for a successor there is, and goes on when it has been
\* notified.
Releases ==
  \A t \in Threads :
    /\ Succeeded(t) => lock # node[t]
    /\ pc[t] \in {"reload", "pass", "copy"} => Notified(node[t])

\* A flag of a node in the queue does not tell what has not come about.
Flagged ==
  \A g \in Flags :
    In(queue, g[1]) /\ ~Told(g) => flag[g] = "zero" \/ (flag[g] = "event" /\ Blocked(g))

\* Where t waits for an event or signals one: the event is open, is signalled
\* while its waiter is blocked and when there is something to tell.
Attends(t) ==
  /\ pc[t] \in {"create", "store"} => flag[arg[t]] # "event"
  /\ pc[t] = "store" => ev[arg[t]] = "unset"
  /\ pc[t] = "block" =>
       /\ flag[arg[t]] = "event" /\ ev[arg[t]] # "none"
       /\ ev[arg[t]] = "set" => Told(arg[t])
  /\ pc[t] = "signal" => Blocked(arg[t]) /\ ev[arg[t]] = "unset" /\ Told(arg[t])

\* No event is signalled twice.
Events ==
  /\ \A t \in Threads : Attends(t)
  /\ \A t, u \in Threads : pc[t] = "signal" /\ pc[u] = "signal" /\ arg[t] = arg[u] => t = u

IInv ==
  /\ TypeOK /\ MutualExclusion
  /\ Order /\ Heads /\ Locals /\ Links /\ Releases /\ Flagged /\ Events

\* How the threads in the queue hang together.
LEMMA QueueChain ==
  ASSUME IInv
  PROVE  /\ \A n : First(queue, n) => In(queue, n) /\ n \in Nodes
         /\ \A n : Last(queue, n) => In(queue, n) /\ n \in Nodes
         /\ \A n, m : First(queue, n) /\ First(queue, m) => n = m
         /\ \A n, m : Last(queue, n) /\ Last(queue, m) => n = m
         /\ \A n, m : Succ(queue, n, m) => /\ In(queue, n) /\ In(queue, m) /\ n # m
                                           /\ n \in Nodes /\ m \in Threads
                                           /\ ~First(queue, m) /\ ~Last(queue, n)
         /\ \A n, m, k : Succ(queue, n, m) /\ Succ(queue, n, k) => m = k
         /\ \A n, m, k : Succ(queue, n, m) /\ Succ(queue, k, m) => n = k
         /\ \A n : In(queue, n) /\ ~Last(queue, n) => \E m \in Threads : Succ(queue, n, m)
         /\ \A n : First(queue, n) /\ Last(queue, n) => \A m : In(queue, m) => m = n
         /\ queue = <<>> => \A n : ~In(queue, n)
  <1>1. queue \in Seq(Nodes) /\ Distinct(queue) /\ (In(queue, Proxy) => First(queue, Proxy))
    BY DEF IInv, TypeOK, Order
  <1>2. \A n, m : Succ(queue, n, m) => m # Proxy
    BY <1>1, Chain
  <1> QED
    BY <1>1, <1>2, Chain DEF Nodes

\* What a step of t leaves alone in the threads other than t.
Others(t) ==
  \A u \in Threads : u # t => /\ pc'[u] = pc[u] /\ arg'[u] = arg[u] /\ ret'[u] = ret[u]
                              /\ node'[u] = node[u] /\ peer'[u] = peer[u]

\* t changes neither the queue nor its own part in it.
Stays(t) ==
  /\ UNCHANGED <<lock, next, node, proxyHeld, queue>>
  /\ Others(t)
  /\ Waiting(t)' <=> Waiting(t)
  /\ Holds(t)' <=> Holds(t)
  /\ pc'[t] = "link" <=> pc[t] = "link"

\* t waits at the head of the queue and is let in.
Enters(t) ==
  /\ UNCHANGED <<lock, next, node, proxyHeld, queue, peer>>
  /\ Others(t)
  /\ Waiting(t) /\ First(queue, t) /\ pc[t] \notin {"link", "notify"}
  /\ pc'[t] = "held"

LEMMA StaysInOrder ==
  ASSUME IInv, NEW t \in Threads, Stays(t)
  PROVE  /\ MutualExclusion' /\ Order' /\ Heads'
         /\ \A u \in Threads : (Waiting(u)' <=> Waiting(u)) /\ (Holds(u)' <=> Holds(u))
<1>1. \A u \in Threads : (Waiting(u)' <=> Waiting(u)) /\ (Holds(u)' <=> Holds(u))
  BY DEF Stays, Others, Waiting, Holds
<1>2. UNCHANGED <<lock, next, node, proxyHeld, queue>>
  BY DEF Stays
<1>3. MutualExclusion' /\ Order' /\ Heads'
  BY <1>1, <1>2 DEF IInv, MutualExclusion, Order, Heads
<1> QED
  BY <1>1, <1>3

LEMMA EntersInOrder ==
  ASSUME IInv, NEW t \in Threads, Enters(t)
  PROVE  /\ MutualExclusion' /\ Order' /\ Heads'
         /\ \A u \in Threads : Waiting(u)' <=> Waiting(u) /\ u # t
         /\ \A u \in Threads : Holds(u)' <=> Holds(u) \/ u = t
         /\ Locals' /\ Links' /\ Releases'
         /\ ~proxyHeld /\ \A u \in Threads : ~Holds(u)
         /\ \A g \in Flags : Told(g)' <=> Told(g)
<1>1. /\ \A u \in Threads : Waiting(u)' <=> Waiting(u) /\ u # t
      /\ \A u \in Threads : Holds(u)' <=> Holds(u) \/ u = t
  BY DEF Enters, Others, Waiting, Holds, Waits
<1>2. /\ UNCHANGED <<lock, next, node, proxyHeld, queue, peer>>
      /\ pc'[t] = "held" /\ First(queue, t) /\ Waiting(t) /\ pc[t] \notin {"link", "notify"}
      /\ \A u \in Threads : u # t => pc'[u] = pc[u] /\ arg'[u] = arg[u] /\ ret'[u] = ret[u]
  BY DEF Enters, Others
<1>3. ~Holds(t) /\ node[t] = t
  BY <1>2 DEF IInv, Locals, Waiting, Holds, Waits
<1>4. /\ ~proxyHeld
      /\ \A u \in Threads : ~Holds(u)
  <2>1. t # Proxy
    BY MCSAssumption
  <2>2. ~proxyHeld
    BY <1>2, <2>1, QueueChain DEF IInv, Heads
  <2>3. ASSUME NEW u \in Threads, Holds(u) PROVE FALSE
    BY <1>2, <1>3, <2>1, <2>3, QueueChain DEF IInv, Heads, Locals
  <2> QED
    BY <2>2, <2>3
<1>5. MutualExclusion' /\ Order' /\ Heads'
  BY <1>1, <1>2, <1>3, <1>4 DEF IInv, MutualExclusion, Order, Heads
<1>6. peer[t] = NULL
  BY <1>2, <1>3 DEF IInv, Links
<1>7. \A g \in Flags : Told(g)' <=> Told(g)
  BY <1>2 DEF Told, Notified
<1>8. Locals'
  BY <1>1, <1>2, <1>3, <1>6 DEF IInv, Locals, Waits
<1>9. Links'
  BY <1>1, <1>2, <1>6 DEF IInv, Links
<1>10. Releases'
  <2>1. \A u \in Threads : Succeeded(u)' => Succeeded(u)
    BY <1>2 DEF Succeeded, Waits
  <2> QED
    BY <1>2, <2>1 DEF IInv, Releases, Notified
<1> QED
  BY <1>1, <1>4, <1>5, <1>7, <1>8, <1>9, <1>10

\* Two threads that wait for the same flag are the same.
LEMMA OneWaiter ==
  ASSUME IInv, NEW t \in Threads, NEW u \in Threads,
         pc[t] \in Waits, pc[u] \in Waits, arg[t] = arg[u]
  PROVE  t = u
<1>1. CASE arg[t][2] = "next"
  BY <1>1 DEF IInv, MutualExclusion, Holds
<1>2. CASE arg[t][2] # "next"
  BY <1>2 DEF IInv, Locals
<1> QED
  BY <1>1, <1>2

\* ptw32_mcs_flag_wait(&nextFlag), in a release and in a transfer.
LEMMA NextWait ==
  ASSUME IInv, NEW t \in Threads, NEW l,
         \/ pc[t] = "awaitNext" /\ l = IF peer[t] = NULL THEN "reload" ELSE "pass"
         \/ pc[t] = "awaitLink" /\ l = "copy",
         FlagWait(t, <<node[t], "next">>, l),
         UNCHANGED <<lock, next, flag, ev, node, peer, proxyHeld, queue>>,
         TypeOK'
  PROVE  IInv'
<1> DEFINE g == <<node[t], "next">>
<1>1. /\ UNCHANGED <<lock, next, flag, ev, node, peer, proxyHeld, queue>>
      /\ Holds(t) /\ g \in Flags /\ Succeeded(t) /\ pc[t] \notin Waits
      /\ pc[t] \in {"awaitNext", "awaitLink"} /\ l \in {"reload", "pass", "copy"}
  BY Members DEF IInv, TypeOK, Holds, Succeeded, Waits
<1>2. \/ /\ flag[g] # "zero"
         /\ pc' = [pc EXCEPT ![t] = l] /\ UNCHANGED <<arg, ret>>
      \/ /\ flag[g] = "zero"
         /\ pc' = [pc EXCEPT ![t] = "create"]
         /\ arg' = [arg EXCEPT ![t] = g] /\ ret' = [ret EXCEPT ![t] = l]
  BY DEF FlagWait, Goto, Local
<1>3. Others(t)
  BY <1>1, <1>2 DEF IInv, TypeOK, Others
<1>4. Stays(t)
  BY <1>1, <1>2, <1>3 DEF IInv, TypeOK, Stays, Waiting, Holds, Waits
<1>5. Locals'
  <2>1. \/ l = "reload" /\ peer[t] = NULL
        \/ l = "pass" /\ peer[t] # NULL
        \/ l = "copy" /\ peer[t] = NULL /\ node[t] = t
    BY DEF IInv, Locals
  <2>2. \A u \in Threads : Holds(u)' <=> Holds(u)
    BY <1>4, StaysInOrder
  <2> QED
    BY <1>1, <1>2, <2>1, <2>2 DEF IInv, TypeOK, Locals, Waits
<1>6. Links'
  <2>1. /\ \A u \in Threads : Holds(u)' <=> Holds(u)
        /\ \A u \in Threads : pc'[u] = "link" <=> pc[u] = "link"
        /\ \A u \in Threads : pc[u] \in {"link", "notify"} => pc'[u] = pc[u]
    BY <1>1, <1>2, <1>4, StaysInOrder DEF IInv, TypeOK
  <2> QED
    BY <1>1, <2>1 DEF IInv, Links
<1>7. \A f \in Flags : (Told(f)' <=> Told(f)) /\ (Blocked(f)' <=> Blocked(f))
  <2>1. \A u \in Threads :
          /\ pc'[u] \in {"link", "notify"} <=> pc[u] \in {"link", "notify"}
          /\ pc'[u] = "block" <=> pc[u] = "block"
          /\ pc[u] = "block" => arg'[u] = arg[u]
    BY <1>1, <1>2 DEF IInv, TypeOK, Waits
  <2> QED
    BY <1>1, <2>1 DEF Told, Notified, Blocked
<1>8. ASSUME flag[g] # "zero" PROVE Notified(node[t])
  <2>1. In(queue, node[t])
    BY <1>1, QueueChain DEF IInv, Heads
  <2>2. ~Blocked(g)
    BY <1>1 DEF IInv, MutualExclusion, Blocked, Holds, Waits
  <2> QED
    BY <1>1, <1>8, <2>1, <2>2 DEF IInv, Flagged, Told
<1>9. Releases'
  BY <1>1, <1>2, <1>8 DEF IInv, TypeOK, Releases, Notified, Succeeded
<1>10. Flagged'
  BY <1>1, <1>7 DEF IInv, Flagged
<1>11. Events'
  <2>1. Attends(t)'
    BY <1>1, <1>2, ZenonT(60) DEF IInv, TypeOK, Attends
  <2>2. ASSUME NEW u \in Threads, u # t PROVE Attends(u)'
    BY <2>2, <1>1, <1>2, <1>7 DEF IInv, TypeOK, Events, Attends
  <2> QED
    BY <2>1, <2>2, <1>1, <1>2 DEF IInv, TypeOK, Events
<1> QED
  BY <1>4, <1>5, <1>6, <1>9, <1>10, <1>11, StaysInOrder DEF IInv

LEMMA AwaitNextStep ==
  ASSUME IInv, NEW t \in Threads, AwaitNext(t)
  PROVE  IInv'
<1>1. TypeOK'
  BY TypeStep DEF IInv, Next, Step
<1> QED
  BY <1>1, NextWait DEF AwaitNext, At

LEMMA AwaitLinkStep ==
  ASSUME IInv, NEW t \in Threads, AwaitLink(t)
  PROVE  IInv'
<1>1. TypeOK'
  BY TypeStep DEF IInv, Next, Step
<1>2. node[t] = t
  BY DEF IInv, Locals, AwaitLink, At
<1> QED
  BY <1>1, <1>2, NextWait DEF AwaitLink, At

LEMMA AwaitReadyStep ==
  ASSUME IInv, NEW t \in Threads, AwaitReady(t)
  PROVE  IInv'
<1> DEFINE g == <<t, "ready">>
<1>1. TypeOK'
  BY TypeStep DEF IInv, Next, Step
<1>2. /\ UNCHANGED <<lock, next, flag, ev, node, peer, proxyHeld, queue>>
      /\ pc[t] = "await" /\ Waiting(t) /\ g \in Flags /\ pc[t] \notin Waits
  BY Members DEF AwaitReady, At, Waiting, Waits
<1>3. CASE flag[g] # "zero"
  <2>1. pc' = [pc EXCEPT ![t] = "held"] /\ UNCHANGED <<arg, ret>>
    BY <1>3 DEF AwaitReady, FlagWait, Goto
  <2>2. First(queue, t)
    <3>1. In(queue, t)
      BY <1>2 DEF IInv, Order
    <3>2. ~Blocked(g)
      BY <1>2 DEF IInv, Locals, Blocked, Waits
    <3> QED
      BY <1>2, <1>3, <3>1, <3>2 DEF IInv, Flagged, Told
  <2>3. Enters(t)
    BY <1>2, <2>1, <2>2 DEF IInv, TypeOK, Enters, Others
  <2>4. \A f \in Flags : Blocked(f)' <=> Blocked(f)
    BY <1>2, <2>1 DEF IInv, TypeOK, Blocked
  <2>5. Flagged'
    BY <1>2, <2>3, <2>4, EntersInOrder DEF IInv, Flagged
  <2>6. Events'
    <3>1. Attends(t)'
      BY <2>1 DEF IInv, TypeOK, Attends
    <3>2. ASSUME NEW u \in Threads, u # t PROVE Attends(u)'
      BY <3>2, <1>2, <2>1, <2>3, <2>4, EntersInOrder DEF IInv, TypeOK, Events, Attends
    <3> QED
      BY <3>1, <3>2, <1>2, <2>1 DEF IInv, TypeOK, Events
  <2> QED
    BY <1>1, <2>3, <2>5, <2>6, EntersInOrder DEF IInv
<1>4. CASE flag[g] = "zero"
  <2>1. /\ pc' = [pc EXCEPT ![t] = "create"]
        /\ arg' = [arg EXCEPT ![t] = g] /\ ret' = [ret EXCEPT ![t] = "held"]
    BY <1>4 DEF AwaitReady, FlagWait, Goto, Local
  <2>2. Stays(t)
    BY <1>2, <2>1 DEF IInv, TypeOK, Stays, Others, Waiting, Holds, Waits
  <2>3. Locals'
    BY <1>2, <2>1, <2>2, StaysInOrder DEF IInv, TypeOK, Locals, Waits
  <2>4. Links'
    BY <1>2, <2>1, <2>2, StaysInOrder DEF IInv, TypeOK, Links
  <2>5. \A f \in Flags : (Told(f)' <=> Told(f)) /\ (Blocked(f)' <=> Blocked(f))
    BY <1>2, <2>1 DEF IInv, TypeOK, Told, Notified, Blocked
  <2>6. Releases'
    BY <1>2, <2>1 DEF IInv, TypeOK, Releases, Notified, Succeeded
  <2>7. Flagged'
    BY <1>2, <2>5 DEF IInv, Flagged
  <2>8. Events'
    <3>1. Attends(t)'
      BY <1>2, <1>4, <2>1 DEF IInv, TypeOK, Attends
    <3>2. ASSUME NEW u \in Threads, u # t PROVE Attends(u)'
      BY <3>2, <1>2, <2>1, <2>5 DEF IInv, TypeOK, Events, Attends
    <3> QED
      BY <3>1, <3>2, <1>2, <2>1 DEF IInv, TypeOK, Events
  <2> QED
    BY <1>1, <2>2, <2>3, <2>4, <2>6, <2>7, <2>8, StaysInOrder DEF IInv
<1> QED
  BY <1>3, <1>4

LEMMA CreateEventStep ==
  ASSUME IInv, ~EventExhaustion, NEW t \in Threads, CreateEvent(t)
  PROVE  IInv'
<1>1. TypeOK'
  BY TypeStep DEF IInv, Next, Step
<1>2. /\ UNCHANGED <<lock, next, flag, node, peer, arg, ret, proxyHeld, queue>>
      /\ pc[t] = "create" /\ pc' = [pc EXCEPT ![t] = "store"]
      /\ ev' = [ev EXCEPT ![arg[t]] = "unset"]
      /\ arg[t] \in Flags
  BY DEF CreateEvent, At, Goto, IInv, TypeOK
<1>3. Stays(t)
  BY <1>2 DEF IInv, TypeOK, Stays, Others, Waiting, Holds, Waits
<1>4. Locals'
  BY <1>2, <1>3, StaysInOrder DEF IInv, TypeOK, Locals, Waits
<1>5. Links'
  BY <1>2, <1>3, StaysInOrder DEF IInv, TypeOK, Links
<1>6. \A f \in Flags : (Told(f)' <=> Told(f)) /\ (Blocked(f)' <=> Blocked(f))
  BY <1>2 DEF IInv, TypeOK, Told, Notified, Blocked
<1>7. Releases'
  BY <1>2 DEF IInv, TypeOK, Releases, Notified, Succeeded, Waits
<1>8. Flagged'
  BY <1>2, <1>6 DEF IInv, Flagged
<1>9. Events'
  <2>1. flag[arg[t]] # "event"
    BY <1>2 DEF IInv, Events, Attends
  <2>2. Attends(t)'
    BY <1>2, <2>1 DEF IInv, TypeOK, Attends
  <2>3. ASSUME NEW u \in Threads, u # t PROVE Attends(u)'
    <3>1. Attends(u) /\ arg[u] \in Flags
      BY DEF IInv, TypeOK, Events
    <3>2. pc[u] \in {"block", "signal"} => arg[u] # arg[t]
      BY <2>1, <3>1 DEF IInv, Events, Attends, Blocked
    <3> QED
      BY <2>3, <3>1, <3>2, <1>2, <1>6 DEF IInv, TypeOK, Attends
  <2> QED
    BY <2>2, <2>3, <1>2 DEF IInv, TypeOK, Events
<1> QED
  BY <1>1, <1>3, <1>4, <1>5, <1>7, <1>8, <1>9, StaysInOrder DEF IInv

\* A thread returns from ptw32_mcs_flag_wait: it has been told what it waited
\* for, and what remains to be shown is that the events are in order.
LEMMA Resumes ==
  ASSUME IInv, TypeOK', NEW t \in Threads, pc[t] \in Waits,
         UNCHANGED <<lock, next, flag, node, peer, proxyHeld, queue>>,
         pc' = [pc EXCEPT ![t] = ret[t]],
         arg' = [arg EXCEPT ![t] = <<t, "ready">>], ret' = [ret EXCEPT ![t] = "idle"],
         In(queue, arg[t][1]) => Told(arg[t]),
         \A f \in Flags : Blocked(f)' <=> Blocked(f) /\ f # arg[t],
         \A u \in Threads : u # t /\ (\A f \in Flags : Told(f)' <=> Told(f)) => Attends(u)'
  PROVE  IInv'
<1> DEFINE g == arg[t]
<1>1. /\ UNCHANGED <<lock, next, flag, node, peer, proxyHeld, queue>>
      /\ g \in Flags
      /\ \/ g = <<t, "ready">> /\ ret[t] = "held" /\ node[t] = t
         \/ g = <<node[t], "next">> /\ ret[t] \in {"reload", "pass", "copy"}
  BY SMTT(60) DEF IInv, TypeOK, Locals, Holds, Waits
<1>2. Others(t)
  BY <1>1 DEF IInv, TypeOK, Others
<1>3. ASSUME Told(g), \A f \in Flags : Told(f)' <=> Told(f)
      PROVE  Flagged' /\ Events'
  <2>1. Attends(t)'
    BY <1>1 DEF IInv, TypeOK, Attends
  <2>2. Events'
    BY <2>1, <1>1, <1>3 DEF IInv, TypeOK, Events
  <2>3. Flagged'
    BY <1>1, <1>3 DEF IInv, Flagged
  <2> QED
    BY <2>2, <2>3
<1>4. CASE g = <<t, "ready">> /\ ret[t] = "held" /\ node[t] = t
  <2>1. Waiting(t)
    BY <1>4 DEF Waiting
  <2>2. In(queue, t)
    BY <2>1 DEF IInv, Order
  <2>3. Told(g) /\ First(queue, t)
    BY <1>4, <2>2 DEF Told
  <2>4. Enters(t)
    BY <1>1, <1>2, <1>4, <2>1, <2>3 DEF IInv, TypeOK, Enters, Waits
  <2> QED
    BY <1>3, <2>3, <2>4, EntersInOrder DEF IInv
<1>5. CASE g = <<node[t], "next">> /\ ret[t] \in {"reload", "pass", "copy"}
  <2>1. Holds(t) /\ Succeeded(t)
    BY <1>5 DEF Holds, Succeeded
  <2>2. In(queue, node[t])
    BY <2>1, QueueChain DEF IInv, Heads
  <2>3. Told(g) /\ Notified(node[t])
    BY <1>5, <2>2 DEF Told
  <2>4. Stays(t)
    BY <1>1, <1>2, <1>5, <2>1 DEF IInv, TypeOK, Stays, Waiting, Holds, Waits
  <2>5. /\ \A u \in Threads : Holds(u)' <=> Holds(u)
        /\ \A u \in Threads : pc'[u] \in {"link", "notify"} <=> pc[u] \in {"link", "notify"}
        /\ \A u \in Threads : pc'[u] = "link" <=> pc[u] = "link"
    BY <1>1, <1>5, <2>4, StaysInOrder DEF IInv, TypeOK, Waits
  <2>6. Locals'
    <3>1. /\ ret[t] \in {"reload", "copy"} <=> peer[t] = NULL
          /\ ret[t] = "copy" => node[t] = t
      BY <1>5 DEF IInv, Locals
    <3> QED
      BY <1>1, <1>5, <3>1, <2>1, <2>5 DEF IInv, TypeOK, Locals, Waits
  <2>7. Links'
    BY <1>1, <2>5 DEF IInv, Links
  <2>8. \A f \in Flags : Told(f)' <=> Told(f)
    BY <1>1, <2>5 DEF Told, Notified
  <2>9. Releases'
    <3>1. ASSUME NEW u \in Threads, u # t
          PROVE  (Succeeded(u)' <=> Succeeded(u)) /\ pc'[u] = pc[u]
      BY <3>1 DEF Succeeded, IInv, TypeOK
    <3> QED
      BY <1>1, <1>5, <2>1, <2>3, <2>5, <3>1 DEF IInv, TypeOK, Releases, Notified
  <2> QED
    BY <1>3, <2>3, <2>4, <2>6, <2>7, <2>8, <2>9, StaysInOrder DEF IInv
<1> QED
  BY <1>1, <1>4, <1>5

LEMMA StoreEventStep ==
  ASSUME IInv, NEW t \in Threads, StoreEvent(t)
  PROVE  IInv'
<1> DEFINE g == arg[t]
<1>1. TypeOK'
  BY TypeStep DEF IInv, Next, Step
<1>2. /\ UNCHANGED <<lock, next, node, peer, proxyHeld, queue>>
      /\ pc[t] = "store" /\ g \in Flags /\ flag[g] \in {"zero", "set"} /\ ev[g] = "unset"
      /\ pc[t] \in Waits
  BY DEF StoreEvent, At, IInv, TypeOK, Events, Attends, Waits
<1>3. \A u \in Threads : pc[u] \in {"create", "store", "block"} /\ arg[u] = g => u = t
  BY <1>2, OneWaiter DEF Waits
<1>4. ~Blocked(g)
  BY <1>2, <1>3 DEF Blocked
<1>5. CASE flag[g] = "zero"
  <2>1. /\ flag' = [flag EXCEPT ![g] = "event"] /\ pc' = [pc EXCEPT ![t] = "block"]
        /\ UNCHANGED <<ev, arg, ret>>
    BY <1>5 DEF StoreEvent, Goto
  <2>2. Stays(t)
    BY <1>2, <2>1 DEF IInv, TypeOK, Stays, Others, Waiting, Holds, Waits
  <2>3. Locals'
    BY <1>2, <2>1, <2>2, StaysInOrder DEF IInv, TypeOK, Locals, Waits
  <2>4. Links'
    BY <1>2, <2>1, <2>2, StaysInOrder DEF IInv, TypeOK, Links
  <2>5. \A f \in Flags : /\ Told(f)' <=> Told(f)
                         /\ Blocked(f)' <=> Blocked(f) \/ f = g
    BY <1>2, <2>1 DEF IInv, TypeOK, Told, Notified, Blocked
  <2>6. Releases'
    BY <1>2, <2>1 DEF IInv, TypeOK, Releases, Notified, Succeeded, Waits
  <2>7. Flagged'
    BY <1>2, <2>1, <2>5 DEF IInv, TypeOK, Flagged
  <2>8. Events'
    <3>1. Attends(t)'
      BY <1>2, <2>1 DEF IInv, TypeOK, Attends
    <3>2. ASSUME NEW u \in Threads, u # t PROVE Attends(u)'
      <4>1. Attends(u) /\ arg[u] \in Flags /\ pc'[u] = pc[u]
        BY <3>2, <2>1 DEF IInv, TypeOK, Events
      <4>2. pc[u] \in {"create", "store", "block", "signal"} => arg[u] # g
        BY <3>2, <4>1, <1>3, <1>4 DEF Attends
      <4> QED
        BY <4>1, <4>2, <1>2, <2>1, <2>5 DEF IInv, TypeOK, Attends
    <3> QED
      BY <3>1, <3>2, <1>2, <2>1 DEF IInv, TypeOK, Events
  <2> QED
    BY <1>1, <2>2, <2>3, <2>4, <2>6, <2>7, <2>8, StaysInOrder DEF IInv
<1>6. CASE flag[g] # "zero"
  <2>1. /\ ev' = [ev EXCEPT ![g] = "none"] /\ flag' = flag
        /\ pc' = [pc EXCEPT ![t] = ret[t]]
        /\ arg' = [arg EXCEPT ![t] = <<t, "ready">>] /\ ret' = [ret EXCEPT ![t] = "idle"]
    BY <1>6 DEF StoreEvent, Goto, Resume, Local
  <2>2. In(queue, g[1]) => Told(g)
    BY <1>2, <1>4, <1>6 DEF IInv, Flagged
  <2>3. \A f \in Flags : Blocked(f)' <=> Blocked(f) /\ f # g
    BY <1>2, <1>4, <2>1 DEF IInv, TypeOK, Blocked
  <2>4. ASSUME NEW u \in Threads, u # t, \A f \in Flags : Told(f)' <=> Told(f)
        PROVE  Attends(u)'
    <3>1. Attends(u) /\ arg[u] \in Flags /\ pc'[u] = pc[u] /\ arg'[u] = arg[u]
      BY <2>4, <2>1 DEF IInv, TypeOK, Events
    <3>2. pc[u] \in {"create", "store", "block", "signal"} => arg[u] # g
      BY <2>4, <3>1, <1>3, <1>4 DEF Attends
    <3> QED
      BY <2>4, <3>1, <3>2, <1>2, <2>1, <2>3 DEF IInv, TypeOK, Attends
  <2> QED
    BY <1>1, <1>2, <2>1, <2>2, <2>3, <2>4, Resumes
<1> QED
  BY <1>2, <1>5, <1>6

LEMMA WakeStep ==
  ASSUME IInv, NEW t \in Threads, Wake(t)
  PROVE  IInv'
<1> DEFINE g == arg[t]
<1>1. TypeOK'
  BY TypeStep DEF IInv, Next, Step
<1>2. /\ UNCHANGED <<lock, next, flag, node, peer, proxyHeld, queue>>
      /\ pc[t] = "block" /\ g \in Flags /\ ev[g] = "set" /\ Told(g)
      /\ pc[t] \in Waits
      /\ ev' = [ev EXCEPT ![g] = "none"]
      /\ pc' = [pc EXCEPT ![t] = ret[t]]
      /\ arg' = [arg EXCEPT ![t] = <<t, "ready">>] /\ ret' = [ret EXCEPT ![t] = "idle"]
  BY DEF Wake, At, Resume, Goto, Local, IInv, TypeOK, Events, Attends, Waits
<1>3. \A u \in Threads : pc[u] \in {"create", "store", "block"} /\ arg[u] = g => u = t
  BY <1>2, OneWaiter DEF Waits
<1>4. \A f \in Flags : Blocked(f)' <=> Blocked(f) /\ f # g
  BY <1>2, <1>3 DEF IInv, TypeOK, Blocked
<1>5. ASSUME NEW u \in Threads, u # t, \A f \in Flags : Told(f)' <=> Told(f)
      PROVE  Attends(u)'
  <2>1. Attends(u) /\ arg[u] \in Flags /\ pc'[u] = pc[u] /\ arg'[u] = arg[u]
    BY <1>2, <1>5 DEF IInv, TypeOK, Events
  <2>2. pc[u] \in {"create", "store", "block", "signal"} => arg[u] # g
    BY <1>2, <1>3, <1>5, <2>1 DEF Attends
  <2> QED
    BY <1>2, <1>4, <1>5, <2>1, <2>2 DEF IInv, TypeOK, Attends
<1> QED
  BY <1>1, <1>2, <1>4, <1>5, Resumes

LEMMA SignalStep ==
  ASSUME IInv, NEW t \in Threads, Signal(t)
  PROVE  IInv'
<1> DEFINE g == arg[t]
<1>1. TypeOK'
  BY TypeStep DEF IInv, Next, Step
<1>2. /\ UNCHANGED <<lock, next, flag, node, peer, proxyHeld, queue>>
      /\ pc[t] = "signal" /\ g \in Flags /\ Told(g) /\ Blocked(g) /\ ev[g] = "unset"
      /\ pc[t] \notin Waits
  BY DEF Signal, At, IInv, TypeOK, Events, Attends, Waits
<1>3. /\ ev' = [ev EXCEPT ![g] = "set"]
      /\ pc' = [pc EXCEPT ![t] = ret[t]]
      /\ arg' = [arg EXCEPT ![t] = <<t, "ready">>] /\ ret' = [ret EXCEPT ![t] = "idle"]
      /\ ret[t] \in {"await", "idle"}
  BY <1>2 DEF Signal, Resume, Goto, Local, IInv, Locals
<1>4. Stays(t)
  BY <1>2, <1>3 DEF IInv, TypeOK, Stays, Others, Waiting, Holds, Waits
<1>5. /\ \A u \in Threads : Holds(u)' <=> Holds(u)
      /\ \A u \in Threads : Succeeded(u)' <=> Succeeded(u)
      /\ \A u \in Threads : pc'[u] \in {"link", "notify"} <=> pc[u] \in {"link", "notify"}
      /\ \A u \in Threads : pc'[u] = "link" <=> pc[u] = "link"
      /\ \A u \in Threads : pc[u] \in Waits => pc'[u] = pc[u] /\ arg'[u] = arg[u]
      /\ \A u \in Threads : pc'[u] \in Waits => pc'[u] = pc[u] /\ arg'[u] = arg[u]
  BY <1>2, <1>3, <1>4, StaysInOrder DEF IInv, TypeOK, Waits, Succeeded
<1>6. Locals'
  <2>1. ~Holds(t)
    BY <1>2, <1>3 DEF Holds
  <2> QED
    BY <1>2, <1>3, <1>5, <2>1 DEF IInv, TypeOK, Locals
<1>7. Links'
  BY <1>2, <1>5 DEF IInv, Links
<1>8. \A f \in Flags : (Told(f)' <=> Told(f)) /\ (Blocked(f)' <=> Blocked(f))
  BY <1>2, <1>5 DEF Told, Notified, Blocked, Waits
<1>9. Releases'
  BY <1>2, <1>3, <1>5 DEF IInv, TypeOK, Releases, Notified
<1>10. Flagged'
  BY <1>2, <1>8 DEF IInv, Flagged
<1>11. Events'
  <2>1. Attends(t)'
    BY <1>1, <1>3 DEF IInv, TypeOK, Attends
  <2>2. ASSUME NEW u \in Threads, u # t PROVE Attends(u)'
    <3>1. /\ Attends(u) /\ arg[u] \in Flags /\ pc'[u] = pc[u] /\ arg'[u] = arg[u]
          /\ pc[u] = "signal" => arg[u] # g
      BY <1>2, <1>3, <2>2 DEF IInv, TypeOK, Events
    <3>2. pc[u] = "store" => arg[u] # g
      BY <1>2, <2>2, <3>1, OneWaiter DEF Blocked, Waits
    <3> QED
      BY <1>2, <1>3, <1>8, <3>1, <3>2 DEF IInv, TypeOK, Attends
  <2> QED
    BY <1>2, <1>3, <2>1, <2>2 DEF IInv, TypeOK, Events
<1> QED
  BY <1>1, <1>4, <1>6, <1>7, <1>9, <1>10, <1>11, StaysInOrder DEF IInv

\* While t holds the lock and is not itself waiting for its successor, nobody
\* signals an event, and who waits waits for its turn.
LEMMA HolderAlone ==
  ASSUME IInv, NEW t \in Threads, Holds(t), pc[t] \notin Waits
  PROVE  /\ ~proxyHeld
         /\ First(queue, node[t]) /\ In(queue, node[t]) /\ node[t] \in Nodes
         /\ \A u \in Threads : u # t => ~Holds(u) /\ ~First(queue, u)
         /\ \A u \in Threads : pc[u] # "signal"
         /\ \A u \in Threads : pc[u] \in Waits =>
              arg[u] = <<u, "ready">> /\ In(queue, u) /\ ~First(queue, u)
         /\ \A u \in Threads : pc[u] = "block" => ev[arg[u]] = "unset"
<1>1. ~proxyHeld /\ \A u \in Threads : u # t => ~Holds(u)
  BY DEF IInv, MutualExclusion
<1>2. First(queue, node[t]) /\ In(queue, node[t]) /\ node[t] \in Nodes
  BY QueueChain DEF IInv, Heads, TypeOK
<1>3. \A u \in Threads : u # t => ~First(queue, u)
  BY <1>2, QueueChain, MCSAssumption DEF IInv, Locals
<1>4. \A u \in Threads : pc[u] \in Waits => u # t /\ arg[u] = <<u, "ready">> /\ Waiting(u)
  BY <1>1 DEF IInv, Locals, Holds, Waiting
<1>5. \A u \in Threads : pc[u] \in Waits =>
        arg[u] = <<u, "ready">> /\ In(queue, u) /\ ~First(queue, u) /\ ~Told(arg[u])
  BY <1>3, <1>4 DEF IInv, Order, Told
<1>6. \A u \in Threads : pc[u] = "block" => ev[arg[u]] = "unset"
  BY <1>5 DEF IInv, TypeOK, Events, Attends, Waits
<1>7. \A u \in Threads : pc[u] # "signal"
  BY <1>5 DEF IInv, Events, Attends, Blocked, Waits
<1> QED
  BY <1>1, <1>2, <1>3, <1>5, <1>6, <1>7

\* A node whose link has been set is not the last one.
LEMMA Linked ==
  ASSUME IInv, NEW n \in Nodes, In(queue, n), next[n] # NULL
  PROVE  n # lock /\ Succ(queue, n, next[n])
<1>1. queue # <<>> /\ Last(queue, lock)
  BY QueueChain DEF IInv, Order
<1>2. n # lock
  BY <1>1 DEF IInv, Links
<1>3. ~Last(queue, n)
  BY <1>1, <1>2, QueueChain
<1>4. PICK m \in Threads : Succ(queue, n, m)
  BY <1>3, QueueChain
<1> QED
  BY <1>2, <1>4 DEF IInv, Links

\* A holder goes from one place in a routine to another; nothing changes but
\* what it remembers, and nodes that are not in the queue.
LEMMA Walks ==
  ASSUME IInv, TypeOK', NEW t \in Threads, NEW l \in {"awaitNext", "awaitLink", "pass", "free", "spin"},
         UNCHANGED <<lock, ev, arg, ret, proxyHeld, queue>>,
         \A n \in Nodes : In(queue, n) => next'[n] = next[n],
         \A f \in Flags : In(queue, f[1]) => flag'[f] = flag[f],
         pc' = [pc EXCEPT ![t] = l],
         pc[t] \in {"held", "free", "spin", "reload"},
         Others(t), node'[t] = node[t],
         Locals',
         peer'[t] # NULL => Succ(queue, node[t], peer'[t]),
         l \in {"awaitNext", "awaitLink", "pass", "spin"} => lock # node[t],
         l = "pass" => Notified(node[t])
  PROVE  IInv'
<1>1. UNCHANGED <<lock, ev, arg, ret, proxyHeld, queue, node>>
  BY DEF IInv, TypeOK, Others
<1>2. /\ \A u \in Threads : Holds(u)' <=> Holds(u)
      /\ \A u \in Threads : Waiting(u)' <=> Waiting(u)
      /\ \A u \in Threads : pc'[u] \in {"link", "notify"} <=> pc[u] \in {"link", "notify"}
      /\ \A u \in Threads : pc'[u] = "link" <=> pc[u] = "link"
      /\ Holds(t) /\ pc[t] \notin Waits
      /\ \A u \in Threads : pc'[u] \in Waits \cup {"signal"} <=> pc[u] \in Waits \cup {"signal"}
      /\ \A u \in Threads : pc'[u] \in Waits \cup {"signal"} => pc'[u] = pc[u]
  BY <1>1 DEF IInv, TypeOK, Waits, Holds, Waiting
<1>3. MutualExclusion' /\ Order' /\ Heads'
  BY <1>1, <1>2 DEF IInv, MutualExclusion, Order, Heads
<1>4. Links'
  <2>1. \A u \in Threads : peer'[u] # NULL =>
          \/ pc'[u] \in {"link", "notify"} /\ Succ(queue, peer'[u], u)
          \/ Holds(u) /\ Succ(queue, node[u], peer'[u])
    BY <1>1, <1>2 DEF IInv, Links, Others
  <2>2. queue # <<>> => next'[lock] = NULL
    BY QueueChain DEF IInv, Links, Order
  <2>3. \A n \in Nodes, s \in Threads : Succ(queue, n, s) => next'[n] = next[n]
    BY QueueChain
  <2> QED
    BY <1>1, <1>2, <2>1, <2>2, <2>3 DEF IInv, Links
<1>5. \A f \in Flags : (Told(f)' <=> Told(f)) /\ (Blocked(f)' <=> Blocked(f))
  BY <1>1, <1>2 DEF Told, Notified, Blocked, Waits
<1>6. Releases'
  <2>1. ASSUME NEW u \in Threads, u # t
        PROVE  (Succeeded(u)' <=> Succeeded(u)) /\ pc'[u] = pc[u]
    BY <2>1 DEF Succeeded, IInv, TypeOK
  <2> QED
    BY <1>1, <1>2, <2>1 DEF IInv, TypeOK, Releases, Notified, Succeeded, Waits
<1>7. Flagged'
  BY <1>1, <1>5 DEF IInv, Flagged
<1>8. Events'
  <2>1. \A u \in Threads : pc[u] \in Waits => In(queue, arg[u][1]) /\ arg[u] \in Flags
    BY <1>2, HolderAlone DEF IInv, TypeOK
  <2>2. \A u \in Threads : Attends(u)'
    BY <1>1, <1>2, <1>5, <2>1 DEF IInv, TypeOK, Events, Attends, Waits
  <2> QED
    BY <1>1, <1>2, <2>2 DEF IInv, Events, Waits
<1> QED
  BY <1>3, <1>4, <1>6, <1>7, <1>8 DEF IInv

LEMMA SpinStep ==
  ASSUME IInv, NEW t \in Threads, Spin(t)
  PROVE  IInv'
<1>1. TypeOK'
  BY TypeStep DEF IInv, Next, Step
<1>2. /\ UNCHANGED <<lock, next, flag, ev, arg, ret, proxyHeld, queue, node, peer>>
      /\ pc[t] = "spin" /\ pc' = [pc EXCEPT ![t] = "awaitLink"]
  BY DEF Spin, At, Goto
<1>3. Others(t)
  BY <1>2 DEF IInv, TypeOK, Others
<1>4. peer[t] = NULL /\ lock # node[t]
  BY <1>2 DEF IInv, Locals, Releases, Succeeded
<1>5. Locals'
  BY <1>2 DEF IInv, TypeOK, Locals, Holds, Waits
<1> QED
  BY <1>1, <1>2, <1>3, <1>4, <1>5, Walks

LEMMA ReloadStep ==
  ASSUME IInv, NEW t \in Threads, Reload(t)
  PROVE  IInv'
<1>1. TypeOK'
  BY TypeStep DEF IInv, Next, Step
<1>2. /\ UNCHANGED <<lock, next, flag, ev, arg, ret, proxyHeld, queue, node>>
      /\ pc[t] = "reload" /\ pc' = [pc EXCEPT ![t] = "pass"]
      /\ peer' = [peer EXCEPT ![t] = next[node[t]]]
  BY DEF Reload, At, Goto, Local
<1>3. Others(t)
  BY <1>2 DEF IInv, TypeOK, Others
<1>4. Notified(node[t]) /\ lock # node[t] /\ node[t] \in Nodes
  BY <1>2 DEF IInv, TypeOK, Releases, Succeeded
<1>5. PICK s \in Threads : Succ(queue, node[t], s) /\ pc[s] \notin {"link", "notify"}
  BY <1>4 DEF Notified
<1>6. next[node[t]] = s /\ s # NULL
  BY <1>4, <1>5, MCSAssumption DEF IInv, Links
<1>7. Locals'
  BY <1>2, <1>6 DEF IInv, TypeOK, Locals, Holds, Waits
<1>8. peer'[t] = s
  BY <1>2, <1>6 DEF IInv, TypeOK
<1> QED
  BY <1>1, <1>2, <1>3, <1>4, <1>5, <1>7, <1>8, Walks

LEMMA ReleaseOwnStep ==
  ASSUME IInv, NEW t \in Threads, ReleaseOwn(t)
  PROVE  IInv'
<1> DEFINE l == IF next[t] = NULL THEN "free" ELSE "awaitNext"
<1>1. TypeOK'
  BY TypeStep DEF IInv, Next, Call
<1>2. /\ UNCHANGED <<lock, next, flag, ev, arg, ret, proxyHeld, queue>>
      /\ pc[t] = "held" /\ pc' = [pc EXCEPT ![t] = l]
      /\ node' = [node EXCEPT ![t] = t]
      /\ peer' = [peer EXCEPT ![t] = next[t]]
  BY DEF ReleaseOwn, Release, At, Goto, Local
<1>3. node[t] = t /\ node'[t] = t /\ peer'[t] = next[t] /\ In(queue, t) /\ t \in Nodes
  BY <1>2, QueueChain, Members DEF IInv, TypeOK, Locals, Heads, Holds
<1>4. Others(t)
  BY <1>2 DEF IInv, TypeOK, Others
<1>5. Locals'
  BY <1>2, <1>3 DEF IInv, TypeOK, Locals, Holds, Waits
<1> QED
  BY <1>1, <1>2, <1>3, <1>4, <1>5, Linked, Walks

LEMMA ReleaseProxyStep ==
  ASSUME IInv, NEW t \in Threads, ReleaseProxy(t)
  PROVE  IInv'
<1> DEFINE l == IF next[Proxy] = NULL THEN "free" ELSE "awaitNext"
<1>1. TypeOK'
  BY TypeStep DEF IInv, Next, Call
<1>2. /\ UNCHANGED <<lock, next, flag, ev, arg, ret, queue>>
      /\ proxyHeld /\ ~proxyHeld'
      /\ pc[t] = "idle" /\ pc' = [pc EXCEPT ![t] = l]
      /\ node' = [node EXCEPT ![t] = Proxy]
      /\ peer' = [peer EXCEPT ![t] = next[Proxy]]
  BY DEF ReleaseProxy, Release, At, Goto, Local
<1>3. First(queue, Proxy) /\ In(queue, Proxy) /\ Proxy \in Nodes
  BY <1>2, QueueChain, Members DEF IInv, Heads
<1>4. \A u \in Threads : ~Holds(u)
  BY <1>2 DEF IInv, MutualExclusion
<1>5. /\ Others(t)
      /\ node'[t] = Proxy /\ peer'[t] = next[Proxy]
  BY <1>2 DEF IInv, TypeOK, Others
<1>6. /\ \A u \in Threads : Holds(u)' <=> u = t
      /\ \A u \in Threads : Waiting(u)' <=> Waiting(u)
      /\ ~Waiting(t)
      /\ \A u \in Threads : pc'[u] \in {"link", "notify"} <=> pc[u] \in {"link", "notify"}
      /\ \A u \in Threads : pc'[u] = "link" <=> pc[u] = "link"
      /\ \A u \in Threads : pc'[u] \in Waits \cup {"signal"} <=> pc[u] \in Waits \cup {"signal"}
      /\ \A u \in Threads : pc'[u] \in Waits \cup {"signal"} => pc'[u] = pc[u]
  BY <1>2, <1>4 DEF IInv, TypeOK, Waits, Holds, Waiting
<1>7. MutualExclusion' /\ Heads'
  BY <1>2, <1>3, <1>5, <1>6 DEF MutualExclusion, Heads
<1>8. Order'
  BY <1>2, <1>4, <1>5, <1>6, MCSAssumption DEF IInv, Order
<1>9. Locals'
  BY <1>2, <1>4, <1>5, <1>6 DEF IInv, TypeOK, Locals, Waits
<1>10. Links'
  BY <1>2, <1>3, <1>4, <1>5, <1>6, Linked DEF IInv, Links, Others
<1>11. \A f \in Flags : (Told(f)' <=> Told(f)) /\ (Blocked(f)' <=> Blocked(f))
  BY <1>2, <1>6 DEF Told, Notified, Blocked, Waits
<1>12. Releases'
  <2>1. \A u \in Threads : u # t => ~Succeeded(u)' /\ pc'[u] \notin {"reload", "pass", "copy"}
    BY <1>6 DEF Holds, Succeeded
  <2>2. next[Proxy] # NULL => lock # Proxy
    BY <1>3, Linked
  <2> QED
    BY <1>2, <1>5, <2>1, <2>2 DEF IInv, TypeOK, Releases, Succeeded, Waits
<1>13. Flagged'
  BY <1>2, <1>11 DEF IInv, Flagged
<1>14. Events'
  <2>1. \A u \in Threads : Attends(u)'
    BY <1>2, <1>6, <1>11 DEF IInv, TypeOK, Events, Attends, Waits
  <2> QED
    BY <1>2, <1>6, <2>1 DEF IInv, Events, Waits
<1> QED
  BY <1>1, <1>7, <1>8, <1>9, <1>10, <1>12, <1>13, <1>14 DEF IInv

LEMMA LinkStep ==
  ASSUME IInv, NEW t \in Threads, Link(t)
  PROVE  IInv'
<1>1. TypeOK'
  BY TypeStep DEF IInv, Next, Step
<1>2. /\ UNCHANGED <<lock, flag, ev, node, peer, arg, ret, proxyHeld, queue>>
      /\ pc[t] = "link" /\ pc' = [pc EXCEPT ![t] = "notify"]
      /\ next' = [next EXCEPT ![peer[t]] = t]
      /\ peer[t] \in Nodes /\ peer[t] # NULL
  BY MCSAssumption DEF Link, At, Goto, IInv, TypeOK, Nodes
<1>3. /\ \A u \in Threads : Holds(u)' <=> Holds(u)
      /\ \A u \in Threads : Waiting(u)' <=> Waiting(u)
      /\ \A u \in Threads : pc'[u] \in {"link", "notify"} <=> pc[u] \in {"link", "notify"}
      /\ \A u \in Threads : pc'[u] = "link" <=> pc[u] = "link" /\ u # t
      /\ \A u \in Threads : u # t => pc'[u] = pc[u]
  BY <1>2 DEF IInv, TypeOK, Waits, Holds, Waiting
<1>4. MutualExclusion' /\ Order' /\ Heads'
  BY <1>2, <1>3 DEF IInv, MutualExclusion, Order, Heads
<1>5. Locals'
  BY <1>2, <1>3 DEF IInv, TypeOK, Locals, Waits
<1>6. Succ(queue, peer[t], t)
  BY <1>2 DEF IInv, Links, Holds, Waits
<1>7. Links'
  <2>1. \A n \in Nodes, s \in Threads :
          Succ(queue, n, s) => next'[n] = IF pc'[s] = "link" THEN NULL ELSE s
    BY <1>2, <1>3, <1>6, QueueChain DEF IInv, TypeOK, Links
  <2>2. queue # <<>> => next'[lock] = NULL
    BY <1>2, <1>6, QueueChain DEF IInv, TypeOK, Links, Order
  <2>3. \A u \in Threads :
          peer[u] # NULL => \/ pc'[u] \in {"link", "notify"} /\ Succ(queue, peer[u], u)
                            \/ Holds(u)' /\ Succ(queue, node[u], peer[u])
    BY <1>3 DEF IInv, Links
  <2> QED
    BY <1>2, <2>1, <2>2, <2>3 DEF Links
<1>8. \A f \in Flags : (Told(f)' <=> Told(f)) /\ (Blocked(f)' <=> Blocked(f))
  BY <1>2, <1>3 DEF Told, Notified, Blocked
<1>9. Releases'
  BY <1>2, <1>3 DEF IInv, TypeOK, Releases, Notified, Succeeded, Waits
<1>10. Flagged'
  BY <1>2, <1>8 DEF IInv, Flagged
<1>11. Events'
  <2>1. \A u \in Threads : Attends(u)'
    BY <1>2, <1>3, <1>8 DEF IInv, TypeOK, Events, Attends
  <2> QED
    BY <1>2, <1>3, <2>1 DEF IInv, Events
<1> QED
  BY <1>1, <1>4, <1>5, <1>7, <1>9, <1>10, <1>11 DEF IInv

\* ptw32_mcs_flag_set(&g) where nobody has been told before: if a thread is
\* blocked on the event, it is not yet signalled.
LEMMA Telling ==
  ASSUME IInv, NEW g \in Flags, In(queue, g[1]), ~Told(g), flag[g] = "event"
  PROVE  Blocked(g) /\ ev[g] = "unset"
  BY DEF IInv, TypeOK, Flagged, Events, Attends, Blocked

LEMMA NotifyStep ==
  ASSUME IInv, NEW t \in Threads, Notify(t)
  PROVE  IInv'
<1> DEFINE g == <<peer[t], "next">>
<1>1. TypeOK'
  BY TypeStep DEF IInv, Next, Step
<1>2. /\ UNCHANGED <<lock, next, ev, node, proxyHeld, queue>>
      /\ pc[t] = "notify" /\ pc[t] \notin Waits
      /\ peer' = [peer EXCEPT ![t] = NULL]
      /\ peer[t] \in Nodes /\ peer[t] # NULL /\ g \in Flags
      /\ flag' = [flag EXCEPT ![g] = IF flag[g] = "zero" THEN "set" ELSE flag[g]]
  BY MCSAssumption, Members DEF Notify, FlagSet, At, Local, IInv, TypeOK, Nodes, Waits
<1>3. \/ /\ flag[g] = "event" /\ pc' = [pc EXCEPT ![t] = "signal"]
         /\ arg' = [arg EXCEPT ![t] = g] /\ ret' = [ret EXCEPT ![t] = "await"]
      \/ /\ flag[g] # "event" /\ pc' = [pc EXCEPT ![t] = "await"]
         /\ UNCHANGED <<arg, ret>>
  BY DEF Notify, FlagSet, Goto, Local
<1>4. /\ \A u \in Threads : Holds(u)' <=> Holds(u)
      /\ \A u \in Threads : Waiting(u)' <=> Waiting(u)
      /\ \A u \in Threads : pc'[u] \in {"link", "notify"} <=> pc[u] \in {"link", "notify"} /\ u # t
      /\ \A u \in Threads : pc'[u] = "link" <=> pc[u] = "link"
      /\ \A u \in Threads : pc'[u] \in Waits <=> pc[u] \in Waits
      /\ \A u \in Threads : u # t => pc'[u] = pc[u] /\ arg'[u] = arg[u] /\ ret'[u] = ret[u]
                                     /\ peer'[u] = peer[u]
  BY <1>2, <1>3 DEF IInv, TypeOK, Waits, Holds, Waiting
<1>5. MutualExclusion' /\ Order' /\ Heads'
  BY <1>2, <1>4 DEF IInv, MutualExclusion, Order, Heads
<1>6. Locals'
  <2>1. ~Holds(t)
    BY <1>2 DEF Holds
  <2> QED
    BY <1>2, <1>3, <1>4, <2>1 DEF IInv, TypeOK, Locals
<1>7. Succ(queue, peer[t], t) /\ In(queue, peer[t])
  BY <1>2, QueueChain DEF IInv, Links, Holds, Waits
<1>8. ~Told(g)
  BY <1>2, <1>7, QueueChain DEF Told, Notified
<1>9. Links'
  BY <1>1, <1>2, <1>4 DEF IInv, TypeOK, Links
<1>10. \A f \in Flags : /\ Told(f)' <=> Told(f) \/ f = g
                        /\ Blocked(f)' <=> Blocked(f)
  <2>1. \A n : Notified(n)' <=> Notified(n) \/ n = peer[t]
    BY <1>2, <1>4, <1>7, QueueChain DEF Notified
  <2>2. \A f \in Flags : Blocked(f)' <=> Blocked(f)
    BY <1>2, <1>3, <1>4, SMTT(60) DEF IInv, TypeOK, Blocked
  <2>3. \A f \in Flags : f[2] = "next" /\ f[1] = peer[t] => f = g
    BY DEF Flags
  <2>4. \A f \in Flags : First(queue, f[1])' <=> First(queue, f[1])
    BY <1>2
  <2> QED
    BY <2>1, <2>2, <2>3, <2>4 DEF Told
<1>11. Releases'
  BY <1>2, <1>3, <1>4 DEF IInv, TypeOK, Releases, Notified, Succeeded, Waits
<1>12. Flagged'
  BY <1>2, <1>10 DEF IInv, TypeOK, Flagged
<1>13. Events'
  <2>1. Attends(t)'
    BY <1>2, <1>3, <1>7, <1>8, <1>10, Telling, ZenonT(60) DEF IInv, TypeOK, Attends
  <2>2. ASSUME NEW u \in Threads, u # t
        PROVE  Attends(u)' /\ (pc[u] = "signal" => arg[u] # g)
    <3>1. Attends(u) /\ arg[u] \in Flags
      BY DEF IInv, TypeOK, Events
    <3>2. pc[u] = "signal" => arg[u] # g
      BY <1>8, <3>1 DEF Attends
    <3>3. /\ pc'[u] = pc[u] /\ arg'[u] = arg[u] /\ ev' = ev
          /\ flag'[arg[u]] = "event" <=> flag[arg[u]] = "event"
      <4>1. \A f \in Flags : flag'[f] = "event" <=> flag[f] = "event"
        BY <1>2 DEF IInv, TypeOK
      <4> QED
        BY <1>2, <1>4, <2>2, <3>1, <4>1
    <3>4. \A f \in Flags : (Told(f) => Told(f)') /\ (Blocked(f)' <=> Blocked(f))
      BY <1>10
    <3>5. Attends(u)'
      BY <3>1, <3>3, <3>4 DEF Attends
    <3> QED
      BY <3>2, <3>5
  <2> QED
    BY <1>2, <1>3, <1>4, <2>1, <2>2 DEF IInv, TypeOK, Events
<1> QED
  BY <1>1, <1>5, <1>6, <1>9, <1>11, <1>12, <1>13 DEF IInv

\* A thread joins the queue: it is let in at once, or has to link itself.
LEMMA Joins ==
  ASSUME IInv, TypeOK', NEW t \in Threads, pc[t] = "idle", Clear(t), lock' = t,
         queue' = Append(queue, t), UNCHANGED <<ev, node, arg, ret, proxyHeld>>,
         \/ lock = NULL /\ pc' = [pc EXCEPT ![t] = "held"] /\ peer' = peer
         \/ /\ lock # NULL /\ pc' = [pc EXCEPT ![t] = "link"]
            /\ peer' = [peer EXCEPT ![t] = lock]
  PROVE  IInv'
<1>1. /\ UNCHANGED <<ev, node, arg, ret, proxyHeld>>
      /\ queue \in Seq(Nodes) /\ Distinct(queue) /\ t \in Nodes /\ t # Proxy /\ t # NULL
      /\ next' = [next EXCEPT ![t] = NULL]
      /\ flag' = [flag EXCEPT ![<<t, "ready">>] = "zero", ![<<t, "next">>] = "zero"]
      /\ pc[t] \notin Waits
  BY MCSAssumption, Members DEF IInv, TypeOK, Order, Clear, Waits
<1>2. ~Holds(t) /\ ~Waiting(t) /\ ~In(queue, t) /\ peer[t] = NULL /\ node[t] = t
  <2>1. ~Holds(t) /\ ~Waiting(t)
    BY DEF Holds, Waiting, Waits
  <2> QED
    BY <2>1 DEF IInv, Order, Links, Locals
<1>3. /\ Distinct(queue') /\ queue' # <<>> /\ Last(queue', t)
      /\ \A n : In(queue', n) <=> In(queue, n) \/ n = t
      /\ \A n, m : Succ(queue', n, m) <=> Succ(queue, n, m) \/ (Last(queue, n) /\ m = t)
      /\ \A n : First(queue', n) <=> First(queue, n) \/ (queue = <<>> /\ n = t)
  BY <1>1, <1>2, Push
<1>4. /\ queue = <<>> <=> lock = NULL
      /\ queue # <<>> => lock \in Nodes /\ In(queue, lock) /\ next[lock] = NULL
      /\ \A n : Last(queue, n) <=> queue # <<>> /\ n = lock
  BY QueueChain, MCSAssumption DEF IInv, Order, Nodes, Links, Last
<1>5. /\ lock = NULL => pc'[t] = "held" /\ peer'[t] = NULL
      /\ lock # NULL => pc'[t] = "link" /\ peer'[t] = lock
      /\ \A u \in Threads : u # t => pc'[u] = pc[u] /\ peer'[u] = peer[u]
  BY <1>2 DEF IInv, TypeOK
<1>6. /\ \A u \in Threads : Holds(u)' <=> Holds(u) \/ (u = t /\ lock = NULL)
      /\ \A u \in Threads : Waiting(u)' <=> Waiting(u) \/ (u = t /\ lock # NULL)
  BY <1>1, <1>2, <1>5 DEF Holds, Waiting, Waits
<1>7. lock = NULL => ~proxyHeld /\ \A u \in Threads : ~Holds(u)
  BY <1>4 DEF IInv, Heads, First
<1>8. MutualExclusion' /\ Heads'
  BY <1>1, <1>2, <1>3, <1>4, <1>6, <1>7 DEF IInv, MutualExclusion, Heads
<1>9. Order'
  BY <1>1, <1>2, <1>3, <1>4, <1>6 DEF IInv, Order
<1>10. Locals'
  BY <1>1, <1>2, <1>5, <1>6 DEF IInv, Locals, Waits
<1>11. Links'
  <2>1. \A n \in Nodes, s \in Threads :
          Succ(queue', n, s) => next'[n] = IF pc'[s] = "link" THEN NULL ELSE s
    <3> SUFFICES ASSUME NEW n \in Nodes, NEW s \in Threads, Succ(queue', n, s)
                 PROVE  next'[n] = IF pc'[s] = "link" THEN NULL ELSE s
      OBVIOUS
    <3>1. CASE Succ(queue, n, s)
      <4>1. n # t /\ s # t
        BY <3>1, <1>2, QueueChain
      <4> QED
        BY <3>1, <4>1, <1>1, <1>5 DEF IInv, TypeOK, Links
    <3>2. CASE n = lock /\ s = t /\ queue # <<>>
      BY <3>2, <1>1, <1>2, <1>4, <1>5 DEF IInv, TypeOK
    <3> QED
      BY <3>1, <3>2, <1>3, <1>4
  <2>2. next'[t] = NULL
    BY <1>1 DEF IInv, TypeOK
  <2>3. \A u \in Threads :
          peer'[u] # NULL => \/ pc'[u] \in {"link", "notify"} /\ Succ(queue', peer'[u], u)
                             \/ Holds(u)' /\ Succ(queue', node[u], peer'[u])
    BY <1>3, <1>4, <1>5, <1>6 DEF IInv, Links
  <2> QED
    BY <1>1, <2>1, <2>2, <2>3 DEF Links
<1>12. \A n : Notified(n)' <=> Notified(n)
  <2>1. \A n, s : Succ(queue, n, s) => s # t
    BY <1>2, QueueChain
  <2>2. \A n : Succ(queue', n, t) => pc'[t] = "link"
    BY <1>3, <1>4, <1>5, <2>1
  <2> QED
    BY <1>3, <1>5, <2>1, <2>2 DEF Notified
<1>13. \A f \in Flags : /\ Told(f) => Told(f)'
                        /\ In(queue, f[1]) /\ Told(f)' => Told(f)
                        /\ Blocked(f)' <=> Blocked(f)
  <2>1. \A f \in Flags : Blocked(f)' <=> Blocked(f)
    BY <1>1, <1>5 DEF Blocked, Waits
  <2>2. \A f \in Flags : First(queue', f[1]) <=> First(queue, f[1]) \/ (queue = <<>> /\ f[1] = t)
    BY <1>3
  <2> QED
    BY <1>2, <1>12, <2>1, <2>2 DEF Told
<1>14. Releases'
  <2>1. \A u \in Threads : Succeeded(u)' => Succeeded(u) /\ u # t
    BY <1>1, <1>5 DEF Succeeded, Waits
  <2>2. \A u \in Threads : Succeeded(u) => t # node[u]
    BY <1>2, QueueChain DEF Succeeded, Holds, IInv, Heads
  <2> QED
    BY <1>1, <1>2, <1>5, <1>12, <2>1, <2>2 DEF IInv, Releases
<1>15. Flagged'
  <2> SUFFICES ASSUME NEW f \in Flags, In(queue', f[1]), ~Told(f)'
               PROVE  flag'[f] = "zero" \/ (flag'[f] = "event" /\ Blocked(f)')
    BY DEF Flagged
  <2>1. CASE f[1] = t
    <3>1. f = <<t, "ready">> \/ f = <<t, "next">>
      BY <2>1 DEF Flags
    <3> QED
      BY <1>1, <3>1, ZenonT(60) DEF IInv, TypeOK
  <2>2. CASE f[1] # t
    <3>1. flag'[f] = flag[f]
      BY <1>1, <2>2 DEF IInv, TypeOK
    <3>2. In(queue, f[1]) /\ ~Told(f)
      BY <1>3, <1>13, <2>2
    <3> QED
      BY <1>13, <3>1, <3>2 DEF IInv, Flagged
  <2> QED
    BY <2>1, <2>2
<1>16. Events'
  <2>1. ASSUME NEW u \in Threads PROVE Attends(u)'
    <3>1. CASE u = t
      BY <3>1, <1>5 DEF Attends
    <3>2. CASE u # t
      <4>1. Attends(u) /\ arg[u] \in Flags /\ pc'[u] = pc[u]
        BY <3>2, <1>5 DEF IInv, TypeOK, Events
      <4>2. pc[u] \in Waits => arg[u][1] # t
        BY <3>2, <1>1 DEF IInv, Locals
      <4> QED
        BY <4>1, <4>2, <1>1, <1>13 DEF IInv, TypeOK, Attends, Waits
    <3> QED
      BY <3>1, <3>2
  <2> QED
    BY <1>1, <1>5, <2>1, SMTT(60) DEF IInv, Events
<1> QED
  BY <1>8, <1>9, <1>10, <1>11, <1>14, <1>15, <1>16 DEF IInv

LEMMA JoinSteps ==
  ASSUME IInv, NEW t \in Threads, Swap(t) \/ Try(t)
  PROVE  IInv'
<1>1. TypeOK'
  BY TypeStep DEF IInv, Next, Call
<1>2. CASE Swap(t)
  BY <1>1, <1>2, Joins DEF Swap, At, Goto, Local
<1>3. CASE Try(t)
  BY <1>1, <1>3, Joins DEF Try, At, Goto, Local
<1> QED
  BY <1>2, <1>3

LEMMA FreeStep ==
  ASSUME IInv, NEW t \in Threads, Free(t)
  PROVE  IInv'
<1>1. TypeOK'
  BY TypeStep DEF IInv, Next, Step
<1>2. /\ UNCHANGED <<next, flag, ev, peer, arg, ret, proxyHeld>>
      /\ pc[t] = "free" /\ pc[t] \notin Waits /\ Holds(t) /\ peer[t] = NULL
  BY DEF Free, At, Holds, Waits, IInv, Locals
<1>3. CASE lock # node[t]
  <2>1. UNCHANGED <<lock, node, queue>> /\ pc' = [pc EXCEPT ![t] = "awaitNext"]
    BY <1>3 DEF Free, Goto
  <2>2. Others(t)
    BY <1>2, <2>1 DEF IInv, TypeOK, Others
  <2>3. Locals'
    BY <1>2, <2>1 DEF IInv, TypeOK, Locals, Holds, Waits
  <2> QED
    BY <1>1, <1>2, <1>3, <2>1, <2>2, <2>3, Walks
<1>4. CASE lock = node[t]
  <2>1. /\ lock' = NULL /\ pc' = [pc EXCEPT ![t] = "idle"]
        /\ node' = [node EXCEPT ![t] = t] /\ queue' = Rest
    BY <1>4 DEF Free, Goto, Local, Pop
  <2>2. /\ queue \in Seq(Nodes) /\ Distinct(queue)
        /\ First(queue, node[t]) /\ queue # <<>> /\ Last(queue, node[t])
    BY <1>2, <1>4, HolderAlone DEF IInv, TypeOK, Order, First
  <2>3. queue' = <<>>
    <3>1. queue' = Tail(queue)
      BY <2>1, <2>2 DEF Rest
    <3> QED
      BY <2>2, <3>1, Leave
  <2>4. /\ \A n : ~In(queue', n) /\ ~First(queue', n)
        /\ \A n, m : ~Succ(queue', n, m)
        /\ Distinct(queue')
    BY <2>3 DEF In, First, Succ, Distinct
  <2>5. \A n : In(queue, n) => n = node[t]
    BY <2>2, QueueChain
  <2>6. \A u \in Threads : /\ u # t => ~Holds(u) /\ ~Waiting(u) /\ pc'[u] = pc[u]
                           /\ pc[u] \notin Waits \cup {"signal"}
    <3>1. ASSUME NEW u \in Threads, u # t PROVE ~In(queue, u)
      BY <2>5, <3>1, MCSAssumption DEF IInv, Locals
    <3> QED
      BY <1>2, <2>1, <2>5, <3>1, HolderAlone DEF IInv, TypeOK, Order
  <2>7. /\ \A u \in Threads : ~Holds(u)' /\ ~Waiting(u)'
        /\ \A u \in Threads : pc'[u] \notin Waits \cup {"signal", "link", "notify"}
        /\ ~proxyHeld'
    BY <1>2, <2>1, <2>6, HolderAlone DEF IInv, TypeOK, Holds, Waiting, Waits
  <2>8. MutualExclusion' /\ Heads' /\ Order'
    BY <2>1, <2>3, <2>4, <2>7 DEF MutualExclusion, Heads, Order
  <2>9. Locals'
    BY <1>2, <2>1, <2>6, <2>7 DEF IInv, TypeOK, Locals
  <2>10. Links'
    <3>1. \A u \in Threads : peer[u] = NULL
      BY <1>2, <2>6, <2>7 DEF IInv, Links
    <3> QED
      BY <1>2, <2>3, <2>4, <3>1 DEF Links
  <2>11. Releases'
    <3>1. \A u \in Threads : ~Succeeded(u)' /\ pc'[u] \notin {"reload", "pass", "copy"}
      BY <2>7 DEF Succeeded, Holds
    <3> QED
      BY <3>1 DEF Releases
  <2>12. Flagged'
    BY <2>4 DEF Flagged
  <2>13. Events'
    BY <2>7 DEF Events, Attends, Waits
  <2> QED
    BY <1>1, <2>8, <2>9, <2>10, <2>11, <2>12, <2>13 DEF IInv
<1> QED
  BY <1>3, <1>4

\* The head of the queue, on which its successor has linked itself, leaves it or
\* gives its place to another node; nobody but t held the lock.
LEMMA PassStep ==
  ASSUME IInv, NEW t \in Threads, Pass(t)
  PROVE  IInv'
<1> PICK h, p : h = node[t] /\ p = peer[t]
  OBVIOUS
<1> DEFINE g == <<p, "ready">>
<1>1. TypeOK'
  BY TypeStep DEF IInv, Next, Step
<1>2. /\ pc[t] = "pass" /\ pc[t] \notin Waits /\ Holds(t) /\ p # NULL
      /\ Succ(queue, h, p) /\ Notified(h)
      /\ UNCHANGED <<lock, next, ev, proxyHeld>>
  BY DEF Pass, At, Holds, Waits, IInv, Locals, Links, Releases
<1>3. /\ flag' = [flag EXCEPT ![g] = IF flag[g] = "zero" THEN "set" ELSE flag[g]]
      /\ node' = [node EXCEPT ![t] = t] /\ peer' = [peer EXCEPT ![t] = NULL]
      /\ queue' = Rest
      /\ \/ /\ flag[g] = "event" /\ pc' = [pc EXCEPT ![t] = "signal"]
            /\ arg' = [arg EXCEPT ![t] = g] /\ ret' = [ret EXCEPT ![t] = "idle"]
         \/ /\ flag[g] # "event" /\ pc' = [pc EXCEPT ![t] = "idle"]
            /\ UNCHANGED <<arg, ret>>
  BY <1>2 DEF Pass, FlagSet, Goto, Local, Pop
<1>4. /\ p \in Threads /\ h \in Nodes /\ p # h /\ g \in Flags /\ In(queue, p) /\ ~First(queue, p)
      /\ h # lock
  BY <1>2, QueueChain, Members DEF IInv, Releases, Succeeded
<1>5. /\ queue \in Seq(Nodes) /\ Distinct(queue) /\ queue # <<>>
      /\ First(queue, h) /\ ~proxyHeld
      /\ Last(queue, lock)
  BY <1>2, HolderAlone DEF IInv, TypeOK, Order, First
<1>6. queue' = Tail(queue)
  BY <1>3, <1>5 DEF Rest
<1>7. /\ Distinct(queue') /\ queue' # <<>>
      /\ Last(queue', lock)
      /\ \A n : In(queue', n) <=> In(queue, n) /\ n # h
      /\ \A n, m : Succ(queue', n, m) <=> Succ(queue, n, m) /\ n # h
      /\ \A n : First(queue', n) <=> n = p
  <2>1. /\ Distinct(queue')
        /\ queue' = <<>> <=> Last(queue, h)
        /\ \A n : Last(queue', n) <=> Last(queue, n) /\ n # h
        /\ \A n : In(queue', n) <=> In(queue, n) /\ n # h
        /\ \A n, m : Succ(queue', n, m) <=> Succ(queue, n, m) /\ n # h
        /\ \A n : First(queue', n) <=> Succ(queue, h, n)
    BY <1>5, <1>6, Leave
  <2> QED
    BY <1>2, <1>4, <1>5, <2>1, QueueChain
<1>8. /\ \A u \in Threads : u # t => /\ ~Holds(u) /\ u # h
                                     /\ pc'[u] = pc[u] /\ arg'[u] = arg[u] /\ ret'[u] = ret[u]
                                     /\ node'[u] = node[u] /\ peer'[u] = peer[u]
      /\ \A u \in Threads : pc[u] # "signal"
      /\ \A u \in Threads : pc[u] \in Waits => arg[u] = <<u, "ready">>
      /\ \A u \in Threads : pc[u] = "block" => ev[arg[u]] = "unset"
      /\ node'[t] = t /\ peer'[t] = NULL /\ pc'[t] \in {"signal", "idle"}
      /\ pc'[t] = "signal" => ret'[t] = "idle"
  <2>1. \A u \in Threads : u # t => u # h
    BY MCSAssumption DEF IInv, Locals
  <2> QED
    BY <1>2, <1>3, <2>1, HolderAlone DEF IInv, TypeOK
<1>9. /\ \A u \in Threads : ~Holds(u)'
      /\ \A u \in Threads : Waiting(u)' <=> Waiting(u)
      /\ ~Waiting(t)
  BY <1>2, <1>8 DEF Holds, Waiting, Waits
<1>10. MutualExclusion' /\ Heads'
  BY <1>2, <1>5, <1>9 DEF MutualExclusion, Heads
<1>11. Order'
  <2>1. In(queue', Proxy) => First(queue', Proxy)
    BY <1>5, <1>7, QueueChain DEF IInv, Order
  <2>2. \A u \in Threads : In(queue', u) <=> Waiting(u)
    <3>1. \A u \in Threads : u # t => (In(queue, u) <=> Waiting(u)) /\ u # h
      BY <1>8 DEF IInv, Order
    <3>2. ~In(queue', t)
      BY <1>2, <1>7, <1>9 DEF IInv, Order
    <3> QED
      BY <1>7, <1>9, <3>1, <3>2
  <2> QED
    BY <1>2, <1>7, <1>9, <2>1, <2>2 DEF Order
<1>12. Locals'
  BY <1>3, <1>8, <1>9 DEF IInv, TypeOK, Locals, Waits
<1>13. \A n : n # h => (Notified(n)' <=> Notified(n))
  BY <1>2, <1>7, <1>8, QueueChain DEF Notified
<1>14. Links'
  <2>1. \A n \in Nodes, s \in Threads :
          Succ(queue', n, s) => next[n] = IF pc'[s] = "link" THEN NULL ELSE s
    <3>1. \A n \in Nodes, s \in Threads : Succ(queue', n, s) => Succ(queue, n, s) /\ s # t
      BY <1>2, <1>5, <1>7, <1>9, QueueChain DEF IInv, Order
    <3> QED
      BY <1>8, <3>1 DEF IInv, Links
  <2>2. next[lock] = NULL
    BY <1>5 DEF IInv, Links
  <2>3. ASSUME NEW u \in Threads, peer'[u] # NULL
        PROVE  pc'[u] \in {"link", "notify"} /\ Succ(queue', peer'[u], u)
    <3>1. u # t /\ pc[u] \in {"link", "notify"} /\ Succ(queue, peer[u], u)
      BY <1>8, <2>3 DEF IInv, Links
    <3>2. peer[u] # h
      BY <1>2, <3>1, QueueChain DEF Notified
    <3> QED
      BY <1>7, <1>8, <3>1, <3>2
  <2> QED
    BY <1>2, <2>1, <2>2, <2>3 DEF Links
<1>15. Releases'
  <2>1. \A u \in Threads : ~Succeeded(u)' /\ pc'[u] \notin {"reload", "pass", "copy"}
    BY <1>9 DEF Succeeded, Holds
  <2> QED
    BY <2>1 DEF Releases
<1>16. \A f \in Flags : Blocked(f)' <=> Blocked(f)
  BY <1>2, <1>8 DEF Blocked, Waits
<1>17. Told(g)' /\ ~Told(g)
  BY <1>4, <1>7 DEF Told
<1>18. Flagged'
  <2> SUFFICES ASSUME NEW f \in Flags, In(queue', f[1]), ~Told(f)'
               PROVE  flag'[f] = "zero" \/ (flag'[f] = "event" /\ Blocked(f)')
    BY DEF Flagged
  <2>1. f # g /\ flag'[f] = flag[f]
    BY <1>3, <1>17 DEF IInv, TypeOK
  <2>2. In(queue, f[1]) /\ f[1] # h
    BY <1>7
  <2>3. ~Told(f)
    BY <1>5, <1>13, <2>2, QueueChain DEF Told
  <2> QED
    BY <1>16, <2>1, <2>2, <2>3 DEF IInv, Flagged
<1>19. Events'
  <2>1. Attends(t)'
    BY <1>2, <1>3, <1>4, <1>16, <1>17, Telling, ZenonT(60) DEF IInv, TypeOK, Attends
  <2>2. ASSUME NEW u \in Threads, u # t PROVE Attends(u)'
    <3>1. Attends(u) /\ arg[u] \in Flags
      BY DEF IInv, TypeOK, Events
    <3> QED
      BY <1>2, <1>3, <1>8, <2>2, <3>1, SMTT(60) DEF IInv, TypeOK, Attends, Waits
  <2> QED
    BY <1>8, <2>1, <2>2 DEF Events
<1> QED
  BY <1>1, <1>10, <1>11, <1>12, <1>14, <1>15, <1>18, <1>19 DEF IInv

\* t gives its place at the head of the queue to Proxy; if it has a successor,
\* Proxy inherits the link and the flag.
LEMMA MovesToProxy ==
  ASSUME IInv, TypeOK', NEW t \in Threads, pc[t] \in {"held", "copy"},
         pc' = [pc EXCEPT ![t] = "idle"], proxyHeld', MoveToProxy,
         UNCHANGED <<ev, node, peer, arg, ret>>,
         lock' = IF lock = t THEN Proxy ELSE lock,
         next'[Proxy] = next[t],
         \A n \in Nodes : n # Proxy => next'[n] = next[n],
         \A f \in Flags : f[1] # Proxy => flag'[f] = flag[f],
         Notified(t) \/ (lock = t /\ flag'[<<Proxy, "next">>] = "zero")
  PROVE  IInv'
<1>1. /\ node[t] = t /\ Holds(t) /\ pc[t] \notin Waits /\ peer[t] = NULL
      /\ t # Proxy /\ t \in Nodes /\ Proxy \in Nodes
  BY MCSAssumption, Members DEF IInv, Locals, Holds, Waits
<1>2. /\ queue \in Seq(Nodes) /\ Distinct(queue) /\ queue # <<>>
      /\ First(queue, t) /\ ~In(queue, Proxy) /\ Last(queue, lock)
  BY <1>1, HolderAlone, QueueChain DEF IInv, TypeOK, Order, First
<1>3. queue' = <<Proxy>> \o Tail(queue)
  BY <1>2 DEF MoveToProxy, Rest
<1>4. /\ Distinct(queue') /\ queue' # <<>>
      /\ Last(queue', lock')
      /\ \A n : In(queue', n) <=> (In(queue, n) /\ n # t) \/ n = Proxy
      /\ \A n, m : Succ(queue', n, m) <=>
                     (Succ(queue, n, m) /\ n # t) \/ (Succ(queue, t, m) /\ n = Proxy)
      /\ \A n : First(queue', n) <=> n = Proxy
  <2>1. \A n : Last(queue', n) <=> (Last(queue, n) /\ n # t) \/ (Last(queue, t) /\ n = Proxy)
    BY <1>1, <1>2, <1>3, Replace
  <2>2. Last(queue', lock')
    BY <1>2, <2>1
  <2> QED
    BY <1>1, <1>2, <1>3, <2>2, Replace, SMTT(60)
<1>5. /\ \A u \in Threads : u # t => ~Holds(u) /\ pc'[u] = pc[u]
      /\ \A u \in Threads : pc'[u] # "signal"
      /\ \A u \in Threads : pc'[u] \in Waits => arg[u] = <<u, "ready">> /\ u # t
      /\ \A u \in Threads : pc'[u] = "block" => ev[arg[u]] = "unset"
      /\ pc'[t] = "idle"
  BY <1>1, HolderAlone DEF IInv, TypeOK, Waits
<1>6. /\ \A u \in Threads : ~Holds(u)'
      /\ \A u \in Threads : Waiting(u)' <=> Waiting(u)
      /\ ~Waiting(t)
  BY <1>1, <1>5 DEF Holds, Waiting, Waits
<1>7. MutualExclusion' /\ Heads'
  BY <1>4, <1>6 DEF MutualExclusion, Heads
<1>8. Order'
  <2>1. \A u \in Threads : In(queue', u) <=> Waiting(u)
    <3>1. \A u \in Threads : u # t => (In(queue, u) <=> Waiting(u)) /\ u # Proxy
      BY <1>5, MCSAssumption DEF IInv, Order
    <3>2. ~In(queue', t)
      BY <1>1, <1>4
    <3> QED
      BY <1>4, <1>6, <3>1, <3>2
  <2> QED
    BY <1>4, <1>6, <2>1 DEF Order
<1>9. Locals'
  BY <1>1, <1>5, <1>6 DEF IInv, TypeOK, Locals, Waits
<1>10. /\ \A n : n # Proxy /\ n # t => (Notified(n)' <=> Notified(n))
       /\ Notified(Proxy)' <=> Notified(t)
  <2>1. \A n : ~Succ(queue, n, t) /\ ~Succ(queue, Proxy, n)
    BY <1>2, QueueChain
  <2> QED
    BY <1>1, <1>4, <1>5, <2>1 DEF Notified
<1>11. Links'
  <2>1. \A n \in Nodes, s \in Threads :
          Succ(queue', n, s) => next'[n] = IF pc'[s] = "link" THEN NULL ELSE s
    <3> SUFFICES ASSUME NEW n \in Nodes, NEW s \in Threads, Succ(queue', n, s)
                 PROVE  next'[n] = IF pc'[s] = "link" THEN NULL ELSE s
      OBVIOUS
    <3>1. CASE Succ(queue, n, s) /\ n # t
      <4>1. n # Proxy /\ s # t
        BY <1>2, <3>1, QueueChain
      <4> QED
        BY <1>5, <3>1, <4>1 DEF IInv, Links
    <3>2. CASE Succ(queue, t, s) /\ n = Proxy
      <4>1. s # t
        BY <3>2, QueueChain
      <4> QED
        BY <1>1, <1>5, <3>2, <4>1 DEF IInv, Links
    <3> QED
      BY <1>4, <3>1, <3>2
  <2>2. next'[lock'] = NULL
    <3>1. next[lock] = NULL /\ lock \in Nodes /\ lock # Proxy
      BY <1>2, QueueChain DEF IInv, Links
    <3> QED
      BY <3>1
  <2>3. ASSUME NEW u \in Threads, peer[u] # NULL
        PROVE  pc'[u] \in {"link", "notify"} /\ Succ(queue', peer[u], u)
    <3>1. u # t /\ pc[u] \in {"link", "notify"} /\ Succ(queue, peer[u], u)
      BY <1>1, <1>5, <2>3 DEF IInv, Links
    <3>2. peer[u] # t
      <4>1. ASSUME peer[u] = t PROVE FALSE
        <5>1. ~Last(queue, t)
          BY <3>1, <4>1, QueueChain
        <5>2. Notified(t)
          BY <1>2, <5>1
        <5> QED
          BY <3>1, <4>1, <5>2, QueueChain DEF Notified
      <4> QED
        BY <4>1
    <3> QED
      BY <1>4, <1>5, <3>1, <3>2
  <2> QED
    BY <2>1, <2>2, <2>3 DEF Links
<1>12. Releases'
  <2>1. \A u \in Threads : ~Succeeded(u)' /\ pc'[u] \notin {"reload", "pass", "copy"}
    BY <1>6 DEF Succeeded, Holds
  <2> QED
    BY <2>1 DEF Releases
<1>13. \A f \in Flags : Blocked(f)' <=> Blocked(f)
  BY <1>1, <1>5 DEF Blocked, Waits
<1>14. Flagged'
  <2> SUFFICES ASSUME NEW f \in Flags, In(queue', f[1]), ~Told(f)'
               PROVE  flag'[f] = "zero" \/ (flag'[f] = "event" /\ Blocked(f)')
    BY DEF Flagged
  <2>1. CASE f[1] = Proxy
    <3>1. f = <<Proxy, "next">> /\ ~Notified(t)
      BY <1>4, <1>10, <2>1 DEF Told, Flags
    <3> QED
      BY <3>1
  <2>2. CASE f[1] # Proxy
    <3>1. flag'[f] = flag[f] /\ In(queue, f[1]) /\ f[1] # t
      BY <1>4, <2>2
    <3>2. ~Told(f)
      BY <1>2, <1>10, <2>2, <3>1, QueueChain DEF Told
    <3> QED
      BY <1>13, <3>1, <3>2 DEF IInv, Flagged
  <2> QED
    BY <2>1, <2>2
<1>15. Events'
  <2>1. ASSUME NEW u \in Threads PROVE Attends(u)'
    <3>1. Attends(u) /\ arg[u] \in Flags
      BY DEF IInv, TypeOK, Events
    <3>2. pc'[u] \in Waits => pc'[u] = pc[u] /\ flag'[arg[u]] = flag[arg[u]]
      BY <1>5, <3>1, MCSAssumption
    <3> QED
      BY <1>5, <3>1, <3>2 DEF Attends, Waits
  <2> QED
    BY <1>5, <2>1 DEF Events
<1> QED
  BY <1>7, <1>8, <1>9, <1>11, <1>12, <1>14, <1>15 DEF IInv

LEMMA TransferStep ==
  ASSUME IInv, NEW t \in Threads, Transfer(t)
  PROVE  IInv'
<1>1. TypeOK'
  BY TypeStep DEF IInv, Next, Call
<1>2. /\ UNCHANGED <<ev, node, peer, arg, ret>>
      /\ pc[t] = "held" /\ node[t] = t /\ peer[t] = NULL /\ pc[t] \notin Waits
      /\ next' = [next EXCEPT ![Proxy] = NULL]
      /\ flag' = [flag EXCEPT ![<<Proxy, "ready">>] = "zero", ![<<Proxy, "next">>] = "zero"]
      /\ t # Proxy /\ t \in Nodes /\ Proxy \in Nodes
      /\ <<Proxy, "ready">> \in Flags /\ <<Proxy, "next">> \in Flags
  BY MCSAssumption, Members DEF Transfer, Clear, At, IInv, Locals, Waits
<1>3. /\ \A n \in Nodes : n # Proxy => next'[n] = next[n]
      /\ \A f \in Flags : f[1] # Proxy => flag'[f] = flag[f]
      /\ next'[Proxy] = NULL /\ flag'[<<Proxy, "next">>] = "zero"
  BY <1>2 DEF IInv, TypeOK
<1>4. ~In(queue, Proxy) /\ In(queue, t) /\ queue # <<>>
  BY <1>2, QueueChain DEF IInv, Order, Heads, Holds
<1>5. CASE lock = t
  <2>1. /\ lock' = Proxy /\ proxyHeld' /\ pc' = [pc EXCEPT ![t] = "idle"] /\ MoveToProxy
    BY <1>5 DEF Transfer, Goto
  <2>2. next[t] = NULL
    BY <1>4, <1>5 DEF IInv, Links
  <2> QED
    BY <1>1, <1>2, <1>3, <1>5, <2>1, <2>2, MovesToProxy
<1>6. CASE lock # t
  <2>1. UNCHANGED <<lock, proxyHeld, queue>> /\ pc' = [pc EXCEPT ![t] = "spin"]
    BY <1>6 DEF Transfer, Goto
  <2>2. Others(t)
    BY <1>2, <2>1 DEF IInv, TypeOK, Others
  <2>3. Locals'
    BY <1>2, <2>1 DEF IInv, TypeOK, Locals, Holds, Waits
  <2>4. /\ \A n \in Nodes : In(queue, n) => next'[n] = next[n]
        /\ \A f \in Flags : In(queue, f[1]) => flag'[f] = flag[f]
    BY <1>3, <1>4
  <2> QED
    BY <1>1, <1>2, <1>6, <2>1, <2>2, <2>3, <2>4, Walks
<1> QED
  BY <1>5, <1>6

LEMMA CopyStep ==
  ASSUME IInv, NEW t \in Threads, Copy(t)
  PROVE  IInv'
<1>1. TypeOK'
  BY TypeStep DEF IInv, Next, Step
<1>2. /\ UNCHANGED <<lock, ev, node, peer, arg, ret>>
      /\ pc[t] = "copy" /\ pc' = [pc EXCEPT ![t] = "idle"] /\ proxyHeld' /\ MoveToProxy
      /\ next' = [next EXCEPT ![Proxy] = next[t]]
      /\ flag' = [flag EXCEPT ![<<Proxy, "next">>] = flag[<<t, "next">>]]
      /\ t \in Nodes /\ Proxy \in Nodes /\ <<Proxy, "next">> \in Flags
  BY Members DEF Copy, At, Goto
<1>3. Notified(t) /\ lock # t
  BY <1>2 DEF IInv, Releases, Succeeded, Locals
<1>4. /\ next'[Proxy] = next[t]
      /\ \A n \in Nodes : n # Proxy => next'[n] = next[n]
      /\ \A f \in Flags : f[1] # Proxy => flag'[f] = flag[f]
  BY <1>2 DEF IInv, TypeOK
<1> QED
  BY <1>1, <1>2, <1>3, <1>4, MovesToProxy

\* Every step keeps the inductive invariant as long as events do not run out.
LEMMA InvStep == IInv /\ ~EventExhaustion /\ [Next]_vars => IInv'
<1> SUFFICES ASSUME IInv, ~EventExhaustion, [Next]_vars PROVE IInv'
  OBVIOUS
<1>1. CASE UNCHANGED vars
  BY <1>1 DEF vars, IInv, TypeOK, MutualExclusion, Order, Heads, Locals, Links, Releases,
              Flagged, Events, Attends, Told, Notified, Blocked, Waiting, Holds, Succeeded
<1>2. CASE Next
  BY <1>2, SignalStep, CreateEventStep, StoreEventStep, WakeStep, LinkStep, NotifyStep,
     AwaitReadyStep, FreeStep, AwaitNextStep, ReloadStep, PassStep, SpinStep, AwaitLinkStep,
     CopyStep, JoinSteps, ReleaseOwnStep, ReleaseProxyStep, TransferStep
     DEF Next, Step, Call
<1> QED
  BY <1>1, <1>2

-----------------------------------------------------------------------------
(* The theorems. *)

LEMMA InvInit == Init => IInv
<1> SUFFICES ASSUME Init PROVE IInv
  OBVIOUS
<1>1. TypeOK
  BY InitType
<1>2. /\ queue = <<>> /\ lock = NULL /\ proxyHeld = FALSE
      /\ \A t \in Threads : pc[t] = "idle" /\ node[t] = t /\ peer[t] = NULL
  BY DEF Init
<1>3. Len(queue) = 0 /\ ~(1 <= 0) /\ \A i \in 1..0 : FALSE
  BY <1>2
<1>4. /\ \A n : ~In(queue, n) /\ ~First(queue, n)
      /\ \A n, m : ~Succ(queue, n, m)
      /\ Distinct(queue)
  BY <1>2, <1>3 DEF In, First, Succ, Distinct
<1>5. \A t \in Threads : ~Holds(t) /\ ~Waiting(t) /\ ~Succeeded(t)
  BY <1>2 DEF Holds, Waiting, Succeeded, Waits
<1> QED
  BY <1>1, <1>2, <1>4, <1>5
     DEF IInv, MutualExclusion, Order, Heads, Locals, Links, Releases, Flagged, Events,
         Attends, Waits

\* The inductive invariant holds as long as events do not run out.
LEMMA Inductive ==
  ASSUME ~EventExhaustion
  PROVE  Spec => []IInv
<1>1. IInv /\ [Next]_vars => IInv'
  BY InvStep
<1> QED
  BY <1>1, InvInit, PTL DEF Spec

\* Where CreateEvent does not fail, one thread at most is between the return of
\* ptw32_mcs_lock_acquire or try_acquire and the step that gives the lock up,
\* and none while the lock is held through a node of global scope.
THEOREM Exclusion ==
  ASSUME ~EventExhaustion
  PROVE  Spec => []MutualExclusion
<1>1. IInv => MutualExclusion
  BY DEF IInv
<1> QED
  BY <1>1, Inductive, PTL

LEMMA LeakStep == TypeOK /\ NoHandleLeak /\ [Next]_vars => NoHandleLeak'
<1> SUFFICES ASSUME TypeOK, NoHandleLeak, [Next]_vars PROVE NoHandleLeak'
  OBVIOUS
<1> DEFINE Keeps(u) == pc'[u] = pc[u] /\ arg'[u] = arg[u]
<1>1. ASSUME ev' = ev,
             \A u \in Threads : pc[u] \in {"store", "block"} =>
                pc'[u] \in {"store", "block"} /\ arg'[u] = arg[u]
      PROVE  NoHandleLeak'
  BY <1>1 DEF NoHandleLeak
<1>2. ASSUME NEW t \in Threads, ev' = ev, \A u \in Threads : u # t => Keeps(u),
             pc[t] \notin {"store", "block"}
      PROVE  NoHandleLeak'
  BY <1>1, <1>2
<1>3. ASSUME NEW t \in Threads, Signal(t) PROVE NoHandleLeak'
  <2>1. /\ pc[t] = "signal" /\ \A u \in Threads : u # t => Keeps(u)
        /\ \A g \in Flags : ev'[g] # "none" => ev[g] # "none"
    BY <1>3 DEF Signal, Resume, Goto, Local, At, TypeOK
  <2> QED
    BY <2>1 DEF NoHandleLeak
<1>4. ASSUME NEW t \in Threads, CreateEvent(t) PROVE NoHandleLeak'
  <2>1. /\ pc[t] = "create" /\ \A u \in Threads : u # t => Keeps(u)
    BY <1>4 DEF CreateEvent, Resume, Goto, Local, At, TypeOK
  <2>2. CASE ev' = ev
    BY <1>2, <2>1, <2>2
  <2>3. CASE ev' = [ev EXCEPT ![arg[t]] = "unset"] /\ pc' = [pc EXCEPT ![t] = "store"] /\ arg' = arg
    BY <2>1, <2>3 DEF NoHandleLeak, TypeOK
  <2> QED
    BY <1>4, <2>2, <2>3 DEF CreateEvent, Goto
<1>5. ASSUME NEW t \in Threads, StoreEvent(t) \/ Wake(t) PROVE NoHandleLeak'
  <2>1. \A u \in Threads : u # t => Keeps(u)
    BY <1>5 DEF StoreEvent, Wake, Resume, Goto, Local, TypeOK
  <2>2. CASE ev' = ev /\ pc' = [pc EXCEPT ![t] = "block"] /\ arg' = arg
    BY <1>1, <2>1, <2>2 DEF TypeOK
  <2>3. CASE ev' = [ev EXCEPT ![arg[t]] = "none"]
    <3>1. \A g \in Flags : ev'[g] # "none" => ev[g] # "none" /\ g # arg[t]
      BY <2>3 DEF TypeOK
    <3> QED
      BY <2>1, <3>1 DEF NoHandleLeak
  <2> QED
    BY <1>5, <2>2, <2>3 DEF StoreEvent, Wake, Goto
<1>6. ASSUME NEW t \in Threads, 
             Link(t) \/ Notify(t) \/ AwaitReady(t) \/ Free(t) \/ AwaitNext(t) \/ Reload(t)
               \/ Pass(t) \/ Spin(t) \/ AwaitLink(t) \/ Copy(t)
      PROVE  NoHandleLeak'
  <2>1. /\ ev' = ev /\ pc[t] \notin {"store", "block"}
        /\ \A u \in Threads : u # t => Keeps(u)
    BY <1>6 DEF Link, Notify, AwaitReady, Free, AwaitNext, Reload, Pass, Spin, AwaitLink, Copy,
                FlagSet, FlagWait, Goto, Local, At, TypeOK
  <2> QED
    BY <1>2, <2>1
<1>7. ASSUME NEW t \in Threads, Call(t) PROVE NoHandleLeak'
  <2>1. /\ ev' = ev /\ pc[t] \notin {"store", "block"}
        /\ \A u \in Threads : u # t => Keeps(u)
    BY <1>7 DEF Call, Swap, Try, ReleaseOwn, ReleaseProxy, Release, Transfer, Goto, At, TypeOK
  <2> QED
    BY <1>2, <2>1
<1>8. CASE UNCHANGED vars
  BY <1>8 DEF NoHandleLeak, vars
<1> QED
  BY <1>3, <1>4, <1>5, <1>6, <1>7, <1>8 DEF Next, Step

\* No path through ptw32_mcs_flag_wait leaks the handle of an event, whether or
\* not CreateEvent fails for others.
THEOREM NoLeak == Spec => []NoHandleLeak
<1>1. Init => NoHandleLeak
  BY DEF Init, NoHandleLeak
<1>2. Init => TypeOK
  BY InitType
<1> QED
  BY <1>1, <1>2, TypeStep, LeakStep, PTL DEF Spec

\* Where CreateEvent does not fail, no thread writes to the node of one that has
\* returned, nor signals an event that has been closed.
THEOREM NodesStayLive ==
  ASSUME ~EventExhaustion
  PROVE  Spec => []NodesLive
<1>1. IInv => NeighbourAccess /\ SignalsOpen
  <2> SUFFICES ASSUME IInv, NEW t \in Threads
               PROVE  /\ pc[t] \in {"link", "notify"} =>
                           \E i \in 1..(Len(queue) - 1) : queue[i] = peer[t] /\ queue[i + 1] = t
                      /\ pc[t] = "pass" =>
                           Len(queue) > 1 /\ queue[1] = node[t] /\ queue[2] = peer[t]
                      /\ pc[t] = "signal" => ev[arg[t]] = "unset"
    BY DEF NeighbourAccess, SignalsOpen, At
  <2>1. ASSUME pc[t] \in {"link", "notify"}
        PROVE  \E i \in 1..(Len(queue) - 1) : queue[i] = peer[t] /\ queue[i + 1] = t
    <3>1. peer[t] # NULL /\ ~Holds(t)
      BY <2>1, MCSAssumption DEF IInv, TypeOK, Nodes, Holds, Waits
    <3>2. Succ(queue, peer[t], t)
      BY <3>1 DEF IInv, Links
    <3> QED
      BY <3>2 DEF Succ
  <2>2. ASSUME pc[t] = "pass"
        PROVE  Len(queue) > 1 /\ queue[1] = node[t] /\ queue[2] = peer[t]
    <3>1. First(queue, node[t]) /\ Succ(queue, node[t], peer[t]) /\ queue \in Seq(Nodes)
          /\ Distinct(queue)
      BY <2>2 DEF IInv, TypeOK, Order, Heads, Holds, Locals, Links
    <3>2. PICK i \in 1..(Len(queue) - 1) : queue[i] = node[t] /\ queue[i + 1] = peer[t]
      BY <3>1 DEF Succ
    <3>3. Len(queue) \in Nat /\ queue[1] = node[t]
      BY <3>1 DEF First
    <3>4. i = 1
      BY <3>1, <3>2, <3>3 DEF Distinct
    <3> QED
      BY <3>2, <3>3, <3>4
  <2>3. ASSUME pc[t] = "signal" PROVE ev[arg[t]] = "unset"
    BY <2>3 DEF IInv, Events, Attends
  <2> QED
    BY <2>1, <2>2, <2>3
<1> QED
  BY <1>1, Inductive, NoLeak, PTL DEF NodesLive

-----------------------------------------------------------------------------
(* The refinement. *)

Granted == proxyHeld \/ \E t \in Threads : Holds(t)

\* A step that leaves the queue alone and takes the lock from nobody grants it or
\* is none of the abstract lock's.
LEMMA Grants ==
  ASSUME IInv', UNCHANGED queue, Granted => Granted'
  PROVE  [Fifo!Next]_(Fifo!vars)
<1>1. CASE Granted' <=> Granted
  BY <1>1 DEF Granted, Fifo!vars
<1>2. CASE ~Granted /\ Granted'
  <2>1. \E n : First(queue', n)
    BY <1>2 DEF Granted, IInv, Heads
  <2>2. queue # <<>>
    BY <2>1 DEF First
  <2>3. Fifo!Grant
    BY <1>2, <2>2 DEF Granted, Fifo!Grant
  <2> QED
    BY <2>3 DEF Fifo!Next
<1> QED
  BY <1>1, <1>2

\* Nobody but the thread of a step comes to hold the lock or gives it up.
LEMMA HolderKeeps ==
  ASSUME IInv', NEW t \in Threads, UNCHANGED <<queue, proxyHeld>>,
         \A u \in Threads : u # t => pc'[u] = pc[u] /\ arg'[u] = arg[u],
         Holds(t) => Holds(t)'
  PROVE  [Fifo!Next]_(Fifo!vars)
<1>1. \A u \in Threads : Holds(u) => Holds(u)'
  BY DEF Holds, Waits
<1> QED
  BY <1>1, Grants DEF Granted

\* The steps in the flag routines.
LEMMA FlagSteps ==
  ASSUME IInv, IInv', ~EventExhaustion, NEW t \in Threads,
         Signal(t) \/ CreateEvent(t) \/ StoreEvent(t) \/ Wake(t)
  PROVE  [Fifo!Next]_(Fifo!vars)
<1>1. CASE Signal(t)
  <2>1. /\ UNCHANGED <<queue, proxyHeld>> /\ ~Holds(t)
        /\ \A u \in Threads : u # t => pc'[u] = pc[u] /\ arg'[u] = arg[u]
    BY <1>1 DEF Signal, At, Resume, Goto, Local, Holds, Waits, IInv, TypeOK
  <2> QED
    BY <2>1, HolderKeeps
<1>2. CASE CreateEvent(t)
  <2>1. /\ UNCHANGED <<queue, proxyHeld, arg>>
        /\ pc[t] = "create" /\ pc' = [pc EXCEPT ![t] = "store"]
    BY <1>2 DEF CreateEvent, At, Goto
  <2> QED
    BY <2>1, HolderKeeps DEF Holds, Waits, IInv, TypeOK
<1>3. CASE StoreEvent(t) \/ Wake(t)
  <2>1. UNCHANGED <<queue, proxyHeld>> /\ pc[t] \in Waits
    BY <1>3 DEF StoreEvent, Wake, At, Waits
  <2>2. CASE pc' = [pc EXCEPT ![t] = "block"] /\ arg' = arg
    BY <2>1, <2>2, HolderKeeps, SMTT(60) DEF Holds, Waits, IInv, TypeOK
  <2>3. CASE Resume(t)
    <3>1. /\ pc' = [pc EXCEPT ![t] = ret[t]]
          /\ arg' = [arg EXCEPT ![t] = <<t, "ready">>]
      BY <2>3 DEF Resume, Goto, Local
    <3>2. Holds(t) => ret[t] \in {"reload", "pass", "copy"}
      BY <2>1 DEF Holds, Waits, IInv, Locals
    <3> QED
      BY <2>1, <3>1, <3>2, HolderKeeps DEF Holds, IInv, TypeOK
  <2> QED
    BY <1>3, <2>2, <2>3 DEF StoreEvent, Wake, Goto
<1> QED
  BY <1>1, <1>2, <1>3

\* The other steps that leave the queue alone.
LEMMA QuietSteps ==
  ASSUME IInv, IInv', NEW t \in Threads,
         \/ Link(t) \/ Notify(t) \/ AwaitReady(t) \/ AwaitNext(t) \/ Reload(t)
         \/ Spin(t) \/ AwaitLink(t) \/ ReleaseOwn(t)
  PROVE  [Fifo!Next]_(Fifo!vars)
<1>1. /\ UNCHANGED <<queue, proxyHeld>>
      /\ \A u \in Threads : u # t => pc'[u] = pc[u] /\ arg'[u] = arg[u]
  BY DEF Link, Notify, AwaitReady, AwaitNext, Reload, Spin, AwaitLink, ReleaseOwn, Release,
         FlagSet, FlagWait, Goto, Local, IInv, TypeOK
<1>2. CASE Link(t) \/ Notify(t) \/ AwaitReady(t)
  BY <1>1, <1>2, HolderKeeps DEF Link, Notify, AwaitReady, At, Holds, Waits
<1>3. CASE AwaitNext(t) \/ AwaitLink(t)
  <2>1. PICK n \in Nodes, l \in {"reload", "pass", "copy"} : FlagWait(t, <<n, "next">>, l)
    BY <1>3, Members DEF AwaitNext, AwaitLink, IInv, TypeOK
  <2>2. \/ pc' = [pc EXCEPT ![t] = l]
        \/ pc' = [pc EXCEPT ![t] = "create"] /\ arg' = [arg EXCEPT ![t] = <<n, "next">>]
    BY <2>1 DEF FlagWait, Goto, Local
  <2>3. Holds(t)'
    BY <2>2 DEF Holds, Waits, IInv, TypeOK
  <2> QED
    BY <1>1, <2>3, HolderKeeps
<1>4. CASE Reload(t) \/ Spin(t) \/ ReleaseOwn(t)
  <2>1. Holds(t)'
    BY <1>4 DEF Reload, Spin, ReleaseOwn, Release, Goto, Holds, IInv, TypeOK
  <2> QED
    BY <1>1, <2>1, HolderKeeps
<1> QED
  BY <1>2, <1>3, <1>4

\* The lock is freed or passed: the head of the queue departs.
LEMMA Departs ==
  ASSUME IInv, IInv', NEW t \in Threads, Free(t) \/ Pass(t)
  PROVE  [Fifo!Next]_(Fifo!vars)
<1>1. pc[t] \in {"free", "pass"} /\ Holds(t) /\ pc[t] \notin Waits /\ UNCHANGED proxyHeld
  BY DEF Free, Pass, At, Holds, Waits
<1>2. First(queue, node[t]) /\ ~proxyHeld /\ \A u \in Threads : u # t => ~Holds(u)
  BY <1>1, HolderAlone
<1>3. CASE Free(t) /\ lock # node[t]
  <2>1. UNCHANGED <<queue, proxyHeld, arg>> /\ pc' = [pc EXCEPT ![t] = "awaitNext"]
    BY <1>3 DEF Free, Goto
  <2> QED
    BY <2>1, HolderKeeps DEF Holds, IInv, TypeOK
<1>4. CASE Pop /\ pc'[t] \in {"idle", "signal"} /\ \A u \in Threads : u # t => pc'[u] = pc[u] /\ arg'[u] = arg[u]
  <2>1. \A u \in Threads : ~Holds(u)'
    BY <1>2, <1>4 DEF Holds, Waits
  <2>2. queue' = Tail(queue)
    BY <1>2, <1>4 DEF First, Pop, Rest
  <2>3. Fifo!Depart
    BY <1>1, <1>2, <2>1, <2>2 DEF Fifo!Depart
  <2> QED
    BY <2>3 DEF Fifo!Next
<1>5. CASE Free(t) /\ lock = node[t]
  BY <1>4, <1>5 DEF Free, Goto, IInv, TypeOK
<1>6. CASE Pass(t)
  <2>1. peer[t] # NULL
    BY <1>6 DEF Pass, At, IInv, Locals
  <2> QED
    BY <1>4, <1>6, <2>1 DEF Pass, FlagSet, Goto, Local, IInv, TypeOK
<1> QED
  BY <1>3, <1>5, <1>6

\* A transfer or the release of a transferred lock.
LEMMA TransferSteps ==
  ASSUME IInv, IInv', NEW t \in Threads, Transfer(t) \/ Copy(t) \/ ReleaseProxy(t)
  PROVE  [Fifo!Next]_(Fifo!vars)
<1>1. CASE ReleaseProxy(t)
  <2>1. UNCHANGED queue /\ Holds(t)'
    BY <1>1 DEF ReleaseProxy, Release, Goto, Holds, IInv, TypeOK
  <2> QED
    BY <2>1, Grants DEF Granted
<1>2. CASE Transfer(t) /\ lock # t
  <2>1. /\ UNCHANGED <<queue, proxyHeld, arg>>
        /\ pc' = [pc EXCEPT ![t] = "spin"]
    BY <1>2 DEF Transfer, Goto
  <2> QED
    BY <2>1, HolderKeeps DEF Holds, IInv, TypeOK
<1>3. CASE (Transfer(t) /\ lock = t) \/ Copy(t)
  <2>1. /\ pc[t] \in {"held", "copy"} /\ Holds(t) /\ node[t] = t /\ t # Proxy
        /\ proxyHeld' /\ MoveToProxy
    BY <1>3, MCSAssumption DEF Transfer, Copy, At, Holds, IInv, Locals
  <2>2. First(queue, t)
    BY <2>1 DEF IInv, Heads
  <2>3. queue' = <<Proxy>> \o Tail(queue) /\ Head(queue) # Proxy
    BY <2>1, <2>2 DEF First, MoveToProxy, Rest, IInv, TypeOK
  <2>4. Fifo!Move
    BY <2>1, <2>3 DEF Fifo!Move
  <2> QED
    BY <2>4 DEF Fifo!Next
<1> QED
  BY <1>1, <1>2, <1>3

\* A thread that queues up has the lock at once if nobody is before it.
LEMMA Arrives ==
  ASSUME IInv, IInv', NEW t \in Threads, Swap(t) \/ Try(t)
  PROVE  [Fifo!Next]_(Fifo!vars)
<1>1. /\ UNCHANGED <<proxyHeld, arg>> /\ queue' = Append(queue, t) /\ pc[t] = "idle"
      /\ pc' = [pc EXCEPT ![t] = IF lock = NULL THEN "held" ELSE "link"]
  BY DEF Swap, Try, At, Goto
<1>2. lock = NULL <=> queue = <<>>
  <2>1. queue # <<>> => lock \in Nodes
    <3>1. queue # <<>> => Last(queue, lock)
      BY DEF IInv, Order
    <3> QED
      BY <3>1, QueueChain
  <2> QED
    BY <2>1, MCSAssumption DEF Nodes, IInv, Order
<1>3. \A u \in Threads : Holds(u)' <=> Holds(u) \/ (u = t /\ queue = <<>>)
  BY <1>1, <1>2 DEF Holds, Waits, IInv, TypeOK
<1>4. Granted' <=> Granted \/ queue = <<>>
  BY <1>1, <1>3 DEF Granted
<1>5. Fifo!Arrive(t)
  BY <1>1, <1>4 DEF Fifo!Arrive, Granted
<1> QED
  BY <1>5 DEF Fifo!Next

LEMMA FifoStep ==
  ASSUME IInv, IInv', ~EventExhaustion, [Next]_vars
  PROVE  [Fifo!Next]_(Fifo!vars)
<1>1. CASE UNCHANGED vars
  BY <1>1 DEF vars, Fifo!vars, Holds
<1>2. CASE Next
  BY <1>2, FlagSteps, QuietSteps, Departs, TransferSteps, Arrives DEF Next, Step, Call
<1> QED
  BY <1>1, <1>2

\* Where CreateEvent does not fail, the lock implements the abstract queue lock:
\* it is granted in the order of arrival, to one at a time, and only its holder
\* moves it to the node of global scope.
THEOREM Refinement ==
  ASSUME ~EventExhaustion
  PROVE  Spec => FifoSpec
<1>1. Init => Fifo!Init
  BY DEF Init, Fifo!Init, Holds, Waits
<1>2. IInv /\ IInv' /\ [Next]_vars => [Fifo!Next]_(Fifo!vars)
  BY FifoStep
<1> QED
  BY <1>1, <1>2, Inductive, PTL DEF Spec, FifoSpec, Fifo!Spec
=============================================================================
