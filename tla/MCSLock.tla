------------------------------- MODULE MCSLock -------------------------------
(***************************************************************************)
(* The MCS queue lock of ptw32_MCS_lock.c: acquire, try_acquire, release   *)
(* and node_transfer, one action per interlocked operation or kernel call. *)
(*                                                                         *)
(* The lock word points at the tail of a queue of nodes.  Each thread owns *)
(* one node (its local variable in the C code), denoted here by the thread *)
(* itself; Proxy is the node of global scope that node_transfer moves the  *)
(* lock to, so that another thread can release it (pthread_barrier_wait).  *)
(* A node has a link to its successor and two flags.  A flag is "zero",    *)
(* "set" (the -1 of the code) or "event" (the handle of an event).         *)
(***************************************************************************)
EXTENDS Sequences, Naturals

CONSTANTS
  Threads,         \* the threads that use the lock
  Keepers,         \* the threads that only release a transferred lock
  Proxy,           \* the node of global scope (pthread_barrier_t_.proxynode)
  NULL,            \* the null node pointer
  EventExhaustion  \* whether CreateEvent may fail for lack of resources

ASSUME MCSAssumption ==
  /\ Keepers \subseteq Threads
  /\ Proxy \notin Threads
  /\ NULL \notin Threads \cup {Proxy}
  /\ EventExhaustion \in BOOLEAN

Nodes == Threads \cup {Proxy}
Flags == Nodes \X {"ready", "next"}

VARIABLES
  lock,       \* the lock word: the tail of the queue, or NULL
  next,       \* next[n]: the successor linked to node n, or NULL
  flag,       \* flag[<<n, f>>]: the flag readyFlag or nextFlag of node n
  ev,         \* ev[g]: the event made for flag g: "none", "unset" or "set"
  pc,         \* pc[t]: where thread t is
  node,       \* node[t]: the node t is releasing
  peer,       \* peer[t]: the local pred (acquire) or next (release) of t
  arg,        \* arg[t]: the flag t is waiting on or signalling
  ret,        \* ret[t]: where t goes when that is done
  proxyHeld,  \* the lock is held through Proxy and nobody is releasing it
  queue       \* history: the nodes in the order in which they joined

vars == <<lock, next, flag, ev, pc, node, peer, arg, ret, proxyHeld, queue>>

Goto(t, l) == pc' = [pc EXCEPT ![t] = l]

At(t, l) == pc[t] = l

\* Set a local variable x of t to v.
Local(x, t, v) == [x EXCEPT ![t] = v]

\* How acquire and node_transfer initialise a node.
Clear(n) ==
  /\ next' = [next EXCEPT ![n] = NULL]
  /\ flag' = [flag EXCEPT ![<<n, "ready">>] = "zero", ![<<n, "next">>] = "zero"]

\* The head of the queue leaves it, or becomes Proxy.
Rest == IF queue = <<>> THEN <<>> ELSE Tail(queue)
Pop  == queue' = Rest
MoveToProxy == queue' = <<Proxy>> \o Rest

Init ==
  /\ lock = NULL
  /\ next = [n \in Nodes |-> NULL]
  /\ flag = [g \in Flags |-> "zero"]
  /\ ev = [g \in Flags |-> "none"]
  /\ pc = [t \in Threads |-> "idle"]
  /\ node = [t \in Threads |-> t]
  /\ peer = [t \in Threads |-> NULL]
  /\ arg = [t \in Threads |-> <<t, "ready">>]
  /\ ret = [t \in Threads |-> "idle"]
  /\ proxyHeld = FALSE
  /\ queue = <<>>

-----------------------------------------------------------------------------
(* The two flag routines. *)

\* ptw32_mcs_flag_set(&n->f): compare-and-exchange 0 by -1, and signal the
\* event if one was stored in the flag, before going on to label l.
FlagSet(t, g, l) ==
  /\ flag' = [flag EXCEPT ![g] = IF @ = "zero" THEN "set" ELSE @]
  /\ IF flag[g] = "event"
       THEN Goto(t, "signal") /\ arg' = Local(arg, t, g) /\ ret' = Local(ret, t, l)
       ELSE Goto(t, l) /\ UNCHANGED <<arg, ret>>

\* Return from a flag routine.
Resume(t) ==
  /\ Goto(t, ret[t])
  /\ arg' = Local(arg, t, <<t, "ready">>)
  /\ ret' = Local(ret, t, "idle")

\* SetEvent(e) of ptw32_mcs_flag_set; it fails if the handle has been closed.
Signal(t) ==
  /\ At(t, "signal")
  /\ ev' = [ev EXCEPT ![arg[t]] = IF @ = "none" THEN "none" ELSE "set"]
  /\ Resume(t)
  /\ UNCHANGED <<lock, next, flag, node, peer, proxyHeld, queue>>

\* The first step of ptw32_mcs_flag_wait(&g): go on if the flag is not 0.
FlagWait(t, g, l) ==
  IF flag[g] # "zero"
    THEN Goto(t, l) /\ UNCHANGED <<arg, ret>>
    ELSE Goto(t, "create") /\ arg' = Local(arg, t, g) /\ ret' = Local(ret, t, l)

\* CreateEvent.  Without an event the routine returns without waiting.
CreateEvent(t) ==
  /\ At(t, "create")
  /\ \/ /\ ev' = [ev EXCEPT ![arg[t]] = "unset"]
        /\ Goto(t, "store")
        /\ UNCHANGED <<arg, ret>>
     \/ /\ EventExhaustion
        /\ Resume(t)
        /\ UNCHANGED ev
  /\ UNCHANGED <<lock, next, flag, node, peer, proxyHeld, queue>>

\* Fault: the handle is stored with a plain write.
StoreEventBlindly(t) ==
  /\ At(t, "store")
  /\ flag' = [flag EXCEPT ![arg[t]] = "event"]
  /\ Goto(t, "block")
  /\ UNCHANGED <<lock, next, ev, node, peer, arg, ret, proxyHeld, queue>>

\* Fault: the event is left open when the flag has been set meanwhile.
StoreEventUnclosed(t) ==
  /\ At(t, "store")
  /\ IF flag[arg[t]] = "zero"
       THEN /\ flag' = [flag EXCEPT ![arg[t]] = "event"]
            /\ Goto(t, "block")
            /\ UNCHANGED <<arg, ret>>
       ELSE Resume(t) /\ UNCHANGED flag
  /\ UNCHANGED <<lock, next, ev, node, peer, proxyHeld, queue>>

\* Store the handle in the flag, unless the flag has been set meanwhile: then
\* close the event and go on.
StoreEvent(t) ==
  /\ At(t, "store")
  /\ IF flag[arg[t]] = "zero"
       THEN /\ flag' = [flag EXCEPT ![arg[t]] = "event"]
            /\ Goto(t, "block")
            /\ UNCHANGED <<ev, arg, ret>>
       ELSE /\ ev' = [ev EXCEPT ![arg[t]] = "none"]
            /\ Resume(t)
            /\ UNCHANGED flag
  /\ UNCHANGED <<lock, next, node, peer, proxyHeld, queue>>

\* WaitForSingleObject returns; the event is closed.
Wake(t) ==
  /\ At(t, "block")
  /\ ev[arg[t]] = "set"
  /\ ev' = [ev EXCEPT ![arg[t]] = "none"]
  /\ Resume(t)
  /\ UNCHANGED <<lock, next, flag, node, peer, proxyHeld, queue>>

-----------------------------------------------------------------------------
(* ptw32_mcs_lock_acquire and ptw32_mcs_lock_try_acquire.  Nobody can reach  *)
(* a node before the lock word points at it, so a node is initialised in the *)
(* step that exchanges the lock word.                                        *)

\* Fault: the previous value of the lock word is not tested.
SwapUntested(t) ==
  /\ At(t, "idle") /\ t \notin Keepers
  /\ Clear(t)
  /\ lock' = t
  /\ Goto(t, "link") /\ peer' = Local(peer, t, lock)
  /\ queue' = Append(queue, t)
  /\ UNCHANGED <<ev, node, arg, ret, proxyHeld>>

Swap(t) ==
  /\ At(t, "idle") /\ t \notin Keepers
  /\ Clear(t)
  /\ lock' = t
  /\ IF lock = NULL
       THEN Goto(t, "held") /\ UNCHANGED peer
       ELSE Goto(t, "link") /\ peer' = Local(peer, t, lock)
  /\ queue' = Append(queue, t)
  /\ UNCHANGED <<ev, node, arg, ret, proxyHeld>>

\* Fault: try_acquire exchanges instead of comparing and exchanging.
TryBlindly(t) ==
  /\ At(t, "idle") /\ t \notin Keepers
  /\ Clear(t)
  /\ lock' = t
  /\ Goto(t, "held")
  /\ queue' = Append(queue, t)
  /\ UNCHANGED <<ev, node, peer, arg, ret, proxyHeld>>

\* When the lock is not free, try_acquire returns EBUSY and changes nothing.
Try(t) ==
  /\ At(t, "idle") /\ t \notin Keepers
  /\ lock = NULL
  /\ Clear(t)
  /\ lock' = t
  /\ Goto(t, "held")
  /\ queue' = Append(queue, t)
  /\ UNCHANGED <<ev, node, peer, arg, ret, proxyHeld>>

Link(t) ==
  /\ At(t, "link")
  /\ next' = [next EXCEPT ![peer[t]] = t]
  /\ Goto(t, "notify")
  /\ UNCHANGED <<lock, flag, ev, node, peer, arg, ret, proxyHeld, queue>>

\* ptw32_mcs_flag_set(&pred->nextFlag)
Notify(t) ==
  /\ At(t, "notify")
  /\ FlagSet(t, <<peer[t], "next">>, "await")
  /\ peer' = Local(peer, t, NULL)
  /\ UNCHANGED <<lock, next, ev, node, proxyHeld, queue>>

\* ptw32_mcs_flag_wait(&node->readyFlag)
AwaitReady(t) ==
  /\ At(t, "await")
  /\ FlagWait(t, <<t, "ready">>, "held")
  /\ UNCHANGED <<lock, next, flag, ev, node, peer, proxyHeld, queue>>

-----------------------------------------------------------------------------
(* ptw32_mcs_lock_release, by the owner with its own node or by any other  *)
(* thread with the node the lock was transferred to.                       *)

\* Fault: no wait for nextFlag when the successor is already known.
ReleaseAtOnce(t, n) ==
  /\ node' = Local(node, t, n)
  /\ peer' = Local(peer, t, next[n])
  /\ Goto(t, IF next[n] = NULL THEN "free" ELSE "pass")
  /\ UNCHANGED <<lock, next, flag, ev, arg, ret, queue>>

Release(t, n) ==
  /\ node' = Local(node, t, n)
  /\ peer' = Local(peer, t, next[n])
  /\ Goto(t, IF next[n] = NULL THEN "free" ELSE "awaitNext")
  /\ UNCHANGED <<lock, next, flag, ev, arg, ret, queue>>

ReleaseOwn(t) == At(t, "held") /\ Release(t, t) /\ UNCHANGED proxyHeld

ReleaseProxy(t) ==
  /\ At(t, "idle") /\ proxyHeld
  /\ proxyHeld' = FALSE
  /\ Release(t, Proxy)

\* Fault: the lock word is cleared without a comparison.
FreeBlindly(t) ==
  /\ At(t, "free")
  /\ lock' = NULL
  /\ Goto(t, "idle")
  /\ node' = Local(node, t, t)
  /\ Pop
  /\ UNCHANGED <<next, flag, ev, peer, arg, ret, proxyHeld>>

\* No known successor: free the lock if the node is still the tail.
Free(t) ==
  /\ At(t, "free")
  /\ IF lock = node[t]
       THEN /\ lock' = NULL
            /\ Goto(t, "idle")
            /\ node' = Local(node, t, t)
            /\ Pop
       ELSE /\ Goto(t, "awaitNext")
            /\ UNCHANGED <<lock, node, queue>>
  /\ UNCHANGED <<next, flag, ev, peer, arg, ret, proxyHeld>>

\* ptw32_mcs_flag_wait(&node->nextFlag), also when the successor is known.
AwaitNext(t) ==
  /\ At(t, "awaitNext")
  /\ FlagWait(t, <<node[t], "next">>, IF peer[t] = NULL THEN "reload" ELSE "pass")
  /\ UNCHANGED <<lock, next, flag, ev, node, peer, proxyHeld, queue>>

Reload(t) ==
  /\ At(t, "reload")
  /\ peer' = Local(peer, t, next[node[t]])
  /\ Goto(t, "pass")
  /\ UNCHANGED <<lock, next, flag, ev, node, arg, ret, proxyHeld, queue>>

\* ptw32_mcs_flag_set(&next->readyFlag): pass the lock.  A releaser that did
\* not wait for its successor's link may dereference the null pointer.
Pass(t) ==
  /\ At(t, "pass")
  /\ IF peer[t] = NULL
       THEN Goto(t, "fault") /\ UNCHANGED <<flag, arg, ret, node, peer, queue>>
       ELSE /\ FlagSet(t, <<peer[t], "ready">>, "idle")
            /\ node' = Local(node, t, t)
            /\ peer' = Local(peer, t, NULL)
            /\ Pop
  /\ UNCHANGED <<lock, next, ev, proxyHeld>>

-----------------------------------------------------------------------------
(* ptw32_mcs_node_transfer (new_node = Proxy, old_node = the holder's). *)

Transfer(t) ==
  /\ At(t, "held")
  /\ Clear(Proxy)
  /\ IF lock = t
       THEN /\ lock' = Proxy
            /\ proxyHeld' = TRUE
            /\ Goto(t, "idle")
            /\ MoveToProxy
       ELSE /\ Goto(t, "spin")
            /\ UNCHANGED <<lock, proxyHeld, queue>>
  /\ UNCHANGED <<ev, node, peer, arg, ret>>

\* A successor has queued: wait until it has linked itself.
Spin(t) ==
  /\ At(t, "spin")
  /\ next[t] # NULL
  /\ Goto(t, "awaitLink")
  /\ UNCHANGED <<lock, next, flag, ev, node, peer, arg, ret, proxyHeld, queue>>

AwaitLink(t) ==
  /\ At(t, "awaitLink")
  /\ FlagWait(t, <<t, "next">>, "copy")
  /\ UNCHANGED <<lock, next, flag, ev, node, peer, proxyHeld, queue>>

Copy(t) ==
  /\ At(t, "copy")
  /\ next' = [next EXCEPT ![Proxy] = next[t]]
  /\ flag' = [flag EXCEPT ![<<Proxy, "next">>] = flag[<<t, "next">>]]
  /\ proxyHeld' = TRUE
  /\ MoveToProxy
  /\ Goto(t, "idle")
  /\ UNCHANGED <<lock, ev, node, peer, arg, ret>>

-----------------------------------------------------------------------------
\* The steps inside the routines, and the calls.
Step(t) ==
  \/ Signal(t) \/ CreateEvent(t) \/ StoreEvent(t) \/ Wake(t)
  \/ Link(t) \/ Notify(t) \/ AwaitReady(t)
  \/ Free(t) \/ AwaitNext(t) \/ Reload(t) \/ Pass(t)
  \/ Spin(t) \/ AwaitLink(t) \/ Copy(t)

Call(t) ==
  Swap(t) \/ Try(t) \/ ReleaseOwn(t) \/ ReleaseProxy(t) \/ Transfer(t)

Next == \E t \in Threads : Step(t) \/ Call(t)

Spec == Init /\ [][Next]_vars

\* A thread inside a routine is scheduled; a lock that is held is released in
\* the end, by its holder or, once transferred, by a keeper.
Moves(t) == Step(t) \/ ReleaseOwn(t) \/ (t \in Keepers /\ ReleaseProxy(t))

Fairness == \A t \in Threads : WF_vars(Moves(t))

FairSpec == Spec /\ Fairness

-----------------------------------------------------------------------------
(* Properties. *)

Waits  == {"create", "store", "block"}
Labels == {"idle", "held", "link", "notify", "await", "free",
           "awaitNext", "reload", "pass", "spin", "awaitLink", "copy", "signal", "fault"} \cup Waits

\* Type invariant.
TypeOK ==
  /\ lock \in Nodes \cup {NULL}
  /\ next \in [Nodes -> Nodes \cup {NULL}]
  /\ flag \in [Flags -> {"zero", "set", "event"}]
  /\ ev \in [Flags -> {"none", "unset", "set"}]
  /\ pc \in [Threads -> Labels]
  /\ node \in [Threads -> Nodes]
  /\ peer \in [Threads -> Nodes \cup {NULL}]
  /\ arg \in [Threads -> Flags]
  /\ ret \in [Threads -> {"idle", "await", "held", "reload", "pass", "copy"}]
  /\ proxyHeld \in BOOLEAN
  /\ queue \in Seq(Nodes)
  /\ \A t \in Threads : pc[t] \in {"link", "notify"} => peer[t] \in Nodes

\* t is between the return of an acquire and the step that gives the lock up.
Holds(t) ==
  \/ pc[t] \in {"held", "free", "awaitNext", "reload", "pass",
                "spin", "awaitLink", "copy"}
  \/ pc[t] \in Waits /\ arg[t][2] = "next"

\* The lock is held by at most one thread, or through Proxy by none: nobody is
\* let in while a transferred lock waits to be released.
MutualExclusion ==
  /\ \A t, u \in Threads : Holds(t) /\ Holds(u) => t = u
  /\ proxyHeld => \A t \in Threads : ~Holds(t)

\* Nodes are local variables of their threads.  A thread that is about to write
\* to the node of another one writes to the node just before it in the queue
\* (when it links itself) or just after it (when it passes the lock): never to
\* a node whose owner has returned, or has queued up anew.
NeighbourAccess ==
  \A t \in Threads :
    /\ pc[t] \in {"link", "notify"} =>
         \E i \in 1..(Len(queue) - 1) : queue[i] = peer[t] /\ queue[i + 1] = t
    /\ At(t, "pass") =>
         Len(queue) > 1 /\ queue[1] = node[t] /\ queue[2] = peer[t]

\* SetEvent is called only on an event that is open and whose waiter still has
\* to return from its wait: a late SetEvent never meets a closed handle.
SignalsOpen ==
  \A t \in Threads : At(t, "signal") => ev[arg[t]] = "unset"

\* Every event that is open belongs to a thread that is going to wait on it or
\* to close it: no path through the flag routines leaks a handle, not even
\* where other waits had to go ahead without an event.
NoHandleLeak ==
  \A g \in Flags :
    ev[g] # "none" => \E t \in Threads : pc[t] \in {"store", "block"} /\ arg[t] = g

\* No thread reaches a node that is out of scope or signals an event that is
\* closed, and every event gets closed.
NodesLive == NeighbourAccess /\ SignalsOpen /\ NoHandleLeak

\* The lock is granted in the order of arrival, at most once at a time, and
\* moves to Proxy only from the holder: the abstract queue lock.
Fifo == INSTANCE FifoLock WITH
  granted <- proxyHeld \/ \E t \in Threads : Holds(t)

FifoSpec == Fifo!Spec

\* A thread that has queued up for the lock comes to hold it.
EveryAcquireHolds ==
  \A t \in Threads : At(t, "link") ~> At(t, "held")

\* A releaser never waits for ever for its successor to link itself.
EveryReleaseReturns ==
  \A t \in Threads : pc[t] \in {"free", "awaitNext"} ~> At(t, "idle")
=============================================================================
