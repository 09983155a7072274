-------------------------------- MODULE CondList ------------------------------
(***************************************************************************)
(* The list of all condition variables and their first use:                *)
(* pthread_cond_init and _destroy as far as they keep the list,            *)
(* ptw32_cond_check_need_init, and pthread_timechange_handler_np, which    *)
(* walks the list and broadcasts each variable.                            *)
(*                                                                         *)
(* A condition variable itself is in module CondVar; here it is a gate,    *)
(* closed from a broadcast by a user of the variable until the threads it  *)
(* was for have retracted.                                                 *)
(***************************************************************************)
EXTENDS FiniteSets

CONSTANTS
  Threads,   \* the threads that create, destroy and walk
  Conds,     \* the condition variables
  NoThread,  \* the owner of a free lock
  Null       \* the pointer to no condition variable

VARIABLES
  handle,    \* handle[c], the user's variable: "static", "live" or "null"
  head, tail, next, prev,  \* ptw32_cond_list_head, _tail, and the links
  listLock,  \* the owner of ptw32_cond_list_lock, when it is kept over a step
  initLock,  \* the owner of ptw32_cond_test_init_lock, likewise
  closed,    \* the condition variables whose gate is closed
  pc,        \* pc[p]: where p is in its call
  cv,        \* cv[p]: the condition variable of the call, or of the walk
  linked,    \* history: the structures that exist
  told       \* history: those that the walk in progress has broadcast

links == <<head, tail, next, prev>>
vars  == <<handle, links, listLock, initLock, closed, pc, cv, linked, told>>

Goto(p, l) == pc' = [pc EXCEPT ![p] = l]
At(p, l) == pc[p] = l
Takes(p, c) == cv' = [cv EXCEPT ![p] = c]
Returns(p) == Goto(p, "idle") /\ Takes(p, Null)

Init ==
  /\ handle = [c \in Conds |-> "static"]
  /\ head = Null /\ tail = Null
  /\ next = [c \in Conds |-> Null] /\ prev = [c \in Conds |-> Null]
  /\ listLock = NoThread /\ initLock = NoThread
  /\ closed = {}
  /\ pc = [p \in Threads |-> "idle"]
  /\ cv = [p \in Threads |-> Null]
  /\ linked = {} /\ told = {}

\* No call but a walk is in progress on c.
Unused(c) == \A p \in Threads : At(p, "idle") \/ cv[p] # c \/ At(p, "walk")

-----------------------------------------------------------------------------
(* pthread_cond_init, called by a user or on first use. *)

\* A user initialises a condition variable that is destroyed.
Create(p, c) ==
  /\ At(p, "idle") /\ handle[c] = "null" /\ Unused(c)
  /\ Goto(p, "link") /\ Takes(p, c)
  /\ UNCHANGED <<handle, links, listLock, initLock, closed, linked, told>>

\* A user finds PTHREAD_COND_INITIALIZER.
Use(p, c) ==
  /\ At(p, "idle") /\ handle[c] = "static"
  /\ \A q \in Threads : cv[q] = c => ~At(q, "destroy_static")
  /\ Goto(p, "need_init") /\ Takes(p, c)
  /\ UNCHANGED <<handle, links, listLock, initLock, closed, linked, told>>

\* ptw32_cond_check_need_init: nothing to do when c has been initialised, and
\* EINVAL when it has been destroyed.
NeedInit(p) ==
  /\ At(p, "need_init") /\ initLock = NoThread
  /\ IF handle[cv[p]] = "static"
       THEN initLock' = p /\ Goto(p, "link") /\ UNCHANGED cv
       ELSE Returns(p) /\ UNCHANGED initLock
  /\ UNCHANGED <<handle, links, listLock, closed, linked, told>>

\* The new condition variable becomes the last of the list.
Link(p) ==
  LET c == cv[p] IN
  /\ At(p, "link") /\ listLock = NoThread
  /\ head' = (IF head = Null THEN c ELSE head) /\ tail' = c
  /\ prev' = [prev EXCEPT ![c] = tail]
  /\ next' = IF tail = Null THEN [next EXCEPT ![c] = Null]
                            ELSE [next EXCEPT ![c] = Null, ![tail] = c]
  /\ linked' = linked \union {c}
  /\ Goto(p, "publish")
  /\ UNCHANGED <<handle, listLock, initLock, closed, cv, told>>

\* A failure before that frees it, and NULL is published.
CreateFails(p) ==
  /\ At(p, "link")
  /\ handle' = [handle EXCEPT ![cv[p]] = "null"]
  /\ initLock' = IF initLock = p THEN NoThread ELSE initLock
  /\ Returns(p)
  /\ UNCHANGED <<links, listLock, closed, linked, told>>

\* *cond = cv, after the list's lock has been released.
Publish(p) ==
  /\ At(p, "publish")
  /\ handle' = [handle EXCEPT ![cv[p]] = "live"]
  /\ initLock' = IF initLock = p THEN NoThread ELSE initLock
  /\ Returns(p)
  /\ UNCHANGED <<links, listLock, closed, linked, told>>

-----------------------------------------------------------------------------
(* pthread_cond_destroy, by a user who knows that no other call is coming. *)

Destroy(p, c) ==
  /\ At(p, "idle")
  /\ \/ handle[c] = "live" /\ Unused(c) /\ Goto(p, "destroy")
     \/ handle[c] = "static" /\ Goto(p, "destroy_static")
        /\ \A q \in Threads : cv[q] = c => ~At(q, "destroy_static")
  /\ Takes(p, c)
  /\ UNCHANGED <<handle, links, listLock, initLock, closed, linked, told>>

DestroyBegin(p) ==
  /\ At(p, "destroy") /\ listLock = NoThread
  /\ listLock' = p
  /\ Goto(p, "gate")
  /\ UNCHANGED <<handle, links, initLock, closed, cv, linked, told>>

\* Fault: the link back of the next one is not set.
Unlink(c) ==
  /\ head' = IF head = c THEN next[c] ELSE head
  /\ tail' = IF tail = c THEN prev[c] ELSE tail
  /\ next' = [d \in Conds |-> IF d = c THEN Null
                              ELSE IF d = prev[c] THEN next[c] ELSE next[d]]
  /\ prev' = [prev EXCEPT ![c] = Null]

\* c is taken out of the list, and its links are freed with it.
Remove(c) ==
  /\ head' = IF head = c THEN next[c] ELSE head
  /\ tail' = IF tail = c THEN prev[c] ELSE tail
  /\ next' = [d \in Conds |-> IF d = c THEN Null
                              ELSE IF head # c /\ d = prev[c] THEN next[c] ELSE next[d]]
  /\ prev' = [d \in Conds |-> IF d = c THEN Null
                              ELSE IF tail # c /\ d = next[c] THEN prev[c] ELSE prev[d]]

\* The gate is passed with the list's lock held.  EBUSY when threads are blocked
\* on c, or else c is removed and freed.
DestroyEnd(p) ==
  /\ At(p, "gate") /\ cv[p] \notin closed
  /\ \/ UNCHANGED <<handle, links, linked>>
     \/ /\ handle' = [handle EXCEPT ![cv[p]] = "null"]
        /\ linked' = linked \ {cv[p]}
        /\ Remove(cv[p])
  /\ listLock' = NoThread
  /\ Returns(p)
  /\ UNCHANGED <<initLock, closed, told>>

\* EBUSY when c has been initialised meanwhile.
DestroyStatic(p) ==
  /\ At(p, "destroy_static") /\ initLock = NoThread
  /\ handle' = IF handle[cv[p]] = "static"
                 THEN [handle EXCEPT ![cv[p]] = "null"] ELSE handle
  /\ Returns(p)
  /\ UNCHANGED <<links, listLock, initLock, closed, linked, told>>

-----------------------------------------------------------------------------
(* pthread_timechange_handler_np. *)

WalkBegin(p) ==
  /\ At(p, "idle") /\ listLock = NoThread
  /\ listLock' = p
  /\ Takes(p, head)
  /\ Goto(p, "walk")
  /\ UNCHANGED <<handle, links, initLock, closed, linked, told>>

\* A condition variable is broadcast, which closes its gate if threads wait, and
\* the next one taken.
Walk(p) ==
  /\ At(p, "walk") /\ cv[p] # Null
  /\ told' = told \union {cv[p]}
  /\ closed' \in {closed, closed \union {cv[p]}}
  /\ Takes(p, next[cv[p]])
  /\ UNCHANGED <<handle, links, listLock, initLock, pc, linked>>

WalkEnd(p) ==
  /\ At(p, "walk") /\ cv[p] = Null
  /\ listLock' = NoThread
  /\ Returns(p) /\ told' = {}
  /\ UNCHANGED <<handle, links, initLock, closed, linked>>

-----------------------------------------------------------------------------
(* The users of a condition variable, of whom none is left when it is about *)
(* to be destroyed: its gate is closed, and opened again.                   *)

Close(c) ==
  /\ handle[c] = "live" /\ c \notin closed
  /\ \A p \in Threads : cv[p] = c => pc[p] \notin {"destroy", "gate"}
  /\ closed' = closed \union {c}
  /\ UNCHANGED <<handle, links, listLock, initLock, pc, cv, linked, told>>

Open(c) ==
  /\ c \in closed
  /\ closed' = closed \ {c}
  /\ UNCHANGED <<handle, links, listLock, initLock, pc, cv, linked, told>>

Step(p) ==
  \/ NeedInit(p) \/ Link(p) \/ Publish(p)
  \/ DestroyBegin(p) \/ DestroyEnd(p) \/ DestroyStatic(p)
  \/ Walk(p) \/ WalkEnd(p)

Next ==
  \/ \E p \in Threads :
       \/ \E c \in Conds : Create(p, c) \/ Use(p, c) \/ Destroy(p, c)
       \/ Step(p) \/ CreateFails(p) \/ WalkBegin(p)
  \/ \E c \in Conds : Close(c) \/ Open(c)

Spec == Init /\ [][Next]_vars

\* Threads in a call go on, and a gate that was closed is opened again, which
\* CondVar shows of each condition variable (GateReopens).
Fair(p) == WF_vars(Step(p))
Reopens(c) == WF_vars(Open(c))

TypeOK ==
  /\ handle \in [Conds -> {"static", "live", "null"}]
  /\ {head, tail} \subseteq Conds \union {Null}
  /\ {next, prev} \subseteq [Conds -> Conds \union {Null}]
  /\ {listLock, initLock} \subseteq Threads \union {NoThread}
  /\ closed \subseteq Conds
  /\ pc \in [Threads -> {"idle", "need_init", "link", "publish", "destroy", "gate",
                         "destroy_static", "walk"}]
  /\ cv \in [Threads -> Conds \union {Null}]
  /\ linked \subseteq Conds /\ told \subseteq linked

\* The list holds each condition variable that exists, once, in both directions:
\* initialisation on first use, failures and removals in any order keep it.
ListKept ==
  /\ {c \in Conds : handle[c] = "live"} \subseteq linked
  /\ (head = Null) = (linked = {}) /\ (tail = Null) = (linked = {})
  /\ linked # {} => /\ {head, tail} \subseteq linked
                    /\ prev[head] = Null /\ next[tail] = Null
  /\ \A c \in linked :
       /\ c # tail => next[c] \in linked /\ prev[next[c]] = c
       /\ c # head => prev[c] \in linked /\ next[prev[c]] = c

\* The handler that wakes all threads after a change of the clock only reaches
\* condition variables that exist, and has reached all of them when it ends.
WalkComplete ==
  \A p \in Threads : At(p, "walk") =>
    /\ cv[p] \in linked \union {Null}
    /\ cv[p] = Null => told = linked

\* Whoever needs the lock of the list gets it, although pthread_cond_destroy
\* waits for the gate of one condition variable with it.
ListLockFreed == \A p \in Threads : listLock = p ~> listLock # p
=============================================================================
