-------------------------- MODULE CancellationProofs --------------------------
(***************************************************************************)
(* For every number of threads, of structures and of their reuses, and     *)
(* whatever functions the threads call: the structures of threads and the  *)
(* list of free ones, pthread_join and pthread_detach, and cancellation    *)
(* keep their promises, StructuresSound, JoinSound and CancelSound.        *)
(*                                                                         *)
(* None of the three is inductive.  IInv says, of every structure, whether *)
(* it is on the list, in the making or the one of a thread, and, of every  *)
(* thread, what its structure holds at each place, and what it may rely on *)
(* of the thread that it names while it works on its handle.               *)
(*                                                                         *)
(* The four things that the library does not survive are excluded: a       *)
(* pthread_detach of a thread that is exiting, a pthread_cancel or         *)
(* pthread_kill before ptw32_threadStart, an asynchronous cancellation     *)
(* within a call or at the end of the thread, and a failure of the calls   *)
(* for the affinity in pthread_self.                                       *)
(***************************************************************************)
EXTENDS MCCancellation, FiniteSetTheorems, WellFoundedInduction, TLAPS

-----------------------------------------------------------------------------
(* The inductive invariant. *)

\* The places at which a thread works on the handle of another (or, to cancel
\* itself, its own), those at which it makes a structure or gives one up, and
\* those on the way to its end.
Named   == {"cancel", "cancel_async", "cancel_set", "kill", "terminate", "join", "join_cancel",
            "join_detach", "destroy"}
Holders == {"cancel_async", "cancel_set"}
Making  == {"self", "create"}
Leaving == {"throw", "unwind", "detach_np", "leave", "ended"}

\* A thread has its structure: its handle is not stale.  Its structure, the lock
\* of that, and the thread that the handle it works on names.
Held(t)   == handleOf[t] # NoHandle /\ Valid(handleOf[t])
Own(t)    == tp[handleOf[t].p]
Lock(t)   == stateLock[handleOf[t].p]
Target(t) == tp[arg[t].p].threadH

FieldNames == {"x", "state", "detached", "enabled", "async", "implicit", "exitStatus",
               "threadH", "cancelEvent", "prevReuse"}

\* The types of the fields that the proof needs.
Typed(f) ==
  /\ DOMAIN f = FieldNames
  /\ f.state \in States /\ f.x \in 0..(MaxReuse + 1)
  /\ f.threadH \in Threads \union {NoThread}
  /\ f.exitStatus \in Threads \union {Null, Canceled}
  /\ f.prevReuse \in Structs \union {End}

StructTypes ==
  /\ DOMAIN tp = Structs /\ \A s \in Structs : Typed(tp[s])
  /\ stateLock \in [Structs -> Threads \union {NoThread}]
  /\ heap \subseteq Structs

ThreadTypes ==
  /\ pc \in [Threads -> Places]
  /\ self \in [Threads -> Structs \union {Null}]
  /\ how \in [Threads -> Ways]
  /\ val \in [Threads -> Threads \union {Null, Canceled}]
  /\ acted \in [Threads -> {0, 1}]
  /\ asked \subseteq Threads /\ killed \subseteq Threads
  /\ DOMAIN arg = Threads /\ DOMAIN handleOf = Threads
  /\ \A t \in Threads :
       /\ handleOf[t] = NoHandle \/ handleOf[t] \in [p : heap, x : Nat]
       /\ arg[t] = NoHandle \/ arg[t] \in [p : heap, x : Nat]

\* What the place of a thread says of its handle, its structure and the handle it
\* works on.
Place(t) ==
  /\ pc[t] = "unborn" => handleOf[t] = NoHandle /\ self[t] = Null /\ acted[t] = 0 /\ t # Main
  /\ pc[t] = "start" => arg[t] = handleOf[t] /\ self[t] = Null /\ Held(t)
  /\ pc[t] = "self" => self[t] = Null /\ handleOf[t] = NoHandle
  /\ pc[t] = "user" /\ self[t] = Null => handleOf[t] = NoHandle
  /\ pc[t] \notin {"unborn", "start", "self", "user", "ended"} => self[t] # Null
  /\ pc[t] # "ended" => (arg[t] # NoHandle <=> pc[t] \in Named \union {"start", "self", "create"})
  /\ self[t] # Null /\ pc[t] # "ended" => Held(t) /\ handleOf[t].p = self[t]

\* Who acts on a cancellation, or is about to, was asked to; it does so once, as
\* it disables cancellation.
Asked(t) ==
  /\ acted[t] = 1 => t \in asked /\ pc[t] \in Leaving
  /\ acted[t] = 1 /\ Held(t) => ~Own(t).enabled
  /\ pc[t] \in {"testcancel", "join_cancel", "delay_cancel"} => t \in asked
  /\ Held(t) /\ (Own(t).state = CancelPending \/ Own(t).cancelEvent) => t \in asked

\* The event of a pending cancellation is only set with the state.
Request(t) ==
  Held(t) =>
    /\ pc[t] # "ended" /\ Own(t).cancelEvent => Own(t).state >= CancelPending
    /\ pc[t] = "start" => /\ ~Own(t).cancelEvent /\ ~Own(t).async
                          /\ Own(t).state = Initial

\* A thread that can be cancelled at any time has no request pending, and is in
\* the application or in one of the calls that are safe then.
Async(t) ==
  self[t] # Null /\ pc[t] \notin Leaving =>
    /\ Own(t).async /\ Own(t).enabled =>
         ~Own(t).cancelEvent /\ pc[t] \in {"user", "cancel", "set"} \union Holders
    /\ pc[t] = "set" => how[t] \in Settings

\* What a thread that ends leaves in its structure: the status that pthread_join
\* gives, PThreadStateLast, no owner of stateLock; a detached one leaves nothing.
Exits(t) ==
  /\ t \in killed => pc[t] = "ended"
  /\ pc[t] \in Leaving /\ t \notin killed => how[t] \in {"return", "exit", "cancel"}
  /\ Held(t) =>
       /\ Own(t).exitStatus \in {Null, t, Canceled}
       /\ Own(t).implicit => Own(t).detached
       /\ pc[t] \in {"throw", "unwind"} /\ how[t] # "cancel" => Own(t).exitStatus = t
       /\ t \in killed => Own(t).exitStatus # Null
       /\ pc[t] \in {"detach_np", "leave", "ended"} /\ t \notin killed /\ ~Own(t).implicit =>
            Own(t).exitStatus = IF how[t] = "cancel" THEN Canceled ELSE t
       /\ pc[t] \in {"leave", "ended"} /\ t \notin killed =>
            Own(t).state = Last /\ Lock(t) = NoThread
       /\ pc[t] = "ended" /\ t \notin killed => ~Own(t).detached

Local(t) == Place(t) /\ Asked(t) /\ Request(t) /\ Async(t) /\ Exits(t)

\* The structure of a thread is its own, and no handle is ahead of its structure.
Owners ==
  /\ \A t \in Threads : Held(t) => Own(t).threadH = t /\ Own(t).x <= MaxReuse
  /\ \A s \in Structs, u \in Threads : tp[s].threadH = u => Held(u) /\ handleOf[u].p = s
  /\ \A t \in Threads : handleOf[t] # NoHandle => handleOf[t].x <= Own(t).x
  /\ HandlesUnique

\* A structure that is being made is clean, and nobody has a handle to it.
Made(t) ==
  pc[t] \in Making =>
    /\ arg[t].p \in heap /\ arg[t].x = tp[arg[t].p].x /\ arg[t].x <= MaxReuse
    /\ tp[arg[t].p] = Clean(arg[t].x, tp[arg[t].p].state)
    /\ stateLock[arg[t].p] = NoThread
    /\ \A u \in Threads : handleOf[u].p = arg[t].p => handleOf[u].x < arg[t].x
    /\ \A u \in Threads \ {t} : pc[u] \in Making => arg[u].p # arg[t].p

\* What a thread relies on while it works on a handle: the structure is still that
\* of the thread that the handle names, as that is joinable (or the caller itself),
\* and nobody else joins or detaches it.
Naming(t) ==
  pc[t] \in Named => Target(t) \in Threads /\ \A u \in Threads : u = Target(t) =>
    /\ Held(u) /\ handleOf[u] = arg[t]
    /\ u = t \/ ~Own(u).detached
    /\ pc[t] \in {"cancel"} \union Holders => u \in asked
    /\ pc[t] \notin {"cancel", "cancel_set", "destroy"} => u # t
    /\ pc[t] = "cancel_set" => ~At(u, "start")
    /\ pc[t] \in {"join", "join_detach", "destroy"} =>
         \A v \in Threads \ {t, u} : pc[v] \in Named => arg[v] # arg[t]
    /\ pc[t] = "join_detach" => 
         /\ Ended(u)
         /\ IF u \in killed THEN val[t] \in {u, Canceled}
            ELSE val[t] = IF how[u] = "cancel" THEN Canceled ELSE u

\* stateLock is held in pthread_cancel: between the test and the suspension, or of
\* a thread that cannot be cancelled at any time.
Locking(s) ==
  stateLock[s] # NoThread =>
    /\ pc[stateLock[s]] \in Holders /\ arg[stateLock[s]].p = s
    /\ At(stateLock[s], "cancel_set") => ~(tp[s].async /\ tp[s].enabled)

Holding(t) == pc[t] \in Holders => stateLock[arg[t].p] = t

\* A thread that is about to be suspended goes at most to the point where it would
\* need its lock; one that is about to be terminated is not about to be suspended.
Aimed(t) ==
  \A u \in Threads : Held(u) /\ handleOf[u] = arg[t] =>
    /\ At(t, "cancel_async") =>
         /\ pc[u] \in {"user", "throw", "unwind"} /\ Own(u).enabled
         /\ Own(u).state < Canceling \/ At(u, "unwind")
    /\ At(t, "terminate") => Own(u).state >= Canceling /\ Lock(u) = NoThread

\* f gives the n structures of the free list, from the top to the bottom: each
\* points to the next, is nobody's, and is ahead of all handles to it.
Listed(n, f) ==
  /\ f \in [1..n -> heap]
  /\ \A i, j \in 1..n : f[i] = f[j] => i = j
  /\ reuseTop = IF n = 0 THEN End ELSE f[1]
  /\ reuseBottom = IF n = 0 THEN End ELSE f[n]
  /\ \A i \in 1..n :
       /\ tp[f[i]].prevReuse = IF i = n THEN End ELSE f[i + 1]
       /\ tp[f[i]].state = Reuse /\ tp[f[i]].threadH = NoThread
       /\ \A t \in Threads :
            /\ handleOf[t].p = f[i] => handleOf[t].x < tp[f[i]].x
            /\ pc[t] \in Making => arg[t].p # f[i]

List == \E n \in Nat : \E f \in [1..n -> heap] : Listed(n, f)

IInv ==
  /\ StructTypes /\ ThreadTypes /\ Owners /\ List
  /\ \A t \in Threads : Local(t) /\ Made(t) /\ Naming(t) /\ Holding(t) /\ Aimed(t)
  /\ \A s \in Structs : Locking(s)

USE StructAssumption DEF Initial, Reuse, Running, CancelPending, Canceling, Exiting, Last,
  Named, Holders, Making, Leaving, NoHandle, At, Goto, For, Return, Ended

-----------------------------------------------------------------------------
(* What a step leaves alone. *)

\* Nothing happens to thread v ...
Idle(v) ==
  /\ pc'[v] = pc[v] /\ self'[v] = self[v] /\ arg'[v] = arg[v] /\ how'[v] = how[v]
  /\ val'[v] = val[v] /\ acted'[v] = acted[v] /\ (v \in killed' <=> v \in killed)

\* ... nor to its structure.
Same(v) ==
  /\ Idle(v) /\ handleOf'[v] = handleOf[v]
  /\ (Held(v)' <=> Held(v))
  /\ Held(v) => Own(v)' = Own(v) /\ Lock(v)' = Lock(v)

\* A thread to which, and to whose structure, nothing happens keeps Local; it may
\* be asked to cancel.
LEMMA LocalStays ==
  ASSUME NEW v \in Threads, Local(v), Same(v), asked \subseteq asked'
  PROVE  Local(v)'
<1> USE DEF Same, Idle
<1>1. Place(v)'
  BY DEF Local, Place
<1>2. Asked(v)'
  BY DEF Local, Place, Asked
<1>3. Request(v)'
  BY DEF Local, Request
<1>4. Async(v)'
  BY DEF Local, Async, Place
<1>5. Exits(v)'
  BY DEF Local, Exits
<1> QED
  BY <1>1, <1>2, <1>3, <1>4, <1>5 DEF Local

\* Of all structures only that of u is written, and of that only the fields in E.
Mutable == {"state", "detached", "enabled", "async", "exitStatus", "cancelEvent"}

Writes(u, E) ==
  /\ UNCHANGED <<heap, reuseTop, reuseBottom, handleOf>>
  /\ DOMAIN tp' = Structs /\ stateLock' \in [Structs -> Threads \union {NoThread}]
  /\ \A s \in Structs \ {handleOf[u].p} : tp'[s] = tp[s] /\ stateLock'[s] = stateLock[s]
  /\ DOMAIN Own(u)' = FieldNames
  /\ \A n \in FieldNames \ E : Own(u)'[n] = Own(u)[n]
  /\ Own(u)'.state \in States /\ Own(u)'.exitStatus \in Threads \union {Null, Canceled}

\* A step that writes these fields of the structure of u leaves handles valid and
\* all other structures as they are.
LEMMA WritesOne ==
  ASSUME StructTypes, ThreadTypes, Owners, NEW u \in Threads, NEW E \in SUBSET Mutable,
         Held(u), Writes(u, E)
  PROVE  /\ StructTypes'
         /\ \A s \in Structs : /\ tp'[s].x = tp[s].x /\ tp'[s].threadH = tp[s].threadH
                               /\ tp'[s].prevReuse = tp[s].prevReuse
         /\ \A s \in Structs : tp[s].threadH # u => tp'[s] = tp[s] /\ stateLock'[s] = stateLock[s]
         /\ \A v \in Threads : Held(v)' <=> Held(v)
         /\ \A v \in Threads \ {u} : Held(v) => Own(v)' = Own(v) /\ Lock(v)' = Lock(v)
<1>0. handleOf[u].p \in heap /\ Own(u).threadH = u
  BY DEF ThreadTypes, Owners, Held
<1>1. /\ Own(u)'.x = Own(u).x /\ Own(u)'.threadH = u /\ Own(u)'.prevReuse = Own(u).prevReuse
      /\ handleOf[u].p \in heap /\ Own(u).threadH = u
  BY <1>0 DEF Writes, Mutable, FieldNames
<1>2. \A s \in Structs : /\ tp'[s].x = tp[s].x /\ tp'[s].threadH = tp[s].threadH
                         /\ tp'[s].prevReuse = tp[s].prevReuse
  BY <1>1 DEF Writes, Own
<1>3. \A s \in Structs : tp[s].threadH # u => tp'[s] = tp[s] /\ stateLock'[s] = stateLock[s]
  BY <1>1 DEF Writes, Own
<1>4. \A v \in Threads : Held(v)' <=> Held(v)
  BY <1>2 DEF Writes, Held, Valid, ThreadTypes, StructTypes
<1>5. \A v \in Threads \ {u} : Held(v) => Own(v)' = Own(v) /\ Lock(v)' = Lock(v)
  BY <1>3 DEF Writes, Own, Lock, Held, Owners, ThreadTypes, StructTypes
<1>6. StructTypes'
  BY <1>1 DEF StructTypes, Writes, Own, Typed
<1> QED
  BY <1>2, <1>3, <1>4, <1>5, <1>6

\* Nobody begins to take or to give back a structure.
NoneMade == \A v \in Threads : pc'[v] \in Making => pc'[v] = pc[v] /\ arg'[v] = arg[v]

\* It leaves the structures to their owners,
LEMMA OwnersStay ==
  ASSUME StructTypes, ThreadTypes, Owners, NEW u \in Threads, NEW E \in SUBSET Mutable,
         Held(u), Writes(u, E)
  PROVE  Owners'
<1>1. /\ \A s \in Structs : tp'[s].x = tp[s].x /\ tp'[s].threadH = tp[s].threadH
      /\ \A v \in Threads : Held(v)' <=> Held(v)
  BY WritesOne
<1>2. handleOf' = handleOf
  BY DEF Writes
<1>3. \A v \in Threads : Held(v) => Own(v)'.threadH = v /\ Own(v)'.x <= MaxReuse
  BY <1>1, <1>2 DEF Owners, Own, Held, StructTypes, ThreadTypes
<1>4. \A v \in Threads : handleOf[v] # NoHandle => handleOf[v].x <= Own(v)'.x
  BY <1>1, <1>2 DEF Owners, Own, StructTypes, ThreadTypes
<1>5. \A s \in Structs, v \in Threads : tp'[s].threadH = v => Held(v)' /\ handleOf'[v].p = s
  BY <1>1, <1>2 DEF Owners
<1>6. HandlesUnique'
  BY <1>2 DEF Owners, HandlesUnique
<1> QED
  BY <1>1, <1>2, <1>3, <1>4, <1>5, <1>6 DEF Owners

\* The fields of a clean structure.
LEMMA CleanFields ==
  ASSUME NEW x, NEW st
  PROVE  /\ Clean(x, st).x = x /\ Clean(x, st).state = st /\ Clean(x, st).threadH = NoThread
         /\ Clean(x, st).prevReuse = End
BY DEF Clean

\* those that are being made as they are,
LEMMA MadeStays ==
  ASSUME StructTypes, ThreadTypes, Owners, NEW u \in Threads, NEW E \in SUBSET Mutable,
         Held(u), Writes(u, E), NoneMade,
         \A t \in Threads : Made(t)
  PROVE  \A t \in Threads : Made(t)'
<1>1. \A s \in Structs : tp[s].threadH # u => tp'[s] = tp[s] /\ stateLock'[s] = stateLock[s]
  BY WritesOne
<1>2. SUFFICES ASSUME NEW t \in Threads, pc'[t] \in Making
               PROVE  Made(t)'
  BY DEF Made
<1>3. pc[t] \in Making /\ arg'[t] = arg[t]
  BY <1>2 DEF NoneMade
<1>4. arg[t].p \in Structs /\ tp[arg[t].p].threadH = NoThread
  BY <1>3, CleanFields DEF Made, StructTypes
<1>5. tp'[arg[t].p] = tp[arg[t].p] /\ stateLock'[arg[t].p] = stateLock[arg[t].p]
  BY <1>1, <1>4
<1>6. \A v \in Threads \ {t} : pc'[v] \in Making => arg'[v].p # arg'[t].p
  BY <1>3 DEF Made, NoneMade
<1> QED
  BY <1>3, <1>5, <1>6 DEF Made, Writes, Clean

\* and the free list as well.
LEMMA ListStays ==
  ASSUME StructTypes, ThreadTypes, Owners, List, NEW u \in Threads, NEW E \in SUBSET Mutable,
         Held(u), Writes(u, E), NoneMade
  PROVE  List'
<1>1. \A s \in Structs : tp[s].threadH # u => tp'[s] = tp[s]
  BY WritesOne
<1>2. PICK n \in Nat : \E f \in [1..n -> heap] : Listed(n, f)
  BY DEF List
<1>3. PICK f \in [1..n -> heap] : Listed(n, f)
  BY <1>2
<1>4. UNCHANGED <<heap, reuseTop, reuseBottom, handleOf>>
  BY DEF Writes
<1>5. \A i \in 1..n : f[i] \in Structs /\ tp'[f[i]] = tp[f[i]]
  BY <1>1, <1>3 DEF Listed, StructTypes
<1>6. Listed(n, f)'
  BY <1>3, <1>4, <1>5 DEF Listed, NoneMade
<1> QED
  BY <1>2, <1>3, <1>4, <1>6 DEF List

\* Whoever works on a handle goes on with it, and who has ended stays so.
NamesKept ==
  \A v \in Threads :
    /\ pc'[v] = "start" => pc[v] = "start"
    /\ pc'[v] \in Named =>
         /\ arg'[v] = arg[v] /\ (pc'[v] = "join_detach" => val'[v] = val[v])
         /\ \/ pc'[v] = pc[v]
            \/ pc[v] = "join" /\ pc'[v] = "join_cancel"
            \/ pc[v] = "kill" /\ pc'[v] = "terminate"

EndsKept ==
  \A v \in Threads : pc[v] = "ended" =>
    pc'[v] = "ended" /\ how'[v] = how[v] /\ (v \in killed' <=> v \in killed)

\* A step that does not detach u, and in which nobody begins with another handle,
\* keeps Naming.
LEMMA NamingStays ==
  ASSUME StructTypes, ThreadTypes, Owners, NEW u \in Threads, NEW E \in SUBSET Mutable,
         Held(u), Writes(u, E), NamesKept, EndsKept,
         asked \subseteq asked', Own(u)'.detached = Own(u).detached,
         \A t \in Threads : Naming(t)
  PROVE  \A t \in Threads : Naming(t)'
<1>1. /\ \A s \in Structs : tp'[s].threadH = tp[s].threadH
      /\ \A v \in Threads : Held(v)' <=> Held(v)
      /\ \A v \in Threads : Held(v) => Own(v)'.detached = Own(v).detached
      /\ handleOf' = handleOf
  BY WritesOne DEF Writes
<1>2. SUFFICES ASSUME NEW t \in Threads, pc'[t] \in Named
               PROVE  Naming(t)'
  BY DEF Naming
<1>3. pc[t] \in Named /\ arg'[t] = arg[t] /\ Naming(t)
  BY <1>2 DEF NamesKept
<1>4. arg[t].p \in Structs
  BY <1>3 DEF Naming, ThreadTypes, StructTypes, Held
<1>5. Target(t)' = Target(t)
  BY <1>1, <1>3, <1>4 DEF Target
<1> QED
  BY <1>1, <1>2, <1>3, <1>5 DEF Naming, NamesKept, EndsKept

\* Nobody takes the lock of a structure or gives it back.
LocksKept ==
  \A v \in Threads, l \in Holders : (pc'[v] = l <=> pc[v] = l) /\ (pc[v] = l => arg'[v] = arg[v])

\* Nobody begins to pursue a thread, or to terminate it.
AimsKept ==
  \A v \in Threads : pc'[v] \in {"cancel_async", "terminate"} => pc'[v] = pc[v] /\ arg'[v] = arg[v]

\* A step that does not touch stateLock, nor makes a thread asynchronously
\* cancelable whose lock is held, keeps Holding and Locking.
LEMMA LocksStay ==
  ASSUME StructTypes, ThreadTypes, Owners, NEW u \in Threads, NEW E \in SUBSET Mutable,
         Held(u), Writes(u, E), LocksKept,
         Lock(u)' = Lock(u),
         Lock(u) # NoThread /\ Own(u)'.async /\ Own(u)'.enabled => Own(u).async /\ Own(u).enabled,
         \A t \in Threads : Holding(t), \A s \in Structs : Locking(s)
  PROVE  (\A t \in Threads : Holding(t)') /\ (\A s \in Structs : Locking(s)')
<1>1. handleOf[u].p \in Structs
  BY DEF StructTypes, ThreadTypes, Held
<1>2. \A s \in Structs : stateLock'[s] = stateLock[s]
  BY <1>1 DEF Writes, Lock
<1>3. stateLock' = stateLock
  BY <1>2 DEF Writes, StructTypes
<1>4. \A s \in Structs : stateLock[s] # NoThread /\ tp'[s].async /\ tp'[s].enabled =>
        tp[s].async /\ tp[s].enabled
  BY <1>1 DEF Writes, Lock, Own
<1>5. \A t \in Threads : Holding(t)'
  BY <1>3 DEF Holding, LocksKept
<1>6. \A s \in Structs : Locking(s)'
  BY <1>3, <1>4 DEF Locking, LocksKept, StructTypes
<1> QED
  BY <1>5, <1>6

\* Thread w has been tested in pthread_cancel, and is not suspended yet.  Its lock is
\* held meanwhile, and it is not in a call.
Pursued(w) == Held(w) /\ \E v \in Threads : At(v, "cancel_async") /\ arg[v] = handleOf[w]

LEMMA NotPursued ==
  ASSUME IInv, NEW w \in Threads,
         \/ Lock(w) = NoThread \/ pc[Lock(w)] # "cancel_async"
         \/ pc[w] \notin {"user", "throw", "unwind"}
  PROVE  ~Pursued(w)
<1> SUFFICES ASSUME Held(w), NEW v \in Threads, pc[v] = "cancel_async", arg[v] = handleOf[w]
             PROVE  FALSE
  BY DEF Pursued
<1>1. Lock(w) = v /\ v # NoThread
  BY DEF IInv, Holding, Lock
<1>2. pc[w] \in {"user", "throw", "unwind"}
  BY DEF IInv, Aimed
<1> QED
  BY <1>1, <1>2

\* What it may do meanwhile: it leaves its start routine, and unwinds.
GoesOn(w) ==
  /\ Own(w)'.enabled = Own(w).enabled
  /\ \/ pc'[w] = "unwind"
     \/ pc[w] = "user" /\ pc'[w] = "throw" /\ Own(w)'.state = Own(w).state

\* A step of t that writes the structure of u keeps the aim of those that go on.
LEMMA AimedStays ==
  ASSUME IInv, NEW t \in Threads, NEW u \in Threads, NEW E \in SUBSET Mutable, Held(u),
         Writes(u, E), \A v \in Threads \ {t, u} : Idle(v),
         \A w \in {t, u} : Pursued(w) /\ Pursued(w)' => GoesOn(w),
         Own(u).state >= Canceling /\ Lock(u) = NoThread =>
           Own(u)'.state >= Canceling /\ Lock(u)' = NoThread,
         NEW v \in Threads,
         pc'[v] \in {"cancel_async", "terminate"} => pc'[v] = pc[v] /\ arg'[v] = arg[v]
  PROVE  Aimed(v)'
<1>1. /\ \A w \in Threads : Held(w)' <=> Held(w)
      /\ \A w \in Threads \ {u} : Held(w) => Own(w)' = Own(w) /\ Lock(w)' = Lock(w)
      /\ handleOf' = handleOf
  BY WritesOne DEF IInv, Writes
<1>2. SUFFICES ASSUME NEW w \in Threads, Held(w), handleOf[w] = arg[v],
                      pc[v] \in {"cancel_async", "terminate"}, pc'[v] = pc[v], arg'[v] = arg[v]
               PROVE  /\ pc[v] = "cancel_async" =>
                           /\ pc'[w] \in {"user", "throw", "unwind"} /\ Own(w)'.enabled
                           /\ Own(w)'.state < Canceling \/ pc'[w] = "unwind"
                      /\ pc[v] = "terminate" => Own(w)'.state >= Canceling /\ Lock(w)' = NoThread
  BY <1>1 DEF Aimed
<1>3. /\ pc[v] = "cancel_async" =>
           /\ pc[w] \in {"user", "throw", "unwind"} /\ Own(w).enabled
           /\ Own(w).state < Canceling \/ pc[w] = "unwind"
      /\ pc[v] = "terminate" => Own(w).state >= Canceling /\ Lock(w) = NoThread
  BY <1>2 DEF IInv, Aimed
<1>4. ASSUME pc[v] = "cancel_async"
      PROVE  /\ pc'[w] \in {"user", "throw", "unwind"} /\ Own(w)'.enabled
             /\ Own(w)'.state < Canceling \/ pc'[w] = "unwind"
  <2>1. CASE w \in {t, u}
    <3>1. Pursued(w) /\ Pursued(w)'
      BY <1>1, <1>2, <1>4 DEF Pursued
    <3> QED
      BY <1>3, <1>4, <2>1, <3>1 DEF GoesOn
  <2>2. CASE w \notin {t, u}
    BY <1>1, <1>2, <1>3, <1>4, <2>2 DEF Idle
  <2> QED
    BY <2>1, <2>2
<1>5. ASSUME pc[v] = "terminate" PROVE Own(w)'.state >= Canceling /\ Lock(w)' = NoThread
  BY <1>1, <1>2, <1>3, <1>5
<1> QED
  BY <1>4, <1>5

\* A step of t that writes the structure of u.
LEMMA Step ==
  ASSUME IInv, NEW t \in Threads, NEW u \in Threads, NEW E \in SUBSET Mutable, Held(u),
         Writes(u, E), NoneMade,
         \A v \in Threads \ {t, u} : Idle(v), ThreadTypes', asked \subseteq asked',
         Local(t)', Local(u)',
         \A v \in Threads : Naming(v)' /\ Holding(v)' /\ Aimed(v)', \A s \in Structs : Locking(s)'
  PROVE  IInv'
<1>1. StructTypes' /\ Owners' /\ List' /\ \A v \in Threads : Made(v)'
  BY WritesOne, OwnersStay, ListStays, MadeStays DEF IInv
<1>2. \A v \in Threads \ {t, u} : Same(v)
  BY WritesOne DEF IInv, Same, Writes
<1>3. \A v \in Threads \ {t, u} : Local(v)'
  BY <1>2, LocalStays DEF IInv
<1> QED
  BY <1>1, <1>3 DEF IInv

\* One that t takes by itself.
LEMMA OwnStep ==
  ASSUME IInv, NEW t \in Threads, NEW E \in SUBSET Mutable, Held(t), Writes(t, E),
         "detached" \notin E, Lock(t)' = Lock(t),
         ("async" \notin E /\ "enabled" \notin E) \/ Lock(t) = NoThread,
         NoneMade, NamesKept, EndsKept, LocksKept, AimsKept, Pursued(t) => GoesOn(t),
         "state" \in E => Own(t)'.state >= Canceling \/ Own(t).state < Canceling,
         \A v \in Threads \ {t} : Idle(v), ThreadTypes', asked' = asked, Local(t)'
  PROVE  IInv'
<1>1. Own(t)'.detached = Own(t).detached
  BY DEF Writes, FieldNames
<1>2. Lock(t) # NoThread /\ Own(t)'.async /\ Own(t)'.enabled => Own(t).async /\ Own(t).enabled
  BY DEF Writes, FieldNames
<1>3. \A v \in Threads : Naming(v)'
  BY <1>1, NamingStays DEF IInv
<1>4. (\A v \in Threads : Holding(v)') /\ (\A s \in Structs : Locking(s)')
  BY <1>2, LocksStay DEF IInv
<1>5. Own(t).state >= Canceling => Own(t)'.state >= Canceling
  BY DEF Writes, FieldNames, IInv, StructTypes, ThreadTypes, Held, Typed, Own, States
<1>6. \A v \in Threads : Aimed(v)'
  BY <1>5, AimedStays DEF AimsKept
<1> QED
  BY <1>3, <1>4, <1>6, Step

\* A thread that the library knows, and its structure.
LEMMA Living ==
  ASSUME StructTypes, ThreadTypes, NEW t \in Threads, Local(t), self[t] # Null,
         pc[t] # "ended"
  PROVE  /\ Held(t) /\ handleOf[t].p = self[t] /\ self[t] \in Structs
         /\ Fields(t) = Own(t) /\ stateLock[self[t]] = Lock(t) /\ tp[self[t]] = Own(t)
         /\ Handle(self[t]) = handleOf[t]
         /\ DOMAIN Own(t) = FieldNames
<1>1. Held(t) /\ handleOf[t].p = self[t]
  BY DEF Local, Place
<1>2. self[t] \in Structs
  BY DEF ThreadTypes
<1> QED
  BY <1>1, <1>2 DEF Fields, Own, Lock, Held, Handle, Valid, ThreadTypes, StructTypes, Typed

\* A step that writes no structure.
LEMMA Untouched ==
  ASSUME StructTypes, ThreadTypes, Owners, NEW t \in Threads, Held(t), UNCHANGED <<structVars,
         handleOf>>
  PROVE  /\ Writes(t, {}) /\ Own(t)' = Own(t) /\ Lock(t)' = Lock(t) /\ Held(t)'
         /\ handleOf'[t] = handleOf[t]
<1>1. handleOf[t].p \in Structs
  BY DEF StructTypes, ThreadTypes, Held
<1> QED
  BY <1>1 DEF structVars, Writes, Own, Lock, Held, Valid, StructTypes, Typed

\* A thread that is undisturbed when it calls the library is not pursued.
LEMMA NotTargeted ==
  ASSUME IInv, ~AsyncMeetsCall, NEW t \in Threads, self[t] # Null, pc[t] # "ended",
         Undisturbed(t)
  PROVE  ~Pursued(t)
<1>1. handleOf[t].p = self[t]
  BY Living DEF IInv
<1> QED
  BY <1>1 DEF Pursued, Undisturbed, Targeted

-----------------------------------------------------------------------------
(* The steps that a thread takes alone. *)

\* ptw32_throw writes PThreadStateExiting without stateLock.
LEMMA ThrowKeeps ==
  ASSUME IInv, NEW t \in Threads, Throw(t), UNCHANGED cancelVars
  PROVE  IInv'
<1>1. StructTypes /\ ThreadTypes /\ Owners /\ Local(t) /\ self[t] # Null /\ pc[t] # "ended"
  BY DEF IInv, Throw, Local, Place
<1>2. Own(t)' = [Own(t) EXCEPT !.state = Exiting]
      /\ Lock(t)' = Lock(t)
  BY <1>1, Living DEF Throw, Own, Lock, stackVars, ghosts, StructTypes
<1>3. Writes(t, {"state"}) /\ Own(t)'.state = Exiting
  BY <1>1, <1>2, Living DEF Throw, Writes, stackVars, ghosts, StructTypes, Typed, States,
     FieldNames
<1>4. Held(t) /\ Held(t)' /\ handleOf'[t] = handleOf[t]
  BY <1>1, <1>3, Living, WritesOne, ZenonT(60) DEF Throw, Writes, Mutable
<1>7. Fields(t) = Own(t) /\ stateLock[self[t]] = Lock(t) /\ Handle(self[t]) = handleOf[t]
  BY <1>1, Living
<1>5. /\ ThreadTypes' /\ NoneMade /\ NamesKept /\ EndsKept /\ LocksKept /\ AimsKept /\ asked' = asked
      /\ \A v \in Threads \ {t} : Idle(v)
  BY <1>1 DEF Throw, localVars, ghosts, cancelVars, stackVars, structVars, ThreadTypes,
     NoneMade, NamesKept, EndsKept,
     LocksKept, AimsKept, Idle, Places, Ways, Settings
<1>6. Local(t)'
  BY <1>1, <1>2, <1>3, <1>4, <1>7 DEF Throw, localVars, ghosts, cancelVars, ThreadTypes,
     Writes, FieldNames,
     Local, Place, Asked, Request, Async, Exits
<1>10. GoesOn(t)
  BY <1>1, <1>2, Living DEF Throw, GoesOn, ThreadTypes, FieldNames
<1>11. Own(t)'.state >= Canceling
  BY <1>3
<1> QED
  BY <1>1, <1>2, <1>3, <1>4, <1>5, <1>6, <1>10, <1>11, OwnStep DEF Mutable

\* The start routine returns, or calls pthread_exit.
LEMMA ExitKeeps ==
  ASSUME IInv, NEW t \in Threads, NEW w \in {"return", "exit"}, Exit(t, w),
         UNCHANGED cancelVars
  PROVE  IInv'
<1>1. StructTypes /\ ThreadTypes /\ Owners /\ Local(t) /\ self[t] # Null /\ pc[t] # "ended"
  BY DEF IInv, Exit, MayCall, Local, Place
<1>2. Own(t)' = [Own(t) EXCEPT !.exitStatus = t]
      /\ Lock(t)' = Lock(t)
  BY <1>1, Living DEF Exit, MayCall, Own, Lock, stackVars, ghosts, StructTypes
<1>3. Writes(t, {"exitStatus"}) /\ Own(t)'.exitStatus = t
  BY <1>1, <1>2, Living DEF Exit, MayCall, Writes, stackVars, ghosts, StructTypes, Typed,
     States, FieldNames
<1>4. Held(t) /\ Held(t)' /\ handleOf'[t] = handleOf[t]
  BY <1>1, <1>3, Living, WritesOne DEF Exit, MayCall, Writes, Mutable
<1>7. Fields(t) = Own(t) /\ stateLock[self[t]] = Lock(t) /\ Handle(self[t]) = handleOf[t]
  BY <1>1, Living
<1>5. /\ ThreadTypes' /\ NoneMade /\ NamesKept /\ EndsKept /\ LocksKept /\ AimsKept /\ asked' = asked
      /\ \A v \in Threads \ {t} : Idle(v)
  BY <1>1 DEF Exit, MayCall, localVars, ghosts, cancelVars, stackVars, structVars,
     ThreadTypes, NoneMade, NamesKept, EndsKept,
     LocksKept, AimsKept, Idle, Places, Ways, Settings
<1>6. Local(t)'
  BY <1>1, <1>2, <1>3, <1>4, <1>7 DEF Exit, MayCall, localVars, ghosts, cancelVars,
     ThreadTypes, Writes, FieldNames, Settings,
     Local, Place, Asked, Request, Async, Exits
<1>10. GoesOn(t)
  BY <1>1, <1>2, Living DEF Exit, MayCall, GoesOn, ThreadTypes, FieldNames
<1> QED
  BY <1>1, <1>2, <1>3, <1>4, <1>5, <1>6, <1>10, OwnStep DEF Mutable

\* ptw32_threadStart records the status of a cancelled thread;
LEMMA UnwindCancelled ==
  ASSUME IInv, ~AsyncMeetsCall, NEW t \in Threads, Unwind(t), UNCHANGED cancelVars,
         how[t] = "cancel" /\ ~Fields(t).implicit
  PROVE  IInv'
<1>1. StructTypes /\ ThreadTypes /\ Owners /\ Local(t) /\ self[t] # Null /\ pc[t] # "ended"
  BY DEF IInv, Unwind, Local, Place
<1>2. Own(t)' = [Own(t) EXCEPT !.exitStatus = Canceled]
      /\ Lock(t)' = Lock(t)
  BY <1>1, Living DEF Unwind, Own, Lock, stackVars, ghosts, StructTypes
<1>3. Writes(t, {"exitStatus"}) /\ Own(t)'.exitStatus = Canceled
  BY <1>1, <1>2, Living DEF Unwind, Writes, stackVars, ghosts, StructTypes, Typed, States,
     FieldNames
<1>4. Held(t) /\ Held(t)' /\ handleOf'[t] = handleOf[t]
  BY <1>1, <1>3, Living, WritesOne DEF Unwind, Writes, Mutable
<1>7. Fields(t) = Own(t) /\ stateLock[self[t]] = Lock(t) /\ Handle(self[t]) = handleOf[t]
  BY <1>1, Living
<1>5. /\ ThreadTypes' /\ NoneMade /\ NamesKept /\ EndsKept /\ LocksKept /\ AimsKept /\ asked' = asked
      /\ \A v \in Threads \ {t} : Idle(v)
  BY <1>1 DEF Unwind, localVars, ghosts, cancelVars, stackVars, structVars, ThreadTypes,
     NoneMade, NamesKept, EndsKept,
     LocksKept, AimsKept, Idle, Places, Ways, Settings
<1>6. Local(t)'
  BY <1>1, <1>2, <1>3, <1>4, <1>7 DEF Unwind, localVars, ghosts, cancelVars, ThreadTypes,
     Writes, FieldNames,
     Local, Place, Asked, Request, Async, Exits
<1>10. ~Pursued(t)
  BY <1>1, NotTargeted DEF Unwind
<1> QED
  BY <1>1, <1>2, <1>3, <1>4, <1>5, <1>6, <1>10, OwnStep DEF Mutable

\* that of another thread is there already.
LEMMA UnwindKeeps ==
  ASSUME IInv, ~AsyncMeetsCall, NEW t \in Threads, Unwind(t), UNCHANGED cancelVars,
         ~(how[t] = "cancel" /\ ~Fields(t).implicit)
  PROVE  IInv'
<1>1. StructTypes /\ ThreadTypes /\ Owners /\ Local(t) /\ self[t] # Null /\ pc[t] # "ended"
  BY DEF IInv, Unwind, Local, Place
<1>2. Writes(t, {}) /\ Own(t)' = Own(t) /\ Lock(t)' = Lock(t) /\ Held(t) /\ Held(t)'
      /\ handleOf'[t] = handleOf[t]
  BY <1>1, Living, Untouched DEF Unwind, ghosts, structVars, stackVars
<1>7. Fields(t) = Own(t) /\ stateLock[self[t]] = Lock(t) /\ Handle(self[t]) = handleOf[t]
  BY <1>1, Living
<1>5. /\ ThreadTypes' /\ NoneMade /\ NamesKept /\ EndsKept /\ LocksKept /\ AimsKept /\ asked' = asked
      /\ \A v \in Threads \ {t} : Idle(v)
  BY <1>1 DEF Unwind, localVars, ghosts, cancelVars, stackVars, structVars, ThreadTypes,
     NoneMade, NamesKept, EndsKept,
     LocksKept, AimsKept, Idle, Places, Ways, Settings
<1>6. Local(t)'
  BY <1>1, <1>2, <1>7 DEF Unwind, localVars, ghosts, cancelVars, ThreadTypes, Writes,
     FieldNames,
     Local, Place, Asked, Request, Async, Exits
<1>10. ~Pursued(t)
  BY <1>1, NotTargeted DEF Unwind
<1> QED
  BY <1>1, <1>2, <1>5, <1>6, <1>10, OwnStep DEF Mutable

\* pthread_win32_thread_detach_np writes PThreadStateLast.
LEMMA ThreadDetachKeeps ==
  ASSUME IInv, NEW t \in Threads, ThreadDetach(t), UNCHANGED cancelVars
  PROVE  IInv'
<1>1. StructTypes /\ ThreadTypes /\ Owners /\ Local(t) /\ self[t] # Null /\ pc[t] # "ended"
  BY DEF IInv, ThreadDetach, Local, Place
<1>2. Own(t)' = [Own(t) EXCEPT !.state = Last]
      /\ Lock(t)' = Lock(t) /\ Lock(t) = NoThread
  BY <1>1, Living DEF ThreadDetach, Own, Lock, stackVars, ghosts, StructTypes
<1>3. Writes(t, {"state"}) /\ Own(t)'.state = Last
  BY <1>1, <1>2, Living DEF ThreadDetach, Writes, stackVars, ghosts, StructTypes, Typed,
     States, FieldNames
<1>4. Held(t) /\ Held(t)' /\ handleOf'[t] = handleOf[t]
  BY <1>1, <1>3, Living, WritesOne, ZenonT(60) DEF ThreadDetach, Writes, Mutable
<1>7. Fields(t) = Own(t) /\ stateLock[self[t]] = Lock(t) /\ Handle(self[t]) = handleOf[t]
  BY <1>1, Living
<1>5. /\ ThreadTypes' /\ NoneMade /\ NamesKept /\ EndsKept /\ LocksKept /\ AimsKept /\ asked' = asked
      /\ \A v \in Threads \ {t} : Idle(v)
  BY <1>1 DEF ThreadDetach, localVars, ghosts, cancelVars, stackVars, structVars,
     ThreadTypes, NoneMade, NamesKept, EndsKept,
     LocksKept, AimsKept, Idle, Places, Ways, Settings
<1>6. Local(t)'
  BY <1>1, <1>2, <1>3, <1>4, <1>7 DEF ThreadDetach, localVars, ghosts, cancelVars,
     ThreadTypes, Writes, FieldNames,
     Local, Place, Asked, Request, Async, Exits
<1>10. ~Pursued(t)
  BY NotPursued DEF ThreadDetach
<1>11. Own(t)'.state >= Canceling
  BY <1>3
<1> QED
  BY <1>1, <1>2, <1>3, <1>4, <1>5, <1>6, <1>10, <1>11, OwnStep DEF Mutable

\* pthread_timedjoin_np times out.
LEMMA JoinTimesOutKeeps ==
  ASSUME IInv, NEW t \in Threads, JoinTimesOut(t), UNCHANGED cancelVars
  PROVE  IInv'
<1>1. StructTypes /\ ThreadTypes /\ Owners /\ Local(t) /\ self[t] # Null /\ pc[t] # "ended"
  BY DEF IInv, JoinTimesOut, Local, Place
<1>2. Writes(t, {}) /\ Own(t)' = Own(t) /\ Lock(t)' = Lock(t) /\ Held(t) /\ Held(t)'
      /\ handleOf'[t] = handleOf[t]
  BY <1>1, Living, Untouched DEF JoinTimesOut, ghosts, structVars, stackVars
<1>7. Fields(t) = Own(t) /\ stateLock[self[t]] = Lock(t) /\ Handle(self[t]) = handleOf[t]
  BY <1>1, Living
<1>5. /\ ThreadTypes' /\ NoneMade /\ NamesKept /\ EndsKept /\ LocksKept /\ AimsKept /\ asked' = asked
      /\ \A v \in Threads \ {t} : Idle(v)
  BY <1>1 DEF JoinTimesOut, localVars, ghosts, cancelVars, stackVars, structVars,
     ThreadTypes, NoneMade, NamesKept, EndsKept,
     LocksKept, AimsKept, Idle, Places, Ways, Settings
<1>6. Local(t)'
  BY <1>1, <1>2, <1>7 DEF JoinTimesOut, localVars, ghosts, cancelVars, ThreadTypes, Writes,
     FieldNames,
     Local, Place, Asked, Request, Async, Exits
<1>10. ~Pursued(t)
  BY NotPursued DEF JoinTimesOut
<1> QED
  BY <1>1, <1>2, <1>5, <1>6, <1>10, OwnStep DEF Mutable

\* pthread_testcancel finds a request.
LEMMA TestCancelKeeps ==
  ASSUME IInv, ~AsyncMeetsCall, NEW t \in Threads, TestCancel(t)
  PROVE  IInv'
<1>1. StructTypes /\ ThreadTypes /\ Owners /\ Local(t) /\ self[t] # Null /\ pc[t] # "ended"
  BY DEF IInv, TestCancel, MayCall, Local, Place
<1>2. Writes(t, {}) /\ Own(t)' = Own(t) /\ Lock(t)' = Lock(t) /\ Held(t) /\ Held(t)'
      /\ handleOf'[t] = handleOf[t]
  BY <1>1, Living, Untouched DEF TestCancel, MayCall, ghosts, structVars, stackVars
<1>7. Fields(t) = Own(t) /\ stateLock[self[t]] = Lock(t) /\ Handle(self[t]) = handleOf[t]
  BY <1>1, Living
<1>5. /\ ThreadTypes' /\ NoneMade /\ NamesKept /\ EndsKept /\ LocksKept /\ AimsKept /\ asked' = asked
      /\ \A v \in Threads \ {t} : Idle(v)
  BY <1>1 DEF TestCancel, MayCall, localVars, ghosts, cancelVars, stackVars, structVars,
     ThreadTypes, NoneMade, NamesKept, EndsKept,
     LocksKept, AimsKept, Idle, Places, Ways, Settings
<1>6. Local(t)'
  <2>1. Place(t)'
    BY <1>1, <1>2, <1>7 DEF TestCancel, MayCall, localVars, ghosts, cancelVars, ThreadTypes,
       Writes, FieldNames, Settings, Local, Place
  <2>2. Asked(t)'
    BY <1>1, <1>2, <1>7 DEF TestCancel, MayCall, localVars, ghosts, cancelVars, ThreadTypes,
       Writes, FieldNames, Settings, Local, Place, Asked
  <2>3. Request(t)'
    BY <1>1, <1>2, <1>7 DEF TestCancel, MayCall, localVars, ghosts, cancelVars, ThreadTypes,
       Writes, FieldNames, Settings, Local, Place, Request
  <2>4. Async(t)'
    BY <1>1, <1>2, <1>7 DEF TestCancel, MayCall, localVars, ghosts, cancelVars, ThreadTypes,
       Writes, FieldNames, Settings, Local, Place, Async
  <2>5. Exits(t)'
    BY <1>1, <1>2, <1>7 DEF TestCancel, MayCall, localVars, ghosts, cancelVars, ThreadTypes,
       Writes, FieldNames, Settings, Local, Place, Exits
  <2> QED
    BY <2>1, <2>2, <2>3, <2>4, <2>5 DEF Local
<1>10. ~Pursued(t)
  BY <1>1, NotTargeted DEF TestCancel, MayCall
<1> QED
  BY <1>1, <1>2, <1>5, <1>6, <1>10, OwnStep DEF Mutable

\* pthread_delay_np begins to wait,
LEMMA DelayKeeps ==
  ASSUME IInv, ~AsyncMeetsCall, NEW t \in Threads, Delay(t)
  PROVE  IInv'
<1>1. StructTypes /\ ThreadTypes /\ Owners /\ Local(t) /\ self[t] # Null /\ pc[t] # "ended"
  BY DEF IInv, Delay, MayCall, Local, Place
<1>2. Writes(t, {}) /\ Own(t)' = Own(t) /\ Lock(t)' = Lock(t) /\ Held(t) /\ Held(t)'
      /\ handleOf'[t] = handleOf[t]
  BY <1>1, Living, Untouched DEF Delay, MayCall, ghosts, structVars, stackVars
<1>7. Fields(t) = Own(t) /\ stateLock[self[t]] = Lock(t) /\ Handle(self[t]) = handleOf[t]
  BY <1>1, Living
<1>5. /\ ThreadTypes' /\ NoneMade /\ NamesKept /\ EndsKept /\ LocksKept /\ AimsKept /\ asked' = asked
      /\ \A v \in Threads \ {t} : Idle(v)
  BY <1>1 DEF Delay, MayCall, localVars, ghosts, cancelVars, stackVars, structVars,
     ThreadTypes, NoneMade, NamesKept, EndsKept,
     LocksKept, AimsKept, Idle, Places, Ways, Settings
<1>6. Local(t)'
  BY <1>1, <1>2, <1>7 DEF Delay, MayCall, localVars, ghosts, cancelVars, ThreadTypes, Writes,
     FieldNames, Settings,
     Local, Place, Asked, Request, Async, Exits
<1>10. ~Pursued(t)
  BY <1>1, NotTargeted DEF Delay, MayCall
<1> QED
  BY <1>1, <1>2, <1>5, <1>6, <1>10, OwnStep DEF Mutable

\* and ends to.
LEMMA DelayEndsKeeps ==
  ASSUME IInv, NEW t \in Threads, DelayEnds(t)
  PROVE  IInv'
<1>1. StructTypes /\ ThreadTypes /\ Owners /\ Local(t) /\ self[t] # Null /\ pc[t] # "ended"
  BY DEF IInv, DelayEnds, Local, Place
<1>2. Writes(t, {}) /\ Own(t)' = Own(t) /\ Lock(t)' = Lock(t) /\ Held(t) /\ Held(t)'
      /\ handleOf'[t] = handleOf[t]
  BY <1>1, Living, Untouched DEF DelayEnds, ghosts, structVars, stackVars
<1>7. Fields(t) = Own(t) /\ stateLock[self[t]] = Lock(t) /\ Handle(self[t]) = handleOf[t]
  BY <1>1, Living
<1>5. /\ ThreadTypes' /\ NoneMade /\ NamesKept /\ EndsKept /\ LocksKept /\ AimsKept /\ asked' = asked
      /\ \A v \in Threads \ {t} : Idle(v)
  BY <1>1 DEF DelayEnds, localVars, ghosts, cancelVars, stackVars, structVars, ThreadTypes,
     NoneMade, NamesKept, EndsKept,
     LocksKept, AimsKept, Idle, Places, Ways, Settings
<1>6. Local(t)'
  <2>1. Place(t)'
    BY <1>1, <1>2, <1>7 DEF DelayEnds, localVars, ghosts, cancelVars, ThreadTypes, Writes,
       FieldNames, Local, Place
  <2>2. Asked(t)'
    BY <1>1, <1>2, <1>7 DEF DelayEnds, localVars, ghosts, cancelVars, ThreadTypes, Writes,
       FieldNames, Local, Place, Asked
  <2>3. Request(t)'
    BY <1>1, <1>2, <1>7 DEF DelayEnds, localVars, ghosts, cancelVars, ThreadTypes, Writes,
       FieldNames, Local, Place, Request
  <2>4. Async(t)'
    BY <1>1, <1>2, <1>7 DEF DelayEnds, localVars, ghosts, cancelVars, ThreadTypes, Writes,
       FieldNames, Local, Place, Async
  <2>5. Exits(t)'
    BY <1>1, <1>2, <1>7 DEF DelayEnds, localVars, ghosts, cancelVars, ThreadTypes, Writes,
       FieldNames, Local, Place, Exits
  <2> QED
    BY <2>1, <2>2, <2>3, <2>4, <2>5 DEF Local
<1>10. ~Pursued(t)
  BY NotPursued DEF DelayEnds
<1> QED
  BY <1>1, <1>2, <1>5, <1>6, <1>10, OwnStep DEF Mutable

\* pthread_setcancelstate or pthread_setcanceltype is called.
LEMMA SetCallKeeps ==
  ASSUME IInv, ~AsyncMeetsCall, NEW t \in Threads, NEW w \in Settings, SetCall(t, w)
  PROVE  IInv'
<1>1. StructTypes /\ ThreadTypes /\ Owners /\ Local(t) /\ self[t] # Null /\ pc[t] # "ended"
  BY DEF IInv, SetCall, MayCall, Local, Place
<1>2. Writes(t, {}) /\ Own(t)' = Own(t) /\ Lock(t)' = Lock(t) /\ Held(t) /\ Held(t)'
      /\ handleOf'[t] = handleOf[t]
  BY <1>1, Living, Untouched DEF SetCall, MayCall, ghosts, structVars, stackVars
<1>7. Fields(t) = Own(t) /\ stateLock[self[t]] = Lock(t) /\ Handle(self[t]) = handleOf[t]
  BY <1>1, Living
<1>5. /\ ThreadTypes' /\ NoneMade /\ NamesKept /\ EndsKept /\ LocksKept /\ AimsKept /\ asked' = asked
      /\ \A v \in Threads \ {t} : Idle(v)
  BY <1>1 DEF SetCall, MayCall, localVars, ghosts, cancelVars, stackVars, structVars,
     ThreadTypes, NoneMade, NamesKept, EndsKept,
     LocksKept, AimsKept, Idle, Places, Ways, Settings
<1>6. Local(t)'
  <2>1. Place(t)'
    BY <1>1, <1>2, <1>7 DEF SetCall, MayCall, localVars, ghosts, cancelVars, ThreadTypes,
       Writes, FieldNames, Settings, Local, Place
  <2>2. Asked(t)'
    BY <1>1, <1>2, <1>7 DEF SetCall, MayCall, localVars, ghosts, cancelVars, ThreadTypes,
       Writes, FieldNames, Settings, Local, Place, Asked
  <2>3. Request(t)'
    BY <1>1, <1>2, <1>7 DEF SetCall, MayCall, localVars, ghosts, cancelVars, ThreadTypes,
       Writes, FieldNames, Settings, Local, Place, Request
  <2>4. Async(t)'
    BY <1>1, <1>2, <1>7 DEF SetCall, MayCall, localVars, ghosts, cancelVars, ThreadTypes,
       Writes, FieldNames, Settings, Local, Place, Async
  <2>5. Exits(t)'
    BY <1>1, <1>2, <1>7 DEF SetCall, MayCall, localVars, ghosts, cancelVars, ThreadTypes,
       Writes, FieldNames, Settings, Local, Place, Exits
  <2> QED
    BY <2>1, <2>2, <2>3, <2>4, <2>5 DEF Local
<1>10. ~Pursued(t)
  BY <1>1, NotTargeted DEF SetCall, MayCall, Settings
<1> QED
  BY <1>1, <1>2, <1>5, <1>6, <1>10, OwnStep DEF Mutable

\* A thread cancels itself at once: that it was asked to, its own call says.
LEMMA CancelSelfKeeps ==
  ASSUME IInv, NEW t \in Threads, CancelSelf(t)
  PROVE  IInv'
<1>1. StructTypes /\ ThreadTypes /\ Owners /\ Local(t) /\ self[t] # Null /\ pc[t] # "ended"
  BY DEF IInv, CancelSelf, BeginsCanceling, Act, Asynchronous, Local, Place
<1>2. Own(t)' = [Own(t) EXCEPT !.state = Canceling, !.enabled = FALSE]
      /\ Lock(t)' = Lock(t) /\ Lock(t) = NoThread
  BY <1>1, Living DEF CancelSelf, BeginsCanceling, Act, Asynchronous, Own, Lock, stackVars,
     ghosts, StructTypes
<1>3. Writes(t, {"state", "enabled"}) /\ Own(t)'.state = Canceling /\ ~Own(t)'.enabled
  BY <1>1, <1>2, Living DEF CancelSelf, BeginsCanceling, Act, Asynchronous, Writes,
     stackVars, ghosts, StructTypes, Typed, States, FieldNames
<1>4. Held(t) /\ Held(t)' /\ handleOf'[t] = handleOf[t]
  BY <1>1, <1>3, Living, WritesOne, ZenonT(60) DEF CancelSelf, BeginsCanceling, Act, Asynchronous,
     Writes, Mutable
<1>7. Fields(t) = Own(t) /\ stateLock[self[t]] = Lock(t) /\ Handle(self[t]) = handleOf[t]
  BY <1>1, Living
<1>8. t \in asked
  BY <1>1, <1>7, Living DEF IInv, CancelSelf, Naming, Target, Owners, Own
<1>5. /\ ThreadTypes' /\ NoneMade /\ NamesKept /\ EndsKept /\ LocksKept /\ AimsKept /\ asked' = asked
      /\ \A v \in Threads \ {t} : Idle(v)
  BY <1>1 DEF CancelSelf, BeginsCanceling, Act, Asynchronous, localVars, ghosts, cancelVars,
     stackVars, structVars, ThreadTypes, NoneMade, NamesKept, EndsKept,
     LocksKept, AimsKept, Idle, Places, Ways, Settings, Local, Place, Asked
<1>6. Local(t)'
  <2>1. Place(t)'
    BY <1>1, <1>2, <1>3, <1>4, <1>7, <1>8 DEF CancelSelf, BeginsCanceling, Act, Asynchronous,
       localVars, ghosts, cancelVars, ThreadTypes, Writes, FieldNames, Local, Place
  <2>2. Asked(t)'
    BY <1>1, <1>2, <1>3, <1>4, <1>7, <1>8 DEF CancelSelf, BeginsCanceling, Act, Asynchronous,
       localVars, ghosts, cancelVars, ThreadTypes, Writes, FieldNames, Local, Place, Asked
  <2>3. Request(t)'
    BY <1>1, <1>2, <1>3, <1>4, <1>7, <1>8 DEF CancelSelf, BeginsCanceling, Act, Asynchronous,
       localVars, ghosts, cancelVars, ThreadTypes, Writes, FieldNames, Local, Place, Request
  <2>4. Async(t)'
    BY <1>1, <1>2, <1>3, <1>4, <1>7, <1>8 DEF CancelSelf, BeginsCanceling, Act, Asynchronous,
       localVars, ghosts, cancelVars, ThreadTypes, Writes, FieldNames, Local, Place, Async
  <2>5. Exits(t)'
    BY <1>1, <1>2, <1>3, <1>4, <1>7, <1>8 DEF CancelSelf, BeginsCanceling, Act, Asynchronous,
       localVars, ghosts, cancelVars, ThreadTypes, Writes, FieldNames, Local, Place, Exits
  <2> QED
    BY <2>1, <2>2, <2>3, <2>4, <2>5 DEF Local
<1>10. ~Pursued(t)
  BY NotPursued DEF CancelSelf
<1>11. Own(t)'.state >= Canceling
  BY <1>3
<1> QED
  BY <1>1, <1>2, <1>3, <1>4, <1>8, <1>5, <1>6, <1>10, <1>11, OwnStep DEF Mutable

\* pthread_testcancel acts on the request under stateLock,
LEMMA TestCancelActs ==
  ASSUME IInv, NEW t \in Threads, TestCancelLocked(t), Fields(t).enabled
  PROVE  IInv'
<1>1. StructTypes /\ ThreadTypes /\ Owners /\ Local(t) /\ self[t] # Null /\ pc[t] # "ended"
  BY DEF IInv, TestCancelLocked, Act, Local, Place
<1>9. /\ tp' = [tp EXCEPT ![self[t]].state = Canceling, ![self[t]].enabled = FALSE, ![self[t]].cancelEvent = FALSE]
      /\ UNCHANGED <<heap, reuseTop, reuseBottom, stateLock, handleOf>>
      /\ stateLock[self[t]] = NoThread
  BY <1>1, Living DEF TestCancelLocked, Act, ghosts, stackVars
<1>2. Own(t)' = [Own(t) EXCEPT !.state = Canceling, !.enabled = FALSE, !.cancelEvent = FALSE]
      /\ Lock(t)' = Lock(t) /\ Lock(t) = NoThread
  BY <1>1, <1>9, Living DEF Own, Lock, StructTypes
<1>3. /\ Writes(t, {"state", "enabled", "cancelEvent"})
      /\ Own(t)'.state = Canceling
      /\ ~Own(t)'.enabled
      /\ ~Own(t)'.cancelEvent
  <2>1. \A n \in FieldNames \ {"state", "enabled", "cancelEvent"} : Own(t)'[n] = Own(t)[n]
    BY <1>1, <1>2, Living DEF FieldNames
  <2>2. /\ DOMAIN Own(t)' = FieldNames
        /\ Own(t)'.state \in States
        /\ Own(t)'.state = Canceling
        /\ ~Own(t)'.enabled
        /\ ~Own(t)'.cancelEvent
    BY <1>1, <1>2, Living DEF FieldNames, States, StructTypes, Typed
  <2>3. Own(t)'.exitStatus = Own(t).exitStatus /\ Own(t).exitStatus \in Threads \union {Null, Canceled}
    BY <1>1, <2>1, Living DEF FieldNames, StructTypes, Typed
  <2>4. DOMAIN tp' = Structs /\ \A q \in Structs \ {self[t]} : tp'[q] = tp[q]
    BY <1>1, <1>9 DEF StructTypes
  <2> QED
    BY <1>1, <1>9, <2>1, <2>2, <2>3, <2>4, Living DEF Writes, StructTypes
<1>4. Held(t) /\ Held(t)' /\ handleOf'[t] = handleOf[t]
  <2>1. {"state", "enabled", "cancelEvent"} \in SUBSET Mutable
    BY DEF Mutable
  <2> QED
    BY <1>1, <1>3, <2>1, Living, WritesOne DEF Writes
<1>7. Fields(t) = Own(t) /\ stateLock[self[t]] = Lock(t) /\ Handle(self[t]) = handleOf[t]
  BY <1>1, Living
<1>5. /\ ThreadTypes' /\ NoneMade /\ NamesKept /\ EndsKept /\ LocksKept /\ AimsKept /\ asked' = asked
      /\ \A v \in Threads \ {t} : Idle(v)
  BY <1>1 DEF TestCancelLocked, Act, localVars, ghosts, cancelVars, stackVars, structVars,
     ThreadTypes, NoneMade, NamesKept, EndsKept,
     LocksKept, AimsKept, Idle, Places, Ways, Settings, Local, Place, Asked
<1>6. Local(t)'
  <2>1. Place(t)'
    BY <1>1, <1>2, <1>3, <1>4, <1>7 DEF TestCancelLocked, Act, localVars, ghosts, cancelVars,
       ThreadTypes, Writes, FieldNames, Local, Place
  <2>2. Asked(t)'
    BY <1>1, <1>2, <1>3, <1>4, <1>7 DEF TestCancelLocked, Act, localVars, ghosts, cancelVars,
       ThreadTypes, Writes, FieldNames, Local, Place, Asked
  <2>3. Request(t)'
    BY <1>1, <1>2, <1>3, <1>4, <1>7 DEF TestCancelLocked, Act, localVars, ghosts, cancelVars,
       ThreadTypes, Writes, FieldNames, Local, Place, Request
  <2>4. Async(t)'
    BY <1>1, <1>2, <1>3, <1>4, <1>7 DEF TestCancelLocked, Act, localVars, ghosts, cancelVars,
       ThreadTypes, Writes, FieldNames, Local, Place, Async
  <2>5. Exits(t)'
    BY <1>1, <1>2, <1>3, <1>4, <1>7 DEF TestCancelLocked, Act, localVars, ghosts, cancelVars,
       ThreadTypes, Writes, FieldNames, Local, Place, Exits
  <2> QED
    BY <2>1, <2>2, <2>3, <2>4, <2>5 DEF Local
<1>10. ~Pursued(t)
  BY NotPursued DEF TestCancelLocked
<1>11. Own(t)'.state >= Canceling
  BY <1>3
<1> QED
  BY <1>1, <1>2, <1>3, <1>4, <1>5, <1>6, <1>10, <1>11, OwnStep DEF Mutable

\* or leaves it, as cancellation is disabled.
LEMMA TestCancelDisabled ==
  ASSUME IInv, NEW t \in Threads, TestCancelLocked(t), ~Fields(t).enabled
  PROVE  IInv'
<1>1. StructTypes /\ ThreadTypes /\ Owners /\ Local(t) /\ self[t] # Null /\ pc[t] # "ended"
  BY DEF IInv, TestCancelLocked, Act, Local, Place
<1>2. Writes(t, {}) /\ Own(t)' = Own(t) /\ Lock(t)' = Lock(t) /\ Held(t) /\ Held(t)'
      /\ handleOf'[t] = handleOf[t]
  BY <1>1, Living, Untouched DEF TestCancelLocked, Act, ghosts, structVars, stackVars
<1>7. Fields(t) = Own(t) /\ stateLock[self[t]] = Lock(t) /\ Handle(self[t]) = handleOf[t]
  BY <1>1, Living
<1>5. /\ ThreadTypes' /\ NoneMade /\ NamesKept /\ EndsKept /\ LocksKept /\ AimsKept /\ asked' = asked
      /\ \A v \in Threads \ {t} : Idle(v)
  BY <1>1 DEF TestCancelLocked, Act, localVars, ghosts, cancelVars, stackVars, structVars,
     ThreadTypes, NoneMade, NamesKept, EndsKept,
     LocksKept, AimsKept, Idle, Places, Ways, Settings, Local, Place, Asked
<1>6. Local(t)'
  <2>1. Place(t)'
    BY <1>1, <1>2, <1>7 DEF TestCancelLocked, Act, localVars, ghosts, cancelVars,
       ThreadTypes, Writes, FieldNames, Local, Place
  <2>2. Asked(t)'
    BY <1>1, <1>2, <1>7 DEF TestCancelLocked, Act, localVars, ghosts, cancelVars,
       ThreadTypes, Writes, FieldNames, Local, Place, Asked
  <2>3. Request(t)'
    BY <1>1, <1>2, <1>7 DEF TestCancelLocked, Act, localVars, ghosts, cancelVars,
       ThreadTypes, Writes, FieldNames, Local, Place, Request
  <2>4. Async(t)'
    BY <1>1, <1>2, <1>7 DEF TestCancelLocked, Act, localVars, ghosts, cancelVars,
       ThreadTypes, Writes, FieldNames, Local, Place, Async
  <2>5. Exits(t)'
    BY <1>1, <1>2, <1>7 DEF TestCancelLocked, Act, localVars, ghosts, cancelVars,
       ThreadTypes, Writes, FieldNames, Local, Place, Exits
  <2> QED
    BY <2>1, <2>2, <2>3, <2>4, <2>5 DEF Local
<1>10. ~Pursued(t)
  BY NotPursued DEF TestCancelLocked
<1> QED
  BY <1>1, <1>2, <1>5, <1>6, <1>10, OwnStep DEF Mutable

\* The wait of pthread_join resets the event: the state tells of the request.
LEMMA JoinCancelledKeeps ==
  ASSUME IInv, NEW t \in Threads, JoinCancelled(t)
  PROVE  IInv'
<1>1. StructTypes /\ ThreadTypes /\ Owners /\ Local(t) /\ self[t] # Null /\ pc[t] # "ended"
  BY DEF IInv, JoinCancelled, Local, Place
<1>2. Own(t)' = [Own(t) EXCEPT !.cancelEvent = FALSE]
      /\ Lock(t)' = Lock(t)
  BY <1>1, Living DEF JoinCancelled, Own, Lock, stackVars, ghosts, StructTypes
<1>3. Writes(t, {"cancelEvent"}) /\ ~Own(t)'.cancelEvent
  BY <1>1, <1>2, Living DEF JoinCancelled, Writes, stackVars, ghosts, StructTypes, Typed,
     States, FieldNames
<1>4. Held(t) /\ Held(t)' /\ handleOf'[t] = handleOf[t]
  BY <1>1, <1>3, Living, WritesOne, ZenonT(60) DEF JoinCancelled, Writes, Mutable
<1>7. Fields(t) = Own(t) /\ stateLock[self[t]] = Lock(t) /\ Handle(self[t]) = handleOf[t]
  BY <1>1, Living
<1>5. /\ ThreadTypes' /\ NoneMade /\ NamesKept /\ EndsKept /\ LocksKept /\ AimsKept /\ asked' = asked
      /\ \A v \in Threads \ {t} : Idle(v)
  BY <1>1 DEF JoinCancelled, localVars, ghosts, cancelVars, stackVars, structVars,
     ThreadTypes, NoneMade, NamesKept, EndsKept,
     LocksKept, AimsKept, Idle, Places, Ways, Settings
<1>6. Local(t)'
  <2>1. Place(t)'
    BY <1>1, <1>2, <1>3, <1>4, <1>7 DEF JoinCancelled, localVars, ghosts, cancelVars,
       ThreadTypes, Writes, FieldNames, Local, Place
  <2>2. Asked(t)'
    BY <1>1, <1>2, <1>3, <1>4, <1>7 DEF JoinCancelled, localVars, ghosts, cancelVars,
       ThreadTypes, Writes, FieldNames, Local, Place, Asked
  <2>3. Request(t)'
    BY <1>1, <1>2, <1>3, <1>4, <1>7 DEF JoinCancelled, localVars, ghosts, cancelVars,
       ThreadTypes, Writes, FieldNames, Local, Place, Request
  <2>4. Async(t)'
    BY <1>1, <1>2, <1>3, <1>4, <1>7 DEF JoinCancelled, localVars, ghosts, cancelVars,
       ThreadTypes, Writes, FieldNames, Local, Place, Async
  <2>5. Exits(t)'
    BY <1>1, <1>2, <1>3, <1>4, <1>7 DEF JoinCancelled, localVars, ghosts, cancelVars,
       ThreadTypes, Writes, FieldNames, Local, Place, Exits
  <2> QED
    BY <2>1, <2>2, <2>3, <2>4, <2>5 DEF Local
<1>10. ~Pursued(t)
  BY NotPursued DEF JoinCancelled
<1> QED
  BY <1>1, <1>2, <1>3, <1>4, <1>5, <1>6, <1>10, OwnStep DEF Mutable

\* A cancelled wait acts on the request,
LEMMA WaitCancelled ==
  ASSUME IInv, NEW t \in Threads, WaitActs(t), Fields(t).state < Canceling
  PROVE  IInv'
<1>1. StructTypes /\ ThreadTypes /\ Owners /\ Local(t) /\ self[t] # Null /\ pc[t] # "ended"
  BY DEF IInv, WaitActs, BeginsCanceling, Act, Local, Place
<1>9. /\ tp' = [tp EXCEPT ![self[t]].state = Canceling, ![self[t]].enabled = FALSE]
      /\ UNCHANGED <<heap, reuseTop, reuseBottom, stateLock, handleOf>>
      /\ stateLock[self[t]] = NoThread
  BY <1>1, Living DEF WaitActs, BeginsCanceling, Act, ghosts, stackVars
<1>2. Own(t)' = [Own(t) EXCEPT !.state = Canceling, !.enabled = FALSE]
      /\ Lock(t)' = Lock(t) /\ Lock(t) = NoThread
  BY <1>1, <1>9, Living DEF Own, Lock, StructTypes
<1>3. Writes(t, {"state", "enabled"}) /\ Own(t)'.state = Canceling /\ ~Own(t)'.enabled
  <2>1. \A n \in FieldNames \ {"state", "enabled"} : Own(t)'[n] = Own(t)[n]
    BY <1>1, <1>2, Living DEF FieldNames
  <2>2. /\ DOMAIN Own(t)' = FieldNames
        /\ Own(t)'.state \in States
        /\ Own(t)'.state = Canceling
        /\ ~Own(t)'.enabled
    BY <1>1, <1>2, Living DEF FieldNames, States, StructTypes, Typed
  <2>3. Own(t)'.exitStatus = Own(t).exitStatus /\ Own(t).exitStatus \in Threads \union {Null, Canceled}
    BY <1>1, <2>1, Living DEF FieldNames, StructTypes, Typed
  <2>4. DOMAIN tp' = Structs /\ \A q \in Structs \ {self[t]} : tp'[q] = tp[q]
    BY <1>1, <1>9 DEF StructTypes
  <2> QED
    BY <1>1, <1>9, <2>1, <2>2, <2>3, <2>4, Living DEF Writes, StructTypes
<1>4. Held(t) /\ Held(t)' /\ handleOf'[t] = handleOf[t]
  <2>1. {"state", "enabled"} \in SUBSET Mutable
    BY DEF Mutable
  <2> QED
    BY <1>1, <1>3, <2>1, Living, WritesOne DEF Writes
<1>7. Fields(t) = Own(t) /\ stateLock[self[t]] = Lock(t) /\ Handle(self[t]) = handleOf[t]
  BY <1>1, Living
<1>5. /\ ThreadTypes' /\ NoneMade /\ NamesKept /\ EndsKept /\ LocksKept /\ AimsKept /\ asked' = asked
      /\ \A v \in Threads \ {t} : Idle(v)
  BY <1>1 DEF WaitActs, BeginsCanceling, Act, localVars, ghosts, cancelVars, stackVars,
     structVars, ThreadTypes, NoneMade, NamesKept, EndsKept,
     LocksKept, AimsKept, Idle, Places, Ways, Settings, Local, Place, Asked
<1>6. Local(t)'
  <2>1. Place(t)'
    BY <1>1, <1>2, <1>3, <1>4, <1>7 DEF WaitActs, BeginsCanceling, Act, localVars, ghosts,
       cancelVars, ThreadTypes, Writes, FieldNames, Local, Place
  <2>2. Asked(t)'
    BY <1>1, <1>2, <1>3, <1>4, <1>7 DEF WaitActs, BeginsCanceling, Act, localVars, ghosts,
       cancelVars, ThreadTypes, Writes, FieldNames, Local, Place, Asked
  <2>3. Request(t)'
    BY <1>1, <1>2, <1>3, <1>4, <1>7 DEF WaitActs, BeginsCanceling, Act, localVars, ghosts,
       cancelVars, ThreadTypes, Writes, FieldNames, Local, Place, Request
  <2>4. Async(t)'
    BY <1>1, <1>2, <1>3, <1>4, <1>7 DEF WaitActs, BeginsCanceling, Act, localVars, ghosts,
       cancelVars, ThreadTypes, Writes, FieldNames, Local, Place, Async
  <2>5. Exits(t)'
    BY <1>1, <1>2, <1>3, <1>4, <1>7 DEF WaitActs, BeginsCanceling, Act, localVars, ghosts,
       cancelVars, ThreadTypes, Writes, FieldNames, Local, Place, Exits
  <2> QED
    BY <2>1, <2>2, <2>3, <2>4, <2>5 DEF Local
<1>10. ~Pursued(t)
  BY NotPursued DEF WaitActs
<1>11. Own(t)'.state >= Canceling
  BY <1>3
<1> QED
  BY <1>1, <1>2, <1>3, <1>4, <1>5, <1>6, <1>10, <1>11, OwnStep DEF Mutable

\* or finds that pthread_kill was there before.
LEMMA WaitFails ==
  ASSUME IInv, NEW t \in Threads, WaitActs(t), ~(Fields(t).state < Canceling)
  PROVE  IInv'
<1>1. StructTypes /\ ThreadTypes /\ Owners /\ Local(t) /\ self[t] # Null /\ pc[t] # "ended"
  BY DEF IInv, WaitActs, BeginsCanceling, Act, Local, Place
<1>2. Writes(t, {}) /\ Own(t)' = Own(t) /\ Lock(t)' = Lock(t) /\ Held(t) /\ Held(t)'
      /\ handleOf'[t] = handleOf[t]
  BY <1>1, Living, Untouched DEF WaitActs, BeginsCanceling, Act, ghosts, structVars, stackVars
<1>7. Fields(t) = Own(t) /\ stateLock[self[t]] = Lock(t) /\ Handle(self[t]) = handleOf[t]
  BY <1>1, Living
<1>5. /\ ThreadTypes' /\ NoneMade /\ NamesKept /\ EndsKept /\ LocksKept /\ AimsKept /\ asked' = asked
      /\ \A v \in Threads \ {t} : Idle(v)
  BY <1>1 DEF WaitActs, BeginsCanceling, Act, localVars, ghosts, cancelVars, stackVars,
     structVars, ThreadTypes, NoneMade, NamesKept, EndsKept,
     LocksKept, AimsKept, Idle, Places, Ways, Settings, Local, Place, Asked
<1>6. Local(t)'
  <2>1. Place(t)'
    BY <1>1, <1>2, <1>7 DEF WaitActs, BeginsCanceling, Act, localVars, ghosts, cancelVars,
       ThreadTypes, Writes, FieldNames, Local, Place
  <2>2. Asked(t)'
    BY <1>1, <1>2, <1>7 DEF WaitActs, BeginsCanceling, Act, localVars, ghosts, cancelVars,
       ThreadTypes, Writes, FieldNames, Local, Place, Asked
  <2>3. Request(t)'
    BY <1>1, <1>2, <1>7 DEF WaitActs, BeginsCanceling, Act, localVars, ghosts, cancelVars,
       ThreadTypes, Writes, FieldNames, Local, Place, Request
  <2>4. Async(t)'
    BY <1>1, <1>2, <1>7 DEF WaitActs, BeginsCanceling, Act, localVars, ghosts, cancelVars,
       ThreadTypes, Writes, FieldNames, Local, Place, Async
  <2>5. Exits(t)'
    BY <1>1, <1>2, <1>7 DEF WaitActs, BeginsCanceling, Act, localVars, ghosts, cancelVars,
       ThreadTypes, Writes, FieldNames, Local, Place, Exits
  <2> QED
    BY <2>1, <2>2, <2>3, <2>4, <2>5 DEF Local
<1>10. ~Pursued(t)
  BY NotPursued DEF WaitActs
<1> QED
  BY <1>1, <1>2, <1>5, <1>6, <1>10, OwnStep DEF Mutable

\* A request that waited for the thread to be cancelable at any time takes effect,
LEMMA SetActs ==
  ASSUME IInv, NEW t \in Threads, SetDone(t),
         /\ how[t] \in {"enable", "async"}
         /\ SetFields(Fields(t), how[t]).enabled
         /\ SetFields(Fields(t), how[t]).async
         /\ SetFields(Fields(t), how[t]).cancelEvent
  PROVE  IInv'
<1>1. StructTypes /\ ThreadTypes /\ Owners /\ Local(t) /\ self[t] # Null /\ pc[t] # "ended"
  BY DEF IInv, SetDone, Act, SetFields, Local, Place
<1>9. /\ tp' = [tp EXCEPT ![self[t]] =
            [SetFields(Fields(t), how[t]) EXCEPT
                !.state = Canceling, !.enabled = FALSE, !.cancelEvent = FALSE]]
      /\ UNCHANGED <<heap, reuseTop, reuseBottom, stateLock, handleOf>>
      /\ stateLock[self[t]] = NoThread
  BY <1>1, Living DEF SetDone, Act, SetFields, ghosts, stackVars
<1>2. Own(t)' = [SetFields(Own(t), how[t]) EXCEPT !.state = Canceling, !.enabled = FALSE, !.cancelEvent = FALSE]
      /\ Lock(t)' = Lock(t) /\ Lock(t) = NoThread
  BY <1>1, <1>9, Living DEF Own, Lock, StructTypes, SetFields
<1>3. /\ Writes(t, {"state", "enabled", "async", "cancelEvent"})
      /\ Own(t)'.state = Canceling
      /\ ~Own(t)'.enabled
      /\ ~Own(t)'.cancelEvent
  <2>1. \A n \in FieldNames \ {"state", "enabled", "async", "cancelEvent"} : Own(t)'[n] = Own(t)[n]
    BY <1>1, <1>2, Living DEF FieldNames, SetFields
  <2>2. /\ DOMAIN Own(t)' = FieldNames
        /\ Own(t)'.state \in States
        /\ Own(t)'.state = Canceling
        /\ ~Own(t)'.enabled
        /\ ~Own(t)'.cancelEvent
    BY <1>1, <1>2, Living DEF FieldNames, States, StructTypes, Typed, SetFields
  <2>3. Own(t)'.exitStatus = Own(t).exitStatus /\ Own(t).exitStatus \in Threads \union {Null, Canceled}
    BY <1>1, <2>1, Living DEF FieldNames, StructTypes, Typed
  <2>4. DOMAIN tp' = Structs /\ \A q \in Structs \ {self[t]} : tp'[q] = tp[q]
    BY <1>1, <1>9 DEF StructTypes
  <2> QED
    BY <1>1, <1>9, <2>1, <2>2, <2>3, <2>4, Living DEF Writes, StructTypes
<1>4. Held(t) /\ Held(t)' /\ handleOf'[t] = handleOf[t]
  <2>1. {"state", "enabled", "async", "cancelEvent"} \in SUBSET Mutable
    BY DEF Mutable
  <2> QED
    BY <1>1, <1>3, <2>1, Living, WritesOne DEF Writes
<1>7. Fields(t) = Own(t) /\ stateLock[self[t]] = Lock(t) /\ Handle(self[t]) = handleOf[t]
  BY <1>1, Living
<1>5. /\ ThreadTypes' /\ NoneMade /\ NamesKept /\ EndsKept /\ LocksKept /\ AimsKept /\ asked' = asked
      /\ \A v \in Threads \ {t} : Idle(v)
  BY <1>1 DEF SetDone, Act, SetFields, localVars, ghosts, cancelVars, stackVars, structVars,
     ThreadTypes, NoneMade, NamesKept, EndsKept,
     LocksKept, AimsKept, Idle, Places, Ways, Settings, Local, Place, Asked
<1>6. Local(t)'
  <2>1. Place(t)'
    BY <1>1, <1>2, <1>3, <1>4, <1>7 DEF SetDone, Act, SetFields, localVars, ghosts,
       cancelVars, ThreadTypes, Writes, FieldNames, Local, Place
  <2>2. Asked(t)'
    BY <1>1, <1>2, <1>3, <1>4, <1>7 DEF SetDone, Act, SetFields, localVars, ghosts,
       cancelVars, ThreadTypes, Writes, FieldNames, Local, Place, Asked
  <2>3. Request(t)'
    BY <1>1, <1>2, <1>3, <1>4, <1>7 DEF SetDone, Act, SetFields, localVars, ghosts,
       cancelVars, ThreadTypes, Writes, FieldNames, Local, Place, Request
  <2>4. Async(t)'
    BY <1>1, <1>2, <1>3, <1>4, <1>7 DEF SetDone, Act, SetFields, localVars, ghosts,
       cancelVars, ThreadTypes, Writes, FieldNames, Local, Place, Async
  <2>5. Exits(t)'
    BY <1>1, <1>2, <1>3, <1>4, <1>7 DEF SetDone, Act, SetFields, localVars, ghosts,
       cancelVars, ThreadTypes, Writes, FieldNames, Local, Place, Exits
  <2> QED
    BY <2>1, <2>2, <2>3, <2>4, <2>5 DEF Local
<1>10. ~Pursued(t)
  BY NotPursued DEF SetDone
<1>11. Own(t)'.state >= Canceling
  BY <1>3
<1> QED
  BY <1>1, <1>2, <1>3, <1>4, <1>5, <1>6, <1>10, <1>11, OwnStep DEF Mutable

\* so that none is pending when the field is set and nothing else happens.
LEMMA SetSets ==
  ASSUME IInv, NEW t \in Threads, SetDone(t),
         ~(/\ how[t] \in {"enable", "async"}
           /\ SetFields(Fields(t), how[t]).enabled
           /\ SetFields(Fields(t), how[t]).async
           /\ SetFields(Fields(t), how[t]).cancelEvent)
  PROVE  IInv'
<1>1. StructTypes /\ ThreadTypes /\ Owners /\ Local(t) /\ self[t] # Null /\ pc[t] # "ended"
  BY DEF IInv, SetDone, Act, SetFields, Local, Place
<1>9. /\ tp' = [tp EXCEPT ![self[t]] = SetFields(Fields(t), how[t])]
      /\ UNCHANGED <<heap, reuseTop, reuseBottom, stateLock, handleOf>>
      /\ stateLock[self[t]] = NoThread
  BY <1>1, Living DEF SetDone, Act, SetFields, ghosts, stackVars
<1>2. Own(t)' = SetFields(Own(t), how[t])
      /\ Lock(t)' = Lock(t) /\ Lock(t) = NoThread
  BY <1>1, <1>9, Living DEF Own, Lock, StructTypes, SetFields
<1>3. /\ Writes(t, {"enabled", "async"})
      /\ Own(t)'.enabled = (IF how[t] \in {"enable", "disable"} THEN how[t] = "enable" ELSE Own(t).enabled)
      /\ Own(t)'.async = (IF how[t] \in {"async", "deferred"} THEN how[t] = "async" ELSE Own(t).async)
  <2>1. \A n \in FieldNames \ {"enabled", "async"} : Own(t)'[n] = Own(t)[n]
    BY <1>1, <1>2, Living DEF FieldNames, SetFields
  <2>2. /\ DOMAIN Own(t)' = FieldNames
        /\ Own(t)'.state \in States
        /\ Own(t)'.enabled = (IF how[t] \in {"enable", "disable"} THEN how[t] = "enable" ELSE Own(t).enabled)
        /\ Own(t)'.async = (IF how[t] \in {"async", "deferred"} THEN how[t] = "async" ELSE Own(t).async)
    BY <1>1, <1>2, Living DEF FieldNames, States, StructTypes, Typed, SetFields
  <2>3. Own(t)'.exitStatus = Own(t).exitStatus /\ Own(t).exitStatus \in Threads \union {Null, Canceled}
    BY <1>1, <2>1, Living DEF FieldNames, StructTypes, Typed
  <2>4. DOMAIN tp' = Structs /\ \A q \in Structs \ {self[t]} : tp'[q] = tp[q]
    BY <1>1, <1>9 DEF StructTypes
  <2> QED
    BY <1>1, <1>9, <2>1, <2>2, <2>3, <2>4, Living DEF Writes, StructTypes
<1>4. Held(t) /\ Held(t)' /\ handleOf'[t] = handleOf[t]
  <2>1. {"enabled", "async"} \in SUBSET Mutable
    BY DEF Mutable
  <2> QED
    BY <1>1, <1>3, <2>1, Living, WritesOne DEF Writes
<1>7. Fields(t) = Own(t) /\ stateLock[self[t]] = Lock(t) /\ Handle(self[t]) = handleOf[t]
  BY <1>1, Living
<1>8. ~(Own(t)'.async /\ Own(t)'.enabled /\ Own(t)'.cancelEvent)
  <2>1. CASE how[t] \in {"enable", "async"}
    BY <1>2, <1>7, <2>1
  <2>2. CASE how[t] \in {"disable", "deferred"}
    BY <1>3, <2>2
  <2> QED
    BY <1>1, <2>1, <2>2 DEF Local, Async, SetDone, Settings
<1>5. /\ ThreadTypes' /\ NoneMade /\ NamesKept /\ EndsKept /\ LocksKept /\ AimsKept /\ asked' = asked
      /\ \A v \in Threads \ {t} : Idle(v)
  <2>1. /\ ThreadTypes' /\ NoneMade /\ asked' = asked
        /\ \A v \in Threads \ {t} : Idle(v)
    BY <1>1 DEF SetDone, Act, SetFields, localVars, ghosts, cancelVars, stackVars, structVars,
       ThreadTypes, NoneMade, Idle, Places, Ways
  <2>2. NamesKept /\ EndsKept /\ LocksKept /\ AimsKept
    BY <1>1 DEF SetDone, Act, SetFields, localVars, ghosts, cancelVars, stackVars, structVars,
       ThreadTypes, NamesKept, EndsKept, LocksKept, AimsKept, Places, Settings, Local, Place, Asked
  <2> QED
    BY <2>1, <2>2
<1>6. Local(t)'
  <2>1. Place(t)'
    BY <1>1, <1>2, <1>3, <1>4, <1>7, <1>8 DEF SetDone, Act, SetFields, localVars, ghosts,
       cancelVars, ThreadTypes, Writes, FieldNames, Local, Place
  <2>2. Asked(t)'
    BY <1>1, <1>2, <1>3, <1>4, <1>7, <1>8 DEF SetDone, Act, SetFields, localVars, ghosts,
       cancelVars, ThreadTypes, Writes, FieldNames, Local, Place, Asked
  <2>3. Request(t)'
    BY <1>1, <1>2, <1>3, <1>4, <1>7, <1>8 DEF SetDone, Act, SetFields, localVars, ghosts,
       cancelVars, ThreadTypes, Writes, FieldNames, Local, Place, Request
  <2>4. Async(t)'
    BY <1>1, <1>2, <1>3, <1>4, <1>7, <1>8 DEF SetDone, Act, SetFields, localVars, ghosts,
       cancelVars, ThreadTypes, Writes, FieldNames, Local, Place, Async
  <2>5. Exits(t)'
    BY <1>1, <1>2, <1>3, <1>4, <1>7, <1>8 DEF SetDone, Act, SetFields, localVars, ghosts,
       cancelVars, ThreadTypes, Writes, FieldNames, Local, Place, Exits
  <2> QED
    BY <2>1, <2>2, <2>3, <2>4, <2>5 DEF Local
<1>10. ~Pursued(t)
  BY NotPursued DEF SetDone
<1> QED
  BY <1>1, <1>2, <1>3, <1>4, <1>8, <1>5, <1>6, <1>10, OwnStep DEF Mutable

\* A joinable thread leaves its structure to pthread_join.
LEMMA LeaveJoinable ==
  ASSUME IInv, NEW t \in Threads, Leave(t), UNCHANGED cancelVars, ~Fields(t).detached
  PROVE  IInv'
<1>1. StructTypes /\ ThreadTypes /\ Owners /\ Local(t) /\ self[t] # Null /\ pc[t] # "ended"
  BY DEF IInv, Leave, Local, Place
<1>2. Writes(t, {}) /\ Own(t)' = Own(t) /\ Lock(t)' = Lock(t) /\ Held(t) /\ Held(t)'
      /\ handleOf'[t] = handleOf[t]
  BY <1>1, Living, Untouched DEF Leave, ghosts, structVars, stackVars
<1>7. Fields(t) = Own(t) /\ stateLock[self[t]] = Lock(t) /\ Handle(self[t]) = handleOf[t]
  BY <1>1, Living
<1>5. /\ ThreadTypes' /\ NoneMade /\ NamesKept /\ EndsKept /\ LocksKept /\ AimsKept /\ asked' = asked
      /\ \A v \in Threads \ {t} : Idle(v)
  BY <1>1 DEF Leave, localVars, ghosts, cancelVars, stackVars, structVars, ThreadTypes,
     NoneMade, NamesKept, EndsKept,
     LocksKept, AimsKept, Idle, Places, Ways, Settings
<1>6. Local(t)'
  <2>1. Place(t)'
    BY <1>1, <1>2, <1>7 DEF Leave, localVars, ghosts, cancelVars, ThreadTypes, Writes,
       FieldNames, Local, Place
  <2>2. Asked(t)'
    BY <1>1, <1>2, <1>7 DEF Leave, localVars, ghosts, cancelVars, ThreadTypes, Writes,
       FieldNames, Local, Place, Asked
  <2>3. Request(t)'
    BY <1>1, <1>2, <1>7 DEF Leave, localVars, ghosts, cancelVars, ThreadTypes, Writes,
       FieldNames, Local, Place, Request
  <2>4. Async(t)'
    BY <1>1, <1>2, <1>7 DEF Leave, localVars, ghosts, cancelVars, ThreadTypes, Writes,
       FieldNames, Local, Place, Async
  <2>5. Exits(t)'
    BY <1>1, <1>2, <1>7 DEF Leave, localVars, ghosts, cancelVars, ThreadTypes, Writes,
       FieldNames, Local, Place, Exits
  <2> QED
    BY <2>1, <2>2, <2>3, <2>4, <2>5 DEF Local
<1>10. ~Pursued(t)
  BY NotPursued DEF Leave
<1> QED
  BY <1>1, <1>2, <1>5, <1>6, <1>10, OwnStep DEF Mutable

\* ptw32_threadStart writes PThreadStateRunning over what was there: no request,
\* as a pthread_cancel waits until it has run.
LEMMA StartKeeps ==
  ASSUME IInv, NEW t \in Threads, Start(t), UNCHANGED cancelVars
  PROVE  IInv'
<1>1. StructTypes /\ ThreadTypes /\ Owners /\ Local(t) /\ Held(t) /\ arg[t] = handleOf[t]
      /\ handleOf[t].p \in Structs
  BY DEF IInv, Start, Local, Place, ThreadTypes, StructTypes, Held
<1>2. /\ Own(t)' = [Own(t) EXCEPT !.state = Running] /\ Lock(t)' = Lock(t) /\ Lock(t) = NoThread
      /\ handleOf'[t] = handleOf[t]
  BY <1>1 DEF Start, Own, Lock, ghosts, StructTypes
<1>3. Writes(t, {"state"}) /\ Own(t)'.state = Running
  BY <1>1, <1>2 DEF Start, Writes, ghosts, StructTypes, Typed, States, FieldNames, Own
<1>4. Held(t)'
  BY <1>1, <1>3, WritesOne DEF Mutable
<1>5. /\ ThreadTypes' /\ NoneMade /\ NamesKept /\ EndsKept /\ LocksKept /\ AimsKept /\ asked' = asked
      /\ \A v \in Threads \ {t} : Idle(v)
  BY <1>1 DEF Start, ghosts, cancelVars, ThreadTypes, NoneMade, NamesKept, EndsKept,
     LocksKept, AimsKept,
         Idle, Places
<1>6. Local(t)'
  <2>1. Place(t)'
    BY <1>1, <1>2, <1>3, <1>4 DEF Local, Place, Start, ghosts, cancelVars, ThreadTypes,
       Writes, FieldNames
  <2>2. Asked(t)'
    BY <1>1, <1>2, <1>3, <1>4 DEF Local, Place, Asked, Start, ghosts, cancelVars,
       ThreadTypes, Writes, FieldNames
  <2>3. Request(t)'
    BY <1>1, <1>2, <1>3, <1>4 DEF Local, Place, Request, Start, ghosts, cancelVars,
       ThreadTypes, Writes, FieldNames
  <2>4. Async(t)'
    BY <1>1, <1>2, <1>3, <1>4 DEF Local, Place, Request, Async, Start, ghosts, cancelVars,
       ThreadTypes, Writes, FieldNames
  <2>5. Exits(t)'
    BY <1>1, <1>2, <1>3, <1>4 DEF Local, Place, Exits, Start, ghosts, cancelVars,
       ThreadTypes, Writes, FieldNames
  <2> QED
    BY <2>1, <2>2, <2>3, <2>4, <2>5 DEF Local
<1>10. ~Pursued(t)
  BY NotPursued DEF Start
<1>11. Own(t).state < Canceling
  BY <1>1 DEF Local, Request, Start
<1> QED
  BY <1>1, <1>2, <1>3, <1>4, <1>5, <1>6, <1>10, <1>11, OwnStep DEF Mutable

-----------------------------------------------------------------------------
(* The steps at which a thread works on a handle. *)

\* The structure that a thread names, and whose it is.
LEMMA TargetOf ==
  ASSUME IInv, NEW t \in Threads, pc[t] \in Named
  PROVE  \E u \in Threads :
           /\ u = Target(t) /\ Held(u) /\ handleOf[u] = arg[t] /\ arg[t].p \in Structs
           /\ tp[arg[t].p] = Own(u) /\ stateLock[arg[t].p] = Lock(u) /\ Own(u).threadH = u
           /\ Local(u) /\ DOMAIN Own(u) = FieldNames
<1>1. PICK u \in Threads : u = Target(t)
  BY DEF IInv, Naming
<1>2. Held(u) /\ handleOf[u] = arg[t] /\ Local(u) /\ Own(u).threadH = u
  BY <1>1 DEF IInv, Naming, Owners
<1>3. arg[t].p \in Structs
  BY <1>2 DEF IInv, Held, ThreadTypes, StructTypes
<1> QED
  BY <1>1, <1>2, <1>3 DEF Own, Lock, IInv, StructTypes, Typed

\* A handle of a thread.
LEMMA HandleOf ==
  ASSUME IInv, NEW h \in Handles, Valid(h)
  PROVE  \E u \in Threads :
           /\ handleOf[u] = h /\ Held(u) /\ h.p \in Structs /\ tp[h.p] = Own(u)
           /\ stateLock[h.p] = Lock(u) /\ Own(u).threadH = u /\ Local(u)
           /\ DOMAIN Own(u) = FieldNames
<1>1. PICK u \in Threads : handleOf[u] = h /\ h # NoHandle
  BY DEF Handles
<1>2. Held(u) /\ Local(u) /\ Own(u).threadH = u
  BY <1>1 DEF IInv, Held, Owners
<1>3. h.p \in Structs
  BY <1>1 DEF IInv, ThreadTypes, StructTypes
<1> QED
  BY <1>1, <1>2, <1>3 DEF Own, Lock, IInv, StructTypes, Typed

\* A thread begins to work on a handle.
LEMMA NamingBegins ==
  ASSUME IInv, NEW t \in Threads, NEW u \in Threads, Held(u), UNCHANGED <<structVars,
         ghosts>>,
         \A v \in Threads \ {t} : Idle(v), asked \subseteq asked',
         pc[t] = "user", pc'[t] \in {"join", "cancel", "kill"}, arg'[t] = handleOf[u],
         pc'[t] = "cancel" => u \in asked' /\ (u = t \/ ~Own(u).detached),
         pc'[t] # "cancel" => u # t /\ ~Own(u).detached,
         \A v \in Threads \ {t} : arg[v] = handleOf[u] =>
           /\ pc[v] \in {"join", "join_detach", "destroy"} => u = t
           /\ pc[v] \in Named /\ pc'[t] = "join" => v = u
  PROVE  \A v \in Threads : Naming(v)'
<1>1. /\ \A v \in Threads : (Held(v)' <=> Held(v)) /\ Own(v)' = Own(v)
      /\ handleOf' = handleOf /\ tp' = tp /\ killed' = killed
  BY DEF structVars, ghosts, Held, Valid, Own
<1>2. Target(t)' = u
  BY <1>1 DEF IInv, Owners, Target, Own
<1>3. Naming(t)'
  BY <1>1, <1>2 DEF Naming, Idle
<1>4. ASSUME NEW v \in Threads \ {t} PROVE Naming(v)'
  <2>1. Target(v)' = Target(v) /\ Naming(v)
    BY <1>1 DEF Target, Idle, IInv
  <2>2. SUFFICES ASSUME pc[v] \in Named PROVE Naming(v)'
    BY DEF Naming, Idle
  <2>3. PICK w \in Threads : w = Target(v)
    BY <2>1, <2>2 DEF Naming
  <2>4. pc[w] = "ended" => pc'[w] = "ended" /\ how'[w] = how[w]
    BY DEF Idle
  <2>5. pc'[w] = "start" => pc[w] = "start"
    BY DEF Idle
  <2>6. pc[v] \in {"join", "join_detach", "destroy"} =>
          \A x \in Threads \ {v, w} : pc'[x] \in Named => arg'[x] # arg[v]
    <3>1. \A x \in Threads \ {v, w, t} : pc[v] \in {"join", "join_detach", "destroy"} =>
            (pc'[x] \in Named => arg'[x] # arg[v])
      BY <2>1, <2>2, <2>3 DEF Naming, Idle
    <3>2. handleOf[w] = arg[v] /\ handleOf[u] # NoHandle
      BY <2>1, <2>2, <2>3 DEF Naming, Held
    <3>3. handleOf[w] = handleOf[u] => w = u
      BY <3>2 DEF IInv, Owners, HandlesUnique
    <3>4. pc[v] \in {"join", "join_detach", "destroy"} /\ t # w => arg'[t] # arg[v]
      BY <3>2, <3>3
    <3> QED
      BY <3>1, <3>4
  <2> QED
    BY <1>1, <2>1, <2>2, <2>3, <2>4, <2>5, <2>6 DEF Naming, Idle
<1> QED
  BY <1>3, <1>4

\* pthread_join begins: nobody else works on the handle.
LEMMA JoinKeeps ==
  ASSUME IInv, ~AsyncMeetsCall, NEW t \in Threads, NEW h \in Handles, Join(t, h), UNCHANGED cancelVars
  PROVE  IInv'
<1>1. StructTypes /\ ThreadTypes /\ Owners /\ Local(t) /\ self[t] # Null /\ pc[t] = "user"
  BY DEF IInv, Join, MayCall
<1>2. PICK u \in Threads : handleOf[u] = h /\ Held(u) /\ Own(u) = tp[h.p]
  BY HandleOf DEF Join, Joinable
<1>3. Writes(t, {}) /\ Own(t)' = Own(t) /\ Lock(t)' = Lock(t) /\ Held(t) /\ Held(t)'
      /\ handleOf'[t] = handleOf[t]
  BY <1>1, Living, Untouched DEF Join, ghosts
<1>4. /\ ThreadTypes' /\ NoneMade /\ EndsKept /\ LocksKept /\ AimsKept /\ asked' = asked
      /\ \A v \in Threads \ {t} : Idle(v)
  BY <1>1, <1>2 DEF Join, ghosts, cancelVars, structVars, ThreadTypes, NoneMade, EndsKept,
     LocksKept, AimsKept, Idle, Places, Held
<1>5. Fields(t) = Own(t) /\ Handle(self[t]) = handleOf[t]
  BY <1>1, Living
<1>6. Local(t)'
  BY <1>1, <1>2, <1>3, <1>5 DEF Local, Place, Asked, Request, Async, Exits, Join, MayCall,
     Settings,
     ghosts, cancelVars, ThreadTypes, Held
<1>7. \A v \in Threads : Naming(v)'
  <2>1. u # t /\ ~Own(u).detached
    BY <1>2, <1>5 DEF Join, Joinable
  <2>2. \A v \in Threads \ {t} : pc[v] \in Named => arg[v] # handleOf[u]
    BY <1>2 DEF Join, Using
  <2>3. pc'[t] = "join" /\ arg'[t] = handleOf[u] /\ asked \subseteq asked' /\ UNCHANGED <<structVars, ghosts>>
    BY <1>1, <1>2, <1>4 DEF Join, ThreadTypes, ghosts
  <2> QED
    BY <1>1, <1>2, <1>4, <2>1, <2>2, <2>3, NamingBegins
<1>8. (\A v \in Threads : Holding(v)') /\ (\A s \in Structs : Locking(s)')
  BY <1>1, <1>3, <1>4, LocksStay DEF IInv
<1>9. ~Pursued(t)
  BY <1>1, NotTargeted DEF Join, MayCall
<1>10. \A v \in Threads : Aimed(v)'
  BY <1>1, <1>3, <1>4, <1>9, AimedStays DEF AimsKept
<1> QED
  BY <1>3, <1>4, <1>6, <1>7, <1>8, <1>10, Step

\* pthread_cancel begins.
LEMMA CancelKeeps ==
  ASSUME IInv, ~AsyncMeetsCall, NEW t \in Threads, NEW h \in Handles, Cancel(t, h)
  PROVE  IInv'
<1>1. StructTypes /\ ThreadTypes /\ Owners /\ Local(t) /\ self[t] # Null /\ pc[t] = "user"
  BY DEF IInv, Cancel, MayCall
<1>2. PICK u \in Threads : handleOf[u] = h /\ Held(u) /\ Own(u) = tp[h.p]
  BY HandleOf DEF Cancel
<1>3. Writes(t, {}) /\ Own(t)' = Own(t) /\ Lock(t)' = Lock(t) /\ Held(t) /\ Held(t)'
      /\ handleOf'[t] = handleOf[t]
  BY <1>1, Living, Untouched DEF Cancel, ghosts
<1>4. /\ ThreadTypes' /\ NoneMade /\ EndsKept /\ LocksKept /\ AimsKept /\ asked \subseteq asked'
      /\ \A v \in Threads \ {t} : Idle(v)
  BY <1>1, <1>2 DEF Cancel, ghosts, structVars, ThreadTypes, NoneMade, EndsKept,
     LocksKept, AimsKept, Idle, Places, Held
<1>5. Fields(t) = Own(t) /\ Handle(self[t]) = handleOf[t]
  BY <1>1, Living
<1>6. Local(t)'
  BY <1>1, <1>2, <1>3, <1>4, <1>5 DEF Local, Place, Asked, Request, Async, Exits, Cancel,
     ghosts,
     ThreadTypes, Held
<1>7. \A v \in Threads : Naming(v)'
  <2>1. u = t \/ (~Own(u).detached /\ \A v \in Threads \ {t} :
                   arg[v] = handleOf[u] => pc[v] \notin {"join", "join_detach", "destroy"})
    <3>1. handleOf[u] = handleOf[t] => u = t
      BY <1>2 DEF IInv, Owners, HandlesUnique, Held
    <3> QED
      BY <1>2, <1>5, <3>1 DEF Cancel, MayName, Joinable, Using
  <2>2. u \in asked'
    BY <1>2 DEF Cancel
  <2>3. pc'[t] = "cancel" /\ arg'[t] = handleOf[u] /\ UNCHANGED <<structVars, ghosts>>
    BY <1>1, <1>2, <1>4 DEF Cancel, ThreadTypes, ghosts
  <2> QED
    BY <1>1, <1>2, <1>4, <2>1, <2>2, <2>3, NamingBegins
<1>8. (\A v \in Threads : Holding(v)') /\ (\A s \in Structs : Locking(s)')
  BY <1>1, <1>3, <1>4, LocksStay DEF IInv
<1>9. ~Pursued(t)
  BY <1>1, NotTargeted DEF Cancel, MayCall
<1>10. \A v \in Threads : Aimed(v)'
  BY <1>1, <1>3, <1>4, <1>9, AimedStays DEF AimsKept
<1> QED
  BY <1>3, <1>4, <1>6, <1>7, <1>8, <1>10, Step

\* pthread_kill begins.
LEMMA KillKeeps ==
  ASSUME IInv, ~AsyncMeetsCall, NEW t \in Threads, NEW h \in Handles, Kill(t, h)
  PROVE  IInv'
<1>1. StructTypes /\ ThreadTypes /\ Owners /\ Local(t) /\ self[t] # Null /\ pc[t] = "user"
  BY DEF IInv, Kill, MayCall
<1>2. PICK u \in Threads : handleOf[u] = h /\ Held(u) /\ Own(u) = tp[h.p]
  BY HandleOf DEF Kill
<1>3. Writes(t, {}) /\ Own(t)' = Own(t) /\ Lock(t)' = Lock(t) /\ Held(t) /\ Held(t)'
      /\ handleOf'[t] = handleOf[t]
  BY <1>1, Living, Untouched DEF Kill, ghosts
<1>4. /\ ThreadTypes' /\ NoneMade /\ EndsKept /\ LocksKept /\ AimsKept /\ asked \subseteq asked'
      /\ \A v \in Threads \ {t} : Idle(v)
  BY <1>1, <1>2 DEF Kill, ghosts, cancelVars, structVars, ThreadTypes, NoneMade, EndsKept,
     LocksKept, AimsKept, Idle, Places, Held
<1>5. Fields(t) = Own(t) /\ Handle(self[t]) = handleOf[t]
  BY <1>1, Living
<1>6. Local(t)'
  BY <1>1, <1>2, <1>3, <1>4, <1>5 DEF Local, Place, Asked, Request, Async, Exits, Kill,
     MayCall,
     Settings, ghosts, cancelVars, ThreadTypes, Held
<1>7. \A v \in Threads : Naming(v)'
  <2>1. u # t /\ ~Own(u).detached /\ \A v \in Threads \ {t} :
                   arg[v] = handleOf[u] => pc[v] \notin {"join", "join_detach", "destroy"}
    BY <1>2, <1>5 DEF Kill, MayName, Joinable, Using
  <2>2. pc'[t] = "kill" /\ arg'[t] = handleOf[u] /\ UNCHANGED <<structVars, ghosts>>
    BY <1>1, <1>2, <1>4 DEF Kill, ThreadTypes, ghosts
  <2> QED
    BY <1>1, <1>2, <1>4, <2>1, <2>2, NamingBegins
<1>8. (\A v \in Threads : Holding(v)') /\ (\A s \in Structs : Locking(s)')
  BY <1>1, <1>3, <1>4, LocksStay DEF IInv
<1>9. ~Pursued(t)
  BY <1>1, NotTargeted DEF Kill, MayCall
<1>10. \A v \in Threads : Aimed(v)'
  BY <1>1, <1>3, <1>4, <1>9, AimedStays DEF AimsKept
<1> QED
  BY <1>3, <1>4, <1>6, <1>7, <1>8, <1>10, Step

\* The thread that pthread_join waits for has ended, and its status is that of
\* the handle.
LEMMA JoinEndsKeeps ==
  ASSUME IInv, NEW t \in Threads, JoinEnds(t), UNCHANGED cancelVars
  PROVE  IInv'
<1>1. StructTypes /\ ThreadTypes /\ Owners /\ Local(t) /\ self[t] # Null /\ pc[t] = "join"
  BY DEF IInv, JoinEnds, Local, Place
<1>2. PICK u \in Threads : /\ u = Target(t) /\ Held(u) /\ handleOf[u] = arg[t] /\ Own(u) = tp[arg[t].p]
                           /\ Local(u)
  BY <1>1, TargetOf
<1>3. Writes(t, {}) /\ Own(t)' = Own(t) /\ Lock(t)' = Lock(t) /\ Held(t) /\ Held(t)'
      /\ handleOf'[t] = handleOf[t]
  BY <1>1, Living, Untouched DEF JoinEnds, ghosts
<1>4. u # t /\ ~Own(u).detached /\ pc[u] = "ended" /\ val'[t] = Own(u).exitStatus
  BY <1>1, <1>2 DEF JoinEnds, IInv, Naming, Target, ThreadTypes
<1>5. /\ ThreadTypes' /\ NoneMade /\ EndsKept /\ LocksKept /\ AimsKept /\ asked' = asked
      /\ \A v \in Threads \ {t} : Idle(v)
  <2>1. Own(u).exitStatus \in Threads \union {Null, Canceled}
    BY <1>2 DEF Local, Exits
  <2>2. val' = [val EXCEPT ![t] = Own(u).exitStatus]
    BY <1>2 DEF JoinEnds
  <2>3. val' \in [Threads -> Threads \union {Null, Canceled}]
    BY <1>1, <2>1, <2>2 DEF ThreadTypes
  <2>4. ThreadTypes'
    BY <1>1, <2>3 DEF JoinEnds, ghosts, structVars, cancelVars, ThreadTypes, Places
  <2>5. \A v \in Threads \ {t} : Idle(v)
    BY <1>1, <2>2 DEF JoinEnds, ghosts, cancelVars, ThreadTypes, Idle
  <2> QED
    BY <1>1, <2>4, <2>5 DEF JoinEnds, ghosts, cancelVars, ThreadTypes, NoneMade, EndsKept,
       LocksKept, AimsKept
<1>6. Local(t)'
  BY <1>1, <1>3 DEF Local, Place, Asked, Request, Async, Exits, JoinEnds, ghosts, cancelVars,
     ThreadTypes
<1>7. \A v \in Threads : Naming(v)'
  <2>1. /\ \A v \in Threads : (Held(v)' <=> Held(v)) /\ Own(v)' = Own(v)
        /\ handleOf' = handleOf /\ tp' = tp /\ killed' = killed /\ how' = how /\ arg' = arg
    BY DEF JoinEnds, structVars, ghosts, Held, Valid, Own
  <2>2. \A v \in Threads : Target(v)' = Target(v) /\ Naming(v)
    BY <2>1 DEF Target, IInv
  <2>3. pc' = [pc EXCEPT ![t] = "join_detach"]
    BY DEF JoinEnds
  <2>4. \A v \in Threads \ {t} : Naming(v)'
    BY <1>1, <1>5, <2>1, <2>2, <2>3 DEF Naming, Idle, ThreadTypes
  <2>5. IF u \in killed THEN val'[t] \in {u, Canceled}
        ELSE val'[t] = IF how[u] = "cancel" THEN Canceled ELSE u
    BY <1>2, <1>4 DEF Local, Exits
  <2>6. Naming(t)'
    BY <1>1, <1>2, <1>4, <1>5, <2>1, <2>2, <2>3, <2>5 DEF Naming, Idle, ThreadTypes
  <2> QED
    BY <2>4, <2>6
<1>8. (\A v \in Threads : Holding(v)') /\ (\A s \in Structs : Locking(s)')
  BY <1>1, <1>3, <1>5, LocksStay DEF IInv
<1>9. \A v \in Threads : Aimed(v)'
  <2>1. ~Pursued(t)
    BY <1>1, NotPursued
  <2> QED
    BY <1>1, <1>3, <1>5, <2>1, AimedStays DEF AimsKept
<1> QED
  BY <1>3, <1>5, <1>6, <1>7, <1>8, <1>9, Step


\* pthread_cancel finds a request or an exit, or takes stateLock: the lock is free
\* then, and the target not asynchronously cancelable.
LEMMA CancelTestKeeps ==
  ASSUME IInv, ~CancelMeetsStart, NEW t \in Threads, CancelTest(t)
  PROVE  IInv'
<1>1. StructTypes /\ ThreadTypes /\ Owners /\ Local(t) /\ self[t] # Null /\ pc[t] = "cancel"
  BY DEF IInv, CancelTest, Local, Place
<1>2. PICK u \in Threads : /\ u = Target(t) /\ Held(u) /\ handleOf[u] = arg[t] /\ arg[t].p \in Structs
                           /\ tp[arg[t].p] = Own(u) /\ stateLock[arg[t].p] = Lock(u) /\ Local(u)
                           /\ Own(u).threadH = u
  BY <1>1, TargetOf
<1>3. Held(t) /\ Fields(t) = Own(t)
  BY <1>1, Living
<1>6. Own(u).state \in States /\ Own(u).state \in Int
  <2>1. Own(u).state \in States
    BY <1>1, <1>2 DEF StructTypes, Typed
  <2> QED
    BY <2>1 DEF States
<1>4. CASE Own(u).state >= CancelPending
  <2>0. /\ pc' = [pc EXCEPT ![t] = "user"] /\ arg' = [arg EXCEPT ![t] = NoHandle]
        /\ UNCHANGED <<structVars, self, how, val, ghosts, cancelVars>>
    BY <1>2, <1>4, <1>6 DEF CancelTest, stackVars, structVars
  <2>1. Writes(t, {}) /\ Own(t)' = Own(t) /\ Lock(t)' = Lock(t) /\ Held(t)' /\ handleOf'[t] = handleOf[t]
    BY <1>1, <1>3, <2>0, Untouched DEF ghosts
  <2>2. /\ ThreadTypes' /\ NoneMade /\ NamesKept /\ EndsKept /\ LocksKept /\ AimsKept /\ asked' = asked
        /\ \A v \in Threads \ {t} : Idle(v)
    BY <1>1, <2>0 DEF ghosts, structVars, cancelVars, ThreadTypes, NoneMade, NamesKept,
       EndsKept,
       LocksKept, AimsKept, Idle, Places
  <2>3. Local(t)'
    BY <1>1, <1>3, <2>0, <2>1 DEF Local, Place, Asked, Request, Async, Exits, ghosts,
       cancelVars, ThreadTypes
  <2>4. ~Pursued(t)
    BY <1>1, NotPursued
  <2> QED
    BY <1>3, <2>1, <2>2, <2>3, <2>4, OwnStep
<1>5. CASE Own(u).state < CancelPending
  <2>1. /\ stateLock[arg[t].p] = NoThread /\ stateLock' = [stateLock EXCEPT ![arg[t].p] = t]
        /\ pc' = [pc EXCEPT ![t] = "cancel_set"]
        /\ UNCHANGED <<heap, reuseTop, reuseBottom, tp, localVars, ghosts, cancelVars>>
        /\ ~Asynchronous(Own(u)) /\ Own(u).state # Initial
    BY <1>2, <1>5 DEF CancelTest, stackVars, localVars
  <2>2. Writes(u, {}) /\ Own(u)' = Own(u) /\ Lock(u)' = t /\ handleOf' = handleOf
    BY <1>1, <1>2, <2>1 DEF Writes, Own, Lock, StructTypes, Typed, ghosts
  <2>3. /\ ThreadTypes' /\ NoneMade /\ asked' = asked
        /\ \A v \in Threads \ {t} : Idle(v)
    BY <1>1, <2>1 DEF ghosts, cancelVars, localVars, ThreadTypes, NoneMade, Idle, Places
  <2>4. /\ \A v \in Threads : (Held(v)' <=> Held(v)) /\ Own(v)' = Own(v)
        /\ \A v \in Threads \ {u} : Held(v) => Lock(v)' = Lock(v)
    BY <1>1, <1>2, <2>1, <2>2, WritesOne DEF Own
  <2>5. Local(u)' /\ Local(t)'
    <3>1. pc[u] \in {"leave", "ended"} => u \in killed
      BY <1>2, <1>5 DEF Local, Exits
    <3>2. Place(u)' /\ Place(t)'
      BY <1>1, <1>2, <2>1, <2>4 DEF Local, Place, localVars, ghosts, cancelVars, ThreadTypes
    <3>3. Asked(u)' /\ Asked(t)'
      BY <1>1, <1>2, <2>1, <2>4 DEF Local, Asked, localVars, ghosts, cancelVars, ThreadTypes
    <3>4. Request(u)' /\ Request(t)'
      BY <1>1, <1>2, <2>1, <2>4 DEF Local, Request, localVars, ghosts, cancelVars, ThreadTypes
    <3>5. Async(u)' /\ Async(t)'
      BY <1>1, <1>2, <2>1, <2>4 DEF Local, Async, localVars, ghosts, cancelVars, ThreadTypes
    <3>6. Exits(u)' /\ Exits(t)'
      BY <1>1, <1>2, <2>1, <2>4, <3>1 DEF Local, Exits, localVars, ghosts, cancelVars,
         ThreadTypes
    <3> QED
      BY <3>2, <3>3, <3>4, <3>5, <3>6 DEF Local
  <2>6. ASSUME NEW v \in Threads PROVE Naming(v)'
    <3>1. Target(v)' = Target(v) /\ Naming(v)
      BY <2>1 DEF Target, IInv, localVars
    <3>2. pc[u] # "start"
      BY <1>2, <1>5, <2>1 DEF Local, Request
    <3> QED
      BY <1>1, <1>2, <2>1, <2>4, <3>1, <3>2 DEF Naming, localVars, ghosts, cancelVars,
         ThreadTypes
  <2>7. (\A v \in Threads : Holding(v)') /\ (\A s \in Structs : Locking(s)')
    <3>1. ASSUME NEW v \in Threads PROVE Holding(v)'
      <4>1. v # t /\ pc[v] \in Holders => arg[v].p # arg[t].p
        BY <2>1 DEF IInv, Holding, ThreadTypes
      <4> QED
        BY <1>1, <1>2, <2>1, <4>1 DEF IInv, Holding, ThreadTypes, StructTypes, localVars
    <3>2. ~(Own(u).async /\ Own(u).enabled)
      BY <1>5, <1>6, <2>1 DEF Asynchronous
    <3>3. ASSUME NEW s \in Structs PROVE Locking(s)'
      BY <1>1, <1>2, <2>1, <3>2 DEF IInv, Locking, ThreadTypes, StructTypes, localVars
    <3> QED
      BY <3>1, <3>3
  <2>8. ASSUME NEW v \in Threads PROVE Aimed(v)'
    <3>1. ~Pursued(t) /\ ~Pursued(u)
      BY <1>1, <1>2, <2>1, NotPursued
    <3>2. ~(Own(u).state >= Canceling)
      BY <1>5, <1>6
    <3>3. pc'[v] \in {"cancel_async", "terminate"} => pc'[v] = pc[v] /\ arg'[v] = arg[v]
      BY <1>1, <2>1 DEF ThreadTypes, localVars
    <3> QED
      BY <1>2, <2>2, <2>3, <3>1, <3>2, <3>3, AimedStays
  <2> QED
    BY <1>2, <2>2, <2>3, <2>5, <2>6, <2>7, <2>8, Step
<1> QED
  BY <1>4, <1>5, <1>6

\* It sets the state and the event, under the lock; the target may be exiting by
\* now, but has not got beyond PThreadStateLast, for which it needs the lock.
LEMMA CancelSetKeeps ==
  ASSUME IInv, NEW t \in Threads, CancelSet(t)
  PROVE  IInv'
<1>1. StructTypes /\ ThreadTypes /\ Owners /\ Local(t) /\ self[t] # Null /\ pc[t] = "cancel_set"
  BY DEF IInv, CancelSet, Local, Place
<1>2. PICK u \in Threads : /\ u = Target(t) /\ Held(u) /\ handleOf[u] = arg[t] /\ arg[t].p \in Structs
                           /\ tp[arg[t].p] = Own(u) /\ stateLock[arg[t].p] = Lock(u) /\ Local(u)
                           /\ Own(u).threadH = u /\ DOMAIN Own(u) = FieldNames
  BY <1>1, TargetOf
<1>3. Held(t) /\ Fields(t) = Own(t)
  BY <1>1, Living
<1>4. /\ pc' = [pc EXCEPT ![t] = "user"] /\ arg' = [arg EXCEPT ![t] = NoHandle]
      /\ tp' = [tp EXCEPT ![arg[t].p].state = CancelPending, ![arg[t].p].cancelEvent = TRUE]
      /\ stateLock' = [stateLock EXCEPT ![arg[t].p] = NoThread]
      /\ UNCHANGED <<heap, reuseTop, reuseBottom, self, how, val, ghosts, cancelVars>>
  BY DEF CancelSet, stackVars
<1>5. Own(u)' = [Own(u) EXCEPT !.state = CancelPending, !.cancelEvent = TRUE] /\ Lock(u)' = NoThread
      /\ handleOf' = handleOf /\ killed' = killed
  BY <1>1, <1>2, <1>4 DEF Own, Lock, StructTypes, ghosts
<1>6. Writes(u, {"state", "cancelEvent"}) /\ Own(u)'.state = CancelPending /\ Own(u)'.cancelEvent
  <2>1. \A n \in FieldNames \ {"state", "cancelEvent"} : Own(u)'[n] = Own(u)[n]
    BY <1>2, <1>5 DEF FieldNames
  <2>2. DOMAIN Own(u)' = FieldNames /\ Own(u)'.state \in States /\ Own(u)'.state = CancelPending
        /\ Own(u)'.cancelEvent
    BY <1>2, <1>5 DEF FieldNames, States
  <2>3. Own(u)'.exitStatus = Own(u).exitStatus /\ Own(u).exitStatus \in Threads \union {Null, Canceled}
    BY <1>1, <1>2, <2>1 DEF FieldNames, StructTypes, Typed
  <2> QED
    BY <1>1, <1>2, <1>4, <1>5, <2>1, <2>2, <2>3 DEF Writes, StructTypes
<1>7. /\ ThreadTypes' /\ NoneMade /\ NamesKept /\ EndsKept /\ AimsKept /\ asked' = asked
      /\ \A v \in Threads \ {t} : Idle(v)
  BY <1>1, <1>4 DEF ghosts, cancelVars, ThreadTypes, NoneMade, NamesKept, EndsKept, AimsKept, Idle,
     Places
<1>8. {"state", "cancelEvent"} \in SUBSET Mutable
  BY DEF Mutable
<1>9. /\ \A v \in Threads : (Held(v)' <=> Held(v))
      /\ \A v \in Threads \ {u} : Held(v) => Own(v)' = Own(v) /\ Lock(v)' = Lock(v)
  BY <1>1, <1>2, <1>6, <1>8, WritesOne
<1>10. /\ u \in asked /\ pc[u] # "start" /\ Lock(u) = t /\ ~(Own(u).async /\ Own(u).enabled)
       /\ pc[u] \in {"leave", "ended"} => u \in killed
  <2>1. u \in asked /\ pc[u] # "start"
    BY <1>1, <1>2 DEF IInv, Naming
  <2>2. Lock(u) = t /\ t # NoThread
    BY <1>1, <1>2 DEF IInv, Holding
  <2>3. ~(Own(u).async /\ Own(u).enabled)
    BY <1>1, <1>2, <2>2 DEF IInv, Locking
  <2>4. pc[u] \in {"leave", "ended"} => u \in killed
    BY <1>2, <2>2 DEF Local, Exits
  <2> QED
    BY <2>1, <2>2, <2>3, <2>4
<1>11. ASSUME NEW v \in {t, u} PROVE Local(v)'
  <2>0. v # u => Own(v)' = Own(v) /\ Lock(v)' = Lock(v) /\ v = t
    BY <1>1, <1>3, <1>9
  <2>10. \A n \in FieldNames \ {"state", "cancelEvent"} : Own(v)'[n] = Own(v)[n]
    BY <1>2, <1>6, <2>0 DEF Writes
  <2>1. /\ Held(v)' /\ Held(v) /\ Local(v) /\ v \in Threads
        /\ Own(v)'.async = Own(v).async /\ Own(v)'.enabled = Own(v).enabled
        /\ Own(v)'.detached = Own(v).detached /\ Own(v)'.implicit = Own(v).implicit
        /\ Own(v)'.exitStatus = Own(v).exitStatus
        /\ v = u \/ (Own(v)' = Own(v) /\ Lock(v)' = Lock(v))
    BY <1>1, <1>2, <1>3, <1>9, <2>0, <2>10 DEF FieldNames
  <2>2. Place(v)'
    BY <1>1, <1>2, <1>4, <1>5, <2>1 DEF Local, Place, ThreadTypes
  <2>3. Asked(v)'
    BY <1>1, <1>2, <1>4, <1>5, <1>10, <2>1 DEF Local, Asked, cancelVars, ThreadTypes
  <2>4. Request(v)'
    <3>1. pc'[v] # "start" /\ (pc'[v] = "ended" <=> pc[v] = "ended")
      BY <1>1, <1>4, <1>10, <2>1 DEF ThreadTypes
    <3>2. v # u => Request(v)'
      BY <2>1, <3>1 DEF Local, Request
    <3>3. v = u => Request(v)'
      BY <1>6, <2>1, <3>1 DEF Request
    <3> QED
      BY <3>2, <3>3
  <2>5. Async(v)'
    BY <1>1, <1>2, <1>4, <1>5, <1>10, <2>1 DEF Local, Async, ThreadTypes
  <2>6. Exits(v)'
    BY <1>1, <1>2, <1>4, <1>5, <1>10, <2>1 DEF Local, Exits, ThreadTypes
  <2> QED
    BY <2>2, <2>3, <2>4, <2>5, <2>6 DEF Local
<1>12. \A v \in Threads : Naming(v)'
  <2>1. Own(u)'.detached = Own(u).detached
    BY <1>2, <1>5 DEF FieldNames
  <2> QED
    BY <1>1, <1>2, <1>6, <1>7, <1>8, <2>1, NamingStays DEF IInv
<1>13. ASSUME NEW v \in Threads PROVE Holding(v)'
  BY <1>1, <1>2, <1>4 DEF IInv, Holding, ThreadTypes, StructTypes
<1>14. ASSUME NEW s \in Structs PROVE Locking(s)'
  <2>1. SUFFICES ASSUME s # arg[t].p, stateLock[s] # NoThread PROVE Locking(s)'
    BY <1>1, <1>2, <1>4 DEF Locking, StructTypes
  <2>2. tp'[s] = tp[s] /\ stateLock'[s] = stateLock[s]
    BY <1>1, <1>4, <2>1 DEF StructTypes
  <2>3. stateLock[s] # t
    BY <2>1 DEF IInv, Locking
  <2> QED
    BY <1>1, <1>4, <2>1, <2>2, <2>3 DEF IInv, Locking, ThreadTypes
<1>15. \A v \in Threads : Aimed(v)'
  <2>1. ~Pursued(t) /\ ~Pursued(u)
    BY <1>1, <1>10, NotPursued
  <2>2. Lock(u) # NoThread
    BY <1>10
  <2> QED
    BY <1>2, <1>6, <1>7, <1>8, <2>1, <2>2, AimedStays DEF AimsKept
<1> QED
  BY <1>2, <1>6, <1>7, <1>8, <1>11, <1>12, <1>13, <1>14, <1>15, Step

\* It finds the target in the application, and asynchronously cancelable.
LEMMA CancelTestAsyncKeeps ==
  ASSUME IInv, ~AsyncMeetsCall, NEW t \in Threads, CancelTestAsync(t)
  PROVE  IInv'
<1>1. StructTypes /\ ThreadTypes /\ Owners /\ Local(t) /\ self[t] # Null /\ pc[t] = "cancel"
  BY DEF IInv, CancelTestAsync, Local, Place
<1>2. PICK u \in Threads : /\ u = Target(t) /\ Held(u) /\ handleOf[u] = arg[t] /\ arg[t].p \in Structs
                           /\ tp[arg[t].p] = Own(u) /\ stateLock[arg[t].p] = Lock(u) /\ Local(u)
                           /\ Own(u).threadH = u
  BY <1>1, TargetOf
<1>3. Held(t) /\ Fields(t) = Own(t)
  BY <1>1, Living
<1>4. /\ u # t /\ pc[u] \in {"user", "throw"}
      /\ Lock(u) = NoThread /\ Own(u).enabled /\ Own(u).state < Canceling
      /\ stateLock' = [stateLock EXCEPT ![arg[t].p] = t]
      /\ pc' = [pc EXCEPT ![t] = "cancel_async"]
      /\ UNCHANGED <<heap, reuseTop, reuseBottom, tp, localVars, ghosts, cancelVars>>
  BY <1>2 DEF CancelTestAsync, stackVars, localVars, Target, Asynchronous
<1>5. Writes(u, {}) /\ Own(u)' = Own(u) /\ Lock(u)' = t /\ handleOf' = handleOf
  BY <1>1, <1>2, <1>4 DEF Writes, Own, Lock, StructTypes, Typed, ghosts
<1>6. /\ ThreadTypes' /\ NoneMade /\ asked' = asked
      /\ \A v \in Threads \ {t} : Idle(v)
  BY <1>1, <1>4 DEF ghosts, cancelVars, localVars, ThreadTypes, NoneMade, Idle, Places
<1>7. /\ \A v \in Threads : (Held(v)' <=> Held(v)) /\ Own(v)' = Own(v)
      /\ \A v \in Threads \ {u} : Held(v) => Lock(v)' = Lock(v)
  BY <1>1, <1>2, <1>4, <1>5, WritesOne DEF Own
<1>8. Local(u)' /\ Local(t)'
  <2>1. Place(u)' /\ Place(t)'
    BY <1>1, <1>2, <1>4, <1>7 DEF Local, Place, localVars, ghosts, cancelVars, ThreadTypes
  <2>2. Asked(u)' /\ Asked(t)'
    BY <1>1, <1>2, <1>4, <1>7 DEF Local, Asked, localVars, ghosts, cancelVars, ThreadTypes
  <2>3. Request(u)' /\ Request(t)'
    BY <1>1, <1>2, <1>4, <1>7 DEF Local, Request, localVars, ghosts, cancelVars, ThreadTypes
  <2>4. Async(u)' /\ Async(t)'
    BY <1>1, <1>2, <1>4, <1>7 DEF Local, Async, localVars, ghosts, cancelVars, ThreadTypes
  <2>5. Exits(u)' /\ Exits(t)'
    BY <1>1, <1>2, <1>4, <1>7 DEF Local, Exits, localVars, ghosts, cancelVars, ThreadTypes
  <2> QED
    BY <2>1, <2>2, <2>3, <2>4, <2>5 DEF Local
<1>9. ASSUME NEW v \in Threads PROVE Naming(v)'
  <2>1. Target(v)' = Target(v) /\ Naming(v)
    BY <1>4 DEF Target, IInv, localVars
  <2> QED
    BY <1>1, <1>2, <1>4, <1>7, <2>1 DEF Naming, localVars, ghosts, cancelVars, ThreadTypes
<1>10. (\A v \in Threads : Holding(v)') /\ (\A s \in Structs : Locking(s)')
  <2>1. ASSUME NEW v \in Threads PROVE Holding(v)'
    <3>1. v # t /\ pc[v] \in Holders => arg[v].p # arg[t].p
      BY <1>2, <1>4 DEF IInv, Holding, ThreadTypes
    <3> QED
      BY <1>1, <1>2, <1>4, <3>1 DEF IInv, Holding, ThreadTypes, StructTypes, localVars
  <2>2. ASSUME NEW s \in Structs PROVE Locking(s)'
    BY <1>1, <1>2, <1>4 DEF IInv, Locking, ThreadTypes, StructTypes, localVars
  <2> QED
    BY <2>1, <2>2
<1>11. ASSUME NEW v \in Threads PROVE Aimed(v)'
  <2>1. ~Pursued(t) /\ ~Pursued(u)
    BY <1>1, <1>2, <1>4, NotPursued
  <2>2. Own(u).state \in States
    BY <1>1, <1>2 DEF StructTypes, Typed
  <2>3. ~(Own(u).state >= Canceling)
    BY <1>4, <2>2 DEF States
  <2>4. CASE v # t
    <3>1. pc'[v] \in {"cancel_async", "terminate"} => pc'[v] = pc[v] /\ arg'[v] = arg[v]
      BY <1>1, <1>4, <2>4 DEF ThreadTypes, localVars
    <3> QED
      BY <1>2, <1>5, <1>6, <2>1, <2>3, <3>1, AimedStays
  <2>5. CASE v = t
    <3>1. \A w \in Threads : Held(w) /\ handleOf[w] = arg[t] => w = u
      BY <1>1, <1>2 DEF Owners, HandlesUnique, Held
    <3> QED
      BY <1>1, <1>4, <1>5, <1>7, <2>5, <3>1 DEF Aimed, localVars, ThreadTypes
  <2> QED
    BY <2>4, <2>5
<1> QED
  BY <1>2, <1>5, <1>6, <1>8, <1>9, <1>10, <1>11, Step

\* It sends an asynchronously cancelable target to ptw32_throw: the target has not
\* acted on a cancellation, as it would have disabled it.
LEMMA CancelAsyncKeeps ==
  ASSUME IInv, ~AsyncMeetsCall, NEW t \in Threads, CancelAsync(t)
  PROVE  IInv'
<1>1. StructTypes /\ ThreadTypes /\ Owners /\ Local(t) /\ self[t] # Null /\ pc[t] = "cancel_async"
  BY DEF IInv, CancelAsync, Local, Place
<1>2. PICK u \in Threads : /\ u = Target(t) /\ Held(u) /\ handleOf[u] = arg[t] /\ arg[t].p \in Structs
                           /\ tp[arg[t].p] = Own(u) /\ stateLock[arg[t].p] = Lock(u) /\ Local(u)
                           /\ Own(u).threadH = u /\ DOMAIN Own(u) = FieldNames
  BY <1>1, TargetOf, SMTT(60)
<1>3. Held(t) /\ Fields(t) = Own(t)
  BY <1>1, Living
<1>15. /\ u # t /\ pc[u] \in {"user", "throw", "unwind"} /\ Own(u).enabled
       /\ Lock(u) = t /\ t # NoThread
  BY <1>1, <1>2 DEF IInv, Naming, Aimed, Holding
<1>4. /\ stateLock' = [stateLock EXCEPT ![arg[t].p] = NoThread]
      /\ pc' = [pc EXCEPT ![t] = "user", ![u] = "throw"]
      /\ arg' = [arg EXCEPT ![t] = NoHandle, ![u] = NoHandle]
      /\ tp' = [tp EXCEPT ![arg[t].p].state = Canceling, ![arg[t].p].enabled = FALSE]
      /\ how' = [how EXCEPT ![u] = "cancel"]
      /\ acted' = [acted EXCEPT ![u] = IF @ = 0 THEN 1 ELSE 2]
      /\ UNCHANGED <<heap, reuseTop, reuseBottom, self, val, ghosts, asked>>
  <2>1. u = tp[arg[t].p].threadH /\ ~Ended(u) /\ {v \in {u} : AwaitsOwnLock(v)} = {}
    BY <1>2, <1>15 DEF Target, AwaitsOwnLock
  <2> QED
    BY <2>1 DEF CancelAsync, stackVars, BeginsCanceling, Act
<1>5. Own(u)' = [Own(u) EXCEPT !.state = Canceling, !.enabled = FALSE] /\ Lock(u)' = NoThread
      /\ handleOf' = handleOf /\ killed' = killed
  BY <1>1, <1>2, <1>4 DEF Own, Lock, StructTypes, ghosts
<1>6. Writes(u, {"state", "enabled"}) /\ Own(u)'.state = Canceling /\ ~Own(u)'.enabled
  <2>1. \A n \in FieldNames \ {"state", "enabled"} : Own(u)'[n] = Own(u)[n]
    BY <1>2, <1>5 DEF FieldNames
  <2>2. DOMAIN Own(u)' = FieldNames /\ Own(u)'.state \in States /\ Own(u)'.state = Canceling
        /\ ~Own(u)'.enabled
    BY <1>2, <1>5 DEF FieldNames, States
  <2>3. Own(u)'.exitStatus = Own(u).exitStatus /\ Own(u).exitStatus \in Threads \union {Null, Canceled}
    BY <1>1, <1>2, <2>1 DEF FieldNames, StructTypes, Typed
  <2> QED
    BY <1>1, <1>2, <1>4, <1>5, <2>1, <2>2, <2>3 DEF Writes, StructTypes
<1>10. u \in asked /\ acted[u] = 0 /\ self[u] # Null
  <2>1. u \in asked
    BY <1>1, <1>2 DEF IInv, Naming
  <2>2. acted[u] = 0
    BY <1>1, <1>2, <1>15 DEF Local, Asked, ThreadTypes
  <2>3. self[u] # Null
    BY <1>2, <1>15 DEF Local, Place, Held
  <2> QED
    BY <2>1, <2>2, <2>3
<1>7. /\ ThreadTypes' /\ NoneMade /\ NamesKept /\ EndsKept /\ AimsKept /\ asked' = asked
      /\ \A v \in Threads \ {t, u} : Idle(v)
  BY <1>1, <1>4, <1>10, <1>15 DEF ghosts, cancelVars, ThreadTypes, NoneMade, NamesKept, EndsKept,
     AimsKept,
     Idle, Places, Ways
<1>8. {"state", "enabled"} \in SUBSET Mutable
  BY DEF Mutable
<1>9. /\ \A v \in Threads : (Held(v)' <=> Held(v))
      /\ \A v \in Threads \ {u} : Held(v) => Own(v)' = Own(v) /\ Lock(v)' = Lock(v)
  BY <1>1, <1>2, <1>6, <1>8, WritesOne
<1>11. Local(t)'
  BY <1>1, <1>3, <1>4, <1>5, <1>15, <1>9 DEF Local, Place, Asked, Request, Async, Exits, ThreadTypes
<1>12. Local(u)'
  <2>1. /\ Held(u)' /\ Held(u)
        /\ Own(u)'.async = Own(u).async /\ Own(u)'.cancelEvent = Own(u).cancelEvent
        /\ Own(u)'.detached = Own(u).detached /\ Own(u)'.implicit = Own(u).implicit
        /\ Own(u)'.exitStatus = Own(u).exitStatus
    BY <1>2, <1>5, <1>9 DEF FieldNames
  <2>2. Place(u)'
    BY <1>1, <1>2, <1>4, <1>5, <1>15, <1>10, <2>1 DEF Local, Place, ThreadTypes
  <2>3. Asked(u)'
    BY <1>1, <1>2, <1>4, <1>5, <1>15, <1>6, <1>10, <2>1 DEF Local, Asked, ThreadTypes
  <2>4. Request(u)'
    BY <1>1, <1>2, <1>4, <1>5, <1>15, <1>6, <2>1 DEF Local, Request, ThreadTypes
  <2>5. Async(u)'
    BY <1>1, <1>2, <1>4, <1>5, <1>15, <1>10, <2>1 DEF Local, Async, ThreadTypes
  <2>6. Exits(u)'
    BY <1>1, <1>2, <1>4, <1>5, <1>15, <2>1 DEF Local, Exits, ThreadTypes
  <2> QED
    BY <2>2, <2>3, <2>4, <2>5, <2>6 DEF Local
<1>13. \A v \in Threads : Naming(v)'
  <2>1. Own(u)'.detached = Own(u).detached
    BY <1>2, <1>5 DEF FieldNames
  <2> QED
    BY <1>1, <1>2, <1>6, <1>7, <1>8, <2>1, NamingStays DEF IInv
<1>14. (\A v \in Threads : Holding(v)') /\ (\A s \in Structs : Locking(s)')
  <2>1. ASSUME NEW v \in Threads PROVE Holding(v)'
    <3>1. SUFFICES ASSUME v \notin {t, u}, pc[v] \in Holders PROVE Holding(v)'
      BY <1>1, <1>4, <1>15 DEF Holding, ThreadTypes
    <3> QED
      BY <1>1, <1>2, <1>4, <1>15, <3>1 DEF IInv, Holding, ThreadTypes, StructTypes
  <2>2. ASSUME NEW s \in Structs PROVE Locking(s)'
    <3>1. SUFFICES ASSUME s # arg[t].p, stateLock[s] # NoThread PROVE Locking(s)'
      BY <1>1, <1>2, <1>4 DEF Locking, StructTypes
    <3>2. tp'[s] = tp[s] /\ stateLock'[s] = stateLock[s]
      BY <1>1, <1>4, <3>1 DEF StructTypes
    <3>3. stateLock[s] \notin {t, u}
      BY <1>15, <3>1 DEF IInv, Locking
    <3>4. stateLock[s] \in Threads
      BY <1>1, <3>1 DEF StructTypes
    <3>5. pc'[stateLock[s]] = pc[stateLock[s]] /\ arg'[stateLock[s]] = arg[stateLock[s]]
      BY <1>1, <1>4, <3>3, <3>4 DEF ThreadTypes
    <3> QED
      BY <3>1, <3>2, <3>5 DEF IInv, Locking
  <2> QED
    BY <2>1, <2>2
<1>16. \A v \in Threads : Aimed(v)'
  <2>1. ~Pursued(t)
    BY <1>1, NotPursued
  <2>2. ~Pursued(u)'
    <3> SUFFICES ASSUME NEW v \in Threads, pc'[v] = "cancel_async", arg'[v] = handleOf'[u] PROVE FALSE
      BY DEF Pursued
    <3>1. v \notin {t, u} /\ pc[v] = "cancel_async" /\ arg[v] = arg[t]
      BY <1>1, <1>2, <1>4, <1>5, <1>15 DEF ThreadTypes
    <3> QED
      BY <1>1, <3>1 DEF IInv, Holding
  <2> QED
    BY <1>2, <1>6, <1>7, <1>8, <1>15, <2>1, <2>2, AimedStays DEF AimsKept
<1> QED
  BY <1>2, <1>6, <1>7, <1>8, <1>11, <1>12, <1>13, <1>14, <1>16, Step

\* pthread_kill writes PThreadStateLast and disables cancellation,
LEMMA KillLast ==
  ASSUME IInv, ~CancelMeetsStart, NEW t \in Threads, KillLocked(t), tp[arg[t].p].state < Last
  PROVE  IInv'
<1>1. StructTypes /\ ThreadTypes /\ Owners /\ Local(t) /\ self[t] # Null /\ pc[t] = "kill"
  BY DEF IInv, KillLocked, Local, Place
<1>2. PICK u \in Threads : /\ u = Target(t) /\ Held(u) /\ handleOf[u] = arg[t] /\ arg[t].p \in Structs
                           /\ tp[arg[t].p] = Own(u) /\ stateLock[arg[t].p] = Lock(u) /\ Local(u)
                           /\ Own(u).threadH = u /\ DOMAIN Own(u) = FieldNames
  BY <1>1, TargetOf
<1>3. Held(t) /\ Fields(t) = Own(t) /\ u # t
  BY <1>1, <1>2, Living DEF IInv, Naming
<1>4. /\ pc' = [pc EXCEPT ![t] = "terminate"]
      /\ tp' = [tp EXCEPT ![arg[t].p].state = Last, ![arg[t].p].enabled = FALSE]
      /\ UNCHANGED <<heap, reuseTop, reuseBottom, stateLock, arg, self, how, val, ghosts, cancelVars>>
      /\ Lock(u) = NoThread /\ pc[u] # "start"
  BY <1>2 DEF KillLocked, stackVars, Local, Request
<1>5. Own(u)' = [Own(u) EXCEPT !.state = Last, !.enabled = FALSE] /\ Lock(u)' = Lock(u)
      /\ handleOf' = handleOf /\ killed' = killed
  BY <1>1, <1>2, <1>4 DEF Own, Lock, StructTypes, ghosts
<1>6. Writes(u, {"state", "enabled"}) /\ Own(u)'.state = Last /\ ~Own(u)'.enabled
  <2>1. \A n \in FieldNames \ {"state", "enabled"} : Own(u)'[n] = Own(u)[n]
    BY <1>2, <1>5 DEF FieldNames
  <2>2. DOMAIN Own(u)' = FieldNames /\ Own(u)'.state \in States /\ Own(u)'.state = Last
        /\ ~Own(u)'.enabled
    BY <1>2, <1>5 DEF FieldNames, States
  <2>3. Own(u)'.exitStatus = Own(u).exitStatus /\ Own(u).exitStatus \in Threads \union {Null, Canceled}
    BY <1>1, <1>2, <2>1 DEF FieldNames, StructTypes, Typed
  <2> QED
    BY <1>1, <1>2, <1>4, <1>5, <2>1, <2>2, <2>3 DEF Writes, StructTypes
<1>7. /\ ThreadTypes' /\ NoneMade /\ NamesKept /\ EndsKept /\ LocksKept /\ asked' = asked
      /\ \A v \in Threads \ {t} : Idle(v)
  BY <1>1, <1>4 DEF ghosts, cancelVars, ThreadTypes, NoneMade, NamesKept, EndsKept, LocksKept,
     Idle, Places
<1>8. {"state", "enabled"} \in SUBSET Mutable
  BY DEF Mutable
<1>9. /\ \A v \in Threads : (Held(v)' <=> Held(v))
      /\ \A v \in Threads \ {u} : Held(v) => Own(v)' = Own(v) /\ Lock(v)' = Lock(v)
  BY <1>1, <1>2, <1>6, <1>8, WritesOne
<1>11. Local(t)'
  BY <1>1, <1>3, <1>4, <1>5, <1>9 DEF Local, Place, Asked, Request, Async, Exits,
     ThreadTypes, cancelVars
<1>12. Local(u)'
  <2>1. /\ Held(u)' /\ Held(u) /\ Idle(u)
        /\ Own(u)'.async = Own(u).async /\ Own(u)'.cancelEvent = Own(u).cancelEvent
        /\ Own(u)'.detached = Own(u).detached /\ Own(u)'.implicit = Own(u).implicit
        /\ Own(u)'.exitStatus = Own(u).exitStatus
    BY <1>2, <1>3, <1>5, <1>7, <1>9 DEF FieldNames
  <2>2. Place(u)'
    BY <1>2, <1>5, <2>1 DEF Local, Place, Idle
  <2>3. Asked(u)'
    BY <1>2, <1>5, <1>6, <1>7, <2>1 DEF Local, Asked, Idle
  <2>4. Request(u)'
    BY <1>2, <1>4, <1>5, <1>6, <2>1 DEF Local, Request, Idle
  <2>5. Async(u)'
    BY <1>2, <1>5, <1>6, <2>1 DEF Local, Async, Idle
  <2>6. Exits(u)'
    BY <1>2, <1>5, <1>6, <2>1 DEF Local, Exits, Idle
  <2> QED
    BY <2>2, <2>3, <2>4, <2>5, <2>6 DEF Local
<1>13. \A v \in Threads : Naming(v)'
  <2>1. Own(u)'.detached = Own(u).detached
    BY <1>2, <1>5 DEF FieldNames
  <2> QED
    BY <1>1, <1>2, <1>6, <1>7, <1>8, <2>1, NamingStays DEF IInv
<1>14. (\A v \in Threads : Holding(v)') /\ (\A s \in Structs : Locking(s)')
  BY <1>1, <1>2, <1>5, <1>6, <1>7, <1>8, LocksStay DEF IInv
<1>15. ASSUME NEW v \in Threads PROVE Aimed(v)'
  <2>1. ~Pursued(t) /\ ~Pursued(u)
    BY <1>1, <1>4, NotPursued
  <2>2. Own(u)'.state >= Canceling /\ Lock(u)' = NoThread
    BY <1>4, <1>5, <1>6
  <2>3. CASE v # t
    <3>1. pc'[v] \in {"cancel_async", "terminate"} => pc'[v] = pc[v] /\ arg'[v] = arg[v]
      BY <1>1, <1>4, <2>3 DEF ThreadTypes
    <3> QED
      BY <1>2, <1>6, <1>7, <1>8, <2>1, <2>2, <3>1, AimedStays
  <2>4. CASE v = t
    <3>1. \A w \in Threads : Held(w) /\ handleOf[w] = arg[t] => w = u
      BY <1>1, <1>2 DEF Owners, HandlesUnique, Held
    <3> QED
      BY <1>1, <1>4, <1>5, <1>9, <2>2, <2>4, <3>1 DEF Aimed, ThreadTypes
  <2> QED
    BY <2>3, <2>4
<1> QED
  BY <1>2, <1>6, <1>7, <1>8, <1>11, <1>12, <1>13, <1>14, <1>15, Step

\* or finds that the thread has ended.
LEMMA KillFindsEnded ==
  ASSUME IInv, NEW t \in Threads, KillLocked(t), ~(tp[arg[t].p].state < Last)
  PROVE  IInv'
<1>1. StructTypes /\ ThreadTypes /\ Owners /\ Local(t) /\ self[t] # Null /\ pc[t] = "kill"
  BY DEF IInv, KillLocked, Local, Place
<1>2. Held(t) /\ Fields(t) = Own(t)
  BY <1>1, Living
<1>3. /\ pc' = [pc EXCEPT ![t] = "user"] /\ arg' = [arg EXCEPT ![t] = NoHandle]
      /\ UNCHANGED <<structVars, self, how, val, ghosts, cancelVars>>
  BY DEF KillLocked, stackVars, structVars
<1>4. Writes(t, {}) /\ Own(t)' = Own(t) /\ Lock(t)' = Lock(t) /\ Held(t)' /\ handleOf'[t] = handleOf[t]
  BY <1>1, <1>2, <1>3, Untouched DEF ghosts
<1>5. /\ ThreadTypes' /\ NoneMade /\ NamesKept /\ EndsKept /\ LocksKept /\ AimsKept /\ asked' = asked
      /\ \A v \in Threads \ {t} : Idle(v)
  BY <1>1, <1>3 DEF ghosts, structVars, cancelVars, ThreadTypes, NoneMade, NamesKept,
     EndsKept,
     LocksKept, AimsKept, Idle, Places
<1>6. Local(t)'
  BY <1>1, <1>2, <1>3, <1>4 DEF Local, Place, Asked, Request, Async, Exits, ghosts,
     cancelVars, ThreadTypes
<1>10. ~Pursued(t)
  BY NotPursued DEF KillLocked
<1> QED
  BY <1>2, <1>4, <1>5, <1>6, <1>10, OwnStep

\* TerminateThread ends the target, with PTHREAD_CANCELED unless it has a status.
LEMMA TerminateKeeps ==
  ASSUME IInv, NEW t \in Threads, Terminate(t)
  PROVE  IInv'
<1>1. StructTypes /\ ThreadTypes /\ Owners /\ Local(t) /\ self[t] # Null /\ pc[t] = "terminate"
  BY DEF IInv, Terminate, Local, Place
<1>2. PICK u \in Threads : /\ u = Target(t) /\ Held(u) /\ handleOf[u] = arg[t] /\ arg[t].p \in Structs
                           /\ tp[arg[t].p] = Own(u) /\ stateLock[arg[t].p] = Lock(u) /\ Local(u)
                           /\ Own(u).threadH = u /\ DOMAIN Own(u) = FieldNames
  BY <1>1, TargetOf
<1>3. Held(t) /\ Fields(t) = Own(t) /\ u # t
  BY <1>1, <1>2, Living, SMTT(60) DEF IInv, Naming
<1>4. /\ pc[u] \in {"user", "join", "delay", "ended"}
      /\ pc' = [pc EXCEPT ![t] = "user", ![u] = "ended"]
      /\ killed' = IF pc[u] = "ended" THEN killed ELSE killed \union {u}
      /\ arg' = [arg EXCEPT ![t] = NoHandle]
      /\ tp' = [tp EXCEPT ![arg[t].p].exitStatus = IF @ = Null THEN Canceled ELSE @]
      /\ UNCHANGED <<heap, reuseTop, reuseBottom, stateLock, self, how, val, handleOf, cancelVars>>
  BY <1>2 DEF Terminate, stackVars, Target
<1>5. Own(u)' = [Own(u) EXCEPT !.exitStatus = IF @ = Null THEN Canceled ELSE @] /\ Lock(u)' = Lock(u)
      /\ handleOf' = handleOf
  BY <1>1, <1>2, <1>4 DEF Own, Lock, StructTypes
<1>6. Writes(u, {"exitStatus"})
  <2>1. \A n \in FieldNames \ {"exitStatus"} : Own(u)'[n] = Own(u)[n]
    BY <1>2, <1>5 DEF FieldNames
  <2>2. Own(u).exitStatus \in Threads \union {Null, Canceled} /\ Own(u).state \in States
    BY <1>1, <1>2 DEF StructTypes, Typed
  <2>3. DOMAIN Own(u)' = FieldNames /\ Own(u)'.exitStatus \in Threads \union {Null, Canceled}
    BY <1>2, <1>5, <2>2 DEF FieldNames
  <2>4. Own(u)'.state = Own(u).state
    BY <2>1 DEF FieldNames
  <2> QED
    BY <1>1, <1>2, <1>4, <1>5, <2>1, <2>2, <2>3, <2>4 DEF Writes, StructTypes
<1>7. /\ ThreadTypes' /\ NoneMade /\ NamesKept /\ EndsKept /\ LocksKept /\ AimsKept /\ asked' = asked
      /\ \A v \in Threads \ {t, u} : Idle(v)
  BY <1>1, <1>4 DEF cancelVars, ThreadTypes, NoneMade, NamesKept, EndsKept, LocksKept, AimsKept,
     Idle, Places
<1>8. {"exitStatus"} \in SUBSET Mutable
  BY DEF Mutable
<1>9. /\ \A v \in Threads : (Held(v)' <=> Held(v))
      /\ \A v \in Threads \ {u} : Held(v) => Own(v)' = Own(v) /\ Lock(v)' = Lock(v)
  BY <1>1, <1>2, <1>6, <1>8, WritesOne
<1>11. Local(t)'
  BY <1>1, <1>3, <1>4, <1>5, <1>9 DEF Local, Place, Asked, Request, Async, Exits,
     ThreadTypes, cancelVars
<1>12. Local(u)'
  <2>1. /\ Held(u)' /\ Held(u) /\ pc'[u] = "ended"
        /\ self'[u] = self[u] /\ how'[u] = how[u] /\ acted'[u] = acted[u] /\ asked' = asked
        /\ Own(u)'.async = Own(u).async /\ Own(u)'.cancelEvent = Own(u).cancelEvent
        /\ Own(u)'.detached = Own(u).detached /\ Own(u)'.implicit = Own(u).implicit
        /\ Own(u)'.state = Own(u).state /\ Own(u)'.enabled = Own(u).enabled
    BY <1>1, <1>2, <1>3, <1>4, <1>5, <1>9 DEF FieldNames, ThreadTypes, cancelVars
  <2>2. Place(u)'
    BY <1>2, <1>4, <1>5, <2>1 DEF Local, Place
  <2>3. Asked(u)'
    BY <1>2, <1>4, <2>1 DEF Local, Asked
  <2>4. Request(u)'
    BY <2>1 DEF Request
  <2>5. Async(u)'
    BY <2>1 DEF Async
  <2>6. Exits(u)'
    <3>1. Own(u)'.exitStatus \in {u, Canceled}
      BY <1>2, <1>5 DEF Local, Exits, FieldNames
    <3>2. CASE pc[u] = "ended"
      BY <1>2, <1>4, <1>5, <2>1, <3>1, <3>2 DEF Local, Exits
    <3>3. CASE pc[u] # "ended"
      BY <1>2, <1>4, <1>5, <2>1, <3>1, <3>3 DEF Local, Exits
    <3> QED
      BY <3>2, <3>3
  <2> QED
    BY <2>2, <2>3, <2>4, <2>5, <2>6 DEF Local
<1>13. \A v \in Threads : Naming(v)'
  <2>1. Own(u)'.detached = Own(u).detached
    BY <1>2, <1>5 DEF FieldNames
  <2> QED
    BY <1>1, <1>2, <1>6, <1>7, <1>8, <2>1, NamingStays DEF IInv
<1>14. (\A v \in Threads : Holding(v)') /\ (\A s \in Structs : Locking(s)')
  <2>1. Own(u)'.async = Own(u).async /\ Own(u)'.enabled = Own(u).enabled
    BY <1>2, <1>5 DEF FieldNames
  <2> QED
    BY <1>1, <1>2, <1>5, <1>6, <1>7, <1>8, <2>1, LocksStay DEF IInv
<1>15. \A v \in Threads : Aimed(v)'
  <2>1. Lock(u) = NoThread
    BY <1>1, <1>2 DEF IInv, Aimed
  <2>2. ~Pursued(t) /\ ~Pursued(u)
    BY <1>1, <2>1, NotPursued
  <2>3. Own(u)'.state = Own(u).state
    BY <1>2, <1>5 DEF FieldNames
  <2> QED
    BY <1>2, <1>5, <1>6, <1>7, <1>8, <2>2, <2>3, AimedStays DEF AimsKept
<1> QED
  BY <1>2, <1>6, <1>7, <1>8, <1>11, <1>12, <1>13, <1>14, <1>15, Step

\* pthread_detach leaves the structure to a thread that is not yet exiting: nobody
\* else works on its handle.
LEMMA DetachRunning ==
  ASSUME IInv, NEW t \in Threads, NEW u \in Threads, Held(u), DetachLocked(t, handleOf[u]),
         UNCHANGED cancelVars, Own(u).state < Exiting,
         self[t] # Null, ~Pursued(t), pc[t] \in {"user", "join_detach"},
         \A v \in Threads \ {t} : pc[v] \in Named => arg[v] # handleOf[u]
  PROVE  IInv'
<1>1. StructTypes /\ ThreadTypes /\ Owners /\ Local(t) /\ Local(u)
      /\ handleOf[u].p \in Structs /\ tp[handleOf[u].p] = Own(u) /\ DOMAIN Own(u) = FieldNames
      /\ Own(u).state \in States
  BY DEF IInv, ThreadTypes, StructTypes, Held, Typed, Own
<1>2. Held(t) /\ Fields(t) = Own(t)
  BY <1>1, Living
<1>3. Own(u).state < Last
  BY <1>1 DEF States
<1>4. /\ pc' = [pc EXCEPT ![t] = "user"] /\ arg' = [arg EXCEPT ![t] = NoHandle]
      /\ val' = [val EXCEPT ![t] = Null]
      /\ tp' = [tp EXCEPT ![handleOf[u].p].detached = TRUE]
      /\ UNCHANGED <<heap, reuseTop, reuseBottom, stateLock, self, how, ghosts, cancelVars>>
  BY <1>1, <1>3 DEF DetachLocked, States
<1>5. Own(u)' = [Own(u) EXCEPT !.detached = TRUE] /\ Lock(u)' = Lock(u)
      /\ handleOf' = handleOf /\ killed' = killed
  BY <1>1, <1>4 DEF Own, Lock, StructTypes, ghosts
<1>6. Writes(u, {"detached"}) /\ Own(u)'.detached
  <2>1. \A n \in FieldNames \ {"detached"} : Own(u)'[n] = Own(u)[n]
    BY <1>1, <1>5 DEF FieldNames
  <2>2. DOMAIN Own(u)' = FieldNames /\ Own(u)'.detached
    BY <1>1, <1>5 DEF FieldNames
  <2>3. Own(u)'.state = Own(u).state /\ Own(u)'.exitStatus = Own(u).exitStatus
        /\ Own(u).exitStatus \in Threads \union {Null, Canceled}
    BY <1>1, <2>1 DEF FieldNames, StructTypes, Typed
  <2> QED
    BY <1>1, <1>4, <1>5, <2>1, <2>2, <2>3 DEF Writes, StructTypes
<1>7. /\ ThreadTypes' /\ NoneMade /\ NamesKept /\ EndsKept /\ LocksKept /\ AimsKept /\ asked' = asked
      /\ \A v \in Threads \ {t} : Idle(v)
  BY <1>1, <1>4 DEF ghosts, cancelVars, ThreadTypes, NoneMade, NamesKept, EndsKept, LocksKept, AimsKept,
     Idle, Places
<1>8. {"detached"} \in SUBSET Mutable
  BY DEF Mutable
<1>9. /\ \A v \in Threads : (Held(v)' <=> Held(v))
      /\ \A v \in Threads \ {u} : Held(v) => Own(v)' = Own(v) /\ Lock(v)' = Lock(v)
  BY <1>1, <1>6, <1>8, WritesOne
<1>10. ASSUME NEW v \in {t, u} PROVE Local(v)'
  <2>0. v # u => Own(v)' = Own(v) /\ v = t
    BY <1>2, <1>9
  <2>1. \A n \in FieldNames \ {"detached"} : Own(v)'[n] = Own(v)[n]
    BY <1>6, <2>0 DEF Writes
  <2>2. /\ Own(v)'.state = Own(v).state
        /\ Own(v)'.async = Own(v).async /\ Own(v)'.cancelEvent = Own(v).cancelEvent
        /\ Own(v)'.enabled = Own(v).enabled /\ Own(v)'.implicit = Own(v).implicit
        /\ Own(v)'.exitStatus = Own(v).exitStatus
    BY <2>1 DEF FieldNames
  <2>3. /\ Held(v)' /\ Held(v) /\ Local(v) /\ v \in Threads
        /\ v = u \/ Own(v)' = Own(v)
        /\ Lock(v)' = Lock(v)
    BY <1>1, <1>2, <1>5, <1>9, <2>0
  <2>4. Place(v)'
    BY <1>1, <1>2, <1>4, <1>5, <2>3 DEF Local, Place, ThreadTypes
  <2>5. Asked(v)'
    BY <1>1, <1>4, <1>5, <2>2, <2>3 DEF Local, Asked, cancelVars, ThreadTypes
  <2>6. Request(v)'
    BY <1>1, <1>4, <1>5, <2>2, <2>3 DEF Local, Request, ThreadTypes
  <2>7. Async(v)'
    BY <1>1, <1>4, <1>5, <2>2, <2>3 DEF Local, Async, ThreadTypes
  <2>8. Exits(v)'
    <3>1. /\ pc'[v] # pc[v] => pc[v] \in {"user", "join_detach"} /\ pc'[v] = "user"
          /\ how'[v] = how[v]
      BY <1>1, <1>4, <2>3 DEF ThreadTypes
    <3>2. v # u => Exits(v)'
      BY <1>5, <2>3, <3>1 DEF Local, Exits
    <3>3. v = u => ~(pc'[v] \in {"leave", "ended"} /\ v \notin killed')
      BY <1>3, <1>5, <2>3, <3>1 DEF Local, Exits
    <3>4. v = u => Exits(v)'
      BY <1>5, <1>6, <2>2, <2>3, <3>1, <3>3 DEF Local, Exits
    <3> QED
      BY <3>2, <3>4
  <2> QED
    BY <2>4, <2>5, <2>6, <2>7, <2>8 DEF Local
<1>12. ASSUME NEW v \in Threads PROVE Naming(v)'
  <2>1. SUFFICES ASSUME pc'[v] \in Named PROVE Naming(v)'
    BY DEF Naming
  <2>2. v # t /\ pc[v] \in Named /\ arg'[v] = arg[v] /\ pc'[v] = pc[v] /\ val'[v] = val[v] /\ Naming(v)
    BY <1>1, <1>4, <2>1 DEF ThreadTypes, IInv
  <2>3. PICK w \in Threads : w = Target(v)
    BY <2>2 DEF Naming
  <2>4. /\ Held(w) /\ handleOf[w] = arg[v] /\ w # u /\ Own(w)' = Own(w)
        /\ arg[v].p \in Structs /\ tp[arg[v].p] = Own(w)
    BY <1>1, <1>9, <2>2, <2>3 DEF Naming, ThreadTypes, StructTypes, Held, Own
  <2>5. Target(v)' = w
    BY <1>1, <1>4, <2>2, <2>3, <2>4 DEF Target, Own, StructTypes
  <2>6. pc[w] = "ended" => pc'[w] = "ended" /\ how'[w] = how[w]
    BY <1>7 DEF EndsKept
  <2>7. pc'[w] = "start" => pc[w] = "start"
    BY <1>7 DEF NamesKept
  <2>8. \A x \in Threads : pc'[x] \in Named => pc[x] \in Named /\ arg'[x] = arg[x]
    BY <1>7 DEF NamesKept
  <2> QED
    BY <1>5, <1>7, <1>9, <2>2, <2>3, <2>4, <2>5, <2>6, <2>7, <2>8 DEF Naming
<1>13. (\A v \in Threads : Holding(v)') /\ (\A s \in Structs : Locking(s)')
  <2>1. Own(u)'.async = Own(u).async /\ Own(u)'.enabled = Own(u).enabled
    BY <1>1, <1>5 DEF FieldNames
  <2> QED
    BY <1>1, <1>5, <1>6, <1>7, <1>8, <2>1, LocksStay DEF IInv
<1>14. \A v \in Threads : Aimed(v)'
  <2>1. ~Pursued(u)
    BY <1>1, NotPursued DEF DetachLocked, Lock
  <2>2. Own(u)'.state = Own(u).state
    BY <1>1, <1>5 DEF FieldNames
  <2> QED
    BY <1>5, <1>6, <1>7, <1>8, <2>1, <2>2, AimedStays DEF AimsKept
<1> QED
  BY <1>6, <1>7, <1>8, <1>10, <1>12, <1>13, <1>14, Step

\* It takes over the structure of a thread that is at PThreadStateLast.
LEMMA DetachEnding ==
  ASSUME IInv, ~DetachMeetsExit, NEW t \in Threads, NEW u \in Threads, Held(u),
         DetachLocked(t, handleOf[u]), UNCHANGED cancelVars, ~(Own(u).state < Exiting),
         self[t] # Null, ~Pursued(t), pc[t] \in {"user", "join_detach"},
         pc[t] = "user" => ~(Own(t).async /\ Own(t).enabled),
         \A v \in Threads \ {t} : pc[v] \in Named => arg[v] # handleOf[u]
  PROVE  IInv'
<1>1. StructTypes /\ ThreadTypes /\ Owners /\ Local(t) /\ Local(u)
      /\ handleOf[u].p \in Structs /\ tp[handleOf[u].p] = Own(u) /\ Own(u).state \in States
  BY DEF IInv, ThreadTypes, StructTypes, Held, Typed, Own
<1>2. Held(t) /\ Fields(t) = Own(t)
  BY <1>1, Living
<1>3. Own(u).state = Last /\ ~Own(u).detached
  BY <1>1 DEF States, DetachLocked, Joinable
<1>4. /\ pc' = [pc EXCEPT ![t] = "destroy"] /\ arg' = [arg EXCEPT ![t] = handleOf[u]]
      /\ val' = [val EXCEPT ![t] = Null]
      /\ UNCHANGED <<structVars, self, how, ghosts, cancelVars>>
  BY <1>1, <1>3 DEF DetachLocked, structVars
<1>5. Writes(t, {}) /\ Own(t)' = Own(t) /\ Lock(t)' = Lock(t) /\ Held(t)' /\ handleOf' = handleOf
      /\ killed' = killed
  BY <1>1, <1>2, <1>4, Untouched DEF ghosts
<1>6. handleOf[u] # NoHandle
  BY DEF Held
<1>7. /\ ThreadTypes' /\ NoneMade /\ EndsKept /\ LocksKept /\ AimsKept /\ asked' = asked
      /\ \A v \in Threads \ {t} : Idle(v)
  BY <1>1, <1>4 DEF ghosts, structVars, cancelVars, ThreadTypes, NoneMade, EndsKept,
     LocksKept, AimsKept,
     Idle, Places
<1>8. Local(t)'
  <2>1. Place(t)'
    BY <1>1, <1>2, <1>4, <1>5, <1>6 DEF Local, Place, ThreadTypes
  <2>2. Asked(t)'
    BY <1>1, <1>2, <1>4, <1>5 DEF Local, Asked, ThreadTypes, cancelVars
  <2>3. Request(t)'
    BY <1>1, <1>2, <1>4, <1>5 DEF Local, Request, ThreadTypes
  <2>4. Async(t)'
    BY <1>1, <1>2, <1>4, <1>5 DEF Local, Async, ThreadTypes
  <2>5. Exits(t)'
    BY <1>1, <1>2, <1>4, <1>5 DEF Local, Exits, ThreadTypes
  <2> QED
    BY <2>1, <2>2, <2>3, <2>4, <2>5 DEF Local
<1>9. /\ \A v \in Threads : (Held(v)' <=> Held(v)) /\ Own(v)' = Own(v)
      /\ tp' = tp
  BY <1>4 DEF structVars, ghosts, Held, Valid, Own
<1>10. ASSUME NEW v \in Threads PROVE Naming(v)'
  <2>1. CASE v = t
    <3>1. Target(t)' = u
      BY <1>1, <1>4, <1>9 DEF Target, Own, Owners, ThreadTypes
    <3> QED
      BY <1>1, <1>3, <1>4, <1>5, <1>7, <1>9, <2>1, <3>1 DEF Naming, ThreadTypes, Idle
  <2>2. CASE v # t
    <3>1. SUFFICES ASSUME pc[v] \in Named PROVE Naming(v)'
      BY <1>7, <2>2 DEF Naming, Idle
    <3>2. Naming(v) /\ pc'[v] = pc[v] /\ arg'[v] = arg[v] /\ val'[v] = val[v] /\ arg[v] # handleOf[u]
      BY <1>7, <2>2, <3>1 DEF IInv, Idle
    <3>3. Target(v)' = Target(v)
      BY <1>9, <3>2 DEF Target
    <3>4. PICK w \in Threads : w = Target(v)
      BY <3>1, <3>2 DEF Naming
    <3>5. pc[w] = "ended" => pc'[w] = "ended" /\ how'[w] = how[w]
      BY <1>7 DEF EndsKept
    <3>6. pc'[w] = "start" => pc[w] = "start"
      BY <1>1, <1>4, <1>7 DEF Idle, ThreadTypes
    <3>7. \A x \in Threads \ {t} : pc'[x] \in Named => pc[x] \in Named /\ arg'[x] = arg[x]
      BY <1>7 DEF Idle
    <3>8. arg'[t] # arg[v]
      BY <1>1, <1>4, <3>2 DEF ThreadTypes
    <3> QED
      BY <1>5, <1>7, <1>9, <3>1, <3>2, <3>3, <3>4, <3>5, <3>6, <3>7, <3>8 DEF Naming
  <2> QED
    BY <2>1, <2>2
<1>11. (\A v \in Threads : Holding(v)') /\ (\A s \in Structs : Locking(s)')
  BY <1>1, <1>2, <1>5, <1>7, LocksStay DEF IInv
<1>12. \A v \in Threads : Aimed(v)'
  BY <1>2, <1>5, <1>7, AimedStays DEF AimsKept
<1> QED
  BY <1>2, <1>5, <1>7, <1>8, <1>10, <1>11, <1>12, Step

\* pthread_detach of the application,
LEMMA DetachKeeps ==
  ASSUME IInv, ~AsyncMeetsCall, ~DetachMeetsExit, NEW t \in Threads, NEW h \in Handles, Detach(t, h),
         UNCHANGED cancelVars
  PROVE  IInv'
<1>1. ThreadTypes /\ StructTypes /\ Local(t) /\ self[t] # Null /\ pc[t] = "user"
  BY DEF IInv, Detach, MayCall
<1>2. PICK u \in Threads : handleOf[u] = h /\ Held(u)
  BY HandleOf DEF Detach, DetachLocked, Joinable
<1>3. ~(Own(t).async /\ Own(t).enabled)
  BY <1>1, Living DEF Detach, MayCall, Settings
<1>4. \A v \in Threads \ {t} : pc[v] \in Named => arg[v] # handleOf[u]
  BY <1>2 DEF Detach, Using
<1>5. ~Pursued(t)
  BY <1>1, NotTargeted DEF Detach, MayCall
<1> QED
  BY <1>1, <1>2, <1>3, <1>4, <1>5, DetachRunning, DetachEnding DEF Detach

\* and that of pthread_join, whose thread has ended.
LEMMA JoinDetachKeeps ==
  ASSUME IInv, ~DetachMeetsExit, NEW t \in Threads, JoinDetach(t), UNCHANGED cancelVars
  PROVE  IInv'
<1>1. Local(t) /\ self[t] # Null /\ pc[t] = "join_detach"
  BY DEF IInv, JoinDetach, Local, Place
<1>2. PICK u \in Threads : u = Target(t) /\ handleOf[u] = arg[t] /\ Held(u)
  BY <1>1, TargetOf
<1>3. pc[u] = "ended" /\ \A v \in Threads \ {t, u} : pc[v] \in Named => arg[v] # arg[t]
  BY <1>1, <1>2 DEF IInv, Naming
<1>4. ~Pursued(t)
  BY <1>1, NotPursued
<1> QED
  BY <1>1, <1>2, <1>3, <1>4, DetachRunning, DetachEnding DEF JoinDetach

-----------------------------------------------------------------------------
(* A structure is given back. *)

\* A thread that has a structure is not on the list, nor is one that is made.
LEMMA NotListed ==
  ASSUME NEW n \in Nat, NEW f \in [1..n -> heap], Listed(n, f), NEW s,
         tp[s].threadH # NoThread \/ \E t \in Threads : pc[t] \in Making /\ arg[t].p = s
  PROVE  \A i \in 1..n : f[i] # s
BY DEF Listed

\* Nor is the bottom of the list in the making, or that of a thread.
LEMMA Bottom ==
  ASSUME List, StructTypes
  PROVE  reuseBottom # End =>
           reuseBottom \in Structs /\ tp[reuseBottom].threadH = NoThread
           /\ \A t \in Threads : pc[t] \in Making => arg[t].p # reuseBottom
<1>1. PICK n \in Nat : \E f \in [1..n -> heap] : Listed(n, f)
  BY DEF List
<1>2. PICK f \in [1..n -> heap] : Listed(n, f)
  BY <1>1
<1>3. reuseBottom # End => n \in 1..n /\ reuseBottom = f[n]
  BY <1>2 DEF Listed
<1> QED
  BY <1>2, <1>3 DEF Listed, StructTypes

\* A structure is pushed on the list that only t works on.
Pushes(t, s) ==
  /\ Push(s) /\ s \in heap /\ tp[s].x <= MaxReuse
  /\ tp[s].threadH # NoThread \/ (pc[t] \in Making /\ arg[t].p = s)
  /\ \A v \in Threads \ {t} : pc[v] \in Named \union Making => arg[v].p # s

\* The push wipes the structure, links it to the bottom of the list, and makes all
\* handles to it stale, and no others.
LEMMA PushFacts ==
  ASSUME IInv, NEW t \in Threads, NEW s \in Structs, Pushes(t, s), handleOf' = handleOf
  PROVE  /\ DOMAIN tp' = Structs /\ tp'[s] = Clean(tp[s].x + 1, Reuse) /\ s # reuseBottom
         /\ \A q \in Structs \ {s} : tp'[q] = IF q = reuseBottom THEN [tp[q] EXCEPT !.prevReuse = s] ELSE tp[q]
         /\ \A q \in Structs \ {s} : tp'[q].x = tp[q].x /\ tp'[q].threadH = tp[q].threadH
         /\ \A q \in Structs \ {s} : tp[q].threadH # NoThread => tp'[q] = tp[q]
         /\ \A v \in Threads : Held(v)' <=> Held(v) /\ handleOf[v].p # s
         /\ \A v \in Threads : Held(v)' => Own(v)' = Own(v) /\ Lock(v)' = Lock(v)
<1>1. StructTypes /\ ThreadTypes /\ Owners /\ List
  BY DEF IInv
<1>2. s # reuseBottom
  BY <1>1, Bottom DEF Pushes, StructTypes
<1>3. DOMAIN tp' = Structs /\ tp'[s] = Clean(tp[s].x + 1, Reuse)
  BY <1>1, <1>2 DEF Pushes, Push, StructTypes
<1>4. \A q \in Structs \ {s} : tp'[q] = IF q = reuseBottom THEN [tp[q] EXCEPT !.prevReuse = s] ELSE tp[q]
  BY <1>1, <1>2 DEF Pushes, Push, StructTypes
<1>5. \A q \in Structs \ {s} : tp'[q].x = tp[q].x /\ tp'[q].threadH = tp[q].threadH
  BY <1>1, <1>4, ZenonT(60) DEF StructTypes, Typed, FieldNames
<1>6. \A q \in Structs \ {s} : tp[q].threadH # NoThread => tp'[q] = tp[q]
  BY <1>1, <1>4, Bottom
<1>7. tp'[s].x = tp[s].x + 1 /\ tp[s].x \in Nat
  BY <1>1, <1>3, CleanFields DEF StructTypes, Typed
<1>8. ASSUME NEW v \in Threads PROVE Held(v)' <=> Held(v) /\ handleOf[v].p # s
  <2>1. CASE handleOf[v] = NoHandle
    BY <2>1 DEF Held
  <2>2. CASE handleOf[v] # NoHandle /\ handleOf[v].p = s
    <3>1. handleOf[v].x <= tp[s].x /\ handleOf[v].x \in Nat
      BY <1>1, <2>2 DEF Owners, Own, ThreadTypes
    <3> QED
      BY <1>7, <2>2, <3>1 DEF Held, Valid
  <2>3. CASE handleOf[v] # NoHandle /\ handleOf[v].p # s
    BY <1>1, <1>5, <2>3 DEF Held, Valid, ThreadTypes, StructTypes
  <2> QED
    BY <2>1, <2>2, <2>3
<1>9. ASSUME NEW v \in Threads, Held(v)' PROVE Own(v)' = Own(v) /\ Lock(v)' = Lock(v)
  <2>1. Held(v) /\ handleOf[v].p \in Structs \ {s} /\ tp[handleOf[v].p].threadH = v
    BY <1>1, <1>8, <1>9 DEF Held, ThreadTypes, StructTypes, Owners, Own
  <2>2. stateLock'[handleOf[v].p] = stateLock[handleOf[v].p]
    BY <1>1, <2>1 DEF Pushes, Push, StructTypes
  <2> QED
    BY <1>6, <2>1, <2>2 DEF Own, Lock
<1> QED
  BY <1>2, <1>3, <1>4, <1>5, <1>6, <1>8, <1>9

\* The list is then longer by this structure, which was not on it.
LEMMA PushLists ==
  ASSUME IInv, NEW t \in Threads, NEW s \in Structs, Pushes(t, s), handleOf' = handleOf,
         \A v \in Threads \ {t} : Idle(v), pc'[t] \notin Making
  PROVE  List'
<1>1. StructTypes /\ ThreadTypes /\ Owners /\ List
  BY DEF IInv
<1>2. PICK n \in Nat : \E f \in [1..n -> heap] : Listed(n, f)
  BY <1>1 DEF List
<1>3. PICK f \in [1..n -> heap] : Listed(n, f)
  BY <1>2
<1>4. \A i \in 1..n : f[i] # s /\ f[i] \in Structs
  BY <1>1, <1>3, NotListed DEF Pushes, StructTypes
<1> DEFINE g == [i \in 1..(n + 1) |-> IF i \in 1..n THEN f[i] ELSE s]
<1>5. /\ g \in [1..(n + 1) -> heap] /\ g[n + 1] = s /\ \A i \in 1..n : g[i] = f[i]
      /\ heap' = heap
  BY <1>3 DEF Pushes, Push
<1>6. /\ DOMAIN tp' = Structs /\ tp'[s] = Clean(tp[s].x + 1, Reuse)
      /\ \A q \in Structs \ {s} : tp'[q] = IF q = reuseBottom THEN [tp[q] EXCEPT !.prevReuse = s] ELSE tp[q]
  BY PushFacts
<1>7. \A i \in 1..n : f[i] = reuseBottom <=> i = n
  BY <1>3 DEF Listed
<1>8. n + 1 \in Nat /\ 1..(n + 1) = (1..n) \union {n + 1} /\ n + 1 \notin 1..n
  BY <1>2
<1>9. \A i, j \in 1..(n + 1) : g[i] = g[j] => i = j
  BY <1>3, <1>4, <1>5, <1>8 DEF Listed
<1>10. reuseTop' = g[1] /\ reuseBottom' = g[n + 1]
  <2>1. n # 0 => reuseTop = f[1] /\ reuseBottom = f[n] /\ reuseBottom # End
    BY <1>1, <1>3, <1>4 DEF Listed
  <2>2. n = 0 => reuseBottom = End
    BY <1>3 DEF Listed
  <2> QED
    BY <1>2, <1>5, <2>1, <2>2 DEF Pushes, Push
<1>11. ASSUME NEW i \in 1..n
       PROVE  /\ tp'[f[i]].prevReuse = g[i + 1]
              /\ tp'[f[i]].state = Reuse /\ tp'[f[i]].threadH = NoThread
              /\ tp'[f[i]].x = tp[f[i]].x
  <2>1. tp'[f[i]] = IF i = n THEN [tp[f[i]] EXCEPT !.prevReuse = s] ELSE tp[f[i]]
    BY <1>4, <1>6, <1>7
  <2>2. "prevReuse" \in DOMAIN tp[f[i]]
    BY <1>1, <1>4 DEF StructTypes, Typed, FieldNames
  <2>3. tp[f[i]].state = Reuse /\ tp[f[i]].threadH = NoThread
    BY <1>3 DEF Listed
  <2>4. i # n => tp[f[i]].prevReuse = f[i + 1] /\ i + 1 \in 1..n
    BY <1>3 DEF Listed
  <2> QED
    BY <1>5, <2>1, <2>2, <2>3, <2>4
<1>12. /\ tp'[s].prevReuse = End /\ tp'[s].state = Reuse /\ tp'[s].threadH = NoThread
       /\ tp'[s].x = tp[s].x + 1
  BY <1>6, CleanFields
<1>13. \A v \in Threads : pc'[v] \in Making => v # t /\ pc[v] \in Making /\ arg'[v] = arg[v]
  BY DEF Idle
<1>14. ASSUME NEW i \in 1..(n + 1), NEW v \in Threads
       PROVE  /\ handleOf'[v].p = g[i] => handleOf'[v].x < tp'[g[i]].x
              /\ pc'[v] \in Making => arg'[v].p # g[i]
  <2>1. CASE i = n + 1
    <3>1. handleOf[v].p = s => handleOf[v].x <= tp[s].x /\ handleOf[v].x \in Nat /\ tp[s].x \in Nat
      BY <1>1 DEF Owners, Own, ThreadTypes, StructTypes, Typed
    <3>2. pc'[v] \in Making => arg'[v].p # s
      BY <1>13 DEF Pushes
    <3> QED
      BY <1>5, <1>12, <2>1, <3>1, <3>2
  <2>2. CASE i \in 1..n
    <3>1. /\ handleOf[v].p = f[i] => handleOf[v].x < tp[f[i]].x
          /\ pc[v] \in Making => arg[v].p # f[i]
      BY <1>3, <2>2 DEF Listed
    <3>2. g[i] = f[i] /\ tp'[g[i]].x = tp[f[i]].x
      BY <1>5, <1>11, <2>2
    <3> QED
      BY <1>13, <3>1, <3>2
  <2> QED
    BY <1>8, <2>1, <2>2
<1>15. \A i \in 1..(n + 1) :
         /\ tp'[g[i]].prevReuse = IF i = n + 1 THEN End ELSE g[i + 1]
         /\ tp'[g[i]].state = Reuse /\ tp'[g[i]].threadH = NoThread
  BY <1>5, <1>8, <1>11, <1>12
<1> HIDE DEF g
<1>16. g \in [1..(n + 1) -> heap'] /\ n + 1 # 0
  BY <1>2, <1>5
<1>17. Listed(n + 1, g)'
  BY <1>9, <1>10, <1>14, <1>15, <1>16 DEF Listed
<1> QED
  BY <1>8, <1>16, <1>17 DEF List

\* No thread but one that has ended loses its structure by it.
LEMMA PushStep ==
  ASSUME IInv, NEW t \in Threads, NEW s \in Structs, Pushes(t, s), UNCHANGED ghosts,
         asked' = asked,
         \A v \in Threads \ {t} : Idle(v), ThreadTypes',
         pc[t] \in {"self", "create", "leave", "destroy"}, pc'[t] \in {"user", "ended"},
         \A v \in Threads \ {t} : Held(v) /\ handleOf[v].p = s => pc[v] = "ended",
         Local(t)'
  PROVE  IInv'
<1>1. StructTypes /\ ThreadTypes /\ Owners /\ List
  BY DEF IInv
<1>2. handleOf' = handleOf /\ killed' = killed /\ heap' = heap
  BY DEF ghosts, Pushes, Push
<1>3. /\ DOMAIN tp' = Structs /\ tp'[s] = Clean(tp[s].x + 1, Reuse) /\ s # reuseBottom
      /\ \A q \in Structs \ {s} : tp'[q] = IF q = reuseBottom THEN [tp[q] EXCEPT !.prevReuse = s] ELSE tp[q]
      /\ \A q \in Structs \ {s} : tp'[q].x = tp[q].x /\ tp'[q].threadH = tp[q].threadH
      /\ \A q \in Structs \ {s} : tp[q].threadH # NoThread => tp'[q] = tp[q]
  BY <1>2, PushFacts
<1>4. /\ \A v \in Threads : Held(v)' <=> Held(v) /\ handleOf[v].p # s
      /\ \A v \in Threads : Held(v)' => Own(v)' = Own(v) /\ Lock(v)' = Lock(v)
  BY <1>2, PushFacts
<1>5. tp'[s].x = tp[s].x + 1 /\ tp'[s].threadH = NoThread /\ tp[s].x \in Nat
  BY <1>1, <1>3, CleanFields DEF StructTypes, Typed
<1>6. StructTypes'
  <2>1. Typed(tp'[s])
    BY <1>1, <1>3, <1>5 DEF Pushes, Typed, Clean, FieldNames, States
  <2>2. \A q \in Structs \ {s} : Typed(tp'[q])
    BY <1>1, <1>3 DEF StructTypes, Typed, FieldNames
  <2>3. stateLock' \in [Structs -> Threads \union {NoThread}]
    BY <1>1 DEF StructTypes, Pushes, Push
  <2> QED
    BY <1>1, <1>2, <1>3, <2>1, <2>2, <2>3 DEF StructTypes, Typed
<1>7. Owners'
  <2>1. \A v \in Threads : Held(v)' => Own(v)'.threadH = v /\ Own(v)'.x <= MaxReuse
    BY <1>1, <1>4 DEF Owners
  <2>2. \A q \in Structs, v \in Threads : tp'[q].threadH = v => Held(v)' /\ handleOf'[v].p = q
    BY <1>1, <1>2, <1>3, <1>4, <1>5 DEF Owners
  <2>3. \A v \in Threads : handleOf[v] # NoHandle => handleOf[v].x <= Own(v)'.x
    BY <1>1, <1>2, <1>3, <1>5 DEF Owners, Own, ThreadTypes, StructTypes
  <2> QED
    BY <1>1, <1>2, <2>1, <2>2, <2>3 DEF Owners, HandlesUnique
<1>8. List'
  BY <1>2, PushLists
<1>9. ASSUME NEW v \in Threads PROVE Local(v)'
  <2>1. CASE v = t
    BY <2>1
  <2>2. CASE v # t /\ (Held(v) => handleOf[v].p # s)
    <3>1. Same(v)
      BY <1>2, <1>4, <2>2 DEF Same
    <3> QED
      BY <3>1, LocalStays DEF IInv
  <2>3. CASE v # t /\ Held(v) /\ handleOf[v].p = s
    <3>1. ~Held(v)' /\ pc[v] = "ended" /\ Idle(v) /\ Local(v) /\ handleOf'[v] = handleOf[v]
      BY <1>2, <1>4, <2>3 DEF IInv
    <3> QED
      BY <3>1 DEF Local, Place, Asked, Request, Async, Exits, Idle
  <2> QED
    BY <2>1, <2>2, <2>3
<1>10. ASSUME NEW v \in Threads PROVE Made(v)'
  <2>1. SUFFICES ASSUME pc'[v] \in Making PROVE Made(v)'
    BY DEF Made
  <2>2. v # t /\ pc[v] \in Making /\ arg'[v] = arg[v] /\ Made(v) /\ arg[v].p # s
    BY <2>1 DEF Idle, IInv, Pushes
  <2>3. /\ arg[v].p \in Structs \ {s}
        /\ tp'[arg[v].p] = tp[arg[v].p]
        /\ stateLock'[arg[v].p] = stateLock[arg[v].p]
    BY <1>1, <1>3, <2>2, Bottom DEF Made, StructTypes, Pushes, Push
  <2>4. \A w \in Threads \ {v} : pc'[w] \in Making => arg'[w].p # arg[v].p
    BY <2>2 DEF Made, Idle
  <2> QED
    BY <1>2, <2>2, <2>3, <2>4 DEF Made, Clean
<1>11. ASSUME NEW v \in Threads PROVE Naming(v)'
  <2>1. SUFFICES ASSUME pc'[v] \in Named PROVE Naming(v)'
    BY DEF Naming
  <2>2. v # t /\ pc[v] \in Named /\ pc'[v] = pc[v] /\ arg'[v] = arg[v] /\ val'[v] = val[v] /\ Naming(v)
        /\ arg[v].p # s
    BY <2>1 DEF Idle, IInv, Pushes
  <2>3. PICK w \in Threads : w = Target(v)
    BY <2>2 DEF Naming
  <2>4. Held(w) /\ handleOf[w] = arg[v] /\ Held(w)' /\ Own(w)' = Own(w) /\ tp[arg[v].p] = Own(w)
        /\ arg[v].p \in Structs \ {s}
    BY <1>1, <1>4, <2>2, <2>3 DEF Naming, Own, Held, ThreadTypes, StructTypes
  <2>5. Target(v)' = w
    BY <1>3, <2>2, <2>3, <2>4, ZenonT(60) DEF Target
  <2>6. (pc[w] = "ended" => pc'[w] = "ended" /\ how'[w] = how[w]) /\ (pc'[w] = "start" => pc[w] = "start")
    BY DEF Idle
  <2>7. \A x \in Threads : pc'[x] \in Named => x # t /\ pc[x] \in Named /\ arg'[x] = arg[x]
    BY DEF Idle
  <2> QED
    BY <1>2, <2>2, <2>3, <2>4, <2>5, <2>6, <2>7 DEF Naming
<1>12. ASSUME NEW v \in Threads PROVE Holding(v)'
  <2>1. SUFFICES ASSUME pc'[v] \in Holders PROVE Holding(v)'
    BY DEF Holding
  <2>2. v # t /\ pc[v] \in Holders /\ pc'[v] = pc[v] /\ arg'[v] = arg[v] /\ arg[v].p # s /\ stateLock[arg[v].p] = v
    BY <2>1 DEF Idle, Pushes, IInv, Holding
  <2> QED
    BY <1>1, <2>2 DEF Holding, Pushes, Push, StructTypes
<1>13. ASSUME NEW q \in Structs PROVE Locking(q)'
  <2>1. stateLock'[q] = IF q = s THEN NoThread ELSE stateLock[q]
    BY <1>1 DEF Pushes, Push, StructTypes
  <2>2. SUFFICES ASSUME q # s, stateLock[q] # NoThread PROVE Locking(q)'
    BY <2>1 DEF Locking
  <2>3. tp'[q].async = tp[q].async /\ tp'[q].enabled = tp[q].enabled
    BY <1>1, <1>3, <2>2 DEF StructTypes, Typed, FieldNames
  <2>4. stateLock[q] \in Threads \ {t} /\ Locking(q)
    BY <1>1, <2>2 DEF IInv, Locking, StructTypes
  <2> QED
    BY <2>1, <2>2, <2>3, <2>4 DEF Locking, Idle
<1>14. ASSUME NEW v \in Threads PROVE Aimed(v)'
  <2>1. SUFFICES ASSUME NEW u \in Threads, Held(u)', handleOf'[u] = arg'[v],
                        pc'[v] \in {"cancel_async", "terminate"}
                 PROVE  /\ pc'[v] = "cancel_async" =>
                             /\ pc'[u] \in {"user", "throw", "unwind"} /\ Own(u)'.enabled
                             /\ Own(u)'.state < Canceling \/ pc'[u] = "unwind"
                        /\ pc'[v] = "terminate" => Own(u)'.state >= Canceling /\ Lock(u)' = NoThread
    BY DEF Aimed
  <2>2. pc'[v] = pc[v] /\ arg'[v] = arg[v] /\ Aimed(v)
    BY <2>1 DEF Idle, IInv
  <2>3. Held(u) /\ Own(u)' = Own(u) /\ Lock(u)' = Lock(u) /\ handleOf[u] = arg[v]
    BY <1>2, <1>4, <2>1, <2>2
  <2>4. pc[v] = "cancel_async" => u # t
    BY <2>2, <2>3 DEF Aimed
  <2> QED
    BY <2>1, <2>2, <2>3, <2>4 DEF Aimed, Idle
<1> QED
  BY <1>6, <1>7, <1>8, <1>9, <1>10, <1>11, <1>12, <1>13, <1>14 DEF IInv

\* A structure that is being made is nobody's.
LEMMA MakingAlone ==
  ASSUME IInv, NEW t \in Threads, pc[t] \in Making
  PROVE  /\ arg[t].p \in Structs /\ arg[t].p \in heap /\ tp[arg[t].p].threadH = NoThread
         /\ tp[arg[t].p].x = arg[t].x /\ arg[t].x \in Nat
         /\ \A v \in Threads \ {t} : pc[v] \in Named \union Making => arg[v].p # arg[t].p
         /\ \A v \in Threads : Held(v) => handleOf[v].p # arg[t].p
<1>1. StructTypes /\ ThreadTypes /\ Owners /\ Made(t)
  BY DEF IInv
<1>2. arg[t].p \in Structs /\ arg[t].p \in heap /\ tp[arg[t].p].threadH = NoThread
      /\ tp[arg[t].p].x = arg[t].x /\ arg[t].x \in Nat
  BY <1>1, CleanFields DEF Made, StructTypes, Typed
<1>3. \A v \in Threads : pc[v] \in Named => arg[v].p # arg[t].p
  BY <1>2 DEF IInv, Naming, Target
<1>4. \A v \in Threads \ {t} : pc[v] \in Making => arg[v].p # arg[t].p
  BY <1>1 DEF Made
<1>5. \A v \in Threads : Held(v) => handleOf[v].p # arg[t].p
  BY <1>1, <1>2 DEF Owners, Own
<1> QED
  BY <1>2, <1>3, <1>4, <1>5

\* pthread_self fails and gives the structure back.
LEMMA SelfFailsKeeps ==
  ASSUME IInv, ~AffinityFails, NEW t \in Threads, SelfFails(t), UNCHANGED cancelVars
  PROVE  IInv'
<1>0. self' = self
  <2>1. PICK affinity \in {FALSE, AffinityFails} :
          self' = IF affinity THEN [self EXCEPT ![t] = arg[t].p] ELSE self
    BY DEF SelfFails
  <2>2. ~affinity
    BY <2>1, Zenon
  <2> QED
    BY <2>1, <2>2, Zenon
<1>1. StructTypes /\ ThreadTypes /\ Owners /\ Local(t) /\ pc[t] = "self" /\ heap' = heap
  BY DEF IInv, SelfFails, Push
<1> DEFINE s == arg[t].p
<1>2. /\ s \in Structs /\ s \in heap /\ tp[s].x <= MaxReuse
      /\ \A v \in Threads \ {t} : pc[v] \in Named \union Making => arg[v].p # s
      /\ \A v \in Threads : Held(v) => handleOf[v].p # s
  BY <1>1, MakingAlone DEF SelfFails
<1>3. Pushes(t, s)
  BY <1>1, <1>2 DEF Pushes, SelfFails
<1>4. /\ ThreadTypes' /\ \A v \in Threads \ {t} : Idle(v)
  BY <1>1, <1>0 DEF SelfFails, ghosts, cancelVars, ThreadTypes, Idle, Places
<1>5. handleOf'[t] = NoHandle /\ ~Held(t)'
  BY <1>1 DEF SelfFails, ghosts, Held, Local, Place
<1>6. Local(t)'
  BY <1>1, <1>5, <1>0 DEF Local, Place, Asked, Request, Async, Exits, SelfFails, ghosts,
     cancelVars, ThreadTypes
<1> QED
  BY <1>1, <1>2, <1>3, <1>4, <1>6, PushStep DEF SelfFails, cancelVars, ThreadTypes

\* So does pthread_create.
LEMMA CreateFailsKeeps ==
  ASSUME IInv, NEW t \in Threads, CreateFails(t), UNCHANGED cancelVars
  PROVE  IInv'
<1>1. StructTypes /\ ThreadTypes /\ Owners /\ Local(t) /\ pc[t] = "create" /\ heap' = heap /\ self[t] # Null
  BY DEF IInv, CreateFails, Push, Local, Place
<1> DEFINE s == arg[t].p
<1>2. /\ s \in Structs /\ s \in heap /\ tp[s].x <= MaxReuse
      /\ \A v \in Threads \ {t} : pc[v] \in Named \union Making => arg[v].p # s
      /\ \A v \in Threads : Held(v) => handleOf[v].p # s
  BY <1>1, MakingAlone DEF CreateFails
<1>3. Pushes(t, s)
  BY <1>1, <1>2 DEF Pushes, CreateFails
<1>4. /\ ThreadTypes' /\ \A v \in Threads \ {t} : Idle(v)
  BY <1>1 DEF CreateFails, ghosts, cancelVars, ThreadTypes, Idle, Places, Ways
<1>5. handleOf' = handleOf
  BY DEF CreateFails, ghosts
<1>6. Held(t) /\ Held(t)' /\ Own(t)' = Own(t) /\ Lock(t)' = Lock(t)
  BY <1>1, <1>2, <1>3, <1>5, Living, PushFacts
<1>7. Local(t)'
  BY <1>1, <1>5, <1>6 DEF Local, Place, Asked, Request, Async, Exits, CreateFails, ghosts,
     cancelVars, ThreadTypes
<1> QED
  BY <1>1, <1>2, <1>3, <1>4, <1>7, PushStep DEF CreateFails, cancelVars, ThreadTypes

\* A detached thread gives its structure back: nobody works on its handle.
LEMMA LeaveDetached ==
  ASSUME IInv, NEW t \in Threads, Leave(t), UNCHANGED cancelVars, Fields(t).detached
  PROVE  IInv'
<1>1. StructTypes /\ ThreadTypes /\ Owners /\ Local(t) /\ pc[t] = "leave" /\ self[t] # Null
      /\ Push(self[t]) /\ self' = [self EXCEPT ![t] = Null]
  BY DEF IInv, Leave, Local, Place
<1> DEFINE s == self[t]
<1>2. Held(t) /\ handleOf[t].p = s /\ s \in Structs /\ tp[s] = Own(t) /\ heap' = heap
  BY <1>1, Living DEF Push
<1>3. s \in heap /\ tp[s].threadH = t /\ tp[s].x <= MaxReuse
  BY <1>1, <1>2 DEF Owners, ThreadTypes, Held
<1>4. \A v \in Threads \ {t} : pc[v] \in Making => arg[v].p # s
  BY <1>3, MakingAlone
<1>5. \A v \in Threads \ {t} : pc[v] \in Named => arg[v].p # s
  BY <1>2, <1>3 DEF IInv, Naming, Target, Fields
<1>6. Pushes(t, s)
  BY <1>1, <1>3, <1>4, <1>5 DEF Pushes
<1>7. \A v \in Threads \ {t} : ~(Held(v) /\ handleOf[v].p = s)
  BY <1>1, <1>3 DEF Owners, Own
<1>8. /\ ThreadTypes' /\ \A v \in Threads \ {t} : Idle(v)
  BY <1>1, <1>2 DEF Leave, ghosts, cancelVars, ThreadTypes, Idle, Places
<1>9. handleOf' = handleOf
  BY DEF Leave, ghosts
<1>10. ~Held(t)'
  BY <1>2, <1>6, <1>9, PushFacts
<1>11. Local(t)'
  BY <1>1, <1>9, <1>10 DEF Local, Place, Asked, Request, Async, Exits, Leave, ghosts,
     cancelVars, ThreadTypes
<1> QED
  BY <1>1, <1>2, <1>6, <1>7, <1>8, <1>11, PushStep DEF Leave, ghosts, cancelVars, ThreadTypes

\* The detacher gives the structure back once the thread has ended; it is the only
\* one that works on the handle.
LEMMA DestroyKeeps ==
  ASSUME IInv, NEW t \in Threads, Destroy(t), UNCHANGED cancelVars
  PROVE  IInv'
<1>1. StructTypes /\ ThreadTypes /\ Owners /\ Local(t) /\ pc[t] = "destroy" /\ self[t] # Null
      /\ Push(arg[t].p) /\ heap' = heap /\ handleOf' = handleOf /\ Naming(t)
  BY DEF IInv, Destroy, Local, Place, Push, ghosts
<1>2. PICK u \in Threads : /\ u = Target(t) /\ Held(u) /\ handleOf[u] = arg[t] /\ arg[t].p \in Structs
                           /\ tp[arg[t].p] = Own(u) /\ Own(u).threadH = u
  BY <1>1, TargetOf
<1> DEFINE s == arg[t].p
<1>3. s \in heap /\ tp[s].threadH = u /\ tp[s].x <= MaxReuse /\ u \in Threads
  BY <1>1, <1>2 DEF Owners, ThreadTypes, Held
<1>4. pc[u] = "ended" /\ u # t
  BY <1>1, <1>3 DEF Destroy
<1>5. \A v \in Threads \ {t} : pc[v] \in Making => arg[v].p # s
  BY <1>3, MakingAlone
<1>6. ASSUME NEW v \in Threads \ {t}, pc[v] \in Named, arg[v].p = s PROVE FALSE
  <2>1. Target(v) = u
    BY <1>3, <1>6 DEF Target
  <2>2. arg[v] = arg[t]
    BY <1>2, <1>6, <2>1 DEF IInv, Naming
  <2> QED
    BY <1>1, <1>2, <1>4, <1>6, <2>2 DEF Naming
<1>7. Pushes(t, s)
  BY <1>1, <1>3, <1>5, <1>6 DEF Pushes
<1>8. \A v \in Threads : Held(v) /\ handleOf[v].p = s => v = u
  BY <1>1, <1>3 DEF Owners, Own
<1>9. /\ ThreadTypes' /\ \A v \in Threads \ {t} : Idle(v)
  BY <1>1 DEF Destroy, ghosts, cancelVars, ThreadTypes, Idle, Places
<1>10. Held(t) /\ Held(t)' /\ Own(t)' = Own(t) /\ Lock(t)' = Lock(t)
  BY <1>1, <1>2, <1>4, <1>7, <1>8, Living, PushFacts
<1>11. Local(t)'
  BY <1>1, <1>10 DEF Local, Place, Asked, Request, Async, Exits, Destroy, ghosts, cancelVars,
     ThreadTypes
<1> QED
  BY <1>1, <1>2, <1>4, <1>7, <1>8, <1>9, <1>11, PushStep DEF Destroy, cancelVars, ThreadTypes

-----------------------------------------------------------------------------
(* A structure is taken. *)

\* What New does: s is taken for the thread t.
NewStepFor(t, s) ==
  /\ New(s) /\ arg' = [arg EXCEPT ![t] = [p |-> s, x |-> tp[s].x]]
  /\ UNCHANGED <<self, val, ghosts, cancelVars>>

\* The structure is nobody's, and ahead of all handles to it, whether it is the top
\* of the list or calloc returns it.
LEMMA NewFacts ==
  ASSUME IInv, NEW t \in Threads, NEW s \in Structs, NewStepFor(t, s)
  PROVE  /\ tp[s].threadH = NoThread /\ tp[s].x \in Nat /\ tp[s].x <= MaxReuse
         /\ s \in heap' /\ heap \subseteq heap' /\ heap' \subseteq Structs
         /\ DOMAIN tp' = Structs /\ tp'[s] = Clean(tp[s].x, tp[s].state)
         /\ \A q \in Structs \ {s} : tp'[q] = tp[q] /\ stateLock'[q] = stateLock[q]
         /\ stateLock' \in [Structs -> Threads \union {NoThread}] /\ stateLock'[s] = NoThread
         /\ \A v \in Threads : handleOf[v].p = s => handleOf[v].x < tp[s].x
         /\ \A v \in Threads : pc[v] \in Making => arg[v].p # s
         /\ \A v \in Threads : Held(v)' <=> Held(v)
         /\ \A v \in Threads : Held(v) => Own(v)' = Own(v) /\ Lock(v)' = Lock(v) /\ handleOf[v].p # s
<1>1. StructTypes /\ ThreadTypes /\ Owners /\ List /\ handleOf' = handleOf
  BY DEF IInv, NewStepFor, ghosts
<1>2. PICK n \in Nat : \E f \in [1..n -> heap] : Listed(n, f)
  BY <1>1 DEF List
<1>3. PICK f \in [1..n -> heap] : Listed(n, f)
  BY <1>2
<1>4. /\ tp[s].threadH = NoThread
      /\ \A v \in Threads : handleOf[v].p = s => handleOf[v].x < tp[s].x
      /\ \A v \in Threads : pc[v] \in Making => arg[v].p # s
      /\ s \in heap' /\ heap \subseteq heap' /\ heap' \subseteq Structs
  <2>1. CASE reuseTop # End
    <3>1. s = f[1] /\ 1 \in 1..n /\ heap' = heap
      BY <1>3, <2>1 DEF NewStepFor, New, Listed
    <3> QED
      BY <1>1, <1>3, <3>1 DEF Listed, StructTypes
  <2>2. CASE reuseTop = End
    <3>1. \E r \in Structs : r \notin heap
      BY <1>1, <2>2 DEF NewStepFor, New, StructTypes
    <3>2. s \notin heap /\ heap' = heap \union {s}
      BY <2>2, <3>1 DEF NewStepFor, New
    <3>3. \A v \in Threads : handleOf[v].p # s
      BY <1>1, <3>2 DEF ThreadTypes
    <3>4. tp[s].threadH = NoThread
      BY <1>1, <3>3 DEF Owners, StructTypes, Typed
    <3>5. \A v \in Threads : pc[v] \in Making => arg[v].p # s
      BY <3>2 DEF IInv, Made
    <3> QED
      BY <1>1, <3>2, <3>3, <3>4, <3>5 DEF StructTypes
  <2> QED
    BY <2>1, <2>2
<1>5. /\ DOMAIN tp' = Structs /\ tp'[s] = Clean(tp[s].x, tp[s].state)
      /\ \A q \in Structs \ {s} : tp'[q] = tp[q] /\ stateLock'[q] = stateLock[q]
      /\ stateLock' \in [Structs -> Threads \union {NoThread}] /\ stateLock'[s] = NoThread
      /\ tp[s].x <= MaxReuse /\ tp[s].x \in Nat
  BY <1>1 DEF NewStepFor, New, StructTypes, Typed
<1>6. tp'[s].x = tp[s].x
  BY <1>5, CleanFields
<1>7. \A v \in Threads : Held(v)' <=> Held(v)
  BY <1>1, <1>5, <1>6 DEF Held, Valid, ThreadTypes, StructTypes
<1>8. \A v \in Threads : Held(v) => Own(v)' = Own(v) /\ Lock(v)' = Lock(v) /\ handleOf[v].p # s
  BY <1>1, <1>4, <1>5 DEF Owners, Own, Lock, Held, ThreadTypes, StructTypes
<1> QED
  BY <1>4, <1>5, <1>7, <1>8

\* The list is without its top then.
LEMMA NewLists ==
  ASSUME IInv, NEW t \in Threads, NEW s \in Structs, NewStepFor(t, s),
         \A v \in Threads \ {t} : pc'[v] = pc[v]
  PROVE  List'
<1>1. StructTypes /\ ThreadTypes /\ Owners /\ List /\ handleOf' = handleOf
  BY DEF IInv, NewStepFor, ghosts
<1>2. PICK n \in Nat : \E f \in [1..n -> heap] : Listed(n, f)
  BY <1>1 DEF List
<1>3. PICK f \in [1..n -> heap] : Listed(n, f)
  BY <1>2
<1>4. /\ \A q \in Structs \ {s} : tp'[q] = tp[q]
      /\ heap \subseteq heap' /\ heap \subseteq Structs
  BY <1>1, NewFacts DEF StructTypes
<1>5. \A v \in Threads : pc'[v] \in Making =>
        arg'[v].p = s \/ (pc[v] \in Making /\ arg'[v] = arg[v])
  BY <1>1 DEF NewStepFor, ThreadTypes
<1>6. CASE reuseTop = End
  <2>1. n = 0 /\ reuseTop' = End /\ reuseBottom' = End
    BY <1>1, <1>3, <1>6 DEF Listed, NewStepFor, New, StructTypes
  <2>2. f \in [1..n -> heap']
    BY <1>3, <1>4
  <2>3. Listed(n, f)'
    BY <2>1, <2>2 DEF Listed
  <2> QED
    BY <1>2, <2>2, <2>3 DEF List
<1>7. CASE reuseTop # End
  <2>1. n # 0 /\ s = f[1] /\ reuseTop' = tp[s].prevReuse /\ heap' = heap
        /\ reuseBottom' = IF reuseTop' = End THEN End ELSE f[n]
    BY <1>3, <1>7 DEF Listed, NewStepFor, New
  <2>2. PICK m \in Nat : n = m + 1
    BY <1>2, <2>1
  <2> DEFINE g == [i \in 1..m |-> f[i + 1]]
  <2>3. \A i \in 1..m : i + 1 \in 1..n /\ g[i] = f[i + 1] /\ f[i + 1] \in Structs \ {s}
    BY <1>3, <1>4, <2>1, <2>2 DEF Listed
  <2>4. g \in [1..m -> heap']
    BY <1>3, <2>1, <2>3
  <2> HIDE DEF g
  <2>5. \A i, j \in 1..m : g[i] = g[j] => i = j
    BY <1>3, <2>3 DEF Listed
  <2>6. reuseTop' = (IF m = 0 THEN End ELSE g[1]) /\ reuseBottom' = (IF m = 0 THEN End ELSE g[m])
    <3>1. reuseTop' = IF m = 0 THEN End ELSE f[2]
      BY <1>3, <2>1, <2>2 DEF Listed
    <3>2. m # 0 => f[2] \in Structs /\ f[2] # End /\ 1 \in 1..m /\ m \in 1..m
      BY <2>2, <2>3
    <3> QED
      BY <2>1, <2>2, <2>3, <3>1, <3>2
  <2>7. ASSUME NEW i \in 1..m
        PROVE  /\ tp'[g[i]].prevReuse = IF i = m THEN End ELSE g[i + 1]
               /\ tp'[g[i]].state = Reuse /\ tp'[g[i]].threadH = NoThread
    BY <1>3, <1>4, <2>2, <2>3, SMTT(60) DEF Listed
  <2>8. ASSUME NEW i \in 1..m, NEW v \in Threads
        PROVE  /\ handleOf'[v].p = g[i] => handleOf'[v].x < tp'[g[i]].x
               /\ pc'[v] \in Making => arg'[v].p # g[i]
    BY <1>1, <1>3, <1>4, <1>5, <2>3 DEF Listed
  <2>9. Listed(m, g)'
    BY <2>4, <2>5, <2>6, <2>7, <2>8 DEF Listed
  <2> QED
    BY <2>2, <2>4, <2>9 DEF List
<1> QED
  BY <1>6, <1>7

\* Nothing but this structure changes.
LEMMA NewStep ==
  ASSUME IInv, NEW t \in Threads, NEW s \in Structs, NewStepFor(t, s),
         \A v \in Threads \ {t} : Idle(v), ThreadTypes',
         pc[t] = "user", ~Pursued(t), pc'[t] \in Making, Local(t)'
  PROVE  IInv'
<1>1. StructTypes /\ ThreadTypes /\ Owners /\ handleOf' = handleOf /\ killed' = killed
      /\ asked' = asked /\ arg'[t] = [p |-> s, x |-> tp[s].x]
  BY DEF IInv, NewStepFor, ghosts, cancelVars, ThreadTypes
<1>2. /\ tp[s].threadH = NoThread /\ tp[s].x \in Nat /\ tp[s].x <= MaxReuse
      /\ s \in heap' /\ heap \subseteq heap' /\ heap' \subseteq Structs
      /\ DOMAIN tp' = Structs /\ tp'[s] = Clean(tp[s].x, tp[s].state)
      /\ \A q \in Structs \ {s} : tp'[q] = tp[q] /\ stateLock'[q] = stateLock[q]
      /\ stateLock' \in [Structs -> Threads \union {NoThread}] /\ stateLock'[s] = NoThread
  BY NewFacts
<1>3. /\ \A v \in Threads : handleOf[v].p = s => handleOf[v].x < tp[s].x
      /\ \A v \in Threads : pc[v] \in Making => arg[v].p # s
      /\ \A v \in Threads : Held(v)' <=> Held(v)
      /\ \A v \in Threads : Held(v) => Own(v)' = Own(v) /\ Lock(v)' = Lock(v) /\ handleOf[v].p # s
  BY NewFacts
<1>4. tp'[s].x = tp[s].x /\ tp'[s].state = tp[s].state /\ tp'[s].threadH = NoThread
  BY <1>2, CleanFields
<1>5. StructTypes'
  <2>1. Typed(tp[s]) /\ Typed(tp'[s])
    BY <1>1, <1>2, <1>4 DEF StructTypes, Typed, Clean, FieldNames
  <2> QED
    BY <1>1, <1>2, <2>1 DEF StructTypes, Typed
<1>6. Owners'
  <2>1. \A v \in Threads : Held(v)' => Own(v)'.threadH = v /\ Own(v)'.x <= MaxReuse
    BY <1>1, <1>3 DEF Owners
  <2>2. \A q \in Structs, v \in Threads : tp'[q].threadH = v => Held(v)' /\ handleOf'[v].p = q
    BY <1>1, <1>2, <1>3, <1>4 DEF Owners
  <2>3. \A v \in Threads : handleOf[v] # NoHandle => handleOf[v].x <= Own(v)'.x
    BY <1>1, <1>2, <1>4 DEF Owners, Own, ThreadTypes, StructTypes
  <2> QED
    BY <1>1, <2>1, <2>2, <2>3 DEF Owners, HandlesUnique
<1>7. List'
  BY NewLists DEF Idle
<1>8. ASSUME NEW v \in Threads PROVE Local(v)'
  <2>1. v # t => Same(v)
    BY <1>1, <1>3 DEF Same
  <2> QED
    BY <1>1, <2>1, LocalStays DEF IInv
<1>9. ASSUME NEW v \in Threads PROVE Made(v)'
  <2>1. CASE v = t
    <3>1. \A w \in Threads \ {t} : pc'[w] \in Making => arg'[w].p # s
      BY <1>3 DEF Idle
    <3>2. arg'[t].p = s /\ arg'[t].x = tp[s].x
      BY <1>1
    <3> QED
      BY <1>1, <1>2, <1>3, <1>4, <2>1, <3>1, <3>2 DEF Made
  <2>2. CASE v # t
    <3>1. SUFFICES ASSUME pc[v] \in Making PROVE Made(v)'
      BY <2>2 DEF Made, Idle
    <3>2. Made(v) /\ arg'[v] = arg[v] /\ arg[v].p # s /\ arg[v].p \in Structs
          /\ arg[v].p \in heap
      BY <1>1, <1>3, <2>2, <3>1 DEF IInv, Idle, Made, StructTypes
    <3>3. tp'[arg[v].p] = tp[arg[v].p] /\ stateLock'[arg[v].p] = stateLock[arg[v].p]
      BY <1>2, <3>2
    <3>4. \A w \in Threads \ {v} : pc'[w] \in Making => arg'[w].p # arg[v].p
      BY <1>1, <2>2, <3>1, <3>2 DEF Made, Idle
    <3> QED
      BY <1>1, <1>2, <3>1, <3>2, <3>3, <3>4 DEF Made, Clean
  <2> QED
    BY <2>1, <2>2
<1>10. ASSUME NEW v \in Threads PROVE Naming(v)'
  <2>1. SUFFICES ASSUME pc'[v] \in Named PROVE Naming(v)'
    BY DEF Naming
  <2>2. v # t /\ pc[v] \in Named /\ pc'[v] = pc[v] /\ arg'[v] = arg[v] /\ val'[v] = val[v] /\ Naming(v)
    BY <2>1 DEF Idle, IInv
  <2>3. PICK w \in Threads : w = Target(v)
    BY <2>2 DEF Naming
  <2>4. Held(w) /\ handleOf[w] = arg[v] /\ Held(w)' /\ Own(w)' = Own(w) /\ tp[arg[v].p] = Own(w)
        /\ arg[v].p \in Structs \ {s}
    BY <1>1, <1>3, <2>2, <2>3, SMTT(60) DEF Naming, Own, Held, ThreadTypes, StructTypes
  <2>5. Target(v)' = w
    BY <1>2, <2>2, <2>3, <2>4 DEF Target
  <2>6. (pc[w] = "ended" => pc'[w] = "ended" /\ how'[w] = how[w]) /\ (pc'[w] = "start" => pc[w] = "start")
    BY DEF Idle
  <2>7. \A x \in Threads : pc'[x] \in Named => x # t /\ pc[x] \in Named /\ arg'[x] = arg[x]
    BY DEF Idle
  <2> QED
    BY <1>1, <2>2, <2>3, <2>4, <2>5, <2>6, <2>7 DEF Naming
<1>11. ASSUME NEW v \in Threads PROVE Holding(v)'
  <2>1. SUFFICES ASSUME pc'[v] \in Holders PROVE Holding(v)'
    BY DEF Holding
  <2>2. pc[v] \in Holders /\ arg'[v] = arg[v] /\ stateLock[arg[v].p] = v
    BY <2>1 DEF Idle, IInv, Holding
  <2>3. arg[v].p \in Structs /\ tp[arg[v].p].threadH # NoThread
    BY <2>2, TargetOf
  <2> QED
    BY <1>2, <2>2, <2>3 DEF Holding
<1>12. ASSUME NEW q \in Structs PROVE Locking(q)'
  <2>1. SUFFICES ASSUME q # s, stateLock[q] # NoThread PROVE Locking(q)'
    BY <1>2 DEF Locking
  <2>2. stateLock[q] \in Threads \ {t} /\ Locking(q)
    BY <1>1, <2>1 DEF IInv, Locking, StructTypes
  <2> QED
    BY <1>2, <2>1, <2>2 DEF Locking, Idle
<1>13. ASSUME NEW v \in Threads PROVE Aimed(v)'
  <2>1. SUFFICES ASSUME NEW u \in Threads, Held(u)', handleOf'[u] = arg'[v],
                        pc'[v] \in {"cancel_async", "terminate"}
                 PROVE  /\ pc'[v] = "cancel_async" =>
                             /\ pc'[u] \in {"user", "throw", "unwind"} /\ Own(u)'.enabled
                             /\ Own(u)'.state < Canceling \/ pc'[u] = "unwind"
                        /\ pc'[v] = "terminate" => Own(u)'.state >= Canceling /\ Lock(u)' = NoThread
    BY DEF Aimed
  <2>2. pc'[v] = pc[v] /\ arg'[v] = arg[v] /\ Aimed(v)
    BY <2>1 DEF Idle, IInv
  <2>3. Held(u) /\ Own(u)' = Own(u) /\ Lock(u)' = Lock(u) /\ handleOf[u] = arg[v]
    BY <1>1, <1>3, <2>1, <2>2
  <2>4. pc[v] = "cancel_async" => u # t
    BY <2>3 DEF Pursued
  <2> QED
    BY <2>1, <2>2, <2>3, <2>4 DEF Aimed, Idle
<1> QED
  BY <1>5, <1>6, <1>7, <1>8, <1>9, <1>10, <1>11, <1>12, <1>13 DEF IInv

\* pthread_self takes a structure.
LEMMA SelfKeeps ==
  ASSUME IInv, NEW t \in Threads, Self(t), UNCHANGED cancelVars
  PROVE  IInv'
<1>1. StructTypes /\ ThreadTypes /\ Local(t) /\ self[t] = Null /\ pc[t] = "user" /\ handleOf[t] = NoHandle
  BY DEF IInv, Self, Local, Place
<1>2. PICK s \in Structs : NewStepFor(t, s)
  BY DEF Self, NewStepFor
<1>3. tp[s].x \in Nat /\ s \in heap' /\ heap \subseteq heap'
  BY <1>2, NewFacts
<1>4. /\ ThreadTypes' /\ \A v \in Threads \ {t} : Idle(v)
  BY <1>1, <1>2, <1>3 DEF NewStepFor, Self, ghosts, cancelVars, ThreadTypes, Idle, Places
<1>5. arg'[t] # NoHandle /\ handleOf'[t] = NoHandle /\ ~Held(t)'
  BY <1>1, <1>2 DEF NewStepFor, ghosts, ThreadTypes, Held
<1>6. Local(t)'
  BY <1>1, <1>5 DEF Local, Place, Asked, Request, Async, Exits, Self, ghosts, cancelVars,
     ThreadTypes
<1>7. pc'[t] = "self"
  BY <1>1 DEF Self, ThreadTypes
<1>8. ~Pursued(t)
  BY <1>1 DEF Pursued, Held
<1> QED
  BY <1>1, <1>2, <1>4, <1>6, <1>7, <1>8, NewStep

\* pthread_create takes one.
LEMMA CreateKeeps ==
  ASSUME IInv, ~AsyncMeetsCall, NEW t \in Threads, NEW d \in BOOLEAN, Create(t, d), UNCHANGED cancelVars
  PROVE  IInv'
<1>1. StructTypes /\ ThreadTypes /\ Local(t) /\ self[t] # Null /\ pc[t] = "user"
  BY DEF IInv, Create, MayCall
<1>2. PICK s \in Structs : NewStepFor(t, s)
                           /\ how' = [how EXCEPT ![t] = IF d THEN "detached" ELSE "joinable"]
  BY DEF Create, NewStepFor
<1>3. tp[s].x \in Nat /\ s \in heap' /\ heap \subseteq heap'
  BY <1>2, NewFacts
<1>4. /\ ThreadTypes' /\ \A v \in Threads \ {t} : Idle(v)
  BY <1>1, <1>2, <1>3 DEF NewStepFor, Create, ghosts, cancelVars, ThreadTypes, Idle, Places,
     Ways
<1>5. arg'[t] # NoHandle /\ handleOf'[t] = handleOf[t] /\ ~(Own(t).async /\ Own(t).enabled)
  BY <1>1, <1>2, Living DEF NewStepFor, ghosts, ThreadTypes, Create, MayCall, Settings
<1>6. Held(t) /\ Held(t)' /\ Own(t)' = Own(t) /\ Lock(t)' = Lock(t)
  BY <1>1, <1>2, NewFacts, Living
<1>7. Local(t)'
  BY <1>1, <1>5, <1>6 DEF Local, Place, Asked, Request, Async, Exits, Create, ghosts,
     cancelVars, ThreadTypes
<1>8. pc'[t] = "create"
  BY <1>1 DEF Create, ThreadTypes
<1>9. ~Pursued(t)
  BY <1>1, NotTargeted DEF Create, MayCall
<1> QED
  BY <1>1, <1>2, <1>4, <1>7, <1>8, <1>9, NewStep

-----------------------------------------------------------------------------
(* A structure becomes that of a thread. *)

\* The structure that t has made becomes that of u.
LEMMA MadeStep ==
  ASSUME IInv, NEW t \in Threads, NEW u \in Threads, pc[t] \in Making, handleOf[u] = NoHandle,
         UNCHANGED <<heap, reuseTop, reuseBottom, stateLock, killed>>, asked' = asked,
         DOMAIN tp' = Structs, \A q \in Structs \ {arg[t].p} : tp'[q] = tp[q],
         Typed(tp'[arg[t].p]), tp'[arg[t].p].x = arg[t].x, tp'[arg[t].p].threadH = u,
         handleOf' = [handleOf EXCEPT ![u] = arg[t]],
         \A v \in Threads \ {t, u} : Idle(v), ThreadTypes',
         pc'[t] = "user", u = t \/ (pc[u] = "unborn" /\ pc'[u] = "start"),
         Local(t)', Local(u)'
  PROVE  IInv'
<1>1. StructTypes /\ ThreadTypes /\ Owners /\ List
  BY DEF IInv
<1> DEFINE s == arg[t].p
<1>2. /\ s \in Structs /\ s \in heap /\ tp[s].threadH = NoThread /\ tp[s].x = arg[t].x /\ arg[t].x \in Nat
      /\ \A v \in Threads \ {t} : pc[v] \in Named \union Making => arg[v].p # s
      /\ \A v \in Threads : Held(v) => handleOf[v].p # s
  BY MakingAlone
<1>3. /\ arg[t].x <= MaxReuse /\ stateLock[s] = NoThread
      /\ \A v \in Threads : handleOf[v].p = s => handleOf[v].x < arg[t].x
  BY DEF IInv, Made
<1>4. /\ handleOf'[u] = arg[t] /\ arg[t] # NoHandle
      /\ \A v \in Threads \ {u} : handleOf'[v] = handleOf[v]
  BY <1>1, <1>2 DEF ThreadTypes
<1>5. Held(u)' /\ ~Held(u)
  BY <1>1, <1>4 DEF Held, Valid
<1>6. ASSUME NEW v \in Threads \ {u} PROVE Held(v)' <=> Held(v)
  <2>1. CASE handleOf[v] = NoHandle
    BY <1>4, <2>1 DEF Held
  <2>2. CASE handleOf[v] # NoHandle /\ handleOf[v].p = s
    <3>1. handleOf[v].x < tp[s].x /\ handleOf[v].x \in Nat
      BY <1>1, <1>2, <1>3, <2>2 DEF ThreadTypes
    <3> QED
      BY <1>2, <1>4, <2>2, <3>1 DEF Held, Valid
  <2>3. CASE handleOf[v] # NoHandle /\ handleOf[v].p # s
    BY <1>1, <1>4, <2>3 DEF Held, Valid, ThreadTypes, StructTypes
  <2> QED
    BY <2>1, <2>2, <2>3
<1>7. \A v \in Threads \ {u} : Held(v) => Own(v)' = Own(v) /\ Lock(v)' = Lock(v)
  BY <1>1, <1>2, <1>4 DEF Own, Lock, Held, ThreadTypes, StructTypes
<1>8. StructTypes'
  BY <1>1, <1>2 DEF StructTypes
<1>9. Owners'
  <2>1. \A v \in Threads : Held(v)' => Own(v)'.threadH = v /\ Own(v)'.x <= MaxReuse
    <3>1. Own(u)'.threadH = u /\ Own(u)'.x <= MaxReuse
      BY <1>3, <1>4 DEF Own
    <3> QED
      BY <1>1, <1>6, <1>7, <3>1 DEF Owners
  <2>2. \A q \in Structs, v \in Threads : tp'[q].threadH = v => Held(v)' /\ handleOf'[v].p = q
    <3>1. \A v \in Threads : tp'[s].threadH = v => Held(v)' /\ handleOf'[v].p = s
      BY <1>4, <1>5
    <3>2. \A q \in Structs \ {s}, v \in Threads : tp'[q].threadH = v => Held(v)' /\ handleOf'[v].p = q
      BY <1>1, <1>4, <1>5, <1>6 DEF Owners
    <3> QED
      BY <3>1, <3>2
  <2>3. \A v \in Threads : handleOf'[v] # NoHandle => handleOf'[v].x <= Own(v)'.x
    <3>1. Own(u)'.x = arg[t].x
      BY <1>4 DEF Own
    <3>2. \A v \in Threads \ {u} : handleOf[v] # NoHandle => handleOf[v].x <= Own(v)'.x
      BY <1>1, <1>2, <1>4 DEF Owners, Own, ThreadTypes, StructTypes
    <3> QED
      BY <1>2, <1>4, <3>1, <3>2
  <2>4. HandlesUnique'
    <3>1. \A v \in Threads \ {u} : handleOf[v] # arg[t]
      BY <1>2, <1>3
    <3> QED
      BY <1>1, <1>4, <3>1 DEF Owners, HandlesUnique
  <2> QED
    BY <2>1, <2>2, <2>3, <2>4 DEF Owners
<1>10. List'
  <2>1. PICK n \in Nat : \E f \in [1..n -> heap] : Listed(n, f)
    BY <1>1 DEF List
  <2>2. PICK f \in [1..n -> heap] : Listed(n, f)
    BY <2>1
  <2>3. \A i \in 1..n : f[i] # s /\ f[i] \in Structs /\ tp'[f[i]] = tp[f[i]]
    BY <1>1, <2>2, NotListed DEF StructTypes
  <2>4. \A v \in Threads : pc'[v] \in Making => pc[v] \in Making /\ arg'[v] = arg[v]
    BY DEF Idle
  <2>5. \A v \in Threads : handleOf'[v] = handleOf[v] \/ handleOf'[v].p = s
    BY <1>4
  <2>6. Listed(n, f)'
    BY <2>2, <2>3, <2>4, <2>5 DEF Listed
  <2> QED
    BY <2>1, <2>2, <2>6 DEF List
<1>11. ASSUME NEW v \in Threads PROVE Local(v)'
  <2>1. v \notin {t, u} => Same(v)
    BY <1>4, <1>6, <1>7 DEF Same
  <2> QED
    BY <2>1, LocalStays DEF IInv
<1>12. ASSUME NEW v \in Threads PROVE Made(v)'
  <2>1. SUFFICES ASSUME pc'[v] \in Making PROVE Made(v)'
    BY DEF Made
  <2>2. v \notin {t, u} /\ pc[v] \in Making /\ arg'[v] = arg[v] /\ Made(v) /\ arg[v].p # s
        /\ arg[v].p \in Structs
    BY <1>1, <1>2, <2>1 DEF Idle, IInv, Made, StructTypes
  <2>3. tp'[arg[v].p] = tp[arg[v].p]
    BY <2>2
  <2>4. \A w \in Threads \ {v} : pc'[w] \in Making => arg'[w].p # arg[v].p
    BY <2>2 DEF Made, Idle
  <2>5. \A w \in Threads : handleOf'[w].p = arg[v].p => handleOf'[w].x < arg[v].x
    BY <1>4, <2>2 DEF Made
  <2> QED
    BY <2>2, <2>3, <2>4, <2>5 DEF Made, Clean
<1>13. ASSUME NEW v \in Threads PROVE Naming(v)'
  <2>1. SUFFICES ASSUME pc'[v] \in Named PROVE Naming(v)'
    BY DEF Naming
  <2>2. v \notin {t, u} /\ pc[v] \in Named /\ pc'[v] = pc[v] /\ arg'[v] = arg[v] /\ val'[v] = val[v]
        /\ Naming(v)
    BY <2>1 DEF Idle, IInv
  <2>3. PICK w \in Threads : w = Target(v)
    BY <2>2 DEF Naming
  <2>4. Held(w) /\ handleOf[w] = arg[v] /\ w # u
    BY <1>5, <2>2, <2>3 DEF Naming
  <2>5. Held(w)' /\ Own(w)' = Own(w) /\ tp[arg[v].p] = Own(w) /\ arg[v].p \in Structs \ {s}
        /\ handleOf'[w] = arg[v]
    BY <1>1, <1>2, <1>4, <1>6, <1>7, <2>4, SMTT(60) DEF Own, Held, ThreadTypes, StructTypes
  <2>6. Target(v)' = w
    BY <2>2, <2>3, <2>5 DEF Target
  <2>7. (pc[w] = "ended" => pc'[w] = "ended" /\ how'[w] = how[w]) /\ (pc'[w] = "start" => pc[w] = "start")
    BY <2>4 DEF Idle
  <2>8. \A x \in Threads : pc'[x] \in Named => pc[x] \in Named /\ arg'[x] = arg[x]
    BY DEF Idle
  <2> QED
    BY <2>2, <2>3, <2>4, <2>5, <2>6, <2>7, <2>8 DEF Naming
<1>14. ASSUME NEW v \in Threads PROVE Holding(v)'
  BY DEF IInv, Holding, Idle
<1>15. ASSUME NEW q \in Structs PROVE Locking(q)'
  <2>1. SUFFICES ASSUME stateLock[q] # NoThread PROVE Locking(q)'
    BY DEF Locking
  <2>2. stateLock[q] \in Threads /\ pc[stateLock[q]] \in Holders /\ Locking(q) /\ q # s
    BY <1>1, <1>3, <2>1 DEF IInv, Locking, StructTypes
  <2>3. stateLock[q] \notin {t, u}
    BY <2>2, SMTT(60)
  <2> QED
    BY <2>1, <2>2, <2>3 DEF Locking, Idle
<1>16. ASSUME NEW v \in Threads PROVE Aimed(v)'
  <2>1. SUFFICES ASSUME NEW w \in Threads, Held(w)', handleOf'[w] = arg'[v],
                        pc'[v] \in {"cancel_async", "terminate"}
                 PROVE  /\ pc'[v] = "cancel_async" =>
                             /\ pc'[w] \in {"user", "throw", "unwind"} /\ Own(w)'.enabled
                             /\ Own(w)'.state < Canceling \/ pc'[w] = "unwind"
                        /\ pc'[v] = "terminate" => Own(w)'.state >= Canceling /\ Lock(w)' = NoThread
    BY DEF Aimed
  <2>2. v \notin {t, u} /\ pc'[v] = pc[v] /\ arg'[v] = arg[v] /\ arg[v].p # s /\ Aimed(v)
    BY <1>2, <2>1 DEF Idle, IInv
  <2>3. w # u
    BY <1>4, <2>1, <2>2
  <2>4. Held(w) /\ Own(w)' = Own(w) /\ Lock(w)' = Lock(w) /\ handleOf[w] = arg[v]
    BY <1>4, <1>6, <1>7, <2>1, <2>2, <2>3
  <2>5. pc[v] = "cancel_async" => w # t
    BY <2>2, <2>4 DEF Aimed
  <2> QED
    BY <2>1, <2>2, <2>3, <2>4, <2>5 DEF Aimed, Idle
<1> QED
  BY <1>8, <1>9, <1>10, <1>11, <1>12, <1>13, <1>14, <1>15, <1>16 DEF IInv

\* pthread_self has set the structure up.
LEMMA SelfDoneKeeps ==
  ASSUME IInv, NEW t \in Threads, SelfDone(t), UNCHANGED cancelVars
  PROVE  IInv'
<1>1. StructTypes /\ ThreadTypes /\ Local(t) /\ Made(t) /\ pc[t] = "self" /\ handleOf[t] = NoHandle
      /\ self[t] = Null
  BY DEF IInv, SelfDone, Local, Place
<1>2. /\ arg[t].p \in Structs /\ arg[t].p \in heap /\ tp[arg[t].p].x = arg[t].x
  BY <1>1, MakingAlone
<1>3. /\ tp' = [tp EXCEPT ![arg[t].p].implicit = TRUE, ![arg[t].p].detached = TRUE,
                          ![arg[t].p].threadH = t, ![arg[t].p].state = Running]
      /\ self' = [self EXCEPT ![t] = arg[t].p]
      /\ UNCHANGED <<heap, reuseTop, reuseBottom, stateLock, killed, how, val, cancelVars>>
      /\ handleOf' = [handleOf EXCEPT ![t] = arg[t]]
      /\ pc' = [pc EXCEPT ![t] = "user"] /\ arg' = [arg EXCEPT ![t] = NoHandle]
  BY DEF SelfDone
<1>4. tp'[arg[t].p] = [Clean(arg[t].x, tp[arg[t].p].state) EXCEPT !.implicit = TRUE, !.detached = TRUE,
                                                        !.threadH = t, !.state = Running]
  BY <1>1, <1>2, <1>3 DEF Made, StructTypes
<1>5. /\ Typed(tp'[arg[t].p]) /\ tp'[arg[t].p].x = arg[t].x /\ tp'[arg[t].p].threadH = t
      /\ ~tp'[arg[t].p].cancelEvent /\ ~tp'[arg[t].p].async /\ tp'[arg[t].p].state = Running
      /\ tp'[arg[t].p].implicit /\ tp'[arg[t].p].detached /\ tp'[arg[t].p].exitStatus = Null
  BY <1>1, <1>2, <1>4 DEF Typed, Clean, FieldNames, States, StructTypes
<1>6. ThreadTypes' /\ \A v \in Threads \ {t} : Idle(v)
  BY <1>1, <1>2, <1>3, SMTT(60) DEF ThreadTypes, Idle, Places, cancelVars
<1>7. handleOf'[t] = arg[t] /\ Own(t)' = tp'[arg[t].p] /\ arg[t] # NoHandle /\ Held(t)'
  BY <1>1, <1>2, <1>3, <1>5, SMTT(60) DEF ThreadTypes, Own, Held, Valid
<1>8. Local(t)'
  BY <1>1, <1>2, <1>3, <1>5, <1>7, SMTT(60) DEF Local, Place, Asked, Request, Async, Exits,
     ThreadTypes, cancelVars
<1> QED
  BY <1>1, <1>2, <1>3, <1>5, <1>6, <1>8, MadeStep, ZenonT(60) DEF StructTypes, ThreadTypes, cancelVars

\* pthread_create gives the structure to the new thread.
LEMMA CreateBeginsKeeps ==
  ASSUME IInv, NEW t \in Threads, NEW u \in Threads, CreateBegins(t, u), UNCHANGED cancelVars
  PROVE  IInv'
<1>1. StructTypes /\ ThreadTypes /\ Local(t) /\ Local(u) /\ Made(t) /\ pc[t] = "create"
      /\ self[t] # Null /\ pc[u] = "unborn" /\ handleOf[u] = NoHandle /\ self[u] = Null /\ u # t
  BY DEF IInv, CreateBegins, Local, Place
<1>2. /\ arg[t].p \in Structs /\ arg[t].p \in heap /\ tp[arg[t].p].x = arg[t].x
      /\ \A v \in Threads : Held(v) => handleOf[v].p # arg[t].p
  BY <1>1, MakingAlone
<1>3. /\ tp' = [tp EXCEPT ![arg[t].p].state = Initial, ![arg[t].p].threadH = u,
                          ![arg[t].p].detached = (how[t] = "detached")]
      /\ UNCHANGED <<heap, reuseTop, reuseBottom, stateLock, killed, self, val, cancelVars>>
      /\ handleOf' = [handleOf EXCEPT ![u] = arg[t]]
      /\ pc' = [pc EXCEPT ![t] = "user", ![u] = "start"]
      /\ arg' = [arg EXCEPT ![t] = NoHandle, ![u] = arg[t]]
      /\ how' = [how EXCEPT ![t] = "return"]
  BY DEF CreateBegins
<1>4. tp'[arg[t].p] = [Clean(arg[t].x, tp[arg[t].p].state) EXCEPT !.state = Initial, !.threadH = u,
                                                        !.detached = (how[t] = "detached")]
  BY <1>1, <1>2, <1>3 DEF Made, StructTypes
<1>5. /\ Typed(tp'[arg[t].p]) /\ tp'[arg[t].p].x = arg[t].x /\ tp'[arg[t].p].threadH = u
      /\ ~tp'[arg[t].p].cancelEvent /\ ~tp'[arg[t].p].async /\ tp'[arg[t].p].state = Initial
      /\ ~tp'[arg[t].p].implicit /\ tp'[arg[t].p].exitStatus = Null
  BY <1>1, <1>2, <1>4 DEF Typed, Clean, FieldNames, States, StructTypes
<1>6. ThreadTypes' /\ \A v \in Threads \ {t, u} : Idle(v)
  BY <1>1, <1>2, <1>3 DEF ThreadTypes, Idle, Places, Ways, cancelVars
<1>7. handleOf'[u] = arg[t] /\ Own(u)' = tp'[arg[t].p] /\ arg[t] # NoHandle /\ Held(u)' /\ arg'[u] = arg[t]
  BY <1>1, <1>2, <1>3, <1>5, SMTT(60) DEF ThreadTypes, Own, Held, Valid
<1>8. Local(u)'
  BY <1>1, <1>2, <1>3, <1>5, <1>7 DEF Local, Place, Asked, Request, Async, Exits,
     ThreadTypes, cancelVars
<1>9. Held(t) /\ handleOf'[t] = handleOf[t] /\ Held(t)' /\ Own(t)' = Own(t) /\ Lock(t)' = Lock(t)
  <2>1. Held(t) /\ handleOf[t].p \in Structs /\ handleOf[t].p # arg[t].p
    BY <1>1, <1>2, Living
  <2> QED
    BY <1>1, <1>3, <2>1 DEF Own, Lock, Held, Valid, ThreadTypes, StructTypes
<1>10. Local(t)'
  BY <1>1, <1>3, <1>9 DEF Local, Place, Asked, Request, Async, Exits, ThreadTypes, cancelVars
<1> QED
  BY <1>1, <1>2, <1>3, <1>5, <1>6, <1>8, <1>10, MadeStep, ZenonT(60) DEF StructTypes, ThreadTypes,
     cancelVars

-----------------------------------------------------------------------------
(* The invariant holds. *)

\* At first no thread has a structure.
LEMMA InitHolds == Init => IInv
<1> SUFFICES ASSUME Init PROVE IInv
  OBVIOUS
<1>1. /\ heap = {} /\ tp = [s \in Structs |-> Clean(0, Initial)]
      /\ stateLock = [s \in Structs |-> NoThread] /\ reuseTop = End /\ reuseBottom = End
      /\ pc = [t \in Threads |-> IF t = Main THEN "user" ELSE "unborn"]
      /\ self = [t \in Threads |-> Null] /\ arg = [t \in Threads |-> NoHandle]
      /\ how = [t \in Threads |-> "return"] /\ val = [t \in Threads |-> Null]
      /\ handleOf = [t \in Threads |-> NoHandle] /\ killed = {}
      /\ asked = {} /\ acted = [t \in Threads |-> 0]
  BY DEF Init, ThreadInit, StructInit
<1>2. Typed(Clean(0, Initial)) /\ Clean(0, Initial).threadH = NoThread
  BY DEF Typed, Clean, FieldNames, States
<1>3. StructTypes /\ ThreadTypes
  BY <1>1, <1>2 DEF StructTypes, ThreadTypes, Places, Ways
<1>4. \A t \in Threads : handleOf[t] = NoHandle /\ ~Held(t) /\ self[t] = Null /\ arg[t] = NoHandle
                         /\ pc[t] \in {"user", "unborn"}
  BY <1>1 DEF Held
<1>5. Owners
  BY <1>1, <1>2, <1>4 DEF Owners, HandlesUnique
<1>6. List
  <2> DEFINE f == [i \in 1..0 |-> 0]
  <2>1. f \in [1..0 -> heap] /\ 0 \in Nat
    OBVIOUS
  <2>2. Listed(0, f)
    BY <1>1, <2>1 DEF Listed
  <2> QED
    BY <2>1, <2>2 DEF List
<1>7. \A t \in Threads : Local(t) /\ Made(t) /\ Naming(t) /\ Holding(t) /\ Aimed(t)
  BY <1>1, <1>4 DEF Local, Place, Asked, Request, Async, Exits, Made, Naming, Holding, Aimed
<1>8. \A s \in Structs : Locking(s)
  BY <1>1 DEF Locking
<1> QED
  BY <1>3, <1>5, <1>6, <1>7, <1>8 DEF IInv

\* A thread may be anywhere when another takes a step that is none.
LEMMA StutterKeeps ==
  ASSUME IInv, UNCHANGED vars
  PROVE  IInv'
<1>1. /\ UNCHANGED <<heap, tp, stateLock, reuseTop, reuseBottom, pc, self, arg, how, val, handleOf, killed>>
      /\ UNCHANGED <<asked, acted>>
  BY DEF vars, threadVars, structVars, localVars, ghosts, cancelVars
<1>2. StructTypes' /\ ThreadTypes' /\ Owners'
  BY <1>1 DEF IInv, StructTypes, ThreadTypes, Owners, HandlesUnique, Held, Valid, Own
<1>3. List'
  BY <1>1, SMTT(60) DEF IInv, List, Listed
<1>4. \A t \in Threads : Local(t)' /\ Made(t)'
  BY <1>1 DEF IInv, Local, Place, Asked, Request, Async, Exits, Held, Valid, Own, Lock, Made
<1>5. \A t \in Threads : Naming(t)' /\ Holding(t)' /\ Aimed(t)'
  BY <1>1 DEF IInv, Naming, Target, Holding, Aimed, Held, Valid, Own, Lock
<1>6. \A s \in Structs : Locking(s)'
  BY <1>1 DEF IInv, Locking
<1> QED
  BY <1>2, <1>3, <1>4, <1>5, <1>6 DEF IInv

\* Every step of a thread's life keeps the invariant,
LEMMA LifeKeeps ==
  ASSUME IInv, ~DetachMeetsExit, ~AsyncMeetsCall, ~AffinityFails, NEW t \in Threads, LifeNext(t)
  PROVE  IInv'
<1> HIDE DEF IInv
<1>1. CASE CreationNext(t)
  BY <1>1, SelfKeeps, SelfDoneKeeps, SelfFailsKeeps, CreateKeeps, CreateBeginsKeeps,
     CreateFailsKeeps,
     StartKeeps DEF CreationNext, LifeNext
<1>2. CASE EndNext(t)
  <2>1. CASE Leave(t)
    BY <2>1, LeaveJoinable, LeaveDetached DEF LifeNext
  <2>2. CASE Unwind(t)
    BY <2>2, UnwindKeeps, UnwindCancelled DEF LifeNext
  <2> QED
    BY <1>2, <2>1, <2>2, ExitKeeps, ThrowKeeps, ThreadDetachKeeps DEF EndNext, LifeNext
<1>3. CASE JoinNext(t)
  BY <1>3, JoinKeeps, DetachKeeps, JoinEndsKeeps, JoinTimesOutKeeps, JoinDetachKeeps,
     DestroyKeeps
     DEF JoinNext, LifeNext
<1> QED
  BY <1>1, <1>2, <1>3 DEF LifeNext

\* and every step of a cancellation or a pthread_kill,
LEMMA CancelsKeep ==
  ASSUME IInv, ~CancelMeetsStart, ~AsyncMeetsCall, NEW t \in Threads, CancelNext(t)
  PROVE  IInv'
<1> HIDE DEF IInv
<1>1. ASSUME TestCancelLocked(t) PROVE IInv'
  BY <1>1, TestCancelActs, TestCancelDisabled
<1>2. ASSUME WaitActs(t) PROVE IInv'
  BY <1>2, WaitCancelled, WaitFails
<1>3. ASSUME SetDone(t) PROVE IInv'
  BY <1>3, SetActs, SetSets
<1>4. ASSUME KillLocked(t) PROVE IInv'
  BY <1>4, KillLast, KillFindsEnded
<1> QED
  BY <1>1, <1>2, <1>3, <1>4, CancelKeeps, KillKeeps, CancelSelfKeeps, CancelTestAsyncKeeps, CancelAsyncKeeps,
     CancelTestKeeps,
     CancelSetKeeps, TestCancelKeeps, JoinCancelledKeeps, DelayKeeps, DelayEndsKeeps, SetCallKeeps,
     TerminateKeeps DEF CancelNext

\* so that it holds forever.
LEMMA Inductive ==
  ASSUME ~DetachMeetsExit, ~CancelMeetsStart, ~AsyncMeetsCall, ~AffinityFails
  PROVE  Spec => []IInv
<1>1. ASSUME IInv, [Next]_vars PROVE IInv'
  <2> HIDE DEF IInv
  <2>1. CASE UNCHANGED vars
    BY <1>1, <2>1, StutterKeeps
  <2>2. ASSUME NEW t \in Threads, LifeNext(t) \/ CancelNext(t) PROVE IInv'
    BY <1>1, <2>2, LifeKeeps, CancelsKeep
  <2> QED
    BY <1>1, <2>1, <2>2 DEF Next
<1> QED
  BY <1>1, InitHolds, PTL DEF Spec

-----------------------------------------------------------------------------
(* The list of free structures, as it is walked. *)

\* A set of natural numbers has a least member.
LEMMA LeastNatural ==
  ASSUME NEW T \in SUBSET Nat, T # {}
  PROVE  \E m \in T : \A n \in T : m <= n
<1> DEFINE R == {ss \in Nat \X Nat : ss[1] < ss[2]}
<1>1. OpToRel(<, Nat) = R
  BY DEF OpToRel
<1>2. IsWellFoundedOn(R, Nat)
  BY <1>1, NatLessThanWellFounded
<1>3. PICK m \in T : \A n \in T : <<n, m>> \notin R
  <2> HIDE DEF R
  <2> QED
    BY <1>2, WFMin
<1>4. ASSUME NEW n \in T PROVE m <= n
  <2>1. <<n, m>> \in Nat \X Nat /\ <<n, m>>[1] = n /\ <<n, m>>[2] = m
    OBVIOUS
  <2>2. ~(n < m)
    BY <1>3, <2>1
  <2> QED
    BY <2>2
<1> QED
  BY <1>4

\* Following the list from its top.
Follows(w) ==
  w = [n \in Nat |-> IF n = 0 THEN reuseTop
                     ELSE IF w[n - 1] \in Structs THEN tp[w[n - 1]].prevReuse ELSE w[n - 1]]

\* Walk gives the structures of the list, and then the end.
LEMMA WalkEnds ==
  ASSUME StructTypes, NEW n \in Nat, NEW f \in [1..n -> heap], Listed(n, f), NEW m \in Nat
  PROVE  Walk[m] = IF m < n THEN f[m + 1] ELSE End
<1> DEFINE W == [k \in Nat |-> IF k < n THEN f[k + 1] ELSE End]
<1>1. Follows(W)
  <2>1. ASSUME NEW k \in Nat
        PROVE  W[k] = IF k = 0 THEN reuseTop
                      ELSE IF W[k - 1] \in Structs THEN tp[W[k - 1]].prevReuse ELSE W[k - 1]
    <3>1. CASE k = 0
      BY <3>1 DEF Listed
    <3>2. CASE k # 0 /\ k - 1 < n
      <4>1. k - 1 \in Nat /\ k \in 1..n /\ W[k - 1] = f[k]
        BY <3>2
      <4>2. f[k] \in Structs /\ tp[f[k]].prevReuse = IF k = n THEN End ELSE f[k + 1]
        BY <4>1 DEF Listed, StructTypes
      <4>3. W[k] = IF k = n THEN End ELSE f[k + 1]
        BY <3>2
      <4> HIDE DEF W
      <4> QED
        BY <3>2, <4>1, <4>2, <4>3
    <3>3. CASE k # 0 /\ ~(k - 1 < n)
      <4>1. k - 1 \in Nat /\ W[k - 1] = End /\ W[k] = End
        BY <3>3
      <4> QED
        BY <3>3, <4>1
    <3> QED
      BY <3>1, <3>2, <3>3
  <2>2. W = [k \in Nat |-> W[k]]
    OBVIOUS
  <2> HIDE DEF W
  <2> QED
    BY <2>1, <2>2 DEF Follows
<1>2. Walk = CHOOSE w : Follows(w)
  BY DEF Walk, Follows
<1>3. Follows(Walk)
  <2> HIDE DEF Follows, W
  <2> QED
    BY <1>1, <1>2
<1>4. \A k \in Nat : Walk[k] = IF k = 0 THEN reuseTop
                      ELSE IF Walk[k - 1] \in Structs THEN tp[Walk[k - 1]].prevReuse ELSE Walk[k - 1]
  <2> HIDE DEF Walk
  <2> QED
    BY <1>3 DEF Follows
<1>5. \A k \in Nat : W[k] = IF k = 0 THEN reuseTop
                      ELSE IF W[k - 1] \in Structs THEN tp[W[k - 1]].prevReuse ELSE W[k - 1]
  <2> HIDE DEF W
  <2> QED
    BY <1>1 DEF Follows
<1>6. W[m] = IF m < n THEN f[m + 1] ELSE End
  OBVIOUS
<1> HIDE DEF W
<1> DEFINE T == {k \in Nat : Walk[k] # W[k]}
<1>7. T = {}
  <2> SUFFICES ASSUME T # {} PROVE FALSE
    OBVIOUS
  <2>1. PICK k \in T : \A j \in T : k <= j
    BY LeastNatural
  <2>2. k # 0
    BY <1>4, <1>5, <2>1
  <2>3. k - 1 \in Nat /\ k - 1 \notin T
    BY <2>1, <2>2
  <2>4. Walk[k - 1] = W[k - 1]
    BY <2>3
  <2> QED
    BY <1>4, <1>5, <2>1, <2>2, <2>4
<1> QED
  BY <1>6, <1>7

\* The list ends within the number of structures, and all on it are free.
LEMMA ListSound ==
  ASSUME IInv
  PROVE  /\ FreeListSound /\ {reuseTop, reuseBottom} \subseteq heap \union {End}
         /\ \A s \in Free : s \in Structs /\ tp[s].threadH = NoThread
<1>1. StructTypes /\ List
  BY DEF IInv
<1>2. PICK n \in Nat : \E f \in [1..n -> heap] : Listed(n, f)
  BY <1>1 DEF List
<1>3. PICK f \in [1..n -> heap] : Listed(n, f)
  BY <1>2
<1>4. \A i \in 1..n : f[i] \in Structs /\ f[i] \in heap /\ f[i] # End
  BY <1>1, <1>3 DEF StructTypes
<1>5. Cardinality(Structs) \in Nat /\ n <= Cardinality(Structs)
  <2>1. f \in Injection(1..n, Structs)
    BY <1>3, <1>4 DEF Listed, Injection, IsInjective
  <2>2. Cardinality(1..n) <= Cardinality(Structs)
    BY <2>1, FS_Injection
  <2>3. Cardinality(1..n) = n
    BY <1>2, FS_Interval
  <2>4. Cardinality(Structs) \in Nat
    BY FS_CardinalityType
  <2> QED
    BY <2>2, <2>3, <2>4
<1>6. \A m \in Nat : Walk[m] = IF m < n THEN f[m + 1] ELSE End
  BY <1>1, <1>3, WalkEnds
<1> HIDE DEF Walk
<1>7. Walk[Cardinality(Structs)] = End
  BY <1>5, <1>6
<1>8. \A s \in Free : \E i \in 1..n : s = f[i]
  BY <1>5, <1>6 DEF Free
<1>9. (reuseTop = End) = (reuseBottom = End) /\ {reuseTop, reuseBottom} \subseteq heap \union {End}
  BY <1>3, <1>4 DEF Listed
<1>10. ASSUME NEW i \in 1..n
       PROVE  /\ tp[f[i]].state = Reuse /\ tp[f[i]].threadH = NoThread
              /\ (tp[f[i]].prevReuse = End) = (f[i] = reuseBottom)
  <2>1. tp[f[i]].state = Reuse /\ tp[f[i]].threadH = NoThread
        /\ tp[f[i]].prevReuse = (IF i = n THEN End ELSE f[i + 1]) /\ reuseBottom = f[n] /\ n \in 1..n
    BY <1>3 DEF Listed
  <2>2. f[i] = f[n] <=> i = n
    BY <1>3, <2>1 DEF Listed
  <2>3. i # n => f[i + 1] # End
    BY <1>4
  <2> QED
    BY <2>1, <2>2, <2>3
<1> QED
  BY <1>4, <1>7, <1>8, <1>9, <1>10 DEF FreeListSound

-----------------------------------------------------------------------------
(* The theorems. *)

\* No structure is pushed twice, taken twice or used by two threads; the free list
\* ends; and a handle never becomes that of another thread.
THEOREM StructuresSafety ==
  ASSUME ~DetachMeetsExit, ~CancelMeetsStart, ~AsyncMeetsCall, ~AffinityFails
  PROVE  Spec => []StructuresSound
<1>1. ASSUME IInv PROVE StructuresSound
  <2>1. StructTypes /\ ThreadTypes /\ Owners
    BY <1>1 DEF IInv
  <2>2. TypeOK
    BY <1>1, <2>1, ListSound DEF StructTypes, Typed, ThreadTypes, TypeOK, ThreadTypeOK,
       StructTypeOK
  <2>3. ASSUME NEW t \in Threads, self[t] # Null, pc[t] # "ended"
        PROVE  /\ self[t] \notin Free /\ Handle(self[t]) = handleOf[t]
               /\ \A u \in Threads \ {t} : pc[u] # "ended" => self[u] # self[t]
    <3>1. \A u \in Threads : self[u] # Null /\ pc[u] # "ended" =>
            Handle(self[u]) = handleOf[u] /\ tp[self[u]].threadH = u
      BY <1>1, <2>1, Living DEF IInv, Owners
    <3>2. t # NoThread
      OBVIOUS
    <3> QED
      BY <1>1, <2>3, <3>1, <3>2, ListSound
  <2>4. StructureOwned
    BY <2>3 DEF StructureOwned
  <2> QED
    BY <1>1, <2>1, <2>2, <2>4, ListSound DEF StructuresSound, Owners
<1> QED
  BY <1>1, Inductive, PTL

\* pthread_join gives the status of the thread that its handle names, and no
\* detached structure stays behind when its thread has ended.
THEOREM JoinSafety ==
  ASSUME ~DetachMeetsExit, ~CancelMeetsStart, ~AsyncMeetsCall, ~AffinityFails
  PROVE  Spec => []JoinSound
<1>1. ASSUME IInv PROVE JoinSound
  <2>1. JoinStatus
    <3> SUFFICES ASSUME NEW t \in Threads, NEW u \in Threads, pc[t] = "join_detach", arg[t] = handleOf[u]
                 PROVE  IF u \in killed THEN val[t] \in {u, Canceled}
                        ELSE val[t] = IF how[u] = "cancel" THEN Canceled ELSE u
      BY DEF JoinStatus
    <3>1. PICK w \in Threads : w = Target(t) /\ handleOf[w] = arg[t] /\ Held(w)
      BY <1>1, TargetOf
    <3>2. w = u
      BY <1>1, <3>1 DEF IInv, Owners, HandlesUnique, Held
    <3>3. Naming(t) /\ pc[t] \in Named
      BY <1>1 DEF IInv
    <3> QED
      BY <3>1, <3>2, <3>3 DEF Naming
  <2>2. NothingLost
    BY <1>1 DEF IInv, Local, Exits, NothingLost, Held, Own
  <2> QED
    BY <2>1, <2>2 DEF JoinSound
<1> QED
  BY <1>1, Inductive, PTL

\* A thread that is cancelled was asked to, by its handle, and acts on it once; a
\* request stays pending until it is acted on, or takes effect at once; and
\* stateLock is given back.
THEOREM CancelSafety ==
  ASSUME ~DetachMeetsExit, ~CancelMeetsStart, ~AsyncMeetsCall, ~AffinityFails
  PROVE  Spec => []CancelSound
<1>1. ASSUME IInv PROVE CancelSound
  <2>1. StructTypes /\ ThreadTypes /\ \A t \in Threads : Local(t)
    BY <1>1 DEF IInv
  <2>2. CancelledOnceWhenAsked
    BY <2>1 DEF CancelledOnceWhenAsked, Local, Asked, ThreadTypes
  <2>3. RequestKept
    BY <2>1, Living DEF RequestKept, Local, Request
  <2>4. LockReleased
    BY <1>1 DEF LockReleased, IInv, Locking
  <2>5. NotPendingAsync
    BY <2>1, Living DEF NotPendingAsync, Local, Async
  <2> QED
    BY <2>2, <2>3, <2>4, <2>5 DEF CancelSound
<1> QED
  BY <1>1, Inductive, PTL
=============================================================================
