--------------------------------- MODULE Process ------------------------------
(***************************************************************************)
(* The library as a whole: what pthread_win32_process_attach_np and the    *)
(* first use set up, what the end of threads and of the process takes down *)
(* again, and who owns the thread structures meanwhile.  A structure is in *)
(* the thread-specific data of its thread, and, once ptw32_threadDestroy   *)
(* has pushed it, in the list of those to be used again, which             *)
(* ptw32_processTerminate frees.                                           *)
(*                                                                         *)
(* The operating system decides whether QUSEREX.DLL is there, whether it   *)
(* has the function, and whether its driver starts.  A program that is     *)
(* linked statically may attach and detach again and again; it does so     *)
(* from one thread, when the others use the library no more, and does not  *)
(* use it between the two.                                                 *)
(***************************************************************************)
EXTENDS Naturals, FiniteSets

CONSTANTS
  Threads,     \* Win32 threads
  Main,        \* the one of them that attaches and detaches
  Structs,     \* thread structures
  MaxAttached, \* a bound: the process is attached at most so often
  AffinityFails, \* may the affinity calls of pthread_self fail?
  Null

VARIABLES
  ptw32_processInitialized,
  ptw32_selfThreadKey,          \* is it other than NULL?
  ptw32_cleanupKey,             \* likewise
  ptw32_register_cancellation,  \* Null, "substitute" or "QueueUserAPCEx"
  ptw32_features,               \* is PTW32_ALERTABLE_ASYNC_CANCEL set?
  ptw32_h_quserex,              \* is the handle other than NULL?
  loaded,      \* how often QUSEREX.DLL has been loaded and not freed
  tls,         \* tls[t]: the structure of t, or Null
  detachState, \* detachState[p]: is it PTHREAD_CREATE_DETACHED?
  reuse,       \* the structures in the list ptw32_threadReuseTop
  struct,      \* struct[p]: "unused", "used", "pushed" or "freed"
  twice,       \* history: was a structure pushed or freed a second time?
  ended,       \* the threads that have ended
  attached     \* how often the process was attached

keyVars  == <<ptw32_selfThreadKey, ptw32_cleanupKey>>
apcVars  == <<ptw32_register_cancellation, ptw32_features, ptw32_h_quserex, loaded>>
poolVars == <<tls, detachState, reuse, struct, twice>>
vars     == <<ptw32_processInitialized, keyVars, apcVars, poolVars, ended, attached>>

Init ==
  /\ ptw32_processInitialized = FALSE
  /\ ptw32_selfThreadKey = FALSE /\ ptw32_cleanupKey = FALSE
  /\ ptw32_register_cancellation = Null
  /\ ptw32_features = FALSE
  /\ ptw32_h_quserex = FALSE
  /\ loaded = 0
  /\ tls = [t \in Threads |-> Null]
  /\ detachState = [p \in Structs |-> FALSE]
  /\ reuse = {}
  /\ struct = [p \in Structs |-> "unused"]
  /\ twice = FALSE
  /\ ended = {}
  /\ attached = 0

-----------------------------------------------------------------------------
\* ptw32_processInitialize, which does nothing the second time.  The keys may
\* not be had: ptw32_processTerminate, which is called then, does nothing as
\* ptw32_processInitialized is not set yet, and it is set all the same.
ProcessInitialize(gotSelf, gotCleanup) ==
  /\ ptw32_processInitialized' = TRUE
  /\ IF ptw32_processInitialized
       THEN UNCHANGED <<keyVars, reuse>>
       ELSE /\ ptw32_selfThreadKey' = gotSelf
            /\ ptw32_cleanupKey' = (gotSelf /\ gotCleanup)
            /\ reuse' = {}

\* The rest of pthread_win32_process_attach_np: QueueUserAPCEx is used if the
\* library is found, has the function, and its initialisation returns TRUE;
\* the library is freed otherwise.
LoadQuserex(found, hasFunction, starts) ==
  LET use == found /\ hasFunction /\ starts
  IN  /\ ptw32_register_cancellation' = IF use THEN "QueueUserAPCEx" ELSE "substitute"
      /\ ptw32_h_quserex' = use
      /\ loaded' = loaded + (IF use THEN 1 ELSE 0)
      /\ ptw32_features' = use

\* pthread_win32_process_attach_np, from DllMain, ptw32_on_process_init or the
\* program.
ProcessAttach ==
  /\ Main \notin ended /\ attached < MaxAttached
  /\ attached' = attached + 1
  /\ \E gotSelf, gotCleanup, found, hasFunction, starts \in BOOLEAN :
       /\ ProcessInitialize(gotSelf, gotCleanup)
       /\ LoadQuserex(found, hasFunction, starts)
  /\ UNCHANGED <<tls, detachState, struct, twice, ended>>

\* cleanup.c: the first use of the library may be ptw32_push_cleanup, before
\* the process is attached.
LazyInitialize ==
  /\ ~ptw32_processInitialized /\ attached = 0
  /\ \E gotSelf, gotCleanup \in BOOLEAN : ProcessInitialize(gotSelf, gotCleanup)
  /\ UNCHANGED <<apcVars, tls, detachState, struct, twice, ended, attached>>

-----------------------------------------------------------------------------
\* ptw32_new, for t: the next structure is p.
New(t, p) ==
  /\ ptw32_processInitialized /\ ptw32_selfThreadKey
  /\ t \notin ended /\ tls[t] = Null
  /\ IF reuse # {} THEN p \in reuse ELSE struct[p] = "unused"

\* A thread gets its structure: pthread_self for a thread that was not made by
\* pthread_create, with a detached one, or ptw32_threadStart.
Enter(t, p, detached) ==
  /\ New(t, p)
  /\ reuse' = reuse \ {p}
  /\ struct' = [struct EXCEPT ![p] = "used"]
  /\ tls' = [tls EXCEPT ![t] = p]
  /\ detachState' = [detachState EXCEPT ![p] = detached]
  /\ UNCHANGED <<ptw32_processInitialized, keyVars, apcVars, twice, ended, attached>>

\* pthread_self fails, or pthread_create gives up: the structure is wiped and goes
\* to the list.  If it is the affinity that cannot be had, the thread has the
\* structure under its key by then, and keeps it there.
EnterFails(t, p) ==
  /\ New(t, p)
  /\ reuse' = reuse \union {p}
  /\ struct' = [struct EXCEPT ![p] = "pushed"]
  /\ detachState' = [detachState EXCEPT ![p] = FALSE]
  /\ \E affinity \in {FALSE, AffinityFails} :
       tls' = IF affinity THEN [tls EXCEPT ![t] = p] ELSE tls
  /\ UNCHANGED <<ptw32_processInitialized, keyVars, apcVars, twice, ended, attached>>

\* Fault: the thread keeps the pointer.
DestroyKeepsPointer(t) ==
  LET p == tls[t]
  IN  IF p # Null /\ detachState[p]
        THEN /\ reuse' = reuse \union {p}
             /\ struct' = [struct EXCEPT ![p] = "pushed"]
             /\ twice' = (twice \/ struct[p] # "used")
             /\ UNCHANGED tls
        ELSE UNCHANGED <<reuse, struct, twice, tls>>

\* ptw32_threadDestroy, of the structure of t, if it is detached.
DestroyDetached(t) ==
  LET p == tls[t]
  IN  IF p # Null /\ detachState[p]
        THEN /\ reuse' = reuse \union {p}
             /\ struct' = [struct EXCEPT ![p] = "pushed"]
             /\ twice' = (twice \/ struct[p] # "used")
             /\ tls' = [tls EXCEPT ![t] = Null]
        ELSE UNCHANGED <<reuse, struct, twice, tls>>

\* pthread_win32_thread_detach_np: a thread ends, or, for Main, the process is
\* about to be detached; or the program calls it for a thread that goes on.
\* Before the keys exist, pthread_getspecific finds nothing.
ThreadDetach(t) ==
  /\ ptw32_processInitialized /\ t \notin ended
  /\ DestroyDetached(t)
  /\ ended' \in {ended, ended \union {t}}
  /\ UNCHANGED <<ptw32_processInitialized, keyVars, apcVars, detachState, attached>>

\* pthread_join of a thread that has ended.
Join(t) ==
  /\ t \in ended /\ tls[t] # Null
  /\ reuse' = reuse \union {tls[t]}
  /\ struct' = [struct EXCEPT ![tls[t]] = "pushed"]
  /\ twice' = (twice \/ struct[tls[t]] # "used")
  /\ tls' = [tls EXCEPT ![t] = Null]
  /\ UNCHANGED <<ptw32_processInitialized, keyVars, apcVars, detachState, ended, attached>>

\* ptw32_processTerminate: the keys are deleted and the structures of the list,
\* pool, are freed.
ProcessTerminate(pool, state) ==
  /\ ptw32_selfThreadKey' = FALSE /\ ptw32_cleanupKey' = FALSE
  /\ struct' = [p \in Structs |-> IF p \in pool THEN "freed" ELSE state[p]]
  /\ reuse' = {}
  /\ ptw32_processInitialized' = FALSE

\* pthread_win32_process_detach_np: the structure of the calling thread, if it
\* is detached, is pushed and freed with the others; the values of the key go
\* with it.  The function in ptw32_register_cancellation stays.
ProcessDetach ==
  LET p    == tls[Main]
      mine == {p} \ {Null}
      push == {q \in mine : detachState[q]}
  IN  /\ ptw32_processInitialized /\ Main \notin ended
      /\ \A t \in Threads \ {Main} : tls[t] = Null \/ t \in ended
      /\ ProcessTerminate(reuse \union push, struct)
      /\ twice' = (twice \/ \E q \in reuse \union push :
                     struct[q] # (IF q \in push THEN "used" ELSE "pushed"))
      /\ tls' = [t \in Threads |-> Null]
      /\ loaded' = IF ptw32_h_quserex THEN loaded - 1 ELSE loaded
      /\ UNCHANGED <<ptw32_register_cancellation, ptw32_features, ptw32_h_quserex,
                     detachState, ended, attached>>

Next ==
  \/ ProcessAttach \/ LazyInitialize \/ ProcessDetach
  \/ \E t \in Threads :
       \/ \E p \in Structs, detached \in BOOLEAN : Enter(t, p, detached)
       \/ \E p \in Structs : EnterFails(t, p)
       \/ ThreadDetach(t) \/ Join(t)

Spec == Init /\ [][Next]_vars

-----------------------------------------------------------------------------
(* Properties. *)

\* A structure is pushed once and freed once, although the end of the thread,
\* the end of the process and pthread_join may each do it, and what is in the
\* list can be freed or used again.
StructsOnce ==
  /\ ~twice
  /\ \A p \in reuse : struct[p] = "pushed"
  /\ \A t \in Threads : tls[t] # Null => struct[tls[t]] = "used"

\* While the process is attached, asynchronous cancellation can be delivered:
\* the function is known, QueueUserAPCEx is only called while its library is
\* loaded, and pthread_win32_test_features_np tells which one it is.
CancellationKnown ==
  ptw32_processInitialized /\ attached > 0 =>
    /\ ptw32_register_cancellation # Null
    /\ ptw32_features = (ptw32_register_cancellation = "QueueUserAPCEx")
    /\ ptw32_features => ptw32_h_quserex /\ loaded > 0

\* "TRUE if successful, FALSE otherwise" (ptw32_processInitialize.c:67-68): the
\* process counts as initialised although a key could not be had.
InitializedHasKeys ==
  ptw32_processInitialized => ptw32_selfThreadKey /\ ptw32_cleanupKey
=============================================================================
