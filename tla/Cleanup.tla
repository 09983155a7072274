-------------------------------- MODULE Cleanup -------------------------------
(***************************************************************************)
(* The cleanup handlers of a thread, in the build for C (PTW32_CLEANUP_C): *)
(* a chain from the value of ptw32_cleanupKey through prev.  A handler is  *)
(* run while it is still in the chain, and taken out when it returns; so   *)
(* one that ends the thread, run by pthread_cleanup_pop, is run again.     *)
(* A Win32 thread may push handlers too, but its end leaves them there.    *)
(***************************************************************************)
EXTENDS Naturals, Sequences, FiniteSets

CONSTANTS
  Handlers,
  Exits,   \* the handlers that call pthread_exit when they are run first
  Null,
  Throw      \* ptw32_throw, in the list of what is being executed

VARIABLES
  posix,       \* has the thread been made by pthread_create?
  cleanupKey,  \* the value of ptw32_cleanupKey: the handler pushed last
  prev,
  calls,       \* what is being executed: handlers and ptw32_throw, innermost first
  scope,       \* scope[h]: the length of calls where h has been pushed
  ended,
  pushed, runs, returned, skipped  \* history: what has become of each handler

vars == <<posix, cleanupKey, prev, calls, scope, ended, pushed, runs, returned, skipped>>

Init ==
  /\ posix \in BOOLEAN
  /\ cleanupKey = Null
  /\ prev = [h \in Handlers |-> Null]
  /\ calls = <<>>
  /\ scope = [h \in Handlers |-> 0]
  /\ ended = FALSE
  /\ pushed = {}
  /\ runs = [h \in Handlers |-> 0]
  /\ returned = [h \in Handlers |-> 0]
  /\ skipped = {}

\* The application's own code is running: the thread, or a handler.
Active == ~(ended \/ (calls # <<>> /\ Head(calls) = Throw))

\* The handler pushed last has been pushed by the code that is running.
Local == cleanupKey # Null /\ scope[cleanupKey] = Len(calls)

\* ptw32_push_cleanup, once for each handler (a bound).
Push(h) ==
  /\ Active /\ h \notin pushed
  /\ prev' = [prev EXCEPT ![h] = cleanupKey]
  /\ cleanupKey' = h
  /\ pushed' = pushed \union {h}
  /\ scope' = [scope EXCEPT ![h] = Len(calls)]
  /\ UNCHANGED <<posix, calls, ended, runs, returned, skipped>>

Run(h) ==
  /\ calls' = <<h>> \o calls
  /\ runs' = [runs EXCEPT ![h] = @ + 1]

\* ptw32_pop_cleanup: push and pop are paired in the same lexical scope.
Pop(execute) ==
  /\ Active /\ Local
  /\ IF execute
       THEN Run(cleanupKey) /\ UNCHANGED <<cleanupKey, skipped>>
       ELSE /\ cleanupKey' = prev[cleanupKey]
            /\ skipped' = skipped \union {cleanupKey}
            /\ UNCHANGED <<calls, runs>>
  /\ UNCHANGED <<posix, prev, scope, ended, pushed, returned>>

\* Fault: the handler stays in the chain.
ReturnLinked ==
  /\ Active /\ calls # <<>> /\ ~Local
  /\ calls' = Tail(calls)
  /\ returned' = [returned EXCEPT ![Head(calls)] = @ + 1]
  /\ UNCHANGED <<posix, cleanupKey, prev, scope, ended, pushed, runs, skipped>>

\* A handler returns, to pthread_cleanup_pop or ptw32_pop_cleanup_all.
Return ==
  /\ Active /\ calls # <<>> /\ ~Local
  /\ cleanupKey' = prev[Head(calls)]
  /\ calls' = Tail(calls)
  /\ returned' = [returned EXCEPT ![Head(calls)] = @ + 1]
  /\ UNCHANGED <<posix, prev, scope, ended, pushed, runs, skipped>>

\* pthread_exit, in the thread or in a handler that is run for the first time.
\* A Win32 thread ends at once, in pthread_exit if it has no handle, and else in
\* ptw32_throw, which comes to no handler: those that it has pushed are not run.
Exit ==
  /\ Active
  /\ IF calls = <<>> THEN TRUE ELSE Head(calls) \in Exits /\ runs[Head(calls)] = 1
  /\ IF posix THEN calls' = <<Throw>> \o calls /\ UNCHANGED ended
     ELSE ended' = TRUE /\ UNCHANGED calls
  /\ UNCHANGED <<posix, cleanupKey, prev, scope, pushed, runs, returned, skipped>>

\* ptw32_pop_cleanup_all, which only a thread made by pthread_create comes to, and
\* the longjmp out of everything.
PopAll ==
  /\ ~ended /\ calls # <<>> /\ Head(calls) = Throw
  /\ IF cleanupKey # Null
       THEN Run(cleanupKey) /\ UNCHANGED ended
       ELSE ended' = TRUE /\ UNCHANGED <<calls, runs>>
  /\ UNCHANGED <<posix, cleanupKey, prev, scope, pushed, returned, skipped>>

Next ==
  \/ \E h \in Handlers : Push(h)
  \/ \E execute \in BOOLEAN : Pop(execute)
  \/ Return \/ Exit \/ PopAll

Spec == Init /\ [][Next]_vars

\* f is the chain: the handlers that are in it, the one pushed last first.
IsChain(f) ==
  /\ cleanupKey = IF f = <<>> THEN Null ELSE f[1]
  /\ \A i \in 1..Len(f) : prev[f[i]] = IF i = Len(f) THEN Null ELSE f[i + 1]

-----------------------------------------------------------------------------
\* When a thread made by pthread_create ends, every handler that has been pushed
\* has been run to its end, but for those popped without: also those that a handler
\* has pushed and not popped, and those that were cut short as the thread ended in
\* them.
AllRun == posix /\ ended => \A h \in pushed \ skipped : returned[h] = 1

\* "Each cleanup handler pushed onto the stack is popped and invoked [...] when
\* the thread exits by calling 'pthread_exit'" (cleanup.c:115-117): of a Win32
\* thread none is.
ExitRunsHandlers == ended => \A h \in pushed \ skipped : returned[h] = 1

\* No handler is run to its end twice, or after it has been popped without; one
\* that is begun twice has ended the thread, or has called one that did.
RunOnce ==
  \A h \in Handlers :
    /\ returned[h] <= 1
    /\ h \in skipped => runs[h] = 0
    /\ runs[h] > 1 => \E g \in Exits : runs[g] > 1

\* Handlers are run in the reverse of the order they were pushed in: while one
\* is, none of those pushed after it in an outer or the same scope is left.
Innermost ==
  Active /\ calls # <<>> =>
    \E n \in 1..Cardinality(Handlers) : \E f \in [1..n -> Handlers] :
      /\ IsChain(f)
      /\ \E i \in 1..n : f[i] = Head(calls) /\ \A j \in 1..(i - 1) : scope[f[j]] = Len(calls)
=============================================================================
