--------------------------------- MODULE MCData -------------------------------
(***************************************************************************)
(* Model values for what belongs to a thread or to the process: thread-    *)
(* specific data, cleanup handlers, scheduling, names, attribute objects,  *)
(* the time of timed waits, and start-up and termination.  As modelled     *)
(* they share no state, so one run checks them side by side: each          *)
(* behaviour is that of the one part named by part.                        *)
(***************************************************************************)
EXTENDS Integers, TLC

CONSTANTS a, b, c, h1, h2, h3, b1, b2, b3, Null, Throw

\* The constants of the instances, to which the .cfg gives values.
CONSTANTS
  Threads, Keys, Plain, Iterations, Does,             \* ThreadData, Scheduling
  Handlers, Exits,                                    \* Cleanup
  First, CPUs, Priorities,                            \* Scheduling
  Idle, Lowest, Normal, Highest, TimeCritical, MaxDirect, AffinityFails,
  Users, Targets, Buffers, MaxCopied,                 \* Names
  Main, Structs, MaxAttached,                         \* Process
  NsPerTick, TicksPerMs, MsPerSec,                    \* TimeConversion
  DwordValues, IntValues, Offset, Horizon, Lag, MaxSec

Two == {a, b}
\* Two keys with a destructor and one without.  a deletes a key, and ends while
\* b deletes both.
MCKeys == {"k1", "k2", "p"}
MCDoes ==
  a :> [create |-> {}, set |-> {"k1", "k2"}, delete |-> {"k1"}, exit |-> TRUE]
  @@ b :> [create |-> MCKeys, set |-> {"k1", "p"}, delete |-> {"k1", "k2"}, exit |-> FALSE]

\* The priorities of Windows, of which a .cfg cannot name the negative ones.
MCPriorities == {-2, 0}
MCIdle       == -3
MCLowest     == -1

VARIABLES
  part,
  key, value, keys, threads, nextAssoc, keyLock, threadLock, dpc, cur, iterations,
  remaining, given,
  posix, cleanupKey, prev, calls, scope, over, pushed, runs, returned, skipped,
  status, self, process, mask, priority, cpuset, sched_priority, schedLock, reuseLock, spc,
  starget, saved, inForce, raced, known, direct,
  heap, exists, thrname, name, nameLock, npc, ntarget, newname, oldname, s, copied,
  family, attr, result, got, made,
  ft, asked, relative, abstime, phase, wait,
  ptw32_processInitialized, ptw32_selfThreadKey, ptw32_cleanupKey,
  ptw32_register_cancellation, ptw32_features, ptw32_h_quserex, loaded, tls,
  detachState, reuse, struct, twice, ended, attached

D == INSTANCE ThreadData WITH pc <- dpc
C == INSTANCE Cleanup WITH ended <- over
S == INSTANCE Scheduling WITH threadLock <- schedLock, pc <- spc, target <- starget
N == INSTANCE Names WITH threadLock <- nameLock, pc <- npc, target <- ntarget
A == INSTANCE Attributes WITH
       Sizes <- {0, 2}, Priorities <- -2..2, MinPriority <- -1, MaxPriority <- 1,
       CpuSets <- {{}, {1}}, a <- attr
T == INSTANCE TimeConversion
P == INSTANCE Process

dataVars    == <<key, value, keys, threads, nextAssoc, keyLock, threadLock, dpc, cur,
                 iterations, remaining, given>>
cleanupVars == <<posix, cleanupKey, prev, calls, scope, over, pushed, runs, returned, skipped>>
schedVars   == <<status, self, process, mask, priority, cpuset, sched_priority, schedLock,
                 reuseLock, spc, starget, saved, inForce, raced, known, direct>>
nameVars    == <<heap, exists, thrname, name, nameLock, npc, ntarget, newname, oldname, s,
                 copied>>
attrVars    == <<family, attr, result, got, made>>
timeVars    == <<ft, asked, relative, abstime, phase, wait>>
processVars == <<ptw32_processInitialized, ptw32_selfThreadKey, ptw32_cleanupKey,
                 ptw32_register_cancellation, ptw32_features, ptw32_h_quserex, loaded, tls,
                 detachState, reuse, struct, twice, ended, attached>>
vars == <<part, dataVars, cleanupVars, schedVars, nameVars, attrVars, timeVars, processVars>>

Init ==
  /\ part \in {"data", "cleanup", "scheduling", "names", "attributes", "time", "process"}
  /\ D!Init /\ C!Init /\ S!Init /\ N!Init /\ A!Init /\ T!Init /\ P!Init
  /\ part # "scheduling" => \A t \in Threads \ {First} : status[t] = "none"
  /\ part # "cleanup" => posix
  /\ part # "attributes" => family = "mutex"
  /\ part # "time" => ft = Offset

DataNext ==
  /\ part = "data" /\ D!Next
  /\ UNCHANGED <<part, cleanupVars, schedVars, nameVars, attrVars, timeVars, processVars>>

CleanupNext ==
  /\ part = "cleanup" /\ C!Next
  /\ UNCHANGED <<part, dataVars, schedVars, nameVars, attrVars, timeVars, processVars>>

SchedulingNext ==
  /\ part = "scheduling" /\ S!Next
  /\ UNCHANGED <<part, dataVars, cleanupVars, nameVars, attrVars, timeVars, processVars>>

NamesNext ==
  /\ part = "names" /\ N!Next
  /\ UNCHANGED <<part, dataVars, cleanupVars, schedVars, attrVars, timeVars, processVars>>

AttributesNext ==
  /\ part = "attributes" /\ A!Next
  /\ UNCHANGED <<part, dataVars, cleanupVars, schedVars, nameVars, timeVars, processVars>>

TimeNext ==
  /\ part = "time" /\ T!Next
  /\ UNCHANGED <<part, dataVars, cleanupVars, schedVars, nameVars, attrVars, processVars>>

ProcessNext ==
  /\ part = "process" /\ P!Next
  /\ UNCHANGED <<part, dataVars, cleanupVars, schedVars, nameVars, attrVars, timeVars>>

Next ==
  \/ DataNext \/ CleanupNext \/ SchedulingNext \/ NamesNext \/ AttributesNext
  \/ TimeNext \/ ProcessNext

\* Only the thread-specific data have a promise that needs fairness.
FairSpec == Init /\ [][Next]_vars /\ \A t \in Threads : D!Fair(t)

-----------------------------------------------------------------------------
\* ThreadData: the chains of threads and of keys have the same associations; an
\* ending thread comes next to one that is there; no key is freed under a thread
\* that holds its lock; a value is only set where a destructor will be found; and
\* a thread that has ended leaves no association and no value.
ChainsSound ==
  /\ D!TypeOK
  /\ D!ChainsAgree /\ D!NextIsThere /\ D!FreedUnlocked /\ D!ValuesAssociated
  /\ D!NothingLeft

\* ThreadData: a value that is taken goes to a destructor; a thread that ends
\* comes to its end; and pthread_key_delete returns.
DataEnds == D!ValuesGiven /\ D!ExitEnds /\ D!DeleteEnds

\* Cleanup: the end of a thread made by pthread_create runs every handler that is
\* left, in the reverse of the order they were pushed in, and none to its end twice.
HandlersRun == C!AllRun /\ C!RunOnce /\ C!Innermost

\* Scheduling: the priority and the affinity recorded are those in force, when
\* nobody is in between; and to read an affinity does not change it.
SchedulingKept == S!PriorityRecorded /\ S!AffinityRecorded /\ S!AffinityKept

\* Names: a name has one owner, who frees it once, and none is read after that.
NamesOwned == N!NameOwnedOnce /\ N!ReadsLiveName

\* Attributes: a call that fails changes no attribute; the kind of a mutex tells
\* its type and robustness; and nothing is made that is said to be shared between
\* processes.
AttributesTell ==
  [][A!FailureChangesNothing /\ A!KindTells /\ (A!NothingShared)']_attrVars

\* TimeConversion: a timed wait waits for what is left, a delay is not short while
\* its milliseconds fit a DWORD, and the system time survives the conversion
\* there and back.
TimesAccurate == T!TypeOK /\ T!WaitAccurate /\ T!DelayAccurate /\ T!RoundTrip

\* Process: a thread structure is pushed and freed once, and asynchronous
\* cancellation can be delivered, by the library that is loaded.
ProcessSound == P!StructsOnce /\ P!CancellationKnown
=============================================================================
