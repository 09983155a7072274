---------------------------------- MODULE Names -------------------------------
(***************************************************************************)
(* Names of threads: pthread_attr_setname_np, pthread_setname_np and       *)
(* pthread_getname_np.  A name is a buffer on the heap, which belongs to   *)
(* an attribute object or to a thread.  The name of a thread is replaced,  *)
(* and the old one freed, under its threadLock, by any thread; it is read  *)
(* under the same lock, character by character.  What a buffer says is     *)
(* left out: nobody writes to it once it has been made.                    *)
(*                                                                         *)
(* As the functions require, a thread is only named while it exists, an    *)
(* attribute object is used by one thread at a time, and only a thread     *)
(* that has a name is asked for it: pthread_getname_np follows a NULL      *)
(* pointer otherwise.                                                      *)
(***************************************************************************)
EXTENDS Naturals, FiniteSets

CONSTANTS
  Users,     \* the threads that call
  Targets,   \* the threads that are named
  Buffers,   \* a bound: the buffers that are ever allocated
  MaxCopied, \* a bound: the characters that are copied
  Null

VARIABLES
  heap,       \* heap[b]: "unused", "used" or "freed"
  exists,     \* the threads that have been created
  thrname,    \* attr->thrname
  name,       \* name[x]: tp->name
  threadLock, \* threadLock[x]: its holder, or Null
  pc, target, \* pc[u], target[u]: where u is, and the thread it is about
  newname,    \* newname[u], in pthread_setname_np
  oldname,    \* oldname[u], likewise
  s, copied   \* s[u]: the buffer that u is reading; how far it is

vars == <<heap, exists, thrname, name, threadLock, pc, target, newname, oldname, s, copied>>
call == <<newname, oldname, s, copied>>

At(u, l)   == pc[u] = l
Goto(u, l) == pc' = [pc EXCEPT ![u] = l]
Return(u)  == Goto(u, "user") /\ target' = [target EXCEPT ![u] = Null]

Init ==
  /\ heap = [b \in Buffers |-> "unused"]
  /\ exists = {}
  /\ thrname = Null
  /\ name = [x \in Targets |-> Null]
  /\ threadLock = [x \in Targets |-> Null]
  /\ pc = [u \in Users |-> "user"]
  /\ target = [u \in Users |-> Null]
  /\ newname = [u \in Users |-> Null]
  /\ oldname = [u \in Users |-> Null]
  /\ s = [u \in Users |-> Null]
  /\ copied = [u \in Users |-> 0]

\* The heap after a buffer was freed; NULL is not freed.
Free(h, b) == IF b = Null THEN h ELSE [h EXCEPT ![b] = "freed"]

Unused(b) == heap[b] = "unused"

-----------------------------------------------------------------------------
\* pthread_attr_setname_np: no lock, the attribute object has one user.
AttrSetname(u, b) ==
  /\ At(u, "user") /\ Unused(b)
  /\ thrname' = b
  /\ heap' = [Free(heap, thrname) EXCEPT ![b] = "used"]
  /\ UNCHANGED <<exists, name, threadLock, pc, target, call>>

\* pthread_create: tp->name is NULL in a fresh structure, and a copy of the
\* name in the attribute object, if there is one.
Create(u, x, b) ==
  /\ At(u, "user") /\ x \notin exists /\ Unused(b)
  /\ exists' = exists \union {x}
  /\ IF thrname = Null
       THEN UNCHANGED <<name, heap>>
       ELSE /\ name' = [name EXCEPT ![x] = b]
            /\ heap' = [heap EXCEPT ![b] = "used"]
  /\ UNCHANGED <<thrname, threadLock, pc, target, call>>

\* pthread_join, and the structure is used again: its name is forgotten.
Join(u, x) ==
  /\ At(u, "user") /\ x \in exists
  /\ \A v \in Users : target[v] # x
  /\ exists' = exists \ {x}
  /\ name' = [name EXCEPT ![x] = Null]
  /\ UNCHANGED <<heap, thrname, threadLock, pc, target, call>>

\* pthread_setname_np: the copy is made before the lock is taken ...
SetnameCopy(u, x, b) ==
  /\ At(u, "user") /\ x \in exists /\ Unused(b)
  /\ heap' = [heap EXCEPT ![b] = "used"]
  /\ newname' = [newname EXCEPT ![u] = b]
  /\ target' = [target EXCEPT ![u] = x]
  /\ Goto(u, "set_lock")
  /\ UNCHANGED <<exists, thrname, name, threadLock, oldname, s, copied>>

\* Fault: the old name is read before the lock is taken.
SetnameReads(u) ==
  LET x == target[u]
  IN  /\ At(u, "set_lock")
      /\ IF oldname[u] = Null /\ name[x] # Null
           THEN /\ oldname' = [oldname EXCEPT ![u] = name[x]]
                /\ UNCHANGED <<threadLock, name, pc>>
           ELSE /\ threadLock[x] = Null
                /\ threadLock' = [threadLock EXCEPT ![x] = u]
                /\ name' = [name EXCEPT ![x] = newname[u]]
                /\ Goto(u, "set_free")
                /\ UNCHANGED oldname
      /\ UNCHANGED <<heap, exists, thrname, target, newname, s, copied>>

\* ... the names are exchanged with it ...
SetnameSwap(u) ==
  LET x == target[u]
  IN  /\ At(u, "set_lock") /\ threadLock[x] = Null
      /\ threadLock' = [threadLock EXCEPT ![x] = u]
      /\ oldname' = [oldname EXCEPT ![u] = name[x]]
      /\ name' = [name EXCEPT ![x] = newname[u]]
      /\ Goto(u, "set_free")
      /\ UNCHANGED <<heap, exists, thrname, target, newname, s, copied>>

\* ... and the old one is freed before it is released.
SetnameFree(u) ==
  /\ At(u, "set_free")
  /\ heap' = Free(heap, oldname[u])
  /\ threadLock' = [threadLock EXCEPT ![target[u]] = Null]
  /\ newname' = [newname EXCEPT ![u] = Null]
  /\ oldname' = [oldname EXCEPT ![u] = Null]
  /\ Return(u)
  /\ UNCHANGED <<exists, thrname, name, s, copied>>

\* pthread_getname_np.
GetnameCall(u, x) ==
  /\ At(u, "user") /\ x \in exists /\ name[x] # Null
  /\ target' = [target EXCEPT ![u] = x]
  /\ Goto(u, "get_lock")
  /\ UNCHANGED <<heap, exists, thrname, name, threadLock, call>>

GetnameLock(u) ==
  LET x == target[u]
  IN  /\ At(u, "get_lock") /\ threadLock[x] = Null
      /\ threadLock' = [threadLock EXCEPT ![x] = u]
      /\ s' = [s EXCEPT ![u] = name[x]]
      /\ Goto(u, "get_copy")
      /\ UNCHANGED <<heap, exists, thrname, name, target, newname, oldname, copied>>

GetnameCopy(u) ==
  /\ At(u, "get_copy") /\ copied[u] < MaxCopied
  /\ copied' = [copied EXCEPT ![u] = @ + 1]
  /\ UNCHANGED <<heap, exists, thrname, name, threadLock, pc, target, newname, oldname, s>>

GetnameReturn(u) ==
  /\ At(u, "get_copy")
  /\ threadLock' = [threadLock EXCEPT ![target[u]] = Null]
  /\ s' = [s EXCEPT ![u] = Null]
  /\ copied' = [copied EXCEPT ![u] = 0]
  /\ Return(u)
  /\ UNCHANGED <<heap, exists, thrname, name, newname, oldname>>

Next ==
  \E u \in Users :
    \/ \E b \in Buffers :
         \/ AttrSetname(u, b)
         \/ \E x \in Targets : Create(u, x, b) \/ SetnameCopy(u, x, b)
    \/ \E x \in Targets : Join(u, x) \/ GetnameCall(u, x)
    \/ SetnameSwap(u) \/ SetnameFree(u)
    \/ GetnameLock(u) \/ GetnameCopy(u) \/ GetnameReturn(u)

Spec == Init /\ [][Next]_vars

-----------------------------------------------------------------------------
(* Properties. *)

\* pthread_getname_np never reads a name that has been freed, whoever renames
\* the thread meanwhile.
ReadsLiveName == \A u \in Users : s[u] # Null => heap[s[u]] = "used"

\* The buffers that attribute object, threads and calls in progress own.
Owned ==
  {thrname} \union {name[x] : x \in Targets} \union {newname[u] : u \in Users}

\* A name is owned once, and is not freed before its owner lets go of it; what
\* is to be freed has not been freed yet by a second renaming.
NameOwnedOnce ==
  /\ \A b \in Owned \ {Null} : heap[b] = "used"
  /\ \A x \in Targets : name[x] # Null =>
       /\ name[x] # thrname
       /\ \A y \in Targets \ {x} : name[x] # name[y]
  /\ \A u \in Users : oldname[u] # Null =>
       heap[oldname[u]] = "used" /\ oldname[u] \notin Owned
=============================================================================
