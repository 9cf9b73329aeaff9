------------------------------- MODULE FileLock -------------------------------
(***************************************************************************)
(* LockFile and UnlockFile of PosixEnv (rutil/env_posix.cc): a process-    *)
(* wide set of locked path names on top of the record locks of the         *)
(* operating system.                                                       *)
(*                                                                         *)
(* The part of LockOrUnlock under mutex_lockedFiles is one action; open    *)
(* and close come before and after it.  The record locks are the           *)
(* operating system's: a process has one lock on a file however often it   *)
(* locks it, and loses it when it closes any descriptor of the file.       *)
(***************************************************************************)
EXTENDS Naturals, FiniteSets

CONSTANTS
  Process,
  Thread,      \* the threads of each process
  Name,        \* path names
  Inode,       \* Inode[n]: the file that a name leads to
  Reenter,     \* may a process lock a file again that it has in use?
  None

VARIABLES
  lockedFiles,   \* per process: the names in the set
  owner,         \* per file: the process that has the record lock, or None
  pc,            \* per process and thread: "idle", "opened", "refused" or
                 \* "unlocked", the last two with a descriptor left to close
  name,          \* per process and thread: the name it works on
  held           \* per process: the names whose FileLock a client has

vars == <<lockedFiles, owner, pc, name, held>>

File == {Inode[n] : n \in Name}

\* close(fd)
Closed(p, f) == [owner EXCEPT ![f] = IF @ = p THEN None ELSE @]

\* fcntl(F_SETLK, F_WRLCK) succeeds.
MayLock(p, f) == owner[f] \in {p, None}

\* The files that a process holds or is about to lock, unlock or close
InUse(p) ==
  {Inode[n] : n \in held[p]} \cup {Inode[name[p][t]] : t \in {u \in Thread : pc[p][u] # "idle"}}

-----------------------------------------------------------------------------

Init ==
  /\ lockedFiles = [p \in Process |-> {}]
  /\ owner = [f \in File |-> None]
  /\ pc = [p \in Process |-> [t \in Thread |-> "idle"]]
  /\ name = [p \in Process |-> [t \in Thread |-> CHOOSE n \in Name : TRUE]]
  /\ held = [p \in Process |-> {}]

\* LockFile opens the file.
LockFile(p, t, n) ==
  /\ pc[p][t] = "idle"
  /\ Reenter \/ Inode[n] \notin InUse(p)
  /\ pc' = [pc EXCEPT ![p][t] = "opened"]
  /\ name' = [name EXCEPT ![p][t] = n]
  /\ UNCHANGED <<lockedFiles, owner, held>>

\* LockOrUnlock(lock) succeeds: the client has a FileLock.
Locked(p, t) ==
  LET n == name[p][t]
  IN  /\ pc[p][t] = "opened"
      /\ n \notin lockedFiles[p]
      /\ MayLock(p, Inode[n])
      /\ lockedFiles' = [lockedFiles EXCEPT ![p] = @ \cup {n}]
      /\ owner' = [owner EXCEPT ![Inode[n]] = p]
      /\ held' = [held EXCEPT ![p] = @ \cup {n}]
      /\ pc' = [pc EXCEPT ![p][t] = "idle"]
      /\ UNCHANGED name


\* The name is locked already, or fcntl fails, for a conflict or otherwise: the
\* set is as before.
Refused(p, t) ==
  /\ pc[p][t] = "opened"
  /\ pc' = [pc EXCEPT ![p][t] = "refused"]
  /\ UNCHANGED <<lockedFiles, owner, name, held>>

\* LockOrUnlock(unlock); when its fcntl fails the record lock stays until close.
UnlockFile(p, t, n) ==
  /\ pc[p][t] = "idle"
  /\ n \in held[p]
  /\ n \in lockedFiles[p]
  /\ held' = [held EXCEPT ![p] = @ \ {n}]
  /\ lockedFiles' = [lockedFiles EXCEPT ![p] = @ \ {n}]
  /\ owner' \in {owner, [owner EXCEPT ![Inode[n]] = IF @ = p THEN None ELSE @]}
  /\ pc' = [pc EXCEPT ![p][t] = "unlocked"]
  /\ name' = [name EXCEPT ![p][t] = n]

\* LockFile or UnlockFile closes its descriptor and returns.
Close(p, t) ==
  /\ pc[p][t] \in {"refused", "unlocked"}
  /\ owner' = Closed(p, Inode[name[p][t]])
  /\ pc' = [pc EXCEPT ![p][t] = "idle"]
  /\ UNCHANGED <<lockedFiles, name, held>>

\* The process ends, and starts again with nothing.
Exit(p) ==
  /\ lockedFiles' = [lockedFiles EXCEPT ![p] = {}]
  /\ owner' = [f \in File |-> IF owner[f] = p THEN None ELSE owner[f]]
  /\ pc' = [pc EXCEPT ![p] = [t \in Thread |-> "idle"]]
  /\ held' = [held EXCEPT ![p] = {}]
  /\ UNCHANGED name

Step(p, t) == Locked(p, t) \/ Refused(p, t) \/ Close(p, t)

Next ==
  \E p \in Process :
    \/ \E t \in Thread, n \in Name : LockFile(p, t, n) \/ UnlockFile(p, t, n)
    \/ \E t \in Thread : Step(p, t)
    \/ Exit(p)

Spec == Init /\ [][Next]_vars

-----------------------------------------------------------------------------
(* Properties.                                                             *)

\* A lock that a client has is in the set, so that UnlockFile does not fail, and
\* nothing else is, so that every name can be locked again (lines 75 and 83).
SetIsHeld == lockedFiles = held

\* Two processes never have the same file ("Used to prevent concurrent access to
\* the same db by multiple processes", env.h:219).
OneProcess ==
  \A p, q \in Process : \A n \in held[p], m \in held[q] : Inode[n] = Inode[m] => p = q

\* A process has a file through one FileLock ("If somebody else already holds the
\* lock, finishes immediately with a failure", env.h:228).
OneHolder ==
  \A p, q \in Process : \A n \in held[p], m \in held[q] :
    Inode[n] = Inode[m] => p = q /\ n = m

\* The system's lock is never left behind: it belongs to a process that has the
\* file or is on its way out of UnlockFile (lines 478-487).
NoLeakedLock ==
  \A f \in File : owner[f] # None => f \in InUse(owner[f])
=============================================================================
