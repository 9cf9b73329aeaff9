---------------------------- MODULE EnvDirectory ----------------------------
(***************************************************************************)
(* The calls of PosixEnv on the names of one directory                      *)
(* (rutil/env_posix.cc), and the two that take several system calls: a      *)
(* thread that is in GetChildrenFileAttributes (rutil/env.cc) or in         *)
(* CreateDirIfMissing, while others change the directory as they like.      *)
(*                                                                          *)
(* Every system call is a step.  The directory itself stays, and so do "."  *)
(* and "..", which GetChildren lists as well.                               *)
(***************************************************************************)
EXTENDS Naturals, Sequences, SequencesExt

CONSTANTS
  Name,     \* a sequence: the names in the order in which readdir comes by
  None

VARIABLES
  entry,    \* name -> None, "dir" or "file"
  op,       \* the call the thread is in, or the last one
  at,       \* the step it has reached
  child,    \* CreateDirIfMissing: the name; else the number of the name it is at
  result,   \* the names listed, and of them those that are kept
  status,
  stayed,   \* names that were there all through the call
  came,     \* names that were there at some time in the call
  wasDir    \* names that were a directory at some time in the call

vars == <<entry, op, at, child, result, status, stayed, came, wasDir>>

Names == ToSet(Name)

Init ==
  /\ entry \in [Names -> {None, "dir", "file"}]
  /\ op = "none" /\ at = "done" /\ child = 0 /\ result = <<>> /\ status = "ok"
  /\ stayed = {} /\ came = {} /\ wasDir = {}

-----------------------------------------------------------------------------
(* Calls that are one system call each; one that fails changes nothing.    *)

CreateDir(n) == entry[n] = None /\ entry' = [entry EXCEPT ![n] = "dir"]

DeleteDir(n) == entry[n] = "dir" /\ entry' = [entry EXCEPT ![n] = None]

DeleteFile(n) == entry[n] = "file" /\ entry' = [entry EXCEPT ![n] = None]

\* rename: a file replaces a file, a directory a directory that is empty; onto
\* another link of the same file it changes nothing.
RenameFile(src, target) ==
  /\ entry[src] # None
  /\ entry[target] \in {None, entry[src]}
  /\ entry' = [entry EXCEPT ![target] = entry[src], ![src] = None]

LinkFile(src, target) ==
  /\ entry[src] = "file" /\ entry[target] = None
  /\ entry' = [entry EXCEPT ![target] = "file"]

Change ==
  /\ \/ \E n \in Names : CreateDir(n) \/ DeleteDir(n) \/ DeleteFile(n)
     \/ \E m, n \in Names : m # n /\ (RenameFile(m, n) \/ LinkFile(m, n))
  /\ UNCHANGED <<op, at, child, result, status>>

-----------------------------------------------------------------------------
(* CreateDirIfMissing.                                                     *)

\* mkdir
CreateDirIfMissing(n) ==
  /\ at = "done"
  /\ op' = "mkdir" /\ child' = n /\ result' = <<>> /\ status' = "ok"
  /\ IF entry[n] = None
     THEN entry' = [entry EXCEPT ![n] = "dir"] /\ at' = "done"
     ELSE at' = "stat" /\ UNCHANGED entry

\* After EEXIST
DirExists ==
  /\ at = "stat"
  /\ at' = "done"
  /\ status' = IF entry[child] = "dir" THEN "ok" ELSE "error"
  /\ UNCHANGED <<entry, op, child, result>>

-----------------------------------------------------------------------------
(* GetChildrenFileAttributes.                                              *)

\* opendir of GetChildren
GetChildren ==
  /\ at = "done"
  /\ op' = "list" /\ at' = "readdir" /\ child' = 1 /\ result' = <<>> /\ status' = "ok"
  /\ UNCHANGED entry

\* readdir comes by one name after the other.
ReadDir ==
  /\ at = "readdir"
  /\ IF child > Len(Name)
     THEN at' = "size" /\ child' = 1 /\ UNCHANGED result
     ELSE /\ child' = child + 1
          /\ result' = IF entry[Name[child]] # None THEN Append(result, Name[child]) ELSE result
          /\ UNCHANGED at
  /\ UNCHANGED <<entry, op, status>>

\* GetFileSize of the next name: stat
GetFileSize ==
  /\ at = "size"
  /\ IF child > Len(result)
     THEN at' = "done" /\ UNCHANGED child
     ELSE IF entry[result[child]] # None
          THEN child' = child + 1 /\ UNCHANGED at
          ELSE at' = "exists" /\ UNCHANGED child
  /\ UNCHANGED <<entry, op, result, status>>


\* The loop goes on without advancing result_size.
LeftOut(i) == RemoveAt(result, i)

\* GetFileSize failed: FileExists, and a name that is gone is left out.
FileExists ==
  /\ at = "exists"
  /\ IF entry[result[child]] = None
     THEN at' = "size" /\ result' = LeftOut(child) /\ UNCHANGED status
     ELSE at' = "done" /\ status' = "error" /\ UNCHANGED result
  /\ UNCHANGED <<entry, op, child>>

-----------------------------------------------------------------------------

Start == GetChildren \/ \E n \in Names : CreateDirIfMissing(n)

Step == DirExists \/ ReadDir \/ GetFileSize \/ FileExists

There == {n \in Names : entry[n] # None}
Dirs == {n \in Names : entry[n] = "dir"}

\* What a call sees of the directory
Observe ==
  IF at = "done" THEN UNCHANGED <<stayed, came, wasDir>>
  ELSE stayed' = stayed \cap There' /\ came' = came \cup There' /\ wasDir' = wasDir \cup Dirs'

Next ==
  \/ Start /\ stayed' = There' /\ came' = There \cup There' /\ wasDir' = Dirs \cup Dirs'
  \/ (Step \/ Change) /\ Observe

Spec == Init /\ [][Next]_vars

-----------------------------------------------------------------------------
(* Properties.                                                             *)


\* GetChildrenFileAttributes does not fail for files that are deleted meanwhile ("the
\* deleted files will be omitted from result", env.h:184).  It does for one that is
\* made again between stat and access.
DeletedAreOmitted == op = "list" => status = "ok"
=============================================================================
