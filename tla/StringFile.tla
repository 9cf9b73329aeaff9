------------------------------ MODULE StringFile ------------------------------
(***************************************************************************)
(* WriteStringToFile and ReadFileToString (rutil/env.cc) of several threads *)
(* on one name, while others delete the file or put another in its place.   *)
(*                                                                          *)
(* The file written is a PosixMmapFile, as the default EnvOptions have it   *)
(* (use_mmap_writes, env.h:56) where the disk supports it: it grows by      *)
(* mapped regions and is trimmed when it is closed.  No two threads write   *)
(* one file at a time, as open would cut the other's mapped file short.     *)
(***************************************************************************)
EXTENDS Naturals, Sequences, FiniteSetsExt

CONSTANTS
  Thread,
  File,          \* the inodes
  kBufferSize,   \* of ReadFileToString
  Data,          \* the strings of WriteStringToFile
  MapSize,       \* bytes a mapped file is extended by
  MayFailClose,  \* Close may fail to trim it
  None

VARIABLES
  name,      \* the inode under the name, or None
  content,   \* inode -> the bytes of the file
  op,        \* thread -> "none", "write" or "read": its call, or the last one
  at,        \* thread -> the step it has reached
  file,      \* thread -> the inode it has open
  pos,       \* thread -> bytes written, or read
  data,      \* thread -> the string to write, or the one read
  status,    \* thread -> of the call
  alone      \* thread -> no one else opened its file to write in the call

local == <<op, at, file, pos, data, status>>
vars == <<name, content, local, alone>>

Init ==
  /\ name = None
  /\ content = [f \in File |-> <<>>]
  /\ op = [t \in Thread |-> "none"]
  /\ at = [t \in Thread |-> "done"]
  /\ file = [t \in Thread |-> None]
  /\ pos = [t \in Thread |-> 0]
  /\ data = [t \in Thread |-> <<>>]
  /\ status = [t \in Thread |-> "ok"]
  /\ alone = [t \in Thread |-> TRUE]

Goes(t, to) == at' = [at EXCEPT ![t] = to]

\* A thread that is in no call makes one, with the file f open.
Calls(t, which, to, f, d, s) ==
  /\ at[t] = "done"
  /\ op' = [op EXCEPT ![t] = which]
  /\ Goes(t, to)
  /\ file' = [file EXCEPT ![t] = f]
  /\ pos' = [pos EXCEPT ![t] = 0]
  /\ data' = [data EXCEPT ![t] = d]
  /\ status' = [status EXCEPT ![t] = s]

Fails(t, to) == Goes(t, to) /\ status' = [status EXCEPT ![t] = "error"]

Writing(t) == op[t] = "write" /\ at[t] # "done"

\* An inode that no name and no open file refers to: any, as the inodes are alike
Free == LET free == {f \in File : f # name /\ \A t \in Thread : at[t] # "done" => file[t] # f}
        IN  {f \in free : f = CHOOSE g \in free : TRUE}

-----------------------------------------------------------------------------
(* Other users of the directory.                                           *)

DeleteFile == name # None /\ name' = None /\ UNCHANGED <<content, local, alone>>

\* A file with other content is renamed to the name.
RenameFile ==
  /\ \E f \in Free : name' = f /\ content' = [content EXCEPT ![f] = <<2>>]
  /\ alone' = [t \in Thread |-> alone[t] /\ file[t] # name']
  /\ UNCHANGED local

-----------------------------------------------------------------------------
(* WriteStringToFile.                                                      *)

\* NewWritableFile: open, with O_CREAT and O_TRUNC, or a failure
NewWritableFile(t, d) ==
  \/ /\ Calls(t, "write", "done", None, d, "error")
     /\ UNCHANGED <<name, content, alone>>
  \/ \E f \in (IF name = None THEN Free ELSE {name}) :
       /\ \A u \in Thread : Writing(u) => file[u] # f
       /\ Calls(t, "write", "append", f, d, "ok")
       /\ name' = f
       /\ content' = [content EXCEPT ![f] = <<>>]
       /\ alone' = [u \in Thread |-> u = t \/ (alone[u] /\ file[u] # f)]

\* The first k bytes, and the zeros up to the end of the mapped region
Written(t, k) ==
  [i \in 1..((k + MapSize - 1) \div MapSize) * MapSize |-> IF i <= k THEN data[t][i] ELSE 0]

\* Append gets on by some bytes; when it is through, Sync is next if should_sync is
\* set.  Or it fails.
AppendData(t) ==
  /\ op[t] = "write" /\ at[t] = "append"
  /\ \/ /\ pos[t] < Len(data[t])
        /\ content' = [content EXCEPT ![file[t]] = Written(t, pos[t] + 1)]
        /\ pos' = [pos EXCEPT ![t] = @ + 1]
        /\ UNCHANGED <<at, status>>
     \/ /\ pos[t] = Len(data[t])
        /\ \E should_sync \in BOOLEAN : Goes(t, IF should_sync THEN "sync" ELSE "close")
        /\ UNCHANGED <<content, pos, status>>
     \/ Fails(t, "delete") /\ UNCHANGED <<content, pos>>
  /\ UNCHANGED <<name, op, file, data, alone>>

Sync(t) ==
  /\ at[t] = "sync"
  /\ \/ Goes(t, "close") /\ UNCHANGED status
     \/ Fails(t, "delete")
  /\ UNCHANGED <<name, content, op, file, pos, data, alone>>

\* Mutant: the file stays where it is when its Append or Sync has failed.
DeleteNothing(t) == name

\* DeleteFile goes by the name, whatever that is by now.
Deleted(t) == None

DeleteFailed(t) ==
  /\ at[t] = "delete"
  /\ name' = Deleted(t)
  /\ Goes(t, "close")
  /\ UNCHANGED <<content, op, file, pos, data, status, alone>>

\* The destructor of the file: Close, of which WriteStringToFile learns nothing
Close(t) ==
  /\ at[t] = "close"
  /\ \/ content' = [content EXCEPT ![file[t]] = SubSeq(@, 1, pos[t])]
     \/ MayFailClose /\ UNCHANGED content
  /\ Goes(t, "done")
  /\ UNCHANGED <<name, op, file, pos, data, status, alone>>

-----------------------------------------------------------------------------
(* ReadFileToString.                                                       *)

NewSequentialFile(t) ==
  /\ \/ Calls(t, "read", "done", None, <<>>, "error")
     \/ name # None /\ Calls(t, "read", "read", name, <<>>, "ok")
  /\ alone' = [alone EXCEPT ![t] = \A u \in Thread \ {t} : Writing(u) => file[u] # name]
  /\ UNCHANGED <<name, content>>

Fragment(t) ==
  SubSeq(content[file[t]], pos[t] + 1, Min({pos[t] + kBufferSize, Len(content[file[t]])}))

\* Mutant: the loop ends with the first fragment that is short.
LastIsShort(fragment) == Len(fragment) <= kBufferSize

\* The loop ends with the first fragment that is empty.
IsLast(fragment) == fragment = <<>>

Read(t) ==
  /\ op[t] = "read" /\ at[t] = "read"
  /\ \/ /\ pos' = [pos EXCEPT ![t] = @ + Len(Fragment(t))]
        /\ data' = [data EXCEPT ![t] = @ \o Fragment(t)]
        /\ Goes(t, IF IsLast(Fragment(t)) THEN "done" ELSE "read")
        /\ UNCHANGED status
     \/ Fails(t, "done") /\ UNCHANGED <<pos, data>>
  /\ UNCHANGED <<name, content, op, file, alone>>

-----------------------------------------------------------------------------

Start(t) == NewSequentialFile(t) \/ \E d \in Data : NewWritableFile(t, d)

Step(t) == AppendData(t) \/ Sync(t) \/ DeleteFailed(t) \/ Close(t) \/ Read(t)

Next == DeleteFile \/ RenameFile \/ \E t \in Thread : Start(t) \/ Step(t)

Spec == Init /\ [][Next]_vars

-----------------------------------------------------------------------------
(* Properties.                                                             *)

\* As long as no one else has opened the file to write it, WriteStringToFile that
\* succeeds leaves the string in it, ReadFileToString that succeeds returns what is in
\* it, and a failed WriteStringToFile leaves nothing of its own under the name.
StringsAreWhole ==
  \A t \in Thread : at[t] = "done" /\ alone[t] /\ file[t] # None =>
    /\ status[t] = "ok" => data[t] = content[file[t]]
    /\ op[t] = "write" /\ status[t] = "error" => name # file[t]

\* What is under the name of a failed WriteStringToFile and was put there by someone
\* else is left alone.
OthersAreKept ==
  [][\A t \in Thread : at[t] = "delete" /\ at'[t] = "close" => name \in {None, file[t]}]_vars
=============================================================================
