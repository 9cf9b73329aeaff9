----------------------------- MODULE EnvOpenFiles -----------------------------
(***************************************************************************)
(* The calls of PosixEnv that open files (rutil/env_posix.cc), made by      *)
(* several threads, with the descriptors they take from the system and the  *)
(* decision, made once per process, whether files may be mapped for         *)
(* writing.                                                                 *)
(*                                                                          *)
(* A descriptor is open on a file or closed, and open takes the lowest one  *)
(* that is closed.  One step is what a thread does from one access to the   *)
(* shared fields to the next; any system call may fail.                     *)
(***************************************************************************)
EXTENDS Naturals, FiniteSets, FiniteSetsExt

CONSTANTS
  Thread,
  File,
  Disks,       \* the sets of files that may be on a disk that supports fast allocation
  Call,        \* what is called: [op, use_mmap_reads, use_mmap_writes,
               \* use_direct_reads, use_direct_writes]
  MaxFd,       \* bound on the descriptors
  MaxObjects,  \* bound on the live file objects
  None

VARIABLES
  fds,                   \* per descriptor: the file it is open on, or None
  objects,               \* the live file objects: [kind, file, fd]
  checkedDiskForMmap_,
  forceMmapOff,
  pc,                    \* per thread
  call, file, fd,        \* per thread: what it calls, on which file, its descriptor
  fast                   \* the files for which SupportsFastAllocate is true

vars == <<fds, objects, checkedDiskForMmap_, forceMmapOff, pc, call, file, fd, fast>>

Fd == 1..MaxFd

Init ==
  /\ fds = [d \in Fd |-> None]
  /\ objects = {}
  /\ checkedDiskForMmap_ = FALSE /\ forceMmapOff = FALSE
  /\ pc = [t \in Thread |-> "idle"]
  /\ call = [t \in Thread |-> CHOOSE c \in Call : TRUE]
  /\ file = [t \in Thread |-> CHOOSE f \in File : TRUE]
  /\ fd = [t \in Thread |-> 1]
  /\ fast \in Disks

Goes(t, to) == pc' = [pc EXCEPT ![t] = to]

Free == {d \in Fd : fds[d] = None}

\* open on f succeeds: `d` is the descriptor.
Opens(t, f) ==
  /\ Free # {}
  /\ fds' = [fds EXCEPT ![Min(Free)] = f]
  /\ fd' = [fd EXCEPT ![t] = Min(Free)]

Object(kind, t, d) == [kind |-> kind, file |-> file[t], fd |-> d]

\* The call returns with a new object, or without one.
Makes(kind, t, d) == objects' = objects \cup {Object(kind, t, d)} /\ Goes(t, "idle")

MakesNone(t) == UNCHANGED objects /\ Goes(t, "idle")

flagVars == <<checkedDiskForMmap_, forceMmapOff>>

-----------------------------------------------------------------------------

\* The first open.  It may fail, and then nothing else happens.
Open(t, c, f) ==
  /\ pc[t] = "idle"
  /\ Cardinality(objects) < MaxObjects
  /\ call' = [call EXCEPT ![t] = c]
  /\ file' = [file EXCEPT ![t] = f]
  /\ \/ Opens(t, f) /\ Goes(t, "opened")
     \/ UNCHANGED <<fds, fd, pc>>
  /\ UNCHANGED <<objects, flagVars, fast>>

\* A second open, with O_DIRECT; the first descriptor is not used any more.
OpenDirect(t, kind) ==
  \/ /\ Opens(t, file[t])
     /\ objects' = objects \cup {Object(kind, t, Min(Free))}
     /\ Goes(t, "idle")
  \/ MakesNone(t) /\ UNCHANGED <<fds, fd>>

NewSequentialFile(t) ==
  /\ pc[t] = "opened" /\ call[t].op = "NewSequentialFile"
  /\ IF call[t].use_direct_reads /\ ~call[t].use_mmap_writes
     THEN OpenDirect(t, "DirectSequential")
     ELSE Makes("Sequential", t, fd[t]) /\ UNCHANGED <<fds, fd>>
  /\ UNCHANGED <<flagVars, call, file, fast>>

Closes(t) == fds' = [fds EXCEPT ![fd[t]] = None] /\ UNCHANGED fd

\* A mapped file keeps the number of the descriptor that is closed here.
NewRandomAccessFile(t) ==
  /\ pc[t] = "opened" /\ call[t].op = "NewRandomAccessFile"
  /\ \/ /\ call[t].use_mmap_reads
        /\ Makes("MmapReadable", t, fd[t]) \/ MakesNone(t)
        /\ Closes(t)
     \/ /\ ~call[t].use_mmap_reads /\ call[t].use_direct_reads
        /\ OpenDirect(t, "DirectRandom")
     \/ /\ ~call[t].use_mmap_reads /\ ~call[t].use_direct_reads
        /\ Makes("Random", t, fd[t])
        /\ UNCHANGED <<fds, fd>>
  /\ UNCHANGED <<flagVars, call, file, fast>>

NewDirectory(t) ==
  /\ pc[t] = "opened" /\ call[t].op = "NewDirectory"
  /\ Makes("Directory", t, fd[t])
  /\ UNCHANGED <<fds, flagVars, call, file, fd, fast>>

-----------------------------------------------------------------------------
(* NewWritableFile and ReuseWritableFile.                                  *)

\* Mutant: the descriptor stays open when the file cannot be renamed.
RenameFailsOpen(t) == MakesNone(t) /\ UNCHANGED <<fds, fd>>

RenameFails(t) == MakesNone(t) /\ Closes(t)

\* rename, for ReuseWritableFile, and the test of checkedDiskForMmap_
Writable(t) ==
  /\ pc[t] = "opened" /\ call[t].op \in {"NewWritableFile", "ReuseWritableFile"}
  /\ \/ call[t].op = "ReuseWritableFile" /\ RenameFails(t)
     \/ /\ Goes(t, IF call[t].use_mmap_writes /\ ~checkedDiskForMmap_ THEN "probe" ELSE "make")
        /\ UNCHANGED <<fds, objects, fd>>
  /\ UNCHANGED <<flagVars, call, file, fast>>

\* Mutant: checkedDiskForMmap_ is set before forceMmapOff.
ProbeSwapped(t) ==
  \/ /\ pc[t] = "probe"
     /\ checkedDiskForMmap_' = TRUE
     /\ Goes(t, "force")
     /\ UNCHANGED <<fds, objects, forceMmapOff, call, file, fd, fast>>
  \/ /\ pc[t] = "force"
     /\ forceMmapOff' = (forceMmapOff \/ file[t] \notin fast)
     /\ Goes(t, "make")
     /\ UNCHANGED <<fds, objects, checkedDiskForMmap_, call, file, fd, fast>>

\* SupportsFastAllocate, then forceMmapOff
Probe(t) ==
  /\ pc[t] = "probe"
  /\ forceMmapOff' = (forceMmapOff \/ file[t] \notin fast)
  /\ Goes(t, "checked")
  /\ UNCHANGED <<fds, objects, checkedDiskForMmap_, call, file, fd, fast>>

Checked(t) ==
  /\ pc[t] = "checked"
  /\ checkedDiskForMmap_' = TRUE
  /\ Goes(t, "make")
  /\ UNCHANGED <<fds, objects, forceMmapOff, call, file, fd, fast>>

MapsWrites(t) == call[t].use_mmap_writes /\ ~forceMmapOff

Make(t) ==
  /\ pc[t] = "make"
  /\ \/ MapsWrites(t) /\ Makes("Mmap", t, fd[t]) /\ UNCHANGED <<fds, fd>>
     \/ /\ ~MapsWrites(t)
        /\ IF call[t].op = "NewWritableFile" /\ call[t].use_direct_writes
           THEN OpenDirect(t, "DirectWritable")
           ELSE Makes("Writable", t, fd[t]) /\ UNCHANGED <<fds, fd>>
  /\ UNCHANGED <<flagVars, call, file, fast>>

-----------------------------------------------------------------------------
(* The objects.                                                            *)

\* The destructor closes the descriptor, but for the mapped file.
Destroy(o) ==
  /\ objects' = objects \ {o}
  /\ fds' = IF o.kind = "MmapReadable" THEN fds ELSE [fds EXCEPT ![o.fd] = None]
  /\ UNCHANGED <<flagVars, pc, call, file, fd, fast>>

Next ==
  \/ \E t \in Thread :
       \/ \E c \in Call, f \in File : Open(t, c, f)
       \/ NewSequentialFile(t) \/ NewRandomAccessFile(t) \/ NewDirectory(t)
       \/ Writable(t) \/ Probe(t) \/ Checked(t) \/ Make(t)
  \/ \E o \in objects : Destroy(o)

Spec == Init /\ [][Next]_vars

-----------------------------------------------------------------------------
(* Properties.                                                             *)

Owners(d) == {o \in objects : o.fd = d /\ o.kind # "MmapReadable"}

InUse(d) == \E t \in Thread : pc[t] # "idle" /\ fd[t] = d

\* A descriptor that is open belongs to one call that is going on or to one object,
\* and is open on that object's file: what the calls open is closed again, by the call
\* or by the destructor, whatever fails.
NoDescriptorLeaks ==
  \A d \in Fd :
    IF fds[d] = None THEN Owners(d) = {} /\ ~InUse(d)
    ELSE \/ InUse(d) /\ Owners(d) = {}
         \/ ~InUse(d) /\ \E o \in Owners(d) : Owners(d) = {o} /\ o.file = fds[d]

\* A file that was made for mapped writes is on a disk that was found to support them,
\* in every order of the threads' first calls ("do not use mmapWrite on non
\* ext-3/xfs/tmpfs systems", env_posix.cc:240 and 305).
MmapWhereSupported ==
  \A o \in objects : o.kind = "Mmap" => o.file \in fast
=============================================================================
