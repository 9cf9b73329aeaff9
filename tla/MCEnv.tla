-------------------------------- MODULE MCEnv --------------------------------
(***************************************************************************)
(* What the threads and processes that use a PosixEnv can meet each other   *)
(* in, one part per behaviour: the file locks, the threads that are started *)
(* and joined, the calls that open files, without and with direct access,   *)
(* and the names in a directory.                                            *)
(***************************************************************************)
EXTENDS Naturals, TLC

CONSTANTS Process, Thread, Starter, Main, a, b, c, None

VARIABLES
  part, pc,
  lockedFiles, owner, name, held,                               \* of FileLock
  state, threads_to_join_, created, i, end,                     \* of EnvThreads
  fds, objects, checkedDiskForMmap_, forceMmapOff, call, file, fd, fast, \* of EnvOpenFiles
  entry, op, at, child, result, status, stayed, came, wasDir    \* of EnvDirectory

lockVars == <<lockedFiles, owner, name, held>>
threadVars == <<state, threads_to_join_, created, i, end>>
openVars == <<fds, objects, checkedDiskForMmap_, forceMmapOff, call, file, fd, fast>>
nameVars == <<entry, op, at, child, result, status, stayed, came, wasDir>>
vars == <<part, pc, lockVars, threadVars, openVars, nameVars>>

\* Two names that lead to files of their own, and no process that tries a file it has
\* in use already
Lock == INSTANCE FileLock WITH
  Name <- {a, b}, Inode <- (a :> "file_a") @@ (b :> "file_b"), Reenter <- FALSE

\* Threads that the client starts, and that start none themselves
Threads == INSTANCE EnvThreads WITH Thread <- Starter, Nested <- FALSE

Options(ops, mmapReads, mmapWrites, directReads, directWrites) ==
  [op: ops, use_mmap_reads: mmapReads, use_mmap_writes: mmapWrites,
   use_direct_reads: directReads, use_direct_writes: directWrites]

\* Every option that makes a difference to a call, without direct access
Buffered ==
  Options({"NewSequentialFile", "NewDirectory"}, {FALSE}, {FALSE}, {FALSE}, {FALSE})
  \cup Options({"NewRandomAccessFile"}, BOOLEAN, {FALSE}, {FALSE}, {FALSE})
  \cup Options({"NewWritableFile", "ReuseWritableFile"}, {FALSE}, BOOLEAN, {FALSE}, {FALSE})

\* The calls that open a file a second time
Direct ==
  Options({"NewSequentialFile", "NewRandomAccessFile"}, {FALSE}, {FALSE}, {TRUE}, {FALSE})
  \cup Options({"NewWritableFile"}, {FALSE}, BOOLEAN, {FALSE}, {TRUE})

\* All files are on one disk.
Disk == {{}, {a, b}}

Open == INSTANCE EnvOpenFiles WITH
  File <- {a, b}, Disks <- Disk, Call <- Buffered, MaxFd <- 3, MaxObjects <- 2

OpenDirect == INSTANCE EnvOpenFiles WITH
  File <- {a, b}, Disks <- Disk, Call <- Direct, MaxFd <- 3, MaxObjects <- 2

\* Three names, so that one may come and one go while another stays
Directory == INSTANCE EnvDirectory WITH Name <- <<a, b, c>>

NoLock == lockedFiles = 0 /\ owner = 0 /\ name = 0 /\ held = 0
NoThreads ==
  state = 0 /\ threads_to_join_ = 0 /\ created = 0 /\ i = 0 /\ end = 0
NoOpen ==
  /\ fds = 0 /\ objects = 0 /\ checkedDiskForMmap_ = 0 /\ forceMmapOff = 0
  /\ call = 0 /\ file = 0 /\ fd = 0 /\ fast = 0
NoNames ==
  /\ entry = 0 /\ op = 0 /\ at = 0 /\ child = 0 /\ result = 0 /\ status = 0
  /\ stayed = 0 /\ came = 0 /\ wasDir = 0

Init ==
  \/ part = "lock" /\ Lock!Init /\ NoThreads /\ NoOpen /\ NoNames
  \/ part = "threads" /\ Threads!Init /\ NoLock /\ NoOpen /\ NoNames
  \/ part = "open" /\ Open!Init /\ NoLock /\ NoThreads /\ NoNames
  \/ part = "direct" /\ OpenDirect!Init /\ NoLock /\ NoThreads /\ NoNames
  \/ part = "directory" /\ Directory!Init /\ pc = 0 /\ NoLock /\ NoThreads /\ NoOpen

Next ==
  /\ \/ part = "lock" /\ Lock!Next /\ UNCHANGED <<threadVars, openVars, nameVars>>
     \/ part = "threads" /\ Threads!Next /\ UNCHANGED <<lockVars, openVars, nameVars>>
     \/ part = "open" /\ Open!Next /\ UNCHANGED <<lockVars, threadVars, nameVars>>
     \/ part = "direct" /\ OpenDirect!Next /\ UNCHANGED <<lockVars, threadVars, nameVars>>
     \/ /\ part = "directory" /\ Directory!Next
        /\ UNCHANGED <<pc, lockVars, threadVars, openVars>>
  /\ UNCHANGED part

Spec == Init /\ [][Next]_vars

Symmetry == Permutations(Thread)

-----------------------------------------------------------------------------
(* Properties; the modules say more about each.                            *)



\* What the calls open without direct access is closed again by them or by the
\* destructor of the object they made, and an object's descriptor is open on its file.
\* In every order of the threads' first calls, a file is mapped for writing only where
\* the disk was found to allocate fast enough.
OpensAreSound ==
  /\ part = "open" => Open!NoDescriptorLeaks
  /\ part \in {"open", "direct"} => Open!MmapWhereSupported

=============================================================================
