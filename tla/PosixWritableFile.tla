--------------------------- MODULE PosixWritableFile ---------------------------
(***************************************************************************)
(* PosixWritableFile and PosixDirectIOWritableFile (rutil/io_posix.cc) with *)
(* the preallocation of WritableFile (rocksutil/env.h), as steps for the    *)
(* module of its user.                                                      *)
(*                                                                          *)
(* The file is a sequence of bytes; 0 is a byte of padding or of a hole,    *)
(* and the bytes of the data are numbered from 1 in the order in which they *)
(* are produced.                                                            *)
(***************************************************************************)
EXTENDS Naturals, Sequences, FiniteSets

CONSTANTS
  DirectIO,        \* UseDirectIO() and not UseOSBuffer()
  BlockSize,       \* preallocation_block_size_, 0 for none
  KeepSize,        \* fallocate_with_keep_size_
  PwriteAppends    \* pwrite on a file opened with O_APPEND writes at its end

VARIABLES
  disk,          \* the bytes of the file
  position,      \* the offset of the descriptor
  synced,        \* how many bytes of the file are known to be on the device
  filesize,      \* PosixWritableFile::filesize_
  last_preallocated_block_,
  is_open

fileVars == <<disk, position, synced, filesize, last_preallocated_block_, is_open>>

Zeros(n) == [i \in 1..n |-> 0]

Longer(m, n) == IF m > n THEN m ELSE n

\* The file after data has been written at an offset
WriteAt(bytes, offset, data) ==
  [i \in 1..Longer(Len(bytes), offset + Len(data)) |->
     IF i > offset /\ i <= offset + Len(data) THEN data[i - offset]
     ELSE IF i <= Len(bytes) THEN bytes[i] ELSE 0]

Truncated(bytes, size) == [i \in 1..size |-> IF i <= Len(bytes) THEN bytes[i] ELSE 0]

-----------------------------------------------------------------------------

FileInit ==
  /\ disk = <<>>
  /\ position = 0
  /\ synced = 0
  /\ filesize = 0
  /\ last_preallocated_block_ = 0
  /\ is_open = TRUE

\* WritableFile::PrepareWrite and Allocate, whose status is ignored
PrepareWrite(offset, len) ==
  LET last == IF BlockSize = 0 THEN 0 ELSE (offset + len + BlockSize - 1) \div BlockSize
  IN  IF last > last_preallocated_block_
      THEN /\ last_preallocated_block_' = last
           /\ disk' \in {disk} \cup
                (IF KeepSize THEN {} ELSE {Truncated(disk, Longer(Len(disk), BlockSize * last))})
           /\ UNCHANGED <<position, synced, filesize, is_open>>
      ELSE UNCHANGED fileVars

\* Append: write, over and over until everything is written.
FileAppend(data) ==
  /\ disk' = WriteAt(disk, position, data)
  /\ position' = position + Len(data)
  /\ filesize' = filesize + Len(data)
  /\ UNCHANGED <<synced, last_preallocated_block_, is_open>>

\* A write fails after some of the bytes: filesize_ is as before.
FileAppendFails(data) ==
  \E k \in 0..(Len(data) - 1) :
    /\ disk' = WriteAt(disk, position, SubSeq(data, 1, k))
    /\ position' = position + k
    /\ UNCHANGED <<synced, filesize, last_preallocated_block_, is_open>>

PwriteOffset(offset) == IF PwriteAppends THEN Len(disk) ELSE offset

\* PositionedAppend: offset has moved on to the end of the data when filesize_ is
\* computed from it.
PositionedAppend(data, offset) ==
  /\ disk' = WriteAt(disk, PwriteOffset(offset), data)
  /\ filesize' = (offset + Len(data)) + Len(data)
  /\ UNCHANGED <<position, synced, last_preallocated_block_, is_open>>

PositionedAppendFails(data, offset) ==
  \E k \in 0..(Len(data) - 1) :
    /\ disk' = WriteAt(disk, PwriteOffset(offset), SubSeq(data, 1, k))
    /\ UNCHANGED <<position, synced, filesize, last_preallocated_block_, is_open>>

\* Sync and Fsync
SyncFile ==
  /\ synced' = Len(disk)
  /\ UNCHANGED <<disk, position, filesize, last_preallocated_block_, is_open>>

\* Mutant: preallocated space is not trimmed.
CloseFileUntrimmed ==
  /\ is_open' = FALSE
  /\ UNCHANGED <<disk, position, synced, filesize, last_preallocated_block_>>

\* Truncate does nothing; Close trims the file when space was preallocated.
CloseFile ==
  /\ is_open' = FALSE
  /\ disk' = IF last_preallocated_block_ > 0 THEN Truncated(disk, filesize) ELSE disk
  /\ UNCHANGED <<position, synced, filesize, last_preallocated_block_>>
=============================================================================
