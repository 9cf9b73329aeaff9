----------------------------- MODULE MCPosixFiles -----------------------------
(***************************************************************************)
(* The readers and the mapped writer of rutil/io_posix.cc and the readahead *)
(* file, one of them per behaviour, each with the values of its constants:  *)
(* sectors and pages of two bytes, files of up to six bytes (ten for the    *)
(* mapped file, which takes three regions).                                 *)
(***************************************************************************)
EXTENDS Naturals, Sequences

CONSTANT Garbage

VARIABLES
  file,                                                    \* the one in use
  size, pc, result, status, errno, interrupts, n,          \* of several of them
  req, bytes_read, eof, failed,                            \* of PosixReads
  kind, position, ferror, next,                            \* of SequentialFile
  own, buffer_, buffer_offset_, buffer_len_, offset, ok,   \* of ReadaheadFile
  content, durable, mapped, file_offset_, limit_, dst_,    \* of PosixMmapFile
  last_sync_, map_size_, left, given, outcome

readVars == <<req, bytes_read, eof, failed>>
sequentialVars == <<kind, position, ferror, next>>
aheadVars == <<own, buffer_, buffer_offset_, buffer_len_, offset, ok>>
mmapVars == <<content, durable, mapped, file_offset_, limit_, dst_, last_sync_, map_size_,
              left, given, outcome>>
vars == <<file, size, pc, result, status, errno, interrupts, n, readVars, sequentialVars,
          aheadVars, mmapVars>>

-----------------------------------------------------------------------------
(* The files.                                                              *)

Buffered(kinds, lengths) == [kind: kinds, offset: 0..6, n: lengths, aligned: {FALSE}]

\* Direct reads of whole sectors, and others that end within the file
Direct ==
  [kind: {"direct"}, offset: {0, 2, 4, 6}, n: {2, 4}, aligned: {TRUE}] \cup
  {q \in [kind: {"direct"}, offset: 0..2, n: 1..3, aligned: BOOLEAN] : q.offset + q.n <= 3}

Requests == Buffered({"random"}, {1, 3}) \cup Buffered({"rw"}, {0, 1, 3}) \cup Direct

Reads == INSTANCE PosixReads WITH
  kSectorSize <- 2, InitSize <- 3..6, Request <- Requests, MaxSize <- 6, MaxInterrupts <- 2

Sequential == INSTANCE SequentialFile WITH
  Kind <- {"stdio", "direct"}, MaySkip <- TRUE, MaxSize <- 5, MaxRead <- 3,
  MaxInterrupts <- 2

Ahead == INSTANCE ReadaheadFile WITH
  readahead_size_ <- 3, Memory <- BOOLEAN, MayFail <- FALSE, MaxSize <- 6, MaxLength <- 4

AheadFails == INSTANCE ReadaheadFile WITH
  readahead_size_ <- 3, Memory <- BOOLEAN, MayFail <- TRUE, MaxSize <- 4, MaxLength <- 3

Mmap == INSTANCE PosixMmapFile WITH
  page_size_ <- 2, FirstMapSize <- 2, MaxMapSize <- 4, allow_fallocate_ <- TRUE,
  Failing <- {}, MaxBytes <- 10

MmapFails == INSTANCE PosixMmapFile WITH
  page_size_ <- 2, FirstMapSize <- 2, MaxMapSize <- 4, allow_fallocate_ <- TRUE,
  Failing <- {"munmap", "fallocate", "mmap", "fdatasync", "msync", "ftruncate", "close"},
  MaxBytes <- 10

-----------------------------------------------------------------------------

NoReads == req = 0 /\ bytes_read = 0 /\ eof = 0 /\ failed = 0
NoSequential == kind = 0 /\ position = 0 /\ ferror = 0 /\ next = 0
NoAhead ==
  own = 0 /\ buffer_ = 0 /\ buffer_offset_ = 0 /\ buffer_len_ = 0 /\ offset = 0 /\ ok = 0
NoMmap ==
  /\ content = 0 /\ durable = 0 /\ mapped = 0 /\ file_offset_ = 0 /\ limit_ = 0 /\ dst_ = 0
  /\ last_sync_ = 0 /\ map_size_ = 0 /\ left = 0 /\ given = 0 /\ outcome = 0
NoCall == status = 0 /\ errno = 0 /\ interrupts = 0

Init ==
  \/ file = "reads" /\ Reads!Init /\ n = 0 /\ NoSequential /\ NoAhead /\ NoMmap
  \/ file = "sequential" /\ Sequential!Init /\ NoReads /\ NoAhead /\ NoMmap
  \/ /\ \/ file = "ahead" /\ Ahead!Init
        \/ file = "ahead_fails" /\ AheadFails!Init
     /\ pc = "idle" /\ NoCall /\ NoReads /\ NoSequential /\ NoMmap
  \/ /\ \/ file = "mmap" /\ Mmap!Init
        \/ file = "mmap_fails" /\ MmapFails!Init
     /\ size = 0 /\ result = 0 /\ n = 0 /\ NoCall /\ NoReads /\ NoSequential /\ NoAhead

Next ==
  /\ \/ /\ file = "reads" /\ Reads!Next
        /\ UNCHANGED <<n, sequentialVars, aheadVars, mmapVars>>
     \/ /\ file = "sequential" /\ Sequential!Next
        /\ UNCHANGED <<readVars, aheadVars, mmapVars>>
     \/ /\ \/ file = "ahead" /\ Ahead!Next
           \/ file = "ahead_fails" /\ AheadFails!Next
        /\ UNCHANGED <<pc, status, errno, interrupts, readVars, sequentialVars, mmapVars>>
     \/ /\ \/ file = "mmap" /\ Mmap!Next
           \/ file = "mmap_fails" /\ MmapFails!Next
        /\ UNCHANGED <<size, result, status, errno, interrupts, n, readVars, sequentialVars,
                       aheadVars>>
  /\ UNCHANGED file

\* The thread that reads goes on; no failure of pread is ever due.
ReadStep ==
  /\ file = "reads"
  /\ Reads!PreadSome \/ Reads!PreadEnd \/ Reads!ReadNothing
  /\ UNCHANGED <<file, n, sequentialVars, aheadVars, mmapVars>>

FairSpec == Init /\ [][Next]_vars /\ WF_vars(ReadStep)

-----------------------------------------------------------------------------
(* Properties; the modules say more about each.                            *)

\* The loops around pread: the bytes are those of the request, a short result means
\* the end of the file, and an error that pread failed.
PreadLoopsAreRight ==
  file = "reads" => Reads!ResultIsData /\ Reads!ShortIsEnd /\ Reads!ErrorIsReal

\* A Read of the random read-write file returns: it looks at errno only after a
\* failure (io_posix.cc:913-918).
ReadReturns ==
  (file = "reads" /\ pc = "reading" /\ req.kind = "rw") ~> pc = "idle"

\* A reader that follows a growing file gets the next bytes from each Read, all of them
\* up to the end if it succeeds; it passes over none and takes the end for no error.
ResultIsNext ==
  [][file = "sequential" =>
       /\ Sequential!NothingPassedOver' /\ Sequential!EndIsNoError'
       /\ (pc = "reading" /\ pc' = "idle") =>
            /\ \A i \in DOMAIN result' : result'[i] = next + i - 1
            /\ status' = "ok" => Len(result') = n \/ position' >= size]_vars

\* A successful Read returns all the file has of the request, though the buffer was
\* filled when the file was shorter, and though an earlier read failed; if none failed,
\* the buffer is never taken for another part of the file.
ReadIsComplete ==
  [][/\ (file \in {"ahead", "ahead_fails"} /\ ok' /\ size' = size) =>
          Len(result') = Len(Ahead!FileRead(offset', n'))
     /\ file = "ahead" => Ahead!ReadIsData']_<<size, aheadVars, n, result>>


\* Whatever calls fail, the mapped file has the data in order and knows its size; if
\* none fails, Close leaves the data and nothing else, and Sync makes it durable.
MmapFileIsData ==
  /\ file \in {"mmap", "mmap_fails"} => Mmap!FileSizeIsGiven /\ Mmap!DataInOrder
  /\ file = "mmap" => Mmap!ClosedIsTrimmed /\ Mmap!SyncIsDurable
=============================================================================
