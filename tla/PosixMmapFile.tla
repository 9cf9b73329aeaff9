----------------------------- MODULE PosixMmapFile -----------------------------
(***************************************************************************)
(* PosixMmapFile (rutil/io_posix.cc): a file that is extended and mapped    *)
(* region by region, and trimmed when it is closed.  One step is one system *)
(* call or one memcpy, and any call may fail.                               *)
(*                                                                          *)
(* The bytes that are appended are numbered from 1, and 0 is a byte that    *)
(* nothing was written to.  Pointers are offsets from base_.  fdatasync is  *)
(* taken to reach what is not mapped any more, and msync its pages.         *)
(***************************************************************************)
EXTENDS Naturals, Sequences

CONSTANTS
  page_size_,
  FirstMapSize, MaxMapSize,    \* map_size_ at first, and its cap
  allow_fallocate_,
  Failing,                     \* the calls that may fail
  MaxBytes                     \* bound on the bytes that are appended

VARIABLES
  content,       \* the file
  durable,       \* the places of the file that were synced, from 1
  mapped,        \* base_ is not null
  file_offset_, limit_, dst_, last_sync_, map_size_,
  pc,            \* "idle", "append", "map", "closed" or "bus" (the process got SIGBUS)
  left,          \* bytes that the Append has yet to copy
  given,         \* bytes that were copied
  outcome        \* how the last call ended: "none", or its name if it succeeded, or "error"

vars == <<content, durable, mapped, file_offset_, limit_, dst_, last_sync_, map_size_, pc, left,
          given, outcome>>

regionVars == <<mapped, file_offset_, limit_, dst_, last_sync_, map_size_>>

Init ==
  /\ content = <<>> /\ durable = {}
  /\ mapped = FALSE
  /\ file_offset_ = 0 /\ limit_ = 0 /\ dst_ = 0 /\ last_sync_ = 0
  /\ map_size_ = FirstMapSize
  /\ pc = "idle" /\ left = 0 /\ given = 0
  /\ outcome = "none"

\* Does the call succeed or fail?
Outcomes(call) == {TRUE} \cup (IF call \in Failing THEN {FALSE} ELSE {})

Least(a, b) == IF a <= b THEN a ELSE b

Roundup(x, y) == ((x + y - 1) \div y) * y

TruncateToPageBoundary(s) == s - (s % page_size_)

\* The file when it has at least the given size, as fallocate makes it
Extended(file, size) ==
  [i \in 1..(IF Len(file) < size THEN size ELSE Len(file)) |->
     IF i <= Len(file) THEN file[i] ELSE 0]

Truncated(file, size) == [i \in 1..size |-> Extended(file, size)[i]]

-----------------------------------------------------------------------------
(* Append.                                                                 *)

Returns(how) == pc' = "idle" /\ left' = 0 /\ outcome' = how

AppendData(n) ==
  /\ pc = "idle"
  /\ given + n <= MaxBytes
  /\ pc' = "append" /\ left' = n
  /\ UNCHANGED <<content, durable, regionVars, given, outcome>>

\* Mutant: the offset goes up to what was written.
NextOffsetWritten == file_offset_ + (dst_ - 1)

NextOffset == file_offset_ + limit_

\* What UnmapCurrentRegion does when munmap succeeds
Unmapped ==
  IF mapped
  THEN /\ file_offset_' = NextOffset
       /\ mapped' = FALSE
       /\ limit_' = 0 /\ dst_' = 0 /\ last_sync_' = 0
       /\ map_size_' = IF map_size_ < MaxMapSize THEN map_size_ * 2 ELSE map_size_
  ELSE UNCHANGED regionVars

\* The region is full.
UnmapCurrentRegion ==
  /\ pc = "append" /\ left > 0
  /\ dst_ = limit_
  /\ \E ok \in (IF mapped THEN Outcomes("munmap") ELSE {TRUE}) :
       IF ok
       THEN Unmapped /\ pc' = "map" /\ UNCHANGED <<left, outcome>>
       ELSE Returns("error") /\ UNCHANGED regionVars
  /\ UNCHANGED <<content, durable, given>>

\* fallocate, then mmap
MapNewRegion ==
  /\ pc = "map"
  /\ \E allocated \in (IF allow_fallocate_ THEN Outcomes("fallocate") ELSE {TRUE}) :
       IF allocated
       THEN /\ content' = IF allow_fallocate_ THEN Extended(content, file_offset_ + map_size_)
                                              ELSE content
            /\ \E ok \in Outcomes("mmap") :
                 IF ok
                 THEN /\ mapped' = TRUE
                      /\ limit_' = map_size_ /\ dst_' = 0 /\ last_sync_' = 0
                      /\ pc' = "append"
                      /\ UNCHANGED <<file_offset_, map_size_, left, outcome>>
                 ELSE Returns("error") /\ UNCHANGED regionVars
       ELSE Returns("error") /\ UNCHANGED <<content, regionVars>>
  /\ UNCHANGED <<durable, given>>

\* memcpy: a page that is wholly beyond the end of the file cannot be written.
Copy ==
  /\ pc = "append" /\ left > 0
  /\ dst_ < limit_
  /\ LET n  == Least(left, limit_ - dst_)
         at == file_offset_ + dst_
     IN  IF at + n > Roundup(Len(content), page_size_)
         THEN pc' = "bus" /\ UNCHANGED <<content, durable, dst_, left, given>>
         ELSE /\ content' = [i \in DOMAIN content |->
                               IF i \in (at + 1)..(at + n) THEN given + (i - at) ELSE content[i]]
              /\ durable' = durable \ ((at + 1)..(at + n))
              /\ dst_' = dst_ + n
              /\ left' = left - n
              /\ given' = given + n
              /\ UNCHANGED pc
  /\ UNCHANGED <<mapped, file_offset_, limit_, last_sync_, map_size_, outcome>>

AppendReturns ==
  /\ pc = "append" /\ left = 0
  /\ Returns("Append")
  /\ UNCHANGED <<content, durable, regionVars, given>>

-----------------------------------------------------------------------------
(* Sync and Close.                                                         *)

\* The page of the last byte to sync
LastPage == TruncateToPageBoundary(dst_ - 1)

\* The places msync writes
MsyncRange ==
  (file_offset_ + TruncateToPageBoundary(last_sync_) + 1)..(file_offset_ + LastPage + page_size_)

\* What fdatasync and fsync make durable
Datasynced == durable \cup 1..Least(Len(content), file_offset_)

Msync ==
  \/ /\ dst_ = last_sync_
     /\ durable' = Datasynced
     /\ outcome' = "Sync"
     /\ UNCHANGED last_sync_
  \/ /\ dst_ # last_sync_
     /\ last_sync_' = dst_
     /\ \E ok \in Outcomes("msync") :
          /\ durable' = Datasynced \cup (IF ok THEN MsyncRange ELSE {})
          /\ outcome' = IF ok THEN "Sync" ELSE "error"

\* Sync and Fsync
Sync ==
  /\ pc = "idle"
  /\ \E synced \in Outcomes("fdatasync") :
       IF synced THEN Msync ELSE outcome' = "error" /\ UNCHANGED <<durable, last_sync_>>
  /\ UNCHANGED <<content, mapped, file_offset_, limit_, dst_, map_size_, pc, left, given>>

Trimmed(unused) == Truncated(content, file_offset_ + limit_ - unused)

\* Close: the rest of the region is trimmed if the region could be unmapped.
Close ==
  /\ pc = "idle"
  /\ pc' = "closed"
  /\ LET unused == limit_ - dst_
     IN  \E unmapped \in (IF mapped THEN Outcomes("munmap") ELSE {TRUE}),
            trimmed \in Outcomes("ftruncate"), closed \in Outcomes("close") :
           LET trims == unmapped /\ unused > 0
           IN  /\ IF unmapped THEN Unmapped
                              ELSE mapped' = FALSE /\ limit_' = 0 /\
                                   UNCHANGED <<file_offset_, dst_, last_sync_, map_size_>>
               /\ content' = IF trims /\ trimmed THEN Trimmed(unused) ELSE content
               /\ outcome' = IF unmapped /\ (trims => trimmed) /\ closed THEN "Close" ELSE "error"
  /\ UNCHANGED <<durable, left, given>>

-----------------------------------------------------------------------------

Next ==
  \/ \E n \in 0..MaxBytes : AppendData(n)
  \/ UnmapCurrentRegion \/ MapNewRegion \/ Copy \/ AppendReturns
  \/ Sync \/ Close

Spec == Init /\ [][Next]_vars

-----------------------------------------------------------------------------
(* Properties.                                                             *)

\* The size of the valid data that GetFileSize computes from the region is the number
\* of bytes that were copied, whichever calls have failed on the way.
FileSizeIsGiven == pc \in {"idle", "append", "map"} => file_offset_ + dst_ = given

\* The file begins with the bytes that were appended, in order and without a gap.
DataInOrder ==
  pc # "bus" => \A i \in 1..given : i <= Len(content) /\ content[i] = i

\* A file that was closed with success is the data and nothing else ("Means Close()
\* will properly take care of truncate", io_posix.h:208).
ClosedIsTrimmed == outcome = "Close" => Len(content) = given

\* After a Sync that succeeded all the data is durable ("sync data", env.h:514).
SyncIsDurable == outcome = "Sync" /\ pc = "idle" => 1..given \subseteq durable

\* last_sync_ is "Where have we synced up to" (io_posix.h:183).
LastSyncIsSynced ==
  mapped => (file_offset_ + 1)..(file_offset_ + last_sync_) \subseteq durable

\* A region that was mapped can be written, with or without fallocate ("If false,
\* fallocate calls are bypassed", io_posix.h:186).
NoBusError == pc # "bus"
=============================================================================
