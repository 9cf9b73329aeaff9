----------------------------- MODULE ReadaheadFile -----------------------------
(***************************************************************************)
(* ReadaheadRandomAccessFile (rutil/file_reader_writer.cc): a cache of the  *)
(* last range that was read, in front of a RandomAccessFile that another    *)
(* thread appends to.  A Read holds lock_ from the look at the buffer to    *)
(* its end, and is one step.                                                *)
(*                                                                          *)
(* Byte i of the file is the number i.  The file's own Read gives all there *)
(* is of the range, as PosixReads shows, or fails with a part of the buffer *)
(* filled; a mapped file returns a pointer to its own memory instead.       *)
(* ShouldForwardRawRequest is false for every posix file.                   *)
(***************************************************************************)
EXTENDS Naturals, Sequences

CONSTANTS
  readahead_size_,
  Memory,          \* may the file return its own memory?  a set of BOOLEANs
  MayFail,         \* may the file's Read fail?
  MaxSize,         \* bound on the size of the file
  MaxLength        \* bound on the length of a request

VARIABLES
  size,
  own,             \* the file returns its own memory
  buffer_, buffer_offset_, buffer_len_,
  offset, n,       \* the last request
  result, ok       \* and what it returned

vars == <<size, own, buffer_, buffer_offset_, buffer_len_, offset, n, result, ok>>

bufferVars == <<buffer_, buffer_offset_, buffer_len_>>

Least(a, b) == IF a <= b THEN a ELSE b

\* The bytes of the file from off on, at most len
FileRead(off, len) ==
  [i \in 1..(IF off >= size THEN 0 ELSE Least(len, size - off)) |-> off + i - 1]

Init ==
  /\ size \in 0..MaxSize
  /\ own \in Memory
  /\ buffer_ = [i \in 1..readahead_size_ |-> MaxSize]    \* not a byte of the file
  /\ buffer_offset_ = 0 /\ buffer_len_ = 0
  /\ offset = 0 /\ n = 0
  /\ result = <<>> /\ ok = TRUE

Grow ==
  /\ size < MaxSize
  /\ size' = size + 1
  /\ UNCHANGED <<own, bufferVars, offset, n, result, ok>>

InBuffer(off) == off >= buffer_offset_ /\ off < buffer_len_ + buffer_offset_

\* The beginning of the request, as far as the buffer has it
Cached(off, len) ==
  IF InBuffer(off)
  THEN LET from == off - buffer_offset_
       IN  SubSeq(buffer_, from + 1, from + Least(buffer_len_ - from, len))
  ELSE <<>>

\* bytes over the first part of the buffer
Overwritten(bytes) ==
  [i \in DOMAIN buffer_ |-> IF i <= Len(bytes) THEN bytes[i] ELSE buffer_[i]]

\* A large request goes to the file.
ReadThrough(off, len) ==
  /\ len >= readahead_size_
  /\ result' = FileRead(off, len)
  /\ ok' \in {TRUE} \cup {~MayFail}
  /\ UNCHANGED bufferVars

\* All of it is in the buffer.
ReadCached(off, len) ==
  /\ len < readahead_size_
  /\ InBuffer(off) /\ Len(Cached(off, len)) = len
  /\ result' = Cached(off, len)
  /\ ok' = TRUE
  /\ UNCHANGED bufferVars

\* The buffer must be filled.
Misses(off, len) ==
  /\ len < readahead_size_
  /\ InBuffer(off) => Len(Cached(off, len)) < len

\* Mutant: the buffer is said to start where the request does.
NewBufferOffsetRequest(off, copied) == off

NewBufferOffset(off, copied) == off + copied

\* Mutant: the buffer is said to be full.
NewBufferLenFull(read) == readahead_size_

NewBufferLen(read) == Len(read)

ReadFill(off, len) ==
  /\ Misses(off, len)
  /\ LET cached == Cached(off, len)
         copied == Len(cached)
         read   == FileRead(off + copied, readahead_size_)
     IN  /\ result' = cached \o SubSeq(read, 1, Least(Len(read), len - copied))
         /\ IF own
            THEN buffer_len_' = 0 /\ UNCHANGED <<buffer_, buffer_offset_>>
            ELSE /\ buffer_' = Overwritten(read)
                 /\ buffer_offset_' = NewBufferOffset(off, copied)
                 /\ buffer_len_' = NewBufferLen(read)
  /\ ok' = TRUE

\* The file's Read fails after it has filled a part of the buffer.
ReadFails(off, len) ==
  /\ MayFail
  /\ Misses(off, len)
  /\ LET read == FileRead(off + Len(Cached(off, len)), readahead_size_)
     IN  \E k \in 0..(IF own THEN 0 ELSE Len(read)) : buffer_' = Overwritten(SubSeq(read, 1, k))
  /\ ok' = FALSE
  /\ UNCHANGED <<buffer_offset_, buffer_len_, result>>

Read(off, len) ==
  /\ offset' = off /\ n' = len
  /\ UNCHANGED <<size, own>>
  /\ \/ ReadThrough(off, len) \/ ReadCached(off, len)
     \/ ReadFill(off, len) \/ ReadFails(off, len)

Next ==
  \/ Grow
  \/ \E off \in 0..MaxSize, len \in 0..MaxLength : Read(off, len)

Spec == Init /\ [][Next]_vars

-----------------------------------------------------------------------------
(* Properties.                                                             *)

\* A Read that succeeds returns the file's bytes at its offset, from the buffer, from
\* the file or from both ("to the data that was read", env.h:396-397).
ReadIsData == ok => \A i \in DOMAIN result : result[i] = offset + i - 1
=============================================================================
