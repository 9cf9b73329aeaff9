-------------------------- MODULE WritableFileWriter --------------------------
(***************************************************************************)
(* WritableFileWriter (rutil/file_reader_writer.cc): appends collected in   *)
(* an aligned buffer and written to a file, through the cache of the        *)
(* operating system or past it (direct I/O), where whole pages are written  *)
(* at aligned offsets and an incomplete page is written again later.        *)
(*                                                                          *)
(* One step is what the writer does up to and including a call of the file, *)
(* so that SyncWithoutFlush, which another thread may call, comes between.  *)
(***************************************************************************)
EXTENDS PosixWritableFile

CONSTANTS
  Alignment,           \* GetRequiredBufferAlignment()
  FirstCapacity,       \* capacity of the first buffer, 65536
  max_buffer_size_,
  bytes_per_sync_,
  NotSyncRange,        \* kBytesNotSyncRange
  AlignWhenSync,       \* kBytesAlignWhenSync
  Sizes,               \* sizes of appended data
  MaxBytes,            \* bound on the bytes that are appended in all
  MaxFailures          \* bound on the calls of the file that fail

VARIABLES
  buf_,              \* the bytes in the buffer
  capacity_,         \* its capacity
  filesize_,
  next_write_offset_,
  pending_sync_,
  last_sync_size_,
  pc,                \* where the writer's thread is
  ret,               \* where it goes on after Flush
  left,              \* the bytes that Append has not put anywhere yet
  size,              \* the size of the data of Append
  offered,           \* bytes that were given to Append
  done,              \* the call that has just returned OK, or "none"
  failures           \* how many calls of the file have failed

writerVars ==
  <<buf_, capacity_, filesize_, next_write_offset_, pending_sync_, last_sync_size_, pc, ret,
    left, size, offered, done, failures>>

vars == <<fileVars, writerVars>>

Roundup(x, y) == ((x + y - 1) \div y) * y

Smaller(m, n) == IF m < n THEN m ELSE n

Room == capacity_ - Len(buf_)

Init ==
  /\ FileInit
  /\ buf_ = <<>>
  /\ capacity_ = Roundup(FirstCapacity, Alignment)
  /\ filesize_ = 0
  /\ next_write_offset_ = 0
  /\ pending_sync_ = FALSE
  /\ last_sync_size_ = 0
  /\ pc = "idle"
  /\ ret = "idle"
  /\ left = <<>>
  /\ size = 0
  /\ offered = 0
  /\ done = "none"
  /\ failures = 0

\* A call returns OK, or fails.
ReturnsOk(call) == pc' = "idle" /\ done' = call /\ UNCHANGED failures

Failure == failures < MaxFailures /\ failures' = failures + 1

Fails == pc' = "idle" /\ done' = "none" /\ Failure

Goes(to) == pc' = to /\ UNCHANGED <<done, failures>>

-----------------------------------------------------------------------------
(* Flush.                                                                  *)

\* offset_sync_to
SyncTo ==
  IF filesize_ > NotSyncRange
  THEN (filesize_ - NotSyncRange) - ((filesize_ - NotSyncRange) % AlignWhenSync)
  ELSE 0

RangeSyncs ==
  /\ ~DirectIO
  /\ bytes_per_sync_ > 0
  /\ SyncTo > 0
  /\ SyncTo - last_sync_size_ >= bytes_per_sync_

\* WriteUnbuffered: the whole pages that the buffer fills, and the rest.
file_advance == Len(buf_) - (Len(buf_) % Alignment)

Padded == buf_ \o Zeros(Roundup(Len(buf_), Alignment) - Len(buf_))

RefitTail == SubSeq(buf_, file_advance + 1, Len(buf_))

\* WriteBuffered or WriteUnbuffered succeeds.
Write ==
  IF buf_ = <<>>
  THEN UNCHANGED <<fileVars, buf_, next_write_offset_>>
  ELSE IF ~DirectIO
       THEN FileAppend(buf_) /\ buf_' = <<>> /\ UNCHANGED next_write_offset_
       ELSE /\ PositionedAppend(Padded, next_write_offset_)
            /\ buf_' = RefitTail
            /\ next_write_offset_' = next_write_offset_ + file_advance

WriteFails ==
  /\ buf_ # <<>>
  /\ IF ~DirectIO THEN FileAppendFails(buf_) ELSE PositionedAppendFails(Padded, next_write_offset_)
  /\ UNCHANGED <<buf_, next_write_offset_, last_sync_size_>>

\* Flush succeeds, with its RangeSync; the caller goes on.
FlushOk ==
  /\ pc = "flush"
  /\ Write
  /\ last_sync_size_' = IF RangeSyncs THEN SyncTo ELSE last_sync_size_
  /\ IF ret = "idle" THEN ReturnsOk("Flush") ELSE Goes(ret)
  /\ UNCHANGED <<capacity_, filesize_, pending_sync_, ret, left, size, offered>>

\* The write fails, or everything is written and RangeSync fails.  Close goes on.
FlushFails ==
  /\ pc = "flush"
  /\ \/ WriteFails
     \/ Write /\ RangeSyncs /\ last_sync_size_' = SyncTo
  /\ Failure
  /\ done' = "none"
  /\ pc' = IF ret = "close" THEN "close" ELSE "idle"
  /\ left' = <<>>
  /\ UNCHANGED <<capacity_, filesize_, pending_sync_, ret, size, offered>>

-----------------------------------------------------------------------------
(* Append.                                                                 *)

\* Append begins; PrepareWrite may preallocate space.
AppendData(n) ==
  /\ pc = "idle" /\ is_open
  /\ offered + n <= MaxBytes
  /\ pending_sync_' = TRUE
  /\ PrepareWrite(filesize_, n)
  /\ left' = [i \in 1..n |-> offered + i]
  /\ size' = n
  /\ offered' = offered + n
  /\ pc' = "append" /\ done' = "none"
  /\ UNCHANGED <<buf_, capacity_, filesize_, next_write_offset_, last_sync_size_, ret, failures>>

TooLarge == ~DirectIO /\ Room < Len(left)

\* The data does not fit behind what is in the buffer: Flush first.
AppendFlushes ==
  /\ pc = "append" /\ TooLarge /\ buf_ # <<>>
  /\ ret' = "grow"
  /\ Goes("flush")
  /\ UNCHANGED <<fileVars, buf_, capacity_, filesize_, next_write_offset_, pending_sync_,
                 last_sync_size_, left, size, offered>>

\* AllocateNewBuffer: what is in the buffer is lost.
Grow ==
  IF capacity_ < max_buffer_size_
  THEN /\ capacity_' = Roundup(Smaller(capacity_ * 2, max_buffer_size_), Alignment)
       /\ buf_' = <<>>
  ELSE UNCHANGED <<capacity_, buf_>>

\* Mutant: the buffer grows before it is flushed.
MayGrowEarly == pc = "append" /\ TooLarge

\* The buffer is empty, or has just been flushed.
MayGrow == \/ pc = "append" /\ TooLarge /\ buf_ = <<>>
           \/ pc \in {"grow", "double"}

AppendGrows ==
  /\ MayGrow
  /\ Grow
  /\ Goes("fill")
  /\ UNCHANGED <<fileVars, filesize_, next_write_offset_, pending_sync_, last_sync_size_, ret,
                 left, size, offered>>

Fills == \/ pc = "append" /\ ~TooLarge
         \/ pc = "fill"

\* Data that the buffer has room for, or as much of it as it has room for
AppendFills ==
  LET n == Smaller(Len(left), Room)
  IN  /\ Fills
      /\ DirectIO \/ capacity_ >= Len(left)
      /\ buf_' = buf_ \o SubSeq(left, 1, n)
      /\ left' = SubSeq(left, n + 1, Len(left))
      /\ IF n < Len(left)
         THEN Goes("flush") /\ ret' = "double" /\ UNCHANGED filesize_
         ELSE ReturnsOk("Append") /\ filesize_' = filesize_ + size /\ UNCHANGED ret
      /\ UNCHANGED <<fileVars, capacity_, next_write_offset_, pending_sync_, last_sync_size_,
                     size, offered>>

\* Data larger than the buffer goes to the file at once.
AppendBypasses ==
  /\ Fills
  /\ ~DirectIO /\ capacity_ < Len(left)
  /\ \/ /\ FileAppend(left)
        /\ buf_' = <<>>
        /\ filesize_' = filesize_ + size
        /\ ReturnsOk("Append")
     \/ FileAppendFails(left) /\ Fails /\ UNCHANGED <<buf_, filesize_>>
  /\ left' = <<>>
  /\ UNCHANGED <<capacity_, next_write_offset_, pending_sync_, last_sync_size_, ret, size, offered>>

-----------------------------------------------------------------------------
(* Flush, Sync, SyncWithoutFlush and Close as calls of the client.         *)

CallFlush(to) ==
  /\ pc = "idle" /\ is_open
  /\ pc' = "flush" /\ ret' = to
  /\ done' = "none"
  /\ UNCHANGED <<fileVars, buf_, capacity_, filesize_, next_write_offset_, pending_sync_,
                 last_sync_size_, left, size, offered, failures>>

Flush == CallFlush("idle")

Sync == CallFlush("sync")

Close == CallFlush("close")

\* Mutant: the mark is taken away although the file was not synced.
SyncReturnsUnmarked ==
  /\ pc = "sync"
  /\ pending_sync_' = FALSE
  /\ IF ~DirectIO /\ pending_sync_
     THEN (SyncFile /\ ReturnsOk("Sync")) \/ (UNCHANGED fileVars /\ Fails)
     ELSE UNCHANGED fileVars /\ ReturnsOk("Sync")
  /\ UNCHANGED <<buf_, capacity_, filesize_, next_write_offset_, last_sync_size_, ret, left,
                 size, offered>>

\* After its Flush Sync calls SyncInternal, when there is something to sync.
SyncReturns ==
  /\ pc = "sync"
  /\ \/ /\ IF ~DirectIO /\ pending_sync_ THEN SyncFile ELSE UNCHANGED fileVars
        /\ pending_sync_' = FALSE
        /\ ReturnsOk("Sync")
     \/ /\ ~DirectIO /\ pending_sync_
        /\ Fails
        /\ UNCHANGED <<fileVars, pending_sync_>>
  /\ UNCHANGED <<buf_, capacity_, filesize_, next_write_offset_, last_sync_size_, ret, left,
                 size, offered>>

\* After its Flush, and whatever came of it, Close closes the file.
CloseReturns ==
  /\ pc = "close"
  /\ CloseFile
  /\ ReturnsOk("Close")
  /\ UNCHANGED <<buf_, capacity_, filesize_, next_write_offset_, pending_sync_, last_sync_size_,
                 ret, left, size, offered>>

\* Another thread, during Append and Flush
SyncWithoutFlush ==
  /\ is_open /\ pc # "close" /\ ~(pc = "flush" /\ ret = "close")
  /\ SyncFile
  /\ UNCHANGED writerVars

Next ==
  \/ \E n \in Sizes : AppendData(n)
  \/ AppendFlushes \/ AppendGrows \/ AppendFills \/ AppendBypasses
  \/ FlushOk \/ FlushFails
  \/ Flush \/ Sync \/ Close
  \/ SyncReturns \/ CloseReturns
  \/ SyncWithoutFlush

Spec == Init /\ [][Next]_vars

-----------------------------------------------------------------------------
(* Properties.                                                             *)

Numbered(n) == [i \in 1..n |-> i]

\* How much of the file the writer is not going to write again
Settled == IF DirectIO THEN next_write_offset_ ELSE position

\* As long as no call of the file fails, the settled part of the file, the buffer
\* and what Append still has in hand are the bytes appended, each once and in
\* order, through growing buffers, pages written twice and direct writes.
NothingLost ==
  failures = 0 => SubSeq(disk, 1, Settled) \o buf_ \o left = Numbered(offered)

\* When Flush, Sync or Close has returned OK, everything appended is in the file.
FlushIsComplete ==
  done \in {"Flush", "Sync", "Close"} /\ failures = 0 =>
    Truncated(disk, filesize_) = Numbered(offered)

\* When Sync has returned OK, the device has everything that was given to the
\* file, even after failures of earlier calls (lines 183-196).
SyncIsDurable ==
  done = "Sync" /\ ~DirectIO => buf_ = <<>> /\ synced >= position

\* What RangeSync was told to write is behind the range that is left out, in the
\* file, and only ever moves on (lines 165-178).
RangeSyncTrails ==
  /\ last_sync_size_ > 0 => last_sync_size_ + NotSyncRange <= filesize_
  /\ last_sync_size_ <= position
  /\ pc = "flush" /\ filesize_ > NotSyncRange => SyncTo >= last_sync_size_

\* A file that was closed without a failure is what was appended and nothing else
\* ("Close() will properly take care of truncate", io_posix.h:123).
ClosedFileIsData ==
  done = "Close" /\ failures = 0 => disk = Numbered(offered)

\* The file's own idea of its size is the size of what is in it ("Get the size of
\* valid data in the file", env.h:547).
FileSizeIsValid == failures = 0 => filesize <= Len(disk)
=============================================================================
