------------------------- MODULE MCWritableFileWriter -------------------------
(***************************************************************************)
(* A writer on a buffered, preallocated file, one on a file for direct I/O,  *)
(* where pwrite honours its offset, and strings that threads write and read  *)
(* as whole files.                                                           *)
(***************************************************************************)
EXTENDS Naturals, Sequences

CONSTANTS
  FirstCapacity, max_buffer_size_, bytes_per_sync_, NotSyncRange, AlignWhenSync,
  Sizes, MaxBytes, MaxFailures, Thread, File, None

VARIABLES
  mode,
  disk, position, synced, filesize, last_preallocated_block_, is_open,
  buf_, capacity_, filesize_, next_write_offset_, pending_sync_, last_sync_size_, pc, ret,
  left, size, offered, done, failures,
  name, content, op, at, file, pos, data, status, alone    \* of StringFile

Buffered == INSTANCE WritableFileWriter WITH
  DirectIO <- FALSE, Alignment <- 1, BlockSize <- 3, KeepSize <- FALSE, PwriteAppends <- FALSE

Direct == INSTANCE WritableFileWriter WITH
  DirectIO <- TRUE, Alignment <- 2, BlockSize <- 0, KeepSize <- FALSE, PwriteAppends <- FALSE

\* A string that fills a buffer of the reader and a part of the next one
Strings == INSTANCE StringFile WITH
  Data <- {<<1, 1, 1>>}, kBufferSize <- 2, MapSize <- 2, MayFailClose <- FALSE

writerVars == <<disk, position, synced, filesize, last_preallocated_block_, is_open, buf_, capacity_,
                filesize_, next_write_offset_, pending_sync_, last_sync_size_, pc, ret, left, size,
                offered, done, failures>>
stringVars == <<name, content, op, at, file, pos, data, status, alone>>
vars == <<mode, writerVars, stringVars>>

NoWriter ==
  /\ disk = 0 /\ position = 0 /\ synced = 0 /\ filesize = 0 /\ last_preallocated_block_ = 0
  /\ is_open = 0 /\ buf_ = 0 /\ capacity_ = 0 /\ filesize_ = 0 /\ next_write_offset_ = 0
  /\ pending_sync_ = 0 /\ last_sync_size_ = 0 /\ pc = 0 /\ ret = 0 /\ left = 0 /\ size = 0
  /\ offered = 0 /\ done = 0 /\ failures = 0
NoStrings ==
  /\ name = 0 /\ content = 0 /\ op = 0 /\ at = 0 /\ file = 0 /\ pos = 0 /\ data = 0
  /\ status = 0 /\ alone = 0

Init ==
  \/ mode = "buffered" /\ Buffered!Init /\ NoStrings
  \/ mode = "direct" /\ Direct!Init /\ NoStrings
  \/ mode = "strings" /\ Strings!Init /\ NoWriter

Next ==
  /\ \/ mode = "buffered" /\ Buffered!Next /\ UNCHANGED stringVars
     \/ mode = "direct" /\ Direct!Next /\ UNCHANGED stringVars
     \/ mode = "strings" /\ Strings!Next /\ UNCHANGED writerVars
  /\ UNCHANGED mode

Spec == Init /\ [][Next]_vars

-----------------------------------------------------------------------------
(* Properties; WritableFileWriter and StringFile say more about each.      *)

\* As long as no call of the file fails, every byte appended is once and in order in
\* the file, in the buffer or in hand, and all of them are in the file when Flush, Sync
\* or Close returns OK.
NothingLost ==
  /\ mode = "buffered" => Buffered!NothingLost /\ Buffered!FlushIsComplete
  /\ mode = "direct" => Direct!NothingLost /\ Direct!FlushIsComplete

\* When Sync of a buffered file has returned OK, the device has everything that was
\* given to the file, even after failures of earlier calls; what RangeSync was told to
\* sync trails the end of the file and only ever moves on.
SyncIsDurable == mode = "buffered" => Buffered!SyncIsDurable /\ Buffered!RangeSyncTrails

\* A buffered file that was closed without a failure is what was appended and nothing
\* else. A string that was written or read with success is whole, and what a failed
\* WriteStringToFile left behind is not under its name.
FilesAreWhole ==
  /\ mode = "buffered" => Buffered!ClosedFileIsData
  /\ mode = "strings" => Strings!StringsAreWhole

=============================================================================
