------------------------------- MODULE LogWriter -------------------------------
(***************************************************************************)
(* log::Writer (rutil/log_writer.cc): AddRecord cuts a record into         *)
(* fragments that fit into what is left of the current block and emits     *)
(* them one by one.                                                        *)
(***************************************************************************)
EXTENDS LogFile

CONSTANTS
  Size,          \* the sizes of the records clients add
  MaxRecords,    \* bound on the records of all logs
  LogNumber,     \* the log numbers of the successive logs in the file
  LogNumWidth    \* 2^32: how much of a log number a record carries

ASSUME WriterAssumption ==
  /\ Size \subseteq Nat
  /\ MaxRecords \in Nat
  /\ LogNumWidth \in Nat \ {0}
  /\ LogNumber \in Seq(Nat) /\ LogNumber # <<>>

\* The logs that a file holds one after the other have numbers that differ in what
\* a record carries of them.  (Their numbers come from the caller of Writer.)
ASSUME LogNumbersDiffer ==
  \A i, j \in 1..Len(LogNumber) :
    i # j => LogNumber[i] % LogNumWidth # LogNumber[j] % LogNumWidth

VARIABLES
  block_offset_,
  log,         \* which of the logs this is; its number is log_number_
  slice,       \* what AddRecord still has to write: rec, left and begin
  writer,      \* "idle", "adding", "failed" or "gone"
  added,       \* history: the records added to this log, each a number
  block,       \* history: the number of blocks before the current one
  base         \* history: the records of the logs before this one

writerVars == <<block_offset_, log, slice, writer, added, block, base>>

log_number_ == LogNumber[log]

NoSlice == [rec |-> 0, left |-> 0, begin |-> FALSE]

\* The number of records formatted so far, in all logs
RecordCount == IF phys = <<>> THEN 0 ELSE phys[Len(phys)].rec

WriterInit ==
  /\ disk = <<>> /\ dpos = 0 /\ pending = <<>> /\ phys = <<>>
  /\ block_offset_ = 0
  /\ log = 1
  /\ slice = NoSlice
  /\ writer = "idle"
  /\ added = <<>>
  /\ block = 0
  /\ base = 0

AddRecord(size) ==
  /\ writer = "idle"
  /\ RecordCount < MaxRecords
  /\ slice' = [rec |-> RecordCount + 1, left |-> size, begin |-> TRUE]
  /\ writer' = "adding"
  /\ UNCHANGED <<fileVars, block_offset_, log, added, block, base>>

leftover == BlockSize - block_offset_

\* Too little is left for a header: the rest is filled with zeros.
NewBlock == leftover < HeaderLen(Recycle)

Trailer == IF NewBlock THEN [i \in 1..leftover |-> Zero] ELSE <<>>

Start == IF NewBlock THEN 0 ELSE block_offset_

\* Mutant: the header is not counted.
availNoHeader == BlockSize - Start

avail == BlockSize - Start - HeaderLen(Recycle)

fragment_length == IF slice.left < avail THEN slice.left ELSE avail

end == slice.left = fragment_length

RecordType ==
  IF slice.begin THEN (IF end THEN "Full" ELSE "First")
                 ELSE (IF end THEN "Last" ELSE "Middle")

\* The header written by EmitPhysicalRecord, and where it is
Physical ==
  [rec |-> slice.rec, type |-> RecordType, len |-> fragment_length,
   log |-> log_number_ % LogNumWidth,
   block |-> IF NewBlock THEN block + 1 ELSE block, offset |-> Start]

\* One round of AddRecord's loop: trailer, header and payload are appended and
\* flushed.
EmitPhysicalRecord ==
  /\ writer = "adding"
  /\ phys' = Append(phys, Physical)
  /\ pending' = pending \o Trailer \o CellsOf(Len(phys) + 1, fragment_length)
  /\ block_offset_' = Start + HeaderLen(Recycle) + fragment_length
  /\ block' = Physical.block
  /\ IF end
     THEN slice' = NoSlice /\ writer' = "idle" /\ added' = Append(added, slice.rec)
     ELSE /\ slice' = [slice EXCEPT !.left = @ - fragment_length, !.begin = FALSE]
          /\ UNCHANGED <<writer, added>>
  /\ UNCHANGED <<disk, dpos, log, base>>

\* Append or Flush fails after k of the bytes: AddRecord gives up with an error,
\* but block_offset_ counts all of them.  The client adds no more records.
EmitFails(k) ==
  LET cells == Trailer \o CellsOf(Len(phys) + 1, fragment_length) IN
  /\ writer = "adding"
  /\ k \in 0..Len(cells)
  /\ phys' = Append(phys, Physical)
  /\ pending' = pending \o SubSeq(cells, 1, k)
  /\ block_offset_' = Start + HeaderLen(Recycle) + fragment_length
  /\ block' = Physical.block
  /\ slice' = NoSlice
  /\ writer' = "failed"
  /\ UNCHANGED <<disk, dpos, log, added, base>>

\* The process dies, or gives up after a failure: of the bytes on their way the
\* first n reach the file.
Crash(n) ==
  /\ writer # "gone"
  /\ writer' = "gone"
  /\ n \in 0..Len(pending)
  /\ disk' = Overwritten(dpos, SubSeq(pending, 1, n))
  /\ dpos' = dpos + n
  /\ pending' = <<>>
  /\ slice' = NoSlice
  /\ UNCHANGED <<phys, block_offset_, log, added, block, base>>

\* The file of a log that is no longer needed becomes the next log
\* (Env::ReuseWritableFile and a new Writer): its bytes are still there.
Reuse ==
  /\ Recycle
  /\ writer = "gone"
  /\ log < Len(LogNumber)
  /\ log' = log + 1
  /\ writer' = "idle"
  /\ dpos' = 0
  /\ block_offset_' = 0
  /\ block' = 0
  /\ added' = <<>>
  /\ base' = RecordCount
  /\ UNCHANGED <<disk, pending, phys, slice>>

-----------------------------------------------------------------------------
(* Properties.                                                             *)

WriterTypeOK ==
  /\ disk \in Seq(Int \X Int) /\ pending \in Seq(Int \X Int)
  /\ dpos \in Nat
  /\ phys \in Seq([rec : Nat, type : Type, len : Nat, log : Nat, block : Nat,
                   offset : Nat])
  /\ block_offset_ \in 0..BlockSize
  /\ log \in 1..Len(LogNumber)
  /\ slice \in [rec : Nat, left : Nat, begin : BOOLEAN]
  /\ writer \in {"idle", "adding", "failed", "gone"}
  /\ added \in Seq(Nat)
  /\ block \in Nat /\ base \in Nat

\* No physical record crosses the end of a block (the assertions at lines 67, 104
\* and 108), and the writer knows where in the file it is.
BlocksAreKept ==
  /\ \A p \in 1..Len(phys) :
       phys[p].offset + HeaderLen(Recycle) + phys[p].len <= BlockSize
  /\ writer \in {"idle", "adding"} =>
       dpos + Len(pending) = block * BlockSize + block_offset_
=============================================================================
