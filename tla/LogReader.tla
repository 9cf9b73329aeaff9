------------------------------- MODULE LogReader -------------------------------
(***************************************************************************)
(* log::Reader (rutil/log_reader.cc).  A call of ReadRecord is a sequence  *)
(* of steps, each one round of ReadPhysicalRecord's loop, so the writer    *)
(* may extend the file while the reader is at work.  Checksums are always  *)
(* verified.                                                               *)
(***************************************************************************)
EXTENDS LogFile

CONSTANTS
  Mode,       \* the recovery modes readers use
  Offset,     \* the initial offsets readers are opened with
  IOErrors    \* whether reading the file may fail

ASSUME ReaderAssumption ==
  /\ Mode \subseteq {"TolerateCorruptedTail", "AbsoluteConsistency", "PointInTime",
                     "SkipAnyCorrupted"}
  /\ Offset \subseteq Nat /\ IOErrors \in BOOLEAN

VARIABLES
  reader,       \* "none", "idle", "reading" or "ended" (ReadRecord gave FALSE)
  mode, initial_offset_, log_num,
  fpos,         \* the position of file_
  buffer_,      \* what is left of the block in memory, as positions in the file
  eof_, read_error_, eof_offset_, last_record_offset_, end_of_buffer_offset_,
  recycled_,
  in_fragmented_record, prospective_record_offset, physical_record_offset,
  scratch,      \* the fragments gathered so far, as indices of phys
  read,         \* history: the records returned, each a sequence of fragments
  reported      \* history: whether reporter_->Corruption has been called

bufferVars == <<fpos, buffer_, eof_, read_error_, eof_offset_, end_of_buffer_offset_>>
callVars == <<in_fragmented_record, prospective_record_offset, physical_record_offset,
              scratch>>
paramVars == <<mode, initial_offset_, log_num>>
readerVars == <<reader, paramVars, bufferVars, recycled_, last_record_offset_, callVars,
                read, reported>>

ReaderInit ==
  /\ reader = "none"
  /\ mode \in Mode
  /\ initial_offset_ \in Offset
  /\ log_num = 0
  /\ fpos = 0 /\ buffer_ = <<>> /\ eof_ = FALSE /\ read_error_ = FALSE
  /\ eof_offset_ = 0 /\ end_of_buffer_offset_ = 0
  /\ recycled_ = FALSE /\ last_record_offset_ = 0
  /\ in_fragmented_record = FALSE /\ prospective_record_offset = 0
  /\ physical_record_offset = 0 /\ scratch = <<>>
  /\ read = <<>> /\ reported = FALSE

Open(number) ==
  /\ reader = "none"
  /\ reader' = "idle"
  /\ log_num' = number
  /\ UNCHANGED <<mode, initial_offset_, bufferVars, recycled_, last_record_offset_, callVars, read,
                 reported>>

ScratchSize ==
  FoldFunction(LAMBDA m, n : m + n, 0, [i \in DOMAIN scratch |-> phys[scratch[i]].len])

\* An offset is an unsigned number of 64 bits.  What a subtraction leaves below zero
\* wraps to a number beyond every offset; it is kept negative here.
Below(offset, bound) == 0 <= offset /\ offset < bound

\* ReportDrop for each of the sizes, when the buffer is as the step leaves it
ReportDrops(sizes) ==
  LET start == end_of_buffer_offset_' - Len(buffer_') IN
  reported' = (reported \/ \E bytes \in sizes : ~Below(start - bytes, initial_offset_))

\* file_->Read(n): the positions it yields
Chunk(n) ==
  LET size == IF Len(disk) - fpos < n THEN Len(disk) - fpos ELSE n IN
  [i \in 1..(IF size > 0 THEN size ELSE 0) |-> fpos + i]

block_start_location ==
  LET in_block == initial_offset_ % BlockSize
  IN  initial_offset_ - in_block
        + (IF in_block > BlockSize - (HeaderSize - 1) THEN BlockSize ELSE 0)

\* SkipToInitialBlock is called until a record at or beyond initial_offset_ has
\* been returned; Skip moves on from where the file is.
MustSkip == Below(last_record_offset_, initial_offset_)

ReadRecord ==
  /\ reader = "idle"
  /\ reader' = "reading"
  /\ IF MustSkip
     THEN /\ fpos' = fpos + block_start_location
          /\ end_of_buffer_offset_' = block_start_location
     ELSE UNCHANGED <<fpos, end_of_buffer_offset_>>
  /\ scratch' = <<>>
  /\ in_fragmented_record' = FALSE
  /\ prospective_record_offset' = 0
  /\ physical_record_offset' = end_of_buffer_offset_' - Len(buffer_)
  /\ UNCHANGED <<paramVars, buffer_, eof_, read_error_, eof_offset_, recycled_,
                 last_record_offset_, read, reported>>

SkipFails ==
  /\ IOErrors
  /\ reader = "idle"
  /\ MustSkip /\ block_start_location > 0
  /\ end_of_buffer_offset_' = block_start_location
  /\ reader' = "ended"
  /\ UNCHANGED <<paramVars, fpos, buffer_, eof_, read_error_, eof_offset_, recycled_,
                 last_record_offset_, callVars, read>>
  /\ ReportDrops({block_start_location})

-----------------------------------------------------------------------------
(* What ReadRecord does with what ReadPhysicalRecord returns.  The state  *)
(* of the buffer is assigned by the step before these are evaluated.       *)

\* The loop goes on, with the given fragments and flag.
Continue(in_fragmented, fragments) ==
  /\ in_fragmented_record' = in_fragmented
  /\ scratch' = fragments
  /\ physical_record_offset' = end_of_buffer_offset_' - Len(buffer_')
  /\ UNCHANGED <<reader, last_record_offset_, read>>

ReturnFalse ==
  /\ reader' = "ended"
  /\ scratch' = <<>>
  /\ UNCHANGED <<in_fragmented_record, prospective_record_offset,
                 physical_record_offset, last_record_offset_, read>>

ReturnTrue(fragments, offset) ==
  /\ reader' = "idle"
  /\ read' = Append(read, fragments)
  /\ last_record_offset_' = offset
  /\ prospective_record_offset' = offset
  /\ UNCHANGED <<in_fragmented_record, physical_record_offset, scratch>>

If(condition, size) == IF condition THEN {size} ELSE {}

OnFull(p) ==
  /\ ReportDrops(If(in_fragmented_record /\ ScratchSize > 0, ScratchSize))
  /\ ReturnTrue(<<p>>, physical_record_offset)

OnFirst(p) ==
  /\ ReportDrops(If(in_fragmented_record /\ ScratchSize > 0, ScratchSize))
  /\ prospective_record_offset' = physical_record_offset
  /\ Continue(TRUE, <<p>>)

OnMiddle(p) ==
  /\ ReportDrops(If(~in_fragmented_record, phys[p].len))
  /\ Continue(in_fragmented_record,
              IF in_fragmented_record THEN Append(scratch, p) ELSE scratch)
  /\ UNCHANGED prospective_record_offset

OnLast(p) ==
  IF in_fragmented_record
  THEN /\ ReturnTrue(Append(scratch, p), prospective_record_offset)
       /\ UNCHANGED reported
  ELSE /\ ReportDrops({phys[p].len})
       /\ Continue(FALSE, scratch)
       /\ UNCHANGED prospective_record_offset

\* Mutant: the end of the file inside a record is reported in every mode.
OnEofReports(drop) ==
  /\ ReportDrops(If(drop > 0, drop) \cup If(in_fragmented_record, ScratchSize))
  /\ ReturnFalse

\* Mutant: a record that lacks its last fragments is not reported.
OnEofHeaderOnly(drop) ==
  /\ ReportDrops(If(mode = "AbsoluteConsistency" /\ drop > 0, drop))
  /\ ReturnFalse

\* kBadHeader (a truncated header or record at the end of the file, of which
\* drop bytes were there) and kEof (drop is 0)
OnEof(drop) ==
  /\ ReportDrops(IF mode = "AbsoluteConsistency"
                 THEN If(drop > 0, drop) \cup If(in_fragmented_record, ScratchSize)
                 ELSE {})
  /\ ReturnFalse

OnBadRecord ==
  /\ ReportDrops(If(in_fragmented_record, ScratchSize))
  /\ Continue(FALSE, IF in_fragmented_record THEN <<>> ELSE scratch)
  /\ UNCHANGED prospective_record_offset


OnOldRecord ==
  IF mode # "SkipAnyCorrupted"
  THEN /\ ReportDrops(If(mode = "AbsoluteConsistency" /\ in_fragmented_record,
                         ScratchSize))
       /\ ReturnFalse
  ELSE OnBadRecord

\* Mutant: a bad record leaves the fragments before it in place.
OnDamagedKeepsFragments(drop) ==
  IF recycled_' /\ mode = "TolerateCorruptedTail"
  THEN ReturnFalse /\ UNCHANGED reported
  ELSE /\ ReportDrops({drop})
       /\ Continue(in_fragmented_record, scratch)
       /\ UNCHANGED prospective_record_offset

\* kBadRecordLen and kBadRecordChecksum
OnDamaged(drop) ==
  IF recycled_' /\ mode = "TolerateCorruptedTail"
  THEN ReturnFalse /\ UNCHANGED reported
  ELSE /\ ReportDrops({drop} \cup If(in_fragmented_record, ScratchSize))
       /\ Continue(FALSE, IF in_fragmented_record THEN <<>> ELSE scratch)
       /\ UNCHANGED prospective_record_offset

-----------------------------------------------------------------------------
(* ReadMore and ReadPhysicalRecord.                                        *)

Refill(size) ==
  LET chunk == Chunk(size) IN
  /\ buffer_' = chunk
  /\ fpos' = fpos + Len(chunk)
  /\ end_of_buffer_offset_' = end_of_buffer_offset_ + Len(chunk)
  /\ eof_' = (eof_ \/ Len(chunk) < BlockSize)
  /\ eof_offset_' = IF Len(chunk) < BlockSize THEN Len(chunk) ELSE eof_offset_
  /\ UNCHANGED read_error_

\* The next block is read, and the loop of ReadPhysicalRecord starts again.
ReadMore ==
  /\ ~eof_ /\ ~read_error_
  /\ Refill(BlockSize)
  /\ UNCHANGED <<reader, last_record_offset_, callVars, read, reported>>

\* Reading fails, after n bytes.
ReadMoreFails(n) ==
  /\ IOErrors
  /\ ~eof_ /\ ~read_error_
  /\ fpos' = fpos + Len(Chunk(n))
  /\ end_of_buffer_offset_' = end_of_buffer_offset_ + Len(Chunk(n))
  /\ buffer_' = <<>>
  /\ read_error_' = TRUE
  /\ UNCHANGED <<eof_, eof_offset_>>
  /\ ReportDrops({BlockSize} \cup If(mode = "AbsoluteConsistency" /\ in_fragmented_record,
                                    ScratchSize))
  /\ ReturnFalse

\* There is no more: what is in the buffer is a truncated header.
NoMore ==
  /\ eof_ \/ read_error_
  /\ buffer_' = <<>>
  /\ UNCHANGED <<fpos, eof_, read_error_, eof_offset_, end_of_buffer_offset_>>
  /\ OnEof(Len(buffer_))

More == ReadMore \/ NoMore \/ \E n \in 0..BlockSize : ReadMoreFails(n)

\* Mutant: a header that fills the buffer is taken for a trailer.
TooShortByOne == Len(buffer_) <= HeaderSize

TooShort == Len(buffer_) < HeaderSize

ReadHeader ==
  /\ reader = "reading"
  /\ TooShort
  /\ More
  /\ UNCHANGED <<paramVars, recycled_>>

\* The first n bytes of the buffer are the first n of physical record p.
StartsWith(p, n) == \A i \in 1..n : disk[buffer_[i]] = <<p, i>>

\* The byte that holds the type (header[6]) is one of a header.
TypeIsKept == LET c == disk[buffer_[HeaderSize]] IN c[1] > 0 /\ c[2] = HeaderSize

\* Bytes that were not written as a header may look like any: a short or a long
\* record, of this or of another log.
AnyHeader ==
  (IF TypeIsKept THEN {} ELSE
     [zero : {TRUE}, recyclable : {FALSE}, len : {0}, log : {log_num}, p : {0}]) \cup
  [zero : {FALSE}, recyclable : IF TypeIsKept THEN {Recycle} ELSE BOOLEAN,
   len : {0, BlockSize}, log : {log_num, log_num + 1}, p : {0}]

\* What the bytes at the start of the buffer may be read as: the header of
\* physical record p, or of none (p = 0)
Headers ==
  IF \E p \in 1..Len(phys) : StartsWith(p, HeaderSize)
  THEN LET p == CHOOSE p \in 1..Len(phys) : StartsWith(p, HeaderSize) IN
       [zero : {FALSE}, recyclable : {Recycle}, len : {phys[p].len}, p : {p},
        log : IF Len(buffer_) >= HeaderLen(Recycle) /\ StartsWith(p, HeaderLen(Recycle))
              THEN {phys[p].log} ELSE {log_num, log_num + 1}]
  ELSE IF \A i \in 1..HeaderSize : disk[buffer_[i]] = Zero
  THEN {[zero |-> TRUE, recyclable |-> FALSE, len |-> 0, log |-> log_num, p |-> 0]}
  ELSE AnyHeader

\* The record is the one that was written, to the last byte.
CrcOK(h) == h.p # 0 /\ StartsWith(h.p, HeaderLen(h.recyclable) + h.len)

KeepFile == UNCHANGED <<fpos, eof_, read_error_, eof_offset_, end_of_buffer_offset_>>

\* The rest of the block is dropped.
ClearBuffer == buffer_' = <<>> /\ KeepFile

OnType(p) ==
  \/ phys[p].type = "Full" /\ OnFull(p)
  \/ phys[p].type = "First" /\ OnFirst(p)
  \/ phys[p].type = "Middle" /\ OnMiddle(p)
  \/ phys[p].type = "Last" /\ OnLast(p)

\* Mutant: the log number of a recyclable record is not compared.
OtherLogIgnored(h) == FALSE

OtherLog(h) == h.recyclable /\ h.log # log_num

ReadBody(h) ==
  LET size == HeaderLen(h.recyclable) + h.len IN
  \/ /\ OtherLog(h)
     /\ UNCHANGED bufferVars
     /\ OnOldRecord
  \/ /\ ~OtherLog(h)
     /\ size > Len(buffer_)
     /\ ClearBuffer
     /\ IF eof_ THEN OnEof(Len(buffer_)) ELSE OnDamaged(Len(buffer_))
  \/ /\ ~OtherLog(h)
     /\ size <= Len(buffer_)
     /\ h.zero /\ h.len = 0
     /\ ClearBuffer
     /\ OnBadRecord
  \/ /\ ~OtherLog(h)
     /\ size <= Len(buffer_)
     /\ ~h.zero /\ ~CrcOK(h)
     /\ ClearBuffer
     /\ OnDamaged(Len(buffer_))
  \/ /\ ~OtherLog(h)
     /\ size <= Len(buffer_)
     /\ ~h.zero /\ CrcOK(h)
     /\ buffer_' = SubSeq(buffer_, size + 1, Len(buffer_))
     /\ KeepFile
     /\ IF Below(end_of_buffer_offset_ - Len(buffer_), initial_offset_)
        THEN OnBadRecord ELSE OnType(h.p)

ReadPhysicalRecord ==
  /\ reader = "reading"
  /\ ~TooShort
  /\ \E h \in Headers :
       /\ recycled_' = (recycled_ \/ (/\ h.recyclable
                                      /\ end_of_buffer_offset_ = Len(buffer_)))
       /\ IF h.recyclable /\ Len(buffer_) < RecyclableHeaderSize
          THEN More
          ELSE ReadBody(h)
  /\ UNCHANGED paramVars

remaining == BlockSize - eof_offset_

\* Mutant: a reader that saw the end of the file goes on with the next block.
UnmarkEOFNoAlign ==
  /\ reader = "ended" /\ ~read_error_
  /\ eof_' = FALSE
  /\ UNCHANGED <<fpos, buffer_, end_of_buffer_offset_, eof_offset_, read_error_, reported>>

\* The reader is told that there is more: it reads the rest of the block in which
\* it met the end of the file.
UnmarkEOF ==
  /\ reader = "ended" /\ ~read_error_
  /\ IF eof_offset_ = 0
     THEN /\ eof_' = FALSE
          /\ UNCHANGED <<fpos, buffer_, end_of_buffer_offset_, eof_offset_>>
     ELSE LET chunk == Chunk(remaining) IN
          /\ fpos' = fpos + Len(chunk)
          /\ end_of_buffer_offset_' = end_of_buffer_offset_ + Len(chunk)
          /\ buffer_' = buffer_ \o chunk
          /\ eof_' = (Len(chunk) < remaining)
          /\ eof_offset_' = IF Len(chunk) < remaining THEN eof_offset_ + Len(chunk) ELSE 0
  /\ UNCHANGED <<read_error_, reported>>

UnmarkEOFFails(n) ==
  /\ IOErrors
  /\ reader = "ended" /\ ~read_error_
  /\ eof_offset_ # 0 /\ n <= remaining
  /\ fpos' = fpos + Len(Chunk(n))
  /\ end_of_buffer_offset_' = end_of_buffer_offset_ + Len(Chunk(n))
  /\ read_error_' = TRUE
  /\ eof_' = FALSE
  /\ UNCHANGED <<buffer_, eof_offset_>>
  /\ ReportDrops(If(Len(Chunk(n)) > 0, Len(Chunk(n))))

\* The client of a reader at the end of a file that may have grown calls
\* UnmarkEOF and reads on.
LookAgain ==
  /\ UnmarkEOF \/ \E n \in 0..BlockSize : UnmarkEOFFails(n)
  /\ reader' = "idle"
  /\ UNCHANGED <<paramVars, recycled_, last_record_offset_, callVars, read>>
=============================================================================
