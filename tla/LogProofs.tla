----------------------------- MODULE LogProofs ------------------------------
(***************************************************************************)
(* For every block size, header size and size of records: what a reader     *)
(* returns are whole records of its log, in order, each of them once.       *)
(***************************************************************************)
EXTENDS LogFileProofs

-----------------------------------------------------------------------------
(* What has been read is kept.                                             *)

Grows ==
  /\ Len(phys) \in Nat /\ Len(phys') \in Nat /\ Len(phys) <= Len(phys')
  /\ \A p \in 1..Len(phys) : phys'[p] = phys[p]

LEMMA PhysKept ==
  ASSUME Grows, NEW p \in 1..Len(phys)
  PROVE  /\ p \in 1..Len(phys') /\ phys'[p] = phys[p] /\ End(p)' = End(p)
         /\ (Starts(p)' <=> Starts(p)) /\ (Stops(p)' <=> Stops(p))
<1>1. p \in 1..Len(phys') /\ phys'[p] = phys[p]
  BY DEF Grows
<1>2. UNCHANGED <<HeaderLen(Recycle), BlockSize>>
  BY DEF HeaderLen
<1>. QED
  BY <1>1, <1>2 DEF Location, Width, End, Starts, Stops

LEMMA ChainKept ==
  ASSUME Grows, UNCHANGED base, NEW s \in Seq(Nat), Chain(s)
  PROVE  Chain(s)'
<1>1. s # <<>> /\ 1 \in 1..Len(s) /\ Starts(s[1])
  BY DEF Chain
<1>2. ASSUME NEW i \in 1..Len(s)
      PROVE  /\ s[i] \in 1..Len(phys) /\ phys[s[i]].rec > base
             /\ s[i] = s[1] + i - 1 /\ phys[s[i]].rec = phys[s[1]].rec
  BY Zenon DEF Chain
<1>3. \A i \in 1..Len(s) : s[i] \in 1..Len(phys') /\ phys'[s[i]] = phys[s[i]]
  BY <1>2, PhysKept, Zenon
<1>4. PICK a : a = s[1]
  BY Zenon
<1>5. Starts(a)'
  BY <1>1, <1>2, <1>4, PhysKept
<1>6. Starts(s[1])'
  BY <1>4, <1>5 DEF Starts
<1>. QED
  BY <1>1, <1>2, <1>3, <1>6, Zenon DEF Chain

\* The last physical record of a chain
LEMMA ChainLast ==
  ASSUME NEW s \in Seq(Nat), Chain(s)
  PROVE  /\ Len(s) \in 1..Len(s) /\ 1 \in 1..Len(s) /\ Last(s) = s[Len(s)]
         /\ s[1] \in 1..Len(phys) /\ Last(s) \in 1..Len(phys)
         /\ phys[Last(s)].rec > base /\ phys[Last(s)].rec = phys[s[1]].rec
         /\ Last(s) = s[1] + Len(s) - 1
<1>1. s # <<>> /\ 1 \in 1..Len(s) /\ Len(s) \in 1..Len(s)
  BY DEF Chain
<1>. QED
  BY <1>1 DEF Chain, Last

LEMMA ReadKeptOne ==
  ASSUME WriterTypeOK, ReaderTypeOK, ReadOK, Grows, UNCHANGED base, Advances,
         buffer_' \in Seq(Nat), NEW j \in 1..Len(read), read'[j] = read[j]
  PROVE  /\ Chain(read[j])' /\ Stops(Last(read[j]))'
         /\ End(Last(read[j]))' <= fpos'
         /\ \A i \in 1..Len(buffer_') : End(Last(read[j]))' < buffer_'[i]
<1>1. PICK s : s = read[j]
  BY Zenon
<1>2. s \in Seq(Nat) /\ read'[j] = s
  BY <1>1 DEF ReaderTypeOK
<1>3. /\ Chain(s) /\ Stops(Last(s)) /\ End(Last(s)) <= fpos
      /\ \A i \in 1..Len(buffer_) : End(Last(s)) < buffer_[i]
  BY <1>1 DEF ReadOK
<1>4. PICK l : l = Last(s)
  BY Zenon
<1>5. l \in 1..Len(phys)
  BY <1>2, <1>3, <1>4, ChainLast, ZenonT(30)
<1>6. Chain(s)'
  BY <1>2, <1>3, ChainKept, Zenon
<1>7. Stops(l)' /\ End(l)' = End(l)
  BY <1>3, <1>4, <1>5, PhysKept
<1>8. PICK e : e = End(l)
  BY Zenon
<1>9. e \in Nat /\ e <= fpos /\ fpos \in Nat /\ fpos' \in Nat /\ fpos' >= fpos
  BY <1>3, <1>4, <1>5, <1>8, PhysFacts, Zenon DEF ReaderTypeOK, Advances
<1>10. e <= fpos'
  BY <1>9
<1>11. ASSUME NEW i \in 1..Len(buffer_') PROVE e < buffer_'[i]
  <2>1. CASE buffer_'[i] > fpos
    <3>1. buffer_'[i] \in Nat
      OBVIOUS
    <3>. QED
      BY <1>9, <2>1, <3>1
  <2>2. CASE \E k \in 1..Len(buffer_) : buffer_'[i] = buffer_[k]
    BY <1>3, <1>4, <1>8, <2>2
  <2>. QED
    BY <2>1, <2>2, Zenon DEF Advances
<1>12. Last(read[j])' = l
  BY <1>2, <1>4 DEF Last
<1>13. Stops(Last(read[j]))' /\ End(Last(read[j]))' = e
  BY <1>7, <1>8, <1>12, Zenon DEF Stops, End, Location, Width
<1>14. Chain(read[j])'
  BY <1>2, <1>6, Zenon DEF Chain, Starts
<1>. QED
  BY <1>10, <1>11, <1>13, <1>14

LEMMA ReadKept ==
  ASSUME WriterTypeOK, ReaderTypeOK, ReadOK, Grows, UNCHANGED <<base, read>>, Advances,
         buffer_' \in Seq(Nat)
  PROVE  ReadOK'
<1>1. ASSUME NEW j \in 1..Len(read)
      PROVE  /\ Chain(read[j])' /\ Stops(Last(read[j]))'
             /\ End(Last(read[j]))' <= fpos'
             /\ \A i \in 1..Len(buffer_') : End(Last(read[j]))' < buffer_'[i]
  BY ReadKeptOne
<1>2. \A i, j \in 1..Len(read) : i < j => Last(read[i])' < read'[j][1]
  BY DEF ReadOK, Last
<1>. QED
  BY <1>1, <1>2, Zenon DEF ReadOK

\* A step of the writer leaves the reader as it is.
LEMMA ReaderKept ==
  ASSUME LogInv, UNCHANGED readerVars, Grows, Len(disk') \in Nat, Len(disk') >= Len(disk),
         reader # "none" => UNCHANGED <<log, base>>
  PROVE  ReaderInv'
<1>1. /\ UNCHANGED <<reader, mode, initial_offset_, log_num, fpos, buffer_, eof_, read_error_>>
      /\ UNCHANGED <<eof_offset_, end_of_buffer_offset_, last_record_offset_>>
      /\ UNCHANGED <<in_fragmented_record, scratch, read>>
  BY DEF readerVars, paramVars, bufferVars, callVars
<1>2. /\ ReaderTypeOK /\ PosOK /\ JumpOK /\ FragOK /\ ReadOK
      /\ reader # "none" => log_num = LogNumber[log]
      /\ reader = "none" => buffer_ = <<>> /\ read = <<>>
  BY DEF LogInv, ReaderInv
<1>3. ReaderTypeOK'
  BY <1>1, <1>2 DEF ReaderTypeOK
<1>4. Len(disk) \in Nat
  <2>1. disk \in Seq(Cell)
    BY DEF LogInv, FileInv, WriterInv, WriterTypeOK, Cell
  <2>. QED
    BY <2>1
<1>5. PosOK' /\ (Contig => Contig') /\ Advances
  BY <1>1, <1>2, <1>4, BufferSame
<1>6. JumpOK'
  <2>1. Jumped' <=> Jumped
    BY <1>1 DEF Jumped, MustSkip, block_start_location, Below
  <2>. QED
    BY <1>2, <1>5, <2>1, Zenon DEF JumpOK
<1>7. CASE reader = "none"
  <2>1. FragOK'
    BY <1>1, <1>7, Zenon DEF FragOK
  <2>2. ReadOK'
    BY <1>1, <1>2, <1>7 DEF ReadOK
  <2>. QED
    BY <1>1, <1>2, <1>3, <1>5, <1>6, <1>7, <2>1, <2>2 DEF ReaderInv
<1>8. CASE reader # "none"
  <2>1. UNCHANGED <<log, base>>
    BY <1>8
  <2>2. WriterTypeOK /\ buffer_' \in Seq(Nat)
    BY <1>3 DEF LogInv, FileInv, WriterInv, ReaderTypeOK
  <2>3. ReadOK'
    BY <1>1, <1>2, <1>5, <2>1, <2>2, ReadKept
  <2>4. FragOK'
    <3>1. SUFFICES ASSUME reader = "reading", in_fragmented_record
                   PROVE  /\ Contig'
                          /\ Chain(scratch)' /\ ~Stops(Last(scratch))'
                          /\ \A j \in 1..Len(read) : Last(read[j])' < scratch'[1]
                          /\ Seeks(End(Last(scratch)))'
      BY <1>1, Zenon DEF FragOK
    <3>2. /\ Contig
          /\ Chain(scratch) /\ ~Stops(Last(scratch))
          /\ \A j \in 1..Len(read) : Last(read[j]) < scratch[1]
          /\ Seeks(End(Last(scratch)))
      BY <1>2, <3>1 DEF FragOK
    <3>3. PICK s, l : s = scratch /\ l = Last(scratch)
      BY Zenon
    <3>4. s \in Seq(Nat) /\ Chain(s) /\ l \in 1..Len(phys) /\ l = Last(s)
      BY <1>2, <3>2, <3>3, ChainLast, Zenon DEF ReaderTypeOK
    <3>5. Chain(s)' /\ (Stops(l)' <=> Stops(l)) /\ End(l)' = End(l)
      BY <2>1, <3>4, ChainKept, PhysKept
    <3>6. Chain(scratch)'
      BY <1>1, <3>3, <3>5, Zenon DEF Chain, Starts
    <3>7. Last(scratch)' = l
      BY <1>1, <3>3 DEF Last
    <3>8. ~Stops(Last(scratch))' /\ End(Last(scratch))' = End(Last(scratch))
      BY <3>2, <3>3, <3>5, <3>7, Zenon DEF Stops, End, Location, Width
    <3>9. Seeks(End(Last(scratch)))'
      BY <1>1, <3>2, <3>8, Zenon DEF Seeks, Cur
    <3>10. \A j \in 1..Len(read) : Last(read[j])' < scratch'[1]
      BY <1>1, <3>2, Zenon DEF Last
    <3>. QED
      BY <1>5, <3>2, <3>6, <3>8, <3>9, <3>10, ZenonT(30)
  <2>. QED
    BY <1>1, <1>2, <1>3, <1>5, <1>6, <1>8, <2>1, <2>3, <2>4, Zenon DEF ReaderInv
<1>. QED
  BY <1>7, <1>8

LEMMA AppendGrows ==
  ASSUME WriterTypeOK, NEW r, phys' = Append(phys, r)
  PROVE  Grows
<1>1. phys \in Seq(Record) /\ Len(phys) \in Nat
  BY DEF WriterTypeOK, Record
<1>2. Len(phys') = Len(phys) + 1 /\ \A p \in 1..Len(phys) : phys'[p] = phys[p]
  BY <1>1
<1>. QED
  BY <1>1, <1>2 DEF Grows

\* The writer and the damage of a byte leave the reader's state sound.
LEMMA WriteKept ==
  ASSUME LogInv, Write \/ Rot
  PROVE  ReaderInv'
<1>1. WriterTypeOK /\ FileInv /\ UNCHANGED readerVars
  BY DEF LogInv, FileInv, WriterInv, Write, Rot
<1>2. disk \in Seq(Cell) /\ Len(disk) \in Nat /\ Len(phys) \in Nat
  <2>1. disk \in Seq(Cell) /\ phys \in Seq(Record)
    BY <1>1 DEF WriterTypeOK, Cell, Record
  <2>. QED
    BY <2>1
<1>3. UNCHANGED phys => Grows
  BY <1>2 DEF Grows
<1>4. CASE Rot
  <2>1. PICK i \in 1..Len(disk) : disk' = [disk EXCEPT ![i] = Broken]
    BY <1>4, Zenon DEF Rot
  <2>2. DOMAIN disk' = DOMAIN disk
    BY <1>2, <2>1
  <2>3. disk' \in Seq(Cell)
    <3>1. Broken \in Cell
      BY DEF Broken, Cell
    <3>. QED
      BY <1>2, <2>1, <3>1
  <2>4. Len(disk') = Len(disk)
    BY <1>2, <2>2, <2>3
  <2>5. Grows /\ UNCHANGED <<log, base>>
    BY <1>3, <1>4 DEF Rot, writerVars
  <2>. QED
    BY <1>1, <1>2, <2>4, <2>5, ReaderKept
<1>5. CASE Write
  <2>1. CASE \E size \in Size : AddRecord(size)
    <3>1. UNCHANGED <<disk, phys, log, base>>
      BY <2>1 DEF AddRecord, fileVars
    <3>. QED
      BY <1>1, <1>2, <1>3, <3>1, ReaderKept
  <2>2. CASE EmitPhysicalRecord \/ \E k \in 0..(2 * BlockSize) : EmitFails(k)
    <3>1. UNCHANGED <<disk, log, base>> /\ phys' = Append(phys, Physical)
      BY <2>2 DEF EmitPhysicalRecord, EmitFails
    <3>2. Grows
      BY <1>1, <3>1, AppendGrows
    <3>. QED
      BY <1>1, <1>2, <3>1, <3>2, ReaderKept
  <2>3. CASE \E n \in 0..Len(pending) : Crash(n)
    <3>1. PICK n \in 0..Len(pending) : Crash(n)
      BY <2>3
    <3>2. disk' = Overwritten(dpos, SubSeq(pending, 1, n)) /\ UNCHANGED <<phys, log, base>>
      BY <3>1 DEF Crash
    <3>3. Len(disk') \in Nat /\ Len(disk') >= Len(disk)
      BY <1>1, <3>2, ArrivedCells
    <3>. QED
      BY <1>1, <1>3, <3>2, <3>3, ReaderKept
  <2>4. CASE Reuse
    <3>1. UNCHANGED <<disk, phys>> /\ reader = "none"
      BY <1>5, <2>4 DEF Reuse, Write
    <3>. QED
      BY <1>1, <1>2, <1>3, <3>1, ReaderKept
  <2>5. CASE (\E n \in 1..Len(pending) : Deliver(n)) /\ UNCHANGED writerVars
    <3>1. PICK n \in 1..Len(pending) : Deliver(n)
      BY <2>5
    <3>2. /\ disk' = Overwritten(dpos, SubSeq(pending, 1, n))
          /\ UNCHANGED <<phys, log, base>> /\ n \in 0..Len(pending)
      BY <2>5, <3>1 DEF Deliver, writerVars
    <3>3. Len(disk') \in Nat /\ Len(disk') >= Len(disk)
      BY <1>1, <3>2, ArrivedCells
    <3>. QED
      BY <1>1, <1>3, <3>2, <3>3, ReaderKept
  <2>. QED
    BY <1>5, <2>1, <2>2, <2>3, <2>4, <2>5, Zenon DEF Write
<1>. QED
  BY <1>4, <1>5

-----------------------------------------------------------------------------
(* What a step of the reader takes for a physical record is one.           *)

LEMMA ReadFacts ==
  ASSUME LogInv, reader = "reading", ~TooShort, NEW h \in Headers, ~OtherLog(h), CrcOK(h),
         HeaderLen(h.recyclable) + h.len <= Len(buffer_)
  PROVE  /\ h.p \in 1..Len(phys) /\ phys[h.p].rec > base
         /\ HeaderLen(h.recyclable) + h.len = Width(h.p) /\ Width(h.p) <= Len(buffer_)
         /\ \A i \in 1..Width(h.p) : buffer_[i] = Location(h.p) + i
<1>1. /\ FileInv /\ WriterTypeOK /\ PhysOK /\ SliceOK /\ CellsOK /\ ReaderTypeOK /\ PosOK
      /\ log_num = LogNumber[log]
  BY DEF LogInv, FileInv, WriterInv, ReaderInv
<1>2. PICK p : p = h.p
  BY Zenon
<1>3. /\ p \in 1..Len(phys) /\ h.recyclable = Recycle /\ h.len = phys[p].len
      /\ Len(buffer_) >= HeaderLen(Recycle) /\ StartsWith(p, HeaderLen(Recycle)) => h.log = phys[p].log
  <2>1. CASE \E q \in 1..Len(phys) : StartsWith(q, HeaderSize)
    <3>1. PICK q : q = CHOOSE c \in 1..Len(phys) : StartsWith(c, HeaderSize)
      OBVIOUS
    <3>2. q \in 1..Len(phys)
      BY <2>1, <3>1
    <3>3. h \in [zero : {FALSE}, recyclable : {Recycle}, len : {phys[q].len}, p : {q},
                 log : IF Len(buffer_) >= HeaderLen(Recycle) /\ StartsWith(q, HeaderLen(Recycle))
                       THEN {phys[q].log} ELSE {log_num, log_num + 1}]
      BY <2>1, <3>1, Zenon DEF Headers
    <3>. QED
      BY <1>2, <3>2, <3>3, Zenon
  <2>2. CASE ~\E q \in 1..Len(phys) : StartsWith(q, HeaderSize)
    <3>1. h = [zero |-> TRUE, recyclable |-> FALSE, len |-> 0, log |-> log_num, p |-> 0]
            \/ h \in AnyHeader
      BY <2>2, Zenon DEF Headers
    <3>2. h \in AnyHeader => h.p = 0
      BY Zenon DEF AnyHeader
    <3>3. [zero |-> TRUE, recyclable |-> FALSE, len |-> 0, log |-> log_num, p |-> 0].p = 0
      OBVIOUS
    <3>4. h.p = 0
      BY <3>1, <3>2, <3>3, Zenon
    <3>. QED
      BY <3>4 DEF CrcOK
  <2>. QED
    BY <2>1, <2>2, Zenon
<1>4. /\ p \in Nat /\ p >= 1 /\ phys[p].len \in Nat /\ HeaderLen(Recycle) \in Nat
      /\ Width(p) = HeaderLen(Recycle) + phys[p].len /\ Width(p) \in Nat
      /\ Location(p) \in Nat /\ Len(buffer_) \in Nat
  BY <1>1, <1>3, PhysFacts DEF ReaderTypeOK
<1>5. HeaderLen(h.recyclable) + h.len = Width(p) /\ Width(p) <= Len(buffer_)
  BY <1>3, <1>4, Zenon
<1>6. StartsWith(p, Width(p))
  BY <1>2, <1>5, Zenon DEF CrcOK
<1>7. ASSUME NEW i \in 1..Width(p)
      PROVE  buffer_[i] = Location(p) + i
  <2>1. i \in Nat /\ i \in 1..Len(buffer_)
    BY <1>4, <1>5, InLonger, ZenonT(30)
  <2>2. disk[buffer_[i]] = <<p, i>> /\ buffer_[i] \in 1..Len(disk)
    BY <1>1, <1>6, <2>1 DEF StartsWith, PosOK
  <2>3. PICK x, c : x = buffer_[i] /\ c = disk[x]
    BY Zenon
  <2>4. Placed(c, x) /\ c[1] = p /\ c[2] = i
    BY <1>1, <2>2, <2>3 DEF CellsOK
  <2>. QED
    BY <1>4, <2>3, <2>4 DEF Placed
<1>8. phys[p].rec > base
  <2>1. CASE Recycle
    <3>1. StartsWith(p, HeaderLen(Recycle)) /\ Len(buffer_) >= HeaderLen(Recycle)
      <4>1. PICK k, w : k = HeaderLen(Recycle) /\ w = Width(p)
        BY Zenon
      <4>2. k \in Nat /\ w \in Nat /\ k <= w /\ w <= Len(buffer_) /\ StartsWith(p, w)
        BY <1>4, <1>5, <1>6, <4>1
      <4>3. StartsWith(p, k)
        BY <4>2 DEF StartsWith
      <4>. QED
        BY <1>4, <4>1, <4>2, <4>3
    <3>2. phys[p].log = LogNumber[log]
      BY <1>1, <1>3, <2>1, <3>1, ZenonT(30) DEF OtherLog
    <3>3. PICK l \in 1..log : /\ phys[p].log = LogNumber[l] % LogNumWidth
                              /\ phys[p].rec > base <=> l = log
      BY <1>1, <1>3, Zenon DEF PhysOK, OfLog
    <3>4. /\ log \in 1..Len(LogNumber) /\ l \in 1..Len(LogNumber) /\ Len(LogNumber) \in Nat
          /\ LogNumber[l] \in Nat /\ LogNumber[log] \in Nat /\ LogNumWidth \in Nat \ {0}
      <4>1. LogNumber \in Seq(Nat) /\ log \in 1..Len(LogNumber) /\ LogNumWidth \in Nat \ {0}
        BY <1>1, WriterAssumption DEF WriterTypeOK
      <4>. QED
        BY <4>1
    <3>5. PICK a, b : a = LogNumber[l] /\ b = LogNumber[log]
      BY Zenon
    <3>6. a \in Nat /\ b \in Nat /\ b = a % LogNumWidth
      BY <3>2, <3>3, <3>4, <3>5, Zenon
    <3>7. b % LogNumWidth = a % LogNumWidth
      BY <3>4, <3>6, RemainderAgain, Zenon
    <3>8. l = log
      BY <3>4, <3>5, <3>7, LogNumbersDiffer, Zenon
    <3>. QED
      BY <3>3, <3>8, Zenon
  <2>2. CASE ~Recycle
    <3>1. base = 0
      BY <1>1, <2>2, Zenon DEF SliceOK
    <3>2. phys[p].rec >= 1
      BY <1>1, <1>3, Zenon DEF PhysOK
    <3>3. phys[p].rec \in Nat
      BY <1>1, <1>3, PhysFacts, Zenon
    <3>. QED
      BY <3>1, <3>2, <3>3
  <2>. QED
    BY <2>1, <2>2
<1>. QED
  BY <1>2, <1>3, <1>5, <1>7, <1>8, Zenon

-----------------------------------------------------------------------------
(* The steps of a call of ReadRecord.                                      *)

\* The reader changes nothing but its own state.
Reads == UNCHANGED <<fileVars, writerVars, paramVars>>

LEMMA ReadsKeep ==
  ASSUME WriterTypeOK, Reads
  PROVE  /\ UNCHANGED <<disk, phys, log, base, initial_offset_, log_num>> /\ Grows
         /\ Len(disk) \in Nat
         /\ block_start_location' = block_start_location
<1>1. UNCHANGED <<disk, phys, log, base, initial_offset_, log_num>>
  BY DEF Reads, fileVars, writerVars, paramVars
<1>2. Len(phys) \in Nat /\ Len(disk) \in Nat
  <2>1. disk \in Seq(Cell) /\ phys \in Seq(Record)
    BY DEF WriterTypeOK, Cell, Record
  <2>. QED
    BY <2>1
<1>3. block_start_location' = block_start_location
  BY <1>1 DEF block_start_location
<1>. QED
  BY <1>1, <1>2, <1>3 DEF Grows

\* No record is returned, and the fragments gathered so far are given up.
Drops ==
  /\ reader' # "none" /\ (reader' = "reading" => ~in_fragmented_record')
  /\ scratch' = <<>> \/ scratch' = scratch
  /\ UNCHANGED <<last_record_offset_, read>>

LEMMA EndDrops ==
  ASSUME ReturnFalse
  PROVE  Drops
BY DEF ReturnFalse, Drops

LEMMA EofDrops ==
  ASSUME NEW drop, OnEof(drop)
  PROVE  Drops
BY EndDrops DEF OnEof

LEMMA ContinueDrops ==
  ASSUME reader = "reading", NEW s, s = <<>> \/ s = scratch, Continue(FALSE, s)
  PROVE  Drops
BY DEF Continue, Drops

LEMMA BadDrops ==
  ASSUME reader = "reading", OnBadRecord
  PROVE  Drops
BY ContinueDrops, Zenon DEF OnBadRecord

LEMMA OldDrops ==
  ASSUME reader = "reading", OnOldRecord
  PROVE  Drops
BY EndDrops, BadDrops DEF OnOldRecord

LEMMA DamagedDrops ==
  ASSUME reader = "reading", NEW drop, OnDamaged(drop)
  PROVE  Drops
BY EndDrops, ContinueDrops, Zenon DEF OnDamaged

\* Fragments that are given up leave nothing to keep but what has been returned.
LEMMA DropKeeps ==
  ASSUME LogInv, Reads, reader # "none", Drops, PosOK', JumpOK', Advances,
         buffer_' \in Seq(Nat), eof_offset_' \in Nat
  PROVE  ReaderInv'
<1>1. /\ WriterTypeOK /\ ReaderTypeOK /\ ReadOK /\ log_num = LogNumber[log]
  BY DEF LogInv, FileInv, WriterInv, ReaderInv
<1>2. UNCHANGED <<disk, phys, log, base, initial_offset_, log_num>> /\ Grows
  BY <1>1, ReadsKeep
<1>3. ReaderTypeOK'
  <2>1. scratch' \in Seq(Nat)
    <3>1. <<>> \in Seq(Nat) /\ scratch \in Seq(Nat)
      BY <1>1 DEF ReaderTypeOK
    <3>. QED
      BY <3>1, Zenon DEF Drops
  <2>2. read' \in Seq(Seq(Nat)) /\ fpos' \in Nat /\ initial_offset_' \in Nat
    BY <1>1, <1>2 DEF ReaderTypeOK, Drops, Advances
  <2>. QED
    BY <2>1, <2>2 DEF ReaderTypeOK
<1>4. ReadOK'
  BY <1>1, <1>2, ReadKept DEF Drops
<1>5. FragOK'
  BY Zenon DEF FragOK, Drops
<1>. QED
  BY <1>1, <1>2, <1>3, <1>4, <1>5, Zenon DEF ReaderInv, Drops

\* Whether the buffer is behind the initial offset stays so while it is not refilled.
LEMMA JumpKept ==
  ASSUME WriterTypeOK, Reads, JumpOK, UNCHANGED <<last_record_offset_, end_of_buffer_offset_>>,
         Contig => Contig', reader' = "reading" => reader = "reading"
  PROVE  JumpOK'
<1>1. UNCHANGED initial_offset_ /\ block_start_location' = block_start_location
  BY ReadsKeep
<1>2. Jumped => Jumped'
  BY <1>1 DEF Jumped, MustSkip, Below
<1>. QED
  BY <1>2 DEF JumpOK

LEMMA DropAll ==
  ASSUME LogInv, Reads, reader = "reading", Drops, ClearBuffer
  PROVE  ReaderInv'
<1>1. ReaderTypeOK /\ PosOK
  BY DEF LogInv, ReaderInv
<1>2. /\ buffer_' = <<>> /\ UNCHANGED <<fpos, eof_, read_error_, eof_offset_>>
  BY DEF ClearBuffer, KeepFile
<1>3. fpos \in Nat /\ eof_offset_ \in Nat /\ fpos' >= fpos /\ <<>> \in Seq(Nat)
  BY <1>1, <1>2 DEF ReaderTypeOK
<1>4. PosOK' /\ Contig' /\ Advances
  BY <1>1, <1>2, <1>3, BufferCleared, Zenon
<1>. QED
  BY <1>2, <1>3, <1>4, DropKeeps DEF JumpOK

LEMMA DropNone ==
  ASSUME LogInv, Reads, reader = "reading", Drops, UNCHANGED bufferVars
  PROVE  ReaderInv'
<1>1. WriterTypeOK /\ ReaderTypeOK /\ PosOK /\ JumpOK
  BY DEF LogInv, FileInv, WriterInv, ReaderInv
<1>2. /\ UNCHANGED <<buffer_, fpos, eof_, read_error_, eof_offset_, end_of_buffer_offset_>>
      /\ UNCHANGED last_record_offset_
  BY DEF bufferVars, Drops
<1>3. UNCHANGED disk /\ Len(disk) \in Nat
  BY <1>1, ReadsKeep
<1>4. PosOK' /\ (Contig => Contig') /\ Advances
  BY <1>1, <1>2, <1>3, BufferSame
<1>5. JumpOK'
  BY <1>1, <1>2, <1>4, JumpKept, Zenon
<1>. QED
  BY <1>1, <1>2, <1>4, <1>5, DropKeeps, Zenon DEF ReaderTypeOK

LEMMA DropOne ==
  ASSUME LogInv, Reads, reader = "reading", Drops, NEW size \in Nat, size <= Len(buffer_),
         buffer_' = SubSeq(buffer_, size + 1, Len(buffer_)), KeepFile
  PROVE  ReaderInv'
<1>1. WriterTypeOK /\ ReaderTypeOK /\ PosOK /\ JumpOK
  BY DEF LogInv, FileInv, WriterInv, ReaderInv
<1>2. /\ UNCHANGED <<fpos, eof_, read_error_, eof_offset_, end_of_buffer_offset_>>
      /\ UNCHANGED last_record_offset_
  BY DEF KeepFile, Drops
<1>3. UNCHANGED disk
  BY <1>1, ReadsKeep, Zenon
<1>4. PosOK' /\ (Contig => Contig') /\ Advances /\ buffer_' \in Seq(Nat)
  BY <1>1, <1>2, <1>3, BufferTaken, Zenon
<1>5. JumpOK'
  BY <1>1, <1>2, <1>4, JumpKept
<1>. QED
  BY <1>1, <1>2, <1>4, <1>5, DropKeeps, Zenon DEF ReaderTypeOK

\* The next block is read, or there is none.
LEMMA MoreKeeps ==
  ASSUME LogInv, Reads, reader = "reading", Len(buffer_) < RecyclableHeaderSize, More
  PROVE  ReaderInv'
<1>1. /\ FileInv /\ WriterTypeOK /\ ReaderTypeOK /\ PosOK /\ JumpOK /\ FragOK /\ ReadOK
      /\ log_num = LogNumber[log]
  BY DEF LogInv, FileInv, WriterInv, ReaderInv
<1>2. UNCHANGED <<disk, phys, log, base, initial_offset_, log_num>> /\ Grows
  BY <1>1, ReadsKeep
<1>3. CASE NoMore
  BY <1>3, DropAll, EofDrops DEF NoMore, ClearBuffer, KeepFile
<1>4. ASSUME NEW n \in 0..BlockSize, ReadMoreFails(n)
      PROVE  ReaderInv'
  <2>1. n \in Nat
    BY <1>4, FormatAssumption
  <2>2. /\ fpos' = fpos + Len(Chunk(n)) /\ buffer_' = <<>> /\ read_error_'
        /\ UNCHANGED eof_offset_ /\ Drops
    BY <1>4, EndDrops DEF ReadMoreFails
  <2>3. fpos' \in Nat /\ fpos' >= fpos /\ eof_offset_' \in Nat /\ <<>> \in Seq(Nat)
    <3>1. Len(Chunk(n)) \in Nat
      BY <1>1, <2>1, ChunkFacts, Zenon
    <3>2. fpos \in Nat /\ eof_offset_ \in Nat /\ <<>> \in Seq(Nat)
      BY <1>1 DEF ReaderTypeOK
    <3>. QED
      BY <2>2, <3>1, <3>2
  <2>4. PosOK' /\ Contig' /\ Advances
    BY <1>1, <2>2, <2>3, BufferCleared, Zenon
  <2>. QED
    BY <2>2, <2>3, <2>4, DropKeeps, Zenon DEF JumpOK
<1>5. CASE ReadMore
  <2>1. /\ ~eof_ /\ ~read_error_ /\ Refill(BlockSize) /\ UNCHANGED read_error_
        /\ UNCHANGED <<reader, last_record_offset_, in_fragmented_record, scratch, read>>
    BY <1>5, Zenon DEF ReadMore, Refill, callVars
  <2>2. /\ PosOK' /\ Contig' /\ Advances
        /\ buffer_' \in Seq(Nat) /\ fpos' \in Nat /\ eof_offset_' \in Nat
        /\ eof_' \/ Len(buffer_') = BlockSize
        /\ buffer_' # <<>> => buffer_'[1] = fpos + 1
    BY <1>1, <1>2, <2>1, BufferRefilled, Zenon
  <2>3. ReaderTypeOK'
    BY <1>1, <1>2, <2>1, <2>2, Zenon DEF ReaderTypeOK
  <2>4. ReadOK'
    BY <1>1, <1>2, <2>1, <2>2, ReadKept, Zenon
  <2>5. JumpOK'
    BY <2>2 DEF JumpOK
  <2>6. FragOK'
    <3>1. SUFFICES ASSUME in_fragmented_record
                   PROVE  /\ Chain(scratch)' /\ ~Stops(Last(scratch))'
                          /\ \A j \in 1..Len(read) : Last(read[j])' < scratch'[1]
                          /\ Seeks(End(Last(scratch)))'
      BY <2>1, <2>2 DEF FragOK
    <3>2. /\ Contig
          /\ Chain(scratch) /\ ~Stops(Last(scratch))
          /\ \A j \in 1..Len(read) : Last(read[j]) < scratch[1]
          /\ Seeks(End(Last(scratch)))
      BY <1>1, <3>1, Zenon DEF FragOK
    <3>3. Chain(scratch)' /\ ~Stops(Last(scratch))' /\ End(Last(scratch))' = End(Last(scratch))
      BY <1>2, <2>1, <3>2, ZenonT(30)
         DEF Chain, Starts, Stops, Last, End, Location, Width, HeaderLen
    <3>4. \A j \in 1..Len(read) : Last(read[j])' < scratch'[1]
      BY <2>1, <3>2, Zenon DEF Last
    <3>5. PICK e, n : e = End(Last(scratch)) /\ n = Len(buffer_)
      BY Zenon
    <3>6. /\ e \in Nat /\ n \in Nat /\ n < RecyclableHeaderSize /\ fpos \in Nat
          /\ Len(buffer_') \in Nat
      <4>1. Last(scratch) \in 1..Len(phys)
        BY <1>1, <3>2, ChainLast, Zenon DEF ReaderTypeOK
      <4>2. e \in Nat
        BY <1>1, <3>5, <4>1, PhysFacts, Zenon
      <4>. QED
        BY <1>1, <2>2, <3>5, <4>2 DEF ReaderTypeOK
    <3>7. Cur = e /\ Cur = fpos - n
      <4>1. Cur = e
        <5>1. ~(Len(buffer_) >= RecyclableHeaderSize)
          BY <3>5, <3>6, FormatAssumption
        <5>. QED
          BY <2>1, <3>2, <3>5, <5>1, Zenon DEF Seeks
      <4>2. CASE n = 0
        <5>1. buffer_ = <<>>
          <6>1. buffer_ \in Seq(Nat) /\ Len(buffer_) = 0
            BY <1>1, <3>5, <4>2, Zenon DEF ReaderTypeOK
          <6>. QED
            BY <6>1
        <5>. QED
          BY <3>6, <4>1, <4>2, <5>1 DEF Cur
      <4>3. CASE n > 0
        <5>1. buffer_ # <<>> /\ n \in 1..Len(buffer_) /\ 1 \in 1..Len(buffer_)
          BY <3>5, <3>6, <4>3
        <5>2. buffer_[n] = buffer_[1] + n - 1 /\ buffer_[n] = fpos /\ buffer_[1] \in Nat
          <6>1. buffer_[n] = buffer_[1] + n - 1
            BY <3>2, <5>1, Zenon DEF Contig
          <6>2. buffer_[n] = fpos
            BY <2>1, <3>2, <3>5, <5>1, Zenon DEF Contig
          <6>3. buffer_[1] \in Nat
            BY <1>1, <5>1 DEF ReaderTypeOK
          <6>. QED
            BY <6>1, <6>2, <6>3
        <5>. QED
          BY <3>6, <4>1, <5>1, <5>2 DEF Cur
      <4>. QED
        BY <3>6, <4>1, <4>2, <4>3
    <3>8. Seeks(e)'
      <4>1. CASE buffer_' = <<>>
        <5>1. Len(buffer_') = 0
          BY <4>1
        <5>2. eof_'
          BY <2>2, <5>1, FormatAssumption
        <5>. QED
          BY <4>1, <5>2 DEF Seeks
      <4>2. CASE buffer_' # <<>>
        <5>1. Cur' = fpos
          BY <2>2, <3>6, <4>2 DEF Cur
        <5>2. e <= Cur' /\ Cur' < e + RecyclableHeaderSize
          BY <3>6, <3>7, <5>1, FormatAssumption
        <5>3. eof_' \/ Len(buffer_') >= RecyclableHeaderSize
          BY <2>2, <3>6, FormatAssumption
        <5>. QED
          BY <5>2, <5>3 DEF Seeks
      <4>. QED
        BY <4>1, <4>2
    <3>9. Seeks(End(Last(scratch)))'
      BY <3>3, <3>5, <3>8, Zenon DEF Seeks
    <3>. QED
      BY <3>3, <3>4, <3>9, Zenon
  <2>. QED
    BY <1>1, <1>2, <2>1, <2>2, <2>3, <2>4, <2>5, <2>6, Zenon DEF ReaderInv
<1>. QED
  BY <1>3, <1>4, <1>5 DEF More

-----------------------------------------------------------------------------
(* A physical record is taken from the buffer.                             *)

Takes(p) ==
  /\ p \in 1..Len(phys) /\ phys[p].rec > base /\ Width(p) <= Len(buffer_)
  /\ \A i \in 1..Width(p) : buffer_[i] = Location(p) + i
  /\ buffer_' = SubSeq(buffer_, Width(p) + 1, Len(buffer_))
  /\ KeepFile

\* It lies behind what has been returned, and what follows it comes next.
LEMMA TakenFacts ==
  ASSUME LogInv, Reads, Contig, NEW p, Takes(p)
  PROVE  /\ PosOK' /\ Contig' /\ Advances
         /\ buffer_' \in Seq(Nat) /\ fpos' \in Nat /\ eof_offset_' \in Nat
         /\ End(p) <= fpos' /\ (\A i \in 1..Len(buffer_') : End(p) < buffer_'[i])
         /\ \A j \in 1..Len(read) : Last(read[j]) < p
         /\ buffer_ # <<>> /\ Cur = Location(p)
         /\ (buffer_' = <<>> /\ read_error_') \/ Cur' = End(p)
<1>1. /\ FileInv /\ WriterTypeOK /\ ReaderTypeOK /\ PosOK /\ ReadOK
  BY DEF LogInv, FileInv, WriterInv, ReaderInv
<1>2. UNCHANGED disk /\ UNCHANGED <<fpos, eof_, read_error_, eof_offset_>>
  BY <1>1, ReadsKeep, Zenon DEF Takes, KeepFile
<1>3. PICK w, x, n : w = Width(p) /\ x = Location(p) /\ n = Len(buffer_)
  BY Zenon
<1>4. /\ p \in 1..Len(phys) /\ phys[p].rec > base /\ w <= n
      /\ \A i \in 1..w : buffer_[i] = x + i
      /\ buffer_' = SubSeq(buffer_, w + 1, n)
  BY <1>3, Zenon DEF Takes
<1>5. w \in Nat /\ w >= 1 /\ x \in Nat /\ n \in Nat /\ fpos \in Nat /\ End(p) = x + w
  BY <1>1, <1>3, <1>4, PhysFacts DEF ReaderTypeOK
<1>6. /\ PosOK' /\ Contig' /\ Advances
      /\ buffer_' \in Seq(Nat) /\ Len(buffer_') = n - w
      /\ \A i \in 1..Len(buffer_') : i + w \in 1..n /\ buffer_'[i] = buffer_[i + w]
  BY <1>1, <1>2, <1>3, <1>4, <1>5, BufferTaken, Zenon
<1>7. fpos' \in Nat /\ eof_offset_' \in Nat
  BY <1>1, <1>2, Zenon DEF ReaderTypeOK
<1>8. w \in 1..n /\ w \in 1..w /\ 1 \in 1..w /\ 1 \in 1..n
  BY <1>4, <1>5
<1>9. buffer_[w] = x + w /\ buffer_[1] = x + 1 /\ buffer_ # <<>>
  <2>1. buffer_[w] = x + w /\ buffer_[1] = x + 1
    BY <1>4, <1>8
  <2>2. buffer_ # <<>>
    BY <1>3, <1>8, HasFirst, Zenon
  <2>. QED
    BY <2>1, <2>2, Zenon
<1>10. End(p) <= fpos'
  BY <1>1, <1>2, <1>3, <1>5, <1>8, <1>9, Zenon DEF PosOK
<1>11. ASSUME NEW i \in 1..Len(buffer_')
       PROVE  buffer_'[i] = x + w + i
  <2>1. i + w \in 1..n /\ buffer_'[i] = buffer_[i + w]
    BY <1>6, Zenon
  <2>2. buffer_[i + w] = buffer_[1] + (i + w) - 1
    BY <1>3, <2>1, Zenon DEF Contig
  <2>3. i \in Nat
    BY <1>6
  <2>. QED
    BY <1>5, <1>9, <2>1, <2>2, <2>3
<1>12. ASSUME NEW i \in 1..Len(buffer_') PROVE End(p) < buffer_'[i]
  <2>1. x + w < x + w + i
    BY <1>5, Behind, Position, Zenon
  <2>. QED
    BY <1>5, <1>11, <2>1, Zenon
<1>13. ASSUME NEW j \in 1..Len(read)
       PROVE  Last(read[j]) < p
  <2>1. PICK s : s = read[j]
    BY Zenon
  <2>2. s \in Seq(Nat) /\ Chain(s) /\ End(Last(s)) < buffer_[1]
    <3>1. read[j] \in Seq(Nat)
      BY <1>1, ItemOfSeq, Zenon DEF ReaderTypeOK
    <3>. QED
      BY <1>1, <1>3, <1>8, <2>1, <3>1, Zenon DEF ReadOK
  <2>3. Last(s) \in 1..Len(phys)
    BY <2>2, ChainLast, ZenonT(30)
  <2>4. End(Last(s)) \in Nat
    BY <1>1, <2>3, PhysFacts, Zenon
  <2>5. End(Last(s)) <= Location(p)
    BY <1>3, <1>5, <1>9, <2>2, <2>4
  <2>. QED
    BY <1>1, <1>4, <2>1, <2>3, <2>5, OrderInLog, Zenon
<1>14. Cur = Location(p)
  BY <1>3, <1>5, <1>9 DEF Cur
<1>15. (buffer_' = <<>> /\ read_error_') \/ Cur' = End(p)
  <2>1. CASE buffer_' = <<>>
    <3>1. n = w
      BY <1>5, <1>6, <2>1
    <3>2. ~read_error_ => fpos = x + w
      BY <1>3, <1>9, <3>1, Zenon DEF Contig
    <3>3. ~read_error_ => Cur' = End(p)
      BY <1>2, <1>5, <2>1, <3>2, Zenon DEF Cur
    <3>. QED
      BY <1>2, <2>1, <3>3, Zenon
  <2>2. CASE buffer_' # <<>>
    <3>1. 1 \in 1..Len(buffer_')
      BY <1>6, <2>2
    <3>2. buffer_'[1] = x + w + 1
      BY <1>11, <3>1
    <3>3. Cur' = x + w
      <4>1. Cur' = buffer_'[1] - 1
        BY <2>2, Zenon DEF Cur
      <4>. QED
        BY <1>5, <3>2, <4>1
    <3>. QED
      BY <1>5, <3>3
  <2>. QED
    BY <2>1, <2>2, Zenon
<1>. QED
  BY <1>6, <1>7, <1>9, <1>10, <1>12, <1>13, <1>14, <1>15, Zenon

\* A record of one fragment, or the first fragment of one
LEMMA SingleChain ==
  ASSUME WriterTypeOK, NEW p \in 1..Len(phys), phys[p].rec > base, Starts(p)
  PROVE  /\ <<p>> \in Seq(Nat) /\ Chain(<<p>>) /\ Last(<<p>>) = p /\ <<p>>[1] = p
<1>1. p \in Nat
  BY PhysFacts, Zenon
<1>2. <<p>> \in Seq(Nat) /\ Len(<<p>>) = 1 /\ <<p>>[1] = p /\ <<p>> # <<>>
  BY <1>1, Singleton, Zenon
<1>. QED
  BY <1>1, <1>2 DEF Chain, Last

\* A fragment that is where the next one is looked for continues the record.
LEMMA LongerChain ==
  ASSUME FileInv, NEW s \in Seq(Nat), Chain(s), ~Stops(Last(s)), NEW p \in 1..Len(phys),
         phys[p].rec > base, ~Starts(p), End(Last(s)) <= Location(p),
         Location(p) < End(Last(s)) + RecyclableHeaderSize
  PROVE  /\ Append(s, p) \in Seq(Nat) /\ Chain(Append(s, p)) /\ Last(Append(s, p)) = p
         /\ Append(s, p)[1] = s[1]
<1>1. /\ Len(s) \in 1..Len(s) /\ 1 \in 1..Len(s) /\ Last(s) = s[Len(s)]
      /\ s[1] \in 1..Len(phys) /\ Last(s) \in 1..Len(phys)
      /\ phys[Last(s)].rec > base /\ phys[Last(s)].rec = phys[s[1]].rec
      /\ Last(s) = s[1] + Len(s) - 1
  BY ChainLast, Zenon
<1>2. p = Last(s) + 1 /\ phys[p].rec = phys[Last(s)].rec
  BY <1>1, Adjacent, Zenon
<1>3. PICK t, n : t = Append(s, p) /\ n = Len(s)
  BY Zenon
<1>4. WriterTypeOK
  BY Zenon DEF FileInv, WriterInv
<1>5. p \in Nat /\ n \in Nat /\ n >= 1 /\ s[1] \in Nat
  BY <1>1, <1>3, Position, Zenon
<1>6. /\ t \in Seq(Nat) /\ Len(t) = n + 1 /\ t[n + 1] = p /\ t # <<>>
      /\ \A i \in 1..n : t[i] = s[i]
  BY <1>3, <1>5
<1>7. t[1] = s[1] /\ 1 \in 1..n
  <2>1. 1 \in 1..n
    BY <1>5
  <2>. QED
    BY <1>6, <2>1, Zenon
<1>8. ASSUME NEW i \in 1..Len(t)
      PROVE  /\ t[i] \in 1..Len(phys) /\ phys[t[i]].rec > base
             /\ t[i] = t[1] + i - 1 /\ phys[t[i]].rec = phys[t[1]].rec
  <2>1. CASE i \in 1..n
    <3>1. t[i] = s[i] /\ i \in 1..Len(s)
      BY <1>3, <1>6, <2>1, ZenonT(30)
    <3>. QED
      BY <1>7, <3>1, Zenon DEF Chain
  <2>2. CASE i = n + 1
    <3>1. t[i] = p /\ p = s[1] + i - 1
      <4>1. PICK a, l : a = s[1] /\ l = Last(s)
        BY Zenon
      <4>2. a \in Nat /\ l = a + n - 1 /\ p = l + 1 /\ i = n + 1
        BY <1>1, <1>2, <1>3, <1>5, <2>2, <4>1, ZenonT(30)
      <4>3. p = a + i - 1
        BY <1>5, <4>2
      <4>. QED
        BY <1>6, <2>2, <4>1, <4>3, Zenon
    <3>. QED
      BY <1>1, <1>2, <1>7, <3>1, Zenon
  <2>3. i \in 1..(n + 1) /\ n \in Nat
    BY <1>5, <1>6, Zenon
  <2>4. i \in 1..n \/ i = n + 1
    BY <2>3
  <2>. QED
    BY <2>1, <2>2, <2>4, Zenon
<1>9. Chain(t)
  BY <1>6, <1>7, <1>8, ZenonT(30) DEF Chain
<1>10. Last(t) = p
  BY <1>6, Zenon DEF Last
<1>. QED
  BY <1>3, <1>6, <1>7, <1>9, <1>10, Zenon

\* A whole record is returned.
LEMMA ReturnKeeps ==
  ASSUME LogInv, Reads, reader = "reading", Contig, NEW p, Takes(p), Stops(p),
         NEW s \in Seq(Nat), Chain(s), Last(s) = p, \A j \in 1..Len(read) : Last(read[j]) < s[1],
         NEW offset, ReturnTrue(s, offset)
  PROVE  ReaderInv'
<1>1. /\ FileInv /\ WriterTypeOK /\ ReaderTypeOK /\ PosOK /\ ReadOK /\ log_num = LogNumber[log]
  BY DEF LogInv, FileInv, WriterInv, ReaderInv
<1>2. UNCHANGED <<disk, phys, log, base, initial_offset_, log_num>> /\ Grows
  BY <1>1, ReadsKeep, Zenon
<1>3. /\ PosOK' /\ Contig' /\ Advances
      /\ buffer_' \in Seq(Nat) /\ fpos' \in Nat /\ eof_offset_' \in Nat
      /\ End(p) <= fpos' /\ (\A i \in 1..Len(buffer_') : End(p) < buffer_'[i])
  BY TakenFacts, Zenon
<1>4. reader' = "idle" /\ read' = Append(read, s) /\ scratch' = scratch
  BY Zenon DEF ReturnTrue
<1>5. PICK n : n = Len(read)
  BY Zenon
<1>6. /\ n \in Nat /\ read' \in Seq(Seq(Nat)) /\ Len(read') = n + 1 /\ read'[n + 1] = s
      /\ \A j \in 1..n : read'[j] = read[j]
  <2>1. read \in Seq(Seq(Nat))
    BY <1>1, Zenon DEF ReaderTypeOK
  <2>2. /\ Len(read) \in Nat /\ Append(read, s) \in Seq(Seq(Nat))
        /\ Len(Append(read, s)) = Len(read) + 1 /\ Append(read, s)[Len(read) + 1] = s
        /\ \A j \in 1..Len(read) : Append(read, s)[j] = read[j]
    BY <2>1, AppendNext
  <2>. QED
    BY <1>4, <1>5, <2>2, Zenon
<1>7. ReaderTypeOK'
  BY <1>1, <1>2, <1>3, <1>4, <1>6, ZenonT(30) DEF ReaderTypeOK
<1>8. JumpOK' /\ FragOK'
  BY <1>3, <1>4, Zenon DEF JumpOK, FragOK
<1>9. ReadOK'
  <2>1. ASSUME NEW j \in 1..Len(read')
        PROVE  /\ Chain(read[j])' /\ Stops(Last(read[j]))'
               /\ End(Last(read[j]))' <= fpos'
               /\ \A i \in 1..Len(buffer_') : End(Last(read[j]))' < buffer_'[i]
    <3>1. CASE j \in 1..n
      BY <1>1, <1>2, <1>3, <1>5, <1>6, <3>1, ReadKeptOne, Zenon
    <3>2. CASE j = n + 1
      <4>1. read'[j] = s /\ Last(read[j])' = p
        BY <1>6, <3>2, Zenon DEF Last
      <4>2. Chain(s)' /\ Stops(p)' /\ End(p)' = End(p)
        BY <1>2, ChainKept, PhysKept, Zenon DEF Takes
      <4>3. Chain(read[j])'
        BY <4>1, <4>2, Zenon DEF Chain, Starts
      <4>4. Stops(Last(read[j]))' /\ End(Last(read[j]))' = End(p)
        BY <4>1, <4>2, Zenon DEF Stops, End, Location, Width
      <4>. QED
        BY <1>3, <4>3, <4>4, ZenonT(30)
    <3>3. j \in 1..(n + 1) /\ n \in Nat
      BY <1>6, Zenon
    <3>4. j \in 1..n \/ j = n + 1
      BY <3>3, UpToNext, Zenon
    <3>. QED
      BY <3>1, <3>2, <3>4, Zenon
  <2>2. ASSUME NEW i \in 1..Len(read'), NEW j \in 1..Len(read'), i < j
        PROVE  Last(read[i])' < read'[j][1]
    <3>1. i \in 1..n /\ read'[i] = read[i]
      <4>1. i \in 1..(n + 1) /\ j \in 1..(n + 1) /\ n \in Nat
        BY <1>6, Zenon
      <4>2. i \in 1..n
        BY <2>2, <4>1
      <4>. QED
        BY <1>6, <4>2, Zenon
    <3>2. Last(read[i])' = Last(read[i])
      BY <3>1, Zenon DEF Last
    <3>3. CASE j \in 1..n
      BY <1>1, <1>5, <1>6, <2>2, <3>1, <3>2, <3>3, ZenonT(30) DEF ReadOK
    <3>4. CASE j = n + 1
      BY <1>5, <1>6, <3>1, <3>2, <3>4, Zenon
    <3>. QED
      BY <1>6, <3>3, <3>4, UpToNext, Zenon
  <2>. QED
    BY <2>1, <2>2, Zenon DEF ReadOK
<1>. QED
  BY <1>1, <1>2, <1>3, <1>4, <1>7, <1>8, <1>9, Zenon DEF ReaderInv

\* A fragment is added to the record that is being gathered.
LEMMA GatherKeeps ==
  ASSUME LogInv, Reads, reader = "reading", Contig, NEW p, Takes(p), ~Stops(p),
         NEW s \in Seq(Nat), Chain(s), Last(s) = p, \A j \in 1..Len(read) : Last(read[j]) < s[1],
         NEW flag, Continue(flag, s)
  PROVE  ReaderInv'
<1>1. /\ FileInv /\ WriterTypeOK /\ ReaderTypeOK /\ PosOK /\ ReadOK /\ log_num = LogNumber[log]
  BY DEF LogInv, FileInv, WriterInv, ReaderInv
<1>2. UNCHANGED <<disk, phys, log, base, initial_offset_, log_num>> /\ Grows
  BY <1>1, ReadsKeep, Zenon
<1>3. /\ PosOK' /\ Contig' /\ Advances
      /\ buffer_' \in Seq(Nat) /\ fpos' \in Nat /\ eof_offset_' \in Nat
      /\ (buffer_' = <<>> /\ read_error_') \/ Cur' = End(p)
  BY TakenFacts, Zenon
<1>4. UNCHANGED <<reader, read>> /\ scratch' = s
  BY Zenon DEF Continue
<1>5. ReaderTypeOK'
  BY <1>1, <1>2, <1>3, <1>4, ZenonT(30) DEF ReaderTypeOK
<1>6. ReadOK'
  BY <1>1, <1>2, <1>3, <1>4, ReadKept, ZenonT(30)
<1>7. JumpOK'
  BY <1>3, Zenon DEF JumpOK
<1>8. FragOK'
  <2>1. Chain(s)' /\ ~Stops(p)' /\ End(p)' = End(p)
    BY <1>2, ChainKept, PhysKept, ZenonT(30) DEF Takes
  <2>2. Last(scratch)' = p
    BY <1>4, Zenon DEF Last
  <2>3. Chain(scratch)'
    BY <1>4, <2>1, ZenonT(30) DEF Chain, Starts
  <2>4. ~Stops(Last(scratch))' /\ End(Last(scratch))' = End(p)
    BY <2>1, <2>2, Zenon DEF Stops, End, Location, Width
  <2>5. \A j \in 1..Len(read) : Last(read[j])' < scratch'[1]
    BY <1>4, Zenon DEF Last
  <2>6. Seeks(End(Last(scratch)))'
    <3>1. CASE buffer_' = <<>> /\ read_error_'
      BY <3>1, Zenon DEF Seeks
    <3>2. CASE Cur' = End(p)
      BY <2>4, <3>2, Zenon DEF Seeks
    <3>. QED
      BY <1>3, <3>1, <3>2, ZenonT(30)
  <2>. QED
    BY <1>3, <1>4, <2>3, <2>4, <2>5, <2>6, ZenonT(30) DEF FragOK
<1>. QED
  BY <1>1, <1>2, <1>3, <1>4, <1>5, <1>6, <1>7, <1>8, ZenonT(30) DEF ReaderInv

\* The record that is being gathered goes on with the one that is taken.
LEMMA GatherNext ==
  ASSUME LogInv, Reads, reader = "reading", Contig, in_fragmented_record,
         NEW p, Takes(p), ~Starts(p)
  PROVE  /\ Append(scratch, p) \in Seq(Nat) /\ Chain(Append(scratch, p))
         /\ Last(Append(scratch, p)) = p
         /\ \A j \in 1..Len(read) : Last(read[j]) < Append(scratch, p)[1]
<1>1. /\ FileInv /\ WriterTypeOK /\ ReaderTypeOK /\ FragOK
  BY DEF LogInv, FileInv, WriterInv, ReaderInv
<1>2. /\ Chain(scratch) /\ ~Stops(Last(scratch)) /\ scratch \in Seq(Nat)
      /\ \A j \in 1..Len(read) : Last(read[j]) < scratch[1]
      /\ Seeks(End(Last(scratch)))
  BY <1>1, Zenon DEF FragOK, ReaderTypeOK
<1>3. buffer_ # <<>> /\ Cur = Location(p)
  BY TakenFacts
<1>4. PICK e, x : e = End(Last(scratch)) /\ x = Location(p)
  BY Zenon
<1>5. e \in Nat /\ x \in Nat /\ p \in 1..Len(phys) /\ phys[p].rec > base
  <2>1. Last(scratch) \in 1..Len(phys)
    BY <1>2, ChainLast, ZenonT(30)
  <2>. QED
    BY <1>1, <1>4, <2>1, PhysFacts, ZenonT(30) DEF Takes
<1>6. x = e \/ (e <= x /\ x < e + RecyclableHeaderSize)
  BY <1>2, <1>3, <1>4, Zenon DEF Seeks
<1>7. e <= x /\ x < e + RecyclableHeaderSize
  BY <1>5, <1>6, FormatAssumption
<1>. QED
  BY <1>1, <1>2, <1>4, <1>5, <1>7, LongerChain, Zenon

\* What ReadRecord does with a record of the log
LEMMA TypeKeeps ==
  ASSUME LogInv, Reads, reader = "reading", Contig, NEW p, Takes(p), OnType(p)
  PROVE  ReaderInv'
<1>1. WriterTypeOK /\ p \in 1..Len(phys) /\ phys[p].rec > base
  BY Zenon DEF LogInv, FileInv, WriterInv, Takes
<1>2. \A j \in 1..Len(read) : Last(read[j]) < p
  BY TakenFacts
<1>3. ASSUME ~in_fragmented_record, Drops PROVE ReaderInv'
  <2>1. Width(p) \in Nat
    BY <1>1, PhysFacts, Zenon
  <2>. QED
    BY <1>3, <2>1, DropOne, Zenon DEF Takes
<1>4. CASE phys[p].type = "Full" /\ OnFull(p)
  <2>1. Starts(p) /\ Stops(p) /\ ReturnTrue(<<p>>, physical_record_offset)
    BY <1>4, Zenon DEF Starts, Stops, OnFull
  <2>2. <<p>> \in Seq(Nat) /\ Chain(<<p>>) /\ Last(<<p>>) = p /\ <<p>>[1] = p
    BY <1>1, <2>1, SingleChain
  <2>. QED
    BY <1>2, <2>1, <2>2, ReturnKeeps, ZenonT(30)
<1>5. CASE phys[p].type = "First" /\ OnFirst(p)
  <2>1. Starts(p) /\ ~Stops(p) /\ Continue(TRUE, <<p>>)
    BY <1>5, Zenon DEF Starts, Stops, OnFirst
  <2>2. <<p>> \in Seq(Nat) /\ Chain(<<p>>) /\ Last(<<p>>) = p /\ <<p>>[1] = p
    BY <1>1, <2>1, SingleChain, Zenon
  <2>. QED
    BY <1>2, <2>1, <2>2, GatherKeeps, Zenon
<1>6. CASE phys[p].type = "Middle" /\ OnMiddle(p)
  <2>1. ~Starts(p) /\ ~Stops(p)
    BY <1>6 DEF Starts, Stops
  <2>2. CASE in_fragmented_record
    <3>1. Continue(in_fragmented_record, Append(scratch, p))
      BY <1>6, <2>2, Zenon DEF OnMiddle
    <3>. QED
      BY <2>1, <2>2, <3>1, GatherNext, GatherKeeps, ZenonT(30)
  <2>3. CASE ~in_fragmented_record
    <3>1. Drops
      BY <1>6, <2>3, Zenon DEF OnMiddle, Continue, Drops
    <3>. QED
      BY <1>3, <2>3, <3>1, Zenon
  <2>. QED
    BY <2>2, <2>3, Zenon
<1>7. CASE phys[p].type = "Last" /\ OnLast(p)
  <2>1. ~Starts(p) /\ Stops(p)
    BY <1>7 DEF Starts, Stops
  <2>2. CASE in_fragmented_record
    <3>1. ReturnTrue(Append(scratch, p), prospective_record_offset)
      BY <1>7, <2>2, Zenon DEF OnLast
    <3>. QED
      BY <2>1, <2>2, <3>1, GatherNext, ReturnKeeps, Zenon
  <2>3. CASE ~in_fragmented_record
    <3>1. Drops
      BY <1>7, <2>3, ContinueDrops, Zenon DEF OnLast
    <3>. QED
      BY <1>3, <2>3, <3>1
  <2>. QED
    BY <2>2, <2>3, Zenon
<1>. QED
  BY <1>4, <1>5, <1>6, <1>7, Zenon DEF OnType

\* A record that a reader which jumped finds in its buffer is one before the initial
\* offset to it.
LEMMA JumpedDrops ==
  ASSUME ReaderTypeOK, PosOK, reader = "reading", Jumped, ~TooShort
  PROVE  Below(end_of_buffer_offset_ - Len(buffer_), initial_offset_)
<1>1. PICK b, n, o : b = block_start_location /\ n = Len(buffer_) /\ o = initial_offset_
  BY Zenon
<1>2. /\ b \in Nat /\ b < o + HeaderSize /\ b >= BlockSize /\ end_of_buffer_offset_ = b
      /\ o \in Nat
  BY <1>1, BlockStart, Zenon DEF Jumped, ReaderTypeOK
<1>3. n \in Nat /\ n <= BlockSize /\ n >= HeaderSize
  BY <1>1, FormatAssumption DEF ReaderTypeOK, PosOK, TooShort
<1>4. 0 <= b - n /\ b - n < o
  BY <1>2, <1>3, FormatAssumption
<1>. QED
  BY <1>1, <1>2, <1>4 DEF Below

LEMMA BodyKeeps ==
  ASSUME LogInv, Reads, reader = "reading", ~TooShort, NEW h \in Headers, ReadBody(h)
  PROVE  ReaderInv'
<1>1. PICK size : size = HeaderLen(h.recyclable) + h.len
  BY Zenon
<1>2. CASE OtherLog(h) /\ UNCHANGED bufferVars /\ OnOldRecord
  BY <1>2, OldDrops, DropNone, Zenon
<1>3. CASE ClearBuffer /\ IF eof_ THEN OnEof(Len(buffer_)) ELSE OnDamaged(Len(buffer_))
  BY <1>3, EofDrops, DamagedDrops, DropAll, Zenon
<1>4. CASE ClearBuffer /\ OnBadRecord
  BY <1>4, BadDrops, DropAll
<1>5. CASE ClearBuffer /\ OnDamaged(Len(buffer_))
  BY <1>5, DamagedDrops, DropAll, Zenon
<1>6. CASE /\ ~OtherLog(h)
           /\ size <= Len(buffer_)
           /\ CrcOK(h)
           /\ buffer_' = SubSeq(buffer_, size + 1, Len(buffer_))
           /\ KeepFile
           /\ IF Below(end_of_buffer_offset_ - Len(buffer_), initial_offset_)
              THEN OnBadRecord ELSE OnType(h.p)
  <2>1. /\ h.p \in 1..Len(phys) /\ phys[h.p].rec > base
        /\ size = Width(h.p) /\ Width(h.p) <= Len(buffer_)
        /\ \A i \in 1..Width(h.p) : buffer_[i] = Location(h.p) + i
    BY <1>1, <1>6, ReadFacts, ZenonT(30)
  <2>2. Takes(h.p)
    BY <1>6, <2>1, Zenon DEF Takes
  <2>3. CASE OnBadRecord
    <3>1. WriterTypeOK
      BY DEF LogInv, FileInv, WriterInv
    <3>2. size \in Nat
      BY <2>1, <3>1, PhysFacts, Zenon
    <3>. QED
      BY <1>6, <2>3, <3>2, BadDrops, DropOne, Zenon
  <2>4. CASE /\ OnType(h.p)
             /\ ~Below(end_of_buffer_offset_ - Len(buffer_), initial_offset_)
    <3>1. Contig
      BY <2>4, JumpedDrops, Zenon DEF LogInv, ReaderInv, JumpOK
    <3>. QED
      BY <2>2, <2>4, <3>1, TypeKeeps, Zenon
  <2>. QED
    BY <1>6, <2>3, <2>4
<1>. QED
  BY <1>1, <1>2, <1>3, <1>4, <1>5, <1>6, Zenon DEF ReadBody

LEMMA RoundKeeps ==
  ASSUME LogInv, Reads, ReadHeader \/ ReadPhysicalRecord
  PROVE  ReaderInv'
<1>1. CASE ReadHeader
  <2>1. reader = "reading" /\ Len(buffer_) < HeaderSize /\ More
    BY <1>1 DEF ReadHeader, TooShort
  <2>2. Len(buffer_) \in Nat
    BY DEF LogInv, ReaderInv, ReaderTypeOK
  <2>3. Len(buffer_) < RecyclableHeaderSize
    BY <2>1, <2>2, FormatAssumption
  <2>. QED
    BY <2>1, <2>3, MoreKeeps, Zenon
<1>2. CASE ReadPhysicalRecord
  <2>1. reader = "reading" /\ ~TooShort
    BY <1>2, Zenon DEF ReadPhysicalRecord
  <2>2. PICK h \in Headers : IF h.recyclable /\ Len(buffer_) < RecyclableHeaderSize
                             THEN More
                             ELSE ReadBody(h)
    BY <1>2, Zenon DEF ReadPhysicalRecord
  <2>. QED
    BY <2>1, <2>2, MoreKeeps, BodyKeeps, Zenon
<1>. QED
  BY <1>1, <1>2

\* A reader that is opened, and a call of ReadRecord that begins or that fails to
\* find the initial block
LEMMA OpenKeeps ==
  ASSUME LogInv, UNCHANGED <<fileVars, writerVars>>, Open(log_number_)
  PROVE  ReaderInv'
<1>1. /\ WriterTypeOK /\ ReaderTypeOK /\ PosOK /\ buffer_ = <<>> /\ read = <<>>
  BY Zenon DEF LogInv, FileInv, WriterInv, ReaderInv, Open
<1>2. /\ reader' = "idle" /\ log_num' = LogNumber[log]
      /\ UNCHANGED <<initial_offset_, fpos, buffer_, eof_, read_error_, eof_offset_, scratch, read>>
      /\ UNCHANGED <<disk, log>>
  BY Zenon DEF Open, log_number_, bufferVars, callVars, fileVars, writerVars
<1>3. ReaderTypeOK' /\ PosOK'
  BY <1>1, <1>2, Zenon DEF ReaderTypeOK, PosOK
<1>4. JumpOK'
  BY <1>1, <1>2, NothingInEmpty, Zenon DEF JumpOK, Contig
<1>5. FragOK' /\ ReadOK'
  BY <1>1, <1>2 DEF FragOK, ReadOK
<1>. QED
  BY <1>2, <1>3, <1>4, <1>5, Zenon DEF ReaderInv

LEMMA StartKeeps ==
  ASSUME LogInv, Reads, ReadRecord
  PROVE  ReaderInv'
<1>1. /\ WriterTypeOK /\ ReaderTypeOK /\ PosOK /\ JumpOK /\ ReadOK /\ log_num = LogNumber[log]
  BY DEF LogInv, FileInv, WriterInv, ReaderInv, ReadRecord
<1>2. /\ UNCHANGED <<disk, phys, log, base, initial_offset_, log_num>> /\ Grows
      /\ block_start_location' = block_start_location
  BY <1>1, ReadsKeep, Zenon
<1>3. /\ reader' = "reading" /\ scratch' = <<>> /\ ~in_fragmented_record'
      /\ UNCHANGED <<buffer_, eof_, read_error_, eof_offset_, last_record_offset_, read>>
      /\ IF MustSkip
         THEN /\ fpos' = fpos + block_start_location
              /\ end_of_buffer_offset_' = block_start_location
         ELSE UNCHANGED <<fpos, end_of_buffer_offset_>>
  BY DEF ReadRecord
<1>4. block_start_location \in Nat /\ (block_start_location = 0 \/ block_start_location >= BlockSize)
  BY <1>1, BlockStart, Zenon
<1>5. fpos \in Nat /\ fpos' \in Nat /\ fpos' >= fpos
  <2>1. fpos \in Nat
    BY <1>1, Zenon DEF ReaderTypeOK
  <2>. QED
    BY <1>3, <1>4, <2>1
<1>6. ReaderTypeOK'
  <2>1. <<>> \in Seq(Nat)
    OBVIOUS
  <2>. QED
    BY <1>1, <1>2, <1>3, <1>5, <2>1, Zenon DEF ReaderTypeOK
<1>7. buffer_ \in Seq(Nat) /\ \A i \in 1..Len(buffer_) : buffer_[i] \in Nat
  BY <1>1 DEF ReaderTypeOK
<1>8. PosOK' /\ Advances
  <2>1. ASSUME NEW i \in 1..Len(buffer_) PROVE buffer_[i] \in 1..Len(disk) /\ buffer_[i] <= fpos'
    <3>1. buffer_[i] \in Nat /\ buffer_[i] <= fpos /\ buffer_[i] \in 1..Len(disk)
      BY <1>1, <1>7, Zenon DEF PosOK
    <3>. QED
      BY <1>5, <3>1
  <2>2. PosOK'
    BY <1>1, <1>2, <1>3, <2>1, Zenon DEF PosOK
  <2>3. Advances
    BY <1>3, <1>5 DEF Advances
  <2>. QED
    BY <2>2, <2>3, Zenon
<1>9. JumpOK'
  <2>1. MustSkip' <=> MustSkip
    BY <1>2, <1>3, Zenon DEF MustSkip, Below
  <2>2. CASE MustSkip /\ block_start_location >= BlockSize
    BY <1>2, <1>3, <2>1, <2>2, Zenon DEF JumpOK, Jumped
  <2>3. CASE ~(MustSkip /\ block_start_location >= BlockSize)
    <3>1. Contig
      BY <1>1, <2>3, Zenon DEF JumpOK, Jumped
    <3>2. fpos' = fpos
      BY <1>3, <1>4, <1>5, <2>3, FormatAssumption
    <3>. QED
      BY <1>3, <3>1, <3>2, Zenon DEF JumpOK, Contig
  <2>. QED
    BY <2>2, <2>3
<1>10. ReadOK'
  BY <1>1, <1>2, <1>3, <1>7, <1>8, ReadKept, Zenon
<1>11. FragOK'
  BY <1>3, Zenon DEF FragOK
<1>. QED
  BY <1>1, <1>2, <1>3, <1>6, <1>8, <1>9, <1>10, <1>11, ZenonT(30) DEF ReaderInv

LEMMA SkipFailsKeeps ==
  ASSUME LogInv, Reads, SkipFails
  PROVE  ReaderInv'
<1>1. WriterTypeOK /\ ReaderTypeOK /\ PosOK /\ JumpOK
  BY DEF LogInv, FileInv, WriterInv, ReaderInv
<1>2. /\ reader = "idle" /\ reader' = "ended"
      /\ UNCHANGED <<buffer_, fpos, eof_, read_error_, eof_offset_, last_record_offset_>>
      /\ UNCHANGED <<scratch, read>>
  BY DEF SkipFails, callVars
<1>3. UNCHANGED <<disk, initial_offset_>> /\ Len(disk) \in Nat
      /\ block_start_location' = block_start_location
  BY <1>1, ReadsKeep, Zenon
<1>4. PosOK' /\ (Contig => Contig') /\ Advances
  BY <1>1, <1>2, <1>3, BufferSame
<1>5. JumpOK'
  <2>1. Jumped => Jumped'
    BY <1>2, <1>3, Zenon DEF Jumped, MustSkip, Below
  <2>. QED
    BY <1>1, <1>4, <2>1, Zenon DEF JumpOK
<1>6. Drops
  BY <1>2 DEF Drops
<1>7. buffer_' \in Seq(Nat) /\ eof_offset_' \in Nat
  BY <1>1, <1>2, Zenon DEF ReaderTypeOK
<1>. QED
  BY <1>2, <1>4, <1>5, <1>6, <1>7, DropKeeps, Zenon

LEMMA LookAgainKeeps ==
  ASSUME LogInv, Reads, LookAgain
  PROVE  ReaderInv'
<1>1. /\ FileInv /\ WriterTypeOK /\ ReaderTypeOK /\ PosOK /\ JumpOK
  BY Zenon DEF LogInv, FileInv, WriterInv, ReaderInv
<1>2. /\ reader = "ended" /\ reader' = "idle" /\ ~read_error_
      /\ UNCHANGED <<last_record_offset_, scratch, read>>
  BY DEF LookAgain, UnmarkEOF, UnmarkEOFFails, callVars
<1>3. UNCHANGED <<disk, initial_offset_>> /\ Len(disk) \in Nat
      /\ block_start_location' = block_start_location
  BY <1>1, ReadsKeep
<1>4. Drops
  BY <1>2 DEF Drops
<1>5. Jumped => Jumped'
  BY <1>2, <1>3, Zenon DEF Jumped, MustSkip, Below
<1>6. SUFFICES /\ PosOK' /\ (Contig => Contig') /\ Advances
               /\ buffer_' \in Seq(Nat) /\ eof_offset_' \in Nat
  <2>1. JumpOK'
    BY <1>1, <1>5, <1>6, Zenon DEF JumpOK
  <2>. QED
    BY <1>2, <1>4, <1>6, <2>1, DropKeeps, Zenon
<1>7. CASE UnmarkEOF /\ eof_offset_ = 0
  <2>1. /\ UNCHANGED <<fpos, buffer_, eof_offset_, read_error_>>
    BY <1>7 DEF UnmarkEOF
  <2>2. fpos \in Nat /\ buffer_ \in Seq(Nat) /\ eof_offset_ \in Nat
    BY <1>1, Zenon DEF ReaderTypeOK
  <2>3. PosOK'
    BY <1>1, <1>3, <1>7, <2>1, Zenon DEF PosOK
  <2>4. Contig => Contig'
    BY <2>1 DEF Contig
  <2>5. Advances
    BY <2>1, <2>2 DEF Advances
  <2>. QED
    BY <2>1, <2>2, <2>3, <2>4, <2>5, Zenon
<1>8. CASE UnmarkEOF /\ eof_offset_ # 0
  <2>1. /\ fpos' = fpos + Len(Chunk(remaining))
        /\ buffer_' = buffer_ \o Chunk(remaining)
        /\ eof_' = (Len(Chunk(remaining)) < remaining)
        /\ eof_offset_' = IF Len(Chunk(remaining)) < remaining
                          THEN eof_offset_ + Len(Chunk(remaining)) ELSE 0
        /\ UNCHANGED read_error_
    BY <1>8 DEF UnmarkEOF
  <2>. QED
    BY <1>1, <1>2, <1>3, <1>8, <2>1, BufferExtended, Zenon
<1>9. ASSUME NEW n \in 0..BlockSize, UnmarkEOFFails(n)
      PROVE  /\ PosOK' /\ (Contig => Contig') /\ Advances
             /\ buffer_' \in Seq(Nat) /\ eof_offset_' \in Nat
  <2>1. /\ fpos' = fpos + Len(Chunk(n)) /\ read_error_'
        /\ UNCHANGED <<buffer_, eof_offset_>>
    BY <1>9 DEF UnmarkEOFFails
  <2>2. Len(Chunk(n)) \in Nat
    <3>1. n \in Nat
      BY <1>9, FormatAssumption
    <3>. QED
      BY <1>1, <3>1, ChunkFacts, Zenon
  <2>3. fpos \in Nat /\ buffer_ \in Seq(Nat) /\ eof_offset_ \in Nat
    BY <1>1 DEF ReaderTypeOK
  <2>4. fpos' \in Nat /\ fpos' >= fpos
    BY <2>1, <2>2, <2>3
  <2>5. ASSUME NEW i \in 1..Len(buffer_) PROVE buffer_[i] \in 1..Len(disk) /\ buffer_[i] <= fpos'
    <3>1. buffer_[i] \in Nat /\ buffer_[i] <= fpos /\ buffer_[i] \in 1..Len(disk)
      BY <1>1, <2>3 DEF PosOK
    <3>. QED
      BY <2>3, <2>4, <3>1
  <2>6. PosOK'
    BY <1>1, <1>3, <2>1, <2>5, Zenon DEF PosOK
  <2>7. Contig => Contig'
    BY <2>1, Zenon DEF Contig
  <2>8. Advances
    BY <2>1, <2>4 DEF Advances
  <2>. QED
    BY <2>1, <2>3, <2>6, <2>7, <2>8, Zenon
<1>. QED
  BY <1>7, <1>8, <1>9 DEF LookAgain

LEMMA InitLogInv == Init => LogInv
<1>1. SUFFICES ASSUME Init PROVE LogInv
  OBVIOUS
<1>2. FileInv
  BY <1>1, InitFileInv
<1>3. /\ reader = "none" /\ initial_offset_ \in Offset /\ fpos = 0 /\ buffer_ = <<>>
      /\ eof_offset_ = 0 /\ scratch = <<>> /\ read = <<>>
  BY <1>1 DEF Init, ReaderInit
<1>4. ReaderTypeOK
  <2>1. <<>> \in Seq(Nat) /\ <<>> \in Seq(Seq(Nat))
    OBVIOUS
  <2>2. initial_offset_ \in Nat
    BY <1>3, ReaderAssumption
  <2>. QED
    BY <1>3, <2>1, <2>2 DEF ReaderTypeOK
<1>5. PosOK
  BY <1>3, FormatAssumption DEF PosOK
<1>6. JumpOK
  BY <1>3, NothingInEmpty, Zenon DEF JumpOK, Contig
<1>7. FragOK /\ ReadOK
  BY <1>3 DEF FragOK, ReadOK
<1>. QED
  BY <1>2, <1>3, <1>4, <1>5, <1>6, <1>7, Zenon DEF LogInv, ReaderInv

LEMMA NextLogInv == LogInv /\ [Next]_vars => LogInv'
<1>1. SUFFICES ASSUME LogInv, [Next]_vars PROVE LogInv'
  OBVIOUS
<1>2. FileInv'
  BY <1>1, NextFileInv DEF LogInv
<1>3. CASE UNCHANGED vars
  <2>1. UNCHANGED <<disk, phys, log, base>> /\ UNCHANGED readerVars
    BY <1>3 DEF vars, fileVars, writerVars
  <2>2. Len(disk) \in Nat /\ Len(phys) \in Nat
    <3>1. disk \in Seq(Cell) /\ phys \in Seq(Record)
      BY <1>1 DEF LogInv, FileInv, WriterInv, WriterTypeOK, Cell, Record
    <3>. QED
      BY <3>1
  <2>3. Grows
    BY <2>1, <2>2 DEF Grows
  <2>4. ReaderInv'
    BY <1>1, <2>1, <2>2, <2>3, ReaderKept
  <2>. QED
    BY <1>2, <2>4 DEF LogInv
<1>4. CASE Write \/ Rot
  BY <1>1, <1>2, <1>4, WriteKept, Zenon DEF LogInv
<1>5. CASE Read
  <2>1. UNCHANGED <<fileVars, writerVars>>
    BY <1>5 DEF Read
  <2>2. CASE Open(log_number_)
    BY <1>1, <1>2, <2>1, <2>2, OpenKeeps, ZenonT(30) DEF LogInv
  <2>3. ASSUME ReaderStep \/ LookAgain PROVE Reads
    BY <2>1, <2>3 DEF Reads, ReaderStep, ReadRecord, SkipFails, ReadHeader, ReadPhysicalRecord,
                      LookAgain
  <2>4. CASE ReadRecord
    BY <1>1, <1>2, <2>3, <2>4, StartKeeps, Zenon DEF LogInv, ReaderStep
  <2>5. CASE SkipFails
    BY <1>1, <1>2, <2>3, <2>5, SkipFailsKeeps, Zenon DEF LogInv, ReaderStep
  <2>6. CASE ReadHeader \/ ReadPhysicalRecord
    BY <1>1, <1>2, <2>3, <2>6, RoundKeeps, Zenon DEF LogInv, ReaderStep
  <2>7. CASE LookAgain
    BY <1>1, <1>2, <2>3, <2>7, LookAgainKeeps, Zenon DEF LogInv
  <2>. QED
    BY <1>5, <2>2, <2>4, <2>5, <2>6, <2>7, Zenon DEF Read, ReaderStep
<1>. QED
  BY <1>1, <1>3, <1>4, <1>5, Zenon DEF Next

-----------------------------------------------------------------------------
(* What ReadRecord returns.                                                *)

\* Physical records are in the order of their records, and one that starts a
\* record comes after all of the records before.
LEMMA PhysOrdered ==
  ASSUME PhysOK, NEW p \in 1..Len(phys), NEW q \in 1..Len(phys), p < q
  PROVE  phys[p].rec <= phys[q].rec /\ (Starts(q) => phys[p].rec < phys[q].rec)
BY Zenon DEF PhysOK

\* A chain that ends its record has all the fragments of it.
LEMMA ChainIsRecord ==
  ASSUME FileInv, NEW s \in Seq(Nat), Chain(s), Stops(Last(s))
  PROVE  Range(s) = {p \in 1..Len(phys) : phys[p].rec = phys[s[1]].rec}
<1>1. WriterTypeOK /\ PhysOK
  BY DEF FileInv, WriterInv
<1>2. PICK a, l, n : a = s[1] /\ l = Last(s) /\ n = Len(s)
  BY Zenon
<1>3. /\ n \in 1..n /\ 1 \in 1..n /\ l = a + n - 1
      /\ a \in 1..Len(phys) /\ l \in 1..Len(phys) /\ phys[l].rec = phys[a].rec
      /\ Starts(a) /\ Stops(l)
      /\ \A i \in 1..n : /\ s[i] \in 1..Len(phys)
                         /\ s[i] = a + i - 1 /\ phys[s[i]].rec = phys[a].rec
  BY <1>2, ChainLast, Zenon DEF Chain
<1>4. n \in Nat /\ a \in Nat /\ l \in Nat /\ Len(phys) \in Nat
  <2>1. n \in Nat
    BY <1>2
  <2>2. a \in Nat /\ l \in Nat /\ Len(phys) \in Nat
    BY <1>1, <1>3, PhysFacts, Zenon
  <2>. QED
    BY <2>1, <2>2, Zenon
<1>5. ASSUME NEW p \in 1..Len(phys), phys[p].rec = phys[a].rec
      PROVE  p \in a..l
  <2>1. p \in Nat /\ phys[p].rec \in Nat /\ phys[a].rec \in Nat
    BY <1>1, <1>3, PhysFacts, ZenonT(30)
  <2>2. ~(p < a)
    <3>1. p < a => phys[p].rec < phys[a].rec
      BY <1>1, <1>3, PhysOrdered, Zenon
    <3>. QED
      BY <1>5, <2>1, <3>1
  <2>3. ~(l < p)
    <3>1. SUFFICES ASSUME l < p PROVE FALSE
      OBVIOUS
    <3>2. PICK m : m = l + 1
      BY Zenon
    <3>3. m \in 1..Len(phys) /\ l < m /\ m \in Nat /\ m <= p
      BY <1>4, <2>1, <3>1, <3>2
    <3>4. phys[l].rec <= phys[m].rec /\ (Starts(m) => phys[l].rec < phys[m].rec)
      BY <1>1, <1>3, <3>3, PhysOrdered, Zenon
    <3>6. phys[m].rec \in Nat
      BY <1>1, <3>3, PhysFacts, Zenon
    <3>5. phys[m].rec <= phys[p].rec
      <4>1. m < p => phys[m].rec <= phys[p].rec
        BY <1>1, <3>3, PhysOrdered, Zenon
      <4>2. m = p \/ m < p
        <5>1. m \in Nat /\ p \in Nat /\ m <= p
          BY <2>1, <3>3, Zenon
        <5>. QED
          BY <5>1
      <4>. QED
        BY <3>6, <4>1, <4>2
    <3>7. ~Starts(m)
      <4>1. PICK x, y : x = phys[a].rec /\ y = phys[m].rec
        BY Zenon
      <4>2. x \in Nat /\ y \in Nat /\ y <= x /\ (Starts(m) => x < y)
        BY <1>3, <1>5, <2>1, <3>4, <3>5, <3>6, <4>1, Zenon
      <4>. QED
        BY <4>2
    <3>8. m - 1 = l
      BY <1>4, <3>2
    <3>9. ~Stops(l)
      BY <1>1, <3>3, <3>7, <3>8, Zenon DEF PhysOK
    <3>. QED
      BY <1>3, <3>9, Zenon
  <2>. QED
    BY <1>4, <2>1, <2>2, <2>3
<1>6. ASSUME NEW p \in a..l PROVE p \in Range(s)
  <2>1. p - a + 1 \in 1..n /\ a + (p - a + 1) - 1 = p
    BY <1>3, <1>4, NumberOf, ZenonT(30)
  <2>2. s[p - a + 1] = p
    BY <1>3, <2>1, Zenon
  <2>3. DOMAIN s = 1..n
    BY <1>2
  <2>. QED
    BY <2>1, <2>2, <2>3, Zenon DEF Range
<1>7. ASSUME NEW p \in Range(s) PROVE p \in 1..Len(phys) /\ phys[p].rec = phys[a].rec
  <2>1. PICK i \in DOMAIN s : p = s[i]
    BY DEF Range
  <2>2. i \in 1..n
    BY <1>2
  <2>. QED
    BY <1>3, <2>1, <2>2, Zenon
<1>. QED
  BY <1>2, <1>5, <1>6, <1>7, Zenon

LEMMA WholeFromInv == LogInv => ReadRecordsAreWhole
<1>1. SUFFICES ASSUME LogInv PROVE ReadRecordsAreWhole
  OBVIOUS
<1>2. FileInv /\ WriterTypeOK /\ PhysOK /\ ReaderTypeOK /\ ReadOK
  BY <1>1 DEF LogInv, FileInv, WriterInv, ReaderInv
<1>3. ASSUME NEW i \in 1..Len(read)
      PROVE  /\ read[i] \in Seq(Nat) /\ Chain(read[i]) /\ Stops(Last(read[i]))
             /\ Head(read[i]) = read[i][1]
             /\ read[i][1] \in 1..Len(phys) /\ Last(read[i]) \in 1..Len(phys)
             /\ phys[Last(read[i])].rec = phys[read[i][1]].rec
             /\ 1 \in 1..Len(read[i])
  <2>1. read[i] \in Seq(Nat) /\ Chain(read[i]) /\ Stops(Last(read[i]))
    <3>1. read \in Seq(Seq(Nat))
      BY <1>2, Zenon DEF ReaderTypeOK
    <3>2. read[i] \in Seq(Nat)
      BY <3>1
    <3>3. Chain(read[i]) /\ Stops(Last(read[i]))
      BY <1>2, Zenon DEF ReadOK
    <3>. QED
      BY <3>2, <3>3, Zenon
  <2>2. Head(read[i]) = read[i][1]
    <3>1. read[i] \in Seq(Nat) /\ read[i] # <<>>
      BY <2>1, Zenon DEF Chain
    <3>. QED
      BY <3>1
  <2>. QED
    BY <2>1, <2>2, ChainLast, ZenonT(30)
<1>4. ASSUME NEW i \in 1..Len(read)
      PROVE  LET r == phys[Head(read[i])].rec IN
             /\ r > base
             /\ Range(read[i]) = {p \in 1..Len(phys) : phys[p].rec = r}
             /\ \A k, l \in 1..Len(read[i]) : k < l => read[i][k] < read[i][l]
             /\ phys[Last(read[i])].type \in {"Full", "Last"}
  <2>1. PICK s : s = read[i]
    BY Zenon
  <2>2. s \in Seq(Nat) /\ Chain(s) /\ Stops(Last(s)) /\ Head(s) = s[1] /\ 1 \in 1..Len(s)
    BY <1>3, <2>1, Zenon
  <2>3. phys[Head(s)].rec > base
    BY <2>2, Zenon DEF Chain
  <2>4. Range(s) = {p \in 1..Len(phys) : phys[p].rec = phys[Head(s)].rec}
    BY <1>2, <2>2, ChainIsRecord, Zenon
  <2>5. ASSUME NEW k \in 1..Len(s), NEW l \in 1..Len(s), k < l
        PROVE  s[k] < s[l]
    <3>1. s[k] = s[1] + k - 1 /\ s[l] = s[1] + l - 1 /\ s[1] \in Nat
      BY <2>2, ItemOfSeq, Zenon DEF Chain
    <3>. QED
      BY <2>5, <3>1, InSuccession, Position, Zenon
  <2>6. phys[Last(s)].type \in {"Full", "Last"}
    BY <2>2 DEF Stops
  <2>. QED
    BY <2>1, <2>3, <2>4, <2>5, <2>6, Zenon
<1>5. ASSUME NEW i \in 1..Len(read), NEW j \in 1..Len(read), i < j
      PROVE  phys[Head(read[i])].rec < phys[Head(read[j])].rec
  <2>1. PICK l, q : l = Last(read[i]) /\ q = read[j][1]
    BY Zenon
  <2>2. /\ l \in 1..Len(phys) /\ q \in 1..Len(phys) /\ l < q /\ Starts(q)
        /\ phys[l].rec = phys[Head(read[i])].rec /\ phys[q].rec = phys[Head(read[j])].rec
    BY <1>2, <1>3, <1>5, <2>1, Zenon DEF ReadOK, Chain
  <2>. QED
    BY <1>2, <2>2, Zenon DEF PhysOK
<1>. QED
  BY <1>4, <1>5, Zenon DEF ReadRecordsAreWhole

\* Whatever the writer did, wherever it failed or died, whatever byte was damaged and
\* whatever an older log left in the file: from every initial offset, in every mode and
\* also while the file grows, ReadRecord returns only records of this log, each with
\* all of its fragments and in the order in which they were added.
THEOREM ReadsCorrect == Spec => []ReadRecordsAreWhole
<1>1. Init => LogInv
  BY InitLogInv
<1>2. LogInv /\ [Next]_vars => LogInv'
  BY NextLogInv
<1>3. LogInv => ReadRecordsAreWhole
  BY WholeFromInv
<1>. QED
  BY <1>1, <1>2, <1>3, PTL DEF Spec

=============================================================================
