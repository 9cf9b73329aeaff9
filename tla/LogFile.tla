-------------------------------- MODULE LogFile --------------------------------
(***************************************************************************)
(* A log file and its format (rutil/log_format.h).  The file is a sequence *)
(* of cells, each standing for a byte.  A physical record is a header of   *)
(* HeaderSize or RecyclableHeaderSize cells followed by its payload.  The  *)
(* cell <<p, i>> is the i-th byte of physical record p, so a stretch of    *)
(* cells has the checksum of p if and only if it is p, whole and intact.   *)
(***************************************************************************)
EXTENDS Integers, Sequences, Functions

CONSTANTS
  BlockSize,             \* kBlockSize, 32768
  HeaderSize,            \* kHeaderSize, 7
  RecyclableHeaderSize,  \* kRecyclableHeaderSize, 11
  Recycle                \* recycle_log_files_

ASSUME FormatAssumption ==
  /\ HeaderSize \in Nat \ {0} /\ RecyclableHeaderSize \in Nat /\ BlockSize \in Nat
  /\ HeaderSize < RecyclableHeaderSize /\ RecyclableHeaderSize < BlockSize
  /\ Recycle \in BOOLEAN

VARIABLES
  disk,      \* the bytes of the file that survive a crash of the writer and
             \* that a reader sees
  dpos,      \* where the next byte that leaves the writer goes
  pending,   \* the bytes on their way from the writer to the file
  phys       \* history: the physical records ever formatted

fileVars == <<disk, dpos, pending, phys>>

Zero   == <<0, 0>>      \* a zero byte: a trailer
Broken == <<0, 1>>      \* a byte that is not what was written

Type == {"Full", "First", "Middle", "Last"}

\* As in SequencesExt, whose other operators the proofs have no use for
Last(s) == s[Len(s)]

HeaderLen(recyclable) == IF recyclable THEN RecyclableHeaderSize ELSE HeaderSize

\* The bytes of physical record number p, whose payload has n bytes
CellsOf(p, n) == [i \in 1..(HeaderLen(Recycle) + n) |-> <<p, i>>]

\* The file after the cells have been written at offset pos
Overwritten(pos, cells) ==
  [i \in 1..(IF pos + Len(cells) > Len(disk) THEN pos + Len(cells) ELSE Len(disk)) |->
     IF i > pos /\ i <= pos + Len(cells) THEN cells[i - pos] ELSE disk[i]]

\* The first n bytes under way reach the file, in order and in whatever pieces
\* the operating system chooses.
Deliver(n) ==
  /\ n \in 1..Len(pending)
  /\ disk' = Overwritten(dpos, SubSeq(pending, 1, n))
  /\ dpos' = dpos + n
  /\ pending' = SubSeq(pending, n + 1, Len(pending))
  /\ UNCHANGED phys

=============================================================================
