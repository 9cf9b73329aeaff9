----------------------------- MODULE WriteAheadLog -----------------------------
(***************************************************************************)
(* A log::Writer and a log::Reader on one file.  Without Tailing the file  *)
(* is read after its writer is gone (recovery); with it the reader follows *)
(* the writer.                                                             *)
(***************************************************************************)
EXTENDS LogWriter, LogReader

CONSTANTS
  Tailing,     \* whether the reader may be opened while the writer works
  WholeOnly,   \* whether bytes reach the file only as whole records
  Damage       \* whether a byte of the file may be damaged

ASSUME LogAssumption == Tailing \in BOOLEAN /\ WholeOnly \in BOOLEAN /\ Damage \in BOOLEAN

VARIABLE damaged

vars == <<fileVars, writerVars, readerVars, damaged>>

Init == WriterInit /\ ReaderInit /\ damaged = FALSE

\* A reader's buffer is a copy, which the model keeps as positions in the file:
\* no byte changes once a reader is there.  New ones may come.  Without Tailing
\* nobody sees the file before the writer is gone: what has reached it by then is
\* left to Crash.
Write ==
  /\ reader = "none" \/ (Tailing /\ ~Recycle)
  /\ \/ /\ \/ \E size \in Size : AddRecord(size)
           \/ EmitPhysicalRecord
           \/ \E k \in 0..(2 * BlockSize) : ~WholeOnly /\ EmitFails(k)
           \/ \E n \in 0..Len(pending) : (WholeOnly => n = 0) /\ Crash(n)
           \/ Reuse
     \/ /\ Tailing
        /\ \E n \in 1..Len(pending) :
             /\ WholeOnly => writer # "adding" /\ n = Len(pending)
             /\ Deliver(n)
        /\ UNCHANGED writerVars
  /\ UNCHANGED <<readerVars, damaged>>

\* A byte of the file is not what it was.
Rot ==
  /\ Damage /\ ~damaged
  /\ writer = "gone" /\ reader = "none"
  /\ \E i \in 1..Len(disk) : disk' = [disk EXCEPT ![i] = Broken]
  /\ damaged' = TRUE
  /\ UNCHANGED <<dpos, pending, phys, writerVars, readerVars>>

ReaderStep == ReadRecord \/ SkipFails \/ ReadHeader \/ ReadPhysicalRecord

Read ==
  /\ \/ Open(log_number_) /\ (writer = "gone" \/ Tailing)
     \/ ReaderStep
     \/ Tailing /\ LookAgain
  /\ UNCHANGED <<fileVars, writerVars, damaged>>

Next == Write \/ Rot \/ Read

Spec == Init /\ [][Next]_vars

\* A reader that is in use gets on; nothing is assumed of the writer.
FairSpec == Spec /\ WF_vars(Read)

-----------------------------------------------------------------------------
(* Properties.                                                             *)

Location(p) == phys[p].block * BlockSize + phys[p].offset

\* Physical record p is on the file, whole and intact.
OnFile(p) ==
  LET n == HeaderLen(Recycle) + phys[p].len IN
  /\ Location(p) + n <= Len(disk)
  /\ \A i \in 1..n : disk[Location(p) + i] = <<p, i>>

\* The fragments of record r, in order
Fragments(r) == SelectSeq([p \in 1..Len(phys) |-> p], LAMBDA p : phys[p].rec = r)

Complete(r) ==
  LET f == Fragments(r) IN
  /\ f # <<>>
  /\ phys[Last(f)].type \in {"Full", "Last"}
  /\ \A p \in Range(f) : OnFile(p)

\* The complete records of this log that start at or after initial_offset_
Expected ==
  LET records == [i \in 1..(RecordCount - base) |-> base + i]
  IN  SelectSeq(records,
                LAMBDA r : Complete(r) /\ Location(Head(Fragments(r))) >= initial_offset_)

\* The reader invents nothing and mixes nothing up: what it returns are records
\* of this log, each with exactly its own fragments, in the order they were
\* added, whatever the crash, the damage and the remains of the log before.
ReadRecordsAreWhole ==
  /\ \A i \in 1..Len(read) : LET r == phys[Head(read[i])].rec IN
       /\ r > base
       /\ Range(read[i]) = {p \in 1..Len(phys) : phys[p].rec = r}
       /\ \A k, l \in 1..Len(read[i]) : k < l => read[i][k] < read[i][l]
       /\ phys[Last(read[i])].type \in {"Full", "Last"}
  /\ \A i, j \in 1..Len(read) :
       i < j => phys[Head(read[i])].rec < phys[Head(read[j])].rec

\* The file could not be read, or not be positioned: SkipToInitialBlock has moved
\* end_of_buffer_offset_ on and the file stayed where it was.
Failed == read_error_ \/ fpos < end_of_buffer_offset_

\* What a reader has returned when ReadRecord says that there is no more is every
\* record that was completely on the file, wherever the crash cut it off.
RecoversAll ==
  (reader = "ended" /\ ~Failed /\ ~damaged)
    => Len(read) = Len(Expected)

\* A crash is not a corruption: when a log is read from its start, only
\* AbsoluteConsistency reports the torn end of it, and only if there is one.
\* (From another offset a middle or last fragment whose record began before it
\* is reported as well.)
CrashIsNoCorruption ==
  (reported /\ ~Failed /\ ~damaged /\ initial_offset_ = 0)
    => /\ mode = "AbsoluteConsistency" \/ (Recycle /\ mode # "TolerateCorruptedTail")
       /\ \E i \in 1..Len(disk) :
            \/ disk[i] = Zero
            \/ ~Complete(phys[disk[i][1]].rec)
            \/ phys[disk[i][1]].rec <= base

\* AbsoluteConsistency does not pass over a record that began and did not end.
TornTailIsReported ==
  (reader = "ended" /\ mode = "AbsoluteConsistency" /\ initial_offset_ = 0 /\ ~damaged)
    => (\A i \in 1..Len(disk) : disk[i] # Zero => Complete(phys[disk[i][1]].rec))
       \/ reported

\* The end of a log that a crash left behind is reported by the mode that asks for it,
\* and by no other.
TornTailIsToldApart == CrashIsNoCorruption /\ TornTailIsReported


\* LastRecordOffset() is the physical offset of the last record returned.
LastOffsetIsPhysical ==
  (reader = "idle" /\ read # <<>>)
    => last_record_offset_ = Location(Head(Last(read)))

-----------------------------------------------------------------------------
(* Values of the constants that a configuration names.                     *)

OneLog == <<1>>
TwoLogs == <<1, 2>>
StoppingModes == {"TolerateCorruptedTail", "AbsoluteConsistency", "PointInTime"}
AllModes == StoppingModes \cup {"SkipAnyCorrupted"}
=============================================================================
