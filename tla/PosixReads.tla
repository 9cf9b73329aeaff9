------------------------------ MODULE PosixReads ------------------------------
(***************************************************************************)
(* The loops around pread (rutil/io_posix.cc): PosixRandomAccessFile::Read  *)
(* ("random"), DirectIORead with ReadAligned and ReadUnaligned ("direct")   *)
(* and PosixRandomRWFile::Read ("rw"), of one thread with its errno, on a   *)
(* file that another one appends to.  One step is one call of pread.        *)
(*                                                                          *)
(* Byte i of the file is the number i, so that a result shows where its     *)
(* bytes are from; Garbage is a byte of memory that nothing was read into.  *)
(***************************************************************************)
EXTENDS Naturals, Sequences

CONSTANTS
  kSectorSize,
  InitSize,         \* sizes the file may have at first
  Request,          \* [kind, offset, n, aligned]: aligned if scratch is page-aligned
  MaxSize,          \* bound on the size of the file
  MaxInterrupts,    \* bound on the signals
  Garbage

VARIABLES
  size,          \* the size of the file
  req,           \* the request
  pc,            \* "idle" or "reading"
  bytes_read,
  errno,         \* stays as it is when a call succeeds
  result, status,
  eof,           \* the size that the last call of pread found
  failed,        \* pread failed with an error other than EINTR
  interrupts     \* signals so far

vars == <<size, req, pc, bytes_read, errno, result, status, eof, failed, interrupts>>

Least(a, b) == IF a <= b THEN a ELSE b

Lower(x, fac) == x - (x % fac)

Upper(x, fac) == IF x % fac = 0 THEN x ELSE x + (fac - (x % fac))

IsSectorAligned(off) == off % kSectorSize = 0

\* DirectIORead: may the request go to ReadAligned as it is?
IsAligned(q) == IsSectorAligned(q.offset) /\ IsSectorAligned(q.n) /\ q.aligned

\* The range that is read: ReadUnaligned widens it to whole sectors.
From(q) == IF q.kind = "direct" THEN Lower(q.offset, kSectorSize) ELSE q.offset

Want(q) ==
  IF q.kind = "direct" /\ ~IsAligned(q)
  THEN Upper(q.n + (q.offset - From(q)), kSectorSize)
  ELSE q.n

-----------------------------------------------------------------------------

Init ==
  /\ size \in InitSize
  /\ pc = "idle"
  /\ req \in Request
  /\ bytes_read = 0
  /\ errno \in {"none", "EINTR"}
  /\ result = <<>> /\ status = "none"
  /\ eof = size
  /\ failed = FALSE
  /\ interrupts = 0

Grow ==
  /\ size < MaxSize
  /\ size' = size + 1
  /\ UNCHANGED <<req, pc, bytes_read, errno, result, status, eof, failed, interrupts>>

Read ==
  /\ pc = "idle"
  /\ req' \in Request
  /\ pc' = "reading"
  /\ bytes_read' = 0
  /\ failed' = FALSE
  /\ UNCHANGED <<size, errno, result, status, eof, interrupts>>

\* The byte at place i, from 1, of what the reads filled, starting at byte `from`
Filled(from, i, filled) == IF i <= filled THEN from + i - 1 ELSE Garbage

\* Mutant: the copy starts with the first byte that was read.
CopiedFromStart(q, filled) ==
  [i \in 1..Least(q.n, filled) |-> Filled(From(q), i, filled)]

\* ReadUnaligned copies from its own buffer, as many bytes as were read into it.
Copied(q, filled) ==
  [i \in 1..Least(q.n, filled) |-> Filled(From(q), i + (q.offset - From(q)), filled)]

\* What the call returns with when the last pread returned `last`; the random file
\* drops what it has when the last one failed, and the rw file gives no result then.
Data(q, filled, last) ==
  IF q.kind = "direct" THEN Copied(q, filled)
  ELSE [i \in 1..(IF last = "error" THEN 0 ELSE filled) |-> q.offset + i - 1]

Returns(filled, last) ==
  /\ pc' = "idle"
  /\ result' = Data(req, filled, last)

\* Does the loop go on after k bytes?  A direct read stops at a partial sector.
WantsMore(filled, k) ==
  /\ filled < Want(req)
  /\ req.kind = "direct" => IsSectorAligned(k)

\* pread returns at least one byte; a direct one whole sectors or all up to the end.
Readable ==
  LET k == Least(Want(req) - bytes_read, size - (From(req) + bytes_read))
  IN  IF req.kind = "direct" THEN {j \in 1..k : IsSectorAligned(j) \/ j = k} ELSE 1..k

Reading == pc = "reading" /\ bytes_read < Want(req)

PreadSome ==
  /\ Reading
  /\ From(req) + bytes_read < size
  /\ \E k \in Readable :
       /\ bytes_read' = bytes_read + k
       /\ IF WantsMore(bytes_read + k, k)
          THEN UNCHANGED <<pc, result, status>>
          ELSE Returns(bytes_read + k, "data") /\ status' = "ok"
  /\ eof' = size
  /\ UNCHANGED <<size, req, errno, failed, interrupts>>

\* Mutant: errno decides alone.
RetriesOnErrno(last) == errno' = "EINTR"

\* errno is looked at when pread returned 0 or less, which the rw file does only
\* when it is negative.
Retries(last) == errno' = "EINTR" /\ (last = "error" \/ req.kind # "rw")

\* End of the file: pread returns 0 and leaves errno alone.
PreadEnd ==
  /\ Reading
  /\ From(req) + bytes_read >= size
  /\ eof' = size
  /\ UNCHANGED errno
  /\ IF Retries("end")
     THEN UNCHANGED <<pc, result, status>>
     ELSE Returns(bytes_read, "end") /\ status' = "ok"
  /\ UNCHANGED <<size, req, bytes_read, failed, interrupts>>

\* pread fails
PreadFails ==
  /\ Reading
  /\ errno' \in {"EINTR", "EIO"}
  /\ errno' = "EINTR" => interrupts < MaxInterrupts
  /\ interrupts' = IF errno' = "EINTR" THEN interrupts + 1 ELSE interrupts
  /\ eof' = size
  /\ IF Retries("error")
     THEN UNCHANGED <<pc, result, status, failed>>
     ELSE /\ Returns(bytes_read, "error")
          /\ status' = "error"
          /\ failed' = (errno' # "EINTR")
  /\ UNCHANGED <<size, req, bytes_read>>

\* A request for no bytes: the loop is not entered, and the file but for the rw one
\* takes the result that pread has not given yet for a failure.
ReadNothing ==
  /\ pc = "reading" /\ Want(req) = 0
  /\ Returns(0, "error")
  /\ status' = IF req.kind = "rw" THEN "ok" ELSE "error"
  /\ UNCHANGED <<size, req, bytes_read, errno, eof, failed, interrupts>>

Step == PreadSome \/ PreadEnd \/ PreadFails \/ ReadNothing

Next == Grow \/ Read \/ Step

Spec == Init /\ [][Next]_vars

\* The thread that reads goes on; no failure of pread is ever due.
FairSpec == Spec /\ WF_vars(PreadSome \/ PreadEnd \/ ReadNothing)

-----------------------------------------------------------------------------
(* Properties.                                                             *)

Returned == pc = "idle" /\ status = "ok"

\* The bytes of a successful Read are those of the file at the offset of the request,
\* however pread split it up, "to the data that was read" (env.h:396-397).
ResultIsData ==
  Returned => \A i \in DOMAIN result : result[i] = req.offset + i - 1

\* A successful Read gives less than the request only up to the end of the file, as it
\* was at the last pread.
ShortIsEnd ==
  (Returned /\ Len(result) < req.n) => req.offset + Len(result) >= eof

\* A Read returns an error only if pread failed: signals are retried ("If an error was
\* encountered, returns a non-OK status", env.h:400-401).
ErrorIsReal == (pc = "idle" /\ status = "error") => failed
=============================================================================
