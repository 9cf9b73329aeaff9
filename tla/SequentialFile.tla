----------------------------- MODULE SequentialFile -----------------------------
(***************************************************************************)
(* PosixSequentialFile ("stdio") and PosixDirectIOSequentialFile ("direct") *)
(* of rutil/io_posix.cc: Read and Skip, on a file that another process      *)
(* appends to, as a reader that follows a log does.                         *)
(*                                                                          *)
(* Byte i of the file is the number i.  One step is one call of fread, or   *)
(* the whole DirectIORead of whole sectors, which PosixReads models.        *)
(***************************************************************************)
EXTENDS Naturals, Sequences

CONSTANTS
  Kind,             \* the kinds of files: a set of "stdio" and "direct"
  MaySkip,          \* may the client call Skip?
  MaxSize,          \* bound on the size of the file
  MaxRead,          \* bound on the length of a Read or Skip
  MaxInterrupts     \* bound on the signals

VARIABLES
  kind,
  size,           \* the size of the file
  position,       \* of the stream, or off_
  ferror,         \* the error flag of the stream, which fread never clears
  errno,
  pc,             \* "idle" or "reading"
  n,              \* the length of the Read
  result, status, \* of the last Read
  next,           \* the first byte that was neither read nor skipped
  interrupts      \* signals so far

vars == <<kind, size, position, ferror, errno, pc, n, result, status, next, interrupts>>

Least(a, b) == IF a <= b THEN a ELSE b

\* The bytes from off on, at most len of them
Bytes(off, len) ==
  [i \in 1..(IF off >= size THEN 0 ELSE Least(len, size - off)) |-> off + i - 1]

Init ==
  /\ kind \in Kind
  /\ size \in 0..MaxSize
  /\ position = 0 /\ next = 0
  /\ ferror = FALSE /\ errno = "none"
  /\ pc = "idle" /\ n = 0
  /\ result = <<>> /\ status = "ok"
  /\ interrupts = 0

Grow ==
  /\ size < MaxSize
  /\ size' = size + 1
  /\ UNCHANGED <<kind, position, ferror, errno, pc, n, result, status, next, interrupts>>

Read(len) ==
  /\ kind = "stdio" /\ pc = "idle"
  /\ pc' = "reading" /\ n' = len
  /\ UNCHANGED <<kind, size, position, ferror, errno, result, status, next, interrupts>>

\* A Read returns these bytes.
Returns(bytes, how) ==
  /\ pc' = "idle"
  /\ result' = bytes
  /\ status' = how
  /\ next' = next + Len(bytes)

\* The status at the end of the file, where the flags are cleared, is ok.
StatusAtEnd(bytes) == "ok"

\* The condition of the loop around fread, with the flag and the errno it leaves
Retries(bytes, failed) == bytes = <<>> /\ failed /\ errno' = "EINTR"

\* fread without an error: all bytes, or those up to the end; then clearerr
Fread ==
  /\ pc = "reading"
  /\ LET bytes == Bytes(position, n)
     IN  /\ position' = position + Len(bytes)
         /\ UNCHANGED errno
         /\ IF Retries(bytes, ferror)
            THEN UNCHANGED <<ferror, pc, result, status, next>>
            ELSE /\ Returns(bytes, StatusAtEnd(bytes))
                 /\ ferror' = IF Len(bytes) < n THEN FALSE ELSE ferror
  /\ UNCHANGED <<kind, size, n, interrupts>>


\* "A partial read with an error"
PartialStatus(bytes) == "error"

\* fread with an error, after some bytes
FreadFails ==
  /\ pc = "reading" /\ n > 0
  /\ errno' \in {"EINTR", "EIO"}
  /\ errno' = "EINTR" => interrupts < MaxInterrupts
  /\ interrupts' = IF errno' = "EINTR" THEN interrupts + 1 ELSE interrupts
  /\ ferror' = TRUE
  /\ \E k \in 0..(n - 1) :
       LET bytes == Bytes(position, k)
       IN  /\ position' = position + Len(bytes)
           /\ IF Retries(bytes, TRUE)
              THEN UNCHANGED <<pc, result, status, next>>
              ELSE Returns(bytes, PartialStatus(bytes))
  /\ UNCHANGED <<kind, size, n>>

\* The direct file: the offset moves by the length of the request.
DirectRead(len) ==
  /\ kind = "direct"
  /\ position' = position + len
  /\ n' = len
  /\ Returns(Bytes(position, len), "ok")
  /\ UNCHANGED <<kind, size, ferror, errno, interrupts>>

\* Mutant: the stream stays where it is when the end is passed.
SkippedWithin(len) == IF position + len > size THEN position ELSE position + len

\* fseek, or the sum, without regard to the end of the file
Skipped(len) == position + len

Skip(len) ==
  /\ MaySkip /\ pc = "idle"
  /\ position' = Skipped(len)
  /\ next' = next + len
  /\ UNCHANGED <<kind, size, ferror, errno, pc, n, result, status, interrupts>>

Next ==
  \/ Grow \/ Fread \/ FreadFails
  \/ \E len \in 1..MaxRead :
       position + len <= MaxSize + MaxRead /\ (Read(len) \/ DirectRead(len) \/ Skip(len))

Spec == Init /\ [][Next]_vars

\* The thread that reads goes on; no failure is ever due.
FairSpec == Spec /\ WF_vars(Fread)

-----------------------------------------------------------------------------
(* Properties.                                                             *)

\* No byte of a stdio file is passed over: the next Read starts at the first byte that was neither
\* returned nor skipped, also after a Read that hit the end of a file that has grown
\* since or was cut short by an error ("so that the reads can continue if a new data
\* is written to the file", io_posix.cc:177-178).
NothingPassedOver == kind = "stdio" => position = next

\* A Read fails only if fread did: the end of the file is no failure ("We leave status
\* as ok if we hit the end of the file", io_posix.cc:176).
EndIsNoError == (pc = "idle" /\ status = "error") => ferror

\* "skipping will stop at the end of the file" (env.h:375-376).
SkipStopsAtEnd == position <= size
=============================================================================
