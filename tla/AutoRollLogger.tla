---------------------------- MODULE AutoRollLogger ----------------------------
(***************************************************************************)
(* AutoRollLogger (rutil/auto_roll_logger.cc): a logger that renames its    *)
(* file and starts another when it is too large or too old.                 *)
(*                                                                          *)
(* The part of Logv under mutex_, which may roll the file, is one action,   *)
(* and the write through the pinned logger another.  A message is a number  *)
(* and of size 1.  A file is the sequence of the messages written to it,    *)
(* and keeps them when its name changes; the stream's buffer is left to     *)
(* PosixLogger, so a message that was written is in the file.  Assertions   *)
(* are compiled out.                                                        *)
(***************************************************************************)
EXTENDS Naturals, Sequences, FiniteSets

Seqs == INSTANCE SequencesExt

CONSTANTS
  Thread,
  kMaxLogFileSize,       \* 0 for no limit
  kLogFileTimeToRoll,    \* in seconds, 0 for no limit
  EveryNRecords,         \* call_NowMicros_every_N_records_
  MicrosPerSecond,
  MayFailRename,         \* may RenameFile fail?
  MayFailOpen,           \* may NewLogger fail?
  MaxTime, MaxMessages, MaxHeaders,    \* bounds
  Null

VARIABLES
  content,      \* the files, in the order in which they were made
  fname,        \* per file: LOG, the number of a LOG.old, or Null when it has no name left
  loggers,      \* the PosixLoggers: the file and the log_size_ of each
  logger_,      \* the current logger, or Null
  headers_,
  cached_now, ctime_, cached_now_access_count,
  now,          \* NowMicros
  pinned,       \* per thread: the logger it is going to write through, or Null
  message,      \* per thread: its message
  logged,       \* the messages that were written
  n,            \* messages so far
  late,         \* messages in a row that went to a file that was too old
  crashed       \* a logger that is not there was used

timeVars == <<cached_now, ctime_, cached_now_access_count>>
diskVars == <<content, fname, loggers>>
vars == <<diskVars, logger_, headers_, timeVars, now, pinned, message, logged, n, late, crashed>>

LOG == 0

\* NowMicros is cut to seconds.
Seconds == now \div MicrosPerSecond

-----------------------------------------------------------------------------
(* The directory: d.content and d.fname are the files, d.loggers the        *)
(* loggers on them.                                                         *)

\* Mutant: the name of the present time is taken without a look.
OldNameUnchecked(names, time) == time

\* The first name from the present time on that no file has
OldName(names, time) ==
  CHOOSE k \in time..(time + Len(names)) :
    /\ k \notin Seqs!ToSet(names)
    /\ time..(k - 1) \subseteq Seqs!ToSet(names)

\* rename: a file that had the new name has none any more.  Without a LOG it fails.
RenameFile(d, new) ==
  IF LOG \notin Seqs!ToSet(d.fname) THEN d
  ELSE [d EXCEPT !.fname = [i \in DOMAIN @ |-> CASE @[i] = LOG -> new
                                                 [] @[i] = new -> Null
                                                 [] OTHER -> @[i]]]

\* RollLogFile ignores the status of RenameFile.
RollLogFile(d) ==
  {RenameFile(d, OldName(d.fname, now))} \cup (IF MayFailRename THEN {d} ELSE {})

\* NewLogger opens LOG for writing: the file is emptied, or made.
NewLogger(d) ==
  LET has  == LOG \in Seqs!ToSet(d.fname)
      file == IF has THEN CHOOSE i \in DOMAIN d.fname : d.fname[i] = LOG ELSE Len(d.fname) + 1
  IN  [content |-> IF has THEN [d.content EXCEPT ![file] = <<>>] ELSE Append(d.content, <<>>),
       fname   |-> IF has THEN d.fname ELSE Append(d.fname, LOG),
       loggers |-> Append(d.loggers, [file |-> file, log_size_ |-> 0])]

\* PosixLogger::Logv of a sequence of messages through logger l
Logs(d, l, messages) ==
  [d EXCEPT !.content[d.loggers[l].file] = @ \o messages,
            !.loggers[l].log_size_ = @ + Len(messages)]

WriteHeaderInfo(d) == Logs(d, Len(d.loggers), headers_)

Disk == [content |-> content, fname |-> fname, loggers |-> loggers]

DiskBecomes(d) == content' = d.content /\ fname' = d.fname /\ loggers' = d.loggers

-----------------------------------------------------------------------------

\* The constructor, where an earlier process may have left a LOG with message 0
Init ==
  /\ now = 1
  /\ \E left \in BOOLEAN :
       LET before == [content |-> IF left THEN <<<<0>>>> ELSE <<>>,
                      fname   |-> IF left THEN <<LOG>> ELSE <<>>,
                      loggers |-> <<>>]
       IN  /\ \E d \in RollLogFile(before) :
                LET made == NewLogger(d)
                IN  content = made.content /\ fname = made.fname /\ loggers = made.loggers
           /\ logged = IF left THEN {0} ELSE {}
  /\ logger_ = 1
  /\ headers_ = <<>>
  /\ cached_now = Seconds /\ ctime_ = Seconds /\ cached_now_access_count = 0
  /\ pinned = [t \in Thread |-> Null]
  /\ message = [t \in Thread |-> 0]
  /\ n = 0
  /\ late = 0
  /\ crashed = FALSE

\* gettimeofday: the time of day may also be set back.
Tick ==
  /\ now' \in 1..MaxTime \ {now}
  /\ UNCHANGED <<diskVars, logger_, headers_, timeVars, pinned, message, logged, n, late, crashed>>

-----------------------------------------------------------------------------
(* When the file is rolled.                                                *)

\* The clock is read only every so many records.
Refresh == cached_now_access_count >= EveryNRecords

CachedNow == IF Refresh THEN Seconds ELSE cached_now

\* Mutant: only the records for which the clock is read are counted.
AccessCountStuck == IF Refresh THEN 1 ELSE cached_now_access_count

AccessCount == IF Refresh THEN 1 ELSE cached_now_access_count + 1

LogExpired == kLogFileTimeToRoll > 0 /\ CachedNow >= ctime_ + kLogFileTimeToRoll

\* What LogExpired, which is called if there is a limit on the time, leaves behind
Clock ==
  IF kLogFileTimeToRoll > 0
  THEN cached_now' = CachedNow /\ cached_now_access_count' = AccessCount
  ELSE UNCHANGED <<cached_now, cached_now_access_count>>

TooBig == kMaxLogFileSize > 0 /\ loggers[logger_].log_size_ >= kMaxLogFileSize

Rolls == LogExpired \/ (logger_ # Null /\ TooBig)

-----------------------------------------------------------------------------
(* Logv and LogHeader.                                                     *)

\* A thread has a message to log.
Begins(t) ==
  /\ ~crashed
  /\ pinned[t] = Null
  /\ n < MaxMessages
  /\ n' = n + 1
  /\ message' = [message EXCEPT ![t] = n + 1]

\* The file is too old, by the time of day rather than the cached one.
TooOld == kLogFileTimeToRoll > 0 /\ Seconds >= ctime_ + kLogFileTimeToRoll

\* Logv without a roll: the logger is pinned.
Logv(t) ==
  /\ Begins(t)
  /\ logger_ # Null
  /\ ~Rolls
  /\ Clock
  /\ pinned' = [pinned EXCEPT ![t] = logger_]
  /\ late' = IF TooOld THEN late + 1 ELSE 0
  /\ UNCHANGED <<diskVars, logger_, headers_, ctime_, now, logged, crashed>>

\* Logv with a roll: RollLogFile, ResetLogger and WriteHeaderInfo
LogvRolls(t) ==
  /\ Begins(t)
  /\ Rolls
  /\ \E d \in RollLogFile(Disk) : DiskBecomes(WriteHeaderInfo(NewLogger(d)))
  /\ logger_' = Len(loggers) + 1
  /\ cached_now' = Seconds /\ ctime_' = Seconds /\ cached_now_access_count' = 0
  /\ pinned' = [pinned EXCEPT ![t] = Len(loggers) + 1]
  /\ late' = 0
  /\ UNCHANGED <<headers_, now, logged, crashed>>

\* Logv with a roll that fails: there is no logger, and the message is dropped.
LogvRollFails(t) ==
  /\ MayFailOpen
  /\ Begins(t)
  /\ Rolls
  /\ \E d \in RollLogFile(Disk) : DiskBecomes(d)
  /\ logger_' = Null
  /\ Clock
  /\ UNCHANGED <<headers_, ctime_, now, pinned, logged, late, crashed>>

\* Logv after that: GetLogFileSize, or Logv itself, of no logger
LogvCrashes(t) ==
  /\ Begins(t)
  /\ logger_ = Null
  /\ ~Rolls
  /\ Clock
  /\ crashed' = TRUE
  /\ UNCHANGED <<diskVars, logger_, headers_, ctime_, now, pinned, logged, late>>

\* The write through the pinned logger, without the mutex
Write(t) ==
  /\ ~crashed
  /\ pinned[t] # Null
  /\ DiskBecomes(Logs(Disk, pinned[t], <<message[t]>>))
  /\ pinned' = [pinned EXCEPT ![t] = Null]
  /\ logged' = logged \cup {message[t]}
  /\ UNCHANGED <<logger_, headers_, timeVars, now, message, n, late, crashed>>

\* LogHeader, all of it under the mutex and without a roll
LogHeader(t) ==
  /\ Begins(t)
  /\ Len(headers_) < MaxHeaders
  /\ headers_' = Append(headers_, n + 1)
  /\ IF logger_ = Null
     THEN crashed' = TRUE /\ UNCHANGED <<diskVars, logged>>
     ELSE /\ DiskBecomes(Logs(Disk, logger_, <<n + 1>>))
          /\ logged' = logged \cup {n + 1}
          /\ UNCHANGED crashed
  /\ UNCHANGED <<logger_, timeVars, now, pinned, late>>

Next ==
  \/ Tick
  \/ \E t \in Thread :
       \/ Logv(t) \/ LogvRolls(t) \/ Write(t) \/ LogHeader(t)
       \/ LogvRollFails(t) \/ LogvCrashes(t)

Spec == Init /\ [][Next]_vars

-----------------------------------------------------------------------------
(* Properties.                                                             *)

\* A message that was written is in a file that has a name, whichever logger its
\* thread had pinned and however quickly rolls follow each other ("To not overwrite
\* previous log file we increment by one micro second and try again",
\* auto_roll_logger.cc:46-47).
NothingOverwritten ==
  \A m \in logged :
    \E i \in DOMAIN content : fname[i] # Null /\ m \in Seqs!ToSet(content[i])

\* The current file has every header that was logged ("All header information will be
\* written again every time the log rolls over", auto_roll_logger.h:47-48), also those
\* that were logged while other threads had an earlier logger pinned.
HeadersInEveryLog ==
  logger_ # Null =>
    Seqs!ToSet(headers_) \subseteq Seqs!ToSet(content[loggers[logger_].file])

\* A file outgrows the limit by its headers and by one message of each thread, which
\* had pinned the logger before the limit was reached, and by nothing else.
SizeIsBounded ==
  (kMaxLogFileSize > 0 /\ ~MayFailRename) =>
    \A i \in DOMAIN content :
      Len(content[i]) < kMaxLogFileSize + Len(headers_) + Cardinality(Thread)

\* The clock being read only every so many records, no more messages than that in a
\* row go to a file that is too old.
LateIsBounded == late <= EveryNRecords

\* A logger that could not be made is never used: "assert(GetStatus().ok())",
\* auto_roll_logger.cc:81, says that no Logv comes after a failed roll.
LoggerIsThere == ~crashed
=============================================================================
