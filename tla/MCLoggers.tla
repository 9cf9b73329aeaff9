------------------------------ MODULE MCLoggers ------------------------------
(***************************************************************************)
(* The loggers, one of them per behaviour: threads that log into one        *)
(* PosixLogger, threads that log into an AutoRollLogger, and the functions  *)
(* by which a thread logs into either.                                      *)
(***************************************************************************)
EXTENDS Naturals

CONSTANTS Thread, Null, Caller

VARIABLES
  which,                                                 \* the one in use
  now, message, logged, n,                               \* of both
  stream, file, flush_pending_, last_flush, log_size_,   \* of PosixLogger
  pc, since, caller,
  content, fname, loggers, logger_, headers_,            \* of AutoRollLogger
  cached_now, ctime_, cached_now_access_count, pinned, late, crashed,
  log_level_, step, level, levels, prefix                \* of the functions

posixVars == <<stream, file, flush_pending_, last_flush, log_size_, pc, since, caller>>
rollVars == <<content, fname, loggers, logger_, headers_, cached_now, ctime_,
              cached_now_access_count, pinned, late, crashed>>
infoVars == <<log_level_, step, level, levels, prefix>>
vars == <<which, now, message, logged, n, posixVars, rollVars, infoVars>>

Posix == INSTANCE PosixLogger WITH FlushEvery <- 2, MaxTime <- 5, MaxMessages <- 4

Roll == INSTANCE AutoRollLogger WITH
  kMaxLogFileSize <- 2, kLogFileTimeToRoll <- 1, EveryNRecords <- 2, MicrosPerSecond <- 2,
  MayFailRename <- FALSE, MayFailOpen <- TRUE, MaxTime <- 3, MaxMessages <- 6, MaxHeaders <- 1

\* Calls meet each other only through the level, which is set at any time.
Info == INSTANCE InfoLog WITH Thread <- Caller, pc <- step, HeaderByLog <- FALSE

NoPosix ==
  /\ stream = 0 /\ file = 0 /\ flush_pending_ = 0 /\ last_flush = 0 /\ log_size_ = 0
  /\ pc = 0 /\ since = 0 /\ caller = 0
NoRoll ==
  /\ content = 0 /\ fname = 0 /\ loggers = 0 /\ logger_ = 0 /\ headers_ = 0 /\ cached_now = 0
  /\ ctime_ = 0 /\ cached_now_access_count = 0 /\ pinned = 0 /\ late = 0 /\ crashed = 0

NoInfo == log_level_ = 0 /\ step = 0 /\ level = 0 /\ levels = 0 /\ prefix = 0
NoLogger == now = 0 /\ message = 0 /\ logged = 0 /\ n = 0

Init ==
  \/ which = "posix" /\ Posix!Init /\ NoRoll /\ NoInfo
  \/ which = "roll" /\ Roll!Init /\ NoPosix /\ NoInfo
  \/ which = "info" /\ Info!Init /\ NoPosix /\ NoRoll /\ NoLogger

Next ==
  /\ \/ which = "posix" /\ Posix!Next /\ UNCHANGED <<rollVars, infoVars>>
     \/ which = "roll" /\ Roll!Next /\ UNCHANGED <<posixVars, infoVars>>
     \/ which = "info" /\ Info!Next /\ UNCHANGED <<now, message, logged, n, posixVars, rollVars>>
  /\ UNCHANGED which

Spec == Init /\ [][Next]_vars

-----------------------------------------------------------------------------
(* Properties; the modules say more about each.                            *)

\* While a message is in the stream the next Flush flushes it, and log_size_ counts
\* every message once, though flush_pending_ is tested, cleared and set without a lock.
NothingForgotten == which = "posix" => Posix!NothingForgotten /\ Posix!LoggedIsCounted

\* However quickly rolls follow each other and whichever logger a thread had pinned,
\* what was written is in a file that has a name, and the headers are in the current
\* file. The limits on size and age are exceeded only by the messages under way, and by
\* those for which the clock is not read.
RollingKeepsAll ==
  which = "roll" =>
    Roll!NothingOverwritten /\ Roll!HeadersInEveryLog /\ Roll!SizeIsBounded /\ Roll!LateIsBounded

\* A call prints, marked as of its level, if that reached all the levels in force while
\* it ran, and does not if it reached none of them.
LevelsAreKept == which = "info" => Info!LevelsAreKept
=============================================================================
