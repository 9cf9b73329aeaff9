------------------------------ MODULE PosixLogger ------------------------------
(***************************************************************************)
(* PosixLogger (rutil/posix_logger.h): threads that log into one stdio      *)
(* stream, and decide without a lock when to flush it.                      *)
(*                                                                          *)
(* fwrite and fflush are atomic, as stdio has them; flush_pending_ is an    *)
(* ordinary variable, here with the values that were stored to it.  The     *)
(* text of a message is its number; preallocation of the file is left out,  *)
(* as it keeps the size.                                                    *)
(***************************************************************************)
EXTENDS Naturals, FiniteSets

CONSTANTS
  Thread,
  FlushEvery,     \* flush_every_seconds_, 0 to flush every message
  MaxTime,        \* bound on the time
  MaxMessages     \* bound on the messages

VARIABLES
  stream,               \* messages in the stream's buffer
  file,                 \* messages that were given to the system
  flush_pending_,
  last_flush,           \* last_flush_micros_
  log_size_,
  now,                  \* the time
  pc,                   \* per thread
  message,              \* per thread: the message it logs
  since,                \* per thread: the time it took for its message
  caller,               \* per thread: where Flush returns to
  logged,               \* the messages whose Logv has returned
  n                     \* messages so far

vars == <<stream, file, flush_pending_, last_flush, log_size_, now, pc, message, since, caller,
          logged, n>>

Init ==
  /\ stream = {} /\ file = {}
  /\ flush_pending_ = FALSE
  /\ last_flush = 0
  /\ log_size_ = 0
  /\ now = 1
  /\ pc = [t \in Thread |-> "idle"]
  /\ message = [t \in Thread |-> 0]
  /\ since = [t \in Thread |-> 0]
  /\ caller = [t \in Thread |-> "idle"]
  /\ logged = {}
  /\ n = 0

Tick ==
  /\ now < MaxTime
  /\ now' = now + 1
  /\ UNCHANGED <<stream, file, flush_pending_, last_flush, log_size_, pc, message, since, caller,
                 logged, n>>

Goes(t, to) == pc' = [pc EXCEPT ![t] = to]

-----------------------------------------------------------------------------
(* Logv.                                                                   *)

\* The message is formatted with the time of day.
Logv(t) ==
  /\ pc[t] = "idle"
  /\ n < MaxMessages
  /\ n' = n + 1
  /\ message' = [message EXCEPT ![t] = n + 1]
  /\ since' = [since EXCEPT ![t] = now]
  /\ Goes(t, "write")
  /\ UNCHANGED <<stream, file, flush_pending_, last_flush, log_size_, now, caller, logged>>

\* fwrite; stdio may pass on what it has at any time.
Write(t) ==
  /\ pc[t] = "write"
  /\ \/ stream' = stream \cup {message[t]} /\ UNCHANGED file
     \/ stream' = {} /\ file' = file \cup stream \cup {message[t]}
  /\ Goes(t, "mark")
  /\ UNCHANGED <<flush_pending_, last_flush, log_size_, now, message, since, caller, logged, n>>

Mark(t) ==
  /\ pc[t] = "mark"
  /\ flush_pending_' = TRUE
  /\ Goes(t, "count")
  /\ UNCHANGED <<stream, file, last_flush, log_size_, now, message, since, caller, logged, n>>

\* The difference is one of unsigned numbers: a flush after the message took its
\* time makes it large.
Flushes(t) ==
  \/ FlushEvery = 0
  \/ since[t] < last_flush
  \/ since[t] - last_flush >= FlushEvery

SizeAfter(t) == log_size_ + 1

Count(t) ==
  /\ pc[t] = "count"
  /\ log_size_' = SizeAfter(t)
  /\ IF Flushes(t)
     THEN Goes(t, "flush") /\ caller' = [caller EXCEPT ![t] = "Logv"] /\ UNCHANGED logged
     ELSE Goes(t, "idle") /\ logged' = logged \cup {message[t]} /\ UNCHANGED caller
  /\ UNCHANGED <<stream, file, flush_pending_, last_flush, now, message, since, n>>

-----------------------------------------------------------------------------
(* Flush.                                                                  *)

Flush(t) ==
  /\ pc[t] = "idle"
  /\ Goes(t, "flush")
  /\ caller' = [caller EXCEPT ![t] = "client"]
  /\ UNCHANGED <<stream, file, flush_pending_, last_flush, log_size_, now, message, since, logged, n>>

Test(t) ==
  /\ pc[t] = "flush"
  /\ Goes(t, IF flush_pending_ THEN "clear" ELSE "stamp")
  /\ UNCHANGED <<stream, file, flush_pending_, last_flush, log_size_, now, message, since, caller,
                 logged, n>>

\* Mutant: fflush comes first.
ClearLate(t) ==
  \/ /\ pc[t] = "clear"
     /\ stream' = {} /\ file' = file \cup stream
     /\ Goes(t, "fflush")
     /\ UNCHANGED <<flush_pending_, last_flush, log_size_, now, message, since, caller, logged, n>>
  \/ /\ pc[t] = "fflush"
     /\ flush_pending_' = FALSE
     /\ Goes(t, "stamp")
     /\ UNCHANGED <<stream, file, last_flush, log_size_, now, message, since, caller, logged, n>>

\* flush_pending_ = false, then fflush
Clear(t) ==
  \/ /\ pc[t] = "clear"
     /\ flush_pending_' = FALSE
     /\ Goes(t, "fflush")
     /\ UNCHANGED <<stream, file, last_flush, log_size_, now, message, since, caller, logged, n>>
  \/ /\ pc[t] = "fflush"
     /\ stream' = {} /\ file' = file \cup stream
     /\ Goes(t, "stamp")
     /\ UNCHANGED <<flush_pending_, last_flush, log_size_, now, message, since, caller, logged, n>>

Stamp(t) ==
  /\ pc[t] = "stamp"
  /\ last_flush' = IF FlushEvery > 0 THEN now ELSE last_flush
  /\ Goes(t, "idle")
  /\ logged' = IF caller[t] = "Logv" THEN logged \cup {message[t]} ELSE logged
  /\ UNCHANGED <<stream, file, flush_pending_, log_size_, now, message, since, caller, n>>

-----------------------------------------------------------------------------

Step(t) ==
  Write(t) \/ Mark(t) \/ Count(t) \/ Test(t) \/ Clear(t) \/ Stamp(t)

Next ==
  \/ Tick
  \/ \E t \in Thread : Logv(t) \/ Flush(t) \/ Step(t)

Spec == Init /\ [][Next]_vars

-----------------------------------------------------------------------------
(* Properties.                                                             *)

\* No message is forgotten: while one is in the stream, flush_pending_ is set, or
\* a thread is about to set it or to flush, so that the next Flush flushes it.
NothingForgotten ==
  stream # {} => flush_pending_ \/ \E t \in Thread : pc[t] \in {"mark", "fflush"}

\* A message is in the stream or in the file, and in the size of the file, when
\* its Logv has returned.
LoggedIsCounted ==
  /\ logged \subseteq stream \cup file
  /\ log_size_ >= Cardinality(logged)
  /\ log_size_ <= Cardinality(stream \cup file)

\* With an interval of 0 a message is in the file when its Logv returns ("Always
\* flush", line 152).
AlwaysFlushed == FlushEvery = 0 => logged \subseteq file
=============================================================================
