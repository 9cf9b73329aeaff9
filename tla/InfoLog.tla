------------------------------- MODULE InfoLog -------------------------------
(***************************************************************************)
(* The functions that log (rutil/env.cc): Log, Header, Debug, Info, Warn,   *)
(* Error and Fatal, for a Logger* and for a shared_ptr<Logger>, down to the *)
(* Logv or LogHeader of a logger, while its level is set.                   *)
(*                                                                          *)
(* log_level_ is an ordinary variable, here with the values stored to it.   *)
(* The text is left out, but for the name of the level in front of it.      *)
(***************************************************************************)
EXTENDS Naturals, Sequences

CONSTANTS
  Thread,
  HeaderByLog    \* Log(HEADER_LEVEL, shared_ptr) is called as well

VARIABLES
  log_level_,
  pc,            \* thread -> the step it has reached
  level,         \* thread -> the level of its call
  levels,        \* thread -> the levels that were in force in its call
  prefix         \* thread -> what its last call printed

vars == <<log_level_, pc, level, levels, prefix>>

DEBUG_LEVEL == 0
INFO_LEVEL == 1
FATAL_LEVEL == 4
HEADER_LEVEL == 5
InfoLogLevel == DEBUG_LEVEL..HEADER_LEVEL

kInfoLogLevelNames == <<"DEBUG", "INFO", "WARN", "ERROR", "FATAL">>

Init ==
  /\ log_level_ = INFO_LEVEL
  /\ pc = [t \in Thread |-> "idle"]
  /\ level = [t \in Thread |-> INFO_LEVEL]
  /\ levels = [t \in Thread |-> {}]
  /\ prefix = [t \in Thread |-> "none"]

SetInfoLogLevel(l) ==
  /\ log_level_' = l
  /\ levels' = [t \in Thread |-> IF pc[t] = "idle" THEN levels[t] ELSE levels[t] \cup {l}]
  /\ UNCHANGED <<pc, level, prefix>>

\* A call with level l begins, and goes on at step to.
Calls(t, l, to) ==
  /\ pc[t] = "idle"
  /\ pc' = [pc EXCEPT ![t] = to]
  /\ level' = [level EXCEPT ![t] = l]
  /\ levels' = [levels EXCEPT ![t] = {log_level_}]
  /\ prefix' = [prefix EXCEPT ![t] = "none"]
  /\ UNCHANGED log_level_

Returns(t, p) ==
  /\ pc' = [pc EXCEPT ![t] = "idle"]
  /\ prefix' = [prefix EXCEPT ![t] = p]
  /\ UNCHANGED <<log_level_, level, levels>>

-----------------------------------------------------------------------------
(* Of a Logger*: the level is tested first.                                *)

Passes(l) == log_level_ <= l

\* Debug, Info, Warn, Error, Fatal, and Log without a level
LogAt(t, l) ==
  /\ l <= FATAL_LEVEL
  /\ Calls(t, l, IF Passes(l) THEN "logv" ELSE "idle")

\* Log with a level
Log(t, l) ==
  Calls(t, l, IF ~Passes(l) THEN "idle" ELSE IF l = HEADER_LEVEL THEN "header" ELSE "logv")

Header(t) == Calls(t, HEADER_LEVEL, "header")

-----------------------------------------------------------------------------
(* Of a shared_ptr<Logger>: the level is left to Logv.                     *)

\* Debug, Info, Warn, Error, Fatal, and Log without a level
SharedLogAt(t, l) == l <= FATAL_LEVEL /\ Calls(t, l, "logv")

\* Log with a level
SharedLog(t, l) == (l = HEADER_LEVEL => HeaderByLog) /\ Calls(t, l, "logv")

SharedHeader(t) == Calls(t, HEADER_LEVEL, "header")

-----------------------------------------------------------------------------
(* The logger.                                                             *)

\* What is in front of the message; behind the last name of the array, anything is.
NameOf(l) ==
  IF l + 1 \in DOMAIN kInfoLogLevelNames THEN kInfoLogLevelNames[l + 1] ELSE "undefined"

\* Mutant: the level of the logger is not printed either.
UpToLevel(l) == l <= log_level_

BelowLevel(l) == l < log_level_

\* Logger::Logv with a level
Logv(t) ==
  /\ pc[t] = "logv"
  /\ Returns(t, IF BelowLevel(level[t]) THEN "none"
                ELSE IF level[t] = INFO_LEVEL THEN "plain" ELSE NameOf(level[t]))

\* LogHeader, which is Logv without a level
LogHeader(t) == pc[t] = "header" /\ Returns(t, "plain")

-----------------------------------------------------------------------------

Next ==
  \/ \E l \in InfoLogLevel : SetInfoLogLevel(l)
  \/ \E t \in Thread, l \in InfoLogLevel :
       LogAt(t, l) \/ Log(t, l) \/ SharedLogAt(t, l) \/ SharedLog(t, l)
  \/ \E t \in Thread : Header(t) \/ SharedHeader(t) \/ Logv(t) \/ LogHeader(t)

Spec == Init /\ [][Next]_vars

-----------------------------------------------------------------------------
(* Properties.                                                             *)

\* The level of a call and those in force while it ran decide what it prints, by either
\* family of functions: it prints if its level reached all of them and does not if it
\* reached none ("Any log with level under the internal log level of *this ... will not
\* be printed", env.h:736), and what it prints is marked as of its own level.
LevelsAreKept ==
  \A t \in Thread : pc[t] = "idle" /\ levels[t] # {} =>
    /\ (\A l \in levels[t] : level[t] >= l) => prefix[t] # "none"
    /\ level[t] < HEADER_LEVEL /\ (\A l \in levels[t] : level[t] < l) => prefix[t] = "none"
    /\ prefix[t] \in {"none", IF level[t] \in {INFO_LEVEL, HEADER_LEVEL} THEN "plain"
                              ELSE kInfoLogLevelNames[level[t] + 1]}
=============================================================================
