------------------------------ MODULE MCLogLive ------------------------------
(***************************************************************************)
(* Two uses of a log in which a reader could go astray: the file of an old *)
(* log is written over (recycle: the constants' values), and a reader      *)
(* follows the writer of a log (follow).                                   *)
(***************************************************************************)
EXTENDS WriteAheadLog

VARIABLE use

FollowSize == {0, 3, 7}

Follow == INSTANCE WriteAheadLog WITH
            Recycle <- FALSE, LogNumber <- OneLog, Size <- FollowSize, Mode <- AllModes,
            Tailing <- TRUE, WholeOnly <- TRUE

MCInit ==
  \/ use = "recycle" /\ Init
  \/ use = "follow" /\ Follow!Init

MCRead ==
  /\ \/ use = "recycle" /\ Read
     \/ use = "follow" /\ Follow!Read
  /\ UNCHANGED use

MCNext ==
  \/ MCRead
  \/ use = "recycle" /\ Write /\ UNCHANGED use
  \/ use = "follow" /\ Follow!Write /\ UNCHANGED use

\* A reader that is in use gets on; nothing is assumed of the writer.
MCSpec == MCInit /\ [][MCNext]_<<vars, use>> /\ WF_<<vars, use>>(MCRead)

\* In a file that holds the remains of another log the reader finds all of this
\* log, nothing of the other one, and reports no corruption that is none.
RecycledIsRecovered ==
  use = "recycle" => ReadRecordsAreWhole /\ RecoversAll /\ CrashIsNoCorruption


\* In a file that nothing has happened to, and to which whole records are added,
\* no corruption is reported.  (log_reader.h: "Some corruption was detected.")
NoFalseAlarm == use = "follow" => ~reported

=============================================================================
