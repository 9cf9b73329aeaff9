------------------------------- MODULE JobQueue -------------------------------
(***************************************************************************)
(* What a thread pool promises its clients (include/rocksutil/env.h,       *)
(* Schedule and UnSchedule): jobs start in the order they were scheduled,  *)
(* each at most once; a job that has not started can be taken back; as     *)
(* long as the pool is open, waiting jobs keep being started.              *)
(***************************************************************************)
EXTENDS Integers, Sequences

CONSTANT Job

VARIABLES
  pending,     \* the jobs that wait, oldest first
  submitted,   \* the jobs ever scheduled
  started,     \* the jobs that were started
  removed,     \* the jobs taken back
  closed       \* the pool has been told to shut down

absVars == <<pending, submitted, started, removed, closed>>

Init ==
  /\ pending = <<>>
  /\ submitted = {}
  /\ started = {}
  /\ removed = {}
  /\ closed = FALSE

Submit(j) ==
  /\ j \notin submitted
  /\ submitted' = submitted \cup {j}
  /\ pending' = IF closed THEN pending ELSE Append(pending, j)
  /\ UNCHANGED <<started, removed, closed>>

Start ==
  /\ ~closed
  /\ pending # <<>>
  /\ pending' = Tail(pending)
  /\ started' = started \cup {Head(pending)}
  /\ UNCHANGED <<submitted, removed, closed>>

Remove(i) ==
  /\ pending' = SubSeq(pending, 1, i - 1) \o SubSeq(pending, i + 1, Len(pending))
  /\ removed' = removed \cup {pending[i]}
  /\ UNCHANGED <<submitted, started, closed>>

Close ==
  /\ ~closed
  /\ closed' = TRUE
  /\ UNCHANGED <<pending, submitted, started, removed>>

Next ==
  \/ \E j \in Job : Submit(j)
  \/ Start
  \/ \E i \in 1..Len(pending) : Remove(i)
  \/ Close

Safety == Init /\ [][Next]_absVars

Spec == Safety /\ WF_absVars(Start)

=============================================================================
