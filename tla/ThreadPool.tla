------------------------------ MODULE ThreadPool ------------------------------
(***************************************************************************)
(* ThreadPoolImpl (rutil/threadpool_imp.cc): a resizable pool of           *)
(* background threads that take work items from one FIFO queue.            *)
(*                                                                         *)
(* A section of code executed under mu_ is one action.  UnSchedule calls   *)
(* user code (unschedFunction) while it holds mu_, so its loop is modelled *)
(* item by item and mu_ is the variable that keeps the others out.         *)
(* JoinAllThreads walks bgthreads_ without mu_, one thread per step.       *)
(***************************************************************************)
EXTENDS Integers, Sequences, FiniteSets

CONSTANTS
  Thread,      \* the pthread_t values the process can have at one time
  Job,         \* the (function, arg) pairs the clients schedule, once each
  Tag,         \* the tags clients pass to Schedule and UnSchedule
  Num,         \* the arguments of SetBackgroundThreads
  None         \* no thread, no job, no tag

ASSUME PoolAssumption ==
  /\ Num \subseteq Int
  /\ None \notin Thread \cup Job \cup Tag
  /\ IsFiniteSet(Thread)
  /\ Cardinality(Thread) \in Nat \ {0}
  /\ \A num \in Num : num <= Cardinality(Thread)

VARIABLES
  total_threads_limit_,
  bgthreads_,          \* the vector of started, not yet detached threads
  queue_,              \* the deque of BGItems
  queue_len_,
  exit_all_threads_,
  low_io_priority_,
  mu_,                 \* None, or the tag of the UnSchedule call that holds it
  it,                  \* the iterator of that UnSchedule call
  pc,                  \* where each thread is in BGThread
  thread_id,           \* BGThread's parameter
  low_io_priority,     \* BGThread's local of that name
  item,                \* the job a thread is running
  joiner,              \* 0: JoinAllThreads not called; i: about to join the
                       \* i-th thread of bgthreads_; -1: it has returned
  submitted,           \* history: the jobs passed to Schedule
  runs,                \* history: how often a job's function was called
  unscheds             \* history: how often it was removed by UnSchedule

pool  == <<total_threads_limit_, bgthreads_, exit_all_threads_, low_io_priority_>>
work  == <<queue_, queue_len_>>
local == <<thread_id, low_io_priority>>
hist  == <<submitted, runs, unscheds>>
vars  == <<pool, work, mu_, it, pc, local, item, joiner, hist>>

\* A thread is "ready" when it needs mu_: at the top of BGThread's loop or
\* coming back from the wait on bgsignal_; "waiting" inside that wait.
Waiters == {t \in Thread : pc[t] = "waiting"}
Idle    == {t \in Thread : pc[t] = "none"}
Alive   == {"ready", "waiting", "running"}
Awake   == {"ready", "running"}

\* function and arg are the job; whether unschedFunction is set only decides
\* whether its removal is reported to the client.
BGItem  == [job : Job, tag : Tag]

-----------------------------------------------------------------------------

HasExcessiveThread == Len(bgthreads_) > total_threads_limit_

\* Mutant: any excessive thread takes itself for the last one.
AnyExcessiveThread(id) ==
  HasExcessiveThread /\ id >= total_threads_limit_

IsLastExcessiveThread(id) ==
  HasExcessiveThread /\ id = Len(bgthreads_) - 1

IsExcessiveThread(id) == id >= total_threads_limit_

\* pthread_cond_broadcast: every waiter has to get mu_ again
WakeUpAllThreads == [t \in Thread |-> IF pc[t] = "waiting" THEN "ready" ELSE pc[t]]

\* pthread_cond_signal: one waiter, if there is any
ConditionSignal(p) ==
  IF Waiters = {} THEN {p} ELSE {[p EXCEPT ![t] = "ready"] : t \in Waiters}

\* The pthread_t values pthread_create may return for the threads that are
\* missing from bgthreads_ for the given limit, in order of creation.
NewThreads(limit) ==
  LET missing == IF limit > Len(bgthreads_) THEN limit - Len(bgthreads_) ELSE 0
  IN  {s \in [1..missing -> Idle] : \A i, j \in 1..missing : s[i] = s[j] => i = j}

\* StartBGThreads, without the pc of the new threads, which start "ready"
StartBGThreads(s) ==
  /\ bgthreads_' = bgthreads_ \o s
  /\ thread_id' = [t \in Thread |->
       IF \E i \in DOMAIN s : s[i] = t
       THEN Len(bgthreads_) + (CHOOSE i \in DOMAIN s : s[i] = t) - 1
       ELSE thread_id[t]]
  /\ low_io_priority' = [t \in Thread |->
       low_io_priority[t] /\ ~ \E i \in DOMAIN s : s[i] = t]

Started(s, p) ==
  [t \in Thread |-> IF \E i \in DOMAIN s : s[i] = t THEN "ready" ELSE p[t]]

\* Mutant: Schedule leaves the threads alone while some are excessive.
ScheduleWakeNone(s) ==
  IF Len(bgthreads_ \o s) > total_threads_limit_
  THEN pc' = Started(s, pc)
  ELSE pc' \in ConditionSignal(Started(s, pc))

\* Whom Schedule wakes for the new item, once the new threads s have started
ScheduleWake(s) ==
  IF Len(bgthreads_ \o s) > total_threads_limit_
  THEN pc' = Started(s, WakeUpAllThreads)
  ELSE pc' \in ConditionSignal(Started(s, pc))

\* Mutant: a new limit wakes nobody.
ResizeWakeNone(s) == pc' = Started(s, pc)

ResizeWake(s) == pc' = Started(s, WakeUpAllThreads)

LimitFor(num) == IF num > 1 THEN num ELSE 1

LimitChanges(num, allow_reduce) ==
  /\ ~exit_all_threads_
  /\ num > total_threads_limit_ \/ (num < total_threads_limit_ /\ allow_reduce)

-----------------------------------------------------------------------------
(* The operations of the clients.                                          *)

Init ==
  /\ total_threads_limit_ = 1
  /\ bgthreads_ = <<>>
  /\ queue_ = <<>>
  /\ queue_len_ = 0
  /\ exit_all_threads_ = FALSE
  /\ low_io_priority_ = FALSE
  /\ mu_ = None
  /\ it = 0
  /\ pc = [t \in Thread |-> "none"]
  /\ thread_id = [t \in Thread |-> 0]
  /\ low_io_priority = [t \in Thread |-> FALSE]
  /\ item = [t \in Thread |-> None]
  /\ joiner = 0
  /\ submitted = {}
  /\ runs = [j \in Job |-> 0]
  /\ unscheds = [j \in Job |-> 0]

\* Schedule once JoinAllThreads has begun: the job is dropped
ScheduleAfterExit(j) ==
  /\ mu_ = None
  /\ j \notin submitted
  /\ exit_all_threads_
  /\ submitted' = submitted \cup {j}
  /\ UNCHANGED <<pool, work, mu_, it, pc, local, item, joiner, runs, unscheds>>

Schedule(j, tag) ==
  /\ mu_ = None
  /\ j \notin submitted
  /\ ~exit_all_threads_
  /\ submitted' = submitted \cup {j}
  /\ queue_' = Append(queue_, [job |-> j, tag |-> tag])
  /\ queue_len_' = Len(queue_')
  /\ \E s \in NewThreads(total_threads_limit_) :
       /\ StartBGThreads(s)
       /\ ScheduleWake(s)
  /\ UNCHANGED <<total_threads_limit_, exit_all_threads_, low_io_priority_,
                 mu_, it, item, joiner, runs, unscheds>>

SetBackgroundThreadsInternal(num, allow_reduce) ==
  /\ mu_ = None
  /\ LimitChanges(num, allow_reduce)
  /\ total_threads_limit_' = LimitFor(num)
  /\ \E s \in NewThreads(total_threads_limit_') :
       /\ StartBGThreads(s)
       /\ ResizeWake(s)
  /\ UNCHANGED <<work, exit_all_threads_, low_io_priority_, mu_, it, item,
                 joiner, hist>>

SetBackgroundThreads(num) == SetBackgroundThreadsInternal(num, TRUE)

IncBackgroundThreadsIfNeeded(num) == SetBackgroundThreadsInternal(num, FALSE)

LowerIOPriority ==
  /\ mu_ = None
  /\ low_io_priority_' = TRUE
  /\ UNCHANGED <<total_threads_limit_, bgthreads_, exit_all_threads_, work,
                 mu_, it, pc, local, item, joiner, hist>>

-----------------------------------------------------------------------------
(* UnSchedule: an iteration over queue_ under mu_.                         *)

UnScheduleBegin(arg) ==
  /\ mu_ = None
  /\ mu_' = arg
  /\ it' = 1
  /\ UNCHANGED <<pool, work, pc, local, item, joiner, hist>>

Erase(i) == [k \in 1..(Len(queue_) - 1) |->
               IF k < i THEN queue_[k] ELSE queue_[k + 1]]

UnScheduleMatch ==
  /\ mu_ # None
  /\ it <= Len(queue_)
  /\ queue_[it].tag = mu_
  /\ queue_' = Erase(it)
  /\ unscheds' = [unscheds EXCEPT ![queue_[it].job] = @ + 1]
  /\ UNCHANGED <<pool, queue_len_, mu_, it, pc, local, item, joiner,
                 submitted, runs>>

UnScheduleSkip ==
  /\ mu_ # None
  /\ it <= Len(queue_)
  /\ queue_[it].tag # mu_
  /\ it' = it + 1
  /\ UNCHANGED <<pool, work, mu_, pc, local, item, joiner, hist>>

UnScheduleEnd ==
  /\ mu_ # None
  /\ it > Len(queue_)
  /\ queue_len_' = Len(queue_)
  /\ mu_' = None
  /\ it' = 0
  /\ UNCHANGED <<pool, queue_, pc, local, item, joiner, hist>>

-----------------------------------------------------------------------------
(* JoinAllThreads: called at most once (its assertion says so).            *)

\* Mutant: the waiting threads are not told.
JoinAllThreadsQuiet ==
  /\ mu_ = None
  /\ ~exit_all_threads_
  /\ exit_all_threads_' = TRUE
  /\ joiner' = 1
  /\ UNCHANGED <<total_threads_limit_, bgthreads_, low_io_priority_, work,
                 mu_, it, pc, local, item, hist>>

JoinAllThreads ==
  /\ mu_ = None
  /\ ~exit_all_threads_
  /\ exit_all_threads_' = TRUE
  /\ pc' = WakeUpAllThreads
  /\ joiner' = 1
  /\ UNCHANGED <<total_threads_limit_, bgthreads_, low_io_priority_, work,
                 mu_, it, local, item, hist>>

ThreadJoin ==
  /\ joiner > 0
  /\ joiner <= Len(bgthreads_)
  /\ pc[bgthreads_[joiner]] = "exited"
  /\ joiner' = joiner + 1
  /\ UNCHANGED <<pool, work, mu_, it, pc, local, item, hist>>

JoinAllThreadsReturn ==
  /\ joiner > Len(bgthreads_)
  /\ joiner > 0
  /\ bgthreads_' = <<>>
  /\ joiner' = -1
  /\ UNCHANGED <<total_threads_limit_, exit_all_threads_, low_io_priority_,
                 work, mu_, it, pc, local, item, hist>>

-----------------------------------------------------------------------------
(* BGThread(thread_id): what a thread that has mu_ does next.              *)

MustWait(id) ==
  /\ ~exit_all_threads_
  /\ ~IsLastExcessiveThread(id)
  /\ queue_ = <<>> \/ IsExcessiveThread(id)

BGThreadWait(t) ==
  /\ pc[t] = "ready" /\ mu_ = None
  /\ MustWait(thread_id[t])
  /\ pc' = [pc EXCEPT ![t] = "waiting"]
  /\ UNCHANGED <<pool, work, mu_, it, local, item, joiner, hist>>

BGThreadExit(t) ==
  /\ pc[t] = "ready" /\ mu_ = None
  /\ exit_all_threads_
  /\ pc' = [pc EXCEPT ![t] = "exited"]
  /\ UNCHANGED <<pool, work, mu_, it, local, item, joiner, hist>>

\* Whom a terminating thread wakes: everyone, if there is another excessive one
TerminateWake(t) ==
  pc' = IF Len(bgthreads_) - 1 > total_threads_limit_
        THEN [WakeUpAllThreads EXCEPT ![t] = "none"]
        ELSE [pc EXCEPT ![t] = "none"]

\* The last excessive thread detaches itself and ends.
BGThreadTerminate(t) ==
  /\ pc[t] = "ready" /\ mu_ = None
  /\ ~exit_all_threads_
  /\ IsLastExcessiveThread(thread_id[t])
  /\ bgthreads_' = SubSeq(bgthreads_, 1, Len(bgthreads_) - 1)
  /\ TerminateWake(t)
  /\ UNCHANGED <<total_threads_limit_, exit_all_threads_, low_io_priority_,
                 work, mu_, it, local, item, joiner, hist>>

BGThreadTakeItem(t) ==
  /\ pc[t] = "ready" /\ mu_ = None
  /\ ~exit_all_threads_
  /\ ~IsLastExcessiveThread(thread_id[t])
  /\ ~MustWait(thread_id[t])
  /\ item' = [item EXCEPT ![t] = Head(queue_).job]
  /\ runs' = [runs EXCEPT ![Head(queue_).job] = @ + 1]
  /\ queue_' = Tail(queue_)
  /\ queue_len_' = Len(queue_')
  /\ low_io_priority' = [low_io_priority EXCEPT ![t] = @ \/ low_io_priority_]
  /\ pc' = [pc EXCEPT ![t] = "running"]
  /\ UNCHANGED <<pool, mu_, it, thread_id, joiner, submitted, unscheds>>

\* (*function)(arg) returns
FunctionReturns(t) ==
  /\ pc[t] = "running"
  /\ pc' = [pc EXCEPT ![t] = "ready"]
  /\ item' = [item EXCEPT ![t] = None]
  /\ UNCHANGED <<pool, work, mu_, it, local, joiner, hist>>

\* pthread_cond_wait may return without a signal
SpuriousWakeup(t) ==
  /\ pc[t] = "waiting"
  /\ pc' = [pc EXCEPT ![t] = "ready"]
  /\ UNCHANGED <<pool, work, mu_, it, local, item, joiner, hist>>

-----------------------------------------------------------------------------

UnSchedule == UnScheduleMatch \/ UnScheduleSkip \/ UnScheduleEnd

JoinStep == ThreadJoin \/ JoinAllThreadsReturn

BGThread(t) ==
  \/ BGThreadWait(t)
  \/ BGThreadExit(t)
  \/ BGThreadTerminate(t)
  \/ BGThreadTakeItem(t)
  \/ FunctionReturns(t)

Next ==
  \/ \E j \in Job : ScheduleAfterExit(j)
  \/ \E j \in Job, tag \in Tag : Schedule(j, tag)
  \/ \E num \in Num : SetBackgroundThreads(num)
  \/ \E num \in Num : IncBackgroundThreadsIfNeeded(num)
  \/ LowerIOPriority
  \/ \E tag \in Tag : UnScheduleBegin(tag)
  \/ UnSchedule
  \/ JoinAllThreads
  \/ JoinStep
  \/ \E t \in Thread : BGThread(t)
  \/ \E t \in Thread : SpuriousWakeup(t)

Spec == Init /\ [][Next]_vars

(***************************************************************************)
(* Fairness.  A background thread that asks for mu_ again and again gets   *)
(* it (strong fairness: UnSchedule calls may hold mu_ in between), jobs    *)
(* return, and a call of UnSchedule or JoinAllThreads goes on while it can.*)
(* Clients and spurious wake-ups are never obliged to do anything.         *)
(***************************************************************************)
Fairness ==
  /\ \A t \in Thread : SF_vars(BGThread(t))
  /\ WF_vars(UnSchedule)
  /\ WF_vars(JoinStep)

FairSpec == Spec /\ Fairness

-----------------------------------------------------------------------------
(* Properties.                                                             *)

TypeOK ==
  /\ total_threads_limit_ \in 1..Cardinality(Thread)
  /\ bgthreads_ \in Seq(Thread)
  /\ queue_ \in Seq(BGItem)
  /\ queue_len_ \in Nat
  /\ exit_all_threads_ \in BOOLEAN
  /\ low_io_priority_ \in BOOLEAN
  /\ mu_ \in Tag \cup {None}
  /\ it \in Nat /\ (mu_ # None => it > 0)
  /\ pc \in [Thread -> {"none", "ready", "waiting", "running", "exited"}]
  /\ thread_id \in [Thread -> Nat]
  /\ low_io_priority \in [Thread -> BOOLEAN]
  /\ item \in [Thread -> Job \cup {None}]
  /\ joiner \in Int
  /\ submitted \subseteq Job
  /\ runs \in [Job -> Nat]
  /\ unscheds \in [Job -> Nat]

\* No lost wake-up (Schedule's signal-or-broadcast, lines 265-272, against the
\* wait loop of BGThread, lines 118-121): while there is work and the pool is
\* not shutting down, a thread that is allowed to take it is awake.
NoLostWakeup ==
  queue_ # <<>> /\ ~exit_all_threads_ =>
    \E i \in 1..Len(bgthreads_) :
      /\ i <= total_threads_limit_
      /\ pc[bgthreads_[i]] \in Awake

\* The thread whose turn it is to terminate never sleeps: every change that
\* makes a thread the last excessive one wakes it (lines 135-138 and 209).
LastExcessiveAwake ==
  HasExcessiveThread /\ ~exit_all_threads_ =>
    pc[bgthreads_[Len(bgthreads_)]] \in Awake

\* thread_id is the thread's position in bgthreads_ although ids are reused
\* after an excessive thread has left (lines 128-141 and 229-240).
ThreadIdIsPosition ==
  \A i \in 1..Len(bgthreads_) : thread_id[bgthreads_[i]] = i - 1

\* When JoinAllThreads returns no thread of the pool is alive, so no job is
\* running ("Wait for all threads to finish", threadpool.h:23).
JoinWaitsForAll ==
  joiner = -1 => \A t \in Thread : pc[t] \in {"none", "exited"}

\* A job is in one place only: queued once, or handed to one thread, or removed
\* by UnSchedule; it is never run twice, nor run after it was unscheduled.
JobOnce ==
  /\ \A i, k \in 1..Len(queue_) : queue_[i].job = queue_[k].job => i = k
  /\ \A i \in 1..Len(queue_) : runs[queue_[i].job] = 0 /\ unscheds[queue_[i].job] = 0
  /\ \A j \in Job : runs[j] + unscheds[j] <= 1
  /\ \A t, u \in Thread : item[t] # None /\ item[t] = item[u] => t = u

\* The vector and the living threads agree as long as the pool is open, and
\* JoinAllThreads (lines 88-101) is past a thread only when that thread is gone.
ThreadInv ==
  /\ ThreadIdIsPosition
  /\ \A t \in Thread : pc[t] \in Alive =>
       \E i \in 1..Len(bgthreads_) : bgthreads_[i] = t
  /\ \A i \in 1..Len(bgthreads_) : pc[bgthreads_[i]] # "none"
  /\ ~exit_all_threads_ =>
       \A i \in 1..Len(bgthreads_) : pc[bgthreads_[i]] \in Alive
  /\ exit_all_threads_ <=> joiner # 0
  /\ joiner >= -1
  /\ joiner = -1 => bgthreads_ = <<>>
  /\ \A i \in 1..Len(bgthreads_) : i < joiner => pc[bgthreads_[i]] = "exited"

\* Where a job can be (Schedule 261, BGThread 143-153, UnSchedule 286-293): a
\* queued job has not been run or removed, and only its own thread holds it.
QueuedIsFresh ==
  \A i \in 1..Len(queue_) : /\ queue_[i].job \in submitted
                            /\ runs[queue_[i].job] = 0
                            /\ unscheds[queue_[i].job] = 0
QueuedOnce == \A i, k \in 1..Len(queue_) : queue_[i].job = queue_[k].job => i = k
NewIsFresh == \A j \in Job \ submitted : runs[j] = 0 /\ unscheds[j] = 0
DoneOnce == \A j \in Job : runs[j] + unscheds[j] <= 1
HeldIsRun == \A t \in Thread : item[t] # None => item[t] \in submitted /\ runs[item[t]] = 1
HeldByOne == \A t, u \in Thread : item[t] # None /\ item[t] = item[u] => t = u
JobInv == QueuedIsFresh /\ QueuedOnce /\ NewIsFresh /\ DoneOnce /\ HeldIsRun /\ HeldByOne

\* JoinAllThreads walks bgthreads_ without mu_: from the moment it lets go of
\* mu_, nobody but itself changes the vector.
VectorStableDuringJoin ==
  [][exit_all_threads_ => bgthreads_' \in {bgthreads_, <<>>}
                          /\ (bgthreads_' # bgthreads_ => joiner' = -1)]_vars

\* A pool that has too many threads gets rid of them, whatever else it does,
\* unless it is shut down or enlarged first.
ExcessiveThreadsLeave ==
  HasExcessiveThread ~> (~HasExcessiveThread \/ exit_all_threads_)

\* The pool as its clients see it.  Start happens when a thread takes the item.
JQ == INSTANCE JobQueue WITH
        pending <- [i \in 1..Len(queue_) |-> queue_[i].job],
        started <- {j \in Job : runs[j] > 0},
        removed <- {j \in Job : unscheds[j] > 0},
        closed  <- exit_all_threads_

\* The pool implements the job queue of its interface: first in, first out, at
\* most once, nothing lost, and waiting jobs do get started while it is open.
ImplementsJobQueue == JQ!Spec

\* JoinAllThreads returns, provided the running jobs do.
JoinReturns == exit_all_threads_ ~> (joiner = -1)
=============================================================================
