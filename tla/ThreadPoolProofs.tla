--------------------------- MODULE ThreadPoolProofs ---------------------------
(***************************************************************************)
(* Proofs about ThreadPool, for any sets of threads, jobs and tags.        *)
(***************************************************************************)
EXTENDS ThreadPool, TLAPS

LEMMA ThreadCount == Cardinality(Thread) \in Nat /\ Cardinality(Thread) >= 1
BY PoolAssumption

\* A function on 1..n is a sequence of length n.
LEMMA FunctionIsSeq ==
  ASSUME NEW S, NEW n \in Nat, NEW f \in [1..n -> S]
  PROVE  f \in Seq(S) /\ Len(f) = n /\ DOMAIN f = 1..n
OBVIOUS

\* A sequence and an item behind its last.
LEMMA AppendFacts ==
  ASSUME NEW S, NEW s \in Seq(S), NEW x \in S
  PROVE  /\ Append(s, x) \in Seq(S)
         /\ Len(Append(s, x)) = Len(s) + 1
         /\ Append(s, x)[Len(s) + 1] = x
         /\ \A i \in 1..Len(s) : Append(s, x)[i] = s[i]
<1>1. Append(s, x) \in Seq(S) /\ Len(Append(s, x)) = Len(s) + 1
  OBVIOUS
<1>2. Append(s, x)[Len(s) + 1] = x
  OBVIOUS
<1>3. \A i \in 1..Len(s) : Append(s, x)[i] = s[i]
  OBVIOUS
<1> QED
  BY <1>1, <1>2, <1>3, Zenon

\* t is s with x behind its last.
OneMore(t, s, x) == t = Append(s, x)

LEMMA OneMoreFacts ==
  ASSUME NEW t, NEW s, NEW x, OneMore(t, s, x), NEW S, s \in Seq(S), x \in S
  PROVE  /\ t \in Seq(S) /\ Len(t) = Len(s) + 1 /\ t[Len(s) + 1] = x
         /\ \A i \in 1..Len(s) : t[i] = s[i]
BY AppendFacts DEF OneMore

\* The items of a sequence are of its set, and it has a first unless it is empty.
LEMMA ItemOfSeq ==
  ASSUME NEW S, NEW s \in Seq(S)
  PROVE  /\ Len(s) \in Nat /\ (\A i \in 1..Len(s) : s[i] \in S)
         /\ Len(s) >= 1 => 1 \in 1..Len(s)
OBVIOUS

\* What is left without the first.
LEMMA TailFacts ==
  ASSUME NEW S, NEW s \in Seq(S), s # <<>>
  PROVE  /\ Len(s) \in Nat /\ Len(s) >= 1 /\ Head(s) = s[1] /\ Tail(s) \in Seq(S)
         /\ Len(Tail(s)) = Len(s) - 1 /\ \A i \in 1..(Len(s) - 1) : Tail(s)[i] = s[i + 1]
OBVIOUS

\* The positions behind the first.
LEMMA LaterPositions ==
  ASSUME NEW n \in Nat, NEW i \in 1..(n - 1)
  PROVE  i + 1 \in 1..n /\ i + 1 # 1
OBVIOUS

\* The positions up to the one behind n.
LEMMA UpToNext == ASSUME NEW n \in Nat, NEW i \in 1..(n + 1) PROVE i \in 1..n \/ i = n + 1
OBVIOUS

\* One sequence after the other.
LEMMA ConcatFacts ==
  ASSUME NEW S, NEW s \in Seq(S), NEW t \in Seq(S)
  PROVE  /\ s \o t \in Seq(S)
         /\ Len(s \o t) = Len(s) + Len(t)
         /\ \A i \in 1..Len(s) : (s \o t)[i] = s[i]
         /\ \A i \in 1..Len(t) : (s \o t)[Len(s) + i] = t[i]
<1>1. s \o t \in Seq(S) /\ Len(s \o t) = Len(s) + Len(t)
  OBVIOUS
<1>2. \A i \in 1..Len(s) : (s \o t)[i] = s[i]
  OBVIOUS
<1>3. \A i \in 1..Len(t) : (s \o t)[Len(s) + i] = t[i]
  OBVIOUS
<1> QED
  BY <1>1, <1>2, <1>3

\* The prefix of length n of a sequence.
LEMMA PrefixFacts ==
  ASSUME NEW S, NEW s, NEW n \in Nat, \A i \in 1..n : s[i] \in S
  PROVE  /\ SubSeq(s, 1, n) \in Seq(S)
         /\ Len(SubSeq(s, 1, n)) = n
         /\ \A i \in 1..n : SubSeq(s, 1, n)[i] = s[i]
OBVIOUS

\* Sequences that have the same items are the same.
LEMMA SameItems ==
  ASSUME NEW S, NEW s \in Seq(S), NEW t \in Seq(S),
         Len(s) = Len(t), \A i \in 1..Len(s) : s[i] = t[i]
  PROVE  s = t
OBVIOUS

\* What StartBGThreads does to the vector, the ids and the flags.
LEMMA StartFacts ==
  ASSUME TypeOK, NEW limit \in Nat, NEW s \in NewThreads(limit), StartBGThreads(s)
  PROVE  /\ s \in Seq(Thread)
         /\ bgthreads_' \in Seq(Thread)
         /\ Len(bgthreads_') = Len(bgthreads_) + Len(s)
         /\ Len(s) = IF limit > Len(bgthreads_) THEN limit - Len(bgthreads_) ELSE 0
         /\ DOMAIN s = 1..Len(s)
         /\ \A i \in 1..Len(bgthreads_) : bgthreads_'[i] = bgthreads_[i]
         /\ \A i \in 1..Len(s) : bgthreads_'[Len(bgthreads_) + i] = s[i]
         /\ \A i \in 1..Len(s) : s[i] \in Thread /\ pc[s[i]] = "none"
         /\ \A i, j \in 1..Len(s) : s[i] = s[j] => i = j
<1> DEFINE missing == IF limit > Len(bgthreads_) THEN limit - Len(bgthreads_) ELSE 0
<1>1. bgthreads_ \in Seq(Thread) /\ Len(bgthreads_) \in Nat
  BY DEF TypeOK
<1>2. missing \in Nat
  BY <1>1
<1>3. s \in [1..missing -> Idle] /\ \A i, j \in 1..missing : s[i] = s[j] => i = j
  BY DEF NewThreads
<1>4. Idle \subseteq Thread /\ \A t \in Idle : pc[t] = "none"
  BY DEF Idle
<1>5. s \in Seq(Thread) /\ Len(s) = missing /\ DOMAIN s = 1..Len(s)
  <2>1. s \in [1..missing -> Thread]
    BY <1>3, <1>4
  <2> HIDE DEF missing
  <2> QED
    BY <1>2, <2>1, FunctionIsSeq
<1>6. bgthreads_' = bgthreads_ \o s
  BY DEF StartBGThreads
<1>7. /\ bgthreads_' \in Seq(Thread)
      /\ Len(bgthreads_') = Len(bgthreads_) + Len(s)
      /\ \A i \in 1..Len(bgthreads_) : bgthreads_'[i] = bgthreads_[i]
      /\ \A i \in 1..Len(s) : bgthreads_'[Len(bgthreads_) + i] = s[i]
  <2>1. s \in Seq(Thread)
    BY <1>5
  <2>2. /\ bgthreads_ \o s \in Seq(Thread)
        /\ Len(bgthreads_ \o s) = Len(bgthreads_) + Len(s)
        /\ \A i \in 1..Len(bgthreads_) : (bgthreads_ \o s)[i] = bgthreads_[i]
        /\ \A i \in 1..Len(s) : (bgthreads_ \o s)[Len(bgthreads_) + i] = s[i]
    BY <1>1, <2>1, ConcatFacts
  <2> QED
    BY <1>6, <2>2, Zenon
<1>8. \A i \in 1..Len(s) : s[i] \in Thread /\ pc[s[i]] = "none"
  BY <1>3, <1>4, <1>5
<1>9. \A i, j \in 1..Len(s) : s[i] = s[j] => i = j
  BY <1>3, <1>5
<1> QED
  BY <1>5, <1>7, <1>8, <1>9

LEMMA StartTypes ==
  ASSUME TypeOK, NEW limit \in Nat, NEW s \in NewThreads(limit),
         StartBGThreads(s)
  PROVE  /\ thread_id' \in [Thread -> Nat]
         /\ low_io_priority' \in [Thread -> BOOLEAN]
<1>1. DOMAIN s = 1..Len(s) /\ Len(s) \in Nat /\ Len(bgthreads_) \in Nat
  BY StartFacts DEF TypeOK
<1> DEFINE pos(t) == CHOOSE i \in DOMAIN s : s[i] = t
<1>2. ASSUME NEW t \in Thread, \E i \in DOMAIN s : s[i] = t
      PROVE  pos(t) \in 1..Len(s)
  BY <1>1, <1>2
<1>3. thread_id' = [t \in Thread |->
                      IF \E i \in DOMAIN s : s[i] = t
                      THEN Len(bgthreads_) + pos(t) - 1 ELSE thread_id[t]]
  BY DEF StartBGThreads
<1> HIDE DEF pos
<1>4. ASSUME NEW t \in Thread
      PROVE  (IF \E i \in DOMAIN s : s[i] = t
              THEN Len(bgthreads_) + pos(t) - 1 ELSE thread_id[t]) \in Nat
  BY <1>1, <1>2 DEF TypeOK
<1>5. thread_id' \in [Thread -> Nat]
  BY <1>3, <1>4
<1>6. low_io_priority' \in [Thread -> BOOLEAN]
  BY DEF StartBGThreads
<1> QED
  BY <1>5, <1>6

LEMMA StartIds ==
  ASSUME TypeOK, ThreadInv, NEW limit \in Nat, NEW s \in NewThreads(limit),
         StartBGThreads(s)
  PROVE  \A i \in 1..Len(bgthreads_') : thread_id'[bgthreads_'[i]] = i - 1
<1>1. /\ s \in Seq(Thread)
      /\ bgthreads_' \in Seq(Thread)
      /\ Len(bgthreads_') = Len(bgthreads_) + Len(s)
      /\ DOMAIN s = 1..Len(s)
      /\ \A i \in 1..Len(bgthreads_) : bgthreads_'[i] = bgthreads_[i]
      /\ \A i \in 1..Len(s) : bgthreads_'[Len(bgthreads_) + i] = s[i]
      /\ \A i \in 1..Len(s) : s[i] \in Thread /\ pc[s[i]] = "none"
      /\ \A i, j \in 1..Len(s) : s[i] = s[j] => i = j
  BY StartFacts
<1>2. bgthreads_ \in Seq(Thread) /\ Len(bgthreads_) \in Nat /\ Len(s) \in Nat
  BY <1>1 DEF TypeOK
<1> DEFINE pos(t) == CHOOSE i \in DOMAIN s : s[i] = t
<1>3. ASSUME NEW t \in Thread, \E i \in DOMAIN s : s[i] = t
      PROVE  pos(t) \in 1..Len(s) /\ s[pos(t)] = t
  BY <1>1, <1>3
<1>4. ASSUME NEW i \in 1..Len(s)
      PROVE  pos(s[i]) = i
  <2>1. s[i] \in Thread /\ \E k \in DOMAIN s : s[k] = s[i]
    BY <1>1, Zenon
  <2>2. pos(s[i]) \in 1..Len(s) /\ s[pos(s[i])] = s[i]
    BY <1>3, <2>1
  <2> QED
    BY <2>2, <1>1
<1>5. thread_id' = [t \in Thread |->
                      IF \E i \in DOMAIN s : s[i] = t
                      THEN Len(bgthreads_) + pos(t) - 1 ELSE thread_id[t]]
  BY DEF StartBGThreads
<1> HIDE DEF pos
<1>8. ASSUME NEW i \in 1..Len(bgthreads_)
      PROVE  thread_id'[bgthreads_'[i]] = i - 1
  <2>1. bgthreads_'[i] = bgthreads_[i] /\ bgthreads_[i] \in Thread
    BY <1>1, <1>2
  <2>2. pc[bgthreads_[i]] # "none" /\ thread_id[bgthreads_[i]] = i - 1
    BY DEF ThreadInv, ThreadIdIsPosition
  <2>3. ~ \E k \in DOMAIN s : s[k] = bgthreads_[i]
    BY <1>1, <2>2
  <2> QED
    BY <2>1, <2>2, <2>3, <1>5
<1>9. ASSUME NEW i \in 1..Len(s)
      PROVE  thread_id'[bgthreads_'[Len(bgthreads_) + i]] = Len(bgthreads_) + i - 1
  <2>1. bgthreads_'[Len(bgthreads_) + i] = s[i] /\ s[i] \in Thread
    BY <1>1
  <2>2. \E k \in DOMAIN s : s[k] = s[i]
    BY <1>1
  <2> QED
    BY <2>1, <2>2, <1>4, <1>5
<1>10. ASSUME NEW i \in 1..Len(bgthreads_')
       PROVE  thread_id'[bgthreads_'[i]] = i - 1
  <2>1. CASE i <= Len(bgthreads_)
    BY <2>1, <1>8, <1>2
  <2>2. CASE i > Len(bgthreads_)
    <3>1. i - Len(bgthreads_) \in 1..Len(s) /\ Len(bgthreads_) + (i - Len(bgthreads_)) = i
      BY <2>2, <1>1, <1>2
    <3>2. PICK k \in 1..Len(s) : i = Len(bgthreads_) + k
      BY <3>1, Zenon
    <3> QED
      BY <3>2, <1>9
  <2> QED
    BY <2>1, <2>2, <1>1, <1>2
<1> QED
  BY <1>10

-----------------------------------------------------------------------------

\* What erase(it) leaves of the queue.
LEMMA EraseFacts ==
  ASSUME TypeOK, UnScheduleMatch
  PROVE  /\ queue_' \in Seq(BGItem)
         /\ Len(queue_') = Len(queue_) - 1
         /\ it \in 1..Len(queue_) /\ queue_[it].job \in Job
         /\ \A i \in 1..Len(queue_') :
              queue_'[i] = IF i < it THEN queue_[i] ELSE queue_[i + 1]
<1>1. queue_ \in Seq(BGItem) /\ Len(queue_) \in Nat /\ it \in Nat
  BY DEF TypeOK
<1>2. queue_' = [k \in 1..(Len(queue_) - 1) |->
                   IF k < it THEN queue_[k] ELSE queue_[k + 1]]
      /\ it <= Len(queue_) /\ it >= 1
  BY <1>1 DEF UnScheduleMatch, Erase, TypeOK
<1>3. Len(queue_) - 1 \in Nat
  BY <1>1, <1>2
<1>4. queue_' \in [1..(Len(queue_) - 1) -> BGItem]
  BY <1>1, <1>2
<1>5. queue_' \in Seq(BGItem) /\ Len(queue_') = Len(queue_) - 1
  BY <1>3, <1>4, FunctionIsSeq
<1>6. it \in 1..Len(queue_)
  BY <1>1, <1>2
<1>7. queue_[it] \in BGItem
  BY <1>1, <1>6
<1>8. queue_[it].job \in Job
  BY <1>7 DEF BGItem
<1> QED
  BY <1>2, <1>5, <1>6, <1>8

\* What pop_back() leaves of the vector.
LEMMA TerminateFacts ==
  ASSUME TypeOK, NEW t \in Thread, BGThreadTerminate(t)
  PROVE  /\ bgthreads_' \in Seq(Thread)
         /\ Len(bgthreads_) \in Nat \ {0}
         /\ Len(bgthreads_') = Len(bgthreads_) - 1
         /\ \A i \in 1..Len(bgthreads_') : bgthreads_'[i] = bgthreads_[i]
<1>1. bgthreads_ \in Seq(Thread) /\ Len(bgthreads_) \in Nat
  BY DEF TypeOK
<1>2. total_threads_limit_ \in Nat /\ Len(bgthreads_) > total_threads_limit_
  BY ThreadCount
  DEF TypeOK, BGThreadTerminate, IsLastExcessiveThread, HasExcessiveThread
<1>3. bgthreads_' = SubSeq(bgthreads_, 1, Len(bgthreads_) - 1)
  BY DEF BGThreadTerminate
<1> DEFINE n == Len(bgthreads_) - 1
<1>4. n \in Nat /\ Len(bgthreads_) \in Nat \ {0}
  BY <1>1, <1>2
<1>5. \A i \in 1..n : bgthreads_[i] \in Thread
  BY <1>1, <1>4
<1>6. bgthreads_' = SubSeq(bgthreads_, 1, n)
  BY <1>3
<1> HIDE DEF n
<1>7. /\ SubSeq(bgthreads_, 1, n) \in Seq(Thread)
      /\ Len(SubSeq(bgthreads_, 1, n)) = n
      /\ \A i \in 1..n : SubSeq(bgthreads_, 1, n)[i] = bgthreads_[i]
  BY <1>4, <1>5, PrefixFacts
<1> QED
  BY <1>4, <1>6, <1>7 DEF n

\* The type invariant: every operation of the pool keeps the limit between one
\* and the largest number asked for, and the queue a queue of items.
THEOREM TypeCorrect == Spec => []TypeOK
<1>1. Init => TypeOK
  <2> SUFFICES ASSUME Init PROVE TypeOK
    OBVIOUS
  <2>1. low_io_priority \in [Thread -> BOOLEAN] /\ it \in Nat
    BY DEF Init
  <2>2. total_threads_limit_ \in 1..Cardinality(Thread)
    BY ThreadCount DEF Init
  <2>3. bgthreads_ \in Seq(Thread) /\ queue_ \in Seq(BGItem)
    BY DEF Init
  <2>4. /\ pc \in [Thread -> {"none", "ready", "waiting", "running", "exited"}]
        /\ thread_id \in [Thread -> Nat]
        /\ item \in [Thread -> Job \cup {None}]
    BY DEF Init
  <2>5. runs \in [Job -> Nat] /\ unscheds \in [Job -> Nat]
    BY DEF Init
  <2>6. /\ queue_len_ \in Nat /\ joiner \in Int /\ submitted \subseteq Job
        /\ mu_ \in Tag \cup {None} /\ (mu_ # None => it > 0)
    BY DEF Init
  <2>7. exit_all_threads_ \in BOOLEAN /\ low_io_priority_ \in BOOLEAN
    BY Zenon DEF Init
  <2> QED
    BY <2>1, <2>2, <2>3, <2>4, <2>5, <2>6, <2>7 DEF TypeOK
<1>2. TypeOK /\ [Next]_vars => TypeOK'
  <2> SUFFICES ASSUME TypeOK, [Next]_vars PROVE TypeOK'
    OBVIOUS
  <2> USE DEF pool, work, local, hist
  <2>1. ASSUME NEW j \in Job, ScheduleAfterExit(j) PROVE TypeOK'
    BY <2>1 DEF ScheduleAfterExit, TypeOK
  <2>2. ASSUME NEW j \in Job, NEW tag \in Tag, Schedule(j, tag) PROVE TypeOK'
    <3>1. PICK s \in NewThreads(total_threads_limit_) :
                 StartBGThreads(s) /\ ScheduleWake(s)
      BY <2>2 DEF Schedule
    <3>2. total_threads_limit_ \in Nat
      BY ThreadCount DEF TypeOK
    <3>3. bgthreads_' \in Seq(Thread)
      BY <3>1, <3>2, StartFacts
    <3>4. thread_id' \in [Thread -> Nat] /\ low_io_priority' \in [Thread -> BOOLEAN]
      BY <3>1, <3>2, StartTypes
    <3>5. pc' \in [Thread -> {"none", "ready", "waiting", "running", "exited"}]
      BY <3>1, Zenon DEF ScheduleWake, Started, WakeUpAllThreads, ConditionSignal,
                  Waiters, TypeOK
    <3>6. queue_' \in Seq(BGItem) /\ queue_len_' \in Nat
      BY <2>2 DEF Schedule, TypeOK, BGItem
    <3> QED
      BY <2>2, <3>3, <3>4, <3>5, <3>6 DEF Schedule, TypeOK
  <2>3. ASSUME NEW num \in Num, NEW allow_reduce \in BOOLEAN,
               SetBackgroundThreadsInternal(num, allow_reduce)
        PROVE  TypeOK'
    <3>1. total_threads_limit_' \in 1..Cardinality(Thread)
      BY <2>3, ThreadCount, PoolAssumption
      DEF SetBackgroundThreadsInternal, LimitFor
    <3>2. PICK s \in NewThreads(total_threads_limit_') :
                 StartBGThreads(s) /\ ResizeWake(s)
      BY <2>3 DEF SetBackgroundThreadsInternal
    <3>3. total_threads_limit_' \in Nat
      BY <3>1, ThreadCount
    <3>4. bgthreads_' \in Seq(Thread)
      BY <3>2, <3>3, StartFacts
    <3>5. thread_id' \in [Thread -> Nat] /\ low_io_priority' \in [Thread -> BOOLEAN]
      BY <3>2, <3>3, StartTypes
    <3>6. pc' \in [Thread -> {"none", "ready", "waiting", "running", "exited"}]
      BY <3>2 DEF ResizeWake, Started, WakeUpAllThreads, TypeOK
    <3> QED
      BY <2>3, <3>1, <3>4, <3>5, <3>6 DEF SetBackgroundThreadsInternal, TypeOK
  <2>4. CASE LowerIOPriority
    BY <2>4 DEF LowerIOPriority, TypeOK
  <2>5. ASSUME NEW tag \in Tag, UnScheduleBegin(tag) PROVE TypeOK'
    BY <2>5 DEF UnScheduleBegin, TypeOK
  <2>6. CASE UnScheduleMatch
    <3>1. queue_' \in Seq(BGItem)
      BY <2>6, EraseFacts
    <3>2. unscheds' \in [Job -> Nat]
      <4>1. /\ unscheds \in [Job -> Nat] /\ queue_[it].job \in Job
            /\ unscheds' = [unscheds EXCEPT ![queue_[it].job] = @ + 1]
        BY <2>6, EraseFacts, Zenon DEF UnScheduleMatch, TypeOK
      <4> QED
        BY <4>1
    <3> QED
      BY <2>6, <3>1, <3>2, Zenon DEF UnScheduleMatch, TypeOK
  <2>7. CASE UnScheduleSkip
    BY <2>7 DEF UnScheduleSkip, TypeOK
  <2>8. CASE UnScheduleEnd
    BY <2>8 DEF UnScheduleEnd, TypeOK
  <2>9. CASE JoinAllThreads
    BY <2>9 DEF JoinAllThreads, WakeUpAllThreads, TypeOK
  <2>10. CASE ThreadJoin
    BY <2>10 DEF ThreadJoin, TypeOK
  <2>11. CASE JoinAllThreadsReturn
    BY <2>11 DEF JoinAllThreadsReturn, TypeOK
  <2>12. ASSUME NEW t \in Thread, BGThread(t) PROVE TypeOK'
    <3>1. CASE BGThreadWait(t)
      BY <3>1 DEF BGThreadWait, TypeOK
    <3>2. CASE BGThreadExit(t)
      BY <3>2 DEF BGThreadExit, TypeOK
    <3>3. CASE BGThreadTerminate(t)
      <4>1. bgthreads_' \in Seq(Thread)
        BY <3>3, TerminateFacts
      <4>2. pc' \in [Thread -> {"none", "ready", "waiting", "running", "exited"}]
        BY <3>3 DEF BGThreadTerminate, TerminateWake, WakeUpAllThreads, TypeOK
      <4> QED
        BY <3>3, <4>1, <4>2 DEF BGThreadTerminate, TypeOK
    <3>4. CASE BGThreadTakeItem(t)
      <4>1. queue_ # <<>>
        BY <3>4 DEF BGThreadTakeItem, MustWait
      <4>2. Head(queue_) \in BGItem /\ queue_' \in Seq(BGItem) /\ queue_len_' \in Nat
        BY <3>4, <4>1 DEF BGThreadTakeItem, TypeOK
      <4>3. low_io_priority' \in [Thread -> BOOLEAN]
        BY <3>4 DEF BGThreadTakeItem, TypeOK
      <4>4. runs' \in [Job -> Nat] /\ item' \in [Thread -> Job \cup {None}]
        <5>1. Head(queue_).job \in Job
          BY <4>2 DEF BGItem
        <5>2. runs' = [runs EXCEPT ![Head(queue_).job] = @ + 1] /\ runs \in [Job -> Nat]
          BY <3>4 DEF BGThreadTakeItem, TypeOK
        <5>3. item' = [item EXCEPT ![t] = Head(queue_).job] /\ item \in [Thread -> Job \cup {None}]
          BY <3>4 DEF BGThreadTakeItem, TypeOK
        <5> QED
          BY <5>1, <5>2, <5>3
      <4>5. pc' \in [Thread -> {"none", "ready", "waiting", "running", "exited"}]
        BY <3>4 DEF BGThreadTakeItem, TypeOK
      <4> QED
        BY <3>4, <4>2, <4>3, <4>4, <4>5, Zenon DEF BGThreadTakeItem, TypeOK
    <3>5. CASE FunctionReturns(t)
      BY <3>5 DEF FunctionReturns, TypeOK
    <3> QED
      BY <2>12, <3>1, <3>2, <3>3, <3>4, <3>5 DEF BGThread
  <2>13. ASSUME NEW t \in Thread, SpuriousWakeup(t) PROVE TypeOK'
    BY <2>13 DEF SpuriousWakeup, TypeOK
  <2>14. CASE UNCHANGED vars
    BY <2>14 DEF vars, TypeOK
  <2> QED
    BY <2>1, <2>2, <2>3, <2>4, <2>5, <2>6, <2>7, <2>8, <2>9, <2>10, <2>11,
       <2>12, <2>13, <2>14, Zenon
    DEF Next, UnSchedule, JoinStep, SetBackgroundThreads,
        IncBackgroundThreadsIfNeeded
<1> QED
  BY <1>1, <1>2, PTL DEF Spec

-----------------------------------------------------------------------------
(* The threads of the vector.                                              *)

\* What a step does to pc when no thread starts, exits or terminates.
SameLife(t) ==
  /\ pc'[t] \in Alive <=> pc[t] \in Alive
  /\ pc'[t] = "none" <=> pc[t] = "none"
  /\ pc'[t] = "exited" <=> pc[t] = "exited"

LEMMA ThreadInvSame ==
  ASSUME TypeOK, ThreadInv, \A t \in Thread : SameLife(t),
         UNCHANGED <<bgthreads_, thread_id, exit_all_threads_, joiner>>
  PROVE  ThreadInv'
<1>1. \A i \in 1..Len(bgthreads_) : bgthreads_[i] \in Thread
  BY DEF TypeOK
<1> QED
  BY <1>1, Zenon DEF ThreadInv, ThreadIdIsPosition, SameLife

\* Threads at different places of the vector are different.
LEMMA ListedOnce ==
  ASSUME TypeOK, ThreadInv, NEW i \in 1..Len(bgthreads_),
         NEW k \in 1..Len(bgthreads_), bgthreads_[i] = bgthreads_[k]
  PROVE  i = k
<1>1. thread_id[bgthreads_[i]] = i - 1 /\ thread_id[bgthreads_[k]] = k - 1
  BY DEF ThreadInv, ThreadIdIsPosition
<1>2. i \in Int /\ k \in Int
  BY DEF TypeOK
<1> QED
  BY <1>1, <1>2

\* StartBGThreads keeps ThreadInv when the other threads live on.
LEMMA ThreadInvGrow ==
  ASSUME TypeOK, ThreadInv, ~exit_all_threads_,
         NEW limit \in Nat, NEW s \in NewThreads(limit), StartBGThreads(s),
         \A t \in Thread :
           IF \E i \in DOMAIN s : s[i] = t THEN pc'[t] = "ready" ELSE SameLife(t),
         UNCHANGED <<exit_all_threads_, joiner>>
  PROVE  ThreadInv'
<1>1. /\ s \in Seq(Thread)
      /\ bgthreads_' \in Seq(Thread)
      /\ Len(bgthreads_') = Len(bgthreads_) + Len(s)
      /\ DOMAIN s = 1..Len(s)
      /\ \A i \in 1..Len(bgthreads_) : bgthreads_'[i] = bgthreads_[i]
      /\ \A i \in 1..Len(s) : bgthreads_'[Len(bgthreads_) + i] = s[i]
      /\ \A i \in 1..Len(s) : s[i] \in Thread /\ pc[s[i]] = "none"
  BY StartFacts, Zenon
<1>2. /\ bgthreads_ \in Seq(Thread) /\ Len(bgthreads_) \in Nat /\ Len(s) \in Nat
      /\ \A i \in 1..Len(bgthreads_) : bgthreads_[i] \in Thread
  BY <1>1 DEF TypeOK
<1>3. ThreadIdIsPosition'
  BY StartIds DEF ThreadIdIsPosition
<1>4. ASSUME NEW t \in Thread, pc'[t] \in Alive
      PROVE  \E i \in 1..Len(bgthreads_') : bgthreads_'[i] = t
  <2>1. CASE \E i \in DOMAIN s : s[i] = t
    <3>1. PICK i \in 1..Len(s) : s[i] = t
      BY <2>1, <1>1
    <3>2. PICK k \in 1..Len(bgthreads_') : k = Len(bgthreads_) + i
      BY <1>1, <1>2
    <3> QED
      BY <3>1, <3>2, <1>1
  <2>2. CASE ~ \E i \in DOMAIN s : s[i] = t
    <3>1. pc[t] \in Alive
      BY <1>4, <2>2 DEF SameLife
    <3>2. PICK i \in 1..Len(bgthreads_) : bgthreads_[i] = t
      BY <3>1 DEF ThreadInv
    <3>3. i \in 1..Len(bgthreads_')
      BY <1>1, <1>2
    <3> QED
      BY <3>2, <3>3, <1>1
  <2> QED
    BY <2>1, <2>2
<1>5. ASSUME NEW i \in 1..Len(bgthreads_')
      PROVE  pc'[bgthreads_'[i]] \in Alive
  <2>1. CASE i \in 1..Len(bgthreads_)
    <3>1. pc[bgthreads_[i]] \in Alive
      BY <2>1 DEF ThreadInv
    <3>2. ~ \E k \in DOMAIN s : s[k] = bgthreads_[i]
      BY <1>1, <3>1 DEF Alive
    <3> QED
      BY <2>1, <3>1, <3>2, <1>1, <1>2 DEF SameLife
  <2>2. CASE i \notin 1..Len(bgthreads_)
    <3>1. PICK k \in 1..Len(s) : i = Len(bgthreads_) + k
      <4>1. i - Len(bgthreads_) \in 1..Len(s) /\ i = Len(bgthreads_) + (i - Len(bgthreads_))
        BY <2>2, <1>1, <1>2
      <4> QED
        BY <4>1, Zenon
    <3>2. bgthreads_'[i] = s[k] /\ s[k] \in Thread
      BY <3>1, <1>1
    <3> QED
      BY <3>2, <1>1, Zenon DEF Alive
  <2> QED
    BY <2>1, <2>2
<1>6. joiner' = 0 /\ ~exit_all_threads_'
  BY DEF ThreadInv
<1>7. \A i \in 1..Len(bgthreads_') : pc'[bgthreads_'[i]] # "none"
  BY <1>5 DEF Alive
<1> QED
  BY <1>1, <1>2, <1>3, <1>4, <1>5, <1>6, <1>7 DEF ThreadInv

\* Schedule and the resizing calls: whom they wake lives already.
LEMMA WakeKeepsLife ==
  ASSUME TypeOK, NEW limit \in Nat, NEW s \in NewThreads(limit),
         StartBGThreads(s), ScheduleWake(s) \/ ResizeWake(s)
  PROVE  \A t \in Thread :
           IF \E i \in DOMAIN s : s[i] = t THEN pc'[t] = "ready" ELSE SameLife(t)
<1> SUFFICES ASSUME NEW t \in Thread
             PROVE  IF \E i \in DOMAIN s : s[i] = t
                    THEN pc'[t] = "ready" ELSE SameLife(t)
  OBVIOUS
<1>1. /\ DOMAIN s = 1..Len(s)
      /\ \A i \in 1..Len(s) : pc[s[i]] = "none"
  BY StartFacts, Zenon
<1>2. ASSUME pc' = Started(s, pc) PROVE IF \E i \in DOMAIN s : s[i] = t
                    THEN pc'[t] = "ready" ELSE SameLife(t)
  BY <1>2 DEF Started, SameLife
<1>3. ASSUME pc' = Started(s, WakeUpAllThreads)
      PROVE IF \E i \in DOMAIN s : s[i] = t THEN pc'[t] = "ready" ELSE SameLife(t)
  BY <1>3 DEF Started, SameLife, WakeUpAllThreads, Alive
<1>4. ASSUME NEW w \in Waiters, pc' = [Started(s, pc) EXCEPT ![w] = "ready"]
      PROVE IF \E i \in DOMAIN s : s[i] = t THEN pc'[t] = "ready" ELSE SameLife(t)
  <2>1. w \in Thread /\ pc[w] = "waiting"
    BY DEF Waiters
  <2>2. ~ \E i \in DOMAIN s : s[i] = w
    BY <2>1, <1>1
  <2> QED
    BY <1>4, <2>1, <2>2 DEF Started, SameLife, Alive
<1> QED
  BY <1>2, <1>3, <1>4 DEF ScheduleWake, ResizeWake, ConditionSignal

LEMMA ThreadInvTerminate ==
  ASSUME TypeOK, ThreadInv, NEW t \in Thread, BGThreadTerminate(t)
  PROVE  /\ ThreadInv'
         /\ t = bgthreads_[Len(bgthreads_)]
         /\ \A i \in 1..Len(bgthreads_') :
              bgthreads_'[i] = bgthreads_[i] /\ bgthreads_[i] # t
<1>1. /\ bgthreads_' \in Seq(Thread)
      /\ Len(bgthreads_) \in Nat \ {0}
      /\ Len(bgthreads_') = Len(bgthreads_) - 1
      /\ \A i \in 1..Len(bgthreads_') : bgthreads_'[i] = bgthreads_[i]
  BY TerminateFacts
<1>2. bgthreads_ \in Seq(Thread) /\ \A i \in 1..Len(bgthreads_) : bgthreads_[i] \in Thread
  BY DEF TypeOK
<1>3. /\ pc[t] = "ready" /\ thread_id[t] = Len(bgthreads_) - 1
      /\ ~exit_all_threads_ /\ ~exit_all_threads_' /\ joiner' = joiner
      /\ thread_id' = thread_id
  BY DEF BGThreadTerminate, IsLastExcessiveThread, local
<1>4. t = bgthreads_[Len(bgthreads_)]
  <2>1. PICK i \in 1..Len(bgthreads_) : bgthreads_[i] = t
    BY <1>3 DEF ThreadInv, Alive
  <2>2. thread_id[t] = i - 1
    BY <2>1 DEF ThreadInv, ThreadIdIsPosition
  <2>3. i = Len(bgthreads_)
    BY <2>2, <1>1, <1>3
  <2> QED
    BY <2>1, <2>3
<1>5. ASSUME NEW i \in 1..Len(bgthreads_') PROVE bgthreads_[i] # t
  <2>1. i \in 1..Len(bgthreads_) /\ i # Len(bgthreads_)
        /\ Len(bgthreads_) \in 1..Len(bgthreads_)
    BY <1>1
  <2> QED
    BY <2>1, <1>4, ListedOnce
<1>6. pc' = [pc EXCEPT ![t] = "none"] \/ pc' = [WakeUpAllThreads EXCEPT ![t] = "none"]
  BY DEF BGThreadTerminate, TerminateWake
<1>7. pc'[t] = "none"
  BY <1>6 DEF TypeOK, WakeUpAllThreads
<1>8. \A u \in Thread : u # t => SameLife(u)
  BY <1>6, Zenon DEF TypeOK, WakeUpAllThreads, SameLife, Alive
<1>9. ASSUME NEW u \in Thread, pc'[u] \in Alive
      PROVE  \E i \in 1..Len(bgthreads_') : bgthreads_'[i] = u
  <2>1. u # t
    BY <1>7, <1>9 DEF Alive
  <2>2. pc[u] \in Alive
    BY <2>1, <1>8, <1>9 DEF SameLife
  <2>3. PICK i \in 1..Len(bgthreads_) : bgthreads_[i] = u
    BY <2>2 DEF ThreadInv
  <2>4. i \in 1..Len(bgthreads_')
    BY <2>1, <2>3, <1>1, <1>4
  <2> QED
    BY <2>3, <2>4, <1>1
<1>10. ASSUME NEW i \in 1..Len(bgthreads_') PROVE pc'[bgthreads_'[i]] \in Alive
  <2>1. i \in 1..Len(bgthreads_)
    BY <1>1
  <2>2. pc[bgthreads_[i]] \in Alive
    BY <2>1, <1>3 DEF ThreadInv
  <2> QED
    BY <2>1, <2>2, <1>1, <1>2, <1>5, <1>8 DEF SameLife
<1>11. ThreadIdIsPosition'
  <2> SUFFICES ASSUME NEW i \in 1..Len(bgthreads_')
               PROVE  thread_id'[bgthreads_'[i]] = i - 1
    BY DEF ThreadIdIsPosition
  <2>1. i \in 1..Len(bgthreads_) /\ bgthreads_'[i] = bgthreads_[i]
    BY <1>1
  <2> QED
    BY <2>1, <1>3 DEF ThreadInv, ThreadIdIsPosition
<1>12. joiner' = 0
  BY <1>3 DEF ThreadInv
<1>13. \A i \in 1..Len(bgthreads_') : pc'[bgthreads_'[i]] # "none"
  BY <1>10 DEF Alive
<1>14. ThreadInv'
  BY <1>1, <1>3, <1>9, <1>10, <1>11, <1>12, <1>13 DEF ThreadInv
<1> QED
  BY <1>1, <1>4, <1>5, <1>14

LEMMA ThreadInvInit == Init => ThreadInv
BY DEF Init, ThreadInv, ThreadIdIsPosition, Alive

LEMMA ThreadInvStep == TypeOK /\ TypeOK' /\ ThreadInv /\ [Next]_vars => ThreadInv'
<1> SUFFICES ASSUME TypeOK, TypeOK', ThreadInv, [Next]_vars PROVE ThreadInv'
  OBVIOUS
<1> USE DEF pool, work, local, hist
<1>1. ASSUME NEW j \in Job, ScheduleAfterExit(j) PROVE ThreadInv'
  BY <1>1, ThreadInvSame DEF ScheduleAfterExit, SameLife
<1>2. ASSUME NEW j \in Job, NEW tag \in Tag, Schedule(j, tag) PROVE ThreadInv'
  <2>1. PICK s \in NewThreads(total_threads_limit_) :
               StartBGThreads(s) /\ ScheduleWake(s)
    BY <1>2 DEF Schedule
  <2>2. total_threads_limit_ \in Nat
    BY ThreadCount DEF TypeOK
  <2>3. ~exit_all_threads_ /\ UNCHANGED <<exit_all_threads_, joiner>>
    BY <1>2 DEF Schedule
  <2>4. \A t \in Thread :
          IF \E i \in DOMAIN s : s[i] = t THEN pc'[t] = "ready" ELSE SameLife(t)
    BY <2>1, <2>2, WakeKeepsLife
  <2> QED
    BY <2>1, <2>2, <2>3, <2>4, ThreadInvGrow
<1>3. ASSUME NEW num \in Num, NEW allow_reduce \in BOOLEAN,
             SetBackgroundThreadsInternal(num, allow_reduce)
      PROVE  ThreadInv'
  <2>1. PICK s \in NewThreads(total_threads_limit_') :
               StartBGThreads(s) /\ ResizeWake(s)
    BY <1>3 DEF SetBackgroundThreadsInternal
  <2>2. total_threads_limit_' \in Nat
    BY ThreadCount DEF TypeOK
  <2>3. ~exit_all_threads_ /\ UNCHANGED <<exit_all_threads_, joiner>>
    BY <1>3 DEF SetBackgroundThreadsInternal, LimitChanges
  <2>4. \A t \in Thread :
          IF \E i \in DOMAIN s : s[i] = t THEN pc'[t] = "ready" ELSE SameLife(t)
    BY <2>1, <2>2, WakeKeepsLife
  <2> QED
    BY <2>1, <2>2, <2>3, <2>4, ThreadInvGrow
<1>4. CASE LowerIOPriority
  BY <1>4, ThreadInvSame DEF LowerIOPriority, SameLife
<1>5. ASSUME NEW tag \in Tag, UnScheduleBegin(tag) PROVE ThreadInv'
  BY <1>5, ThreadInvSame DEF UnScheduleBegin, SameLife
<1>6. CASE UnScheduleMatch
  BY <1>6, ThreadInvSame DEF UnScheduleMatch, SameLife
<1>7. CASE UnScheduleSkip
  BY <1>7, ThreadInvSame DEF UnScheduleSkip, SameLife
<1>8. CASE UnScheduleEnd
  BY <1>8, ThreadInvSame DEF UnScheduleEnd, SameLife
<1>9. CASE JoinAllThreads
  <2>1. /\ ~exit_all_threads_ /\ exit_all_threads_' /\ joiner' = 1
        /\ bgthreads_' = bgthreads_ /\ thread_id' = thread_id
    BY <1>9 DEF JoinAllThreads
  <2>2. \A t \in Thread : SameLife(t)
    BY <1>9 DEF JoinAllThreads, WakeUpAllThreads, SameLife, Alive
  <2>3. \A i \in 1..Len(bgthreads_) : bgthreads_[i] \in Thread /\ ~ i < 1
    BY DEF TypeOK
  <2> QED
    BY <2>1, <2>2, <2>3 DEF ThreadInv, ThreadIdIsPosition, SameLife
<1>10. CASE ThreadJoin
  <2>1. /\ joiner > 0 /\ joiner <= Len(bgthreads_) /\ joiner' = joiner + 1
        /\ pc[bgthreads_[joiner]] = "exited"
        /\ UNCHANGED <<bgthreads_, thread_id, exit_all_threads_, pc>>
    BY <1>10 DEF ThreadJoin
  <2>2. joiner \in Int /\ Len(bgthreads_) \in Nat
    BY DEF TypeOK
  <2>3. ASSUME NEW i \in 1..Len(bgthreads_), i < joiner'
        PROVE  pc[bgthreads_[i]] = "exited"
    <3>1. i < joiner \/ i = joiner
      BY <2>1, <2>2, <2>3
    <3> QED
      BY <3>1, <2>1 DEF ThreadInv
  <2>4. exit_all_threads_ /\ joiner' # 0 /\ joiner' # -1 /\ joiner' >= -1
    BY <2>1, <2>2 DEF ThreadInv
  <2> QED
    BY <2>1, <2>3, <2>4 DEF ThreadInv, ThreadIdIsPosition
<1>11. CASE JoinAllThreadsReturn
  <2>1. /\ joiner > 0 /\ joiner > Len(bgthreads_)
        /\ joiner' = -1 /\ bgthreads_' = <<>>
        /\ UNCHANGED <<exit_all_threads_, pc, thread_id>>
    BY <1>11 DEF JoinAllThreadsReturn
  <2>2. exit_all_threads_'
    BY <2>1 DEF ThreadInv, TypeOK
  <2>3. ASSUME NEW t \in Thread PROVE pc[t] \notin Alive
    <3>1. SUFFICES ASSUME pc[t] \in Alive PROVE FALSE
      OBVIOUS
    <3>2. PICK i \in 1..Len(bgthreads_) : bgthreads_[i] = t
      BY <3>1 DEF ThreadInv
    <3>3. i < joiner
      BY <2>1 DEF TypeOK
    <3>4. pc[t] = "exited"
      BY <3>2, <3>3 DEF ThreadInv
    <3> QED
      BY <3>1, <3>4 DEF Alive
  <2> QED
    BY <2>1, <2>2, <2>3 DEF ThreadInv, ThreadIdIsPosition
<1>12. ASSUME NEW t \in Thread, BGThread(t) PROVE ThreadInv'
  <2>1. CASE BGThreadWait(t)
    BY <2>1, ThreadInvSame DEF BGThreadWait, SameLife, Alive, TypeOK
  <2>2. CASE BGThreadExit(t)
    <3>1. /\ exit_all_threads_ /\ pc[t] = "ready" /\ pc' = [pc EXCEPT ![t] = "exited"]
          /\ UNCHANGED <<bgthreads_, thread_id, exit_all_threads_, joiner>>
      BY <2>2 DEF BGThreadExit
    <3>2. pc'[t] = "exited" /\ \A u \in Thread : u # t => pc'[u] = pc[u]
      BY <3>1 DEF TypeOK
    <3>3. \A i \in 1..Len(bgthreads_) : bgthreads_[i] \in Thread
      BY ItemOfSeq, Zenon DEF TypeOK
    <3> QED
      BY <3>1, <3>2, <3>3 DEF ThreadInv, ThreadIdIsPosition, Alive
  <2>3. CASE BGThreadTerminate(t)
    BY <2>3, ThreadInvTerminate
  <2>4. CASE BGThreadTakeItem(t)
    BY <2>4, ThreadInvSame, Zenon DEF BGThreadTakeItem, SameLife, Alive, TypeOK
  <2>5. CASE FunctionReturns(t)
    BY <2>5, ThreadInvSame, Zenon DEF FunctionReturns, SameLife, Alive, TypeOK
  <2> QED
    BY <1>12, <2>1, <2>2, <2>3, <2>4, <2>5, Zenon DEF BGThread
<1>13. ASSUME NEW t \in Thread, SpuriousWakeup(t) PROVE ThreadInv'
  BY <1>13, ThreadInvSame DEF SpuriousWakeup, SameLife, Alive, TypeOK
<1>14. CASE UNCHANGED vars
  BY <1>14, ThreadInvSame DEF vars, SameLife
<1> QED
  BY <1>1, <1>2, <1>3, <1>4, <1>5, <1>6, <1>7, <1>8, <1>9, <1>10, <1>11,
     <1>12, <1>13, <1>14, Zenon
  DEF Next, UnSchedule, JoinStep, SetBackgroundThreads,
      IncBackgroundThreadsIfNeeded

\* The living threads are the threads of bgthreads_, each at the position that
\* is its id, however often the pool grows and shrinks.
THEOREM ThreadsAreListed == Spec => []ThreadInv
BY TypeCorrect, ThreadInvInit, ThreadInvStep, PTL DEF Spec

\* JoinAllThreads returns only when every thread of the pool has ended.
THEOREM JoinIsComplete == Spec => []JoinWaitsForAll
<1>1. TypeOK /\ ThreadInv => JoinWaitsForAll
  <2> SUFFICES ASSUME TypeOK, ThreadInv, joiner = -1, NEW t \in Thread
               PROVE  pc[t] \in {"none", "exited"}
    BY DEF JoinWaitsForAll
  <2>1. Len(bgthreads_) = 0
    BY DEF ThreadInv
  <2>2. pc[t] \notin Alive
    BY <2>1 DEF ThreadInv
  <2> QED
    BY <2>2 DEF TypeOK, Alive
<1> QED
  BY <1>1, TypeCorrect, ThreadsAreListed, PTL

-----------------------------------------------------------------------------
(* No wake-up is lost.                                                     *)

WakeInv == NoLostWakeup /\ LastExcessiveAwake

\* Steps that put no thread to sleep, give no thread work and leave the vector
\* and the limit alone.
LEMMA WakeInvSame ==
  ASSUME TypeOK, WakeInv,
         UNCHANGED <<bgthreads_, total_threads_limit_>>,
         exit_all_threads_ => exit_all_threads_',
         queue_' # <<>> => queue_ # <<>>,
         \A t \in Thread : pc[t] \in Awake => pc'[t] \in Awake
  PROVE  WakeInv'
<1>1. Len(bgthreads_) \in Nat /\ \A i \in 1..Len(bgthreads_) : bgthreads_[i] \in Thread
  <2>1. bgthreads_ \in Seq(Thread)
    BY Zenon DEF TypeOK
  <2> QED
    BY <2>1
<1>2. NoLostWakeup'
  BY <1>1 DEF WakeInv, NoLostWakeup
<1>3. HasExcessiveThread => Len(bgthreads_) \in 1..Len(bgthreads_)
  BY <1>1, ThreadCount DEF HasExcessiveThread, TypeOK
<1>4. HasExcessiveThread' <=> HasExcessiveThread
  BY Zenon DEF HasExcessiveThread
<1>5. LastExcessiveAwake'
  BY <1>1, <1>3, <1>4, Zenon DEF WakeInv, LastExcessiveAwake
<1> QED
  BY <1>2, <1>5 DEF WakeInv

\* When everyone in the vector is awake, in particular the right ones are.
LEMMA AllAwake ==
  ASSUME TypeOK', Len(bgthreads_') >= 1,
         \A i \in 1..Len(bgthreads_') : pc'[bgthreads_'[i]] \in Awake
  PROVE  WakeInv'
<1>1. Len(bgthreads_') \in Nat /\ total_threads_limit_' \in Nat /\ total_threads_limit_' >= 1
  BY ThreadCount DEF TypeOK
<1>2. 1 \in 1..Len(bgthreads_') /\ Len(bgthreads_') \in 1..Len(bgthreads_')
  BY <1>1
<1>3. NoLostWakeup'
  BY <1>1, <1>2 DEF NoLostWakeup
<1>4. LastExcessiveAwake'
  BY <1>2, Zenon DEF LastExcessiveAwake
<1> QED
  BY <1>3, <1>4 DEF WakeInv

\* A broadcast, with the missing threads started, leaves nobody asleep.
LEMMA BroadcastWakesAll ==
  ASSUME TypeOK, TypeOK', ThreadInv', ~exit_all_threads_',
         NEW limit \in Nat, limit >= 1,
         NEW s \in NewThreads(limit), StartBGThreads(s),
         pc' = Started(s, WakeUpAllThreads)
  PROVE  WakeInv'
<1>1. Len(bgthreads_') >= 1
  <2>1. /\ Len(bgthreads_') = Len(bgthreads_) + Len(s)
        /\ Len(s) = IF limit > Len(bgthreads_) THEN limit - Len(bgthreads_) ELSE 0
    BY StartFacts
  <2>2. Len(bgthreads_) \in Nat
    BY DEF TypeOK
  <2> QED
    BY <2>1, <2>2
<1>2. \A t \in Thread : pc'[t] # "waiting"
  BY DEF Started, WakeUpAllThreads, TypeOK
<1>3. ASSUME NEW i \in 1..Len(bgthreads_') PROVE pc'[bgthreads_'[i]] \in Awake
  <2>1. bgthreads_'[i] \in Thread
    BY DEF TypeOK
  <2>2. pc'[bgthreads_'[i]] \in Alive
    BY DEF ThreadInv
  <2> QED
    BY <2>1, <2>2, <1>2 DEF Alive, Awake
<1> QED
  BY <1>1, <1>3, AllAwake

LEMMA ScheduleWakes ==
  ASSUME TypeOK, TypeOK', ThreadInv, ThreadInv', WakeInv,
         NEW j \in Job, NEW tag \in Tag, Schedule(j, tag)
  PROVE  WakeInv'
<1>1. PICK s \in NewThreads(total_threads_limit_) :
             StartBGThreads(s) /\ ScheduleWake(s)
  BY Zenon DEF Schedule
<1>2. /\ total_threads_limit_ \in Nat /\ total_threads_limit_ >= 1
      /\ total_threads_limit_' = total_threads_limit_
      /\ ~exit_all_threads_'
  BY ThreadCount DEF TypeOK, Schedule
<1>3. /\ Len(bgthreads_') = Len(bgthreads_) + Len(s)
      /\ bgthreads_' = bgthreads_ \o s
      /\ DOMAIN s = 1..Len(s)
      /\ \A i \in 1..Len(s) : pc[s[i]] = "none"
      /\ Len(s) = IF total_threads_limit_ > Len(bgthreads_)
                  THEN total_threads_limit_ - Len(bgthreads_) ELSE 0
  <2>1. bgthreads_' = bgthreads_ \o s
    BY <1>1 DEF StartBGThreads
  <2> QED
    BY <1>1, <1>2, <2>1, StartFacts, ZenonT(30)
<1>4. Len(bgthreads_) \in Nat /\ Len(bgthreads_') \in Nat
  BY ItemOfSeq, Zenon DEF TypeOK
<1>5. CASE Len(bgthreads_') > total_threads_limit_
  <2>1. pc' = Started(s, WakeUpAllThreads)
    BY <1>1, <1>3, <1>5 DEF ScheduleWake
  <2> QED
    BY <2>1, <1>1, <1>2, BroadcastWakesAll, ZenonT(30)
<1>6. CASE ~ Len(bgthreads_') > total_threads_limit_
  <2>1. pc' \in ConditionSignal(Started(s, pc))
    BY <1>1, <1>3, <1>6, Zenon DEF ScheduleWake
  <2>2. Len(bgthreads_') >= 1 /\ Len(bgthreads_') <= total_threads_limit_
    BY <1>2, <1>3, <1>4, <1>6
  <2>3. ~HasExcessiveThread'
    BY <1>2, <1>4, <2>2 DEF HasExcessiveThread
  <2>4. LastExcessiveAwake'
    BY <2>3 DEF LastExcessiveAwake
  <2>5. \E i \in 1..Len(bgthreads_') : pc'[bgthreads_'[i]] \in Awake
    <3>1. CASE Waiters = {}
      <4>1. pc' = Started(s, pc)
        BY <2>1, <3>1 DEF ConditionSignal
      <4>2. \A t \in Thread : pc'[t] # "waiting"
        BY <4>1, <3>1 DEF Started, Waiters
      <4>3. 1 \in 1..Len(bgthreads_') /\ bgthreads_'[1] \in Thread
        BY <2>2, ItemOfSeq, Zenon DEF TypeOK
      <4>4. pc'[bgthreads_'[1]] \in Alive
        BY <4>3, <1>2 DEF ThreadInv
      <4> QED
        BY <4>2, <4>3, <4>4 DEF Alive, Awake
    <3>2. CASE Waiters # {}
      <4>1. PICK w \in Waiters : pc' = [Started(s, pc) EXCEPT ![w] = "ready"]
        BY <2>1, <3>2 DEF ConditionSignal
      <4>2. w \in Thread /\ pc'[w] = "ready"
        BY <4>1, Zenon DEF Waiters, Started
      <4>3. PICK i \in 1..Len(bgthreads_') : bgthreads_'[i] = w
        BY <4>2, Zenon DEF ThreadInv, Alive
      <4> QED
        BY <4>2, <4>3 DEF Awake
    <3> QED
      BY <3>1, <3>2
  <2>6. NoLostWakeup'
    <3>1. PICK i \in 1..Len(bgthreads_') : pc'[bgthreads_'[i]] \in Awake
      BY <2>5
    <3>2. i <= total_threads_limit_'
      BY <1>2, <1>4, <2>2
    <3> QED
      BY <3>1, <3>2, Zenon DEF NoLostWakeup
  <2> QED
    BY <2>4, <2>6, Zenon DEF WakeInv
<1> QED
  BY <1>5, <1>6

\* Only a thread whose turn it is not, and which may not take the work, sleeps.
LEMMA WaitKeepsWakeInv ==
  ASSUME TypeOK, ThreadInv, WakeInv, NEW t \in Thread, BGThreadWait(t)
  PROVE  WakeInv'
<1>1. /\ MustWait(thread_id[t]) /\ pc' = [pc EXCEPT ![t] = "waiting"]
      /\ UNCHANGED <<bgthreads_, total_threads_limit_, exit_all_threads_, queue_>>
  BY DEF BGThreadWait, pool, work
<1>2. /\ Len(bgthreads_) \in Nat /\ total_threads_limit_ \in Nat
      /\ total_threads_limit_ >= 1
      /\ \A i \in 1..Len(bgthreads_) : bgthreads_[i] \in Thread
  <2>1. /\ Len(bgthreads_) \in Nat
        /\ \A i \in 1..Len(bgthreads_) : bgthreads_[i] \in Thread
    BY ItemOfSeq, Zenon DEF TypeOK
  <2>2. total_threads_limit_ \in Nat /\ total_threads_limit_ >= 1
    BY ThreadCount DEF TypeOK
  <2> QED
    BY <2>1, <2>2, Zenon
<1>3. \A u \in Thread : u # t => pc'[u] = pc[u]
  BY <1>1, Zenon DEF TypeOK
<1>4. \A i \in 1..Len(bgthreads_) : bgthreads_[i] = t => thread_id[t] = i - 1
  BY Zenon DEF ThreadInv, ThreadIdIsPosition
<1>5. NoLostWakeup'
  <2> SUFFICES ASSUME queue_ # <<>>, ~exit_all_threads_
               PROVE  \E i \in 1..Len(bgthreads_) :
                        i <= total_threads_limit_ /\ pc'[bgthreads_[i]] \in Awake
    BY <1>1 DEF NoLostWakeup
  <2>1. PICK i \in 1..Len(bgthreads_) :
               i <= total_threads_limit_ /\ pc[bgthreads_[i]] \in Awake
    BY DEF WakeInv, NoLostWakeup
  <2>2. thread_id[t] >= total_threads_limit_
    BY <1>1 DEF MustWait, IsExcessiveThread
  <2>3. bgthreads_[i] # t
    BY <2>1, <2>2, <1>2, <1>4
  <2> QED
    BY <2>1, <2>3, <1>2, <1>3
<1>6. LastExcessiveAwake'
  <2> SUFFICES ASSUME HasExcessiveThread, ~exit_all_threads_
               PROVE  pc'[bgthreads_[Len(bgthreads_)]] \in Awake
    BY <1>1 DEF LastExcessiveAwake, HasExcessiveThread
  <2>1. Len(bgthreads_) \in 1..Len(bgthreads_)
    BY <1>2 DEF HasExcessiveThread
  <2>2. thread_id[t] # Len(bgthreads_) - 1
    BY <1>1 DEF MustWait, IsLastExcessiveThread
  <2>3. bgthreads_[Len(bgthreads_)] # t
    BY <2>1, <2>2, <1>4
  <2>4. pc[bgthreads_[Len(bgthreads_)]] \in Awake
    BY DEF WakeInv, LastExcessiveAwake
  <2> QED
    BY <2>1, <2>3, <2>4, <1>2, <1>3, Zenon
<1> QED
  BY <1>5, <1>6 DEF WakeInv

LEMMA TerminateKeepsWakeInv ==
  ASSUME TypeOK, TypeOK', ThreadInv, WakeInv, NEW t \in Thread, BGThreadTerminate(t)
  PROVE  WakeInv'
<1>1. /\ Len(bgthreads_') = Len(bgthreads_) - 1
      /\ \A i \in 1..Len(bgthreads_') :
           bgthreads_'[i] = bgthreads_[i] /\ bgthreads_[i] # t
  BY TerminateFacts, ThreadInvTerminate
<1>2. /\ Len(bgthreads_) \in Nat /\ total_threads_limit_ \in Nat
      /\ total_threads_limit_ >= 1
      /\ \A i \in 1..Len(bgthreads_) : bgthreads_[i] \in Thread
  <2>1. /\ Len(bgthreads_) \in Nat
        /\ \A i \in 1..Len(bgthreads_) : bgthreads_[i] \in Thread
    BY ItemOfSeq, Zenon DEF TypeOK
  <2>2. total_threads_limit_ \in Nat /\ total_threads_limit_ >= 1
    BY ThreadCount DEF TypeOK
  <2> QED
    BY <2>1, <2>2, Zenon
<1>3. /\ ~exit_all_threads_ /\ Len(bgthreads_) > total_threads_limit_
      /\ UNCHANGED <<total_threads_limit_, exit_all_threads_, queue_>>
  BY DEF BGThreadTerminate, IsLastExcessiveThread, HasExcessiveThread, work
<1>4. \A u \in Thread : u # t => (pc[u] \in Awake => pc'[u] \in Awake)
  BY DEF BGThreadTerminate, TerminateWake, WakeUpAllThreads, TypeOK, Awake
<1>5. NoLostWakeup'
  <2> SUFFICES ASSUME queue_ # <<>>
               PROVE  \E i \in 1..Len(bgthreads_') :
                        i <= total_threads_limit_ /\ pc'[bgthreads_'[i]] \in Awake
    BY <1>3 DEF NoLostWakeup
  <2>1. PICK i \in 1..Len(bgthreads_) :
               i <= total_threads_limit_ /\ pc[bgthreads_[i]] \in Awake
    BY <1>3 DEF WakeInv, NoLostWakeup
  <2>2. i \in 1..Len(bgthreads_')
    BY <2>1, <1>1, <1>2, <1>3
  <2> QED
    BY <2>1, <2>2, <1>1, <1>2, <1>4
<1>6. LastExcessiveAwake'
  <2> SUFFICES ASSUME Len(bgthreads_') > total_threads_limit_
               PROVE  pc'[bgthreads_'[Len(bgthreads_')]] \in Awake
    BY <1>3 DEF LastExcessiveAwake, HasExcessiveThread
  <2> DEFINE k == Len(bgthreads_')
  <2>1. k \in 1..Len(bgthreads_') /\ k \in 1..Len(bgthreads_)
    BY <1>1, <1>2
  <2>2. pc' = [WakeUpAllThreads EXCEPT ![t] = "none"]
    BY <1>1, Zenon DEF BGThreadTerminate, TerminateWake
  <2>3. bgthreads_'[k] = bgthreads_[k] /\ bgthreads_[k] # t /\ bgthreads_[k] \in Thread
    BY <1>1, <1>2, <2>1
  <2>4. pc[bgthreads_[k]] \in Alive
    BY <1>3, <2>1 DEF ThreadInv
  <2> HIDE DEF k
  <2>5. pc'[bgthreads_'[k]] \in Awake
    BY <2>2, <2>3, <2>4 DEF WakeUpAllThreads, Alive, Awake
  <2> QED
    BY <2>5 DEF k
<1> QED
  BY <1>5, <1>6 DEF WakeInv

LEMMA WakeInvStep ==
  TypeOK /\ TypeOK' /\ ThreadInv /\ ThreadInv' /\ WakeInv /\ [Next]_vars => WakeInv'
<1> SUFFICES ASSUME TypeOK, TypeOK', ThreadInv, ThreadInv', WakeInv, [Next]_vars
             PROVE  WakeInv'
  OBVIOUS
<1> USE DEF pool, work, local, hist
<1>1. ASSUME NEW j \in Job, ScheduleAfterExit(j) PROVE WakeInv'
  BY <1>1, WakeInvSame DEF ScheduleAfterExit
<1>2. ASSUME NEW j \in Job, NEW tag \in Tag, Schedule(j, tag) PROVE WakeInv'
  BY <1>2, ScheduleWakes
<1>3. ASSUME NEW num \in Num, NEW allow_reduce \in BOOLEAN,
             SetBackgroundThreadsInternal(num, allow_reduce)
      PROVE  WakeInv'
  <2>1. PICK s \in NewThreads(total_threads_limit_') :
               StartBGThreads(s) /\ ResizeWake(s)
    BY <1>3, Zenon DEF SetBackgroundThreadsInternal
  <2>2. total_threads_limit_' \in Nat /\ total_threads_limit_' >= 1
    BY ThreadCount DEF TypeOK
  <2>3. ~exit_all_threads_'
    BY <1>3 DEF SetBackgroundThreadsInternal, LimitChanges
  <2> QED
    BY <2>1, <2>2, <2>3, BroadcastWakesAll DEF ResizeWake
<1>4. CASE LowerIOPriority
  BY <1>4, WakeInvSame DEF LowerIOPriority
<1>5. ASSUME NEW tag \in Tag, UnScheduleBegin(tag) PROVE WakeInv'
  BY <1>5, WakeInvSame DEF UnScheduleBegin
<1>6. CASE UnScheduleMatch
  <2>1. queue_ # <<>>
    BY <1>6, EraseFacts DEF TypeOK
  <2> QED
    BY <1>6, <2>1, WakeInvSame, Zenon DEF UnScheduleMatch
<1>7. CASE UnScheduleSkip
  BY <1>7, WakeInvSame DEF UnScheduleSkip
<1>8. CASE UnScheduleEnd
  BY <1>8, WakeInvSame, Zenon DEF UnScheduleEnd
<1>9. CASE JoinAllThreads
  BY <1>9 DEF JoinAllThreads, WakeInv, NoLostWakeup, LastExcessiveAwake
<1>10. CASE ThreadJoin
  BY <1>10, WakeInvSame DEF ThreadJoin
<1>11. CASE JoinAllThreadsReturn
  <2>1. exit_all_threads_'
    <3>1. joiner # 0
      BY <1>11 DEF JoinAllThreadsReturn
    <3>2. exit_all_threads_
      BY <3>1, Zenon DEF ThreadInv
    <3> QED
      BY <1>11, <3>2, Zenon DEF JoinAllThreadsReturn
  <2> QED
    BY <2>1 DEF WakeInv, NoLostWakeup, LastExcessiveAwake
<1>12. ASSUME NEW t \in Thread, BGThread(t) PROVE WakeInv'
  <2>1. CASE BGThreadWait(t)
    BY <2>1, WaitKeepsWakeInv
  <2>2. CASE BGThreadExit(t)
    BY <2>2 DEF BGThreadExit, WakeInv, NoLostWakeup, LastExcessiveAwake
  <2>3. CASE BGThreadTerminate(t)
    BY <2>3, TerminateKeepsWakeInv, Zenon
  <2>4. CASE BGThreadTakeItem(t)
    <3>1. queue_ # <<>>
      BY <2>4, Zenon DEF BGThreadTakeItem, MustWait
    <3>2. \A u \in Thread : pc[u] \in Awake => pc'[u] \in Awake
      BY <2>4 DEF BGThreadTakeItem, Awake, TypeOK
    <3> QED
      BY <2>4, <3>1, <3>2, WakeInvSame, Zenon DEF BGThreadTakeItem
  <2>5. CASE FunctionReturns(t)
    <3>1. \A u \in Thread : pc[u] \in Awake => pc'[u] \in Awake
      BY <2>5 DEF FunctionReturns, Awake, TypeOK
    <3> QED
      BY <2>5, <3>1, WakeInvSame, Zenon DEF FunctionReturns
  <2> QED
    BY <1>12, <2>1, <2>2, <2>3, <2>4, <2>5 DEF BGThread
<1>13. ASSUME NEW t \in Thread, SpuriousWakeup(t) PROVE WakeInv'
  <2>1. \A u \in Thread : pc[u] \in Awake => pc'[u] \in Awake
    BY <1>13 DEF SpuriousWakeup, Awake, TypeOK
  <2> QED
    BY <1>13, <2>1, WakeInvSame, Zenon DEF SpuriousWakeup
<1>14. CASE UNCHANGED vars
  BY <1>14, WakeInvSame DEF vars
<1> QED
  BY <1>1, <1>2, <1>3, <1>4, <1>5, <1>6, <1>7, <1>8, <1>9, <1>10, <1>11,
     <1>12, <1>13, <1>14, Zenon
  DEF Next, UnSchedule, JoinStep, SetBackgroundThreads,
      IncBackgroundThreadsIfNeeded

LEMMA WakeInvHolds == Spec => []WakeInv
<1>1. Init => WakeInv
  BY DEF Init, WakeInv, NoLostWakeup, LastExcessiveAwake, HasExcessiveThread
<1> QED
  BY <1>1, TypeCorrect, ThreadsAreListed, WakeInvStep, PTL DEF Spec

\* No interleaving of Schedule, the resizing calls and the sleeping threads
\* leaves work in the queue with every thread that may take it asleep.
THEOREM WakeupsAreKept == Spec => []NoLostWakeup
BY WakeInvHolds, PTL DEF WakeInv

\* The thread that has to leave the pool next is never asleep.
THEOREM ExcessiveThreadIsAwake == Spec => []LastExcessiveAwake
BY WakeInvHolds, PTL DEF WakeInv

-----------------------------------------------------------------------------
(* The jobs.                                                               *)

\* Steps that leave the queue, the jobs at hand and the history alone.
LEMMA JobInvSame ==
  ASSUME JobInv, UNCHANGED <<queue_, item, submitted, runs, unscheds>>
  PROVE  JobInv'
BY DEF JobInv, QueuedIsFresh, QueuedOnce, NewIsFresh,
  DoneOnce, HeldIsRun, HeldByOne

LEMMA ScheduleKeepsJobs ==
  ASSUME TypeOK, JobInv, NEW j \in Job, NEW tag \in Tag, Schedule(j, tag)
  PROVE  JobInv'
<1>1. /\ j \notin submitted /\ submitted' = submitted \cup {j}
      /\ queue_' = Append(queue_, [job |-> j, tag |-> tag])
      /\ UNCHANGED <<item, runs, unscheds>>
  BY DEF Schedule
<1>2. /\ queue_ \in Seq(BGItem) /\ Len(queue_) \in Nat
      /\ [job |-> j, tag |-> tag] \in BGItem
  BY DEF TypeOK, BGItem
<1>3. /\ Len(queue_') = Len(queue_) + 1
      /\ \A i \in 1..Len(queue_) : queue_'[i] = queue_[i]
      /\ queue_'[Len(queue_) + 1] = [job |-> j, tag |-> tag]
      /\ queue_'[Len(queue_) + 1].job = j
  <2>1. PICK x \in BGItem : x = [job |-> j, tag |-> tag] /\ x.job = j
    BY <1>2, Zenon
  <2>2. queue_ \in Seq(BGItem) /\ OneMore(queue_', queue_, x)
    BY <1>1, <1>2, <2>1, Zenon DEF OneMore
  <2>3. /\ Len(queue_') = Len(queue_) + 1 /\ queue_'[Len(queue_) + 1] = x
        /\ \A i \in 1..Len(queue_) : queue_'[i] = queue_[i]
    BY <2>2, OneMoreFacts, Zenon
  <2> QED
    BY <2>1, <2>3, Zenon
<1>4. queue_'[Len(queue_) + 1].job = j
  BY <1>3, Zenon
<1>5. \A i \in 1..Len(queue_') : i \in 1..Len(queue_) \/ i = Len(queue_) + 1
  BY <1>2, <1>3
<1>6. runs[j] = 0 /\ unscheds[j] = 0
  BY <1>1, Zenon DEF JobInv, NewIsFresh
<1>7. \A i \in 1..Len(queue_') :
        /\ queue_'[i].job \in submitted'
        /\ runs'[queue_'[i].job] = 0
        /\ unscheds'[queue_'[i].job] = 0
  <2> SUFFICES ASSUME NEW i \in 1..Len(queue_')
               PROVE  /\ queue_'[i].job \in submitted'
                      /\ runs'[queue_'[i].job] = 0
                      /\ unscheds'[queue_'[i].job] = 0
    OBVIOUS
  <2>1. CASE i \in 1..Len(queue_)
    BY <1>1, <1>3, <2>1, Zenon DEF JobInv, QueuedIsFresh
  <2>2. CASE i = Len(queue_) + 1
    BY <1>1, <1>4, <1>6, <2>2, Zenon
  <2> QED
    BY <1>5, <2>1, <2>2, Zenon
<1>8. \A i \in 1..Len(queue_) : queue_'[i].job # j
  BY <1>1, <1>3 DEF JobInv, QueuedIsFresh
<1>9. \A i, k \in 1..Len(queue_') : queue_'[i].job = queue_'[k].job => i = k
  BY <1>3, <1>4, <1>5, <1>8, Zenon DEF JobInv, QueuedOnce
<1>10. QueuedIsFresh' /\ QueuedOnce'
  BY <1>7, <1>9, Zenon DEF QueuedIsFresh, QueuedOnce
<1>11. NewIsFresh' /\ DoneOnce' /\ HeldIsRun' /\ HeldByOne'
  BY <1>1 DEF JobInv, NewIsFresh, DoneOnce, HeldIsRun, HeldByOne
<1> QED
  BY <1>10, <1>11 DEF JobInv

LEMMA RemoveKeepsJobs ==
  ASSUME TypeOK, JobInv, UnScheduleMatch
  PROVE  JobInv'
<1>1. /\ Len(queue_') = Len(queue_) - 1
      /\ it \in 1..Len(queue_) /\ queue_[it].job \in Job
      /\ \A i \in 1..Len(queue_') :
           queue_'[i] = IF i < it THEN queue_[i] ELSE queue_[i + 1]
  BY EraseFacts
<1>2. /\ unscheds' = [unscheds EXCEPT ![queue_[it].job] = @ + 1]
      /\ UNCHANGED <<item, submitted, runs>>
  BY DEF UnScheduleMatch
<1>3. Len(queue_) \in Nat /\ it \in Nat
  BY DEF TypeOK
<1> DEFINE src(i) == IF i < it THEN i ELSE i + 1
<1>4. \A i \in 1..Len(queue_') :
        src(i) \in 1..Len(queue_) /\ src(i) # it /\ queue_'[i] = queue_[src(i)]
  <2> SUFFICES ASSUME NEW i \in 1..Len(queue_')
               PROVE  src(i) \in 1..Len(queue_) /\ src(i) # it /\ queue_'[i] = queue_[src(i)]
    OBVIOUS
  <2>1. CASE i < it
    BY <1>1, <1>3, <2>1
  <2>2. CASE ~(i < it)
    BY <1>1, <1>3, <2>2
  <2> QED
    BY <2>1, <2>2
<1>5. \A i, k \in 1..Len(queue_') : src(i) = src(k) => i = k
  BY <1>1, <1>3
<1> HIDE DEF src
<1>6. \A i \in 1..Len(queue_') : queue_'[i].job # queue_[it].job
  BY <1>1, <1>4, Zenon DEF JobInv, QueuedOnce
<1>7. \A k \in Job : unscheds'[k] = IF k = queue_[it].job THEN unscheds[k] + 1
                                     ELSE unscheds[k]
  BY <1>1, <1>2, Zenon DEF TypeOK
<1>8. \A i \in 1..Len(queue_') : queue_'[i].job \in submitted /\ queue_'[i].job \in Job
  <2>1. \A i \in 1..Len(queue_) : queue_[i].job \in submitted
    BY DEF JobInv, QueuedIsFresh
  <2>2. submitted \subseteq Job
    BY DEF TypeOK
  <2> QED
    BY <1>4, <2>1, <2>2
<1>9. \A i \in 1..Len(queue_') :
        runs[queue_'[i].job] = 0 /\ unscheds'[queue_'[i].job] = 0
  <2> SUFFICES ASSUME NEW i \in 1..Len(queue_')
               PROVE  runs[queue_'[i].job] = 0 /\ unscheds'[queue_'[i].job] = 0
    OBVIOUS
  <2>1. src(i) \in 1..Len(queue_) /\ queue_'[i] = queue_[src(i)]
    BY <1>4, Zenon
  <2>2. runs[queue_[src(i)].job] = 0 /\ unscheds[queue_[src(i)].job] = 0
    BY <2>1 DEF JobInv, QueuedIsFresh
  <2>3. unscheds'[queue_'[i].job] = unscheds[queue_'[i].job]
    BY <1>6, <1>7, <1>8
  <2> QED
    BY <2>1, <2>2, <2>3
<1>10. \A i, k \in 1..Len(queue_') : queue_'[i].job = queue_'[k].job => i = k
  <2> SUFFICES ASSUME NEW i \in 1..Len(queue_'), NEW k \in 1..Len(queue_'),
                      queue_'[i].job = queue_'[k].job
               PROVE  i = k
    BY Zenon
  <2>1. /\ src(i) \in 1..Len(queue_) /\ queue_'[i] = queue_[src(i)]
        /\ src(k) \in 1..Len(queue_) /\ queue_'[k] = queue_[src(k)]
    BY <1>4, Zenon
  <2>2. queue_[src(i)].job = queue_[src(k)].job
    BY <2>1
  <2>3. src(i) = src(k)
    BY <2>1, <2>2 DEF JobInv, QueuedOnce
  <2> QED
    BY <2>3, <1>5
<1>11. /\ runs[queue_[it].job] = 0 /\ unscheds[queue_[it].job] = 0
       /\ queue_[it].job \in submitted
  BY <1>1, Zenon DEF JobInv, QueuedIsFresh
<1>12. \A k \in Job : runs[k] + unscheds'[k] <= 1
  BY <1>7, <1>11 DEF JobInv, DoneOnce
<1>13. \A k \in Job \ submitted : runs[k] = 0 /\ unscheds'[k] = 0
  BY <1>7, <1>11, Zenon DEF JobInv, NewIsFresh
<1>14. QueuedIsFresh' /\ QueuedOnce' /\ NewIsFresh' /\ DoneOnce'
  BY <1>2, <1>8, <1>9, <1>10, <1>12, <1>13, Zenon DEF QueuedIsFresh, QueuedOnce, NewIsFresh, DoneOnce
<1>15. HeldIsRun' /\ HeldByOne'
  BY <1>2 DEF JobInv, HeldIsRun, HeldByOne
<1> QED
  BY <1>14, <1>15 DEF JobInv

LEMMA TakeKeepsJobs ==
  ASSUME TypeOK, JobInv, NEW t \in Thread, BGThreadTakeItem(t)
  PROVE  JobInv'
<1>1. queue_ # <<>> /\ queue_ \in Seq(BGItem)
  BY DEF BGThreadTakeItem, MustWait, TypeOK
<1> DEFINE job == Head(queue_).job
<1>2. /\ Len(queue_) \in Nat /\ 1 \in 1..Len(queue_)
      /\ Head(queue_) = queue_[1]
      /\ Len(Tail(queue_)) = Len(queue_) - 1
      /\ \A i \in 1..(Len(queue_) - 1) : Tail(queue_)[i] = queue_[i + 1]
  BY <1>1
<1>3. Head(queue_) \in BGItem
  BY <1>1, <1>2
<1>4. job \in Job
  BY <1>3, Zenon DEF BGItem
<1>5. /\ queue_' = Tail(queue_)
      /\ item' = [item EXCEPT ![t] = job]
      /\ runs' = [runs EXCEPT ![job] = @ + 1]
      /\ submitted' = submitted /\ unscheds' = unscheds
  BY Zenon DEF BGThreadTakeItem
<1>6. job \in submitted /\ runs[job] = 0 /\ unscheds[job] = 0
  BY <1>2 DEF JobInv, QueuedIsFresh
<1>7. \A i \in 1..Len(queue_') :
        i + 1 \in 1..Len(queue_) /\ i + 1 # 1 /\ queue_'[i] = queue_[i + 1]
  <2>1. Len(queue_') = Len(queue_) - 1
    BY <1>2, <1>5, Zenon
  <2>2. \A i \in 1..(Len(queue_) - 1) : queue_'[i] = queue_[i + 1]
    BY <1>2, <1>5, Zenon
  <2>3. \A i \in 1..(Len(queue_) - 1) : i + 1 \in 1..Len(queue_) /\ i + 1 # 1
    BY <1>2, LaterPositions, Zenon
  <2> QED
    BY <2>1, <2>2, <2>3, Zenon
<1>8. \A i \in 1..Len(queue_') : queue_'[i].job # job
  BY <1>2, <1>7 DEF JobInv, QueuedOnce
<1> HIDE DEF job
<1>9. \A k \in Job : runs'[k] = IF k = job THEN runs[k] + 1 ELSE runs[k]
  BY <1>4, <1>5 DEF TypeOK
<1>10. \A u \in Thread : item'[u] = IF u = t THEN job ELSE item[u]
  BY <1>5, Zenon DEF TypeOK
<1>11. \A i \in 1..Len(queue_') :
         queue_'[i].job \in submitted /\ unscheds[queue_'[i].job] = 0
         /\ runs[queue_'[i].job] = 0
  <2> SUFFICES ASSUME NEW i \in 1..Len(queue_')
               PROVE  queue_'[i].job \in submitted /\ unscheds[queue_'[i].job] = 0
                      /\ runs[queue_'[i].job] = 0
    OBVIOUS
  <2>1. i + 1 \in 1..Len(queue_) /\ queue_'[i] = queue_[i + 1]
    BY <1>7, Zenon
  <2> QED
    BY <2>1, Zenon DEF JobInv, QueuedIsFresh
<1>12. \A i \in 1..Len(queue_') : runs'[queue_'[i].job] = 0
  BY <1>8, <1>9, <1>11 DEF TypeOK
<1>13. \A i, k \in 1..Len(queue_') : queue_'[i].job = queue_'[k].job => i = k
  <2> SUFFICES ASSUME NEW i \in 1..Len(queue_'), NEW k \in 1..Len(queue_'),
                      queue_'[i].job = queue_'[k].job
               PROVE  i = k
    OBVIOUS
  <2>1. i + 1 = k + 1
    <3>1. /\ i + 1 \in 1..Len(queue_) /\ queue_'[i] = queue_[i + 1]
          /\ k + 1 \in 1..Len(queue_) /\ queue_'[k] = queue_[k + 1]
      BY <1>7
    <3>2. queue_[i + 1].job = queue_[k + 1].job
      BY <3>1
    <3> QED
      BY <3>1, <3>2 DEF JobInv, QueuedOnce
  <2> QED
    BY <2>1
<1>14. \A k \in Job : runs'[k] + unscheds[k] <= 1
  BY <1>6, <1>9 DEF JobInv, DoneOnce
<1>15. \A k \in Job \ submitted : runs'[k] = 0 /\ unscheds[k] = 0
  BY <1>6, <1>9 DEF JobInv, NewIsFresh
<1>16. \A u \in Thread : item[u] # None =>
         item[u] \in submitted /\ runs[item[u]] = 1 /\ item[u] # job /\ item[u] \in Job
  BY <1>6 DEF JobInv, HeldIsRun, TypeOK
<1>17. \A u \in Thread : item'[u] # None =>
         item'[u] \in submitted /\ runs'[item'[u]] = 1
  <2> SUFFICES ASSUME NEW u \in Thread, item'[u] # None
               PROVE  item'[u] \in submitted /\ runs'[item'[u]] = 1
    OBVIOUS
  <2>1. CASE u = t
    <3>1. item'[u] = job /\ runs'[job] = runs[job] + 1 /\ job \in submitted /\ runs[job] = 0
      BY <2>1, <1>4, <1>6, <1>9, <1>10, Zenon
    <3> QED
      BY <3>1
  <2>2. CASE u # t
    BY <2>2, <1>9, <1>10, <1>16, ZenonT(30)
  <2> QED
    BY <2>1, <2>2
<1>18. \A u, v \in Thread : item'[u] # None /\ item'[u] = item'[v] => u = v
  BY <1>10, <1>16 DEF JobInv, HeldByOne
<1>19. QueuedIsFresh' /\ QueuedOnce'
  BY <1>5, <1>11, <1>12, <1>13, Zenon DEF QueuedIsFresh, QueuedOnce
<1>20. NewIsFresh' /\ DoneOnce' /\ HeldIsRun' /\ HeldByOne'
  BY <1>5, <1>14, <1>15, <1>17, <1>18 DEF NewIsFresh, DoneOnce, HeldIsRun, HeldByOne
<1> QED
  BY <1>19, <1>20, Zenon DEF JobInv

LEMMA JobInvStep == TypeOK /\ JobInv /\ [Next]_vars => JobInv'
<1> SUFFICES ASSUME TypeOK, JobInv, [Next]_vars PROVE JobInv'
  BY Zenon
<1> USE DEF pool, work, local, hist
<1>1. ASSUME NEW j \in Job, ScheduleAfterExit(j) PROVE JobInv'
  <2>1. /\ submitted' = submitted \cup {j}
        /\ UNCHANGED <<queue_, item, runs, unscheds>>
    BY <1>1 DEF ScheduleAfterExit
  <2> QED
    BY <2>1 DEF JobInv, QueuedIsFresh, QueuedOnce, NewIsFresh,
    DoneOnce, HeldIsRun, HeldByOne
<1>2. ASSUME NEW j \in Job, NEW tag \in Tag, Schedule(j, tag) PROVE JobInv'
  BY <1>2, ScheduleKeepsJobs
<1>3. ASSUME NEW num \in Num, NEW allow_reduce \in BOOLEAN,
             SetBackgroundThreadsInternal(num, allow_reduce)
      PROVE  JobInv'
  BY <1>3, JobInvSame DEF SetBackgroundThreadsInternal
<1>4. CASE LowerIOPriority
  BY <1>4, JobInvSame DEF LowerIOPriority
<1>5. ASSUME NEW tag \in Tag, UnScheduleBegin(tag) PROVE JobInv'
  BY <1>5, JobInvSame DEF UnScheduleBegin
<1>6. CASE UnScheduleMatch
  BY <1>6, RemoveKeepsJobs
<1>7. CASE UnScheduleSkip
  BY <1>7, JobInvSame DEF UnScheduleSkip
<1>8. CASE UnScheduleEnd
  BY <1>8, JobInvSame DEF UnScheduleEnd
<1>9. CASE JoinAllThreads
  BY <1>9, JobInvSame DEF JoinAllThreads
<1>10. CASE JoinStep
  BY <1>10, JobInvSame DEF JoinStep, ThreadJoin, JoinAllThreadsReturn
<1>11. ASSUME NEW t \in Thread, BGThread(t) PROVE JobInv'
  <2>1. CASE BGThreadTakeItem(t)
    BY <2>1, TakeKeepsJobs, Zenon
  <2>2. CASE FunctionReturns(t)
    <3>1. /\ \A u \in Thread : item'[u] = IF u = t THEN None ELSE item[u]
          /\ UNCHANGED <<queue_, submitted, runs, unscheds>>
      BY <2>2, Zenon DEF FunctionReturns, TypeOK
    <3> QED
      BY <3>1, Zenon DEF JobInv, QueuedIsFresh, QueuedOnce, NewIsFresh,
      DoneOnce, HeldIsRun, HeldByOne
  <2>3. CASE BGThreadWait(t)
    BY <2>3, JobInvSame, Zenon DEF BGThreadWait
  <2>4. CASE BGThreadExit(t)
    BY <2>4, JobInvSame, Zenon DEF BGThreadExit
  <2>5. CASE BGThreadTerminate(t)
    BY <2>5, JobInvSame DEF BGThreadTerminate
  <2> QED
    BY <1>11, <2>1, <2>2, <2>3, <2>4, <2>5 DEF BGThread
<1>12. ASSUME NEW t \in Thread, SpuriousWakeup(t) PROVE JobInv'
  BY <1>12, JobInvSame DEF SpuriousWakeup
<1>13. CASE UNCHANGED vars
  BY <1>13, JobInvSame DEF vars
<1> QED
  BY <1>1, <1>2, <1>3, <1>4, <1>5, <1>6, <1>7, <1>8, <1>9, <1>10, <1>11,
     <1>12, <1>13, Zenon
  DEF Next, UnSchedule, SetBackgroundThreads, IncBackgroundThreadsIfNeeded

LEMMA JobInvHolds == Spec => []JobInv
<1>1. Init => JobInv
  <2> SUFFICES ASSUME Init PROVE JobInv
    OBVIOUS
  <2>1. /\ queue_ = <<>> /\ submitted = {} /\ item = [t \in Thread |-> None]
        /\ runs = [j \in Job |-> 0] /\ unscheds = [j \in Job |-> 0]
    BY DEF Init
  <2> QED
    BY <2>1 DEF JobInv, QueuedIsFresh, QueuedOnce, NewIsFresh,
    DoneOnce, HeldIsRun, HeldByOne
<1> QED
  BY <1>1, TypeCorrect, JobInvStep, PTL DEF Spec

\* A job is queued, run or removed at most once in all, and no two threads run
\* the same one.
THEOREM JobsRunOnce == Spec => []JobOnce
<1>1. JobInv => JobOnce
  BY Zenon DEF JobOnce, JobInv, QueuedIsFresh, QueuedOnce, DoneOnce, HeldByOne
<1> QED
  BY <1>1, JobInvHolds, PTL

\* The vector JoinAllThreads walks without mu_ does not change under it.
THEOREM VectorIsStable == Spec => VectorStableDuringJoin
<1>1. [Next]_vars =>
        [exit_all_threads_ => bgthreads_' \in {bgthreads_, <<>>}
                              /\ (bgthreads_' # bgthreads_ => joiner' = -1)]_vars
  <2> SUFFICES ASSUME Next, exit_all_threads_
               PROVE  bgthreads_' = bgthreads_ \/ (bgthreads_' = <<>> /\ joiner' = -1)
    BY DEF vars
  <2>1. ASSUME NEW num \in Num, NEW allow_reduce \in BOOLEAN,
               SetBackgroundThreadsInternal(num, allow_reduce)
        PROVE  FALSE
    BY <2>1 DEF SetBackgroundThreadsInternal, LimitChanges
  <2>2. ASSUME NEW t \in Thread, BGThread(t) PROVE bgthreads_' = bgthreads_
    <3>1. CASE BGThreadWait(t)
      BY <3>1 DEF BGThreadWait, pool
    <3>2. CASE BGThreadExit(t)
      BY <3>2 DEF BGThreadExit, pool
    <3>3. CASE BGThreadTerminate(t)
      BY <3>3, Zenon DEF BGThreadTerminate
    <3>4. CASE BGThreadTakeItem(t)
      BY <3>4 DEF BGThreadTakeItem, pool
    <3>5. CASE FunctionReturns(t)
      BY <3>5 DEF FunctionReturns, pool
    <3> QED
      BY <2>2, <3>1, <3>2, <3>3, <3>4, <3>5 DEF BGThread
  <2>3. ASSUME NEW t \in Thread, SpuriousWakeup(t) PROVE bgthreads_' = bgthreads_
    BY <2>3 DEF SpuriousWakeup, pool
  <2>4. CASE JoinAllThreads
    BY <2>4 DEF JoinAllThreads
  <2>5. CASE JoinStep
    <3>1. CASE ThreadJoin
      BY <3>1 DEF ThreadJoin, pool
    <3>2. CASE JoinAllThreadsReturn
      BY <3>2 DEF JoinAllThreadsReturn
    <3> QED
      BY <2>5, <3>1, <3>2 DEF JoinStep
  <2>6. CASE LowerIOPriority
    BY <2>6 DEF LowerIOPriority
  <2>7. CASE UnSchedule
    <3>1. CASE UnScheduleMatch
      BY <3>1 DEF UnScheduleMatch, pool
    <3>2. CASE UnScheduleSkip
      BY <3>2 DEF UnScheduleSkip, pool
    <3>3. CASE UnScheduleEnd
      BY <3>3 DEF UnScheduleEnd, pool
    <3> QED
      BY <2>7, <3>1, <3>2, <3>3 DEF UnSchedule
  <2>8. ASSUME NEW tag \in Tag, UnScheduleBegin(tag) PROVE bgthreads_' = bgthreads_
    BY <2>8 DEF UnScheduleBegin, pool
  <2>9. ASSUME NEW j \in Job, ScheduleAfterExit(j) PROVE bgthreads_' = bgthreads_
    BY <2>9, Zenon DEF ScheduleAfterExit, pool
  <2>10. ASSUME NEW j \in Job, NEW tag \in Tag, Schedule(j, tag) PROVE FALSE
    BY <2>10 DEF Schedule
  <2> QED
    BY <2>1, <2>2, <2>3, <2>4, <2>5, <2>6, <2>7, <2>8, <2>9, <2>10, Zenon
    DEF Next, SetBackgroundThreads, IncBackgroundThreadsIfNeeded
<1> QED
  BY <1>1, PTL DEF Spec, VectorStableDuringJoin

-----------------------------------------------------------------------------
(* The pool implements the queue of its interface, but for its fairness.   *)

\* The queue as JobQueue has it.
Jobs(q) == [i \in 1..Len(q) |-> q[i].job]

LEMMA JobsFacts ==
  ASSUME NEW q \in Seq(BGItem)
  PROVE  /\ Jobs(q) \in Seq(Job) /\ Len(Jobs(q)) = Len(q) /\ Len(q) \in Nat
         /\ \A i \in 1..Len(q) : Jobs(q)[i] = q[i].job
<1>1. ASSUME NEW i \in 1..Len(q) PROVE q[i].job \in Job
  <2>1. q[i] \in BGItem
    OBVIOUS
  <2> QED
    BY <2>1 DEF BGItem
<1>2. Jobs(q) \in [1..Len(q) -> Job]
  BY <1>1 DEF Jobs
<1> QED
  BY <1>2, FunctionIsSeq DEF Jobs

\* What has been counted once more.
LEMMA CountedFacts ==
  ASSUME NEW f \in [Job -> Nat], NEW g, NEW j \in Job, g = [f EXCEPT ![j] = @ + 1]
  PROVE  {k \in Job : g[k] > 0} = {k \in Job : f[k] > 0} \cup {j}
<1>1. ASSUME NEW k \in Job PROVE g[k] > 0 <=> f[k] > 0 \/ k = j
  <2>1. f[k] \in Nat /\ f[j] \in Nat
    OBVIOUS
  <2>2. CASE k = j
    <3>1. g[k] = f[j] + 1
      BY <2>2, Zenon
    <3> QED
      BY <2>1, <2>2, <3>1
  <2>3. CASE k # j
    BY <2>3, Zenon
  <2> QED
    BY <2>2, <2>3, Zenon
<1> QED
  BY <1>1, Zenon

\* Steps after which the clients see what they saw before.
LEMMA SeenSame ==
  ASSUME UNCHANGED <<queue_, submitted, runs, unscheds, exit_all_threads_>>
  PROVE  UNCHANGED JQ!absVars
BY Zenon DEF JQ!absVars

\* Schedule puts the job at the end.
LEMMA ScheduleSubmits ==
  ASSUME TypeOK, TypeOK', NEW j \in Job, NEW tag \in Tag, Schedule(j, tag)
  PROVE  JQ!Submit(j)
<1>1. /\ queue_ \in Seq(BGItem) /\ queue_' \in Seq(BGItem)
      /\ queue_' = Append(queue_, [job |-> j, tag |-> tag])
      /\ [job |-> j, tag |-> tag] \in BGItem
      /\ j \notin submitted /\ submitted' = submitted \cup {j}
      /\ ~exit_all_threads_ /\ UNCHANGED <<exit_all_threads_, runs, unscheds>>
  BY DEF TypeOK, Schedule, BGItem
<1>2. /\ Jobs(queue_) \in Seq(Job) /\ Len(Jobs(queue_)) = Len(queue_) /\ Len(queue_) \in Nat
      /\ \A i \in 1..Len(queue_) : Jobs(queue_)[i] = queue_[i].job
  BY <1>1, JobsFacts, Zenon
<1>3. /\ Jobs(queue_') \in Seq(Job) /\ Len(Jobs(queue_')) = Len(queue_')
      /\ \A i \in 1..Len(queue_') : Jobs(queue_')[i] = queue_'[i].job
  BY <1>1, JobsFacts, Zenon
<1>4. /\ Len(queue_') = Len(queue_) + 1 /\ queue_'[Len(queue_) + 1].job = j
      /\ \A i \in 1..Len(queue_) : queue_'[i] = queue_[i]
  <2>1. PICK x \in BGItem : x.job = j /\ queue_' = Append(queue_, x)
    BY <1>1, Zenon
  <2>2. queue_ \in Seq(BGItem) /\ OneMore(queue_', queue_, x)
    BY <1>1, <2>1, Zenon DEF OneMore
  <2>3. /\ Len(queue_') = Len(queue_) + 1 /\ queue_'[Len(queue_) + 1] = x
        /\ \A i \in 1..Len(queue_) : queue_'[i] = queue_[i]
    BY <2>2, OneMoreFacts, Zenon
  <2> QED
    BY <2>1, <2>3, Zenon
<1>5. /\ Append(Jobs(queue_), j) \in Seq(Job) /\ Len(Append(Jobs(queue_), j)) = Len(queue_) + 1
      /\ Append(Jobs(queue_), j)[Len(queue_) + 1] = j
      /\ \A i \in 1..Len(queue_) : Append(Jobs(queue_), j)[i] = Jobs(queue_)[i]
  <2>1. PICK q \in Seq(Job) : q = Jobs(queue_) /\ Len(q) = Len(queue_)
    BY <1>2, Zenon
  <2>2. PICK w : w = Append(q, j)
    BY Zenon
  <2>3. OneMore(w, q, j)
    BY <2>2, Zenon DEF OneMore
  <2>4. /\ w \in Seq(Job) /\ Len(w) = Len(q) + 1 /\ w[Len(q) + 1] = j
        /\ \A i \in 1..Len(q) : w[i] = q[i]
    BY <2>3, OneMoreFacts, Zenon
  <2> QED
    BY <2>1, <2>2, <2>4, Zenon
<1>6. ASSUME NEW i \in 1..(Len(queue_) + 1) PROVE Jobs(queue_')[i] = Append(Jobs(queue_), j)[i]
  <2>1. CASE i = Len(queue_) + 1
    BY <1>3, <1>4, <1>5, <2>1, Zenon
  <2>2. CASE i \in 1..Len(queue_)
    <3>1. Jobs(queue_')[i] = queue_'[i].job
      BY <1>3, <1>4, Zenon
    <3> QED
      BY <1>2, <1>4, <1>5, <2>2, <3>1, Zenon
  <2> QED
    BY <1>2, <2>1, <2>2, UpToNext, Zenon
<1>7. Jobs(queue_') = Append(Jobs(queue_), j)
  BY <1>3, <1>4, <1>5, <1>6, SameItems, Zenon
<1> QED
  BY <1>1, <1>7, Zenon DEF JQ!Submit, Jobs

\* A thread takes the job that has waited longest.
LEMMA TakeStarts ==
  ASSUME TypeOK, TypeOK', NEW t \in Thread, BGThreadTakeItem(t)
  PROVE  JQ!Start
<1>1. /\ queue_ \in Seq(BGItem) /\ queue_' \in Seq(BGItem)
      /\ queue_ # <<>> /\ queue_' = Tail(queue_)
      /\ runs' = [runs EXCEPT ![Head(queue_).job] = @ + 1]
      /\ ~exit_all_threads_ /\ UNCHANGED <<exit_all_threads_, submitted, unscheds>>
  BY Zenon DEF TypeOK, BGThreadTakeItem, MustWait, pool
<1>2. /\ Jobs(queue_) \in Seq(Job) /\ Len(Jobs(queue_)) = Len(queue_) /\ Len(queue_) \in Nat
      /\ \A i \in 1..Len(queue_) : Jobs(queue_)[i] = queue_[i].job
  BY <1>1, JobsFacts, Zenon
<1>3. /\ Jobs(queue_') \in Seq(Job) /\ Len(Jobs(queue_')) = Len(queue_')
      /\ \A i \in 1..Len(queue_') : Jobs(queue_')[i] = queue_'[i].job
  BY <1>1, JobsFacts, Zenon
<1>4. /\ Len(queue_) >= 1 /\ Head(queue_) = queue_[1] /\ Len(queue_') = Len(queue_) - 1
      /\ \A i \in 1..(Len(queue_) - 1) : queue_'[i] = queue_[i + 1]
  BY <1>1, TailFacts, Zenon
<1>5. /\ Jobs(queue_) # <<>> /\ Head(Jobs(queue_)) = Jobs(queue_)[1]
      /\ Tail(Jobs(queue_)) \in Seq(Job) /\ Len(Tail(Jobs(queue_))) = Len(queue_) - 1
      /\ \A i \in 1..(Len(queue_) - 1) : Tail(Jobs(queue_))[i] = Jobs(queue_)[i + 1]
  BY <1>2, <1>4
<1>6. ASSUME NEW i \in 1..(Len(queue_) - 1) PROVE Jobs(queue_')[i] = Tail(Jobs(queue_))[i]
  <2>1. i + 1 \in 1..Len(queue_)
    BY <1>2
  <2>2. Jobs(queue_)[i + 1] = queue_[i + 1].job
    BY <1>2, <2>1
  <2>3. Jobs(queue_')[i] = queue_'[i].job
    BY <1>3, <1>4
  <2> QED
    BY <1>4, <1>5, <2>2, <2>3
<1>7. Jobs(queue_') = Tail(Jobs(queue_))
  BY <1>3, <1>4, <1>5, <1>6, SameItems, Zenon
<1>8. Head(Jobs(queue_)) = Head(queue_).job /\ Head(queue_).job \in Job
  <2>1. Head(Jobs(queue_)) = Head(queue_).job
    BY <1>2, <1>4, <1>5
  <2> QED
    BY <1>2, <1>5, <2>1
<1>9. {k \in Job : runs'[k] > 0} = {k \in Job : runs[k] > 0} \cup {Head(Jobs(queue_))}
  <2>1. runs \in [Job -> Nat]
    BY DEF TypeOK
  <2>2. PICK f, g, j : f = runs /\ g = runs' /\ j = Head(Jobs(queue_))
    BY Zenon
  <2>3. f \in [Job -> Nat] /\ j \in Job /\ g = [f EXCEPT ![j] = @ + 1]
    BY <1>1, <1>8, <2>1, <2>2, Zenon
  <2>4. {k \in Job : g[k] > 0} = {k \in Job : f[k] > 0} \cup {j}
    BY <2>3, CountedFacts
  <2> QED
    BY <2>2, <2>4, Zenon
<1> QED
  BY <1>1, <1>5, <1>7, <1>9, Zenon DEF JQ!Start, Jobs

\* UnSchedule takes a job from where it is and leaves the others in their order.
LEMMA MatchRemoves ==
  ASSUME TypeOK, TypeOK', UnScheduleMatch
  PROVE  it \in 1..Len(Jobs(queue_)) /\ JQ!Remove(it)
<1>1. /\ queue_ \in Seq(BGItem) /\ queue_' \in Seq(BGItem)
      /\ it \in Nat /\ it > 0 /\ it <= Len(queue_)
      /\ queue_' = Erase(it)
      /\ unscheds' = [unscheds EXCEPT ![queue_[it].job] = @ + 1]
      /\ UNCHANGED <<exit_all_threads_, submitted, runs>>
  BY DEF TypeOK, UnScheduleMatch, pool
<1>2. /\ Jobs(queue_) \in Seq(Job) /\ Len(Jobs(queue_)) = Len(queue_) /\ Len(queue_) \in Nat
      /\ \A i \in 1..Len(queue_) : Jobs(queue_)[i] = queue_[i].job
  BY <1>1, JobsFacts, Zenon
<1>3. /\ Jobs(queue_') \in Seq(Job) /\ Len(Jobs(queue_')) = Len(queue_')
      /\ \A i \in 1..Len(queue_') : Jobs(queue_')[i] = queue_'[i].job
  BY <1>1, JobsFacts, Zenon
<1>4. /\ Len(queue_') = Len(queue_) - 1 /\ it \in 1..Len(queue_)
      /\ \A i \in 1..(Len(queue_) - 1) :
           queue_'[i] = IF i < it THEN queue_[i] ELSE queue_[i + 1]
  BY <1>1, <1>2, EraseFacts, Zenon DEF Erase
<1>5. PICK n, front, back :
        /\ n = Len(queue_)
        /\ front = SubSeq(Jobs(queue_), 1, it - 1)
        /\ back = SubSeq(Jobs(queue_), it + 1, Len(Jobs(queue_)))
  BY ZenonT(30)
<1>6. /\ front \in Seq(Job) /\ Len(front) = it - 1
      /\ \A i \in 1..(it - 1) : front[i] = Jobs(queue_)[i]
  BY <1>1, <1>2, <1>5
<1>7. /\ back \in Seq(Job) /\ Len(back) = n - it
      /\ \A i \in 1..(n - it) : back[i] = Jobs(queue_)[it + i]
  BY <1>1, <1>2, <1>5
<1>8. /\ front \o back \in Seq(Job) /\ Len(front \o back) = n - 1
      /\ \A i \in 1..(it - 1) : (front \o back)[i] = front[i]
      /\ \A i \in 1..(n - it) : (front \o back)[it - 1 + i] = back[i]
  <2>1. front \in Seq(Job) /\ back \in Seq(Job)
    BY <1>6, <1>7, Zenon
  <2>2. front \o back \in Seq(Job) /\ Len(front \o back) = Len(front) + Len(back)
    BY <2>1
  <2>3. \A i \in 1..Len(front) : (front \o back)[i] = front[i]
    BY <2>1
  <2>4. \A i \in 1..Len(back) : (front \o back)[Len(front) + i] = back[i]
    BY <2>1
  <2>5. n \in Nat /\ it \in Nat
    BY <1>1, <1>2, <1>5
  <2>6. (it - 1) + (n - it) = n - 1
    BY <2>5
  <2> QED
    BY <1>6, <1>7, <2>2, <2>3, <2>4, <2>6, Zenon
<1>9. ASSUME NEW i \in 1..(n - 1) PROVE Jobs(queue_')[i] = (front \o back)[i]
  <2>1. Jobs(queue_')[i] = queue_'[i].job
    BY <1>3, <1>4, <1>5, Zenon
  <2>2. CASE i < it
    <3>1. i \in 1..(it - 1) /\ i \in 1..n
      BY <1>1, <1>2, <1>5, <2>2
    <3>2. queue_'[i] = queue_[i] /\ Jobs(queue_)[i] = queue_[i].job
      BY <1>2, <1>4, <1>5, <2>2, <3>1, Zenon
    <3> QED
      BY <1>6, <1>8, <2>1, <3>1, <3>2, Zenon
  <2>3. CASE ~(i < it)
    <3>1. PICK k : k = i - it + 1
      BY Zenon
    <3>2. k \in 1..(n - it) /\ it - 1 + k = i /\ it + k = i + 1 /\ i + 1 \in 1..n
      BY <1>1, <1>2, <1>5, <2>3, <3>1
    <3>3. queue_'[i] = queue_[i + 1] /\ Jobs(queue_)[i + 1] = queue_[i + 1].job
      BY <1>2, <1>4, <1>5, <2>3, <3>2, Zenon
    <3>4. (front \o back)[it - 1 + k] = back[k] /\ back[k] = Jobs(queue_)[it + k]
      BY <1>7, <1>8, <3>2, Zenon
    <3> QED
      BY <2>1, <3>2, <3>3, <3>4, Zenon
  <2> QED
    BY <2>2, <2>3, Zenon
<1>10. Jobs(queue_') = front \o back
  BY <1>3, <1>4, <1>5, <1>8, <1>9, SameItems, Zenon
<1>11. Jobs(queue_)[it] = queue_[it].job /\ Jobs(queue_)[it] \in Job
  BY <1>2, <1>4
<1>12. {k \in Job : unscheds'[k] > 0} = {k \in Job : unscheds[k] > 0} \cup {Jobs(queue_)[it]}
  <2>1. unscheds \in [Job -> Nat]
    BY DEF TypeOK
  <2>2. PICK f, g, j : f = unscheds /\ g = unscheds' /\ j = Jobs(queue_)[it]
    BY Zenon
  <2>3. f \in [Job -> Nat] /\ j \in Job /\ g = [f EXCEPT ![j] = @ + 1]
    BY <1>1, <1>11, <2>1, <2>2, Zenon
  <2>4. {k \in Job : g[k] > 0} = {k \in Job : f[k] > 0} \cup {j}
    BY <2>3, CountedFacts
  <2> QED
    BY <2>2, <2>4, Zenon
<1>13. JQ!Remove(it)
  BY <1>1, <1>5, <1>10, <1>12, Zenon DEF JQ!Remove, Jobs
<1> QED
  BY <1>2, <1>4, <1>13, ZenonT(30)

\* Every step of the pool is a step of the queue, or the clients do not see it.
LEMMA NextIsQueued ==
  ASSUME TypeOK, TypeOK', [Next]_vars
  PROVE  [JQ!Next]_(JQ!absVars)
<1> USE DEF pool, work, local, hist
<1>1. ASSUME NEW j \in Job, ScheduleAfterExit(j) PROVE JQ!Submit(j)
  <2>1. /\ j \notin submitted /\ submitted' = submitted \cup {j} /\ exit_all_threads_
        /\ UNCHANGED <<queue_, exit_all_threads_, runs, unscheds>>
    BY <1>1 DEF ScheduleAfterExit
  <2> QED
    BY <2>1 DEF JQ!Submit
<1>2. ASSUME NEW j \in Job, NEW tag \in Tag, Schedule(j, tag) PROVE JQ!Submit(j)
  BY <1>2, ScheduleSubmits, Zenon
<1>3. ASSUME NEW num \in Num, NEW allow_reduce \in BOOLEAN,
             SetBackgroundThreadsInternal(num, allow_reduce)
      PROVE  UNCHANGED JQ!absVars
  BY <1>3, SeenSame DEF SetBackgroundThreadsInternal
<1>4. CASE LowerIOPriority \/ \E tag \in Tag : UnScheduleBegin(tag)
  <2>1. UNCHANGED JQ!absVars
    BY <1>4, SeenSame DEF LowerIOPriority, UnScheduleBegin
  <2> QED
    BY <2>1, Zenon
<1>5. CASE UnSchedule
  <2>1. CASE UnScheduleMatch
    <3>1. it \in 1..Len(Jobs(queue_)) /\ JQ!Remove(it)
      BY <2>1, MatchRemoves
    <3>2. \E i \in 1..Len(Jobs(queue_)) : JQ!Remove(i)
      BY <3>1, Zenon DEF JQ!Remove
    <3> QED
      BY <3>2, Zenon DEF JQ!Next, JQ!Remove, Jobs
  <2>2. CASE UnScheduleSkip \/ UnScheduleEnd
    <3>1. UNCHANGED JQ!absVars
      BY <2>2, SeenSame DEF UnScheduleSkip, UnScheduleEnd
    <3> QED
      BY <3>1
  <2> QED
    BY <1>5, <2>1, <2>2 DEF UnSchedule
<1>6. CASE JoinAllThreads
  <2>1. /\ ~exit_all_threads_ /\ exit_all_threads_' = TRUE
        /\ UNCHANGED <<queue_, submitted, runs, unscheds>>
    BY <1>6, Zenon DEF JoinAllThreads
  <2>2. JQ!Close
    BY <2>1 DEF JQ!Close
  <2> QED
    BY <2>2 DEF JQ!Next
<1>7. CASE JoinStep
  <2>1. UNCHANGED JQ!absVars
    BY <1>7, SeenSame DEF JoinStep, ThreadJoin, JoinAllThreadsReturn
  <2> QED
    BY <2>1
<1>8. ASSUME NEW t \in Thread, BGThread(t) PROVE [JQ!Next]_(JQ!absVars)
  <2>1. CASE BGThreadTakeItem(t)
    BY <2>1, TakeStarts DEF JQ!Next
  <2>2. CASE BGThreadWait(t) \/ BGThreadExit(t) \/ BGThreadTerminate(t) \/ FunctionReturns(t)
    <3>1. UNCHANGED JQ!absVars
      BY <2>2, SeenSame DEF BGThreadWait, BGThreadExit, BGThreadTerminate, FunctionReturns
    <3> QED
      BY <3>1, Zenon
  <2> QED
    BY <1>8, <2>1, <2>2 DEF BGThread
<1>9. ASSUME NEW t \in Thread, SpuriousWakeup(t) PROVE UNCHANGED JQ!absVars
  BY <1>9, SeenSame, Zenon DEF SpuriousWakeup
<1>10. CASE UNCHANGED vars
  <2>1. UNCHANGED JQ!absVars
    BY <1>10, SeenSame DEF vars
  <2> QED
    BY <2>1
<1>11. ASSUME NEW j \in Job, JQ!Submit(j) PROVE JQ!Next
  BY <1>11 DEF JQ!Next
<1> QED
  BY <1>1, <1>2, <1>3, <1>4, <1>5, <1>6, <1>7, <1>8, <1>9, <1>10, <1>11, Zenon
  DEF Next, SetBackgroundThreads, IncBackgroundThreadsIfNeeded

\* For any number of threads, jobs and tags, whoever is woken, resized or shut down:
\* jobs are started in the order in which Schedule got them, each at most once, UnSchedule
\* takes back only jobs that have not started and leaves the others in their order, and
\* none is started once JoinAllThreads has closed the pool.
THEOREM ImplementsQueue == Spec => JQ!Safety
<1>1. Init => JQ!Init
  BY DEF Init, JQ!Init
<1>2. TypeOK /\ TypeOK' /\ [Next]_vars => [JQ!Next]_(JQ!absVars)
  BY NextIsQueued
<1> QED
  BY <1>1, <1>2, TypeCorrect, PTL DEF Spec, JQ!Safety
=============================================================================
