----------------------------- MODULE LRUCacheShard -----------------------------
(***************************************************************************)
(* One shard of the LRU cache (rutil/lru_cache.cc): reference-counted      *)
(* entries in a hash table, those that nobody uses also on the LRU list,   *)
(* whose newer end is the high-priority pool.                              *)
(*                                                                         *)
(* Every operation runs under mutex_ and is one action; the entries it     *)
(* unlinks are freed after the mutex is released, by an action Free of     *)
(* their own.  The hash table is a map here (LRUHandleTable implements     *)
(* it).  The charge of an entry is a function of its address: an insertion *)
(* picks an address with the charge it wants.                              *)
(***************************************************************************)
EXTENDS Integers, Sequences, Functions

CONSTANTS
  Handle,      \* the addresses an LRUHandle can have
  Key,
  Charge,      \* Charge[S]: the sum of the charges of the entries in S
  Capacity,    \* the arguments of SetCapacity
  Ratio,       \* the arguments of SetHighPriorityPoolRatio, over RatioUnit
  RatioUnit,
  MaxHeld,     \* bound: handles to one entry that clients hold at a time
  None         \* no entry; &lru_ as a position of the list

ASSUME ShardAssumption ==
  /\ Charge \in [SUBSET Handle -> Nat]
  /\ Charge[{}] = 0
  /\ \A S, T \in SUBSET Handle :
       S \cap T = {} => Charge[S \cup T] = Charge[S] + Charge[T]
  /\ Capacity \subseteq Nat /\ Ratio \subseteq 0..RatioUnit
  /\ RatioUnit \in Nat \ {0} /\ MaxHeld \in Nat \ {0}
  /\ None \notin Handle

VARIABLES
  capacity_, strict_capacity_limit_,
  high_pri_pool_ratio_, high_pri_pool_capacity_,  \* both times RatioUnit
  usage_,
  lru,         \* the list and what goes with it:
               \*   list      lru_.next .. lru_.prev, oldest first
               \*   low_pri   lru_low_pri_
               \*   usage     lru_usage_
               \*   pool      high_pri_pool_usage_
               \*   inPool    the entries with the flag in_high_pri_pool
  table_,      \* the entry of each key, or None
  key, refs, inCache, highPri,   \* the fields and flags of the entries
  heap,        \* the allocated entries
  doomed,      \* those unlinked by a call that has yet to free them
  held,        \* how many handles to an entry the clients hold
  alive        \* the shard is not destroyed

config == <<capacity_, strict_capacity_limit_, high_pri_pool_ratio_,
            high_pri_pool_capacity_>>
fields == <<key, highPri>>
vars == <<config, usage_, lru, table_, fields, refs, inCache, heap, doomed,
          held, alive>>

charge(e) == Charge[{e}]
OnList == Range(lru.list)
Oldest(n) == {lru.list[i] : i \in 1..n}

-----------------------------------------------------------------------------
(* The list.                                                               *)

\* As in SequencesExt, whose other operators the proofs have no use for
RemoveAt(s, i) == SubSeq(s, 1, i - 1) \o SubSeq(s, i + 1, Len(s))
InsertAt(s, i, e) == SubSeq(s, 1, i - 1) \o <<e>> \o SubSeq(s, i, Len(s))

Position(l, e) == CHOOSE i \in 1..Len(l.list) : l.list[i] = e

\* Mutant: lru_low_pri_ falls back to the end of the list, not to the neighbour.
LRU_RemoveKeepLowPri(l, e) ==
  [l EXCEPT !.list = RemoveAt(@, Position(l, e)),
            !.low_pri = IF @ = e THEN None ELSE @,
            !.usage = @ - charge(e),
            !.pool = IF e \in l.inPool THEN @ - charge(e) ELSE @]

LRU_Remove(l, e) ==
  LET i == Position(l, e) IN
  [l EXCEPT !.list = RemoveAt(@, i),
            !.low_pri = IF @ # e THEN @ ELSE IF i = 1 THEN None ELSE l.list[i - 1],
            !.usage = @ - charge(e),
            !.pool = IF e \in l.inPool THEN @ - charge(e) ELSE @]

LowPriCount(l) == IF l.low_pri = None THEN 0 ELSE Position(l, l.low_pri)

\* The entries that follow lru_low_pri_, the first m of them
Overflow(l, m) == {l.list[LowPriCount(l) + i] : i \in 1..m}

\* MaintainPoolSize moves m entries to the low-priority pool: it stops at the
\* first point where the pool is small enough.
Overflows(l, capacity, m) ==
  /\ m <= Len(l.list) - LowPriCount(l)
  /\ (l.pool - Charge[Overflow(l, m)]) * RatioUnit <= capacity
  /\ \A k \in 0..(m - 1) : (l.pool - Charge[Overflow(l, k)]) * RatioUnit > capacity

MaintainPoolSize(l, m) ==
  [l EXCEPT !.low_pri = IF m = 0 THEN @ ELSE l.list[LowPriCount(l) + m],
            !.inPool = @ \ Overflow(l, m),
            !.pool = @ - Charge[Overflow(l, m)]]

ToHighPri(l, e) ==
  [l EXCEPT !.list = Append(@, e),
            !.inPool = @ \cup {e},
            !.pool = @ + charge(e),
            !.usage = @ + charge(e)]

ToLowPri(l, e) ==
  [l EXCEPT !.list = InsertAt(@, LowPriCount(l) + 1, e),
            !.inPool = @ \ {e},
            !.low_pri = e,
            !.usage = @ + charge(e)]

LRU_Insert(l, e, isHighPri) ==
  IF high_pri_pool_ratio_ > 0 /\ isHighPri
  THEN \E m \in 0..Len(l.list) + 1 :
         /\ Overflows(ToHighPri(l, e), high_pri_pool_capacity_, m)
         /\ lru' = MaintainPoolSize(ToHighPri(l, e), m)
  ELSE lru' = ToLowPri(l, e)

\* EvictFromLRU(charge) evicts the n oldest entries: it stops when the charge
\* fits or the list is empty.
Evicts(n, ch, capacity) ==
  /\ n = Len(lru.list) \/ usage_ - Charge[Oldest(n)] + ch <= capacity
  /\ \A k \in 0..(n - 1) : usage_ - Charge[Oldest(k)] + ch > capacity

Evicted(n) ==
  [lru EXCEPT !.list = SubSeq(@, n + 1, Len(@)),
              !.low_pri = IF @ \in Oldest(n) THEN None ELSE @,
              !.usage = @ - Charge[Oldest(n)],
              !.pool = @ - Charge[Oldest(n) \cap lru.inPool]]

-----------------------------------------------------------------------------

Init ==
  /\ capacity_ \in Capacity
  /\ strict_capacity_limit_ \in BOOLEAN
  /\ high_pri_pool_ratio_ \in Ratio
  /\ high_pri_pool_capacity_ = capacity_ * high_pri_pool_ratio_
  /\ usage_ = 0
  /\ lru = [list |-> <<>>, low_pri |-> None, usage |-> 0, pool |-> 0, inPool |-> {}]
  /\ table_ = [k \in Key |-> None]
  /\ key = [e \in Handle |-> None]
  /\ highPri = [e \in Handle |-> FALSE]
  /\ refs = [e \in Handle |-> 0]
  /\ inCache = [e \in Handle |-> FALSE]
  /\ heap = {}
  /\ doomed = {}
  /\ held = [e \in Handle |-> 0]
  /\ alive = TRUE

\* The table after the entries of S have been removed from it
TableWithout(S) == [k \in Key |-> IF table_[k] \in S THEN None ELSE table_[k]]

\* What unlinking S does to the entries: not in the cache, one reference less
Unlinked(S) ==
  /\ refs' = [e \in Handle |-> IF e \in S THEN refs[e] - 1 ELSE refs[e]]
  /\ inCache' = [e \in Handle |-> inCache[e] /\ e \notin S]

SetCapacity(capacity) ==
  /\ alive
  /\ capacity_' = capacity
  /\ high_pri_pool_capacity_' = capacity * high_pri_pool_ratio_
  /\ \E n \in 0..Len(lru.list) :
       /\ Evicts(n, 0, capacity)
       /\ lru' = Evicted(n)
       /\ usage_' = usage_ - Charge[Oldest(n)]
       /\ table_' = TableWithout(Oldest(n))
       /\ Unlinked(Oldest(n))
       /\ doomed' = doomed \cup Oldest(n)
  /\ UNCHANGED <<strict_capacity_limit_, high_pri_pool_ratio_, fields, heap,
                 held, alive>>

SetStrictCapacityLimit(strict) ==
  /\ alive
  /\ strict_capacity_limit_' = strict
  /\ UNCHANGED <<capacity_, high_pri_pool_ratio_, high_pri_pool_capacity_, usage_,
                 lru, table_, fields, refs, inCache, heap, doomed, held, alive>>

SetHighPriorityPoolRatio(ratio) ==
  /\ alive
  /\ high_pri_pool_ratio_' = ratio
  /\ high_pri_pool_capacity_' = capacity_ * ratio
  /\ \E m \in 0..Len(lru.list) :
       /\ Overflows(lru, capacity_ * ratio, m)
       /\ lru' = MaintainPoolSize(lru, m)
  /\ UNCHANGED <<capacity_, strict_capacity_limit_, usage_, table_, fields, refs,
                 inCache, heap, doomed, held, alive>>

EraseUnRefEntries ==
  /\ alive
  /\ lru' = Evicted(Len(lru.list))
  /\ usage_' = usage_ - Charge[OnList]
  /\ table_' = TableWithout(OnList)
  /\ Unlinked(OnList)
  /\ doomed' = doomed \cup OnList
  /\ UNCHANGED <<config, fields, heap, held, alive>>

-----------------------------------------------------------------------------

\* Mutant: the entry that is handed out stays on the list.
LookupKeepsListed(k) ==
  LET e == table_[k] IN
  /\ alive
  /\ e # None
  /\ held[e] < MaxHeld
  /\ refs' = [refs EXCEPT ![e] = @ + 1]
  /\ held' = [held EXCEPT ![e] = @ + 1]
  /\ UNCHANGED <<config, usage_, lru, table_, fields, inCache, heap, doomed, alive>>

Lookup(k) ==
  LET e == table_[k] IN
  /\ alive
  /\ e # None
  /\ held[e] < MaxHeld
  /\ lru' = IF refs[e] = 1 THEN LRU_Remove(lru, e) ELSE lru
  /\ refs' = [refs EXCEPT ![e] = @ + 1]
  /\ held' = [held EXCEPT ![e] = @ + 1]
  /\ UNCHANGED <<config, usage_, table_, fields, inCache, heap, doomed, alive>>

\* A release that leaves references, of a client or of the table, does no more.
ReleaseShared(e) ==
  /\ alive
  /\ held[e] > 0
  /\ refs[e] - 1 > 1 \/ (refs[e] - 1 = 1 /\ ~inCache[e])
  /\ refs' = [refs EXCEPT ![e] = @ - 1]
  /\ held' = [held EXCEPT ![e] = @ - 1]
  /\ UNCHANGED <<config, usage_, lru, table_, fields, inCache, heap, doomed,
                 alive>>

\* The last reference to an entry that was erased or replaced meanwhile
ReleaseLast(e) ==
  /\ alive
  /\ held[e] > 0
  /\ refs[e] = 1
  /\ refs' = [refs EXCEPT ![e] = 0]
  /\ usage_' = usage_ - charge(e)
  /\ doomed' = doomed \cup {e}
  /\ held' = [held EXCEPT ![e] = @ - 1]
  /\ UNCHANGED <<config, lru, table_, fields, inCache, heap, alive>>

\* Only the table refers to the entry now: it goes to the list or, when the
\* cache is too full, out of the cache.
ReleaseToCache(e) ==
  /\ alive
  /\ held[e] > 0
  /\ refs[e] = 2 /\ inCache[e]
  /\ held' = [held EXCEPT ![e] = @ - 1]
  /\ IF usage_ > capacity_
     THEN /\ table_' = TableWithout({e})
          /\ refs' = [refs EXCEPT ![e] = 0]
          /\ inCache' = [inCache EXCEPT ![e] = FALSE]
          /\ usage_' = usage_ - charge(e)
          /\ doomed' = doomed \cup {e}
          /\ lru' = lru
     ELSE /\ LRU_Insert(lru, e, highPri[e])
          /\ refs' = [refs EXCEPT ![e] = 1]
          /\ UNCHANGED <<table_, inCache, usage_, doomed>>
  /\ UNCHANGED <<config, fields, heap, alive>>

\* Mutant: the charge is given back although the entry is still in use.
EraseChargesEarly(k) ==
  LET e == table_[k] IN
  /\ alive
  /\ e # None
  /\ table_' = [table_ EXCEPT ![k] = None]
  /\ Unlinked({e})
  /\ usage_' = usage_ - charge(e)
  /\ IF refs[e] = 1
     THEN lru' = LRU_Remove(lru, e) /\ doomed' = doomed \cup {e}
     ELSE UNCHANGED <<lru, doomed>>
  /\ UNCHANGED <<config, fields, heap, held, alive>>

\* Mutant: an entry in use is unlinked without giving up the table's reference.
EraseKeepsRef(k) ==
  LET e == table_[k] IN
  /\ alive
  /\ e # None
  /\ table_' = [table_ EXCEPT ![k] = None]
  /\ inCache' = [inCache EXCEPT ![e] = FALSE]
  /\ IF refs[e] = 1
     THEN /\ refs' = [refs EXCEPT ![e] = 0]
          /\ usage_' = usage_ - charge(e)
          /\ lru' = LRU_Remove(lru, e)
          /\ doomed' = doomed \cup {e}
     ELSE UNCHANGED <<refs, usage_, lru, doomed>>
  /\ UNCHANGED <<config, fields, heap, held, alive>>

Erase(k) ==
  LET e == table_[k] IN
  /\ alive
  /\ e # None
  /\ table_' = [table_ EXCEPT ![k] = None]
  /\ Unlinked({e})
  /\ IF refs[e] = 1
     THEN /\ usage_' = usage_ - charge(e)
          /\ lru' = LRU_Remove(lru, e)
          /\ doomed' = doomed \cup {e}
     ELSE UNCHANGED <<usage_, lru, doomed>>
  /\ UNCHANGED <<config, fields, heap, held, alive>>

-----------------------------------------------------------------------------
(* Insert, for a client that wants a handle or not.  n entries are evicted *)
(* first in any case.                                                      *)

\* Mutant: a client that wants a handle gets one, strict limit or not.
FullNoHandle(e, n, wantHandle) ==
  /\ (usage_ - Charge[Oldest(n)]) - Evicted(n).usage + charge(e) > capacity_
  /\ ~wantHandle

Full(e, n, wantHandle) ==
  /\ (usage_ - Charge[Oldest(n)]) - Evicted(n).usage + charge(e) > capacity_
  /\ strict_capacity_limit_ \/ ~wantHandle

\* Status::Incomplete: e is deleted again.
InsertIncomplete(e, n) ==
  /\ Full(e, n, TRUE)
  /\ lru' = Evicted(n)
  /\ usage_' = usage_ - Charge[Oldest(n)]
  /\ table_' = TableWithout(Oldest(n))
  /\ Unlinked(Oldest(n))
  /\ doomed' = doomed \cup Oldest(n)
  /\ UNCHANGED <<config, fields, heap, held, alive>>

\* Status::OK, but e is freed at the end of the call.
InsertNotKept(e, k, n) ==
  /\ Full(e, n, FALSE)
  /\ lru' = Evicted(n)
  /\ usage_' = usage_ - Charge[Oldest(n)]
  /\ table_' = TableWithout(Oldest(n))
  /\ refs' = [x \in Handle |-> IF x = e THEN 1
                               ELSE IF x \in Oldest(n) THEN refs[x] - 1 ELSE refs[x]]
  /\ inCache' = [x \in Handle |-> x = e \/ (inCache[x] /\ x \notin Oldest(n))]
  /\ key' = [key EXCEPT ![e] = k]
  /\ heap' = heap \cup {e}
  /\ doomed' = doomed \cup Oldest(n) \cup {e}
  /\ UNCHANGED <<config, highPri, held, alive>>

\* e enters the table in the place of old, which is freed if it is on the list.
InsertKept(e, k, n, wantHandle, isHighPri) ==
  LET old      == TableWithout(Oldest(n))[k]
      oldFreed == old # None /\ refs[old] = 1
      gone     == IF oldFreed THEN Oldest(n) \cup {old} ELSE Oldest(n)
      list     == IF oldFreed THEN LRU_Remove(Evicted(n), old) ELSE Evicted(n)
  IN
  /\ ~Full(e, n, wantHandle)
  /\ table_' = [TableWithout(Oldest(n)) EXCEPT ![k] = e]
  /\ usage_' = usage_ - Charge[gone] + charge(e)
  /\ refs' = [x \in Handle |->
                IF x = e THEN (IF wantHandle THEN 2 ELSE 1)
                ELSE IF x \in Oldest(n) \cup {old} THEN refs[x] - 1 ELSE refs[x]]
  /\ inCache' = [x \in Handle |-> x = e \/ (inCache[x] /\ x \notin Oldest(n) \cup {old})]
  /\ key' = [key EXCEPT ![e] = k]
  /\ highPri' = [highPri EXCEPT ![e] = isHighPri]
  /\ heap' = heap \cup {e}
  /\ doomed' = doomed \cup gone
  /\ held' = [held EXCEPT ![e] = IF wantHandle THEN 1 ELSE 0]
  /\ IF wantHandle
     THEN \* the flag in_high_pri_pool of a new entry is not initialised
          lru' \in {list, [list EXCEPT !.inPool = @ \cup {e}]}
     ELSE LRU_Insert(list, e, isHighPri)
  /\ UNCHANGED <<config, alive>>

Insert(e, k, wantHandle, isHighPri) ==
  /\ alive
  /\ e \notin heap
  /\ \E n \in 0..Len(lru.list) :
       /\ Evicts(n, charge(e), capacity_)
       /\ \/ wantHandle /\ InsertIncomplete(e, n)
          \/ ~wantHandle /\ InsertNotKept(e, k, n)
          \/ InsertKept(e, k, n, wantHandle, isHighPri)

-----------------------------------------------------------------------------

\* What is left of a freed entry is immaterial.
Freed(S) ==
  /\ heap' = heap \ S
  /\ key' = [e \in Handle |-> IF e \in S THEN None ELSE key[e]]
  /\ highPri' = [e \in Handle |-> highPri[e] /\ e \notin S]
  /\ refs' = [e \in Handle |-> IF e \in S THEN 0 ELSE refs[e]]
  /\ inCache' = [e \in Handle |-> inCache[e] /\ e \notin S]
  /\ lru' = [lru EXCEPT !.inPool = @ \ S]

\* The call that unlinked e frees it, the mutex released.
Free(e) ==
  /\ e \in doomed
  /\ doomed' = doomed \ {e}
  /\ Freed({e})
  /\ UNCHANGED <<config, usage_, table_, held, alive>>

\* The destructor, once no call is under way and no handle is held
Destroy ==
  /\ alive
  /\ doomed = {} /\ \A e \in Handle : held[e] = 0
  /\ alive' = FALSE
  /\ Freed({table_[k] : k \in {k \in Key : table_[k] # None /\ refs[table_[k]] = 1}})
  /\ table_' = [k \in Key |-> None]
  /\ UNCHANGED <<config, usage_, doomed, held>>

Next ==
  \/ \E c \in Capacity : SetCapacity(c)
  \/ \E strict \in BOOLEAN : SetStrictCapacityLimit(strict)
  \/ \E ratio \in Ratio : SetHighPriorityPoolRatio(ratio)
  \/ EraseUnRefEntries
  \/ \E k \in Key : Lookup(k)
  \/ \E e \in Handle : ReleaseShared(e)
  \/ \E e \in Handle : ReleaseLast(e)
  \/ \E e \in Handle : ReleaseToCache(e)
  \/ \E k \in Key : Erase(k)
  \/ \E e \in Handle, k \in Key, wantHandle, isHighPri \in BOOLEAN :
       Insert(e, k, wantHandle, isHighPri)
  \/ \E e \in Handle : Free(e)
  \/ Destroy

Spec == Init /\ [][Next]_vars

\* A call that has unlinked entries goes on to free them.
FairSpec == Spec /\ \A e \in Handle : WF_vars(Free(e))

-----------------------------------------------------------------------------
(* Properties.                                                             *)

\* The states of an entry (lru_cache.h:25-31): its references are those of the
\* clients and that of the table; no reference reaches an entry that is about to
\* be freed, and Free's assertion (lru_cache.h:104) holds when it gets there.  The
\* list holds, once each, the entries that only the table refers to, as the assertions
\* of EvictFromLRU and LRU_Remove say (lines 207-208 and 153-154), and the destructor
\* leaves no entry behind (cache.h:62: "Destroys all existing entries").
RefsAreCounted ==
  /\ \A e \in heap \ doomed :
       /\ refs[e] = held[e] + (IF inCache[e] THEN 1 ELSE 0)
       /\ refs[e] > 0
       /\ inCache[e] <=> (key[e] \in Key /\ table_[key[e]] = e)
  /\ \A e \in doomed : (refs[e] = 1 /\ inCache[e]) \/ (refs[e] = 0 /\ ~inCache[e])
  /\ \A e \in Handle : held[e] > 0 => e \in heap \ doomed
  /\ \A k \in Key : table_[k] # None =>
       table_[k] \in heap \ doomed /\ key[table_[k]] = k
  /\ alive => /\ IsInjective(lru.list)
              /\ OnList = {e \in heap \ doomed : inCache[e] /\ refs[e] = 1}
  /\ ~alive => heap = {}

\* The three usage counters are the charges of the entries they speak of: those
\* not yet given up, those on the list, those in the high-priority pool.  When the
\* cache is too full, what is in it is in use (Release's assertion, line 275).
UsageIsCharged ==
  alive => /\ usage_ = Charge[{e \in heap \ doomed : refs[e] > 0}]
           /\ lru.usage = Charge[OnList]
           /\ lru.pool = Charge[OnList \cap lru.inPool]
           /\ usage_ > capacity_ => lru.list = <<>>

\* lru_low_pri_ splits the list: the entries after it are those flagged as being
\* in the high-priority pool, so MaintainPoolSize never runs off the list.
PoolIsTop ==
  alive => /\ lru.low_pri # None => lru.low_pri \in OnList
           /\ \A i \in 1..Len(lru.list) :
                lru.list[i] \in lru.inPool <=> i > LowPriCount(lru)

\* With a strict limit no call takes the usage beyond the capacity, whatever was
\* pinned, replaced or evicted before (Insert, line 327).
StrictLimitHolds ==
  [][strict_capacity_limit_ /\ usage_' > usage_ => usage_' <= capacity_]_vars

\* The counters, the pool and the limit that is decided by them go together.
AccountsAreRight == [](UsageIsCharged /\ PoolIsTop) /\ StrictLimitHolds

CI == INSTANCE CacheInterface WITH store <- table_, live <- heap

\* The shard implements the cache of the interface: what a client holds is
\* neither freed nor dropped, and what nobody can reach is deleted in the end.
ImplementsCache == CI!Spec

\* Insert's comment (lines 330-331): an entry that is not kept is treated "as if
\* the entry inserted into cache and get evicted immediately", so the key has
\* its newest value or none.
NewestOrNone ==
  [][\A e \in heap' \ heap : table_'[key'[e]] \in {None, e}]_vars

\* cache.h:139: GetUsage "returns the memory size for the entries residing in
\* the cache".
UsageIsResident ==
  alive => usage_ = Charge[{table_[k] : k \in Key} \ {None}]
=============================================================================
