----------------------------- MODULE ShardedCache -----------------------------
(***************************************************************************)
(* ShardedCache (rutil/sharded_cache.cc): the operations that pick a shard *)
(* by the hash of the key, and those that change a setting of every shard, *)
(* one shard after the other under capacity_mutex_, while other threads go *)
(* on using the shards.                                                    *)
(*                                                                         *)
(* A shard is what LRUCacheShard keeps of it here: its settings and how    *)
(* much it holds, with entries of charge 1.  Each of its operations runs   *)
(* under the shard's own mutex and is one action.                          *)
(***************************************************************************)
EXTENDS Integers, FiniteSets

CONSTANTS
  num_shard_bits_,
  HashWidth,     \* 32: the bits of a hash
  SizeWidth,     \* 64: the bits of a size_t
  Hash,          \* the hashes of the keys in use
  Capacity,      \* the capacities clients ask for
  Caller,        \* the threads that change settings
  MaxUsage,      \* bound: entries in a shard
  None

num_shards == 2^num_shard_bits_

Shards == 0..(num_shards - 1)

ASSUME ShardedAssumption ==
  /\ num_shard_bits_ \in Nat /\ HashWidth \in Nat /\ SizeWidth \in Nat
  /\ num_shards \in Nat \ {0} /\ 2^SizeWidth \in Nat \ {0}
  /\ Hash \subseteq 0..(2^HashWidth - 1)
  /\ Capacity \subseteq 0..(2^SizeWidth - 1)
  /\ None \notin Caller

\* The highest num_shard_bits_ bits of the hash
Shard(hash) ==
  IF num_shard_bits_ > 0 THEN hash \div 2^(HashWidth - num_shard_bits_) ELSE 0

ASSUME ShardAssumption == \A hash \in Hash : Shard(hash) \in Shards

VARIABLES
  capacity_,
  strict_capacity_limit_,
  capacity_mutex_,   \* None or the caller that holds it
  call,              \* per caller: op ("idle" if none), its argument and s, the
                     \* next shard of its loop (-1 before it has the mutex)
  shard              \* per shard: capacity, strict, usage and lru, the part of
                     \* usage that nobody holds

vars == <<capacity_, strict_capacity_limit_, capacity_mutex_, call, shard>>

NoCall == [op |-> "idle", capacity |-> 0, strict |-> FALSE, s |-> -1]

-----------------------------------------------------------------------------

\* per_shard, in size_t arithmetic
PerShard(capacity) == ((capacity + (num_shards - 1)) % 2^SizeWidth) \div num_shards

Smaller(m, n) == IF m < n THEN m ELSE n

\* LRUCacheShard::EvictFromLRU(charge)
EvictFromLRU(sh, charge) ==
  LET excess == sh.usage + charge - sh.capacity
      n == IF excess > 0 THEN Smaller(excess, sh.lru) ELSE 0
  IN  [sh EXCEPT !.usage = @ - n, !.lru = @ - n]

\* A constructed cache: the constructor has set up every shard.
Init ==
  /\ capacity_ \in Capacity
  /\ strict_capacity_limit_ \in BOOLEAN
  /\ capacity_mutex_ = None
  /\ call = [c \in Caller |-> NoCall]
  /\ shard = [s \in Shards |->
       [capacity |-> PerShard(capacity_), strict |-> strict_capacity_limit_,
        usage |-> 0, lru |-> 0]]

-----------------------------------------------------------------------------
(* The settings.                                                           *)

SetCapacity(c, capacity) ==
  /\ call[c].op = "idle"
  /\ call' = [call EXCEPT ![c] = [NoCall EXCEPT !.op = "SetCapacity", !.capacity = capacity]]
  /\ UNCHANGED <<capacity_, strict_capacity_limit_, capacity_mutex_, shard>>

SetStrictCapacityLimit(c, strict) ==
  /\ call[c].op = "idle"
  /\ call' = [call EXCEPT ![c] = [NoCall EXCEPT !.op = "SetStrictCapacityLimit",
                                                !.strict = strict]]
  /\ UNCHANGED <<capacity_, strict_capacity_limit_, capacity_mutex_, shard>>

\* Mutant: the loop runs without the mutex.
LockNothing(c) ==
  /\ call[c].op # "idle" /\ call[c].s = -1
  /\ call' = [call EXCEPT ![c].s = 0]
  /\ UNCHANGED <<capacity_, strict_capacity_limit_, capacity_mutex_, shard>>

Lock(c) ==
  /\ call[c].op # "idle" /\ call[c].s = -1
  /\ capacity_mutex_ = None
  /\ capacity_mutex_' = c
  /\ call' = [call EXCEPT ![c].s = 0]
  /\ UNCHANGED <<capacity_, strict_capacity_limit_, shard>>

\* Mutant: a shard takes its new capacity and evicts nothing.
WithCapacityOnly(sh, capacity) == [sh EXCEPT !.capacity = PerShard(capacity)]

\* LRUCacheShard::SetCapacity
WithCapacity(sh, capacity) ==
  EvictFromLRU([sh EXCEPT !.capacity = PerShard(capacity)], 0)

SetShard(c) ==
  LET s == call[c].s
  IN  /\ s \in Shards
      /\ shard' = [shard EXCEPT ![s] =
                     IF call[c].op = "SetCapacity" THEN WithCapacity(@, call[c].capacity)
                     ELSE [@ EXCEPT !.strict = call[c].strict]]
      /\ call' = [call EXCEPT ![c].s = s + 1]
      /\ UNCHANGED <<capacity_, strict_capacity_limit_, capacity_mutex_>>

SetReturns(c) ==
  /\ call[c].s = num_shards
  /\ IF call[c].op = "SetCapacity"
     THEN capacity_' = call[c].capacity /\ UNCHANGED strict_capacity_limit_
     ELSE strict_capacity_limit_' = call[c].strict /\ UNCHANGED capacity_
  /\ capacity_mutex_' = None
  /\ call' = [call EXCEPT ![c] = NoCall]
  /\ UNCHANGED shard

-----------------------------------------------------------------------------
(* The entries.                                                            *)

\* A new entry, with or without a handle for the client
Insert(hash, wantHandle) ==
  LET s  == Shard(hash)
      sh == EvictFromLRU(shard[s], 1)
      full == sh.usage - sh.lru + 1 > sh.capacity /\ (sh.strict \/ ~wantHandle)
  IN  /\ shard[s].usage < MaxUsage
      /\ shard' = [shard EXCEPT ![s] =
                     IF full THEN sh
                     ELSE [sh EXCEPT !.usage = @ + 1,
                                     !.lru = IF wantHandle THEN @ ELSE @ + 1]]
      /\ UNCHANGED <<capacity_, strict_capacity_limit_, capacity_mutex_, call>>

\* The lookup of an entry that nobody held
Lookup(hash) ==
  /\ shard[Shard(hash)].lru > 0
  /\ shard' = [shard EXCEPT ![Shard(hash)].lru = @ - 1]
  /\ UNCHANGED <<capacity_, strict_capacity_limit_, capacity_mutex_, call>>

\* The last handle to an entry is given back: it goes to the list if it is still
\* in the cache and there is room, and is freed if not.
ReleaseLast(sh) ==
  {[sh EXCEPT !.usage = @ - 1]} \cup
    (IF sh.usage > sh.capacity THEN {} ELSE {[sh EXCEPT !.lru = @ + 1]})

Release(hash) ==
  LET s == Shard(hash)
  IN  /\ shard[s].usage > shard[s].lru
      /\ \E sh \in ReleaseLast(shard[s]) : shard' = [shard EXCEPT ![s] = sh]
      /\ UNCHANGED <<capacity_, strict_capacity_limit_, capacity_mutex_, call>>

\* The erasure of an entry that nobody holds; a held one stays until Release.
Erase(hash) ==
  LET s == Shard(hash)
  IN  /\ shard[s].lru > 0
      /\ shard' = [shard EXCEPT ![s].lru = @ - 1, ![s].usage = @ - 1]
      /\ UNCHANGED <<capacity_, strict_capacity_limit_, capacity_mutex_, call>>

\* One shard's turn of EraseUnRefEntries, which takes no mutex of its own
EraseUnRefEntries(s) ==
  /\ shard' = [shard EXCEPT ![s].usage = @ - shard[s].lru, ![s].lru = 0]
  /\ UNCHANGED <<capacity_, strict_capacity_limit_, capacity_mutex_, call>>

-----------------------------------------------------------------------------

SetStep(c) == Lock(c) \/ SetShard(c) \/ SetReturns(c)

Next ==
  \/ \E c \in Caller, capacity \in Capacity : SetCapacity(c, capacity)
  \/ \E c \in Caller, strict \in BOOLEAN : SetStrictCapacityLimit(c, strict)
  \/ \E c \in Caller : SetStep(c)
  \/ \E hash \in Hash, wantHandle \in BOOLEAN : Insert(hash, wantHandle)
  \/ \E hash \in Hash : Lookup(hash)
  \/ \E hash \in Hash : Release(hash)
  \/ \E hash \in Hash : Erase(hash)
  \/ \E s \in Shards : EraseUnRefEntries(s)

Spec == Init /\ [][Next]_vars

-----------------------------------------------------------------------------
(* Properties.                                                             *)

TypeOK ==
  /\ capacity_ \in Capacity \cup {0}
  /\ strict_capacity_limit_ \in BOOLEAN
  /\ capacity_mutex_ \in Caller \cup {None}
  /\ call \in [Caller -> [op : {"idle", "SetCapacity", "SetStrictCapacityLimit"},
                          capacity : Capacity \cup {0}, strict : BOOLEAN,
                          s : -1..num_shards]]
  /\ shard \in [Shards -> [capacity : Nat, strict : BOOLEAN, usage : Nat, lru : Nat]]

\* Caller c is in the loop of op and past shard s.
Passed(c, op, s) == call[c].op = op /\ call[c].s > s

\* A shard has the settings of capacity_ and strict_capacity_limit_, or those of
\* the setter (lines 22-39) whose loop is past it: setters that overlap never leave
\* a mixture.
SettingsAgree ==
  \A s \in Shards :
    /\ \A c \in Caller :
         /\ Passed(c, "SetCapacity", s) => shard[s].capacity = PerShard(call[c].capacity)
         /\ Passed(c, "SetStrictCapacityLimit", s) => shard[s].strict = call[c].strict
    /\ (\A c \in Caller : ~Passed(c, "SetCapacity", s)) =>
         shard[s].capacity = PerShard(capacity_)
    /\ (\A c \in Caller : ~Passed(c, "SetStrictCapacityLimit", s)) =>
         shard[s].strict = strict_capacity_limit_

\* Only the holder of capacity_mutex_ is inside a setter's loop (lines 25 and 34).
OneSetter ==
  \A c \in Caller : call[c].s >= 0 <=> capacity_mutex_ = c

\* Whatever the threads do meanwhile, once no setter is at work the shards hold
\* more than their part of capacity_ only of entries that are in use ("do its best
\* job to purge the released entries", cache.h:124-125).
ExcessIsPinned ==
  capacity_mutex_ = None =>
    \A s \in Shards : shard[s].usage > PerShard(capacity_) => shard[s].lru = 0

\* The parts of the shards make up the capacity ("The total capacity is divided
\* and evenly assigned to each shard", cache.h:35-36), and less than one unit per
\* shard more.
CapacityIsShared ==
  /\ num_shards * PerShard(capacity_) >= capacity_
  /\ num_shards * PerShard(capacity_) < capacity_ + num_shards
=============================================================================
