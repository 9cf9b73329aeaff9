-------------------------- MODULE ShardedCacheProofs --------------------------
(***************************************************************************)
(* Proofs about ShardedCache, for any number of shards, callers, hashes    *)
(* and capacities.                                                         *)
(***************************************************************************)
EXTENDS ShardedCache, TLAPS

ShardState == [capacity : Nat, strict : BOOLEAN, usage : Nat, lru : Nat]

\* What the mutex of a shard protects: nothing is counted twice, and a shard that
\* holds too much has nothing left to evict.
Sound(sh) == sh.lru <= sh.usage /\ (sh.usage > sh.capacity => sh.lru = 0)

\* The inductive invariant
Inv ==
  /\ TypeOK
  /\ \A s \in Shards : Sound(shard[s])
  /\ \A c \in Caller : call[c].op = "idle" => call[c].s = -1
  /\ OneSetter
  /\ SettingsAgree

-----------------------------------------------------------------------------

\* per_shard is a size.
LEMMA PerShardType == ASSUME NEW c \in Capacity \cup {0} PROVE PerShard(c) \in Nat
<1>. DEFINE m == 2^SizeWidth
            n == num_shards
<1>1. m \in Nat \ {0} /\ n \in Nat \ {0} /\ c \in Nat
  BY ShardedAssumption
<1>2. PerShard(c) = ((c + (n - 1)) % m) \div n
  BY DEF PerShard
<1>. HIDE DEF m, n
<1>3. (c + (n - 1)) % m \in Nat
  BY <1>1
<1>. QED
  BY <1>1, <1>2, <1>3

\* EvictFromLRU makes room, or empties the list.
LEMMA EvictFacts ==
  ASSUME NEW sh \in ShardState, sh.lru <= sh.usage, NEW charge \in Nat
  PROVE  LET e == EvictFromLRU(sh, charge)
         IN  /\ e \in ShardState
             /\ e.capacity = sh.capacity /\ e.strict = sh.strict
             /\ e.lru <= e.usage
             /\ e.usage + charge > e.capacity => e.lru = 0
<1>. DEFINE excess == sh.usage + charge - sh.capacity
            n == IF excess > 0 THEN Smaller(excess, sh.lru) ELSE 0
            e == EvictFromLRU(sh, charge)
<1>1. /\ sh.usage \in Nat /\ sh.lru \in Nat /\ sh.capacity \in Nat /\ sh.strict \in BOOLEAN
      /\ excess \in Int
  BY DEF ShardState
<1>2. n \in Nat /\ n <= sh.lru /\ (n < excess => n = sh.lru)
  BY <1>1 DEF Smaller
<1>3. e = [sh EXCEPT !.usage = @ - n, !.lru = @ - n]
  BY DEF EvictFromLRU
<1>. HIDE DEF n, e
<1>4. /\ e = [sh EXCEPT !.usage = sh.usage - n, !.lru = sh.lru - n]
      /\ sh.usage - n \in Nat /\ sh.lru - n \in Nat
  BY <1>1, <1>2, <1>3
<1>5. /\ e \in ShardState /\ e.capacity = sh.capacity /\ e.strict = sh.strict
      /\ e.usage = sh.usage - n /\ e.lru = sh.lru - n
  BY <1>4, Zenon DEF ShardState
<1>6. e.lru <= e.usage
  BY <1>1, <1>2, <1>5
<1>7. e.usage + charge > e.capacity => e.lru = 0
  BY <1>1, <1>2, <1>5
<1>. QED
  BY <1>5, <1>6, <1>7 DEF e

\* An operation on the entries of one shard keeps the invariant if it keeps the
\* shard sound and its settings.
LEMMA EntryStep ==
  ASSUME Inv, NEW s \in Shards, NEW sh \in ShardState, Sound(sh),
         sh.capacity = shard[s].capacity, sh.strict = shard[s].strict,
         shard' = [shard EXCEPT ![s] = sh],
         UNCHANGED <<capacity_, strict_capacity_limit_, capacity_mutex_, call>>
  PROVE  Inv'
<1>1. TypeOK /\ OneSetter /\ SettingsAgree /\ \A t \in Shards : Sound(shard[t])
  BY DEF Inv
<1>2. shard \in [Shards -> ShardState]
  BY <1>1 DEF TypeOK, ShardState
<1>3. /\ shard' \in [Shards -> ShardState]
      /\ \A t \in Shards : /\ shard'[t].capacity = shard[t].capacity
                           /\ shard'[t].strict = shard[t].strict
                           /\ shard'[t] = IF t = s THEN sh ELSE shard[t]
  BY <1>2
<1>4. TypeOK'
  BY <1>1, <1>3 DEF TypeOK, ShardState
<1>5. \A t \in Shards : Sound(shard[t])'
  BY <1>1, <1>3 DEF Sound
<1>6. OneSetter' /\ \A c \in Caller : call'[c].op = "idle" => call'[c].s = -1
  BY <1>1 DEF Inv, OneSetter
<1>7. SettingsAgree'
  BY <1>1, <1>3 DEF SettingsAgree, Passed
<1>. QED
  BY <1>4, <1>5, <1>6, <1>7 DEF Inv

\* Facts about the shard of a hash
LEMMA ShardFacts ==
  ASSUME Inv, NEW s \in Shards
  PROVE  /\ shard[s] \in ShardState /\ Sound(shard[s])
         /\ shard[s].usage \in Nat /\ shard[s].lru \in Nat /\ shard[s].capacity \in Nat
         /\ shard \in [Shards -> ShardState]
BY DEF Inv, TypeOK, ShardState

LEMMA InsertKeeps ==
  ASSUME Inv, NEW hash \in Hash, NEW wantHandle \in BOOLEAN, Insert(hash, wantHandle)
  PROVE  Inv'
<1>. DEFINE s == Shard(hash)
            e == EvictFromLRU(shard[s], 1)
            full == e.usage - e.lru + 1 > e.capacity /\ (e.strict \/ ~wantHandle)
            sh == IF full THEN e
                  ELSE [e EXCEPT !.usage = @ + 1, !.lru = IF wantHandle THEN @ ELSE @ + 1]
<1>1. s \in Shards
  BY ShardAssumption
<1>2. /\ shard[s] \in ShardState /\ shard[s].lru <= shard[s].usage
  BY <1>1, ShardFacts DEF Sound
<1>3. /\ e \in ShardState
      /\ e.capacity = shard[s].capacity /\ e.strict = shard[s].strict
      /\ e.lru <= e.usage
      /\ e.usage + 1 > e.capacity => e.lru = 0
  BY <1>2, EvictFacts
<1>4. /\ shard' = [shard EXCEPT ![s] = sh]
      /\ UNCHANGED <<capacity_, strict_capacity_limit_, capacity_mutex_, call>>
  BY DEF Insert
<1>. HIDE DEF s, e
<1>5. e.usage \in Nat /\ e.lru \in Nat /\ e.capacity \in Nat
  BY <1>3 DEF ShardState
<1>6. e \in ShardState /\ e.usage + 1 \in Nat /\ e.lru + 1 \in Nat
  BY <1>3, <1>5
<1>7. sh \in ShardState /\ sh.capacity = e.capacity /\ sh.strict = e.strict /\ Sound(sh)
  <2>1. CASE full
    BY <1>3, <1>5, <2>1 DEF Sound
  <2>2. CASE ~full /\ wantHandle
    <3>1. sh = [e EXCEPT !.usage = e.usage + 1, !.lru = e.lru]
      BY <2>2
    <3>. HIDE DEF sh, full
    <3>2. /\ sh \in ShardState /\ sh.capacity = e.capacity /\ sh.strict = e.strict
          /\ sh.usage = e.usage + 1 /\ sh.lru = e.lru
      BY <1>5, <1>6, <3>1, Zenon DEF ShardState
    <3>. QED
      BY <1>3, <1>5, <3>2 DEF Sound
  <2>3. CASE ~full /\ ~wantHandle
    <3>1. sh = [e EXCEPT !.usage = e.usage + 1, !.lru = e.lru + 1]
      BY <2>3
    <3>. HIDE DEF sh, full
    <3>2. /\ sh \in ShardState /\ sh.capacity = e.capacity /\ sh.strict = e.strict
          /\ sh.usage = e.usage + 1 /\ sh.lru = e.lru + 1
      BY <1>5, <1>6, <3>1, Zenon DEF ShardState
    <3>3. e.usage - e.lru + 1 <= e.capacity
      BY <1>5, <2>3 DEF full
    <3>. QED
      BY <1>3, <1>5, <3>2, <3>3 DEF Sound
  <2>. QED
    BY <2>1, <2>2, <2>3
<1>. HIDE DEF sh
<1>. QED
  BY <1>1, <1>3, <1>4, <1>7, EntryStep, Zenon

LEMMA LookupKeeps ==
  ASSUME Inv, NEW hash \in Hash, Lookup(hash)
  PROVE  Inv'
<1>. DEFINE s == Shard(hash)
            sh == [shard[s] EXCEPT !.lru = shard[s].lru - 1]
<1>1. s \in Shards
  BY ShardAssumption
<1>2. /\ shard' = [shard EXCEPT ![s] = sh] /\ shard[s].lru > 0
      /\ UNCHANGED <<capacity_, strict_capacity_limit_, capacity_mutex_, call>>
  BY DEF Lookup
<1>. HIDE DEF s
<1>3. /\ sh \in ShardState /\ sh.capacity = shard[s].capacity /\ sh.strict = shard[s].strict
      /\ sh.usage = shard[s].usage /\ sh.lru = shard[s].lru - 1
  BY <1>1, <1>2, ShardFacts DEF ShardState
<1>4. Sound(sh)
  BY <1>1, <1>2, <1>3, ShardFacts DEF Sound
<1>. HIDE DEF sh
<1>. QED
  BY <1>1, <1>2, <1>3, <1>4, EntryStep, Zenon

LEMMA ReleaseKeeps ==
  ASSUME Inv, NEW hash \in Hash, Release(hash)
  PROVE  Inv'
<1>. DEFINE s == Shard(hash)
<1>1. s \in Shards
  BY ShardAssumption
<1>2. PICK sh \in ReleaseLast(shard[s]) : shard' = [shard EXCEPT ![s] = sh]
  BY Zenon DEF Release
<1>3. /\ shard[s].usage > shard[s].lru
      /\ UNCHANGED <<capacity_, strict_capacity_limit_, capacity_mutex_, call>>
  BY DEF Release
<1>. HIDE DEF s
<1>4. \/ sh = [shard[s] EXCEPT !.usage = shard[s].usage - 1]
      \/ /\ sh = [shard[s] EXCEPT !.lru = shard[s].lru + 1]
         /\ ~(shard[s].usage > shard[s].capacity)
  BY <1>2 DEF ReleaseLast
<1>5. /\ sh \in ShardState /\ sh.capacity = shard[s].capacity /\ sh.strict = shard[s].strict
      /\ Sound(sh)
  <2>1. CASE sh = [shard[s] EXCEPT !.usage = shard[s].usage - 1]
    <3>1. /\ sh \in ShardState /\ sh.capacity = shard[s].capacity /\ sh.strict = shard[s].strict
          /\ sh.usage = shard[s].usage - 1 /\ sh.lru = shard[s].lru
      BY <1>1, <1>3, <2>1, ShardFacts DEF ShardState
    <3>. QED
      BY <1>1, <1>3, <3>1, ShardFacts DEF Sound
  <2>2. CASE /\ sh = [shard[s] EXCEPT !.lru = shard[s].lru + 1]
             /\ ~(shard[s].usage > shard[s].capacity)
    <3>1. /\ sh \in ShardState /\ sh.capacity = shard[s].capacity /\ sh.strict = shard[s].strict
          /\ sh.usage = shard[s].usage /\ sh.lru = shard[s].lru + 1
      BY <1>1, <1>3, <2>2, ShardFacts DEF ShardState
    <3>. QED
      BY <1>1, <1>3, <2>2, <3>1, ShardFacts DEF Sound
  <2>. QED
    BY <1>4, <2>1, <2>2
<1>. QED
  BY <1>1, <1>2, <1>3, <1>5, EntryStep, Zenon

LEMMA EraseKeeps ==
  ASSUME Inv, NEW s \in Shards, NEW n \in Nat, n <= shard[s].lru,
         shard' = [shard EXCEPT ![s].lru = @ - n, ![s].usage = @ - n],
         UNCHANGED <<capacity_, strict_capacity_limit_, capacity_mutex_, call>>
  PROVE  Inv'
<1>. DEFINE sh == [shard[s] EXCEPT !.lru = shard[s].lru - n, !.usage = shard[s].usage - n]
<1>1. shard' = [shard EXCEPT ![s] = sh]
  BY ShardFacts, Zenon DEF ShardState
<1>2. /\ sh \in ShardState /\ sh.capacity = shard[s].capacity /\ sh.strict = shard[s].strict
      /\ sh.usage = shard[s].usage - n /\ sh.lru = shard[s].lru - n
  <2>1. shard[s].usage - n \in Nat /\ shard[s].lru - n \in Nat
    BY ShardFacts DEF Sound
  <2>2. sh = [shard[s] EXCEPT !.usage = shard[s].usage - n, !.lru = shard[s].lru - n]
    BY ShardFacts, Zenon DEF ShardState
  <2>. HIDE DEF sh
  <2>. QED
    BY <2>1, <2>2, ShardFacts, Zenon DEF ShardState
<1>3. Sound(sh)
  BY <1>2, ShardFacts DEF Sound
<1>. HIDE DEF sh
<1>. QED
  BY <1>1, <1>2, <1>3, EntryStep, Zenon

-----------------------------------------------------------------------------
(* The setters.                                                            *)

\* What a caller that is not idle has on its mind, as a record
CallState ==
  [op : {"idle", "SetCapacity", "SetStrictCapacityLimit"},
   capacity : Capacity \cup {0}, strict : BOOLEAN, s : -1..num_shards]

\* The invariant depends on call only through the loops that are under way.
LEMMA CallStep ==
  ASSUME Inv, NEW c \in Caller, NEW cl \in CallState,
         call' = [call EXCEPT ![c] = cl], UNCHANGED <<capacity_, strict_capacity_limit_, shard>>,
         capacity_mutex_' \in Caller \cup {None}, OneSetter', cl.op = "idle" => cl.s = -1,
         \A s \in Shards, op \in {"SetCapacity", "SetStrictCapacityLimit"} :
           ~(call[c].op = op /\ call[c].s > s) /\ ~(cl.op = op /\ cl.s > s)
  PROVE  Inv'
<1>1. TypeOK /\ SettingsAgree /\ \A s \in Shards : Sound(shard[s])
  BY DEF Inv
<1>2. call \in [Caller -> CallState]
  BY <1>1 DEF TypeOK, CallState
<1>3. call' \in [Caller -> CallState] /\ call'[c] = cl /\ \A d \in Caller \ {c} : call'[d] = call[d]
  BY <1>2
<1>4. TypeOK'
  BY <1>1, <1>3 DEF TypeOK, CallState
<1>5. \A s \in Shards : Sound(shard[s])'
  BY <1>1 DEF Sound
<1>6. \A s \in Shards, op \in {"SetCapacity", "SetStrictCapacityLimit"}, d \in Caller :
        Passed(d, op, s)' <=> Passed(d, op, s)
  BY <1>3 DEF Passed
<1>7. \A s \in Shards, d \in Caller, op \in {"SetCapacity", "SetStrictCapacityLimit"} :
        Passed(d, op, s) => call'[d] = call[d]
  BY <1>3 DEF Passed
<1>8. SettingsAgree'
  <2>. SUFFICES ASSUME NEW s \in Shards
                PROVE  /\ \A d \in Caller :
                            /\ Passed(d, "SetCapacity", s)' =>
                                 shard'[s].capacity = PerShard(call'[d].capacity)
                            /\ Passed(d, "SetStrictCapacityLimit", s)' =>
                                 shard'[s].strict = call'[d].strict
                       /\ (\A d \in Caller : ~Passed(d, "SetCapacity", s)') =>
                            shard'[s].capacity = PerShard(capacity_')
                       /\ (\A d \in Caller : ~Passed(d, "SetStrictCapacityLimit", s)') =>
                            shard'[s].strict = strict_capacity_limit_'
    BY DEF SettingsAgree, PerShard
  <2>. QED
    BY <1>1, <1>6, <1>7 DEF SettingsAgree
<1>. QED
  BY <1>3, <1>4, <1>5, <1>8 DEF Inv

LEMMA CallTypes == ASSUME Inv, NEW c \in Caller
                   PROVE  /\ call \in [Caller -> CallState] /\ call[c] \in CallState
                          /\ call[c].s \in -1..num_shards
                          /\ num_shards \in Nat \ {0}
BY ShardedAssumption DEF Inv, TypeOK, CallState

LEMMA CallBegins ==
  ASSUME Inv, NEW c \in Caller, NEW capacity \in Capacity \cup {0}, NEW strict \in BOOLEAN,
         SetCapacity(c, capacity) \/ SetStrictCapacityLimit(c, strict)
  PROVE  Inv'
<1>. DEFINE cl == IF SetCapacity(c, capacity)
                  THEN [op |-> "SetCapacity", capacity |-> capacity, strict |-> FALSE, s |-> -1]
                  ELSE [op |-> "SetStrictCapacityLimit", capacity |-> 0, strict |-> strict,
                        s |-> -1]
<1>1. num_shards \in Nat \ {0} /\ call[c].s = -1 /\ call[c].op = "idle"
  BY ShardedAssumption DEF Inv, SetCapacity, SetStrictCapacityLimit
<1>2. call' = [call EXCEPT ![c] = cl]
  BY Zenon DEF SetCapacity, SetStrictCapacityLimit, NoCall
<1>3. UNCHANGED <<capacity_, strict_capacity_limit_, capacity_mutex_, shard>>
  BY DEF SetCapacity, SetStrictCapacityLimit
<1>4. cl \in CallState /\ cl.s = -1 /\ cl.op # "idle"
  BY <1>1 DEF CallState
<1>. HIDE DEF cl
<1>5. OneSetter'
  BY <1>1, <1>2, <1>3, <1>4, CallTypes DEF Inv, OneSetter
<1>6. /\ capacity_mutex_' \in Caller \cup {None}
      /\ \A s \in Shards : s >= 0
  BY <1>1, <1>3 DEF Inv, TypeOK, Shards
<1>7. \A s \in Shards, op \in {"SetCapacity", "SetStrictCapacityLimit"} :
        ~(call[c].op = op /\ call[c].s > s) /\ ~(cl.op = op /\ cl.s > s)
  BY <1>1, <1>4, <1>6 DEF Shards
<1>. QED
  BY <1>2, <1>3, <1>4, <1>5, <1>6, <1>7, CallStep, Zenon

LEMMA LockKeeps == ASSUME Inv, NEW c \in Caller, Lock(c) PROVE Inv'
<1>. DEFINE cl == [call[c] EXCEPT !.s = 0]
<1>1. /\ call[c].op # "idle" /\ call[c].s = -1 /\ capacity_mutex_ = None /\ capacity_mutex_' = c
      /\ UNCHANGED <<capacity_, strict_capacity_limit_, shard>>
  BY DEF Lock
<1>2. call' = [call EXCEPT ![c] = cl]
  BY CallTypes DEF Lock, CallState
<1>3. cl \in CallState /\ cl.s = 0 /\ cl.op = call[c].op
  BY CallTypes DEF CallState
<1>. HIDE DEF cl
<1>4. OneSetter'
  BY <1>1, <1>2, <1>3, CallTypes, ShardedAssumption DEF Inv, OneSetter
<1>5. \A s \in Shards, op \in {"SetCapacity", "SetStrictCapacityLimit"} :
        ~(call[c].op = op /\ call[c].s > s) /\ ~(cl.op = op /\ cl.s > s)
  BY <1>1, <1>3 DEF Shards
<1>. QED
  BY <1>1, <1>2, <1>3, <1>4, <1>5, CallStep, Zenon

\* The step of a setter's loop: shard s gets its new setting, and the caller is
\* past it from now on.
LEMMA SetShardKeeps == ASSUME Inv, NEW c \in Caller, SetShard(c) PROVE Inv'
<1>. DEFINE s == call[c].s
            cl == [call[c] EXCEPT !.s = s + 1]
            sized == WithCapacity(shard[s], call[c].capacity)
            strict == [shard[s] EXCEPT !.strict = call[c].strict]
            sh == IF call[c].op = "SetCapacity" THEN sized ELSE strict
<1>1. /\ s \in Shards
      /\ shard' = [shard EXCEPT ![s] = sh]
      /\ call' = [call EXCEPT ![c] = cl]
      /\ UNCHANGED <<capacity_, strict_capacity_limit_, capacity_mutex_>>
  BY CallTypes, ShardFacts DEF SetShard, CallState, ShardState
<1>2. /\ TypeOK /\ OneSetter /\ SettingsAgree
      /\ \A t \in Shards : Sound(shard[t])
      /\ \A d \in Caller : call[d].op = "idle" => call[d].s = -1
  BY DEF Inv
<1>3. /\ call[c].op \in {"SetCapacity", "SetStrictCapacityLimit"}
      /\ s \in Nat /\ s + 1 \in 0..num_shards
      /\ capacity_mutex_ = c /\ \A d \in Caller \ {c} : call[d].s = -1
  <2>1. s \in Nat /\ s + 1 \in 0..num_shards
    BY <1>1, ShardedAssumption DEF Shards
  <2>2. capacity_mutex_ = c
    BY <1>2, <2>1 DEF OneSetter
  <2>3. \A d \in Caller \ {c} : call[d].s = -1
    BY <1>2, <2>2, CallTypes DEF OneSetter
  <2>4. call[c] \in CallState /\ call[c].op # "idle"
    BY <1>2, <2>1, CallTypes
  <2>. QED
    BY <2>1, <2>2, <2>3, <2>4 DEF CallState
<1>4. cl \in CallState /\ cl.s = s + 1 /\ cl.op = call[c].op
      /\ cl.capacity = call[c].capacity /\ cl.strict = call[c].strict
  BY <1>3, CallTypes DEF CallState
<1>5. shard[s] \in ShardState /\ Sound(shard[s]) /\ shard \in [Shards -> ShardState]
  BY <1>1, ShardFacts
<1>6. ASSUME call[c].op = "SetCapacity"
      PROVE  /\ sized \in ShardState /\ Sound(sized)
             /\ sized.capacity = PerShard(call[c].capacity)
             /\ sized.strict = shard[s].strict
  <2>. DEFINE per == PerShard(call[c].capacity)
              new == [shard[s] EXCEPT !.capacity = per]
              kept == EvictFromLRU(new, 0)
  <2>1. per \in Nat
    BY PerShardType, CallTypes DEF CallState
  <2>2. sized = kept
    BY DEF WithCapacity
  <2>. HIDE DEF per, s, sized
  <2>3. /\ new \in ShardState /\ new.lru = shard[s].lru /\ new.usage = shard[s].usage
        /\ new.capacity = per
    BY <1>5, <2>1 DEF ShardState
  <2>4. new.strict = shard[s].strict
    BY <1>5, <2>1 DEF ShardState
  <2>. HIDE DEF new
  <2>5. new.lru <= new.usage
    BY <1>5, <2>3 DEF Sound
  <2>6. /\ kept \in ShardState /\ kept.capacity = new.capacity /\ kept.strict = new.strict
        /\ kept.lru <= kept.usage /\ (kept.usage + 0 > kept.capacity => kept.lru = 0)
    BY <2>3, <2>5, EvictFacts
  <2>. HIDE DEF kept
  <2>7. Sound(kept)
    BY <2>6 DEF Sound, ShardState
  <2>. QED
    BY <2>2, <2>3, <2>4, <2>6, <2>7 DEF per
<1>7. ASSUME call[c].op # "SetCapacity"
      PROVE  /\ strict \in ShardState /\ Sound(strict)
             /\ strict.capacity = shard[s].capacity
             /\ strict.strict = call[c].strict
  <2>1. call[c].strict \in BOOLEAN
    BY CallTypes DEF CallState
  <2>. HIDE DEF s
  <2>2. /\ strict \in ShardState /\ strict.capacity = shard[s].capacity
        /\ strict.usage = shard[s].usage /\ strict.lru = shard[s].lru
    BY <1>5, <2>1 DEF ShardState
  <2>3. strict.strict = call[c].strict
    BY <1>5 DEF ShardState
  <2>. HIDE DEF strict
  <2>. QED
    BY <1>5, <2>2, <2>3 DEF Sound
<1>8. /\ sh \in ShardState /\ Sound(sh)
      /\ call[c].op = "SetCapacity" =>
           sh.capacity = PerShard(call[c].capacity) /\ sh.strict = shard[s].strict
      /\ call[c].op # "SetCapacity" =>
           sh.strict = call[c].strict /\ sh.capacity = shard[s].capacity
  BY <1>6, <1>7
<1>. HIDE DEF s, cl, sh, sized, strict
<1>9. /\ shard' \in [Shards -> ShardState] /\ shard'[s] = sh
      /\ \A t \in Shards \ {s} : shard'[t] = shard[t]
  BY <1>1, <1>5, <1>8
<1>10. /\ call' \in [Caller -> CallState] /\ call'[c] = cl
       /\ \A d \in Caller \ {c} : call'[d] = call[d]
  BY <1>1, <1>4, CallTypes
<1>11. TypeOK'
  BY <1>1, <1>2, <1>9, <1>10 DEF TypeOK, ShardState, CallState
<1>12. OneSetter' /\ \A d \in Caller : call'[d].op = "idle" => call'[d].s = -1
  BY <1>1, <1>2, <1>3, <1>4, <1>10 DEF OneSetter
<1>13. \A t \in Shards : Sound(shard[t])'
  BY <1>2, <1>8, <1>9 DEF Sound
<1>14. SettingsAgree'
  <2>. SUFFICES ASSUME NEW t \in Shards
                PROVE  /\ \A d \in Caller :
                            /\ Passed(d, "SetCapacity", t)' =>
                                 shard'[t].capacity = PerShard(call'[d].capacity)
                            /\ Passed(d, "SetStrictCapacityLimit", t)' =>
                                 shard'[t].strict = call'[d].strict
                       /\ (\A d \in Caller : ~Passed(d, "SetCapacity", t)') =>
                            shard'[t].capacity = PerShard(capacity_')
                       /\ (\A d \in Caller : ~Passed(d, "SetStrictCapacityLimit", t)') =>
                            shard'[t].strict = strict_capacity_limit_'
    BY DEF SettingsAgree, PerShard
  <2>1. t \in Int /\ s \in Int
    BY <1>3 DEF Shards
  <2>2. \A d \in Caller \ {c}, op \in {"SetCapacity", "SetStrictCapacityLimit"} :
          ~Passed(d, op, t) /\ ~Passed(d, op, t)'
    BY <1>3, <1>10, <2>1 DEF Passed, Shards
  <2>3. \A op \in {"SetCapacity", "SetStrictCapacityLimit"} :
          /\ Passed(c, op, t)' <=> call[c].op = op /\ s + 1 > t
          /\ Passed(c, op, t) <=> call[c].op = op /\ s > t
    BY <1>4, <1>10 DEF Passed, s
  <2>4. CASE t = s
    <3>1. CASE call[c].op = "SetCapacity"
      <4>1. /\ Passed(c, "SetCapacity", t)' /\ ~Passed(c, "SetStrictCapacityLimit", t)'
            /\ \A d \in Caller : ~Passed(d, "SetStrictCapacityLimit", t)
        BY <2>1, <2>2, <2>3, <2>4, <3>1
      <4>2. shard'[t].capacity = PerShard(call'[c].capacity)
        BY <1>4, <1>8, <1>9, <1>10, <2>4, <3>1
      <4>3. shard'[t].strict = shard[t].strict
        BY <1>8, <1>9, <2>4, <3>1
      <4>. QED
        BY <1>1, <1>2, <2>2, <4>1, <4>2, <4>3 DEF SettingsAgree
    <3>2. CASE call[c].op # "SetCapacity"
      <4>1. /\ Passed(c, "SetStrictCapacityLimit", t)' /\ ~Passed(c, "SetCapacity", t)'
            /\ \A d \in Caller : ~Passed(d, "SetCapacity", t)
        BY <1>3, <2>1, <2>2, <2>3, <2>4, <3>2
      <4>2. shard'[t].strict = call'[c].strict
        BY <1>4, <1>8, <1>9, <1>10, <2>4, <3>2
      <4>3. shard'[t].capacity = shard[t].capacity
        BY <1>8, <1>9, <2>4, <3>2
      <4>. QED
        BY <1>1, <1>2, <2>2, <4>1, <4>2, <4>3 DEF SettingsAgree
    <3>. QED
      BY <3>1, <3>2
  <2>5. CASE t # s
    <3>1. \A d \in Caller, op \in {"SetCapacity", "SetStrictCapacityLimit"} :
            Passed(d, op, t)' <=> Passed(d, op, t)
      BY <2>1, <2>2, <2>3, <2>5
    <3>2. /\ \A d \in Caller : call'[d].capacity = call[d].capacity
          /\ \A d \in Caller : call'[d].strict = call[d].strict
      BY <1>4, <1>10
    <3>3. shard'[t] = shard[t]
      BY <1>9, <2>5
    <3>. QED
      BY <1>1, <1>2, <3>1, <3>2, <3>3 DEF SettingsAgree
  <2>. QED
    BY <2>4, <2>5
<1>. QED
  BY <1>11, <1>12, <1>13, <1>14 DEF Inv

LEMMA SetReturnsKeeps == ASSUME Inv, NEW c \in Caller, SetReturns(c) PROVE Inv'
<1>1. /\ call[c].s = num_shards /\ capacity_mutex_' = None /\ UNCHANGED shard
      /\ call' = [call EXCEPT ![c] = NoCall]
      /\ call[c].op = "SetCapacity" =>
           capacity_' = call[c].capacity /\ strict_capacity_limit_' = strict_capacity_limit_
      /\ call[c].op # "SetCapacity" =>
           strict_capacity_limit_' = call[c].strict /\ capacity_' = capacity_
  BY DEF SetReturns
<1>2. /\ TypeOK /\ OneSetter /\ SettingsAgree
      /\ \A t \in Shards : Sound(shard[t])
      /\ \A d \in Caller : call[d].op = "idle" => call[d].s = -1
  BY DEF Inv
<1>3. /\ num_shards \in Nat \ {0} /\ \A t \in Shards : t \in Nat /\ t < num_shards
      /\ None \notin Caller
  BY ShardedAssumption DEF Shards
<1>4. /\ capacity_mutex_ = c /\ \A d \in Caller \ {c} : call[d].s = -1
      /\ call[c].op \in {"SetCapacity", "SetStrictCapacityLimit"}
  <2>1. capacity_mutex_ = c
    BY <1>1, <1>2, <1>3 DEF OneSetter
  <2>2. \A d \in Caller \ {c} : call[d].s = -1
    BY <1>2, <2>1, CallTypes DEF OneSetter
  <2>3. call[c] \in CallState /\ call[c].op # "idle"
    BY <1>1, <1>2, <1>3, CallTypes
  <2>. QED
    BY <2>1, <2>2, <2>3 DEF CallState
<1>5. NoCall \in CallState /\ NoCall.s = -1 /\ NoCall.op = "idle"
  BY <1>3 DEF NoCall, CallState
<1>6. /\ call' \in [Caller -> CallState] /\ call'[c] = NoCall
      /\ \A d \in Caller \ {c} : call'[d] = call[d]
  BY <1>1, <1>5, CallTypes
<1>7. \A d \in Caller : call'[d].s = -1
  BY <1>4, <1>5, <1>6
<1>8. OneSetter' /\ \A d \in Caller : call'[d].op = "idle" => call'[d].s = -1
  BY <1>1, <1>3, <1>7 DEF OneSetter
<1>9. ASSUME NEW t \in Shards
      PROVE  shard[t].capacity = PerShard(capacity_') /\ shard[t].strict = strict_capacity_limit_'
  <2>1. \A d \in Caller \ {c} : call[d].s = -1 /\ ~(call[d].s > t)
    BY <1>3, <1>4
  <2>2. call[c].s > t
    BY <1>1, <1>3
  <2>3. CASE call[c].op = "SetCapacity"
    <3>1. /\ Passed(c, "SetCapacity", t)
          /\ \A d \in Caller : ~Passed(d, "SetStrictCapacityLimit", t)
      BY <2>1, <2>2, <2>3 DEF Passed
    <3>. QED
      BY <1>1, <1>2, <2>3, <3>1 DEF SettingsAgree
  <2>4. CASE call[c].op # "SetCapacity"
    <3>1. /\ Passed(c, "SetStrictCapacityLimit", t)
          /\ \A d \in Caller : ~Passed(d, "SetCapacity", t)
      BY <1>4, <2>1, <2>2, <2>4 DEF Passed
    <3>. QED
      BY <1>1, <1>2, <2>4, <3>1 DEF SettingsAgree
  <2>. QED
    BY <2>3, <2>4
<1>10. \A d \in Caller, t \in Shards, op \in {"SetCapacity", "SetStrictCapacityLimit"} :
         ~Passed(d, op, t)'
  BY <1>3, <1>7 DEF Passed
<1>11. SettingsAgree'
  <2>. SUFFICES ASSUME NEW t \in Shards
                PROVE  /\ \A d \in Caller :
                            /\ Passed(d, "SetCapacity", t)' =>
                                 shard'[t].capacity = PerShard(call'[d].capacity)
                            /\ Passed(d, "SetStrictCapacityLimit", t)' =>
                                 shard'[t].strict = call'[d].strict
                       /\ (\A d \in Caller : ~Passed(d, "SetCapacity", t)') =>
                            shard'[t].capacity = PerShard(capacity_')
                       /\ (\A d \in Caller : ~Passed(d, "SetStrictCapacityLimit", t)') =>
                            shard'[t].strict = strict_capacity_limit_'
    BY DEF SettingsAgree, PerShard
  <2>. QED
    BY <1>1, <1>9, <1>10
<1>12. capacity_' \in Capacity \cup {0} /\ strict_capacity_limit_' \in BOOLEAN
  <2>1. /\ call[c].capacity \in Capacity \cup {0} /\ call[c].strict \in BOOLEAN
        /\ capacity_ \in Capacity \cup {0} /\ strict_capacity_limit_ \in BOOLEAN
    BY <1>2, CallTypes DEF CallState, TypeOK
  <2>. QED
    BY <1>1, <2>1, Zenon
<1>13. TypeOK'
  BY <1>1, <1>2, <1>6, <1>12 DEF TypeOK, CallState
<1>. QED
  BY <1>1, <1>2, <1>8, <1>11, <1>13 DEF Inv, Sound

-----------------------------------------------------------------------------

LEMMA InitInv == Init => Inv
<1>. SUFFICES ASSUME Init PROVE Inv
  OBVIOUS
<1>1. num_shards \in Nat \ {0} /\ None \notin Caller
  BY ShardedAssumption
<1>2. PerShard(capacity_) \in Nat
  BY PerShardType DEF Init
<1>3. NoCall \in CallState /\ NoCall.s = -1 /\ NoCall.op = "idle"
  BY <1>1 DEF NoCall, CallState
<1>4. /\ call \in [Caller -> CallState]
      /\ \A c \in Caller : call[c].s = -1 /\ call[c].op = "idle"
  BY <1>3 DEF Init
<1>5. shard \in [Shards -> ShardState]
  BY <1>2 DEF Init, ShardState
<1>6. /\ \A s \in Shards : shard[s].usage = 0 /\ shard[s].lru = 0
      /\ \A s \in Shards : shard[s].capacity = PerShard(capacity_)
      /\ \A s \in Shards : shard[s].strict = strict_capacity_limit_
  BY DEF Init
<1>7. TypeOK
  BY <1>4, <1>5 DEF Init, TypeOK, CallState, ShardState
<1>8. OneSetter
  BY <1>1, <1>4 DEF OneSetter, Init
<1>9. SettingsAgree
  BY <1>4, <1>6 DEF SettingsAgree, Passed
<1>. QED
  BY <1>2, <1>4, <1>6, <1>7, <1>8, <1>9 DEF Inv, Sound

LEMMA NextInv == Inv /\ [Next]_vars => Inv'
<1>. SUFFICES ASSUME Inv, [Next]_vars PROVE Inv'
  OBVIOUS
<1>1. ASSUME NEW c \in Caller, NEW capacity \in Capacity, SetCapacity(c, capacity) PROVE Inv'
  BY <1>1, CallBegins, Zenon
<1>2. ASSUME NEW c \in Caller, NEW strict \in BOOLEAN, SetStrictCapacityLimit(c, strict)
      PROVE  Inv'
  <2>. DEFINE capacity == 0
  <2>1. capacity \in Capacity \cup {0}
    OBVIOUS
  <2>. HIDE DEF capacity
  <2>. QED
    BY <1>2, <2>1, CallBegins
<1>3. ASSUME NEW c \in Caller, SetStep(c) PROVE Inv'
  BY <1>3, LockKeeps, SetShardKeeps, SetReturnsKeeps DEF SetStep
<1>4. ASSUME NEW hash \in Hash, NEW wantHandle \in BOOLEAN, Insert(hash, wantHandle) PROVE Inv'
  BY <1>4, InsertKeeps
<1>5. ASSUME NEW hash \in Hash, Lookup(hash) PROVE Inv'
  BY <1>5, LookupKeeps
<1>6. ASSUME NEW hash \in Hash, Release(hash) PROVE Inv'
  BY <1>6, ReleaseKeeps
<1>7. ASSUME NEW hash \in Hash, Erase(hash) PROVE Inv'
  <2>. DEFINE s == Shard(hash)
  <2>1. s \in Shards
    BY ShardAssumption
  <2>2. /\ shard[s].lru > 0
        /\ shard' = [shard EXCEPT ![s].lru = @ - 1, ![s].usage = @ - 1]
        /\ UNCHANGED <<capacity_, strict_capacity_limit_, capacity_mutex_, call>>
    BY <1>7 DEF Erase
  <2>. HIDE DEF s
  <2>3. 1 <= shard[s].lru
    BY <2>1, <2>2, ShardFacts
  <2>. QED
    BY <2>1, <2>2, <2>3, EraseKeeps, Zenon
<1>8. ASSUME NEW s \in Shards, EraseUnRefEntries(s) PROVE Inv'
  <2>1. /\ shard' = [shard EXCEPT ![s].usage = @ - shard[s].lru, ![s].lru = 0]
        /\ UNCHANGED <<capacity_, strict_capacity_limit_, capacity_mutex_, call>>
    BY <1>8 DEF EraseUnRefEntries
  <2>2. shard[s].lru \in Nat /\ shard[s].lru - shard[s].lru = 0
    BY ShardFacts
  <2>. DEFINE n == shard[s].lru
  <2>3. n \in Nat /\ n <= shard[s].lru
    BY <2>2
  <2>4. shard' = [shard EXCEPT ![s].lru = @ - n, ![s].usage = @ - n]
    BY <2>1, <2>2, ShardFacts, Zenon DEF ShardState
  <2>. HIDE DEF n
  <2>. QED
    BY <2>1, <2>3, <2>4, EraseKeeps, Zenon
<1>9. CASE UNCHANGED vars
  BY <1>9 DEF vars, Inv, TypeOK, Sound, OneSetter, SettingsAgree, Passed
<1>. QED
  BY <1>1, <1>2, <1>3, <1>4, <1>5, <1>6, <1>7, <1>8, <1>9 DEF Next

LEMMA InvHolds == Spec => []Inv
BY InitInv, NextInv, PTL DEF Spec

\* The state of a ShardedCache keeps its type: no count of a shard (usage_,
\* lru_usage_) goes below zero.
THEOREM ShardedTypeCorrect == Spec => []TypeOK
<1>1. Inv => TypeOK
  BY DEF Inv
<1>. QED
  BY <1>1, InvHolds, PTL

\* SetCapacity and SetStrictCapacityLimit, however many threads call them, leave no
\* mixture of settings behind.
THEOREM SettingsAlwaysAgree == Spec => []SettingsAgree
<1>1. Inv => SettingsAgree
  BY DEF Inv
<1>. QED
  BY <1>1, InvHolds, PTL

\* Only one thread at a time is inside the loop of a setter.
THEOREM OneSetterAtATime == Spec => []OneSetter
<1>1. Inv => OneSetter
  BY DEF Inv
<1>. QED
  BY <1>1, InvHolds, PTL

\* When no setter is at work, a shard that holds more than its part of capacity_ has
\* nothing left that could be evicted.
THEOREM ExcessIsAlwaysPinned == Spec => []ExcessIsPinned
<1>1. Inv => ExcessIsPinned
  <2>. SUFFICES ASSUME Inv, capacity_mutex_ = None, NEW s \in Shards,
                       shard[s].usage > PerShard(capacity_)
                PROVE  shard[s].lru = 0
    BY DEF ExcessIsPinned
  <2>1. None \notin Caller /\ \A c \in Caller : call[c].s \in -1..num_shards
    BY ShardedAssumption, CallTypes
  <2>2. num_shards \in Nat /\ s \in Nat
    BY ShardedAssumption DEF Shards
  <2>3. \A c \in Caller : ~(call[c].s >= 0)
    BY <2>1 DEF Inv, OneSetter
  <2>4. \A c \in Caller : ~Passed(c, "SetCapacity", s)
    BY <2>1, <2>2, <2>3 DEF Passed
  <2>5. shard[s].capacity = PerShard(capacity_)
    BY <2>4 DEF Inv, SettingsAgree
  <2>. QED
    BY <2>5 DEF Inv, Sound
<1>. QED
  BY <1>1, InvHolds, PTL
=============================================================================
