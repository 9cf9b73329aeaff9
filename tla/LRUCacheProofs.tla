--------------------------- MODULE LRUCacheProofs ---------------------------
(***************************************************************************)
(* Proofs about LRUCacheShard, for any sets of addresses and keys and any  *)
(* charges, capacities and ratios.                                         *)
(***************************************************************************)
EXTENDS LRUListProofs

\* SetStrictCapacityLimit changes no account.
LEMMA SetStrictCapacityLimitInv ==
  ASSUME IInv, NEW strict \in BOOLEAN, SetStrictCapacityLimit(strict)
  PROVE  IInv'
<1> USE DEF SetStrictCapacityLimit, fields
<1>1. TypeOK'
  BY DEF IInv, TypeOK
<1>2. RefsAreCounted'
  BY DEF IInv, RefsAreCounted, OnList
<1>3. alive' => AccountsOK'
  BY DEF IInv, AccountsOK
<1> QED
  BY <1>1, <1>2, <1>3 DEF IInv

\* SetHighPriorityPoolRatio moves entries between the pools only.
LEMMA SetHighPriorityPoolRatioInv ==
  ASSUME IInv, NEW ratio \in Ratio, SetHighPriorityPoolRatio(ratio)
  PROVE  IInv'
<1> USE DEF fields
<1>1. alive /\ alive' /\ SoundList(lru)
  BY OnListFacts DEF SetHighPriorityPoolRatio
<1>2. PICK m \in 0..Len(lru.list) :
        /\ Overflows(lru, capacity_ * ratio, m)
        /\ lru' = MaintainPoolSize(lru, m)
  BY DEF SetHighPriorityPoolRatio
<1>3. m \in Nat /\ m <= Len(lru.list) - LowPriCount(lru)
  BY <1>2 DEF Overflows
<1>4. SoundList(lru') /\ lru'.list = lru.list
  BY <1>1, <1>2, <1>3, MaintainPoolSizeFacts
<1>5. TypeOK'
  BY DEF SetHighPriorityPoolRatio, IInv, TypeOK
<1>6. RefsAreCounted'
  BY <1>1, <1>4, Zenon DEF SetHighPriorityPoolRatio, IInv, RefsAreCounted, OnList
<1>7. AccountsOK'
  BY <1>1, <1>4, Zenon DEF SetHighPriorityPoolRatio, IInv, AccountsOK
<1> QED
  BY <1>5, <1>6, <1>7 DEF IInv

\* Lookup takes the entry it hands out off the list.
LEMMA LookupInv ==
  ASSUME IInv, NEW k \in Key, Lookup(k)
  PROVE  IInv'
<1> USE DEF fields, config
<1>0. PICK e \in Handle : e = table_[k]
  BY DEF Lookup, IInv, TypeOK
<1>1. alive /\ alive' /\ SoundList(lru)
  BY OnListFacts, Zenon DEF Lookup
<1>2. e \in heap \ doomed
  BY <1>0 DEF Lookup, IInv, RefsAreCounted
<1>3. /\ e \in Handle /\ e # None
      /\ held[e] \in Nat /\ refs[e] \in Int /\ refs[e] > 0 /\ inCache[e] \in BOOLEAN
      /\ key[e] = k /\ inCache[e]
      /\ refs[e] = held[e] + 1
  <2>1. inCache[e] /\ key[e] = k
    BY <1>0, <1>2, LiveFacts
  <2> QED
    BY <1>2, <2>1, LiveFacts
<1>4. /\ lru' = IF refs[e] = 1 THEN LRU_Remove(lru, e) ELSE lru
      /\ refs' = [refs EXCEPT ![e] = @ + 1]
      /\ held' = [held EXCEPT ![e] = @ + 1]
      /\ UNCHANGED <<capacity_, usage_, table_, key, inCache, heap, doomed>>
  BY <1>0 DEF Lookup
<1>5. e \in OnList <=> refs[e] = 1
  BY <1>1, <1>2, <1>3, OnListFacts
<1>6. SoundList(lru') /\ Range(lru'.list) = OnList \ {e}
  <2>1. CASE refs[e] = 1
    BY <1>1, <1>4, <1>5, <2>1, LRU_RemoveFacts DEF OnList
  <2>2. CASE refs[e] # 1
    BY <1>1, <1>4, <1>5, <2>2 DEF OnList
  <2> QED
    BY <2>1, <2>2
<1>7. TypeOK'
  BY <1>1, <1>3, <1>4 DEF IInv, TypeOK
<1>8. RefsAreCounted'
  <2>1. \A x \in Handle \ {e} : Kept(x)
    BY <1>4, <1>6 DEF IInv, TypeOK, OnList, Kept
  <2>2. refs'[e] = refs[e] + 1 /\ held'[e] = held[e] + 1
    BY <1>3, <1>4 DEF IInv, TypeOK
  <2>3. EntryOK(e)'
    <3>1. key'[e] = k
      BY <1>3, <1>4
    <3>2. table_'[k] = e
      BY <1>0, <1>4
    <3> QED
      BY <1>3, <1>4, <2>2, <3>1, <3>2 DEF EntryOK
  <2>4. \A j \in Key : table_'[j] = e => key'[e] = j
    BY <1>2, <1>4, LiveFacts, Zenon
  <2>5. e \notin Range(lru'.list) /\ refs'[e] # 1
    BY <1>3, <1>6, <2>2
  <2>6. CountedOK(e)'
    <3>1. e \in heap' \ doomed'
      BY <1>2, <1>4
    <3> QED
      BY <2>3, <2>4, <2>5, <3>1, LiveCounted, Zenon
  <2> QED
    BY <1>1, <1>6, <1>7, <2>1, <2>6, OthersKept1, Zenon
<1>9. AccountsOK'
  <2>1. ASSUME usage_ > capacity_
        PROVE  lru' = lru
    <3>1. OnList = {}
      BY <1>1, <2>1, EmptyList DEF IInv, AccountsOK
    <3> QED
      BY <1>4, <1>5, <3>1
  <2> QED
    BY <1>1, <1>4, <1>6, <2>1 DEF IInv, AccountsOK
<1> QED
  BY <1>7, <1>8, <1>9 DEF IInv

\* A release that leaves another client, or no table, with the entry.
LEMMA ReleaseSharedInv ==
  ASSUME IInv, NEW e \in Handle, ReleaseShared(e)
  PROVE  IInv'
<1> USE DEF fields, config
<1>1. alive /\ alive' /\ SoundList(lru) /\ e \in heap \ doomed
  BY OnListFacts, Zenon DEF ReleaseShared, IInv, RefsAreCounted
<1>2. /\ held[e] \in Nat /\ refs[e] \in Int /\ inCache[e] \in BOOLEAN
      /\ refs[e] = held[e] + (IF inCache[e] THEN 1 ELSE 0)
      /\ inCache[e] <=> (key[e] \in Key /\ table_[key[e]] = e)
  BY <1>1, LiveFacts
<1>3. /\ held[e] > 0
      /\ refs[e] - 1 > 1 \/ (refs[e] - 1 = 1 /\ ~inCache[e])
      /\ refs' = [refs EXCEPT ![e] = @ - 1]
      /\ held' = [held EXCEPT ![e] = @ - 1]
      /\ UNCHANGED <<capacity_, usage_, lru, table_, key, inCache, heap, doomed>>
  BY DEF ReleaseShared
<1>4. e \notin OnList
  BY <1>1, <1>2, <1>3, OnListFacts
<1>5. TypeOK'
  BY <1>1, <1>2, <1>3 DEF IInv, TypeOK
<1>6. RefsAreCounted'
  <2>1. \A x \in Handle \ {e} : Kept(x)
    BY <1>3 DEF IInv, TypeOK, OnList, Kept
  <2>2. refs'[e] = refs[e] - 1 /\ held'[e] = held[e] - 1
    BY <1>2, <1>3 DEF IInv, TypeOK
  <2>3. EntryOK(e)'
    BY <1>2, <1>3, <2>2 DEF EntryOK
  <2>4. \A j \in Key : table_'[j] = e => key'[e] = j
    BY <1>1, <1>3, LiveFacts
  <2>5. e \notin Range(lru'.list) /\ ~(inCache'[e] /\ refs'[e] = 1)
    BY <1>2, <1>3, <1>4, <2>2 DEF OnList
  <2>6. CountedOK(e)'
    BY <1>1, <1>3, <2>3, <2>4, <2>5, LiveCounted, Zenon
  <2>7. SoundList(lru')
    BY <1>1, <1>3
  <2> QED
    BY <1>1, <1>5, <2>1, <2>6, <2>7, OthersKept1
<1>7. AccountsOK'
  BY <1>1, <1>3 DEF IInv, AccountsOK
<1> QED
  BY <1>5, <1>6, <1>7 DEF IInv

\* The last release of an entry that is no longer in the cache.
LEMMA ReleaseLastInv ==
  ASSUME IInv, NEW e \in Handle, ReleaseLast(e)
  PROVE  IInv'
<1> USE DEF fields, config
<1>1. alive /\ alive' /\ SoundList(lru) /\ e \in heap \ doomed
  BY OnListFacts, Zenon DEF ReleaseLast, IInv, RefsAreCounted
<1>2. /\ held[e] = 1 /\ ~inCache[e] /\ e # None
      /\ \A k \in Key : table_[k] # e
  <2>1. held[e] > 0 /\ refs[e] = 1
    BY DEF ReleaseLast
  <2>2. held[e] = 1 /\ ~inCache[e] /\ e # None
    BY <1>1, <2>1, LiveFacts
  <2> QED
    BY <1>1, <2>2, LiveFacts, Zenon
<1>3. /\ refs' = [refs EXCEPT ![e] = 0]
      /\ held' = [held EXCEPT ![e] = @ - 1]
      /\ usage_' = usage_ - charge(e)
      /\ doomed' = doomed \cup {e}
      /\ UNCHANGED <<capacity_, lru, table_, key, inCache, heap>>
  BY DEF ReleaseLast
<1>4. e \notin OnList
  BY <1>1, <1>2, OnListFacts
<1>5. TypeOK'
  BY <1>1, <1>2, <1>3 DEF IInv, TypeOK
<1>6. refs'[e] = 0 /\ held'[e] = 0
  BY <1>2, <1>3 DEF IInv, TypeOK
<1>7. RefsAreCounted'
  <2>1. \A x \in Handle \ {e} : Kept(x)
    BY <1>3 DEF IInv, TypeOK, OnList, Kept
  <2>2. DoomedOK(e)'
    BY <1>2, <1>3, <1>6 DEF DoomedOK
  <2>3. e \in doomed' /\ (\A j \in Key : table_'[j] # e) /\ e \notin Range(lru'.list)
    BY <1>2, <1>3, <1>4 DEF OnList
  <2>4. CountedOK(e)'
    BY <1>6, <2>2, <2>3, OutCounted, Zenon
  <2>5. SoundList(lru')
    BY <1>1, <1>3
  <2> QED
    BY <1>1, <1>5, <2>1, <2>4, <2>5, OthersKept1
<1>8. AccountsOK'
  <2> DEFINE live == heap \ doomed
  <2>1. live \in SUBSET Handle /\ {e} \in SUBSET live /\ heap' \ doomed' = live \ {e}
    BY <1>1, <1>3 DEF IInv, TypeOK
  <2>2. /\ Charge[live \ {e}] = Charge[live] - Charge[{e}]
        /\ Charge[live] \in Nat /\ Charge[{e}] \in Nat
    BY <2>1, ChargeMinus, Zenon
  <2>3. usage_' = Charge[heap' \ doomed']
    BY <1>1, <1>3, <2>1, <2>2, Zenon DEF IInv, AccountsOK, charge
  <2>4. usage_ \in Int /\ usage_' \in Int /\ usage_' <= usage_ /\ capacity_ \in Int
    BY <1>1, <1>3, <2>2 DEF IInv, AccountsOK, charge, TypeOK
  <2>5. usage_' > capacity_' => lru'.list = <<>>
    BY <1>1, <1>3, <2>4 DEF IInv, AccountsOK
  <2> QED
    BY <1>1, <1>3, <2>3, <2>5 DEF AccountsOK
<1> QED
  BY <1>5, <1>7, <1>8 DEF IInv

\* The last release of an entry in the cache puts it on the list or gives it up.
LEMMA ReleaseToCacheInv ==
  ASSUME IInv, NEW e \in Handle, ReleaseToCache(e)
  PROVE  IInv'
<1> USE DEF fields, config
<1>1. alive /\ alive' /\ SoundList(lru) /\ e \in heap \ doomed
  BY OnListFacts, Zenon DEF ReleaseToCache, IInv, RefsAreCounted
<1>2. /\ refs[e] = 2 /\ inCache[e] /\ held[e] = 1 /\ e # None
      /\ key[e] \in Key /\ table_[key[e]] = e
      /\ \A k \in Key : table_[k] = e => key[e] = k
  <2>1. refs[e] = 2 /\ inCache[e]
    BY Zenon DEF ReleaseToCache
  <2>2. held[e] = 1
    BY <1>1, <2>1, LiveFacts
  <2> QED
    BY <1>1, <2>1, <2>2, LiveFacts, Zenon
<1>3. /\ held' = [held EXCEPT ![e] = @ - 1]
      /\ UNCHANGED <<capacity_, key, heap>>
  BY Zenon DEF ReleaseToCache
<1>4. e \notin OnList /\ held'[e] = 0
  BY <1>1, <1>2, <1>3, OnListFacts DEF IInv, TypeOK
<1>5. CASE usage_ > capacity_
  <2>1. /\ table_' = TableWithout({e})
        /\ refs' = [refs EXCEPT ![e] = 0]
        /\ inCache' = [inCache EXCEPT ![e] = FALSE]
        /\ usage_' = usage_ - charge(e)
        /\ doomed' = doomed \cup {e}
        /\ lru' = lru
    BY <1>5, Zenon DEF ReleaseToCache
  <2>2. TypeOK'
    BY <1>1, <1>2, <1>3, <2>1 DEF IInv, TypeOK, TableWithout
  <2>3. RefsAreCounted'
    <3>1. \A x \in Handle \ {e} : Kept(x)
      <4> TAKE x \in Handle \ {e}
      <4>1. \A k \in Key : table_'[k] = x <=> table_[k] = x
        BY <2>1, ShardAssumption DEF TableWithout
      <4> QED
        BY <1>3, <2>1, <4>1, Zenon DEF IInv, TypeOK, OnList, Kept
    <3>2. /\ DoomedOK(e)' /\ e \in doomed' /\ e \notin Range(lru'.list)
      BY <1>4, <2>1 DEF IInv, TypeOK, DoomedOK, OnList
    <3>3. \A j \in Key : table_'[j] # e
      BY <1>2, <2>1 DEF TableWithout
    <3>4. CountedOK(e)'
      BY <1>4, <2>1, <3>2, <3>3, OutCounted, Zenon
    <3>5. SoundList(lru')
      BY <1>1, <2>1, Zenon
    <3> QED
      BY <1>1, <2>2, <3>1, <3>4, <3>5, OthersKept1
  <2>4. AccountsOK'
    <3> DEFINE live == heap \ doomed
    <3>1. live \in SUBSET Handle /\ {e} \in SUBSET live /\ heap' \ doomed' = live \ {e}
      BY <1>1, <1>3, <2>1 DEF IInv, TypeOK
    <3>2. Charge[live \ {e}] = Charge[live] - Charge[{e}]
      BY <3>1, ChargeMinus, Zenon
    <3>3. usage_' = Charge[heap' \ doomed']
      BY <1>1, <2>1, <3>1, <3>2, Zenon DEF IInv, AccountsOK, charge
    <3> QED
      BY <1>1, <1>5, <2>1, <3>3 DEF IInv, AccountsOK
  <2> QED
    BY <2>2, <2>3, <2>4 DEF IInv
<1>6. CASE ~(usage_ > capacity_)
  <2>1. /\ LRU_Insert(lru, e, highPri[e])
        /\ refs' = [refs EXCEPT ![e] = 1]
        /\ UNCHANGED <<table_, inCache, usage_, doomed>>
    BY <1>6, Zenon DEF ReleaseToCache
  <2>2. SoundList(lru') /\ Range(lru'.list) = OnList \cup {e}
    BY <1>1, <1>4, <2>1, LRU_InsertFacts DEF OnList
  <2>3. TypeOK'
    BY <1>1, <1>2, <1>3, <2>1 DEF IInv, TypeOK
  <2>4. RefsAreCounted'
    <3>1. \A x \in Handle \ {e} : Kept(x)
      BY <1>3, <2>1, <2>2, Zenon DEF IInv, TypeOK, OnList, Kept
    <3>2. refs'[e] = 1 /\ inCache'[e] /\ e \in heap' \ doomed'
      BY <1>1, <1>2, <1>3, <2>1, Zenon DEF IInv, TypeOK
    <3>3. EntryOK(e)'
      BY <1>2, <1>3, <1>4, <2>1, <3>2 DEF EntryOK
    <3>4. \A j \in Key : table_'[j] = e => key'[e] = j
      BY <1>2, <1>3, <2>1
    <3>5. CountedOK(e)'
      BY <2>2, <3>2, <3>3, <3>4, LiveCounted, Zenon
    <3> QED
      BY <1>1, <2>2, <2>3, <3>1, <3>5, OthersKept1
  <2>5. AccountsOK'
    BY <1>1, <1>3, <1>6, <2>1, <2>2, Zenon DEF IInv, AccountsOK
  <2> QED
    BY <2>3, <2>4, <2>5 DEF IInv
<1> QED
  BY <1>5, <1>6

\* Erase gives up the table's reference.
LEMMA EraseInv ==
  ASSUME IInv, NEW k \in Key, Erase(k)
  PROVE  IInv'
<1> USE DEF fields, config
<1>0. PICK e \in Handle : e = table_[k]
  BY DEF Erase, IInv, TypeOK
<1>1. alive /\ alive' /\ SoundList(lru) /\ e \in heap \ doomed
  BY <1>0, OnListFacts, Zenon DEF Erase, IInv, RefsAreCounted
<1>2. /\ inCache[e] /\ key[e] = k /\ e # None
      /\ refs[e] = held[e] + 1 /\ held[e] \in Nat
      /\ \A j \in Key : table_[j] = e => k = j
  <2>1. inCache[e] /\ key[e] = k /\ e # None
    BY <1>0, <1>1, LiveFacts
  <2> QED
    BY <1>1, <2>1, LiveFacts, ZenonT(30)
<1>3. /\ table_' = [table_ EXCEPT ![k] = None]
      /\ refs' = [x \in Handle |-> IF x \in {e} THEN refs[x] - 1 ELSE refs[x]]
      /\ inCache' = [x \in Handle |-> inCache[x] /\ x \notin {e}]
      /\ IF refs[e] = 1
         THEN /\ usage_' = usage_ - charge(e)
              /\ lru' = LRU_Remove(lru, e)
              /\ doomed' = doomed \cup {e}
         ELSE UNCHANGED <<usage_, lru, doomed>>
      /\ UNCHANGED <<capacity_, key, heap, held>>
  BY <1>0, Zenon DEF Erase, Unlinked
<1>4. e \in OnList <=> refs[e] = 1
  BY <1>1, <1>2, OnListFacts
<1>5. /\ refs'[e] = held[e]
      /\ ~inCache'[e]
  <2>1. ~inCache'[e]
    BY <1>3, Zenon
  <2> QED
    BY <1>2, <1>3, <2>1
<1>6. SoundList(lru') /\ Range(lru'.list) = OnList \ {e}
  <2>1. CASE refs[e] = 1
    BY <1>1, <1>3, <1>4, <2>1, LRU_RemoveFacts DEF OnList
  <2>2. CASE refs[e] # 1
    BY <1>1, <1>3, <1>4, <2>2 DEF OnList
  <2> QED
    BY <2>1, <2>2
<1>7. TypeOK'
  BY <1>1, <1>3 DEF IInv, TypeOK
<1>8. RefsAreCounted'
  <2>1. \A x \in Handle \ {e} : Kept(x)
    <3> TAKE x \in Handle \ {e}
    <3>1. \A j \in Key : table_'[j] = x <=> table_[j] = x
      BY <1>0, <1>3, ShardAssumption DEF IInv, TypeOK
    <3>2. refs'[x] = refs[x] /\ inCache'[x] = inCache[x]
      BY <1>3 DEF IInv, TypeOK
    <3> QED
      BY <1>3, <1>6, <3>1, <3>2, Zenon DEF OnList, Kept
  <2>2. \A j \in Key : table_'[j] # e
    BY <1>2, <1>3, Zenon DEF IInv, TypeOK
  <2>3. e \notin Range(lru'.list) /\ held'[e] = held[e]
    BY <1>3, <1>6
  <2>4. CASE refs[e] = 1
    <3>1. e \in doomed' /\ held'[e] = 0 /\ refs'[e] = 0
      BY <1>2, <1>3, <1>5, <2>4
    <3>2. CountedOK(e)'
      <4>1. ~inCache'[e] /\ e \notin OnList'
        BY <1>5, <2>3, Zenon DEF OnList
      <4>2. DoomedOK(e)'
        BY <2>2, <3>1, <4>1, Zenon DEF DoomedOK
      <4> QED
        BY <2>2, <2>3, <3>1, <4>1, <4>2, OutCounted, Zenon
    <3> QED
      BY <1>1, <1>6, <1>7, <2>1, <3>2, OthersKept1, Zenon
  <2>5. CASE refs[e] # 1
    <3>1. e \in heap' \ doomed' /\ refs'[e] = held'[e] /\ refs'[e] > 0
      BY <1>1, <1>2, <1>3, <1>5, <2>5
    <3>2. EntryOK(e)'
      BY <1>2, <1>5, <2>2, <2>3, <3>1 DEF EntryOK
    <3>3. CountedOK(e)'
      BY <1>5, <2>2, <2>3, <3>1, <3>2, Zenon DEF CountedOK, OnList
    <3> QED
      BY <1>1, <1>6, <1>7, <2>1, <3>3, OthersKept1, Zenon
  <2> QED
    BY <2>4, <2>5
<1>9. AccountsOK'
  <2>1. CASE refs[e] = 1
    <3> DEFINE live == heap \ doomed
    <3>1. live \in SUBSET Handle /\ {e} \in SUBSET live /\ heap' \ doomed' = live \ {e}
      BY <1>1, <1>3, <2>1 DEF IInv, TypeOK
    <3>2. /\ Charge[live \ {e}] = Charge[live] - Charge[{e}]
          /\ Charge[live] \in Nat /\ Charge[{e}] \in Nat
      BY <3>1, ChargeMinus, Zenon
    <3>3. usage_' = Charge[heap' \ doomed']
      BY <1>1, <1>3, <2>1, <3>1, <3>2, Zenon DEF IInv, AccountsOK, charge
    <3>4. usage_ \in Int /\ usage_' \in Int /\ usage_' <= usage_ /\ capacity_ \in Int
      BY <1>1, <1>3, <2>1, <3>2 DEF IInv, AccountsOK, charge, TypeOK
    <3>5. ~(usage_ > capacity_)
      BY <1>1, <1>4, <2>1, EmptyList DEF IInv, AccountsOK
    <3> QED
      BY <1>3, <1>6, <3>3, <3>4, <3>5 DEF AccountsOK
  <2>2. CASE refs[e] # 1
    BY <1>1, <1>3, <2>2, Zenon DEF IInv, AccountsOK
  <2> QED
    BY <2>1, <2>2
<1> QED
  BY <1>7, <1>8, <1>9 DEF IInv

\* Freeing an entry disturbs nothing that is still in use.
LEMMA FreeInv ==
  ASSUME IInv, NEW e \in Handle, Free(e)
  PROVE  IInv'
<1> USE DEF config
<1>1. e \in doomed /\ e \in heap
  BY DEF Free, IInv, TypeOK
<1>2. alive /\ alive' /\ SoundList(lru)
  BY <1>1, OnListFacts, Zenon DEF Free, IInv, RefsAreCounted, TypeOK
<1>3. /\ doomed' = doomed \ {e} /\ heap' = heap \ {e}
      /\ key' = [x \in Handle |-> IF x \in {e} THEN None ELSE key[x]]
      /\ refs' = [x \in Handle |-> IF x \in {e} THEN 0 ELSE refs[x]]
      /\ inCache' = [x \in Handle |-> inCache[x] /\ x \notin {e}]
      /\ lru' = [lru EXCEPT !.inPool = @ \ {e}]
      /\ UNCHANGED <<capacity_, usage_, table_, held>>
  BY DEF Free, Freed
<1>4. e \notin OnList /\ held[e] = 0 /\ \A k \in Key : table_[k] # e
  <2>1. e \notin OnList
    BY <1>1, <1>2, OnListFacts, Zenon
  <2>2. held[e] = 0
    BY <1>1 DEF IInv, TypeOK, RefsAreCounted
  <2>3. \A k \in Key : table_[k] # e
    BY <1>1, ShardAssumption DEF IInv, RefsAreCounted
  <2> QED
    BY <2>1, <2>2, <2>3, Zenon
<1>5. SoundList(lru') /\ lru'.list = lru.list
  <2> DEFINE P == lru.inPool \ {e}
  <2>1. P \in SUBSET Handle /\ \A x \in Range(lru.list) : x \in P <=> x \in lru.inPool
    BY <1>2, <1>4, Zenon DEF SoundList, ListType, OnList
  <2>2. lru' = [lru EXCEPT !.inPool = P]
    BY <1>3
  <2> HIDE DEF P
  <2> QED
    BY <1>2, <2>1, <2>2, FlagFacts
<1>6. TypeOK'
  BY <1>2, <1>3 DEF IInv, TypeOK
<1>7. RefsAreCounted'
  <2>1. \A x \in Handle \ {e} : Kept(x)
    <3> TAKE x \in Handle \ {e}
    <3>1. refs'[x] = refs[x] /\ inCache'[x] = inCache[x] /\ key'[x] = key[x]
      BY <1>3 DEF IInv, TypeOK
    <3> QED
      BY <1>3, <1>5, <3>1 DEF OnList, Kept
  <2>2. e \notin heap' /\ e \notin doomed' /\ held'[e] = 0 /\ e \notin Range(lru'.list)
        /\ \A k \in Key : table_'[k] # e
    BY <1>3, <1>4, <1>5 DEF OnList
  <2>3. CountedOK(e)'
    BY <2>2, OutCounted, Zenon
  <2> QED
    BY <1>2, <1>5, <1>6, <2>1, <2>3, OthersKept1
<1>8. AccountsOK'
  <2>1. heap' \ doomed' = heap \ doomed
    BY <1>1, <1>3, Zenon
  <2> QED
    BY <1>2, <1>3, <1>5, <2>1, Zenon DEF IInv, AccountsOK
<1> QED
  BY <1>6, <1>7, <1>8 DEF IInv

\* The destructor frees every entry there is.
LEMMA DestroyInv ==
  ASSUME IInv, Destroy
  PROVE  IInv' /\ heap' = {}
<1> USE DEF config
<1> DEFINE S == {table_[k] : k \in {k \in Key : table_[k] # None /\ refs[table_[k]] = 1}}
<1>1. ASSUME NEW e \in heap
      PROVE  e \in S
  <2>1. e \in heap \ doomed /\ held[e] = 0
    BY DEF Destroy, IInv, TypeOK
  <2>2. inCache[e] /\ refs[e] = 1
    BY <2>1, LiveFacts
  <2>3. key[e] \in Key /\ table_[key[e]] = e /\ e # None
    BY <2>1, <2>2, LiveFacts
  <2> QED
    BY <2>2, <2>3
<1> HIDE DEF S
<1>2. /\ heap' = heap \ S /\ doomed' = doomed /\ doomed = {} /\ alive' = FALSE
      /\ key' = [e \in Handle |-> IF e \in S THEN None ELSE key[e]]
      /\ refs' = [e \in Handle |-> IF e \in S THEN 0 ELSE refs[e]]
      /\ inCache' = [e \in Handle |-> inCache[e] /\ e \notin S]
      /\ table_' = [k \in Key |-> None]
      /\ UNCHANGED <<capacity_, held>>
      /\ \A e \in Handle : held[e] = 0
  BY Zenon DEF Destroy, Freed, S
<1>3. heap' = {}
  BY <1>1, <1>2
<1>4. TypeOK'
  <2>1. /\ key' \in [Handle -> Key \cup {None}] /\ table_' \in [Key -> Handle \cup {None}]
        /\ inCache' \in [Handle -> BOOLEAN] /\ refs' \in [Handle -> Int]
    BY <1>2 DEF IInv, TypeOK
  <2>2. doomed' \in SUBSET heap' /\ heap' \in SUBSET Handle /\ alive' \in BOOLEAN
    BY <1>2, <1>3, Zenon
  <2>3. capacity_' \in Nat /\ held' \in [Handle -> Nat]
    BY <1>2 DEF IInv, TypeOK
  <2> QED
    BY <2>1, <2>2, <2>3 DEF TypeOK
<1>5. RefsAreCounted'
  <2>1. doomed' = {} /\ heap' = {} /\ ~alive'
    BY <1>2, <1>3
  <2>2. \A e \in Handle : ~(held'[e] > 0)
    BY <1>2
  <2>3. \A k \in Key : table_'[k] = None
    BY <1>2
  <2> QED
    BY <2>1, <2>2, <2>3, Zenon DEF RefsAreCounted
<1> QED
  BY <1>2, <1>3, <1>4, <1>5 DEF IInv

-----------------------------------------------------------------------------
(* Insert.                                                                 *)

\* An insertion that fails has only evicted.
LEMMA InsertIncompleteInv ==
  ASSUME IInv, alive, NEW e \in Handle, NEW n \in 0..Len(lru.list),
         Evicts(n, charge(e), capacity_), InsertIncomplete(e, n)
  PROVE  IInv'
<1>1. EvictStep(n) /\ capacity_' = capacity_
  BY Zenon DEF InsertIncomplete, EvictStep, config
<1>2. capacity_' \in Nat
  BY <1>1 DEF IInv, TypeOK
<1>3. usage_' > capacity_' => n = Len(lru.list)
  <2>1. usage_' = usage_ - Charge[Oldest(n)]
    BY <1>1 DEF EvictStep
  <2>2. usage_ - Charge[Oldest(n)] \in Int /\ charge(e) \in Nat
    <3>1. OnList \in SUBSET Handle /\ Oldest(n) \in SUBSET OnList
      BY <1>1, OnListFacts, EvictedFacts, ZenonT(30)
    <3>2. heap \ doomed \in SUBSET Handle /\ usage_ = Charge[heap \ doomed]
      BY Zenon DEF IInv, AccountsOK, TypeOK
    <3>3. {e} \in SUBSET Handle
      OBVIOUS
    <3> QED
      BY <3>1, <3>2, <3>3, ShardAssumption DEF charge
  <2> QED
    BY <1>1, <1>2, <2>1, <2>2 DEF Evicts
<1> QED
  BY <1>1, <1>2, <1>3, EvictStepInv

\* What is known of the evicted entries, and of a new entry, before the insertion.
LEMMA BeforeInsert ==
  ASSUME IInv, alive, NEW e \in Handle, e \notin heap, NEW n \in 0..Len(lru.list)
  PROVE  /\ e \notin OnList /\ held[e] = 0 /\ \A j \in Key : table_[j] # e
         /\ Oldest(n) \in SUBSET OnList /\ Oldest(n) \in SUBSET (heap \ doomed)
         /\ \A x \in Oldest(n) : refs[x] = 1 /\ held[x] = 0 /\ x # None
         /\ SoundList(Evicted(n)) /\ Range(Evicted(n).list) = OnList \ Oldest(n)
         /\ heap \ doomed \in SUBSET Handle /\ usage_ = Charge[heap \ doomed]
         /\ capacity_ \in Nat
<1>1. /\ OnList \in SUBSET (heap \ doomed)
      /\ \A x \in OnList : refs[x] = 1 /\ held[x] = 0
      /\ SoundList(lru) /\ heap \ doomed \in SUBSET Handle
  BY OnListFacts
<1>2. /\ Oldest(n) \in SUBSET OnList
      /\ SoundList(Evicted(n)) /\ Range(Evicted(n).list) = OnList \ Oldest(n)
  BY <1>1, EvictedFacts
<1>3. held[e] = 0
  BY DEF IInv, TypeOK, RefsAreCounted
<1>4. \A j \in Key : table_[j] # e
  BY ShardAssumption DEF IInv, TypeOK, RefsAreCounted
<1>5. usage_ = Charge[heap \ doomed] /\ capacity_ \in Nat
  BY DEF IInv, AccountsOK, TypeOK
<1>6. \A x \in Oldest(n) : x # None
  BY <1>1, <1>2, ShardAssumption, Zenon
<1> QED
  BY <1>1, <1>2, <1>3, <1>4, <1>5, <1>6, Zenon

\* An insertion that is not kept has evicted, and frees what it allocated.
LEMMA InsertNotKeptInv ==
  ASSUME IInv, alive, NEW e \in Handle, e \notin heap, NEW k \in Key,
         NEW n \in 0..Len(lru.list),
         Evicts(n, charge(e), capacity_), InsertNotKept(e, k, n)
  PROVE  IInv'
<1> USE DEF config
<1>1. PICK O : O = Oldest(n)
  BY Zenon
<1> DEFINE live == heap \ doomed
<1>2. /\ e \notin OnList /\ held[e] = 0 /\ \A j \in Key : table_[j] # e
      /\ O \in SUBSET OnList /\ O \in SUBSET live
      /\ \A x \in O : refs[x] = 1 /\ held[x] = 0 /\ x # None
      /\ SoundList(Evicted(n)) /\ Range(Evicted(n).list) = OnList \ O
      /\ live \in SUBSET Handle /\ usage_ = Charge[live] /\ capacity_ \in Nat
  BY <1>1, BeforeInsert, Zenon
<1>3. /\ lru' = Evicted(n)
      /\ usage_' = usage_ - Charge[O]
      /\ table_' = [j \in Key |-> IF table_[j] \in O THEN None ELSE table_[j]]
      /\ refs' = [x \in Handle |-> IF x = e THEN 1
                                   ELSE IF x \in O THEN refs[x] - 1 ELSE refs[x]]
      /\ inCache' = [x \in Handle |-> x = e \/ (inCache[x] /\ x \notin O)]
      /\ key' = [key EXCEPT ![e] = k]
      /\ heap' = heap \cup {e}
      /\ doomed' = doomed \cup O \cup {e}
      /\ UNCHANGED <<capacity_, held, alive>>
  BY <1>1, Zenon DEF InsertNotKept, TableWithout
<1>4. heap' \ doomed' = live \ O /\ alive'
  BY <1>2, <1>3, Zenon
<1>5. SoundList(lru') /\ Range(lru'.list) = OnList \ O
  BY <1>2, <1>3, Zenon
<1>6. TypeOK'
  <2>1. doomed' \in SUBSET heap' /\ heap' \in SUBSET Handle
    BY <1>2, <1>3, Zenon DEF IInv, TypeOK
  <2>2. /\ key' \in [Handle -> Key \cup {None}] /\ table_' \in [Key -> Handle \cup {None}]
        /\ inCache' \in [Handle -> BOOLEAN]
    BY <1>3, Zenon DEF IInv, TypeOK
  <2>3. refs' \in [Handle -> Int]
    BY <1>3 DEF IInv, TypeOK
  <2> QED
    BY <1>2, <1>3, <2>1, <2>2, <2>3, Zenon DEF IInv, TypeOK
<1>7. RefsAreCounted'
  <2> DEFINE S == O \cup {e}
  <2>1. \A x \in Handle \ S : Kept(x)
    <3> TAKE x \in Handle \ S
    <3>1. refs'[x] = refs[x] /\ key'[x] = key[x]
      BY <1>3, Zenon DEF IInv, TypeOK
    <3>2. inCache'[x] = inCache[x]
      BY <1>3 DEF IInv, TypeOK
    <3>3. \A j \in Key : table_'[j] = x <=> table_[j] = x
      BY <1>3, ShardAssumption, Zenon
    <3> QED
      BY <1>3, <1>5, <3>1, <3>2, <3>3, Zenon DEF OnList, Kept
  <2>2. ASSUME NEW x \in O
        PROVE  CountedOK(x)'
    <3>1. x \in Handle /\ x # e /\ x \in doomed' /\ held'[x] = 0 /\ x \notin Range(lru'.list)
      BY <1>2, <1>3, <1>5, ZenonT(30)
    <3>2. refs'[x] = 0
      <4>1. refs'[x] = refs[x] - 1 /\ refs[x] = 1
        BY <1>2, <1>3, <3>1, ZenonT(30)
      <4> QED
        BY <4>1
    <3>3. ~inCache'[x]
      BY <1>3, <3>1, Zenon
    <3>4. \A j \in Key : table_'[j] # x
      BY <1>2, <1>3, Zenon
    <3> QED
      BY <3>1, <3>2, <3>3, <3>4, OutCounted, Zenon DEF DoomedOK
  <2>3. CountedOK(e)'
    <3>1. e \in doomed' /\ held'[e] = 0 /\ e \notin Range(lru'.list) /\ refs'[e] = 1
      BY <1>2, <1>3, <1>5, Zenon
    <3>2. inCache'[e]
      BY <1>3, Zenon
    <3>3. \A j \in Key : table_'[j] # e
      BY <1>2, <1>3, ShardAssumption, Zenon
    <3> QED
      BY <3>1, <3>2, <3>3, OutCounted, Zenon DEF DoomedOK
  <2>4. \A x \in Handle \cap S : CountedOK(x)'
    BY <2>2, <2>3
  <2> HIDE DEF S
  <2> QED
    BY <1>4, <1>5, <1>6, <2>1, <2>4, OthersKept, Zenon
<1>8. AccountsOK'
  <2>1. /\ Charge[live \ O] = Charge[live] - Charge[O]
        /\ Charge[live] \in Nat /\ Charge[O] \in Nat
    BY <1>2, ChargeMinus, Zenon
  <2>2. usage_' = Charge[heap' \ doomed']
    BY <1>2, <1>3, <1>4, <2>1, ZenonT(30)
  <2>3. usage_' > capacity_' => lru'.list = <<>>
    <3>1. charge(e) \in Nat
      BY <1>2, ChargePlus, Zenon DEF IInv, TypeOK
    <3>2. n = Len(lru.list) \/ ~(usage_' > capacity_')
      BY <1>1, <1>2, <1>3, <2>1, <3>1 DEF Evicts
    <3>3. n = Len(lru.list) => lru'.list = <<>>
      BY <1>3, EvictedFacts, OnListFacts, Zenon
    <3> QED
      BY <3>2, <3>3, Zenon
  <2> QED
    BY <1>5, <2>2, <2>3 DEF AccountsOK
<1> QED
  BY <1>6, <1>7, <1>8 DEF IInv

\* A new entry takes the place of the old one of its key.  When the limit is strict,
\* or the client wants no handle, it fits.
LEMMA InsertKeptInv ==
  ASSUME IInv, alive, NEW e \in Handle, e \notin heap, NEW k \in Key,
         NEW n \in 0..Len(lru.list), NEW wantHandle \in BOOLEAN, NEW isHighPri \in BOOLEAN,
         Evicts(n, charge(e), capacity_), InsertKept(e, k, n, wantHandle, isHighPri)
  PROVE  IInv' /\ (strict_capacity_limit_ => usage_' <= capacity_)
<1> USE DEF config
<1>1. PICK O : O = Oldest(n)
  BY Zenon
<1>2. PICK old : old = TableWithout(O)[k]
  BY Zenon
<1> DEFINE live == heap \ doomed
           gone == IF old # None /\ refs[old] = 1 THEN O \cup {old} ELSE O
           list == IF old # None /\ refs[old] = 1 THEN LRU_Remove(Evicted(n), old)
                   ELSE Evicted(n)
<1>3. /\ e \notin OnList /\ held[e] = 0 /\ \A j \in Key : table_[j] # e
      /\ O \in SUBSET OnList /\ O \in SUBSET live
      /\ \A x \in O : refs[x] = 1 /\ held[x] = 0 /\ x # None
      /\ SoundList(Evicted(n)) /\ Range(Evicted(n).list) = OnList \ O
      /\ live \in SUBSET Handle /\ usage_ = Charge[live] /\ capacity_ \in Nat
  BY <1>1, BeforeInsert, Zenon
<1>4. /\ ~Full(e, n, wantHandle)
      /\ table_' = [TableWithout(O) EXCEPT ![k] = e]
      /\ usage_' = usage_ - Charge[gone] + charge(e)
      /\ refs' = [x \in Handle |->
                    IF x = e THEN (IF wantHandle THEN 2 ELSE 1)
                    ELSE IF x \in O \cup {old} THEN refs[x] - 1 ELSE refs[x]]
      /\ inCache' = [x \in Handle |-> x = e \/ (inCache[x] /\ x \notin O \cup {old})]
      /\ key' = [key EXCEPT ![e] = k]
      /\ heap' = heap \cup {e}
      /\ doomed' = doomed \cup gone
      /\ held' = [held EXCEPT ![e] = IF wantHandle THEN 1 ELSE 0]
      /\ IF wantHandle
         THEN lru' \in {list, [list EXCEPT !.inPool = @ \cup {e}]}
         ELSE LRU_Insert(list, e, isHighPri)
      /\ UNCHANGED <<capacity_, alive>>
  BY <1>1, <1>2, Zenon DEF InsertKept
<1>5. \A j \in Key : table_'[j] = IF j = k THEN e
                                  ELSE IF table_[j] \in O THEN None ELSE table_[j]
  BY <1>4 DEF TableWithout
<1>6. ASSUME old # None
      PROVE  /\ old \in live \ O /\ old # e /\ old \in Handle
             /\ refs[old] \in Int /\ held[old] \in Nat /\ refs[old] = held[old] + 1
             /\ old \in OnList <=> refs[old] = 1
             /\ \A j \in Key : table_[j] = old => j = k
  <2>1. old = table_[k] /\ old \notin O
    BY <1>2, <1>6 DEF TableWithout
  <2>2. old \in live
    BY <1>6, <2>1, Zenon DEF IInv, RefsAreCounted
  <2>3. inCache[old] /\ key[old] = k
    BY <2>1, <2>2, LiveFacts, ZenonT(30)
  <2>4. \A j \in Key : table_[j] = old => j = k
    BY <2>2, <2>3, LiveFacts, ZenonT(30)
  <2>5. refs[old] \in Int /\ held[old] \in Nat /\ refs[old] = held[old] + 1
    BY <2>2, <2>3, LiveFacts, Zenon
  <2>6. old \in OnList <=> refs[old] = 1
    BY <2>2, <2>3, OnListFacts, ZenonT(30)
  <2> QED
    BY <1>3, <2>1, <2>2, <2>4, <2>5, <2>6, Zenon
<1>7. gone \in SUBSET live /\ O \in SUBSET gone
  BY <1>3, <1>6, Zenon
<1>8. SoundList(list) /\ Range(list.list) = OnList \ (O \cup {old})
  <2>1. CASE old # None /\ refs[old] = 1
    <3>1. old \in Range(Evicted(n).list)
      BY <1>3, <1>6, <2>1, Zenon
    <3>2. list = LRU_Remove(Evicted(n), old)
      BY <2>1, Zenon
    <3> HIDE DEF list
    <3>3. SoundList(list) /\ Range(list.list) = (OnList \ O) \ {old}
      BY <1>3, <3>1, <3>2, LRU_RemoveFacts
    <3> QED
      BY <3>3
  <2>2. CASE ~(old # None /\ refs[old] = 1)
    <3>1. old \notin OnList
      BY <1>6, <2>2, OnListFacts, ShardAssumption, Zenon
    <3>2. list = Evicted(n)
      BY <2>2, Zenon
    <3> QED
      BY <1>3, <3>1, <3>2, Zenon
  <2> QED
    BY <2>1, <2>2
<1> HIDE DEF list, gone
<1>9. /\ SoundList(lru')
      /\ \A x \in Handle : x \in Range(lru'.list) <=>
           x \in OnList \ (O \cup {old}) \/ (x = e /\ ~wantHandle)
      /\ wantHandle => lru'.list = list.list
  <2>1. CASE wantHandle
    <3>1. CASE lru' = list
      BY <1>3, <1>8, <2>1, <3>1, Zenon
    <3>2. CASE lru' = [list EXCEPT !.inPool = @ \cup {e}]
      <4> DEFINE P == list.inPool \cup {e}
      <4>1. P \in SUBSET Handle /\ \A x \in Range(list.list) : x \in P <=> x \in list.inPool
        BY <1>3, <1>8, Zenon DEF SoundList, ListType
      <4>2. lru' = [list EXCEPT !.inPool = P]
        BY <3>2
      <4> HIDE DEF P
      <4>3. SoundList(lru') /\ lru'.list = list.list
        BY <1>8, <4>1, <4>2, FlagFacts, Zenon
      <4> QED
        BY <1>3, <1>8, <2>1, <4>3
    <3> QED
      BY <1>4, <2>1, <3>1, <3>2
  <2>2. CASE ~wantHandle
    <3>1. LRU_Insert(list, e, isHighPri) /\ e \notin Range(list.list)
      BY <1>3, <1>4, <1>8, <2>2, Zenon
    <3>2. SoundList(lru') /\ Range(lru'.list) = Range(list.list) \cup {e}
      BY <1>8, <3>1, LRU_InsertFacts
    <3> QED
      BY <1>8, <2>2, <3>2
  <2> QED
    BY <2>1, <2>2
<1>10. heap' \ doomed' = (live \ gone) \cup {e} /\ alive' /\ e \notin live
  BY <1>4, <1>7 DEF IInv, TypeOK
<1>11. TypeOK'
  <2>1. doomed' \in SUBSET heap' /\ heap' \in SUBSET Handle
    BY <1>4, <1>7 DEF IInv, TypeOK
  <2>2. /\ key' \in [Handle -> Key \cup {None}] /\ table_' \in [Key -> Handle \cup {None}]
        /\ inCache' \in [Handle -> BOOLEAN]
    BY <1>4 DEF IInv, TypeOK, TableWithout
  <2>3. refs' \in [Handle -> Int]
    BY <1>4 DEF IInv, TypeOK
  <2>4. held' \in [Handle -> Nat]
    BY <1>4 DEF IInv, TypeOK
  <2> QED
    BY <1>3, <1>4, <2>1, <2>2, <2>3, <2>4 DEF IInv, TypeOK
<1>12. RefsAreCounted'
  <2> DEFINE S == O \cup {old, e}
  <2>1. \A x \in Handle \ S : Kept(x)
    <3> TAKE x \in Handle \ S
    <3>1. refs'[x] = refs[x] /\ key'[x] = key[x] /\ held'[x] = held[x]
      BY <1>4 DEF IInv, TypeOK
    <3>2. inCache'[x] = inCache[x]
      BY <1>4 DEF IInv, TypeOK
    <3>3. \A j \in Key : table_'[j] = x <=> table_[j] = x
      <4> TAKE j \in Key
      <4>1. CASE j = k
        <5>1. table_'[j] = e /\ x # e
          BY <1>5, <4>1
        <5>2. table_[k] # x
          <6>1. CASE table_[k] \in O
            BY <6>1
          <6>2. CASE table_[k] \notin O
            BY <1>2, <6>2, Zenon DEF TableWithout
          <6> QED
            BY <6>1, <6>2
        <5> QED
          BY <4>1, <5>1, <5>2, Zenon
      <4>2. CASE j # k
        BY <1>5, <4>2, ShardAssumption
      <4> QED
        BY <4>1, <4>2, Zenon
    <3>4. (x \in heap' <=> x \in heap) /\ (x \in doomed' <=> x \in doomed)
      BY <1>4 DEF gone
    <3>5. x \in Range(lru'.list) <=> x \in OnList
      BY <1>9, Zenon
    <3> QED
      BY <3>1, <3>2, <3>3, <3>4, <3>5 DEF OnList, Kept
  <2>2. ASSUME NEW x \in O
        PROVE  CountedOK(x)'
    <3>1. x \in Handle /\ x # e /\ x \in doomed' /\ x \notin Range(lru'.list)
      BY <1>3, <1>4, <1>7, <1>9
    <3>2. refs'[x] = 0 /\ held'[x] = 0
      BY <1>3, <1>4, <3>1 DEF IInv, TypeOK
    <3>3. ~inCache'[x]
      BY <1>4, <3>1, Zenon
    <3>4. \A j \in Key : table_'[j] # x
      BY <1>3, <1>5, <3>1, ZenonT(30)
    <3> QED
      BY <3>1, <3>2, <3>3, <3>4, OutCounted, Zenon DEF DoomedOK
  <2>3. CountedOK(e)'
    <3>1. e \in heap' \ doomed'
      BY <1>10
    <3>2. refs'[e] = (IF wantHandle THEN 2 ELSE 1) /\ key'[e] = k
      BY <1>4 DEF IInv, TypeOK
    <3>3. held'[e] = IF wantHandle THEN 1 ELSE 0
      BY <1>4 DEF IInv, TypeOK
    <3>4. inCache'[e]
      BY <1>4, Zenon
    <3>5. table_'[k] = e /\ \A j \in Key : table_'[j] = e => j = k
      BY <1>3, <1>5, ShardAssumption, ZenonT(30)
    <3>6. EntryOK(e)'
      <4>1. refs'[e] = held'[e] + 1 /\ refs'[e] > 0
        BY <3>2, <3>3
      <4> QED
        BY <3>2, <3>4, <3>5, <4>1, Zenon DEF EntryOK
    <3>7. e \in Range(lru'.list) <=> refs'[e] = 1
      BY <1>3, <1>9, <3>2
    <3> QED
      BY <3>1, <3>2, <3>4, <3>5, <3>6, <3>7, LiveCounted, Zenon
  <2>4. ASSUME old # None
        PROVE  CountedOK(old)'
    <3>1. refs'[old] = refs[old] - 1 /\ held'[old] = held[old]
      BY <1>4, <1>6, <2>4 DEF IInv, TypeOK
    <3>2. ~inCache'[old]
      <4>1. old \in Handle /\ old # e
        BY <1>6, <2>4, Zenon
      <4> QED
        BY <1>4, <4>1, Zenon
    <3>3. \A j \in Key : table_'[j] # old
      BY <1>5, <1>6, <2>4
    <3>4. old \notin Range(lru'.list)
      BY <1>6, <1>9, <2>4, ZenonT(30)
    <3>5. CASE refs[old] = 1
      <4>1. old \in doomed' /\ refs'[old] = 0 /\ held'[old] = 0
        BY <1>4, <1>6, <2>4, <3>1, <3>5 DEF gone
      <4> QED
        BY <3>2, <3>3, <3>4, <4>1, OutCounted, Zenon DEF DoomedOK
    <3>6. CASE refs[old] # 1
      <4>1. old \in heap' \ doomed' /\ refs'[old] = held'[old] /\ refs'[old] > 0
        <5>1. old \notin gone
          BY <1>6, <2>4, <3>6, Zenon DEF gone
        <5>2. old \in heap' \ doomed'
          BY <1>4, <1>6, <2>4, <5>1, ZenonT(30)
        <5>3. /\ refs[old] \in Int /\ held[old] \in Nat /\ refs[old] = held[old] + 1
              /\ refs[old] # 1
          BY <1>6, <2>4, <3>6, Zenon
        <5>4. refs'[old] = held'[old] /\ refs'[old] > 0
          BY <3>1, <5>3, OneLess, Zenon
        <5> QED
          BY <5>2, <5>4, Zenon
      <4>2. EntryOK(old)'
        BY <1>6, <2>4, <3>1, <3>2, <3>3, <4>1 DEF EntryOK
      <4> QED
        BY <3>2, <3>3, <3>4, <4>1, <4>2, LiveCounted, Zenon
    <3> QED
      BY <3>5, <3>6
  <2>5. \A x \in Handle \cap S : CountedOK(x)'
    BY <2>2, <2>3, <2>4, ShardAssumption
  <2> HIDE DEF S
  <2> QED
    BY <1>9, <1>10, <1>11, <2>1, <2>5, OthersKept, ZenonT(30)
<1>13. /\ Charge[live] \in Nat /\ Charge[gone] \in Nat /\ Charge[O] \in Nat
       /\ Charge[O] <= Charge[gone] /\ charge(e) \in Nat
       /\ usage_' = Charge[(live \ gone) \cup {e}]
  <2>1. /\ Charge[live \ gone] = Charge[live] - Charge[gone]
        /\ Charge[live] \in Nat /\ Charge[gone] \in Nat
    BY <1>3, <1>7, ChargeMinus, ZenonT(30)
  <2>2. live \ gone \in SUBSET Handle /\ e \notin live \ gone /\ gone \in SUBSET Handle
    BY <1>3, <1>7, <1>10, Zenon
  <2>3. /\ Charge[(live \ gone) \cup {e}] = Charge[live \ gone] + charge(e)
        /\ charge(e) \in Nat
    BY <2>2, ChargePlus, Zenon
  <2>4. /\ Charge[gone \ O] = Charge[gone] - Charge[O]
        /\ Charge[O] \in Nat /\ Charge[gone \ O] \in Nat
    BY <1>7, <2>2, ChargeMinus, Zenon
  <2> QED
    BY <1>3, <1>4, <2>1, <2>3, <2>4
<1>14. ASSUME ~(usage_' <= capacity_)
       PROVE  ~strict_capacity_limit_ /\ lru'.list = <<>>
  <2>1. n = Len(lru.list)
    BY <1>1, <1>3, <1>4, <1>13, <1>14 DEF Evicts
  <2>2. OnList = O /\ Evicted(n).usage = 0
    <3>1. Oldest(n) = OnList
      BY <2>1, EvictedFacts, OnListFacts, ZenonT(30)
    <3>2. Range(Evicted(n).list) = {}
      BY <1>1, <1>3, <3>1, ZenonT(30)
    <3>3. Evicted(n).usage = Charge[Range(Evicted(n).list)]
      BY <1>3, Zenon DEF SoundList
    <3> QED
      BY <1>1, <3>1, <3>2, <3>3, ShardAssumption
  <2>3. (usage_ - Charge[Oldest(n)]) - Evicted(n).usage + charge(e) > capacity_
    BY <1>1, <1>3, <1>4, <1>13, <1>14, <2>2
  <2>4. ~strict_capacity_limit_ /\ wantHandle
    BY <1>4, <2>3, Zenon DEF Full
  <2>5. lru'.list = <<>>
    <3>1. Range(list.list) = {} /\ SoundList(list)
      BY <1>8, <2>2
    <3>2. Len(list.list) = 0 /\ list.list \in Seq(Handle)
      <4>1. Len(list.list) \in Nat /\ list.list \in Seq(Handle)
        BY <3>1, SoundListFacts, Zenon
      <4>2. \A i \in 1..Len(list.list) : list.list[i] \in Range(list.list)
        BY <3>1, SoundListFacts, Zenon
      <4> QED
        BY <3>1, <4>1, <4>2
    <3> QED
      BY <1>9, <2>4, <3>2
  <2> QED
    BY <2>4, <2>5
<1>15. AccountsOK'
  <2>1. usage_' > capacity_' => ~(usage_' <= capacity_)
    BY <1>3, <1>4, <1>13
  <2> QED
    BY <1>9, <1>10, <1>13, <1>14, <2>1, Zenon DEF AccountsOK
<1> QED
  BY <1>11, <1>12, <1>14, <1>15, Zenon DEF IInv

\* Insert, whichever way it goes.
LEMMA InsertInv ==
  ASSUME IInv, NEW e \in Handle, NEW k \in Key, NEW wantHandle \in BOOLEAN,
         NEW isHighPri \in BOOLEAN, Insert(e, k, wantHandle, isHighPri)
  PROVE  IInv'
<1>1. alive /\ e \notin heap
  BY DEF Insert
<1>2. PICK n \in 0..Len(lru.list) :
        /\ Evicts(n, charge(e), capacity_)
        /\ \/ wantHandle /\ InsertIncomplete(e, n)
           \/ ~wantHandle /\ InsertNotKept(e, k, n)
           \/ InsertKept(e, k, n, wantHandle, isHighPri)
  BY DEF Insert
<1>3. CASE InsertIncomplete(e, n)
  BY <1>1, <1>2, <1>3, InsertIncompleteInv
<1>4. CASE InsertNotKept(e, k, n)
  BY <1>1, <1>2, <1>4, InsertNotKeptInv
<1>5. CASE InsertKept(e, k, n, wantHandle, isHighPri)
  BY <1>1, <1>2, <1>5, InsertKeptInv
<1> QED
  BY <1>2, <1>3, <1>4, <1>5

-----------------------------------------------------------------------------
(* The invariant holds.                                                    *)

\* A new shard is empty.
LEMMA InitInv ==
  ASSUME Init
  PROVE  IInv
<1>1. TypeOK
  BY ShardAssumption DEF Init, TypeOK
<1>2. lru \in ListType /\ lru.list = <<>> /\ lru.low_pri = None /\ lru.usage = 0 /\ lru.pool = 0
      /\ lru.inPool = {}
  BY DEF Init, ListType
<1>3. OnList = {}
  BY <1>2, EmptyList
<1>4. SoundList(lru)
  <2>1. DOMAIN lru.list = {} /\ Len(lru.list) = 0
    BY <1>2
  <2>2. IsInjective(lru.list)
    BY <2>1 DEF IsInjective
  <2>3. Range(lru.list) = {}
    BY <1>3 DEF OnList
  <2>4. Charge[{}] = 0 /\ {} \cap lru.inPool = {}
    BY ShardAssumption
  <2>5. lru.usage = Charge[Range(lru.list)] /\ lru.pool = Charge[Range(lru.list) \cap lru.inPool]
    BY <1>2, <2>3, <2>4, Zenon
  <2> QED
    BY <1>2, <2>1, <2>2, <2>5 DEF SoundList
<1>5. RefsAreCounted
  <2>1. IsInjective(lru.list)
    BY <1>4, Zenon DEF SoundList
  <2> QED
    BY <1>3, <2>1 DEF Init, RefsAreCounted
<1>6. AccountsOK
  <2>1. heap \ doomed = {}
    BY DEF Init
  <2> QED
    BY <1>2, <1>4, <2>1, ShardAssumption DEF Init, AccountsOK
<1> QED
  BY <1>1, <1>5, <1>6, Zenon DEF IInv

\* Nothing happens.
LEMMA StutterInv ==
  ASSUME IInv, UNCHANGED vars
  PROVE  IInv'
<1> USE DEF vars, config, fields
<1>1. TypeOK'
  BY DEF IInv, TypeOK
<1>2. RefsAreCounted'
  BY Zenon DEF IInv, RefsAreCounted, OnList
<1>3. alive' => AccountsOK'
  BY Zenon DEF IInv, AccountsOK
<1> QED
  BY <1>1, <1>2, <1>3 DEF IInv

\* Every call keeps the invariant.
LEMMA NextInv ==
  ASSUME IInv, [Next]_vars
  PROVE  IInv'
<1>1. ASSUME NEW c \in Capacity, SetCapacity(c)
      PROVE  IInv'
  BY <1>1, SetCapacityInv
<1>2. ASSUME NEW strict \in BOOLEAN, SetStrictCapacityLimit(strict)
      PROVE  IInv'
  BY <1>2, SetStrictCapacityLimitInv
<1>3. ASSUME NEW ratio \in Ratio, SetHighPriorityPoolRatio(ratio)
      PROVE  IInv'
  BY <1>3, SetHighPriorityPoolRatioInv
<1>4. CASE EraseUnRefEntries
  BY <1>4, EraseUnRefEntriesInv
<1>5. ASSUME NEW k \in Key, Lookup(k)
      PROVE  IInv'
  BY <1>5, LookupInv
<1>6. ASSUME NEW e \in Handle, ReleaseShared(e)
      PROVE  IInv'
  BY <1>6, ReleaseSharedInv
<1>7. ASSUME NEW e \in Handle, ReleaseLast(e)
      PROVE  IInv'
  BY <1>7, ReleaseLastInv
<1>8. ASSUME NEW e \in Handle, ReleaseToCache(e)
      PROVE  IInv'
  BY <1>8, ReleaseToCacheInv
<1>9. ASSUME NEW k \in Key, Erase(k)
      PROVE  IInv'
  BY <1>9, EraseInv
<1>10. ASSUME NEW e \in Handle, NEW k \in Key, NEW wantHandle \in BOOLEAN,
              NEW isHighPri \in BOOLEAN, Insert(e, k, wantHandle, isHighPri)
       PROVE  IInv'
  BY <1>10, InsertInv
<1>11. ASSUME NEW e \in Handle, Free(e)
       PROVE  IInv'
  BY <1>11, FreeInv
<1>12. CASE Destroy
  BY <1>12, DestroyInv
<1>13. CASE UNCHANGED vars
  BY <1>13, StutterInv
<1> QED
  BY <1>1, <1>2, <1>3, <1>4, <1>5, <1>6, <1>7, <1>8, <1>9, <1>10, <1>11, <1>12, <1>13, Zenon
  DEF Next

\* The invariant holds in every state of the shard.
LEMMA Invariance == Spec => []IInv
<1>1. Init => IInv
  BY InitInv
<1>2. IInv /\ [Next]_vars => IInv'
  BY NextInv
<1> QED
  BY <1>1, <1>2, PTL DEF Spec

\* Whatever a shard's clients do, in whatever order their calls get the mutex, the
\* reference count of every entry is the number of handles to it plus one if the
\* table has it, no entry that is about to be freed can be reached, and the list
\* holds exactly the entries that only the table refers to.
THEOREM RefsCorrect == Spec => []RefsAreCounted
<1>1. IInv => RefsAreCounted
  BY DEF IInv
<1> QED
  BY <1>1, Invariance, PTL

-----------------------------------------------------------------------------
(* The accounts.                                                           *)

\* The counters are part of the invariant.
LEMMA AccountsFollow ==
  ASSUME IInv
  PROVE  UsageIsCharged /\ PoolIsTop
<1> SUFFICES ASSUME alive
             PROVE  UsageIsCharged /\ PoolIsTop
  BY DEF UsageIsCharged, PoolIsTop
<1>1. AccountsOK
  BY DEF IInv
<1>2. {e \in heap \ doomed : refs[e] > 0} = heap \ doomed
  BY Zenon DEF IInv, RefsAreCounted
<1>3. UsageIsCharged
  BY <1>1, <1>2, Zenon DEF UsageIsCharged, AccountsOK, SoundList, OnList
<1>4. PoolIsTop
  BY <1>1 DEF PoolIsTop, AccountsOK, SoundList, OnList
<1> QED
  BY <1>3, <1>4

\* Only an insertion that keeps the entry takes the usage up.
LEMMA StrictStep ==
  ASSUME IInv, Next, strict_capacity_limit_, usage_' > usage_
  PROVE  usage_' <= capacity_
<1>1. /\ alive => usage_ \in Nat
      /\ \A e \in Handle : charge(e) \in Nat
  <2>1. \A e \in Handle : {e} \in SUBSET Handle
    OBVIOUS
  <2>2. heap \ doomed \in SUBSET Handle
    BY DEF IInv, TypeOK
  <2> QED
    BY <2>1, <2>2, ShardAssumption DEF IInv, AccountsOK, charge
<1>2. ASSUME alive, NEW n \in 0..Len(lru.list)
      PROVE  ~(usage_ - Charge[Oldest(n)] > usage_)
  <2>1. Oldest(n) \in SUBSET Handle
    BY <1>2, OnListFacts, EvictedFacts
  <2> QED
    BY <1>1, <1>2, <2>1, ShardAssumption
<1>3. ASSUME alive, usage_' = usage_
      PROVE  FALSE
  BY <1>1, <1>3
<1>4. ASSUME alive, NEW e \in Handle, usage_' = usage_ - charge(e)
      PROVE  FALSE
  BY <1>1, <1>4
<1>5. ASSUME NEW c \in Capacity, SetCapacity(c)
      PROVE  FALSE
  BY <1>2, <1>5, Zenon DEF SetCapacity
<1>6. ASSUME NEW strict \in BOOLEAN, SetStrictCapacityLimit(strict)
      PROVE  FALSE
  BY <1>3, <1>6 DEF SetStrictCapacityLimit
<1>7. ASSUME NEW ratio \in Ratio, SetHighPriorityPoolRatio(ratio)
      PROVE  FALSE
  BY <1>3, <1>7 DEF SetHighPriorityPoolRatio
<1>8. ASSUME EraseUnRefEntries
      PROVE  FALSE
  <2> DEFINE n == Len(lru.list)
  <2>1. alive /\ n \in 0..n /\ Oldest(n) = OnList
    <3>1. alive
      BY <1>8, Zenon DEF EraseUnRefEntries
    <3>2. SoundList(lru)
      BY <3>1, Zenon DEF IInv, AccountsOK
    <3>3. n \in 0..n
      BY <3>2, SoundListFacts
    <3> QED
      BY <3>1, <3>2, <3>3, OnListFacts, EvictedFacts
  <2>2. usage_' = usage_ - Charge[Oldest(n)]
    BY <1>8, <2>1 DEF EraseUnRefEntries
  <2> QED
    BY <1>2, <2>1, <2>2, Zenon
<1>9. ASSUME NEW k \in Key, Lookup(k)
      PROVE  FALSE
  BY <1>3, <1>9 DEF Lookup
<1>10. ASSUME NEW e \in Handle, ReleaseShared(e)
       PROVE  FALSE
  BY <1>3, <1>10 DEF ReleaseShared
<1>11. ASSUME NEW e \in Handle, ReleaseLast(e)
       PROVE  FALSE
  BY <1>4, <1>11 DEF ReleaseLast
<1>12. ASSUME NEW e \in Handle, ReleaseToCache(e)
       PROVE  FALSE
  BY <1>3, <1>4, <1>12 DEF ReleaseToCache
<1>13. ASSUME NEW k \in Key, Erase(k)
       PROVE  FALSE
  <2>1. alive /\ table_[k] \in Handle
    BY <1>13 DEF Erase, IInv, TypeOK
  <2>2. usage_' = usage_ \/ usage_' = usage_ - charge(table_[k])
    BY <1>13 DEF Erase
  <2> QED
    BY <1>3, <1>4, <2>1, <2>2, Zenon
<1>14. ASSUME NEW e \in Handle, NEW k \in Key, NEW wantHandle \in BOOLEAN,
              NEW isHighPri \in BOOLEAN, Insert(e, k, wantHandle, isHighPri)
       PROVE  usage_' <= capacity_
  <2>1. alive /\ e \notin heap
    BY <1>14 DEF Insert
  <2>2. PICK n \in 0..Len(lru.list) :
          /\ Evicts(n, charge(e), capacity_)
          /\ \/ wantHandle /\ InsertIncomplete(e, n)
             \/ ~wantHandle /\ InsertNotKept(e, k, n)
             \/ InsertKept(e, k, n, wantHandle, isHighPri)
    BY <1>14 DEF Insert
  <2>3. CASE InsertIncomplete(e, n)
    BY <1>2, <2>1, <2>3 DEF InsertIncomplete
  <2>4. CASE InsertNotKept(e, k, n)
    BY <1>2, <2>1, <2>4, Zenon DEF InsertNotKept
  <2>5. CASE InsertKept(e, k, n, wantHandle, isHighPri)
    BY <2>1, <2>2, <2>5, InsertKeptInv
  <2> QED
    BY <2>2, <2>3, <2>4, <2>5
<1>15. ASSUME NEW e \in Handle, Free(e)
       PROVE  FALSE
  <2>1. alive
    BY <1>15 DEF Free, IInv, RefsAreCounted, TypeOK
  <2> QED
    BY <1>3, <1>15, <2>1, Zenon DEF Free
<1>16. ASSUME Destroy
       PROVE  FALSE
  BY <1>3, <1>16 DEF Destroy
<1> QED
  BY <1>5, <1>6, <1>7, <1>8, <1>9, <1>10, <1>11, <1>12, <1>13, <1>14, <1>15, <1>16, Zenon DEF Next

\* The three usage counters are the charges of the entries they speak of, the
\* entries of the high-priority pool are those after lru_low_pri_, and with a strict
\* limit no call takes the usage beyond the capacity: so GetUsage, EvictFromLRU,
\* MaintainPoolSize and the limit check of Insert never act on a wrong sum.
THEOREM AccountsCorrect == Spec => AccountsAreRight
<1>1. IInv => UsageIsCharged /\ PoolIsTop
  BY AccountsFollow
<1>2. IInv /\ [Next]_vars =>
        [strict_capacity_limit_ /\ usage_' > usage_ => usage_' <= capacity_]_vars
  BY StrictStep
<1> QED
  BY <1>1, <1>2, Invariance, PTL DEF Spec, AccountsAreRight, StrictLimitHolds

-----------------------------------------------------------------------------
(* The shard implements the cache of the interface.                        *)

\* Evicted entries are entries that nobody holds.
LEMMA EvictionDrops ==
  ASSUME IInv, alive, NEW n \in 0..Len(lru.list)
  PROVE  TableWithout(Oldest(n)) \in CI!Dropped
<1> DEFINE D == {k \in Key : table_[k] \in Oldest(n)}
<1>1. \A e \in Oldest(n) : e \in Handle /\ held[e] = 0
  BY OnListFacts, EvictedFacts, Zenon
<1>2. D \in SUBSET {k \in Key : table_[k] \in CI!Unused}
  BY <1>1 DEF CI!Unused
<1>3. TableWithout(Oldest(n)) = [k \in Key |-> IF k \in D THEN None ELSE table_[k]]
  BY DEF TableWithout
<1> QED
  BY <1>2, <1>3, Zenon DEF CI!Dropped

\* An eviction is a drop of unused entries.
LEMMA EvictStepDrops ==
  ASSUME IInv, alive, NEW n \in 0..Len(lru.list), EvictStep(n)
  PROVE  CI!Drop
BY EvictionDrops DEF EvictStep, CI!Drop

\* Release gives up one handle, and drops the entry at most when it was the last.
LEMMA ReleaseImplements ==
  ASSUME IInv, NEW e \in Handle, ReleaseShared(e) \/ ReleaseLast(e) \/ ReleaseToCache(e)
  PROVE  CI!Release(e)
<1>1. CASE ReleaseShared(e)
  BY <1>1, Zenon DEF ReleaseShared, CI!Release
<1>2. CASE ReleaseLast(e)
  BY <1>2 DEF ReleaseLast, CI!Release
<1>3. CASE ReleaseToCache(e)
  <2>1. held[e] > 0 /\ held' = [held EXCEPT ![e] = @ - 1] /\ heap' = heap
        /\ refs[e] = 2 /\ inCache[e]
    BY <1>3, Zenon DEF ReleaseToCache
  <2>2. held[e] = 1
    <3>1. e \in heap \ doomed
      BY <2>1, Zenon DEF IInv, RefsAreCounted
    <3>2. held[e] \in Nat /\ refs[e] = held[e] + (IF inCache[e] THEN 1 ELSE 0)
      BY <3>1, LiveFacts, Zenon
    <3>3. refs[e] = held[e] + 1
      BY <2>1, <3>2, Zenon
    <3> QED
      BY <2>1, <3>2, <3>3
  <2>3. table_' = table_ \/ table_' = [k \in Key |-> IF table_[k] = e THEN None ELSE table_[k]]
    BY <1>3 DEF ReleaseToCache, TableWithout
  <2> QED
    BY <2>1, <2>2, <2>3, Zenon DEF CI!Release
<1> QED
  BY <1>1, <1>2, <1>3, Zenon

\* Insert allocates one entry and puts it in the cache, or only evicts.
LEMMA InsertImplements ==
  ASSUME IInv, NEW e \in Handle, NEW k \in Key, NEW wantHandle \in BOOLEAN,
         NEW isHighPri \in BOOLEAN, Insert(e, k, wantHandle, isHighPri)
  PROVE  CI!Insert(e, k) \/ CI!Drop
<1>1. alive /\ e \notin heap
  BY DEF Insert
<1>2. PICK n \in 0..Len(lru.list) :
        \/ wantHandle /\ InsertIncomplete(e, n)
        \/ ~wantHandle /\ InsertNotKept(e, k, n)
        \/ InsertKept(e, k, n, wantHandle, isHighPri)
  BY DEF Insert
<1>3. TableWithout(Oldest(n)) \in CI!Dropped
  BY <1>1, EvictionDrops, Zenon
<1>4. CASE InsertIncomplete(e, n)
  BY <1>3, <1>4 DEF InsertIncomplete, CI!Drop
<1>5. CASE InsertNotKept(e, k, n)
  BY <1>1, <1>3, <1>5, Zenon DEF InsertNotKept, CI!Insert
<1>6. CASE InsertKept(e, k, n, wantHandle, isHighPri)
  <2>1. /\ table_' = [TableWithout(Oldest(n)) EXCEPT ![k] = e]
        /\ heap' = heap \cup {e}
        /\ held' = [held EXCEPT ![e] = IF wantHandle THEN 1 ELSE 0]
    BY <1>6 DEF InsertKept
  <2>2. CASE wantHandle
    <3>1. held' = [held EXCEPT ![e] = 1]
      BY <2>1, <2>2
    <3> QED
      BY <1>1, <1>3, <2>1, <3>1, Zenon DEF CI!Insert
  <2>3. CASE ~wantHandle
    <3>1. held[e] = 0 /\ held \in [Handle -> Nat]
      BY <1>1, BeforeInsert, Zenon DEF IInv, TypeOK
    <3>2. held' = held
      BY <2>1, <2>3, <3>1
    <3> QED
      BY <1>1, <1>3, <2>1, <3>2, Zenon DEF CI!Insert
  <2> QED
    BY <2>2, <2>3
<1> QED
  BY <1>2, <1>4, <1>5, <1>6

\* What is freed can be reached by nobody.
LEMMA FreeImplements ==
  ASSUME IInv, NEW e \in Handle, Free(e)
  PROVE  CI!Delete(e)
<1>1. e \in heap /\ held[e] = 0 /\ \A k \in Key : table_[k] # e
  BY ShardAssumption DEF Free, IInv, TypeOK, RefsAreCounted
<1> QED
  BY <1>1, Zenon DEF Free, Freed, CI!Delete, CI!Garbage

\* Every step is one of the interface's, or changes nothing a client sees.
LEMMA StepImplements ==
  ASSUME IInv, [Next]_vars
  PROVE  [CI!Next]_(CI!cacheVars)
<1> USE DEF CI!Next, CI!cacheVars
<1>1. ASSUME NEW c \in Capacity, SetCapacity(c)
      PROVE  CI!Drop
  <2>1. PICK n \in 0..Len(lru.list) : EvictStep(n)
    BY <1>1, Zenon DEF SetCapacity, EvictStep
  <2> QED
    BY <1>1, <2>1, EvictStepDrops, Zenon DEF SetCapacity
<1>2. ASSUME NEW strict \in BOOLEAN, SetStrictCapacityLimit(strict)
      PROVE  UNCHANGED <<table_, held, heap>>
  BY <1>2 DEF SetStrictCapacityLimit
<1>3. ASSUME NEW ratio \in Ratio, SetHighPriorityPoolRatio(ratio)
      PROVE  UNCHANGED <<table_, held, heap>>
  BY <1>3 DEF SetHighPriorityPoolRatio
<1>4. ASSUME EraseUnRefEntries
      PROVE  CI!Drop
  <2> DEFINE n == Len(lru.list)
  <2>1. alive /\ n \in 0..n /\ Oldest(n) = OnList
    BY <1>4, OnListFacts, SoundListFacts, EvictedFacts DEF EraseUnRefEntries
  <2>2. EvictStep(n)
    BY <1>4, <2>1, Zenon DEF EraseUnRefEntries, EvictStep
  <2> QED
    BY <2>1, <2>2, EvictStepDrops, Zenon
<1>5. ASSUME NEW k \in Key, Lookup(k)
      PROVE  CI!Lookup(k)
  BY <1>5 DEF Lookup, CI!Lookup
<1>6. ASSUME NEW e \in Handle, ReleaseShared(e) \/ ReleaseLast(e) \/ ReleaseToCache(e)
      PROVE  CI!Release(e)
  BY <1>6, ReleaseImplements
<1>7. ASSUME NEW k \in Key, Erase(k)
      PROVE  CI!Erase(k)
  BY <1>7, Zenon DEF Erase, CI!Erase
<1>8. ASSUME NEW e \in Handle, NEW k \in Key, NEW wantHandle \in BOOLEAN,
             NEW isHighPri \in BOOLEAN, Insert(e, k, wantHandle, isHighPri)
      PROVE  CI!Insert(e, k) \/ CI!Drop
  BY <1>8, InsertImplements
<1>9. ASSUME NEW e \in Handle, Free(e)
      PROVE  CI!Delete(e)
  BY <1>9, FreeImplements
<1>10. ASSUME Destroy
       PROVE  CI!Destroy
  <2>1. heap' = {}
    BY <1>10, DestroyInv
  <2> QED
    BY <1>10, <2>1, Zenon DEF Destroy, IInv, TypeOK, CI!Destroy, CI!Unused
<1>11. ASSUME UNCHANGED vars
       PROVE  UNCHANGED <<table_, held, heap>>
  BY <1>11 DEF vars
<1> QED
  BY <1>1, <1>2, <1>3, <1>4, <1>5, <1>6, <1>7, <1>8, <1>9, <1>10, <1>11, Zenon DEF Next

\* Every step of a shard is a step the cache's interface allows, or none: what a
\* client holds is neither freed nor dropped behind its back, an entry leaves the
\* cache only when it is erased, replaced or unused, and the deleter runs once, on
\* an entry nobody can reach.
THEOREM ImplementsInterface == Spec => CI!Safety
<1>1. Init => CI!Init
  BY DEF Init, CI!Init
<1>2. IInv /\ [Next]_vars => [CI!Next]_(CI!cacheVars)
  BY StepImplements
<1> QED
  BY <1>1, <1>2, Invariance, PTL DEF Spec, CI!Safety

=============================================================================
