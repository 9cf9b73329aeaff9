---------------------------- MODULE LRUHandleTable ----------------------------
(***************************************************************************)
(* LRUHandleTable (rutil/lru_cache.cc): the hash table of a cache shard,   *)
(* an array of buckets, each a list of handles linked by their own         *)
(* next_hash fields.  The shard calls it under its mutex_, so an operation *)
(* is one action.                                                          *)
(***************************************************************************)
EXTENDS Integers, Sequences, FiniteSets, TLC

Seqs == INSTANCE SequencesExt     \* its Remove is not this module's

CONSTANTS
  Handle,      \* the LRUHandles, by address
  Key,
  KeyOf,       \* a handle's key()
  HashOf,      \* the hash of each key; keys may share one
  MinLength,   \* the 16 Resize starts from
  Null

ASSUME TableAssumption ==
  /\ IsFiniteSet(Handle) /\ Null \notin Handle
  /\ KeyOf \in [Handle -> Key]
  /\ HashOf \in [Key -> Nat]
  /\ MinLength \in Nat \ {0}

VARIABLES
  length_,
  elems_,
  list_,       \* the buckets, each the first handle of its list
  next_hash,   \* the field of that name, of the handles in the table; outside
               \* the table nothing reads it
  result       \* what the last operation returned

vars == <<length_, elems_, list_, next_hash, result>>

Hash(h) == HashOf[KeyOf[h]]

\* The handles of the list that starts at h, cut off where it would have more
\* nodes than there are handles.
Chain(next, h) ==
  LET step == (Null :> Null) @@ next
      node[n \in Nat] == IF n = 0 THEN h ELSE step[node[n - 1]]
      nodes == [i \in 1..(Cardinality(Handle) + 1) |-> node[i - 1]]
  IN  SelectSeq(nodes, LAMBDA x : x # Null)

Bucket(b) == Chain(next_hash, list_[b])

\* All handles, in the order of a walk over the buckets
Entries(list, next, length) ==
  Seqs!FlattenSeq([i \in 1..length |-> Chain(next, list[i - 1])])

-----------------------------------------------------------------------------

\* The slot that points to the first matching handle of the bucket, or the
\* trailing slot: the bucket itself, or the next_hash of the handle before.
Slot(b, matching) ==
  LET chain  == Bucket(b)
      before == {i \in DOMAIN chain : \A j \in 1..i : chain[j] \notin matching}
  IN  [bucket |-> b,
       after |-> IF before = {} THEN Null ELSE chain[Cardinality(before)]]

\* Mutant: handles with the same hash are taken for the same key.
FindPointerByHash(key) ==
  Slot(HashOf[key] % length_, {h \in Handle : Hash(h) = HashOf[key]})

FindPointer(key) ==
  Slot(HashOf[key] % length_, {h \in Handle : Hash(h) = HashOf[key] /\ KeyOf[h] = key})

Deref(ptr) == IF ptr.after = Null THEN list_[ptr.bucket] ELSE next_hash[ptr.after]

\* new_length doubles until it is at least elems_ * 1.5
NewLength(elems) ==
  CHOOSE n \in {MinLength * 2^k : k \in 0..elems} :
    /\ 2 * n >= 3 * elems
    /\ \A m \in {MinLength * 2^k : k \in 0..elems} : 2 * m >= 3 * elems => n <= m

\* Mutant: a handle is pushed without the rest of its new list.
PushDropsRest(acc, h) ==
  [acc EXCEPT !.list[Hash(h) % acc.length] = h, !.next[h] = Null]

\* A handle moves to the front of its list in the new array.
Push(acc, h) ==
  LET b == Hash(h) % acc.length
  IN  [acc EXCEPT !.list[b] = h, !.next[h] = acc.list[b]]

Resize(list, next, elems) ==
  LET length == NewLength(elems)
      empty  == [length |-> length, list |-> [b \in 0..(length - 1) |-> Null],
                 next |-> next]
  IN  Seqs!FoldLeft(Push, empty, Entries(list, next, length_))

-----------------------------------------------------------------------------

Init ==
  /\ length_ = MinLength
  /\ elems_ = 0
  /\ list_ = [b \in 0..(MinLength - 1) |-> Null]
  /\ next_hash = [h \in {} |-> Null]
  /\ result = Null

Lookup(key) ==
  /\ result' = Deref(FindPointer(key))
  /\ UNCHANGED <<length_, elems_, list_, next_hash>>

\* *ptr = h, in a table whose next_hash fields are next
Store(ptr, h, next) ==
  IF ptr.after = Null
  THEN [list |-> [list_ EXCEPT ![ptr.bucket] = h], next |-> next]
  ELSE [list |-> list_, next |-> [next EXCEPT ![ptr.after] = h]]

\* The field of every handle but old, which leaves the table
Without(old) == [h \in DOMAIN next_hash \ {old} |-> next_hash[h]]

\* h in the place of *ptr
Linked(h, ptr) ==
  LET old == Deref(ptr)
  IN  Store(ptr, h, (h :> IF old = Null THEN Null ELSE next_hash[old]) @@ Without(old))

\* The shard inserts a handle it has just allocated.
Insert(h) ==
  LET ptr   == FindPointer(KeyOf[h])
      old   == Deref(ptr)
      table == Linked(h, ptr)
      elems == IF old = Null THEN elems_ + 1 ELSE elems_
  IN  /\ h \notin DOMAIN next_hash
      /\ result' = old
      /\ elems_' = elems
      /\ IF old = Null /\ elems > length_
         THEN LET resized == Resize(table.list, table.next, elems)
              IN  /\ length_' = resized.length
                  /\ list_' = resized.list
                  /\ next_hash' = resized.next
         ELSE /\ list_' = table.list
              /\ next_hash' = table.next
              /\ UNCHANGED length_

RemoveNothing(key) ==
  /\ Deref(FindPointer(key)) = Null
  /\ result' = Null
  /\ UNCHANGED <<length_, elems_, list_, next_hash>>

Remove(key) ==
  LET ptr   == FindPointer(key)
      old   == Deref(ptr)
      table == Store(ptr, next_hash[old], Without(old))
  IN  /\ old # Null
      /\ result' = old
      /\ list_' = table.list
      /\ next_hash' = table.next
      /\ elems_' = elems_ - 1
      /\ UNCHANGED length_

Next ==
  \/ \E key \in Key : Lookup(key)
  \/ \E h \in Handle : Insert(h)
  \/ \E key \in Key : RemoveNothing(key)
  \/ \E key \in Key : Remove(key)

Spec == Init /\ [][Next]_vars

-----------------------------------------------------------------------------
(* Properties.                                                             *)

\* The lists stay disjoint, end, lose no handle and hold each in the bucket of its
\* hash, through insertions in the middle, removals and the reversal of Resize;
\* no key has two handles.  elems_ is the number of handles in the lists (Resize
\* asserts it, line 88), and there is a bucket for each ("small average linked list
\* length (<= 1)").
ListsAreSound ==
  LET entries == Entries(list_, next_hash, length_)
  IN  /\ Seqs!IsInjective(entries)
      /\ Seqs!Range(entries) = DOMAIN next_hash
      /\ \A b \in DOMAIN list_ : \A i \in DOMAIN Bucket(b) : Hash(Bucket(b)[i]) % length_ = b
      /\ \A i, j \in DOMAIN entries : KeyOf[entries[i]] = KeyOf[entries[j]] => i = j
      /\ elems_ = Len(entries)
      /\ elems_ <= length_

\* The table as the shard sees it.
Map == INSTANCE HandleMap WITH
         map <- [k \in Key |-> Deref(FindPointer(k))]

\* The table implements the map of handles: whatever the collisions and resizes,
\* an operation on a key finds exactly the handle last inserted under it.
ImplementsMap == Map!Spec
=============================================================================
