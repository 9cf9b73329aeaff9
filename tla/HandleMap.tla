------------------------------- MODULE HandleMap -------------------------------
(***************************************************************************)
(* What LRUHandleTable promises to the cache shard: a map with one handle  *)
(* per key, whose operations return the handle they find.                  *)
(***************************************************************************)
CONSTANTS Handle, Key, KeyOf, Null

VARIABLES
  map,      \* the handle of each key, or Null
  result    \* what the last operation returned

Init ==
  /\ map = [k \in Key |-> Null]
  /\ result = Null

Lookup(k) ==
  /\ result' = map[k]
  /\ UNCHANGED map

Insert(h) ==
  /\ map[KeyOf[h]] # h
  /\ result' = map[KeyOf[h]]
  /\ map' = [map EXCEPT ![KeyOf[h]] = h]

Remove(k) ==
  /\ result' = map[k]
  /\ map' = [map EXCEPT ![k] = Null]

Next ==
  \/ \E k \in Key : Lookup(k)
  \/ \E h \in Handle : Insert(h)
  \/ \E k \in Key : Remove(k)

Spec == Init /\ [][Next]_<<map, result>>
=============================================================================
