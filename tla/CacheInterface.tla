---------------------------- MODULE CacheInterface ----------------------------
(***************************************************************************)
(* What a Cache promises its clients (include/rocksutil/cache.h).  Entries *)
(* nobody holds may disappear at any time.  An entry that is held stays    *)
(* allocated, and stays in the cache until it is erased or replaced.  An   *)
(* entry that is neither held nor in the cache is deleted, once.           *)
(***************************************************************************)
EXTENDS Integers

CONSTANTS Handle, Key, None

VARIABLES
  store,    \* the entry the cache has for each key, or None
  held,     \* how many handles to each entry the clients have
  live      \* the entries whose deleter has not been called yet

cacheVars == <<store, held, live>>

Unused == {e \in Handle : held[e] = 0}

\* store with some of the entries that nobody holds dropped
Dropped == {[k \in Key |-> IF k \in D THEN None ELSE store[k]] :
              D \in SUBSET {k \in Key : store[k] \in Unused}}

Init ==
  /\ store = [k \in Key |-> None]
  /\ held = [e \in Handle |-> 0]
  /\ live = {}

\* With a handle or without; the new entry may be dropped at once only if the
\* client has no handle to it.
Insert(e, k) ==
  /\ e \notin live
  /\ live' = live \cup {e}
  /\ \/ /\ held' = [held EXCEPT ![e] = 1]
        /\ \E s \in Dropped : store' = [s EXCEPT ![k] = e]
     \/ /\ held' = held
        /\ \E s \in Dropped : store' \in {s, [s EXCEPT ![k] = e]}

Lookup(k) ==
  /\ store[k] # None
  /\ held' = [held EXCEPT ![store[k]] = @ + 1]
  /\ UNCHANGED <<store, live>>

Release(e) ==
  /\ held[e] > 0
  /\ held' = [held EXCEPT ![e] = @ - 1]
  /\ store' = store \/
     (held[e] = 1 /\ store' = [k \in Key |-> IF store[k] = e THEN None ELSE store[k]])
  /\ UNCHANGED live

Erase(k) ==
  /\ store' = [store EXCEPT ![k] = None]
  /\ UNCHANGED <<held, live>>

Drop ==
  /\ store' \in Dropped
  /\ UNCHANGED <<held, live>>

Garbage == {e \in live : held[e] = 0 /\ \A k \in Key : store[k] # e}

Delete(e) ==
  /\ e \in Garbage
  /\ live' = live \ {e}
  /\ UNCHANGED <<store, held>>

Destroy ==
  /\ live \subseteq Unused
  /\ store' = [k \in Key |-> None]
  /\ live' = {}
  /\ UNCHANGED held

Next ==
  \/ \E e \in Handle, k \in Key : Insert(e, k)
  \/ \E k \in Key : Lookup(k) \/ Erase(k)
  \/ \E e \in Handle : Release(e) \/ Delete(e)
  \/ Drop
  \/ Destroy

\* What may happen, and that what nobody can reach is deleted in the end
Safety == Init /\ [][Next]_cacheVars

Spec == Safety /\ \A e \in Handle : WF_cacheVars(Delete(e))

=============================================================================
