-------------------------- MODULE ThreadLocalPtrProofs --------------------------
(***************************************************************************)
(* Thread local pointers keep their promises for every set of threads,      *)
(* instances and pointers: an inductive invariant that implies that         *)
(* instances are apart and that nothing leaks.                              *)
(***************************************************************************)
EXTENDS ThreadLocalPtr, TLAPS

-----------------------------------------------------------------------------
(* Thread local pointers. The invariant speaks of what an entry holds,      *)
(* which handler an id has and which threads are in the chain; a first      *)
(* group of lemmas says what the vectors, the map and the chain of an       *)
(* action come to in these terms.                                           *)

Op == {"idle", "Get", "Reset", "CompareAndSwap", "Scrape"}

LocalType ==
  /\ next_instance_id_ \in Nat /\ free_instance_ids_ \in Seq(Nat)
  /\ head_ \in Seq(Thread)
  /\ entries \in [Thread -> Seq(Ptr \cup {Null})]
  /\ state \in [Instance -> {"none", "named", "live", "dead"}] /\ id_ \in [Instance -> Nat]
  /\ call \in [Thread -> [op : Op, i : Instance \cup {Null}, p : Ptr \cup {Null}]]
  /\ scrape \in [i : Instance \cup {Null}, todo : Seq(Thread)]
  /\ scrape.todo # <<>> => scrape.i \in Instance
  /\ out \in [Ptr -> {"mine", "busy", "stored"}]
  /\ by \in [Ptr -> Instance \cup {Null}]
  /\ unref \in [Ptr -> Seq(Instance)]

Owns(i) == state[i] \in {"named", "live"}

\* An id is that of one instance, is free once, or was not given out yet.
IdsAreApart ==
  /\ \A i \in Instance : Owns(i) => id_[i] < next_instance_id_
  /\ \A i, j \in Instance : Owns(i) /\ Owns(j) /\ id_[i] = id_[j] => i = j
  /\ \A k \in 1..Len(free_instance_ids_) :
       /\ free_instance_ids_[k] < next_instance_id_
       /\ \A i \in Instance : Owns(i) => id_[i] # free_instance_ids_[k]
  /\ \A k, l \in 1..Len(free_instance_ids_) : free_instance_ids_[k] = free_instance_ids_[l] => k = l

\* The handler of an id is that of the live instance that has the id.
HandlersAreOwned ==
  \A d \in Nat :
    /\ GetHandler(d) \in Instance \cup {Null}
    /\ \A i \in Instance :
         GetHandler(d) = i <=> state[i] = "live" /\ id_[i] = d /\ i \in HasHandler

\* A thread is in the chain once, and one that is not has no entries.
ChainIsSound ==
  /\ \A k, l \in 1..Len(head_) : head_[k] = head_[l] => k = l
  /\ \A t \in Thread : ~Registered(t) => entries[t] = <<>>

\* A pointer is in one entry, which is that of the live instance it was stored through,
\* and in no call.
EntriesAreOwned ==
  /\ \A t \in Thread, d \in Nat, p \in Ptr : At(t, d) = p =>
       /\ by[p] \in Instance /\ state[by[p]] = "live" /\ id_[by[p]] = d
       /\ out[p] = "stored" /\ unref[p] = <<>>
  /\ \A t, u \in Thread, d, e \in Nat, p \in Ptr :
       At(t, d) = p /\ At(u, e) = p => t = u

\* A call is that of a live instance and has its pointer for itself.
CallsAreOwned ==
  /\ \A t \in Thread : Busy(t) => call[t].i \in Instance /\ state[call[t].i] = "live"
  /\ \A t \in Thread, p \in Ptr : call[t].p = p =>
       Busy(t) /\ out[p] = "busy" /\ unref[p] = <<>>
  /\ \A t, u \in Thread, p \in Ptr : call[t].p = p /\ call[u].p = p => t = u

\* A handler was given what was stored through its instance, once.
HandlersGotTheirs ==
  \A p \in Ptr : unref[p] # <<>> =>
    unref[p] = <<by[p]>> /\ by[p] \in Instance /\ out[p] = "stored"

\* What was stored is in an entry until a handler gets it.
StoredIsKept ==
  \A p \in Ptr : out[p] = "stored" /\ by[p] \in HasHandler /\ unref[p] = <<>> =>
    \E t \in Thread, d \in Nat : At(t, d) = p

LocalInv ==
  /\ LocalType /\ IdsAreApart /\ HandlersAreOwned /\ ChainIsSound
  /\ EntriesAreOwned /\ CallsAreOwned /\ HandlersGotTheirs /\ StoredIsKept

\* A pointer that is in an entry is in no other, and its instance is the entry's.
LEMMA OwnerOfEntry ==
  ASSUME EntriesAreOwned, NEW t \in Thread, NEW d \in Nat, NEW p \in Ptr, At(t, d) = p
  PROVE  /\ by[p] \in Instance /\ state[by[p]] = "live" /\ id_[by[p]] = d
         /\ out[p] = "stored" /\ unref[p] = <<>>
         /\ \A u \in Thread, e \in Nat : At(u, e) = p => u = t
  BY DEF EntriesAreOwned

\* What an entry holds
LEMMA AtType ==
  ASSUME LocalType, NEW t \in Thread, NEW d \in Nat
  PROVE  At(t, d) \in Ptr \cup {Null}
<1>1. entries[t] \in Seq(Ptr \cup {Null})
  BY DEF LocalType
<1>2. CASE d < Len(entries[t])
  <2>1. d + 1 \in 1..Len(entries[t])
    BY <1>1, <1>2
  <2>2. entries[t][d + 1] \in Ptr \cup {Null}
    BY <1>1, <2>1
  <2>3. QED
    BY <1>2, <2>2 DEF At
<1>3. CASE ~(d < Len(entries[t]))
  BY <1>3 DEF At
<1>4. QED
  BY <1>2, <1>3

\* A vector is changed at one position.
WrittenAs(t, id, p) ==
  /\ entries' \in [Thread -> Seq(Ptr \cup {Null})]
  /\ \A u \in Thread : entries[u] = <<>> => entries'[u] = <<>>
  /\ \A u \in Thread, d \in Nat :
       At(u, d)' = IF u = t /\ d = id THEN p ELSE At(u, d)

LEMMA Written ==
  ASSUME LocalType, NEW t \in Thread, NEW id \in Nat, id < Len(entries[t]),
         NEW p \in Ptr \cup {Null}, entries' = [entries EXCEPT ![t][id + 1] = p]
  PROVE  WrittenAs(t, id, p)
<1>1. entries \in [Thread -> Seq(Ptr \cup {Null})]
  BY DEF LocalType
<1>2. entries[t] \in Seq(Ptr \cup {Null}) /\ id + 1 \in 1..Len(entries[t])
  BY <1>1
<1> DEFINE w == [entries[t] EXCEPT ![id + 1] = p]
<1>3. w \in Seq(Ptr \cup {Null}) /\ Len(w) = Len(entries[t])
  BY <1>2
<1>4. entries' = [entries EXCEPT ![t] = w]
  BY Zenon
<1>5. \A d \in Nat : d < Len(w) => w[d + 1] = IF d = id THEN p ELSE entries[t][d + 1]
  BY <1>2, <1>3
<1> HIDE DEF w
<1>6. entries'[t] = w /\ \A u \in Thread : u # t => entries'[u] = entries[u]
  BY <1>1, <1>4
<1>7. entries' \in [Thread -> Seq(Ptr \cup {Null})]
  BY <1>1, <1>3, <1>4
<1>8. ASSUME NEW u \in Thread, entries[u] = <<>> PROVE entries'[u] = <<>>
  <2>1. u # t
    BY <1>8, <1>2
  <2>2. QED
    BY <2>1, <1>6, <1>8
<1>9. ASSUME NEW d \in Nat PROVE At(t, d)' = IF d = id THEN p ELSE At(t, d)
  BY <1>3, <1>5, <1>6 DEF At
<1>10. ASSUME NEW u \in Thread, NEW d \in Nat, u # t PROVE At(u, d)' = At(u, d)
  BY <1>6, <1>10 DEF At
<1>11. QED
  BY <1>7, <1>8, <1>9, <1>10, Zenon DEF WrittenAs

\* A thread begins and ends with no entries.
LEMMA Emptied ==
  ASSUME LocalType, NEW t \in Thread, entries' = [entries EXCEPT ![t] = <<>>]
  PROVE  /\ entries' \in [Thread -> Seq(Ptr \cup {Null})]
         /\ entries'[t] = <<>>
         /\ \A u \in Thread : u # t => entries'[u] = entries[u]
         /\ \A u \in Thread, d \in Nat :
              At(u, d)' = IF u = t THEN Null ELSE At(u, d)
<1>1. entries \in [Thread -> Seq(Ptr \cup {Null})]
  BY DEF LocalType
<1>2. <<>> \in Seq(Ptr \cup {Null}) /\ Len(<<>>) = 0
  OBVIOUS
<1>3. entries' \in [Thread -> Seq(Ptr \cup {Null})] /\ entries'[t] = <<>>
      /\ \A u \in Thread : u # t => entries'[u] = entries[u]
  BY <1>1, <1>2
<1>4. ASSUME NEW d \in Nat PROVE At(t, d)' = Null
  BY <1>2, <1>3 DEF At
<1>5. ASSUME NEW u \in Thread, NEW d \in Nat, u # t PROVE At(u, d)' = At(u, d)
  BY <1>3, <1>5 DEF At
<1>6. QED
  BY <1>3, <1>4, <1>5, Zenon

LEMMA AtAfter ==
  ASSUME NEW t \in Thread, NEW d \in Nat, NEW w, entries'[t] = w
  PROVE  At(t, d)' = IF d < Len(w) THEN w[d + 1] ELSE Null
  BY DEF At

\* A vector grows, and holds what it held.
LEMMA Grown ==
  ASSUME LocalType, NEW t \in Thread, NEW id \in Nat, id >= Len(entries[t]),
         entries' = [entries EXCEPT ![t] =
                       [d \in 1..NewSize(id) |-> At(t, d - 1)]]
  PROVE  /\ entries' \in [Thread -> Seq(Ptr \cup {Null})]
         /\ \A u \in Thread : u # t => entries'[u] = entries[u]
         /\ \A u \in Thread, d \in Nat : At(u, d)' = At(u, d)
<1>1. entries \in [Thread -> Seq(Ptr \cup {Null})] /\ entries[t] \in Seq(Ptr \cup {Null})
  BY DEF LocalType
<1> DEFINE w == [d \in 1..(id + 1) |-> At(t, d - 1)]
<1>2. ASSUME NEW d \in 1..(id + 1) PROVE At(t, d - 1) \in Ptr \cup {Null}
  <2>1. d - 1 \in Nat
    OBVIOUS
  <2>2. QED
    BY <2>1, AtType
<1>3. w \in Seq(Ptr \cup {Null}) /\ Len(w) = id + 1
  BY <1>2
<1>4. \A d \in Nat : d < Len(w) => w[d + 1] = At(t, d)
  <2>1. TAKE d \in Nat
  <2>2. HAVE d < Len(w)
  <2>3. d + 1 \in 1..(id + 1) /\ (d + 1) - 1 = d
    BY <2>2, <1>3
  <2>4. QED
    BY <2>3, Zenon
<1>5. entries' = [entries EXCEPT ![t] = w]
  BY DEF NewSize
<1> HIDE DEF w
<1>6. entries'[t] = w /\ \A u \in Thread : u # t => entries'[u] = entries[u]
  BY <1>1, <1>5
<1>7. entries' \in [Thread -> Seq(Ptr \cup {Null})]
  BY <1>1, <1>3, <1>5, Zenon
<1>8. ASSUME NEW d \in Nat PROVE At(t, d)' = At(t, d)
  <2>1. At(t, d)' = IF d < Len(w) THEN w[d + 1] ELSE Null
    BY <1>6, AtAfter, Zenon
  <2>2. CASE d < Len(w)
    BY <2>1, <2>2, <1>4, Zenon
  <2>3. CASE ~(d < Len(w))
    <3>1. ~(d < Len(entries[t]))
      BY <2>3, <1>3, <1>1
    <3>2. QED
      BY <2>1, <2>3, <3>1, Zenon DEF At
  <2>4. QED
    BY <2>2, <2>3
<1>9. ASSUME NEW u \in Thread, NEW d \in Nat, u # t PROVE At(u, d)' = At(u, d)
  BY <1>6, <1>9 DEF At
<1>10. QED
  BY <1>6, <1>7, <1>8, <1>9, Zenon

\* The entries of an id are emptied in all threads of the chain; others have none.
LEMMA ClearedEverywhere ==
  ASSUME LocalType, ChainIsSound, NEW id \in Nat, entries' = Cleared(id)
  PROVE  /\ entries' \in [Thread -> Seq(Ptr \cup {Null})]
         /\ \A u \in Thread : entries[u] = <<>> => entries'[u] = <<>>
         /\ \A u \in Thread, d \in Nat :
              At(u, d)' = IF d = id THEN Null ELSE At(u, d)
<1>1. entries \in [Thread -> Seq(Ptr \cup {Null})]
  BY DEF LocalType
<1>2. ASSUME NEW u \in Thread
      PROVE  /\ entries'[u] \in Seq(Ptr \cup {Null})
             /\ Len(entries'[u]) = Len(entries[u])
             /\ \A d \in Nat : d < Len(entries[u]) =>
                  entries'[u][d + 1] = IF d = id THEN Null ELSE entries[u][d + 1]
  <2>0. entries[u] \in Seq(Ptr \cup {Null})
    BY <1>1
  <2>1. CASE Registered(u) /\ id < Len(entries[u])
    <3>1. entries'[u] = [entries[u] EXCEPT ![id + 1] = Null]
      BY <2>1, Zenon DEF Cleared
    <3>2. QED
      BY <3>1, <2>0, <2>1
  <2>2. CASE ~(id < Len(entries[u]))
    <3>1. entries'[u] = entries[u]
      BY <2>2, Zenon DEF Cleared
    <3>2. QED
      BY <3>1, <2>0, <2>2
  <2>3. CASE ~Registered(u)
    <3>1. entries'[u] = entries[u] /\ entries[u] = <<>>
      BY <2>3, Zenon DEF Cleared, ChainIsSound
    <3>2. Len(entries[u]) = 0
      BY <3>1
    <3>3. QED
      BY <3>1, <3>2, <2>0
  <2>4. QED
    BY <2>1, <2>2, <2>3
<1>3. entries' \in [Thread -> Seq(Ptr \cup {Null})]
  <2>1. entries' = [t \in Thread |-> entries'[t]]
    BY Zenon DEF Cleared
  <2>2. QED
    BY <2>1, <1>2, Zenon
<1>4. ASSUME NEW u \in Thread, NEW d \in Nat
      PROVE  At(u, d)' = IF d = id THEN Null ELSE At(u, d)
  BY <1>2 DEF At
<1>5. ASSUME NEW u \in Thread, entries[u] = <<>> PROVE entries'[u] = <<>>
  <2>1. entries'[u] \in Seq(Ptr \cup {Null}) /\ Len(entries'[u]) = 0
    BY <1>2, <1>5
  <2>2. QED
    BY <2>1
<1>6. QED
  BY <1>3, <1>4, <1>5, Zenon

\* The vectors stay as they are.
LEMMA SameEntries ==
  ASSUME UNCHANGED entries, NEW t \in Thread, NEW d \in Nat
  PROVE  At(t, d)' = At(t, d)
  BY Zenon DEF At

\* An id gets a handler, and loses it.
LEMMA HandlerSet ==
  ASSUME NEW id, NEW h,
         handler_map_' = [d \in DOMAIN handler_map_ \cup {id} |->
                            IF d = id THEN h ELSE handler_map_[d]],
         NEW d
  PROVE  GetHandler(d)' = IF d = id THEN h ELSE GetHandler(d)
  BY Zenon DEF GetHandler

LEMMA SameHandlers ==
  ASSUME UNCHANGED handler_map_, NEW d
  PROVE  GetHandler(d)' = GetHandler(d)
  BY Zenon DEF GetHandler

\* A thread enters the chain.
LEMMA Entered ==
  ASSUME LocalType, ChainIsSound, NEW t \in Thread, ~Registered(t),
         head_' = Append(head_, t)
  PROVE  /\ head_' \in Seq(Thread)
         /\ \A k, l \in 1..Len(head_') : head_'[k] = head_'[l] => k = l
         /\ \A u : Registered(u)' <=> Registered(u) \/ u = t
<1>1. head_ \in Seq(Thread)
  BY DEF LocalType
<1>2. head_' \in Seq(Thread) /\ Len(head_') = Len(head_) + 1 /\ head_'[Len(head_) + 1] = t
      /\ \A k \in 1..Len(head_) : head_'[k] = head_[k]
  BY <1>1
<1>3. \A k \in 1..Len(head_) : head_[k] # t
  BY <1>1 DEF Registered, Range
<1>4. \A k, l \in 1..Len(head_') : head_'[k] = head_'[l] => k = l
  BY <1>1, <1>2, <1>3 DEF ChainIsSound
<1>5. ASSUME NEW u PROVE Registered(u)' <=> Registered(u) \/ u = t
  <2>1. Registered(u)' <=> \E k \in 1..Len(head_') : head_'[k] = u
    BY <1>2 DEF Registered, Range
  <2>2. Registered(u) <=> \E k \in 1..Len(head_) : head_[k] = u
    BY <1>1 DEF Registered, Range
  <2>3. QED
    BY <2>1, <2>2, <1>1, <1>2
<1>6. QED
  BY <1>2, <1>4, <1>5, Zenon

\* A thread leaves the chain.
LEMMA Left ==
  ASSUME LocalType, ChainIsSound, NEW t \in Thread, Registered(t),
         head_' = RemoveThreadData(t)
  PROVE  /\ head_' \in Seq(Thread)
         /\ \A k, l \in 1..Len(head_') : head_'[k] = head_'[l] => k = l
         /\ \A u : Registered(u)' <=> Registered(u) /\ u # t
<1>1. head_ \in Seq(Thread)
  BY DEF LocalType
<1>2. \E k \in DOMAIN head_ : head_[k] = t
  BY <1>1 DEF Registered, Range
<1>3. PICK c : c = CHOOSE k \in DOMAIN head_ : head_[k] = t
  OBVIOUS
<1>4. c \in DOMAIN head_ /\ head_[c] = t
  BY <1>2, <1>3, Zenon
<1>5. head_' = SubSeq(head_, 1, c - 1) \o SubSeq(head_, c + 1, Len(head_))
  BY <1>3, Zenon DEF RemoveThreadData
<1>6. c \in 1..Len(head_) /\ Len(head_) \in Nat
  BY <1>1, <1>4
<1> DEFINE a == SubSeq(head_, 1, c - 1)  b == SubSeq(head_, c + 1, Len(head_))
<1>7. a \in Seq(Thread) /\ Len(a) = c - 1 /\ \A k \in 1..(c - 1) : a[k] = head_[k]
  BY <1>1, <1>6
<1>8. b \in Seq(Thread) /\ Len(b) = Len(head_) - c /\ \A k \in 1..(Len(head_) - c) : b[k] = head_[c + k]
  BY <1>1, <1>6
<1> HIDE DEF a, b
<1>9. head_' = a \o b
  BY <1>5 DEF a, b
<1>10. /\ head_' \in Seq(Thread) /\ Len(head_') = Len(head_) - 1
       /\ \A k \in 1..Len(head_') : head_'[k] = IF k < c THEN head_[k] ELSE head_[k + 1]
  BY <1>6, <1>7, <1>8, <1>9
<1>11. \A k, l \in 1..Len(head_') : head_'[k] = head_'[l] => k = l
  BY <1>6, <1>10 DEF ChainIsSound
<1>12. ASSUME NEW u PROVE Registered(u)' <=> Registered(u) /\ u # t
  <2>1. Registered(u)' <=> \E k \in 1..Len(head_') : head_'[k] = u
    BY <1>10 DEF Registered, Range
  <2>2. Registered(u) <=> \E k \in 1..Len(head_) : head_[k] = u
    BY <1>1 DEF Registered, Range
  <2>3. \A k \in 1..Len(head_') : head_'[k] # t /\ \E j \in 1..Len(head_) : head_[j] = head_'[k]
    BY <1>4, <1>6, <1>10 DEF ChainIsSound
  <2>4. \A k \in 1..Len(head_) : k < c => k \in 1..Len(head_') /\ head_'[k] = head_[k]
    BY <1>6, <1>10
  <2>5. \A k \in 1..Len(head_) : k > c => k - 1 \in 1..Len(head_') /\ head_'[k - 1] = head_[k]
    BY <1>6, <1>10
  <2>6. \A k \in 1..Len(head_) : k < c \/ k = c \/ k > c
    BY <1>6
  <2>7. ASSUME Registered(u)' PROVE Registered(u) /\ u # t
    BY <2>1, <2>2, <2>3, <2>7, Zenon
  <2>8. ASSUME Registered(u), u # t PROVE Registered(u)'
    BY <2>1, <2>2, <2>4, <2>5, <2>6, <2>8, <1>4, Zenon
  <2>9. QED
    BY <2>7, <2>8, Zenon
<1>13. QED
  BY <1>10, <1>11, <1>12, Zenon

LEMMA SameChain ==
  ASSUME UNCHANGED head_, NEW u PROVE Registered(u)' <=> Registered(u)
  BY Zenon DEF Registered, Range

\* What an action does not touch stays in order.
LEMMA IdsKept ==
  ASSUME IdsAreApart, UNCHANGED <<next_instance_id_, free_instance_ids_, state, id_>>
  PROVE  IdsAreApart'
  BY DEF IdsAreApart, Owns

LEMMA HandlersKept ==
  ASSUME HandlersAreOwned, UNCHANGED <<handler_map_, state, id_>>
  PROVE  HandlersAreOwned'
<1>1. \A d \in Nat : GetHandler(d)' = GetHandler(d)
  BY SameHandlers
<1>2. QED
  BY <1>1 DEF HandlersAreOwned

LEMMA ChainKept ==
  ASSUME ChainIsSound, UNCHANGED head_, \A u \in Thread : entries[u] = <<>> => entries'[u] = <<>>
  PROVE  ChainIsSound'
<1>1. \A u \in Thread : Registered(u)' <=> Registered(u)
  BY SameChain
<1>2. QED
  BY <1>1, Zenon DEF ChainIsSound

LEMMA EntriesKept ==
  ASSUME EntriesAreOwned, UNCHANGED <<by, out, unref>>,
         \A t \in Thread, d \in Nat : At(t, d)' = At(t, d),
         \A i \in Instance : state[i] = "live" => state'[i] = "live" /\ id_'[i] = id_[i]
  PROVE  EntriesAreOwned'
  BY DEF EntriesAreOwned

LEMMA CallsKept ==
  ASSUME CallsAreOwned, UNCHANGED <<call, out, unref>>,
         \A i \in Instance : state[i] = "live" => state'[i] = "live"
  PROVE  CallsAreOwned'
<1>1. \A t \in Thread : Busy(t)' <=> Busy(t)
  BY Zenon DEF Busy
<1>2. QED
  BY <1>1, Zenon DEF CallsAreOwned

LEMMA StoredKept ==
  ASSUME HandlersGotTheirs, StoredIsKept, UNCHANGED <<by, out, unref>>,
         \A t \in Thread, d \in Nat : At(t, d)' = At(t, d)
  PROVE  HandlersGotTheirs' /\ StoredIsKept'
  BY ZenonT(30) DEF HandlersGotTheirs, StoredIsKept

\* A pointer in an entry has a handler that waits for it if its instance has one.
LEMMA HandlerOfEntry ==
  ASSUME LocalInv, LocalAssumption,
         NEW t \in Thread, NEW d \in Nat, NEW p \in Ptr, At(t, d) = p
  PROVE  /\ by[p] \in HasHandler => GetHandler(d) = by[p]
         /\ GetHandler(d) # Null => by[p] \in HasHandler
         /\ by[p] \in Instance /\ by[p] # Null /\ id_[by[p]] = d /\ unref[p] = <<>>
<1>1. by[p] \in Instance /\ state[by[p]] = "live" /\ id_[by[p]] = d /\ unref[p] = <<>>
  BY DEF LocalInv, EntriesAreOwned
<1>2. by[p] \in HasHandler => GetHandler(d) = by[p]
  BY <1>1 DEF LocalInv, HandlersAreOwned
<1>3. ASSUME GetHandler(d) # Null PROVE by[p] \in HasHandler
  <2>1. PICK i \in Instance : GetHandler(d) = i
    BY <1>3 DEF LocalInv, HandlersAreOwned
  <2>2. state[i] = "live" /\ id_[i] = d /\ i \in HasHandler
    BY <2>1 DEF LocalInv, HandlersAreOwned
  <2>3. i = by[p]
    BY <1>1, <2>2 DEF LocalInv, IdsAreApart, Owns
  <2>4. QED
    BY <2>2, <2>3
<1>4. QED
  BY <1>1, <1>2, <1>3, Zenon DEF LocalAssumption

LEMMA UnrefIsFunction ==
  ASSUME NEW gone, Unref(gone) PROVE unref' = [p \in Ptr |-> unref'[p]]
<1> DEFINE E(p) == unref[p] \o (IF \E g \in gone : g.p = p /\ GetHandler(g.id) # Null
                               THEN <<GetHandler((CHOOSE g \in gone : g.p = p).id)>>
                               ELSE <<>>)
<1>1. unref' = [p \in Ptr |-> E(p)]
  BY Zenon DEF Unref
<1> HIDE DEF E
<1>2. \A p \in Ptr : unref'[p] = E(p)
  BY <1>1, Zenon
<1>3. QED
  BY <1>1, <1>2, Zenon

\* What Unref does with a pointer that gone has not, and with one it has with one id.
LEMMA NotGiven ==
  ASSUME LocalType, NEW gone, Unref(gone), NEW p \in Ptr, \A g \in gone : g.p # p
  PROVE  unref'[p] = unref[p]
<1>1. unref[p] \in Seq(Instance)
  BY DEF LocalType
<1>2. unref'[p] = unref[p] \o (IF \E g \in gone : g.p = p /\ GetHandler(g.id) # Null
                               THEN <<GetHandler((CHOOSE g \in gone : g.p = p).id)>>
                               ELSE <<>>)
  BY Zenon DEF Unref
<1>3. unref'[p] = unref[p] \o <<>>
  BY <1>2, Zenon
<1>4. QED
  BY <1>1, <1>3

LEMMA Given ==
  ASSUME LocalType, NEW gone, Unref(gone), NEW p \in Ptr, NEW d \in Nat,
         \E g \in gone : g.p = p, \A g \in gone : g.p = p => g.id = d, unref[p] = <<>>
  PROVE  unref'[p] = IF GetHandler(d) # Null THEN <<GetHandler(d)>> ELSE <<>>
<1>1. unref'[p] = unref[p] \o (IF \E g \in gone : g.p = p /\ GetHandler(g.id) # Null
                               THEN <<GetHandler((CHOOSE g \in gone : g.p = p).id)>>
                               ELSE <<>>)
  BY Zenon DEF Unref
<1>2. (CHOOSE g \in gone : g.p = p).id = d
  BY Zenon
<1>3. (\E g \in gone : g.p = p /\ GetHandler(g.id) # Null) <=> GetHandler(d) # Null
  BY Zenon
<1>4. PICK h : h = GetHandler(d)
  BY Zenon
<1>5. unref'[p] = <<>> \o (IF h # Null THEN <<h>> ELSE <<>>)
  BY <1>1, <1>2, <1>3, <1>4, Zenon
<1>6. QED
  BY <1>4, <1>5

\* The pointers in an entry of an exiting thread, or in one of a dying instance, go to
\* the handlers of their instances, and no others.
LEMMA GivenAtExit ==
  ASSUME LocalInv, LocalAssumption, NEW t \in Thread, Unref(LeftBehind(t)),
         NEW p \in Ptr
  PROVE  unref'[p] = IF (\E d \in Nat : At(t, d) = p) /\ by[p] \in HasHandler
                     THEN <<by[p]>> ELSE unref[p]
<1> DEFINE gone == LeftBehind(t)
<1>0. LocalType /\ entries[t] \in Seq(Ptr \cup {Null})
  BY Zenon DEF LocalInv, LocalType
<1>1. \A g \in gone : g.id \in Nat /\ g.p = At(t, g.id)
  BY <1>0 DEF LeftBehind
<1>2. CASE \E d \in Nat : At(t, d) = p
  <2>1. PICK d \in Nat : At(t, d) = p
    BY <1>2
  <2>2. d \in 0..(Len(entries[t]) - 1)
    <3>1. p # Null
      BY DEF LocalAssumption
    <3>2. d < Len(entries[t])
      BY <3>1, <2>1, Zenon DEF At
    <3>3. QED
      BY <3>2, <1>0
  <2>3. [p |-> At(t, d), id |-> d] \in gone
    BY <2>2, Zenon DEF LeftBehind
  <2>4. \E g \in gone : g.p = p
    BY <2>1, <2>3
  <2>5. \A g \in gone : g.p = p => g.id = d
    BY <1>1, <2>1, HandlerOfEntry
  <2>6. unref[p] = <<>>
    BY <2>1, HandlerOfEntry
  <2>7. unref'[p] = IF GetHandler(d) # Null THEN <<GetHandler(d)>> ELSE <<>>
    BY <1>0, <2>4, <2>5, <2>6, Given
  <2>8. QED
    BY <1>2, <2>1, <2>6, <2>7, HandlerOfEntry
<1>3. CASE ~\E d \in Nat : At(t, d) = p
  <2>1. \A g \in gone : g.p # p
    BY <1>1, <1>3, Zenon
  <2>2. unref'[p] = unref[p]
    BY <1>0, <2>1, NotGiven, Zenon
  <2>3. QED
    BY <1>3, <2>2, Zenon
<1>4. QED
  BY <1>2, <1>3

LEMMA GivenAtReclaim ==
  ASSUME LocalInv, LocalAssumption, NEW id \in Nat,
         NEW gone, gone = {[p |-> At(t, id), id |-> id] : t \in Range(head_)},
         Unref(gone), NEW p \in Ptr
  PROVE  unref'[p] = IF (\E t \in Thread : At(t, id) = p) /\ by[p] \in HasHandler
                     THEN <<by[p]>> ELSE unref[p]
<1>0. LocalType /\ head_ \in Seq(Thread) /\ entries \in [Thread -> Seq(Ptr \cup {Null})]
  BY Zenon DEF LocalInv, LocalType
<1>1. Range(head_) \subseteq Thread
  BY <1>0 DEF Range
<1>2. CASE \E t \in Thread : At(t, id) = p
  <2>1. PICK t \in Thread : At(t, id) = p
    BY <1>2
  <2>2. t \in Range(head_)
    <3>1. p # Null
      BY DEF LocalAssumption
    <3>2. id < Len(entries[t])
      BY <3>1, <2>1, Zenon DEF At
    <3>3. entries[t] # <<>>
      BY <3>2, <1>0
    <3>4. QED
      BY <3>3, Zenon DEF LocalInv, ChainIsSound, Registered
  <2>3. [p |-> At(t, id), id |-> id] \in gone
    BY <2>2, Zenon
  <2>4. \E g \in gone : g.p = p
    BY <2>1, <2>3, Zenon
  <2>5. \A g \in gone : g.p = p => g.id = id
    OBVIOUS
  <2>6. unref[p] = <<>>
    BY <2>1, HandlerOfEntry
  <2>7. unref'[p] = IF GetHandler(id) # Null THEN <<GetHandler(id)>> ELSE <<>>
    BY <1>0, <2>4, <2>5, <2>6, Given
  <2>8. QED
    BY <1>2, <2>1, <2>6, <2>7, HandlerOfEntry
<1>3. CASE ~\E t \in Thread : At(t, id) = p
  <2>1. \A g \in gone : g.p # p
    BY <1>1, <1>3
  <2>2. unref'[p] = unref[p]
    BY <1>0, <2>1, NotGiven, Zenon
  <2>3. QED
    BY <1>3, <2>2, Zenon
<1>4. QED
  BY <1>2, <1>3

\* The steps of the instances
LEMMA GetIdInv ==
  ASSUME LocalInv, LocalAssumption, NEW i \in Instance, GetId(i)
  PROVE  LocalInv'
<1>0. /\ LocalType /\ IdsAreApart /\ HandlersAreOwned /\ ChainIsSound /\ EntriesAreOwned
      /\ CallsAreOwned /\ HandlersGotTheirs /\ StoredIsKept
  BY DEF LocalInv
<1>1. /\ state[i] = "none" /\ state' = [state EXCEPT ![i] = "named"]
      /\ UNCHANGED <<handler_map_, head_, entries, call, scrape, out, by, unref>>
  BY DEF GetId, ptrVars
<1>2. PICK id : id = IF free_instance_ids_ = <<>> THEN next_instance_id_
                     ELSE free_instance_ids_[Len(free_instance_ids_)]
  OBVIOUS
<1>3. id_' = [id_ EXCEPT ![i] = id]
  BY <1>2, Zenon DEF GetId
<1>n. PICK n : n = Len(free_instance_ids_)
  BY Zenon
<1>4. /\ id \in Nat /\ next_instance_id_' \in Nat /\ free_instance_ids_' \in Seq(Nat)
      /\ id < next_instance_id_' /\ next_instance_id_ <= next_instance_id_'
      /\ Len(free_instance_ids_') <= Len(free_instance_ids_)
      /\ \A k \in 1..Len(free_instance_ids_') :
           /\ k \in 1..Len(free_instance_ids_)
           /\ free_instance_ids_'[k] = free_instance_ids_[k]
           /\ free_instance_ids_[k] # id
      /\ \A j \in Instance : Owns(j) => id_[j] # id
  <2>1. next_instance_id_ \in Nat /\ free_instance_ids_ \in Seq(Nat) /\ id_ \in [Instance -> Nat]
    BY <1>0 DEF LocalType
  <2>2. CASE free_instance_ids_ = <<>>
    <3>1. id = next_instance_id_ /\ next_instance_id_' = next_instance_id_ + 1
          /\ free_instance_ids_' = free_instance_ids_
      BY <1>2, <2>2, Zenon DEF GetId
    <3>2. \A j \in Instance : Owns(j) => id_[j] # id
      BY <3>1, <2>1, <1>0 DEF IdsAreApart
    <3>3. Len(free_instance_ids_) = 0
      BY <2>2
    <3>4. QED
      BY <2>1, <3>1, <3>2, <3>3
  <2>3. CASE free_instance_ids_ # <<>>
    <3>1. /\ id = free_instance_ids_[n] /\ next_instance_id_' = next_instance_id_
          /\ free_instance_ids_' = SubSeq(free_instance_ids_, 1, n - 1)
      BY <1>n, <1>2, <2>3, Zenon DEF GetId
    <3>2. n \in 1..n /\ n \in Nat
      BY <1>n, <2>1, <2>3
    <3>3. id \in Nat
      BY <1>n, <2>1, <3>1, <3>2
    <3>4. free_instance_ids_' \in Seq(Nat) /\ Len(free_instance_ids_') = n - 1
          /\ \A k \in 1..(n - 1) : free_instance_ids_'[k] = free_instance_ids_[k]
      BY <1>n, <2>1, <3>1, <3>2
    <3>5. id < next_instance_id_ /\ \A j \in Instance : Owns(j) => id_[j] # id
      BY <1>n, <3>1, <3>2, <1>0, Zenon DEF IdsAreApart
    <3>6. \A k \in 1..(n - 1) : k \in 1..n /\ k # n
      BY <3>2
    <3>7. \A k \in 1..(n - 1) : free_instance_ids_[k] # id
      BY <1>n, <3>1, <3>2, <3>6, <1>0, Zenon DEF IdsAreApart
    <3>8. QED
      <4>1. Len(free_instance_ids_') <= Len(free_instance_ids_)
            /\ next_instance_id_ <= next_instance_id_' /\ next_instance_id_' \in Nat
        BY <1>n, <2>1, <3>1, <3>2, <3>4
      <4>2. QED
        BY <4>1, <1>n, <3>1, <3>3, <3>4, <3>5, <3>6, <3>7, Zenon
  <2>4. QED
    BY <2>2, <2>3
<1>5. /\ state \in [Instance -> {"none", "named", "live", "dead"}] /\ id_ \in [Instance -> Nat]
      /\ next_instance_id_ \in Nat /\ free_instance_ids_ \in Seq(Nat)
  BY <1>0 DEF LocalType
<1>6. /\ state'[i] = "named" /\ id_'[i] = id
      /\ \A j \in Instance : j # i => state'[j] = state[j] /\ id_'[j] = id_[j]
  BY <1>1, <1>3, <1>5
<1>7. LocalType'
  <2>1. state' \in [Instance -> {"none", "named", "live", "dead"}] /\ id_' \in [Instance -> Nat]
    BY <1>1, <1>3, <1>4, <1>5
  <2>2. QED
    BY <2>1, <1>0, <1>1, <1>4, Zenon DEF LocalType
<1>8. \A j \in Instance : Owns(j)' <=> Owns(j) \/ j = i
  BY <1>1, <1>6 DEF Owns
<1>9. ~Owns(i)
  BY <1>1 DEF Owns
<1>10. IdsAreApart'
  <2>1. ASSUME NEW j \in Instance, Owns(j)' PROVE id_'[j] < next_instance_id_'
    <3>1. CASE j = i
      BY <1>4, <1>6, <3>1, Zenon
    <3>2. CASE j # i
      <4>1. id_'[j] = id_[j] /\ id_[j] < next_instance_id_
        BY <1>0, <1>6, <1>8, <2>1, <3>2, Zenon DEF IdsAreApart
      <4>2. id_[j] \in Nat
        BY <1>5
      <4>3. next_instance_id_ \in Nat /\ next_instance_id_' \in Nat
            /\ next_instance_id_ <= next_instance_id_'
        BY <1>4, <1>5, Zenon
      <4>4. QED
        BY <4>1, <4>2, <4>3
    <3>3. QED
      BY <3>1, <3>2, Zenon
  <2>2. \A j, k \in Instance : Owns(j)' /\ Owns(k)' /\ id_'[j] = id_'[k] => j = k
    BY <1>0, <1>4, <1>6, <1>8 DEF IdsAreApart
  <2>3. \A k \in 1..Len(free_instance_ids_') : free_instance_ids_'[k] < next_instance_id_'
    <3>1. \A k \in 1..Len(free_instance_ids_) : free_instance_ids_[k] \in Nat
      BY <1>5
    <3>2. \A k \in 1..Len(free_instance_ids_') :
            free_instance_ids_'[k] \in Nat /\ free_instance_ids_'[k] < next_instance_id_
      BY <3>1, <1>0, <1>4, Zenon DEF IdsAreApart
    <3>3. next_instance_id_ \in Nat /\ next_instance_id_' \in Nat
          /\ next_instance_id_ <= next_instance_id_'
      BY <1>4, <1>5, Zenon
    <3>4. QED
      BY <3>2, <3>3
  <2>4. \A k \in 1..Len(free_instance_ids_') : \A j \in Instance :
          Owns(j)' => id_'[j] # free_instance_ids_'[k]
    BY <1>0, <1>4, <1>6, <1>8 DEF IdsAreApart
  <2>5. \A k, l \in 1..Len(free_instance_ids_') :
          free_instance_ids_'[k] = free_instance_ids_'[l] => k = l
    BY <1>0, <1>4, Zenon DEF IdsAreApart
  <2>6. QED
    BY <2>1, <2>2, <2>3, <2>4, <2>5, Zenon DEF IdsAreApart
<1>11. HandlersAreOwned'
  <2>1. \A d \in Nat : GetHandler(d)' = GetHandler(d)
    BY <1>1, SameHandlers
  <2>2. QED
    BY <2>1, <1>0, <1>1, <1>6 DEF HandlersAreOwned
<1>12. ChainIsSound'
  BY <1>0, <1>1, ChainKept
<1>13. \A t \in Thread, d \in Nat : At(t, d)' = At(t, d)
  BY <1>1, SameEntries
<1>14. \A j \in Instance : state[j] = "live" => state'[j] = "live" /\ id_'[j] = id_[j]
  BY <1>1, <1>6, Zenon
<1>15. EntriesAreOwned'
  BY <1>0, <1>1, <1>13, <1>14, EntriesKept, Zenon
<1>16. CallsAreOwned'
  BY <1>0, <1>1, <1>14, CallsKept
<1>17. HandlersGotTheirs' /\ StoredIsKept'
  BY <1>0, <1>1, <1>13, StoredKept
<1>18. QED
  BY <1>7, <1>10, <1>11, <1>12, <1>15, <1>16, <1>17 DEF LocalInv

LEMMA SetHandlerInv ==
  ASSUME LocalInv, LocalAssumption, NEW i \in Instance, SetHandler(i)
  PROVE  LocalInv'
<1>0. /\ LocalType /\ IdsAreApart /\ HandlersAreOwned /\ ChainIsSound /\ EntriesAreOwned
      /\ CallsAreOwned /\ HandlersGotTheirs /\ StoredIsKept
  BY DEF LocalInv
<1>1. /\ state[i] = "named" /\ state' = [state EXCEPT ![i] = "live"]
      /\ UNCHANGED <<next_instance_id_, free_instance_ids_, id_, head_, entries, call, scrape,
                     out, by, unref>>
  BY DEF SetHandler, ptrVars
<1>2. state \in [Instance -> {"none", "named", "live", "dead"}] /\ id_ \in [Instance -> Nat]
  BY <1>0 DEF LocalType
<1>3. state'[i] = "live" /\ \A j \in Instance : j # i => state'[j] = state[j]
  BY <1>1, <1>2
<1>4. LocalType'
  <2>1. state' \in [Instance -> {"none", "named", "live", "dead"}]
    BY <1>1, <1>2
  <2>2. QED
    BY <2>1, <1>0, <1>1, Zenon DEF LocalType
<1>5. \A j \in Instance : Owns(j)' <=> Owns(j)
  BY <1>1, <1>3 DEF Owns
<1>6. IdsAreApart'
  BY <1>0, <1>1, <1>5 DEF IdsAreApart
<1>7. \A j \in Instance : state[j] = "live" /\ id_[j] = id_[i] => j = i
  BY <1>0, <1>1 DEF IdsAreApart, Owns
<1>8. HandlersAreOwned'
  <2>1. CASE i \in HasHandler
    <3>1. handler_map_' = [id \in DOMAIN handler_map_ \cup {id_[i]} |->
                             IF id = id_[i] THEN i ELSE handler_map_[id]]
      BY <2>1, Zenon DEF SetHandler
    <3>2. \A d \in Nat : GetHandler(d)' = IF d = id_[i] THEN i ELSE GetHandler(d)
      BY <3>1, HandlerSet
    <3>3. QED
      BY <2>1, <3>2, <1>0, <1>1, <1>3, <1>7 DEF HandlersAreOwned
  <2>2. CASE i \notin HasHandler
    <3>1. \A d \in Nat : GetHandler(d)' = GetHandler(d)
      BY <2>2, SameHandlers DEF SetHandler
    <3>2. QED
      BY <2>2, <3>1, <1>0, <1>1, <1>3 DEF HandlersAreOwned
  <2>3. QED
    BY <2>1, <2>2
<1>9. ChainIsSound'
  BY <1>0, <1>1, ChainKept
<1>10. \A t \in Thread, d \in Nat : At(t, d)' = At(t, d)
  BY <1>1, SameEntries
<1>11. \A j \in Instance : state[j] = "live" => state'[j] = "live" /\ id_'[j] = id_[j]
  BY <1>1, <1>3
<1>12. EntriesAreOwned'
  BY <1>0, <1>1, <1>10, <1>11, EntriesKept
<1>13. CallsAreOwned'
  BY <1>0, <1>1, <1>11, CallsKept
<1>14. HandlersGotTheirs' /\ StoredIsKept'
  BY <1>0, <1>1, <1>10, StoredKept
<1>15. QED
  BY <1>4, <1>6, <1>8, <1>9, <1>12, <1>13, <1>14 DEF LocalInv

LEMMA ReclaimIdInv ==
  ASSUME LocalInv, LocalAssumption, NEW i \in Instance, ReclaimId(i)
  PROVE  LocalInv'
<1>0. /\ LocalType /\ IdsAreApart /\ HandlersAreOwned /\ ChainIsSound /\ EntriesAreOwned
      /\ CallsAreOwned /\ HandlersGotTheirs /\ StoredIsKept
  BY DEF LocalInv
<1>1. PICK id : id = id_[i]
  BY Zenon
<1>2. /\ state[i] = "live" /\ state' = [state EXCEPT ![i] = "dead"]
      /\ \A t \in Thread : call[t].i # i
      /\ entries' = Cleared(id)
      /\ handler_map_' = NoHandler(id)
      /\ free_instance_ids_' = Append(free_instance_ids_, id)
      /\ UNCHANGED <<next_instance_id_, id_, head_, call, scrape, out, by>>
  BY <1>1, Zenon DEF ReclaimId
<1>3. /\ state \in [Instance -> {"none", "named", "live", "dead"}] /\ id_ \in [Instance -> Nat]
      /\ next_instance_id_ \in Nat /\ free_instance_ids_ \in Seq(Nat) /\ id \in Nat
  BY <1>0, <1>1 DEF LocalType
<1>4. state'[i] = "dead" /\ \A j \in Instance : j # i => state'[j] = state[j]
  BY <1>2, <1>3
<1>5. /\ entries' \in [Thread -> Seq(Ptr \cup {Null})]
      /\ \A u \in Thread : entries[u] = <<>> => entries'[u] = <<>>
      /\ \A u \in Thread, d \in Nat :
           At(u, d)' = IF d = id THEN Null ELSE At(u, d)
  BY <1>0, <1>2, <1>3, ClearedEverywhere
<1>6. ASSUME NEW p \in Ptr
      PROVE  unref'[p] = IF (\E t \in Thread : At(t, id) = p) /\ by[p] \in HasHandler
                         THEN <<by[p]>> ELSE unref[p]
  <2>1. PICK gone : gone = {[p |-> At(t, id), id |-> id] : t \in Range(head_)}
    BY Zenon
  <2>2. Unref(gone)
    BY <2>1, <1>1, Zenon DEF ReclaimId
  <2>3. QED
    BY <1>3, <2>1, <2>2, GivenAtReclaim, Zenon
<1>7. unref' \in [Ptr -> Seq(Instance)]
  <2>1. unref' = [p \in Ptr |-> unref'[p]]
    BY UnrefIsFunction DEF ReclaimId
  <2>2. \A p \in Ptr : unref'[p] \in Seq(Instance)
    <3>1. TAKE p \in Ptr
    <3>2. unref[p] \in Seq(Instance)
      BY <1>0 DEF LocalType
    <3>3. by[p] \in HasHandler => <<by[p]>> \in Seq(Instance)
      BY DEF LocalAssumption
    <3>4. QED
      BY <1>6, <3>2, <3>3, Zenon
  <2>3. QED
    BY <2>1, <2>2, Zenon
<1>8. LocalType'
  <2>1. state' \in [Instance -> {"none", "named", "live", "dead"}]
    BY <1>2, <1>3
  <2>2. free_instance_ids_' \in Seq(Nat)
    BY <1>2, <1>3
  <2>3. QED
    BY <2>1, <2>2, <1>0, <1>2, <1>5, <1>7, Zenon DEF LocalType
<1>9. \A j \in Instance : Owns(j)' <=> Owns(j) /\ j # i
  BY <1>2, <1>4 DEF Owns
<1>10. Owns(i) /\ \A j \in Instance : Owns(j) /\ id_[j] = id => j = i
  BY <1>0, <1>1, <1>2 DEF IdsAreApart, Owns
<1>11. IdsAreApart'
  <2>1. /\ Len(free_instance_ids_') = Len(free_instance_ids_) + 1
        /\ free_instance_ids_'[Len(free_instance_ids_) + 1] = id
        /\ \A k \in 1..Len(free_instance_ids_) : free_instance_ids_'[k] = free_instance_ids_[k]
    BY <1>2, <1>3
  <2>2. id < next_instance_id_ /\ \A k \in 1..Len(free_instance_ids_) : free_instance_ids_[k] # id
    BY <1>0, <1>1, <1>10 DEF IdsAreApart
  <2>3. \A k \in 1..Len(free_instance_ids_') :
          k \in 1..Len(free_instance_ids_) \/ k = Len(free_instance_ids_) + 1
    BY <2>1, <1>3
  <2>4. \A j \in Instance : Owns(j)' => id_'[j] < next_instance_id_'
    BY <1>0, <1>2, <1>9 DEF IdsAreApart
  <2>5. \A j, k \in Instance : Owns(j)' /\ Owns(k)' /\ id_'[j] = id_'[k] => j = k
    BY <1>0, <1>2, <1>9, Zenon DEF IdsAreApart
  <2>6. \A k \in 1..Len(free_instance_ids_') :
          /\ free_instance_ids_'[k] < next_instance_id_'
          /\ \A j \in Instance : Owns(j)' => id_'[j] # free_instance_ids_'[k]
    BY <2>1, <2>2, <2>3, <1>0, <1>2, <1>9, <1>10 DEF IdsAreApart
  <2>7. \A k, l \in 1..Len(free_instance_ids_') :
          free_instance_ids_'[k] = free_instance_ids_'[l] => k = l
    BY <2>1, <2>2, <2>3, <1>0, Zenon DEF IdsAreApart
  <2>8. QED
    BY <2>4, <2>5, <2>6, <2>7, Zenon DEF IdsAreApart
<1>12. HandlersAreOwned'
  <2>1. \A d \in Nat : GetHandler(d)' = IF d = id THEN Null ELSE GetHandler(d)
    BY <1>2, HandlerSet, Zenon DEF NoHandler
  <2>2. QED
    BY <2>1, <1>0, <1>1, <1>2, <1>4, <1>10 DEF HandlersAreOwned, Owns, LocalAssumption
<1>13. ChainIsSound'
  BY <1>0, <1>2, <1>5, ChainKept
<1>14. \A p \in Ptr : p # Null
  BY DEF LocalAssumption
<1>15. ASSUME NEW t \in Thread, NEW d \in Nat, NEW p \in Ptr, At(t, d)' = p
       PROVE  /\ At(t, d) = p
              /\ by'[p] \in Instance /\ state'[by'[p]] = "live" /\ id_'[by'[p]] = d
              /\ out'[p] = "stored" /\ unref'[p] = <<>>
  <2>1. d # id /\ At(t, d) = p
    BY <1>5, <1>14, <1>15, Zenon
  <2>2. /\ by[p] \in Instance /\ state[by[p]] = "live" /\ id_[by[p]] = d
        /\ out[p] = "stored" /\ unref[p] = <<>>
    BY <2>1, <1>0 DEF EntriesAreOwned
  <2>3. by[p] # i
    BY <2>1, <2>2, <1>1
  <2>4. ~\E u \in Thread : At(u, id) = p
    BY <2>1, <2>2, <1>0, <1>3 DEF EntriesAreOwned
  <2>5. QED
    BY <2>1, <2>2, <2>3, <2>4, <1>2, <1>4, <1>6, Zenon
<1>16. EntriesAreOwned'
  <2>1. \A t \in Thread, d \in Nat, p \in Ptr : At(t, d)' = p => At(t, d) = p
    BY <1>15
  <2>2. \A t, u \in Thread, d, e \in Nat, p \in Ptr :
          At(t, d)' = p /\ At(u, e)' = p => t = u
    BY <2>1, <1>0 DEF EntriesAreOwned
  <2>3. QED
    BY <1>15, <2>2 DEF EntriesAreOwned
<1>17. CallsAreOwned'
  <2>1. \A t \in Thread : Busy(t)' <=> Busy(t)
    BY <1>2, Zenon DEF Busy
  <2>2. \A t \in Thread : Busy(t) => call[t].i \in Instance /\ state'[call[t].i] = "live"
    BY <1>0, <1>2, <1>4, Zenon DEF CallsAreOwned
  <2>3. ASSUME NEW t \in Thread, NEW p \in Ptr, call[t].p = p
        PROVE  Busy(t) /\ out[p] = "busy" /\ unref'[p] = <<>>
    <3>1. Busy(t) /\ out[p] = "busy" /\ unref[p] = <<>>
      BY <2>3, <1>0 DEF CallsAreOwned
    <3>2. ~\E u \in Thread : At(u, id) = p
      BY <3>1, <1>0, <1>3 DEF EntriesAreOwned
    <3>3. QED
      BY <3>1, <3>2, <1>6, Zenon
  <2>4. QED
    BY <2>1, <2>2, <2>3, <1>0, <1>2, ZenonT(30) DEF CallsAreOwned
<1>18. HandlersGotTheirs'
  <2> SUFFICES ASSUME NEW p \in Ptr, unref'[p] # <<>>
               PROVE  unref'[p] = <<by[p]>> /\ by[p] \in Instance /\ out[p] = "stored"
    BY <1>2 DEF HandlersGotTheirs
  <2>1. CASE (\E t \in Thread : At(t, id) = p) /\ by[p] \in HasHandler
    <3>1. unref'[p] = <<by[p]>>
      BY <2>1, <1>6, Zenon
    <3>2. by[p] \in Instance /\ out[p] = "stored"
      BY <2>1, <1>0, <1>3 DEF EntriesAreOwned
    <3>3. QED
      BY <3>1, <3>2
  <2>2. CASE ~((\E t \in Thread : At(t, id) = p) /\ by[p] \in HasHandler)
    BY <2>2, <1>0, <1>6, Zenon DEF HandlersGotTheirs
  <2>3. QED
    BY <2>1, <2>2
<1>19. StoredIsKept'
  <2> SUFFICES ASSUME NEW p \in Ptr, out[p] = "stored", by[p] \in HasHandler, unref'[p] = <<>>
               PROVE  \E t \in Thread, d \in Nat : At(t, d)' = p
    BY <1>2, Zenon DEF StoredIsKept
  <2>0. <<by[p]>> # <<>>
    OBVIOUS
  <2>1. ~(\E t \in Thread : At(t, id) = p) /\ unref[p] = <<>>
    BY <2>0, <1>6, Zenon
  <2>2. PICK t \in Thread, d \in Nat : At(t, d) = p
    BY <2>1, <1>0 DEF StoredIsKept
  <2>3. At(t, d)' = p
    BY <2>1, <2>2, <1>5, Zenon
  <2>4. QED
    BY <2>3
<1>20. QED
  BY <1>8, <1>11, <1>12, <1>13, <1>16, <1>17, <1>18, <1>19 DEF LocalInv

\* The calls of the threads
LEMMA BeginInv ==
  ASSUME LocalInv, LocalAssumption, NEW t \in Thread,
         NEW op \in {"Get", "Reset", "CompareAndSwap"}, NEW i \in Instance,
         NEW p \in Ptr \cup {Null}, Begin(t, op, i, p)
  PROVE  LocalInv'
<1>0. /\ LocalType /\ IdsAreApart /\ HandlersAreOwned /\ ChainIsSound /\ EntriesAreOwned
      /\ CallsAreOwned /\ HandlersGotTheirs /\ StoredIsKept
  BY Zenon DEF LocalInv
<1>1. /\ call[t] = Idle /\ state[i] = "live"
      /\ p \in Ptr => out[p] = "mine" /\ unref[p] = <<>>
      /\ call' = [call EXCEPT ![t] = [op |-> op, i |-> i, p |-> p]]
      /\ out' = IF p = Null THEN out ELSE [out EXCEPT ![p] = "busy"]
      /\ UNCHANGED <<next_instance_id_, free_instance_ids_, state, id_, handler_map_, head_,
                     entries, scrape, by, unref>>
  BY DEF Begin, idVars
<1>2. /\ call \in [Thread -> [op : Op, i : Instance \cup {Null}, p : Ptr \cup {Null}]]
      /\ out \in [Ptr -> {"mine", "busy", "stored"}] /\ Null \notin Ptr
  BY <1>0, Zenon DEF LocalType, LocalAssumption
<1>3. call'[t] = [op |-> op, i |-> i, p |-> p] /\ \A u \in Thread : u # t => call'[u] = call[u]
  BY <1>1, <1>2, Zenon
<1>4. \A q \in Ptr : out'[q] = IF q = p THEN "busy" ELSE out[q]
  BY <1>1, <1>2
<1>5. LocalType'
  <2>1. call' \in [Thread -> [op : Op, i : Instance \cup {Null}, p : Ptr \cup {Null}]]
    BY <1>1, <1>2 DEF Op
  <2>2. out' \in [Ptr -> {"mine", "busy", "stored"}]
    BY <1>1, <1>2
  <2>3. QED
    BY <2>1, <2>2, <1>0, <1>1, Zenon DEF LocalType
<1>6. \A u \in Thread, d \in Nat : At(u, d)' = At(u, d)
  BY <1>1, SameEntries, Zenon
<1>7. EntriesAreOwned'
  <2>1. ASSUME NEW u \in Thread, NEW d \in Nat, NEW q \in Ptr, At(u, d)' = q
        PROVE  /\ by'[q] \in Instance /\ state'[by'[q]] = "live" /\ id_'[by'[q]] = d
               /\ out'[q] = "stored" /\ unref'[q] = <<>>
    <3>1. /\ by[q] \in Instance /\ state[by[q]] = "live" /\ id_[by[q]] = d
          /\ out[q] = "stored" /\ unref[q] = <<>>
      BY <1>0, <1>6, <2>1 DEF EntriesAreOwned
    <3>2. QED
      BY <3>1, <1>0, <1>1, <1>4
  <2>2. \A u, v \in Thread, d, e \in Nat, q \in Ptr : At(u, d)' = q /\ At(v, e)' = q => u = v
    BY <1>0, <1>6 DEF EntriesAreOwned
  <2>3. QED
    BY <2>1, <2>2, Zenon DEF EntriesAreOwned
<1>8. Busy(t)' /\ \A u \in Thread : u # t => (Busy(u)' <=> Busy(u))
  BY <1>3 DEF Busy
<1>9. CallsAreOwned'
  <2>1. \A u \in Thread : Busy(u)' => call'[u].i \in Instance /\ state'[call'[u].i] = "live"
    BY <1>0, <1>1, <1>3, <1>8 DEF CallsAreOwned
  <2>2. ASSUME NEW u \in Thread, NEW q \in Ptr, call'[u].p = q, u # t
        PROVE  Busy(u)' /\ out'[q] = "busy" /\ unref'[q] = <<>> /\ q # p
    <3>1. call[u].p = q
      BY <2>2, <1>3, Zenon
    <3>2. Busy(u) /\ out[q] = "busy" /\ unref[q] = <<>>
      BY <3>1, <1>0, Zenon DEF CallsAreOwned
    <3>3. QED
      BY <2>2, <3>1, <3>2, <1>1, <1>3, <1>4, <1>8, Zenon
  <2>3. ASSUME NEW q \in Ptr, call'[t].p = q
        PROVE  q = p /\ Busy(t)' /\ out'[q] = "busy" /\ unref'[q] = <<>>
    BY <2>3, <1>1, <1>3, <1>4, <1>8
  <2>4. \A u \in Thread, q \in Ptr : call'[u].p = q =>
          Busy(u)' /\ out'[q] = "busy" /\ unref'[q] = <<>>
    BY <2>2, <2>3, Zenon
  <2>5. \A u, v \in Thread, q \in Ptr : call'[u].p = q /\ call'[v].p = q => u = v
    BY <2>2, <2>3, <1>0, <1>3 DEF CallsAreOwned
  <2>6. QED
    BY <2>1, <2>4, <2>5, Zenon DEF CallsAreOwned
<1>10. HandlersGotTheirs' /\ StoredIsKept'
  <2>1. by' = by /\ unref' = unref
    BY <1>1, Zenon
  <2>2. \A q \in Ptr : out'[q] = "stored" <=> q # p /\ out[q] = "stored"
    BY <1>4
  <2>3. \A q \in Ptr : q = p => out[q] = "mine" /\ unref[q] = <<>>
    BY <1>1, Zenon
  <2>4. HandlersGotTheirs'
    BY <1>0, <2>1, <2>2, <2>3, Zenon DEF HandlersGotTheirs
  <2>5. StoredIsKept'
    BY <1>0, <1>6, <2>1, <2>2, Zenon DEF StoredIsKept
  <2>6. QED
    BY <2>4, <2>5
<1>11. QED
  BY <1>0, <1>1, <1>5, <1>7, <1>9, <1>10, IdsKept, HandlersKept, ChainKept DEF LocalInv

LEMMA AddThreadDataInv ==
  ASSUME LocalInv, NEW t \in Thread, AddThreadData(t)
  PROVE  LocalInv'
<1>0. /\ LocalType /\ IdsAreApart /\ HandlersAreOwned /\ ChainIsSound /\ EntriesAreOwned
      /\ CallsAreOwned /\ HandlersGotTheirs /\ StoredIsKept
  BY DEF LocalInv
<1>1. /\ ~Registered(t)
      /\ head_' = Append(head_, t) /\ entries' = [entries EXCEPT ![t] = <<>>]
      /\ UNCHANGED <<next_instance_id_, free_instance_ids_, state, id_, handler_map_, call,
                     scrape, out, by, unref>>
  BY DEF AddThreadData, idVars, ptrVars
<1>2. /\ entries' \in [Thread -> Seq(Ptr \cup {Null})] /\ entries'[t] = <<>>
      /\ \A u \in Thread : u # t => entries'[u] = entries[u]
  BY <1>0, <1>1, Emptied, Zenon
<1>3. entries[t] = <<>>
  BY <1>0, <1>1 DEF ChainIsSound
<1>4. \A u \in Thread, d \in Nat : At(u, d)' = At(u, d)
  <2>1. entries' = entries
    BY <1>1, <1>3, <1>0 DEF LocalType
  <2>2. QED
    BY <2>1, SameEntries
<1>5. /\ head_' \in Seq(Thread)
      /\ \A k, l \in 1..Len(head_') : head_'[k] = head_'[l] => k = l
      /\ \A u \in Thread : Registered(u)' <=> Registered(u) \/ u = t
  BY <1>0, <1>1, Entered
<1>6. LocalType'
  BY <1>0, <1>1, <1>2, <1>5, Zenon DEF LocalType
<1>7. ChainIsSound'
  BY <1>0, <1>2, <1>5, Zenon DEF ChainIsSound
<1>8. QED
  BY <1>0, <1>1, <1>4, <1>6, <1>7, IdsKept, HandlersKept, EntriesKept, CallsKept, StoredKept, Zenon
     DEF LocalInv

LEMMA ResizeInv ==
  ASSUME LocalInv, NEW t \in Thread, Resize(t)
  PROVE  LocalInv'
<1>0. /\ LocalType /\ IdsAreApart /\ HandlersAreOwned /\ ChainIsSound /\ EntriesAreOwned
      /\ CallsAreOwned /\ HandlersGotTheirs /\ StoredIsKept
  BY DEF LocalInv
<1>1. PICK id : id = id_[call[t].i]
  BY Zenon
<1>2. /\ Busy(t) /\ Registered(t)
      /\ id >= Len(entries[t])
      /\ entries' = [entries EXCEPT ![t] = [d \in 1..NewSize(id) |-> At(t, d - 1)]]
      /\ UNCHANGED <<next_instance_id_, free_instance_ids_, state, id_, handler_map_, head_,
                     call, scrape, out, by, unref>>
  BY <1>1, Zenon DEF Resize, idVars, ptrVars
<1>3. id \in Nat
  BY <1>0, <1>1, <1>2 DEF CallsAreOwned, LocalType
<1>4. /\ entries' \in [Thread -> Seq(Ptr \cup {Null})]
      /\ \A u \in Thread : u # t => entries'[u] = entries[u]
      /\ \A u \in Thread, d \in Nat : At(u, d)' = At(u, d)
  BY <1>0, <1>2, <1>3, Grown, Zenon
<1>5. LocalType'
  BY <1>0, <1>2, <1>4, Zenon DEF LocalType
<1>6. ChainIsSound'
  <2>1. \A u \in Thread : Registered(u)' <=> Registered(u)
    BY <1>2, SameChain
  <2>2. \A u \in Thread : ~Registered(u) => entries'[u] = <<>>
    BY <1>0, <1>2, <1>4, Zenon DEF ChainIsSound
  <2>3. QED
    BY <2>1, <2>2, <1>0, <1>2, Zenon DEF ChainIsSound
<1>7. QED
  BY <1>0, <1>2, <1>4, <1>5, <1>6, IdsKept, HandlersKept, EntriesKept, CallsKept, StoredKept
     DEF LocalInv

\* The call that ends gives its pointer back.
LEMMA CallsEnded ==
  ASSUME LocalInv, LocalAssumption, NEW t \in Thread, UNCHANGED <<state, unref>>,
         call' = [call EXCEPT ![t] = Idle],
         \A u \in Thread, p \in Ptr : u # t /\ call[u].p = p => out'[p] = "busy"
  PROVE  /\ call' \in [Thread -> [op : Op, i : Instance \cup {Null}, p : Ptr \cup {Null}]]
         /\ CallsAreOwned'
<1>0. /\ call \in [Thread -> [op : Op, i : Instance \cup {Null}, p : Ptr \cup {Null}]]
      /\ CallsAreOwned /\ Null \notin Ptr
  BY DEF LocalInv, LocalType, LocalAssumption
<1>1. call' \in [Thread -> [op : Op, i : Instance \cup {Null}, p : Ptr \cup {Null}]]
  BY <1>0 DEF Idle, Op
<1>2. /\ call'[t].p = Null /\ ~Busy(t)'
      /\ \A u \in Thread : u # t => call'[u] = call[u] /\ (Busy(u)' <=> Busy(u))
  BY <1>0, Zenon DEF Idle, Busy
<1>3. \A u \in Thread : Busy(u)' => call'[u].i \in Instance /\ state'[call'[u].i] = "live"
  BY <1>0, <1>2 DEF CallsAreOwned
<1>4. \A u \in Thread, p \in Ptr : call'[u].p = p => u # t /\ call[u].p = p
  BY <1>0, <1>2, Zenon
<1>5. \A u \in Thread, p \in Ptr : call'[u].p = p =>
        Busy(u)' /\ out'[p] = "busy" /\ unref'[p] = <<>>
  BY <1>0, <1>2, <1>4 DEF CallsAreOwned
<1>6. \A u, v \in Thread, p \in Ptr : call'[u].p = p /\ call'[v].p = p => u = v
  BY <1>0, <1>4, ZenonT(30) DEF CallsAreOwned
<1>7. QED
  BY <1>1, <1>3, <1>5, <1>6, Zenon DEF CallsAreOwned

\* Who has a pointer after one entry was written
HandedAs(back, p, what) ==
  /\ out' \in [Ptr -> {"mine", "busy", "stored"}]
  /\ \A q \in Ptr : out'[q] = IF q = p THEN what ELSE IF q \in back THEN "mine" ELSE out[q]

LEMMA HandedBack ==
  ASSUME LocalType, NEW back, NEW p, out' = Handed(back, p, FALSE)
  PROVE  HandedAs(back, p, "mine")
<1>1. \A q \in Ptr : out[q] \in {"mine", "busy", "stored"}
  BY DEF LocalType
<1>2. \A q \in Ptr : out'[q] = IF q = p THEN "mine" ELSE IF q \in back THEN "mine" ELSE out[q]
  BY Zenon DEF Handed
<1>3. \A q \in Ptr : out'[q] \in {"mine", "busy", "stored"}
  BY <1>1, <1>2, Zenon
<1>4. out' = [q \in Ptr |-> out'[q]]
  BY DEF Handed
<1>5. QED
  BY <1>2, <1>3, <1>4, Zenon DEF HandedAs

LEMMA HandedOver ==
  ASSUME LocalType, NEW back, NEW p, out' = Handed(back, p, TRUE)
  PROVE  HandedAs(back, p, "stored")
<1>1. \A q \in Ptr : out[q] \in {"mine", "busy", "stored"}
  BY DEF LocalType
<1>2. \A q \in Ptr : out'[q] = IF q = p THEN "stored" ELSE IF q \in back THEN "mine" ELSE out[q]
  BY Zenon DEF Handed
<1>3. \A q \in Ptr : out'[q] \in {"mine", "busy", "stored"}
  BY <1>1, <1>2, Zenon
<1>4. out' = [q \in Ptr |-> out'[q]]
  BY DEF Handed
<1>5. QED
  BY <1>2, <1>3, <1>4, Zenon DEF HandedAs

\* The operation stores nothing: the client has its pointer again.
Keeps(t, p) ==
  /\ out' = Handed({}, p, FALSE)
  /\ call' = [call EXCEPT ![t] = Idle]
  /\ UNCHANGED <<next_instance_id_, free_instance_ids_, state, id_, handler_map_, head_,
                 entries, scrape, by, unref>>

LEMMA OperateKeeps ==
  ASSUME LocalInv, LocalAssumption, NEW t \in Thread, NEW p, p = call[t].p, Keeps(t, p)
  PROVE  LocalInv'
<1>a. /\ call' = [call EXCEPT ![t] = Idle]
      /\ UNCHANGED <<next_instance_id_, free_instance_ids_, state, id_, handler_map_, head_,
                     entries, scrape, by, unref>>
  BY DEF Keeps
<1>0. /\ LocalType /\ IdsAreApart /\ HandlersAreOwned /\ ChainIsSound /\ EntriesAreOwned
      /\ CallsAreOwned /\ HandlersGotTheirs /\ StoredIsKept
  BY DEF LocalInv
<1>2. p \in Ptr \cup {Null}
  BY <1>0 DEF LocalType
<1>3. /\ out' \in [Ptr -> {"mine", "busy", "stored"}]
      /\ \A q \in Ptr : out'[q] = IF q = p THEN "mine" ELSE out[q]
  <2>1. out' = Handed({}, p, FALSE)
    BY Zenon DEF Keeps
  <2>2. HandedAs({}, p, "mine")
    BY <2>1, <1>0, HandedBack, Zenon
  <2>3. QED
    BY <2>2, Zenon DEF HandedAs
<1>4. p \in Ptr => out[p] = "busy" /\ unref[p] = <<>>
  BY <1>0, Zenon DEF CallsAreOwned
<1>5. \A u \in Thread, q \in Ptr : u # t /\ call[u].p = q => q # p /\ out'[q] = "busy"
  BY <1>0, <1>3 DEF CallsAreOwned
<1>6. /\ call' \in [Thread -> [op : Op, i : Instance \cup {Null}, p : Ptr \cup {Null}]]
      /\ CallsAreOwned'
  BY <1>5, <1>a, CallsEnded, Zenon
<1>7. LocalType'
  BY <1>0, <1>a, <1>3, <1>6, Zenon DEF LocalType
<1>8. \A u \in Thread, d \in Nat : At(u, d)' = At(u, d)
  BY <1>a, SameEntries, Zenon
<1>9. EntriesAreOwned' /\ HandlersGotTheirs' /\ StoredIsKept'
  <2>1. \A q \in Ptr : out[q] = "stored" <=> out'[q] = "stored"
    BY <1>3, <1>4, Zenon
  <2>2. EntriesAreOwned'
    <3>1. \A u \in Thread, d \in Nat, q \in Ptr : At(u, d)' = q =>
            /\ by'[q] \in Instance /\ state'[by'[q]] = "live" /\ id_'[by'[q]] = d
            /\ out'[q] = "stored" /\ unref'[q] = <<>>
      BY <2>1, <1>0, <1>8, <1>a DEF EntriesAreOwned
    <3>2. \A u, v \in Thread, d, e \in Nat, q \in Ptr :
            At(u, d)' = q /\ At(v, e)' = q => u = v
      BY <1>0, <1>8 DEF EntriesAreOwned
    <3>3. QED
      BY <3>1, <3>2, Zenon DEF EntriesAreOwned
  <2>3. QED
    BY <2>1, <2>2, <1>a, <1>0, <1>8 DEF HandlersGotTheirs, StoredIsKept
<1>10. QED
  BY <1>a, <1>0, <1>6, <1>7, <1>9, IdsKept, HandlersKept, ChainKept DEF LocalInv

\* The operation stores: the pointer of the call is in the entry, and a client has what
\* was there.
Stores(t, i, id, p) ==
  /\ id < Len(entries[t])
  /\ out' = Handed({At(t, id)}, p, TRUE)
  /\ entries' = [entries EXCEPT ![t][id + 1] = p]
  /\ by' = IF p # Null THEN [by EXCEPT ![p] = i] ELSE by
  /\ call' = [call EXCEPT ![t] = Idle]
  /\ UNCHANGED <<next_instance_id_, free_instance_ids_, state, id_, handler_map_, head_,
                 scrape, unref>>

LEMMA OperateStores ==
  ASSUME LocalInv, LocalAssumption, NEW t \in Thread, Busy(t),
         NEW p, p = call[t].p, NEW i, i = call[t].i, NEW id, id = id_[i], Stores(t, i, id, p)
  PROVE  LocalInv'
<1>a. /\ id < Len(entries[t]) /\ call' = [call EXCEPT ![t] = Idle]
      /\ UNCHANGED <<next_instance_id_, free_instance_ids_, state, id_, handler_map_, head_,
                     scrape, unref>>
  BY DEF Stores
<1>0. /\ LocalType /\ IdsAreApart /\ HandlersAreOwned /\ ChainIsSound /\ EntriesAreOwned
      /\ CallsAreOwned /\ HandlersGotTheirs /\ StoredIsKept
  BY DEF LocalInv
<1>3. p \in Ptr \cup {Null} /\ i \in Instance /\ state[i] = "live" /\ id = id_[i] /\ id \in Nat
      /\ Null \notin Ptr
  BY <1>0, Zenon DEF LocalType, CallsAreOwned, LocalAssumption
<1>4. PICK old : old = At(t, id)
  BY Zenon
<1>5. /\ out' \in [Ptr -> {"mine", "busy", "stored"}]
      /\ \A q \in Ptr : out'[q] = IF q = p THEN "stored" ELSE IF q = old THEN "mine" ELSE out[q]
  <2>1. out' = Handed({old}, p, TRUE)
    BY <1>4, Zenon DEF Stores
  <2>2. HandedAs({old}, p, "stored")
    BY <2>1, <1>0, HandedOver, Zenon
  <2>3. QED
    BY <2>2, Zenon DEF HandedAs
<1>6. /\ entries' \in [Thread -> Seq(Ptr \cup {Null})]
      /\ \A u \in Thread : entries[u] = <<>> => entries'[u] = <<>>
      /\ \A u \in Thread, d \in Nat :
           At(u, d)' = IF u = t /\ d = id THEN p ELSE At(u, d)
  <2>1. entries' = [entries EXCEPT ![t][id + 1] = p]
    BY Zenon DEF Stores
  <2>2. WrittenAs(t, id, p)
    BY <1>a, <2>1, <1>0, <1>3, Written, Zenon
  <2>3. QED
    BY <2>2 DEF WrittenAs
<1>7. by' \in [Ptr -> Instance \cup {Null}] /\ \A q \in Ptr : by'[q] = IF q = p THEN i ELSE by[q]
  <2>1. by \in [Ptr -> Instance \cup {Null}]
    BY <1>0 DEF LocalType
  <2>2. by' = IF p # Null THEN [by EXCEPT ![p] = i] ELSE by
    BY Zenon DEF Stores
  <2>3. QED
    BY <2>1, <2>2, <1>3
<1>8. p \in Ptr => out[p] = "busy" /\ unref[p] = <<>>
  BY <1>0, Zenon DEF CallsAreOwned
\* The pointer was in no entry.
<1>9. \A u \in Thread, d \in Nat, q \in Ptr : At(u, d) = q => q # p
  BY <1>0, <1>8 DEF EntriesAreOwned
\* What was in the entry is in no other.
<1>10. \A u \in Thread, d \in Nat, q \in Ptr : At(u, d) = q /\ q = old => u = t /\ d = id
  BY <1>0, <1>3, <1>4 DEF EntriesAreOwned
<1>11. \A q \in Ptr : q = old => out[q] = "stored" /\ unref[q] = <<>>
  BY <1>0, <1>3, <1>4 DEF EntriesAreOwned
<1>12. \A u \in Thread, q \in Ptr : u # t /\ call[u].p = q => out'[q] = "busy"
  <2>1. \A u \in Thread, q \in Ptr : u # t /\ call[u].p = q => q # p /\ out[q] = "busy"
    BY <1>0, Zenon DEF CallsAreOwned
  <2>2. \A q \in Ptr : out[q] = "busy" => q # old
    BY <1>11
  <2>3. QED
    BY <2>1, <2>2, <1>5, Zenon
<1>13. /\ call' \in [Thread -> [op : Op, i : Instance \cup {Null}, p : Ptr \cup {Null}]]
       /\ CallsAreOwned'
  BY <1>a, <1>12, CallsEnded, Zenon
<1>14. LocalType'
  BY <1>a, <1>0, <1>5, <1>6, <1>7, <1>13, Zenon DEF LocalType
<1>15. \A u \in Thread, d \in Nat, q \in Ptr : At(u, d)' = q =>
         \/ u = t /\ d = id /\ q = p
         \/ At(u, d) = q /\ q # p /\ q # old
  BY <1>6, <1>9, <1>10
<1>16. EntriesAreOwned'
  <2>1. \A u \in Thread, d \in Nat, q \in Ptr : At(u, d)' = q =>
          /\ by'[q] \in Instance /\ state'[by'[q]] = "live" /\ id_'[by'[q]] = d
          /\ out'[q] = "stored" /\ unref'[q] = <<>>
    <3> SUFFICES ASSUME NEW u \in Thread, NEW d \in Nat, NEW q \in Ptr, At(u, d)' = q
                 PROVE  /\ by'[q] \in Instance /\ state'[by'[q]] = "live" /\ id_'[by'[q]] = d
                        /\ out'[q] = "stored" /\ unref'[q] = <<>>
      BY Zenon
    <3>1. CASE u = t /\ d = id /\ q = p
      BY <1>a, <3>1, <1>3, <1>5, <1>7, <1>8, Zenon
    <3>2. CASE At(u, d) = q /\ q # p /\ q # old
      <4>1. /\ by[q] \in Instance /\ state[by[q]] = "live" /\ id_[by[q]] = d
            /\ out[q] = "stored" /\ unref[q] = <<>>
        BY <3>2, <1>0 DEF EntriesAreOwned
      <4>2. by'[q] = by[q] /\ out'[q] = out[q]
        BY <3>2, <1>5, <1>7, Zenon
      <4>3. QED
        BY <1>a, <4>1, <4>2, Zenon
    <3>3. QED
      BY <3>1, <3>2, <1>15, Zenon
  <2>2. \A u, v \in Thread, d, e \in Nat, q \in Ptr :
          At(u, d)' = q /\ At(v, e)' = q => u = v
    BY <1>0, <1>15 DEF EntriesAreOwned
  <2>3. QED
    BY <2>1, <2>2, Zenon DEF EntriesAreOwned
<1>17. HandlersGotTheirs'
  BY <1>a, <1>0, <1>5, <1>7, <1>8, <1>11, Zenon DEF HandlersGotTheirs
<1>18. StoredIsKept'
  <2> SUFFICES ASSUME NEW q \in Ptr, out'[q] = "stored", by'[q] \in HasHandler, unref'[q] = <<>>
               PROVE  \E u \in Thread, d \in Nat : At(u, d)' = q
    BY Zenon DEF StoredIsKept
  <2>1. CASE q = p
    <3>1. At(t, id)' = q
      BY <2>1, <1>3, <1>6, Zenon
    <3>2. QED
      BY <3>1, <1>3, Zenon
  <2>2. CASE q # p
    <3>1. q # old /\ out[q] = "stored" /\ by[q] \in HasHandler /\ unref[q] = <<>>
      BY <1>a, <2>2, <1>5, <1>7, Zenon
    <3>2. PICK u \in Thread, d \in Nat : At(u, d) = q
      BY <3>1, <1>0, Zenon DEF StoredIsKept
    <3>3. At(u, d)' = q
      BY <3>1, <3>2, <1>4, <1>6
    <3>4. QED
      BY <3>3, Zenon
  <2>3. QED
    BY <2>1, <2>2
<1>19. QED
  BY <1>a, <1>0, <1>6, <1>13, <1>14, <1>16, <1>17, <1>18, IdsKept, HandlersKept, ChainKept, Zenon DEF LocalInv

LEMMA OperateInv ==
  ASSUME LocalInv, LocalAssumption, NEW t \in Thread, Operate(t)
  PROVE  LocalInv'
<1>1. PICK id : id = id_[call[t].i]
  BY Zenon
<1>2. /\ Busy(t)
      /\ call[t].op = "Get" \/ id < Len(entries[t])
      /\ call' = [call EXCEPT ![t] = Idle]
      /\ UNCHANGED <<next_instance_id_, free_instance_ids_, state, id_, handler_map_, head_,
                     scrape, unref>>
  BY <1>1, Zenon DEF Operate, idVars
<1>3. PICK stores \in IF call[t].op = "Get" THEN {FALSE}
                      ELSE IF call[t].op = "CompareAndSwap" THEN BOOLEAN ELSE {TRUE} :
        /\ out' = Handed(IF stores THEN {At(t, id)} ELSE {}, call[t].p, stores)
        /\ entries' = IF stores THEN [entries EXCEPT ![t][id + 1] = call[t].p] ELSE entries
        /\ by' = IF stores /\ call[t].p # Null THEN [by EXCEPT ![call[t].p] = call[t].i] ELSE by
  BY <1>1, Zenon DEF Operate
<1>4. stores \in BOOLEAN /\ (stores => call[t].op # "Get")
  BY <1>3, Zenon
<1>5. CASE stores = TRUE
  <2>1. /\ out' = Handed({At(t, id)}, call[t].p, TRUE)
        /\ entries' = [entries EXCEPT ![t][id + 1] = call[t].p]
        /\ by' = IF call[t].p # Null THEN [by EXCEPT ![call[t].p] = call[t].i] ELSE by
    BY <1>3, <1>5, Zenon
  <2>2. id < Len(entries[t])
    BY <1>2, <1>4, <1>5, Zenon
  <2>3. QED
    BY <2>1, <2>2, <1>1, <1>2, OperateStores, Zenon DEF Stores
<1>6. CASE stores = FALSE
  <2>1. out' = Handed({}, call[t].p, FALSE) /\ entries' = entries /\ by' = by
    BY <1>3, <1>6, Zenon
  <2>2. QED
    BY <2>1, <1>2, OperateKeeps, Zenon DEF Keeps
<1>7. QED
  BY <1>4, <1>5, <1>6, Zenon

\* Scrape and the exit of a thread
LEMMA ScrapeInv ==
  ASSUME LocalInv, LocalAssumption, NEW t \in Thread, NEW i \in Instance, Scrape(t, i)
  PROVE  LocalInv'
<1>0. /\ LocalType /\ IdsAreApart /\ HandlersAreOwned /\ ChainIsSound /\ EntriesAreOwned
      /\ CallsAreOwned /\ HandlersGotTheirs /\ StoredIsKept
  BY DEF LocalInv
<1>1. /\ call[t] = Idle
      /\ call' = [call EXCEPT ![t] = [op |-> "Scrape", i |-> i, p |-> Null]]
      /\ scrape' = [i |-> i, todo |-> head_]
      /\ UNCHANGED <<next_instance_id_, free_instance_ids_, state, id_, handler_map_, head_,
                     entries, out, by, unref>>
  BY Zenon DEF Scrape, idVars, ptrVars
<1>2. /\ call \in [Thread -> [op : Op, i : Instance \cup {Null}, p : Ptr \cup {Null}]]
      /\ head_ \in Seq(Thread) /\ Null \notin Ptr
  BY <1>0, Zenon DEF LocalType, LocalAssumption
<1>3. /\ call'[t].p = Null /\ ~Busy(t)'
      /\ \A u \in Thread : u # t => call'[u] = call[u] /\ (Busy(u)' <=> Busy(u))
  BY <1>1, <1>2 DEF Busy
<1>4. LocalType'
  <2>1. call' \in [Thread -> [op : Op, i : Instance \cup {Null}, p : Ptr \cup {Null}]]
    BY <1>1, <1>2, Zenon DEF Op
  <2>2. scrape' \in [i : Instance \cup {Null}, todo : Seq(Thread)] /\ scrape'.i \in Instance
    BY <1>1, <1>2, Zenon
  <2>3. QED
    BY <2>1, <2>2, <1>0, <1>1, Zenon DEF LocalType
<1>5. CallsAreOwned'
  <2>1. state' = state /\ out' = out /\ unref' = unref
    BY <1>1, Zenon
  <2>2. \A u \in Thread, p \in Ptr : call'[u].p = p => u # t /\ call[u].p = p
    BY <1>2, <1>3, Zenon
  <2>3. \A u \in Thread : Busy(u)' => u # t /\ Busy(u) /\ call'[u] = call[u]
    BY <1>3, Zenon
  <2>4. ASSUME NEW u \in Thread, Busy(u)' PROVE call'[u].i \in Instance /\ state'[call'[u].i] = "live"
    <3>1. call[u].i \in Instance /\ state[call[u].i] = "live"
      BY <1>0, <2>3, <2>4, Zenon DEF CallsAreOwned
    <3>2. call'[u] = call[u]
      BY <2>3, <2>4, Zenon
    <3>3. QED
      BY <2>1, <3>1, <3>2, Zenon
  <2>5. \A u \in Thread, p \in Ptr : call'[u].p = p => Busy(u)' /\ out'[p] = "busy" /\ unref'[p] = <<>>
    BY <1>0, <1>3, <2>1, <2>2, ZenonT(30) DEF CallsAreOwned
  <2>6. \A u, v \in Thread, p \in Ptr : call'[u].p = p /\ call'[v].p = p => u = v
    BY <1>0, <2>2, ZenonT(30) DEF CallsAreOwned
  <2>7. QED
    BY <2>4, <2>5, <2>6, Zenon DEF CallsAreOwned
<1>6. \A u \in Thread, d \in Nat : At(u, d)' = At(u, d)
  BY <1>1, SameEntries
<1>7. QED
  BY <1>0, <1>1, <1>4, <1>5, <1>6, IdsKept, HandlersKept, ChainKept, EntriesKept, StoredKept, Zenon
     DEF LocalInv

\* The entry is empty and its pointer the client's; the others are where they were.
LEMMA ScrapeEntryInv ==
  ASSUME LocalInv, LocalAssumption, ScrapeEntry
  PROVE  LocalInv'
<1>0. /\ LocalType /\ IdsAreApart /\ HandlersAreOwned /\ ChainIsSound /\ EntriesAreOwned
      /\ CallsAreOwned /\ HandlersGotTheirs /\ StoredIsKept
  BY DEF LocalInv
<1>1. PICK t, id : t = Head(scrape.todo) /\ id = id_[scrape.i]
  BY Zenon
<1>2. /\ scrape.todo # <<>> /\ scrape' = [scrape EXCEPT !.todo = Tail(@)]
      /\ UNCHANGED <<next_instance_id_, free_instance_ids_, state, id_, handler_map_, head_,
                     call, by, unref>>
  BY DEF ScrapeEntry, idVars
<1>3. IF id < Len(entries[t])
      THEN /\ out' = Handed({At(t, id)}, Null, FALSE)
           /\ entries' = [entries EXCEPT ![t][id + 1] = Null]
      ELSE UNCHANGED <<out, entries>>
  BY <1>1, Zenon DEF ScrapeEntry
<1>4. scrape \in [i : Instance \cup {Null}, todo : Seq(Thread)] /\ scrape.i \in Instance
  BY <1>0, <1>2 DEF LocalType
<1>5. t \in Thread /\ id \in Nat
  BY <1>0, <1>1, <1>2, <1>4 DEF LocalType
<1>6. scrape' \in [i : Instance \cup {Null}, todo : Seq(Thread)] /\ scrape'.i = scrape.i
  <2>1. scrape.todo \in Seq(Thread)
    BY <1>4
  <2>2. PICK rest : rest = Tail(scrape.todo)
    BY Zenon
  <2>3. rest \in Seq(Thread)
    BY <2>1, <2>2, <1>2
  <2>4. scrape' = [scrape EXCEPT !.todo = rest]
    BY <2>2, <1>2
  <2>5. QED
    BY <2>3, <2>4, <1>4
<1>7. CASE ~(id < Len(entries[t]))
  <2>1. UNCHANGED <<out, entries>>
    BY <1>3, <1>7, Zenon
  <2>2. LocalType'
    BY <2>1, <1>0, <1>2, <1>4, <1>6, Zenon DEF LocalType
  <2>3. \A u \in Thread, d \in Nat : At(u, d)' = At(u, d)
    BY <2>1, SameEntries
  <2>4. QED
    BY <2>1, <2>2, <2>3, <1>0, <1>2, IdsKept, HandlersKept, ChainKept, EntriesKept, CallsKept,
       StoredKept DEF LocalInv
<1>8. CASE id < Len(entries[t])
  <2>1. PICK old : old = At(t, id)
    BY Zenon
  <2>2. Null \notin Ptr
    BY DEF LocalAssumption
  <2>3. /\ out' \in [Ptr -> {"mine", "busy", "stored"}]
        /\ \A q \in Ptr : out'[q] = IF q = old THEN "mine" ELSE out[q]
    <3>1. out' = Handed({old}, Null, FALSE)
      BY <2>1, <1>3, <1>8, Zenon
    <3>2. HandedAs({old}, Null, "mine")
      BY <3>1, <1>0, HandedBack, Zenon
    <3>3. QED
      BY <3>2, <2>2 DEF HandedAs
  <2>4. /\ entries' \in [Thread -> Seq(Ptr \cup {Null})]
        /\ \A u \in Thread : entries[u] = <<>> => entries'[u] = <<>>
        /\ \A u \in Thread, d \in Nat :
             At(u, d)' = IF u = t /\ d = id THEN Null ELSE At(u, d)
    <3>1. entries' = [entries EXCEPT ![t][id + 1] = Null] /\ Null \in Ptr \cup {Null}
      BY <1>3, <1>8, Zenon
    <3>2. WrittenAs(t, id, Null)
      BY <3>1, <1>0, <1>5, <1>8, Written, Zenon
    <3>3. QED
      BY <3>2 DEF WrittenAs
  <2>5. LocalType'
    BY <2>3, <2>4, <1>0, <1>2, <1>4, <1>6, Zenon DEF LocalType
  <2>6. \A q \in Ptr : q = old => out[q] = "stored" /\ unref[q] = <<>>
    BY <2>1, <1>0, <1>5 DEF EntriesAreOwned
  <2>7. \A u \in Thread, d \in Nat, q \in Ptr : At(u, d) = q /\ q = old => u = t /\ d = id
    BY <2>1, <1>0, <1>5 DEF EntriesAreOwned
  <2>8. \A u \in Thread, d \in Nat, q \in Ptr :
          At(u, d)' = q => At(u, d) = q /\ q # old
    BY <2>2, <2>4, <2>7
  <2>9. EntriesAreOwned'
    <3>1. \A u \in Thread, d \in Nat, q \in Ptr : At(u, d)' = q =>
            /\ by[q] \in Instance /\ state[by[q]] = "live" /\ id_[by[q]] = d
            /\ out'[q] = "stored" /\ unref[q] = <<>>
      BY <2>3, <2>8, <1>0 DEF EntriesAreOwned
    <3>2. \A u, v \in Thread, d, e \in Nat, q \in Ptr :
            At(u, d)' = q /\ At(v, e)' = q => u = v
      BY <2>8, <1>0 DEF EntriesAreOwned
    <3>3. QED
      BY <3>1, <3>2, <1>2 DEF EntriesAreOwned
  <2>10. CallsAreOwned'
    <3>1. \A u \in Thread : Busy(u)' <=> Busy(u)
      BY <1>2, Zenon DEF Busy
    <3>2. \A q \in Ptr : out[q] = "busy" => out'[q] = "busy"
      BY <2>3, <2>6
    <3>3. QED
      BY <3>1, <3>2, <1>0, <1>2, Zenon DEF CallsAreOwned
  <2>11. HandlersGotTheirs'
    BY <2>3, <2>6, <1>0, <1>2 DEF HandlersGotTheirs
  <2>12. StoredIsKept'
    <3> SUFFICES ASSUME NEW q \in Ptr, out'[q] = "stored", by[q] \in HasHandler, unref[q] = <<>>
                 PROVE  \E u \in Thread, d \in Nat : At(u, d)' = q
      BY <1>2, Zenon DEF StoredIsKept
    <3>1. q # old /\ out[q] = "stored"
      BY <2>3
    <3>2. PICK u \in Thread, d \in Nat : At(u, d) = q
      BY <3>1, <1>0, Zenon DEF StoredIsKept
    <3>3. At(u, d)' = q
      BY <3>1, <3>2, <2>1, <2>4, Zenon
    <3>4. QED
      BY <3>3
  <2>13. QED
    BY <2>4, <2>5, <2>9, <2>10, <2>11, <2>12, <1>0, <1>2, IdsKept, HandlersKept, ChainKept, Zenon
       DEF LocalInv
<1>9. QED
  BY <1>7, <1>8

LEMMA ScrapeReturnsInv ==
  ASSUME LocalInv, LocalAssumption, NEW t \in Thread, ScrapeReturns(t)
  PROVE  LocalInv'
<1>0. /\ LocalType /\ IdsAreApart /\ HandlersAreOwned /\ ChainIsSound /\ EntriesAreOwned
      /\ CallsAreOwned /\ HandlersGotTheirs /\ StoredIsKept
  BY DEF LocalInv
<1>1. /\ scrape' = NoScrape /\ call' = [call EXCEPT ![t] = Idle]
      /\ UNCHANGED <<next_instance_id_, free_instance_ids_, state, id_, handler_map_, head_,
                     entries, out, by, unref>>
  BY Zenon DEF ScrapeReturns, idVars, ptrVars
<1>2. \A u \in Thread, p \in Ptr : u # t /\ call[u].p = p => out'[p] = "busy"
  BY <1>0, <1>1, Zenon DEF CallsAreOwned
<1>3. /\ call' \in [Thread -> [op : Op, i : Instance \cup {Null}, p : Ptr \cup {Null}]]
      /\ CallsAreOwned'
  BY <1>1, <1>2, CallsEnded, Zenon
<1>4. scrape' \in [i : Instance \cup {Null}, todo : Seq(Thread)] /\ scrape'.todo = <<>>
  BY <1>1 DEF NoScrape
<1>5. LocalType'
  BY <1>0, <1>1, <1>3, <1>4, Zenon DEF LocalType
<1>6. \A u \in Thread, d \in Nat : At(u, d)' = At(u, d)
  BY <1>1, SameEntries
<1>7. QED
  BY <1>0, <1>1, <1>3, <1>5, <1>6, IdsKept, HandlersKept, ChainKept, EntriesKept, StoredKept, Zenon
     DEF LocalInv

LEMMA OnThreadExitInv ==
  ASSUME LocalInv, LocalAssumption, NEW t \in Thread, OnThreadExit(t)
  PROVE  LocalInv'
<1>0. /\ LocalType /\ IdsAreApart /\ HandlersAreOwned /\ ChainIsSound /\ EntriesAreOwned
      /\ CallsAreOwned /\ HandlersGotTheirs /\ StoredIsKept
  BY DEF LocalInv
<1>1. /\ Registered(t) /\ head_' = RemoveThreadData(t)
      /\ Unref(LeftBehind(t))
      /\ entries' = [entries EXCEPT ![t] = <<>>]
      /\ UNCHANGED <<next_instance_id_, free_instance_ids_, state, id_, handler_map_, call,
                     scrape, out, by>>
  BY DEF OnThreadExit, idVars
<1>2. /\ entries' \in [Thread -> Seq(Ptr \cup {Null})] /\ entries'[t] = <<>>
      /\ \A u \in Thread : u # t => entries'[u] = entries[u]
      /\ \A u \in Thread, d \in Nat : At(u, d)' = IF u = t THEN Null ELSE At(u, d)
  BY <1>0, <1>1, Emptied, Zenon
<1>3. /\ head_' \in Seq(Thread)
      /\ \A k, l \in 1..Len(head_') : head_'[k] = head_'[l] => k = l
      /\ \A u \in Thread : Registered(u)' <=> Registered(u) /\ u # t
  BY <1>0, <1>1, Left
<1>4. \A p \in Ptr : unref'[p] = IF (\E d \in Nat : At(t, d) = p) /\ by[p] \in HasHandler
                                 THEN <<by[p]>> ELSE unref[p]
  BY <1>1, GivenAtExit, Zenon
<1>5. unref' \in [Ptr -> Seq(Instance)]
  <2>1. unref' = [p \in Ptr |-> unref'[p]]
    BY <1>1, UnrefIsFunction
  <2>2. \A p \in Ptr : unref'[p] \in Seq(Instance)
    <3>1. TAKE p \in Ptr
    <3>2. unref[p] \in Seq(Instance)
      BY <1>0, Zenon DEF LocalType
    <3>3. by[p] \in HasHandler => <<by[p]>> \in Seq(Instance)
      BY DEF LocalAssumption
    <3>4. QED
      BY <1>4, <3>2, <3>3, Zenon
  <2>3. QED
    BY <2>1, <2>2, Zenon
<1>6. LocalType'
  BY <1>0, <1>1, <1>2, <1>3, <1>5, Zenon DEF LocalType
<1>7. ChainIsSound'
  BY <1>0, <1>2, <1>3, Zenon DEF ChainIsSound
<1>8. ASSUME NEW u \in Thread, NEW d \in Nat, NEW p \in Ptr, At(u, d)' = p
      PROVE  At(u, d) = p /\ unref'[p] = <<>>
  <2>1. u # t /\ At(u, d) = p
    BY <1>2, <1>8, ZenonT(30) DEF LocalAssumption
  <2>2. ~\E e \in Nat : At(t, e) = p
    BY <2>1, <1>0, OwnerOfEntry
  <2>3. unref[p] = <<>>
    BY <2>1, <1>0, OwnerOfEntry
  <2>4. QED
    BY <2>1, <2>2, <2>3, <1>4, Zenon
<1>9. EntriesAreOwned'
  <2>1. \A u \in Thread, d \in Nat, p \in Ptr :
          At(u, d)' = p => At(u, d) = p /\ unref'[p] = <<>>
    BY <1>8, Zenon
  <2>2. \A u, v \in Thread, d, e \in Nat, p \in Ptr :
          At(u, d)' = p /\ At(v, e)' = p => u = v
    BY <2>1, <1>0, OwnerOfEntry
  <2>3. ASSUME NEW u \in Thread, NEW d \in Nat, NEW p \in Ptr, At(u, d)' = p
        PROVE  /\ by'[p] \in Instance /\ state'[by'[p]] = "live" /\ id_'[by'[p]] = d
               /\ out'[p] = "stored" /\ unref'[p] = <<>>
    <3>1. by' = by /\ state' = state /\ id_' = id_ /\ out' = out
      BY <1>1, Zenon
    <3>2. At(u, d) = p /\ unref'[p] = <<>>
      BY <2>1, <2>3, Zenon
    <3>3. by[p] \in Instance /\ state[by[p]] = "live" /\ id_[by[p]] = d /\ out[p] = "stored"
      BY <3>2, <1>0, OwnerOfEntry
    <3>4. QED
      BY <3>1, <3>2, <3>3, Zenon
  <2>4. QED
    BY <2>2, <2>3, Zenon DEF EntriesAreOwned
<1>10. CallsAreOwned'
  <2>1. \A u \in Thread : Busy(u)' <=> Busy(u)
    BY <1>1, Zenon DEF Busy
  <2>2. \A p \in Ptr : out[p] = "busy" => unref'[p] = unref[p]
    <3>1. \A p \in Ptr : out[p] = "busy" => ~\E d \in Nat : At(t, d) = p
      BY <1>0 DEF EntriesAreOwned
    <3>2. QED
      BY <3>1, <1>4, Zenon
  <2>3. QED
    BY <2>1, <2>2, <1>0, <1>1, Zenon DEF CallsAreOwned
<1>11. HandlersGotTheirs'
  <2> SUFFICES ASSUME NEW p \in Ptr, unref'[p] # <<>>
               PROVE  unref'[p] = <<by[p]>> /\ by[p] \in Instance /\ out[p] = "stored"
    BY <1>1 DEF HandlersGotTheirs
  <2>1. CASE (\E d \in Nat : At(t, d) = p) /\ by[p] \in HasHandler
    <3>1. unref'[p] = <<by[p]>>
      BY <2>1, <1>4, Zenon
    <3>2. by[p] \in Instance /\ out[p] = "stored"
      BY <2>1, <1>0 DEF EntriesAreOwned
    <3>3. QED
      BY <3>1, <3>2
  <2>2. CASE ~((\E d \in Nat : At(t, d) = p) /\ by[p] \in HasHandler)
    BY <2>2, <1>0, <1>4, Zenon DEF HandlersGotTheirs
  <2>3. QED
    BY <2>1, <2>2, Zenon
<1>12. StoredIsKept'
  <2> SUFFICES ASSUME NEW p \in Ptr, out[p] = "stored", by[p] \in HasHandler, unref'[p] = <<>>
               PROVE  \E u \in Thread, d \in Nat : At(u, d)' = p
    BY <1>1, Zenon DEF StoredIsKept
  <2>0. <<by[p]>> # <<>>
    OBVIOUS
  <2>1. ~(\E d \in Nat : At(t, d) = p) /\ unref[p] = <<>>
    BY <2>0, <1>4, Zenon
  <2>2. PICK u \in Thread, d \in Nat : At(u, d) = p
    BY <2>1, <1>0, Zenon DEF StoredIsKept
  <2>3. At(u, d)' = p
    BY <2>1, <2>2, <1>2
  <2>4. QED
    BY <2>3
<1>13. QED
  BY <1>0, <1>1, <1>6, <1>7, <1>9, <1>10, <1>11, <1>12, IdsKept, HandlersKept, Zenon DEF LocalInv

LEMMA LocalInitInv ==
  ASSUME LocalAssumption, Init
  PROVE  LocalInv
<1>1. LocalType
  BY DEF Init, LocalType, NoScrape, Idle, Op
<1>2. \A t \in Thread, d \in Nat : At(t, d) = Null
  BY DEF Init, At
<1>3. \A d \in Nat : GetHandler(d) = Null
  BY DEF Init, GetHandler
<1>4. IdsAreApart /\ HandlersAreOwned
  <2>1. \A i \in Instance : state[i] = "none" /\ i # Null
    BY DEF Init, LocalAssumption
  <2>2. free_instance_ids_ = <<>> /\ Len(free_instance_ids_) = 0
    BY DEF Init
  <2>3. QED
    BY <2>1, <2>2, <1>3 DEF IdsAreApart, HandlersAreOwned, Owns
<1>5. ChainIsSound
  BY DEF Init, ChainIsSound
<1>6. EntriesAreOwned
  BY <1>2 DEF EntriesAreOwned, LocalAssumption
<1>7. CallsAreOwned
  BY DEF Init, CallsAreOwned, Busy, Idle, LocalAssumption
<1>8. HandlersGotTheirs /\ StoredIsKept
  BY DEF Init, HandlersGotTheirs, StoredIsKept
<1>9. QED
  BY <1>1, <1>4, <1>5, <1>6, <1>7, <1>8, Zenon DEF LocalInv

\* Every step of every thread and instance keeps the invariant.
LEMMA LocalNextInv ==
  ASSUME LocalAssumption, LocalInv, [Next]_vars
  PROVE  LocalInv'
<1>1. CASE Next
  BY <1>1, GetIdInv, SetHandlerInv, ReclaimIdInv, ScrapeInv, BeginInv, AddThreadDataInv, ResizeInv,
     OperateInv, ScrapeReturnsInv, OnThreadExitInv, ScrapeEntryInv, Zenon DEF Next
<1>2. CASE UNCHANGED vars
  <2>1. UNCHANGED <<next_instance_id_, free_instance_ids_, handler_map_, head_, entries, state, id_,
                    call, scrape, out, by, unref>>
    BY <1>2 DEF vars
  <2>2. \A t \in Thread, d \in Nat : At(t, d)' = At(t, d)
    BY <2>1, SameEntries
  <2>3. LocalType'
    BY <2>1, Zenon DEF LocalType, LocalInv
  <2>4. QED
    BY <2>1, <2>2, <2>3, IdsKept, HandlersKept, ChainKept, EntriesKept, CallsKept, StoredKept, Zenon
       DEF LocalInv
<1>3. QED
  BY <1>1, <1>2

\* A slot of a pointer is an entry that holds it.
LEMMA SlotIsEntry ==
  ASSUME LocalType, LocalAssumption, NEW p \in Ptr, NEW slot
  PROVE  slot \in Slots(p) <=>
           \E t \in Thread, d \in Nat : slot = <<t, d>> /\ At(t, d) = p
<1>1. ASSUME NEW t \in Thread, NEW d \in Nat, At(t, d) = p
      PROVE  d \in 0..(Len(entries[t]) - 1)
  <2>1. p # Null
    BY DEF LocalAssumption
  <2>2. d < Len(entries[t])
    BY <1>1, <2>1, Zenon DEF At
  <2>3. entries[t] \in Seq(Ptr \cup {Null})
    BY DEF LocalType
  <2>4. QED
    BY <2>2, <2>3
<1>2. \A t \in Thread : 0..(Len(entries[t]) - 1) \subseteq Nat
  BY DEF LocalType
<1>3. slot \in Slots(p) <=>
        \E t \in Thread : \E d \in 0..(Len(entries[t]) - 1) : At(t, d) = p /\ slot = <<t, d>>
  BY DEF Slots
<1>4. QED
  BY <1>1, <1>2, <1>3, Zenon

\* The invariant is what the run checks.
LEMMA LocalIsSafe ==
  ASSUME LocalAssumption, LocalInv
  PROVE  InstancesAreApart /\ NothingLeaks
<1>0. LocalType /\ EntriesAreOwned /\ HandlersGotTheirs /\ StoredIsKept /\ ChainIsSound
  BY DEF LocalInv
<1>1. ASSUME NEW p \in Ptr, NEW slot \in Slots(p)
      PROVE  /\ by[p] \in Instance /\ state[by[p]] = "live" /\ id_[by[p]] = slot[2]
             /\ Registered(slot[1]) /\ out[p] = "stored" /\ unref[p] = <<>>
  <2>1. PICK t \in Thread, d \in Nat : slot = <<t, d>> /\ At(t, d) = p
    BY <1>0, <1>1, SlotIsEntry, Zenon
  <2>2. /\ by[p] \in Instance /\ state[by[p]] = "live" /\ id_[by[p]] = d
        /\ out[p] = "stored" /\ unref[p] = <<>>
    BY <2>1, <1>0 DEF EntriesAreOwned
  <2>3. Registered(t)
    <3>1. p # Null
      BY DEF LocalAssumption
    <3>2. d < Len(entries[t])
      BY <2>1, <3>1, Zenon DEF At
    <3>3. Len(<<>>) = 0
      OBVIOUS
    <3>4. entries[t] # <<>>
      BY <3>2, <3>3
    <3>5. QED
      BY <3>4, <1>0, Zenon DEF ChainIsSound
  <2>4. slot[1] = t /\ slot[2] = d
    BY <2>1
  <2>5. QED
    BY <2>2, <2>3, <2>4
<1>2. \A p \in Ptr : unref[p] # <<>> => unref[p] = <<by[p]>> /\ Slots(p) = {}
  BY <1>0, <1>1, Zenon DEF HandlersGotTheirs
<1>3. InstancesAreApart
  BY <1>1, <1>2, Zenon DEF InstancesAreApart
<1>4. ASSUME NEW p \in Ptr, out[p] = "stored", by[p] \in HasHandler, unref[p] = <<>>
      PROVE  \E slot \in Slots(p) : Slots(p) = {slot}
  <2>1. PICK t \in Thread, d \in Nat : At(t, d) = p
    BY <1>0, <1>4 DEF StoredIsKept
  <2>2. <<t, d>> \in Slots(p)
    BY <2>1, <1>0, SlotIsEntry
  <2>3. ASSUME NEW slot \in Slots(p) PROVE slot = <<t, d>>
    <3>1. PICK u \in Thread, e \in Nat : slot = <<u, e>> /\ At(u, e) = p
      BY <2>3, <1>0, SlotIsEntry, Zenon
    <3>2. u = t /\ e = d
      BY <2>1, <3>1, <1>0 DEF EntriesAreOwned
    <3>3. QED
      BY <3>1, <3>2
  <2>4. QED
    BY <2>2, <2>3, Zenon
<1>5. NothingLeaks
  <2> SUFFICES ASSUME NEW p \in Ptr, out[p] = "stored", by[p] \in HasHandler
               PROVE  \/ unref[p] = <<>> /\ \E slot \in Slots(p) : Slots(p) = {slot}
                      \/ Len(unref[p]) = 1 /\ Slots(p) = {}
    BY Zenon DEF NothingLeaks
  <2>1. CASE unref[p] = <<>>
    BY <2>1, <1>4, Zenon
  <2>2. CASE unref[p] # <<>>
    <3>1. unref[p] = <<by[p]>> /\ Slots(p) = {}
      BY <2>2, <1>2, Zenon
    <3>2. Len(<<by[p]>>) = 1
      OBVIOUS
    <3>3. QED
      BY <3>1, <3>2, Zenon
  <2>3. QED
    BY <2>1, <2>2
<1>6. QED
  BY <1>3, <1>5

=============================================================================
