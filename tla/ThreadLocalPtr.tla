---------------------------- MODULE ThreadLocalPtr ----------------------------
(***************************************************************************)
(* ThreadLocalPtr (rutil/thread_local.cc): instances share, in each thread, *)
(* one vector of pointers that is indexed by the id of the instance; ids    *)
(* are reused.  A pointer left in a vector is given to the instance's       *)
(* handler when its thread exits or the instance is destroyed.              *)
(*                                                                          *)
(* A call of a thread takes the steps between which other threads may act:  *)
(* registration and growth of the vector under the mutex, then one atomic   *)
(* operation on the entry without it.  Scrape keeps the mutex and goes from *)
(* thread to thread, while their owners use the entries.                    *)
(***************************************************************************)
EXTENDS Naturals, Sequences, FiniteSets, Functions

CONSTANTS
  Thread,
  Instance,      \* the ThreadLocalPtr objects, each of them made once
  HasHandler,    \* the instances that are made with a handler
  Ptr,           \* the pointers that clients store
  Null

\* nullptr is no pointer of a client.
LocalAssumption == HasHandler \subseteq Instance /\ Null \notin Ptr /\ Null \notin Instance

VARIABLES
  next_instance_id_,
  free_instance_ids_,   \* a stack
  handler_map_,         \* per id: the instance whose handler is registered, or Null
  head_,                \* the chain of the threads that have a ThreadData
  entries,              \* per thread: its vector
  state,                \* per instance: "none", "named" (it has an id), "live", "dead"
  id_,                  \* per instance: its id
  call,                 \* per thread: the call it makes
  scrape,               \* the Scrape that has the mutex
  out,                  \* per pointer, for its client: "mine", "busy" (in a call), "stored"
  by,                   \* per pointer: the instance it was stored through last
  unref                 \* per pointer: the instances whose handlers it was given to

vars == <<next_instance_id_, free_instance_ids_, handler_map_, head_, entries, state, id_, call,
          scrape, out, by, unref>>

idVars == <<next_instance_id_, free_instance_ids_, state, id_>>

ptrVars == <<out, by, unref>>

Idle == [op |-> "idle", i |-> Null, p |-> Null]

NoScrape == [i |-> Null, todo |-> <<>>]

MutexFree == scrape = NoScrape

Registered(t) == t \in Range(head_)

\* The entry of a thread for an id, where ids count from 0
At(t, id) == IF id < Len(entries[t]) THEN entries[t][id + 1] ELSE Null

GetHandler(id) == IF id \in DOMAIN handler_map_ THEN handler_map_[id] ELSE Null

\* The pointers in gone, each of them with its id, are given to the handlers.
Unref(gone) ==
  unref' = [p \in Ptr |->
    unref[p] \o (IF \E g \in gone : g.p = p /\ GetHandler(g.id) # Null
                 THEN <<GetHandler((CHOOSE g \in gone : g.p = p).id)>> ELSE <<>>)]

-----------------------------------------------------------------------------

Init ==
  /\ next_instance_id_ = 0
  /\ free_instance_ids_ = <<>>
  /\ handler_map_ = <<>>
  /\ head_ = <<>>
  /\ entries = [t \in Thread |-> <<>>]
  /\ state = [i \in Instance |-> "none"]
  /\ id_ = [i \in Instance |-> 0]
  /\ call = [t \in Thread |-> Idle]
  /\ scrape = NoScrape
  /\ out = [p \in Ptr |-> "mine"]
  /\ by = [p \in Ptr |-> Null]
  /\ unref = [p \in Ptr |-> <<>>]

(* Construction and destruction of an instance.                            *)

GetId(i) ==
  /\ MutexFree /\ state[i] = "none"
  /\ state' = [state EXCEPT ![i] = "named"]
  /\ IF free_instance_ids_ = <<>>
     THEN /\ id_' = [id_ EXCEPT ![i] = next_instance_id_]
          /\ next_instance_id_' = next_instance_id_ + 1
          /\ UNCHANGED free_instance_ids_
     ELSE LET last == Len(free_instance_ids_) IN
          /\ id_' = [id_ EXCEPT ![i] = free_instance_ids_[last]]
          /\ free_instance_ids_' = SubSeq(free_instance_ids_, 1, last - 1)
          /\ UNCHANGED next_instance_id_
  /\ UNCHANGED <<handler_map_, head_, entries, call, scrape, ptrVars>>

\* Only an instance with a handler registers one.
SetHandler(i) ==
  /\ MutexFree /\ state[i] = "named"
  /\ state' = [state EXCEPT ![i] = "live"]
  /\ handler_map_' =
       IF i \in HasHandler
       THEN [id \in DOMAIN handler_map_ \cup {id_[i]} |->
               IF id = id_[i] THEN i ELSE handler_map_[id]]
       ELSE handler_map_
  /\ UNCHANGED <<next_instance_id_, free_instance_ids_, id_, head_, entries, call, scrape, ptrVars>>

\* Mutant: the handler stays registered for the next instance with the id.
NoHandlerKept(id) == handler_map_

NoHandler(id) == [d \in DOMAIN handler_map_ \cup {id} |-> IF d = id THEN Null ELSE handler_map_[d]]

\* Mutant: the vectors keep their pointers.
ClearedKept(id) == entries

Cleared(id) ==
  [t \in Thread |-> IF Registered(t) /\ id < Len(entries[t])
                    THEN [entries[t] EXCEPT ![id + 1] = Null] ELSE entries[t]]

\* The destructor: nobody is in a call of the instance.
ReclaimId(i) ==
  LET id == id_[i]
  IN  /\ MutexFree /\ state[i] = "live"
      /\ \A t \in Thread : call[t].i # i
      /\ Unref({[p |-> At(t, id), id |-> id] : t \in Range(head_)})
      /\ entries' = Cleared(id)
      /\ handler_map_' = NoHandler(id)
      /\ free_instance_ids_' = Append(free_instance_ids_, id)
      /\ state' = [state EXCEPT ![i] = "dead"]
      /\ UNCHANGED <<next_instance_id_, id_, head_, call, scrape, out, by>>

-----------------------------------------------------------------------------
(* Get, Reset, Swap and CompareAndSwap.                                    *)

Begin(t, op, i, p) ==
  /\ call[t] = Idle
  /\ state[i] = "live"
  /\ p \in Ptr => out[p] = "mine" /\ unref[p] = <<>>
  /\ op = "Get" => p = Null
  /\ call' = [call EXCEPT ![t] = [op |-> op, i |-> i, p |-> p]]
  /\ out' = IF p = Null THEN out ELSE [out EXCEPT ![p] = "busy"]
  /\ UNCHANGED <<idVars, handler_map_, head_, entries, scrape, by, unref>>

Busy(t) == call[t].op \notin {"idle", "Scrape"}

\* GetThreadLocal
AddThreadData(t) ==
  /\ Busy(t) /\ MutexFree
  /\ ~Registered(t)
  /\ head_' = Append(head_, t)
  /\ entries' = [entries EXCEPT ![t] = <<>>]
  /\ UNCHANGED <<idVars, handler_map_, call, scrape, ptrVars>>

NewSize(id) == id + 1

Resize(t) ==
  LET id == id_[call[t].i]
  IN  /\ Busy(t) /\ Registered(t) /\ MutexFree
      /\ call[t].op # "Get"
      /\ id >= Len(entries[t])
      /\ entries' = [entries EXCEPT ![t] = [d \in 1..NewSize(id) |-> At(t, d - 1)]]
      /\ UNCHANGED <<idVars, handler_map_, head_, call, scrape, ptrVars>>

\* The pointers that clients get back, and the one that is stored
Handed(back, p, kept) ==
  [q \in Ptr |-> IF q = p THEN (IF kept THEN "stored" ELSE "mine")
                 ELSE IF q \in back THEN "mine" ELSE out[q]]

\* The atomic operation; CompareAndSwap may find a value it does not expect.
Operate(t) ==
  LET c  == call[t]
      id == id_[c.i]
  IN  /\ Busy(t) /\ Registered(t)
      /\ c.op = "Get" \/ id < Len(entries[t])
      /\ \E stores \in IF c.op = "Get" THEN {FALSE}
                       ELSE IF c.op = "CompareAndSwap" THEN BOOLEAN ELSE {TRUE} :
           /\ out' = Handed(IF stores THEN {At(t, id)} ELSE {}, c.p, stores)
           /\ entries' = IF stores THEN [entries EXCEPT ![t][id + 1] = c.p] ELSE entries
           /\ by' = IF stores /\ c.p # Null THEN [by EXCEPT ![c.p] = c.i] ELSE by
      /\ call' = [call EXCEPT ![t] = Idle]
      /\ UNCHANGED <<idVars, handler_map_, head_, scrape, unref>>

-----------------------------------------------------------------------------
(* Scrape, with nullptr as the replacement.                                *)

Scrape(t, i) ==
  /\ call[t] = Idle /\ MutexFree
  /\ state[i] = "live"
  /\ call' = [call EXCEPT ![t] = [op |-> "Scrape", i |-> i, p |-> Null]]
  /\ scrape' = [i |-> i, todo |-> head_]
  /\ UNCHANGED <<idVars, handler_map_, head_, entries, ptrVars>>

ScrapeEntry ==
  LET t  == Head(scrape.todo)
      id == id_[scrape.i]
  IN  /\ scrape.todo # <<>>
      /\ scrape' = [scrape EXCEPT !.todo = Tail(@)]
      /\ IF id < Len(entries[t])
         THEN /\ out' = Handed({At(t, id)}, Null, FALSE)
              /\ entries' = [entries EXCEPT ![t][id + 1] = Null]
         ELSE UNCHANGED <<out, entries>>
      /\ UNCHANGED <<idVars, handler_map_, head_, call, by, unref>>

ScrapeReturns(t) ==
  /\ call[t].op = "Scrape"
  /\ scrape.todo = <<>>
  /\ scrape' = NoScrape
  /\ call' = [call EXCEPT ![t] = Idle]
  /\ UNCHANGED <<idVars, handler_map_, head_, entries, ptrVars>>

-----------------------------------------------------------------------------

\* Mutant: the id is counted for entries with a pointer only.
LeftBehindShifted(t) ==
  {[p |-> At(t, id), id |-> Cardinality({d \in 0..(id - 1) : At(t, d) # Null})] :
     id \in {d \in 0..(Len(entries[t]) - 1) : At(t, d) # Null}}

\* The pointers of a thread, with their ids
LeftBehind(t) == {[p |-> At(t, id), id |-> id] : id \in 0..(Len(entries[t]) - 1)}

\* The thread is taken out of the chain.
RemoveThreadData(t) ==
  LET k == CHOOSE k \in DOMAIN head_ : head_[k] = t
  IN  SubSeq(head_, 1, k - 1) \o SubSeq(head_, k + 1, Len(head_))

\* A thread exits, and may be followed by another.
OnThreadExit(t) ==
  /\ MutexFree /\ call[t] = Idle
  /\ Registered(t)
  /\ head_' = RemoveThreadData(t)
  /\ Unref(LeftBehind(t))
  /\ entries' = [entries EXCEPT ![t] = <<>>]
  /\ UNCHANGED <<idVars, handler_map_, call, scrape, out, by>>

Next ==
  \/ \E i \in Instance : GetId(i) \/ SetHandler(i) \/ ReclaimId(i)
  \/ \E t \in Thread :
       \/ \E i \in Instance :
            \/ Scrape(t, i)
            \/ \E op \in {"Get", "Reset", "CompareAndSwap"}, p \in Ptr \cup {Null} : Begin(t, op, i, p)
       \/ AddThreadData(t) \/ Resize(t) \/ Operate(t)
       \/ ScrapeReturns(t) \/ OnThreadExit(t)
  \/ ScrapeEntry

Spec == Init /\ [][Next]_vars

-----------------------------------------------------------------------------
(* Properties.                                                             *)

\* The slots of the threads that hold a pointer
Slots(p) ==
  UNION {{<<t, id>> : id \in {d \in 0..(Len(entries[t]) - 1) : At(t, d) = p}} : t \in Thread}

\* A pointer in a vector was stored through the instance that has the id now, and is
\* given to a handler at most once, to that of the instance it was stored through: an
\* instance never sees a pointer of another that had its id before.
InstancesAreApart ==
  \A p \in Ptr :
    /\ \A slot \in Slots(p) :
         /\ state[by[p]] = "live" /\ id_[by[p]] = slot[2]
         /\ Registered(slot[1])
         /\ out[p] = "stored"
    /\ unref[p] # <<>> => unref[p] = <<by[p]>> /\ Slots(p) = {}

\* A pointer that its client stored and did not get back is in one vector, or was
\* given to the handler when its thread exited or its instance was destroyed
\* (thread_local.h:27-30); only Scrape or a handler takes it away.
NothingLeaks ==
  \A p \in Ptr :
    out[p] = "stored" /\ by[p] \in HasHandler =>
      \/ unref[p] = <<>> /\ \E slot \in Slots(p) : Slots(p) = {slot}
      \/ Len(unref[p]) = 1 /\ Slots(p) = {}
=============================================================================
