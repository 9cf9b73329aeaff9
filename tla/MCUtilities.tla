----------------------------- MODULE MCUtilities -----------------------------
(***************************************************************************)
(* The utilities that share nothing but their users, one per behaviour:     *)
(* thread local pointers, the encodings, the vector, the locks and the      *)
(* random numbers.                                                          *)
(***************************************************************************)
EXTENDS Naturals, TLC

CONSTANTS
  Thread, Null,
  Instance, HasHandler, Ptr,                                           \* of ThreadLocalPtr
  Vector, T, Default, kSize, MaxSize,                                  \* of AutoVector
  P, A, Seed, N, Log                                                   \* of Random

VARIABLES
  part,
  next_instance_id_, free_instance_ids_, handler_map_, head_, entries, state, id_,
  call, scrape, out, by, unref,                                        \* of ThreadLocalPtr
  dst, items, ends, phase, cut, input, got,                            \* of Coding
  num_stack_items_, values_, vect_, allocated, of, index_, seen,       \* of AutoVector
  mu_, locked_, cv_, readers, writer, spin, expected, pc,              \* of Locks
  seed_, ideal, returned                                               \* of Random

localVars == <<next_instance_id_, free_instance_ids_, handler_map_, head_, entries, state, id_,
               call, scrape, out, by, unref>>
codingVars == <<dst, items, ends, phase, cut, input, got>>
vectorVars == <<num_stack_items_, values_, vect_, allocated, of, index_, seen>>
lockVars == <<mu_, locked_, cv_, readers, writer, spin, expected, pc>>
randomVars == <<seed_, ideal, returned>>
vars == <<part, localVars, codingVars, vectorVars, lockVars, randomVars>>

Local == INSTANCE ThreadLocalPtr

\* Numbers of 8 and 16 bits in bytes of 4, on both sides of the sizes of a varint, and
\* strings whose length has one and two bytes
Coding == INSTANCE Coding WITH
  GroupBits <- 3, Width32 <- 8, Width64 <- 16,
  Value32 <- {7, 8, 64, 255}, Value64 <- {8, 65535},
  String <- {<<3>>, <<4, 3, 4, 3, 3, 4, 4, 4>>}, Delimiter <- 3, MaxItems <- 3

Vec == INSTANCE AutoVector

Locks == INSTANCE Locks

Rand == INSTANCE Random

ASSUME UtilityAssumption ==
  /\ Local!LocalAssumption /\ Coding!CodingAssumption /\ Vec!VectorAssumption
  /\ Locks!LocksAssumption /\ Rand!RandomAssumption

NoLocal ==
  /\ next_instance_id_ = 0 /\ free_instance_ids_ = 0 /\ handler_map_ = 0 /\ head_ = 0 /\ entries = 0
  /\ state = 0 /\ id_ = 0 /\ call = 0 /\ scrape = 0 /\ out = 0 /\ by = 0 /\ unref = 0
NoCoding == dst = 0 /\ items = 0 /\ ends = 0 /\ phase = 0 /\ cut = 0 /\ input = 0 /\ got = 0
NoVector ==
  /\ num_stack_items_ = 0 /\ values_ = 0 /\ vect_ = 0 /\ allocated = 0
  /\ of = 0 /\ index_ = 0 /\ seen = 0
NoLocks ==
  /\ mu_ = 0 /\ locked_ = 0 /\ cv_ = 0 /\ readers = 0 /\ writer = 0 /\ spin = 0 /\ expected = 0
  /\ pc = 0
NoRandom == seed_ = 0 /\ ideal = 0 /\ returned = 0

Init ==
  \/ part = "local" /\ Local!Init /\ NoCoding /\ NoVector /\ NoLocks /\ NoRandom
  \/ part = "coding" /\ Coding!Init /\ NoLocal /\ NoVector /\ NoLocks /\ NoRandom
  \/ part = "vector" /\ Vec!Init /\ NoLocal /\ NoCoding /\ NoLocks /\ NoRandom
  \/ part = "locks" /\ Locks!Init /\ NoLocal /\ NoCoding /\ NoVector /\ NoRandom
  \/ part = "random" /\ Rand!Init /\ NoLocal /\ NoCoding /\ NoVector /\ NoLocks

Next ==
  /\ \/ part = "local" /\ Local!Next /\ UNCHANGED <<codingVars, vectorVars, lockVars, randomVars>>
     \/ part = "coding" /\ Coding!Next /\ UNCHANGED <<localVars, vectorVars, lockVars, randomVars>>
     \/ part = "vector" /\ Vec!Next /\ UNCHANGED <<localVars, codingVars, lockVars, randomVars>>
     \/ part = "locks" /\ Locks!Next /\ UNCHANGED <<localVars, codingVars, vectorVars, randomVars>>
     \/ part = "random" /\ Rand!Next /\ UNCHANGED <<localVars, codingVars, vectorVars, lockVars>>
  /\ UNCHANGED part

Spec == Init /\ [][Next]_vars

Symmetry == Permutations(Thread) \cup Permutations(Ptr)

-----------------------------------------------------------------------------
(* Properties; the modules say more about each.                            *)

\* A pointer in a thread's vector was stored through the live instance that has its id,
\* and a handler is given only pointers of its own instance, once, though ids are reused
\* while threads exit, scrape and store.
InstancesAreApart == part = "local" => Local!InstancesAreApart

\* A pointer that was stored and not taken back is in one vector, or was given to the
\* handler when its thread exited or its instance was destroyed.
NothingLeaks == part = "local" => Local!NothingLeaks

\* What the Put functions append the Get functions read back, in its order and whatever
\* surrounds it; reading fails only for what a cut has damaged.
PutIsGot == part = "coding" => Coding!PutIsGot

\* Every operation does to an autovector what it does to a vector, on whichever side of
\* kSize it starts and ends, and an iterator has passed the items in front of it, through
\* push_back too.
ActsAsVector ==
  /\ [][part = "vector" => Vec!Acts]_vars
  /\ [](part = "vector" => Vec!IteratorSeesItems /\ Vec!StackFirst)

\* AssertHeld succeeds in every critical section, and no two threads are in sections
\* that exclude each other.
LocksAreSafe == part = "locks" => Locks!LocksAreSafe

\* The shifts of Random::Next multiply modulo a prime and never reach a number that
\* stays; Uniform and Skewed stay in their ranges.
GeneratesByMultiplying ==
  part = "random" => Rand!GeneratesByMultiplying /\ Rand!RangesAreKept
=============================================================================
