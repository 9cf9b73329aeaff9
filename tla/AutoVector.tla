------------------------------ MODULE AutoVector ------------------------------
(***************************************************************************)
(* rutil/autovector.h: a vector whose first kSize items are in an array of  *)
(* its own and whose others are in a std::vector, and an iterator over one. *)
(***************************************************************************)
EXTENDS Naturals, Sequences

CONSTANTS
  Vector,     \* the vectors
  T,          \* the items
  Default,    \* T()
  Null,       \* no vector
  kSize,      \* the size of the array
  MaxSize     \* bound on the size of a vector

VectorAssumption == kSize \in Nat /\ MaxSize \in Nat /\ Default \in T /\ Null \notin Vector

VARIABLES
  num_stack_items_,
  values_,        \* the array, with the items that are there no more
  vect_,          \* the std::vector
  allocated,      \* whether vect_ has had an item: its capacity is not 0
  of,             \* the iterator: its vector, or Null
  index_,         \* its position
  seen            \* the items it has passed

vectorVars == <<num_stack_items_, values_, vect_, allocated>>
iteratorVars == <<of, index_, seen>>
vars == <<vectorVars, iteratorVars>>

-----------------------------------------------------------------------------

size(v) == num_stack_items_[v] + Len(vect_[v])

only_in_stack(v) == ~allocated[v]

\* operator[] and at, and what is at an iterator
At(v, n) == IF n < kSize THEN values_[v][n] ELSE vect_[v][n - kSize + 1]

\* The array of a new vector holds anything.
Init ==
  /\ num_stack_items_ = [v \in Vector |-> 0]
  /\ values_ \in [Vector -> [0..(kSize - 1) -> T]]
  /\ vect_ = [v \in Vector |-> <<>>]
  /\ allocated = [v \in Vector |-> FALSE]
  /\ of = Null /\ index_ = 0 /\ seen = <<>>

\* An iterator over a vector may be used no more once items were taken from it or replaced.
Invalidate(v) ==
  IF of = v THEN of' = Null /\ index_' = 0 /\ seen' = <<>> ELSE UNCHANGED iteratorVars

push_back(v, item) ==
  /\ size(v) < MaxSize
  /\ IF num_stack_items_[v] < kSize
     THEN /\ values_' = [values_ EXCEPT ![v][num_stack_items_[v]] = item]
          /\ num_stack_items_' = [num_stack_items_ EXCEPT ![v] = @ + 1]
          /\ UNCHANGED <<vect_, allocated>>
     ELSE /\ vect_' = [vect_ EXCEPT ![v] = Append(@, item)]
          /\ allocated' = [allocated EXCEPT ![v] = TRUE]
          /\ UNCHANGED <<num_stack_items_, values_>>
  /\ UNCHANGED iteratorVars

\* Mutant: the array is emptied first.
pop_back_stack(v) ==
  /\ size(v) > 0
  /\ IF num_stack_items_[v] > 0
     THEN num_stack_items_' = [num_stack_items_ EXCEPT ![v] = @ - 1] /\ UNCHANGED vect_
     ELSE vect_' = [vect_ EXCEPT ![v] = SubSeq(@, 1, Len(@) - 1)] /\ UNCHANGED num_stack_items_
  /\ UNCHANGED <<values_, allocated>>
  /\ Invalidate(v)

pop_back(v) ==
  /\ size(v) > 0
  /\ IF vect_[v] # <<>>
     THEN vect_' = [vect_ EXCEPT ![v] = SubSeq(@, 1, Len(@) - 1)] /\ UNCHANGED num_stack_items_
     ELSE num_stack_items_' = [num_stack_items_ EXCEPT ![v] = @ - 1] /\ UNCHANGED vect_
  /\ UNCHANGED <<values_, allocated>>
  /\ Invalidate(v)

\* std::vector::resize gives new items their default.
Resized(s, n) == [i \in 1..n |-> IF i <= Len(s) THEN s[i] ELSE Default]

resize(v, n) ==
  /\ n <= MaxSize
  /\ IF n > kSize
     THEN /\ vect_' = [vect_ EXCEPT ![v] = Resized(@, n - kSize)]
          /\ allocated' = [allocated EXCEPT ![v] = TRUE]
          /\ num_stack_items_' = [num_stack_items_ EXCEPT ![v] = kSize]
     ELSE /\ vect_' = [vect_ EXCEPT ![v] = <<>>]
          /\ num_stack_items_' = [num_stack_items_ EXCEPT ![v] = n]
          /\ UNCHANGED allocated
  /\ UNCHANGED values_
  /\ Invalidate(v)

clear(v) ==
  /\ num_stack_items_' = [num_stack_items_ EXCEPT ![v] = 0]
  /\ vect_' = [vect_ EXCEPT ![v] = <<>>]
  /\ UNCHANGED <<values_, allocated>>
  /\ Invalidate(v)

\* Assignment, and the copy of a vector into a new one
assign(v, other) ==
  /\ vect_' = [vect_ EXCEPT ![v] = vect_[other]]
  /\ allocated' = [allocated EXCEPT ![v] = @ \/ vect_[other] # <<>>]
  /\ num_stack_items_' = [num_stack_items_ EXCEPT ![v] = num_stack_items_[other]]
  /\ values_' = [values_ EXCEPT ![v] =
       [i \in 0..(kSize - 1) |-> IF i < num_stack_items_[other] THEN values_[other][i] ELSE @[i]]]
  /\ Invalidate(v)

-----------------------------------------------------------------------------
(* The iterator, from begin to end and back. It is valid through push_back, *)
(* as it has a position and no address.                                     *)

begin(v) == of' = v /\ index_' = 0 /\ seen' = <<>> /\ UNCHANGED vectorVars

\* while it != end(): ++it
Forward ==
  /\ of # Null
  /\ index_ # size(of)
  /\ seen' = Append(seen, At(of, index_)) /\ index_' = index_ + 1
  /\ UNCHANGED <<of, vectorVars>>

\* while it != begin(): --it
Backward ==
  /\ of # Null
  /\ index_ # 0
  /\ seen' = SubSeq(seen, 1, Len(seen) - 1) /\ index_' = index_ - 1
  /\ UNCHANGED <<of, vectorVars>>

-----------------------------------------------------------------------------

Next ==
  \/ \E v \in Vector :
       \/ \E item \in T : push_back(v, item)
       \/ pop_back(v)
       \/ \E n \in 0..MaxSize : resize(v, n)
       \/ clear(v)
       \/ \E other \in Vector \ {v} : assign(v, other)
       \/ begin(v)
  \/ Forward
  \/ Backward

Spec == Init /\ [][Next]_vars

-----------------------------------------------------------------------------
(* Properties.                                                             *)

VectorType ==
  /\ num_stack_items_ \in [Vector -> 0..kSize]
  /\ values_ \in [Vector -> [0..(kSize - 1) -> T]]
  /\ vect_ \in [Vector -> Seq(T)]
  /\ allocated \in [Vector -> BOOLEAN]

TypeOK ==
  /\ VectorType
  /\ of \in Vector \cup {Null} /\ index_ \in Nat /\ seen \in Seq(T)

\* The std::vector is used only when the array is full, so that no position is left out
\* between them; a vector that is only_in_stack has nothing in it.
StackFirst ==
  \A v \in Vector :
    /\ vect_[v] # <<>> => num_stack_items_[v] = kSize
    /\ only_in_stack(v) => vect_[v] = <<>>

\* What the two parts hold together
Items(v) == [i \in 1..size(v) |-> At(v, i - 1)]

\* Each operation does to the items what it does to those of a std::vector, on whichever
\* side of kSize it starts and ends, and leaves other vectors as they are. resize keeps
\* the items that stay and promises nothing of the new ones.
Acts ==
  /\ \A v, w \in Vector : Items(v)' # Items(v) /\ Items(w)' # Items(w) => v = w
  /\ \A v \in Vector :
       /\ \A item \in T : push_back(v, item) => Items(v)' = Append(Items(v), item)
       /\ pop_back(v) => Items(v)' = SubSeq(Items(v), 1, size(v) - 1)
       /\ \A n \in 0..MaxSize : resize(v, n) =>
            /\ size(v)' = n
            /\ \A i \in 1..n : i <= size(v) => Items(v)'[i] = Items(v)[i]
       /\ clear(v) => Items(v)' = <<>>
       /\ \A other \in Vector : assign(v, other) => Items(v)' = Items(other)

\* Every step of an autovector is one of a std::vector.
ActsAsVector == [][Acts]_vars

\* An iterator has passed the items before its position, those that were pushed while
\* it was under way included.
IteratorSeesItems ==
  of # Null => index_ <= size(of) /\ seen = SubSeq(Items(of), 1, index_)

\* "Indicate if all data resides in in-stack data structure."
OnlyInStackIsExact == \A v \in Vector : only_in_stack(v) <=> vect_[v] = <<>>
=============================================================================
