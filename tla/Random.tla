-------------------------------- MODULE Random --------------------------------
(***************************************************************************)
(* rutil/random.h: the generator that GetTLSInstance makes for a thread. M  *)
(* is 2^31 - 1 and A 16807 in the code; here P may be any power of 2 that   *)
(* is one more than a prime. A seed has one bit more than M.                *)
(***************************************************************************)
EXTENDS Naturals

CONSTANTS
  P,          \* 2^31
  A,          \* the multiplier
  Seed,       \* what the generator may be given as a seed
  N,          \* the arguments of Uniform and OneIn
  Log         \* the arguments of Skewed

M == P - 1

\* A seed is any number of 32 bits but 2^31 - 1 and 2^32 - 1, for which the generator
\* stands still. M divides none of the products, as it is prime. "REQUIRES: n > 0", and
\* fewer bits make a smaller power of 2.
RandomAssumption ==
  /\ P \in Nat /\ P > 2 /\ A \in 1..(M - 1)
  /\ Seed \subseteq {s \in 0..(2 * P - 1) : s % P # M}
  /\ \A s \in 1..(M - 1) : \A q \in 0..A : s * A # q * M
  /\ N \subseteq Nat \ {0} /\ Log \subseteq Nat
  /\ \A log \in Log : 2^log \in Nat /\ \A bits \in 0..log : 2^bits \in 1..2^log

VARIABLES
  seed_,      \* of the thread's instance; 0 before there is one
  ideal,      \* the seed of a generator that multiplies modulo M
  returned    \* [call, arg, value] of the last call

vars == <<seed_, ideal, returned>>

None == [call |-> "none", arg |-> 0, value |-> 0]

Init == seed_ = 0 /\ ideal = 0 /\ returned = None

\* Mutant: a seed that is a multiple of 2^31 is not replaced.
AnySeed(s) == s % P

\* (s & M) != 0 ? (s & M) : 1
GoodSeed(s) == IF s % P # 0 THEN s % P ELSE 1

\* (product >> 31) + (product & M), and one subtraction
Step(seed) ==
  LET product == seed * A
      sum == (product \div P) + (product % P)
  IN  IF sum > M THEN sum - M ELSE sum

-----------------------------------------------------------------------------

\* s is the hash of the thread's number.
GetTLSInstance(s) ==
  /\ seed_ = 0
  /\ seed_' = GoodSeed(s)
  /\ ideal' = IF s % P = 0 THEN 1 ELSE s % P
  /\ UNCHANGED returned

Reset(s) ==
  /\ seed_ # 0
  /\ seed_' = GoodSeed(s)
  /\ ideal' = IF s % P = 0 THEN 1 ELSE s % P
  /\ UNCHANGED returned

\* A call to Next, of whose result f makes a number
Draw(call, arg, f) ==
  /\ seed_ # 0
  /\ seed_' = Step(seed_)
  /\ ideal' = (ideal * A) % M
  /\ returned' = [call |-> call, arg |-> arg, value |-> f]

NextValue == Draw("Next", 0, Step(seed_))

Uniform(n) == Draw("Uniform", n, Step(seed_) % n)

OneIn(n) == Draw("OneIn", n, IF Step(seed_) % n = 0 THEN 1 ELSE 0)

\* Two draws: for the number of bits, and for the bits
Skewed(log) ==
  /\ seed_ # 0
  /\ LET first == Step(seed_)  second == Step(first) IN
     /\ seed_' = second
     /\ returned' = [call |-> "Skewed", arg |-> log, value |-> second % 2^(first % (log + 1))]
  /\ ideal' = (((ideal * A) % M) * A) % M

Next ==
  \/ \E s \in Seed : GetTLSInstance(s) \/ Reset(s)
  \/ NextValue
  \/ \E n \in N : Uniform(n) \/ OneIn(n)
  \/ \E log \in Log : Skewed(log)

Spec == Init /\ [][Next]_vars

-----------------------------------------------------------------------------

\* The shifts and the one subtraction compute a product modulo M, as the comment in
\* Next says, and the seed never becomes one of the two numbers that it would keep for
\* ever, 0 and M.
GeneratesByMultiplying ==
  /\ seed_ = ideal
  /\ seed_ # 0 => seed_ \in 1..(M - 1)

\* The results lie in the ranges that the comments give.
RangesAreKept ==
  /\ returned.call = "Uniform" => returned.value < returned.arg
  /\ returned.call = "Skewed" => returned.value < 2^returned.arg
=============================================================================
