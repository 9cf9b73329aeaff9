---------------------------- MODULE UtilitiesProofs ----------------------------
(***************************************************************************)
(* The utilities keep their promises for every set of threads, instances,   *)
(* pointers and vectors, every size of the array of a vector and every      *)
(* prime modulus: for each of them an inductive invariant that implies what *)
(* MCUtilities states of it. The one of the thread local pointers is in     *)
(* ThreadLocalPtrProofs.                                                    *)
(***************************************************************************)
EXTENDS MCUtilities, Sequences, TLAPS

-----------------------------------------------------------------------------
(* Sequences.                                                              *)

\* The items of a sequence are of its set.
LEMMA ItemOfSeq == ASSUME NEW S, NEW s \in Seq(S), NEW i \in 1..Len(s) PROVE s[i] \in S
OBVIOUS

\* The empty sequence is one, and the others have a length above zero.
LEMMA EmptyOrLonger ==
  ASSUME NEW S
  PROVE  /\ <<>> \in Seq(S) /\ Len(<<>>) = 0
         /\ \A s \in Seq(S) : s # <<>> => Len(s) \in Nat \ {0}
OBVIOUS

LEMMA WithinEmpty == ASSUME NEW n \in Nat, NEW i \in 1..(n + Len(<<>>)) PROVE i - 1 < n
BY EmptyOrLonger

\* Sequences that have the same items are the same.
LEMMA SameItems ==
  ASSUME NEW S, NEW s \in Seq(S), NEW t \in Seq(S),
         Len(s) = Len(t), \A i \in 1..Len(s) : s[i] = t[i]
  PROVE  s = t
OBVIOUS

\* What a sequence is after an item is put behind its last.
LEMMA Appended ==
  ASSUME NEW S, NEW s \in Seq(S), NEW x \in S
  PROVE  /\ Append(s, x) \in Seq(S)
         /\ Len(Append(s, x)) = Len(s) + 1
         /\ \A i \in 1..Len(s) : Append(s, x)[i] = s[i]
         /\ Append(s, x)[Len(s) + 1] = x
OBVIOUS

\* What its first items are.
LEMMA PrefixFacts ==
  ASSUME NEW S, NEW s, NEW n \in Nat, \A i \in 1..n : s[i] \in S
  PROVE  SubSeq(s, 1, n) \in Seq(S) /\ Len(SubSeq(s, 1, n)) = n
OBVIOUS

\* Positions in an array of k items and the items behind it: all but the last,
LEMMA AllButLast ==
  ASSUME NEW k \in Nat, NEW l \in Nat, NEW i \in 1..(k + (l + 1)), i # k + (l + 1)
  PROVE  i \in 1..(k + l)
OBVIOUS

\* the ones behind the array,
LEMMA BehindArray ==
  ASSUME NEW k \in Nat, NEW l \in Nat, NEW i \in 1..(k + l), ~(i - 1 < k)
  PROVE  i - k \in 1..l
OBVIOUS

\* and the first n of the array.
LEMMA InArray ==
  ASSUME NEW k \in Nat, NEW n \in 0..k, NEW i \in 1..n
  PROVE  i - 1 < k /\ n + 0 = n
OBVIOUS

\* What is left of a sequence is its beginning.
LEMMA PrefixItems ==
  ASSUME NEW S, NEW s \in Seq(S), NEW n \in Nat, n <= Len(s)
  PROVE  /\ SubSeq(s, 1, n) \in Seq(S) /\ Len(SubSeq(s, 1, n)) = n
         /\ \A i \in 1..n : SubSeq(s, 1, n)[i] = s[i]
OBVIOUS

\* Going on and back by one in a sequence of length l.
LEMMA NextPosition ==
  ASSUME NEW l \in Nat, NEW n \in 0..l
  PROVE  /\ n \in Nat
         /\ n # l => n + 1 \in 0..l
         /\ n # 0 => n - 1 \in 0..l /\ n - 1 \in Nat /\ n - 1 <= n
         /\ \A i \in 1..(n + 1) : i \in 1..n \/ i = n + 1
         /\ \A i \in 1..(n - 1) : i \in 1..n
OBVIOUS

\* The length of the array and all items but the last, and of all of them.
LEMMA OneLonger ==
  ASSUME NEW k \in Nat, NEW l \in Nat, l > 0
  PROVE  k + l - 1 \in Nat /\ k + l = (k + l - 1) + 1 /\ l - 1 \in Nat /\ l - 1 <= l
         /\ k + (l - 1) = k + l - 1
OBVIOUS

-----------------------------------------------------------------------------
(* The locks.                                                              *)

LocksInv == Locks!TypeOK /\ Locks!HoldersAreKnown /\ Locks!HolderIsMarked

\* The invariant keeps the threads apart: a lock knows one holder.
LEMMA LocksInvIsSafe == ASSUME Locks!LocksAssumption, LocksInv PROVE Locks!LocksAreSafe
<1>1. ASSUME NEW t \in Thread, NEW u \in Thread, t # u
      PROVE ~(pc[t] \in {"held", "unlock", "wait"} /\ pc[u] \in {"held", "unlock", "wait"})
  BY <1>1 DEF LocksInv, Locks!HoldersAreKnown, Locks!Held
<1>2. ASSUME NEW t \in Thread, NEW u \in Thread, t # u
      PROVE ~(pc[t] = "writes" /\ pc[u] \in {"reads", "writes"})
  BY <1>2 DEF LocksInv, Locks!HoldersAreKnown, Locks!LocksAssumption
<1>3. ASSUME NEW t \in Thread, NEW u \in Thread, t # u
      PROVE ~(pc[t] = "spins" /\ pc[u] = "spins")
  BY <1>3 DEF LocksInv, Locks!HoldersAreKnown
<1>4. QED
  BY <1>1, <1>2, <1>3, Zenon DEF Locks!LocksAreSafe, Locks!HoldersAreAlone, LocksInv

LEMMA LocksInitInv == ASSUME Locks!LocksAssumption, Locks!Init PROVE LocksInv
  BY Zenon DEF Locks!LocksAssumption, Locks!Init, LocksInv, Locks!TypeOK, Locks!HoldersAreKnown,
         Locks!HolderIsMarked, Locks!Held

\* Every step of every thread keeps the invariant.
LEMMA LocksNextInv == ASSUME Locks!LocksAssumption, LocksInv, [Locks!Next]_lockVars PROVE LocksInv'
<1> USE DEF Locks!LocksAssumption, LocksInv, Locks!TypeOK, Locks!HoldersAreKnown,
            Locks!HolderIsMarked, Locks!AssertHeld, Locks!Held, Locks!Go, Locks!mutexVars, Locks!rwVars, Locks!spinVars
<1>1. ASSUME NEW t \in Thread, Locks!Lock(t) PROVE LocksInv'
  <2>1. Locks!TypeOK'
    BY <1>1 DEF Locks!Lock
  <2>2. Locks!HoldersAreKnown'
    BY <1>1 DEF Locks!Lock
  <2>3. Locks!HolderIsMarked'
    BY <1>1, Zenon DEF Locks!Lock
  <2>4. QED
    BY <2>1, <2>2, <2>3
<1>2. ASSUME NEW t \in Thread, Locks!MarkLocked(t) PROVE LocksInv'
  <2>1. Locks!TypeOK'
    BY <1>2 DEF Locks!MarkLocked
  <2>2. Locks!HoldersAreKnown'
    BY <1>2 DEF Locks!MarkLocked
  <2>3. Locks!HolderIsMarked'
    BY <1>2 DEF Locks!MarkLocked
  <2>4. QED
    BY <2>1, <2>2, <2>3
<1>3. ASSUME NEW t \in Thread, Locks!MarkUnlocked(t) PROVE LocksInv'
  <2>0. PICK to \in {"unlock", "wait"} : Locks!Go(t, "held", to)
    BY <1>3, Zenon DEF Locks!MarkUnlocked
  <2>1. Locks!TypeOK'
    BY <1>3, <2>0, Zenon DEF Locks!MarkUnlocked
  <2>2. Locks!HoldersAreKnown'
    BY <1>3, <2>0 DEF Locks!MarkUnlocked
  <2>3. Locks!HolderIsMarked'
    BY <1>3, <2>0, Zenon DEF Locks!MarkUnlocked
  <2>4. QED
    BY <2>1, <2>2, <2>3
<1>4. ASSUME NEW t \in Thread, Locks!Unlock(t) PROVE LocksInv'
  <2>1. Locks!TypeOK'
    BY <1>4 DEF Locks!Unlock
  <2>2. Locks!HoldersAreKnown'
    BY <1>4 DEF Locks!Unlock
  <2>3. Locks!HolderIsMarked'
    BY <1>4, Zenon DEF Locks!Unlock
  <2>4. QED
    BY <2>1, <2>2, <2>3
<1>5. ASSUME NEW t \in Thread, Locks!Wait(t) PROVE LocksInv'
  <2>1. Locks!TypeOK'
    BY <1>5 DEF Locks!Wait
  <2>2. Locks!HoldersAreKnown'
    BY <1>5 DEF Locks!Wait
  <2>3. Locks!HolderIsMarked'
    BY <1>5, Zenon DEF Locks!Wait
  <2>4. QED
    BY <2>1, <2>2, <2>3
<1>6. ASSUME NEW t \in Thread, Locks!Return(t) PROVE LocksInv'
  <2>1. Locks!TypeOK'
    BY <1>6 DEF Locks!Return
  <2>2. Locks!HoldersAreKnown'
    BY <1>6 DEF Locks!Return
  <2>3. Locks!HolderIsMarked'
    BY <1>6, Zenon DEF Locks!Return
  <2>4. QED
    BY <2>1, <2>2, <2>3
<1>7. ASSUME NEW t \in Thread, Locks!Signal(t) PROVE LocksInv'
  <2>1. Locks!TypeOK'
    BY <1>7 DEF Locks!Signal
  <2>2. Locks!HoldersAreKnown'
    BY <1>7 DEF Locks!Signal
  <2>3. Locks!HolderIsMarked'
    BY <1>7, Zenon DEF Locks!Signal
  <2>4. QED
    BY <2>1, <2>2, <2>3
<1>8. ASSUME NEW t \in Thread, Locks!SignalAll(t) PROVE LocksInv'
  <2>1. Locks!TypeOK'
    BY <1>8 DEF Locks!SignalAll
  <2>2. Locks!HoldersAreKnown'
    BY <1>8 DEF Locks!SignalAll
  <2>3. Locks!HolderIsMarked'
    BY <1>8, Zenon DEF Locks!SignalAll
  <2>4. QED
    BY <2>1, <2>2, <2>3
<1>9. ASSUME NEW t \in Thread, Locks!ReadLock(t) PROVE LocksInv'
  <2>1. Locks!TypeOK'
    BY <1>9 DEF Locks!ReadLock
  <2>2. Locks!HoldersAreKnown'
    BY <1>9 DEF Locks!ReadLock
  <2>3. Locks!HolderIsMarked'
    BY <1>9, Zenon DEF Locks!ReadLock
  <2>4. QED
    BY <2>1, <2>2, <2>3
<1>10. ASSUME NEW t \in Thread, Locks!WriteLock(t) PROVE LocksInv'
  <2>1. Locks!TypeOK'
    BY <1>10 DEF Locks!WriteLock
  <2>2. Locks!HoldersAreKnown'
    BY <1>10 DEF Locks!WriteLock
  <2>3. Locks!HolderIsMarked'
    BY <1>10, Zenon DEF Locks!WriteLock
  <2>4. QED
    BY <2>1, <2>2, <2>3
<1>11. ASSUME NEW t \in Thread, Locks!ReadUnlock(t) PROVE LocksInv'
  <2>1. Locks!TypeOK'
    BY <1>11 DEF Locks!ReadUnlock
  <2>2. Locks!HoldersAreKnown'
    BY <1>11 DEF Locks!ReadUnlock
  <2>3. Locks!HolderIsMarked'
    BY <1>11 DEF Locks!ReadUnlock
  <2>4. QED
    BY <2>1, <2>2, <2>3
<1>12. ASSUME NEW t \in Thread, Locks!WriteUnlock(t) PROVE LocksInv'
  <2>1. Locks!TypeOK'
    BY <1>12 DEF Locks!WriteUnlock
  <2>2. Locks!HoldersAreKnown'
    BY <1>12 DEF Locks!WriteUnlock
  <2>3. Locks!HolderIsMarked'
    BY <1>12, Zenon DEF Locks!WriteUnlock
  <2>4. QED
    BY <2>1, <2>2, <2>3
<1>13. ASSUME NEW t \in Thread, Locks!Load(t) PROVE LocksInv'
  <2>1. Locks!TypeOK'
    BY <1>13 DEF Locks!Load
  <2>2. Locks!HoldersAreKnown'
    BY <1>13 DEF Locks!Load
  <2>3. Locks!HolderIsMarked'
    BY <1>13 DEF Locks!Load
  <2>4. QED
    BY <2>1, <2>2, <2>3
<1>14. ASSUME NEW t \in Thread, Locks!CompareExchange(t) PROVE LocksInv'
  <2>1. UNCHANGED <<mu_, locked_, cv_, readers, writer, expected>>
    BY <1>14, Zenon DEF Locks!CompareExchange
  <2>2. CASE ~spin /\ spin' = TRUE /\ Locks!Go(t, "loaded", "spins")
    <3>0. \A u \in Thread : pc[u] # "spins"
      BY <2>2
    <3>1. Locks!TypeOK'
      BY <2>1, <2>2, Zenon
    <3>2. Locks!HoldersAreKnown'
      BY <2>1, <2>2, <3>0
    <3>3. Locks!HolderIsMarked'
      BY <2>1, <2>2, Zenon
    <3>4. QED
      BY <3>1, <3>2, <3>3
  <2>3. CASE /\ UNCHANGED spin
             /\ Locks!Go(t, "loaded", "spinning") \/ Locks!Go(t, "loaded", "idle")
    <3>1. Locks!TypeOK'
      BY <2>1, <2>3, Zenon
    <3>2. Locks!HoldersAreKnown'
      BY <2>1, <2>3
    <3>3. Locks!HolderIsMarked'
      BY <2>1, <2>3
    <3>4. QED
      BY <3>1, <3>2, <3>3
  <2>4. \/ ~spin /\ spin' = TRUE /\ Locks!Go(t, "loaded", "spins")
        \/ UNCHANGED spin /\ (Locks!Go(t, "loaded", "spinning") \/ Locks!Go(t, "loaded", "idle"))
    BY <1>14, Zenon DEF Locks!CompareExchange
  <2>5. QED
    BY <2>2, <2>3, <2>4, Zenon
<1>15. ASSUME NEW t \in Thread, Locks!SpinUnlock(t) PROVE LocksInv'
  <2>1. Locks!TypeOK'
    BY <1>15, Zenon DEF Locks!SpinUnlock
  <2>2. Locks!HoldersAreKnown'
    BY <1>15 DEF Locks!SpinUnlock
  <2>3. Locks!HolderIsMarked'
    BY <1>15 DEF Locks!SpinUnlock
  <2>4. QED
    BY <2>1, <2>2, <2>3
<1>16. CASE UNCHANGED lockVars
  BY <1>16 DEF lockVars
<1>17. QED
  BY <1>1, <1>2, <1>3, <1>4, <1>5, <1>6, <1>7, <1>8, <1>9, <1>10, <1>11, <1>12, <1>13, <1>14, <1>15, <1>16, Zenon DEF Locks!Next

-----------------------------------------------------------------------------
(* The random numbers.                                                     *)

\* What is left of a number when multiples of m are taken from it
LEMMA Remainder ==
  ASSUME NEW m \in Nat, NEW k \in Nat, NEW b \in 0..(m - 1)
  PROVE  (k * m + b) % m = b
<1>1. m > 0
  OBVIOUS
<1> DEFINE x == k * m + b
           d == x \div m
           e == x % m
<1>2. x \in Nat
  OBVIOUS
<1>3. d \in Nat /\ e \in 0..(m - 1) /\ x = m * d + e
  BY <1>1, <1>2
<1> HIDE DEF d, e
<1>4. m * (k - d) = e - b
  BY <1>3
<1>5. k = d
  <2>1. ASSUME k > d PROVE FALSE
    <3>1. m * (k - d) >= m
      BY <2>1, <1>1, <1>3
    <3>2. QED
      BY <3>1, <1>3, <1>4
  <2>2. ASSUME k < d PROVE FALSE
    <3>1. m * (d - k) >= m
      BY <2>2, <1>1, <1>3
    <3>2. m * (d - k) = b - e
      BY <1>3
    <3>3. QED
      BY <3>1, <3>2, <1>3
  <2>3. QED
    BY <2>1, <2>2, <1>3
<1>6. QED
  BY <1>3, <1>5 DEF e

\* One step from a good seed
LEMMA StepIsProduct ==
  ASSUME Rand!RandomAssumption, NEW s \in 1..(Rand!M - 1)
  PROVE  Rand!Step(s) = (s * A) % Rand!M /\ Rand!Step(s) \in 1..(Rand!M - 1)
<1> DEFINE product == s * A
           q == product \div P
           r == product % P
           sum == q + r
<1>1. P \in Nat /\ P > 2 /\ Rand!M \in Nat /\ Rand!M > 1 /\ P = Rand!M + 1 /\ A \in Nat /\ A > 0 /\ A < Rand!M
  BY DEF Rand!RandomAssumption, Rand!M
<1>2. product \in Nat /\ product > 0
  BY <1>1
<1>3. q \in Nat /\ r \in 0..(P - 1) /\ product = P * q + r
  BY <1>1, <1>2
<1>4. product < A * P
  BY <1>1
<1>5. \A k \in 0..A : product # k * Rand!M
  BY DEF Rand!RandomAssumption
<1>6. Rand!Step(s) = IF sum > Rand!M THEN sum - Rand!M ELSE sum
  BY DEF Rand!Step
<1> HIDE DEF product, q, r
<1>7. q < A
  <2>1. SUFFICES ASSUME q >= A PROVE FALSE
    BY <1>1, <1>3
  <2>2. P * q >= P * A
    BY <2>1, <1>1, <1>3
  <2>3. QED
    BY <2>2, <1>1, <1>3, <1>4
<1>8. product = q * Rand!M + sum
  BY <1>1, <1>3
<1>9. sum # 0
  BY <1>1, <1>3, <1>7, <1>8, <1>5
<1>10. sum # Rand!M
  <2>1. SUFFICES ASSUME sum = Rand!M PROVE FALSE
    OBVIOUS
  <2>2. product = (q + 1) * Rand!M
    BY <2>1, <1>8, <1>1, <1>3
  <2>3. QED
    BY <2>2, <1>1, <1>3, <1>5, <1>7
<1>11. sum \in Nat /\ sum < 2 * Rand!M
  BY <1>1, <1>3, <1>7
<1>12. CASE sum > Rand!M
  <2>1. product = (q + 1) * Rand!M + (sum - Rand!M)
    BY <1>1, <1>3, <1>8
  <2>2. sum - Rand!M \in 1..(Rand!M - 1)
    BY <1>12, <1>11, <1>1
  <2>3. product % Rand!M = sum - Rand!M
    BY <2>1, <2>2, <1>1, <1>3, Remainder
  <2>4. QED
    BY <1>12, <1>6, <2>2, <2>3, Zenon DEF product
<1>13. CASE ~(sum > Rand!M)
  <2>1. sum \in 1..(Rand!M - 1)
    BY <1>13, <1>9, <1>10, <1>11, <1>1
  <2>2. product % Rand!M = sum
    BY <2>1, <1>1, <1>3, <1>8, Remainder
  <2>3. QED
    BY <1>13, <1>6, <2>1, <2>2, Zenon DEF product
<1>14. QED
  BY <1>12, <1>13

\* A seed that a client gives is good, or made good.
LEMMA GoodSeedIsGood ==
  ASSUME Rand!RandomAssumption, NEW s \in Seed
  PROVE  Rand!GoodSeed(s) = (IF s % P = 0 THEN 1 ELSE s % P) /\ Rand!GoodSeed(s) \in 1..(Rand!M - 1)
  BY DEF Rand!RandomAssumption, Rand!GoodSeed, Rand!M

\* The generator is the one that multiplies, and what it returned was in its range.
RandInv == Rand!GeneratesByMultiplying /\ seed_ \in Nat /\ Rand!RangesAreKept

LEMMA RandInitInv == ASSUME Rand!Init PROVE RandInv
  BY DEF Rand!Init, Rand!None, RandInv, Rand!GeneratesByMultiplying, Rand!RangesAreKept

\* A draw goes on by one step of the generator that multiplies.
LEMMA DrawGenerates ==
  ASSUME Rand!RandomAssumption, RandInv, seed_ # 0
  PROVE  /\ seed_ \in 1..(Rand!M - 1) /\ Rand!Step(seed_) = (ideal * A) % Rand!M
         /\ Rand!Step(seed_) \in 1..(Rand!M - 1)
         /\ Rand!Step(seed_) \in Nat \ {0}
<1>1. 1..(Rand!M - 1) \subseteq Nat \ {0}
  BY DEF Rand!RandomAssumption, Rand!M
<1>2. QED
  BY <1>1, StepIsProduct DEF RandInv, Rand!GeneratesByMultiplying

\* Every call keeps both.
LEMMA RandNextInv == ASSUME Rand!RandomAssumption, RandInv, [Rand!Next]_randomVars PROVE RandInv'
<1>1. 1..(Rand!M - 1) \subseteq Nat \ {0}
  BY DEF Rand!RandomAssumption, Rand!M
<1>2. ASSUME NEW s \in Seed, Rand!GetTLSInstance(s) \/ Rand!Reset(s) PROVE RandInv'
  BY <1>1, <1>2, GoodSeedIsGood
  DEF Rand!GetTLSInstance, Rand!Reset, RandInv, Rand!GeneratesByMultiplying, Rand!RangesAreKept
<1>3. ASSUME NEW name, NEW arg, NEW f, Rand!Draw(name, arg, f),
             name = "Uniform" => f < arg, name # "Skewed"
      PROVE  RandInv'
  <2>1. seed_' = Rand!Step(seed_) /\ ideal' = (ideal * A) % Rand!M /\ seed_ # 0
        /\ returned' = [call |-> name, arg |-> arg, value |-> f]
    BY <1>3 DEF Rand!Draw
  <2>2. Rand!GeneratesByMultiplying' /\ seed_' \in Nat
    BY <2>1, DrawGenerates, Zenon DEF Rand!GeneratesByMultiplying
  <2>3. Rand!RangesAreKept'
    BY <1>3, <2>1 DEF Rand!RangesAreKept
  <2>4. QED
    BY <2>2, <2>3, Zenon DEF RandInv
<1>4. ASSUME Rand!NextValue PROVE RandInv'
  BY <1>3, <1>4 DEF Rand!NextValue
<1>5. ASSUME NEW n \in N, Rand!Uniform(n) PROVE RandInv'
  <2>1. n \in Nat \ {0} /\ Rand!Step(seed_) \in Nat
    BY <1>5, DrawGenerates DEF Rand!Uniform, Rand!Draw, Rand!RandomAssumption
  <2>2. Rand!Step(seed_) % n < n
    BY <2>1
  <2>3. QED
    BY <1>3, <1>5, <2>2, Zenon DEF Rand!Uniform
<1>6. ASSUME NEW n \in N, Rand!OneIn(n) PROVE RandInv'
  BY <1>3, <1>6 DEF Rand!OneIn
<1>7. ASSUME NEW log \in Log, Rand!Skewed(log) PROVE RandInv'
  <2> DEFINE first == Rand!Step(seed_)
             second == Rand!Step(first)
  <2>1. first = (ideal * A) % Rand!M /\ first \in 1..(Rand!M - 1) /\ first \in Nat
    BY <1>7, DrawGenerates DEF Rand!Skewed
  <2>2. second = (first * A) % Rand!M /\ second \in 1..(Rand!M - 1) /\ second \in Nat \ {0}
    BY <1>1, <2>1, StepIsProduct, Zenon
  <2>3. /\ seed_' = second /\ ideal' = (((ideal * A) % Rand!M) * A) % Rand!M
        /\ returned' = [call |-> "Skewed", arg |-> log, value |-> second % 2^(first % (log + 1))]
    BY <1>7, Zenon DEF Rand!Skewed
  <2> HIDE DEF second
  <2>4. Rand!GeneratesByMultiplying' /\ seed_' \in Nat
    BY <2>1, <2>2, <2>3, Zenon DEF Rand!GeneratesByMultiplying
  <2> HIDE DEF first
  <2>5. second % 2^(first % (log + 1)) < 2^log
    <3>1. log \in Nat /\ first % (log + 1) \in 0..log
      BY <2>1 DEF Rand!RandomAssumption
    <3> DEFINE m == 2^(first % (log + 1))
               k == 2^log
    <3>2. m \in Nat \ {0} /\ k \in Nat /\ m <= k
      BY <3>1 DEF Rand!RandomAssumption
    <3> HIDE DEF m, k
    <3>3. second % m < k
      BY <2>2, <3>2
    <3>4. QED
      BY <3>3 DEF m, k
  <2>6. Rand!RangesAreKept'
    BY <2>3, <2>5 DEF Rand!RangesAreKept
  <2>7. QED
    BY <2>4, <2>6, Zenon DEF RandInv
<1>8. CASE UNCHANGED randomVars
  BY <1>8 DEF randomVars, RandInv, Rand!GeneratesByMultiplying, Rand!RangesAreKept
<1>9. QED
  BY <1>2, <1>4, <1>5, <1>6, <1>7, <1>8, Zenon DEF Rand!Next

-----------------------------------------------------------------------------
(* The vector.                                                             *)

\* The parts of the vectors
VecParts == Vec!VectorType /\ Vec!StackFirst

\* The items that a resize leaves
LEMMA ResizedType ==
  ASSUME Vec!VectorAssumption, NEW s \in Seq(T), NEW n \in Nat
  PROVE  Vec!Resized(s, n) \in Seq(T) /\ Len(Vec!Resized(s, n)) = n
  BY DEF Vec!Resized, Vec!VectorAssumption

\* The items but the last
LEMMA FrontType ==
  ASSUME NEW s \in Seq(T), s # <<>>
  PROVE  /\ SubSeq(s, 1, Len(s) - 1) \in Seq(T)
         /\ Len(SubSeq(s, 1, Len(s) - 1)) = Len(s) - 1
         /\ Len(s) > 0
<1>1. Len(s) \in Nat \ {0}
  BY EmptyOrLonger
<1>2. \A i \in 1..(Len(s) - 1) : s[i] \in T
  BY <1>1, ItemOfSeq
<1>3. Len(s) - 1 \in Nat
  BY <1>1
<1>4. SubSeq(s, 1, Len(s) - 1) \in Seq(T) /\ Len(SubSeq(s, 1, Len(s) - 1)) = Len(s) - 1
  BY <1>2, <1>3, PrefixFacts, Zenon
<1>5. Len(s) > 0
  BY <1>1
<1>6. QED
  BY <1>4, <1>5, Zenon

\* What holds of the one vector that changes, and held of all, holds of all.
LEMMA OneChanges ==
  ASSUME Vec!VectorAssumption, VecParts, NEW v \in Vector,
         NEW k \in 0..kSize, NEW a \in [0..(kSize - 1) -> T], NEW s \in Seq(T), NEW b \in BOOLEAN,
         num_stack_items_' = [num_stack_items_ EXCEPT ![v] = k],
         values_' = [values_ EXCEPT ![v] = a],
         vect_' = [vect_ EXCEPT ![v] = s],
         allocated' = [allocated EXCEPT ![v] = b],
         s # <<>> => k = kSize /\ b
  PROVE  VecParts'
<1>1. Vec!VectorType'
  BY DEF VecParts, Vec!VectorType
<1>2. Vec!StackFirst'
  BY DEF VecParts, Vec!VectorType, Vec!StackFirst, Vec!only_in_stack
<1>3. QED
  BY <1>1, <1>2 DEF VecParts

-----------------------------------------------------------------------------
(* The items of an array of which k are in use, followed by those of s.    *)

Joined(k, a, s) == [i \in 1..(k + Len(s)) |-> IF i - 1 < kSize THEN a[i - 1] ELSE s[i - 1 - kSize + 1]]

Parts(k, a, s) ==
  k \in 0..kSize /\ a \in [0..(kSize - 1) -> T] /\ s \in Seq(T) /\ (s # <<>> => k = kSize)

LEMMA JoinedType ==
  ASSUME Vec!VectorAssumption, NEW k, NEW a, NEW s, Parts(k, a, s)
  PROVE  /\ Joined(k, a, s) \in Seq(T)
         /\ Len(Joined(k, a, s)) = k + Len(s)
         /\ \A i \in 1..(k + Len(s)) :
              Joined(k, a, s)[i] = IF i - 1 < kSize THEN a[i - 1] ELSE s[i - kSize]
<1>1. k + Len(s) \in Nat /\ Len(s) \in Nat /\ kSize \in Nat
  BY DEF Parts, Vec!VectorAssumption
<1>2. ASSUME NEW i \in 1..(k + Len(s)) PROVE Joined(k, a, s)[i] \in T
  <2>1. CASE i - 1 < kSize
    BY <1>1, <2>1 DEF Joined, Parts
  <2>2. CASE ~(i - 1 < kSize)
    <3>1. i - kSize \in 1..Len(s) /\ i - 1 - kSize + 1 = i - kSize
      BY <1>1, <2>2 DEF Parts
    <3>2. s[i - kSize] \in T
      BY <3>1, ItemOfSeq, Zenon DEF Parts
    <3>3. QED
      BY <1>1, <2>2, <3>1, <3>2, Zenon DEF Joined
  <2>3. QED
    BY <2>1, <2>2, Zenon
<1>3. Joined(k, a, s) \in [1..(k + Len(s)) -> T]
  BY <1>2 DEF Joined
<1>4. Joined(k, a, s) \in Seq(T) /\ Len(Joined(k, a, s)) = k + Len(s)
  BY <1>1, <1>3
<1>5. ASSUME NEW i \in 1..(k + Len(s))
      PROVE  Joined(k, a, s)[i] = IF i - 1 < kSize THEN a[i - 1] ELSE s[i - kSize]
  <2>1. i - 1 - kSize + 1 = i - kSize
    BY <1>1
  <2>2. QED
    BY <2>1 DEF Joined
<1>6. QED
  BY <1>4, <1>5

\* Two sequences of items that have the same length and agree everywhere are the same.
LEMMA JoinedEqual ==
  ASSUME Vec!VectorAssumption, NEW k, NEW a, NEW s, Parts(k, a, s), NEW t \in Seq(T),
         Len(t) = k + Len(s),
         \A i \in 1..(k + Len(s)) : t[i] = IF i - 1 < kSize THEN a[i - 1] ELSE s[i - kSize]
  PROVE  Joined(k, a, s) = t
<1>1. /\ Joined(k, a, s) \in Seq(T) /\ Len(Joined(k, a, s)) = k + Len(s)
      /\ \A i \in 1..(k + Len(s)) :
           Joined(k, a, s)[i] = IF i - 1 < kSize THEN a[i - 1] ELSE s[i - kSize]
  BY JoinedType
<1>2. \A i \in 1..(k + Len(s)) : Joined(k, a, s)[i] = t[i]
  BY <1>1, Zenon
<1>3. QED
  BY <1>1, <1>2, SameItems, Zenon

\* An item is put behind the last, into the array
LEMMA PushArray ==
  ASSUME Vec!VectorAssumption, NEW k, NEW a, NEW item \in T, Parts(k, a, <<>>), k < kSize
  PROVE  Joined(k + 1, [a EXCEPT ![k] = item], <<>>) = Append(Joined(k, a, <<>>), item)
<1> DEFINE t == Append(Joined(k, a, <<>>), item)
           b == [a EXCEPT ![k] = item]
<1>0. Len(<<>>) = 0 /\ k + Len(<<>>) = k /\ k + 1 + Len(<<>>) = k + 1 /\ k \in Nat /\ kSize \in Nat
  BY EmptyOrLonger DEF Parts, Vec!VectorAssumption
<1>1. Joined(k, a, <<>>) \in Seq(T) /\ Len(Joined(k, a, <<>>)) = k
  <2>1. Joined(k, a, <<>>) \in Seq(T) /\ Len(Joined(k, a, <<>>)) = k + Len(<<>>)
    BY JoinedType, Zenon
  <2>2. QED
    BY <2>1, <1>0, Zenon
<1>2. t \in Seq(T) /\ Len(t) = k + 1 /\ t[k + 1] = item
      /\ \A i \in 1..k : t[i] = Joined(k, a, <<>>)[i]
  BY <1>1, Appended
<1>3. \A i \in 1..k : Joined(k, a, <<>>)[i] = a[i - 1]
  <2>1. \A i \in 1..(k + Len(<<>>)) :
          Joined(k, a, <<>>)[i] = IF i - 1 < kSize THEN a[i - 1] ELSE <<>>[i - kSize]
    BY JoinedType
  <2>2. QED
    BY <2>1, <1>0
<1>4. Parts(k + 1, b, <<>>) /\ k \in Nat
  BY DEF Parts, Vec!VectorAssumption
<1> HIDE DEF t
<1>5. \A i \in 1..(k + 1) : t[i] = b[i - 1]
  BY <1>2, <1>3, <1>4 DEF Parts, Vec!VectorAssumption
<1>6. \A i \in 1..(k + 1 + Len(<<>>)) : t[i] = IF i - 1 < kSize THEN b[i - 1] ELSE <<>>[i - kSize]
  BY <1>4, <1>5 DEF Vec!VectorAssumption
<1>7. Joined(k + 1, b, <<>>) = t
  <2>1. Len(t) = k + 1 + Len(<<>>)
    BY <1>0, <1>2
  <2> HIDE DEF b
  <2>2. QED
    BY <2>1, <1>2, <1>4, <1>6, JoinedEqual
<1>8. QED
  BY <1>7, Zenon DEF t

\* or into the std::vector.
LEMMA PushVector ==
  ASSUME Vec!VectorAssumption, NEW a, NEW s, NEW item \in T, Parts(kSize, a, s)
  PROVE  Joined(kSize, a, Append(s, item)) = Append(Joined(kSize, a, s), item)
<1> DEFINE t == Append(Joined(kSize, a, s), item)
           r == Append(s, item)
<1>1. s \in Seq(T) /\ Len(s) \in Nat /\ kSize \in Nat
  BY DEF Parts, Vec!VectorAssumption
<1>2. r \in Seq(T) /\ Len(r) = Len(s) + 1 /\ r[Len(s) + 1] = item
      /\ \A i \in 1..Len(s) : r[i] = s[i]
  BY <1>1, Appended
<1>3. Joined(kSize, a, s) \in Seq(T) /\ Len(Joined(kSize, a, s)) = kSize + Len(s)
  BY JoinedType, Zenon
<1>4. t \in Seq(T) /\ Len(t) = kSize + Len(r) /\ t[kSize + Len(r)] = item
      /\ \A i \in 1..(kSize + Len(s)) : t[i] = Joined(kSize, a, s)[i]
  BY <1>1, <1>2, <1>3, Appended
<1>5. Parts(kSize, a, r)
  BY <1>2 DEF Parts
<1> HIDE DEF t, r
<1>6. ASSUME NEW i \in 1..(kSize + Len(r))
      PROVE  t[i] = IF i - 1 < kSize THEN a[i - 1] ELSE r[i - kSize]
  <2>1. CASE i = kSize + Len(r)
    <3>1. ~(i - 1 < kSize) /\ i - kSize = Len(s) + 1
      BY <1>1, <1>2, <2>1
    <3>2. QED
      BY <1>2, <1>4, <2>1, <3>1, Zenon
  <2>2. CASE i # kSize + Len(r)
    <3>1. i \in 1..(kSize + Len(s))
      BY <1>1, <1>2, <2>2, AllButLast, Zenon
    <3>2. t[i] = IF i - 1 < kSize THEN a[i - 1] ELSE s[i - kSize]
      BY <3>1, <1>4, JoinedType
    <3>3. QED
      BY <3>1, <3>2, <1>1, <1>2
  <2>3. QED
    BY <2>1, <2>2, Zenon
<1>7. Joined(kSize, a, r) = t
  BY <1>4, <1>5, <1>6, JoinedEqual, ZenonT(30)
<1>8. QED
  BY <1>7 DEF t, r

\* The last item is taken from the std::vector
LEMMA PopVector ==
  ASSUME Vec!VectorAssumption, NEW a, NEW s, Parts(kSize, a, s), s # <<>>
  PROVE  Joined(kSize, a, SubSeq(s, 1, Len(s) - 1))
           = SubSeq(Joined(kSize, a, s), 1, kSize + Len(s) - 1)
<1> DEFINE j == Joined(kSize, a, s)
           n == kSize + Len(s) - 1
           t == SubSeq(j, 1, n)
           r == SubSeq(s, 1, Len(s) - 1)
<1>1. s \in Seq(T) /\ Len(s) \in Nat /\ Len(s) > 0 /\ kSize \in Nat /\ n \in Nat
  BY FrontType DEF Parts, Vec!VectorAssumption
<1>2. r \in Seq(T) /\ Len(r) = Len(s) - 1
  BY <1>1, FrontType, Zenon
<1>3. \A i \in 1..Len(r) : r[i] = s[i]
  <2>1. Len(s) - 1 \in Nat /\ Len(s) - 1 <= Len(s)
    BY <1>1, OneLonger, Zenon
  <2>2. QED
    BY <1>1, <1>2, <2>1, PrefixItems, Zenon
<1>4. j \in Seq(T) /\ Len(j) = n + 1
      /\ \A i \in 1..(n + 1) : j[i] = IF i - 1 < kSize THEN a[i - 1] ELSE s[i - kSize]
  <2>1. kSize + Len(s) = n + 1
    BY <1>1, OneLonger, Zenon
  <2>2. j \in Seq(T) /\ Len(j) = kSize + Len(s)
        /\ \A i \in 1..(kSize + Len(s)) :
             j[i] = IF i - 1 < kSize THEN a[i - 1] ELSE s[i - kSize]
    BY JoinedType
  <2> HIDE DEF j, n
  <2>3. QED
    BY <2>1, <2>2, Zenon
<1> HIDE DEF j
<1> HIDE DEF n
<1>5. t \in Seq(T) /\ Len(t) = n /\ \A i \in 1..n : t[i] = j[i]
  <2>1. n <= Len(j)
    BY <1>1, <1>4
  <2>2. QED
    BY <1>1, <1>4, <2>1, PrefixItems, Zenon
<1>6. Parts(kSize, a, r) /\ n = kSize + Len(r)
  BY <1>1, <1>2 DEF Parts, n
<1> HIDE DEF t, r
<1>7. ASSUME NEW i \in 1..n
      PROVE  t[i] = IF i - 1 < kSize THEN a[i - 1] ELSE r[i - kSize]
  <2>1. t[i] = IF i - 1 < kSize THEN a[i - 1] ELSE s[i - kSize]
    BY <1>1, <1>4, <1>5
  <2>2. ~(i - 1 < kSize) => i - kSize \in 1..Len(r)
    <3>1. Len(r) \in Nat
      BY <1>1, <1>2
    <3>2. QED
      BY <1>1, <1>6, <3>1, BehindArray, Zenon
  <2>3. QED
    BY <2>1, <2>2, <1>3, Zenon
<1>8. Joined(kSize, a, r) = t
  <2>1. \A i \in 1..(kSize + Len(r)) : t[i] = IF i - 1 < kSize THEN a[i - 1] ELSE r[i - kSize]
    BY <1>6, <1>7, Zenon
  <2>2. t \in Seq(T) /\ Len(t) = kSize + Len(r) /\ Parts(kSize, a, r)
    BY <1>5, <1>6, Zenon
  <2>3. QED
    BY <2>1, <2>2, JoinedEqual
<1>9. QED
  BY <1>8 DEF t, r, j, n

\* or, when that is empty, from the array. A smaller part of the array is the beginning
\* of a larger one.
LEMMA PopArray ==
  ASSUME Vec!VectorAssumption, NEW k, NEW a, Parts(k, a, <<>>), k > 0
  PROVE  Joined(k - 1, a, <<>>) = SubSeq(Joined(k, a, <<>>), 1, k - 1)
<1> DEFINE j == Joined(k, a, <<>>)
           t == SubSeq(j, 1, k - 1)
<1>1. Len(<<>>) = 0 /\ k + Len(<<>>) = k /\ k - 1 + Len(<<>>) = k - 1 /\ k \in Nat /\ kSize \in Nat
      /\ k <= kSize
  BY EmptyOrLonger DEF Parts, Vec!VectorAssumption
<1>2. j \in Seq(T) /\ Len(j) = k + Len(<<>>)
      /\ \A i \in 1..(k + Len(<<>>)) : j[i] = IF i - 1 < kSize THEN a[i - 1] ELSE <<>>[i - kSize]
  BY JoinedType
<1> HIDE DEF j
<1>3. t \in Seq(T) /\ Len(t) = k - 1 /\ \A i \in 1..(k - 1) : t[i] = j[i]
  BY <1>1, <1>2
<1>4. Parts(k - 1, a, <<>>)
  BY <1>1 DEF Parts
<1> HIDE DEF t
<1>5. Len(t) = k - 1 + Len(<<>>)
  BY <1>1, <1>3, Zenon
<1>6. ASSUME NEW i \in 1..(k - 1 + Len(<<>>))
      PROVE  t[i] = IF i - 1 < kSize THEN a[i - 1] ELSE <<>>[i - kSize]
  <2>1. i \in 1..(k - 1) /\ i \in 1..(k + Len(<<>>))
    BY <1>1
  <2>2. QED
    BY <1>2, <1>3, <2>1, Zenon
<1>7. Joined(k - 1, a, <<>>) = t
  BY <1>3, <1>4, <1>5, <1>6, JoinedEqual
<1>8. QED
  BY <1>7 DEF t, j

-----------------------------------------------------------------------------
(* The operations.                                                         *)

\* The items of a vector are those of its parts.
LEMMA ItemsAreJoined ==
  ASSUME Vec!VectorAssumption, VecParts, NEW v \in Vector
  PROVE  /\ Vec!Items(v) = Joined(num_stack_items_[v], values_[v], vect_[v])
         /\ Parts(num_stack_items_[v], values_[v], vect_[v])
<1>1. Parts(num_stack_items_[v], values_[v], vect_[v])
  BY DEF VecParts, Vec!VectorType, Vec!StackFirst, Parts
<1>2. Vec!Items(v) = Joined(num_stack_items_[v], values_[v], vect_[v])
  BY DEF Vec!Items, Joined, Vec!size, Vec!At
<1>3. QED
  BY <1>1, <1>2, Zenon

\* The parts of one vector change, to parts that a vector can have.
Becomes(v, k, a, s, b) ==
  /\ k \in 0..kSize /\ a \in [0..(kSize - 1) -> T] /\ s \in Seq(T) /\ b \in BOOLEAN
  /\ s # <<>> => k = kSize /\ b
  /\ num_stack_items_' = [num_stack_items_ EXCEPT ![v] = k]
  /\ values_' = [values_ EXCEPT ![v] = a]
  /\ vect_' = [vect_ EXCEPT ![v] = s]
  /\ allocated' = [allocated EXCEPT ![v] = b]

\* When one vector's parts change to k, a and s, its items do and those of others do not.
LEMMA OneActs ==
  ASSUME Vec!VectorAssumption, VecParts, NEW v \in Vector,
         NEW k, NEW a, NEW s, NEW b, Becomes(v, k, a, s, b)
  PROVE  /\ VecParts'
         /\ Vec!Items(v)' = Joined(k, a, s)
         /\ Vec!size(v)' = k + Len(s)
         /\ \A w \in Vector \ {v} : Vec!Items(w)' = Vec!Items(w)
<1>1. VecParts'
  BY OneChanges, Zenon DEF Becomes
<1>2. num_stack_items_'[v] = k /\ values_'[v] = a /\ vect_'[v] = s
  BY DEF VecParts, Vec!VectorType, Becomes
<1>3. Vec!Items(v)' = Joined(k, a, s) /\ Vec!size(v)' = k + Len(s)
  <2>1. Vec!Items(v)' = Joined(num_stack_items_'[v], values_'[v], vect_'[v])
    BY Zenon DEF Vec!Items, Joined, Vec!size, Vec!At
  <2>2. Vec!size(v)' = num_stack_items_'[v] + Len(vect_'[v])
    BY Zenon DEF Vec!size
  <2>3. QED
    BY <1>2, <2>1, <2>2, Zenon
<1>4. ASSUME NEW w \in Vector \ {v} PROVE Vec!Items(w)' = Vec!Items(w)
  <2>1. num_stack_items_'[w] = num_stack_items_[w] /\ values_'[w] = values_[w] /\ vect_'[w] = vect_[w]
    BY DEF VecParts, Vec!VectorType, Becomes
  <2>2. QED
    BY <2>1, Zenon DEF Vec!Items, Vec!size, Vec!At
<1>5. QED
  BY <1>1, <1>3, <1>4

\* What is known of a vector before an operation
LEMMA Before ==
  ASSUME Vec!VectorAssumption, VecParts, NEW v \in Vector
  PROVE  /\ num_stack_items_[v] \in 0..kSize /\ values_[v] \in [0..(kSize - 1) -> T]
         /\ vect_[v] \in Seq(T) /\ allocated[v] \in BOOLEAN
         /\ vect_[v] # <<>> => num_stack_items_[v] = kSize /\ allocated[v] = TRUE
         /\ kSize \in Nat /\ Len(vect_[v]) \in Nat
         /\ num_stack_items_ = [num_stack_items_ EXCEPT ![v] = num_stack_items_[v]]
         /\ values_ = [values_ EXCEPT ![v] = values_[v]]
         /\ vect_ = [vect_ EXCEPT ![v] = vect_[v]]
         /\ allocated = [allocated EXCEPT ![v] = allocated[v]]
  BY DEF Vec!VectorAssumption, VecParts, Vec!VectorType, Vec!StackFirst, Vec!only_in_stack

LEMMA PushActs ==
  ASSUME Vec!VectorAssumption, VecParts, NEW v \in Vector, NEW item \in T, Vec!push_back(v, item)
  PROVE  /\ VecParts'
         /\ Vec!Items(v)' = Append(Vec!Items(v), item)
         /\ \A w \in Vector \ {v} : Vec!Items(w)' = Vec!Items(w)
<1> DEFINE k == num_stack_items_[v]
           a == values_[v]
           s == vect_[v]
<1>0. k \in 0..kSize /\ a \in [0..(kSize - 1) -> T] /\ s \in Seq(T) /\ allocated[v] \in BOOLEAN
      /\ (s # <<>> => k = kSize /\ allocated[v] = TRUE) /\ kSize \in Nat /\ Len(s) \in Nat
  BY Before, Zenon
<1>1. CASE k < kSize
  <2>1. s = <<>>
    BY <1>1, <1>0
  <2>2. /\ num_stack_items_' = [num_stack_items_ EXCEPT ![v] = k + 1]
        /\ values_' = [values_ EXCEPT ![v] = [a EXCEPT ![k] = item]]
        /\ vect_' = [vect_ EXCEPT ![v] = s]
        /\ allocated' = [allocated EXCEPT ![v] = allocated[v]]
    BY <1>1, Before, Zenon DEF Vec!push_back
  <2>3. /\ k + 1 \in 0..kSize /\ [a EXCEPT ![k] = item] \in [0..(kSize - 1) -> T]
        /\ s # <<>> => k + 1 = kSize /\ allocated[v]
    <3>1. k + 1 \in 0..kSize
      BY <1>1, <1>0
    <3>2. [a EXCEPT ![k] = item] \in [0..(kSize - 1) -> T]
      BY <1>0, Zenon
    <3>3. QED
      BY <2>1, <3>1, <3>2, Zenon
  <2>4. /\ VecParts'
        /\ Vec!Items(v)' = Joined(k + 1, [a EXCEPT ![k] = item], s)
        /\ \A w \in Vector \ {v} : Vec!Items(w)' = Vec!Items(w)
    <3> DEFINE m == k + 1
               c == [a EXCEPT ![k] = item]
               e == s
               b == allocated[v]
    <3>1. m \in 0..kSize /\ c \in [0..(kSize - 1) -> T] /\ e \in Seq(T) /\ b \in BOOLEAN
          /\ (e # <<>> => m = kSize /\ b)
      BY <2>3, <1>0, Zenon
    <3>2. /\ num_stack_items_' = [num_stack_items_ EXCEPT ![v] = m]
          /\ values_' = [values_ EXCEPT ![v] = c]
          /\ vect_' = [vect_ EXCEPT ![v] = e]
          /\ allocated' = [allocated EXCEPT ![v] = b]
      BY <2>2
    <3> HIDE DEF m, c, e, b
    <3>3. VecParts' /\ Vec!Items(v)' = Joined(m, c, e) /\ \A w \in Vector \ {v} : Vec!Items(w)' = Vec!Items(w)
      <4>1. Becomes(v, m, c, e, b)
        BY <3>1, <3>2, Zenon DEF Becomes
      <4>2. QED
        BY <4>1, OneActs, Zenon
    <3>4. QED
      BY <3>3, Zenon DEF m, c, e
  <2>5. Joined(k + 1, [a EXCEPT ![k] = item], s) = Append(Joined(k, a, s), item)
    <3>1. Parts(k, a, s)
      BY ItemsAreJoined, Zenon
    <3>2. Joined(k + 1, [a EXCEPT ![k] = item], <<>>) = Append(Joined(k, a, <<>>), item)
      BY <1>1, <2>1, <3>1, PushArray, Zenon
    <3>3. QED
      BY <2>1, <3>2, Zenon
  <2>6. QED
    BY <2>4, <2>5, ItemsAreJoined, ZenonT(30)
<1>2. CASE ~(k < kSize)
  <2>1. k = kSize /\ kSize \in 0..kSize
    BY <1>2, <1>0
  <2>2. /\ num_stack_items_' = [num_stack_items_ EXCEPT ![v] = kSize]
        /\ values_' = [values_ EXCEPT ![v] = a]
        /\ vect_' = [vect_ EXCEPT ![v] = Append(s, item)]
        /\ allocated' = [allocated EXCEPT ![v] = TRUE]
    <3>1. /\ vect_' = [vect_ EXCEPT ![v] = Append(s, item)]
          /\ allocated' = [allocated EXCEPT ![v] = TRUE]
          /\ UNCHANGED <<num_stack_items_, values_>>
      BY <1>2, Zenon DEF Vec!push_back
    <3>2. num_stack_items_ = [num_stack_items_ EXCEPT ![v] = k] /\ values_ = [values_ EXCEPT ![v] = a]
      BY Before, Zenon
    <3>3. QED
      BY <3>1, <3>2, <2>1, Zenon
  <2>3. Append(s, item) \in Seq(T)
    BY <1>0, Appended
  <2>4. /\ VecParts'
        /\ Vec!Items(v)' = Joined(kSize, a, Append(s, item))
        /\ \A w \in Vector \ {v} : Vec!Items(w)' = Vec!Items(w)
    <3>1. Becomes(v, kSize, a, Append(s, item), TRUE)
      BY <2>1, <2>2, <2>3, <1>0, Zenon DEF Becomes
    <3>2. QED
      BY <3>1, OneActs, Zenon
  <2>5. Joined(kSize, a, Append(s, item)) = Append(Joined(k, a, s), item)
    <3>1. Parts(kSize, a, s)
      BY <2>1, ItemsAreJoined, Zenon
    <3>2. QED
      BY <2>1, <3>1, PushVector, Zenon
  <2>6. QED
    BY <2>4, <2>5, ItemsAreJoined, Zenon
<1>3. QED
  BY <1>1, <1>2, Zenon

LEMMA PopActs ==
  ASSUME Vec!VectorAssumption, VecParts, NEW v \in Vector, Vec!pop_back(v)
  PROVE  /\ VecParts'
         /\ Vec!Items(v)' = SubSeq(Vec!Items(v), 1, Vec!size(v) - 1)
         /\ \A w \in Vector \ {v} : Vec!Items(w)' = Vec!Items(w)
<1> DEFINE k == num_stack_items_[v]
           a == values_[v]
           s == vect_[v]
<1>0. k \in 0..kSize /\ a \in [0..(kSize - 1) -> T] /\ s \in Seq(T) /\ allocated[v] \in BOOLEAN
      /\ (s # <<>> => k = kSize /\ allocated[v] = TRUE) /\ kSize \in Nat /\ Len(s) \in Nat
  BY Before, Zenon
<1>1. CASE s # <<>>
  <2>1. k = kSize /\ kSize \in 0..kSize /\ allocated[v] = TRUE
    BY <1>1, <1>0
  <2>2. /\ num_stack_items_' = [num_stack_items_ EXCEPT ![v] = kSize]
        /\ values_' = [values_ EXCEPT ![v] = a]
        /\ vect_' = [vect_ EXCEPT ![v] = SubSeq(s, 1, Len(s) - 1)]
        /\ allocated' = [allocated EXCEPT ![v] = TRUE]
    BY <1>1, <2>1, Before, Zenon DEF Vec!pop_back
  <2>3. SubSeq(s, 1, Len(s) - 1) \in Seq(T)
    BY <1>1, <1>0, FrontType
  <2>4. /\ VecParts'
        /\ Vec!Items(v)' = Joined(kSize, a, SubSeq(s, 1, Len(s) - 1))
        /\ \A w \in Vector \ {v} : Vec!Items(w)' = Vec!Items(w)
    <3>1. Becomes(v, kSize, a, SubSeq(s, 1, Len(s) - 1), TRUE)
      BY <2>1, <2>2, <2>3, <1>0, Zenon DEF Becomes
    <3>2. QED
      BY <3>1, OneActs, Zenon
  <2>5. Joined(kSize, a, SubSeq(s, 1, Len(s) - 1)) = SubSeq(Joined(k, a, s), 1, Vec!size(v) - 1)
    <3>1. Parts(kSize, a, s)
      BY <2>1, ItemsAreJoined, Zenon
    <3>2. Joined(kSize, a, SubSeq(s, 1, Len(s) - 1))
            = SubSeq(Joined(kSize, a, s), 1, kSize + Len(s) - 1)
      BY <1>1, <3>1, PopVector, Zenon
    <3>3. Vec!size(v) = kSize + Len(s)
      BY <2>1 DEF Vec!size
    <3>4. QED
      BY <2>1, <3>2, <3>3
  <2>6. QED
    BY <2>4, <2>5, ItemsAreJoined, Zenon
<1>2. CASE s = <<>>
  <2>1. Vec!size(v) = k /\ k > 0
    <3>1. Vec!size(v) = k + Len(s) /\ Vec!size(v) > 0
      BY Zenon DEF Vec!pop_back, Vec!size
    <3>2. Len(s) = 0
      BY <1>2, EmptyOrLonger, Zenon
    <3>3. k \in Nat
      BY <1>0
    <3>4. QED
      BY <3>1, <3>2, <3>3
  <2>2. k - 1 \in 0..kSize
    BY <2>1, <1>0
  <2>3. /\ num_stack_items_' = [num_stack_items_ EXCEPT ![v] = k - 1]
        /\ values_' = [values_ EXCEPT ![v] = a]
        /\ vect_' = [vect_ EXCEPT ![v] = s]
        /\ allocated' = [allocated EXCEPT ![v] = allocated[v]]
    BY <1>2, Before, Zenon DEF Vec!pop_back
  <2>4. /\ VecParts'
        /\ Vec!Items(v)' = Joined(k - 1, a, s)
        /\ \A w \in Vector \ {v} : Vec!Items(w)' = Vec!Items(w)
    <3>1. Becomes(v, k - 1, a, s, allocated[v])
      BY <1>2, <2>2, <2>3, <1>0, Zenon DEF Becomes
    <3>2. QED
      BY <3>1, OneActs, Zenon
  <2>5. Joined(k - 1, a, s) = SubSeq(Joined(k, a, s), 1, Vec!size(v) - 1)
    <3>1. Parts(k, a, s)
      BY ItemsAreJoined, Zenon
    <3>2. Joined(k - 1, a, <<>>) = SubSeq(Joined(k, a, <<>>), 1, k - 1)
      BY <1>2, <2>1, <3>1, PopArray, Zenon
    <3>3. QED
      BY <1>2, <2>1, <3>2, Zenon
  <2>6. QED
    BY <2>4, <2>5, ItemsAreJoined, Zenon
<1>3. QED
  BY <1>1, <1>2, Zenon

LEMMA ResizeActs ==
  ASSUME Vec!VectorAssumption, VecParts, NEW v \in Vector, NEW n \in 0..MaxSize, Vec!resize(v, n)
  PROVE  /\ VecParts'
         /\ Vec!size(v)' = n
         /\ \A i \in 1..n : i <= Vec!size(v) => Vec!Items(v)'[i] = Vec!Items(v)[i]
         /\ \A w \in Vector \ {v} : Vec!Items(w)' = Vec!Items(w)
<1> DEFINE k == num_stack_items_[v]
           a == values_[v]
           s == vect_[v]
<1>0. /\ k \in 0..kSize /\ a \in [0..(kSize - 1) -> T] /\ s \in Seq(T) /\ allocated[v] \in BOOLEAN
      /\ s # <<>> => k = kSize /\ allocated[v] = TRUE
      /\ kSize \in Nat /\ Len(s) \in Nat /\ n \in Nat
  <2>1. n \in Nat
    BY DEF Vec!VectorAssumption
  <2>2. QED
    BY <2>1, Before, Zenon
<1>1. /\ Vec!size(v) = k + Len(s)
      /\ \A i \in 1..Vec!size(v) : Vec!Items(v)[i] = IF i - 1 < kSize THEN a[i - 1] ELSE s[i - kSize]
  BY ItemsAreJoined, JoinedType DEF Vec!size
<1>2. CASE n > kSize
  <2> DEFINE r == Vec!Resized(s, n - kSize)
  <2>0. n - kSize \in Nat
    BY <1>0, <1>2
  <2>1. r \in Seq(T) /\ Len(r) = n - kSize
    BY <1>0, <2>0, ResizedType, Zenon
  <2>2. \A i \in 1..(n - kSize) : i <= Len(s) => r[i] = s[i]
    BY <1>0 DEF Vec!Resized
  <2>3. /\ num_stack_items_' = [num_stack_items_ EXCEPT ![v] = kSize]
        /\ values_' = [values_ EXCEPT ![v] = a]
        /\ vect_' = [vect_ EXCEPT ![v] = r]
        /\ allocated' = [allocated EXCEPT ![v] = TRUE]
    BY <1>2, Before, Zenon DEF Vec!resize
  <2>10. kSize \in 0..kSize
    BY <1>0
  <2> HIDE DEF r
  <2>4. /\ VecParts' /\ Vec!Items(v)' = Joined(kSize, a, r) /\ Vec!size(v)' = kSize + Len(r)
        /\ \A w \in Vector \ {v} : Vec!Items(w)' = Vec!Items(w)
    <3>1. Becomes(v, kSize, a, r, TRUE)
      BY <2>1, <2>3, <2>10, <1>0, Zenon DEF Becomes
    <3>2. QED
      BY <3>1, OneActs, Zenon
  <2>5. Parts(kSize, a, r)
    BY <1>0, <2>1, <2>10, ZenonT(30) DEF Parts
  <2>6. \A i \in 1..(kSize + Len(r)) : Vec!Items(v)'[i] = IF i - 1 < kSize THEN a[i - 1] ELSE r[i - kSize]
    BY <2>4, <2>5, JoinedType
  <2>7. ASSUME NEW i \in 1..n, i <= Vec!size(v) PROVE Vec!Items(v)'[i] = Vec!Items(v)[i]
    <3>0. i \in 1..(kSize + Len(r)) /\ i \in 1..Vec!size(v)
      BY <2>7, <2>1, <1>0, <1>1
    <3>1. CASE i - 1 < kSize
      BY <3>0, <3>1, <2>6, <1>1, Zenon
    <3>2. CASE ~(i - 1 < kSize)
      <4>1. i - kSize \in 1..(n - kSize) /\ i - kSize <= Len(s)
        BY <3>2, <2>7, <1>0, <1>1
      <4>2. r[i - kSize] = s[i - kSize]
        BY <4>1, <2>2, Zenon
      <4>3. QED
        BY <4>2, <3>0, <3>2, <2>6, <1>1, Zenon
    <3>3. QED
      BY <3>1, <3>2, Zenon
  <2>8. Vec!size(v)' = n
    BY <2>1, <2>4, <1>0
  <2>9. QED
    BY <2>4, <2>7, <2>8, Zenon
<1>3. CASE ~(n > kSize)
  <2>1. /\ num_stack_items_' = [num_stack_items_ EXCEPT ![v] = n]
        /\ values_' = [values_ EXCEPT ![v] = a]
        /\ vect_' = [vect_ EXCEPT ![v] = <<>>]
        /\ allocated' = [allocated EXCEPT ![v] = allocated[v]]
    BY <1>3, <1>0, Before, Zenon DEF Vec!resize
  <2>2. n \in 0..kSize /\ <<>> \in Seq(T) /\ (<<>> # <<>> => n = kSize /\ allocated[v]) /\ Len(<<>>) = 0
    BY <1>3, <1>0, EmptyOrLonger
  <2>3. /\ VecParts' /\ Vec!Items(v)' = Joined(n, a, <<>>) /\ Vec!size(v)' = n + Len(<<>>)
        /\ \A w \in Vector \ {v} : Vec!Items(w)' = Vec!Items(w)
    <3>1. Becomes(v, n, a, <<>>, allocated[v])
      BY <2>1, <2>2, <1>0, Zenon DEF Becomes
    <3>2. QED
      BY <3>1, OneActs, Zenon
  <2>4. Parts(n, a, <<>>)
    BY <1>0, <2>2, ZenonT(30) DEF Parts
  <2>5. \A i \in 1..(n + Len(<<>>)) :
          Vec!Items(v)'[i] = IF i - 1 < kSize THEN a[i - 1] ELSE <<>>[i - kSize]
    BY <2>3, <2>4, JoinedType
  <2>6. ASSUME NEW i \in 1..n, i <= Vec!size(v) PROVE Vec!Items(v)'[i] = Vec!Items(v)[i]
    <3>1. i - 1 < kSize /\ i \in 1..(n + Len(<<>>)) /\ i \in 1..Vec!size(v)
      <4>1. i - 1 < kSize /\ n + Len(<<>>) = n
        BY <2>2, <1>0, InArray, Zenon
      <4>2. i \in 1..Vec!size(v)
        BY <2>6, <1>0, <1>1
      <4>3. QED
        BY <4>1, <4>2, Zenon
    <3>2. Vec!Items(v)'[i] = a[i - 1] /\ Vec!Items(v)[i] = a[i - 1]
      BY <3>1, <2>5, <1>1, Zenon
    <3>3. QED
      BY <3>2, Zenon
  <2>7. Vec!size(v)' = n
    BY <2>2, <2>3, <1>0
  <2>8. QED
    BY <2>3, <2>6, <2>7, Zenon
<1>4. QED
  BY <1>2, <1>3

LEMMA ClearActs ==
  ASSUME Vec!VectorAssumption, VecParts, NEW v \in Vector, Vec!clear(v)
  PROVE  /\ VecParts'
         /\ Vec!Items(v)' = <<>>
         /\ \A w \in Vector \ {v} : Vec!Items(w)' = Vec!Items(w)
<1> DEFINE a == values_[v]
<1>1. /\ 0 \in 0..kSize /\ a \in [0..(kSize - 1) -> T] /\ allocated[v] \in BOOLEAN /\ kSize \in Nat
      /\ <<>> \in Seq(T) /\ (<<>> # <<>> => 0 = kSize /\ allocated[v]) /\ Len(<<>>) = 0
  <2>1. a \in [0..(kSize - 1) -> T] /\ allocated[v] \in BOOLEAN /\ kSize \in Nat
    BY Before, Zenon
  <2>2. QED
    BY <2>1, EmptyOrLonger
<1>2. /\ num_stack_items_' = [num_stack_items_ EXCEPT ![v] = 0]
      /\ values_' = [values_ EXCEPT ![v] = a]
      /\ vect_' = [vect_ EXCEPT ![v] = <<>>]
      /\ allocated' = [allocated EXCEPT ![v] = allocated[v]]
  BY Before, Zenon DEF Vec!clear
<1>3. /\ VecParts' /\ Vec!Items(v)' = Joined(0, a, <<>>)
      /\ \A w \in Vector \ {v} : Vec!Items(w)' = Vec!Items(w)
  <2>1. Becomes(v, 0, a, <<>>, allocated[v])
    BY <1>1, <1>2, Zenon DEF Becomes
  <2>2. QED
    BY <2>1, OneActs
<1>4. Joined(0, a, <<>>) \in Seq(T) /\ Len(Joined(0, a, <<>>)) = 0 + Len(<<>>)
  <2>1. Parts(0, a, <<>>)
    BY <1>1 DEF Parts
  <2>2. QED
    BY <2>1, JoinedType, Zenon
<1>5. Joined(0, a, <<>>) = <<>>
  <2>1. Len(Joined(0, a, <<>>)) = 0
    BY <1>1, <1>4
  <2>2. QED
    BY <2>1, <1>4, EmptyOrLonger, Zenon
<1>6. QED
  BY <1>3, <1>5, Zenon

LEMMA AssignActs ==
  ASSUME Vec!VectorAssumption, VecParts, NEW v \in Vector, NEW other \in Vector, Vec!assign(v, other)
  PROVE  /\ VecParts'
         /\ Vec!Items(v)' = Vec!Items(other)
         /\ \A w \in Vector \ {v} : Vec!Items(w)' = Vec!Items(w)
<1> DEFINE k == num_stack_items_[other]
           s == vect_[other]
           c == [i \in 0..(kSize - 1) |-> IF i < k THEN values_[other][i] ELSE values_[v][i]]
           b == allocated[v] \/ s # <<>>
<1>1. /\ k \in 0..kSize /\ s \in Seq(T) /\ (s # <<>> => k = kSize)
      /\ values_[other] \in [0..(kSize - 1) -> T] /\ kSize \in Nat /\ Len(s) \in Nat
  BY Before, Zenon
<1>2. values_[v] \in [0..(kSize - 1) -> T]
  BY Before, Zenon
<1>3. /\ num_stack_items_' = [num_stack_items_ EXCEPT ![v] = k]
      /\ values_' = [values_ EXCEPT ![v] = c]
      /\ vect_' = [vect_ EXCEPT ![v] = s]
      /\ allocated' = [allocated EXCEPT ![v] = b]
  BY Zenon DEF Vec!assign
<1>4. c \in [0..(kSize - 1) -> T] /\ b \in BOOLEAN /\ (s # <<>> => k = kSize /\ b)
  BY <1>1, <1>2, ZenonT(30)
<1>5. /\ Vec!Items(other) \in Seq(T) /\ Len(Vec!Items(other)) = k + Len(s)
      /\ \A i \in 1..(k + Len(s)) :
           Vec!Items(other)[i] = IF i - 1 < kSize THEN values_[other][i - 1] ELSE s[i - kSize]
  BY ItemsAreJoined, JoinedType
<1>6. \A i \in 1..(k + Len(s)) :
        Vec!Items(other)[i] = IF i - 1 < kSize THEN c[i - 1] ELSE s[i - kSize]
  <2>1. ASSUME NEW i \in 1..(k + Len(s)), i - 1 < kSize PROVE c[i - 1] = values_[other][i - 1]
    <3>1. i - 1 < k /\ i - 1 \in 0..(kSize - 1)
      <4>1. CASE s = <<>>
        <5>1. k \in Nat
          BY <1>1
        <5>2. i - 1 < k
          BY <4>1, <5>1, WithinEmpty, Zenon
        <5>3. i - 1 \in 0..(kSize - 1)
          BY <2>1, <1>1
        <5>4. QED
          BY <5>2, <5>3, Zenon
      <4>2. CASE s # <<>>
        BY <4>2, <2>1, <1>1
      <4>3. QED
        BY <4>1, <4>2, Zenon
    <3>2. QED
      BY <3>1
  <2>2. QED
    BY <2>1, <1>5, Zenon
<1>7. Parts(k, c, s)
  BY <1>1, <1>4, Zenon DEF Parts
<1> HIDE DEF c, b, k, s
<1>8. VecParts' /\ Vec!Items(v)' = Joined(k, c, s) /\ \A w \in Vector \ {v} : Vec!Items(w)' = Vec!Items(w)
  <2>1. Becomes(v, k, c, s, b)
    BY <1>1, <1>3, <1>4, Zenon DEF Becomes
  <2>2. QED
    BY <2>1, OneActs
<1>9. Joined(k, c, s) = Vec!Items(other)
  BY <1>5, <1>6, <1>7, JoinedEqual, Zenon
<1>10. QED
  BY <1>8, <1>9, Zenon

\* What a step of an iterator, or none, does to the vectors
LEMMA VectorsStay ==
  ASSUME VecParts, UNCHANGED Vec!vectorVars
  PROVE  VecParts' /\ \A w \in Vector : Vec!Items(w)' = Vec!Items(w) /\ Vec!size(w)' = Vec!size(w)
  BY DEF Vec!vectorVars, VecParts, Vec!VectorType, Vec!StackFirst, Vec!only_in_stack, Vec!Items,
         Vec!size, Vec!At

\* A vector as a sequence
LEMMA ItemsType ==
  ASSUME Vec!VectorAssumption, VecParts, NEW v \in Vector
  PROVE  /\ Vec!Items(v) \in Seq(T) /\ Len(Vec!Items(v)) = Vec!size(v) /\ Vec!size(v) \in Nat
         /\ \A i \in 1..Vec!size(v) : Vec!Items(v)[i] = Vec!At(v, i - 1)
<1>1. Vec!Items(v) \in Seq(T) /\ Len(Vec!Items(v)) = num_stack_items_[v] + Len(vect_[v])
  BY ItemsAreJoined, JoinedType
<1>2. Vec!size(v) = num_stack_items_[v] + Len(vect_[v])
  BY DEF Vec!size
<1>3. Vec!size(v) \in Nat
  <2>1. num_stack_items_[v] \in 0..kSize /\ kSize \in Nat /\ Len(vect_[v]) \in Nat
    BY Before, Zenon
  <2>2. QED
    BY <1>2, <2>1
<1>4. \A i \in 1..Vec!size(v) : Vec!Items(v)[i] = Vec!At(v, i - 1)
  BY DEF Vec!Items
<1>5. QED
  BY <1>1, <1>2, <1>3, <1>4, ZenonT(30)

-----------------------------------------------------------------------------
(* The iterator.                                                           *)

\* What an iterator has passed: the first n items of s
Passed(n, s, p) ==
  n \in 0..Len(s) /\ p \in Seq(T) /\ Len(p) = n /\ \A i \in 1..n : p[i] = s[i]

\* is a part of s.
LEMMA PassedIsPart ==
  ASSUME NEW s \in Seq(T), NEW n, NEW p, Passed(n, s, p) PROVE n <= Len(s) /\ p = SubSeq(s, 1, n)
<1>1. n \in 0..Len(s) /\ p \in Seq(T) /\ Len(p) = n /\ \A i \in 1..n : p[i] = s[i]
  BY DEF Passed
<1>2. SubSeq(s, 1, n) \in Seq(T) /\ Len(SubSeq(s, 1, n)) = n
      /\ \A i \in 1..n : SubSeq(s, 1, n)[i] = s[i]
  BY <1>1
<1>3. \A i \in 1..Len(p) : p[i] = SubSeq(s, 1, n)[i]
  BY <1>1, <1>2, Zenon
<1>4. p = SubSeq(s, 1, n)
  BY <1>1, <1>2, <1>3, SameItems, Zenon
<1>5. QED
  BY <1>1, <1>4

\* It stays so when an item is pushed,
LEMMA PassedPush ==
  ASSUME NEW s \in Seq(T), NEW n, NEW p, Passed(n, s, p), NEW item \in T
  PROVE  Passed(n, Append(s, item), p)
<1>1. Len(Append(s, item)) = Len(s) + 1 /\ \A i \in 1..Len(s) : Append(s, item)[i] = s[i]
  BY Appended
<1>2. QED
  BY <1>1 DEF Passed

\* when the iterator goes on
LEMMA PassedForward ==
  ASSUME NEW s \in Seq(T), NEW n, NEW p, Passed(n, s, p), n # Len(s), NEW x \in T, x = s[n + 1]
  PROVE  Passed(n + 1, s, Append(p, x))
<1>1. n \in 0..Len(s) /\ p \in Seq(T) /\ Len(p) = n /\ (\A i \in 1..n : p[i] = s[i]) /\ Len(s) \in Nat
  BY EmptyOrLonger DEF Passed
<1>2. /\ Append(p, x) \in Seq(T) /\ Len(Append(p, x)) = n + 1 /\ Append(p, x)[n + 1] = x
      /\ \A i \in 1..n : Append(p, x)[i] = p[i]
  BY <1>1, Appended
<1>3. n + 1 \in 0..Len(s)
  BY <1>1, NextPosition, Zenon
<1>4. ASSUME NEW i \in 1..(n + 1) PROVE Append(p, x)[i] = s[i]
  <2>1. i \in 1..n \/ i = n + 1
    BY <1>1, NextPosition, Zenon
  <2>2. QED
    BY <1>1, <1>2, <2>1, Zenon
<1>5. QED
  BY <1>2, <1>3, <1>4, Zenon DEF Passed

\* and when it goes back.
LEMMA PassedBackward ==
  ASSUME NEW s \in Seq(T), NEW n, NEW p, Passed(n, s, p), n # 0
  PROVE  Passed(n - 1, s, SubSeq(p, 1, Len(p) - 1))
<1>1. n \in 0..Len(s) /\ p \in Seq(T) /\ Len(p) = n /\ (\A i \in 1..n : p[i] = s[i]) /\ Len(s) \in Nat
  BY DEF Passed
<1>2. n - 1 \in 0..Len(s) /\ n - 1 <= n /\ n - 1 \in Nat
  BY <1>1, NextPosition, Zenon
<1> DEFINE q == SubSeq(p, 1, n - 1)
<1>3. q \in Seq(T) /\ Len(q) = n - 1 /\ \A i \in 1..(n - 1) : q[i] = p[i]
  BY <1>1, <1>2, PrefixItems, Zenon
<1> HIDE DEF q
<1>4. \A i \in 1..(n - 1) : q[i] = s[i]
  BY <1>1, <1>3
<1>5. Passed(n - 1, s, q)
  BY <1>2, <1>3, <1>4, Zenon DEF Passed
<1>6. QED
  BY <1>1, <1>5, Zenon DEF q

\* The parts of the vectors, and what the iterator has passed
VecInv ==
  /\ VecParts
  /\ of \in Vector \cup {Null}
  /\ of # Null => Passed(index_, Vec!Items(of), seen)

LEMMA VecInvIsSafe ==
  ASSUME Vec!VectorAssumption, VecInv PROVE Vec!IteratorSeesItems /\ Vec!StackFirst
<1>1. ASSUME of # Null PROVE index_ <= Vec!size(of) /\ seen = SubSeq(Vec!Items(of), 1, index_)
  <2>1. VecParts /\ of \in Vector /\ Passed(index_, Vec!Items(of), seen)
    BY <1>1 DEF VecInv
  <2>2. Vec!Items(of) \in Seq(T) /\ Len(Vec!Items(of)) = Vec!size(of)
    BY <2>1, ItemsType, Zenon
  <2>3. index_ <= Len(Vec!Items(of)) /\ seen = SubSeq(Vec!Items(of), 1, index_)
    BY <2>1, <2>2, PassedIsPart, Zenon
  <2>4. QED
    BY <2>2, <2>3, Zenon
<1>2. QED
  BY <1>1, Zenon DEF VecInv, VecParts, Vec!IteratorSeesItems

LEMMA VecInitInv == ASSUME Vec!VectorAssumption, Vec!Init PROVE VecInv
<1>1. VecParts
  BY DEF Vec!VectorAssumption, Vec!Init, VecParts, Vec!VectorType, Vec!StackFirst, Vec!only_in_stack
<1>2. QED
  BY <1>1, Zenon DEF VecInv, Vec!Init

\* An iterator that stays where it is, over a vector whose items stay
LEMMA IteratorStays ==
  ASSUME VecInv, VecParts', of \in Vector, UNCHANGED <<of, index_, seen>>,
         \A w \in Vector : w = of => Vec!Items(w)' = Vec!Items(w)
  PROVE  VecInv'
<1> PICK o : o = of
  OBVIOUS
<1>1. Vec!Items(o)' = Vec!Items(o) /\ o = of'
  BY Zenon
<1>2. Passed(index_, Vec!Items(o), seen) \/ o = Null
  BY Zenon DEF VecInv
<1>3. Passed(index_', Vec!Items(o)', seen') \/ of' = Null
  BY <1>1, <1>2, Zenon
<1>4. QED
  BY <1>1, <1>3, Zenon DEF VecInv

\* A step that changes no vector but v, and invalidates an iterator over it
LEMMA IteratorInvalidated ==
  ASSUME VecInv, VecParts', NEW v \in Vector, Vec!Invalidate(v),
         \A w \in Vector \ {v} : Vec!Items(w)' = Vec!Items(w)
  PROVE  VecInv'
<1>1. CASE of = v
  BY <1>1, Zenon DEF VecInv, Vec!Invalidate
<1>2. CASE of # v
  <2>1. of' = of /\ index_' = index_ /\ seen' = seen
    BY <1>2, Zenon DEF Vec!Invalidate, Vec!iteratorVars
  <2>2. CASE of = Null
    BY <2>1, <2>2, Zenon DEF VecInv
  <2>3. CASE of # Null
    BY <1>2, <2>1, <2>3, IteratorStays, Zenon DEF VecInv
  <2>4. QED
    BY <2>2, <2>3, Zenon
<1>3. QED
  BY <1>1, <1>2, Zenon

\* Every step keeps the invariant, and does to the items of a vector what its name says.
LEMMA VecNextInv ==
  ASSUME Vec!VectorAssumption, VecInv, [Vec!Next]_vectorVars
  PROVE  VecInv' /\ \A v, w \in Vector : Vec!Items(v)' # Vec!Items(v) /\ Vec!Items(w)' # Vec!Items(w) => v = w
<1> DEFINE Changes(v) == VecInv' /\ \A w \in Vector \ {v} : Vec!Items(w)' = Vec!Items(w)
<1>0. VecParts
  BY DEF VecInv
<1>1. ASSUME NEW v \in Vector, NEW item \in T, Vec!push_back(v, item) PROVE Changes(v)
  <2>1. /\ VecParts' /\ Vec!Items(v)' = Append(Vec!Items(v), item)
        /\ \A w \in Vector \ {v} : Vec!Items(w)' = Vec!Items(w)
    BY <1>0, <1>1, PushActs, Zenon
  <2>2. UNCHANGED <<of, index_, seen>>
    BY <1>1, Zenon DEF Vec!push_back, Vec!iteratorVars
  <2>3. CASE of = Null
    BY <2>1, <2>2, <2>3, Zenon DEF VecInv
  <2>4. CASE of # Null /\ of # v
    BY <2>1, <2>2, <2>4, IteratorStays, Zenon DEF VecInv
  <2>5. CASE of # Null /\ of = v
    <3>1. Passed(index_, Vec!Items(v), seen)
      BY <2>5, Zenon DEF VecInv
    <3>2. Passed(index_, Append(Vec!Items(v), item), seen)
      BY <1>0, <3>1, ItemsType, PassedPush, Zenon
    <3>3. Passed(index_', Vec!Items(v)', seen') /\ of' = v
      BY <2>1, <2>2, <2>5, <3>2, Zenon
    <3>4. QED
      BY <2>1, <3>3, Zenon DEF VecInv
  <2>6. QED
    BY <2>1, <2>3, <2>4, <2>5, Zenon
<1>2. ASSUME NEW v \in Vector,
             \/ Vec!pop_back(v)
             \/ \E n \in 0..MaxSize : Vec!resize(v, n)
             \/ Vec!clear(v)
             \/ \E other \in Vector \ {v} : Vec!assign(v, other)
      PROVE  Changes(v)
  <2> DEFINE Others == VecParts' /\ \A w \in Vector \ {v} : Vec!Items(w)' = Vec!Items(w)
  <2>1. ASSUME Vec!pop_back(v) PROVE Others
    BY <1>0, <2>1, PopActs, Zenon
  <2>2. ASSUME NEW n \in 0..MaxSize, Vec!resize(v, n) PROVE Others
    BY <1>0, <2>2, ResizeActs, Zenon
  <2>3. ASSUME Vec!clear(v) PROVE Others
    BY <1>0, <2>3, ClearActs, Zenon
  <2>4. ASSUME NEW other \in Vector, Vec!assign(v, other) PROVE Others
    BY <1>0, <2>4, AssignActs, Zenon
  <2>5. Others
    BY <1>2, <2>1, <2>2, <2>3, <2>4, Zenon
  <2>6. Vec!Invalidate(v)
    BY <1>2, Zenon DEF Vec!pop_back, Vec!resize, Vec!clear, Vec!assign
  <2>7. QED
    BY <2>5, <2>6, IteratorInvalidated, Zenon
<1>3. ASSUME NEW v \in Vector, Vec!begin(v) PROVE VecInv' /\ UNCHANGED Vec!vectorVars
  <2>1. of' = v /\ index_' = 0 /\ seen' = <<>> /\ UNCHANGED Vec!vectorVars
    BY <1>3, Zenon DEF Vec!begin
  <2>2. VecParts' /\ Vec!Items(v)' = Vec!Items(v)
    BY <1>0, <2>1, VectorsStay, Zenon
  <2>3. Passed(0, Vec!Items(v), <<>>)
    <3>1. Len(Vec!Items(v)) \in Nat
      BY <1>0, ItemsType, Zenon
    <3>2. 0 \in 0..Len(Vec!Items(v)) /\ <<>> \in Seq(T) /\ Len(<<>>) = 0 /\ 1..0 = {}
      BY <3>1, EmptyOrLonger
    <3>3. QED
      BY <3>2, Zenon DEF Passed
  <2>4. Passed(index_', Vec!Items(v)', seen')
    BY <2>1, <2>2, <2>3, Zenon
  <2>5. QED
    BY <2>1, <2>2, <2>4, Zenon DEF VecInv
<1>4. ASSUME Vec!Forward \/ Vec!Backward PROVE VecInv' /\ UNCHANGED Vec!vectorVars
  <2> PICK o : o = of
    OBVIOUS
  <2>1. o # Null /\ o \in Vector /\ of' = o /\ UNCHANGED Vec!vectorVars
    BY <1>4, Zenon DEF Vec!Forward, Vec!Backward, VecInv
  <2>2. VecParts' /\ Vec!Items(o)' = Vec!Items(o)
    BY <1>0, <2>1, VectorsStay, Zenon
  <2>3. Passed(index_, Vec!Items(o), seen)
    BY <2>1, Zenon DEF VecInv
  <2>4. /\ Vec!Items(o) \in Seq(T) /\ Len(Vec!Items(o)) = Vec!size(o) /\ Vec!size(o) \in Nat
        /\ \A i \in 1..Vec!size(o) : Vec!Items(o)[i] = Vec!At(o, i - 1)
    BY <1>0, <2>1, ItemsType, Zenon
  <2>5. Passed(index_', Vec!Items(o), seen')
    <3>1. CASE Vec!Forward
      <4>1. /\ index_ # Vec!size(o) /\ index_' = index_ + 1
            /\ seen' = Append(seen, Vec!At(o, index_))
        BY <3>1, Zenon DEF Vec!Forward
      <4>2. index_ \in 0..Vec!size(o)
        BY <2>3, <2>4, Zenon DEF Passed
      <4>3. index_ + 1 \in 1..Vec!size(o) /\ (index_ + 1) - 1 = index_
        BY <2>4, <4>1, <4>2
      <4>4. Vec!Items(o)[index_ + 1] = Vec!At(o, index_)
        <5>1. Vec!Items(o)[index_ + 1] = Vec!At(o, (index_ + 1) - 1)
          BY <2>4, <4>3, Zenon
        <5>2. QED
          BY <4>3, <5>1, Zenon
      <4>5. Vec!At(o, index_) \in T
        BY <2>4, <4>3, <4>4, ItemOfSeq, Zenon
      <4>6. Passed(index_ + 1, Vec!Items(o), Append(seen, Vec!At(o, index_)))
        BY <2>3, <2>4, <4>1, <4>4, <4>5, PassedForward, Zenon
      <4>7. QED
        BY <4>1, <4>6, Zenon
    <3>2. CASE Vec!Backward
      <4>1. index_ # 0 /\ seen' = SubSeq(seen, 1, Len(seen) - 1) /\ index_' = index_ - 1
        BY <3>2, Zenon DEF Vec!Backward
      <4>2. Passed(index_ - 1, Vec!Items(o), SubSeq(seen, 1, Len(seen) - 1))
        BY <2>3, <2>4, <4>1, PassedBackward, Zenon
      <4>3. QED
        BY <4>1, <4>2, Zenon
    <3>3. QED
      BY <1>4, <3>1, <3>2, Zenon
  <2>6. Passed(index_', Vec!Items(o)', seen')
    BY <2>2, <2>5, Zenon
  <2>7. QED
    BY <2>1, <2>2, <2>6, Zenon DEF VecInv
<1>5. ASSUME UNCHANGED vectorVars PROVE VecInv' /\ UNCHANGED Vec!vectorVars
  <2>1. UNCHANGED Vec!vectorVars /\ UNCHANGED <<of, index_, seen>>
    BY <1>5, Zenon DEF vectorVars, Vec!vectorVars
  <2>2. VecParts' /\ \A w \in Vector : Vec!Items(w)' = Vec!Items(w)
    BY <1>0, <2>1, VectorsStay, Zenon
  <2>3. CASE of = Null
    BY <2>1, <2>2, <2>3, Zenon DEF VecInv
  <2>4. CASE of # Null
    BY <2>1, <2>2, <2>4, IteratorStays, Zenon DEF VecInv
  <2>5. QED
    BY <2>1, <2>3, <2>4, Zenon
<1>6. CASE \E v \in Vector : Changes(v)
  BY <1>6, Zenon
<1>7. CASE VecInv' /\ UNCHANGED Vec!vectorVars
  <2>1. \A w \in Vector : Vec!Items(w)' = Vec!Items(w)
    BY <1>0, <1>7, VectorsStay, Zenon
  <2>2. QED
    BY <1>7, <2>1, Zenon
<1>8. QED
  BY <1>1, <1>2, <1>3, <1>4, <1>5, <1>6, <1>7, Zenon DEF Vec!Next

LEMMA VecActs ==
  ASSUME Vec!VectorAssumption, VecInv, [Vec!Next]_vectorVars PROVE Vec!Acts
<1>1. VecParts
  BY DEF VecInv
<1>2. \A v, w \in Vector : Vec!Items(v)' # Vec!Items(v) /\ Vec!Items(w)' # Vec!Items(w) => v = w
  BY VecNextInv, Zenon
<1>3. QED
  BY <1>1, <1>2, PushActs, PopActs, ResizeActs, ClearActs, AssignActs, Zenon DEF Vec!Acts

-----------------------------------------------------------------------------
(* Thread local pointers. The instances of ThreadLocalPtr here and in      *)
(* ThreadLocalPtrProofs say the same.                                       *)

TL == INSTANCE ThreadLocalPtrProofs

LEMMA SameStates ==
  /\ Local!LocalAssumption <=> TL!LocalAssumption
  /\ Local!Init <=> TL!Init
  /\ Local!InstancesAreApart <=> TL!InstancesAreApart
  /\ Local!NothingLeaks <=> TL!NothingLeaks
  BY Zenon DEF
    Local!LocalAssumption, TL!LocalAssumption, Local!Idle, TL!Idle, Local!NoScrape, TL!NoScrape,
    Local!Registered, TL!Registered, Local!At, TL!At, Local!Init, TL!Init, Local!Slots,
    TL!Slots, Local!InstancesAreApart, TL!InstancesAreApart, Local!NothingLeaks,
    TL!NothingLeaks, Local!Range, TL!Range

LEMMA SameSteps == Local!Next <=> TL!Next
  BY Zenon DEF
    Local!idVars, TL!idVars, Local!ptrVars, TL!ptrVars, Local!Idle, TL!Idle, Local!NoScrape,
    TL!NoScrape, Local!MutexFree, TL!MutexFree, Local!Registered, TL!Registered, Local!At,
    TL!At, Local!GetHandler, TL!GetHandler, Local!Unref, TL!Unref, Local!GetId, TL!GetId,
    Local!SetHandler, TL!SetHandler, Local!NoHandler, TL!NoHandler, Local!Cleared, TL!Cleared,
    Local!ReclaimId, TL!ReclaimId, Local!Begin, TL!Begin, Local!Busy, TL!Busy,
    Local!AddThreadData, TL!AddThreadData, Local!NewSize, TL!NewSize, Local!Resize, TL!Resize,
    Local!Handed, TL!Handed, Local!Operate, TL!Operate, Local!Scrape, TL!Scrape,
    Local!ScrapeEntry, TL!ScrapeEntry, Local!ScrapeReturns, TL!ScrapeReturns, Local!LeftBehind,
    TL!LeftBehind, Local!RemoveThreadData, TL!RemoveThreadData, Local!OnThreadExit,
    TL!OnThreadExit, Local!Next, TL!Next, Local!Range, TL!Range

LEMMA LocalInitInv == ASSUME Local!LocalAssumption, Local!Init PROVE TL!LocalInv
  BY SameStates, TL!LocalInitInv, ZenonT(30)

LEMMA LocalNextInv ==
  ASSUME Local!LocalAssumption, TL!LocalInv, [Local!Next]_localVars
  PROVE  TL!LocalInv'
<1>1. [TL!Next]_localVars
  BY SameSteps, ZenonT(30)
<1>2. QED
  BY <1>1, SameStates, TL!LocalNextInv, ZenonT(30) DEF TL!vars, localVars

LEMMA LocalIsSafe ==
  ASSUME Local!LocalAssumption, TL!LocalInv
  PROVE  Local!InstancesAreApart /\ Local!NothingLeaks
  BY SameStates, TL!LocalIsSafe, Zenon

-----------------------------------------------------------------------------
(* The theorems. One of the utilities runs in each behaviour.              *)

UtilityInv ==
  /\ part = "local" => TL!LocalInv
  /\ part = "locks" => LocksInv
  /\ part = "random" => RandInv
  /\ part = "vector" => VecInv

LEMMA Assumed ==
  Local!LocalAssumption /\ Vec!VectorAssumption /\ Locks!LocksAssumption /\ Rand!RandomAssumption
  BY UtilityAssumption, Zenon

LEMMA UtilityInitInv == ASSUME Init PROVE UtilityInv
<1>1. /\ part = "local" => Local!Init
      /\ part = "locks" => Locks!Init
      /\ part = "random" => Rand!Init
      /\ part = "vector" => Vec!Init
  BY Zenon DEF Init
<1>2. QED
  BY <1>1, Assumed, LocalInitInv, LocksInitInv, RandInitInv, VecInitInv, ZenonT(30) DEF UtilityInv

\* A step is one of the utility that runs.
LEMMA StepOfPart ==
  ASSUME [Next]_vars
  PROVE  /\ part' = part
         /\ part = "local" => [Local!Next]_localVars
         /\ part = "locks" => [Locks!Next]_lockVars
         /\ part = "random" => [Rand!Next]_randomVars
         /\ part = "vector" => [Vec!Next]_vectorVars
<1>1. CASE Next
  BY <1>1, Zenon DEF Next
<1>2. CASE UNCHANGED vars
  BY <1>2, Zenon DEF vars
<1>3. QED
  BY <1>1, <1>2, Zenon

LEMMA UtilityNextInv == ASSUME UtilityInv, [Next]_vars PROVE UtilityInv'
<1>1. part = "local" => TL!LocalInv'
  BY StepOfPart, Assumed, LocalNextInv, Zenon DEF UtilityInv
<1>2. part = "locks" => LocksInv'
  BY StepOfPart, Assumed, LocksNextInv, ZenonT(30) DEF UtilityInv
<1>3. part = "random" => RandInv'
  BY StepOfPart, Assumed, RandNextInv, ZenonT(30) DEF UtilityInv
<1>4. part = "vector" => VecInv'
  BY StepOfPart, Assumed, VecNextInv, Zenon DEF UtilityInv
<1>5. QED
  BY <1>1, <1>2, <1>3, <1>4, StepOfPart, ZenonT(30) DEF UtilityInv

\* For any threads, instances and pointers: a pointer in a thread's vector was stored
\* through the live instance that has its id, and a handler is given only pointers of its
\* own instance, once, though ids are reused while threads exit, scrape and store.
THEOREM InstancesStayApart == Spec => []InstancesAreApart
<1>1. UtilityInv => InstancesAreApart
  BY Assumed, LocalIsSafe, ZenonT(30) DEF UtilityInv, InstancesAreApart
<1>2. QED
  BY <1>1, UtilityInitInv, UtilityNextInv, PTL DEF Spec

\* For any threads, instances and pointers: a pointer that was stored and not taken back
\* is in one vector, or was given to the handler when its thread exited or its instance
\* was destroyed.
THEOREM NothingEverLeaks == Spec => []NothingLeaks
<1>1. UtilityInv => NothingLeaks
  BY Assumed, LocalIsSafe, ZenonT(30) DEF UtilityInv, NothingLeaks
<1>2. QED
  BY <1>1, UtilityInitInv, UtilityNextInv, PTL DEF Spec

\* Whatever any number of threads do, AssertHeld succeeds for the thread that has the
\* mutex, and no two are in critical sections that exclude each other.
THEOREM LocksAreSafeAlways == Spec => []LocksAreSafe
<1>1. UtilityInv => LocksAreSafe
  BY Assumed, LocksInvIsSafe, ZenonT(30) DEF UtilityInv, LocksAreSafe
<1>2. QED
  BY <1>1, UtilityInitInv, UtilityNextInv, PTL DEF Spec

\* For every prime modulus of the form 2^k - 1, all seeds and calls: the shifts of
\* Random::Next multiply by A modulo M, the generator never stands still, and Uniform and
\* Skewed stay in their ranges.
THEOREM GeneratesAlways == Spec => []GeneratesByMultiplying
<1>1. UtilityInv => GeneratesByMultiplying
  BY Zenon DEF UtilityInv, RandInv, GeneratesByMultiplying
<1>2. QED
  BY <1>1, UtilityInitInv, UtilityNextInv, PTL DEF Spec

\* For every kSize, every operation does to the items of an autovector what it does to
\* those of a vector, across the border between its two parts, and an iterator has passed
\* the items in front of it.
THEOREM ActsAsVectorAlways == Spec => ActsAsVector
<1>1. UtilityInv => (part = "vector" => Vec!IteratorSeesItems /\ Vec!StackFirst)
  BY Assumed, VecInvIsSafe, Zenon DEF UtilityInv
<1>2. UtilityInv /\ [Next]_vars => [part = "vector" => Vec!Acts]_vars
  BY Assumed, StepOfPart, VecActs, ZenonT(30) DEF UtilityInv
<1>3. QED
  BY <1>1, <1>2, UtilityInitInv, UtilityNextInv, PTL DEF Spec, ActsAsVector
=============================================================================
