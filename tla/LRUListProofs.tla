--------------------------- MODULE LRUListProofs ----------------------------
(***************************************************************************)
(* What the operations of LRUCacheShard do to its list and to the charges,  *)
(* for any sets of addresses and keys and any charges, capacities and       *)
(* ratios; the inductive invariant and what it takes to keep it.            *)
(***************************************************************************)
EXTENDS LRUCacheShard, TLAPS

-----------------------------------------------------------------------------
(* Sequences.                                                              *)

\* One sequence after the other.
LEMMA ConcatFacts ==
  ASSUME NEW S, NEW s \in Seq(S), NEW t \in Seq(S)
  PROVE  /\ s \o t \in Seq(S)
         /\ Len(s \o t) = Len(s) + Len(t)
         /\ \A i \in 1..Len(s) : (s \o t)[i] = s[i]
         /\ \A i \in 1..Len(t) : (s \o t)[Len(s) + i] = t[i]
<1>1. s \o t \in Seq(S) /\ Len(s \o t) = Len(s) + Len(t)
  OBVIOUS
<1>2. \A i \in 1..Len(s) : (s \o t)[i] = s[i]
  OBVIOUS
<1>3. \A i \in 1..Len(t) : (s \o t)[Len(s) + i] = t[i]
  OBVIOUS
<1> QED
  BY <1>1, <1>2, <1>3

\* The part of a sequence from m to n.
LEMMA PartFacts ==
  ASSUME NEW S, NEW s \in Seq(S), NEW m \in 1..(Len(s) + 1), NEW n \in Nat,
         m - 1 <= n, n <= Len(s)
  PROVE  /\ SubSeq(s, m, n) \in Seq(S)
         /\ Len(SubSeq(s, m, n)) = n - m + 1
         /\ \A i \in 1..(n - m + 1) : SubSeq(s, m, n)[i] = s[m + i - 1]
<1>1. /\ SubSeq(s, m, n) \in Seq(S)
      /\ Len(SubSeq(s, m, n)) = IF m <= n THEN n - m + 1 ELSE 0
      /\ \A i \in 1 .. n - m + 1 : SubSeq(s, m, n)[i] = s[m + i - 1]
  <2>1. SubSeq(s, m, n) \in Seq(S)
    OBVIOUS
  <2>2. Len(SubSeq(s, m, n)) = IF m <= n THEN n - m + 1 ELSE 0
    OBVIOUS
  <2>3. \A i \in 1 .. n - m + 1 : SubSeq(s, m, n)[i] = s[m + i - 1]
    OBVIOUS
  <2> QED
    BY <2>1, <2>2, <2>3, Zenon
<1>2. Len(s) \in Nat
  OBVIOUS
<1> QED
  BY <1>1, <1>2

\* What follows the first n elements.
LEMMA RestFacts ==
  ASSUME NEW S, NEW s \in Seq(S), NEW n \in 0..Len(s)
  PROVE  /\ SubSeq(s, n + 1, Len(s)) \in Seq(S)
         /\ Len(SubSeq(s, n + 1, Len(s))) = Len(s) - n
         /\ \A j \in 1..(Len(s) - n) : SubSeq(s, n + 1, Len(s))[j] = s[n + j]
<1> DEFINE m == n + 1
<1>1. /\ m \in 1..(Len(s) + 1) /\ Len(s) \in Nat /\ m - 1 <= Len(s) /\ Len(s) <= Len(s)
      /\ Len(s) - m + 1 = Len(s) - n /\ \A j \in Int : m + j - 1 = n + j
  OBVIOUS
<1> HIDE DEF m
<1>2. /\ SubSeq(s, m, Len(s)) \in Seq(S)
      /\ Len(SubSeq(s, m, Len(s))) = Len(s) - m + 1
      /\ \A j \in 1..(Len(s) - m + 1) : SubSeq(s, m, Len(s))[j] = s[m + j - 1]
  BY <1>1, PartFacts
<1>3. ASSUME NEW j \in 1..(Len(s) - n)
      PROVE  SubSeq(s, m, Len(s))[j] = s[n + j]
  <2>1. j \in Int /\ j \in 1..(Len(s) - m + 1)
    BY <1>1
  <2>2. m + j - 1 = n + j
    BY <1>1, <2>1
  <2>3. SubSeq(s, m, Len(s))[j] = s[m + j - 1]
    BY <1>2, <2>1
  <2> QED
    BY <2>2, <2>3
<1> QED
  BY <1>1, <1>2, <1>3, Zenon DEF m

\* RemoveAt closes the gap.
LEMMA RemoveAtFacts ==
  ASSUME NEW S, NEW s \in Seq(S), NEW i \in 1..Len(s)
  PROVE  /\ RemoveAt(s, i) \in Seq(S)
         /\ Len(RemoveAt(s, i)) = Len(s) - 1
         /\ \A j \in 1..(Len(s) - 1) :
              RemoveAt(s, i)[j] = IF j < i THEN s[j] ELSE s[j + 1]
<1> DEFINE p == SubSeq(s, 1, i - 1)
           q == SubSeq(s, i + 1, Len(s))
<1>1. /\ Len(s) \in Nat /\ i \in Nat /\ i - 1 \in Nat /\ i - 1 <= Len(s)
      /\ 1 \in 1..(Len(s) + 1) /\ i + 1 \in 1..(Len(s) + 1)
      /\ 1 - 1 <= i - 1 /\ (i + 1) - 1 <= Len(s)
  OBVIOUS
<1>2. /\ p \in Seq(S) /\ Len(p) = (i - 1) - 1 + 1
      /\ \A j \in 1..((i - 1) - 1 + 1) : p[j] = s[1 + j - 1]
  BY <1>1, PartFacts
<1>3. /\ q \in Seq(S) /\ Len(q) = Len(s) - (i + 1) + 1
      /\ \A j \in 1..(Len(s) - (i + 1) + 1) : q[j] = s[(i + 1) + j - 1]
  BY <1>1, PartFacts
<1> HIDE DEF p, q
<1>4. /\ p \o q \in Seq(S) /\ Len(p \o q) = Len(p) + Len(q)
      /\ \A j \in 1..Len(p) : (p \o q)[j] = p[j]
      /\ \A j \in 1..Len(q) : (p \o q)[Len(p) + j] = q[j]
  <2>1. p \in Seq(S) /\ q \in Seq(S)
    BY <1>2, <1>3
  <2> QED
    BY <2>1, ConcatFacts
<1>5. ASSUME NEW j \in 1..(Len(s) - 1)
      PROVE  (p \o q)[j] = IF j < i THEN s[j] ELSE s[j + 1]
  <2>1. CASE j < i
    BY <1>1, <1>2, <1>4, <2>1
  <2>2. CASE ~(j < i)
    <3>1. j - i + 1 \in 1..Len(q) /\ Len(p) + (j - i + 1) = j
      BY <1>1, <1>2, <1>3, <2>2
    <3>2. (p \o q)[j] = q[j - i + 1]
      BY <1>4, <3>1, Zenon
    <3>3. (i + 1) + (j - i + 1) - 1 = j + 1
      BY <1>1
    <3> QED
      BY <1>3, <2>2, <3>1, <3>2, <3>3
  <2> QED
    BY <2>1, <2>2, Zenon
<1>6. RemoveAt(s, i) = p \o q
  BY DEF RemoveAt, p, q
<1> QED
  BY <1>1, <1>2, <1>3, <1>4, <1>5, <1>6

\* InsertAt makes room.
LEMMA InsertAtFacts ==
  ASSUME NEW S, NEW s \in Seq(S), NEW i \in 1..(Len(s) + 1), NEW e \in S
  PROVE  /\ InsertAt(s, i, e) \in Seq(S)
         /\ Len(InsertAt(s, i, e)) = Len(s) + 1
         /\ \A j \in 1..(Len(s) + 1) :
              InsertAt(s, i, e)[j] = IF j < i THEN s[j] ELSE IF j = i THEN e ELSE s[j - 1]
<1> DEFINE p == SubSeq(s, 1, i - 1)
           q == SubSeq(s, i, Len(s))
           pe == p \o <<e>>
<1>1. /\ Len(s) \in Nat /\ i \in Nat /\ i - 1 \in Nat /\ i - 1 <= Len(s)
      /\ 1 \in 1..(Len(s) + 1) /\ 1 - 1 <= i - 1
  OBVIOUS
<1>2. /\ p \in Seq(S) /\ Len(p) = (i - 1) - 1 + 1
      /\ \A j \in 1..((i - 1) - 1 + 1) : p[j] = s[1 + j - 1]
  BY <1>1, PartFacts
<1>3. /\ q \in Seq(S) /\ Len(q) = Len(s) - i + 1
      /\ \A j \in 1..(Len(s) - i + 1) : q[j] = s[i + j - 1]
  BY <1>1, PartFacts
<1> HIDE DEF p, q
<1>4. <<e>> \in Seq(S) /\ Len(<<e>>) = 1 /\ <<e>>[1] = e
  OBVIOUS
<1>5. /\ pe \in Seq(S) /\ Len(pe) = i
      /\ \A j \in 1..(i - 1) : pe[j] = s[j]
      /\ pe[i] = e
  <2>1. /\ pe \in Seq(S) /\ Len(pe) = Len(p) + 1
        /\ \A j \in 1..Len(p) : pe[j] = p[j]
        /\ \A j \in 1..1 : pe[Len(p) + j] = <<e>>[j]
    <3>1. p \in Seq(S) /\ <<e>> \in Seq(S)
      BY <1>2, <1>4
    <3>2. /\ p \o <<e>> \in Seq(S) /\ Len(p \o <<e>>) = Len(p) + Len(<<e>>)
          /\ \A j \in 1..Len(p) : (p \o <<e>>)[j] = p[j]
          /\ \A j \in 1..Len(<<e>>) : (p \o <<e>>)[Len(p) + j] = <<e>>[j]
      BY <3>1, ConcatFacts
    <3> QED
      BY <1>4, <3>2
  <2>2. pe[Len(p) + 1] = e
    BY <1>4, <2>1
  <2> HIDE DEF pe
  <2> QED
    BY <1>1, <1>2, <2>1, <2>2
<1> HIDE DEF pe
<1>6. /\ pe \o q \in Seq(S) /\ Len(pe \o q) = Len(pe) + Len(q)
      /\ \A j \in 1..Len(pe) : (pe \o q)[j] = pe[j]
      /\ \A j \in 1..Len(q) : (pe \o q)[Len(pe) + j] = q[j]
  <2>1. pe \in Seq(S) /\ q \in Seq(S)
    BY <1>3, <1>5
  <2> QED
    BY <2>1, ConcatFacts
<1>7. ASSUME NEW j \in 1..(Len(s) + 1)
      PROVE  (pe \o q)[j] = IF j < i THEN s[j] ELSE IF j = i THEN e ELSE s[j - 1]
  <2>1. CASE j <= i
    BY <1>1, <1>5, <1>6, <2>1
  <2>2. CASE ~(j <= i)
    <3>1. j - i \in 1..Len(q) /\ Len(pe) + (j - i) = j /\ i + (j - i) - 1 = j - 1
      BY <1>1, <1>3, <1>5, <2>2
    <3>2. (pe \o q)[j] = q[j - i]
      BY <1>6, <3>1, Zenon
    <3>3. q[j - i] = s[i + (j - i) - 1]
      BY <1>3, <3>1
    <3>4. q[j - i] = s[j - 1]
      BY <3>1, <3>3, Zenon
    <3> QED
      BY <1>1, <2>2, <3>2, <3>4
  <2> QED
    BY <2>1, <2>2, Zenon
<1>8. InsertAt(s, i, e) = pe \o q
  BY DEF InsertAt, p, q, pe
<1> QED
  BY <1>1, <1>3, <1>5, <1>6, <1>7, <1>8

-----------------------------------------------------------------------------
(* Charges.                                                                *)

\* The charge of a part is what the rest leaves of the whole.
LEMMA ChargeMinus ==
  ASSUME NEW S \in SUBSET Handle, NEW T \in SUBSET S
  PROVE  /\ Charge[S] \in Nat /\ Charge[T] \in Nat /\ Charge[S \ T] \in Nat
         /\ Charge[S \ T] = Charge[S] - Charge[T]
<1>1. T \in SUBSET Handle /\ S \ T \in SUBSET Handle
  OBVIOUS
<1>2. T \cap (S \ T) = {} /\ T \cup (S \ T) = S
  OBVIOUS
<1>3. Charge[S] \in Nat /\ Charge[T] \in Nat /\ Charge[S \ T] \in Nat
  BY <1>1, ShardAssumption
<1>4. Charge[T \cup (S \ T)] = Charge[T] + Charge[S \ T]
  <2>1. \A X, Y \in SUBSET Handle : X \cap Y = {} => Charge[X \cup Y] = Charge[X] + Charge[Y]
    BY ShardAssumption
  <2> QED
    BY <1>1, <1>2, <2>1, Zenon
<1>5. Charge[S] = Charge[T] + Charge[S \ T]
  BY <1>2, <1>4, Zenon
<1> QED
  BY <1>3, <1>5

\* The charge of an entry more.
LEMMA ChargePlus ==
  ASSUME NEW S \in SUBSET Handle, NEW e \in Handle, e \notin S
  PROVE  /\ Charge[S] \in Nat /\ charge(e) \in Nat
         /\ Charge[S \cup {e}] = Charge[S] + charge(e)
<1>1. {e} \in SUBSET Handle /\ S \cap {e} = {}
  OBVIOUS
<1> QED
  BY <1>1, ShardAssumption, Zenon DEF charge

-----------------------------------------------------------------------------
(* The list.                                                               *)

ListType ==
  [list : Seq(Handle), low_pri : Handle \cup {None}, usage : Int, pool : Int,
   inPool : SUBSET Handle]

\* The list has each of its entries once, its counters are the charges of what is
\* on it and of its high-priority part, and lru_low_pri_ is where that part begins.
SoundList(l) ==
  /\ l \in ListType
  /\ IsInjective(l.list)
  /\ l.usage = Charge[Range(l.list)]
  /\ l.pool = Charge[Range(l.list) \cap l.inPool]
  /\ l.low_pri # None => l.low_pri \in Range(l.list)
  /\ \A i \in 1..Len(l.list) : l.list[i] \in l.inPool <=> i > LowPriCount(l)

\* An entry is at one place only.
LEMMA PositionIs ==
  ASSUME NEW l \in ListType, IsInjective(l.list), NEW i \in 1..Len(l.list)
  PROVE  Position(l, l.list[i]) = i
<1>1. l.list \in Seq(Handle) /\ DOMAIN l.list = 1..Len(l.list)
  BY DEF ListType
<1>2. \A j \in 1..Len(l.list) : l.list[j] = l.list[i] => j = i
  BY <1>1 DEF IsInjective
<1> QED
  BY <1>2 DEF Position

\* The elements of a sequence are at its positions.
LEMMA RangeFacts ==
  ASSUME NEW s \in Seq(Handle)
  PROVE  /\ Len(s) \in Nat /\ DOMAIN s = 1..Len(s)
         /\ Range(s) \in SUBSET Handle
         /\ \A e : e \in Range(s) <=> \E i \in 1..Len(s) : s[i] = e
<1>1. Len(s) \in Nat /\ DOMAIN s = 1..Len(s)
  OBVIOUS
<1>2. \A e : e \in Range(s) <=> \E i \in 1..Len(s) : s[i] = e
  BY <1>1 DEF Range
<1>3. \A i \in 1..Len(s) : s[i] \in Handle
  OBVIOUS
<1> QED
  BY <1>1, <1>2, <1>3

\* What LowPriCount counts.
LEMMA LowPriCountFacts ==
  ASSUME NEW l, SoundList(l)
  PROVE  /\ LowPriCount(l) \in 0..Len(l.list)
         /\ LowPriCount(l) = 0 <=> l.low_pri = None
         /\ LowPriCount(l) > 0 => l.low_pri = l.list[LowPriCount(l)]
<1>1. l \in ListType /\ l.list \in Seq(Handle) /\ IsInjective(l.list)
  BY DEF SoundList, ListType
<1>2. Len(l.list) \in Nat
  BY <1>1
<1>3. CASE l.low_pri = None
  BY <1>2, <1>3 DEF LowPriCount
<1>4. CASE l.low_pri # None
  <2>1. PICK i \in 1..Len(l.list) : l.list[i] = l.low_pri
    BY <1>1, <1>4, RangeFacts DEF SoundList
  <2>2. Position(l, l.list[i]) = i
    BY <1>1, PositionIs
  <2>3. LowPriCount(l) = i
    BY <1>4, <2>1, <2>2 DEF LowPriCount
  <2> QED
    BY <1>2, <1>4, <2>1, <2>3
<1> QED
  BY <1>3, <1>4

\* A list is sound if its high-priority part begins after some position c.
LEMMA MakeSound ==
  ASSUME NEW l \in ListType, IsInjective(l.list),
         l.usage = Charge[Range(l.list)],
         l.pool = Charge[Range(l.list) \cap l.inPool],
         NEW c \in 0..Len(l.list),
         l.low_pri = IF c = 0 THEN None ELSE l.list[c],
         \A i \in 1..Len(l.list) : l.list[i] \in l.inPool <=> i > c
  PROVE  SoundList(l) /\ LowPriCount(l) = c
<1>1. l.list \in Seq(Handle) /\ Len(l.list) \in Nat
  BY DEF ListType
<1>2. CASE c = 0
  BY <1>2 DEF SoundList, LowPriCount
<1>3. CASE c # 0
  <2>1. c \in 1..Len(l.list) /\ l.list[c] \in Handle /\ l.list[c] # None
    BY <1>1, <1>3, ShardAssumption
  <2>2. Position(l, l.list[c]) = c
    BY <2>1, PositionIs
  <2>3. LowPriCount(l) = c
    BY <1>3, <2>1, <2>2 DEF LowPriCount
  <2>4. l.low_pri \in Range(l.list)
    BY <1>1, <1>3, <2>1, RangeFacts
  <2> QED
    BY <2>3, <2>4 DEF SoundList
<1> QED
  BY <1>2, <1>3


\* Taking an element out of a sequence that has it once.
LEMMA RemoveAtOnce ==
  ASSUME NEW s \in Seq(Handle), IsInjective(s), NEW i \in 1..Len(s)
  PROVE  /\ RemoveAt(s, i) \in Seq(Handle)
         /\ IsInjective(RemoveAt(s, i))
         /\ Range(RemoveAt(s, i)) = Range(s) \ {s[i]}
<1> DEFINE r == RemoveAt(s, i)
<1>1. /\ r \in Seq(Handle) /\ Len(r) = Len(s) - 1
      /\ \A j \in 1..(Len(s) - 1) : r[j] = IF j < i THEN s[j] ELSE s[j + 1]
  BY RemoveAtFacts
<1> HIDE DEF r
<1>2. /\ Len(s) \in Nat /\ DOMAIN s = 1..Len(s) /\ DOMAIN r = 1..(Len(s) - 1)
      /\ \A e : e \in Range(s) <=> \E j \in 1..Len(s) : s[j] = e
      /\ \A e : e \in Range(r) <=> \E j \in 1..Len(r) : r[j] = e
  BY <1>1, RangeFacts
<1>3. \A j, k \in 1..Len(s) : s[j] = s[k] => j = k
  BY <1>2 DEF IsInjective
<1>4. IsInjective(r)
  <2> SUFFICES ASSUME NEW j \in 1..(Len(s) - 1), NEW k \in 1..(Len(s) - 1), r[j] = r[k]
               PROVE  j = k
    BY <1>2 DEF IsInjective
  <2> DEFINE up(x) == IF x < i THEN x ELSE x + 1
  <2>1. up(j) \in 1..Len(s) /\ up(k) \in 1..Len(s) /\ r[j] = s[up(j)] /\ r[k] = s[up(k)]
    BY <1>1, <1>2
  <2>2. up(j) = up(k)
    BY <1>3, <2>1, Zenon
  <2> QED
    BY <2>2, <1>2
<1>5. ASSUME NEW e
      PROVE  e \in Range(r) <=> e \in Range(s) \ {s[i]}
  <2>1. ASSUME e \in Range(r)
        PROVE  e \in Range(s) \ {s[i]}
    <3>1. PICK j \in 1..(Len(s) - 1) : r[j] = e
      BY <1>1, <1>2, <2>1
    <3>2. PICK k \in 1..Len(s) : s[k] = e /\ k # i
      BY <1>1, <1>2, <3>1
    <3> QED
      BY <1>2, <1>3, <3>2
  <2>2. ASSUME e \in Range(s) \ {s[i]}
        PROVE  e \in Range(r)
    <3>1. PICK k \in 1..Len(s) : s[k] = e /\ k # i
      BY <1>2, <2>2
    <3>2. CASE k < i
      <4>1. k \in 1..(Len(s) - 1) /\ r[k] = e
        BY <1>1, <1>2, <3>1, <3>2
      <4> QED
        BY <1>1, <1>2, <4>1
    <3>3. CASE k > i
      <4>1. k - 1 \in 1..(Len(s) - 1) /\ (k - 1) + 1 = k /\ ~(k - 1 < i)
        BY <1>2, <3>3
      <4>2. r[k - 1] = e
        BY <1>1, <3>1, <4>1
      <4> QED
        BY <1>1, <1>2, <4>1, <4>2
    <3> QED
      BY <1>2, <3>1, <3>2, <3>3
  <2> QED
    BY <2>1, <2>2
<1>6. Range(r) = Range(s) \ {s[i]}
  BY <1>5
<1> QED
  BY <1>1, <1>4, <1>6 DEF r

\* Putting a new element into a sequence.
LEMMA InsertAtOnce ==
  ASSUME NEW s \in Seq(Handle), IsInjective(s), NEW i \in 1..(Len(s) + 1),
         NEW e \in Handle, e \notin Range(s)
  PROVE  /\ InsertAt(s, i, e) \in Seq(Handle)
         /\ IsInjective(InsertAt(s, i, e))
         /\ Range(InsertAt(s, i, e)) = Range(s) \cup {e}
<1> DEFINE r == InsertAt(s, i, e)
<1>1. /\ r \in Seq(Handle) /\ Len(r) = Len(s) + 1
      /\ \A j \in 1..(Len(s) + 1) :
           r[j] = IF j < i THEN s[j] ELSE IF j = i THEN e ELSE s[j - 1]
  <2>1. /\ InsertAt(s, i, e) \in Seq(Handle)
        /\ Len(InsertAt(s, i, e)) = Len(s) + 1
        /\ \A j \in 1..(Len(s) + 1) :
             InsertAt(s, i, e)[j] = IF j < i THEN s[j] ELSE IF j = i THEN e ELSE s[j - 1]
    BY InsertAtFacts
  <2> QED
    BY <2>1
<1> HIDE DEF r
<1>2. /\ Len(s) \in Nat /\ DOMAIN s = 1..Len(s) /\ DOMAIN r = 1..(Len(s) + 1)
      /\ \A x : x \in Range(s) <=> \E j \in 1..Len(s) : s[j] = x
      /\ \A x : x \in Range(r) <=> \E j \in 1..Len(r) : r[j] = x
  BY <1>1, RangeFacts
<1>3. /\ \A j, k \in 1..Len(s) : s[j] = s[k] => j = k
      /\ \A j \in 1..Len(s) : s[j] # e
  BY <1>2 DEF IsInjective
<1> DEFINE down(x) == IF x < i THEN x ELSE x - 1
<1>4. ASSUME NEW j \in 1..(Len(s) + 1), j # i
      PROVE  down(j) \in 1..Len(s) /\ r[j] = s[down(j)]
  <2>1. down(j) \in 1..Len(s)
    BY <1>2, <1>4
  <2> QED
    BY <1>1, <1>4, <2>1
<1>5. i \in 1..(Len(s) + 1) /\ r[i] = e
  BY <1>1, <1>2
<1>6. IsInjective(r)
  <2> SUFFICES ASSUME NEW j \in 1..(Len(s) + 1), NEW k \in 1..(Len(s) + 1), r[j] = r[k]
               PROVE  j = k
    BY <1>2 DEF IsInjective
  <2>1. CASE j = i \/ k = i
    BY <1>3, <1>4, <1>5, <2>1
  <2>2. CASE j # i /\ k # i
    <3>1. down(j) = down(k)
      BY <1>3, <1>4, <2>2
    <3> QED
      BY <1>2, <2>2, <3>1
  <2> QED
    BY <2>1, <2>2
<1>7. ASSUME NEW x
      PROVE  x \in Range(r) <=> x \in Range(s) \cup {e}
  <2>1. ASSUME x \in Range(r)
        PROVE  x \in Range(s) \cup {e}
    <3>1. PICK j \in 1..(Len(s) + 1) : r[j] = x
      BY <1>1, <1>2, <2>1
    <3>2. CASE j = i
      BY <1>5, <3>1, <3>2
    <3>3. CASE j # i
      <4>1. down(j) \in 1..Len(s) /\ s[down(j)] = x
        BY <1>4, <3>1, <3>3
      <4> HIDE DEF down
      <4> QED
        BY <1>2, <4>1
    <3> QED
      BY <3>2, <3>3
  <2>2. ASSUME x \in Range(s)
        PROVE  x \in Range(r)
    <3>1. PICK k \in 1..Len(s) : s[k] = x
      BY <1>2, <2>2
    <3>2. CASE k < i
      <4>1. k \in 1..Len(r) /\ r[k] = x
        BY <1>1, <1>2, <3>1, <3>2
      <4> QED
        BY <1>2, <4>1
    <3>3. CASE ~(k < i)
      <4>1. k + 1 \in 1..Len(r) /\ ~(k + 1 < i) /\ k + 1 # i /\ (k + 1) - 1 = k
        BY <1>1, <1>2, <3>3
      <4>2. r[k + 1] = x
        BY <1>1, <3>1, <4>1
      <4> QED
        BY <1>2, <4>1, <4>2
    <3> QED
      BY <3>2, <3>3
  <2>3. e \in Range(r)
    BY <1>1, <1>2, <1>5
  <2> QED
    BY <2>1, <2>2, <2>3
<1>8. Range(r) = Range(s) \cup {e}
  BY <1>7
<1> QED
  BY <1>1, <1>6, <1>8 DEF r

\* What is on a sound list.
LEMMA SoundListFacts ==
  ASSUME NEW l, SoundList(l)
  PROVE  /\ l.list \in Seq(Handle) /\ Len(l.list) \in Nat
         /\ Range(l.list) \in SUBSET Handle
         /\ \A e : e \in Range(l.list) <=> \E i \in 1..Len(l.list) : l.list[i] = e
         /\ \A i, j \in 1..Len(l.list) : l.list[i] = l.list[j] => i = j
         /\ \A i \in 1..Len(l.list) : l.list[i] \in Handle
<1>1. l.list \in Seq(Handle) /\ IsInjective(l.list)
  BY DEF SoundList, ListType
<1>2. /\ Len(l.list) \in Nat /\ DOMAIN l.list = 1..Len(l.list)
      /\ Range(l.list) \in SUBSET Handle
      /\ \A e : e \in Range(l.list) <=> \E i \in 1..Len(l.list) : l.list[i] = e
  BY <1>1, RangeFacts
<1>3. \A i, j \in 1..Len(l.list) : l.list[i] = l.list[j] => i = j
  BY <1>1, <1>2 DEF IsInjective
<1>4. \A i \in 1..Len(l.list) : l.list[i] \in Handle
  BY <1>1
<1> QED
  BY <1>1, <1>2, <1>3, <1>4

\* LRU_Remove takes the entry off the list, and nothing else.
LEMMA LRU_RemoveFacts ==
  ASSUME NEW l, SoundList(l), NEW e \in Range(l.list)
  PROVE  /\ SoundList(LRU_Remove(l, e))
         /\ Range(LRU_Remove(l, e).list) = Range(l.list) \ {e}
         /\ LRU_Remove(l, e).inPool = l.inPool
         /\ LRU_Remove(l, e).usage = l.usage - charge(e)
<1> DEFINE s == l.list
           i == Position(l, e)
           c == LowPriCount(l)
           r == LRU_Remove(l, e)
           d == IF i <= c THEN c - 1 ELSE c
<1>1. /\ s \in Seq(Handle) /\ Len(s) \in Nat /\ Range(s) \in SUBSET Handle
      /\ l \in ListType /\ IsInjective(s)
      /\ \A j, k \in 1..Len(s) : s[j] = s[k] => j = k
  BY SoundListFacts, Zenon DEF SoundList
<1>2. i \in 1..Len(s) /\ s[i] = e
  <2>1. PICK j \in 1..Len(s) : s[j] = e
    BY SoundListFacts, Zenon
  <2>2. Position(l, s[j]) = j
    BY <1>1, PositionIs
  <2> QED
    BY <2>1, <2>2
<1>3. c \in 0..Len(s) /\ (c = 0 <=> l.low_pri = None) /\ (c > 0 => l.low_pri = s[c])
  BY LowPriCountFacts
<1>4. e \in Handle /\ e # None /\ charge(e) \in Nat
  <2>1. e \in Handle /\ {e} \in SUBSET Handle
    BY <1>1
  <2> QED
    BY <2>1, ShardAssumption DEF charge
<1>5. /\ r.list = RemoveAt(s, i)
      /\ r.low_pri = IF l.low_pri # e THEN l.low_pri ELSE IF i = 1 THEN None ELSE s[i - 1]
      /\ r.usage = l.usage - charge(e)
      /\ r.pool = IF e \in l.inPool THEN l.pool - charge(e) ELSE l.pool
      /\ r.inPool = l.inPool
  BY <1>1 DEF ListType, LRU_Remove
<1>6. \A j \in 1..Len(s) : s[j] \in l.inPool <=> j > c
  BY DEF SoundList
<1>7. /\ r.list \in Seq(Handle) /\ IsInjective(r.list)
      /\ Range(r.list) = Range(s) \ {e}
  BY <1>1, <1>2, <1>5, RemoveAtOnce
<1>8. /\ Len(r.list) = Len(s) - 1
      /\ \A j \in 1..(Len(s) - 1) : r.list[j] = IF j < i THEN s[j] ELSE s[j + 1]
  <2> HIDE DEF s, i
  <2>1. /\ Len(RemoveAt(s, i)) = Len(s) - 1
        /\ \A j \in 1..(Len(s) - 1) :
             RemoveAt(s, i)[j] = IF j < i THEN s[j] ELSE s[j + 1]
    BY <1>1, <1>2, RemoveAtFacts
  <2> QED
    BY <1>5, <2>1
<1> HIDE DEF i, c, r, s
<1>9. d \in 0..Len(r.list)
  BY <1>1, <1>2, <1>3, <1>8
<1>10. r.low_pri = IF d = 0 THEN None ELSE r.list[d]
  <2>1. CASE c = 0
    BY <1>1, <1>2, <1>3, <1>4, <1>5, <2>1
  <2>2. CASE c > 0 /\ c = i
    <3>1. i = 1 \/ (i - 1 \in 1..(Len(s) - 1) /\ i - 1 < i)
      BY <1>1, <1>2
    <3>2. d = i - 1
      BY <1>1, <1>2, <2>2
    <3> QED
      BY <1>2, <1>3, <1>5, <1>8, <2>2, <3>1, <3>2
  <2>3. CASE c > 0 /\ c < i
    <3>1. c \in 1..(Len(s) - 1) /\ c \in 1..Len(s) /\ c # i /\ d = c
      BY <1>1, <1>2, <1>3, <2>3
    <3>2. l.low_pri # e
      BY <1>1, <1>2, <1>3, <2>3, <3>1
    <3> QED
      BY <1>3, <1>5, <1>8, <2>3, <3>1, <3>2
  <2>4. CASE c > i
    <3>1. c - 1 \in 1..(Len(s) - 1) /\ c \in 1..Len(s) /\ c # i /\ c > 0
      BY <1>1, <1>2, <1>3, <2>4
    <3>2. d = c - 1 /\ (c - 1) + 1 = c /\ ~(c - 1 < i) /\ d # 0
      BY <1>1, <1>2, <1>3, <2>4
    <3>3. l.low_pri # e
      BY <1>1, <1>2, <1>3, <3>1
    <3>4. r.list[c - 1] = s[c]
      BY <1>8, <3>1, <3>2
    <3> QED
      BY <1>3, <1>5, <3>1, <3>2, <3>3, <3>4
  <2> QED
    BY <1>1, <1>2, <1>3, <2>1, <2>2, <2>3, <2>4
<1>11. \A j \in 1..Len(r.list) : r.list[j] \in r.inPool <=> j > d
  <2> SUFFICES ASSUME NEW j \in 1..(Len(s) - 1)
               PROVE  r.list[j] \in l.inPool <=> j > d
    BY <1>5, <1>8
  <2>1. j \in 1..Len(s) /\ j + 1 \in 1..Len(s)
    BY <1>1
  <2>2. CASE j < i
    <3>1. r.list[j] \in l.inPool <=> j > c
      BY <1>6, <1>8, <2>1, <2>2
    <3> QED
      BY <1>1, <1>2, <1>3, <2>1, <2>2, <3>1
  <2>3. CASE ~(j < i)
    <3>1. r.list[j] \in l.inPool <=> j + 1 > c
      BY <1>6, <1>8, <2>1, <2>3
    <3> QED
      BY <1>1, <1>2, <1>3, <2>1, <2>3, <3>1
  <2> QED
    BY <2>2, <2>3
<1>12. r.usage = Charge[Range(r.list)]
  <2>1. {e} \in SUBSET Range(s)
    BY DEF s
  <2>2. Charge[Range(s)] \in Nat /\ Charge[Range(s) \ {e}] = Charge[Range(s)] - Charge[{e}]
    BY <1>1, <2>1, ChargeMinus
  <2>3. l.usage = Charge[Range(s)]
    BY DEF SoundList, s
  <2> QED
    BY <1>5, <1>7, <2>2, <2>3 DEF charge
<1>13. r.pool = Charge[Range(r.list) \cap r.inPool]
  <2> DEFINE P == Range(s) \cap l.inPool
  <2>1. l.pool = Charge[P]
    BY DEF SoundList, s
  <2>2. CASE e \in l.inPool
    <3>1. P \in SUBSET Handle /\ {e} \in SUBSET P
      BY <1>1, <2>2 DEF s
    <3>2. Charge[P \ {e}] = Charge[P] - Charge[{e}]
      BY <3>1, ChargeMinus, Zenon
    <3>3. Range(r.list) \cap r.inPool = P \ {e}
      BY <1>5, <1>7
    <3> QED
      BY <1>5, <2>1, <2>2, <3>2, <3>3 DEF charge
  <2>3. CASE e \notin l.inPool
    <3>1. Range(r.list) \cap r.inPool = P
      BY <1>5, <1>7, <2>3
    <3> QED
      BY <1>5, <2>1, <2>3, <3>1
  <2> QED
    BY <2>2, <2>3
<1>14. r \in ListType
  <2> HIDE DEF d
  <2>1. r.low_pri \in Handle \cup {None}
    <3>1. d = 0 \/ (d \in 1..Len(r.list) /\ r.list[d] \in Handle)
      BY <1>1, <1>7, <1>8, <1>9
    <3> QED
      BY <1>10, <3>1
  <2>2. r.usage \in Int /\ r.pool \in Int /\ r.inPool \in SUBSET Handle
    BY <1>1, <1>4, <1>5 DEF ListType
  <2> QED
    BY <1>1, <1>7, <2>1, <2>2, Zenon DEF ListType, LRU_Remove, r
<1>15. SoundList(r)
  BY <1>7, <1>9, <1>10, <1>11, <1>12, <1>13, <1>14, MakeSound, Zenon
<1> QED
  BY <1>5, <1>7, <1>15 DEF r, s

\* An entry that comes in at the high-priority end.
LEMMA ToHighPriFacts ==
  ASSUME NEW l, SoundList(l), NEW e \in Handle, e \notin Range(l.list)
  PROVE  /\ SoundList(ToHighPri(l, e))
         /\ Range(ToHighPri(l, e).list) = Range(l.list) \cup {e}
<1> DEFINE s == l.list
           c == LowPriCount(l)
           r == ToHighPri(l, e)
<1>1. /\ s \in Seq(Handle) /\ Len(s) \in Nat /\ Range(s) \in SUBSET Handle
      /\ l \in ListType
      /\ \A x : x \in Range(s) <=> \E j \in 1..Len(s) : s[j] = x
      /\ \A j, k \in 1..Len(s) : s[j] = s[k] => j = k
  BY SoundListFacts, Zenon DEF SoundList
<1>2. c \in 0..Len(s) /\ (c = 0 <=> l.low_pri = None) /\ (c > 0 => l.low_pri = s[c])
  BY LowPriCountFacts
<1>3. /\ r.list = Append(s, e) /\ r.low_pri = l.low_pri
      /\ r.usage = l.usage + charge(e) /\ r.pool = l.pool + charge(e)
      /\ r.inPool = l.inPool \cup {e}
  BY <1>1 DEF ListType, ToHighPri
<1>4. \A j \in 1..Len(s) : s[j] \in l.inPool <=> j > c
  BY DEF SoundList
<1>5. charge(e) \in Nat /\ l.usage = Charge[Range(s)] /\ l.pool = Charge[Range(s) \cap l.inPool]
  BY <1>1, ChargePlus, Zenon DEF SoundList
<1>6. r \in ListType
  <2>1. /\ Append(l.list, e) \in Seq(Handle) /\ l.inPool \cup {e} \in SUBSET Handle
        /\ l.pool + charge(e) \in Int /\ l.usage + charge(e) \in Int
    BY <1>1, <1>5 DEF ListType
  <2> QED
    BY <1>1, <2>1, Zenon DEF ListType, ToHighPri
<1>7. e \notin Range(s)
  OBVIOUS
<1> HIDE DEF s, c, r
<1>8. /\ r.list \in Seq(Handle) /\ Len(r.list) = Len(s) + 1 /\ r.list[Len(s) + 1] = e
      /\ \A j \in 1..Len(s) : r.list[j] = s[j]
  BY <1>1, <1>3
<1>9. \A j \in 1..Len(r.list) : j \in 1..Len(s) \/ j = Len(s) + 1
  BY <1>1, <1>8
<1>10. /\ DOMAIN r.list = 1..Len(r.list)
       /\ \A x : x \in Range(r.list) <=> \E j \in 1..Len(r.list) : r.list[j] = x
  BY <1>8, RangeFacts
<1>11. Range(r.list) = Range(s) \cup {e}
  <2>1. Len(s) + 1 \in 1..Len(r.list) /\ \A j \in 1..Len(s) : j \in 1..Len(r.list)
    BY <1>1, <1>8
  <2> QED
    BY <1>1, <1>8, <1>9, <1>10, <2>1
<1>12. IsInjective(r.list)
  <2> SUFFICES ASSUME NEW j \in 1..Len(r.list), NEW k \in 1..Len(r.list),
                      r.list[j] = r.list[k]
               PROVE  j = k
    BY <1>10 DEF IsInjective
  <2>1. \A x \in 1..Len(s) : s[x] # e
    BY <1>1, <1>7
  <2> QED
    BY <1>1, <1>8, <1>9, <2>1
<1>13. c \in 0..Len(r.list) /\ r.low_pri = IF c = 0 THEN None ELSE r.list[c]
  BY <1>1, <1>2, <1>3, <1>8
<1>14. \A j \in 1..Len(r.list) : r.list[j] \in r.inPool <=> j > c
  <2> TAKE j \in 1..Len(r.list)
  <2>1. CASE j \in 1..Len(s)
    <3>1. s[j] # e
      BY <1>1, <1>7, <2>1
    <3> QED
      BY <1>3, <1>4, <1>8, <2>1, <3>1
  <2>2. CASE j = Len(s) + 1
    BY <1>1, <1>2, <1>3, <1>8, <2>2
  <2> QED
    BY <1>9, <2>1, <2>2
<1>15. r.usage = Charge[Range(r.list)]
  BY <1>1, <1>3, <1>5, <1>7, <1>11, ChargePlus
<1>16. r.pool = Charge[Range(r.list) \cap r.inPool]
  <2> DEFINE P == Range(s) \cap l.inPool
  <2>1. P \in SUBSET Handle /\ e \notin P /\ Range(r.list) \cap r.inPool = P \cup {e}
    BY <1>1, <1>3, <1>7, <1>11
  <2>2. Charge[P \cup {e}] = Charge[P] + charge(e)
    BY <2>1, ChargePlus
  <2> QED
    BY <1>3, <1>5, <2>1, <2>2, Zenon
<1>17. SoundList(r)
  BY <1>6, <1>12, <1>13, <1>14, <1>15, <1>16, MakeSound
<1> QED
  BY <1>11, <1>17 DEF r, s

\* An entry that comes in at the high end of the low-priority part.
LEMMA ToLowPriFacts ==
  ASSUME NEW l, SoundList(l), NEW e \in Handle, e \notin Range(l.list)
  PROVE  /\ SoundList(ToLowPri(l, e))
         /\ Range(ToLowPri(l, e).list) = Range(l.list) \cup {e}
<1> DEFINE s == l.list
           c == LowPriCount(l)
           r == ToLowPri(l, e)
<1>1. /\ s \in Seq(Handle) /\ Len(s) \in Nat /\ Range(s) \in SUBSET Handle
      /\ l \in ListType /\ IsInjective(s)
      /\ \A x : x \in Range(s) <=> \E j \in 1..Len(s) : s[j] = x
  BY SoundListFacts, Zenon DEF SoundList
<1>2. c \in 0..Len(s) /\ c + 1 \in 1..(Len(s) + 1)
  <2>1. c \in 0..Len(s)
    BY LowPriCountFacts
  <2> HIDE DEF c
  <2> QED
    BY <1>1, <2>1
<1>3. /\ r.list = InsertAt(s, c + 1, e) /\ r.low_pri = e
      /\ r.usage = l.usage + charge(e) /\ r.pool = l.pool
      /\ r.inPool = l.inPool \ {e}
  BY <1>1 DEF ListType, ToLowPri
<1>4. \A j \in 1..Len(s) : s[j] \in l.inPool <=> j > c
  BY DEF SoundList
<1>5. charge(e) \in Nat /\ l.usage = Charge[Range(s)] /\ l.pool = Charge[Range(s) \cap l.inPool]
  BY <1>1, ChargePlus, Zenon DEF SoundList
<1>6. e \notin Range(s)
  OBVIOUS
<1> HIDE DEF s, c
<1>7. /\ InsertAt(s, c + 1, e) \in Seq(Handle)
      /\ Len(InsertAt(s, c + 1, e)) = Len(s) + 1
      /\ \A j \in 1..(Len(s) + 1) :
           InsertAt(s, c + 1, e)[j] =
             IF j < c + 1 THEN s[j] ELSE IF j = c + 1 THEN e ELSE s[j - 1]
  <2>1. ASSUME NEW i \in 1..(Len(s) + 1)
        PROVE  /\ InsertAt(s, i, e) \in Seq(Handle)
               /\ Len(InsertAt(s, i, e)) = Len(s) + 1
               /\ \A j \in 1..(Len(s) + 1) :
                    InsertAt(s, i, e)[j] =
                      IF j < i THEN s[j] ELSE IF j = i THEN e ELSE s[j - 1]
    BY <1>1, InsertAtFacts
  <2> QED
    BY <1>2, <2>1
<1>8. r \in ListType
  <2>1. /\ InsertAt(l.list, LowPriCount(l) + 1, e) \in Seq(Handle)
        /\ l.inPool \ {e} \in SUBSET Handle /\ l.usage + charge(e) \in Int
    BY <1>1, <1>5, <1>7 DEF ListType, s, c
  <2> QED
    BY <1>1, <2>1, Zenon DEF ListType, ToLowPri
<1>9. r.list \in Seq(Handle) /\ IsInjective(r.list) /\ Range(r.list) = Range(s) \cup {e}
  BY <1>1, <1>2, <1>3, <1>6, InsertAtOnce
<1> HIDE DEF r
<1>10. /\ Len(r.list) = Len(s) + 1
       /\ \A j \in 1..(Len(s) + 1) :
            r.list[j] = IF j < c + 1 THEN s[j] ELSE IF j = c + 1 THEN e ELSE s[j - 1]
  BY <1>3, <1>7
<1>11. c + 1 \in 0..Len(r.list) /\ r.low_pri = IF c + 1 = 0 THEN None ELSE r.list[c + 1]
  BY <1>1, <1>2, <1>3, <1>10
<1>12. \A j \in 1..Len(r.list) : r.list[j] \in r.inPool <=> j > c + 1
  <2> SUFFICES ASSUME NEW j \in 1..(Len(s) + 1)
               PROVE  r.list[j] \in r.inPool <=> j > c + 1
    BY <1>10
  <2>1. CASE j < c + 1
    <3>1. j \in 1..Len(s) /\ ~(j > c) /\ ~(j > c + 1)
      BY <1>1, <1>2, <2>1
    <3> QED
      BY <1>3, <1>4, <1>10, <2>1, <3>1
  <2>2. CASE j = c + 1
    BY <1>2, <1>3, <1>10, <2>2
  <2>3. CASE j > c + 1
    <3>1. j - 1 \in 1..Len(s) /\ j - 1 > c /\ ~(j < c + 1) /\ j # c + 1
      BY <1>1, <1>2, <2>3
    <3>2. r.list[j] = s[j - 1] /\ s[j - 1] # e /\ s[j - 1] \in l.inPool
      BY <1>1, <1>4, <1>6, <1>10, <3>1
    <3> QED
      BY <1>3, <2>3, <3>2
  <2> QED
    BY <1>1, <1>2, <2>1, <2>2, <2>3
<1>13. r.usage = Charge[Range(r.list)]
  BY <1>1, <1>3, <1>5, <1>6, <1>9, ChargePlus
<1>14. Range(r.list) \cap r.inPool = Range(s) \cap l.inPool
  BY <1>3, <1>6, <1>9
<1>15. r.pool = Charge[Range(r.list) \cap r.inPool]
  BY <1>3, <1>5, <1>14
<1>16. SoundList(r)
  BY <1>8, <1>9, <1>11, <1>12, <1>13, <1>15, MakeSound, Zenon
<1> QED
  BY <1>9, <1>16 DEF r, s

\* MaintainPoolSize moves the border of the high-priority part, not the entries.
LEMMA MaintainPoolSizeFacts ==
  ASSUME NEW l, SoundList(l), NEW m \in Nat, m <= Len(l.list) - LowPriCount(l)
  PROVE  /\ SoundList(MaintainPoolSize(l, m))
         /\ MaintainPoolSize(l, m).list = l.list
<1> DEFINE s == l.list
           c == LowPriCount(l)
           o == Overflow(l, m)
           r == MaintainPoolSize(l, m)
<1>1. /\ s \in Seq(Handle) /\ Len(s) \in Nat /\ Range(s) \in SUBSET Handle
      /\ l \in ListType /\ IsInjective(s)
      /\ \A x : x \in Range(s) <=> \E j \in 1..Len(s) : s[j] = x
      /\ \A j, k \in 1..Len(s) : s[j] = s[k] => j = k
      /\ \A j \in 1..Len(s) : s[j] \in Handle
  BY SoundListFacts, Zenon DEF SoundList
<1>2. c \in 0..Len(s) /\ (c = 0 <=> l.low_pri = None) /\ (c > 0 => l.low_pri = s[c])
  BY LowPriCountFacts
<1>3. \A j \in 1..Len(s) : s[j] \in l.inPool <=> j > c
  BY DEF SoundList
<1>4. o = {s[c + j] : j \in 1..m}
  BY DEF Overflow
<1>5. /\ r.list = s /\ r.low_pri = IF m = 0 THEN l.low_pri ELSE s[c + m]
      /\ r.usage = l.usage /\ r.pool = l.pool - Charge[o] /\ r.inPool = l.inPool \ o
  BY <1>1 DEF ListType, MaintainPoolSize
<1>6. l.usage = Charge[Range(s)] /\ l.pool = Charge[Range(s) \cap l.inPool]
  BY DEF SoundList
<1>7. m <= Len(s) - c
  OBVIOUS
<1> HIDE DEF s, c, o
<1>8. \A j \in 1..m : c + j \in 1..Len(s) /\ c + j > c
  BY <1>1, <1>2, <1>7
<1>9. o \in SUBSET (Range(s) \cap l.inPool)
  BY <1>1, <1>3, <1>4, <1>8
<1>10. /\ Range(s) \cap l.inPool \in SUBSET Handle
       /\ Charge[o] \in Nat
       /\ Charge[(Range(s) \cap l.inPool) \ o] = Charge[Range(s) \cap l.inPool] - Charge[o]
  <2>1. Range(s) \cap l.inPool \in SUBSET Handle
    BY <1>1
  <2> QED
    BY <1>9, <2>1, ChargeMinus, Zenon
<1>11. r \in ListType
  <2>1. /\ (IF m = 0 THEN l.low_pri ELSE s[c + m]) \in Handle \cup {None}
        /\ l.pool - Charge[o] \in Int /\ l.inPool \ o \in SUBSET Handle
    <3>1. m = 0 \/ m \in 1..m
      OBVIOUS
    <3>2. m = 0 \/ s[c + m] \in Handle
      BY <1>1, <1>8, <3>1
    <3> QED
      BY <1>1, <1>10, <3>2 DEF ListType
  <2> QED
    BY <1>1, <2>1, Zenon DEF ListType, MaintainPoolSize, s, c, o
<1> HIDE DEF r
<1>12. /\ c + m \in 0..Len(r.list)
       /\ r.low_pri = IF c + m = 0 THEN None ELSE r.list[c + m]
  <2>1. c + m \in 0..Len(r.list)
    BY <1>1, <1>2, <1>5, <1>7
  <2>2. CASE m = 0
    BY <1>2, <1>5, <2>2
  <2>3. CASE m # 0
    <3>1. c + m # 0
      BY <1>2, <2>3
    <3> QED
      BY <1>5, <2>1, <2>3, <3>1
  <2> QED
    BY <2>1, <2>2, <2>3
<1>13. ASSUME NEW j \in 1..Len(r.list)
       PROVE  r.list[j] \in r.inPool <=> j > c + m
  <2>1. j \in 1..Len(s) /\ j \in Nat
    BY <1>1, <1>5
  <2>2. s[j] \in o <=> (j > c /\ j <= c + m)
    <3>1. ASSUME s[j] \in o
          PROVE  j > c /\ j <= c + m
      <4>1. PICK k \in 1..m : s[j] = s[c + k]
        BY <1>4, <3>1
      <4>2. j = c + k
        BY <1>1, <1>8, <2>1, <4>1, Zenon
      <4> QED
        BY <1>2, <4>2
    <3>2. ASSUME j > c /\ j <= c + m
          PROVE  s[j] \in o
      <4>1. j - c \in 1..m /\ c + (j - c) = j
        BY <1>2, <2>1, <3>2
      <4> QED
        BY <1>4, <4>1
    <3> QED
      BY <3>1, <3>2
  <2>3. r.list[j] \in r.inPool <=> (j > c /\ ~(j > c /\ j <= c + m))
    BY <1>3, <1>5, <2>1, <2>2
  <2> QED
    BY <1>2, <2>1, <2>3
<1>14. r.usage = Charge[Range(r.list)] /\ IsInjective(r.list)
  BY <1>1, <1>5, <1>6
<1>15. r.pool = Charge[Range(r.list) \cap r.inPool]
  <2>1. Range(r.list) \cap r.inPool = (Range(s) \cap l.inPool) \ o
    BY <1>5
  <2> QED
    BY <1>5, <1>6, <1>10, <2>1, Zenon
<1>16. SoundList(r)
  BY <1>11, <1>12, <1>13, <1>14, <1>15, MakeSound, Zenon
<1> QED
  BY <1>5, <1>16 DEF r, s

\* EvictFromLRU takes the n oldest entries off the list.
LEMMA EvictedFacts ==
  ASSUME SoundList(lru), NEW n \in 0..Len(lru.list)
  PROVE  /\ SoundList(Evicted(n))
         /\ Range(Evicted(n).list) = OnList \ Oldest(n)
         /\ Oldest(n) \in SUBSET OnList
         /\ Evicted(n).inPool = lru.inPool
         /\ Evicted(n).usage = lru.usage - Charge[Oldest(n)]
         /\ n = Len(lru.list) => Oldest(n) = OnList /\ Evicted(n).list = <<>>
<1> DEFINE s == lru.list
           c == LowPriCount(lru)
           o == Oldest(n)
           r == Evicted(n)
           d == IF c <= n THEN 0 ELSE c - n
<1>1. /\ s \in Seq(Handle) /\ Len(s) \in Nat /\ Range(s) \in SUBSET Handle
      /\ lru \in ListType /\ IsInjective(s)
      /\ \A x : x \in Range(s) <=> \E j \in 1..Len(s) : s[j] = x
      /\ \A j, k \in 1..Len(s) : s[j] = s[k] => j = k
      /\ \A j \in 1..Len(s) : s[j] \in Handle
  BY SoundListFacts, Zenon DEF SoundList
<1>2. c \in 0..Len(s) /\ (c = 0 <=> lru.low_pri = None) /\ (c > 0 => lru.low_pri = s[c])
  BY LowPriCountFacts
<1>3. \A j \in 1..Len(s) : s[j] \in lru.inPool <=> j > c
  BY DEF SoundList
<1>4. o = {s[j] : j \in 1..n}
  BY DEF Oldest
<1>5. /\ r.list = SubSeq(s, n + 1, Len(s))
      /\ r.low_pri = IF lru.low_pri \in o THEN None ELSE lru.low_pri
      /\ r.usage = lru.usage - Charge[o]
      /\ r.pool = lru.pool - Charge[o \cap lru.inPool] /\ r.inPool = lru.inPool
  BY <1>1, Zenon DEF ListType, Evicted
<1>6. lru.usage = Charge[Range(s)] /\ lru.pool = Charge[Range(s) \cap lru.inPool]
  BY DEF SoundList
<1>7. n \in 0..Len(s)
  OBVIOUS
<1> HIDE DEF s, c, o
<1>8. /\ SubSeq(s, n + 1, Len(s)) \in Seq(Handle)
      /\ Len(SubSeq(s, n + 1, Len(s))) = Len(s) - n
      /\ \A j \in 1..(Len(s) - n) : SubSeq(s, n + 1, Len(s))[j] = s[n + j]
  BY <1>1, <1>7, RestFacts
<1>9. o \in SUBSET Range(s) /\ \A j \in 1..Len(s) : s[j] \in o <=> j <= n
  BY <1>1, <1>4, <1>7
<1>10. /\ Charge[o] \in Nat /\ Charge[Range(s) \ o] = Charge[Range(s)] - Charge[o]
  BY <1>1, <1>9, ChargeMinus, Zenon
<1>11. /\ Charge[o \cap lru.inPool] \in Nat
       /\ Charge[(Range(s) \cap lru.inPool) \ (o \cap lru.inPool)]
            = Charge[Range(s) \cap lru.inPool] - Charge[o \cap lru.inPool]
  <2>1. /\ Range(s) \cap lru.inPool \in SUBSET Handle
        /\ o \cap lru.inPool \in SUBSET (Range(s) \cap lru.inPool)
    BY <1>1, <1>9
  <2> QED
    BY <2>1, ChargeMinus, Zenon
<1>12. r \in ListType
  <2>1. /\ (IF lru.low_pri \in o THEN None ELSE lru.low_pri) \in Handle \cup {None}
        /\ lru.usage - Charge[o] \in Int /\ lru.pool - Charge[o \cap lru.inPool] \in Int
    BY <1>1, <1>10, <1>11 DEF ListType
  <2> QED
    BY <1>1, <1>8, <2>1, Zenon DEF ListType, Evicted, s, o
<1> HIDE DEF r
<1>13. /\ r.list \in Seq(Handle) /\ Len(r.list) = Len(s) - n
       /\ \A j \in 1..(Len(s) - n) : r.list[j] = s[n + j] /\ n + j \in 1..Len(s)
  <2>1. \A j \in 1..(Len(s) - n) : n + j \in 1..Len(s)
    BY <1>1, <1>7
  <2> QED
    BY <1>5, <1>8, <2>1, Zenon
<1>14. /\ DOMAIN r.list = 1..Len(r.list)
       /\ \A x : x \in Range(r.list) <=> \E j \in 1..Len(r.list) : r.list[j] = x
  BY <1>13, RangeFacts
<1>15. IsInjective(r.list)
  <2> SUFFICES ASSUME NEW j \in 1..(Len(s) - n), NEW k \in 1..(Len(s) - n),
                      r.list[j] = r.list[k]
               PROVE  j = k
    BY <1>13, <1>14, Zenon DEF IsInjective
  <2>1. n + j = n + k
    BY <1>1, <1>13
  <2> QED
    BY <1>1, <1>7, <2>1
<1>16. Range(r.list) = Range(s) \ o
  <2>1. ASSUME NEW x \in Range(r.list)
        PROVE  x \in Range(s) \ o
    <3>1. PICK j \in 1..(Len(s) - n) : r.list[j] = x
      BY <1>13, <1>14
    <3>2. n + j \in 1..Len(s) /\ s[n + j] = x /\ ~(n + j <= n)
      BY <1>1, <1>7, <1>13, <3>1
    <3> QED
      BY <1>1, <1>9, <3>2
  <2>2. ASSUME NEW x \in Range(s) \ o
        PROVE  x \in Range(r.list)
    <3>1. PICK k \in 1..Len(s) : s[k] = x
      BY <1>1
    <3>2. k - n \in 1..(Len(s) - n) /\ n + (k - n) = k
      BY <1>1, <1>7, <1>9, <3>1
    <3>3. r.list[k - n] = x
      BY <1>13, <3>1, <3>2
    <3> QED
      BY <1>13, <1>14, <3>2, <3>3
  <2> QED
    BY <2>1, <2>2
<1>17. d \in 0..Len(r.list) /\ r.low_pri = IF d = 0 THEN None ELSE r.list[d]
  <2>1. d \in 0..Len(r.list)
    BY <1>1, <1>2, <1>7, <1>13
  <2>2. CASE c = 0
    BY <1>2, <1>5, <1>7, <2>2
  <2>3. CASE c > 0 /\ c <= n
    <3>1. lru.low_pri \in o
      BY <1>1, <1>2, <1>7, <1>9, <2>3
    <3> QED
      BY <1>5, <2>3, <3>1
  <2>4. CASE c > n
    <3>1. c - n \in 1..(Len(s) - n) /\ n + (c - n) = c /\ c \in 1..Len(s) /\ d = c - n /\ d # 0
          /\ ~(c <= n) /\ c > 0
      BY <1>1, <1>2, <1>7, <2>4
    <3>2. r.list[c - n] = s[c] /\ lru.low_pri = s[c] /\ lru.low_pri \notin o
      BY <1>2, <1>9, <1>13, <3>1, Zenon
    <3> QED
      BY <1>5, <3>1, <3>2, <2>1
  <2> QED
    BY <1>2, <1>7, <2>1, <2>2, <2>3, <2>4
<1>18. ASSUME NEW j \in 1..Len(r.list)
       PROVE  r.list[j] \in r.inPool <=> j > d
  <2>1. n + j \in 1..Len(s) /\ r.list[j] = s[n + j]
    BY <1>13
  <2>2. r.list[j] \in r.inPool <=> n + j > c
    BY <1>3, <1>5, <2>1, Zenon
  <2>3. j \in Nat /\ j >= 1
    BY <1>13
  <2> QED
    BY <1>2, <1>7, <2>2, <2>3
<1>19. r.usage = Charge[Range(r.list)]
  BY <1>5, <1>6, <1>10, <1>16, Zenon
<1>20. r.pool = Charge[Range(r.list) \cap r.inPool]
  <2>1. Range(r.list) \cap r.inPool = (Range(s) \cap lru.inPool) \ (o \cap lru.inPool)
    BY <1>5, <1>16, Zenon
  <2> QED
    BY <1>5, <1>6, <1>11, <2>1, Zenon
<1>21. SoundList(r)
  <2> HIDE DEF d
  <2> QED
    BY <1>12, <1>15, <1>17, <1>18, <1>19, <1>20, MakeSound, Zenon
<1>22. ASSUME n = Len(s)
       PROVE  o = Range(s) /\ r.list = <<>>
  <2>1. o = Range(s)
    BY <1>1, <1>4, <1>22
  <2> QED
    BY <1>13, <1>22, <2>1, <1>1
<1> QED
  BY <1>5, <1>9, <1>16, <1>21, <1>22 DEF r, s, o, OnList

\* The flag of an entry that is not on the list does not matter to it.
LEMMA FlagFacts ==
  ASSUME NEW l, SoundList(l), NEW P \in SUBSET Handle,
         \A e \in Range(l.list) : e \in P <=> e \in l.inPool
  PROVE  SoundList([l EXCEPT !.inPool = P]) /\ [l EXCEPT !.inPool = P].list = l.list
<1> DEFINE r == [l EXCEPT !.inPool = P]
           c == LowPriCount(l)
<1>1. l \in ListType /\ Len(l.list) \in Nat /\ \A i \in 1..Len(l.list) : l.list[i] \in Range(l.list)
  BY SoundListFacts, Zenon DEF SoundList
<1>2. /\ r \in ListType
      /\ r.list = l.list /\ r.low_pri = l.low_pri /\ r.usage = l.usage /\ r.pool = l.pool
      /\ r.inPool = P
  BY <1>1 DEF ListType
<1>3. c \in 0..Len(l.list) /\ (c = 0 <=> l.low_pri = None) /\ (c > 0 => l.low_pri = l.list[c])
  BY LowPriCountFacts
<1>4. \A i \in 1..Len(l.list) : l.list[i] \in l.inPool <=> i > c
  BY DEF SoundList
<1> HIDE DEF r, c
<1>5. c \in 0..Len(r.list) /\ r.low_pri = IF c = 0 THEN None ELSE r.list[c]
  BY <1>1, <1>2, <1>3
<1>6. \A i \in 1..Len(r.list) : r.list[i] \in r.inPool <=> i > c
  BY <1>1, <1>2, <1>4
<1>7. Range(r.list) \cap r.inPool = Range(l.list) \cap l.inPool
  BY <1>2
<1>8. /\ IsInjective(r.list) /\ r.usage = Charge[Range(r.list)]
      /\ r.pool = Charge[Range(r.list) \cap r.inPool]
  BY <1>2, <1>7, Zenon DEF SoundList
<1>9. SoundList(r)
  BY <1>2, <1>5, <1>6, <1>8, MakeSound, Zenon
<1> QED
  BY <1>2, <1>9 DEF r

\* LRU_Insert puts the entry on the list, in either part, and keeps the list sound.
LEMMA LRU_InsertFacts ==
  ASSUME NEW l, SoundList(l), NEW e \in Handle, e \notin Range(l.list),
         NEW isHighPri, LRU_Insert(l, e, isHighPri)
  PROVE  SoundList(lru') /\ Range(lru'.list) = Range(l.list) \cup {e}
<1>1. CASE high_pri_pool_ratio_ > 0 /\ isHighPri
  <2>1. /\ SoundList(ToHighPri(l, e))
        /\ Range(ToHighPri(l, e).list) = Range(l.list) \cup {e}
    BY ToHighPriFacts
  <2>2. PICK m \in 0..Len(l.list) + 1 :
          /\ Overflows(ToHighPri(l, e), high_pri_pool_capacity_, m)
          /\ lru' = MaintainPoolSize(ToHighPri(l, e), m)
    BY <1>1, Zenon DEF LRU_Insert
  <2>3. m \in Nat /\ m <= Len(ToHighPri(l, e).list) - LowPriCount(ToHighPri(l, e))
    BY <2>2, SoundListFacts DEF Overflows
  <2> HIDE DEF ToHighPri
  <2>4. SoundList(lru') /\ lru'.list = ToHighPri(l, e).list
    BY <2>1, <2>2, <2>3, MaintainPoolSizeFacts
  <2> QED
    BY <2>1, <2>4
<1>2. CASE ~(high_pri_pool_ratio_ > 0 /\ isHighPri)
  <2>1. lru' = ToLowPri(l, e)
    BY <1>2 DEF LRU_Insert
  <2> QED
    BY <2>1, ToLowPriFacts
<1> QED
  BY <1>1, <1>2
-----------------------------------------------------------------------------
(* The inductive invariant.                                                *)

TypeOK ==
  /\ capacity_ \in Nat
  /\ table_ \in [Key -> Handle \cup {None}]
  /\ key \in [Handle -> Key \cup {None}]
  /\ refs \in [Handle -> Int]
  /\ inCache \in [Handle -> BOOLEAN]
  /\ held \in [Handle -> Nat]
  /\ heap \in SUBSET Handle
  /\ doomed \in SUBSET heap
  /\ alive \in BOOLEAN

\* The list is sound, the usage is the charge of what has not been given up, and
\* there is something on the list only while the cache is not too full.
AccountsOK ==
  /\ SoundList(lru)
  /\ usage_ = Charge[heap \ doomed]
  /\ usage_ > capacity_ => lru.list = <<>>

IInv == TypeOK /\ RefsAreCounted /\ (alive => AccountsOK)

\* Nothing is on an empty list.
LEMMA EmptyList ==
  ASSUME lru.list = <<>>
  PROVE  OnList = {}
<1>1. DOMAIN lru.list = {}
  OBVIOUS
<1> QED
  BY <1>1 DEF OnList, Range

\* What is on the list, and what the entries there are like.
LEMMA OnListFacts ==
  ASSUME IInv, alive
  PROVE  /\ OnList \in SUBSET (heap \ doomed)
         /\ \A e \in OnList : refs[e] = 1 /\ inCache[e] /\ held[e] = 0
         /\ \A e \in heap \ doomed : inCache[e] /\ refs[e] = 1 => e \in OnList
         /\ heap \ doomed \in SUBSET Handle
         /\ SoundList(lru) /\ Range(lru.list) = OnList
<1>1. OnList = {e \in heap \ doomed : inCache[e] /\ refs[e] = 1}
  BY DEF IInv, RefsAreCounted
<1>2. \A e \in OnList : held[e] = 0
  <2> TAKE e \in OnList
  <2>1. e \in Handle /\ held[e] \in Nat /\ refs[e] = 1 /\ inCache[e] /\ refs[e] = held[e] + 1
    BY <1>1 DEF IInv, TypeOK, RefsAreCounted
  <2> QED
    BY <2>1
<1> QED
  BY <1>1, <1>2 DEF IInv, TypeOK, AccountsOK, OnList

\* What every eviction does, whatever made it necessary.
EvictStep(n) ==
  /\ lru' = Evicted(n)
  /\ usage_' = usage_ - Charge[Oldest(n)]
  /\ table_' = TableWithout(Oldest(n))
  /\ Unlinked(Oldest(n))
  /\ doomed' = doomed \cup Oldest(n)
  /\ UNCHANGED <<fields, heap, held, alive>>

\* An eviction that goes on until the charge fits or the list is empty.
LEMMA EvictStepInv ==
  ASSUME IInv, alive, NEW n \in 0..Len(lru.list), EvictStep(n),
         capacity_' \in Nat, usage_' > capacity_' => n = Len(lru.list)
  PROVE  IInv'
<1> DEFINE O == Oldest(n)
           live == heap \ doomed
<1>1. /\ OnList \in SUBSET live
      /\ \A e \in OnList : refs[e] = 1 /\ inCache[e] /\ held[e] = 0
      /\ live \in SUBSET Handle
      /\ SoundList(lru)
  BY OnListFacts
<1>2. /\ SoundList(lru') /\ Range(lru'.list) = OnList \ O
      /\ O \in SUBSET OnList
      /\ n = Len(lru.list) => lru'.list = <<>>
  BY <1>1, EvictedFacts, Zenon DEF EvictStep
<1>3. OnList = {e \in live : inCache[e] /\ refs[e] = 1}
  BY DEF IInv, RefsAreCounted
<1> USE DEF EvictStep, fields
<1> HIDE DEF O
<1>4. /\ table_' = [k \in Key |-> IF table_[k] \in O THEN None ELSE table_[k]]
      /\ refs' = [e \in Handle |-> IF e \in O THEN refs[e] - 1 ELSE refs[e]]
      /\ inCache' = [e \in Handle |-> inCache[e] /\ e \notin O]
      /\ doomed' = doomed \cup O
      /\ heap' \ doomed' = live \ O
      /\ usage_' = usage_ - Charge[O]
  BY Zenon DEF TableWithout, Unlinked, O
<1>5. TypeOK'
  <2>1. refs' \in [Handle -> Int]
    <3>1. ASSUME NEW e \in Handle PROVE refs[e] \in Int /\ refs[e] - 1 \in Int
      <4>1. refs[e] \in Int
        BY Zenon DEF IInv, TypeOK
      <4> QED
        BY <4>1
    <3> QED
      BY <1>4, <3>1, Zenon
  <2>2. inCache' \in [Handle -> BOOLEAN]
    BY <1>4, Zenon
  <2>3. table_' \in [Key -> Handle \cup {None}]
    BY <1>4, Zenon DEF IInv, TypeOK
  <2>4. doomed' \in SUBSET heap' /\ heap' \in SUBSET Handle
    BY <1>1, <1>2, <1>4, Zenon DEF IInv, TypeOK
  <2>5. key' \in [Handle -> Key \cup {None}] /\ held' \in [Handle -> Nat] /\ alive' \in BOOLEAN
    BY Zenon DEF IInv, TypeOK
  <2> QED
    BY <2>1, <2>2, <2>3, <2>4, <2>5, Zenon DEF TypeOK
<1>6. RefsAreCounted'
  <2>1. ASSUME NEW e \in live \ O
        PROVE  /\ refs'[e] = refs[e] /\ inCache'[e] = inCache[e] /\ key' = key
               /\ key[e] \in Key => (table_'[key[e]] = e <=> table_[key[e]] = e)
    <3>1. e \in Handle /\ e # None
      BY <1>1, ShardAssumption, Zenon
    <3> QED
      BY <1>4, <3>1, ZenonT(30) DEF IInv, TypeOK
  <2>2. \A e \in heap' \ doomed' :
          /\ refs'[e] = held'[e] + (IF inCache'[e] THEN 1 ELSE 0)
          /\ refs'[e] > 0
          /\ inCache'[e] <=> (key'[e] \in Key /\ table_'[key'[e]] = e)
    <3> SUFFICES ASSUME NEW e \in live \ O
                 PROVE  /\ refs'[e] = held'[e] + (IF inCache'[e] THEN 1 ELSE 0)
                        /\ refs'[e] > 0
                        /\ inCache'[e] <=> (key'[e] \in Key /\ table_'[key'[e]] = e)
      BY <1>4, Zenon
    <3>1. /\ refs[e] = held[e] + (IF inCache[e] THEN 1 ELSE 0)
          /\ refs[e] > 0
          /\ inCache[e] <=> (key[e] \in Key /\ table_[key[e]] = e)
      BY Zenon DEF IInv, RefsAreCounted
    <3>2. held' = held
      OBVIOUS
    <3> QED
      BY <2>1, <3>1, <3>2
  <2>3. \A e \in doomed' : (refs'[e] = 1 /\ inCache'[e]) \/ (refs'[e] = 0 /\ ~inCache'[e])
    <3>1. ASSUME NEW e \in O
          PROVE  refs'[e] = 0 /\ ~inCache'[e]
      <4>1. e \in Handle /\ refs[e] = 1
        BY <1>1, <1>2, Zenon
      <4>2. refs'[e] = 0
        BY <1>4, <4>1
      <4>3. ~inCache'[e]
        BY <1>4, <4>1, Zenon
      <4> QED
        BY <4>2, <4>3, Zenon
    <3>2. ASSUME NEW e \in doomed
          PROVE  refs'[e] = refs[e] /\ inCache'[e] = inCache[e]
      BY <1>1, <1>2, <1>4, ZenonT(30) DEF IInv, TypeOK
    <3> QED
      BY <1>4, <3>1, <3>2, Zenon DEF IInv, RefsAreCounted
  <2>4. ASSUME NEW e \in Handle, held'[e] > 0 PROVE e \in heap' \ doomed'
    <3>1. held[e] > 0 /\ e \in live
      BY <2>4, Zenon DEF IInv, RefsAreCounted
    <3>2. held[e] # 0
      BY <3>1
    <3> QED
      BY <1>1, <1>2, <1>4, <3>1, <3>2, Zenon
  <2>5. \A k \in Key : table_'[k] # None =>
          table_'[k] \in heap' \ doomed' /\ key'[table_'[k]] = k
    BY <1>4, ZenonT(30) DEF IInv, RefsAreCounted
  <2>6. IsInjective(lru'.list)
    BY <1>2 DEF SoundList
  <2>7. Range(lru'.list) = {e \in heap' \ doomed' : inCache'[e] /\ refs'[e] = 1}
    <3>1. OnList \ O = {e \in live \ O : inCache[e] /\ refs[e] = 1}
      BY <1>3
    <3> QED
      BY <1>2, <1>4, <2>1, <3>1, Zenon
  <2> QED
    BY <2>2, <2>3, <2>4, <2>5, <2>6, <2>7, Zenon DEF RefsAreCounted, OnList
<1>7. AccountsOK'
  <2>1. O \in SUBSET live
    BY <1>1, <1>2, Zenon
  <2>2. Charge[live \ O] = Charge[live] - Charge[O]
    BY <1>1, <2>1, ChargeMinus, Zenon
  <2>3. usage_' = Charge[heap' \ doomed']
    BY <1>4, <2>2, Zenon DEF IInv, AccountsOK
  <2> QED
    BY <1>2, <2>3 DEF AccountsOK
<1> QED
  BY <1>5, <1>6, <1>7 DEF IInv

\* SetCapacity evicts down to the new capacity.
LEMMA SetCapacityInv ==
  ASSUME IInv, NEW c \in Capacity, SetCapacity(c)
  PROVE  IInv'
<1>1. PICK n \in 0..Len(lru.list) :
        /\ Evicts(n, 0, c)
        /\ EvictStep(n)
  BY DEF SetCapacity, EvictStep
<1>2. alive /\ capacity_' = c /\ c \in Nat
  BY ShardAssumption DEF SetCapacity
<1>3. usage_' > capacity_' => n = Len(lru.list)
  <2>1. usage_' = usage_ - Charge[Oldest(n)]
    BY <1>1 DEF EvictStep
  <2>2. usage_ - Charge[Oldest(n)] \in Int
    <3>1. OnList \in SUBSET Handle /\ Oldest(n) \in SUBSET OnList
      BY <1>1, <1>2, OnListFacts, EvictedFacts, Zenon
    <3>2. heap \ doomed \in SUBSET Handle /\ usage_ = Charge[heap \ doomed]
      BY <1>2 DEF IInv, AccountsOK, TypeOK
    <3> QED
      BY <3>1, <3>2, ShardAssumption
  <2> QED
    BY <1>1, <1>2, <2>1, <2>2 DEF Evicts
<1> QED
  BY <1>1, <1>2, <1>3, EvictStepInv

\* EraseUnRefEntries empties the list.
LEMMA EraseUnRefEntriesInv ==
  ASSUME IInv, EraseUnRefEntries
  PROVE  IInv'
<1> DEFINE n == Len(lru.list)
<1>1. alive /\ SoundList(lru) /\ n \in 0..n
  BY OnListFacts, SoundListFacts DEF EraseUnRefEntries
<1>2. Oldest(n) = OnList
  BY <1>1, EvictedFacts
<1>3. EvictStep(n)
  BY <1>2 DEF EraseUnRefEntries, EvictStep
<1>4. capacity_' \in Nat
  BY DEF EraseUnRefEntries, config, IInv, TypeOK
<1> QED
  BY <1>1, <1>3, <1>4, EvictStepInv

\* What RefsAreCounted says of an entry that is in use or in the cache, and of one
\* that waits to be freed.
EntryOK(x) ==
  /\ refs[x] = held[x] + (IF inCache[x] THEN 1 ELSE 0)
  /\ refs[x] > 0
  /\ inCache[x] <=> (key[x] \in Key /\ table_[key[x]] = x)

DoomedOK(x) == (refs[x] = 1 /\ inCache[x]) \/ (refs[x] = 0 /\ ~inCache[x])

CountedOK(x) ==
  /\ x \in heap \ doomed => EntryOK(x)
  /\ x \in doomed => DoomedOK(x)
  /\ held[x] > 0 => x \in heap \ doomed
  /\ \A k \in Key : table_[k] = x => x \in heap \ doomed /\ key[x] = k
  /\ x \in OnList <=> x \in heap \ doomed /\ inCache[x] /\ refs[x] = 1

\* A step that has nothing to do with x
Kept(x) ==
  /\ refs'[x] = refs[x] /\ held'[x] = held[x]
  /\ inCache'[x] = inCache[x] /\ key'[x] = key[x]
  /\ x \in heap' <=> x \in heap
  /\ x \in doomed' <=> x \in doomed
  /\ \A k \in Key : table_'[k] = x <=> table_[k] = x
  /\ x \in OnList' <=> x \in OnList

\* The count of an entry that is out of the table and that somebody holds
LEMMA OneLess ==
  ASSUME NEW r \in Int, NEW h \in Nat, r = h + 1, r # 1
  PROVE  r - 1 = h /\ r - 1 > 0
OBVIOUS

\* An entry that a step leaves out of the cache and that nobody holds
LEMMA OutCounted ==
  ASSUME NEW x, x \notin heap' \ doomed', x \in doomed' => DoomedOK(x)',
         held'[x] = 0, \A j \in Key : table_'[j] # x, x \notin Range(lru'.list)
  PROVE  CountedOK(x)'
<1>1. ~(held'[x] > 0)
  OBVIOUS
<1> QED
  BY <1>1, Zenon DEF CountedOK, OnList

\* An entry that a step leaves in use or in the cache
LEMMA LiveCounted ==
  ASSUME NEW x, x \in heap' \ doomed', EntryOK(x)',
         \A j \in Key : table_'[j] = x => key'[x] = j,
         x \in Range(lru'.list) <=> inCache'[x] /\ refs'[x] = 1
  PROVE  CountedOK(x)'
<1> QED
  BY Zenon DEF CountedOK, OnList

\* It is enough to look at the entries S that a step touches.
LEMMA OthersKept ==
  ASSUME IInv, alive, alive', TypeOK', SoundList(lru'), NEW S,
         \A x \in Handle \ S : Kept(x),
         \A x \in Handle \cap S : CountedOK(x)'
  PROVE  RefsAreCounted'
<1> USE DEF Kept, CountedOK, OnList
<1>1. heap' \in SUBSET Handle /\ doomed' \in SUBSET heap'
  BY Zenon DEF TypeOK
<1>2. ASSUME NEW x \in heap' \ doomed'
      PROVE  EntryOK(x)'
  <2>1. CASE x \in S
    BY <1>1, <2>1, Zenon
  <2>2. CASE x \notin S
    <3>1. x \in Handle \ S /\ x \in heap \ doomed
      BY <1>1, <2>2, Zenon
    <3>2. EntryOK(x)
      BY <3>1, Zenon DEF IInv, RefsAreCounted, EntryOK
    <3>3. \A k \in Key : table_'[k] = x <=> table_[k] = x
      BY <3>1, Zenon
    <3>4. /\ refs'[x] = refs[x] /\ held'[x] = held[x]
          /\ inCache'[x] = inCache[x] /\ key'[x] = key[x]
      BY <3>1, Zenon
    <3> QED
      BY <3>2, <3>3, <3>4 DEF EntryOK
  <2> QED
    BY <2>1, <2>2
<1>3. ASSUME NEW x \in doomed'
      PROVE  DoomedOK(x)'
  <2>1. CASE x \in S
    BY <1>1, <2>1
  <2>2. CASE x \notin S
    <3>1. x \in Handle \ S /\ x \in doomed
      BY <1>1, <2>2, Zenon
    <3>2. DoomedOK(x)
      BY <3>1, Zenon DEF IInv, RefsAreCounted, DoomedOK
    <3>3. refs'[x] = refs[x] /\ inCache'[x] = inCache[x]
      BY <3>1, Zenon
    <3> QED
      BY <3>2, <3>3, Zenon DEF DoomedOK
  <2> QED
    BY <2>1, <2>2, Zenon
<1>4. ASSUME NEW x \in Handle, held'[x] > 0
      PROVE  x \in heap' \ doomed'
  <2>1. CASE x \in S
    BY <1>4, <2>1, Zenon
  <2>2. CASE x \notin S
    <3>1. held'[x] = held[x] /\ (x \in heap' <=> x \in heap) /\ (x \in doomed' <=> x \in doomed)
      BY <2>2, Zenon
    <3>2. x \in heap \ doomed
      BY <1>4, <3>1, Zenon DEF IInv, RefsAreCounted
    <3> QED
      BY <3>1, <3>2, Zenon
  <2> QED
    BY <2>1, <2>2, Zenon
<1>5. ASSUME NEW k \in Key, table_'[k] # None
      PROVE  table_'[k] \in heap' \ doomed' /\ key'[table_'[k]] = k
  <2>1. PICK x : x = table_'[k]
    BY Zenon
  <2>2. x \in Handle
    <3>1. table_' \in [Key -> Handle \cup {None}]
      BY Zenon DEF TypeOK
    <3>2. table_'[k] \in Handle \cup {None}
      BY <3>1, Zenon
    <3> QED
      BY <1>5, <2>1, <3>2, Zenon
  <2>3. CASE x \in S
    BY <2>1, <2>2, <2>3, Zenon
  <2>4. CASE x \notin S
    <3>1. Kept(x)
      BY <2>2, <2>4, Zenon
    <3>2. table_[k] = x
      BY <2>1, <3>1, Zenon
    <3>3. table_[k] # None
      BY <1>5, <2>1, <3>2, Zenon
    <3>4. x \in heap \ doomed /\ key[x] = k
      BY <3>2, <3>3, Zenon DEF IInv, RefsAreCounted
    <3> QED
      BY <2>1, <3>1, <3>4, Zenon
  <2> QED
    BY <2>3, <2>4, Zenon
<1>6. ASSUME NEW x \in Handle
      PROVE  x \in Range(lru'.list) <=> x \in heap' \ doomed' /\ inCache'[x] /\ refs'[x] = 1
  <2>1. CASE x \in S
    BY <2>1, Zenon
  <2>2. CASE x \notin S
    <3>1. /\ refs'[x] = refs[x] /\ inCache'[x] = inCache[x]
          /\ x \in heap' <=> x \in heap
          /\ x \in doomed' <=> x \in doomed
          /\ x \in Range(lru'.list) <=> x \in OnList
      BY <2>2, Zenon
    <3>2. x \in OnList <=> x \in heap \ doomed /\ inCache[x] /\ refs[x] = 1
      BY Zenon DEF IInv, RefsAreCounted
    <3> QED
      BY <3>1, <3>2, Zenon
  <2> QED
    BY <2>1, <2>2, Zenon
<1>7. Range(lru'.list) \in SUBSET Handle /\ IsInjective(lru'.list)
  BY SoundListFacts, Zenon DEF SoundList
<1>8. Range(lru'.list) = {x \in heap' \ doomed' : inCache'[x] /\ refs'[x] = 1}
  BY <1>1, <1>6, <1>7
<1> QED
  BY <1>2, <1>3, <1>4, <1>5, <1>7, <1>8, Zenon DEF RefsAreCounted, EntryOK, DoomedOK, OnList

\* The same for a step that touches one entry.
LEMMA OthersKept1 ==
  ASSUME IInv, alive, alive', TypeOK', SoundList(lru'), NEW e \in Handle,
         \A x \in Handle \ {e} : Kept(x), CountedOK(e)'
  PROVE  RefsAreCounted'
<1>1. \A x \in Handle \cap {e} : CountedOK(x)'
  BY Zenon
<1> QED
  BY <1>1, OthersKept, Zenon

\* What is known of an entry in use or in the cache.
LEMMA LiveFacts ==
  ASSUME IInv, NEW e \in heap \ doomed
  PROVE  /\ e \in Handle /\ e # None
         /\ held[e] \in Nat /\ refs[e] \in Int /\ refs[e] > 0 /\ inCache[e] \in BOOLEAN
         /\ refs[e] = held[e] + (IF inCache[e] THEN 1 ELSE 0)
         /\ inCache[e] => key[e] \in Key /\ table_[key[e]] = e
         /\ \A k \in Key : table_[k] = e => key[e] = k /\ inCache[e]
<1>1. e \in Handle /\ e # None
  BY ShardAssumption, Zenon DEF IInv, TypeOK
<1>2. /\ refs[e] = held[e] + (IF inCache[e] THEN 1 ELSE 0)
      /\ refs[e] > 0
      /\ inCache[e] <=> (key[e] \in Key /\ table_[key[e]] = e)
  BY Zenon DEF IInv, RefsAreCounted
<1>3. \A k \in Key : table_[k] = e => key[e] = k
  BY <1>1 DEF IInv, RefsAreCounted
<1>4. held[e] \in Nat /\ refs[e] \in Int /\ inCache[e] \in BOOLEAN
  BY <1>1 DEF IInv, TypeOK
<1> QED
  BY <1>1, <1>2, <1>3, <1>4

=============================================================================
