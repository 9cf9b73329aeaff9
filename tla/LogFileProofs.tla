--------------------------- MODULE LogFileProofs ----------------------------
(***************************************************************************)
(* For every block size, header size and size of records: the writer's     *)
(* state keeps its type, no physical record crosses a block, and the file   *)
(* holds the physical records that were written, each at its place; what    *)
(* the reader's buffer holds of it.                                         *)
(***************************************************************************)
EXTENDS WriteAheadLog, TLAPS

-----------------------------------------------------------------------------
(* Sequences.                                                              *)

\* Positions in sequences.
LEMMA Position == ASSUME NEW n, NEW i \in 1..n PROVE i \in Nat /\ i >= 1 /\ i <= n
OBVIOUS

LEMMA InLonger ==
  ASSUME NEW m \in Nat, NEW n \in Nat, m <= n, NEW i \in 1..m
  PROVE  i \in Nat /\ i \in 1..n
OBVIOUS

LEMMA ItemOfSeq == ASSUME NEW S, NEW s \in Seq(S), NEW i \in 1..Len(s) PROVE s[i] \in S
OBVIOUS

LEMMA NothingInEmpty == 1..Len(<<>>) = {}
OBVIOUS

LEMMA HasFirst == ASSUME NEW s, 1 \in 1..Len(s) PROVE s # <<>>
BY NothingInEmpty

\* A sequence of one item, and one with an item more.
LEMMA Singleton ==
  ASSUME NEW S, NEW x \in S
  PROVE  <<x>> \in Seq(S) /\ Len(<<x>>) = 1 /\ <<x>>[1] = x /\ <<x>> # <<>>
OBVIOUS

LEMMA ConcatType ==
  ASSUME NEW S, NEW s \in Seq(S), NEW t \in Seq(S)
  PROVE  s \o t \in Seq(S) /\ Len(s \o t) = Len(s) + Len(t)
OBVIOUS

LEMMA ConcatItems ==
  ASSUME NEW S, NEW s \in Seq(S), NEW t \in Seq(S)
  PROVE  /\ \A i \in 1..Len(s) : (s \o t)[i] = s[i]
         /\ \A i \in 1..Len(t) : (s \o t)[Len(s) + i] = t[i]
OBVIOUS

LEMMA PrefixItems ==
  ASSUME NEW S, NEW s \in Seq(S), NEW n \in 0..Len(s)
  PROVE  /\ SubSeq(s, 1, n) \in Seq(S) /\ Len(SubSeq(s, 1, n)) = n /\ n \in Nat /\ n <= Len(s)
         /\ \A i \in 1..n : SubSeq(s, 1, n)[i] = s[i] /\ i \in 1..Len(s)
OBVIOUS

LEMMA LengthIsNat == ASSUME NEW S, NEW s \in Seq(S) PROVE Len(s) \in Nat
OBVIOUS

LEMMA SumIsNat == ASSUME NEW a \in Nat, NEW b \in Nat PROVE a + b \in Nat
OBVIOUS

LEMMA SumAssoc == ASSUME NEW a \in Nat, NEW b \in Nat, NEW c \in Nat PROVE a + b + c = a + (b + c)
OBVIOUS

\* A position in the first or in the second part.
LEMMA TwoParts ==
  ASSUME NEW a \in Nat, NEW b \in Nat, NEW j \in 1..(a + b)
  PROVE  j \in 1..a \/ \E i \in 1..b : j = a + i
<1>1. ASSUME j \notin 1..a PROVE j - a \in 1..b /\ j = a + (j - a)
  BY <1>1
<1>. QED
  BY <1>1

LEMMA AppendNext ==
  ASSUME NEW S, NEW s \in Seq(S), NEW x \in S
  PROVE  /\ Append(s, x) \in Seq(S) /\ Len(s) \in Nat /\ Len(Append(s, x)) = Len(s) + 1
         /\ Append(s, x)[Len(s) + 1] = x /\ \A i \in 1..Len(s) : Append(s, x)[i] = s[i]
OBVIOUS

\* The bytes behind the first w bytes from x on, and the numbers of records that
\* follow each other.
LEMMA Behind ==
  ASSUME NEW x \in Nat, NEW w \in Nat
  PROVE  x + w + 1 - 1 = x + w /\ \A i \in Nat : i >= 1 => x + w < x + w + i
OBVIOUS

LEMMA InSuccession ==
  ASSUME NEW a \in Nat, NEW k \in Nat, NEW l \in Nat, k < l
  PROVE  a + k - 1 < a + l - 1
OBVIOUS

LEMMA NumberOf ==
  ASSUME NEW a \in Nat, NEW n \in Nat, NEW p \in a..(a + n - 1)
  PROVE  p - a + 1 \in 1..n /\ a + (p - a + 1) - 1 = p
OBVIOUS

\* The positions up to the one behind n.
LEMMA UpToNext == ASSUME NEW n \in Nat, NEW j \in 1..(n + 1) PROVE j \in 1..n \/ j = n + 1
OBVIOUS

-----------------------------------------------------------------------------
(* Bytes and blocks.                                                       *)

LEMMA RemainderAgain ==
  ASSUME NEW a \in Nat, NEW m \in Nat \ {0}
  PROVE  (a % m) % m = a % m
<1>1. PICK b : b = a % m
  BY Zenon
<1>2. b \in 0..(m - 1)
  BY <1>1
<1>3. b % m = b
  BY <1>2
<1>. QED
  BY <1>1, <1>3, Zenon

LEMMA Monotone ==
  ASSUME NEW a \in Nat, NEW b \in Nat, NEW c \in Nat, a <= b
  PROVE  a * c \in Nat /\ b * c \in Nat /\ a * c <= b * c
OBVIOUS

\* Between two places in the file at which blocks end there is a block.
LEMMA BlocksApart ==
  ASSUME NEW B \in Nat, NEW b \in Nat, NEW c \in Nat, b * B + B < c * B + B
  PROVE  b * B \in Nat /\ c * B \in Nat /\ b * B + B <= c * B
<1>1. PICK x, y : x = b * B /\ y = c * B
  BY Zenon
<1>2. x \in Nat /\ y \in Nat
  BY <1>1, Monotone
<1>3. ASSUME c <= b PROVE FALSE
  <2>1. y <= x
    BY <1>1, <1>3, Monotone
  <2>2. x + B < y + B
    BY <1>1
  <2>. QED
    BY <1>2, <2>1, <2>2
<1>4. b + 1 <= c /\ b + 1 \in Nat
  BY <1>3
<1>5. (b + 1) * B <= c * B
  BY <1>4, Monotone
<1>6. (b + 1) * B = b * B + B
  OBVIOUS
<1>. QED
  BY <1>1, <1>2, <1>5, <1>6

\* Of two physical records that reach the ends of their blocks (blocks b and c,
\* of w and v bytes from o and u on), what is behind the second is a block
\* behind the end of the first.
LEMMA BlockBetween ==
  ASSUME NEW B \in Nat, NEW b \in Nat, NEW c \in Nat, NEW o \in Nat, NEW u \in Nat,
         NEW w \in Nat, NEW v \in Nat, v >= 1, o + w = B, u + v = B,
         NEW h \in Nat, h < B, NEW l \in Nat,
         NEW p, NEW q, p = b * B + o, q = c * B + u, p + w <= q, q + v <= l
  PROVE  ~(l < p + w + h)
<1>1. PICK x, y : x = b * B /\ y = c * B
  BY Zenon
<1>2. x \in Nat /\ y \in Nat
  BY <1>1, Monotone
<1>3. x + B < y + B
  BY <1>1, <1>2
<1>4. x + B <= y
  BY <1>1, <1>3, BlocksApart
<1>. QED
  BY <1>1, <1>2, <1>4

\* What is w bytes from x on is not before itself, nor before what is behind it.
LEMMA OneBehindOther ==
  ASSUME NEW p \in Nat, NEW q \in Nat, NEW x \in Nat, NEW w \in Nat, NEW y \in Nat, NEW v \in Nat,
         w >= 1, v >= 1, x + w <= y, p = q => x = y, q < p => y + v <= x
  PROVE  p < q
OBVIOUS

\* The start of the block of i, or of the next one if less than a header is left.
LEMMA StartOfBlock ==
  ASSUME NEW i \in Nat, NEW B \in Nat \ {0}, NEW h \in Nat \ {0}, NEW r, r = i % B,
         NEW s, s = i - r + (IF r > B - (h - 1) THEN B ELSE 0)
  PROVE  s \in Nat /\ (s = 0 \/ s >= B) /\ s < i + h
<1>1. PICK k, x : k = i \div B /\ x = B * k
  BY Zenon
<1>2. r \in 0..(B - 1) /\ k \in Nat /\ i = x + r
  BY <1>1
<1>3. x \in Nat /\ (x = 0 \/ x >= B)
  <2>1. CASE k = 0
    BY <1>1, <2>1
  <2>2. CASE k >= 1
    <3>1. 1 * B <= k * B /\ k * B \in Nat
      BY <1>2, <2>2, Monotone
    <3>. QED
      BY <1>1, <1>2, <3>1
  <2>. QED
    BY <1>2, <2>1, <2>2
<1>. QED
  BY <1>2, <1>3

-----------------------------------------------------------------------------
(* The reader's buffer.                                                    *)

\* The places behind f, in order.
Follow(c, f) == \A i \in 1..Len(c) : c[i] = f + i

Rise(b) == \A i, j \in 1..Len(b) : i < j => b[i] < b[j]

NoGap(b) == \A i \in 1..Len(b) : b[i] = b[1] + i - 1

\* Places in a file of d bytes, none behind f.
Within(b, d, f) == \A i \in 1..Len(b) : b[i] \in 1..d /\ b[i] <= f

\* u is b without its first n items.
Rest(u, b, n) == \A i \in 1..Len(u) : i + n \in 1..Len(b) /\ u[i] = b[i + n]

\* u is b and, behind it, the places that follow f.
Longer(u, b, c, f) ==
  /\ u \in Seq(Nat) /\ Len(u) = Len(b) + Len(c)
  /\ \A i \in 1..Len(u) : \/ i \in 1..Len(b) /\ u[i] = b[i]
                          \/ \E k \in 1..Len(c) : i = Len(b) + k /\ u[i] = f + k

LEMMA FollowFacts ==
  ASSUME NEW c \in Seq(Nat), NEW f \in Nat, Follow(c, f)
  PROVE  /\ Len(c) \in Nat /\ Rise(c) /\ NoGap(c)
         /\ \A i \in 1..Len(c) : c[i] <= f + Len(c) /\ c[i] > f
         /\ c # <<>> => c[Len(c)] = f + Len(c) /\ c[1] = f + 1
<1>1. Len(c) \in Nat /\ \A i \in 1..Len(c) : i \in Nat /\ i <= Len(c) /\ i >= 1 /\ c[i] = f + i /\ 1 \in 1..Len(c)
  BY DEF Follow
<1>2. Rise(c)
  BY <1>1 DEF Rise
<1>3. NoGap(c)
  BY <1>1 DEF NoGap
<1>4. c # <<>> => Len(c) \in 1..Len(c) /\ 1 \in 1..Len(c)
  OBVIOUS
<1>. QED
  BY <1>1, <1>2, <1>3, <1>4

LEMMA ConcatLonger ==
  ASSUME NEW b \in Seq(Nat), NEW c \in Seq(Nat), NEW f \in Nat, Follow(c, f)
  PROVE  Longer(b \o c, b, c, f)
<1>1. PICK u : u = b \o c
  BY Zenon
<1>2. u \in Seq(Nat) /\ Len(u) = Len(b) + Len(c) /\ Len(b) \in Nat /\ Len(c) \in Nat
  BY <1>1
<1>3. ASSUME NEW i \in 1..Len(u), i \notin 1..Len(b)
      PROVE  \E k \in 1..Len(c) : i = Len(b) + k /\ u[i] = f + k
  <2>1. i - Len(b) \in 1..Len(c) /\ i = Len(b) + (i - Len(b))
    BY <1>2, <1>3
  <2>2. u[i] = c[i - Len(b)]
    BY <1>1, <1>2, <1>3
  <2>3. c[i - Len(b)] = f + (i - Len(b))
    BY <2>1, Zenon DEF Follow
  <2>. QED
    BY <2>1, <2>2, <2>3, Zenon
<1>4. ASSUME NEW i \in 1..Len(b) PROVE u[i] = b[i]
  BY <1>1, <1>2
<1>5. Longer(u, b, c, f)
  BY <1>2, <1>3, <1>4, Zenon DEF Longer
<1>. QED
  BY <1>1, <1>5, Zenon

LEMMA LongerWithin ==
  ASSUME NEW b \in Seq(Nat), NEW c \in Seq(Nat), NEW f \in Nat, NEW d, NEW u, Longer(u, b, c, f),
         Within(b, d, f), \A k \in 1..Len(c) : f + k \in 1..d
  PROVE  Within(u, d, f + Len(c))
<1>1. SUFFICES ASSUME NEW i \in 1..Len(u) PROVE u[i] \in 1..d /\ u[i] <= f + Len(c)
  BY DEF Within
<1>2. Len(c) \in Nat
  OBVIOUS
<1>3. CASE i \in 1..Len(b) /\ u[i] = b[i]
  <2>1. b[i] \in 1..d /\ b[i] <= f /\ b[i] \in Nat
    BY <1>3 DEF Within
  <2>. QED
    BY <1>2, <1>3, <2>1
<1>4. ASSUME NEW k \in 1..Len(c), u[i] = f + k PROVE u[i] \in 1..d /\ u[i] <= f + Len(c)
  BY <1>2, <1>4
<1>. QED
  BY <1>3, <1>4 DEF Longer

LEMMA LongerRises ==
  ASSUME NEW b \in Seq(Nat), NEW c \in Seq(Nat), NEW f \in Nat, NEW u, Longer(u, b, c, f),
         \A i \in 1..Len(b) : b[i] <= f, Rise(b)
  PROVE  Rise(u)
<1>1. SUFFICES ASSUME NEW i \in 1..Len(u), NEW j \in 1..Len(u), i < j PROVE u[i] < u[j]
  BY DEF Rise
<1>2. Len(b) \in Nat /\ Len(c) \in Nat
  OBVIOUS
<1>3. CASE i \in 1..Len(b) /\ u[i] = b[i]
  <2>0. b[i] \in Nat /\ b[i] <= f
    BY <1>3
  <2>1. CASE j \in 1..Len(b) /\ u[j] = b[j]
    BY <1>1, <1>3, <2>1, Zenon DEF Rise
  <2>2. ASSUME NEW k \in 1..Len(c), u[j] = f + k PROVE u[i] < u[j]
    <3>1. u[i] <= f /\ u[i] \in Nat
      BY <1>3, <2>0, Zenon
    <3>. QED
      BY <2>2, <3>1
  <2>. QED
    BY <2>1, <2>2 DEF Longer
<1>4. ASSUME NEW k \in 1..Len(c), i = Len(b) + k, u[i] = f + k PROVE u[i] < u[j]
  <2>1. j \notin 1..Len(b)
    BY <1>1, <1>2, <1>4
  <2>2. PICK l \in 1..Len(c) : j = Len(b) + l /\ u[j] = f + l
    BY <2>1 DEF Longer
  <2>. QED
    BY <1>1, <1>2, <1>4, <2>2
<1>. QED
  BY <1>3, <1>4 DEF Longer

LEMMA LongerHasNoGap ==
  ASSUME NEW b \in Seq(Nat), NEW c \in Seq(Nat), NEW f \in Nat, Follow(c, f),
         NoGap(b), b # <<>> => b[Len(b)] = f
  PROVE  NoGap(b \o c) /\ (b \o c # <<>> => (b \o c)[Len(b \o c)] = f + Len(c))
<1>1. PICK u : u = b \o c
  BY Zenon
<1>2. Len(b) \in Nat /\ Len(c) \in Nat /\ Longer(u, b, c, f) /\ u \in Seq(Nat) /\ Len(u) = Len(b) + Len(c)
  BY <1>1, ConcatLonger
<1>3. CASE b = <<>>
  <2>1. u = c
    BY <1>1, <1>3
  <2>. QED
    BY <1>1, <2>1, FollowFacts
<1>4. CASE b # <<>>
  <2>1. PICK a, l, m : a = b[1] /\ l = Len(b) /\ m = Len(c)
    BY Zenon
  <2>2. a \in Nat /\ l \in Nat /\ m \in Nat /\ 1 \in 1..Len(b) /\ Len(b) \in 1..Len(b)
        /\ Len(u) \in 1..Len(u) /\ 1 \in 1..Len(u)
    BY <1>2, <1>4, <2>1
  <2>3. f = a + l - 1
    BY <1>4, <2>1, <2>2, Zenon DEF NoGap
  <2>4. ASSUME NEW i \in 1..Len(u) PROVE u[i] = a + i - 1
    <3>1. CASE i \in 1..Len(b) /\ u[i] = b[i]
      BY <2>1, <3>1, Zenon DEF NoGap
    <3>2. ASSUME NEW k \in 1..m, i = l + k, u[i] = f + k PROVE u[i] = a + i - 1
      BY <2>2, <2>3, <3>2
    <3>. QED
      BY <1>2, <2>1, <3>1, <3>2 DEF Longer
  <2>5. u[1] = a
    BY <2>2, <2>4
  <2>6. u[Len(u)] = f + m
    <3>1. u[l + m] = a + (l + m) - 1
      BY <1>2, <2>1, <2>2, <2>4, Zenon
    <3>2. a + (l + m) - 1 = f + m
      BY <2>2, <2>3
    <3>. QED
      BY <1>2, <2>1, <3>1, <3>2, Zenon
  <2>. QED
    BY <1>1, <2>1, <2>4, <2>5, <2>6, Zenon DEF NoGap
<1>. QED
  BY <1>3, <1>4, Zenon

\* The places from the one behind the first n on.
LEMMA Taken ==
  ASSUME NEW S, NEW b \in Seq(S), NEW n \in Nat, n <= Len(b)
  PROVE  /\ SubSeq(b, n + 1, Len(b)) \in Seq(S)
         /\ Len(SubSeq(b, n + 1, Len(b))) = Len(b) - n
         /\ Rest(SubSeq(b, n + 1, Len(b)), b, n)
<1>1. Len(b) \in Nat /\ Len(SubSeq(b, n + 1, Len(b))) = Len(b) - n
  OBVIOUS
<1>2. SubSeq(b, n + 1, Len(b)) \in Seq(S)
  OBVIOUS
<1>3. ASSUME NEW i \in 1..(Len(b) - n)
      PROVE  i + n \in 1..Len(b) /\ SubSeq(b, n + 1, Len(b))[i] = b[i + n]
  <2>1. i + n \in 1..Len(b) /\ n + 1 + i - 1 = i + n
    BY <1>1
  <2>2. i \in 1..Len(SubSeq(b, n + 1, Len(b)))
    BY <1>1
  <2>3. SubSeq(b, n + 1, Len(b))[i] = b[n + 1 + i - 1]
    BY <1>1, <2>1, <2>2
  <2>. QED
    BY <2>1, <2>3
<1>. QED
  BY <1>1, <1>2, <1>3, Zenon DEF Rest

LEMMA TakenRises ==
  ASSUME NEW b \in Seq(Nat), NEW u \in Seq(Nat), NEW n \in Nat, Rest(u, b, n), Rise(b)
  PROVE  Rise(u)
<1>1. SUFFICES ASSUME NEW i \in 1..Len(u), NEW j \in 1..Len(u), i < j PROVE u[i] < u[j]
  BY DEF Rise
<1>2. i + n < j + n
  BY <1>1
<1>. QED
  BY <1>2, Zenon DEF Rest, Rise

LEMMA TakenHasNoGap ==
  ASSUME NEW b \in Seq(Nat), NEW u \in Seq(Nat), NEW n \in Nat, Len(u) = Len(b) - n, Rest(u, b, n),
         NoGap(b)
  PROVE  NoGap(u) /\ (u # <<>> => b # <<>> /\ u[Len(u)] = b[Len(b)])
<1>0. Len(u) \in Nat /\ Len(b) \in Nat /\ Len(u) + n = Len(b)
  OBVIOUS
<1>1. ASSUME NEW i \in 1..Len(u) PROVE u[i] = u[1] + i - 1
  <2>1. 1 \in 1..Len(u) /\ 1 \in 1..Len(b) /\ b[1] \in Nat
    BY <1>0
  <2>2. u[i] = b[i + n] /\ u[1] = b[1 + n] /\ i + n \in 1..Len(b) /\ 1 + n \in 1..Len(b)
    BY <2>1, Zenon DEF Rest
  <2>3. b[i + n] = b[1] + (i + n) - 1 /\ b[1 + n] = b[1] + (1 + n) - 1
    BY <2>2, Zenon DEF NoGap
  <2>. QED
    BY <2>1, <2>2, <2>3
<1>2. ASSUME u # <<>> PROVE b # <<>> /\ u[Len(u)] = b[Len(b)]
  <2>1. Len(u) \in 1..Len(u) /\ b # <<>>
    BY <1>0, <1>2
  <2>. QED
    BY <1>0, <2>1, Zenon DEF Rest
<1>. QED
  BY <1>1, <1>2, Zenon DEF NoGap

-----------------------------------------------------------------------------
(* What the writer keeps.                                                  *)

Cell == Int \X Int

Record == [rec : Nat, type : Type, len : Nat, log : Nat, block : Nat, offset : Nat]

\* The inductive invariant.  Nothing is under way once the writer is gone, so a
\* writer that reuses the file starts with nothing before its first record, and
\* bytes are written at or before the end of the file, never beyond it.
WriterInv ==
  /\ WriterTypeOK
  /\ BlocksAreKept
  /\ writer = "gone" => pending = <<>>
  /\ dpos <= Len(disk)

-----------------------------------------------------------------------------
(* Arithmetic of one round of AddRecord's loop.                            *)

\* A header fits into a block.
LEMMA HeaderFits == HeaderLen(Recycle) \in 1..(BlockSize - 1)
BY FormatAssumption DEF HeaderLen

\* What a round adds to a block b lies behind what ended before its start.
LEMMA FitsBehind ==
  ASSUME NEW b \in Nat, NEW s \in Nat, NEW h \in Nat, NEW f \in Nat
  PROVE  /\ (b + s) + (h + f) <= b + (s + h + f)
         /\ \A e, t \in Nat : e <= t /\ b + s >= t => e <= b + (s + h + f)
OBVIOUS

\* Where a round starts there is room for a header, and the fragment it cuts off
\* fills at most what is left.
LEMMA RoundFits ==
  ASSUME WriterTypeOK
  PROVE  /\ leftover \in 0..BlockSize
         /\ Start \in 0..BlockSize
         /\ fragment_length \in Nat
         /\ fragment_length <= slice.left
         /\ Start + HeaderLen(Recycle) + fragment_length <= BlockSize
         /\ NewBlock => Start = 0
         /\ ~NewBlock => Start = block_offset_
<1>1. BlockSize \in Nat /\ block_offset_ \in 0..BlockSize /\ slice.left \in Nat
  BY FormatAssumption DEF WriterTypeOK
<1>2. HeaderLen(Recycle) \in 1..(BlockSize - 1)
  BY HeaderFits
<1>3. leftover \in 0..BlockSize /\ leftover = BlockSize - block_offset_
  BY <1>1 DEF leftover
<1>4. /\ Start \in 0..BlockSize
      /\ Start + HeaderLen(Recycle) <= BlockSize
      /\ NewBlock => Start = 0
      /\ ~NewBlock => Start = block_offset_
  BY <1>1, <1>2, <1>3 DEF Start, NewBlock
<1>5. avail \in Nat /\ avail = BlockSize - Start - HeaderLen(Recycle)
  BY <1>1, <1>2, <1>4 DEF avail
<1>6. fragment_length \in Nat /\ fragment_length <= slice.left /\ fragment_length <= avail
  BY <1>1, <1>5 DEF fragment_length
<1>. QED
  BY <1>1, <1>2, <1>3, <1>4, <1>5, <1>6

\* The bytes of a round: a trailer up to the end of the block if there is no room
\* for a header, and the physical record.
LEMMA RoundBytes ==
  ASSUME WriterTypeOK
  PROVE  /\ Trailer \in Seq(Cell)
         /\ Len(Trailer) = IF NewBlock THEN leftover ELSE 0
         /\ CellsOf(Len(phys) + 1, fragment_length) \in Seq(Cell)
         /\ Len(CellsOf(Len(phys) + 1, fragment_length)) = HeaderLen(Recycle) + fragment_length
<1>1. leftover \in Nat /\ fragment_length \in Nat
  BY RoundFits
<1>2. HeaderLen(Recycle) \in Nat
  BY HeaderFits
<1>3. Len(phys) \in Nat
  BY DEF WriterTypeOK
<1>4. [i \in 1..leftover |-> Zero] \in Seq(Cell) /\ Len([i \in 1..leftover |-> Zero]) = leftover
  BY <1>1 DEF Zero, Cell
<1>5. <<>> \in Seq(Cell) /\ Len(<<>>) = 0
  OBVIOUS
<1>6. Trailer \in Seq(Cell) /\ Len(Trailer) = IF NewBlock THEN leftover ELSE 0
  <2>1. CASE NewBlock
    <3>1. Trailer = [i \in 1..leftover |-> Zero]
      BY <2>1 DEF Trailer
    <3>. QED
      BY <2>1, <3>1, <1>4, Zenon
  <2>2. CASE ~NewBlock
    <3>1. Trailer = <<>>
      BY <2>2 DEF Trailer
    <3>. QED
      BY <2>2, <3>1, <1>5
  <2>. QED
    BY <2>1, <2>2
<1>7. CellsOf(Len(phys) + 1, fragment_length)
        = [i \in 1..(HeaderLen(Recycle) + fragment_length) |-> <<Len(phys) + 1, i>>]
  BY DEF CellsOf
<1>8. HeaderLen(Recycle) + fragment_length \in Nat
  BY <1>1, <1>2
<1>9. /\ CellsOf(Len(phys) + 1, fragment_length) \in Seq(Cell)
      /\ Len(CellsOf(Len(phys) + 1, fragment_length)) = HeaderLen(Recycle) + fragment_length
  BY <1>3, <1>7, <1>8 DEF Cell
<1>. QED
  BY <1>6, <1>9

\* The header that is written has the type of one.
LEMMA PhysicalType ==
  ASSUME WriterTypeOK
  PROVE  /\ Physical \in Record
         /\ Physical.offset = Start /\ Physical.len = fragment_length
         /\ Physical.block = IF NewBlock THEN block + 1 ELSE block
<1>1. Start \in Nat /\ fragment_length \in Nat
  BY RoundFits, FormatAssumption
<1>2. slice.rec \in Nat /\ block \in Nat /\ log \in 1..Len(LogNumber)
  BY DEF WriterTypeOK
<1>3. log_number_ \in Nat
  BY <1>2, WriterAssumption DEF log_number_
<1>4. log_number_ % LogNumWidth \in Nat
  BY <1>3, WriterAssumption
<1>5. RecordType \in Type
  BY DEF RecordType, Type
<1>. QED
  BY <1>1, <1>2, <1>4, <1>5 DEF Physical, Record

\* Writing bytes into the file keeps it a sequence of bytes, which extends at
\* least to the last byte written.
LEMMA OverwrittenType ==
  ASSUME WriterTypeOK, dpos <= Len(disk), NEW cells \in Seq(Cell)
  PROVE  /\ Overwritten(dpos, cells) \in Seq(Cell)
         /\ dpos + Len(cells) <= Len(Overwritten(dpos, cells))
<1>1. disk \in Seq(Cell) /\ dpos \in Nat
  BY DEF WriterTypeOK, Cell
<1>2. DEFINE n == IF dpos + Len(cells) > Len(disk) THEN dpos + Len(cells) ELSE Len(disk)
             c(i) == IF i > dpos /\ i <= dpos + Len(cells) THEN cells[i - dpos] ELSE disk[i]
<1>3. Len(cells) \in Nat /\ Len(disk) \in Nat /\ n \in Nat
  BY <1>1
<1>4. Overwritten(dpos, cells) = [i \in 1..n |-> c(i)]
  BY DEF Overwritten
<1>5. ASSUME NEW i \in 1..n
      PROVE  c(i) \in Cell
  <2>1. CASE i > dpos /\ i <= dpos + Len(cells)
    <3>1. i - dpos \in 1..Len(cells)
      BY <1>1, <1>3, <2>1
    <3>. QED
      BY <3>1, <2>1
  <2>2. CASE ~(i > dpos /\ i <= dpos + Len(cells))
    <3>1. i \in Nat /\ i >= 1 /\ i <= n /\ (i <= dpos \/ i > dpos + Len(cells))
      BY <1>1, <1>3, <2>2
    <3>2. i <= Len(disk)
      BY <1>1, <1>3, <3>1
    <3>3. i \in 1..Len(disk)
      BY <1>3, <3>1, <3>2
    <3>. QED
      BY <3>3, <1>1, <2>2
  <2>. QED
    BY <2>1, <2>2
<1>. HIDE DEF n, c
<1>6. [i \in 1..n |-> c(i)] \in Seq(Cell) /\ Len([i \in 1..n |-> c(i)]) = n
  BY <1>3, <1>5
<1>7. dpos + Len(cells) <= n
  BY <1>1, <1>3 DEF n
<1>. QED
  BY <1>4, <1>6, <1>7, Zenon

-----------------------------------------------------------------------------
(* One step per action that touches the writer or the file.                *)

LEMMA WriterInvSame ==
  ASSUME WriterInv, UNCHANGED <<fileVars, writerVars>>
  PROVE  WriterInv'
BY DEF WriterInv, WriterTypeOK, BlocksAreKept, fileVars, writerVars

LEMMA RecordCountType ==
  ASSUME WriterTypeOK
  PROVE  RecordCount \in Nat
<1>1. phys \in Seq(Record)
  BY DEF WriterTypeOK, Record
<1>2. CASE phys = <<>>
  BY <1>2 DEF RecordCount
<1>3. CASE phys # <<>>
  <2>1. Len(phys) \in 1..Len(phys)
    BY <1>1, <1>3
  <2>2. phys[Len(phys)] \in Record
    BY <1>1, <2>1
  <2>. QED
    BY <1>3, <2>2 DEF RecordCount, Record
<1>. QED
  BY <1>2, <1>3

LEMMA AddRecordKeeps ==
  ASSUME WriterInv, NEW size \in Size, AddRecord(size)
  PROVE  WriterInv'
<1>1. RecordCount + 1 \in Nat /\ size \in Nat
  BY RecordCountType, WriterAssumption DEF WriterInv
<1>2. slice' \in [rec : Nat, left : Nat, begin : BOOLEAN]
  BY <1>1 DEF AddRecord
<1>3. writer = "idle" /\ writer' = "adding"
  BY DEF AddRecord
<1>4. UNCHANGED <<disk, dpos, pending, phys, block_offset_, log, added, block, base>>
  BY DEF AddRecord, fileVars
<1>. QED
  BY <1>2, <1>3, <1>4 DEF WriterInv, WriterTypeOK, BlocksAreKept

\* The round whose bytes are all written
LEMMA EmitKeeps ==
  ASSUME WriterInv, EmitPhysicalRecord
  PROVE  WriterInv'
<1>. DEFINE cells == CellsOf(Len(phys) + 1, fragment_length)
<1>1. WriterTypeOK /\ BlocksAreKept /\ writer = "adding"
  BY DEF WriterInv, EmitPhysicalRecord
<1>2. /\ leftover \in 0..BlockSize /\ Start \in 0..BlockSize
      /\ fragment_length \in Nat /\ fragment_length <= slice.left
      /\ Start + HeaderLen(Recycle) + fragment_length <= BlockSize
      /\ NewBlock => Start = 0
      /\ ~NewBlock => Start = block_offset_
  BY <1>1, RoundFits
<1>3. /\ Trailer \in Seq(Cell) /\ Len(Trailer) = IF NewBlock THEN leftover ELSE 0
      /\ cells \in Seq(Cell) /\ Len(cells) = HeaderLen(Recycle) + fragment_length
  BY <1>1, RoundBytes
<1>4. /\ Physical \in Record /\ Physical.offset = Start /\ Physical.len = fragment_length
      /\ Physical.block = IF NewBlock THEN block + 1 ELSE block
  BY <1>1, PhysicalType
<1>5. HeaderLen(Recycle) \in Nat /\ BlockSize \in Nat
  BY HeaderFits, FormatAssumption
<1>0. UNCHANGED <<HeaderLen(Recycle), BlockSize>>
  BY DEF HeaderLen
<1>6. /\ phys' = Append(phys, Physical)
      /\ pending' = pending \o Trailer \o cells
      /\ block_offset_' = Start + HeaderLen(Recycle) + fragment_length
      /\ block' = Physical.block
      /\ UNCHANGED <<disk, dpos, log, base>>
  BY DEF EmitPhysicalRecord
<1>7. /\ slice' \in [rec : Nat, left : Nat, begin : BOOLEAN]
      /\ writer' \in {"idle", "adding"}
      /\ added' \in Seq(Nat)
  <2>1. slice \in [rec : Nat, left : Nat, begin : BOOLEAN] /\ added \in Seq(Nat)
    BY <1>1 DEF WriterTypeOK
  <2>2. CASE end
    <3>1. slice' = NoSlice /\ writer' = "idle" /\ added' = Append(added, slice.rec)
      BY <2>2 DEF EmitPhysicalRecord
    <3>. QED
      BY <2>1, <3>1 DEF NoSlice
  <2>3. CASE ~end
    <3>1. /\ slice' = [slice EXCEPT !.left = @ - fragment_length, !.begin = FALSE]
          /\ writer' = writer /\ added' = added
      BY <2>3 DEF EmitPhysicalRecord
    <3>2. slice.left - fragment_length \in Nat
      BY <1>2, <2>1
    <3>. QED
      BY <1>1, <2>1, <3>1, <3>2, Zenon
  <2>. QED
    BY <2>2, <2>3
<1>. HIDE DEF cells
<1>8. /\ pending \in Seq(Cell) /\ pending' \in Seq(Cell)
      /\ Len(pending') = Len(pending) + Len(Trailer) + Len(cells)
  <2>1. pending \in Seq(Cell)
    BY <1>1 DEF WriterTypeOK, Cell
  <2>2. /\ pending \o Trailer \in Seq(Cell)
        /\ Len(pending \o Trailer) = Len(pending) + Len(Trailer)
    BY <1>3, <2>1
  <2>3. pending' = (pending \o Trailer) \o cells
    BY <1>6
  <2>4. /\ pending' \in Seq(Cell)
        /\ Len(pending') = Len(pending \o Trailer) + Len(cells)
    BY <1>3, <2>2, <2>3, ConcatType, Zenon
  <2>. QED
    BY <2>1, <2>2, <2>4
<1>9. phys \in Seq(Record) /\ phys' \in Seq(Record)
  BY <1>1, <1>4, <1>6 DEF WriterTypeOK, Record
<1>10. block_offset_' \in 0..BlockSize /\ block' \in Nat
  <2>1. block_offset_' \in 0..BlockSize
    BY <1>2, <1>5, <1>6
  <2>2. block \in Nat
    BY <1>1 DEF WriterTypeOK
  <2>3. block' \in Nat
    BY <1>4, <1>6, <2>2
  <2>. QED
    BY <2>1, <2>3
<1>11. WriterTypeOK'
  BY <1>1, <1>5, <1>6, <1>7, <1>8, <1>9, <1>10 DEF WriterTypeOK, Record, Cell
<1>12. \A p \in 1..Len(phys') : phys'[p].offset + HeaderLen(Recycle) + phys'[p].len <= BlockSize
  <2>1. SUFFICES ASSUME NEW p \in 1..Len(phys')
                 PROVE  phys'[p].offset + HeaderLen(Recycle) + phys'[p].len <= BlockSize
    OBVIOUS
  <2>2. CASE p \in 1..Len(phys)
    <3>1. phys'[p] = phys[p]
      BY <1>6, <1>9, <2>2
    <3>. QED
      BY <1>1, <2>2, <3>1 DEF BlocksAreKept
  <2>3. CASE p = Len(phys) + 1
    <3>1. phys'[p] = Physical
      BY <1>6, <1>9, <2>3
    <3>. QED
      BY <1>2, <1>4, <3>1
  <2>. QED
    BY <1>6, <1>9, <2>2, <2>3
<1>13. dpos' + Len(pending') = block' * BlockSize + block_offset_'
  <2>. DEFINE before == block * BlockSize
              after == block' * BlockSize
              size == HeaderLen(Recycle) + fragment_length
  <2>1. dpos + Len(pending) = before + block_offset_
    BY <1>1 DEF BlocksAreKept
  <2>2. /\ dpos \in Nat /\ Len(pending) \in Nat /\ block \in Nat /\ block_offset_ \in Nat
        /\ before \in Nat
    BY <1>1, <1>5, <1>8 DEF WriterTypeOK
  <2>0. size \in Nat
    BY <1>2, <1>5
  <2>3. CASE NewBlock
    <3>1. Len(pending') = Len(pending) + (BlockSize - block_offset_) + size
      BY <1>2, <1>3, <1>5, <1>8, <2>2, <2>3 DEF leftover
    <3>2. after = before + BlockSize
      BY <1>4, <1>5, <1>6, <2>2, <2>3
    <3>3. block_offset_' = size /\ dpos' = dpos
      BY <1>2, <1>5, <1>6, <2>3
    <3>. HIDE DEF before, after, size
    <3>4. dpos' + Len(pending') = after + block_offset_'
      BY <1>5, <2>0, <2>1, <2>2, <3>1, <3>2, <3>3
    <3>. QED
      BY <3>4 DEF after
  <2>4. CASE ~NewBlock
    <3>1. Len(pending') = Len(pending) + size
      BY <1>2, <1>3, <1>5, <1>8, <2>2, <2>4
    <3>2. after = before
      BY <1>4, <1>6, <2>4
    <3>3. block_offset_' = block_offset_ + size /\ dpos' = dpos
      BY <1>2, <1>5, <1>6, <2>4
    <3>. HIDE DEF before, after, size
    <3>4. dpos' + Len(pending') = after + block_offset_'
      BY <1>5, <2>0, <2>1, <2>2, <3>1, <3>2, <3>3
    <3>. QED
      BY <3>4 DEF after
  <2>. QED
    BY <2>3, <2>4
<1>. QED
  BY <1>0, <1>5, <1>6, <1>7, <1>11, <1>12, <1>13, Zenon DEF WriterInv, BlocksAreKept

\* The round that fails after k bytes: the writer no longer knows where it is, and
\* writes no more.
LEMMA EmitFailsKeeps ==
  ASSUME WriterInv, NEW k \in Nat, EmitFails(k)
  PROVE  WriterInv'
<1>. DEFINE cells == Trailer \o CellsOf(Len(phys) + 1, fragment_length)
<1>1. WriterTypeOK /\ BlocksAreKept
  BY DEF WriterInv
<1>2. /\ fragment_length \in Nat /\ Start \in 0..BlockSize
      /\ Start + HeaderLen(Recycle) + fragment_length <= BlockSize
  BY <1>1, RoundFits
<1>3. cells \in Seq(Cell)
  BY <1>1, RoundBytes
<1>4. /\ Physical \in Record /\ Physical.offset = Start /\ Physical.len = fragment_length
      /\ Physical.block \in Nat
  BY <1>1, PhysicalType DEF Record
<1>5. HeaderLen(Recycle) \in Nat /\ BlockSize \in Nat
  BY HeaderFits, FormatAssumption
<1>0. UNCHANGED <<HeaderLen(Recycle), BlockSize>>
  BY DEF HeaderLen
<1>6. /\ k \in 0..Len(cells)
      /\ phys' = Append(phys, Physical)
      /\ pending' = pending \o SubSeq(cells, 1, k)
      /\ block_offset_' = Start + HeaderLen(Recycle) + fragment_length
      /\ block' = Physical.block
      /\ slice' = NoSlice
      /\ writer' = "failed"
      /\ UNCHANGED <<disk, dpos, log, added, base>>
  BY DEF EmitFails
<1>. HIDE DEF cells
<1>7. SubSeq(cells, 1, k) \in Seq(Cell)
  BY <1>3, <1>6
<1>8. pending' \in Seq(Cell)
  BY <1>1, <1>6, <1>7 DEF WriterTypeOK, Cell
<1>9. phys \in Seq(Record) /\ phys' \in Seq(Record)
  BY <1>1, <1>4, <1>6 DEF WriterTypeOK, Record
<1>10. block_offset_' \in 0..BlockSize
  BY <1>2, <1>5, <1>6
<1>11. slice' \in [rec : Nat, left : Nat, begin : BOOLEAN]
  BY <1>6 DEF NoSlice
<1>12. WriterTypeOK'
  BY <1>1, <1>4, <1>5, <1>6, <1>8, <1>9, <1>10, <1>11, Zenon DEF WriterTypeOK, Record, Cell
<1>13. \A p \in 1..Len(phys') : phys'[p].offset + HeaderLen(Recycle) + phys'[p].len <= BlockSize
  <2>1. SUFFICES ASSUME NEW p \in 1..Len(phys')
                 PROVE  phys'[p].offset + HeaderLen(Recycle) + phys'[p].len <= BlockSize
    OBVIOUS
  <2>2. CASE p \in 1..Len(phys)
    <3>1. phys'[p] = phys[p]
      BY <1>6, <1>9, <2>2
    <3>. QED
      BY <1>1, <2>2, <3>1 DEF BlocksAreKept
  <2>3. CASE p = Len(phys) + 1
    <3>1. phys'[p] = Physical
      BY <1>6, <1>9, <2>3
    <3>. QED
      BY <1>2, <1>4, <3>1
  <2>. QED
    BY <1>6, <1>9, <2>2, <2>3
<1>. QED
  BY <1>0, <1>5, <1>6, <1>12, <1>13 DEF WriterInv, BlocksAreKept

LEMMA CrashKeeps ==
  ASSUME WriterInv, NEW n \in Nat, Crash(n)
  PROVE  WriterInv'
<1>1. WriterTypeOK /\ BlocksAreKept
  BY DEF WriterInv
<1>2. /\ n \in 0..Len(pending)
      /\ disk' = Overwritten(dpos, SubSeq(pending, 1, n))
      /\ dpos' = dpos + n
      /\ pending' = <<>> /\ slice' = NoSlice /\ writer' = "gone"
      /\ UNCHANGED <<phys, block_offset_, log, added, block, base>>
  BY DEF Crash
<1>3. SubSeq(pending, 1, n) \in Seq(Cell)
  <2>1. pending \in Seq(Cell)
    BY <1>1, Zenon DEF WriterTypeOK, Cell
  <2>. QED
    BY <1>2, <2>1, PrefixItems, Zenon
<1>4. disk' \in Seq(Cell) /\ dpos' <= Len(disk')
  <2>1. dpos <= Len(disk)
    BY DEF WriterInv
  <2>2. Len(SubSeq(pending, 1, n)) = n
    BY <1>1, <1>2 DEF WriterTypeOK
  <2>. QED
    BY <1>1, <1>2, <1>3, <2>1, <2>2, OverwrittenType, Zenon
<1>5. slice' \in [rec : Nat, left : Nat, begin : BOOLEAN]
  BY <1>2 DEF NoSlice
<1>6. dpos' \in Nat /\ pending' \in Seq(Cell)
  BY <1>1, <1>2 DEF WriterTypeOK
<1>7. UNCHANGED <<HeaderLen(Recycle), BlockSize>>
  BY DEF HeaderLen
<1>. QED
  BY <1>1, <1>2, <1>4, <1>5, <1>6, <1>7 DEF WriterInv, WriterTypeOK, BlocksAreKept, Cell

LEMMA DeliverKeeps ==
  ASSUME WriterInv, NEW n \in Nat, Deliver(n), UNCHANGED writerVars
  PROVE  WriterInv'
<1>1. WriterTypeOK /\ BlocksAreKept
  BY DEF WriterInv
<1>2. /\ n \in 1..Len(pending)
      /\ disk' = Overwritten(dpos, SubSeq(pending, 1, n))
      /\ dpos' = dpos + n
      /\ pending' = SubSeq(pending, n + 1, Len(pending))
      /\ UNCHANGED phys
      /\ UNCHANGED <<block_offset_, log, slice, writer, added, block, base>>
  BY DEF Deliver, writerVars
<1>3. pending \in Seq(Cell) /\ SubSeq(pending, 1, n) \in Seq(Cell)
  <2>1. pending \in Seq(Cell)
    BY <1>1 DEF WriterTypeOK, Cell
  <2>. QED
    BY <1>2, <2>1
<1>4. disk' \in Seq(Cell) /\ dpos' <= Len(disk')
  <2>1. dpos <= Len(disk)
    BY DEF WriterInv
  <2>2. Len(SubSeq(pending, 1, n)) = n
    BY <1>2, <1>3
  <2>. QED
    BY <1>1, <1>2, <1>3, <2>1, <2>2, OverwrittenType, Zenon
<1>5. pending' \in Seq(Cell) /\ Len(pending') = Len(pending) - n
  BY <1>2, <1>3
<1>6. dpos' \in Nat /\ dpos' + Len(pending') = dpos + Len(pending)
  <2>1. dpos \in Nat /\ Len(pending) \in Nat
    BY <1>1, <1>3 DEF WriterTypeOK
  <2>2. n \in Nat /\ dpos' = dpos + n
    BY <1>2
  <2>. QED
    BY <1>5, <2>1, <2>2
<1>7. writer # "gone"
  BY <1>2, <1>3 DEF WriterInv
<1>8. UNCHANGED <<HeaderLen(Recycle), BlockSize>>
  BY Zenon DEF HeaderLen
<1>. QED
  BY <1>1, <1>2, <1>4, <1>5, <1>6, <1>7, <1>8, Zenon DEF WriterInv, WriterTypeOK, BlocksAreKept, Cell

LEMMA ReuseKeeps ==
  ASSUME WriterInv, Reuse
  PROVE  WriterInv'
<1>1. WriterTypeOK /\ BlocksAreKept /\ pending = <<>>
  BY DEF WriterInv, Reuse
<1>2. /\ log' = log + 1 /\ log < Len(LogNumber) /\ writer' = "idle" /\ dpos' = 0
      /\ block_offset_' = 0 /\ block' = 0 /\ added' = <<>> /\ base' = RecordCount
      /\ UNCHANGED <<disk, pending, phys, slice>>
  BY DEF Reuse
<1>3. RecordCount \in Nat
  BY <1>1, RecordCountType
<1>4. log' \in 1..Len(LogNumber) /\ block_offset_' \in 0..BlockSize
  BY <1>1, <1>2, WriterAssumption, FormatAssumption DEF WriterTypeOK
<1>5. dpos' + Len(pending') = block' * BlockSize + block_offset_'
  BY <1>1, <1>2, FormatAssumption
<1>6. UNCHANGED <<HeaderLen(Recycle), BlockSize>>
  BY DEF HeaderLen
<1>7. dpos' <= Len(disk')
  BY <1>1, <1>2 DEF WriterTypeOK
<1>. QED
  BY <1>1, <1>2, <1>3, <1>4, <1>5, <1>6, <1>7 DEF WriterInv, WriterTypeOK, BlocksAreKept

LEMMA RotKeeps ==
  ASSUME WriterInv, Rot
  PROVE  WriterInv'
<1>1. WriterTypeOK /\ BlocksAreKept
  BY DEF WriterInv
<1>2. UNCHANGED <<dpos, pending, phys, block_offset_, log, slice, writer, added, block, base>>
  BY DEF Rot, writerVars
<1>3. PICK i \in 1..Len(disk) : disk' = [disk EXCEPT ![i] = Broken]
  BY Zenon DEF Rot
<1>4. disk' \in Seq(Cell) /\ Len(disk') = Len(disk)
  <2>1. disk \in Seq(Cell)
    BY <1>1 DEF WriterTypeOK, Cell
  <2>2. Broken \in Cell
    BY DEF Broken, Cell
  <2>3. /\ [disk EXCEPT ![i] = Broken] \in Seq(Cell)
        /\ Len([disk EXCEPT ![i] = Broken]) = Len(disk)
    BY <1>3, <2>1, <2>2
  <2>. QED
    BY <1>3, <2>3
<1>5. UNCHANGED <<HeaderLen(Recycle), BlockSize>>
  BY DEF HeaderLen
<1>. QED
  BY <1>1, <1>2, <1>4, <1>5 DEF WriterInv, WriterTypeOK, BlocksAreKept, Cell

LEMMA InitWriterInv == Init => WriterInv
<1>1. SUFFICES ASSUME Init PROVE WriterInv
  OBVIOUS
<1>2. Len(LogNumber) \in Nat \ {0}
  BY WriterAssumption
<1>. QED
  BY <1>1, <1>2, FormatAssumption
  DEF Init, WriterInit, WriterInv, WriterTypeOK, BlocksAreKept, NoSlice

LEMMA NextWriterInv == WriterInv /\ [Next]_vars => WriterInv'
<1>1. SUFFICES ASSUME WriterInv, [Next]_vars PROVE WriterInv'
  OBVIOUS
<1>2. CASE UNCHANGED vars
  BY <1>1, <1>2, WriterInvSame DEF vars
<1>3. CASE Read
  BY <1>1, <1>3, WriterInvSame DEF Read
<1>4. CASE Rot
  BY <1>1, <1>4, RotKeeps
<1>5. CASE Write
  <2>1. CASE \E size \in Size : AddRecord(size)
    BY <1>1, <2>1, AddRecordKeeps
  <2>2. CASE EmitPhysicalRecord
    BY <1>1, <2>2, EmitKeeps
  <2>3. CASE \E k \in 0..(2 * BlockSize) : ~WholeOnly /\ EmitFails(k)
    BY <1>1, <2>3, EmitFailsKeeps
  <2>4. CASE \E n \in 0..Len(pending) : (WholeOnly => n = 0) /\ Crash(n)
    BY <1>1, <2>4, CrashKeeps
  <2>5. CASE Reuse
    BY <1>1, <2>5, ReuseKeeps
  <2>6. CASE (\E n \in 1..Len(pending) : Deliver(n)) /\ UNCHANGED writerVars
    BY <1>1, <2>6, DeliverKeeps
  <2>. QED
    BY <1>5, <2>1, <2>2, <2>3, <2>4, <2>5, <2>6 DEF Write
<1>. QED
  BY <1>1, <1>2, <1>3, <1>4, <1>5 DEF Next

LEMMA WriterInvHolds == Spec => []WriterInv
BY InitWriterInv, NextWriterInv, PTL DEF Spec

\* The state of a writer (log_writer.h) keeps its type, through failures, crashes
\* and the reuse of its file.
THEOREM WriterTypeCorrect == Spec => []WriterTypeOK
<1>1. WriterInv => WriterTypeOK
  BY DEF WriterInv
<1>. QED
  BY <1>1, WriterInvHolds, PTL

\* No physical record that EmitPhysicalRecord writes crosses the end of a block,
\* and block_offset_ is the writer's place in its block.
THEOREM BlocksAreKeptAlways == Spec => []BlocksAreKept
<1>1. WriterInv => BlocksAreKept
  BY Zenon DEF WriterInv
<1>. QED
  BY <1>1, WriterInvHolds, PTL

-----------------------------------------------------------------------------
(* What is in the file.  The records of the log that is being written are  *)
(* those numbered above base.                                              *)

Width(p) == HeaderLen(Recycle) + phys[p].len

\* The place in the file after physical record p
End(p) == Location(p) + Width(p)

Starts(p) == phys[p].type \in {"Full", "First"}

Stops(p) == phys[p].type \in {"Full", "Last"}

\* A physical record carries the number of the log it was written to, and belongs
\* to the log of now iff its record came after the file was taken for it.
OfLog(p) == \E l \in 1..log : /\ phys[p].log = LogNumber[l] % LogNumWidth
                              /\ phys[p].rec > base <=> l = log

\* The physical records: a fragment that does not start a record continues the one
\* before it and is at the start of a block; one that does not end its record fills
\* its block; of one log they follow each other in the file; and those of older
\* logs carry another log number.
PhysOK ==
  /\ \A p \in 1..Len(phys) :
       /\ phys[p].rec >= 1
       /\ ~Starts(p) => /\ p > 1 /\ phys[p - 1].rec = phys[p].rec /\ ~Stops(p - 1)
                        /\ phys[p].offset = 0
       /\ ~Stops(p) => phys[p].offset + Width(p) = BlockSize
       /\ OfLog(p)
  /\ \A p, q \in 1..Len(phys) : p < q =>
       /\ phys[p].rec <= phys[q].rec
       /\ Starts(q) => phys[p].rec < phys[q].rec
       /\ phys[p].rec > base => End(p) <= Location(q)

\* What AddRecord is about to write fits behind what has been written.
SliceOK ==
  /\ base <= RecordCount
  /\ ~Recycle => base = 0
  /\ writer \in {"idle", "adding"} =>
       \A p \in 1..Len(phys) : phys[p].rec > base => End(p) <= block * BlockSize + block_offset_
  /\ writer = "adding" =>
       /\ slice.rec > base
       /\ slice.begin => slice.rec > RecordCount
       /\ ~slice.begin => /\ phys # <<>> /\ slice.rec = RecordCount /\ ~Stops(Len(phys))
                          /\ block_offset_ = BlockSize

\* A byte of a physical record can only be at its own place in the file.
Placed(c, x) == c[1] # 0 => c[1] \in 1..Len(phys) /\ x = Location(c[1]) + c[2]

CellsOK ==
  /\ \A x \in 1..Len(disk) : Placed(disk[x], x)
  /\ \A j \in 1..Len(pending) : Placed(pending[j], dpos + j)

FileInv == WriterInv /\ PhysOK /\ SliceOK /\ CellsOK

\* The numbers of a physical record
LEMMA PhysFacts ==
  ASSUME WriterTypeOK, NEW p \in 1..Len(phys)
  PROVE  /\ p \in Nat /\ p >= 1 /\ p <= Len(phys) /\ Len(phys) \in Nat
         /\ phys[p].rec \in Nat /\ phys[p].type \in Type /\ phys[p].len \in Nat
         /\ phys[p].log \in Nat /\ phys[p].block \in Nat /\ phys[p].offset \in Nat
         /\ HeaderLen(Recycle) \in Nat /\ HeaderLen(Recycle) >= 1
         /\ Width(p) \in Nat /\ Width(p) = HeaderLen(Recycle) + phys[p].len /\ Width(p) >= 1
         /\ Location(p) \in Nat /\ Location(p) = phys[p].block * BlockSize + phys[p].offset
         /\ End(p) \in Nat /\ End(p) = Location(p) + Width(p)
<1>1. phys \in Seq(Record)
  BY Zenon DEF WriterTypeOK, Record
<1>2. phys[p] \in Record
  BY <1>1, ItemOfSeq, Zenon
<1>3. /\ phys[p].rec \in Nat /\ phys[p].type \in Type /\ phys[p].len \in Nat
      /\ phys[p].log \in Nat /\ phys[p].block \in Nat /\ phys[p].offset \in Nat
  BY <1>2 DEF Record
<1>4. p \in Nat /\ p >= 1 /\ p <= Len(phys) /\ Len(phys) \in Nat
  BY <1>1, Position, LengthIsNat, Zenon
<1>5. HeaderLen(Recycle) \in Nat /\ HeaderLen(Recycle) >= 1 /\ BlockSize \in Nat
  BY HeaderFits, FormatAssumption
<1>6. Width(p) \in Nat /\ Width(p) = HeaderLen(Recycle) + phys[p].len /\ Width(p) >= 1
  BY <1>3, <1>5 DEF Width
<1>7. /\ Location(p) \in Nat
      /\ Location(p) = phys[p].block * BlockSize + phys[p].offset
  <2>1. phys[p].block * BlockSize \in Nat
    <3>1. phys[p].block <= phys[p].block
      BY <1>3
    <3>. QED
      BY <1>3, <1>5, <3>1, Monotone, Zenon
  <2>. QED
    BY <1>3, <2>1, SumIsNat, Zenon DEF Location
<1>. QED
  BY <1>3, <1>4, <1>5, <1>6, <1>7 DEF End

\* A physical record stays where and what it is when others are added.
LEMMA PhysGrows ==
  ASSUME WriterTypeOK, NEW r \in Record, phys' = Append(phys, r), NEW p \in 1..Len(phys)
  PROVE  /\ p \in 1..Len(phys') /\ phys'[p] = phys[p]
         /\ Location(p)' = Location(p) /\ Width(p)' = Width(p) /\ End(p)' = End(p)
         /\ (Starts(p)' <=> Starts(p)) /\ (Stops(p)' <=> Stops(p))
<1>1. phys \in Seq(Record)
  BY DEF WriterTypeOK, Record
<1>2. p \in 1..Len(phys') /\ phys'[p] = phys[p]
  BY <1>1
<1>3. UNCHANGED <<HeaderLen(Recycle), BlockSize>>
  BY DEF HeaderLen
<1>. QED
  BY <1>2, <1>3 DEF Location, Width, End, Starts, Stops

LEMMA PhysSame ==
  ASSUME UNCHANGED phys, NEW p
  PROVE  /\ Location(p)' = Location(p) /\ Width(p)' = Width(p) /\ End(p)' = End(p)
         /\ (Starts(p)' <=> Starts(p)) /\ (Stops(p)' <=> Stops(p))
<1>1. UNCHANGED <<HeaderLen(Recycle), BlockSize>>
  BY DEF HeaderLen
<1>. QED
  BY <1>1 DEF Location, Width, End, Starts, Stops

\* The record numbers do not exceed RecordCount.
LEMMA CountIsGreatest ==
  ASSUME WriterTypeOK, PhysOK, NEW p \in 1..Len(phys)
  PROVE  phys[p].rec <= RecordCount /\ phys # <<>> /\ RecordCount = phys[Len(phys)].rec
<1>1. phys \in Seq(Record) /\ phys # <<>>
  BY DEF WriterTypeOK, Record
<1>2. Len(phys) \in 1..Len(phys) /\ RecordCount = phys[Len(phys)].rec
  BY <1>1 DEF RecordCount
<1>3. phys[p].rec \in Nat /\ p \in Nat /\ p <= Len(phys) /\ Len(phys) \in Nat
  BY PhysFacts
<1>4. CASE p = Len(phys)
  BY <1>1, <1>2, <1>3, <1>4
<1>5. CASE p < Len(phys)
  BY <1>1, <1>2, <1>3, <1>5 DEF PhysOK
<1>. QED
  BY <1>3, <1>4, <1>5

-----------------------------------------------------------------------------
(* The steps of the writer.                                                *)

\* The physical record that the next round emits
LEMMA NewRecord ==
  ASSUME FileInv, writer = "adding"
  PROVE  /\ Physical \in Record /\ Physical.rec = slice.rec
         /\ Physical.offset = Start /\ Physical.len = fragment_length
         /\ Physical.log = LogNumber[log] % LogNumWidth
         /\ slice.rec \in Nat /\ slice.rec > base /\ slice.rec >= RecordCount /\ slice.rec >= 1
         /\ Physical.type \in {"Full", "First"} => slice.rec > RecordCount
         /\ Physical.type \notin {"Full", "First"} =>
              /\ Physical.offset = 0 /\ RecordCount = slice.rec
              /\ phys # <<>> /\ ~Stops(Len(phys))
         /\ Physical.type \notin {"Full", "Last"} =>
              Physical.offset + HeaderLen(Recycle) + Physical.len = BlockSize
         /\ Physical.type \notin {"Full", "Last"} <=> ~end
<1>1. WriterTypeOK
  BY DEF FileInv, WriterInv
<1>2. /\ Physical \in Record /\ Physical.offset = Start /\ Physical.len = fragment_length
  BY <1>1, PhysicalType
<1>3. /\ Physical.rec = slice.rec /\ Physical.type = RecordType
      /\ Physical.log = LogNumber[log] % LogNumWidth
  BY DEF Physical, log_number_
<1>4. slice.rec \in Nat /\ base \in Nat /\ slice.left \in Nat
  BY <1>1 DEF WriterTypeOK
<1>5. /\ slice.rec > base
      /\ slice.begin => slice.rec > RecordCount
      /\ ~slice.begin => /\ phys # <<>> /\ slice.rec = RecordCount /\ ~Stops(Len(phys))
                         /\ block_offset_ = BlockSize
  BY DEF FileInv, SliceOK
<1>6. RecordCount \in Nat
  BY <1>1, RecordCountType
<1>7. Physical.type \in {"Full", "First"} <=> slice.begin
  BY <1>3 DEF RecordType
<1>8. Physical.type \notin {"Full", "Last"} <=> ~end
  BY <1>3 DEF RecordType
<1>9. ASSUME ~slice.begin PROVE Start = 0
  <2>1. leftover = 0
    BY <1>5, <1>9, FormatAssumption DEF leftover
  <2>2. NewBlock
    BY <2>1, HeaderFits DEF NewBlock
  <2>. QED
    BY <2>2 DEF Start
<1>10. ASSUME ~end PROVE Start + HeaderLen(Recycle) + fragment_length = BlockSize
  <2>1. Start \in 0..BlockSize /\ fragment_length \in Nat
    BY <1>1, RoundFits
  <2>2. fragment_length = avail
    BY <1>10 DEF end, fragment_length
  <2>. QED
    BY <2>1, <2>2, HeaderFits, FormatAssumption DEF avail
<1>. QED
  BY <1>2, <1>3, <1>4, <1>5, <1>6, <1>7, <1>8, <1>9, <1>10

\* Where it goes
LEMMA NewPlace ==
  ASSUME FileInv, writer = "adding"
  PROVE  /\ Physical.block * BlockSize + Physical.offset \in Nat
         /\ Physical.block * BlockSize + Physical.offset >= block * BlockSize + block_offset_
         /\ Physical.block * BlockSize + Physical.offset = dpos + Len(pending) + Len(Trailer)
         /\ block * BlockSize + block_offset_ \in Nat
<1>1. WriterTypeOK /\ BlocksAreKept
  BY DEF FileInv, WriterInv
<1>2. /\ Start \in 0..BlockSize /\ leftover \in 0..BlockSize
      /\ NewBlock => Start = 0
      /\ ~NewBlock => Start = block_offset_
  BY <1>1, RoundFits
<1>3. /\ Physical.offset = Start
      /\ Physical.block = IF NewBlock THEN block + 1 ELSE block
  BY <1>1, PhysicalType
<1>4. Len(Trailer) = IF NewBlock THEN leftover ELSE 0
  BY <1>1, RoundBytes
<1>5. dpos + Len(pending) = block * BlockSize + block_offset_
  BY <1>1 DEF BlocksAreKept
<1>6. /\ BlockSize \in Nat /\ block \in Nat /\ block_offset_ \in 0..BlockSize
      /\ leftover = BlockSize - block_offset_
  BY <1>1, FormatAssumption DEF WriterTypeOK, leftover
<1>7. PICK here : here = block * BlockSize
  BY Zenon
<1>8. here \in Nat
  BY <1>6, <1>7
<1>9. (block + 1) * BlockSize = here + BlockSize
  BY <1>6, <1>7
<1>10. CASE NewBlock
  <2>1. Physical.block * BlockSize = here + BlockSize
    BY <1>3, <1>9, <1>10
  <2>2. Physical.offset = 0 /\ Len(Trailer) = BlockSize - block_offset_
    BY <1>2, <1>3, <1>4, <1>6, <1>10
  <2>. QED
    BY <1>5, <1>6, <1>7, <1>8, <2>1, <2>2
<1>11. CASE ~NewBlock
  <2>1. Physical.block * BlockSize = here
    BY <1>3, <1>7, <1>11
  <2>2. Physical.offset = block_offset_ /\ Len(Trailer) = 0
    BY <1>2, <1>3, <1>4, <1>11, Zenon
  <2>. QED
    BY <1>5, <1>6, <1>7, <1>8, <2>1, <2>2
<1>. QED
  BY <1>10, <1>11

\* Formatting it keeps the order of the physical records.
LEMMA EmitPhys ==
  ASSUME FileInv, writer = "adding", phys' = Append(phys, Physical), UNCHANGED <<log, base>>
  PROVE  PhysOK'
<1>0. PICK n : n = Len(phys) + 1
  BY Zenon
<1>1. WriterTypeOK /\ PhysOK
  BY DEF FileInv, WriterInv
<1>2. /\ Physical \in Record /\ Physical.rec = slice.rec
      /\ Physical.log = LogNumber[log] % LogNumWidth
      /\ slice.rec \in Nat /\ slice.rec > base /\ slice.rec >= RecordCount /\ slice.rec >= 1
      /\ Physical.type \in {"Full", "First"} => slice.rec > RecordCount
      /\ Physical.type \notin {"Full", "First"} =>
           /\ Physical.offset = 0 /\ RecordCount = slice.rec
           /\ phys # <<>> /\ ~Stops(Len(phys))
      /\ Physical.type \notin {"Full", "Last"} =>
           Physical.offset + HeaderLen(Recycle) + Physical.len = BlockSize
  BY NewRecord
<1>3. phys \in Seq(Record)
  BY <1>1 DEF WriterTypeOK, Record
<1>4. /\ Len(phys) \in Nat /\ Len(phys') = n /\ phys'[n] = Physical /\ n \in 1..n
      /\ 1..n = 1..Len(phys) \cup {n}
  BY <1>0, <1>2, <1>3
<1>5. UNCHANGED <<HeaderLen(Recycle), BlockSize>>
  BY DEF HeaderLen
<1>6. \A p \in 1..Len(phys) :
         /\ phys'[p] = phys[p]
         /\ Location(p)' = Location(p) /\ Width(p)' = Width(p) /\ End(p)' = End(p)
         /\ (Starts(p)' <=> Starts(p)) /\ (Stops(p)' <=> Stops(p))
  BY <1>1, <1>2, PhysGrows, Zenon
<1>7. /\ Location(n)' = Physical.block * BlockSize + Physical.offset
      /\ Width(n)' = HeaderLen(Recycle) + Physical.len
      /\ Starts(n)' <=> Physical.type \in {"Full", "First"}
      /\ Stops(n)' <=> Physical.type \in {"Full", "Last"}
  BY <1>4, <1>5 DEF Location, Width, Starts, Stops
<1>8. log \in Nat /\ log >= 1 /\ base \in Nat /\ log' = log /\ base' = base
  BY <1>1, WriterAssumption DEF WriterTypeOK
<1>9. ASSUME NEW p \in 1..n
      PROVE  /\ phys'[p].rec >= 1
             /\ ~Starts(p)' => /\ p > 1 /\ phys'[p - 1].rec = phys'[p].rec /\ ~Stops(p - 1)'
                               /\ phys'[p].offset = 0
             /\ ~Stops(p)' => phys'[p].offset + Width(p)' = BlockSize
             /\ OfLog(p)'
  <2>1. CASE p \in 1..Len(phys)
    <3>1. /\ phys[p].rec >= 1
          /\ ~Starts(p) => /\ p > 1 /\ phys[p - 1].rec = phys[p].rec /\ ~Stops(p - 1)
                           /\ phys[p].offset = 0
          /\ ~Stops(p) => phys[p].offset + Width(p) = BlockSize
          /\ OfLog(p)
      BY <1>1, <2>1, Zenon DEF PhysOK
    <3>2. ASSUME p > 1 PROVE p - 1 \in 1..Len(phys)
      BY <1>4, <2>1, <3>2
    <3>3. OfLog(p)'
      <4>1. phys'[p] = phys[p]
        BY <1>6, <2>1, Zenon
      <4>. QED
        BY <1>8, <3>1, <4>1 DEF OfLog
    <3>. QED
      BY <1>6, <2>1, <3>1, <3>2, <3>3, Zenon
  <2>2. CASE p = n
    <3>1. ASSUME ~Starts(n)'
          PROVE  n > 1 /\ phys'[n - 1].rec = phys'[n].rec /\ ~Stops(n - 1)' /\ phys'[n].offset = 0
      <4>1. /\ Physical.offset = 0 /\ RecordCount = slice.rec
            /\ phys # <<>> /\ ~Stops(Len(phys))
        BY <1>2, <1>7, <3>1
      <4>2. n - 1 \in 1..Len(phys) /\ RecordCount = phys[n - 1].rec /\ n > 1
        BY <1>0, <1>3, <4>1 DEF RecordCount
      <4>3. ~Stops(n - 1)
        BY <1>0, <1>4, <4>1
      <4>4. ~Stops(n - 1)' /\ phys'[n - 1] = phys[n - 1]
        BY <1>6, <4>2, <4>3
      <4>. QED
        BY <1>2, <1>4, <4>1, <4>2, <4>4, Zenon
    <3>2. ASSUME ~Stops(n)' PROVE phys'[n].offset + Width(n)' = BlockSize
      <4>1. Physical.offset + HeaderLen(Recycle) + Physical.len = BlockSize
        BY <1>2, <1>7, <3>2, Zenon
      <4>2. Physical.offset \in Nat /\ Physical.len \in Nat
        BY <1>2 DEF Record
      <4>3. Physical.offset + (HeaderLen(Recycle) + Physical.len) = BlockSize
        BY <4>1, <4>2, HeaderFits, FormatAssumption
      <4>. QED
        BY <1>4, <1>7, <4>3, Zenon
    <3>3. OfLog(n)'
      BY <1>2, <1>4, <1>8 DEF OfLog
    <3>4. phys'[n].rec >= 1
      BY <1>2, <1>4, Zenon
    <3>. QED
      BY <2>2, <3>1, <3>2, <3>3, <3>4, Zenon
  <2>. QED
    BY <1>4, <2>1, <2>2, Zenon
<1>10. ASSUME NEW p \in 1..n, NEW q \in 1..n, p < q
       PROVE  /\ phys'[p].rec <= phys'[q].rec
              /\ Starts(q)' => phys'[p].rec < phys'[q].rec
              /\ phys'[p].rec > base => End(p)' <= Location(q)'
  <2>1. p \in 1..Len(phys)
    BY <1>0, <1>4, <1>10
  <2>2. CASE q \in 1..Len(phys)
    <3>1. /\ phys[p].rec <= phys[q].rec
          /\ Starts(q) => phys[p].rec < phys[q].rec
          /\ phys[p].rec > base => End(p) <= Location(q)
      BY <1>1, <1>10, <2>1, <2>2, Zenon DEF PhysOK
    <3>. QED
      BY <1>6, <2>1, <2>2, <3>1, Zenon
  <2>3. CASE q = n
    <3>1. phys[p].rec <= RecordCount
      BY <1>1, <2>1, CountIsGreatest, Zenon
    <3>2. phys[p].rec \in Nat /\ RecordCount \in Nat
      BY <1>1, <2>1, PhysFacts, RecordCountType, Zenon
    <3>3. phys'[p].rec <= slice.rec /\ (Starts(n)' => phys'[p].rec < slice.rec)
      <4>1. phys'[p].rec = phys[p].rec
        BY <1>6, <2>1, Zenon
      <4>2. Starts(n)' => slice.rec > RecordCount
        BY <1>2, <1>7, Zenon
      <4>3. slice.rec \in Nat /\ slice.rec >= RecordCount
        BY <1>2, Zenon
      <4>. QED
        BY <3>1, <3>2, <4>1, <4>2, <4>3
    <3>4. ASSUME phys[p].rec > base PROVE End(p)' <= Location(n)'
      <4>1. End(p) <= block * BlockSize + block_offset_
        BY <2>1, <3>4 DEF FileInv, SliceOK
      <4>2. /\ Physical.block * BlockSize + Physical.offset \in Nat
            /\ Physical.block * BlockSize + Physical.offset >= block * BlockSize + block_offset_
        BY NewPlace, Zenon
      <4>3. End(p) \in Nat /\ block * BlockSize + block_offset_ \in Nat
        BY <1>1, <2>1, NewPlace, PhysFacts, Zenon
      <4>4. End(p)' = End(p) /\ Location(n)' = Physical.block * BlockSize + Physical.offset
        BY <1>6, <1>7, <2>1
      <4>5. PICK a, b : a = block * BlockSize + block_offset_
                        /\ b = Physical.block * BlockSize + Physical.offset
        BY Zenon
      <4>. QED
        BY <4>1, <4>2, <4>3, <4>4, <4>5
    <3>. QED
      <4>1. phys'[q].rec = slice.rec /\ phys'[p].rec = phys[p].rec
        BY <1>2, <1>4, <1>6, <2>1, <2>3, Zenon
      <4>. QED
        BY <2>3, <3>3, <3>4, <4>1, Zenon
  <2>. QED
    BY <1>4, <2>2, <2>3
<1>. QED
  <2>1. ASSUME NEW p \in 1..Len(phys')
        PROVE  /\ phys'[p].rec >= 1
               /\ ~Starts(p)' => /\ p > 1 /\ phys'[p - 1].rec = phys'[p].rec /\ ~Stops(p - 1)'
                                 /\ phys'[p].offset = 0
               /\ ~Stops(p)' => phys'[p].offset + Width(p)' = BlockSize
               /\ OfLog(p)'
    BY <1>4, <1>9, Zenon
  <2>2. ASSUME NEW p \in 1..Len(phys'), NEW q \in 1..Len(phys'), p < q
        PROVE  /\ phys'[p].rec <= phys'[q].rec
               /\ Starts(q)' => phys'[p].rec < phys'[q].rec
               /\ phys'[p].rec > base' => End(p)' <= Location(q)'
    BY <1>4, <1>8, <1>10, <2>2, Zenon
  <2>. QED
    BY <2>1, <2>2, Zenon DEF PhysOK

\* A byte stays in its place when a physical record is added.
LEMMA PlacedGrows ==
  ASSUME WriterTypeOK, NEW r \in Record, phys' = Append(phys, r), NEW c, NEW x, Placed(c, x)
  PROVE  Placed(c, x)'
<1>1. CASE c[1] = 0
  BY <1>1 DEF Placed
<1>2. CASE c[1] # 0
  <2>1. PICK p : p = c[1]
    BY Zenon
  <2>2. p \in 1..Len(phys) /\ x = Location(p) + c[2]
    BY <1>2, <2>1, Zenon DEF Placed
  <2>3. p \in 1..Len(phys') /\ Location(p)' = Location(p)
    BY <2>2, PhysGrows
  <2>. QED
    BY <2>1, <2>2, <2>3 DEF Placed
<1>. QED
  BY <1>1, <1>2

LEMMA PlacedSame ==
  ASSUME UNCHANGED phys, NEW c, NEW x, Placed(c, x)
  PROVE  Placed(c, x)'
<1>1. PICK p : p = c[1]
  BY Zenon
<1>2. Location(p)' = Location(p)
  BY PhysSame, Zenon
<1>. QED
  BY <1>1, <1>2 DEF Placed

\* What a round hands to the file, or a part of it, goes to its place.
LEMMA EmitCells ==
  ASSUME FileInv, writer = "adding", phys' = Append(phys, Physical),
         UNCHANGED <<disk, dpos>>, NEW s \in Seq(Cell),
         pending' = pending \o s,
         Len(s) <= Len(Trailer \o CellsOf(Len(phys) + 1, fragment_length)),
         \A j \in 1..Len(s) : s[j] = (Trailer \o CellsOf(Len(phys) + 1, fragment_length))[j]
  PROVE  CellsOK'
<1>1. WriterTypeOK /\ CellsOK
  BY Zenon DEF FileInv, WriterInv
<1>2. Physical \in Record
  BY NewRecord, Zenon
<1>3. PICK n : n = Len(phys) + 1
  BY Zenon
<1>4. n \in 1..Len(phys') /\ phys'[n] = Physical /\ n # 0
  <2>1. phys \in Seq(Record)
    BY <1>1, Zenon DEF WriterTypeOK, Record
  <2>2. Len(phys') = n /\ phys'[n] = Physical /\ Len(phys) \in Nat
    BY <1>2, <1>3, <2>1, AppendNext, Zenon
  <2>. QED
    BY <1>3, <2>2
<1>5. PICK here : here = Physical.block * BlockSize + Physical.offset
  BY Zenon
<1>6. Location(n)' = here /\ here = dpos + Len(pending) + Len(Trailer) /\ here \in Nat
  <2>1. here \in Nat /\ here = dpos + Len(pending) + Len(Trailer)
    BY <1>5, NewPlace
  <2>. QED
    BY <1>4, <1>5, <2>1, Zenon DEF Location
<1>7. PICK cells : cells = CellsOf(n, fragment_length)
  BY Zenon
<1>8. PICK trailer : trailer = Trailer
  BY Zenon
<1>9. /\ trailer \in Seq(Cell) /\ cells \in Seq(Cell) /\ pending \in Seq(Cell) /\ dpos \in Nat
      /\ Len(trailer) \in Nat /\ Len(cells) \in Nat /\ Len(pending) \in Nat /\ Len(s) \in Nat
  <2>1. trailer \in Seq(Cell) /\ cells \in Seq(Cell)
    BY <1>1, <1>3, <1>7, <1>8, RoundBytes
  <2>2. pending \in Seq(Cell) /\ dpos \in Nat
    BY <1>1 DEF WriterTypeOK, Cell
  <2>. QED
    BY <2>1, <2>2
<1>10. ASSUME NEW j \in 1..Len(trailer) PROVE trailer[j] = Zero
  <2>1. NewBlock
    BY <1>8, <1>10 DEF Trailer
  <2>2. trailer = [i \in 1..leftover |-> Zero]
    BY <1>8, <2>1 DEF Trailer
  <2>3. Len(trailer) = leftover
    BY <1>1, <1>8, <2>1, RoundBytes
  <2>. QED
    BY <2>2, <2>3, Zenon
<1>11. ASSUME NEW i \in 1..Len(cells) PROVE cells[i] = <<n, i>>
  <2>1. Len(cells) = HeaderLen(Recycle) + fragment_length
    BY <1>1, <1>3, <1>7, RoundBytes
  <2>. QED
    BY <1>7, <2>1, Zenon DEF CellsOf
<1>12. ASSUME NEW j \in 1..Len(s), NEW c, NEW x, c = s[j], x = dpos + Len(pending) + j
       PROVE  Placed(c, x)'
  <2>1. Len(s) <= Len(trailer) + Len(cells) /\ s[j] = (trailer \o cells)[j]
    BY <1>3, <1>7, <1>8, <1>9, ConcatType, Zenon
  <2>2. j \in 1..(Len(trailer) + Len(cells))
    BY <1>9, <2>1, InLonger, SumIsNat, Zenon
  <2>3. CASE j \in 1..Len(trailer)
    <3>1. c = Zero
      BY <1>9, <1>10, <1>12, <2>1, <2>3, ConcatItems, ZenonT(30)
    <3>2. c[1] = 0
      BY <3>1, Zenon DEF Zero
    <3>. QED
      BY <3>2, Zenon DEF Placed
  <2>4. ASSUME NEW i \in 1..Len(cells), j = Len(trailer) + i PROVE Placed(c, x)'
    <3>1. c = cells[i]
      <4>1. (trailer \o cells)[j] = cells[i]
        BY <1>9, <2>4
      <4>. QED
        BY <1>12, <2>1, <4>1, Zenon
    <3>2. c = <<n, i>>
      BY <1>11, <3>1, Zenon
    <3>3. x = here + i
      <4>1. dpos + Len(pending) \in Nat /\ i \in Nat
        BY <1>9, SumIsNat, Position, Zenon
      <4>2. dpos + Len(pending) + Len(trailer) + i = dpos + Len(pending) + (Len(trailer) + i)
        BY <1>9, <4>1
      <4>3. here = dpos + Len(pending) + Len(trailer)
        BY <1>6, <1>8, Zenon
      <4>. QED
        BY <1>12, <2>4, <4>2, <4>3, Zenon
    <3>4. c[1] = n /\ c[2] = i
      BY <3>2, Zenon
    <3>. QED
      BY <1>4, <1>6, <3>3, <3>4, Zenon DEF Placed
  <2>5. j \in 1..Len(trailer) \/ \E i \in 1..Len(cells) : j = Len(trailer) + i
    BY <1>9, <2>2, TwoParts, Zenon
  <2>. QED
    BY <2>3, <2>4, <2>5, Zenon
<1>13. ASSUME NEW x \in 1..Len(disk') PROVE Placed(disk[x], x)'
  <2>1. PICK c : c = disk[x]
    BY Zenon
  <2>2. Placed(c, x)
    BY <1>1, <1>13, <2>1, Zenon DEF CellsOK
  <2>3. Placed(c, x)'
    BY <1>1, <1>2, <2>2, PlacedGrows, Zenon
  <2>. QED
    BY <2>1, <2>3 DEF Placed
<1>14. ASSUME NEW j \in 1..Len(pending') PROVE Placed(pending[j], dpos + j)'
  <2>1. j \in Nat /\ j >= 1 /\ j <= Len(pending) + Len(s)
    BY <1>9, <1>14
  <2>2. CASE j <= Len(pending)
    <3>1. PICK c, x : c = pending[j] /\ x = dpos + j
      BY Zenon
    <3>2. j \in 1..Len(pending)
      BY <1>9, <2>1, <2>2
    <3>3. Placed(c, x)
      BY <1>1, <3>1, <3>2, Zenon DEF CellsOK
    <3>4. Placed(c, x)'
      BY <1>1, <1>2, <3>3, PlacedGrows, Zenon
    <3>5. pending'[j] = c
      BY <1>9, <3>1, <3>2
    <3>. QED
      BY <3>1, <3>4, <3>5 DEF Placed
  <2>3. CASE j > Len(pending)
    <3>1. PICK i : i = j - Len(pending)
      BY Zenon
    <3>2. i \in 1..Len(s) /\ j = Len(pending) + i
      BY <1>9, <2>1, <2>3, <3>1
    <3>3. PICK c, x : c = s[i] /\ x = dpos + Len(pending) + i
      BY Zenon
    <3>4. Placed(c, x)'
      BY <1>12, <3>2, <3>3, Zenon
    <3>5. pending'[j] = c
      BY <1>9, <2>1, <3>2, <3>3
    <3>6. dpos' + j = x
      <4>1. dpos' = dpos /\ dpos \in Nat /\ Len(pending) \in Nat /\ i \in Nat
        BY <1>9, <3>2
      <4>2. dpos + (Len(pending) + i) = dpos + Len(pending) + i
        BY <4>1
      <4>. QED
        BY <3>2, <3>3, <4>1, <4>2, Zenon
    <3>. QED
      BY <3>4, <3>5, <3>6 DEF Placed
  <2>. QED
    BY <1>9, <2>1, <2>2, <2>3
<1>. QED
  BY <1>13, <1>14, Zenon DEF CellsOK

LEMMA RecordCountSame ==
  ASSUME UNCHANGED phys
  PROVE  RecordCount' = RecordCount
BY Zenon DEF RecordCount

LEMMA PhysOKSame ==
  ASSUME PhysOK, UNCHANGED <<phys, log, base>>
  PROVE  PhysOK'
<1>1. \A p : /\ Location(p)' = Location(p) /\ Width(p)' = Width(p) /\ End(p)' = End(p)
             /\ (Starts(p)' <=> Starts(p)) /\ (Stops(p)' <=> Stops(p))
  BY PhysSame
<1>2. ASSUME NEW p PROVE OfLog(p)' <=> OfLog(p)
  BY Zenon DEF OfLog
<1>. QED
  BY <1>1, <1>2, Zenon DEF PhysOK

LEMMA FileInvSame ==
  ASSUME FileInv, UNCHANGED <<fileVars, writerVars>>
  PROVE  FileInv'
<1>1. UNCHANGED <<disk, dpos, pending, phys, block_offset_, log, slice, writer, added, block, base>>
  BY DEF fileVars, writerVars
<1>2. WriterInv'
  BY WriterInvSame DEF FileInv
<1>3. PhysOK'
  BY <1>1, PhysOKSame DEF FileInv
<1>4. \A p : /\ Location(p)' = Location(p) /\ End(p)' = End(p) /\ (Stops(p)' <=> Stops(p))
  BY <1>1, PhysSame, Zenon
<1>5. SliceOK'
  <2>1. RecordCount' = RecordCount
    BY <1>1, RecordCountSame
  <2>2. Stops(Len(phys))' <=> Stops(Len(phys))
    BY <1>1, ZenonT(30) DEF Stops
  <2>. QED
    BY <1>1, <1>4, <2>1, <2>2 DEF FileInv, SliceOK
<1>6. CellsOK'
  BY <1>1, <1>4 DEF FileInv, CellsOK, Placed, Location
<1>. QED
  BY <1>2, <1>3, <1>5, <1>6 DEF FileInv

LEMMA FileAddRecord ==
  ASSUME FileInv, NEW size \in Size, AddRecord(size)
  PROVE  FileInv'
<1>1. /\ writer = "idle" /\ writer' = "adding"
      /\ slice' = [rec |-> RecordCount + 1, left |-> size, begin |-> TRUE]
      /\ UNCHANGED <<disk, dpos, pending, phys, block_offset_, log, added, block, base>>
  BY DEF AddRecord, fileVars
<1>2. WriterInv'
  BY AddRecordKeeps DEF FileInv
<1>3. PhysOK'
  BY <1>1, PhysOKSame, Zenon DEF FileInv
<1>4. \A p : Location(p)' = Location(p) /\ End(p)' = End(p)
  BY <1>1, PhysSame
<1>5. RecordCount \in Nat /\ base \in Nat
  BY RecordCountType, Zenon DEF FileInv, WriterInv, WriterTypeOK
<1>6. SliceOK'
  <2>1. RecordCount' = RecordCount
    BY <1>1, RecordCountSame, Zenon
  <2>2. slice'.rec > base' /\ slice'.rec > RecordCount' /\ slice'.begin
    BY <1>1, <1>5, <2>1 DEF FileInv, SliceOK
  <2>. QED
    BY <1>1, <1>4, <2>1, <2>2 DEF FileInv, SliceOK
<1>7. CellsOK'
  BY <1>1, <1>4, ZenonT(30) DEF FileInv, CellsOK, Placed, Location
<1>. QED
  BY <1>2, <1>3, <1>6, <1>7, Zenon DEF FileInv

\* The records of this log end before the writer's new place.
LEMMA EmitEnds ==
  ASSUME FileInv, writer = "adding", phys' = Append(phys, Physical), UNCHANGED base,
         block_offset_' = Start + HeaderLen(Recycle) + fragment_length,
         block' = Physical.block
  PROVE  /\ RecordCount' = slice.rec
         /\ \A p \in 1..Len(phys') :
              phys'[p].rec > base' => End(p)' <= block' * BlockSize + block_offset_'
         /\ Len(phys') \in 1..Len(phys') /\ phys'[Len(phys')] = Physical
<1>1. WriterTypeOK
  BY Zenon DEF FileInv, WriterInv
<1>2. /\ Physical \in Record /\ Physical.rec = slice.rec
      /\ Physical.offset = Start /\ Physical.len = fragment_length
  BY NewRecord
<1>3. PICK n : n = Len(phys) + 1
  BY Zenon
<1>4. /\ n \in 1..Len(phys') /\ phys'[n] = Physical /\ n = Len(phys') /\ phys' # <<>>
      /\ 1..Len(phys') = 1..Len(phys) \cup {n}
  <2>1. phys \in Seq(Record)
    BY <1>1, Zenon DEF WriterTypeOK, Record
  <2>. QED
    BY <1>2, <1>3, <2>1
<1>5. RecordCount' = slice.rec
  BY <1>2, <1>4 DEF RecordCount
<1>6. PICK here, there : /\ here = Physical.block * BlockSize
                         /\ there = block * BlockSize + block_offset_
  BY Zenon
<1>7. /\ here + Start \in Nat /\ here + Start >= there /\ there \in Nat
  BY <1>2, <1>6, NewPlace, Zenon
<1>8. here \in Nat /\ HeaderLen(Recycle) \in Nat /\ fragment_length \in Nat /\ Start \in Nat
  <2>1. Physical.block \in Nat /\ BlockSize \in Nat
    BY <1>2, FormatAssumption DEF Record
  <2>2. here \in Nat
    BY <1>6, <2>1
  <2>. QED
    BY <1>1, <2>2, HeaderFits, RoundFits, FormatAssumption
<1>9. ASSUME NEW p \in 1..Len(phys'), phys'[p].rec > base'
      PROVE  End(p)' <= here + block_offset_'
  <2>1. CASE p \in 1..Len(phys)
    <3>1. phys'[p] = phys[p] /\ End(p)' = End(p)
      BY <1>1, <1>2, <2>1, PhysGrows, Zenon
    <3>2. End(p) <= there
      BY <1>6, <1>9, <2>1, <3>1, Zenon DEF FileInv, SliceOK
    <3>3. End(p) \in Nat
      BY <1>1, <2>1, PhysFacts
    <3>4. End(p) <= here + (Start + HeaderLen(Recycle) + fragment_length)
      BY <1>7, <1>8, <3>2, <3>3, FitsBehind, Zenon
    <3>. QED
      BY <3>1, <3>4, Zenon
  <2>2. CASE p = n
    <3>1. UNCHANGED <<HeaderLen(Recycle), BlockSize>>
      BY DEF HeaderLen
    <3>2. Location(n)' = here + Start
      BY <1>2, <1>4, <1>6, <3>1, Zenon DEF Location
    <3>3. Width(n)' = HeaderLen(Recycle) + fragment_length
      BY <1>2, <1>4, <3>1 DEF Width
    <3>4. End(n)' = Location(n)' + Width(n)'
      BY DEF End
    <3>5. (here + Start) + (HeaderLen(Recycle) + fragment_length)
            <= here + (Start + HeaderLen(Recycle) + fragment_length)
      BY <1>8, FitsBehind, Zenon
    <3>. QED
      BY <2>2, <3>2, <3>3, <3>4, <3>5, Zenon
  <2>. QED
    BY <1>4, <2>1, <2>2
<1>. QED
  BY <1>4, <1>5, <1>6, <1>9

LEMMA FileEmit ==
  ASSUME FileInv, EmitPhysicalRecord
  PROVE  FileInv'
<1>1. /\ writer = "adding"
      /\ phys' = Append(phys, Physical)
      /\ pending' = pending \o Trailer \o CellsOf(Len(phys) + 1, fragment_length)
      /\ block_offset_' = Start + HeaderLen(Recycle) + fragment_length
      /\ block' = Physical.block
      /\ UNCHANGED <<disk, dpos, log, base>>
  BY DEF EmitPhysicalRecord
<1>2. WriterInv'
  BY EmitKeeps, Zenon DEF FileInv
<1>3. PhysOK'
  BY <1>1, EmitPhys
<1>4. CellsOK'
  <2>1. WriterTypeOK
    BY DEF FileInv, WriterInv
  <2>2. PICK t, c : t = Trailer /\ c = CellsOf(Len(phys) + 1, fragment_length)
    BY Zenon
  <2>3. t \in Seq(Cell) /\ c \in Seq(Cell) /\ pending \in Seq(Cell)
    BY <2>1, <2>2, RoundBytes DEF WriterTypeOK, Cell
  <2>4. t \o c \in Seq(Cell)
    BY <2>3
  <2>5. pending' = pending \o (t \o c)
    <3>1. pending \o (t \o c) = (pending \o t) \o c
      BY <2>3
    <3>. QED
      BY <1>1, <2>2, <3>1, Zenon
  <2>6. Len(t \o c) <= Len(t \o c)
    BY <2>4
  <2>. QED
    BY <1>1, <2>2, <2>4, <2>5, <2>6, EmitCells, Zenon
<1>5. /\ RecordCount' = slice.rec
      /\ \A p \in 1..Len(phys') :
           phys'[p].rec > base' => End(p)' <= block' * BlockSize + block_offset_'
      /\ Len(phys') \in 1..Len(phys') /\ phys'[Len(phys')] = Physical
  BY <1>1, EmitEnds, Zenon
<1>6. /\ slice.rec \in Nat /\ slice.rec > base /\ base \in Nat
      /\ Physical.type \notin {"Full", "Last"} <=> ~end
      /\ Physical.type \notin {"Full", "Last"} =>
           Physical.offset + HeaderLen(Recycle) + Physical.len = BlockSize
      /\ Physical.offset = Start /\ Physical.len = fragment_length
  BY <1>1, NewRecord DEF FileInv, WriterInv, WriterTypeOK
<1>7. SliceOK'
  <2>1. base' <= RecordCount' /\ (~Recycle => base' = 0)
    <3>1. base' = base /\ (~Recycle => base = 0)
      BY <1>1 DEF FileInv, SliceOK
    <3>2. base <= slice.rec
      BY <1>6
    <3>. QED
      BY <1>5, <3>1, <3>2, Zenon
  <2>2. CASE end
    <3>1. writer' = "idle"
      BY <2>2, Zenon DEF EmitPhysicalRecord
    <3>. QED
      BY <1>5, <2>1, <3>1 DEF SliceOK
  <2>3. CASE ~end
    <3>1. slice' = [slice EXCEPT !.left = @ - fragment_length, !.begin = FALSE]
      BY <2>3 DEF EmitPhysicalRecord
    <3>2. slice \in [rec : Nat, left : Nat, begin : BOOLEAN]
      BY DEF FileInv, WriterInv, WriterTypeOK
    <3>3. slice'.rec = slice.rec /\ slice'.begin = FALSE
      BY <3>1, <3>2, Zenon
    <3>4. ~Stops(Len(phys))' /\ block_offset_' = BlockSize /\ phys' # <<>>
      BY <1>1, <1>5, <1>6, <2>3 DEF Stops
    <3>. QED
      BY <1>1, <1>5, <1>6, <2>1, <3>3, <3>4 DEF SliceOK
  <2>. QED
    BY <2>2, <2>3
<1>. QED
  BY <1>2, <1>3, <1>4, <1>7 DEF FileInv

LEMMA FileEmitFails ==
  ASSUME FileInv, NEW k \in Nat, EmitFails(k)
  PROVE  FileInv'
<1>1. PICK cells : cells = Trailer \o CellsOf(Len(phys) + 1, fragment_length)
  BY Zenon
<1>2. /\ writer = "adding" /\ writer' = "failed"
      /\ k \in 0..Len(cells)
      /\ phys' = Append(phys, Physical)
      /\ pending' = pending \o SubSeq(cells, 1, k)
      /\ block_offset_' = Start + HeaderLen(Recycle) + fragment_length
      /\ block' = Physical.block
      /\ UNCHANGED <<disk, dpos, log, base>>
  BY <1>1 DEF EmitFails
<1>3. WriterInv'
  BY EmitFailsKeeps DEF FileInv
<1>4. PhysOK'
  BY <1>2, EmitPhys
<1>5. CellsOK'
  <2>1. WriterTypeOK
    BY DEF FileInv, WriterInv
  <2>2. cells \in Seq(Cell)
    BY <1>1, <2>1, RoundBytes
  <2>3. PICK s : s = SubSeq(cells, 1, k)
    BY Zenon
  <2>4. s \in Seq(Cell) /\ Len(s) <= Len(cells) /\ \A j \in 1..Len(s) : s[j] = cells[j]
    BY <1>2, <2>2, <2>3, PrefixItems, Zenon
  <2>. QED
    BY <1>1, <1>2, <2>3, <2>4, EmitCells, Zenon
<1>6. SliceOK'
  <2>1. RecordCount' = slice.rec
    BY <1>2, EmitEnds, Zenon
  <2>2. slice.rec \in Nat /\ slice.rec > base /\ base \in Nat
    BY <1>2, NewRecord DEF FileInv, WriterInv, WriterTypeOK
  <2>. QED
    BY <1>2, <2>1, <2>2 DEF FileInv, SliceOK
<1>. QED
  BY <1>3, <1>4, <1>5, <1>6 DEF FileInv

\* Bytes on their way arrive in their places.
LEMMA ArrivedCells ==
  ASSUME FileInv, NEW n \in 0..Len(pending),
         disk' = Overwritten(dpos, SubSeq(pending, 1, n)), UNCHANGED phys
  PROVE  /\ Len(disk') \in Nat /\ Len(disk') >= Len(disk)
         /\ \A x \in 1..Len(disk') : Placed(disk[x], x)'
<1>1. WriterTypeOK /\ CellsOK /\ dpos <= Len(disk)
  BY DEF FileInv, WriterInv
<1>2. disk \in Seq(Cell) /\ pending \in Seq(Cell) /\ dpos \in Nat
  BY <1>1 DEF WriterTypeOK, Cell
<1>3. PICK s : s = SubSeq(pending, 1, n)
  BY Zenon
<1>4. /\ s \in Seq(Cell) /\ Len(s) = n /\ n \in Nat /\ n <= Len(pending)
      /\ \A j \in 1..n : s[j] = pending[j]
  BY <1>2, <1>3
<1>5. PICK m : m = IF dpos + n > Len(disk) THEN dpos + n ELSE Len(disk)
  BY Zenon
<1>6. /\ m \in Nat /\ m >= Len(disk) /\ (m = Len(disk) \/ m = dpos + n)
      /\ Len(disk) \in Nat /\ Len(pending) \in Nat
  BY <1>2, <1>4, <1>5
<1>7. disk' = [i \in 1..m |-> IF i > dpos /\ i <= dpos + n THEN s[i - dpos] ELSE disk[i]]
  BY <1>3, <1>4, <1>5, Zenon DEF Overwritten
<1>8. disk' \in Seq(Cell)
  BY <1>1, <1>3, <1>4, OverwrittenType, Zenon
<1>9. Len(disk') = m
  BY <1>6, <1>7, <1>8
<1>10. ASSUME NEW x \in 1..m PROVE Placed(disk[x], x)'
  <2>1. CASE x > dpos /\ x <= dpos + n
    <3>1. PICK j : j = x - dpos
      BY Zenon
    <3>2. j \in 1..n /\ j \in 1..Len(pending) /\ x = dpos + j
      BY <1>2, <1>4, <1>6, <2>1, <3>1
    <3>3. PICK c : c = pending[j]
      BY Zenon
    <3>4. disk'[x] = c
      BY <1>4, <1>7, <2>1, <3>1, <3>2, <3>3, Zenon
    <3>5. Placed(c, x)
      BY <1>1, <3>2, <3>3 DEF CellsOK
    <3>6. Placed(c, x)'
      BY <3>5, PlacedSame, Zenon
    <3>. QED
      BY <3>4, <3>6 DEF Placed
  <2>2. CASE ~(x > dpos /\ x <= dpos + n)
    <3>1. x \in 1..Len(disk)
      BY <1>1, <1>2, <1>4, <1>6, <2>2
    <3>2. PICK c : c = disk[x]
      BY Zenon
    <3>3. disk'[x] = c
      BY <1>7, <2>2, <3>2, Zenon
    <3>4. Placed(c, x)
      BY <1>1, <3>1, <3>2, Zenon DEF CellsOK
    <3>5. Placed(c, x)'
      BY <3>4, PlacedSame, Zenon
    <3>. QED
      BY <3>3, <3>5 DEF Placed
  <2>. QED
    BY <2>1, <2>2, Zenon
<1>. QED
  BY <1>6, <1>9, <1>10

LEMMA FileCrash ==
  ASSUME FileInv, NEW n \in Nat, Crash(n)
  PROVE  FileInv'
<1>1. /\ n \in 0..Len(pending)
      /\ disk' = Overwritten(dpos, SubSeq(pending, 1, n))
      /\ pending' = <<>> /\ writer' = "gone"
      /\ UNCHANGED <<phys, log, base>>
  BY DEF Crash
<1>2. WriterInv'
  BY CrashKeeps DEF FileInv
<1>3. PhysOK'
  BY <1>1, PhysOKSame DEF FileInv
<1>4. CellsOK'
  <2>1. \A x \in 1..Len(disk') : Placed(disk[x], x)'
    BY <1>1, ArrivedCells, Zenon
  <2>. QED
    BY <1>1, <2>1 DEF CellsOK
<1>5. SliceOK'
  BY <1>1, RecordCountSame DEF FileInv, SliceOK
<1>. QED
  BY <1>2, <1>3, <1>4, <1>5 DEF FileInv

LEMMA FileDeliver ==
  ASSUME FileInv, NEW n \in Nat, Deliver(n), UNCHANGED writerVars
  PROVE  FileInv'
<1>1. /\ n \in 1..Len(pending)
      /\ disk' = Overwritten(dpos, SubSeq(pending, 1, n))
      /\ dpos' = dpos + n
      /\ pending' = SubSeq(pending, n + 1, Len(pending))
      /\ UNCHANGED <<phys, block_offset_, log, slice, writer, block, base>>
  BY DEF Deliver, writerVars
<1>2. WriterInv'
  BY DeliverKeeps, Zenon DEF FileInv
<1>3. PhysOK'
  BY <1>1, PhysOKSame DEF FileInv
<1>4. pending \in Seq(Cell) /\ dpos \in Nat /\ Len(pending) \in Nat
  <2>1. pending \in Seq(Cell) /\ dpos \in Nat
    BY DEF FileInv, WriterInv, WriterTypeOK, Cell
  <2>. QED
    BY <2>1
<1>5. n \in 0..Len(pending) /\ n \in Nat
  BY <1>1, <1>4
<1>6. CellsOK'
  <2>1. \A x \in 1..Len(disk') : Placed(disk[x], x)'
    BY <1>1, <1>5, ArrivedCells, Zenon
  <2>2. ASSUME NEW j \in 1..Len(pending') PROVE Placed(pending[j], dpos + j)'
    <3>1. PICK c, x : c = pending[n + j] /\ x = dpos + (n + j)
      BY Zenon
    <3>2. n + j \in 1..Len(pending) /\ pending'[j] = c /\ dpos' + j = x
      <4>1. pending' = SubSeq(pending, n + 1, Len(pending)) /\ dpos' = dpos + n
        BY <1>1, Zenon
      <4>2. j \in 1..Len(SubSeq(pending, n + 1, Len(pending)))
        BY <2>2, <4>1, Zenon
      <4>3. j + n \in 1..Len(pending) /\ pending'[j] = pending[j + n]
        BY <1>4, <1>5, <4>1, <4>2, Taken, PrefixItems, Zenon DEF Rest
      <4>4. j \in Nat /\ n + j = j + n
        BY <1>5, <4>2
      <4>. QED
        BY <1>4, <1>5, <3>1, <4>1, <4>3, <4>4, SumAssoc, Zenon
    <3>3. Placed(c, x)
      BY <3>1, <3>2, Zenon DEF FileInv, CellsOK
    <3>4. Placed(c, x)'
      BY <1>1, <3>3, PlacedSame, Zenon
    <3>. QED
      BY <3>2, <3>4 DEF Placed
  <2>. QED
    BY <2>1, <2>2 DEF CellsOK
<1>7. SliceOK'
  <2>1. RecordCount' = RecordCount
    BY <1>1, RecordCountSame, Zenon
  <2>2. \A p : End(p)' = End(p)
    BY <1>1, PhysSame, Zenon
  <2>3. Stops(Len(phys))' <=> Stops(Len(phys))
    BY <1>1 DEF Stops
  <2>. QED
    BY <1>1, <2>1, <2>2, <2>3 DEF FileInv, SliceOK
<1>. QED
  BY <1>2, <1>3, <1>6, <1>7 DEF FileInv

LEMMA FileReuse ==
  ASSUME FileInv, Reuse
  PROVE  FileInv'
<1>1. /\ Recycle /\ writer = "gone" /\ writer' = "idle"
      /\ log < Len(LogNumber) /\ log' = log + 1 /\ base' = RecordCount
      /\ UNCHANGED <<disk, pending, phys>>
  BY DEF Reuse
<1>2. WriterInv'
  BY ReuseKeeps DEF FileInv
<1>3. WriterTypeOK /\ PhysOK /\ pending = <<>>
  BY <1>1, Zenon DEF FileInv, WriterInv
<1>4. \A p : /\ Location(p)' = Location(p) /\ Width(p)' = Width(p) /\ End(p)' = End(p)
             /\ (Starts(p)' <=> Starts(p)) /\ (Stops(p)' <=> Stops(p))
  BY <1>1, PhysSame, Zenon
<1>5. ASSUME NEW p \in 1..Len(phys) PROVE phys[p].rec <= base' /\ ~(phys[p].rec > base')
  <2>1. phys[p].rec <= RecordCount
    BY <1>3, CountIsGreatest, Zenon
  <2>2. RecordCount \in Nat /\ phys[p].rec \in Nat
    BY <1>3, RecordCountType, PhysFacts
  <2>. QED
    BY <1>1, <2>1, <2>2
<1>6. PhysOK'
  <2>1. log \in 1..Len(LogNumber) /\ Len(LogNumber) \in Nat
    BY <1>3, WriterAssumption DEF WriterTypeOK
  <2>2. ASSUME NEW p \in 1..Len(phys')
        PROVE  OfLog(p)'
    <3>0. OfLog(p)
      BY <1>1, <1>3, <2>2, Zenon DEF PhysOK
    <3>1. PICK l \in 1..log : phys[p].log = LogNumber[l] % LogNumWidth
      BY <3>0, Zenon DEF OfLog
    <3>2. l \in 1..log' /\ l # log'
      BY <1>1, <2>1
    <3>. QED
      BY <1>1, <1>5, <2>2, <3>1, <3>2, Zenon DEF OfLog
  <2>. QED
    BY <1>1, <1>3, <1>4, <1>5, <2>2, ZenonT(30) DEF PhysOK
<1>7. SliceOK'
  <2>1. RecordCount' = RecordCount /\ RecordCount \in Nat
    BY <1>1, <1>3, RecordCountSame, RecordCountType
  <2>. QED
    BY <1>1, <1>5, <2>1 DEF SliceOK
<1>8. CellsOK'
  <2>1. ASSUME NEW x \in 1..Len(disk') PROVE Placed(disk[x], x)'
    <3>1. PICK c : c = disk[x]
      BY Zenon
    <3>2. Placed(c, x)
      BY <1>1, <2>1, <3>1 DEF FileInv, CellsOK
    <3>3. Placed(c, x)'
      BY <1>1, <3>2, PlacedSame
    <3>. QED
      BY <1>1, <3>1, <3>3 DEF Placed
  <2>. QED
    BY <1>1, <1>3, <2>1 DEF CellsOK
<1>. QED
  BY <1>2, <1>6, <1>7, <1>8 DEF FileInv

LEMMA FileRot ==
  ASSUME FileInv, Rot
  PROVE  FileInv'
<1>1. /\ writer = "gone"
      /\ UNCHANGED <<dpos, pending, phys, block_offset_, log, slice, writer, added, block, base>>
  BY DEF Rot, writerVars
<1>2. PICK i \in 1..Len(disk) : disk' = [disk EXCEPT ![i] = Broken]
  BY Zenon DEF Rot
<1>3. WriterInv'
  BY RotKeeps DEF FileInv
<1>4. PhysOK'
  BY <1>1, PhysOKSame, Zenon DEF FileInv
<1>5. SliceOK'
  BY <1>1, RecordCountSame DEF FileInv, SliceOK
<1>6. disk \in Seq(Cell) /\ Broken \in Cell
  <2>1. disk \in Seq(Cell)
    BY DEF FileInv, WriterInv, WriterTypeOK, Cell
  <2>2. Broken \in Cell
    BY DEF Broken, Cell
  <2>. QED
    BY <2>1, <2>2
<1>7. /\ Len(disk') = Len(disk)
      /\ \A x \in 1..Len(disk) : disk'[x] = IF x = i THEN Broken ELSE disk[x]
  <2>1. /\ Len([disk EXCEPT ![i] = Broken]) = Len(disk)
    BY <1>2, <1>6
  <2>2. disk \in [1..Len(disk) -> Cell]
    BY <1>6
  <2>. QED
    BY <1>2, <2>1, <2>2
<1>8. CellsOK'
  <2>1. ASSUME NEW x \in 1..Len(disk') PROVE Placed(disk[x], x)'
    <3>0. x \in 1..Len(disk)
      BY <1>7, <2>1, Zenon
    <3>1. CASE x = i
      <4>1. disk'[x] = Broken
        BY <1>7, <3>0, <3>1
      <4>2. disk'[x][1] = 0
        BY <4>1 DEF Broken
      <4>. QED
        BY <4>2 DEF Placed
    <3>2. CASE x # i
      <4>1. PICK c : c = disk[x]
        BY Zenon
      <4>2. Placed(c, x)
        BY <3>0, <4>1 DEF FileInv, CellsOK
      <4>3. Placed(c, x)'
        BY <1>1, <4>2, PlacedSame
      <4>4. disk'[x] = c
        BY <1>7, <3>0, <3>2, <4>1, ZenonT(30)
      <4>. QED
        BY <4>3, <4>4 DEF Placed
    <3>. QED
      BY <3>1, <3>2, Zenon
  <2>2. ASSUME NEW j \in 1..Len(pending') PROVE Placed(pending[j], dpos + j)'
    <3>1. PICK c, x : c = pending[j] /\ x = dpos + j
      BY ZenonT(30)
    <3>2. Placed(c, x)
      BY <1>1, <2>2, <3>1 DEF FileInv, CellsOK
    <3>3. Placed(c, x)'
      BY <1>1, <3>2, PlacedSame
    <3>. QED
      BY <1>1, <3>1, <3>3 DEF Placed
  <2>. QED
    BY <2>1, <2>2 DEF CellsOK
<1>. QED
  BY <1>3, <1>4, <1>5, <1>8 DEF FileInv

LEMMA InitFileInv == Init => FileInv
<1>1. SUFFICES ASSUME Init PROVE FileInv
  OBVIOUS
<1>2. WriterInv
  BY <1>1, InitWriterInv
<1>3. /\ disk = <<>> /\ pending = <<>> /\ phys = <<>> /\ writer = "idle" /\ base = 0
  BY <1>1, Zenon DEF Init, WriterInit
<1>4. PhysOK /\ CellsOK
  BY <1>3 DEF PhysOK, CellsOK
<1>5. SliceOK
  <2>1. Len(phys) = 0 /\ 1..Len(phys) = {} /\ base <= 0
    BY <1>3
  <2>2. RecordCount = 0
    BY <1>3, Zenon DEF RecordCount
  <2>. QED
    BY <1>3, <2>1, <2>2, Zenon DEF SliceOK
<1>. QED
  BY <1>2, <1>4, <1>5 DEF FileInv

LEMMA NextFileInv == FileInv /\ [Next]_vars => FileInv'
<1>1. SUFFICES ASSUME FileInv, [Next]_vars PROVE FileInv'
  OBVIOUS
<1>2. CASE UNCHANGED vars
  BY <1>1, <1>2, FileInvSame DEF vars
<1>3. CASE Read
  BY <1>1, <1>3, FileInvSame DEF Read
<1>4. CASE Rot
  BY <1>1, <1>4, FileRot
<1>5. CASE Write
  <2>1. CASE \E size \in Size : AddRecord(size)
    BY <1>1, <2>1, FileAddRecord
  <2>2. CASE EmitPhysicalRecord
    BY <1>1, <2>2, FileEmit
  <2>3. CASE \E k \in 0..(2 * BlockSize) : ~WholeOnly /\ EmitFails(k)
    BY <1>1, <2>3, FileEmitFails
  <2>4. CASE \E n \in 0..Len(pending) : (WholeOnly => n = 0) /\ Crash(n)
    BY <1>1, <2>4, FileCrash
  <2>5. CASE Reuse
    BY <1>1, <2>5, FileReuse
  <2>6. CASE (\E n \in 1..Len(pending) : Deliver(n)) /\ UNCHANGED writerVars
    BY <1>1, <2>6, FileDeliver
  <2>. QED
    BY <1>5, <2>1, <2>2, <2>3, <2>4, <2>5, <2>6 DEF Write
<1>. QED
  BY <1>1, <1>2, <1>3, <1>4, <1>5 DEF Next
-----------------------------------------------------------------------------
(* What the reader holds.                                                  *)

ReaderTypeOK ==
  /\ initial_offset_ \in Nat /\ fpos \in Nat /\ eof_offset_ \in Nat
  /\ buffer_ \in Seq(Nat) /\ scratch \in Seq(Nat) /\ read \in Seq(Seq(Nat))

\* The buffer holds bytes of the file in order, at most a block of them.
PosOK ==
  /\ \A i \in 1..Len(buffer_) : buffer_[i] \in 1..Len(disk) /\ buffer_[i] <= fpos
  /\ \A i, j \in 1..Len(buffer_) : i < j => buffer_[i] < buffer_[j]
  /\ Len(buffer_) <= BlockSize /\ eof_offset_ <= BlockSize
  /\ eof_offset_ # 0 => Len(buffer_) <= eof_offset_ /\ (eof_ \/ read_error_)

\* No byte is missing in the buffer, or between it and the bytes that come next.
Contig ==
  /\ \A i \in 1..Len(buffer_) : buffer_[i] = buffer_[1] + i - 1
  /\ buffer_ # <<>> /\ ~read_error_ => buffer_[Len(buffer_)] = fpos

\* A reader that looks for its initial offset again moves on in the file and keeps
\* its buffer.  It takes what is in it for bytes before the initial offset.
Jumped ==
  /\ MustSkip /\ block_start_location >= BlockSize
  /\ reader = "reading" => end_of_buffer_offset_ = block_start_location

JumpOK == Contig \/ Jumped

\* The next byte the reader looks at follows this one.
Cur == IF buffer_ = <<>> THEN fpos ELSE buffer_[1] - 1

\* Physical records of this log that follow each other, from the first of a record
Chain(s) ==
  /\ s # <<>>
  /\ Starts(s[1])
  /\ \A i \in 1..Len(s) : /\ s[i] \in 1..Len(phys) /\ phys[s[i]].rec > base
                          /\ s[i] = s[1] + i - 1 /\ phys[s[i]].rec = phys[s[1]].rec

\* Where the reader looks for what comes after a fragment that ends at e: right
\* behind it or, once, behind less bytes than a header has.
Seeks(e) ==
  \/ buffer_ = <<>> /\ (eof_ \/ read_error_)
  \/ Cur = e
  \/ /\ e <= Cur /\ Cur < e + RecyclableHeaderSize
     /\ eof_ \/ read_error_ \/ Len(buffer_) >= RecyclableHeaderSize

FragOK ==
  reader = "reading" /\ in_fragmented_record =>
    /\ Contig
    /\ Chain(scratch) /\ ~Stops(Last(scratch))
    /\ \A j \in 1..Len(read) : Last(read[j]) < scratch[1]
    /\ Seeks(End(Last(scratch)))

\* What has been returned lies before what will be read.
ReadOK ==
  /\ \A j \in 1..Len(read) :
       /\ Chain(read[j]) /\ Stops(Last(read[j]))
       /\ End(Last(read[j])) <= fpos
       /\ \A i \in 1..Len(buffer_) : End(Last(read[j])) < buffer_[i]
  /\ \A i, j \in 1..Len(read) : i < j => Last(read[i]) < read[j][1]

ReaderInv ==
  /\ ReaderTypeOK /\ PosOK /\ JumpOK /\ FragOK /\ ReadOK
  /\ reader # "none" => log_num = LogNumber[log]
  /\ reader = "none" => buffer_ = <<>> /\ read = <<>>

LogInv == FileInv /\ ReaderInv

\* The reader looks at bytes it had in its buffer, or at later ones.
Advances ==
  /\ fpos' \in Nat /\ fpos' >= fpos
  /\ \A i \in 1..Len(buffer_') :
       buffer_'[i] > fpos \/ \E j \in 1..Len(buffer_) : buffer_'[i] = buffer_[j]

\* file_->Read yields the bytes behind the place of the file.
LEMMA ChunkFacts ==
  ASSUME FileInv, ReaderTypeOK, NEW n \in Nat
  PROVE  /\ Chunk(n) \in Seq(Nat) /\ Len(Chunk(n)) \in Nat /\ Len(Chunk(n)) <= n
         /\ \A i \in 1..Len(Chunk(n)) : Chunk(n)[i] = fpos + i /\ fpos + i \in 1..Len(disk)
<1>1. Len(disk) \in Nat /\ fpos \in Nat
  <2>1. disk \in Seq(Cell)
    BY DEF FileInv, WriterInv, WriterTypeOK, Cell
  <2>. QED
    BY <2>1 DEF ReaderTypeOK
<1>2. PICK size : size = IF Len(disk) - fpos < n THEN Len(disk) - fpos ELSE n
  BY Zenon
<1>3. PICK m : m = IF size > 0 THEN size ELSE 0
  BY Zenon
<1>4. m \in Nat /\ m <= n /\ (m > 0 => fpos + m <= Len(disk))
  BY <1>1, <1>2, <1>3
<1>5. Chunk(n) = [i \in 1..m |-> fpos + i]
  BY <1>2, <1>3 DEF Chunk
<1>6. [i \in 1..m |-> fpos + i] \in Seq(Nat) /\ Len([i \in 1..m |-> fpos + i]) = m
  BY <1>1, <1>4
<1>7. ASSUME NEW i \in 1..m PROVE fpos + i \in 1..Len(disk)
  BY <1>1, <1>4
<1>. QED
  BY <1>4, <1>5, <1>6, <1>7

\* SkipToInitialBlock goes to the start of a block, less than a header beyond the
\* initial offset.
LEMMA BlockStart ==
  ASSUME ReaderTypeOK
  PROVE  /\ block_start_location \in Nat
         /\ block_start_location = 0 \/ block_start_location >= BlockSize
         /\ block_start_location < initial_offset_ + HeaderSize
<1>1. initial_offset_ \in Nat /\ BlockSize \in Nat \ {0} /\ HeaderSize \in Nat \ {0}
  BY FormatAssumption DEF ReaderTypeOK
<1>2. PICK in_block : in_block = initial_offset_ % BlockSize
  BY Zenon
<1>3. block_start_location
        = initial_offset_ - in_block + (IF in_block > BlockSize - (HeaderSize - 1) THEN BlockSize ELSE 0)
  BY <1>2, Zenon DEF block_start_location
<1>. QED
  BY <1>1, <1>2, <1>3, StartOfBlock

\* In one log, what is behind a physical record was added after it.
LEMMA OrderInLog ==
  ASSUME FileInv, NEW p \in 1..Len(phys), NEW q \in 1..Len(phys),
         phys[q].rec > base, End(p) <= Location(q)
  PROVE  p < q
<1>1. WriterTypeOK
  BY Zenon DEF FileInv, WriterInv
<1>2. /\ p \in Nat /\ q \in Nat
      /\ Location(p) \in Nat /\ Width(p) >= 1 /\ Width(p) \in Nat /\ End(p) = Location(p) + Width(p)
      /\ Location(q) \in Nat /\ Width(q) >= 1 /\ Width(q) \in Nat /\ End(q) = Location(q) + Width(q)
  BY <1>1, PhysFacts, Zenon
<1>3. q < p => Location(q) + Width(q) <= Location(p)
  BY <1>2, Zenon DEF FileInv, PhysOK
<1>4. Location(p) + Width(p) <= Location(q)
  BY <1>2, Zenon
<1>. QED
  BY <1>2, <1>3, <1>4, OneBehindOther, Zenon

\* A fragment that continues a record and is found less than a header behind one
\* that has to be continued is its continuation.
LEMMA Adjacent ==
  ASSUME FileInv, NEW p \in 1..Len(phys), NEW q \in 1..Len(phys),
         phys[p].rec > base, phys[q].rec > base, ~Stops(p), ~Starts(q),
         End(p) <= Location(q), Location(q) < End(p) + RecyclableHeaderSize
  PROVE  q = p + 1 /\ phys[q].rec = phys[p].rec
<1>1. WriterTypeOK /\ PhysOK
  BY DEF FileInv, WriterInv
<1>2. p < q /\ p \in Nat /\ q \in Nat
  BY <1>1, OrderInLog, PhysFacts, Zenon
<1>3. PICK r : r = q - 1
  BY Zenon
<1>4. /\ r \in 1..Len(phys) /\ phys[r].rec = phys[q].rec /\ ~Stops(r)
  <2>1. q > 1 /\ phys[q - 1].rec = phys[q].rec /\ ~Stops(q - 1)
    BY <1>1 DEF PhysOK
  <2>2. Len(phys) \in Nat /\ q <= Len(phys)
    BY <1>1, PhysFacts, Zenon
  <2>. QED
    BY <1>2, <1>3, <2>1, <2>2
<1>5. ASSUME p < r PROVE FALSE
  <2>1. PICK bp, op, wp, lp, ep :
          /\ bp = phys[p].block /\ op = phys[p].offset /\ wp = Width(p)
          /\ lp = Location(p) /\ ep = End(p)
    BY Zenon
  <2>2. PICK br, or, wr, lr, er :
          /\ br = phys[r].block /\ or = phys[r].offset /\ wr = Width(r)
          /\ lr = Location(r) /\ er = End(r)
    BY Zenon
  <2>3. PICK lq : lq = Location(q)
    BY Zenon
  <2>4. /\ bp \in Nat /\ op \in Nat /\ wp \in Nat /\ lp \in Nat /\ ep = lp + wp
        /\ br \in Nat /\ or \in Nat /\ wr \in Nat /\ lr \in Nat /\ er = lr + wr
        /\ wr >= 1 /\ lq \in Nat
    BY <1>1, <1>4, <2>1, <2>2, <2>3, PhysFacts, Zenon
  <2>5. op + wp = BlockSize /\ or + wr = BlockSize
    BY <1>1, <1>4, <2>1, <2>2, Zenon DEF PhysOK
  <2>6. ep <= lr /\ er <= lq /\ lq < ep + RecyclableHeaderSize
    <3>1. phys[r].rec > base
      BY <1>4, Zenon
    <3>2. r < q
      BY <1>2, <1>3
    <3>. QED
      BY <1>1, <1>4, <1>5, <2>1, <2>2, <2>3, <3>1, <3>2, Zenon DEF PhysOK
  <2>7. BlockSize \in Nat /\ RecyclableHeaderSize \in Nat /\ RecyclableHeaderSize < BlockSize
    BY FormatAssumption, Zenon
  <2>8. lp = bp * BlockSize + op /\ lr = br * BlockSize + or
    BY <1>1, <1>4, <2>1, <2>2, PhysFacts, Zenon
  <2>. QED
    BY <2>4, <2>5, <2>6, <2>7, <2>8, BlockBetween, Zenon
<1>6. r = p
  BY <1>2, <1>3, <1>5
<1>. QED
  BY <1>2, <1>3, <1>4, <1>6

-----------------------------------------------------------------------------
(* How a step may change the buffer.                                       *)

\* Nothing is left in it.
LEMMA BufferCleared ==
  ASSUME ReaderTypeOK, PosOK, buffer_' = <<>>, fpos' \in Nat, fpos' >= fpos,
         UNCHANGED eof_offset_, (eof_ \/ read_error_) => (eof_' \/ read_error_')
  PROVE  PosOK' /\ Contig' /\ Advances
BY FormatAssumption DEF ReaderTypeOK, PosOK, Contig, Advances

\* It is left as it is, and so is the file.
LEMMA BufferSame ==
  ASSUME ReaderTypeOK, PosOK, UNCHANGED <<buffer_, fpos, eof_, read_error_, eof_offset_>>,
         Len(disk) \in Nat, Len(disk') \in Nat, Len(disk') >= Len(disk)
  PROVE  PosOK' /\ (Contig => Contig') /\ Advances
<1>1. ASSUME NEW i \in 1..Len(buffer_)
      PROVE  buffer_[i] \in 1..Len(disk') /\ buffer_[i] <= fpos
  BY DEF PosOK
<1>2. PosOK'
  BY <1>1 DEF PosOK
<1>3. Advances
  BY DEF Advances, ReaderTypeOK
<1>. QED
  BY <1>2, <1>3, Zenon DEF Contig

\* The first bytes of it are taken.
LEMMA BufferTaken ==
  ASSUME ReaderTypeOK, PosOK, UNCHANGED disk, NEW size \in Nat, size <= Len(buffer_),
         buffer_' = SubSeq(buffer_, size + 1, Len(buffer_)),
         UNCHANGED <<fpos, eof_, read_error_, eof_offset_>>
  PROVE  /\ PosOK' /\ (Contig => Contig') /\ Advances
         /\ buffer_' \in Seq(Nat) /\ Len(buffer_') = Len(buffer_) - size
         /\ \A i \in 1..Len(buffer_') : i + size \in 1..Len(buffer_) /\ buffer_'[i] = buffer_[i + size]
<1>1. buffer_ \in Seq(Nat) /\ fpos \in Nat /\ Len(buffer_) \in Nat
  BY DEF ReaderTypeOK
<1>2. buffer_' \in Seq(Nat) /\ Len(buffer_') = Len(buffer_) - size /\ Rest(buffer_', buffer_, size)
  BY <1>1, Taken, Zenon
<1>3. ASSUME NEW i \in 1..Len(buffer_')
      PROVE  i + size \in 1..Len(buffer_) /\ buffer_'[i] = buffer_[i + size]
  BY <1>2, Zenon DEF Rest
<1>4. PosOK'
  <2>1. ASSUME NEW i \in 1..Len(buffer_')
        PROVE  buffer_'[i] \in 1..Len(disk') /\ buffer_'[i] <= fpos'
    BY <1>3, Zenon DEF PosOK
  <2>2. Rise(buffer_)
    BY Zenon DEF PosOK, Rise
  <2>3. Rise(buffer_')
    BY <1>1, <1>2, <2>2, TakenRises, Zenon
  <2>4. /\ Len(buffer_') <= BlockSize /\ eof_offset_' <= BlockSize
        /\ eof_offset_' # 0 => Len(buffer_') <= eof_offset_' /\ (eof_' \/ read_error_')
    BY <1>1, <1>2, FormatAssumption DEF PosOK, ReaderTypeOK
  <2>. QED
    BY <2>1, <2>3, <2>4, Zenon DEF PosOK, Rise
<1>5. ASSUME Contig PROVE Contig'
  <2>1. NoGap(buffer_)
    BY <1>5, Zenon DEF Contig, NoGap
  <2>2. NoGap(buffer_') /\ (buffer_' # <<>> => buffer_ # <<>> /\ buffer_'[Len(buffer_')] = buffer_[Len(buffer_)])
    BY <1>1, <1>2, <2>1, TakenHasNoGap, Zenon
  <2>. QED
    BY <1>5, <2>2, Zenon DEF Contig, NoGap
<1>6. Advances
  <2>1. fpos' \in Nat /\ fpos' >= fpos
    BY <1>1
  <2>. QED
    BY <1>3, <2>1, Zenon DEF Advances
<1>. QED
  BY <1>2, <1>3, <1>4, <1>5, <1>6, Zenon

\* The next block is read into it.
LEMMA BufferRefilled ==
  ASSUME FileInv, ReaderTypeOK, PosOK, UNCHANGED disk, ~eof_, ~read_error_, Refill(BlockSize)
  PROVE  /\ PosOK' /\ Contig' /\ Advances
         /\ buffer_' \in Seq(Nat) /\ fpos' \in Nat /\ eof_offset_' \in Nat
         /\ eof_' \/ Len(buffer_') = BlockSize
         /\ buffer_' # <<>> => buffer_'[1] = fpos + 1
<1>0. BlockSize \in Nat \ {0}
  BY FormatAssumption
<1>1. PICK chunk : chunk = Chunk(BlockSize)
  BY Zenon
<1>2. /\ chunk \in Seq(Nat) /\ Len(chunk) \in Nat /\ Len(chunk) <= BlockSize
      /\ \A i \in 1..Len(chunk) : chunk[i] = fpos + i /\ fpos + i \in 1..Len(disk)
  BY <1>0, <1>1, ChunkFacts, Zenon
<1>3. /\ buffer_' = chunk /\ fpos' = fpos + Len(chunk)
      /\ eof_' = (eof_ \/ Len(chunk) < BlockSize)
      /\ eof_offset_' = IF Len(chunk) < BlockSize THEN Len(chunk) ELSE eof_offset_
      /\ read_error_' = read_error_
  BY <1>1 DEF Refill
<1>4. fpos \in Nat /\ eof_offset_ \in Nat /\ eof_offset_ = 0
  BY Zenon DEF ReaderTypeOK, PosOK
<1>4a. Len(chunk) < BlockSize => eof_'
  BY <1>3, Zenon
<1>5. fpos' \in Nat /\ fpos' >= fpos /\ eof_offset_' \in Nat
  BY <1>2, <1>3, <1>4
<1>6. /\ Rise(chunk) /\ NoGap(chunk)
      /\ \A i \in 1..Len(chunk) : chunk[i] <= fpos + Len(chunk) /\ chunk[i] > fpos
      /\ chunk # <<>> => chunk[Len(chunk)] = fpos + Len(chunk) /\ chunk[1] = fpos + 1
  <2>1. Follow(chunk, fpos)
    BY <1>2, Zenon DEF Follow
  <2>. QED
    BY <1>2, <1>4, <2>1, FollowFacts, Zenon
<1>7. PosOK'
  <2>1. /\ Len(buffer_') <= BlockSize /\ eof_offset_' <= BlockSize
        /\ eof_offset_' # 0 => Len(buffer_') <= eof_offset_' /\ Len(chunk) < BlockSize
    BY <1>0, <1>2, <1>3, <1>4
  <2>2. ASSUME NEW i \in 1..Len(buffer_')
        PROVE  buffer_'[i] \in 1..Len(disk') /\ buffer_'[i] <= fpos'
    BY <1>2, <1>3, <1>6, Zenon
  <2>3. Rise(buffer_')
    BY <1>3, <1>6, Zenon
  <2>. QED
    BY <1>4a, <2>1, <2>2, <2>3, Zenon DEF PosOK, Rise
<1>8. Contig'
  BY <1>3, <1>6, Zenon DEF Contig, NoGap
<1>9. Advances
  BY <1>3, <1>5, <1>6, Zenon DEF Advances
<1>10. eof_' \/ Len(buffer_') = BlockSize
  <2>1. Len(chunk) < BlockSize \/ Len(chunk) = BlockSize
    BY <1>0, <1>2
  <2>. QED
    BY <1>3, <1>4a, <2>1, Zenon
<1>. QED
  BY <1>2, <1>3, <1>5, <1>6, <1>7, <1>8, <1>9, <1>10, Zenon

\* The rest of its block is added to it.
LEMMA BufferExtended ==
  ASSUME FileInv, ReaderTypeOK, PosOK, UNCHANGED disk, ~read_error_, eof_offset_ # 0,
         buffer_' = buffer_ \o Chunk(remaining),
         fpos' = fpos + Len(Chunk(remaining)),
         eof_' = (Len(Chunk(remaining)) < remaining),
         eof_offset_' = IF Len(Chunk(remaining)) < remaining
                        THEN eof_offset_ + Len(Chunk(remaining)) ELSE 0,
         UNCHANGED read_error_
  PROVE  /\ PosOK' /\ (Contig => Contig') /\ Advances
         /\ buffer_' \in Seq(Nat) /\ fpos' \in Nat /\ eof_offset_' \in Nat
<1>1. /\ fpos \in Nat /\ eof_offset_ \in Nat /\ buffer_ \in Seq(Nat) /\ Len(buffer_) \in Nat
      /\ BlockSize \in Nat
  BY FormatAssumption DEF ReaderTypeOK
<1>2. Len(buffer_) <= eof_offset_ /\ eof_offset_ <= BlockSize
  BY Zenon DEF PosOK
<1>3. remaining \in Nat /\ remaining = BlockSize - eof_offset_
  BY <1>1, <1>2 DEF remaining
<1>4. PICK chunk : chunk = Chunk(remaining)
  BY Zenon
<1>5. /\ chunk \in Seq(Nat) /\ Len(chunk) \in Nat /\ Len(chunk) <= remaining
      /\ \A i \in 1..Len(chunk) : chunk[i] = fpos + i /\ fpos + i \in 1..Len(disk)
  BY <1>3, <1>4, ChunkFacts, Zenon
<1>6. /\ buffer_' = buffer_ \o chunk /\ fpos' = fpos + Len(chunk)
      /\ eof_' = (Len(chunk) < remaining)
      /\ eof_offset_' = IF Len(chunk) < remaining THEN eof_offset_ + Len(chunk) ELSE 0
  BY <1>4, Zenon
<1>7. Follow(chunk, fpos)
  BY <1>5, Zenon DEF Follow
<1>8. Longer(buffer_', buffer_, chunk, fpos)
  BY <1>1, <1>5, <1>6, <1>7, ConcatLonger, Zenon
<1>9. fpos' \in Nat /\ fpos' >= fpos /\ eof_offset_' \in Nat
  BY <1>1, <1>3, <1>5, <1>6
<1>10. PosOK'
  <2>1. Within(buffer_, Len(disk), fpos) /\ Rise(buffer_) /\ \A i \in 1..Len(buffer_) : buffer_[i] <= fpos
    BY Zenon DEF PosOK, Within, Rise
  <2>2. Within(buffer_', Len(disk'), fpos')
    BY <1>1, <1>5, <1>6, <1>8, <2>1, LongerWithin, Zenon
  <2>3. Rise(buffer_')
    BY <1>1, <1>5, <1>8, <2>1, LongerRises, Zenon
  <2>4. Len(chunk) < remaining => eof_'
    BY <1>6, Zenon
  <2>5. Len(buffer_') = Len(buffer_) + Len(chunk)
    BY <1>8, Zenon DEF Longer
  <2>6. /\ Len(buffer_') <= BlockSize /\ eof_offset_' <= BlockSize
        /\ eof_offset_' # 0 => Len(buffer_') <= eof_offset_' /\ Len(chunk) < remaining
    BY <1>1, <1>2, <1>3, <1>5, <1>6, <2>5
  <2>. QED
    BY <2>2, <2>3, <2>4, <2>6, Zenon DEF PosOK, Within, Rise
<1>11. ASSUME Contig PROVE Contig'
  <2>1. NoGap(buffer_) /\ (buffer_ # <<>> => buffer_[Len(buffer_)] = fpos)
    BY <1>11, Zenon DEF Contig, NoGap
  <2>2. NoGap(buffer_') /\ (buffer_' # <<>> => buffer_'[Len(buffer_')] = fpos + Len(chunk))
    BY <1>1, <1>5, <1>6, <1>7, <2>1, LongerHasNoGap, ZenonT(30)
  <2>. QED
    BY <1>6, <2>2, Zenon DEF Contig, NoGap
<1>12. Advances
  <2>1. \A k \in 1..Len(chunk) : fpos + k > fpos
    BY <1>1, <1>5
  <2>. QED
    BY <1>8, <1>9, <2>1, Zenon DEF Advances, Longer
<1>. QED
  BY <1>8, <1>9, <1>10, <1>11, <1>12, Zenon DEF Longer

=============================================================================
