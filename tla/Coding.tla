-------------------------------- MODULE Coding --------------------------------
(***************************************************************************)
(* The encodings of include/rocksutil/coding.h and rutil/coding.cc: a       *)
(* client puts values into a string, and reads them from a copy of it that  *)
(* may have been cut short.                                                 *)
(*                                                                          *)
(* A byte has GroupBits + 1 bits (8 in the code), a uint32_t Width32 and a  *)
(* uint64_t Width64 of them; the numbers of groups and of bytes, and the    *)
(* overflow of the last group, follow from these as they do in the code.    *)
(* The two branches on the byte order write the same bytes, each on its own *)
(* kind of machine.                                                         *)
(***************************************************************************)
EXTENDS Naturals, Sequences, Functions

CONSTANTS
  GroupBits,      \* 7: bits of a number in a byte of a varint
  Width32,        \* 32
  Width64,        \* 64
  Value32,        \* the numbers that are put
  Value64,
  String,         \* the strings that are put
  Delimiter,      \* of GetSliceUntil, a byte
  MaxItems        \* bound on the values in one string

CodingAssumption ==
  /\ GroupBits \in Nat \ {0} /\ Width32 \in Nat \ {0} /\ Width64 \in Nat \ {0}
  /\ Width32 % (GroupBits + 1) = 0 /\ Width64 % (GroupBits + 1) = 0
  /\ Value32 \subseteq 0..(2^Width32 - 1) /\ Value64 \subseteq 0..(2^Width64 - 1)

VARIABLES
  dst,        \* the string
  items,      \* what was put into it: [kind, value]
  ends,       \* and the length of dst after each of them
  phase,      \* "put", "get", "split" or "failed"
  cut,        \* how many bytes of it the reader has
  input,      \* the Slice that is left to read
  got         \* the values that were read, or the pieces that were split off

vars == <<dst, items, ends, phase, cut, input, got>>

B == 2^GroupBits
ByteBase == 2 * B
Fixed32Bytes == Width32 \div (GroupBits + 1)
Fixed64Bytes == Width64 \div (GroupBits + 1)
Varint32Bytes == (Width32 + GroupBits - 1) \div GroupBits
Varint64Bytes == (Width64 + GroupBits - 1) \div GroupBits

-----------------------------------------------------------------------------
(* Numbers to bytes and back.                                              *)

\* v | B, of which a byte is kept
More(v) == (v % B) + B

\* Mutant: the first threshold is off by one.
EncodeVarint32Late(v) ==
  LET n == CHOOSE k \in 1..Varint32Bytes :
             /\ v <= B^k \/ k = Varint32Bytes
             /\ \A j \in 1..(k - 1) : v > B^j
  IN  [i \in 1..n |-> IF i < n THEN More(v \div B^(i - 1)) ELSE v \div B^(n - 1)]

\* The first of the thresholds that v is below decides over the number of bytes.
EncodeVarint32(v) ==
  LET n == CHOOSE k \in 1..Varint32Bytes :
             /\ v < B^k \/ k = Varint32Bytes
             /\ \A j \in 1..(k - 1) : v >= B^j
  IN  [i \in 1..n |-> IF i < n THEN More(v \div B^(i - 1)) ELSE v \div B^(n - 1)]

EncodeVarint64(v) ==
  LET Loop[w \in Nat] == IF w >= B THEN <<More(w)>> \o Loop[w \div B] ELSE <<w>> IN Loop[v]

VarintLength(v) ==
  LET Loop[w \in Nat] == IF w >= B THEN 1 + Loop[w \div B] ELSE 1 IN Loop[v]

Failure(rest) == [ok |-> FALSE, rest |-> rest]
Success(v, rest) == [ok |-> TRUE, value |-> v, rest |-> rest]

\* Mutant: the loop stops at the end of the group before the last.
WithinEarly(shift, width) == shift + GroupBits < width

\* shift <= 28, and shift <= 63
Within(shift, width) == shift < width

\* The loop of GetVarint32PtrFallback and of GetVarint64Ptr: it ends at the first byte
\* below B, if it gets there, and the bits that are shifted out of the number are lost.
\* A Slice moves only when its number is read.
VarintLoop(s, width) ==
  LET Shift(k) == (k - 1) * GroupBits
      Result[k \in 0..Len(s)] ==
        IF k = 0 THEN 0 ELSE Result[k - 1] + (((s[k] % B) * 2^Shift(k)) % 2^width)
      last == {k \in 1..Len(s) : s[k] < B /\ Within(Shift(k), width) /\ \A j \in 1..(k - 1) : s[j] >= B}
  IN  IF last = {} THEN Failure(s)
      ELSE LET k == CHOOSE k \in last : TRUE IN Success(Result[k], SubSeq(s, k + 1, Len(s)))

GetVarint32(s) ==
  IF s # <<>> /\ Head(s) < B THEN Success(Head(s), Tail(s))
  ELSE VarintLoop(s, Width32)

GetVarint64(s) == VarintLoop(s, Width64)

\* EncodeFixed32, EncodeFixed64
EncodeFixed(v, n) == [i \in 1..n |-> (v \div ByteBase^(i - 1)) % ByteBase]

\* DecodeFixed32, DecodeFixed64
DecodeFixed(s, n) == SumFunction([i \in 1..n |-> s[i] * ByteBase^(i - 1)])

\* The bytes of a number in memory, least significant first, are taken for those of
\* a number from the other end.
EndianTransform(v, n) ==
  SumFunction([i \in 1..n |-> EncodeFixed(v, n)[i] * ByteBase^(n - i)])

-----------------------------------------------------------------------------
(* Put.                                                                    *)

\* Strings one behind the other
Joined(ss) ==
  LET First[n \in 0..Len(ss)] == IF n = 0 THEN <<>> ELSE First[n - 1] \o ss[n] IN First[Len(ss)]

Init ==
  /\ dst = <<>> /\ items = <<>> /\ ends = <<>>
  /\ phase = "put" /\ cut = 0 /\ input = <<>> /\ got = <<>>

Puts(kind, value, bytes) ==
  /\ phase = "put" /\ Len(items) < MaxItems
  /\ dst' = dst \o bytes
  /\ items' = Append(items, [kind |-> kind, value |-> value])
  /\ ends' = Append(ends, Len(dst'))
  /\ UNCHANGED <<phase, cut, input, got>>

PutFixed32(v) == Puts("fixed32", v, EncodeFixed(v, Fixed32Bytes))

PutFixed64(v) == Puts("fixed64", v, EncodeFixed(v, Fixed64Bytes))

\* A number whose bytes are put the other way round, as keys that are compared are
PutEndian(v) == Puts("endian", v, EncodeFixed(EndianTransform(v, Fixed64Bytes), Fixed64Bytes))

Encoded(item) ==
  IF item.kind = "varint32" THEN EncodeVarint32(item.value) ELSE EncodeVarint64(item.value)

\* PutVarint32, PutVarint64, and PutVarint32Varint32 and its kind: several numbers are
\* encoded one behind the other in a buffer, which is appended.
PutVarints(numbers) ==
  /\ phase = "put" /\ Len(items) + Len(numbers) <= MaxItems
  /\ LET encoded == [i \in DOMAIN numbers |-> Encoded(numbers[i])] IN
     /\ dst' = dst \o Joined(encoded)
     /\ ends' = ends \o [i \in DOMAIN numbers |->
                           Len(dst) + Len(Joined(SubSeq(encoded, 1, i)))]
  /\ items' = items \o numbers
  /\ UNCHANGED <<phase, cut, input, got>>

Number32 == [kind : {"varint32"}, value : Value32]
Number64 == [kind : {"varint64"}, value : Value64]

\* The argument lists that there are functions for
Numbers ==
  {<<a>> : a \in Number32 \cup Number64}
    \cup {<<a, b>> : a \in Number32, b \in Number32 \cup Number64}
    \cup {<<a, b>> : a, b \in Number64}
    \cup {<<a, b, c>> : a, b \in Number32, c \in Number32 \cup Number64}

PutLengthPrefixedSlice(s) == Puts("slice", s, EncodeVarint32(Len(s)) \o s)

PutLengthPrefixedSliceParts(parts) ==
  Puts("slice", Joined(parts),
       EncodeVarint32(SumFunction([i \in DOMAIN parts |-> Len(parts[i])])) \o Joined(parts))

Put ==
  \/ \E v \in Value32 : PutFixed32(v)
  \/ \E v \in Value64 : PutFixed64(v) \/ PutEndian(v)
  \/ \E numbers \in Numbers : PutVarints(numbers)
  \/ \E s \in String : PutLengthPrefixedSlice(s)
  \/ \E s, t \in String : PutLengthPrefixedSliceParts(<<s, t>>)

-----------------------------------------------------------------------------
(* Get.                                                                    *)

\* The string is read from the start, as far as it came.
Cut(n) ==
  /\ phase = "put" /\ items # <<>>
  /\ phase' = "get" /\ cut' = n /\ input' = SubSeq(dst, 1, n)
  /\ UNCHANGED <<dst, items, ends, got>>

\* The length is tested before a number is decoded: by GetFixed64, and by those who
\* call DecodeFixed32.
GetFixed(s, n) ==
  IF Len(s) < n THEN Failure(s) ELSE Success(DecodeFixed(s, n), SubSeq(s, n + 1, Len(s)))

GetEndian(s) ==
  LET r == GetFixed(s, Fixed64Bytes) IN
  IF r.ok THEN Success(EndianTransform(r.value, Fixed64Bytes), r.rest) ELSE r

\* A slice that is too short leaves the input behind its length.
GetLengthPrefixedSlice(s) ==
  LET r == GetVarint32(s) IN
  IF r.ok /\ Len(r.rest) >= r.value
  THEN Success(SubSeq(r.rest, 1, r.value), SubSeq(r.rest, r.value + 1, Len(r.rest)))
  ELSE Failure(r.rest)

\* The results of reading an item from s. Small numbers may be read with either width.
Reads(item, s) ==
  CASE item.kind = "fixed32" -> {GetFixed(s, Fixed32Bytes)}
    [] item.kind = "fixed64" -> {GetFixed(s, Fixed64Bytes)}
    [] item.kind = "endian" -> {GetEndian(s)}
    [] item.kind = "varint32" -> {GetVarint32(s), GetVarint64(s)}
    [] item.kind = "varint64" ->
         {GetVarint64(s)} \cup (IF item.value < 2^Width32 THEN {GetVarint32(s)} ELSE {})
    [] item.kind = "slice" -> {GetLengthPrefixedSlice(s)}

\* The next value is read as what it was put as.
Get ==
  /\ phase = "get" /\ Len(got) < Len(items)
  /\ \E r \in Reads(items[Len(got) + 1], input) :
       /\ input' = r.rest
       /\ IF r.ok THEN got' = Append(got, r.value) /\ UNCHANGED phase
                  ELSE phase' = "failed" /\ UNCHANGED got
  /\ UNCHANGED <<dst, items, ends, cut>>

\* Or the string is taken apart at a delimiter.
Split ==
  /\ phase = "put"
  /\ phase' = "split" /\ input' = dst
  /\ UNCHANGED <<dst, items, ends, cut, got>>

GetSliceUntil ==
  /\ phase = "split" /\ input # <<>>
  /\ LET len == CHOOSE n \in 0..Len(input) :
                  /\ n = Len(input) \/ input[n + 1] = Delimiter
                  /\ \A i \in 1..n : input[i] # Delimiter
     IN
     /\ got' = Append(got, SubSeq(input, 1, len))
     /\ input' = SubSeq(input, len + 1 + (IF len < Len(input) THEN 1 ELSE 0), Len(input))
  /\ UNCHANGED <<dst, items, ends, phase, cut>>

-----------------------------------------------------------------------------

Next == Put \/ (\E n \in 0..Len(dst) : Cut(n)) \/ Get \/ Split \/ GetSliceUntil

Spec == Init /\ [][Next]_vars

-----------------------------------------------------------------------------
(* Properties.                                                             *)

\* The values that are read are those that were put, in their order, whatever stands
\* before and behind them, and a read fails only for a value that the cut has damaged.
ValuesComeBack ==
  phase \in {"get", "failed"} =>
    /\ \A i \in 1..Len(got) : got[i] = items[i].value
    /\ phase = "failed" => cut < ends[Len(got) + 1]

\* A varint has the length that VarintLength says, and at most 5 or 10 bytes in the
\* code's sizes, for which the buffers are made.
LengthsAreKnown ==
  \A i \in 1..Len(items) :
    LET length == ends[i] - (IF i = 1 THEN 0 ELSE ends[i - 1])
        item == items[i]
    IN  /\ item.kind = "varint32" => length = VarintLength(item.value) /\ length <= Varint32Bytes
        /\ item.kind = "varint64" => length = VarintLength(item.value) /\ length <= Varint64Bytes

\* GetSliceUntil loses nothing but the delimiters.
PiecesMakeTheWhole ==
  phase = "split" =>
    Joined([i \in 1..Len(got) |-> Append(got[i], Delimiter)]) \o input
      \in {dst, Append(dst, Delimiter)}

\* Put and Get fit together: the values, the lengths that VarintLength tells before they
\* are put, and the pieces between delimiters.
PutIsGot == ValuesComeBack /\ LengthsAreKnown /\ PiecesMakeTheWhole
=============================================================================
