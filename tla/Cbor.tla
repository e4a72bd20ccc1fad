-------------------------------- MODULE Cbor --------------------------------
(***************************************************************************)
(* The subset of CBOR that dontlie.scitt writes and reads: integers, byte  *)
(* and text strings, lists, maps, true, false and null.  What is signed is *)
(* an encoding, so the encoding must determine the value.                  *)
(*                                                                         *)
(* Bound: integers below 2^31, of at most four bytes.  A text is the bytes *)
(* of its UTF-8 form.                                                      *)
(***************************************************************************)
EXTENDS Integers, Lists

CONSTANTS
  Integer, Lengths,   \* the integers, and lengths of strings, tried
  MaxLevels           \* bound: a value, what is in it, what is in that, ...

Greatest31 == 2147483647

ASSUME CborAssumption ==
  /\ Integer \subseteq (-1 - Greatest31)..Greatest31 /\ IsFiniteSet(Integer)
  /\ Lengths \subseteq 0..Greatest31
  /\ MaxLevels \in Nat /\ MaxLevels >= 3

VARIABLES
  sample,       \* a value
  decoded       \* what it was read back as; <<>> before

cborVars == <<sample, decoded>>

-----------------------------------------------------------------------------
(* Writing *)

\* Fault variant: 24 is still written into the first byte.
HeadToTwentyFour(major, n) ==
  IF n <= 24 THEN <<major * 32 + n>>
  ELSE IF n <= 255 THEN <<major * 32 + 24, n>>
  ELSE IF n <= 65535 THEN <<major * 32 + 25, n \div 256, n % 256>>
  ELSE <<major * 32 + 26, n \div 16777216, (n \div 65536) % 256, (n \div 256) % 256, n % 256>>

\* The major type and the shortest form of a number: inside the first byte up
\* to 23, else in one, two or four bytes after it.
CborHead(major, n) ==
  IF n <= 23 THEN <<major * 32 + n>>
  ELSE IF n <= 255 THEN <<major * 32 + 24, n>>
  ELSE IF n <= 65535 THEN <<major * 32 + 25, n \div 256, n % 256>>
  ELSE <<major * 32 + 26, n \div 16777216, (n \div 65536) % 256, (n \div 256) % 256, n % 256>>

Octet == 0..255

\* Order of Python's bytes: by the first place where they differ.
Precedes(a, b) ==
  \E i \in DOMAIN b :
    /\ \A j \in 1..(i - 1) : j \in DOMAIN a /\ a[j] = b[j]
    /\ i \in DOMAIN a => a[i] < b[i]

Scalars ==
  [form : {"int"}, holds : Int] \cup [form : {"bytes", "text"}, holds : Seq(Octet)]
    \cup [form : {"simple"}, holds : {20, 21, 22}]

\* Scalars, and lists and maps of what is in values; a map is a set of pairs.
Nested(values) ==
  Scalars \cup [form : {"list"}, holds : Seq(values)]
          \cup [form : {"map"}, holds : SUBSET (values \X values)]

\* The keys and the values of a list of pairs, in turn.
InTurn(pairs) ==
  [i \in 1..(2 * Len(pairs)) |-> pairs[(i + 1) \div 2][IF i % 2 = 1 THEN 1 ELSE 2]]

\* One after the other, as inner writes each.
Written(items, inner) ==
  Looped([i \in DOMAIN items |-> [bytes \in Seq(Octet) |-> bytes \o inner[items[i]]]], <<>>)

\* cbor_encode, with inner for what is in a list or a map.  The pairs of a map
\* go in the order of their encoded keys.
Writer(inner) ==
  [value \in Nested(DOMAIN inner) |->
     LET of == value.holds
         Before == {pair \in of \X of : Precedes(inner[pair[1][1]], inner[pair[2][1]])}
     IN CASE value.form = "int" /\ of >= 0 -> CborHead(0, of)
          [] value.form = "int" /\ of < 0  -> CborHead(1, -1 - of)
          [] value.form = "bytes"  -> CborHead(2, Len(of)) \o of
          [] value.form = "text"   -> CborHead(3, Len(of)) \o of
          [] value.form = "list"   -> CborHead(4, Len(of)) \o Written(of, inner)
          [] value.form = "map"    -> CborHead(5, Cardinality(of)) \o Written(InTurn(Sorted(of, Before)), inner)
          [] value.form = "simple" -> <<7 * 32 + of>>]

-----------------------------------------------------------------------------
(* Reading; positions count from 1 *)

Fails == [ok |-> FALSE]
Reads(value, pos) == [ok |-> TRUE, value |-> value, pos |-> pos]
Positions == Nat \ {0}
Outcomes(values) == {Fails} \cup {Reads(value, pos) : value \in values, pos \in Positions}

BytesAt(data, pos, n) == SubSeq(data, pos, pos + n - 1)

\* The number in some bytes, the highest first.
BigEndian(bytes) ==
  Looped([i \in DOMAIN bytes |-> [sum \in Nat |-> sum * 256 + bytes[i]]], 0)

ReadIntAt(data, pos, info) ==
  LET size == CASE info <= 23 -> 0 [] info = 24 -> 1 [] info = 25 -> 2 [] info = 26 -> 4 [] OTHER -> 8
  IN IF info > 27 \/ pos + size - 1 > Len(data) THEN Fails
     ELSE IF size = 0 THEN Reads(info, pos)
     ELSE Reads(BigEndian(BytesAt(data, pos, size)), pos + size)

\* So many items from a position on, as inner reads each.
ReadItems(data, pos, count, inner, values) ==
  LET Item == [got \in [ok : BOOLEAN, value : Seq(values), pos : Positions] |->
                 LET item == inner[<<data, got.pos>>]
                 IN  IF got.ok /\ item.ok
                     THEN Reads(Append(got.value, item.value), item.pos)
                     ELSE [got EXCEPT !.ok = FALSE]]
  IN  Looped([i \in 1..count |-> Item], Reads(<<>>, pos))

\* Of two pairs with the same key the later one stays.
AsMap(items, n) ==
  {<<items[2 * i - 1], items[2 * i]>> :
     i \in {k \in 1..n : \A l \in (k + 1)..n : items[2 * l - 1] # items[2 * k - 1]}}

\* _cbor_read_any, with inner for what is in a list or a map: values.  An end of
\* input inside a value is an error.
ReadValue(data, pos, inner, values) ==
  IF pos > Len(data) THEN Fails
  ELSE LET major == data[pos] \div 32
           info == data[pos] % 32
           number == ReadIntAt(data, pos + 1, info)
           n == number.value
           items == ReadItems(data, number.pos, IF major = 5 THEN 2 * n ELSE n, inner, values)
           As(kind, of) == [form |-> kind, holds |-> of]
       IN CASE major \in {0, 1} /\ number.ok ->
                 Reads(As("int", IF major = 0 THEN n ELSE -1 - n), number.pos)
            [] major \in {2, 3} /\ number.ok /\ number.pos + n - 1 <= Len(data) ->
                 Reads(As(IF major = 2 THEN "bytes" ELSE "text", BytesAt(data, number.pos, n)), number.pos + n)
            [] major = 4 /\ number.ok /\ items.ok -> Reads(As("list", items.value), items.pos)
            [] major = 5 /\ number.ok /\ items.ok -> Reads(As("map", AsMap(items.value, n)), items.pos)
            [] major = 7 /\ info \in {20, 21, 22} -> Reads(As("simple", info), pos + 1)
            [] OTHER -> Fails

Reader(inner, values) ==
  [at \in Seq(Octet) \X Positions |-> ReadValue(at[1], at[2], inner, values)]

\* What writes and reads the scalars, and lists and maps of what level writes
\* and reads.
Around(level) ==
  [writes |-> Writer(level.writes), reads |-> Reader(level.reads, level.values),
   values |-> Nested(level.values)]

Level[k \in 0..MaxLevels] ==
  IF k = 0 THEN [writes |-> <<>>, reads |-> [at \in Seq(Octet) \X Positions |-> Fails], values |-> {}]
  ELSE Around(Level[k - 1])

CborEncode == Level[MaxLevels].writes
ReadAny == Level[MaxLevels].reads

-----------------------------------------------------------------------------
Plain ==
  [form : {"int"}, holds : Integer]
    \cup [form : {"bytes", "text"}, holds : {[i \in 1..n |-> 7] : n \in Lengths}]
    \cup [form : {"simple"}, holds : {20, 21, 22}]

Headers == {S \in SUBSET [form : {"int"}, holds : Integer] : Cardinality(S) <= 2}

Samples ==
  LET plain == Plain IN
  plain \cup {[form |-> "list", holds |-> <<a, b>>] : a, b \in plain}
        \cup {[form |-> "list", holds |-> [i \in 1..n |-> [form |-> "int", holds |-> 1]]] : n \in Lengths \cap 0..24}
        \cup {[form |-> "map", holds |-> {<<k, [form |-> "list", holds |-> <<k>>]>> : k \in keys}] : keys \in Headers}

CborInit == sample \in Samples /\ decoded = <<>>

\* A value is written, and read back from the front of a longer input.
CborNext ==
  /\ decoded = <<>>
  /\ decoded' = <<ReadAny[<<CborEncode[sample] \o <<0>>, 1>>]>>
  /\ UNCHANGED sample

-----------------------------------------------------------------------------
\* What is written is read back as the same value, to its last byte and no
\* further, so that no two values have one encoding; nothing that stops short
\* of it is read as a value.
EncodingExact ==
  decoded # <<>> =>
    LET bytes == CborEncode[sample] IN
    /\ decoded[1] = Reads(sample, Len(bytes) + 1)
    /\ \A n \in {0, 1, 2, 3, Len(bytes) - 1} : n < Len(bytes) => ~ ReadAny[<<SubSeq(bytes, 1, n), 1>>].ok
=============================================================================
