------------------------------- MODULE Inflate ------------------------------
(***************************************************************************)
(* DEFLATE and its gzip and zlib wrappers (crates/mocha_gzip), bit by bit. *)
(* A stream is a sequence of bytes and a position in it counts bits, the   *)
(* lowest bit of a byte first; what is read at a position is [ok, at, v]:  *)
(* the position behind it, or none, since the bits run out or mean         *)
(* nothing.                                                                *)
(***************************************************************************)
EXTENDS Integers, SequencesExt

Got(at, v) == [ok |-> TRUE, at |-> at, v |-> v]
Failed == [ok |-> FALSE, at |-> 0, v |-> 0]
\* F of v, for a v that is used more than once
With(v, F(_)) == CHOOSE r \in {F(x) : x \in {v}} : TRUE

Bit(bytes, p) == (bytes[(p \div 8) + 1] \div 2 ^ (p % 8)) % 2
Room(bytes) == 8 * Len(bytes)
Aligned(p) == 8 * ((p + 7) \div 8)

Sum0(f) == FoldFunctionOnSet(+, 0, f, DOMAIN f)

\* n bits, the lowest first
Take(bytes, p, n) ==
  IF p + n > Room(bytes) THEN Failed ELSE Got(p + n, Sum0([i \in 0 .. n - 1 |-> 2 ^ i * Bit(bytes, p + i)]))

-----------------------------------------------------------------------------
(***************************************************************************)
(* Canonical Huffman codes.  lengths[s + 1] is the length of the code of   *)
(* symbol s, 0 for none.  A table has, for each length of a code, how many *)
(* there are, the first of them and the place of its symbol; and the       *)
(* symbols by length and number.                                           *)
(***************************************************************************)
CodeSizes == 1 .. 15

Shorter(count, l) == Sum0([k \in 1 .. l - 1 |-> count[k]])

\* each shorter code counts for all those it would start
FirstCode(count, l) == Sum0([k \in 1 .. l - 1 |-> count[k] * 2 ^ (l - k)])

CountOf(lengths) == [l \in CodeSizes |-> Len(SelectSeq(lengths, LAMBDA x : x = l))]

OverSubscribed(lengths) == With(CountOf(lengths), LAMBDA count : \E l \in CodeSizes : FirstCode(count, l) + count[l] > 2 ^ l)

Huffman(lengths) ==
  With(CountOf(lengths), LAMBDA count :
    [count |-> count,
     first |-> [l \in CodeSizes |-> FirstCode(count, l)],
     index |-> [l \in CodeSizes |-> Shorter(count, l)],
     symbols |-> FlattenSeq([l \in CodeSizes |->
                   SelectSeq([s \in DOMAIN lengths |-> s - 1], LAMBDA s : lengths[s + 1] = l)])])

\* The symbol whose code starts at p: its bits come highest first.
Decode(table, bytes, p) ==
  LET code[l \in 0 .. 15] == IF l = 0 THEN 0 ELSE 2 * code[l - 1] + Bit(bytes, p + l - 1)
      l == SelectInSeq([i \in CodeSizes |-> i], LAMBDA i :
             p + i > Room(bytes) \/ code[i] - table.first[i] < table.count[i])
  IN IF l = 0 \/ p + l > Room(bytes) THEN Failed
     ELSE Got(p + l, table.symbols[table.index[l] + code[l] - table.first[l] + 1])

-----------------------------------------------------------------------------
(***************************************************************************)
(* Blocks.                                                                 *)
(***************************************************************************)
LengthExtra == <<0, 0, 0, 0, 0, 0, 0, 0, 1, 1, 1, 1, 2, 2, 2, 2, 3, 3, 3, 3, 4, 4, 4, 4, 5, 5, 5, 5, 0>>
DistanceExtra == [i \in 1 .. 30 |-> IF i <= 2 THEN 0 ELSE (i - 3) \div 2]
\* each base is the one before it and what its extra bits reach; the last length is 258
Bases(extra, from) ==
  LET base[i \in DOMAIN extra] == IF i = 1 THEN from ELSE base[i - 1] + 2 ^ extra[i - 1] IN base
LengthBase == [Bases(LengthExtra, 3) EXCEPT ![29] = 258]
DistanceBase == Bases(DistanceExtra, 1)

(* A base and the extra bits behind p. *)
Extended(base, extra, i, bytes, p) ==
  IF i \notin DOMAIN base THEN Failed
  ELSE With(Take(bytes, p, extra[i]), LAMBDA more : IF more.ok THEN Got(more.at, base[i] + more.v) ELSE Failed)

FixedLengths == [s \in 1 .. 288 |-> CASE s <= 144 -> 8 [] s <= 256 -> 9 [] s <= 280 -> 7 [] OTHER -> 8]
FixedTables == [literal |-> Huffman(FixedLengths), distance |-> Huffman([s \in 1 .. 30 |-> 5])]

CodeLengthOrder == <<16, 17, 18, 0, 8, 7, 9, 6, 10, 5, 11, 4, 12, 3, 13, 2, 14, 1, 15>>

(* One symbol of the run-length code of the code lengths, and the lengths  *)
(* it stands for.                                                          *)
Repeated(bytes, got, lengths) ==
  LET Run(bits, from, v) == With(Take(bytes, got.at, bits), LAMBDA n :
                              IF n.ok THEN Got(n.at, lengths \o [i \in 1 .. from + n.v |-> v]) ELSE Failed)
  IN CASE got.v < 16 -> Got(got.at, Append(lengths, got.v))
       [] got.v = 16 -> IF lengths = << >> THEN Failed ELSE Run(2, 3, Last(lengths))
       [] got.v = 17 -> Run(3, 3, 0)
       [] got.v = 18 -> Run(7, 11, 0)

(* What stands in front of a dynamic block: how many lengths of each kind  *)
(* follow, and the code they are written in.                               *)
ReadDynamicHeader(bytes, p) ==
  With(<<Take(bytes, p, 5).v + 257, Take(bytes, p + 5, 5).v + 1, Take(bytes, p + 10, 4)>>, LAMBDA n :
    LET end == p + 14 + 3 * (n[3].v + 4)
        Place(s) == SelectInSeq(CodeLengthOrder, LAMBDA o : o = s)
        lengths == [s \in 1 .. 19 |-> IF Place(s - 1) > n[3].v + 4 THEN 0
                                      ELSE Take(bytes, p + 14 + 3 * (Place(s - 1) - 1), 3).v]
    IN IF ~n[3].ok \/ n[1] > 286 \/ n[2] > 30 \/ end > Room(bytes) THEN Failed
       ELSE IF OverSubscribed(lengths) THEN Failed
       ELSE Got(end, [literals |-> n[1], distances |-> n[2], codes |-> Huffman(lengths), lengths |-> << >>]))

AllLengths(d) == Len(d.lengths) >= d.literals + d.distances

ReadCodeLength(bytes, p, d) ==
  With(Decode(d.codes, bytes, p), LAMBDA s :
    IF ~s.ok THEN Failed
    ELSE With(Repeated(bytes, s, d.lengths), LAMBDA r : IF r.ok THEN Got(r.at, [d EXCEPT !.lengths = r.v]) ELSE Failed))

\* the tables that all the lengths describe
DynamicTables(d, p) ==
  With(<<SubSeq(d.lengths, 1, d.literals), SubSeq(d.lengths, d.literals + 1, Len(d.lengths))>>, LAMBDA l :
    IF Len(d.lengths) # d.literals + d.distances \/ d.lengths[257] = 0 THEN Failed
    ELSE IF OverSubscribed(l[1]) \/ OverSubscribed(l[2]) THEN Failed
    ELSE Got(p, [literal |-> Huffman(l[1]), distance |-> Huffman(l[2])]))

(* A stored block, from the byte behind its type on. *)
StoredBlock(bytes, p) ==
  With(Take(bytes, p, 16), LAMBDA len :
  With(Take(bytes, p + 16, 16), LAMBDA nlen :
    IF ~nlen.ok THEN Failed
    ELSE IF len.v + nlen.v # 65535 \/ p + 32 + 8 * len.v > Room(bytes) THEN Failed
    ELSE Got(p + 32 + 8 * len.v, SubSeq(bytes, p \div 8 + 5, p \div 8 + 4 + len.v))))

(* A length and a distance back, behind the length symbol. *)
Match(tables, bytes, symbol, p) ==
  With(Extended(LengthBase, LengthExtra, symbol - 256, bytes, p), LAMBDA length :
    IF ~length.ok THEN Failed
    ELSE With(Decode(tables.distance, bytes, length.at), LAMBDA s :
           IF ~s.ok THEN Failed
           ELSE With(Extended(DistanceBase, DistanceExtra, s.v + 1, bytes, s.at), LAMBDA d :
                  IF d.ok THEN Got(d.at, [length |-> length.v, distance |-> d.v]) ELSE Failed)))

\* Byte by byte: a copy longer than the distance repeats itself.
Copied(output, length, distance) ==
  output \o [i \in 1 .. length |-> output[Len(output) - distance + 1 + ((i - 1) % distance)]]

-----------------------------------------------------------------------------
(***************************************************************************)
(* Checksums.  A CRC is the set of its bits, the lowest 0.                 *)
(***************************************************************************)
CrcTaps == {31 - i : i \in {0, 1, 2, 4, 5, 7, 8, 10, 11, 12, 16, 22, 23, 26}}

Bits(bytes, p, n) == {i \in 0 .. n - 1 : Bit(bytes, p + i) = 1}

CrcBit(c, bit) == SymDiff({i - 1 : i \in c \ {0}}, IF (0 \in c) = (bit = 1) THEN {} ELSE CrcTaps)
CrcByte(c, byte) ==
  LET crc[k \in 0 .. 8] == IF k = 0 THEN c ELSE With(crc[k - 1], LAMBDA d : CrcBit(d, Bit(<<byte>>, k - 1))) IN crc[8]

Crc32(output) ==
  LET crc[k \in 0 .. Len(output)] == IF k = 0 THEN 0 .. 31 ELSE With(crc[k - 1], LAMBDA c : CrcByte(c, output[k]))
  IN (0 .. 31) \ crc[Len(output)]

Adler32(output) ==
  FoldLeft(LAMBDA s, byte : LET a == (s.a + byte) % 65521 IN [a |-> a, b |-> (s.b + a) % 65521], [a |-> 1, b |-> 0], output)

(***************************************************************************)
(* Wrappers: where the DEFLATE data starts, and what must follow it.       *)
(***************************************************************************)
Flag(bytes, i) == Bit(bytes, 24 + i)

\* behind a text that ends with a zero byte
BehindZero(bytes, i) ==
  IF i > Len(bytes) THEN 0 ELSE LET z == SelectInSubSeq(bytes, i, Len(bytes), LAMBDA b : b = 0) IN IF z = 0 THEN 0 ELSE z + 1

(* The byte behind a gzip header, 0 for a header that is not one. *)
GzipStart(bytes) ==
  LET extra == IF Flag(bytes, 2) = 0 THEN 11
               ELSE IF Len(bytes) < 12 THEN 0
               ELSE IF Len(bytes) < 12 + Take(bytes, 80, 16).v THEN 0 ELSE 13 + Take(bytes, 80, 16).v
      name == IF extra = 0 \/ Flag(bytes, 3) = 0 THEN extra ELSE BehindZero(bytes, extra)
      comment == IF name = 0 \/ Flag(bytes, 4) = 0 THEN name ELSE BehindZero(bytes, name)
  IN IF Len(bytes) < 10 THEN 0
     ELSE IF SubSeq(bytes, 1, 3) # <<31, 139, 8>> \/ bytes[4] >= 32 THEN 0
     ELSE IF comment = 0 \/ Flag(bytes, 1) = 0 THEN comment
     ELSE IF Len(bytes) < comment + 1 THEN 0
     ELSE IF Bits(bytes, 8 * (comment - 1), 16) = Crc32(SubSeq(bytes, 1, comment - 1)) \cap (0 .. 15) THEN comment + 2
     ELSE 0

(* The checksum and the size end the stream. *)
GzipTrailer(bytes, p, output) ==
  /\ p + 64 = Room(bytes)
  /\ Bits(bytes, p, 32) = Crc32(output)
  /\ Take(bytes, p + 32, 16).v = Len(output) /\ Take(bytes, p + 48, 16).v = 0

\* method 8, no dictionary, and the two bytes a multiple of 31
IsZlibHeader(bytes) ==
  /\ Len(bytes) >= 2 /\ bytes[1] % 16 = 8 /\ Bit(bytes, 13) = 0
  /\ (256 * bytes[1] + bytes[2]) % 31 = 0

(* The checksum, highest byte first; what follows it is not looked at. *)
ZlibTrailer(bytes, p, output) ==
  LET i == p \div 8
  IN /\ p + 32 <= Room(bytes)
     /\ 256 * bytes[i + 1] + bytes[i + 2] = Adler32(output).b
     /\ 256 * bytes[i + 3] + bytes[i + 4] = Adler32(output).a

-----------------------------------------------------------------------------
(***************************************************************************)
(* The encoder that stores: one block for up to 65535 bytes, in a wrapper. *)
(***************************************************************************)
LowFirst(n) == <<n % 256, n \div 256>>
Stored(bytes) == <<1>> \o LowFirst(Len(bytes)) \o LowFirst(65535 - Len(bytes)) \o bytes

GzipCompressStored(bytes) ==
  LET crc == Crc32(bytes)
      Byte(k) == Sum0([i \in 0 .. 7 |-> IF 8 * k + i \in crc THEN 2 ^ i ELSE 0])
  IN <<31, 139, 8, 0, 0, 0, 0, 0, 0, 255>> \o Stored(bytes)
       \o <<Byte(0), Byte(1), Byte(2), Byte(3)>> \o LowFirst(Len(bytes)) \o <<0, 0>>

ZlibCompressStored(bytes) ==
  LET sum == Adler32(bytes)
  IN <<120, 1>> \o Stored(bytes) \o Reverse(LowFirst(sum.b)) \o Reverse(LowFirst(sum.a))
=============================================================================
