------------------------------ MODULE XzFormat ------------------------------
(***************************************************************************)
(* The .xz container: what src/src/enc/xz_enc.rs writes and what the       *)
(* parsers of src/src/xz take apart.  A file is a sequence of cells.  A    *)
(* cell is a tuple whose first field names its kind:                       *)
(*                                                                         *)
(*   <<"b", n>>               a byte whose value matters: the null byte,   *)
(*                            a size byte, a digit of a VLI                *)
(*   <<"magic">>, <<"flags", chk>>, <<"back", n>>, <<"foot", chk>>         *)
(*                            the fields of a stream header and footer     *)
(*   <<"hdr", c, u, f>>       a block header's fields: the sizes it        *)
(*                            declares (None if not) and its filters, each *)
(*                            an id followed by its properties             *)
(*   <<"h", n>>, <<"d", s>>   an LZMA2 chunk header (n bytes follow), and  *)
(*                            a cell of packed data that decodes to s      *)
(*   <<"crc", s>>, <<"chk", s>>   a cell of the CRC-32 or the check of s   *)
(*   <<"bad">>                a cell that corruption has left              *)
(*                                                                         *)
(* A checksum is perfect: it holds what it covers.  The format's unit of   *)
(* four bytes is Align cells, so that sizes, padding and offsets are       *)
(* computed as the code computes them.                                     *)
(***************************************************************************)
EXTENDS Integers, Sequences, SequencesExt, FiniteSets, FiniteSetsExt

CONSTANTS
    VliBase,        \* a VLI digit holds log2(VliBase) bits; 2^7 in the code
    VliMax,         \* the most digits of a VLI; nine in the code
    Radix           \* a byte of data is a number below Radix; 2^8 in the code

ASSUME FormatAssumption ==
    /\ VliBase \in Nat \ {0, 1}
    /\ VliMax \in Nat \ {0}
    /\ Radix \in Nat \ {0, 1}

Align == 2                          \* the unit of four bytes
StreamHeaderSize == 2 * Align       \* twelve bytes in the code
StreamFooterSize == 2 * Align
MinUnpadded == 5                    \* the least a block can be, unpadded
None == -1                          \* a size that a block header leaves out

Least(a, b) == IF a < b THEN a ELSE b
Most(a, b) == IF a > b THEN a ELSE b
FirstN(s, n) == SubSeq(s, 1, n)
Drop(s, n) == SubSeq(s, n + 1, Len(s))

Byte(n) == <<"b", n>>
Null == Byte(0)
Nulls(n) == [i \in 1 .. n |-> Null]
Bad == <<"bad">>

(* Null bytes up to the next multiple of four. *)
PadLen(n) == (Align - (n % Align)) % Align

(* The four bytes of a CRC-32 over `cells`. *)
Crc(cells) == [i \in 1 .. Align |-> <<"crc", cells>>]

-----------------------------------------------------------------------------
(* Variable-length integers.                                               *)

EncodedLen(n) == Min({k \in 1 .. VliMax : n < VliBase ^ k} \cup {VliMax})

(* The least significant digit first; every digit but the last continues.  *)
Vli(n) ==
    LET k == EncodedLen(n)
    IN  [i \in 1 .. k |->
            Byte(((n \div VliBase ^ (i - 1)) % VliBase)
                    + (IF i < k THEN VliBase ELSE 0))]

(* vli::decode: the value at the front of `buf` and its length, or ok      *)
(* FALSE for an integer that is cut short, too long or not the shortest    *)
(* encoding of its value.                                                  *)
VliLen(buf) ==
    Min({i \in 1 .. Least(VliMax, Len(buf)) : buf[i][1] # "b" \/ buf[i][2] < VliBase}
          \cup {VliMax + 1})

VliAt(buf, n) ==
    IF /\ n <= VliMax
       /\ n <= Len(buf)
       /\ buf[n][1] = "b"
       /\ n = 1 \/ buf[n] # Null
      THEN [ok |-> TRUE, len |-> n,
            value |-> FoldLeft(LAMBDA v, i :
                                 v + (buf[i][2] % VliBase) * VliBase ^ (i - 1),
                               0, [i \in 1 .. n |-> i])]
      ELSE [ok |-> FALSE, len |-> 0, value |-> 0]

VliDecode(buf) == VliAt(buf, VliLen(buf))

(* `count` VLIs from the front of `buf`, one after another.                *)
AddVli(acc, v) ==
    IF acc.ok /\ v.ok
      THEN [ok |-> TRUE, len |-> acc.len + v.len,
            values |-> Append(acc.values, v.value)]
      ELSE [acc EXCEPT !.ok = FALSE]

TakeVlis(buf, count) ==
    FoldLeft(LAMBDA acc, i : AddVli(acc, VliDecode(Drop(buf, acc.len))),
             [ok |-> TRUE, len |-> 0, values |-> <<>>],
             [i \in 1 .. count |-> i])

-----------------------------------------------------------------------------
(* Stream flags, header and footer.  Three checks stand for the sixteen    *)
(* ids: no check, one this build can compute and one it cannot.            *)

CheckTypes == {"none", "crc", "reserved"}

CheckSize(chk) == CASE chk = "none" -> 0
                    [] chk = "crc" -> Align
                    [] chk = "reserved" -> 2 * Align

IsVerifiable(chk) == chk # "reserved"

StreamHeader(chk) ==
    << <<"magic">>, <<"flags", chk>> >> \o Crc(<< <<"flags", chk>> >>)

(* StreamHeader::parse: the magic, then the CRC, then the flags.           *)
ParseStreamHeader(buf) ==
    [ok |-> /\ buf[1] = <<"magic">>
            /\ SubSeq(buf, 3, StreamHeaderSize) = Crc(<<buf[2]>>)
            /\ buf[2][1] = "flags" /\ buf[2][2] \in CheckTypes,
     check |-> buf[2][Len(buf[2])]]

StreamFooter(indexSize, chk) ==
    LET fields == << <<"back", (indexSize \div Align) - 1>>, <<"foot", chk>> >>
    IN  Crc(fields) \o fields

ParseStreamFooter(buf) ==
    LET fields == SubSeq(buf, Align + 1, StreamFooterSize)
        ok == /\ fields[2][1] = "foot"
              /\ SubSeq(buf, 1, Align) = Crc(fields)
              /\ fields[2][2] \in CheckTypes
    IN  [ok |-> ok,
         check |-> IF ok THEN fields[2][2] ELSE "none",
         indexSize |-> IF ok THEN (fields[1][2] + 1) * Align ELSE 0]

-----------------------------------------------------------------------------
(* Block headers.                                                          *)

(* The real size of a header from its first byte; 0 for the index          *)
(* indicator, and for a cell that is no byte a size no file can meet.      *)
HeaderSizeFromFirstByte(cell) ==
    IF cell = Null THEN 0
    ELSE IF cell[1] = "b" THEN (cell[2] + 1) * Align ELSE 2 * Align

(* The chain of a header: the filters in the order they are applied, and   *)
(* LZMA2 last.                                                             *)
Delta == <<"delta", 0>>             \* a distance of one byte
Bcj == <<"bcj">>
BcjAt(offset) == <<"bcj", offset>>  \* with a start offset
Lzma2(dict) == <<"lzma2", dict>>

ChainFor(filters, dict) == Append(filters, Lzma2(dict))

HeaderCells(comp, unc, chain) ==
    LET body == << Byte(1), <<"hdr", comp, unc, chain>> >>
    IN  body \o Crc(body)

BlockHeader(comp, unc, filters, dict) == HeaderCells(comp, unc, ChainFor(filters, dict))

(* FilterFlags::parse: an id that is known, with as many properties as it  *)
(* has; a branch converter's start offset may be left out.                 *)
FilterOk(f) == \/ f[1] \in {"lzma2", "delta"} /\ Len(f) = 2
               \/ f[1] = "bcj" /\ Len(f) \in {1, 2}

MaxFilters == 4
MaxDict == 40                       \* the dictionary property of 4 GiB
Unit == 2                           \* what the branch converter aligns to

StartOffset(f) == IF Len(f) = 2 THEN f[2] ELSE 0

(* FilterChain::validate: LZMA2 is the last filter and no other, and a     *)
(* start offset is aligned.                                                *)
ValidChain(chain) ==
    /\ Len(chain) \in 1 .. MaxFilters
    /\ Last(chain)[1] = "lzma2" /\ Last(chain)[2] <= MaxDict
    /\ \A i \in 1 .. Len(chain) - 1 :
          \/ chain[i][1] = "delta"
          \/ chain[i][1] = "bcj" /\ StartOffset(chain[i]) % Unit = 0

(* BlockHeader::parse over a buffer that holds exactly the header: its     *)
(* size, its CRC before any field is believed, a compressed size that is   *)
(* not zero, null padding, and a chain of filters that may be one.         *)
ParseBlockHeader(buf) ==
    LET n == Len(buf)
        body == SubSeq(buf, 1, n - Align)
        fields == buf[2]
        ok == /\ n >= 2 * Align
              /\ HeaderSizeFromFirstByte(buf[1]) = n
              /\ SubSeq(buf, n - Align + 1, n) = Crc(body)
              /\ fields[1] = "hdr"
              /\ fields[2] # 0
              /\ \A i \in 3 .. Len(body) : body[i] = Null
              /\ \A f \in Range(fields[4]) : FilterOk(f)
              /\ ValidChain(fields[4])
    IN  IF ok THEN [ok |-> TRUE, comp |-> fields[2], unc |-> fields[3],
                    filters |-> Front(fields[4]), dict |-> Last(fields[4])[2]]
              ELSE [ok |-> FALSE, comp |-> None, unc |-> None,
                    filters |-> <<>>, dict |-> 0]

-----------------------------------------------------------------------------
(* The index.  A record is <<unpadded size, uncompressed size>>.           *)

PaddedSize(unpadded) == unpadded + PadLen(unpadded)

IndexBody(records) ==
    FlattenSeq([i \in 1 .. Len(records) |->
                   Vli(records[i][1]) \o Vli(records[i][2])])

IndexOf(records) ==
    LET body == <<Null>> \o Vli(Len(records)) \o IndexBody(records)
        padded == body \o Nulls(PadLen(Len(body)))
    IN  padded \o Crc(padded)

IndexSize(records) ==
    LET digits(r) == EncodedLen(r[1]) + EncodedLen(r[2])
        n == 1 + EncodedLen(Len(records))
               + FoldLeft(LAMBDA a, r : a + digits(r), 0, records)
    IN  n + PadLen(n) + Align

(* The records that follow the count, as pairs of VLIs, each with an       *)
(* unpadded size that a block can have.                                    *)
PairUp(values) == [i \in 1 .. Len(values) \div 2 |->
                      <<values[2 * i - 1], values[2 * i]>>]

RecordsOk(taken) ==
    /\ taken.ok
    /\ \A i \in 1 .. Len(taken.values) :
          i % 2 = 1 => taken.values[i] >= MinUnpadded

NoIndex == [ok |-> FALSE, records |-> <<>>]

(* XzIndex::parse over a buffer that is exactly the index.  The count is   *)
(* held against the bytes that are there before any record is read.        *)
ParseRecords(rest, taken) ==
    IF /\ RecordsOk(taken)
       /\ Len(rest) - taken.len < Align
       /\ \A i \in taken.len + 1 .. Len(rest) : rest[i] = Null
      THEN [ok |-> TRUE, records |-> PairUp(taken.values)]
      ELSE NoIndex

ParseCounted(rest, count) ==
    IF count > Len(rest) \div 2 THEN NoIndex
    ELSE ParseRecords(rest, TakeVlis(rest, 2 * count))

ParseBody(body, c) ==
    IF c.ok THEN ParseCounted(Drop(body, 1 + c.len), c.value) ELSE NoIndex

ParseIndex(buf) ==
    LET n == Len(buf)
        body == SubSeq(buf, 1, n - Align)
    IN  IF /\ n >= 2 * Align
           /\ n % Align = 0
           /\ SubSeq(buf, n - Align + 1, n) = Crc(body)
           /\ body[1] = Null
          THEN ParseBody(body, VliDecode(Drop(body, 1)))
          ELSE NoIndex

BlocksSize(records) ==
    FoldLeft(LAMBDA a, r : a + PaddedSize(r[1]), 0, records)

-----------------------------------------------------------------------------
(* The filters of src/src/xz/filter.rs, over a small alphabet.  Delta      *)
(* stores each byte as the difference from the byte before; the branch     *)
(* converter works in aligned units of two bytes, and adds the unit's      *)
(* position to the second byte of a unit whose first is Opcode.            *)

Opcode == 1

(* Delta begins with a null byte before the data, the branch converter at  *)
(* its start offset.                                                       *)
Stage(f) == [kind |-> f[1], st |-> IF f[1] = "bcj" THEN StartOffset(f) ELSE 0,
             carry |-> <<>>]

(* FilterChain::build: the converters in decode order, which is the        *)
(* header's list reversed.                                                 *)
Stages(filters) == [i \in 1 .. Len(filters) |->
                        Stage(filters[Len(filters) + 1 - i])]

Wrap(n) == n % Radix

(* One converter over `data` from state `st`: what it makes of it, the     *)
(* state it is left in and how much of it it could convert.                *)
Convert(kind, st, data, encode) ==
    LET n == IF kind = "delta" THEN Len(data)
             ELSE Len(data) - (Len(data) % Unit)
        sum[i \in 0 .. Len(data)] ==
            IF i = 0 THEN st ELSE Wrap(sum[i - 1] + data[i])
        prev(i) == IF i = 1 THEN st ELSE data[i - 1]
        target(i) == i % Unit = 0 /\ data[i - 1] = Opcode
        here(i) == st + i - Unit
        out(i) == CASE kind = "delta" /\ encode -> Wrap(data[i] - prev(i))
                    [] kind = "delta" /\ ~encode -> sum[i]
                    [] kind = "bcj" /\ target(i) /\ encode
                          -> Wrap(data[i] + here(i))
                    [] kind = "bcj" /\ target(i) /\ ~encode
                          -> Wrap(data[i] - here(i))
                    [] OTHER -> data[i]
    IN  [data |-> [i \in 1 .. Len(data) |-> IF i <= n THEN out(i) ELSE data[i]],
         done |-> n,
         st |-> IF kind = "bcj" THEN st + n
                ELSE IF data = <<>> THEN st
                ELSE IF encode THEN data[Len(data)] ELSE sum[Len(data)]]

(* Converters::run_buffer: every stage prepends the tail it carried,       *)
(* converts, and keeps what it could not convert unless this is the end.   *)
RunBuffer(stages, data, flush, encode) ==
    FoldLeft(LAMBDA acc, k :
               LET i == IF encode THEN Len(stages) + 1 - k ELSE k
                   s == stages[i]
                   all == s.carry \o acc.data
                   c == Convert(s.kind, s.st, all, encode)
                   done == IF flush THEN Len(all) ELSE c.done
               IN  [stages |-> [acc.stages EXCEPT ![i] =
                                  [kind |-> s.kind, st |-> c.st,
                                   carry |-> SubSeq(c.data, done + 1,
                                                    Len(all))]],
                    data |-> SubSeq(c.data, 1, done)],
             [stages |-> stages, data |-> data],
             [k \in 1 .. Len(stages) |-> k])

CarriedBytes(stages) ==
    FoldLeft(LAMBDA a, s : a + Len(s.carry), 0, stages)

MaxCarry(stages) ==
    FoldLeft(LAMBDA a, s : a + (IF s.kind = "bcj" THEN Unit - 1 ELSE 0),
             0, stages)

EncodeInPlace(filters, data) ==
    RunBuffer(Stages(filters), data, TRUE, TRUE).data

ApplyInPlace(filters, data) ==
    RunBuffer(Stages(filters), data, TRUE, FALSE).data

-----------------------------------------------------------------------------
(* Writing blocks.                                                         *)

(* What the LZMA2 encoder makes of a block: chunks of at most ChunkBytes   *)
(* bytes, each a header and cells of at most CellBytes bytes, and the end  *)
(* marker.  Its own steps are not part of this module.                     *)
ChunkBytes == 3
CellBytes == 2

Cut(s, n) == [i \in 1 .. (Len(s) + n - 1) \div n |->
                 SubSeq(s, (i - 1) * n + 1, IF i * n < Len(s) THEN i * n
                                                             ELSE Len(s))]

Chunk(data) ==
    LET cells == Cut(data, CellBytes)
    IN  << <<"h", Len(data)>> >> \o [i \in 1 .. Len(cells) |-> <<"d", cells[i]>>]

Chunks(data) ==
    LET cuts == Cut(data, ChunkBytes)
    IN  FlattenSeq([i \in 1 .. Len(cuts) |-> Chunk(cuts[i])])

Packed(data) == Chunks(data) \o <<Null>>

(* compute_check over the data as it came in. *)
CheckCells(chk, data) == [i \in 1 .. CheckSize(chk) |-> <<"chk", data>>]

(* compress_block and append_block: header, packed data, padding, check.   *)
(* `sized` says whether the header declares the sizes, which a block that  *)
(* is compressed as it arrives cannot.                                     *)
Assemble(chk, data, header, packed) ==
    [cells |-> header \o packed \o Nulls(PadLen(Len(packed)))
                 \o CheckCells(chk, data),
     record |-> <<Len(header) + Len(packed) + CheckSize(chk), Len(data)>>]

BlockCells(chk, data, filters, dict, sized) ==
    LET packed == Packed(EncodeInPlace(filters, data))
    IN  Assemble(chk, data,
                 IF sized
                   THEN BlockHeader(Len(packed), Len(data), filters, dict)
                   ELSE BlockHeader(None, None, filters, dict),
                 packed)

=============================================================================
