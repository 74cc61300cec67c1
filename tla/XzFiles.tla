------------------------------ MODULE XzFiles -------------------------------
(***************************************************************************)
(* The files the .xz readers are given.  A file is described by the        *)
(* streams it was written from and by what has happened to it since; the   *)
(* description also says which files a reader must accept, and with what   *)
(* output, without parsing anything.                                       *)
(*                                                                         *)
(*   stream  [check, blocks, pad]      pad: four-byte groups after it      *)
(*   block   [data, filters, dict, sized]                                  *)
(*   harm    <<"none">>, <<"cut", n>> (the first n cells are left),        *)
(*           <<"spoil", i>> (cell i is lost), <<"flip", i>> (a data cell   *)
(*           decodes to other bytes), or a lie of the first stream whose   *)
(*           checksums are right: <<"lie", what>>                          *)
(***************************************************************************)
EXTENDS XzBlock

Block(data, filters, dict, sized) ==
    [data |-> data, filters |-> filters, dict |-> dict, sized |-> sized]
Stream(check, blocks, pad) == [check |-> check, blocks |-> blocks, pad |-> pad]

(* What a lying writer puts where it should not.                           *)
Lies == {"count", "order", "unpadded", "uncompressed", "backward", "flags",
         "declared", "short", "unknown", "props", "last", "twice", "five",
         "offset", "dict"}

(* Filters that are no chain, or that say more than they may.              *)
LyingChain(b, lie) ==
    LET chain == ChainFor(b.filters, b.dict)
    IN  CASE lie = "unknown" -> << <<"other">> >> \o chain
          [] lie = "props" -> << <<"delta", 0, 0>> >> \o chain
          [] lie = "last" -> Append(chain, Delta)
          [] lie = "twice" -> Append(chain, Lzma2(b.dict))
          [] lie = "five" -> [i \in 1 .. MaxFilters |-> Bcj] \o chain
          [] lie = "offset" -> <<BcjAt(Unit - 1)>> \o chain
          [] lie = "dict" -> ChainFor(b.filters, MaxDict + 1)
          [] OTHER -> chain

LyingRecords(records, lie) ==
    LET n == Len(records)
    IN  CASE lie = "count" /\ n > 0 -> Tail(records)
          [] lie = "order" -> [i \in 1 .. n |-> records[n + 1 - i]]
          [] lie = "unpadded" /\ n > 0 -> [records EXCEPT ![1][1] = @ + Align]
          [] lie = "uncompressed" /\ n > 0 -> [records EXCEPT ![1][2] = @ + 1]
          [] OTHER -> records

(* A block whose header declares the wrong sizes, or no chain.             *)
LyingBlock(b, cells, lie) ==
    LET packed == Len(Packed(b.data))
        header == CASE lie = "declared" -> BlockHeader(packed, Len(b.data) + 1,
                                                       b.filters, b.dict)
                    [] lie = "short" -> BlockHeader(packed - 1, Len(b.data),
                                                    b.filters, b.dict)
                    [] LyingChain(b, lie) # ChainFor(b.filters, b.dict)
                          -> HeaderCells(None, None, LyingChain(b, lie))
                    [] OTHER -> FirstN(cells, 2 * Align)
    IN  header \o Drop(cells, 2 * Align)

OtherCheck(chk) == IF chk = "none" THEN "crc" ELSE "none"

LyingBlocks(s, bs, lie) ==
    [i \in 1 .. Len(bs) |->
        IF i = 1 THEN LyingBlock(s.blocks[1], bs[1].cells, lie) ELSE bs[i].cells]

Trailer(chk, records, index, lie) ==
    index \o StreamFooter(IF lie = "backward" THEN Len(index) + Align
                                              ELSE IndexSize(records),
                          IF lie = "flags" THEN OtherCheck(chk) ELSE chk)

Indexed(chk, records, lie) == Trailer(chk, records, IndexOf(records), lie)

Written(s, bs, lie) ==
    StreamHeader(s.check)
       \o FlattenSeq(LyingBlocks(s, bs, lie))
       \o Indexed(s.check,
                  LyingRecords([i \in 1 .. Len(bs) |-> bs[i].record], lie), lie)
       \o Nulls(s.pad * Align)

StreamCells(s, lie) ==
    Written(s, [i \in 1 .. Len(s.blocks) |->
                   BlockCells(s.check, s.blocks[i].data, s.blocks[i].filters,
                              s.blocks[i].dict, s.blocks[i].sized)] \o <<>>, lie)

Whole(streams, lie) ==
    FlattenSeq([i \in 1 .. Len(streams) |->
                   StreamCells(streams[i], IF i = 1 THEN lie ELSE "")] \o <<>>)

OtherData(cell) == <<"d", [i \in 1 .. Len(cell[2]) |-> Wrap(cell[2][i] + 1)]>>

Harmed(whole, harm) ==
    CASE harm[1] = "cut" -> FirstN(whole, harm[2])
      [] harm[1] = "spoil" -> [whole EXCEPT ![harm[2]] = Bad]
      [] harm[1] = "flip" -> [whole EXCEPT ![harm[2]] = OtherData(@)]
      [] OTHER -> whole

FileCells(streams, harm) ==
    Harmed(Whole(streams, IF harm[1] = "lie" THEN harm[2] ELSE ""), harm)

StreamData(s) == FlattenSeq([i \in 1 .. Len(s.blocks) |-> s.blocks[i].data])
FileData(streams) == FlattenSeq([i \in 1 .. Len(streams) |-> StreamData(streams[i])])

(* The sound files that a file of these streams may have been cut to: some *)
(* of the streams, the last with some of its padding.                      *)
CutStreams(streams) ==
    UNION {{[i \in 1 .. k |-> IF i = k THEN [streams[i] EXCEPT !.pad = p]
                                       ELSE streams[i]]
               : p \in 0 .. streams[k].pad} : k \in 1 .. Len(streams)}

(* `cells` is the file as it was written from `streams`, up to data and    *)
(* checks that nobody checks.                                              *)
Spared(stream, verify) == ~verify \/ stream.check # "crc"

SoundStream(cells, written, free) ==
    /\ Len(cells) = Len(written)
    /\ \A i \in 1 .. Len(cells) :
          \/ cells[i] = written[i]
          \/ /\ free
             /\ written[i][1] \in {"chk", "d"}
             /\ written[i][1] = "d" => cells[i][1] = "d"

(* Where the streams of a file end. *)
Sizes(written) == [i \in 1 .. Len(written) |-> Len(written[i])]
Before(sizes, k) == FoldLeft(LAMBDA a, n : a + n, 0, FirstN(sizes, k))

SoundAt(cells, streams, written, sizes, verify) ==
    /\ Len(cells) = Before(sizes, Len(sizes))
    /\ \A k \in 1 .. Len(streams) :
          SoundStream(SubSeq(cells, Before(sizes, k - 1) + 1, Before(sizes, k)),
                      written[k], Spared(streams[k], verify))

SoundAs(cells, streams, written, verify) ==
    SoundAt(cells, streams, written, Sizes(written) \o <<>>, verify)

Sound(cells, streams, verify) ==
    SoundAs(cells, streams,
            [i \in 1 .. Len(streams) |-> StreamCells(streams[i], "")] \o <<>>,
            verify)

(* The files that `cells` may be taken for. *)
SoundReadings(cells, streams, verify) ==
    {v \in CutStreams(streams) : Sound(cells, v, verify)}

Refused(o, chk) == o.verify /\ ~IsVerifiable(chk) /\ ~o.allow

(* Within what the caller allows.  A reader that goes by the index reads    *)
(* every stream, whatever the option says.                                 *)
Allowed(o, indexed, streams) ==
    /\ \A k \in 1 .. Len(streams) :
         /\ ~Refused(o, streams[k].check)
         /\ \A i \in 1 .. Len(streams[k].blocks) :
               Len(streams[k].blocks[i].data) <= o.maxBlock
    /\ Len(FileData(streams)) <= o.cap
    /\ \/ o.concat
       \/ indexed
       \/ Len(streams) = 1 /\ streams[1].pad = 0

(* A file as a reader is given it: its cells, the contents a reader may    *)
(* find in it, what was written, and whether every block has a check.      *)
Given(streams, harm, cells, sound, o, indexed) ==
    [cells |-> cells,
     contents |-> {FileData(s) : s \in {v \in sound : Allowed(o, indexed, v)}},
     data |-> FileData(streams),
     flipped |-> harm[1] = "flip",
     checked |-> \A k \in 1 .. Len(streams) : ~Spared(streams[k], o.verify)]

-----------------------------------------------------------------------------
(* The files of the checks, and every way such a file is harmed.            *)
Plain(data, sized) == Block(data, <<>>, 8, sized)

TwoStreams == << Stream("crc", <<Plain(<<1, 2>>, TRUE),
                                 Plain(<<3, 3, 2>>, FALSE)>>, 1),
                 Stream("none", <<Plain(<<2>>, TRUE)>>, 0) >>
Filtered == << Stream("crc", <<Block(<<1, 3, 1, 2, 1>>, <<Delta, Bcj>>, 8, TRUE),
                               Block(<<1, 1, 1>>, <<BcjAt(Unit)>>, 8, FALSE),
                               Block(<<2, 1, 3, 1>>, <<Bcj, Bcj>>, 2, FALSE)>>, 0) >>
Reserved == << Stream("reserved", <<Plain(<<1, 1>>, FALSE)>>, 1) >>
Empty == << Stream("crc", <<>>, 0), Stream("crc", <<Plain(<<>>, TRUE)>>, 0) >>
Four == << Stream("crc", <<Plain(<<1>>, TRUE), Plain(<<2>>, TRUE),
                           Plain(<<3>>, TRUE), Plain(<<0>>, TRUE)>>, 0) >>

(* Every way a file is cut, spoilt or lied about.                           *)
HarmsOf(cells) ==
    {<<"none">>}
      \cup {<<"cut", i - 1>> : i \in 1 .. Len(cells)}
      \cup {<<"spoil", i>> : i \in 1 .. Len(cells)}
      \cup {<<"flip", i>> : i \in {j \in 1 .. Len(cells) : cells[j][1] = "d"}}
      \cup {<<"lie", l>> : l \in Lies}

Every(streams) == {streams} \X HarmsOf(Whole(streams, ""))

=============================================================================
