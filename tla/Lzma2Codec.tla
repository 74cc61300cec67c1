----------------------------- MODULE Lzma2Codec -----------------------------
(***************************************************************************)
(* LZMA2 chunks: how the encoder cuts its output into them                 *)
(* (enc/lzma2_enc.rs) and how the decoder takes them apart (lzma2/mod.rs,  *)
(* lzma2/frame.rs).  A chunk that does not pay for itself is stored, and   *)
(* the encoder then takes back all it learned while coding it: the decoder *)
(* never saw those symbols.                                                *)
(*                                                                         *)
(* The control byte keeps its eight bits, except that one bit (HiSizes)    *)
(* instead of five continues the unpacked size; the size bytes have        *)
(* ByteBits bits.                                                          *)
(***************************************************************************)
EXTENDS LzmaEnc, LzmaDec

CONSTANTS
    PackReserve,    \* K_PACK_RESERVE: bytes left for the rest of a path
    UnpackReserve,  \* 300: the longest match and a little more
    ChunkSlack,     \* CHUNK_SIZE_COMPRESSED_MAX beyond PACK_SIZE_MAX, 16
    MemShare,       \* a memory destination has a byte for so many more, 2^10
    MemExtra        \* and so many on top, 16

HiSizes   == 2
PackMax   == Byte * Byte
UnpackMax == HiSizes * PackMax

CopyResetDic == 1
CopyNoReset  == 2
ControlLzma  == 128
PropsByte    == (Pb * 5 + Lp) * 9 + Lc

SizeCells(n) == <<((n - 1) \div Byte) % Byte, (n - 1) % Byte>>

(***************************************************************************)
(* The encoder.  c holds what Lzma2EncInt adds to the LZMA encoder: what   *)
(* the next header must reset, the bytes coded, and the saved state.       *)
(***************************************************************************)
ChunkStart == [needState |-> TRUE, needProp |-> TRUE, srcPos |-> 0, from |-> 0, save |-> EncStart]

\* init_block: the next header resets everything; what was saved stays.
InitBlock(c) == [c EXCEPT !.needState = TRUE, !.needProp = TRUE, !.srcPos = 0]

HeaderSize(c) == IF c.needProp THEN 6 ELSE 5

SavedFields == {"state", "reps", "probs"}

SaveState(c, e) == [c EXCEPT !.save = e, !.from = e.now]

RestoreState(e, c) == [f \in DOMAIN e |-> IF f \in SavedFields THEN c.save[f] ELSE e[f]]

\* The chunk buffer of a coder that writes to a stream.
ChunkRoom(c) == PackMax + ChunkSlack - HeaderSize(c)

\* The destination encode_solid_synced allocates for n bytes of input.
Capacity(n) == n + n \div MemShare + MemExtra

\* code_one_mem_block, up to its call of code_one_block.
MemBlock(e, c, room) ==
    [RcInit(IF c.needState THEN InitState(e) ELSE e)
        EXCEPT !.out = <<>>, !.overflow = FALSE, !.finished = FALSE, !.room = room]

ChunkFull(e, c) ==
    \/ (e.now - c.from) + NumOpts + UnpackReserve >= UnpackMax
    \/ GetProcessed(e) + PackReserve >= PackMax

RECURSIVE Stored(_, _, _)
Stored(data, at, end) ==
    IF at = end THEN <<>>
    ELSE LET u == Lesser(end - at, PackMax)
         IN  <<IF at = 0 THEN CopyResetDic ELSE CopyNoReset>> \o SizeCells(u)
               \o SubSeq(data, at + 1, at + u) \o Stored(data, at + u, end)

\* The rest of encode_subblock, after the coder has been flushed.
EndChunk(e, c, data) ==
    LET unpack == e.now - c.from
        pack   == Len(e.out)
        store  == e.overflow \/ pack + 2 >= unpack \/ pack > PackMax
        mode   == IF c.srcPos = 0 THEN 3
                  ELSE IF ~c.needState THEN 0 ELSE IF c.needProp THEN 2 ELSE 1
        header == <<ControlLzma + 32 * mode + (((unpack - 1) \div PackMax) % HiSizes)>>
                    \o SizeCells(unpack) \o SizeCells(pack)
                    \o (IF c.needProp THEN <<PropsByte>> ELSE <<>>)
    IN  IF store
        THEN [e |-> RestoreState(e, c), c |-> [c EXCEPT !.srcPos = @ + unpack],
              cells |-> Stored(data, c.srcPos, c.srcPos + unpack)]
        ELSE [e |-> e,
              c |-> [c EXCEPT !.srcPos = @ + unpack, !.needState = FALSE, !.needProp = FALSE],
              cells |-> header \o e.out]

-----------------------------------------------------------------------------
(***************************************************************************)
(* The decoder z: the frame f and the LZMA decoder d.                      *)
(***************************************************************************)
FrameStart == [st |-> "control", control |-> 0, level |-> 224, unpack |-> 0, pack |-> 0]

Dec2Start == [f |-> FrameStart, d |-> DecStart]

IsStored(f) == f.control < ControlLzma

\* Lzma2Frame::update_state.  A property byte other than the stream's own is
\* left out of the model: Lc, Lp and Pb are constants.
UpdateState(f, b) ==
    LET to(s) == [f EXCEPT !.st = s]
    IN  CASE f.st = "control" ->
               LET g == [f EXCEPT !.control = b]
               IN  IF b = 0 THEN [g EXCEPT !.st = "finished"]
                   ELSE IF b = CopyResetDic THEN [g EXCEPT !.level = 192, !.st = "unpack0"]
                   ELSE IF b < ControlLzma
                   THEN [g EXCEPT !.st = IF b > 2 \/ f.level = 224 THEN "error" ELSE "unpack0"]
                   ELSE IF b < f.level THEN [g EXCEPT !.st = "error"]
                   ELSE [g EXCEPT !.level = 0, !.unpack = (b % HiSizes) * PackMax, !.st = "unpack0"]
          [] f.st = "unpack0" -> [to("unpack1") EXCEPT !.unpack = @ + b * Byte]
          [] f.st = "unpack1" -> [to(IF IsStored(f) THEN "data" ELSE "pack0")
                                    EXCEPT !.unpack = @ + b + 1]
          [] f.st = "pack0"   -> [to("pack1") EXCEPT !.pack = b * Byte]
          [] f.st = "pack1"   -> [to(IF (f.control \div 64) % 2 = 1 THEN "prop" ELSE "data")
                                    EXCEPT !.pack = @ + b + 1]
          [] f.st = "prop"    -> to("data")

\* What a pass of the loop of Lzma2Decoder::decode_to_dic answers.
Says(z, read, status, err) == [z |-> z, read |-> read, status |-> status, err |-> err]

Broken(z, read) == Says([z EXCEPT !.f.st = "error"], read, "none", "corrupt")

\* A stored chunk: in bytes of it go to the dictionary as they are.
CopyStored(z, src, pos, room) ==
    LET n == Lesser(Lesser(Len(src) - pos, room), z.f.unpack)
        d == IF z.f.st = "data" THEN InitDicAndState(z.d, z.f.control = CopyResetDic, FALSE) ELSE z.d
    IN  IF pos = Len(src) THEN Says(z, pos, "more", "none")
        ELSE IF n = 0 THEN Broken([z EXCEPT !.d = d], pos)
        ELSE Says([f |-> [z.f EXCEPT !.unpack = @ - n,
                                     !.st = IF z.f.unpack = n THEN "control" ELSE "cont"],
                   d |-> [d EXCEPT !.dic = [i \in DOMAIN @ |->
                                              IF i \in d.dicPos .. d.dicPos + n - 1
                                              THEN src[pos + 1 + i - d.dicPos] ELSE @[i]],
                                   !.dicPos = @ + n, !.processed = @ + n,
                                   !.checkDic = IF @ = 0 /\ DictSize - d.processed <= n
                                                THEN DictSize ELSE @]],
                  pos + n, "go", "none")

\* An LZMA chunk: its part of the input, and no more than its part of the output.
DecodeChunk(z, src, pos, room) ==
    LET f    == z.f
        d    == IF f.st = "data" THEN InitDicAndState(z.d, f.control >= 224, f.control >= 160) ELSE z.d
        n    == Lesser(Len(src) - pos, f.pack)
        ends == room >= f.unpack
        r    == DecodeToDic(d, d.dicPos + (IF ends THEN f.unpack ELSE room),
                            SubSeq(src, pos + 1, pos + n), IF ends THEN "end" ELSE "any")
        made == r.d.dicPos - d.dicPos
        g    == [f EXCEPT !.st = "cont", !.pack = @ - r.read, !.unpack = @ - made]
        z1   == [f |-> g, d |-> r.d]
    IN  IF r.err # "none" THEN Says([f |-> [f EXCEPT !.st = "cont"], d |-> r.d], pos, "none", r.err)
        ELSE IF r.status = "more"
        THEN IF g.pack = 0 THEN Broken(z1, pos + r.read) ELSE Says(z1, pos + r.read, "more", "none")
        ELSE IF r.read # 0 \/ made # 0 THEN Says(z1, pos + r.read, "go", "none")
        ELSE IF r.status = "maybe" /\ g.unpack = 0 /\ g.pack = 0
        THEN Says([z1 EXCEPT !.f.st = "control"], pos, "go", "none")
        ELSE Broken(z1, pos)

RECURSIVE ChunksToDic(_, _, _, _, _)
ChunksToDic(z, limit, src, pos, finish) ==
    LET full == z.d.dicPos = limit
        f    == UpdateState(z.f, src[pos + 1])
        r    == IF IsStored(z.f) THEN CopyStored(z, src, pos, limit - z.d.dicPos)
                                 ELSE DecodeChunk(z, src, pos, limit - z.d.dicPos)
    IN  IF z.f.st = "error" THEN Broken(z, pos)
        ELSE IF z.f.st = "finished" THEN Says(z, pos, "mark", "none")
        ELSE IF full /\ finish = "any" THEN Says(z, pos, "notfinished", "none")
        ELSE IF z.f.st \notin {"data", "cont"}
        THEN IF pos = Len(src) THEN Says(z, pos, "more", "none")
             ELSE IF full /\ f.st # "finished" THEN Broken(z, pos + 1)
             ELSE ChunksToDic([z EXCEPT !.f = f], limit, src, pos + 1, finish)
        ELSE IF r.status # "go" THEN r
        ELSE ChunksToDic(r.z, limit, src, r.read, finish)

DecodeBlock(z, limit, src, finish) == ChunksToDic(z, limit, src, 0, finish)

WrapDicPos(z) == [z EXCEPT !.d.dicPos = IF @ = DicBufSize THEN 0 ELSE @]

DicSlice(z, from) == [i \in 1 .. z.d.dicPos - from |-> z.d.dic[from + i - 1]]

\* Lzma2Decoder::decode, which like LzmaDecoder's goes around the dictionary.
RECURSIVE Decode2More(_, _, _, _, _, _)
Decode2More(z0, src, pos, room, out, finish) ==
    LET z    == WrapDicPos(z0)
        far  == room > DicBufSize - z.d.dicPos
        r    == DecodeBlock(z, IF far THEN DicBufSize ELSE z.d.dicPos + room, From(src, pos),
                            IF far THEN "any" ELSE finish)
        n    == r.z.d.dicPos - z.d.dicPos
    IN  IF r.err # "none" \/ n = 0 \/ n = room
        THEN [d |-> r.z, read |-> pos + r.read,
              out |-> IF r.err = "none" THEN out \o DicSlice(r.z, z.d.dicPos) ELSE <<>>,
              status |-> r.status, err |-> r.err]
        ELSE Decode2More(r.z, src, pos + r.read, room - n, out \o DicSlice(r.z, z.d.dicPos), finish)

Decode2(z, src, room, finish) == Decode2More(z, src, 0, room, <<>>, finish)

AtChunkBoundary(z) == z.f.st = "control" /\ z.f.unpack = 0 /\ z.f.pack = 0

\* stored_payload: how many bytes before the payload of a stored chunk, and its length.
StoredPayload(z, input) ==
    IF z.f.st \in {"data", "cont"} /\ IsStored(z.f) THEN <<0, z.f.unpack>>
    ELSE IF AtChunkBoundary(z) /\ Len(input) >= 3 /\ input[1] \in {CopyResetDic, CopyNoReset}
    THEN <<3, input[2] * Byte + input[3] + 1>>
    ELSE <<>>
=============================================================================
