---------------------------- MODULE LzmaReaders ----------------------------
(***************************************************************************)
(* The readers over the decoders: LzmaReader and Lzma2Reader (reader.rs)   *)
(* and Lzma2RunDecoder (run.rs).  Each is fed in pieces that its source    *)
(* cuts as it likes, and is asked for output a few bytes at a time.        *)
(*                                                                         *)
(* r is the state of one reader: dec the decoder (Lzma2Codec), at the      *)
(* input taken from the source and buf the part of it not yet used, left   *)
(* the output still owed (Unknown without a declared size), room the size  *)
(* of the read in progress (0 between reads), and the answer once the      *)
(* stream is over: "ok", "truncated", "corrupt" or "internal".  beat tells *)
(* a pass that did nothing from no pass at all.                            *)
(***************************************************************************)
EXTENDS Lzma2Codec

CONSTANTS
    RunStep,   \* STEP: the output of one step of a run decoder, 2^18
    Cuts,      \* how many bytes the source hands over at once
    Rooms      \* how many bytes a read asks for

Unknown == -1

ReaderStart(how, size) ==
    [dec |-> IF how = "lzma" THEN DecStart ELSE Dec2Start, at |-> 0, buf |-> <<>>, eof |-> FALSE,
     left |-> size, reached |-> size = 0, room |-> 0, check |-> FALSE, out |-> <<>>,
     packed |-> 0, beat |-> FALSE, answer |-> "none"]

\* Source::fill, when the source hands over n bytes of what is left of stream.
SourceFill(r, stream, n) ==
    IF r.buf # <<>> \/ r.eof THEN r
    ELSE LET k == Lesser(n, Len(stream) - r.at)
         IN  [r EXCEPT !.buf = SubSeq(stream, r.at + 1, r.at + k), !.at = @ + k, !.eof = k = 0]

Over(r, answer) == [r EXCEPT !.answer = answer, !.room = 0, !.check = FALSE]

Used(r, p) == [r EXCEPT !.dec = p.d, !.buf = From(@, p.read)]

\* A decoding call that failed: the decoder has moved, what the reader counts has not.
Failed(r, p) == Over([r EXCEPT !.dec = p.d], p.err)

-----------------------------------------------------------------------------
(***************************************************************************)
(* LzmaReader.                                                             *)
(***************************************************************************)
\* Mutation of CheckEnd: it goes round again with nothing left to read.
CheckEndForEver(r) ==
    LET p == Decode(r.dec, r.buf, 0, "end")
    IN  IF p.err # "none" THEN Failed(r, p)
        ELSE IF p.status \in {"mark", "maybe"} THEN Over(Used(r, p), "ok")
        ELSE Used(r, p)

\* One pass of check_end: no room, and the stream has to end.
CheckEnd(r) ==
    LET p == Decode(r.dec, r.buf, 0, "end")
        u == Used(r, p)
    IN  IF p.err # "none" THEN Failed(r, p)
        ELSE IF p.status \in {"mark", "maybe"} THEN Over(u, "ok")
        ELSE IF p.read = 0 /\ (r.eof \/ u.buf # <<>>) THEN Over(u, "truncated")
        ELSE u

OutputWindow(r) ==
    IF r.left # Unknown /\ r.left <= r.room THEN <<r.left, "end">> ELSE <<r.room, "any">>

\* One pass of the loop of LzmaReader::read, which ends once it has written.
LzmaPass(r) ==
    LET p    == Decode(r.dec, r.buf, OutputWindow(r)[1], OutputWindow(r)[2])
        n    == Len(p.out)
        left == IF r.left = Unknown THEN Unknown ELSE r.left - n
        u    == [Used(r, p) EXCEPT !.out = @ \o p.out, !.left = left,
                                   !.reached = @ \/ left = 0,
                                   !.room = IF n > 0 THEN 0 ELSE @]
    IN  IF p.err # "none" THEN Failed(r, p)
        ELSE IF p.status = "mark" THEN Over(u, IF left > 0 THEN "corrupt" ELSE "ok")
        ELSE IF p.read = 0 /\ n = 0 /\ r.eof
        THEN IF p.status = "more" THEN Over(u, "truncated")
             ELSE IF u.reached THEN [u EXCEPT !.check = TRUE]
             ELSE Over(u, "ok")
        ELSE [u EXCEPT !.check = n = 0 /\ u.reached]

\* Mutation of LzmaTurn: the declared size is taken for the end of the stream.
LzmaTurnToSize(r) == IF r.check \/ r.reached THEN Over(r, "ok") ELSE LzmaPass(r)

LzmaTurn(r) ==
    IF r.check \/ r.reached THEN CheckEnd([r EXCEPT !.check = TRUE]) ELSE LzmaPass(r)

-----------------------------------------------------------------------------
(***************************************************************************)
(* Lzma2Reader: read, and read_contiguous, which does the same without the *)
(* copy when the read cannot cross the dictionary's end.                   *)
(***************************************************************************)
Lzma2Pass(r, p) ==
    LET n == Len(p.out)
        u == [Used(r, p) EXCEPT !.out = @ \o p.out, !.room = IF n > 0 THEN 0 ELSE @]
    IN  IF p.err # "none" THEN Failed(r, p)
        ELSE IF p.status = "mark" THEN Over(u, "ok")
        ELSE IF n = 0 /\ p.read = 0 /\ r.eof THEN Over(u, "truncated")
        ELSE u

RECURSIVE Contiguous(_, _, _, _, _)
Contiguous(z, from, limit, src, used) ==
    LET b == DecodeBlock(z, limit, From(src, used), "any")
    IN  IF b.err # "none" \/ b.z.d.dicPos \in {z.d.dicPos, limit}
        THEN [d |-> b.z, read |-> used + b.read, out |-> DicSlice(b.z, from),
              status |-> b.status, err |-> b.err]
        ELSE Contiguous(b.z, from, limit, src, used + b.read)

ReadContiguous(r) ==
    LET z == WrapDicPos(r.dec)
    IN  Lzma2Pass(r, Contiguous(z, z.d.dicPos, z.d.dicPos + r.room, r.buf, 0))

\* read_borrowed is refused when the read may cross the dictionary's end.
Borrows(r) == r.room <= DicBufSize - WrapDicPos(r.dec).d.dicPos

Lzma2Turns(r) ==
    {Lzma2Pass(r, Decode2(r.dec, r.buf, r.room, "any"))}
    \cup (IF Borrows(r) THEN {ReadContiguous(r)} ELSE {})

-----------------------------------------------------------------------------
(***************************************************************************)
(* Lzma2RunDecoder: one run, its packed and unpacked lengths known.  A     *)
(* call of decode is a loop of bounded steps, and a stored chunk's bytes   *)
(* go to the sink from the input.                                          *)
(***************************************************************************)
RECURSIVE RunLoop(_, _, _)
RunLoop(r, max, input) ==
    LET z      == WrapDicPos(r.dec)
        start  == z.d.dicPos
        stored == StoredPayload(z, input)
        step0  == Lesser(Lesser(RunStep, max), Lesser(r.left, DicBufSize - start))
        step   == IF stored = <<>> THEN step0 ELSE Lesser(step0, stored[2])
        b      == DecodeBlock(z, start + step, input, IF step = r.left THEN "end" ELSE "any")
        n      == b.z.d.dicPos - start
        bytes  == IF stored # <<>> /\ n # 0 /\ b.read = stored[1] + n
                  THEN SubSeq(input, stored[1] + 1, stored[1] + n)
                  ELSE DicSlice(b.z, start)
        u      == [r EXCEPT !.dec = b.z, !.out = @ \o bytes, !.left = @ - n, !.packed = @ + b.read]
    IN  IF b.err # "none" THEN Failed(r, [d |-> b.z, err |-> b.err])
        ELSE IF b.status = "mark" THEN Failed(r, [d |-> b.z, err |-> "corrupt"])
        ELSE IF (b.read = 0 /\ n = 0) \/ (b.read = Len(input) /\ n < step) \/ n = max
        THEN [u EXCEPT !.check = n < max]
        ELSE RunLoop(u, max - n, From(input, b.read))

\* finish: the lengths, a chunk boundary, and an end of stream it supplies itself.
RunFinish(r, packedLen) ==
    LET b == DecodeBlock(r.dec, r.dec.d.dicPos, <<0>>, "end")
    IN  IF r.packed # packedLen \/ r.left # 0 \/ ~AtChunkBoundary(r.dec) THEN Over(r, "corrupt")
        ELSE Over([r EXCEPT !.dec = b.z],
                  IF b.err = "none" /\ b.read = 1 /\ b.status = "mark" THEN "ok" ELSE "corrupt")

-----------------------------------------------------------------------------
Turns(how, r) ==
    LET lzma  == {LzmaTurn(r)}
        lzma2 == Lzma2Turns(r)
    IN  IF how = "lzma" THEN lzma ELSE lzma2

\* The same readers given everything at once, with room for everything.
RECURSIVE WholeFrom(_, _, _, _)
WholeFrom(r, how, s, room) ==
    LET f    == SourceFill([r EXCEPT !.room = room], s, Len(s))
        next == IF how = "run"
                THEN IF r.check /\ r.packed = Len(s) THEN RunFinish(r, Len(s))
                     ELSE RunLoop(r, room, From(s, r.packed))
                ELSE IF how = "lzma" THEN LzmaTurn(f)
                ELSE Lzma2Pass(f, Decode2(f.dec, f.buf, f.room, "any"))
    IN  IF r.answer # "none" THEN r ELSE WholeFrom(next, how, s, room)

WholeRead(how, size, s, room) ==
    LET end == WholeFrom(ReaderStart(how, size), how, s, room) IN end
=============================================================================
