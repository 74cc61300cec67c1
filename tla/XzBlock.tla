------------------------------ MODULE XzBlock -------------------------------
(***************************************************************************)
(* One .xz block being decoded: BlockDecoder of src/src/xz/blockdec.rs,    *)
(* which the streaming readers drive with whatever input and room they     *)
(* have, and decode_block of src/src/xz/pool.rs, which a worker runs over  *)
(* a whole block.                                                          *)
(*                                                                         *)
(* The decoders are pure: a turn maps a decoder, the input cells in hand   *)
(* and the room for output to the decoder after the turn, the cells it     *)
(* took and the bytes it wrote.                                            *)
(***************************************************************************)
EXTENDS XzFormat

CONSTANTS
    Scratch,        \* the most LZMA2 output of a turn through a chain; 2^16
    DicMin          \* the smallest dictionary; LZMA_DIC_MIN, 4096

ASSUME BlockAssumption == Scratch \in Nat \ {0} /\ DicMin \in Nat

-----------------------------------------------------------------------------
(* The LZMA2 decoder as this code uses it: the bytes left of the chunk it  *)
(* is in, and bytes of a cell it has taken that found no room.             *)

NewLzma2 == [left |-> 0, owed |-> <<>>]

(* One cell of input.  Between chunks a null byte is the end marker and a  *)
(* chunk header starts the next chunk; with no room left the decoder stops *)
(* before a control byte, unless it was called to finish (`end`), when a   *)
(* further chunk is an error.                                              *)
Lzma2Cell(acc, cell, room, end) ==
    LET full == Len(acc.out) = room
        k == Least(room - Len(acc.out), Len(cell[Len(cell)]))
        took == [acc EXCEPT !.read = @ + 1]
    IN  CASE acc.status # "more" -> acc
          [] acc.status = "more" /\ full /\ ~(end /\ acc.lz.left = 0)
               -> [acc EXCEPT !.status = "full"]
          [] acc.status = "more" /\ acc.lz.left = 0 /\ (~full \/ end)
                /\ cell = Null
               -> [took EXCEPT !.status = "marked"]
          [] acc.status = "more" /\ acc.lz.left = 0 /\ ~full
                /\ cell[1] = "h"
               -> [took EXCEPT !.lz.left = cell[2]]
          [] acc.status = "more" /\ acc.lz.left > 0 /\ ~full
                /\ cell[1] = "d"
               -> [took EXCEPT !.out = @ \o FirstN(cell[2], k),
                               !.lz = [left |-> @.left - k,
                                       owed |-> Drop(cell[2], k)],
                               !.status = IF k < Len(cell[2]) THEN "full"
                                                              ELSE @]
          [] OTHER -> [acc EXCEPT !.status = "error"]

(* Lzma2Decoder::decode: statuses "more" (NeedsMoreInput), "full"          *)
(* (NotFinished), "marked" (FinishedWithMark), or an error.                *)
Lzma2Start(lz, k) ==
    [lz |-> [left |-> lz.left - k, owed |-> Drop(lz.owed, k)],
     read |-> 0, out |-> FirstN(lz.owed, k),
     status |-> IF k < Len(lz.owed) THEN "full" ELSE "more"]

Lzma2Stop(acc, room, end) ==
    IF acc.status = "more" /\ Len(acc.out) = room /\ ~end
      THEN [acc EXCEPT !.status = "full"]
      ELSE acc

Lzma2Decode(lz, input, room, end) ==
    Lzma2Stop(FoldLeft(LAMBDA acc, cell : Lzma2Cell(acc, cell, room, end),
                       Lzma2Start(lz, Least(room, Len(lz.owed))), input),
              room, end)

-----------------------------------------------------------------------------
(* BlockDecoder.  `limits` is [mem, comp, unc, cap]: the memory limit, the *)
(* sizes the header declares and the cap on the block's output.            *)

DictBytes(dict, unc) == IF unc = None THEN dict ELSE Least(dict, Most(unc, DicMin))

(* BlockDecoder::new: "" or the error that refuses the block.              *)
Refusal(header, mem, cap) ==
    IF header.unc # None /\ header.unc > cap THEN "bad"
    ELSE IF DictBytes(header.dict, header.unc) > mem THEN "memory"
    ELSE ""

NewBlockDecoder(header, cap) ==
    [lz |-> NewLzma2, stages |-> Stages(header.filters), sum |-> <<>>,
     pend |-> <<>>, unpacked |-> 0, packed |-> 0, ended |-> FALSE,
     comp |-> header.comp, unc |-> header.unc, cap |-> cap]

(* The end marker has been read and everything has been handed over.       *)
Finished(dec) == dec.ended /\ dec.pend = <<>>

Allowance(dec) == IF dec.unc # None THEN dec.unc ELSE dec.cap

Turn(dec, read, wrote, err) ==
    [dec |-> dec, read |-> read, wrote |-> wrote, err |-> err]

(* `note`: at the end marker the sizes must be those the header declared.  *)
NoteFails(dec) ==
    dec.ended /\ \/ dec.unc # None /\ dec.unc # dec.unpacked
                 \/ dec.comp # None /\ dec.comp # dec.packed

(* The decoder after an LZMA2 call that read p.read cells and from which   *)
(* the converters passed on `written`.                                     *)
Account(dec, p, stages, written) ==
    [dec EXCEPT !.lz = p.lz, !.stages = stages, !.sum = @ \o written,
                !.unpacked = @ + Len(written), !.packed = @ + p.read,
                !.ended = (p.status = "marked")]

(* The fast path: LZMA2 writes into the caller's buffer.  With no room     *)
(* left it is called once more, only to read the end marker.               *)
PlainResult(dec, limit, p) ==
    LET next == Account(dec, p, dec.stages, p.out)
    IN  Turn(next, p.read, p.out,
             \/ p.status = "error"
             \/ NoteFails(next)
             \/ limit = 0 /\ ~next.ended)

PlainLimited(dec, input, limit) ==
    PlainResult(dec, limit, Lzma2Decode(dec.lz, input, limit, limit = 0))

PlainTurn(dec, input, room) ==
    PlainLimited(dec, input, Least(Allowance(dec) - dec.unpacked, room))

(* One round of the chain's loop.  Carried bytes count against the block's *)
(* allowance; a destination too small for them is served from `pend`.      *)
ChainResult(acc, room, want, p, r) ==
    LET next == Account(acc.dec, p, r.stages, r.data)
        n == Least(Len(r.data), room)
        fails == \/ p.status = "error"
                 \/ NoteFails(next)
                 \/ want = 0 /\ ~next.ended /\ p.status # "more"
    IN  [dec |-> [next EXCEPT !.pend = Drop(r.data, n)],
         read |-> acc.read + p.read, wrote |-> FirstN(r.data, n),
         err |-> fails,
         done |-> \/ fails
                  \/ r.data # <<>>
                  \/ next.ended
                  \/ p.read = 0 /\ p.out = <<>>]

ChainFiltered(acc, room, want, p) ==
    ChainResult(acc, room, want, p,
                RunBuffer(acc.dec.stages, p.out, p.status = "marked", FALSE))

ChainRound(acc, input, room) ==
    LET start == CarriedBytes(acc.dec.stages)
        remaining == Allowance(acc.dec) - acc.dec.unpacked
        capacity == IF room > start THEN room
                                    ELSE 2 * MaxCarry(acc.dec.stages) + 1
        want == Least(Least(remaining - start, Scratch), capacity - start)
    IN  IF start > remaining
          THEN [acc EXCEPT !.err = TRUE, !.done = TRUE]
          ELSE ChainFiltered(acc, room, want,
                             Lzma2Decode(acc.dec.lz, Drop(input, acc.read),
                                         want, want = 0))

ChainRounds(dec, input, room) ==
    FoldLeft(LAMBDA acc, i : IF acc.done THEN acc
                             ELSE ChainRound(acc, input, room),
             [dec |-> dec, read |-> 0, wrote |-> <<>>,
              err |-> FALSE, done |-> FALSE],
             [i \in 1 .. Len(input) + MaxCarry(dec.stages) + 2 |-> i])

ChainTurn(dec, input, room) ==
    LET stop == ChainRounds(dec, input, room)
    IN  Turn(stop.dec, stop.read, stop.wrote, stop.err)

(* BlockDecoder::decode.  What the converters already produced goes first, *)
(* and no input past the declared compressed size is read.                 *)
DecodeTurn(dec, input, room) ==
    LET n == Least(Len(dec.pend), room)
        left == IF dec.comp = None THEN Len(input)
                ELSE Least(Len(input), dec.comp - dec.packed)
    IN  CASE dec.pend # <<>>
               -> Turn([dec EXCEPT !.pend = Drop(@, n)], 0,
                       FirstN(dec.pend, n), FALSE)
          [] dec.pend = <<>> /\ (dec.ended \/ room = 0)
               -> Turn(dec, 0, <<>>, FALSE)
          [] dec.pend = <<>> /\ ~dec.ended /\ room > 0
                /\ dec.comp # None /\ dec.packed >= dec.comp
               -> Turn(dec, 0, <<>>, TRUE)
          [] OTHER
               -> IF dec.stages = <<>>
                    THEN PlainTurn(dec, FirstN(input, left), room)
                    ELSE ChainTurn(dec, FirstN(input, left), room)

(* RunningCheck::finish: the stored check against the bytes decoded, when  *)
(* the caller asked for it and this build can compute it.                  *)
CheckPasses(chk, verify, data, stored) ==
    verify /\ chk = "crc" => stored = CheckCells(chk, data)

-----------------------------------------------------------------------------
(* A whole block in a worker: decode_block_in over the bytes that the      *)
(* index says are the block's.  `job` is [check, verify, unpadded,         *)
(* unpacked].                                                              *)

Failed == [ok |-> FALSE, out |-> <<>>]

BlockAgrees(job, header, headerSize) ==
    LET packed == job.unpadded - headerSize - CheckSize(job.check)
    IN  /\ header.ok
        /\ header.comp \in {None, packed}
        /\ header.unc \in {None, job.unpacked}

Checked(job, data, stored) ==
    IF CheckPasses(job.check, job.verify, data, stored)
      THEN [ok |-> TRUE, out |-> data]
      ELSE Failed

(* finish_block: all of the packed data and exactly the promised output,   *)
(* up to the end marker; then the converters over the whole block; then    *)
(* the check.                                                              *)
FinishBlock(job, header, p, packedLen, stored) ==
    IF /\ p.read = packedLen
       /\ p.status = "marked"
       /\ Len(p.out) = job.unpacked
      THEN Checked(job, ApplyInPlace(header.filters, p.out), stored)
      ELSE Failed

DecodeBlock(job, bytes) ==
    LET hs == HeaderSizeFromFirstByte(bytes[1])
        cs == CheckSize(job.check)
        header == ParseBlockHeader(FirstN(bytes, hs))
        packedLen == job.unpadded - hs - cs
        dataEnd == hs + packedLen
        padEnd == dataEnd + PadLen(packedLen)
        p == Lzma2Decode(NewLzma2, SubSeq(bytes, hs + 1, dataEnd),
                         job.unpacked, TRUE)
    IN  IF \/ hs = 0
           \/ hs + cs > job.unpadded
           \/ hs > Len(bytes)
          THEN Failed
        ELSE IF \/ ~BlockAgrees(job, header, hs)
                \/ padEnd + cs > Len(bytes)
                \/ \E i \in dataEnd + 1 .. padEnd : bytes[i] # Null
          THEN Failed
        ELSE FinishBlock(job, header, p, packedLen,
                         SubSeq(bytes, padEnd + 1, padEnd + cs))

=============================================================================
