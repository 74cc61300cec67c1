------------------------------ MODULE LzmaPush ------------------------------
(***************************************************************************)
(* The push encoders (enc/push.rs) over the block loop of the encoder: the *)
(* queue a caller fills, the match finder that reads it whenever its look- *)
(* ahead has fallen to KeepAfter, and one call of the block loop at a time,*)
(* started only while the queue holds more than the call can use.          *)
(*                                                                         *)
(* s is the state of one encoder: e and c (LzmaEnc, Lzma2Codec), whether   *)
(* the block is open (begun), its input, where that starts (base), the     *)
(* bytes of it given so far, how many of them the finder has read, whether *)
(* the input has ended, what has been written, and st:                     *)
(*   fill   between calls of push       open    a block is about to start  *)
(*   code   in the block loop           done    the stream is written      *)
(*   failed the finder ran dry, the stream ended early, or the destination *)
(*          was too small                                                  *)
(* set says which format (fmt), which parser (fast), how the bytes travel  *)
(* (via: pushed; pulled from a stream and written to one; or from memory   *)
(* to memory), the block size of a stream (block, 0 for one block) and how *)
(* much it was promised to be at most (limit).                             *)
(***************************************************************************)
EXTENDS Lzma2Codec

CONSTANTS
    Step,      \* LZMA_STEP, 2^17: one call of the block loop
    Margin,    \* MARGIN, 2^16
    Pieces     \* how many bytes a caller pushes at once

\* What the match finder keeps ahead: fb, the longest match and one more.
KeepAfter == FastBytes + MatchMax + 1

\* Mutation of Queue: room for one call's advance and nothing for the look-ahead.
QueueOfStep(set) == IF set.fmt = "lzma" THEN Step ELSE UnpackMax

Queue(set) == (IF set.fmt = "lzma" THEN Step ELSE UnpackMax) + Margin

Window(s, data) == SubSeq(data, 1, s.read)
Cursor(s)  == s.e.now + s.e.addl
Pending(s) == s.given - s.read
Avail(s)   == s.read - Cursor(s)

\* LimitedSeqInStream: what one block may read, up to the block size.
Limited(set, data, base) ==
    SubSeq(data, base + 1, IF set.block = 0 THEN Len(data) ELSE Lesser(base + set.block, Len(data)))

\* The input of an encoder that has read nothing of the block at base: pushed input
\* comes later, any other is all there.
Source(s, set, data, base) ==
    [s EXCEPT !.input = Limited(set, data, base), !.base = base, !.read = 0,
              !.begun = set.fmt = "lzma",
              !.given = IF set.via = "push" THEN 0 ELSE Len(Limited(set, data, base)),
              !.ended = set.via # "push", !.st = IF set.via = "push" THEN "fill" ELSE "open"]

PushStart(set, data) ==
    Source([e |-> EncStart, c |-> ChunkStart, begun |-> FALSE, input |-> data, base |-> 0,
            given |-> 0, read |-> 0, ended |-> FALSE, out |-> <<>>, from |-> 0, st |-> "fill"], set, data, 0)

\* reset: a stream in progress is abandoned.  LZMA prepares the encoder at once,
\* LZMA2 with the next stream's first chunk (Begin).
PushReset(s, set, data) ==
    LET e == IF set.fmt = "lzma" THEN [Prepare(s.e) EXCEPT !.out = <<>>] ELSE s.e
    IN  Source([s EXCEPT !.e = e, !.out = <<>>], set, data, 0)

\* PushSource::fill: as much of a piece as the queue has room for; a full queue
\* is coded before the rest.
Fill(s, set, data, piece) ==
    LET given == Lesser(s.given + Lesser(piece, Len(data) - s.given), s.read + Queue(set))
        t     == [s EXCEPT !.given = given]
    IN  [t EXCEPT !.st = IF Pending(t) >= Queue(set) THEN "open" ELSE "fill"]

FinishInput(s) == [s EXCEPT !.ended = TRUE, !.st = "open"]

\* CappedInStream: a stream that has more to give than was promised is refused where
\* the promise ends.
Capped(s, set) ==
    IF set.limit # NoLimit /\ s.base + s.read > set.limit THEN [s EXCEPT !.st = "failed"] ELSE s

\* The finder's reads: nothing while the look-ahead is long enough or at the end
\* of the input; from an empty queue before the end, a failure.  How much one
\* read takes is up to the window's room.
Refills(s, set) ==
    LET short == KeepAfter + 1 - Avail(s)
    IN  IF short <= 0 THEN {s}
        ELSE IF s.ended
        THEN {Capped([s EXCEPT !.read = r], set) : r \in {Lesser(s.given, s.read + short), s.given}}
        ELSE IF Pending(s) < short THEN {[s EXCEPT !.read = s.given, !.st = "failed"]}
        ELSE {[s EXCEPT !.read = r] : r \in {s.read + short, s.given}}

-----------------------------------------------------------------------------
(***************************************************************************)
(* code_one_block, one packet at a time.                                   *)
(***************************************************************************)
\* The end of a call that reached the end of the input or of a chunk.
FlushBlock(s, set, data) ==
    LET e == Flush(s.e, set.mark /\ set.fmt = "lzma")
        k == EndChunk(e, s.c, data)
    IN  IF set.fmt = "lzma" THEN [s EXCEPT !.e = e, !.out = e.out, !.st = "flushed"]
        ELSE IF e.now = s.c.from THEN [s EXCEPT !.e = e, !.st = "flushed"]
        ELSE [s EXCEPT !.e = k.e, !.c = k.c, !.out = @ \o k.cells, !.st = "returned"]

\* What follows a packet: the finder has moved, and with no look-ahead left the
\* block may end.
AfterPacket(s, set, data) ==
    IF s.st = "failed" \/ s.e.addl # 0 THEN s
    ELSE IF Avail(s) = 0 THEN FlushBlock(s, set, data)
    ELSE IF set.fmt = "lzma2"
    THEN IF ChunkFull(s.e, s.c) THEN FlushBlock(s, set, data) ELSE s
    ELSE IF s.e.now - s.from >= Step THEN [s EXCEPT !.out = s.e.out, !.st = "returned"] ELSE s

\* The head of a block of LZMA2, before its first chunk.
Begin(s) == [s EXCEPT !.e = Prepare(@), !.c = InitBlock(@), !.begun = TRUE]

\* What is left for the next chunk after its header.
RoomFor(s, set) ==
    IF set.via = "memory" THEN Capacity(s.given) - Len(s.out) - HeaderSize(s.c) ELSE ChunkRoom(s.c)

\* The start of a call; in LZMA2, with a coder started anew for this chunk.
StartCall(s, set) ==
    LET e == IF set.fmt = "lzma2" THEN MemBlock(s.e, s.c, RoomFor(s, set)) ELSE s.e
        c == IF set.fmt = "lzma2" THEN SaveState(s.c, s.e) ELSE s.c
    IN  [s EXCEPT !.e = e, !.c = c, !.from = s.e.now, !.st = "code"]

\* The very first byte is a literal.
FirstLiteral(s, data) ==
    [s EXCEPT !.e = CodePacket([Packet(@, Lit, 1) EXCEPT !.addl = 1], Window(s, data))]

\* A call with nothing to code ends at once.
Enter(s, set, data) == IF s.st = "code" /\ Avail(s) = 0 THEN FlushBlock(s, set, data) ELSE s

\* What the finder reads before the first byte and after it.
FirstReads(s, set, data) ==
    IF s.e.now > 0 THEN {s}
    ELSE LET more == {t \in Refills(s, set) : t.st = "code" /\ Avail(t) > 0}
         IN  (Refills(s, set) \ more)
             \cup UNION {Refills(u, set) : u \in {FirstLiteral(t, data) : t \in more}}

\* A memory destination without room for the header is refused.
OpenBlock(s, set, data) ==
    IF RoomFor(s, set) < 0 THEN {[s EXCEPT !.st = "failed"]}
    ELSE {Enter(u, set, data) :
             u \in UNION {FirstReads(t, set, data) : t \in {StartCall(s, set)}}}

\* The packets the parser may choose next.
Choices(s, set, data) ==
    LET w     == Window(s, data)
        plans == IF s.e.addl # 0 THEN {s.e} ELSE {Planned(s.e, n) : n \in PlanLengths(s.e, w)}
    IN  IF set.fast THEN {GetOptimumFast(s.e, w)}
        ELSE UNION {{Packet(e, p.back, p.len) : p \in {q \in GetOptimum(e, w) : q.len <= e.addl}} : e \in plans}

\* One packet, and the finder's reads after it.
CodeBlock(s, set, data) ==
    LET coded == {[s EXCEPT !.e = CodePacket(e, Window(s, data))] : e \in Choices(s, set, data)}
    IN  {AfterPacket(t, set, data) : t \in UNION {Refills(u, set) : u \in coded}}

\* MemoryOutput::write: what was written, and n bytes more, must fit.
Fits(s, set, n) == set.via = "memory" => Len(s.out) + n <= Capacity(s.given)

\* Back in push or finish, or in the loop over blocks: the end of the stream is an
\* end only after finish, and a block that was full is followed by another one,
\* which may find nothing to read.
Returned(s, set, data) ==
    LET failed == [s EXCEPT !.st = "failed"]
    IN  IF s.st = "returned"
        THEN IF ~Fits(s, set, 0) THEN failed
             ELSE [s EXCEPT !.st = IF s.ended \/ Pending(s) >= Queue(set) THEN "open" ELSE "fill"]
        ELSE IF ~s.ended THEN failed
        ELSE IF set.fmt = "lzma" THEN [s EXCEPT !.st = "done"]
        ELSE IF s.c.srcPos # s.given THEN failed
        ELSE IF set.block # 0 /\ s.given = set.block THEN Source(s, set, data, s.base + s.given)
        ELSE IF ~Fits(s, set, 1) THEN failed
        ELSE [s EXCEPT !.st = "done", !.out = Append(@, 0)]

\* Every step of the encoder between two calls of its caller.
PushSteps(s, set, data) ==
    LET opens == OpenBlock(s, set, s.input)
        codes == CodeBlock(s, set, s.input)
    IN  CASE s.st = "open" /\ ~s.begun -> {Begin(s)}
          [] s.st = "open" /\ s.begun -> opens
          [] s.st = "code" -> codes
          [] s.st \in {"flushed", "returned"} -> {Returned(s, set, data)}
          [] OTHER -> {}

\* What the fast parser writes for data when all of it can be read at once.
RECURSIVE PullFrom(_, _, _)
PullFrom(s, set, data) ==
    IF s.st = "done" THEN s.out
    ELSE PullFrom(CHOOSE t \in PushSteps(s, set, data) : TRUE, set, data)

\* The chunks of the blocks, each as if it were alone, and the end of the stream.
RECURSIVE BlocksFrom(_, _, _)
BlocksFrom(set, data, base) ==
    LET alone == [set EXCEPT !.via = "stream", !.block = 0, !.limit = NoLimit]
        block == Limited(set, data, base)
        out   == PullFrom([PushStart(alone, block) EXCEPT !.read = Len(block)], alone, block)
    IN  IF set.block = 0 \/ Len(block) < set.block THEN out
        ELSE SubSeq(out, 1, Len(out) - 1) \o BlocksFrom(set, data, base + set.block)

PullOutput(set, data) == LET out == BlocksFrom(set, data, 0) IN out
=============================================================================
