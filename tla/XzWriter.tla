------------------------------ MODULE XzWriter ------------------------------
(***************************************************************************)
(* Writing: XzEncoder of src/src/enc/xz_enc.rs, the Write adapters         *)
(* XzWriter and Lzma2Writer of src/src/enc/write.rs and the caller's side  *)
(* of Lzma2Pipe of src/src/enc/pipe.rs.                                    *)
(*                                                                         *)
(* A caller writes `opts.data` in pieces to a writer of one of three       *)
(* kinds: "xz" (XzWriter over a sink that may refuse), "lzma2"             *)
(* (Lzma2Writer, likewise) or "enc" (XzEncoder, whose output the caller    *)
(* takes).  The writer is the record `w`; `Pushed`, `BlockReady` and the   *)
(* others map one such record to the next.  What a call has for the sink   *)
(* is collected in w.emit and delivered by the action.                     *)
(***************************************************************************)
EXTENDS XzFiles, Lzma2Pipe

CONSTANTS
    Options,    \* callers: [kind, data, pieces, check, filters, block, threads,
                \* room, stream, spawns, fails, broken, refusals, change, drops]
    ChunkLen    \* CHUNK: the bytes of a message to the encoder

ASSUME ChunkAssumption == ChunkLen \in Nat \ {0}

VARIABLES opts, w,
    pc          \* the caller: "idle" (between calls), "try", "full" (with the
                \* gate), "drain", "recv", "join" or "over"

callVars == <<opts, w, pc>>
vars == <<callVars, pipeVars>>

Solid == 99     \* DEFAULT_BLOCK_SIZE
Dict == 8       \* the dictionary property byte

NewWriter(o) ==
    [check |-> o.check, filters |-> o.filters, block |-> o.block,
     threads |-> o.threads,
     may |-> o.stream,      \* may_stream
     given |-> 0,           \* how much of opts.data the calls have taken
     pending |-> <<>>, queue |-> <<>>, records |-> <<>>,
     eout |-> IF o.kind = "lzma2" THEN <<>> ELSE StreamHeader(o.check),
     out |-> <<>>,          \* the adapter's, not accepted yet
     inner |-> <<>>,        \* what the sink has accepted
     emit |-> <<>>,
     streaming |-> FALSE, stages |-> <<>>, sum |-> <<>>, produced |-> 0,
     fill |-> <<>>,
     sends |-> <<>>,        \* the messages this call has still to send
     refusals |-> o.refusals,
     packs |-> 0,           \* blocks compressed on the caller's behalf
     call |-> "none",       \* the call that is under way
     res |-> ""]            \* how the last call ended, if that is the end

Init ==
    /\ opts \in Options
    /\ w = NewWriter(opts)
    /\ pc = "idle"
    /\ PipeInit

-----------------------------------------------------------------------------
(* Blocks that are held whole.                                             *)

(* append_block: a block that was compressed.  The broken-th compression   *)
(* fails, and with it the call; what was queued behind it is lost.         *)
Appended(a, b) ==
    [a EXCEPT !.emit = @ \o b.cells, !.records = Append(@, b.record),
              !.packs = @ + 1]

AppendBlock(a, data) ==
    IF a.res # "" THEN a
    ELSE IF a.packs + 1 = opts.broken THEN [a EXCEPT !.res = "error"]
    ELSE Appended(a, BlockCells(a.check, data, a.filters, Dict, TRUE))

(* flush_queue, after compress_queue has had a thread for every block.     *)
FlushQueue(a) ==
    FoldLeft(AppendBlock, [a EXCEPT !.queue = <<>>], a.queue)

(* block_ready: `pending` is a whole block.                                *)
Queued(a) == IF Len(a.queue) >= a.threads THEN FlushQueue(a) ELSE a

BlockReady(a) ==
    IF a.threads > 1
      THEN Queued([a EXCEPT !.queue = Append(@, a.pending), !.pending = <<>>])
      ELSE [AppendBlock(a, a.pending) EXCEPT !.pending = <<>>]

Full(a) == IF Len(a.pending) >= a.block THEN BlockReady(a) ELSE a

(* A byte goes into the block that is being filled.                        *)
Filled(a, byte) ==
    Full([Full(a) EXCEPT !.pending = Append(@, byte)])

-----------------------------------------------------------------------------
(* The solid block while it streams.                                       *)

(* Lzma2Pipe::write: full chunks are sent, the rest waits.                 *)
PipeWrite(a, data) ==
    LET all == a.fill \o data
        n == Len(all) \div ChunkLen
    IN  [a EXCEPT !.sends = @ \o FirstN(Cut(all, ChunkLen), n),
                  !.fill = Drop(all, n * ChunkLen)]

PipeWriteOwned(a, data) ==
    [a EXCEPT !.sends = @ \o (IF a.fill = <<>> THEN <<>> ELSE <<a.fill>>)
                          \o (IF data = <<>> THEN <<>> ELSE <<data>>),
              !.fill = <<>>]

(* SolidStream::push and push_owned: the check is of what came in, the     *)
(* encoder gets what the converters make of it.                            *)
Converted(a, r) == PipeWrite([a EXCEPT !.stages = r.stages], r.data)

PushStream(a, data) ==
    Converted([a EXCEPT !.sum = @ \o data],
              RunBuffer(a.stages, data, FALSE, TRUE))

PushOwned(a, data) ==
    IF a.stages # <<>> THEN PushStream(a, data)
    ELSE PipeWriteOwned([a EXCEPT !.sum = @ \o data], data)

(* start_stream_with, once the thread is there.  What was queued under an  *)
(* earlier block size comes first.                                         *)
SolidHeader(a) == IF opts.kind = "lzma2" THEN <<>>
                  ELSE BlockHeader(None, None, a.filters, Dict)

StreamBegun(a) ==
    [a EXCEPT !.streaming = TRUE, !.emit = @ \o SolidHeader(a),
              !.stages = Stages(a.filters), !.pending = <<>>]

StartStream(a) == PushOwned(StreamBegun(a), a.pending)

-----------------------------------------------------------------------------
(* push: where the next bytes go.                                          *)

Held(a, data) ==
    LET n == Least(Most(opts.room - Len(a.pending), 0), Len(data))
    IN  [a EXCEPT !.pending = @ \o FirstN(data, n)]

Rest(a, data) == Drop(data, Least(Most(opts.room - Len(a.pending), 0), Len(data)))

InBlocks(a, data) == FoldLeft(Filled, a, data)

(* Whether a push of `data` has to start a stream. *)
Starts(a, data) ==
    /\ ~a.streaming
    /\ a.block = Solid /\ a.may
    /\ Rest(a, data) # <<>>

Pushed(a, data, spawned) ==
    IF a.streaming THEN PushStream(a, data)
    ELSE IF a.block # Solid \/ ~a.may THEN InBlocks(a, data)
    ELSE IF Rest(a, data) = <<>> THEN Held(a, data)
    ELSE IF spawned
      THEN PushStream(StartStream(FlushQueue(Held(a, data))), Rest(a, data))
    ELSE InBlocks([FlushQueue(Held(a, data)) EXCEPT !.may = FALSE], Rest(a, data))

-----------------------------------------------------------------------------
(* The sink.  It takes some of what it is offered, and all of it unless it *)
(* refuses; `refusals` bounds how often it does.                           *)

Takes(a, cells) ==
    {Len(cells)} \cup (IF a.refusals > 0 /\ cells # <<>>
                         THEN {0, Len(cells) - 1} ELSE {})

Accepted(a, cells, n) ==
    [a EXCEPT !.inner = @ \o FirstN(cells, n),
              !.refusals = IF n < Len(cells) THEN @ - 1 ELSE @]

(* drain of the adapters: what the encoder has goes behind what is left,   *)
(* and what the sink does not accept stays.                                *)
Drained(a) ==
    {[Accepted(a, a.out \o a.eout, n) EXCEPT
         !.out = Drop(a.out \o a.eout, n), !.eout = <<>>]
       : n \in Takes(a, a.out \o a.eout)}

(* Mutation of WrittenSome: the buffer keeps what the sink took of it. *)
WrittenAgain(a, n) == [Accepted(a, a.emit, n) EXCEPT
                          !.out = IF n < Len(a.emit) THEN a.emit ELSE <<>>,
                          !.emit = <<>>]

(* Output of a call goes to the sink at once if nothing is left over, to   *)
(* the adapter's buffer or to the encoder's own; in finish the sink has to *)
(* take it.                                                                *)
WrittenSome(a, n) == [Accepted(a, a.emit, n) EXCEPT
                         !.out = Drop(a.emit, n), !.emit = <<>>]

WrittenAll(a, n) ==
    [Accepted(a, a.emit, n) EXCEPT
        !.emit = <<>>,
        !.res = IF n < Len(a.emit) THEN "io" ELSE @]

Delivered(a) ==
    CASE opts.kind = "enc"
           -> {[a EXCEPT !.eout = @ \o a.emit, !.emit = <<>>]}
      [] opts.kind = "lzma2" \/ (a.out # <<>> /\ a.call = "write")
           -> {[a EXCEPT !.out = @ \o a.emit, !.emit = <<>>]}
      [] opts.kind = "xz" /\ a.out = <<>> /\ a.call = "write"
           -> {WrittenSome(a, n) : n \in Takes(a, a.emit)}
      [] opts.kind = "xz" /\ a.call = "finish"
           -> {WrittenAll(a, n) : n \in Takes(a, a.emit)}

(* The end of a call, or what it has still to send.                        *)
Returns(a) ==
    IF opts.kind = "enc" THEN {[a EXCEPT !.call = "none"]}
    ELSE {[b EXCEPT !.call = "none"] : b \in Drained(a)}

Goes(a) ==
    \E b \in Delivered(a) :
       IF b.res # "" THEN w' = b /\ pc' = "join"
       ELSE IF b.sends # <<>> THEN w' = b /\ pc' = "try"
       ELSE w' \in Returns(b) /\ pc' = "idle"

-----------------------------------------------------------------------------
(* The caller.                                                             *)

Piece(n) == SubSeq(opts.data, w.given + 1, Least(w.given + n, Len(opts.data)))

(* write: nothing of the piece is taken while the sink refuses what is     *)
(* left over from an earlier call.                                         *)
BeforeCall(a) == IF opts.kind = "enc" THEN {a} ELSE Drained(a)

Write ==
    /\ pc = "idle" /\ w.res = ""
    /\ w.given < Len(opts.data)
    /\ \E a \in BeforeCall(w) :
       IF a.out # <<>> THEN w' = a /\ UNCHANGED <<pc, pipeVars>>
       ELSE \E n \in opts.pieces :
            \E spawned \in IF Starts(a, Piece(n)) THEN opts.spawns ELSE {FALSE} :
               /\ Goes(Pushed([a EXCEPT !.given = @ + Len(Piece(n)),
                                        !.call = "write"],
                              Piece(n), spawned))
               /\ IF spawned THEN Start ELSE UNCHANGED pipeVars
    /\ UNCHANGED opts

Flush ==
    /\ pc = "idle" /\ w.res = ""
    /\ opts.kind # "enc"
    /\ w' \in Drained(w)
    /\ UNCHANGED <<opts, pc, pipeVars>>

TakeOutput ==
    /\ pc = "idle"
    /\ opts.kind = "enc"
    /\ w' = [w EXCEPT !.inner = @ \o w.eout, !.eout = <<>>]
    /\ UNCHANGED <<opts, pc, pipeVars>>

(* The settings.  set_check and set_filters refuse once bytes have gone    *)
(* in, which `started` tells.                                              *)
Started(a) == a.records # <<>> \/ a.pending # <<>> \/ a.streaming

SetCheck ==
    /\ pc = "idle" /\ w.res = ""
    /\ opts.kind # "lzma2"
    /\ opts.change = "check" \/ (opts.change = "early" /\ w.inner = <<>> /\ w.given = 0)
    /\ ~Started(w)
    /\ w' = [w EXCEPT !.check = "none", !.eout = StreamHeader("none")]
    /\ UNCHANGED <<opts, pc, pipeVars>>

(* What a caller may ask set_filters for: a filter it takes, and chains    *)
(* that chain_for refuses, one too long and one with a second LZMA2.       *)
FilterChoices == {<<Delta>>, <<BcjAt(Unit)>>, [i \in 1 .. MaxFilters |-> Delta], <<Lzma2(Dict)>>}

SetFilters ==
    /\ pc = "idle" /\ w.res = ""
    /\ opts.change = "early" /\ w.given = 0
    /\ ~Started(w)
    /\ \E fs \in FilterChoices :
          w' = IF ValidChain(ChainFor(fs, Dict)) THEN [w EXCEPT !.filters = fs] ELSE w
    /\ UNCHANGED <<opts, pc, pipeVars>>

SetThreads ==
    /\ pc = "idle" /\ w.res = ""
    /\ opts.change = "threads" \/ (opts.change = "early" /\ w.queue = <<>>)
    /\ \E n \in {1, 2} : w' = [w EXCEPT !.threads = n]
    /\ UNCHANGED <<opts, pc, pipeVars>>

SetBlockSize ==
    /\ pc = "idle" /\ w.res = ""
    /\ opts.change = "block"
    /\ \E n \in {2, Solid} : w' = [w EXCEPT !.block = n]
    /\ UNCHANGED <<opts, pc, pipeVars>>

-----------------------------------------------------------------------------
(* send: the gate is held over the tests of both queues.                   *)

Stopped == pc' = "join" /\ w' = [w EXCEPT !.res = "stopped"]

TrySend ==
    /\ pc = "try"
    /\ ~asleep /\ ~gate
    /\ CASE ~inRx -> Stopped /\ UNCHANGED <<inq, gate>>
         [] inRx /\ Len(inq) < InputDepth
              -> /\ inq' = Append(inq, Head(w.sends))
                 /\ w' = [w EXCEPT !.sends = Tail(@)]
                 /\ pc' = "drain"
                 /\ UNCHANGED gate
         [] inRx /\ Len(inq) = InputDepth
              -> pc' = "full" /\ gate' = TRUE /\ UNCHANGED <<inq, w>>
    /\ UNCHANGED <<opts, outq, inTx, inRx, outTx, outRx, asleep, enc>>

Sleep ==
    /\ asleep' = TRUE /\ pc' = "try" /\ UNCHANGED <<w, outq>>

(* append: a chunk of output.                                              *)
Received(a, chunk) ==
    [a EXCEPT !.emit = @ \o chunk, !.produced = @ + Len(chunk)]

(* Mutation of TakeOrSleep: the caller sleeps without a look at the output. *)
SleepUnlooked == Sleep

TakeOrSleep ==
    CASE outq # <<>>
           -> /\ \E b \in Delivered(Received(w, Head(outq))) :
                    w' = b /\ pc' = IF b.res = "" THEN "try" ELSE "join"
              /\ outq' = Tail(outq)
              /\ UNCHANGED asleep
      [] outq = <<>> /\ outTx -> Sleep
      [] outq = <<>> /\ ~outTx -> Stopped /\ UNCHANGED <<outq, asleep>>

(* The input is full: take output, or sleep until something changes.       *)
InputIsFull ==
    /\ pc = "full"
    /\ gate' = FALSE
    /\ TakeOrSleep
    /\ UNCHANGED <<opts, inq, inTx, inRx, outTx, outRx, enc>>

(* drain of the pipe: whatever output is ready.                            *)
DrainOne ==
    /\ pc = "drain"
    /\ outq # <<>>
    /\ \E b \in Delivered(Received(w, Head(outq))) :
          w' = b /\ pc' = IF b.res = "" THEN "drain" ELSE "join"
    /\ outq' = Tail(outq)
    /\ UNCHANGED <<opts, inq, inTx, inRx, outTx, outRx, gate, asleep, enc>>

(* Then the next message, and after the last one the call returns or, in   *)
(* finish, hangs up and waits for the rest.                                *)
DrainEmpty ==
    /\ pc = "drain"
    /\ outq = <<>>
    /\ CASE w.sends # <<>> -> pc' = "try" /\ UNCHANGED <<w, inTx>>
         [] w.sends = <<>> /\ w.call = "write"
              -> pc' = "idle" /\ w' \in Returns(w) /\ UNCHANGED inTx
         [] w.sends = <<>> /\ w.call = "finish"
              -> pc' = "recv" /\ inTx' = FALSE /\ UNCHANGED w
    /\ UNCHANGED <<opts, inq, outq, inRx, outTx, outRx, gate, asleep, enc>>

-----------------------------------------------------------------------------
(* finish.                                                                 *)

(* The end of the input: the converters' tails, what is being filled and   *)
(* an empty chunk.                                                         *)
EndStream(a) ==
    [PipeWriteOwned(Converted(a, RunBuffer(a.stages, <<>>, TRUE, TRUE)), <<>>)
        EXCEPT !.sends = Append(@, <<>>)]

(* The blocks that are held, the index and the footer.                     *)
Closed(a) ==
    IF a.res # "" THEN a
    ELSE [a EXCEPT !.emit = @ \o IndexOf(a.records)
                              \o StreamFooter(IndexSize(a.records), a.check),
                   !.res = "ok"]

FinishBlocks(a) ==
    Closed(FlushQueue(IF a.pending = <<>> THEN a ELSE BlockReady(a)))

FinishRaw(a) == [a EXCEPT !.emit = @ \o Packed(a.pending), !.res = "ok"]

FinishHeld(a) == IF opts.kind = "lzma2" THEN FinishRaw(a) ELSE FinishBlocks(a)

(* finish_stream_output: padding, check and record of the solid block.     *)
StreamClosed(a) ==
    LET c == CheckCells(a.check, a.sum)
    IN  IF opts.kind = "lzma2" THEN [a EXCEPT !.res = "ok"]
        ELSE FinishBlocks(
               [a EXCEPT !.emit = @ \o Nulls(PadLen(a.produced)) \o c,
                         !.records = Append(@, <<2 * Align + a.produced + Len(c),
                                                 Len(a.sum)>>)])

(* The last output: an adapter over a sink must get all of it out.         *)
Ends(a) ==
    IF opts.kind = "lzma2"
      THEN {[b EXCEPT !.res = IF b.out = <<>> THEN a.res ELSE "io"]
              : b \in UNION {Drained(c) : c \in Delivered(a)}}
      ELSE Delivered(a)

Ended(a) == w' \in Ends(a) /\ pc' = "over"

Finish ==
    /\ pc = "idle" /\ w.res = ""
    /\ w.given = Len(opts.data)
    /\ \E a \in BeforeCall(w) :
       IF a.out # <<>> THEN w' = [a EXCEPT !.res = "io"] /\ pc' = "join"
       ELSE IF a.streaming THEN Goes(EndStream([a EXCEPT !.call = "finish"]))
       ELSE Ended(FinishHeld([a EXCEPT !.call = "finish"]))
    /\ UNCHANGED <<opts, pipeVars>>

(* Output until the encoder hangs up. *)
FinishReceives ==
    /\ pc = "recv"
    /\ outq # <<>>
    /\ \E b \in Delivered(Received(w, Head(outq))) :
          w' = b /\ pc' = IF b.res = "" THEN "recv" ELSE "join"
    /\ outq' = Tail(outq)
    /\ UNCHANGED <<opts, inq, inTx, inRx, outTx, outRx, gate, asleep, enc>>

FinishJoins ==
    /\ pc = "recv"
    /\ outq = <<>> /\ ~outTx
    /\ enc.st = "gone"
    /\ IF enc.res = "ok" THEN Ended(StreamClosed(w))
       ELSE w' = [w EXCEPT !.res = enc.res] /\ pc' = "over"
    /\ UNCHANGED <<opts, pipeVars>>

(* A call that failed returns; `stopped` joins the thread first.  The      *)
(* caller then drops the writer, as it may at any time between calls.      *)
Fails ==
    /\ pc = "join"
    /\ w.res = "stopped" => enc.st = "gone"
    /\ w' = [w EXCEPT !.res = IF @ = "stopped" THEN enc.res ELSE @]
    /\ pc' = "over"
    /\ inTx' = FALSE
    /\ outRx' = FALSE
    /\ UNCHANGED <<opts, inq, outq, inRx, outTx, gate, asleep, enc>>

DropWriter ==
    /\ pc = "idle" /\ w.res = ""
    /\ opts.drops
    /\ w' = [w EXCEPT !.res = "dropped"]
    /\ pc' = "over"
    /\ inTx' = FALSE
    /\ outRx' = FALSE
    /\ UNCHANGED <<opts, inq, outq, inRx, outTx, gate, asleep, enc>>

Encoder == EncoderStep(opts.fails) /\ UNCHANGED callVars

Over == pc = "over" /\ EncoderGone

Idle == Over /\ UNCHANGED vars

CallerStep ==
    \/ Write \/ TrySend \/ InputIsFull \/ DrainOne \/ DrainEmpty
    \/ Finish \/ FinishReceives \/ FinishJoins \/ Fails \/ DropWriter

Next ==
    \/ CallerStep \/ Encoder \/ Idle
    \/ Flush \/ TakeOutput
    \/ SetCheck \/ SetFilters \/ SetThreads \/ SetBlockSize

(* Both threads run; the caller writes on and finishes.                    *)
CallerReady ==
    \/ pc \in {"idle", "full", "drain"}
    \/ pc = "try" /\ ~asleep /\ ~gate
    \/ pc = "recv" /\ (outq # <<>> \/ enc.st = "gone")
    \/ pc = "join" /\ (w.res = "stopped" => enc.st = "gone")

Fairness ==
    /\ []<>~CallerReady \/ []<><<CallerStep>>_vars
    /\ []<>~EncoderReady \/ []<><<Encoder>>_vars

Spec == Init /\ [][Next]_vars /\ Fairness

-----------------------------------------------------------------------------
(* What a finished file must be: the input, cut where the records say it   *)
(* was cut, written as the one stream that XzFiles describes; with a block *)
(* size that was never changed, cut at every multiple of it.               *)
Lengths == [i \in 1 .. Len(w.records) |-> w.records[i][2]]

BlockOf(i) ==
    Block(SubSeq(opts.data, Before(Lengths, i - 1) + 1, Before(Lengths, i)),
          w.filters, Dict, ~(w.streaming /\ i = Len(w.records)))

TheFile ==
    IF opts.kind = "lzma2" THEN Packed(opts.data)
    ELSE Whole(<<Stream(w.check, [i \in 1 .. Len(w.records) |-> BlockOf(i)] \o <<>>,
                        0)>>, "")

(* A writer that says it is finished has written the file of its whole     *)
(* input, once and in order, whatever the pieces, the sink's refusals and  *)
(* the thread that encodes beside it, and the number of block threads does *)
(* not show: push, finish and the adapters' drain.                         *)
WrittenFile ==
    w.res = "ok" =>
       /\ w.inner \o w.eout = TheFile
       /\ Before(Lengths, Len(Lengths)) = Len(opts.data) \/ opts.kind = "lzma2"
       /\ opts.change # "block" /\ opts.block # Solid =>
             Lengths = [i \in 1 .. Len(Cut(opts.data, opts.block)) |->
                           Len(Cut(opts.data, opts.block)[i])]

(* A caller that writes and finishes, or drops the writer, gets an answer, *)
(* and the encoder's thread ends, with both queues full or an encoder that *)
(* failed: send, finish and WorkerEnd of pipe.rs.                          *)
WriterEnds == <>[]Over

=============================================================================
