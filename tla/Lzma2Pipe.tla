------------------------------ MODULE Lzma2Pipe -----------------------------
(***************************************************************************)
(* The encoder's thread of src/src/enc/pipe.rs: an LZMA2 encoder that      *)
(* pulls its input from one bounded channel and puts its output into       *)
(* another, while a caller pushes into the first and drains the second.    *)
(* What the caller does is in XzWriter.                                    *)
(*                                                                         *)
(* Channels are not guarded by the gate; only the caller's tests of both   *)
(* queues before it sleeps, and the notifications, are.                    *)
(***************************************************************************)
EXTENDS XzFormat

CONSTANTS
    InputDepth, \* INPUT_DEPTH
    OutputDepth,\* OUTPUT_DEPTH
    OutBatch    \* OUT_BATCH: the cells of output that make a message

ASSUME PipeAssumption ==
    /\ InputDepth \in Nat \ {0}
    /\ OutputDepth \in Nat \ {0}
    /\ OutBatch \in Nat \ {0}

VARIABLES
    inq, outq,  \* the two channels: sequences of messages
    inTx, inRx, \* the ends of the input channel exist,
    outTx, outRx,   \* and those of the output channel
    gate,       \* TRUE while the caller holds the gate
    asleep,     \* the caller waits for `changed`
    enc         \* the thread: [st, cur, raw, buf, ended, res]

pipeVars == <<inq, outq, inTx, inRx, outTx, outRx, gate, asleep, enc>>

NoEncoder == [st |-> "off", cur |-> <<>>, raw |-> <<>>, buf |-> <<>>,
              ended |-> FALSE, res |-> ""]

PipeInit ==
    /\ inq = <<>> /\ outq = <<>>
    /\ inTx = FALSE /\ inRx = FALSE /\ outTx = FALSE /\ outRx = FALSE
    /\ gate = FALSE
    /\ asleep = FALSE
    /\ enc = NoEncoder

(* start: the channels, and the thread. *)
Start ==
    /\ inTx' = TRUE /\ inRx' = TRUE /\ outTx' = TRUE /\ outRx' = TRUE
    /\ enc' = [NoEncoder EXCEPT !.st = "recv"]
    /\ UNCHANGED <<inq, outq, gate, asleep>>

Notify == ~gate /\ asleep' = FALSE

(* The encoder stops with `res`; its sink, its source and then the end     *)
(* guard are dropped.                                                      *)
Stops(k, res) == [k EXCEPT !.st = "drop", !.res = res]

(* Source::read waits for a chunk, or finds that none can come.            *)
Receives ==
    /\ enc.st = "recv"
    /\ \/ /\ inq # <<>>
          /\ enc' = [enc EXCEPT !.st = "told", !.cur = Head(inq)]
          /\ inq' = Tail(inq)
       \/ /\ inq = <<>> /\ ~inTx
          /\ enc' = [enc EXCEPT !.st = "hung"]
          /\ UNCHANGED inq
    /\ UNCHANGED <<outq, inTx, inRx, outTx, outRx, gate, asleep>>

(* After the notification: an empty chunk is the end of the input.         *)
Told(k) ==
    IF k.st = "hung" THEN Stops(k, "read")
    ELSE [k EXCEPT !.st = "encode", !.raw = @ \o k.cur,
                   !.ended = k.cur = <<>>, !.cur = <<>>]

Tells ==
    /\ enc.st \in {"told", "hung"}
    /\ Notify
    /\ enc' = Told(enc)
    /\ UNCHANGED <<inq, outq, inTx, inRx, outTx, outRx, gate>>

(* A chunk of LZMA2 as soon as there is input for it, what is left at the  *)
(* end, or another read.  A batch of output is sent, and the last of it.   *)
Encoded(k) ==
    IF k.ended
      THEN [k EXCEPT !.buf = @ \o Packed(k.raw), !.raw = <<>>, !.st = "send"]
    ELSE IF Len(k.raw) >= ChunkBytes
      THEN LET buf == k.buf \o Chunk(FirstN(k.raw, ChunkBytes))
           IN  [k EXCEPT !.buf = buf, !.raw = Drop(@, ChunkBytes),
                         !.st = IF Len(buf) >= OutBatch THEN "send" ELSE @]
    ELSE [k EXCEPT !.st = "recv"]

(* The encoder itself may fail. *)
Encodes(fails) ==
    /\ enc.st = "encode"
    /\ enc' \in {Encoded(enc)} \cup (IF fails THEN {Stops(enc, "encoder")} ELSE {})
    /\ UNCHANGED <<inq, outq, inTx, inRx, outTx, outRx, gate, asleep>>

(* Sink::flush waits for room, or finds that nobody will take it.          *)
Flushes ==
    /\ enc.st = "send"
    /\ \/ /\ outRx /\ Len(outq) < OutputDepth
          /\ outq' = Append(outq, enc.buf)
          /\ enc' = [enc EXCEPT !.st = IF enc.ended THEN "last" ELSE "sent",
                                !.buf = <<>>]
       \/ /\ ~outRx
          /\ enc' = Stops(enc, "write")
          /\ UNCHANGED outq
    /\ UNCHANGED <<inq, inTx, inRx, outTx, outRx, gate, asleep>>

TellsSent ==
    /\ enc.st \in {"sent", "last"}
    /\ Notify
    /\ enc' = IF enc.st = "last" THEN Stops(enc, "ok")
                                 ELSE [enc EXCEPT !.st = "encode"]
    /\ UNCHANGED <<inq, outq, inTx, inRx, outTx, outRx, gate>>

(* The thread's variables are dropped: sink, source, end guard.            *)
DropsSink ==
    /\ enc.st = "drop"
    /\ outTx' = FALSE
    /\ enc' = [enc EXCEPT !.st = "drop2"]
    /\ UNCHANGED <<inq, outq, inTx, inRx, outRx, gate, asleep>>

DropsSource ==
    /\ enc.st = "drop2"
    /\ inRx' = FALSE
    /\ inq' = <<>>
    /\ enc' = [enc EXCEPT !.st = "tell"]
    /\ UNCHANGED <<outq, inTx, outTx, outRx, gate, asleep>>

WorkerEnd ==
    /\ enc.st = "tell"
    /\ Notify
    /\ enc' = [enc EXCEPT !.st = "gone"]
    /\ UNCHANGED <<inq, outq, inTx, inRx, outTx, outRx, gate>>

EncoderStep(fails) ==
    \/ Receives \/ Tells \/ Encodes(fails) \/ Flushes \/ TellsSent
    \/ DropsSink \/ DropsSource \/ WorkerEnd

EncoderReady ==
    \/ enc.st = "recv" /\ (inq # <<>> \/ ~inTx)
    \/ enc.st = "send" /\ (~outRx \/ Len(outq) < OutputDepth)
    \/ enc.st \in {"told", "hung", "sent", "last", "tell"} /\ ~gate
    \/ enc.st \in {"encode", "drop", "drop2"}

EncoderGone == enc.st \in {"off", "gone"}

=============================================================================
