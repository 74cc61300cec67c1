----------------------------- MODULE XzParallel -----------------------------
(***************************************************************************)
(* XzParallelReader of src/src/xz/parallel.rs with its pool of workers     *)
(* (src/src/xz/pool.rs) and the backward walk over the indexes that plans  *)
(* the blocks (src/src/xz/index.rs).  A file that is to be decoded by one  *)
(* thread goes to XzReader instead, which this module extends.             *)
(*                                                                         *)
(* opts.threads = 0 stands for a caller that uses XzReader itself.         *)
(***************************************************************************)
EXTENDS XzReader, XzPool

CONSTANTS
    ProbsBytes,     \* the cost of a probability table
    BufBytes,       \* the input buffer of XzReader, BUF
    FeedBytes       \* the input held by the one-thread decode; 2^18

VARIABLES
    mode,       \* "open", then how the file is read: "serial", "caller" (one
                \* thread, whole blocks) or "pool"; "closed" once dropped
    plan,       \* the blocks of the file: [check, off, unpadded, unpacked]
    threads,    \* workers this decode may use
    pos,        \* where the reader takes its source to be, None for nowhere
    at,         \* where the source is
    reads,      \* where the bytes of each block sent were read from
    dispatched, \* next_dispatch: blocks sent
    emitted,    \* next_emit: blocks adopted
    ready,      \* finished blocks that wait for their turn
    current     \* what is left of the adopted block

placeVars == <<pos, at, reads>>
ownVars == <<dispatched, emitted, ready, current>>
poolVars == <<placeVars, ownVars, workVars>>
vars == <<file, opts, readerVars, out, res, mode, plan, threads, poolVars>>

-----------------------------------------------------------------------------
(* The structure of a file, read from its end.                             *)

NoStream == [ok |-> FALSE, kind |-> "bad", off |-> 0, check |-> "none",
             records |-> <<>>]

(* read_stream_index_ending_at: the footer, the index it points back to,   *)
(* and the header the index's blocks lead back to.                         *)
HeaderAgrees(s, chk) ==
    LET h == ParseStreamHeader(SubSeq(File, s.off + 1, s.off + StreamHeaderSize))
    IN  IF s.off >= 0 /\ h.ok /\ h.check = chk THEN s ELSE NoStream

IndexedStream(start, chk, index) ==
    IF index.ok
      THEN HeaderAgrees([ok |-> TRUE, kind |-> "", check |-> chk,
                         off |-> start - BlocksSize(index.records)
                                    - StreamHeaderSize,
                         records |-> index.records], chk)
      ELSE NoStream

FootedStream(foot, f) ==
    LET start == foot - f.indexSize
    IN  IF ~f.ok THEN NoStream
        ELSE IF f.indexSize > opts.mem THEN [NoStream EXCEPT !.kind = "memory"]
        ELSE IF start < StreamHeaderSize THEN NoStream
        ELSE IndexedStream(start, f.check, ParseIndex(SubSeq(File, start + 1, foot)))

StreamEndingAt(end) ==
    LET foot == end - StreamFooterSize
    IN  IF foot < 0 THEN NoStream
        ELSE FootedStream(foot, ParseStreamFooter(SubSeq(File, foot + 1, end)))

(* stream_table: strip padding, read a stream backwards, repeat.           *)
StreamTable ==
    LET strip[e \in 0 .. Len(File)] ==
            IF e < Align THEN -1
            ELSE IF SubSeq(File, e - Align + 1, e) = Nulls(Align)
              THEN strip[e - Align] ELSE e
        ending(e) == IF strip[e] < 0 THEN NoStream ELSE StreamEndingAt(strip[e])
        walk[e \in 0 .. Len(File)] ==
            IF e = 0 THEN [ok |-> TRUE, kind |-> "", streams |-> <<>>]
            ELSE FoldSet(LAMBDA s, w :
                           IF ~s.ok THEN [ok |-> FALSE, kind |-> s.kind,
                                          streams |-> <<>>]
                           ELSE [walk[s.off] EXCEPT !.streams = Append(@, s)],
                         <<>>, {ending(e)})
    IN  IF Len(File) < 2 * StreamHeaderSize
          THEN [ok |-> FALSE, kind |-> "bad", streams |-> <<>>]
          ELSE walk[Len(File)]

(* XzIndex::blocks and plan_blocks for one stream. *)
StreamPlan(s) ==
    LET off[i \in 1 .. Len(s.records)] ==
            IF i = 1 THEN s.off + StreamHeaderSize
            ELSE off[i - 1] + PaddedSize(s.records[i - 1][1])
    IN  [i \in 1 .. Len(s.records) |->
            [check |-> s.check, off |-> off[i],
             unpadded |-> s.records[i][1], unpacked |-> s.records[i][2],
             verify |-> opts.verify]]

PlanBlocks(streams) ==
    FlattenSeq([i \in 1 .. Len(streams) |-> StreamPlan(streams[i])])

(* The caller's caps, against what the index says.                         *)
PlanRefused(streams, blocks) ==
    \/ \E i \in 1 .. Len(blocks) : blocks[i].unpacked > opts.maxBlock
    \/ FoldLeft(LAMBDA a, b : a + b.unpacked, 0, blocks) > opts.cap
    \/ \E i \in 1 .. Len(streams) : Refused(opts, streams[i].check)

Largest(sizes) == Max(sizes \cup {0})

BytesAt(from, b) == SubSeq(File, from + 1, from + PaddedSize(b.unpadded))

(* serial_cost: what decoding in the dictionaries costs, or None once that *)
(* is more than a held block costs or a header cannot be read.             *)
HeaderAt(off, size) ==
    IF size > 0 /\ off + size <= Len(File)
      THEN ParseBlockHeader(SubSeq(File, off + 1, off + size))
      ELSE [ok |-> FALSE]

HeaderOf(b) == HeaderAt(b.off, HeaderSizeFromFirstByte(File[b.off + 1]))

CostOf(headers, limit) ==
    LET fixed == BufBytes + ProbsBytes
        dict == Largest({DictBytes(h.dict, h.unc) : h \in headers})
    IN  IF fixed > limit \/ \E h \in headers : ~h.ok THEN None
        ELSE IF dict + fixed > limit THEN None ELSE dict + fixed

SerialCost(blocks, limit) ==
    CostOf({HeaderOf(blocks[i]) : i \in 1 .. Len(blocks)}, limit)

-----------------------------------------------------------------------------
Init ==
    /\ ReaderInit
    /\ out = <<>>
    /\ res = ""
    /\ mode = "open"
    /\ plan = <<>>
    /\ threads = 1
    /\ pos = None
    /\ at = 0
    /\ reads = <<>>
    /\ dispatched = 0
    /\ emitted = 0
    /\ ready = {}
    /\ current = <<>>
    /\ PoolInit

(* with_options: everything that can be refused without decoding, and how  *)
(* many workers the memory limit pays for.  The serial reader starts at    *)
(* the first stream and reads them all.                                    *)
PerWorker(blocks) ==
    Largest({blocks[i].unpacked : i \in 1 .. Len(blocks)})
      + Largest({PaddedSize(blocks[i].unpadded) : i \in 1 .. Len(blocks)})
      + ProbsBytes

Workers(blocks) ==
    Most(1, Least(Least(opts.threads, opts.mem \div PerWorker(blocks)),
                  Len(blocks)))

Open ==
    /\ mode = "open"
    /\ opts.threads > 0
    /\ \E table \in {StreamTable} :
       \E blocks \in {PlanBlocks(table.streams)} :
       \E n \in {Workers(blocks)} :
       \E serial \in {IF n = 1 /\ ~opts.verified
                        THEN SerialCost(blocks, PerWorker(blocks)) ELSE None} :
         LET needed == IF serial # None THEN serial ELSE PerWorker(blocks)
             refusal == IF ~table.ok THEN table.kind
                        ELSE IF PlanRefused(table.streams, blocks) THEN "bad"
                        ELSE IF needed > opts.mem THEN "memory"
                        ELSE ""
         IN  IF refusal # ""
               THEN /\ res' = refusal
                    /\ UNCHANGED <<opts, mode, plan, threads>>
               ELSE /\ mode' = IF serial # None THEN "serial"
                               ELSE IF n = 1 THEN "caller" ELSE "pool"
                    /\ opts' = IF serial # None
                                 THEN [opts EXCEPT !.concat = TRUE] ELSE opts
                    /\ plan' = blocks
                    /\ threads' = n
                    /\ UNCHANGED res
    /\ UNCHANGED <<file, readerVars, out, poolVars>>

(* A caller of XzReader itself. *)
OpenReader ==
    /\ mode = "open"
    /\ opts.threads = 0
    /\ mode' = "serial"
    /\ UNCHANGED <<file, opts, readerVars, out, res, plan, threads, poolVars>>

Serial ==
    /\ mode = "serial"
    /\ ReaderStep
    /\ UNCHANGED <<mode, plan, threads, poolVars>>

-----------------------------------------------------------------------------
(* Delivery.                                                               *)

Reading == res = "" /\ mode \in {"caller", "pool"}

(* `read` hands out what the caller has room for.                          *)
HandOut ==
    /\ Reading
    /\ current # <<>>
    /\ LET n == Least(opts.room, Len(current))
       IN  /\ out' = out \o FirstN(current, n)
           /\ current' = Drop(current, n)
    /\ UNCHANGED <<file, opts, readerVars, res, mode, plan, threads, placeVars,
                   dispatched, emitted, ready, workVars>>

(* adopt: the block becomes the current output, or its failure ends the    *)
(* reading for good.                                                       *)
Adopt(decoded) ==
    /\ current' = decoded.out
    /\ emitted' = IF decoded.ok THEN emitted + 1 ELSE emitted
    /\ res' = IF decoded.ok THEN "" ELSE "bad"

(* decode_block_reader: header and trailer first, then the packed data in  *)
(* pieces of at most FeedBytes, in the order feed_block reads them.        *)
FeedBlock(job, cells) ==
    FoldLeft(LAMBDA acc, piece :
               LET p == Lzma2Decode(acc.lz, piece,
                                    job.unpacked - Len(acc.out), TRUE)
               IN  IF acc.stop THEN acc
                   ELSE [lz |-> p.lz, out |-> acc.out \o p.out,
                         read |-> acc.read + p.read, status |-> p.status,
                         stop |-> p.read # Len(piece) \/ p.status = "marked"],
             [lz |-> NewLzma2, out |-> <<>>, read |-> 0, status |-> "more",
              stop |-> FALSE],
             Cut(cells, FeedBytes))

DecodeBlockReader(job, bytes) ==
    LET hs == HeaderSizeFromFirstByte(bytes[1])
        cs == CheckSize(job.check)
        header == ParseBlockHeader(FirstN(bytes, hs))
        packedLen == job.unpadded - hs - cs
        trailer == Drop(bytes, hs + packedLen)
        p == FeedBlock(job, SubSeq(bytes, hs + 1, hs + packedLen))
    IN  IF hs = 0 \/ hs + cs > job.unpadded THEN Failed
        ELSE IF \/ ~BlockAgrees(job, header, hs)
                \/ \E i \in 1 .. PadLen(packedLen) : trailer[i] # Null
          THEN Failed
        ELSE FinishBlock(job, header, p, packedLen,
                         Drop(trailer, PadLen(packedLen)))

(* Where a block is read from: seek, unless the source is taken to be      *)
(* there already.                                                          *)
Seek(b) == IF pos # b.off THEN b.off ELSE at

(* advance with one thread: the next block on the caller's own thread.     *)
AdvanceCaller ==
    /\ Reading
    /\ mode = "caller"
    /\ current = <<>>
    /\ dispatched < Len(plan)
    /\ \E b \in {plan[dispatched + 1]} :
       \E r \in {DecodeBlockReader(b, BytesAt(Seek(b), b))} :
           /\ Adopt(r)
           /\ at' = Seek(b) + PaddedSize(b.unpadded)
           /\ pos' = IF r.ok THEN b.off + PaddedSize(b.unpadded) ELSE None
           /\ reads' = Append(reads, Seek(b))
           /\ dispatched' = IF r.ok THEN dispatched + 1 ELSE dispatched
    /\ UNCHANGED <<file, opts, readerVars, out, mode, plan, threads, ready,
                   workVars>>

TakeReady ==
    /\ Reading
    /\ current = <<>>
    /\ emitted + 1 \in ready
    /\ ready' = ready \ {emitted + 1}
    /\ Adopt(DecodeBlock(plan[emitted + 1],
                         BytesAt(reads[emitted + 1], plan[emitted + 1])))
    /\ UNCHANGED <<file, opts, readerVars, out, mode, plan, threads, placeVars,
                   dispatched, workVars>>

(* Mutation of MayDispatch: a finished block gives up its admission. *)
MayDispatchWhileReady ==
    /\ InFlight < threads
    /\ dispatched < Len(plan)

(* Finished blocks that wait for their order keep their admission.         *)
MayDispatch ==
    /\ InFlight + Cardinality(ready) < threads
    /\ dispatched < Len(plan)

(* dispatch_one: reads the block and sends it, starting one more worker    *)
(* while there are fewer than threads; a worker may fail to start.         *)
Dispatching ==
    /\ Reading
    /\ mode = "pool"
    /\ current = <<>>
    /\ emitted + 1 \notin ready
    /\ MayDispatch

DispatchOne ==
    /\ Dispatching
    /\ LET b == plan[dispatched + 1]
       IN  /\ Seek(b) + PaddedSize(b.unpadded) <= Len(File)
           /\ reads' = Append(reads, Seek(b))
           /\ at' = Seek(b) + PaddedSize(b.unpadded)
           /\ pos' = b.off + PaddedSize(b.unpadded)
    /\ dispatched' = dispatched + 1
    /\ Dispatch(dispatched + 1, threads, opts.starved)
    /\ UNCHANGED <<file, opts, readerVars, out, res, mode, plan, threads, emitted,
                   ready, current, doneq>>

(* The source fails inside a block, or ends there: the error goes to the   *)
(* caller, who may read again.  In the pool's path the reader has noted    *)
(* where it sought to, in the caller's that it does not know.              *)
BlockFails ==
    /\ \/ Dispatching
       \/ Reading /\ mode = "caller" /\ current = <<>> /\ dispatched < Len(plan)
    /\ LET b == plan[dispatched + 1]
           short == Seek(b) + PaddedSize(b.unpadded) > Len(File)
       IN  /\ short \/ opts.io > 0
           /\ opts' = IF short THEN opts ELSE [opts EXCEPT !.io = @ - 1]
           /\ at' \in IF short THEN {Len(File)} ELSE {Seek(b), Seek(b) + 1}
           /\ pos' = IF mode = "pool" THEN b.off ELSE None
    /\ res' = "io"
    /\ UNCHANGED <<file, readerVars, out, mode, plan, threads, reads, ownVars,
                   workVars>>

(* The caller reads again after an error of the source.                    *)
Retry ==
    /\ opts.retry
    /\ res = "io"
    /\ mode \in {"serial", "caller", "pool"}
    /\ res' = ""
    /\ UNCHANGED <<file, opts, readerVars, out, mode, plan, threads, poolVars>>

Waiting ==
    /\ Reading
    /\ mode = "pool"
    /\ current = <<>>
    /\ emitted + 1 \notin ready
    /\ ~MayDispatch
    /\ InFlight > 0

Collect ==
    /\ Waiting
    /\ doneq # <<>>
    /\ doneq' = Tail(doneq)
    /\ ready' = ready \cup {Head(doneq)}
    /\ UNCHANGED <<file, opts, readerVars, out, res, mode, plan, threads, placeVars,
                   dispatched, emitted, current, jobs, busy, live, open>>

(* collect times out and finds that no thread can send anything.           *)
CollectNothing ==
    /\ Waiting
    /\ doneq = <<>>
    /\ NoneAlive
    /\ res' = "internal"
    /\ UNCHANGED <<file, opts, readerVars, out, mode, plan, threads, poolVars>>

EndOfBlocks ==
    /\ Reading
    /\ current = <<>>
    /\ emitted + 1 \notin ready
    /\ ~MayDispatch
    /\ IF mode = "caller" THEN dispatched = Len(plan) ELSE InFlight = 0
    /\ res' = "done"
    /\ UNCHANGED <<file, opts, readerVars, out, mode, plan, threads, poolVars>>

-----------------------------------------------------------------------------
(* The workers, and dropping the reader.                                   *)

Worker ==
    /\ WorkerStep
    /\ UNCHANGED <<file, opts, readerVars, out, res, mode, plan, threads,
                   placeVars, ownVars>>

(* The caller drops the reader, before its first read, with a block half   *)
(* read or at the end: shutdown hangs up and joins the workers.            *)
DropReader ==
    /\ mode = "pool"
    /\ res # "" \/ current # <<>> \/ dispatched = 0
    /\ mode' = "closed"
    /\ Shutdown
    /\ res' = IF res = "" THEN "dropped" ELSE res
    /\ UNCHANGED <<file, opts, readerVars, out, plan, threads, placeVars, ownVars>>

Over ==
    /\ res # ""
    /\ mode # "pool"
    /\ live = 0
    /\ ~(opts.retry /\ res = "io" /\ mode # "closed")

Idle == Over /\ UNCHANGED vars

Next ==
    \/ Open \/ OpenReader \/ Serial
    \/ HandOut \/ AdvanceCaller \/ TakeReady
    \/ DispatchOne \/ BlockFails \/ Retry \/ Collect \/ CollectNothing \/ EndOfBlocks
    \/ Worker \/ DropReader
    \/ Idle

(* Somebody can take a step: a caller whose read has not come back or who  *)
(* drops a reader it is done with, or a worker.                            *)
CallerReady ==
    \/ res = "" /\ (mode # "pool" \/ ~Waiting \/ doneq # <<>> \/ NoneAlive)
    \/ res # "" /\ mode = "pool"
    \/ res = "io" /\ opts.retry /\ mode # "closed"

(* A caller reads until it is told how the file ended, then lets go of the *)
(* reader; threads run.                                                    *)
Fairness == []<>~(CallerReady \/ WorkerReady) \/ []<><<Next>>_vars

Spec == Init /\ [][Next]_vars /\ Fairness

-----------------------------------------------------------------------------
(* Reading to the end succeeds for the files that a writer could have      *)
(* produced and the caller allows, with all of their data, and for no      *)
(* other, whichever of the readers decodes them, in whatever pieces the    *)
(* source answers and however the workers race: `read` in reader.rs and    *)
(* parallel.rs.                                                            *)
AcceptsExactly ==
    /\ res = "done" => \E data \in file.contents :
                          /\ Len(out) = Len(data)
                          /\ ~file.flipped => out = data
    /\ res = "bad" => file.contents = {}

(* A reader that holds whole blocks hands out only blocks that passed      *)
(* their check and in the order of the file, so at every moment what the   *)
(* caller has is the beginning of the original data, and no more blocks    *)
(* are held than were admitted: adopt and advance of parallel.rs.          *)
VerifiedInOrder ==
    mode \in {"caller", "pool", "closed"} =>
        /\ file.checked => IsPrefix(out, file.data)
        /\ InFlight + Cardinality(ready) <= threads

(* Every read comes back, and dropping the reader leaves no thread: the    *)
(* wait in collect and the joins of shutdown (parallel.rs, pool.rs).       *)
ReaderEnds == <>[]Over

=============================================================================
