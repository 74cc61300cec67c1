--------------------------- MODULE Lzma2MtDecode ---------------------------
(***************************************************************************)
(* Lzma2ParallelDecoder::decode (mt/mod.rs): the ring of MtDec, and the    *)
(* single-threaded decoder that takes over what the ring read but could    *)
(* not decode.                                                             *)
(***************************************************************************)
EXTENDS MtDec

CONSTANTS
    StBufSize,      \* IN_BUF_SIZE_ST, in units of input
    StStep          \* OUT_STEP_ST or the dictionary, in units of output

ASSUME StBufSizeAssumption == StBufSize \in Nat \ {0}
ASSUME StStepAssumption == StStep \in Nat \ {0}

VARIABLES
    result,         \* what decode returned, None while it runs
    st              \* the locals of decode_st and its StSource

vars == <<ringVars, result, st>>

\* "ok", a decoder error, or the I/O error of either stream.
Results == {"ok", "read", "write"} \cup CodeError

(***************************************************************************)
(* The single-threaded tail: `chunks` is what is left of the replay, the   *)
(* current slice is the units pos+1 .. lim, of which `stale` says that     *)
(* they are zeros, the decoder was reset at offset `base`, and the output  *)
(* of the units flushed+1 .. pos is not written yet.  `held` says that the *)
(* buffer for further reads is allocated.                                  *)
(***************************************************************************)
NoTail == [on |-> FALSE, chunks |-> <<>>, pos |-> 0, lim |-> 0, stale |-> FALSE,
           base |-> 0, flushed |-> 0, first |-> TRUE, held |-> FALSE]

DecodeInit == Init /\ result = None /\ st = NoTail

-----------------------------------------------------------------------------
(***************************************************************************)
(* The plan of a decode.  Sizes are bytes; dict is what the property byte  *)
(* stands for, and an usize holds 64 bits.                                 *)
(***************************************************************************)
MinBlock == 1048576         \* K_MIN_SIZE
MaxBlock == 268435456       \* K_MAX_SIZE, and OUT_BLOCK_MAX_DEFAULT
Overhead == 327680          \* OVERHEAD_SIZE
StInput == 1048576          \* the bytes of IN_BUF_SIZE_ST

Clamped(n) == IF n < MinBlock THEN MinBlock ELSE IF n > MaxBlock THEN MaxBlock ELSE n

\* The size of the encoder's blocks: four dictionaries within bounds, but never
\* less than one, in whole megabytes.
ExpectedBlockSize(dict) ==
    LET size == IF Clamped(4 * dict) < dict THEN dict ELSE Clamped(4 * dict)
    IN  MinBlock * ((size + MinBlock - 1) \div MinBlock)

Plan(dict, wanted, limit) ==
    LET expected == ExpectedBlockSize(dict)
        perThread == expected + (expected + expected \div 16) + Overhead
        fitting == Min2(wanted, limit \div perThread)
        threads == IF fitting = 0 THEN 1 ELSE fitting
    IN  IF wanted <= 1
        THEN [threads |-> 1, outBlockMax |-> MaxBlock, perThread |-> 0, stOnly |-> TRUE]
        ELSE [threads |-> threads, outBlockMax |-> expected, perThread |-> perThread,
              stOnly |-> threads <= 1]

\* What the decode will allocate at the most.
MemoryEstimate(dict, plan) ==
    (IF plan.threads <= 1 THEN 0 ELSE plan.threads * plan.perThread) + dict + StInput

-----------------------------------------------------------------------------
\* run hands the cross block back after the blocks kept for replay.
Replay ==
    IF rd.crossLo < rd.crossHi
    THEN Append(wr.replay, [lo |-> rd.crossLo, hi |-> rd.crossHi, stale |-> FALSE])
    ELSE wr.replay

(***************************************************************************)
(* The results of run, in the order decode_dyn looks at them, or the start *)
(* of the tail.                                                            *)
(***************************************************************************)
RunResult ==
    CASE wr.err -> "write"
      [] ~wr.err /\ wr.codeRes # None -> wr.codeRes
      [] ~wr.err /\ wr.codeRes = None /\ rd.err -> "read"
      [] OTHER -> IF Replay = <<>> /\ rd.finished
                  THEN IF marked THEN "ok" ELSE "truncated"
                  ELSE None

JoinRing ==
    /\ Joined /\ result = None /\ ~st.on
    /\ result' = RunResult
    /\ st' = IF RunResult = None
             THEN [NoTail EXCEPT !.on = TRUE, !.chunks = Replay]
             ELSE st
    /\ rd' = IF wr.err \/ wr.codeRes # None THEN rd ELSE NoCross(rd)
    /\ UNCHANGED <<stream, canRead, canWrite, exit, wr, prog, pc, blk, bufs,
                   coder, out, marked, faulted>>

-----------------------------------------------------------------------------
\* What the tail allocates before it fills its slice: the decoder at first,
\* and the buffer of its own reads once the replay is used up.
Allocates == st.first \/ (st.chunks = <<>> /\ ~rd.finished /\ ~st.held)

\* Lzma2Decoder::new, and StSource::fill with an empty slice: the next replay
\* buffer, or a read.
StFill ==
    /\ st.on /\ result = None /\ st.pos = st.lim
    /\ \/ /\ st.chunks # <<>>
          /\ LET c == Head(st.chunks)
             IN  st' = [st EXCEPT !.chunks = Tail(@), !.pos = c.lo, !.lim = c.hi,
                          !.stale = c.stale,
                          !.base = IF st.first THEN c.lo ELSE @,
                          !.flushed = IF st.first THEN c.lo ELSE @,
                          !.first = FALSE]
          /\ UNCHANGED <<rd, faulted, result>>
       \/ /\ st.chunks = <<>> /\ ~rd.finished
          /\ LET n == Min2(StBufSize, Len(stream) - rd.pos)
             IN  /\ rd' = [rd EXCEPT !.pos = @ + n, !.finished = n < StBufSize]
                 /\ st' = [st EXCEPT !.pos = rd.pos, !.lim = rd.pos + n,
                             !.stale = FALSE, !.held = TRUE,
                             !.base = IF st.first THEN rd.pos ELSE @,
                             !.flushed = IF st.first THEN rd.pos ELSE @,
                             !.first = FALSE]
          /\ UNCHANGED <<faulted, result>>
       \/ /\ st.chunks = <<>> /\ ~rd.finished /\ MayFault("read")
          /\ faulted' = faulted \cup {"read"}
          /\ result' = "read"
          /\ UNCHANGED <<rd, st>>
       \/ /\ Allocates /\ MayFault("tail")
          /\ faulted' = faulted \cup {"tail"}
          /\ result' = "alloc"
          /\ UNCHANGED <<rd, st>>
    /\ UNCHANGED <<stream, canRead, canWrite, exit, wr, prog, pc, blk, bufs,
                   coder, out, marked>>

\* out.write_all of everything decoded since the last flush, up to hi; the
\* decode goes on or returns r, unless the sink fails.
Flush(hi, r) ==
    \/ /\ out' = Append(out, [lo |-> st.flushed, hi |-> hi])
       /\ result' = r
       /\ UNCHANGED faulted
    \/ /\ MayFault("write")
       /\ \E h \in st.flushed .. hi :
            out' = Append(out, [lo |-> st.flushed, hi |-> h])
       /\ result' = "write"
       /\ faulted' = faulted \cup {"write"}

\* Nothing is left to read and the decoder wants more.
StEof ==
    /\ st.on /\ result = None
    /\ st.pos = st.lim /\ st.chunks = <<>> /\ rd.finished
    /\ Flush(st.pos, "truncated")
    /\ UNCHANGED <<st, stream, canRead, canWrite, exit, rd, wr, prog, pc, blk,
                   bufs, coder, marked>>

\* decode_block on the next unit of the slice.
StUnit ==
    LET u == IF st.stale THEN "end" ELSE stream[st.pos + 1]
        n == st.pos + 1
        full == Produced(stream, st.flushed, n) >= StStep
        next == [st EXCEPT !.pos = n, !.flushed = IF full THEN n ELSE @]
        refused == ~st.stale /\ (u = "bad" \/ Illegal(stream, st.base, n))
    IN  /\ st.on /\ result = None /\ st.pos < st.lim
        /\ \/ /\ refused
              /\ result' = "corrupt"
              /\ UNCHANGED <<out, faulted, st>>
           \/ /\ ~refused /\ u = "end"
              /\ Flush(st.pos, "ok")
              /\ UNCHANGED st
           \/ /\ ~refused /\ u # "end" /\ full
              /\ Flush(n, None)
              /\ st' = next
           \/ /\ ~refused /\ u # "end" /\ ~full
              /\ st' = next
              /\ UNCHANGED <<out, faulted, result>>
        /\ UNCHANGED <<stream, canRead, canWrite, exit, rd, wr, prog, pc, blk,
                       bufs, coder, marked>>

Terminated == result # None /\ UNCHANGED vars

Tail0 == JoinRing \/ StFill \/ StEof \/ StUnit

DecodeNext ==
    \/ RingNext /\ UNCHANGED <<result, st>>
    \/ Tail0
    \/ Terminated

(***************************************************************************)
(* The scheduler runs every thread again and again; thread 0 also runs     *)
(* what follows the ring.                                                  *)
(***************************************************************************)
Fairness ==
    /\ \A t \in Threads : WF_vars(Step(t) /\ UNCHANGED <<result, st>>)
    /\ WF_vars((RunReturn /\ UNCHANGED <<result, st>>) \/ Tail0)

DecodeSpec == DecodeInit /\ [][DecodeNext]_vars /\ Fairness

-----------------------------------------------------------------------------
(***************************************************************************)
(* Whatever the interleaving and whatever fails, the output is always a    *)
(* prefix of what the sequential decoder produces: no block is written     *)
(* twice, out of order or after a gap, and none that holds a unit which    *)
(* does not decode: only the end marker, which has no output, may follow   *)
(* the units that do.                                                      *)
(* The input handed to the single-threaded tail is what the ring read and  *)
(* did not write: it starts where the output ends, has no gap and ends     *)
(* where the next read will start, unless make_coder failed, which hands   *)
(* over a buffer that nothing was copied to.                               *)
(***************************************************************************)
HandedOver(c) ==
    IF c = <<>> THEN rd.pos = Delivered
    ELSE /\ c[1].lo = Delivered
         /\ \A i \in 1 .. Len(c) - 1 : c[i].hi = c[i+1].lo
         /\ c[Len(c)].hi = rd.pos
OutputIsPrefix ==
    /\ Gapless
    /\ Delivered <= IF ValidStream(stream) THEN GoodTo(stream) + 1 ELSE GoodTo(stream)
    /\ st.on /\ st.first /\ "coder" \notin faulted => HandedOver(st.chunks)

(***************************************************************************)
(* When the environment refuses nothing, the threaded decoder returns what *)
(* the sequential one returns, whatever the thread count: the agreement    *)
(* tests/mt.rs and the decode_lzma2_mt fuzz target ask for.                *)
(***************************************************************************)
AgreesWithSequential ==
    result # None /\ faulted = {} => result = RefResult(stream)

(***************************************************************************)
(* decode returns: no token is lost and every thread leaves the ring, in   *)
(* the face of every fault too.                                            *)
(***************************************************************************)
DecodeReturns == <>(result # None)

(***************************************************************************)
(* The threads, the blocks and the single-threaded tail together keep the  *)
(* promise of decode.                                                      *)
(***************************************************************************)
P == INSTANCE DecodePromise WITH
        input <- stream, refused <- faulted, answer <- result,
        delivered <- Produced(stream, 0, Delivered)

KeepsPromise == P!Promise
=============================================================================
