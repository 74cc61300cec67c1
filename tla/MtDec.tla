------------------------------- MODULE MtDec -------------------------------
(***************************************************************************)
(* The ring of threads that decodes an LZMA2 stream block by block:        *)
(* mt/mtdec.rs with the LZMA2 callbacks of mt/lzma2.rs.                    *)
(*                                                                         *)
(* Thread 0 is the caller.  Every thread owns two auto-reset events.  The  *)
(* canRead token gives the right to read and parse the next block, the     *)
(* canWrite token the right to write one; both travel round the ring, so   *)
(* that blocks are decoded in parallel and written in the order they were  *)
(* read.                                                                   *)
(***************************************************************************)
EXTENDS Lzma2Stream

CONSTANTS
    NumThreads,     \* plan.threads; one thread does not use the ring
    InBufSize,      \* IN_BUF_SIZE_MT, in units of input
    Faults          \* what the environment may refuse, see FaultKind

FaultKind == {"read", "write", "spawn", "buf", "cross", "coder", "pre", "tail"}

ASSUME NumThreadsAssumption == NumThreads \in Nat \ {0, 1}
ASSUME InBufSizeAssumption == InBufSize \in Nat \ {0}
ASSUME FaultsAssumption == Faults \subseteq FaultKind

VARIABLES
    stream,     \* the input; never changes
    canRead,    \* Slot::can_read of every thread
    canWrite,   \* Slot::can_write of every thread
    exit,       \* exit_thread
    rd,         \* ReadState
    wr,         \* WriteState
    prog,       \* ProgState
    pc,         \* where each thread is
    blk,        \* the locals of each thread's current block, coder included
    bufs,       \* how many input buffers each thread owns
    coder,      \* -1 before make_coder, then the capacity of out_buf
    out,        \* what reached the output: the pieces, in order
    marked,     \* `finished`: the block with the end marker was written
    faulted     \* which faults happened

ringVars == <<stream, canRead, canWrite, exit, rd, wr, prog, pc, blk, bufs,
              coder, out, marked, faulted>>

Threads == 0 .. NumThreads - 1
None    == "none"

\* Errors of the decoder; "internal" is Error::InternalFailure.
CodeError == {"truncated", "corrupt", "alloc", "internal"}

Min2(a, b) == IF a <= b THEN a ELSE b

(***************************************************************************)
(* The locals of an iteration of thread_func that has read nothing yet:    *)
(* the block's input is lo .. hi, its first buffer ends at mid, parse has  *)
(* accepted it up to `parsed` and code has decoded it up to `coded`.       *)
(***************************************************************************)
NewBlock(num, finish, intr) ==
    [num |-> num, lo |-> 0, mid |-> 0, hi |-> 0, link |-> 0,
     parsed |-> 0, coded |-> 0, start |-> 0,
     state |-> "continue", status |-> "notspec", failed |-> FALSE,
     finish |-> finish, intr |-> intr, needCode |-> FALSE, needWrite |-> FALSE,
     allocErr |-> FALSE, overflow |-> FALSE, threadErr |-> FALSE,
     stale |-> FALSE, codeRes |-> None, next |-> 0]

Init ==
    /\ stream \in Streams
    /\ canRead  = [t \in Threads |-> t = 0]
    /\ canWrite = [t \in Threads |-> t = 0]
    /\ exit = FALSE
    /\ rd = [pos |-> 0, crossLo |-> 0, crossHi |-> 0, crossBuf |-> FALSE,
             finished |-> FALSE, err |-> FALSE, block |-> 1,
             started |-> 1, limit |-> NumThreads, outParse |-> 0]
    /\ wr = [intr |-> FALSE, codeRes |-> None, err |-> FALSE,
             replay |-> <<>>, filled |-> 0, outDone |-> 0]
    /\ prog = [need |-> FALSE, index |-> 0]
    /\ pc = [t \in Threads |-> IF t = 0 THEN "wait_read" ELSE "off"]
    /\ blk = [t \in Threads |-> NewBlock(0, FALSE, FALSE)]
    /\ bufs = [t \in Threads |-> 0]
    /\ coder = [t \in Threads |-> -1]
    /\ out = <<>>
    /\ marked = FALSE
    /\ faulted = {}

\* The environment refuses an operation of kind k; read errors may repeat.
MayFault(k) == k \in Faults /\ (k = "read" \/ k \notin faulted)

-----------------------------------------------------------------------------
(***************************************************************************)
(* get_error_spec and interrupt.  prog.res is never set: the only caller   *)
(* of set_error is the error return of thread_func, which has none.        *)
(***************************************************************************)
Interrupted(num) == prog.need /\ num > prog.index

Interrupt(num) ==
    IF ~prog.need \/ num < prog.index THEN [need |-> TRUE, index |-> num]
                                      ELSE prog

-----------------------------------------------------------------------------
(***************************************************************************)
(* Waiting for the read token, and the start of an iteration.              *)
(***************************************************************************)
ReadBegin(t) ==
    /\ pc[t] = "wait_read" /\ canRead[t]
    /\ canRead' = [canRead EXCEPT ![t] = FALSE]
    /\ IF exit
       THEN /\ pc' = [pc EXCEPT ![t] = "done"]
            /\ UNCHANGED <<rd, blk>>
       ELSE LET intr == Interrupted(rd.block)
            IN  /\ rd' = [rd EXCEPT !.block = @ + 1]
                /\ blk' = [blk EXCEPT ![t] =
                             NewBlock(rd.block, rd.finished, intr)]
                /\ pc' = [pc EXCEPT ![t] = IF intr THEN "pass" ELSE "read"]
    /\ UNCHANGED <<stream, canWrite, exit, wr, prog, bufs, coder, out, marked,
                   faulted>>

(***************************************************************************)
(* One turn of the read loop.  The input of the turn is the cross block,   *)
(* if there is one and the block starts with it, or else a read_max into   *)
(* the thread's next buffer, which fills it unless the stream ends or      *)
(* fails first.                                                            *)
(***************************************************************************)
FromCross(t) == blk[t].link = 0 /\ rd.crossLo < rd.crossHi

Fetched(t) ==
    LET avail == Min2(InBufSize, Len(stream) - rd.pos)
    IN  IF FromCross(t)
        THEN {[lo |-> rd.crossLo, hi |-> rd.crossHi, finish |-> blk[t].finish,
               fault |-> {}]}
        ELSE {[lo |-> rd.pos, hi |-> rd.pos + avail, finish |-> avail # InBufSize,
               fault |-> {}]} \cup
             {[lo |-> rd.pos, hi |-> rd.pos + n, finish |-> TRUE,
               fault |-> {"read"}] :
                n \in {m \in 0 .. avail : MayFault("read") /\ m < InBufSize}}

\* The read state after fetching f.
AfterRead(t, f) ==
    IF FromCross(t) THEN rd
    ELSE [rd EXCEPT !.pos = f.hi, !.finished = @ \/ f.finish,
                    !.err = @ \/ "read" \in f.fault]

\* The block after fetching f: in_data_size grew, in_data_size_start is set.
Grown(b, f) ==
    [b EXCEPT !.hi = f.hi, !.finish = f.finish, !.link = @ + 1,
              !.lo  = IF b.link = 0 THEN f.lo ELSE @,
              !.mid = IF b.link = 0 THEN f.hi ELSE @]

\* Mutation of CutAt: the block keeps what it does not own.
UncutAt(b, pos) == b

\* in_data_size -= what lies after pos, which the block does not own.
CutAt(b, pos) ==
    [b EXCEPT !.hi = pos, !.mid = IF b.link = 1 THEN pos ELSE @]

\* What Lzma2Coder::parse leaves in the coder and in the read state.
Parsed(b, r, o) ==
    [b EXCEPT !.parsed = IF o.state = "overflow" THEN @ ELSE o.pos,
              !.state = o.state, !.status = o.status,
              !.failed = o.failed, !.needWrite = TRUE,
              !.start = IF b.link = 1 THEN r.outParse ELSE @]

\* Mutation of Accounted: the output of all the input is accounted for, the
\* part that crosses over to the next block included.
OverAccounted(r, b, o) ==
    [r EXCEPT !.outParse =
        IF o.state \in {"new", "end"} THEN @ + Produced(stream, b.lo, b.hi)
                                      ELSE @]

Accounted(r, b, o) ==
    [r EXCEPT !.outParse =
        IF o.state \in {"new", "end"} THEN @ + Produced(stream, b.lo, o.pos)
                                      ELSE @]

\* Mutation of NoCross: the cross block is used and not emptied.
StaleCross(r) == r

NoCross(r) == [r EXCEPT !.crossLo = 0, !.crossHi = 0]

\* The turn leaves the block b and the read state r behind.
Settle(t, where, b, r, faults) ==
    /\ blk' = [blk EXCEPT ![t] = b]
    /\ rd' = r
    /\ pc' = [pc EXCEPT ![t] = where]
    /\ faulted' = faulted \cup faults

\* The buffer cannot be allocated.
BufFails(t) ==
    /\ blk[t].link = bufs[t] /\ MayFault("buf")
    /\ Settle(t, "pass", [blk[t] EXCEPT !.finish = TRUE, !.allocErr = TRUE],
              rd, {"buf"})

\* make_coder fails.  The cross block was not copied into the buffer yet,
\* which still holds the zeros it was allocated with.
CoderFails(t, f) ==
    /\ coder[t] = -1 /\ MayFault("coder")
    /\ Settle(t, "pass", [Grown(blk[t], f) EXCEPT !.finish = TRUE,
                            !.allocErr = TRUE, !.stale = FromCross(t)],
              AfterRead(t, f), f.fault \cup {"coder"})

\* The outcome o of the parse is applied to the block and the cross block.
ParseStep(t, f, o) ==
    LET b == Parsed(Grown(blk[t], f), rd, o)
        r == Accounted(AfterRead(t, f), b, o)
        left == [r EXCEPT !.crossLo = IF FromCross(t) THEN o.pos ELSE @]
        coded == [b EXCEPT !.needCode = TRUE, !.finish = @ \/ o.state = "end"]
    IN  \/ /\ o.state = "overflow"
           /\ Settle(t, "pass", [b EXCEPT !.finish = TRUE, !.overflow = TRUE],
                     NoCross(r), f.fault)
        \/ /\ o.state = "continue" /\ ~b.finish     \* another turn
           /\ Settle(t, "read", b, NoCross(r), f.fault)
        \/ /\ o.state # "overflow"
           /\ o.state # "continue" \/ b.finish
           /\ o.pos = f.hi                          \* fully parsed
           /\ Settle(t, "pass", coded, NoCross(r), f.fault)
        \/ /\ o.state = "end" /\ o.pos < f.hi       \* bytes after the end
           /\ Settle(t, "pass", CutAt(coded, o.pos), left, f.fault)
        \/ /\ o.state = "new" /\ o.pos < f.hi       \* the tail crosses over
           /\ Settle(t, "pass", [CutAt(coded, o.pos) EXCEPT !.finish = FALSE],
                     IF FromCross(t) THEN left
                     ELSE [r EXCEPT !.crossLo = o.pos, !.crossHi = f.hi,
                                    !.crossBuf = TRUE],
                     f.fault)
        \/ /\ o.state = "new" /\ o.pos < f.hi       \* no room for the tail
           /\ ~FromCross(t) /\ ~rd.crossBuf /\ MayFault("cross")
           /\ Settle(t, "pass", [coded EXCEPT !.finish = TRUE, !.allocErr = TRUE],
                     r, f.fault \cup {"cross"})

ReadLink(t) ==
    /\ pc[t] = "read"
    /\ \/ BufFails(t) /\ UNCHANGED <<bufs, coder>>
       \/ /\ bufs' = [bufs EXCEPT ![t] = IF blk[t].link = @ THEN @ + 1 ELSE @]
          /\ \E f \in Fetched(t) :
               \/ CoderFails(t, f) /\ UNCHANGED coder
               \/ /\ coder' = [coder EXCEPT ![t] = IF @ = -1 THEN 0 ELSE @]
                  /\ \E o \in Parse(stream, Grown(blk[t], f).lo, f.lo, f.hi) :
                        ParseStep(t, f, o)
    /\ UNCHANGED <<stream, canRead, canWrite, exit, wr, prog, out, marked>>

-----------------------------------------------------------------------------
(***************************************************************************)
(* The rest of the read section: get_error_spec again, pre_code, a new     *)
(* thread if one may be started, and the read token passed on.             *)
(***************************************************************************)
OutPreSize(b) == Produced(stream, b.lo, b.parsed)

\* pre_code refuses a block without input and grows out_buf for the others.
PreCode(t, b) ==
    LET Refused(e) == [b EXCEPT !.codeRes = e, !.needCode = FALSE,
                                !.finish = TRUE, !.allocErr = @ \/ e = "alloc"]
        Res(block, cap, faults) == [b |-> block, cap |-> cap, fault |-> faults]
    IN  IF ~b.needCode \/ b.intr THEN {Res(b, coder[t], {})}
        ELSE IF b.parsed = b.lo   THEN {Res(Refused("truncated"), coder[t], {})}
        ELSE IF coder[t] >= OutPreSize(b) THEN {Res(b, coder[t], {})}
        ELSE {Res(b, OutPreSize(b), {})} \cup
             (IF MayFault("pre") THEN {Res(Refused("alloc"), coder[t], {"pre"})}
                                 ELSE {})

\* The thread after this one in the ring of n started threads.
NextThread(t, n) == IF t + 1 >= n THEN 0 ELSE t + 1

\* Mutation of PassToken: the next thread is named and never woken.
LostToken(t, b, n) ==
    /\ blk' = [blk EXCEPT ![t] = [b EXCEPT !.next = NextThread(t, n)]]
    /\ UNCHANGED canRead

PassToken(t, b, n) ==
    /\ blk' = [blk EXCEPT ![t] = [b EXCEPT !.next = NextThread(t, n)]]
    /\ canRead' = [canRead EXCEPT ![NextThread(t, n)] = TRUE]

\* The block is the last one: no thread gets the read token.
KeepToken(t, b) ==
    /\ blk' = [blk EXCEPT ![t] = b]
    /\ UNCHANGED <<canRead, rd>>

PassRead(t) ==
    /\ pc[t] = "pass"
    /\ \E p \in PreCode(t, [blk[t] EXCEPT !.intr = @ \/ Interrupted(blk[t].num)]) :
         LET b == [p.b EXCEPT !.finish = @ \/ p.b.intr, !.coded = p.b.lo]
             maySpawn == ~b.finish /\ rd.started < rd.limit
             here == [pc EXCEPT ![t] = "code"]
         IN  /\ coder' = [coder EXCEPT ![t] = p.cap]
             /\ \/ /\ b.finish
                   /\ KeepToken(t, b)
                   /\ pc' = here
                   /\ faulted' = faulted \cup p.fault
                \/ /\ ~b.finish /\ rd.started >= rd.limit
                   /\ PassToken(t, b, rd.started)
                   /\ UNCHANGED rd
                   /\ pc' = here
                   /\ faulted' = faulted \cup p.fault
                \/ /\ maySpawn
                   /\ PassToken(t, b, rd.started + 1)
                   /\ rd' = [rd EXCEPT !.started = @ + 1]
                   /\ pc' = [here EXCEPT ![rd.started] = "wait_read"]
                   /\ faulted' = faulted \cup p.fault
                \/ /\ maySpawn /\ rd.started = 1 /\ MayFault("spawn")
                   /\ KeepToken(t, [b EXCEPT !.finish = TRUE, !.needCode = FALSE,
                                             !.threadErr = TRUE])
                   /\ pc' = here
                   /\ faulted' = faulted \cup p.fault \cup {"spawn"}
                \/ /\ maySpawn /\ rd.started # 1 /\ MayFault("spawn")
                   /\ PassToken(t, b, rd.started)
                   /\ rd' = [rd EXCEPT !.limit = rd.started]
                   /\ pc' = here
                   /\ faulted' = faulted \cup p.fault \cup {"spawn"}
    /\ UNCHANGED <<stream, canWrite, exit, wr, prog, bufs, out, marked>>

-----------------------------------------------------------------------------
(***************************************************************************)
(* Decoding, one input buffer at a time, with no lock and no token.        *)
(***************************************************************************)
LinkEnd(b) == IF b.coded = b.lo THEN b.mid ELSE Min2(b.coded + InBufSize, b.hi)

BlockFinished(b) == b.status \in {"mark", "new"}

\* Mutation of CodeRes: what the last unit decodes to is not looked at.
LastUnchecked(b, n) ==
    CASE \E i \in b.coded+1 .. Min2(n, b.parsed) - 1 : stream[i] = "bad" -> "corrupt"
      [] BlockFinished(b) /\ n > b.parsed                                -> "internal"
      [] OTHER                                                           -> None

\* Lzma2Coder::code on the units coded+1 .. n: a body that does not decode,
\* or input left over in a block the parse took to be complete.
CodeRes(b, n) ==
    CASE \E i \in b.coded+1 .. Min2(n, b.parsed) : stream[i] = "bad" -> "corrupt"
      [] BlockFinished(b) /\ n > b.parsed                            -> "internal"
      [] OTHER                                                       -> None

CodeLink(t) ==
    LET b == blk[t]
        e == CodeRes(b, LinkEnd(b))
    IN  /\ pc[t] = "code"
        /\ \/ /\ ~b.needCode \/ b.intr \/ b.codeRes # None
              /\ pc' = [pc EXCEPT ![t] = "wait_write"]
              /\ UNCHANGED <<blk, prog>>
           \/ /\ b.needCode /\ ~b.intr /\ b.codeRes = None /\ e # None
              /\ blk' = [blk EXCEPT ![t].codeRes = e]
              /\ prog' = Interrupt(b.num)
              /\ pc' = [pc EXCEPT ![t] = "wait_write"]
           \/ /\ b.needCode /\ ~b.intr /\ b.codeRes = None /\ e = None
              /\ blk' = [blk EXCEPT ![t].coded = LinkEnd(b),
                           ![t].intr = LinkEnd(b) # b.hi /\ Interrupted(b.num)]
              /\ pc' = IF LinkEnd(b) = b.hi \/ Interrupted(b.num)
                       THEN [pc EXCEPT ![t] = "wait_write"] ELSE pc
              /\ UNCHANGED prog
        /\ UNCHANGED <<stream, canRead, canWrite, exit, rd, wr, bufs, coder,
                       out, marked, faulted>>

-----------------------------------------------------------------------------
(***************************************************************************)
(* The write section.                                                      *)
(***************************************************************************)

\* The block must not reach the output although its decode did not fail.
Unusable(b) == b.threadErr \/ b.allocErr \/ b.overflow

\* Lzma2Coder::write: need_continue, can_recode, the error, and the piece of
\* the output it delivered.  The sink may fail after any part of the piece.
WriteResults(b, toStream) ==
    LET Res(nc, recode, err, hi) ==
            [nc |-> nc, recode |-> recode, err |-> err, hi |-> hi,
             fault |-> IF err = "write" THEN {"write"} ELSE {}]
        more == b.state \notin {"overflow", "end"}
    IN  CASE ~b.needWrite -> {Res(~b.finish, TRUE, None, b.lo)}
          [] b.needWrite /\ b.failed -> {Res(~b.finish, TRUE, "corrupt", b.lo)}
          [] b.needWrite /\ ~b.failed /\ ~toStream ->
                {Res(FALSE, TRUE, None, b.lo)}
          [] OTHER ->
                IF BlockFinished(b) /\ b.parsed # b.coded
                THEN {Res(FALSE, TRUE, "internal", b.lo)}
                ELSE IF b.start # wr.outDone       \* the checksum's offset
                THEN {Res(FALSE, FALSE, "internal", b.lo)}
                ELSE {Res(more, FALSE, None, b.coded)} \cup
                     {Res(FALSE, FALSE, "write", h) :
                        h \in {i \in b.lo .. b.coded : MayFault("write")}}

\* How many buffers the block's input occupies.
Links(b) == IF b.hi = b.lo THEN 0
            ELSE 1 + (b.hi - b.mid + InBufSize - 1) \div InBufSize

Write(t) ==
    /\ pc[t] = "wait_write" /\ canWrite[t]
    /\ IF exit
       THEN /\ pc' = [pc EXCEPT ![t] = "done"]
            /\ canWrite' = [canWrite EXCEPT ![t] = FALSE]
            /\ UNCHANGED <<canRead, exit, wr, prog, bufs, out, marked, faulted>>
       ELSE LET b == blk[t]
                intr == b.intr \/ wr.intr
                stop == b.codeRes # None \/ Unusable(b)
                toStream == b.needWrite /\ ~intr /\ ~stop
            IN  \E w \in WriteResults(b, toStream) :
                LET intr2 == wr.intr \/ stop \/ w.err # None
                    keep == /\ w.recode
                            /\ ~b.needCode \/ intr \/ intr2 \/ wr.filled # 0
                            /\ b.hi > b.lo \/ ~b.finish
                    done == w.hi > b.lo \/ (toStream /\ w.err = None)
                    ended == b.finish /\ ~w.nc
                IN  /\ wr' = [intr |-> intr2,
                              codeRes |->
                                IF wr.codeRes # None THEN wr.codeRes
                                ELSE IF ~wr.intr /\ b.codeRes # None THEN b.codeRes
                                ELSE IF w.err \in CodeError THEN w.err
                                ELSE None,
                              err |-> wr.err \/ w.err = "write",
                              replay |-> IF keep /\ b.hi > b.lo
                                         THEN Append(wr.replay,
                                                [lo |-> b.lo, hi |-> b.hi,
                                                 stale |-> b.stale])
                                         ELSE wr.replay,
                              filled |-> IF keep THEN wr.filled + 1 ELSE wr.filled,
                              outDone |-> IF toStream /\ w.err = None
                                          THEN wr.outDone +
                                               Produced(stream, b.lo, b.coded)
                                          ELSE wr.outDone]
                    /\ out' = IF done
                              THEN Append(out, [lo |-> b.lo, hi |-> w.hi])
                              ELSE out
                    /\ marked' = (marked \/ (/\ toStream /\ w.err = None
                                             /\ b.status = "mark"))
                    /\ bufs' = [bufs EXCEPT ![t] = IF keep THEN @ - Links(b) ELSE @]
                    /\ prog' = IF \/ w.err # None
                                  \/ b.needWrite /\ ~w.nc /\ ~b.finish
                               THEN Interrupt(b.num) ELSE prog
                    /\ faulted' = faulted \cup w.fault
                    /\ canWrite' = [u \in Threads |->
                                        \/ canWrite[u] /\ u # t
                                        \/ ~b.finish /\ u = b.next
                                        \/ b.finish /\ w.nc /\ u = 0]
                    /\ canRead' = [canRead EXCEPT
                            ![0] = @ \/ (b.finish /\ (w.nc \/ t # 0))]
                    /\ exit' = (exit \/ (ended /\ t # 0))
                    /\ pc' = [pc EXCEPT ![t] = IF ended /\ t = 0
                                               THEN "done" ELSE "wait_read"]
    /\ UNCHANGED <<stream, rd, blk, coder>>

-----------------------------------------------------------------------------
(***************************************************************************)
(* The end of run: thread 0 is back from thread_func and releases every    *)
(* thread that still waits, so that the scope can join them.               *)
(***************************************************************************)
RunReturn ==
    /\ pc[0] = "done"
    /\ exit' = TRUE
    /\ canRead'  = [t \in Threads |-> TRUE]
    /\ canWrite' = [t \in Threads |-> TRUE]
    /\ pc' = [pc EXCEPT ![0] = "join"]
    /\ UNCHANGED <<stream, rd, wr, prog, blk, bufs, coder, out, marked, faulted>>

Step(t) == ReadBegin(t) \/ ReadLink(t) \/ PassRead(t) \/ CodeLink(t) \/ Write(t)

RingNext == (\E t \in Threads : Step(t)) \/ RunReturn

RingSpec == Init /\ [][RingNext]_ringVars

\* Every started thread has left thread_func: the scope's join succeeds.
Joined == pc[0] = "join" /\ \A t \in Threads \ {0} : pc[t] \in {"off", "done"}

-----------------------------------------------------------------------------
Block == [num : Nat, lo : Nat, mid : Nat, hi : Nat, link : Nat, parsed : Nat,
          coded : Nat, start : Nat, state : ParseState, status : ParseStatus,
          failed : BOOLEAN, finish : BOOLEAN, intr : BOOLEAN,
          needCode : BOOLEAN, needWrite : BOOLEAN, allocErr : BOOLEAN,
          overflow : BOOLEAN, threadErr : BOOLEAN, stale : BOOLEAN,
          codeRes : CodeError \cup {None}, next : Threads]

ReadState == [pos : Nat, crossLo : Nat, crossHi : Nat, crossBuf : BOOLEAN,
              finished : BOOLEAN, err : BOOLEAN, block : Nat,
              started : 1 .. NumThreads, limit : 1 .. NumThreads, outParse : Nat]

WriteState == [intr : BOOLEAN, codeRes : CodeError \cup {None}, err : BOOLEAN,
               replay : Seq([lo : Nat, hi : Nat, stale : BOOLEAN]),
               filled : Nat, outDone : Nat]

RingTypeOK ==
    /\ stream \in Seq(Unit)
    /\ canRead \in [Threads -> BOOLEAN]
    /\ canWrite \in [Threads -> BOOLEAN]
    /\ exit \in BOOLEAN
    /\ rd \in ReadState
    /\ wr \in WriteState
    /\ prog \in [need : BOOLEAN, index : Nat]
    /\ pc \in [Threads -> {"off", "wait_read", "read", "pass", "code",
                           "wait_write", "done", "join"}]
    /\ blk \in [Threads -> Block]
    /\ bufs \in [Threads -> Int]
    /\ coder \in [Threads -> Int]
    /\ out \in Seq([lo : Nat, hi : Nat])
    /\ marked \in BOOLEAN
    /\ faulted \subseteq FaultKind

-----------------------------------------------------------------------------
(***************************************************************************)
(* The pieces of the output follow one another in the stream from its      *)
(* start: whatever the threads' interleaving and whatever fails, no block  *)
(* is written twice, left out or written out of the order of the input.    *)
(***************************************************************************)
Gapless ==
    /\ out # <<>> => out[1].lo = 0
    /\ \A i \in 1 .. Len(out) - 1 : out[i].hi = out[i+1].lo

Reading(t) == pc[t] \in {"read", "pass"}
Passed(t)  == pc[t] \in {"code", "wait_write"}
Busy(t)    == Reading(t) \/ Passed(t)
Live       == ~exit /\ pc[0] \notin {"done", "join"}

\* The offset up to which the output was delivered.
Delivered == IF out = <<>> THEN 0 ELSE out[Len(out)].hi

\* Where the next block will start, and where the block of thread t starts.
Frontier == IF rd.crossLo < rd.crossHi THEN rd.crossLo ELSE rd.pos
Start(t) == IF blk[t].link > 0 THEN blk[t].lo ELSE Frontier

\* One read token and one write token, and no block in work without them.
TokenInv ==
    /\ \A t \in Threads : Busy(t) => Live
    /\ pc[0] = "join" => exit
    /\ ~exit /\ ~Live => \A t \in Threads : ~canRead[t]
    /\ Live => \A t, u \in Threads :
                 /\ canRead[t] /\ canRead[u] => t = u
                 /\ canWrite[t] /\ canWrite[u] => t = u
                 /\ canRead[t] => ~Reading(u)
    /\ \A t \in Threads : t >= rd.started => pc[t] = "off"
    /\ rd.started <= rd.limit

\* Blocks in work are numbered apart, each hands on to its successor, and
\* the write token is with the lowest of them or, if there is none, with
\* the thread that will read next.
OrderInv ==
    /\ \A t \in Threads : Busy(t) => blk[t].num < rd.block
    /\ \A t \in Threads : Reading(t) => blk[t].num = rd.block - 1
    /\ \A t, u \in Threads : Busy(t) /\ Busy(u) /\ t # u => blk[t].num # blk[u].num
    /\ \A t \in Threads : Passed(t) /\ blk[t].finish =>
            blk[t].num = rd.block - 1 /\ \A u \in Threads : ~canRead[u]
    /\ \A t \in Threads : Passed(t) /\ ~blk[t].finish =>
            LET n == blk[t].next
            IN  \/ blk[t].num = rd.block - 1 /\ canRead[n]
                \/ Busy(n) /\ blk[n].num = blk[t].num + 1
    /\ Live => \A w \in Threads : canWrite[w] =>
            \/ Busy(w) /\ \A t \in Threads : Busy(t) => blk[w].num <= blk[t].num
            \/ canRead[w] /\ \A t \in Threads : ~Busy(t)

\* The read side: what the cross block and a block being read hold.
ReadInv ==
    /\ rd.pos <= Len(stream)
    /\ rd.crossLo < rd.crossHi => rd.crossHi = rd.pos
    /\ \A t \in Threads : pc[t] = "read" =>
        /\ ~blk[t].intr /\ ~blk[t].needCode /\ ~blk[t].allocErr
        /\ ~blk[t].overflow /\ ~blk[t].threadErr /\ blk[t].codeRes = None
        /\ blk[t].link > 0 => /\ rd.crossLo >= rd.crossHi
                              /\ blk[t].hi = rd.pos
                              /\ blk[t].state = "continue"
    /\ \A t \in Threads : Busy(t) =>
        /\ blk[t].lo <= blk[t].hi
        /\ blk[t].needWrite => blk[t].link > 0

\* A block that reaches the output and is not the last one ends where the
\* next one starts.
BlockEnds(t) ==
    LET b == blk[t]
    IN  /\ ~b.finish /\ ~b.intr =>
            /\ b.link > 0 /\ b.needWrite
            /\ b.state = "new" /\ b.status = "new" /\ b.parsed = b.hi
        /\ b.finish /\ ~b.intr /\ ~Unusable(b) /\ b.codeRes = None /\ b.needWrite
            /\ b.state \notin {"end", "overflow"} => b.needCode /\ b.hi = Frontier

\* The output has reached the block that holds the write token, and blocks
\* in work follow one another.
ChainInv ==
    /\ \A t \in Threads : pc[t] = "pass" =>
        /\ BlockEnds(t)
        /\ ~blk[t].finish /\ ~blk[t].intr => blk[t].hi = Frontier
    /\ \A t \in Threads : Passed(t) =>
        /\ BlockEnds(t)
        /\ ~blk[t].finish => /\ blk[t].link > 0
                             /\ blk[t].state = "new" /\ blk[t].status = "new"
                             /\ blk[t].parsed = blk[t].hi
        /\ ~blk[t].finish /\ blk[t].num = rd.block - 1 => blk[t].hi = Frontier
        /\ ~blk[t].finish => \A u \in Threads :
              Busy(u) /\ blk[u].num = blk[t].num + 1 => blk[t].hi = Start(u)
    /\ \A t \in Threads :
        /\ pc[t] = "wait_write"
        /\ blk[t].needCode /\ ~blk[t].intr /\ blk[t].codeRes = None
        => blk[t].coded = blk[t].hi
    /\ Live /\ ~wr.intr => \A w \in Threads : canWrite[w] =>
            Delivered = IF Busy(w) THEN Start(w) ELSE Frontier

\* Nothing is interrupted but for the failure of an earlier block, which is
\* still in work or has stopped the writing.
IntrInv ==
    /\ prog.need /\ ~wr.intr => \E u \in Threads :
            Passed(u) /\ blk[u].codeRes # None /\ blk[u].num <= prog.index
    /\ ~wr.intr => \A t \in Threads : Busy(t) /\ blk[t].intr => \E u \in Threads :
            Passed(u) /\ blk[u].codeRes # None /\ blk[u].num < blk[t].num

RingInv == TokenInv /\ OrderInv /\ ReadInv /\ ChainInv /\ IntrInv /\ Gapless
=============================================================================
