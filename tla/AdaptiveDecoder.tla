-------------------------- MODULE AdaptiveDecoder ---------------------------
(***************************************************************************)
(* The adaptive LZMA2 decoder (mt/adaptive.rs) with its worker pool        *)
(* (mt/pool.rs) and its input queue (mt/segq.rs).  A caller feeds pieces   *)
(* of the stream and drains the output; a run that has arrived whole goes  *)
(* to a worker, the run at the cursor may instead be decoded where the     *)
(* caller stands, and the caller may change the number of threads and the  *)
(* memory limit between two calls.                                         *)
(*                                                                         *)
(* One turn of drain's loop is one action.  The decoder meets the workers  *)
(* at the two channels only, and a turn reads the channel of results once, *)
(* so a worker's step in the middle of a turn is a step before or after it.*)
(***************************************************************************)
EXTENDS AdaptiveMemory

CONSTANTS
    Streams,     \* the streams fed: [runs, tail, len], see below
    Callers,     \* how the decoder is set up and called: [kind, piece, upTo,
                 \* threads, memory, readAhead, handBack, ordered, chase]
    Threads,     \* the thread ceilings set_threads is called with
    Limits,      \* the limits set_memory_limit is called with
    MaxChanges,  \* bound: calls of set_threads, set_memory_limit and cancel
    Faults       \* bound: which of "spawn", "panic", "rebuild", "cancel" may happen

VARIABLES
    stream,   \* the stream being fed
    caller,   \* how it is called
    d,        \* the Lzma2AdaptiveDecoder
    pool,     \* its Pool
    call,     \* the call in progress
    sink      \* what the sink was given, in order: [at, from]

vars == <<stream, caller, d, pool, call, sink>>

-----------------------------------------------------------------------------
(***************************************************************************)
(* The stream.  Run r is the input r.lo .. r.hi - 1, in chunks of a header *)
(* and a body, and chunk k of it decodes to r.x units; chunk r.bad does    *)
(* not decode.  After the runs comes the end marker, an illegal control    *)
(* byte or nothing, and len is where the input stops.                      *)
(***************************************************************************)
StreamEnd == stream.runs[Len(stream.runs)].hi
OutLen    == stream.runs[Len(stream.runs)].ohi

RunAt(c) == CHOOSE r \in Range(stream.runs) : r.lo <= c /\ c < r.hi

\* The output a body at input c decodes to.
Origins(c) ==
    LET r == RunAt(c) IN [k \in 1 .. r.x |-> r.olo + ((c - r.lo) \div 2) * r.x + k - 1]

BodyFails(c) == RunAt(c).bad = (c - RunAt(c).lo) \div 2 + 1

RunStarts == {stream.runs[k].lo : k \in DOMAIN stream.runs}

-----------------------------------------------------------------------------
(***************************************************************************)
(* The state of a new decoder, and of its pool: how many workers there     *)
(* are and how many of them returned, the runs sent, being decoded and     *)
(* decoded.                                                                *)
(***************************************************************************)
NoFailure == [off |-> -1, kind |-> "none", index |-> -1]

NoPool == [spawned |-> 0, gone |-> 0, jobs |-> <<>>, busy |-> {}, done |-> <<>>]

\* The chase decoder: where its frame stands, the output owed by the chunk it
\* is in, its place in the dictionary and the input it has decoded up to.
NoChase == [state |-> "none", owed |-> <<>>, wr |-> 0, at |-> -1]

NewDecoder(c) ==
    [memoryLimit |-> c.memory, threads |-> c.threads, readAhead |-> c.readAhead,
     handBack |-> c.handBack, ordered |-> c.ordered, chase |-> c.chase,
     inputRefused |-> FALSE, inputDone |-> FALSE,
     q |-> <<>>, lent |-> <<>>, base |-> 0, end |-> 0, recent |-> <<>>,
     spareIn |-> <<>>, parkRoom |-> 0, parkSlots |-> 0,
     pos |-> 0, openRun |-> 0, pending |-> <<>>, streamEnd |-> -1,
     cursorIn |-> 0, cursorOut |-> 0, nextIndex |-> 0,
     st |-> NoChase, stInRun |-> FALSE, stLoneRun |-> FALSE, stRetiredEnd |-> 0,
     out |-> {}, ready |-> {}, part |-> {}, emittedOut |-> 0, spareOut |-> <<>>,
     lastPacked |-> 0, lastUnpacked |-> 0, scanReserve |-> MinBufBudget,
     failed |-> NoFailure, complete |-> FALSE, cancelled |-> FALSE]

\* The call in progress: the room left in the caller's buffer, whether the
\* drain did anything, what it returned last, the error it ended in, and the
\* allocation of a piece the caller read and the decoder did not take.
NewCall == [pc |-> "feed", left |-> 0, progress |-> FALSE, status |-> "none",
            error |-> NoFailure, buf |-> 0, changes |-> 0]

Init ==
    /\ stream \in Streams
    /\ caller \in Callers
    /\ d = NewDecoder(caller)
    /\ pool = NoPool
    /\ call = NewCall
    /\ sink = <<>>

-----------------------------------------------------------------------------
(***************************************************************************)
(* Input.                                                                  *)
(***************************************************************************)

\* push: a piece of len units for which charge is held.
Push(e, len, charge, owned) ==
    LET recent == Append(e.recent, len)
    IN  [e EXCEPT !.q = Append(@, [lo |-> e.end, hi |-> e.end + len,
                                   charge |-> charge, owned |-> owned]),
                  !.end = @ + len,
                  !.recent = IF Len(recent) > RecentPieces THEN Tail(recent) ELSE recent]

\* take_spare: the largest parked input buffer, of those the last.
LargestSpare(e) ==
    CHOOSE i \in DOMAIN e.spareIn :
        \A j \in DOMAIN e.spareIn :
            e.spareIn[i] > e.spareIn[j] \/ (e.spareIn[i] = e.spareIn[j] /\ i >= j)
SpareCap(e) == IF e.spareIn = <<>> THEN 0 ELSE e.spareIn[LargestSpare(e)]
TakeSpare(e) ==
    IF e.spareIn = <<>> THEN e ELSE [e EXCEPT !.spareIn = SwapRemove(@, LargestSpare(e))]

\* feed: what there is room for is copied, in steady pieces, into a parked
\* buffer or a new one.  In these r is the answer of room_to_take.
CopyIn(e, take, cap) == FitParked(Push(TakeSpare(e), take, Larger(cap, take), TRUE))
FeedCopy(r) ==
    IF r.take = 0 THEN r.d
    ELSE CopyIn(r.d, Smaller(r.take, Larger(PieceTarget, SpareCap(r.d))), SpareCap(r.d))

\* feed_owned: the piece with its allocation, or nothing.
FeedOwned(r, len, cap) == IF r.take < cap THEN r.d ELSE FitParked(Push(r.d, len, cap, TRUE))

\* feed_shared: a range of a buffer the caller keeps.
FeedShared(r, len) == IF r.take < len THEN r.d ELSE FitParked(Push(r.d, len, len, FALSE))

FeedPiece(r, len, cap) ==
    CASE caller.kind = "copy"   -> FeedCopy(r)
      [] caller.kind = "owned"  -> FeedOwned(r, len, cap)
      [] caller.kind = "shared" -> FeedShared(r, len)

\* scan: the headers that arrived; a run is complete when the control byte
\* after it was seen.  Runs found in the piece that holds an illegal one stay
\* in the scanner.
IllegalArrived(e) ==
    stream.tail = "illegal" /\ e.pos <= StreamEnd /\ StreamEnd < e.end
Scan(e) ==
    LET upTo == IF IllegalArrived(e)
                THEN (CHOOSE p \in Range(e.q) : p.lo <= StreamEnd /\ StreamEnd < p.hi).lo
                ELSE e.end
        found == SelectSeq(stream.runs, LAMBDA r : e.pos <= r.hi /\ r.hi < upTo)
        open == {r \in Range(stream.runs) : r.lo < e.end /\ e.end <= r.hi}
        ended == stream.tail = "end" /\ StreamEnd < e.end
    IN  [e EXCEPT !.pos = e.end,
                  !.pending = @ \o found,
                  !.openRun = SumOf(open, LAMBDA r : 2 * ((e.end - r.lo + 1) \div 2)),
                  !.streamEnd = IF ended THEN StreamEnd + 1 ELSE @]

-----------------------------------------------------------------------------
(***************************************************************************)
(* The steps of a turn of drain.  A turn is a record t: the decoder d and  *)
(* its pool, what is left of the caller's buffer, the sink, whether        *)
(* anything was done, whether the run at the cursor is to be chased, and   *)
(* the error the turn ends in.                                             *)
(***************************************************************************)

\* The output of a job or of a block, by where it belongs.
Units(off, len) == [k \in 1 .. len |-> off + k - 1]

\* What sink(off, bytes) adds: units that should be the output from `off` on
\* and are the output `from`.
Delivered(off, from) == [k \in DOMAIN from |-> [at |-> off + k - 1, from |-> from[k]]]

Again(F(_), t, n) == FoldLeft(LAMBDA u, k : F(u), t, Units(1, n))

Block(j) == [off |-> j.off, cap |-> j.held, from |-> Units(j.off, j.len), sent |-> 0]
Failure(j, kind) ==
    [off |-> j.off, kind |-> kind, index |-> IF kind = "corrupt" THEN j.i ELSE -1]

\* Mutation of Kept: the failure that came back last is kept.
KeptLast(old, new) == new

\* Of two failures the one earliest in the output is kept.
Kept(old, new) == IF old # NoFailure /\ old.off <= new.off THEN old ELSE new

\* accept: a run is back.  Its references to the input go, and its block waits
\* for its turn or its buffer is parked.
Back(e, j, res) ==
    IF res = "ok" THEN [e EXCEPT !.ready = @ \cup {Block(j)}]
    ELSE [Recycle(e, j.held) EXCEPT !.failed = Kept(@, Failure(j, res))]
Accept(e, done) == Back(Sweep([e EXCEPT !.out = @ \ {done.job}]), done.job, done.res)

\* collect(false): whatever workers have handed back.
Collect(t) ==
    [t EXCEPT !.d = FoldLeft(Accept, @, t.pool.done),
              !.pool.done = <<>>,
              !.did = @ \/ t.pool.done # <<>>]

\* Mutation of Due: the earliest block that landed, its turn or not.
DueLanded(e) ==
    IF e.part # {} THEN e.part ELSE {b \in e.ready : \A c \in e.ready : b.off <= c.off}

\* emit: the rest of a block that was cut, else the block whose turn it is.
Due(e) ==
    IF e.part # {} THEN e.part
    ELSE {b \in e.ready : IF e.ordered THEN b.off = e.emittedOut
                          ELSE \A c \in e.ready : b.off <= c.off}

\* Mutation of CutAt: a cut block is cut again from where it was cut first.
CutAtFirst(b, n) == [b EXCEPT !.sent = n]
CutAt(b, n) == [b EXCEPT !.sent = @ + n]

\* Block b goes out but for its last `rest` units, which wait for the next
\* drain; it counts as claimed to its end.
Claim(e, b, n, rest) ==
    [e EXCEPT !.emittedOut = IF e.part = {} /\ b.off = @ THEN b.off + Len(b.from) ELSE @,
              !.ready = @ \ {b},
              !.part = IF rest > 0 THEN {CutAt(b, n)} ELSE {}]

EmitBlock(t, b, n, rest) ==
    [t EXCEPT !.d = IF rest > 0 THEN Claim(@, b, n, rest) ELSE Recycle(Claim(@, b, n, 0), b.cap),
              !.left = @ - n,
              !.did = TRUE,
              !.sink = @ \o Delivered(b.off + b.sent, SubSeq(b.from, b.sent + 1, b.sent + n))]

EmitUpTo(t, b, len) == EmitBlock(t, b, Smaller(len, t.left), Less(len, t.left))

EmitDue(t, due) ==
    IF t.left = 0 \/ due = {} THEN t
    ELSE LET b == CHOOSE b \in due : TRUE IN EmitUpTo(t, b, Len(b.from) - b.sent)

EmitOne(t) == EmitDue(t, Due(t.d))
Emit(t) == Again(EmitOne, t, Cardinality(t.d.ready) + 1)

\* cancel: the workers are joined, and nothing of the input is held.
ShutDown(t) ==
    [t EXCEPT !.pool = NoPool,
              !.d.out = {}, !.d.q = <<>>, !.d.lent = <<>>, !.d.spareIn = <<>>,
              !.d.base = t.d.end]

Fails(t, kind) == [t EXCEPT !.error = [off |-> t.d.cursorOut, kind |-> kind, index |-> -1]]

\* Mutation of CheckFailed: a failure is reported once no run is out.
CheckFailedWhenIdle(t) ==
    LET f == t.d.failed
    IN  IF f # NoFailure /\ t.d.out = {} /\ (~t.d.ordered \/ t.d.emittedOut >= f.off)
        THEN [ShutDown(t) EXCEPT !.error = f] ELSE t

\* check_failed: in order, when the output has come to the failed run.
CheckFailed(t) ==
    LET f == t.d.failed
    IN  IF f # NoFailure /\ (~t.d.ordered \/ t.d.emittedOut >= f.off)
        THEN [ShutDown(t) EXCEPT !.error = f] ELSE t

-----------------------------------------------------------------------------
(***************************************************************************)
(* The chase: a step of decoding where the caller stands, over one piece.  *)
(***************************************************************************)

\* at_chunk_boundary
AtChunkBoundary(e) == e.st.state \in {"none", "control"}

PieceEnd(e) == (CHOOSE p \in Range(e.q) : p.lo <= e.cursorIn /\ e.cursorIn < p.hi).hi
HasPiece(e) == e.base <= e.cursorIn /\ e.cursorIn < e.end

\* decode_to_dic, one round of its loop; m.on says whether what went before
\* in this run is what the decoder decoded before.
Round(m, end, room) ==
    LET n == Smaller(Len(m.owed), room - Len(m.made))
    IN  CASE m.stop # "none" -> m
          [] m.stop = "none" /\ Len(m.made) = room -> [m EXCEPT !.stop = "full"]
          [] m.stop = "none" /\ Len(m.made) < room /\ m.state = "cont" ->
               IF m.owed = <<>> THEN [m EXCEPT !.state = "control"]
               ELSE [m EXCEPT !.made = @ \o SubSeq(m.owed, 1, n),
                              !.owed = SubSeq(@, n + 1, Len(@))]
          [] OTHER ->
               IF m.c = end THEN [m EXCEPT !.stop = "input"]
               ELSE IF m.state = "data"
               THEN IF BodyFails(m.c) THEN [m EXCEPT !.stop = "corrupt"]
                    ELSE [m EXCEPT !.c = @ + 1, !.state = "cont",
                                   !.owed = IF m.on THEN Origins(m.c)
                                            ELSE [k \in DOMAIN Origins(m.c) |-> -1]]
               ELSE IF m.c < StreamEnd
               THEN [m EXCEPT !.c = @ + 1, !.state = "data",
                              !.on = @ \/ m.c \in RunStarts]
               ELSE IF stream.tail = "end" THEN [m EXCEPT !.c = @ + 1, !.state = "finished", !.stop = "mark"]
               ELSE [m EXCEPT !.stop = "corrupt"]

\* retire_runs: the runs decoded past, and whether the chase is inside one.
RetireRuns(e) ==
    LET left == SelectSeq(e.pending, LAMBDA r : r.hi > e.cursorIn)
        n == Len(e.pending) - Len(left)
        retired == IF n = 0 THEN e.stRetiredEnd ELSE e.pending[n].hi
        atStart == e.cursorIn = retired /\ AtChunkBoundary(e)
    IN  [e EXCEPT !.pending = left,
                  !.nextIndex = @ + n,
                  !.stRetiredEnd = retired,
                  !.stInRun = IF left # <<>> THEN e.cursorIn > left[1].lo
                              ELSE ~atStart /\ (e.streamEnd = -1 \/ e.cursorIn + 1 < e.streamEnd)]

\* note_end: the last run there is was claimed.
NoteEnd(e) ==
    IF /\ e.streamEnd # -1 /\ e.pending = <<>> /\ ~e.stInRun
       /\ e.cursorIn + 1 >= e.streamEnd /\ AtChunkBoundary(e)
    THEN [e EXCEPT !.complete = TRUE, !.cursorIn = e.streamEnd] ELSE e

\* A step's output waits behind blocks that have not landed, in a parked
\* buffer that grows as a Vec does.
Buffer(e, made) ==
    LET cap == LastSpare(e)
    IN  [e EXCEPT !.spareOut = IF @ = <<>> THEN @ ELSE Front(@),
                  !.ready = @ \cup
                    {[off |-> e.cursorOut, from |-> made, sent |-> 0,
                      cap |-> IF cap >= Len(made) THEN cap ELSE Larger(2 * cap, Len(made))]}]

\* The loop of decode_to_dic over the piece that ends at `end`.
Decode(e, st, end, room) ==
    Again(LAMBDA m : Round(m, end, room),
          [c |-> e.cursorIn, state |-> st.state, owed |-> st.owed, made |-> <<>>,
           on |-> st.at = e.cursorIn, stop |-> "none"],
          2 * (end - e.cursorIn) + 4)

ChaseState(e) == IF e.st.state = "none" THEN [NoChase EXCEPT !.state = "control"] ELSE e.st

Waits(e) == e.ordered /\ e.emittedOut # e.cursorOut

Give(e, made) ==
    IF made = <<>> THEN e ELSE IF Waits(e) THEN Buffer(e, made)
    ELSE [e EXCEPT !.emittedOut = e.cursorOut + Len(made)]

\* The end marker was decoded.
Marked(e, m) ==
    IF m.stop = "mark" THEN [e EXCEPT !.complete = TRUE, !.streamEnd = e.cursorIn] ELSE e

\* The decoder after step m of a chase that stood at st.
Move(e, st, m) ==
    Marked(NoteEnd(RetireRuns(
        [Give(e, m.made) EXCEPT
            !.cursorIn = m.c, !.cursorOut = @ + Len(m.made),
            !.st = [state |-> m.state, owed |-> m.owed, at |-> m.c,
                    wr |-> (st.wr + Len(m.made)) % DicSize]])), m)

Stepped(t, m, moved, idle) ==
    [t EXCEPT !.d = IF idle THEN moved ELSE ReleaseInput(moved),
              !.did = @ \/ ~idle,
              !.left = IF Waits(t.d) THEN @ ELSE @ - Len(m.made),
              !.sink = IF Waits(t.d) THEN @ ELSE @ \o Delivered(t.d.cursorOut, m.made),
              !.error = IF idle /\ moved.inputDone /\ ~moved.complete
                        THEN Fails(t, "truncated").error ELSE @]

StMove(t, st, m) ==
    IF m.stop # "corrupt"
    THEN Stepped(t, m, Move(t.d, st, m), m.c = t.d.cursorIn /\ m.made = <<>>)
    ELSE IF t.d.stLoneRun THEN [t EXCEPT !.error = [off |-> 0, kind |-> "corrupt", index |-> 0]]
    ELSE Fails(t, "corrupt")

\* st_step
StStep(t) ==
    LET e == t.d
        st == ChaseState(e)
    IN  IF e.complete \/ e.failed # NoFailure \/ t.left = 0 \/ ~HasPiece(e) THEN t
        ELSE StMove(t, st, Decode(e, st, PieceEnd(e),
                                  Smaller(Smaller(OutStep, t.left), DicSize - st.wr)))

-----------------------------------------------------------------------------
(***************************************************************************)
(* Dispatch: what becomes of the run at the cursor.                        *)
(***************************************************************************)

\* grow: one more worker, if the thread can be created.
WantsWorker(t) == t.pool.spawned < t.d.threads /\ t.pool.spawned <= Outstanding(t.d)
Grow(t, spawns) == [t EXCEPT !.pool.spawned = IF WantsWorker(t) /\ spawns THEN @ + 1 ELSE @]

\* The run goes to the workers with references to its input and the buffer it
\* is decoded into: the last one parked, or a new one of its size.
Job(e, r) ==
    [i |-> e.nextIndex, lo |-> r.lo, hi |-> r.hi, off |-> r.olo,
     len |-> UnpackedLen(r), packed |-> PackedLen(r),
     held |-> Larger(LastSpare(e), UnpackedLen(r))]

Sent(e, j) ==
    [e EXCEPT !.spareOut = IF @ = <<>> THEN @ ELSE Front(@),
              !.out = @ \cup {j},
              !.lastUnpacked = j.len, !.lastPacked = j.packed,
              !.nextIndex = @ + 1,
              !.pending = Tail(@),
              !.cursorIn = @ + j.packed, !.cursorOut = @ + j.len]

Send(t, j) ==
    [t EXCEPT !.d = ReleaseInput(NoteEnd(Sent(@, j))),
              !.pool.jobs = Append(@, j),
              !.did = TRUE]

\* The end marker proves that this is the only run, and the dictionary is
\* smaller than its output.
LoneRun(e, r) ==
    /\ e.cursorIn = 0 /\ Len(e.pending) = 1 /\ e.streamEnd # -1
    /\ UnpackedLen(r) > DicSize

\* No complete run at the cursor: the chase stands aside for the workers and,
\* if the caller asked for that, for input that can still come.
Awaits(e) == ~e.chase /\ ~e.inputDone /\ ~e.inputRefused /\ HeldBytes(e) < Limit(e)

Chase(t) == [t EXCEPT !.chase = TRUE]
NothingToSend(t) == IF t.d.out = {} /\ ~Awaits(t.d) THEN Chase(t) ELSE t

\* The run has a slot: it goes if there is room, or will be once parked
\* capacity is given back, and if there is a worker.
Shed(t, r) == IF RoomFor(t.d, r) THEN t ELSE [t EXCEPT !.d = ShedFor(@, r)]

Launch(t, r) == IF t.pool.spawned = 0 THEN Chase(t) ELSE Send(t, Job(t.d, r))

Admit(t, r, spawns) ==
    IF RoomFor(t.d, r) THEN Launch(Grow(t, spawns), r)
    ELSE IF t.d.out = {} THEN Chase(t) ELSE t

RunAtCursor(e) == e.pending # <<>> /\ e.pending[1].lo = e.cursorIn

DispatchRun(t, r, spawns) ==
    IF LoneRun(t.d, r) THEN Chase([t EXCEPT !.d.stLoneRun = TRUE])
    ELSE IF Outstanding(t.d) + Landed(t.d) >= t.d.threads THEN t
    ELSE IF UnpackedLen(r) + PackedLen(r) > Limit(t.d) THEN Chase(t)
    ELSE Admit(Shed(t, r), r, spawns)

Dispatch(t, spawns) ==
    LET e == t.d
        closed == e.complete \/ e.failed # NoFailure
    IN  IF ~closed /\ (e.threads <= 1 \/ e.stInRun) THEN Chase(t)
        ELSE IF closed \/ ~RunAtCursor(e) THEN NothingToSend(t)
        ELSE DispatchRun(t, e.pending[1], spawns)

-----------------------------------------------------------------------------
(***************************************************************************)
(* A turn of drain, and what the turn comes to.                            *)
(***************************************************************************)
OnSuccess(F(_), t) == IF t.error = NoFailure THEN F(t) ELSE t

Scanned(t) == IF IllegalArrived(d) THEN Fails(t, "corrupt") ELSE t

Noted(t) == [t EXCEPT !.d.inputRefused = @ /\ ~t.did]

ChaseIfChosen(t) == IF t.chase THEN StStep(t) ELSE t

Turn(spawns) ==
    OnSuccess(LAMBDA t : ChaseIfChosen(Dispatch(t, spawns)),
              OnSuccess(LAMBDA t : CheckFailed(Noted(Emit(Collect(t)))),
                        Scanned([d |-> Scan(d), pool |-> pool, left |-> call.left, sink |-> sink,
                                 did |-> FALSE, chase |-> FALSE, error |-> NoFailure])))

AllDelivered(e) == e.complete /\ e.out = {} /\ e.ready = {} /\ e.part = {}

\* Where control goes after turn t: back to the caller with a status or an
\* error, around again, or to wait for a worker.
AfterTurn(t, progress) ==
    LET e == t.d
        quiet == IF progress THEN "progress" ELSE "needsMoreInput"
        canFeed == ~e.inputDone /\ HeldBytes(e) < Limit(e)
    IN  IF t.error # NoFailure THEN [to |-> "end", status |-> "error"]
        ELSE IF AllDelivered(e) THEN [to |-> "end", status |-> "finished"]
        ELSE IF t.left = 0 THEN [to |-> "feed", status |-> "progress"]
        ELSE IF t.did THEN [to |-> "turn", status |-> "none"]
        ELSE IF e.out # {}
        THEN IF canFeed THEN [to |-> "feed", status |-> quiet]
             ELSE IF e.handBack THEN [to |-> "feed", status |-> "progress"]
             ELSE [to |-> "wait", status |-> "none"]
        ELSE IF e.inputDone /\ ~e.complete THEN [to |-> "end", status |-> "truncated"]
        ELSE [to |-> "feed", status |-> quiet]

\* A finished decoder keeps nothing parked.
Settle(e) == IF AllDelivered(e) THEN [e EXCEPT !.spareIn = <<>>, !.spareOut = <<>>] ELSE e

\* drain, drain_upto: one turn.
Spawns == IF "spawn" \in Faults THEN BOOLEAN ELSE {TRUE}
Drain ==
    /\ call.pc = "turn"
    /\ \E t \in {Turn(spawns) : spawns \in Spawns} :
       \E after \in {AfterTurn(t, call.progress \/ t.did)} :
         /\ d' = IF after.status = "finished" THEN Settle(t.d) ELSE t.d
         /\ pool' = t.pool
         /\ sink' = t.sink
         /\ call' = [call EXCEPT !.pc = after.to, !.left = t.left,
                                 !.progress = @ \/ t.did, !.status = after.status,
                                 !.error = IF after.status = "truncated"
                                           THEN Fails(t, "truncated").error ELSE t.error]
    /\ UNCHANGED <<stream, caller>>

\* collect(true): a result is there, or no worker is left that could send one.
AllGone == pool.gone = pool.spawned
Landing == Collect([d |-> d, pool |-> pool, did |-> FALSE])

\* drain blocks: no result means that the run it waits for is lost.
Wait ==
    /\ call.pc = "wait"
    /\ pool.done # <<>> \/ AllGone
    /\ \E t \in {Landing} :
         /\ d' = t.d
         /\ pool' = t.pool
         /\ call' = IF t.did THEN [call EXCEPT !.pc = "turn"]
                    ELSE [call EXCEPT !.pc = "end", !.status = "error",
                            !.error = [off |-> d.cursorOut, kind |-> "internal", index |-> -1]]
    /\ UNCHANGED <<stream, caller, sink>>

-----------------------------------------------------------------------------
(***************************************************************************)
(* The caller: it feeds the next piece and drains, and in between may wait *)
(* for a worker, change the mode or give up.                               *)
(***************************************************************************)
Remaining == stream.len - d.end

\* The next piece of len units; for feed_owned it is read into the allocation
\* of the piece that was not taken, or else into a parked buffer.
Reads(len) == caller.kind = "owned" /\ len > 0 /\ call.buf = 0

Fed(e, len, cap) ==
    IF len = 0 \/ d.complete THEN e
    ELSE FeedPiece(RoomToTake(e, IF caller.kind = "owned" THEN cap ELSE len,
                              caller.kind # "copy"), len, cap)

FedWith(len) ==
    IF Reads(len) THEN [buf |-> Larger(len, SpareCap(d)), d |-> TakeSpare(d)]
    ELSE [buf |-> call.buf, d |-> d]

\* feed, feed_owned or feed_shared, end_of_input once all was taken, and the
\* start of a drain.  A piece the decoder did not take whole is offered again.
Feed ==
    /\ call.pc = "feed"
    /\ \E len \in {Smaller(caller.piece, Remaining)} :
       \E with \in {FedWith(len)} :
       \E fed \in {Fed(with.d, len, with.buf)} :
         /\ d' = [fed EXCEPT !.inputDone = @ \/ fed.end = stream.len]
         /\ call' = [call EXCEPT !.pc = "turn", !.left = caller.upTo, !.progress = FALSE,
                                 !.status = "none",
                                 !.buf = IF fed.end > d.end THEN 0 ELSE with.buf]
    /\ UNCHANGED <<stream, caller, pool, sink>>

\* wait_for_worker; without a result it returns false and changes nothing.
WaitForWorker ==
    /\ call.pc = "feed" /\ d.handBack
    /\ pool.done # <<>>
    /\ \E t \in {Landing} : d' = t.d /\ pool' = t.pool
    /\ UNCHANGED <<stream, caller, call, sink>>

MayChange == call.pc = "feed" /\ call.changes < MaxChanges
Changed == call' = [call EXCEPT !.changes = @ + 1]

\* set_threads
SetThreads ==
    /\ MayChange /\ Changed
    /\ \E n \in Threads \ {d.threads} : d' = [d EXCEPT !.threads = n]
    /\ UNCHANGED <<stream, caller, pool, sink>>

\* set_memory_limit: parked capacity goes at once, as far as the limit needs.
Limited(e, over) == IF over > 0 THEN ShedAll(e, over) ELSE e
SetMemoryLimit ==
    /\ MayChange /\ Changed
    /\ \E m \in Limits \ {d.memoryLimit} :
         d' = Limited([d EXCEPT !.memoryLimit = m], Less(Holding(d), m))
    /\ UNCHANGED <<stream, caller, pool, sink>>

\* cancel
Cancel ==
    /\ MayChange /\ "cancel" \in Faults
    /\ LET t == ShutDown([d |-> d, pool |-> pool])
       IN  d' = [t.d EXCEPT !.cancelled = TRUE] /\ pool' = t.pool
    /\ call' = [call EXCEPT !.pc = "end", !.status = "error",
                  !.error = [off |-> d.cursorOut, kind |-> "cancelled", index |-> -1]]
    /\ UNCHANGED <<stream, caller, sink>>

-----------------------------------------------------------------------------
(***************************************************************************)
(* The workers.                                                            *)
(***************************************************************************)

\* An idle worker takes the run sent first.
Take ==
    /\ pool.jobs # <<>>
    /\ Cardinality(pool.busy) + pool.gone < pool.spawned
    /\ pool' = [pool EXCEPT !.busy = @ \cup {Head(pool.jobs)}, !.jobs = Tail(@)]
    /\ UNCHANGED <<stream, caller, d, call, sink>>

Answer(j, res, leaves) ==
    pool' = [pool EXCEPT !.busy = @ \ {j},
                         !.done = Append(@, [job |-> j, res |-> res]),
                         !.gone = IF leaves THEN @ + 1 ELSE @]

\* decode_run: all of the run, or it does not decode.
DecodeRun ==
    /\ \E j \in pool.busy :
         Answer(j, IF stream.runs[j.i + 1].bad = 0 THEN "ok" ELSE "corrupt", FALSE)
    /\ UNCHANGED <<stream, caller, d, call, sink>>

\* A panic is caught and answered, and the decoder rebuilt; a worker that
\* cannot rebuild it answers and returns.
Panic ==
    /\ "panic" \in Faults
    /\ \E j \in pool.busy :
         \/ Answer(j, "internal", FALSE)
         \/ "rebuild" \in Faults /\ Answer(j, "alloc", TRUE)
    /\ UNCHANGED <<stream, caller, d, call, sink>>

Ended == call.pc = "end" /\ UNCHANGED vars

Next ==
    \/ Feed \/ Drain \/ Wait \/ WaitForWorker
    \/ SetThreads \/ SetMemoryLimit \/ Cancel
    \/ Take \/ DecodeRun \/ Panic
    \/ Ended

\* The caller keeps calling: weak fairness of its steps, every one of which
\* changes call, with what enables them written out.  A worker that has a run
\* or can have one gets on with it.
CallerCanStep ==
    \/ call.pc \in {"feed", "turn"}
    \/ call.pc = "wait" /\ (pool.done # <<>> \/ AllGone)
Fairness ==
    /\ []<>~CallerCanStep \/ []<><<call' # call>>_vars
    /\ WF_vars(Take) /\ WF_vars(DecodeRun)

Spec == Init /\ [][Next]_vars /\ Fairness

-----------------------------------------------------------------------------
(***************************************************************************)
(* Properties.                                                             *)
(***************************************************************************)
Rest(b) == {b.off + k : k \in b.sent .. Len(b.from) - 1}
SinkAt == {sink[k].at : k \in DOMAIN sink}
Failing == {j \in Range(stream.runs) : d.failed # NoFailure /\ j.olo >= d.failed.off}

\* The cursor is the one place where both modes claim work, so every unit of
\* output before it is in one place and in one place only: with the caller,
\* in a block that waits, or with a worker; and a unit that is with the
\* caller or in a block is the unit the sequential decoder puts there.  (Of a
\* run that failed nothing is kept.)
ClaimedOnce ==
    LET waiting == UNION {Rest(b) : b \in Waiting(d)}
        out == UNION {j.off .. j.off + j.len - 1 : j \in d.out}
        lost == UNION {r.olo .. r.ohi - 1 : r \in Failing}
    IN  /\ Cardinality(SinkAt) = Len(sink)
        /\ Cardinality(waiting) = SumOf(Waiting(d), LAMBDA b : Len(b.from) - b.sent)
        /\ SinkAt \cap waiting = {} /\ (SinkAt \cup waiting) \cap out = {}
        /\ call.pc # "end" =>
             0 .. d.cursorOut - 1 \subseteq SinkAt \cup waiting \cup out \cup lost
        /\ \A k \in DOMAIN sink : sink[k].at = sink[k].from
        /\ \A b \in Waiting(d) : \A k \in DOMAIN b.from : b.from[k] = b.off + k - 1

\* In order, the sink is given the output from its start without a gap, cut
\* blocks, blocks of the chase and a change of mode included; and when a run
\* is reported as corrupt all the output before it was handed over, but for
\* the rest of the block that a limited drain cut.
DeliveredInOrder ==
    d.ordered =>
        /\ \A k \in DOMAIN sink : sink[k].at = k - 1
        /\ call.error.index >= 0 =>
             Len(sink) + SumOf(d.part, LAMBDA b : Len(b.from) - b.sent)
                 >= stream.runs[call.error.index + 1].olo

Sound == stream.tail = "end" /\ \A r \in Range(stream.runs) : r.bad = 0
FirstBad == CHOOSE k \in DOMAIN stream.runs :
               stream.runs[k].bad # 0 /\ \A j \in 1 .. k - 1 : stream.runs[j].bad = 0

\* drain answers what the sequential decoder does: Finished when all of a
\* sound stream was delivered; Truncated for a stream that stops before its
\* end marker; corrupt for one that does not decode and, if the run is named,
\* in order, for the first such run.  Another error needs a fault.
AnswerIsRight ==
    LET bad == {r \in Range(stream.runs) : r.bad # 0}
    IN  /\ call.status = "finished" => Sound /\ SinkAt = 0 .. OutLen - 1
        /\ call.error.kind = "truncated" => stream.tail = "none"
        /\ call.error.kind = "corrupt" => bad # {} \/ stream.tail = "illegal"
        /\ call.error.index >= 0 => bad # {} /\ (d.ordered => call.error.index = FirstBad - 1)
        /\ call.error.kind \in {"internal", "alloc"} => "panic" \in Faults

\* A drain never waits for a run that no worker is left to decode: a worker
\* that goes answers first, and its failure is reported before the wait.
NoWaitInVain == ~(call.pc = "wait" /\ AllGone /\ pool.done = <<>>)

\* Under a limit nothing is taken in and no run is sent out that would take
\* what is held past it, and lowering the limit adds nothing.  Only the
\* output of a chase that must wait behind a run still out can.
BufferedByChase == \E b \in d'.ready \ d.ready : b.off = d.cursorOut
LimitGoverns ==
    [][Holding(d') > d'.memoryLimit => Holding(d') <= Holding(d) \/ BufferedByChase]_vars

\* The decode ends: input that is refused is taken later, or is not needed to
\* go on, whatever the limit and the pieces.
DecodeEnds == <>(call.pc = "end")
=============================================================================
