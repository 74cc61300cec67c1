------------------------------ MODULE MtCoder ------------------------------
(***************************************************************************)
(* The block-parallel coder (enc/mt_coder.rs) with the LZMA2 callbacks of  *)
(* enc/lzma2_enc.rs.                                                       *)
(*                                                                         *)
(* One auto-reset event, read_event, is the token that gives a thread the  *)
(* right to read the next block; its holder starts one more thread while   *)
(* it may.  A semaphore bounds the blocks in flight, a ring of slots keeps *)
(* their order, and whichever thread finishes the block that is next to be *)
(* written also writes every finished block after it.                      *)
(*                                                                         *)
(* Offsets count units of input; a piece of output is the part lo .. hi of *)
(* the input that it encodes, and whether the end marker follows.          *)
(***************************************************************************)
EXTENDS Integers, Sequences, FiniteSets

CONSTANTS
    NumThreads,     \* num_threads_max, clamped to 1 .. THREADS_MAX
    SmallBlocks,    \* how many of the three block_size limits are undercut
    BlockSize,      \* block_size, in units of input
    Inputs,         \* what a run is started on and how, see InputKind
    Faults          \* what the environment may refuse, see FaultKind

\* "data": a slice whose end is known; "stream": a reader, which ends with a
\* short read.  `expected` is expected_data_size, -1 for an unknown size;
\* `direct` is direct_output: an idle write turn is claimed early.
InputKind == [kind : {"data", "stream"}, len : Nat, expected : Int,
              direct : BOOLEAN]
FaultKind == {"read", "code", "write", "spawn"}

ASSUME NumThreadsAssumption == NumThreads \in Nat \ {0}
ASSUME SmallBlocksAssumption == SmallBlocks \in 0 .. 3
ASSUME BlockSizeAssumption == BlockSize \in Nat \ {0}
ASSUME InputsAssumption == Inputs \subseteq InputKind
ASSUME FaultsAssumption == Faults \subseteq FaultKind

VARIABLES
    input,      \* the input; never changes
    readEvent,  \* the read token
    sem,        \* blocks_semaphore
    rd,         \* ReadState
    shared,     \* Shared: the free list, the ready slots, the write index
    blocks,     \* the slots
    bufs,       \* what the callback's out_bufs hold
    writeRes,   \* write_res
    error,      \* the first error set
    ended,      \* num_finished_threads
    finished,   \* finished_event
    pc,         \* where each thread is
    th,         \* the locals of each thread
    out,        \* what reached the output, in order
    faulted,    \* which faults happened
    result      \* what code returned, None while it runs

vars == <<input, readEvent, sem, rd, shared, blocks, bufs, writeRes, error,
          ended, finished, pc, th, out, faulted, result>>

None == "none"
Ok   == "ok"
Res  == {Ok, "read", "code", "write"}

Threads == 0 .. NumThreads - 1

\* num_blocks_max; BLOCKS_MAX, which caps it, is never reached.
NumBlocks == NumThreads + NumThreads \div 8 + 1 + SmallBlocks
Slots == 0 .. NumBlocks - 1

Piece(lo, hi, eof) == [lo |-> lo, hi |-> hi, eof |-> eof]
Empty == Piece(0, 0, FALSE)
NoBuf == -1         \* buf_index None
Writing == -1       \* write_index None: a thread is writing

NoBlock == [res |-> Ok, buf |-> NoBuf, fin |-> FALSE, del |-> FALSE]

NoWork == [lo |-> 0, hi |-> 0, pos |-> 0, bi |-> 0, wi |-> 0, res |-> Ok,
           buf |-> NoBuf, fin |-> FALSE, del |-> FALSE, owns |-> FALSE, last |-> 0]

Init ==
    /\ input \in Inputs
    /\ readEvent = TRUE
    /\ sem = NumBlocks
    /\ rd = [stop |-> FALSE, res |-> Ok, pos |-> 0, index |-> 0, started |-> 1]
    /\ shared = [free |-> [i \in 1 .. NumBlocks + 1 |-> i - 1],
                 ready |-> [s \in Slots |-> FALSE], write |-> 0]
    /\ blocks = [s \in Slots |-> NoBlock]
    /\ bufs = [b \in 0 .. NumBlocks |-> Empty]
    /\ writeRes = Ok /\ error = Ok
    /\ ended = 0 /\ finished = FALSE
    /\ pc = [t \in Threads |-> IF t = 0 THEN "wait" ELSE "off"]
    /\ th = [t \in Threads |-> NoWork]
    /\ out = <<>>
    /\ faulted = {}
    /\ result = None

MayFault(k) == k \in Faults /\ k \notin faulted

\* set_error keeps the first error.
FirstError(e) == IF error = Ok THEN e ELSE error

\* The mutex of the read state is held across the wait for the semaphore.
ReadLocked == \E t \in Threads : pc[t] = "slot"

-----------------------------------------------------------------------------
(***************************************************************************)
(* The read token is taken and the next block read.                        *)
(***************************************************************************)

\* What a read returns: the piece, whether it is the last one, and the error
\* (of the buffer's allocation or of the stream) with nothing read.
Readings ==
    LET hi   == IF rd.pos + BlockSize <= input.len THEN rd.pos + BlockSize
                                                   ELSE input.len
        fin  == IF input.kind = "data" THEN hi = input.len
                                       ELSE hi # rd.pos + BlockSize
    IN  {[hi |-> hi, fin |-> fin, res |-> Ok]} \cup
        (IF input.kind = "stream" /\ MayFault("read")
         THEN {[hi |-> rd.pos, fin |-> TRUE, res |-> "read"]} ELSE {})

\* Nothing is read once an error was set; the block still takes a slot.
ReadBlock(t) ==
    /\ pc[t] = "wait" /\ readEvent /\ ~rd.stop
    /\ readEvent' = FALSE
    /\ pc' = [pc EXCEPT ![t] = "slot"]
    /\ \/ /\ error # Ok
          /\ th' = [th EXCEPT ![t] = [NoWork EXCEPT !.res = error, !.fin = TRUE]]
          /\ UNCHANGED <<rd, error, faulted>>
       \/ /\ error = Ok
          /\ \E r \in Readings :
               /\ th' = [th EXCEPT ![t] = [NoWork EXCEPT !.lo = rd.pos, !.hi = r.hi,
                            !.pos = r.hi, !.fin = r.fin, !.res = r.res]]
               /\ rd' = [rd EXCEPT !.pos = r.hi,
                            !.res = IF r.res = Ok THEN @ ELSE r.res]
               /\ error' = FirstError(r.res)
               /\ faulted' = faulted \cup (IF r.res = Ok THEN {} ELSE {"read"})
    /\ UNCHANGED <<input, sem, shared, blocks, bufs, writeRes, ended, finished,
                   out, result>>

\* Reading is over: the token goes on to the next thread, and this one ends.
StopReading(t) ==
    /\ pc[t] = "wait" /\ readEvent /\ rd.stop
    /\ pc' = [pc EXCEPT ![t] = "exit"]
    /\ UNCHANGED <<input, readEvent, sem, rd, shared, blocks, bufs, writeRes,
                   error, ended, finished, th, out, faulted, result>>

\* block_index after i: the slots are taken in the order of the ring.
NextIndex(i) == IF i + 1 >= NumBlocks THEN 0 ELSE i + 1

(***************************************************************************)
(* With the read state still locked: a slot for the block once one is      *)
(* free, one more thread if there is more to read, and the token passed    *)
(* on.  A thread that cannot be started panics its parent, which leaves    *)
(* everything as it is.                                                    *)
(***************************************************************************)
TakeSlot(t) ==
    LET res  == IF th[t].res = Ok THEN error ELSE th[t].res
        fin  == th[t].fin \/ res # Ok
        more == ~fin /\ rd.started < NumThreads /\ input.expected # th[t].pos
        next == NextIndex(rd.index)
    IN  /\ pc[t] = "slot" /\ sem > 0
        /\ sem' = sem - 1
        /\ th' = [th EXCEPT ![t].bi = rd.index, ![t].res = res, ![t].fin = fin]
        /\ \/ /\ rd' = [rd EXCEPT !.index = next, !.stop = fin,
                                  !.started = IF more THEN @ + 1 ELSE @]
              /\ pc' = [u \in Threads |->
                            CASE u = t -> IF res = Ok THEN "start" ELSE "post"
                              [] more /\ u = rd.started -> "wait"
                              [] OTHER -> pc[u]]
              /\ readEvent' = TRUE
              /\ UNCHANGED faulted
           \/ /\ more /\ MayFault("spawn")
              /\ rd' = [rd EXCEPT !.index = next, !.started = @ + 1]
              /\ pc' = [pc EXCEPT ![t] = "panicked"]
              /\ faulted' = faulted \cup {"spawn"}
              /\ UNCHANGED readEvent
        /\ UNCHANGED <<input, shared, blocks, bufs, writeRes, error, ended,
                       finished, out, result>>

-----------------------------------------------------------------------------
\* Mutation of Claims: any idle write turn is claimed.
ClaimsAny(bi) == input.direct /\ shared.write # Writing

\* The block of slot bi may be written while it is encoded.
Claims(bi) == input.direct /\ shared.write = bi

\* Mutation of DirectDone: a block delivered directly is delivered again.
NotDone == FALSE

\* What code_ordered reports of a block that it delivered.
DirectDone == TRUE

(***************************************************************************)
(* Coding.  The write turn is claimed if direct output is on and the block *)
(* is next to be written, and an output buffer is taken from the free list.*)
(***************************************************************************)
StartCode(t) ==
    LET owns == Claims(th[t].bi)
    IN  /\ pc[t] = "start"
        /\ shared' = [shared EXCEPT !.write = IF owns THEN Writing ELSE @,
                                    !.free = Tail(@)]
        /\ th' = [th EXCEPT ![t].owns = owns, ![t].buf = Head(shared.free)]
        /\ pc' = [pc EXCEPT ![t] = "code"]
        /\ UNCHANGED <<input, readEvent, sem, rd, blocks, bufs, writeRes, error,
                       ended, finished, out, faulted, result>>

\* The parts of the piece b that a sink may have taken before an error.
Parts(b) == {Piece(b.lo, h, FALSE) : h \in b.lo .. b.hi}

\* The callback encodes into the buffer, or straight to the output if the
\* thread owns the write turn.  The encoder may fail, and in the second case
\* so may the sink, after any part of the block.
Code(t) ==
    LET b == Piece(th[t].lo, th[t].hi, th[t].fin)
        fails == {k \in {"code", "write"} :
                    MayFault(k) /\ (k = "write" => th[t].owns)}
    IN  /\ pc[t] = "code"
        /\ pc' = [pc EXCEPT ![t] = "post"]
        /\ \/ /\ ~th[t].owns
              /\ bufs' = [bufs EXCEPT ![th[t].buf] = b]
              /\ UNCHANGED <<out, th, error, faulted>>
           \/ /\ th[t].owns
              /\ out' = Append(out, b)
              /\ th' = [th EXCEPT ![t].del = DirectDone]
              /\ UNCHANGED <<bufs, error, faulted>>
           \/ \E k \in fails :
              /\ th' = [th EXCEPT ![t].res = k]
              /\ error' = FirstError(k)
              /\ faulted' = faulted \cup {k}
              /\ \E p \in Parts(b) :
                    IF th[t].owns THEN out' = Append(out, p) /\ UNCHANGED bufs
                                  ELSE bufs' = [bufs EXCEPT ![th[t].buf] = p] /\ UNCHANGED out
        /\ UNCHANGED <<input, readEvent, sem, rd, shared, blocks, writeRes,
                       ended, finished, result>>

-----------------------------------------------------------------------------
\* Mutation of Turn: a block is written although another one is.
TurnTwice(b) == b.owns \/ shared.write \in {b.bi, Writing}

\* The thread whose block is the next one to write takes the write turn.
Turn(b) == b.owns \/ shared.write = b.bi

\* The result the writer starts from.
TurnRes(b) == IF Turn(b) /\ writeRes # Ok THEN writeRes ELSE b.res

(***************************************************************************)
(* The hand-off to the writer.  A block that is not next is left in its    *)
(* slot for whoever writes the one before it.                              *)
(***************************************************************************)
Post(t) ==
    LET b == th[t]
        turn == Turn(b)
    IN  /\ pc[t] = "post"
        /\ blocks' = [blocks EXCEPT ![b.bi] =
                        [res |-> b.res, buf |-> b.buf, fin |-> b.fin, del |-> b.del]]
        /\ shared' = IF turn THEN [shared EXCEPT !.write = Writing]
                             ELSE [shared EXCEPT !.ready[b.bi] = TRUE]
        /\ th' = [th EXCEPT ![t].wi = b.bi, ![t].res = TurnRes(b)]
        /\ pc' = [pc EXCEPT ![t] = IF turn THEN "write"
                                   ELSE IF b.res # Ok \/ b.fin THEN "exit" ELSE "wait"]
        /\ UNCHANGED <<input, readEvent, sem, rd, bufs, writeRes, error, ended,
                       finished, out, faulted, result>>

\* The callback's write delivers the buffer's content and empties it.
WriteBlock(t) ==
    LET b == th[t]
        due == b.res = Ok /\ b.buf # NoBuf /\ ~b.del
    IN  /\ pc[t] = "write"
        /\ pc' = [pc EXCEPT ![t] = "free"]
        /\ \/ /\ ~due
              /\ UNCHANGED <<out, bufs, th, writeRes, error, faulted>>
           \/ /\ due
              /\ out' = Append(out, bufs[b.buf])
              /\ bufs' = [bufs EXCEPT ![b.buf] = Empty]
              /\ UNCHANGED <<th, writeRes, error, faulted>>
           \/ /\ due /\ MayFault("write")
              /\ \E p \in Parts(bufs[b.buf]) : out' = Append(out, p)
              /\ bufs' = [bufs EXCEPT ![b.buf] = Empty]
              /\ th' = [th EXCEPT ![t].res = "write"]
              /\ writeRes' = "write"
              /\ error' = FirstError("write")
              /\ faulted' = faulted \cup {"write"}
        /\ UNCHANGED <<input, readEvent, sem, rd, shared, blocks, ended, finished,
                       result>>

\* The slot after slot w of the ring.
NextSlot(w) == IF w + 1 >= NumBlocks THEN 0 ELSE w + 1

\* The ready slots once the writer looked at slot w.
Cleared(w) == [shared.ready EXCEPT ![w] = FALSE]

\* The buffer goes back to the free list and the slot to the semaphore; the
\* write turn goes on to the next slot, or is given up if that is not ready.
FreeSlot(t) ==
    LET b == th[t]
        w == NextSlot(b.wi)
        ready == shared.ready[w]
    IN  /\ pc[t] = "free"
        /\ shared' = [free |-> IF b.buf = NoBuf THEN shared.free
                               ELSE <<b.buf>> \o shared.free,
                      ready |-> Cleared(w),
                      write |-> IF ready THEN shared.write ELSE w]
        /\ sem' = sem + 1
        /\ th' = [th EXCEPT ![t].wi = w]
        /\ pc' = [pc EXCEPT ![t] = IF ready THEN "load"
                                   ELSE IF b.fin \/ b.res # Ok THEN "exit" ELSE "wait"]
        /\ UNCHANGED <<input, readEvent, rd, blocks, bufs, writeRes, error,
                       ended, finished, out, faulted, result>>

\* Mutation of LoadBlock: the buffer of the block before is kept.
StaleLoad(t) ==
    LET b == blocks[th[t].wi]
    IN  /\ pc[t] = "load"
        /\ th' = [th EXCEPT ![t].res = IF @ = Ok THEN b.res ELSE @,
                            ![t].fin = b.fin, ![t].del = b.del]
        /\ pc' = [pc EXCEPT ![t] = "write"]
        /\ UNCHANGED <<input, readEvent, sem, rd, shared, blocks, bufs, writeRes,
                       error, ended, finished, out, faulted, result>>

\* The next ready block, read after the semaphore was released.
LoadBlock(t) ==
    LET b == blocks[th[t].wi]
    IN  /\ pc[t] = "load"
        /\ th' = [th EXCEPT ![t].res = IF @ = Ok THEN b.res ELSE @,
                            ![t].buf = b.buf, ![t].fin = b.fin, ![t].del = b.del]
        /\ pc' = [pc EXCEPT ![t] = "write"]
        /\ UNCHANGED <<input, readEvent, sem, rd, shared, blocks, bufs, writeRes,
                       error, ended, finished, out, faulted, result>>

-----------------------------------------------------------------------------
(***************************************************************************)
(* The last thread to end sets finished_event, for which the caller waits. *)
(***************************************************************************)
Exit(t) ==
    /\ pc[t] = "exit"
    /\ ended' = ended + 1
    /\ th' = [th EXCEPT ![t].last = ended + 1]
    /\ pc' = [pc EXCEPT ![t] = "last"]
    /\ UNCHANGED <<input, readEvent, sem, rd, shared, blocks, bufs, writeRes,
                   error, finished, out, faulted, result>>

\* Mutation of AllOut: the threads that may be started are waited for.
AllThreads(n) == n = NumThreads

\* The n-th thread to end is the last of the started ones.
AllOut(n) == n = rd.started

LastOut(t) ==
    /\ pc[t] = "last" /\ ~ReadLocked
    /\ finished' = (finished \/ AllOut(th[t].last))
    /\ pc' = [pc EXCEPT ![t] = "done"]
    /\ UNCHANGED <<input, readEvent, sem, rd, shared, blocks, bufs, writeRes,
                   error, ended, th, out, faulted, result>>

Joined == finished /\ \A t \in Threads : pc[t] \in {"off", "done"}

Return ==
    /\ Joined /\ result = None
    /\ result' = IF error # Ok THEN error
                 ELSE IF rd.res # Ok THEN rd.res ELSE writeRes
    /\ UNCHANGED <<input, readEvent, sem, rd, shared, blocks, bufs, writeRes,
                   error, ended, finished, pc, th, out, faulted>>

Step(t) ==
    \/ ReadBlock(t) \/ StopReading(t) \/ TakeSlot(t)
    \/ StartCode(t) \/ Code(t) \/ Post(t)
    \/ WriteBlock(t) \/ FreeSlot(t) \/ LoadBlock(t)
    \/ Exit(t) \/ LastOut(t)

\* The run may be over, or without the thread that panicked.
Panicked == \E t \in Threads : pc[t] = "panicked"
Returned == (result # None \/ Panicked) /\ UNCHANGED vars

Next == (\E t \in Threads : Step(t)) \/ Return \/ Returned

\* The scheduler runs every thread, and the caller, again and again.
Fairness == (\A t \in Threads : WF_vars(Step(t))) /\ WF_vars(Return)

Spec == Init /\ [][Next]_vars /\ Fairness

-----------------------------------------------------------------------------
Block == [res : Res, buf : Slots \cup {NoBuf}, fin : BOOLEAN, del : BOOLEAN]

TypeOK ==
    /\ input \in Inputs
    /\ readEvent \in BOOLEAN
    /\ sem \in 0 .. NumBlocks
    /\ rd \in [stop : BOOLEAN, res : Res, pos : 0 .. input.len, index : Slots,
               started : 1 .. NumThreads]
    /\ shared.ready \in [Slots -> BOOLEAN]
    /\ shared.free \in Seq(0 .. NumBlocks)
    /\ shared.write \in Slots \cup {Writing}
    /\ blocks \in [Slots -> Block]
    /\ writeRes \in Res /\ error \in Res
    /\ ended \in 0 .. rd.started
    /\ finished \in BOOLEAN
    /\ pc \in [Threads -> {"off", "wait", "slot", "start", "code", "post", "write",
                           "free", "load", "exit", "last", "done", "panicked"}]
    /\ \A t \in Threads : th[t].bi \in Slots /\ th[t].wi \in Slots
    /\ faulted \subseteq FaultKind
    /\ result \in Res \cup {None}

(***************************************************************************)
(* The slot a thread works on, and the slots in use.                       *)
(***************************************************************************)
SlotOf(t) ==
    CASE pc[t] \in {"start", "code", "post"} -> {th[t].bi}
      [] pc[t] \in {"write", "free", "load"} -> {th[t].wi}
      [] OTHER -> {}

ReadySlots == {s \in Slots : shared.ready[s]}

\* The buffers of the blocks in work and of those that wait to be written.
BufOf(t) ==
    IF pc[t] \in {"code", "post", "write", "free"} THEN {th[t].buf} \ {NoBuf} ELSE {}

ReadyBufs == {blocks[s].buf : s \in ReadySlots \cup
                {th[t].wi : t \in {u \in Threads : pc[u] = "load"}}} \ {NoBuf}

Writers == {t \in Threads : \/ pc[t] \in {"write", "free", "load"}
                            \/ pc[t] \in {"code", "post"} /\ th[t].owns}

SlotsExclusive ==
    /\ \A t, u \in Threads : t # u => SlotOf(t) \cap SlotOf(u) = {}
    /\ \A t \in Threads : SlotOf(t) \cap ReadySlots = {}
    /\ "spawn" \notin faulted =>
         sem + Cardinality((UNION {SlotOf(t) : t \in Threads}) \cup ReadySlots) = NumBlocks

BuffersExclusive ==
    /\ \A t, u \in Threads : t # u => BufOf(t) \cap BufOf(u) = {}
    /\ \A t \in Threads : BufOf(t) \cap ReadyBufs = {}
    /\ \A i \in DOMAIN shared.free :
         /\ \A t \in Threads : shared.free[i] \notin BufOf(t) \cup ReadyBufs
         /\ \A j \in DOMAIN shared.free : shared.free[i] = shared.free[j] => i = j
    /\ \A t \in Threads : BufOf(t) \subseteq Slots

(***************************************************************************)
(* The semaphore bounds the ring: blocks in flight never share a slot, so  *)
(* none is overwritten before it is written, and every slot is accounted   *)
(* for.  An output buffer is never used for two blocks at once, never used *)
(* while it is on the free list, and no more of them are touched than      *)
(* blocks may be in flight, whatever order the blocks finish in.           *)
(***************************************************************************)
NothingShared == SlotsExclusive /\ BuffersExclusive

\* One thread at a time writes, and write_index says whether one does.
OneWriter ==
    /\ Cardinality(Writers) <= 1
    /\ (Writers = {}) = (shared.write # Writing)

-----------------------------------------------------------------------------
(***************************************************************************)
(* The reference: the pieces one thread would write.  A stream whose size  *)
(* is a multiple of the block size ends with an empty block.               *)
(***************************************************************************)
RefOut ==
    LET full == input.len \div BlockSize
        n == IF input.kind = "data" /\ full > 0 /\ input.len % BlockSize = 0
             THEN full ELSE full + 1
    IN  [i \in 1 .. n |->
            IF i < n THEN Piece((i - 1) * BlockSize, i * BlockSize, FALSE)
                     ELSE Piece((i - 1) * BlockSize, input.len, TRUE)]

\* What arrived is a prefix of the reference, but for a last piece cut short.
OutputIsPrefix ==
    /\ Len(out) <= Len(RefOut)
    /\ \A i \in 1 .. Len(out) - 1 : out[i] = RefOut[i]
    /\ out # <<>> => LET l == out[Len(out)]
                         r == RefOut[Len(out)]
                     IN  l = r \/ (l.lo = r.lo /\ l.hi <= r.hi /\ ~l.eof)

(***************************************************************************)
(* Blocks reach the output in the order of the input and at most once, in  *)
(* whatever order they finish, and unless an error was set none is missing *)
(* between two of them: the output does not depend on the threads.         *)
(***************************************************************************)
WrittenInOrder ==
    /\ \A i \in 1 .. Len(out) - 1 : out[i].hi <= out[i+1].lo
    /\ OutputIsPrefix \/ error # Ok

(***************************************************************************)
(* Success means that every block was written, the end marker after the    *)
(* last one, and that nothing failed on the way.                           *)
(***************************************************************************)
OkIsComplete == result = Ok => out = RefOut /\ faulted = {}

(***************************************************************************)
(* code returns: the wait for a slot with the read token in hand cannot    *)
(* block the threads that free one, and the last thread is noticed.  Only  *)
(* the panic of a thread that could not start another one keeps it.        *)
(***************************************************************************)
CodeReturns == <>(result # None \/ Panicked)
=============================================================================
