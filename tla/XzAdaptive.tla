----------------------------- MODULE XzAdaptive -----------------------------
(***************************************************************************)
(* XzAdaptiveDecoder of src/src/xz/adaptive.rs.  The caller feeds a file   *)
(* in pieces and drains what has become of it; block by block the decoder  *)
(* either chases the input on the caller's thread or, once a block whose   *)
(* header says how long it is has arrived whole, hands it to a worker.     *)
(*                                                                         *)
(* The decoder is the record `d`; `emit`, `step` and the state functions   *)
(* are operators from one such record to the next.  An action of the       *)
(* caller is one call of the interface, or one turn of drain's loop, which *)
(* the workers run beside.                                                 *)
(***************************************************************************)
EXTENDS XzFiles, XzPool

CONSTANTS
    Lots,       \* what is decoded: pairs of a set of files, <<streams, harm>>
                \* of XzFiles, and a set of callers' options: [verify, allow,
                \* concat, maxBlock, cap, mem, ceilings, piece, limit, starved,
                \* cancels]
    OutStep,    \* OUT_STEP: the most output of one turn of the chase
    DrainAgain  \* may the caller drain a block it has fed nothing more of?

VARIABLES file, opts, d,
    pc          \* the caller: "feed", "drain" (in its loop), "wait" (in
                \* collect, inside drain) or "end"

callVars == <<file, opts, d, pc>>
vars == <<callVars, workVars>>

File == file.cells

NoPart == [rest |-> <<>>, len |-> 0]
NoDecoder == NewBlockDecoder([filters |-> <<>>, comp |-> None, unc |-> None], 0)

NewDecoder(threads) ==
    [fed |-> 0, cur |-> 0, done |-> FALSE, threads |-> threads,
     st |-> "StreamHeader", check |-> "none", fold |-> <<>>, dec |-> NoDecoder,
     hs |-> 0, isize |-> 0, retry |-> 0,
     sent |-> <<>>,         \* the blocks given to workers
     outstanding |-> {},    \* those not collected,
     ready |-> {},          \* those collected and not emitted
     next |-> 1,            \* next_emit
     part |-> NoPart,
     out |-> <<>>,          \* what the sink has been given
     planned |-> 0,         \* planned_out
     left |-> 0,            \* what the sink may still be given by this drain
     res |-> ""]            \* how the last drain ended, if that is the end

Init ==
    /\ \E lot \in Lots :
       \E f \in lot[1] :
       \E cells \in {FileCells(f[1], f[2])} :
       \E verify \in BOOLEAN :
       \E sound \in {SoundReadings(cells, f[1], verify)} :
       \E o \in {p \in lot[2] : p.verify = verify} :
          /\ file = Given(f[1], f[2], cells, sound, o, FALSE)
          /\ opts = o
    /\ \E n \in opts.ceilings : d = NewDecoder(n)
    /\ pc = "feed"
    /\ PoolInit

-----------------------------------------------------------------------------
(* What the decoder holds.                                                 *)

Avail(a) == a.fed - a.cur
Look(a, n) == SubSeq(File, a.cur + 1, a.cur + n)

Cost(a, i) == a.sent[i].unpacked + PaddedSize(a.sent[i].unpadded)
HeldBlockBytes(a) ==
    a.part.len + FoldSet(LAMBDA i, n : n + Cost(a, i), 0, a.outstanding \cup a.ready)
InFlightBytes(a) == Avail(a) + HeldBlockBytes(a)
HeldBlocks(a) == Cardinality(a.outstanding \cup a.ready)
                   + (IF a.part = NoPart THEN 0 ELSE 1)

BlockCap(a) == Least(opts.maxBlock, Most(opts.cap - a.planned, 0))

-----------------------------------------------------------------------------
(* emit: what is left of the block a limited drain stopped in, then the    *)
(* finished blocks in the order of the file.                               *)

Sink(a, data, n) ==
    [a EXCEPT !.out = @ \o FirstN(data, n), !.left = @ - n]

EmitPart(a) ==
    LET n == Least(Len(a.part.rest), a.left)
    IN  [Sink(a, a.part.rest, n) EXCEPT
            !.part = IF n = Len(@.rest) THEN NoPart
                     ELSE [@ EXCEPT !.rest = Drop(@, n)]]

Emitted(a, data, n) ==
    LET b == [Sink(a, data, n) EXCEPT
                 !.ready = @ \ {a.next},
                 !.next = @ + 1,
                 !.part = IF n = Len(data) THEN NoPart
                          ELSE [rest |-> Drop(data, n), len |-> Len(data)]]
    IN  IF Len(b.out) > opts.cap THEN [b EXCEPT !.res = "bad"] ELSE b

EmitBlock(a, answer) ==
    IF answer.ok THEN Emitted(a, answer.out, Least(Len(answer.out), a.left))
    ELSE [a EXCEPT !.res = "bad", !.ready = @ \ {a.next}]

Answer(job) == DecodeBlock(job, SubSeq(File, job.off + 1,
                                       job.off + PaddedSize(job.unpadded)))

EmitNext(a) ==
    IF /\ a.res = ""
       /\ a.part = NoPart
       /\ a.left # 0
       /\ a.next \in a.ready
      THEN EmitBlock(a, Answer(a.sent[a.next]))
      ELSE a

Emit(a) == FoldSet(LAMBDA i, b : EmitNext(b), EmitPart(a), a.ready)

(* collect: everything the workers have answered.                          *)
Collected(a) ==
    [a EXCEPT !.outstanding = @ \ {doneq[i] : i \in 1 .. Len(doneq)},
              !.ready = @ \cup {doneq[i] : i \in 1 .. Len(doneq)}]

-----------------------------------------------------------------------------
(* The state functions.  A step is [d, did, sent]; `sent` is TRUE when a   *)
(* block went to a worker.                                                 *)

Did(a) == [d |-> a, did |-> TRUE, sent |-> FALSE]
Blocked(a) == [d |-> a, did |-> FALSE, sent |-> FALSE]
Error(a, kind) == Blocked([a EXCEPT !.res = kind])

(* Input ended where a field was still expected. *)
ShortOf(a) == IF a.done THEN Error(a, "bad") ELSE Blocked(a)

StreamHeaderStep(a) ==
    LET h == ParseStreamHeader(Look(a, StreamHeaderSize))
    IN  IF Avail(a) < StreamHeaderSize THEN ShortOf(a)
        ELSE IF ~h.ok \/ Refused(opts, h.check) THEN Error(a, "bad")
        ELSE Did([a EXCEPT !.check = h.check, !.cur = @ + StreamHeaderSize,
                           !.fold = <<>>, !.st = "BlockOrIndex"])

(* Mutation of StartChase: what came before may still be out. *)
StartChaseAtOnce(a, size, header) ==
    LET refusal == Refusal(header, opts.mem, BlockCap(a))
    IN  IF refusal # "" THEN Error(a, refusal)
        ELSE Did([a EXCEPT !.dec = NewBlockDecoder(header, BlockCap(a)),
                           !.hs = size, !.cur = @ + size, !.st = "Block"])

(* The chase begins only when everything before it was handed over, since  *)
(* it writes to the sink directly.                                         *)
StartChase(a, size, header) ==
    LET refusal == Refusal(header, opts.mem, BlockCap(a))
    IN  IF a.outstanding # {} \/ a.ready # {} THEN Blocked(a)
        ELSE IF refusal # "" THEN Error(a, refusal)
        ELSE Did([a EXCEPT !.dec = NewBlockDecoder(header, BlockCap(a)),
                           !.hs = size, !.cur = @ + size, !.st = "Block"])

(* try_dispatch.  A block that has not all arrived is waited for, unless   *)
(* nothing more can arrive.                                                *)
SendBlock(a, job) ==
    [d |-> [a EXCEPT !.sent = Append(@, job),
                     !.outstanding = @ \cup {Len(a.sent) + 1},
                     !.planned = @ + job.unpacked,
                     !.cur = @ + PaddedSize(job.unpadded),
                     !.fold = Append(@, <<job.unpadded, job.unpacked>>)],
     did |-> TRUE, sent |-> TRUE]

(* Mutation of TryDispatch: blocks that were collected do not count. *)
TryDispatchUncollected(a, size, header, job) ==
    LET padded == PaddedSize(job.unpadded)
        held == Cardinality(a.outstanding)
    IN  IF header.unc > BlockCap(a) THEN Error(a, "bad")
        ELSE IF Avail(a) < padded
          THEN IF a.done \/ InFlightBytes(a) >= opts.mem
                 THEN StartChase(a, size, header) ELSE Blocked(a)
        ELSE IF \/ held >= a.threads
                \/ held > 0 /\ HeldBlockBytes(a) + header.unc + padded > opts.mem
          THEN Blocked(a)
        ELSE SendBlock(a, job)

TryDispatch(a, size, header, job) ==
    LET padded == PaddedSize(job.unpadded)
        held == HeldBlocks(a)
    IN  IF header.unc > BlockCap(a) THEN Error(a, "bad")
        ELSE IF Avail(a) < padded
          THEN IF a.done \/ InFlightBytes(a) >= opts.mem
                 THEN StartChase(a, size, header) ELSE Blocked(a)
        ELSE IF \/ held >= a.threads
                \/ held > 0 /\ HeldBlockBytes(a) + header.unc + padded > opts.mem
          THEN Blocked(a)
        ELSE SendBlock(a, job)

BlockStep(a, size, header) ==
    IF header.comp # None /\ header.unc # None /\ a.threads > 1
      THEN TryDispatch(a, size, header,
                       [check |-> a.check, verify |-> opts.verify,
                        unpacked |-> header.unc, off |-> a.cur,
                        unpadded |-> size + header.comp + CheckSize(a.check)])
      ELSE StartChase(a, size, header)

BlockOrIndexStep(a) ==
    LET size == HeaderSizeFromFirstByte(Look(a, 1)[1])
        header == ParseBlockHeader(Look(a, size))
    IN  IF Avail(a) = 0 THEN ShortOf(a)
        ELSE IF size = 0
          THEN Did([a EXCEPT !.cur = @ + 1, !.st = "Index", !.retry = 0])
        ELSE IF Avail(a) < size THEN ShortOf(a)
        ELSE IF ~header.ok THEN Error(a, "bad")
        ELSE BlockStep(a, size, header)

(* chase: a turn of the block decoder, or the block's padding and check.   *)
Chased(a, t) ==
    LET b == [a EXCEPT !.dec = t.dec, !.cur = @ + t.read,
                       !.out = @ \o t.wrote, !.left = @ - Len(t.wrote),
                       !.planned = IF t.wrote = <<>> THEN @
                                   ELSE Len(a.out) + Len(t.wrote)]
    IN  IF t.err THEN Error(a, "bad")
        ELSE IF Len(b.out) > opts.cap THEN Error(b, "bad")
        ELSE IF t.wrote = <<>> /\ t.read = 0 THEN ShortOf(b)
        ELSE Did(b)

TailStep(a) ==
    LET padding == PadLen(a.dec.packed)
        need == padding + CheckSize(a.check)
        tail == Look(a, need)
    IN  IF Avail(a) < need THEN ShortOf(a)
        ELSE IF \/ \E i \in 1 .. padding : tail[i] # Null
                \/ ~CheckPasses(a.check, opts.verify, a.dec.sum, Drop(tail, padding))
          THEN Error(a, "bad")
        ELSE Did([a EXCEPT !.cur = @ + need, !.st = "BlockOrIndex",
                           !.dec = NoDecoder,
                           !.fold = Append(@, <<a.hs + a.dec.packed
                                                  + CheckSize(a.check),
                                                a.dec.unpacked>>)])

ChaseStep(a) ==
    IF Finished(a.dec) THEN TailStep(a)
    ELSE Chased(a, DecodeTurn(a.dec, Look(a, Avail(a)), Least(OutStep, a.left)))

(* index: parsed again from its start whenever more of it has arrived.     *)
IncompleteIndex(a) ==
    IF a.done THEN Error(a, "bad")
    ELSE IF InFlightBytes(a) >= opts.mem THEN Error(a, "memory")
    ELSE Blocked([a EXCEPT !.retry = Avail(a)])

(* The input ends inside a VLI: every byte there is continues.             *)
TruncatedVli(cells) ==
    /\ Len(cells) < VliMax
    /\ \A i \in 1 .. Len(cells) :
          cells[i][1] = "b" /\ cells[i][2] >= VliBase /\ (i > 1 => cells[i] # Null)

ReadAll(a, body, c, r) ==
    LET n == 1 + c.len + r.len
        size == n + PadLen(n)
        have == Least(size - 1, Len(body))
        padded == <<Null>> \o FirstN(body, size - 1)
    IN  IF \E i \in c.len + r.len + 1 .. have : body[i] # Null THEN Error(a, "bad")
        ELSE IF Len(body) < size - 1 + Align THEN IncompleteIndex(a)
        ELSE IF SubSeq(body, size, size - 1 + Align) # Crc(padded)
          THEN Error(a, "bad")
        ELSE Did([a EXCEPT !.cur = @ + size - 1 + Align, !.isize = size + Align,
                           !.st = "Footer"])

ReadSome(a, body, c, r) ==
    LET seen == r.values
        short == \E k \in 1 .. Len(seen) \div 2 : seen[2 * k - 1] < MinUnpadded
    IN  IF short THEN Error(a, "bad")
        ELSE IF ~r.ok
          THEN IF TruncatedVli(Drop(body, c.len + r.len)) THEN IncompleteIndex(a)
               ELSE Error(a, "bad")
        ELSE IF PairUp(seen) # a.fold THEN Error(a, "bad")
        ELSE ReadAll(a, body, c, r)

IndexCounted(a, body, c) ==
    IF ~c.ok THEN IF TruncatedVli(body) THEN IncompleteIndex(a)
                  ELSE Error(a, "bad")
    ELSE IF c.value # Len(a.fold) THEN Error(a, "bad")
    ELSE ReadSome(a, body, c, TakeVlis(Drop(body, c.len), 2 * c.value))

IndexStep(a) ==
    IF Avail(a) <= a.retry /\ ~a.done THEN Blocked(a)
    ELSE IndexCounted(a, Look(a, Avail(a)), VliDecode(Look(a, Avail(a))))

FooterStep(a) ==
    LET f == ParseStreamFooter(Look(a, StreamFooterSize))
    IN  IF Avail(a) < StreamFooterSize THEN ShortOf(a)
        ELSE IF ~f.ok \/ f.check # a.check \/ f.indexSize # a.isize
          THEN Error(a, "bad")
        ELSE Did([a EXCEPT !.cur = @ + StreamFooterSize, !.st = "Padding"])

(* Every group of padding there is, then another stream or the end.        *)
Groups(a) == Max({k \in 0 .. Avail(a) \div Align :
                     Look(a, k * Align) = Nulls(k * Align)})

PaddingPassed(a) ==
    IF Avail(a) = 0
      THEN IF a.done THEN Did([a EXCEPT !.st = "Done"]) ELSE Blocked(a)
    ELSE IF Avail(a) < Align THEN ShortOf(a)
    ELSE Did([a EXCEPT !.st = "StreamHeader"])

PaddingStep(a) ==
    IF Avail(a) > 0 /\ ~opts.concat THEN Error(a, "bad")
    ELSE PaddingPassed([a EXCEPT !.cur = @ + Align * Groups(a)])

Step(a) ==
    CASE a.st = "StreamHeader" -> StreamHeaderStep(a)
      [] a.st = "BlockOrIndex" -> BlockOrIndexStep(a)
      [] a.st = "Block" -> ChaseStep(a)
      [] a.st = "Index" -> IndexStep(a)
      [] a.st = "Footer" -> FooterStep(a)
      [] a.st = "Padding" -> PaddingStep(a)
      [] a.st = "Done" -> Blocked(a)

-----------------------------------------------------------------------------
(* The caller.                                                             *)

(* feed: as much of the piece as the memory limit leaves room for, and     *)
(* some of it when nothing at all is buffered.                             *)
Accepts(a, n) ==
    LET take == Least(Most(opts.mem - InFlightBytes(a), 0), n)
    IN  IF take = 0 /\ Avail(a) = 0 THEN n ELSE take

(* A caller that has fed everything says so with its next call.            *)
Feed ==
    /\ pc = "feed"
    /\ LET piece == Least(opts.piece, Len(File) - d.fed)
       IN  d' = IF piece = 0 THEN [d EXCEPT !.done = TRUE, !.left = opts.limit]
                ELSE [d EXCEPT !.fed = @ + Accepts(d, piece), !.left = opts.limit]
    /\ pc' = "drain"
    /\ UNCHANGED <<file, opts, workVars>>

(* The caller drains again without having fed anything more.               *)
Drain ==
    /\ pc = "feed"
    /\ DrainAgain \/ d.st # "Block" \/ Avail(d) > 0
    /\ d' = [d EXCEPT !.left = opts.limit]
    /\ pc' = "drain"
    /\ UNCHANGED <<file, opts, workVars>>

(* set_threads takes effect at the next block. *)
SetThreads ==
    /\ pc = "feed"
    /\ \E n \in opts.ceilings \ {d.threads} : d' = [d EXCEPT !.threads = n]
    /\ UNCHANGED <<file, opts, pc, workVars>>

Answered == doneq' = <<>> /\ UNCHANGED <<jobs, busy, live, open>>

(* wait_for_worker comes back with a block, or when none can come.         *)
WaitForWorker ==
    /\ pc = "feed"
    /\ d.outstanding # {}
    /\ doneq # <<>>
    /\ d' = Collected(d)
    /\ Answered
    /\ UNCHANGED <<file, opts, pc>>

(* Where drain goes after a turn that did something, or did not.           *)
AllHandedOver(a) == a.outstanding = {} /\ a.ready = {}

AfterTurn(s) ==
    CASE s.d.res # "" -> "end"
      [] s.d.res = "" /\ s.did -> IF AllHandedOver(s.d) THEN "feed" ELSE "drain"
      [] s.d.res = "" /\ ~s.did
           -> IF \/ s.d.outstanding = {}
                 \/ ~s.d.done /\ InFlightBytes(s.d) < opts.mem
                THEN "feed" ELSE "wait"

(* A turn of drain's loop: collect, emit, and one step.                    *)
Turned(a) ==
    IF a.res # "" THEN Error(a, a.res)
    ELSE IF a.st = "Done" /\ AllHandedOver(a) /\ a.part = NoPart
      THEN Error(a, "done")
    ELSE Step(a)

DrainTurn ==
    /\ pc = "drain"
    /\ \E a \in {Emit(Collected(d))} :
         LET full == a.res = "" /\ a.left = 0
                       /\ ~(a.st = "Done" /\ AllHandedOver(a) /\ a.part = NoPart)
         IN  IF full
               THEN d' = a /\ pc' = "feed" /\ Answered
               ELSE \E s \in {Turned(a)} :
                      /\ d' = s.d
                      /\ pc' = AfterTurn(s)
                      /\ doneq' = <<>>
                      /\ IF s.sent
                           THEN Dispatch(Len(s.d.sent), a.threads, opts.starved)
                           ELSE UNCHANGED <<jobs, busy, live, open>>
    /\ UNCHANGED <<file, opts>>

(* Drain waits for a worker, and takes what it has done; a wait that runs  *)
(* out with no worker alive is an error.                                   *)
DrainCollects ==
    /\ pc = "wait"
    /\ doneq # <<>>
    /\ \E a \in {Emit(Collected(d))} :
          d' = a /\ pc' = AfterTurn(Did(a))
    /\ Answered
    /\ UNCHANGED <<file, opts>>

DrainGivesUp ==
    /\ pc = "wait"
    /\ doneq = <<>>
    /\ NoneAlive
    /\ d' = [d EXCEPT !.res = "internal"]
    /\ pc' = "end"
    /\ UNCHANGED <<file, opts, workVars>>

(* cancel, or dropping the decoder: hang up, join the workers.             *)
Close ==
    /\ open
    /\ pc = "end" \/ (opts.cancels /\ pc = "feed")
    /\ d' = IF d.res = "" THEN [d EXCEPT !.res = "cancelled"] ELSE d
    /\ pc' = "end"
    /\ Shutdown
    /\ UNCHANGED <<file, opts>>

Worker == WorkerStep /\ UNCHANGED callVars

Over == pc = "end" /\ ~open /\ live = 0

Idle == Over /\ UNCHANGED vars

CallerStep == Feed \/ Drain \/ DrainTurn \/ DrainCollects \/ DrainGivesUp \/ Close

Next == CallerStep \/ SetThreads \/ WaitForWorker \/ Worker \/ Idle

(* The caller does not drain for ever without feeding what it has, and     *)
(* closes in the end; threads run.                                         *)
CallerReady ==
    \/ pc \in {"feed", "drain"}
    \/ pc = "wait" /\ (doneq # <<>> \/ NoneAlive)
    \/ pc = "end" /\ open

Fairness ==
    /\ []<>~CallerReady \/ []<><<CallerStep>>_vars
    /\ <>[](pc # "feed") \/ []<><<Feed>>_vars
    /\ []<>~WorkerReady \/ []<><<Worker>>_vars

Spec == Init /\ [][Next]_vars /\ Fairness

-----------------------------------------------------------------------------
(* Draining to the end succeeds for the files a writer could have produced *)
(* and the caller allows, and for no other, whatever the pieces, the       *)
(* limits, the thread ceilings and the order in which workers finish; and  *)
(* at every moment the sink has the beginning of the data: drain, chase    *)
(* and emit of adaptive.rs.                                                *)
AdaptiveAccepts ==
    /\ d.res = "done" => \E data \in file.contents :
                            /\ Len(d.out) = Len(data)
                            /\ ~file.flipped => d.out = data
    /\ d.res = "bad" => file.contents = {}
    /\ ~file.flipped => IsPrefix(d.out, file.data)

(* No more blocks are held than the highest ceiling the caller has set,    *)
(* and more than one only within its memory limit: try_dispatch.           *)
HeldWithinLimits ==
    /\ HeldBlocks(d) <= Max(opts.ceilings)
    /\ HeldBlocks(d) > 1 => HeldBlockBytes(d) <= opts.mem

(* A caller that keeps feeding and draining is told the end, and closing   *)
(* leaves no thread: drain_impl and shutdown.                              *)
DrainEnds == <>[]Over

=============================================================================
