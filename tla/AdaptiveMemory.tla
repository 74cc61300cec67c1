--------------------------- MODULE AdaptiveMemory ---------------------------
(***************************************************************************)
(* What the adaptive LZMA2 decoder (mt/adaptive.rs, mt/segq.rs) holds and  *)
(* what it admits: the memory it is charged for, the bound it works to and *)
(* the room there is for input and for a run.                              *)
(*                                                                         *)
(* The decoder is a record d, see AdaptiveDecoder.  Input and output are   *)
(* counted in units, and an allocation is its capacity.  A stream is a     *)
(* sequence of runs; run r is the input lo+1 .. hi, made of chunks of two  *)
(* units, a header and a body, and decodes to the output olo+1 .. ohi.     *)
(***************************************************************************)
EXTENDS Integers, Sequences, FiniteSets, SequencesExt

CONSTANTS
    MinBufBudget,   \* MIN_BUF_BUDGET
    MinPiece,       \* MIN_PIECE
    RecentPieces,   \* RECENT_PIECES
    PieceTarget,    \* PIECE_TARGET
    OutStep,        \* OUT_STEP_ST
    DicSize,        \* the dictionary of the stream's properties
    Unbounded       \* u64::MAX

ASSUME SizesAssumption ==
    {MinBufBudget, MinPiece, RecentPieces, PieceTarget, OutStep, DicSize, Unbounded}
        \subseteq Nat \ {0}

\* saturating_sub
Less(a, b) == IF a > b THEN a - b ELSE 0

Larger(a, b)  == IF a >= b THEN a ELSE b
Smaller(a, b) == IF a <= b THEN a ELSE b

PackedLen(r)   == r.hi - r.lo
UnpackedLen(r) == r.ohi - r.olo

Total(s) == FoldSeq(LAMBDA x, sum : x + sum, 0, s)
Charges(s) == FoldSeq(LAMBDA p, sum : p.charge + sum, 0, s)
SumOf(S, F(_)) == FoldSet(LAMBDA x, sum : F(x) + sum, 0, S)

\* Vec::swap_remove
SwapRemove(s, i) == IF i = Len(s) THEN Front(s) ELSE Front([s EXCEPT ![i] = Last(s)])

-----------------------------------------------------------------------------
(***************************************************************************)
(* What is held.  d.q are the pieces of input not passed yet, d.lent the   *)
(* passed ones a worker still reads, d.spareIn and d.spareOut the parked   *)
(* buffers, d.out the runs out with workers, d.ready and d.part the blocks *)
(* that wait to be delivered.                                              *)
(***************************************************************************)
SpareBytes(d) == Total(d.spareIn)
SegHeld(d) == Charges(d.q) + Charges(d.lent) + SpareBytes(d)
SegLen(d)  == d.end - d.base
DeadBytes(d) == Less(Less(SegHeld(d), SegLen(d)), SpareBytes(d))

Outstanding(d) == Cardinality(d.out)
OutBytes(d)    == SumOf(d.out, LAMBDA j : j.held)
OutPacked(d)   == SumOf(d.out, LAMBDA j : j.packed)

Waiting(d)  == d.ready \cup d.part
Landed(d)   == Cardinality(d.ready) + Cardinality(d.part)
ReadyCap(d) == SumOf(Waiting(d), LAMBDA b : b.cap)

HeldBytes(d)   == SegHeld(d) - SpareBytes(d) + OutBytes(d) + ReadyCap(d)
ParkedBytes(d) == Total(d.spareOut) + SpareBytes(d)
Holding(d)     == HeldBytes(d) + ParkedBytes(d)

-----------------------------------------------------------------------------
(***************************************************************************)
(* The bound: one pair of a run's input and output for every thread, the   *)
(* runs out and the blocks waiting at their own sizes, the input read      *)
(* ahead, and one or two pieces.                                           *)
(***************************************************************************)
Piece(d) == Max({0} \cup Range(d.recent))
PieceSize(d) == Larger(Piece(d), MinPiece)

\* The largest input and output of the runs the threads will take next, the
\* last run dispatched included.
RunPair(d) ==
    LET next == Range(SubSeq(d.pending, 1, Smaller(d.threads, Len(d.pending))))
    IN  [in  |-> Max({PackedLen(r) : r \in next} \cup {d.lastPacked}),
         out |-> Max({UnpackedLen(r) : r \in next} \cup {d.lastUnpacked})]

KnownRun(d) ==
    Larger(IF d.pending = <<>> THEN 0 ELSE PackedLen(d.pending[1]), d.lastPacked)

Idle(d) == Less(d.threads, Outstanding(d) + Landed(d))

\* Input of the runs the caller reads ahead beyond its threads, the run the
\* scanner is inside included.
AheadInput(d, runIn, idle) ==
    LET ahead == Less(d.readAhead, d.threads)
        beyond == {k \in idle + 1 .. idle + ahead : k <= Len(d.pending)}
        filling == Len(d.pending) >= idle /\ Len(d.pending) - idle < ahead
    IN  runIn * ahead
        + SumOf(beyond, LAMBDA k : Less(PackedLen(d.pending[k]), runIn))
        + (IF filling /\ d.openRun > 0 THEN Less(d.openRun, runIn) ELSE 0)

BoundFor(d, run, piece, idle) ==
    LET pair  == Larger(run.in + run.out, 2 * piece)
        slack == IF run.in <= piece THEN piece ELSE 2 * piece
        inHand == OutPacked(d) + OutBytes(d) + ReadyCap(d) + pair * idle
    IN  IF run.in = 0 /\ run.out = 0 THEN Unbounded
        ELSE Larger(pair * d.threads, inHand) + AheadInput(d, run.in, idle) + slack

PairBound(d) == BoundFor(d, RunPair(d), PieceSize(d), Idle(d))

Limit(d) == Smaller(d.memoryLimit, PairBound(d))

-----------------------------------------------------------------------------
(***************************************************************************)
(* Parked capacity: given back for input and for runs, and kept while it   *)
(* is likely to be used again.                                             *)
(***************************************************************************)
LastSpare(d) == IF d.spareOut = <<>> THEN 0 ELSE Last(d.spareOut)

\* The least number of elements from the end of s that add up to want, or all.
Enough(s, want) ==
    Min({k \in 0 .. Len(s) : k = Len(s) \/ Total(SubSeq(s, Len(s) - k + 1, Len(s))) >= want})

DropLast(s, n) == SubSeq(s, 1, Len(s) - n)

\* shed_spare_down: parked input, the newest first, until `want` units went.
ShedIn(d, want) == [d EXCEPT !.spareIn = DropLast(@, Enough(@, want))]

\* shed_parked: output buffers first, but for the one the next run takes,
\* then input, and with `all` that last one too.
ShedOut(d, want) ==
    IF d.spareOut = <<>> THEN d
    ELSE [d EXCEPT !.spareOut =
            Append(DropLast(Front(@), Enough(Front(@), want)), Last(@))]

ShedRest(d, kept, want) == ShedIn(kept, Less(want, Total(d.spareOut) - Total(kept.spareOut)))

ShedLast(d, kept, want) ==
    IF ParkedBytes(d) - ParkedBytes(kept) < want /\ kept.spareOut # <<>>
    THEN [kept EXCEPT !.spareOut = Front(@)] ELSE kept

ShedParked(d, want) == ShedRest(d, ShedOut(d, want), want)
ShedAll(d, want) == ShedLast(d, ShedParked(d, want), want)

\* recycle: park an output buffer of capacity cap, or let it go.
WantedOut(d) ==
    Larger(IF d.pending = <<>> THEN d.lastUnpacked ELSE UnpackedLen(d.pending[1]), OutStep)

WorthParking(d, cap, want) ==
    /\ cap <= 2 * want
    /\ \/ d.spareOut = <<>>
       \/ Total(d.spareOut) + cap <= Smaller(Limit(d) \div 2, want * d.threads)

Recycle(d, cap) ==
    IF /\ Outstanding(d) + Landed(d) + Len(d.spareOut) < d.threads
       /\ WorthParking(d, cap, WantedOut(d))
    THEN [d EXCEPT !.spareOut = Append(@, cap)] ELSE d

\* give_back: park an input buffer, in place of a smaller one if need be.
SmallestSpare(d) ==
    CHOOSE i \in DOMAIN d.spareIn :
        \A j \in DOMAIN d.spareIn : d.spareIn[i] < d.spareIn[j] \/
            (d.spareIn[i] = d.spareIn[j] /\ i <= j)

GiveBack(d, p) ==
    LET cap == p.charge
        fits == Len(d.spareIn) < d.parkSlots /\ SpareBytes(d) + cap <= d.parkRoom
        Replaces(i) == /\ cap > d.spareIn[i] /\ Len(d.spareIn) <= d.parkSlots
                       /\ SpareBytes(d) - d.spareIn[i] + cap <= d.parkRoom
    IN  IF ~p.owned \/ (Piece(d) # 0 /\ cap > 2 * Piece(d)) THEN d
        ELSE IF d.spareIn = <<>> \/ fits THEN [d EXCEPT !.spareIn = Append(@, cap)]
        ELSE IF Replaces(SmallestSpare(d))
        THEN [d EXCEPT !.spareIn = Append(SwapRemove(@, SmallestSpare(d)), cap)]
        ELSE d

\* The runs out that read piece p.
Readers(d, p) == {j \in d.out : j.lo < p.hi /\ p.lo < j.hi}

\* sweep: lent pieces that no worker reads any more.
Sweep(d) ==
    FoldLeft(GiveBack, [d EXCEPT !.lent = SelectSeq(@, LAMBDA p : Readers(d, p) # {})],
             SelectSeq(d.lent, LAMBDA p : Readers(d, p) = {}))

\* retain_from: pieces behind the cursor go, those a worker reads once it has
\* let go of them.  (Every piece set aside before has a reader: the readers
\* change in accept only, which sweeps.)
RetainFrom(d) ==
    Sweep([d EXCEPT !.q = SelectSeq(@, LAMBDA p : p.hi > d.cursorIn),
                    !.base = Larger(@, Smaller(d.cursorIn, d.end)),
                    !.lent = @ \o SelectSeq(d.q, LAMBDA p : p.hi <= d.cursorIn)])

\* release_input: the parking allowance, and the pieces behind the cursor.
LoneChase(d) == d.stInRun /\ d.out = {}

Reusable(d, piece) ==
    IF LoneChase(d) THEN 2 * piece ELSE Larger(RunPair(d).in, piece) * d.threads + piece

SetParkBudget(d, room) ==
    [d EXCEPT !.parkRoom = room,
              !.parkSlots = Larger(room \div PieceSize(d), d.threads + 2)]

ShedExcess(d) == IF LoneChase(d) THEN ShedIn(d, Less(SpareBytes(d), d.parkRoom)) ELSE d

ReleaseInput(d) ==
    RetainFrom(ShedExcess(
        SetParkBudget(d, Smaller(Limit(d) \div 2, Reusable(d, PieceSize(d))))))

-----------------------------------------------------------------------------
(***************************************************************************)
(* Room for input.                                                         *)
(***************************************************************************)
InputFree(d) == Less(Limit(d), Holding(d) - SegHeld(d))

\* buf_budget_for, with `free` what the limit leaves for input.
InputShare(d, slots, free, run) ==
    LET reserve == Less(run.out * slots, Total(d.spareOut))
        floor == DeadBytes(d) + run.in + PieceSize(d)
        share == IF run.in = 0 /\ run.out = 0 THEN Smaller(d.scanReserve, free \div 2)
                                              ELSE Less(free, reserve)
    IN  Smaller(Larger(share, floor), free)

BufBudgetFor(d, slots) == InputShare(d, slots, InputFree(d), RunPair(d))

HasWork(d) == d.out # {} \/ d.ready # {} \/ d.pending # <<>>

ShortOfARun(d) ==
    /\ KnownRun(d) # 0 /\ SegLen(d) <= KnownRun(d)
    /\ d.pending # <<>> => d.pending[1].lo # d.cursorIn

InputHeld(d) == SegHeld(d) - SpareBytes(d)

\* Room under the budget, with the scan reserve as it is.
BudgetRoom(d) ==
    Less(Larger(BufBudgetFor(d, Less(Less(d.threads, Outstanding(d)), Landed(d))),
                IF HasWork(d) THEN 0 ELSE BufBudgetFor(d, 1)),
         InputHeld(d))

\* The scan reserve doubles until there is the room asked for or it has half
\* of what is free; before a run is known, and with nothing else to do.
Doubling(d, k, half) == [d EXCEPT !.scanReserve = IF k = 0 THEN @ ELSE Smaller(@ * 2^k, half)]

Suffices(d, need, half) == d.scanReserve >= half \/ BudgetRoom(d) >= need

Reserved(d, need, half) ==
    Doubling(d, CHOOSE k \in 0 .. half :
                    /\ Suffices(Doubling(d, k, half), need, half)
                    /\ \A j \in 0 .. k - 1 : ~Suffices(Doubling(d, j, half), need, half), half)

Doubled(d, need) ==
    IF KnownRun(d) = 0 /\ ~HasWork(d) THEN Reserved(d, need, InputFree(d) \div 2) ELSE d

\* A piece handed over whole that the budget does not have room for: one of
\* the first, or the one that completes the run in hand.
Excepted(d, len, free, held) ==
    \/ ~HasWork(d) /\ len <= Less(free, held) /\ held < 2 * len
    \/ ShortOfARun(d) /\ held + len <= free

\* input_room: what may be taken of `len` units, with `whole` all or nothing.
Offer(d, len, whole, room) ==
    [d |-> d,
     take |-> IF whole /\ room < len /\ Excepted(d, len, InputFree(d), InputHeld(d))
              THEN len ELSE Smaller(room, len)]

InputRoomIn(d, len, whole) == Offer(d, len, whole, BudgetRoom(d))
InputRoom(d, len, whole) == InputRoomIn(Doubled(d, IF whole THEN len ELSE 1), len, whole)

Refuses(r, len, whole) == r.take = 0 \/ (whole /\ r.take < len)

\* Mutation of RoomAnswer: that input was refused is not remembered.
RoomForgotten(r, len, whole) ==
    [d |-> r.d, take |-> IF whole /\ r.take < len THEN 0 ELSE r.take]

RoomAnswer(r, len, whole) ==
    [d |-> [r.d EXCEPT !.inputRefused = Refuses(r, len, whole)],
     take |-> IF whole /\ r.take < len THEN 0 ELSE r.take]

\* room_to_take: parked output is given back, one buffer at a time, before
\* input is refused.
RoomToTake(d, len, whole) ==
    RoomAnswer(FoldLeft(LAMBDA r, k :
                            IF k = 0 THEN InputRoom(r.d, len, whole)
                            ELSE IF Refuses(r, len, whole) /\ Len(r.d.spareOut) > 1
                            THEN InputRoom(ShedParked(r.d, 1), len, whole) ELSE r,
                        [d |-> ReleaseInput(d), take |-> 0],
                        [k \in 1 .. Len(d.spareOut) + 1 |-> k - 1]),
               len, whole)

\* fit_parked_input: parked input beyond the limit and one piece goes.
FitParked(d) ==
    ShedIn(d, IF SpareBytes(d) = 0 THEN 0
              ELSE Less(Holding(d), Smaller(Limit(d) + Piece(d), d.memoryLimit)))

-----------------------------------------------------------------------------
(***************************************************************************)
(* Room for a run.                                                         *)
(***************************************************************************)
Growth(d, r) == Less(UnpackedLen(r), LastSpare(d))

Behind(d) == SumOf(2 .. Len(d.pending), LAMBDA k : PackedLen(d.pending[k]))

\* Mutation of RoomAfter: an idle thread goes before the caller's limit.
RoomIfIdle(d, after, bound) ==
    \/ after <= Smaller(d.memoryLimit, bound)
    \/ /\ Outstanding(d) + Landed(d) < d.threads
       /\ Less(after, Behind(d)) <= bound

\* Under the caller's limit always; a thread without a run is not kept idle
\* by input read ahead behind the run.
RoomAfter(d, after, bound) ==
    \/ after <= Smaller(d.memoryLimit, bound)
    \/ /\ after <= d.memoryLimit
       /\ Outstanding(d) + Landed(d) < d.threads
       /\ Less(after, Behind(d)) <= bound

RoomWith(d, held, r) == RoomAfter(d, held + Growth(d, r), PairBound(d))

RoomFor(d, r) == RoomWith(d, Holding(d), r)

\* shed_for: parked capacity the run would not reuse goes if that is enough.
ShedFor(d, r) ==
    IF /\ ParkedBytes(d) # LastSpare(d)
       /\ RoomWith(d, HeldBytes(d) + LastSpare(d), r)
    THEN ShedParked(d, Less(Holding(d) + Growth(d, r), Limit(d))) ELSE d
=============================================================================
