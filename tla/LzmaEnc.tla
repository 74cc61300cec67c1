------------------------------- MODULE LzmaEnc -------------------------------
(***************************************************************************)
(* The LZMA encoder (enc/lzma_enc.rs): what it writes for each packet, and *)
(* how its two parsers choose the packets.                                 *)
(*                                                                         *)
(* A packet is (back, len): a literal (Lit, 1), a repeat of one of the     *)
(* last four distances (0..3, len; with (0, 1) the short repeat), or a     *)
(* match (distance + 4, len).  The fast parser is followed step by step.   *)
(* The optimal parser compares prices; its choice is left open here: any   *)
(* path of packets that say what the input holds, no longer than the table *)
(* (K_NUM_OPTS) or one match, so what holds of this encoder holds for any  *)
(* prices.                                                                 *)
(*                                                                         *)
(* Positions count from 0.  The record e holds the coder (RangeEnc), the   *)
(* state, the four distances, now (bytes coded) and the parser's look-     *)
(* ahead: addl bytes past now have been given to the match finder.         *)
(***************************************************************************)
EXTENDS RangeEnc

CONSTANTS
    FastBytes,    \* num_fast_bytes
    NumOpts,      \* K_NUM_OPTS, 2^11 in the code
    Far, VeryFar  \* 2^9 and 2^15, where the fast parser prefers a repeat

Lit     == -1     \* MARK_LIT
NumReps == 4

LiteralNext(s)  == IF s < 4 THEN 0 ELSE IF s < 10 THEN s - 3 ELSE s - 6
MatchNext(s)    == IF s < NumLitStates THEN 7 ELSE 10
RepNext(s)      == IF s < NumLitStates THEN 8 ELSE 11
ShortRepNext(s) == IF s < NumLitStates THEN 9 ELSE 11

PosMask(n) == n % 2^Pb

InitState(e) == [RcInit(e) EXCEPT !.state = 0, !.reps = <<1, 1, 1, 1>>,
                                  !.probs = <<>>, !.addl = 0]

EncStart == InitState(
    RcStart @@ [probs |-> <<>>, out |-> <<>>, room |-> NoLimit, overflow |-> FALSE,
                state |-> 0, reps |-> <<1, 1, 1, 1>>, now |-> 0, addl |-> 0,
                pairs |-> <<>>, longest |-> 0, avail |-> 0, back |-> Lit, len |-> 0,
                finished |-> FALSE])

\* prepare (alloc_and_init): an encoder, new or used, made ready for a stream.  The
\* last packet and the last matches stay, and are not read before they are set.
Prepare(e) == [InitState(e) EXCEPT !.finished = FALSE, !.now = 0]

-----------------------------------------------------------------------------
(***************************************************************************)
(* The match finder: for the position at its cursor, pairs of length and   *)
(* distance, longer and farther one by one, up to FastBytes long (the      *)
(* finder is LzFind's; here, what it returns).                             *)
(***************************************************************************)
At(data, p) == data[p + 1]

\* EncodeWindow::match_len: how far position p agrees with p - back, up to limit.
MatchLen(data, p, back, limit) ==
    LET differ == {n \in 0 .. limit - 1 : At(data, p + n) # At(data, p + n - back)}
    IN  IF differ = {} THEN limit ELSE CHOOSE n \in differ : \A m \in differ : n <= m

RECURSIVE PairsFrom(_, _, _, _, _)
PairsFrom(data, p, back, limit, best) ==
    IF back > Lesser(p, DictSize) THEN <<>>
    ELSE LET n == MatchLen(data, p, back, limit)
         IN  IF n > best /\ n >= 2
             THEN <<[len |-> n, dist |-> back - 1]>> \o PairsFrom(data, p, back + 1, limit, n)
             ELSE PairsFrom(data, p, back + 1, limit, best)

Pairs(data, p) == PairsFrom(data, p, 1, Lesser(FastBytes, Len(data) - p), 0)

\* Read one position of the finder; a match as long as FastBytes is followed on.
ReadMatchDistances(e, data) ==
    LET p     == e.now + e.addl
        avail == Len(data) - p
        pairs == Pairs(data, p)
        last  == pairs[Len(pairs)]
    IN  [e EXCEPT !.addl = @ + 1, !.avail = avail, !.pairs = pairs,
                  !.longest = IF pairs = <<>> THEN 0
                              ELSE IF last.len # FastBytes THEN last.len
                              ELSE MatchLen(data, p, last.dist + 1, Lesser(avail, MatchMax))]

MovePos(e, n) == [e EXCEPT !.addl = @ + n]

Packet(e, back, len) == [e EXCEPT !.back = back, !.len = len]

-----------------------------------------------------------------------------
(***************************************************************************)
(* get_optimum_fast: a repeat or a match, and one position of look-ahead   *)
(* to put a match off by a literal.                                        *)
(***************************************************************************)
ChangePair(small, big) == big \div FullDistances > small

\* The length of the repeat of distance back at p, 0 unless it reaches two.
RepLen(data, p, back, limit) ==
    LET n == MatchLen(data, p, back, limit) IN IF n < 2 THEN 0 ELSE n

RECURSIVE Shorten(_, _, _)
Shorten(pairs, k, len) ==
    IF /\ k > 1
       /\ len = pairs[k - 1].len + 1
       /\ ChangePair(pairs[k - 1].dist, pairs[k].dist)
    THEN Shorten(pairs, k - 1, len - 1)
    ELSE IF len = 2 /\ pairs[k].dist >= FullDistances
         THEN [len |-> 1, dist |-> pairs[k].dist]
         ELSE [len |-> len, dist |-> pairs[k].dist]

GetOptimumFast(e0, data) ==
    LET e     == IF e0.addl = 0 THEN ReadMatchDistances(e0, data) ELSE e0
        p     == e.now + e.addl - 1
        limit == Lesser(e.avail, MatchMax)
        rep   == [i \in 1..NumReps |-> RepLen(data, p, e.reps[i], limit)]
        long  == {i \in 1..NumReps : rep[i] >= FastBytes}
        first == CHOOSE i \in long : \A j \in long : i <= j
        best  == CHOOSE i \in 1..NumReps : \A j \in 1..NumReps :
                     rep[j] < rep[i] \/ (rep[j] = rep[i] /\ i <= j)
        m     == IF e.longest >= 2 THEN Shorten(e.pairs, Len(e.pairs), e.longest)
                                   ELSE [len |-> e.longest, dist |-> 0]
        ahead == ReadMatchDistances(e, data)
        next  == [len |-> ahead.longest,
                  dist |-> IF ahead.longest >= 2 THEN ahead.pairs[Len(ahead.pairs)].dist ELSE 0]
        later == /\ next.len >= 2
                 /\ \/ next.len >= m.len /\ next.dist < m.dist
                    \/ next.len = m.len + 1 /\ ~ChangePair(m.dist, next.dist)
                    \/ next.len > m.len + 1
                    \/ next.len + 1 >= m.len /\ m.len >= 3 /\ ChangePair(next.dist, m.dist)
        repeat == \E i \in 1..NumReps :
                     LET n == m.len - 1
                     IN  /\ RepLen(data, p + 1, e.reps[i], 2) = 2
                         /\ n <= 2 \/ RepLen(data, p + 1, e.reps[i], n) >= n
    IN  IF e.avail < 2 THEN Packet(e, Lit, 1)
        ELSE IF long # {} THEN MovePos(Packet(e, first - 1, rep[first]), rep[first] - 1)
        ELSE IF e.longest >= FastBytes
             THEN MovePos(Packet(e, e.pairs[Len(e.pairs)].dist + NumReps, e.longest), e.longest - 1)
        ELSE IF /\ rep[best] >= 2
                /\ \/ rep[best] + 1 >= m.len
                   \/ rep[best] + 2 >= m.len /\ m.dist >= Far
                   \/ rep[best] + 3 >= m.len /\ m.dist >= VeryFar
             THEN MovePos(Packet(e, best - 1, rep[best]), rep[best] - 1)
        ELSE IF m.len < 2 \/ limit <= 2 THEN Packet(e, Lit, 1)
        ELSE IF later \/ repeat THEN Packet(ahead, Lit, 1)
        ELSE MovePos(Packet(ahead, m.dist + NumReps, m.len), m.len - 2)

-----------------------------------------------------------------------------
(***************************************************************************)
(* get_optimum: with nothing planned, a path of n bytes is planned; every  *)
(* packet of it then says what the input holds and ends inside the path.   *)
(* A path is no longer than the table, and one long match found at its end *)
(* follows it before the look-ahead is used up.                            *)
(***************************************************************************)
PlanLengths(e, data) == 1 .. Lesser(Len(data) - e.now, NumOpts + MatchMax)

Planned(e, n) == [e EXCEPT !.addl = n]

ShortRepFits(e, data) == At(data, e.now) = At(data, e.now - e.reps[1])

RepChoices(e, data) ==
    {[back |-> i - 1, len |-> n] :
        <<i, n>> \in {x \in (1..NumReps) \X (2..MatchMax) :
            x[2] <= RepLen(data, e.now, e.reps[x[1]], Lesser(e.addl, MatchMax))}}

\* The nearest distance the finder has for each length.
MatchChoices(e, data) ==
    LET pairs == Pairs(data, e.now)
        reach == [k \in 1..Len(pairs) |->
                    IF pairs[k].len < FastBytes THEN pairs[k].len
                    ELSE MatchLen(data, e.now, pairs[k].dist + 1,
                                  Lesser(Len(data) - e.now, MatchMax))]
    IN  {[back |-> pairs[k].dist + NumReps, len |-> n] :
            <<k, n>> \in {x \in (1..Len(pairs)) \X (2..Lesser(e.addl, MatchMax)) :
                x[2] <= reach[x[1]] /\ (x[1] = 1 \/ x[2] > reach[x[1] - 1])}}

GetOptimum(e, data) ==
    {[back |-> Lit, len |-> 1]}
    \cup (IF ShortRepFits(e, data) THEN {[back |-> 0, len |-> 1]} ELSE {})
    \cup RepChoices(e, data) \cup MatchChoices(e, data)

-----------------------------------------------------------------------------
(***************************************************************************)
(* The body of code_one_block's loop: one packet, written.                 *)
(***************************************************************************)
Advance(e) == [e EXCEPT !.now = @ + e.len, !.addl = @ - e.len]

CodeLiteral(e, data) ==
    LET ps   == PosMask(e.now)
        e1   == EncodeBit(e, <<"IsMatch", e.state, ps, 0>>, 0)
        sym  == At(data, e.now)
        at   == IF e.now = 0 THEN 0 ELSE LitTable(e.now, At(data, e.now - 1))
        next == [e1 EXCEPT !.state = LiteralNext(@)]
    IN  IF e.state < NumLitStates
        THEN LitEncode(next, at, sym)
        ELSE LitEncodeMatched(next, at, sym, At(data, e.now - e.reps[1]))

\* The repeated distance moves to the front of the four.
Fronted(reps, i) ==
    [j \in 1..NumReps |-> IF j = 1 THEN reps[i] ELSE IF j <= i THEN reps[j - 1] ELSE reps[j]]

CodeRep(e) ==
    LET ps == PosMask(e.now)
        s  == e.state
        e1 == EncodeBit(EncodeBit(e, <<"IsMatch", s, ps, 0>>, 1), <<"IsRep", s, 0, 0>>, 1)
        e2 == IF e.back = 0
              THEN EncodeBit(EncodeBit(e1, <<"IsRepG0", s, 0, 0>>, 0), <<"IsRep0Long", s, ps, 0>>,
                             IF e.len = 1 THEN 0 ELSE 1)
              ELSE LET g1 == EncodeBit(EncodeBit(e1, <<"IsRepG0", s, 0, 0>>, 1), <<"IsRepG1", s, 0, 0>>,
                                       IF e.back = 1 THEN 0 ELSE 1)
                   IN  IF e.back = 1 THEN g1
                       ELSE EncodeBit(g1, <<"IsRepG2", s, 0, 0>>, e.back - 2)
        e3 == [e2 EXCEPT !.reps = Fronted(@, e.back + 1)]
    IN  IF e.len = 1 THEN [e3 EXCEPT !.state = ShortRepNext(s)]
        ELSE [LenEncode(e3, "RepLen", e.len - MatchMin, ps) EXCEPT !.state = RepNext(s)]

\* get_pos_slot: twice the place of the top bit, plus the bit after it.
PosSlot(dist) ==
    IF dist < StartPosModel THEN dist
    ELSE LET n == CHOOSE n \in 1 .. 2^SlotBits : 2^n <= dist /\ dist < 2^(n + 1)
         IN  2 * n + ((dist \div 2^(n - 1)) % 2)

LenToPosState(len) == Lesser(len - MatchMin, LenToPosStates - 1)

RECURSIVE DirectBits(_, _, _)
DirectBits(e, dist, n) ==
    IF n = 0 THEN e
    ELSE DirectBits(EncodeDirectBit(e, (dist \div 2^(AlignBits + n - 1)) % 2), dist, n - 1)

CodeDistance(e, dist, len) ==
    LET slot   == PosSlot(dist)
        footer == slot \div 2 - 1
        base   == (2 + (slot % 2)) * 2^footer
        e1     == TreeEncode(e, <<"PosSlot", LenToPosState(len), 0>>, SlotBits, slot)
    IN  IF dist < StartPosModel THEN e1
        ELSE IF dist < FullDistances
        THEN ReverseEncode(e1, <<"Spec", base, 0>>, footer, dist)
        ELSE ReverseEncode(DirectBits(e1, dist, footer - AlignBits), <<"Align", 0, 0>>, AlignBits, dist)

CodeMatch(e) ==
    LET ps   == PosMask(e.now)
        s    == e.state
        dist == e.back - NumReps
        e1   == EncodeBit(EncodeBit(e, <<"IsMatch", s, ps, 0>>, 1), <<"IsRep", s, 0, 0>>, 0)
        e2   == LenEncode([e1 EXCEPT !.state = MatchNext(s)], "Len", e.len - MatchMin, ps)
    IN  CodeDistance([e2 EXCEPT !.reps = <<dist + 1>> \o SubSeq(@, 1, NumReps - 1)], dist, e.len)

CodePacket(e, data) ==
    Advance(CASE e.back = Lit       -> CodeLiteral(e, data)
              [] e.back \in 0..3    -> CodeRep(e)
              [] e.back >= NumReps  -> CodeMatch(e))

-----------------------------------------------------------------------------
\* write_end_marker: a match of the last distance, without moving on.
WriteEndMarker(e) ==
    LET ps == PosMask(e.now)
        e1 == EncodeBit(EncodeBit(e, <<"IsMatch", e.state, ps, 0>>, 1), <<"IsRep", e.state, 0, 0>>, 0)
        e2 == LenEncode([e1 EXCEPT !.state = MatchNext(@)], "Len", 0, ps)
        slot == 2^SlotBits - 1
        e3 == TreeEncode(e2, <<"PosSlot", 0, 0>>, SlotBits, slot)
        e4 == DirectBits(e3, LastDistance, slot \div 2 - 1 - AlignBits)
    IN  ReverseEncode(e4, <<"Align", 0, 0>>, AlignBits, 2^AlignBits - 1)

\* flush: the end marker when asked for, then the five bytes of the coder.
Flush(e, mark) ==
    FlushStream(FlushData(IF mark THEN WriteEndMarker([e EXCEPT !.finished = TRUE])
                                  ELSE [e EXCEPT !.finished = TRUE], 5))
=============================================================================
