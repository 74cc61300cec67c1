------------------------------- MODULE LzFind -------------------------------
(***************************************************************************)
(* The single-threaded match finder of enc/lz_find.rs: a window that slides *)
(* over the stream, a hash of the strings seen, a binary tree (bt2 to bt5) *)
(* or chains (hc4, hc5) of the history, and positions that wrap and are    *)
(* normalised.  The finder is a record mf with the fields of the struct    *)
(* MatchFinder; one action per call the encoder makes.                     *)
(***************************************************************************)
EXTENDS LzTree, FiniteSets, TLC

CONSTANTS Kinds,        \* MatchFinderKind: records [n |-> hash bytes, bt |-> tree or chain]
          HistorySize,  \* history_size
          MatchMaxLen,  \* match_max_len
          KeepAddBefore, KeepAddAfter,  \* the look-behind and look-ahead of the encoder
          Reserve,      \* what get_block_size adds to the kept bytes
          MoveAlign,    \* K_BLOCK_MOVE_ALIGN
          PosMod,       \* 2^32, the width of a position
          CutValue,     \* cut_value
          HcHeads,      \* HC_HEADS, the chain heads taken ahead
          DirectMax,    \* the longest input that is read in place
          Streams       \* the streams to try: sequences of bytes

ASSUME FinderAssumption ==
  /\ \A c \in {HistorySize, MatchMaxLen, MoveAlign, CutValue, HcHeads, Reserve, PosMod} : c \in Nat \ {0}
  /\ {KeepAddBefore, KeepAddAfter} \subseteq Nat
  /\ \A k \in Kinds : k.n \in 2 .. 5 /\ k.bt \in BOOLEAN /\ (k.bt \/ k.n > 3) /\ k.n <= MatchMaxLen
  /\ Reserve > MoveAlign
  /\ \A s \in Streams : s \in Seq({0, 1})
  /\ DirectMax \in 0 .. PosMod - 2
  /\ PosMod > HistorySize + KeepAddBefore + KeepAddAfter + MatchMaxLen + Reserve + 1

VARIABLES kind,   \* the finder in use
          data,   \* the stream's bytes
          fed,    \* bytes the stream has supplied
          mf,     \* the struct MatchFinder
          at,     \* the stream position of mf.buffer
          found   \* what the last get_matches returned, and where

vars == <<kind, data, fed, mf, at, found>>

\* K_MAX_VAL_FOR_NORMALIZE: positions are normalised when they wrap to it.
KMax == 0

StreamLen == Len(data)

Cyclic == HistorySize + 1

\* The lengths `plan` computes: what the window keeps on either side.
KeepBefore == HistorySize + KeepAddBefore + 1

KeepAfter(k) == MaxOf(KeepAddAfter + MatchMaxLen, k.n)

\* Mutation of BlockSize: a promised length is all the room there is.
BlockSizeTight(k, limit) == MinOf(KeepBefore + KeepAfter(k) + Reserve, limit)

\* `plan`: a promised stream length (PosMod: none) shortens the window, which then never moves.
BlockSize(k, limit) == MinOf(KeepBefore + KeepAfter(k) + Reserve, limit + KeepAfter(k) + 1)

Avail(f) == (f.streamPos - f.pos) % PosMod

(***************************************************************************)
(* The window.                                                             *)
(***************************************************************************)
\* The reads read_block may see: the first that leaves more than the look-ahead
\* available or no room, however much more it brings; the end of the stream; an error.
ReadOutcomes(f) ==
  LET room == f.blockSize - f.buffer - Avail(f)
      left == StreamLen - fed
      most == MinOf(room, left)
      Short(n) == Avail(f) + n <= KeepAfter(kind)
      Outcome(n, end, err) == [n |-> n, end |-> end, err |-> err]
  IN IF f.ended \/ f.err # "none" THEN {Outcome(0, FALSE, FALSE)}
     ELSE {Outcome(n, FALSE, FALSE) : n \in {m \in 0 .. most : m = room \/ (m > 0 /\ ~Short(m))}}
          \cup {Outcome(n, TRUE, FALSE) : n \in {m \in {left} : Short(m) /\ m < room}}
          \cup {Outcome(n, FALSE, TRUE) : n \in {m \in 0 .. most : Short(m) /\ m < room}}

\* read_block.
ReadBlock(f, o) ==
  [f EXCEPT !.buf = [i \in DOMAIN @ |-> LET k == i - f.buffer - Avail(f)
                                        IN IF k \in 0 .. o.n - 1 THEN data[fed + k + 1] ELSE @[i]],
            !.streamPos = (@ + o.n) % PosMod, !.ended = @ \/ o.end, !.err = IF o.err THEN "read" ELSE @]

\* need_move.
NeedMove(f) == ~f.ended /\ f.err = "none" /\ f.blockSize - f.buffer <= KeepAfter(kind)

\* Mutation of MoveBlock: the bytes are moved from the aligned offset to the unaligned one.
MoveUnaligned(f) ==
  [f EXCEPT !.buffer = KeepBefore,
            !.buf = [i \in DOMAIN @ |-> LET from == (f.buffer - KeepBefore) - ((f.buffer - KeepBefore) % MoveAlign)
                                        IN IF i < KeepBefore + Avail(f) THEN @[from + i] ELSE @[i]]]

\* move_block: the kept bytes go to the front of the window, aligned.
MoveBlock(f) ==
  IF f.buffer < KeepBefore THEN [f EXCEPT !.err = "internal"]
  ELSE LET offset == f.buffer - KeepBefore
           keep   == (offset % MoveAlign) + KeepBefore
           from   == offset - (offset % MoveAlign)
       IN [f EXCEPT !.buffer = keep,
                    !.buf = [i \in DOMAIN @ |-> IF i < keep + Avail(f) THEN @[from + i] ELSE @[i]]]

(***************************************************************************)
(* Positions.                                                              *)
(***************************************************************************)
\* set_limits: how far the finder may go before it looks around again, and the
\* longest match it may report until then.
SetLimits(f) ==
  LET toWrap == IF f.pos = KMax THEN PosMod - 1 ELSE (KMax - f.pos) % PosMod
      a == Avail(f)
      step == IF a > KeepAfter(kind) THEN a - KeepAfter(kind)
              ELSE IF a >= MatchMaxLen THEN a - MatchMaxLen + 1
              ELSE MinOf(a, 1)
  IN [f EXCEPT !.lenLimit = MinOf(MatchMaxLen, a),
               !.posLimit = (f.pos + Min({toWrap, Cyclic - f.cycPos, step})) % PosMod]

\* Mutation of Normalize: the oldest position of the history becomes "no position".
NormalizeTooFar(f) ==
  LET sub == (f.pos - HistorySize) % PosMod
  IN [f EXCEPT !.pos = (@ - sub) % PosMod, !.streamPos = (@ - sub) % PosMod,
               !.hash2 = Normalize3(sub, @), !.hash3 = Normalize3(sub, @),
               !.high = Normalize3(sub, @), !.son = Normalize3(sub, @)]

\* The normalisation in check_limits: positions are reduced so that the history
\* still lies above "no position".
Normalize(f) ==
  LET sub == (f.pos - HistorySize - 1) % PosMod
  IN [f EXCEPT !.pos = (@ - sub) % PosMod, !.streamPos = (@ - sub) % PosMod,
               !.hash2 = Normalize3(sub, @), !.hash3 = Normalize3(sub, @),
               !.high = Normalize3(sub, @), !.son = Normalize3(sub, @)]

\* The first half of check_limits: the window moves before it is filled.
BeforeRead(f) == IF Avail(f) = KeepAfter(kind) /\ NeedMove(f) THEN MoveBlock(f) ELSE f

\* The second half: normalise, wrap the cyclic slot, set the limits.
AfterRead(f) ==
  LET g == IF f.pos = KMax /\ Avail(f) >= kind.n THEN Normalize(f) ELSE f
  IN SetLimits([g EXCEPT !.cycPos = IF @ = Cyclic THEN 0 ELSE @])

\* move_pos: one position on; at the limit, check_limits, which reads only when
\* exactly the look-ahead is left.
Step1(f) == [f EXCEPT !.cycPos = @ + 1, !.buffer = @ + 1, !.pos = (@ + 1) % PosMod]

MovePos(f) ==
  LET g == Step1(f)
      h == BeforeRead(g)
  IN /\ at' = at + 1
     /\ \/ g.pos # g.posLimit /\ mf' = g /\ fed' = fed
        \/ g.pos = g.posLimit /\ Avail(g) # KeepAfter(kind) /\ mf' = AfterRead(g) /\ fed' = fed
        \/ g.pos = g.posLimit /\ Avail(g) = KeepAfter(kind)
           /\ \E o \in ReadOutcomes(h) : mf' = AfterRead(ReadBlock(h, o)) /\ fed' = fed + o.n

(***************************************************************************)
(* The hashes of the current position.                                     *)
(***************************************************************************)
\* One head more: that of the position i ahead, which enters the hash.
TakeAhead(x, f, i) ==
  LET hv == HashCalc(f.buf, f.buffer + i, kind.n)
  IN [heads |-> Append(x.heads, x.high[hv]), high |-> [x.high EXCEPT ![hv] = (f.pos + i) % PosMod]]

\* The chain heads of the coming positions, taken in one go (fill_heads).
FillHeads(f) ==
  LET n == MinOf((f.posLimit - f.pos) % PosMod, HcHeads)
      x[i \in 0 .. n] == IF i = 0 THEN [heads |-> <<>>, high |-> f.high] ELSE TakeAhead(x[i - 1], f, i - 1)
  IN [f EXCEPT !.heads = x[n].heads, !.high = x[n].high]

\* take_head: the head of the current position's chain, from the queue when
\* there is one, and the finder without it.
TakeHead(f, prefetch) ==
  LET hv == HashCalc(f.buf, f.buffer, kind.n)
      g  == IF f.heads = <<>> THEN FillHeads(f) ELSE f
  IN IF kind.bt \/ (~prefetch /\ f.heads = <<>>)
     THEN [head |-> f.high[hv], f |-> [f EXCEPT !.high[hv] = f.pos]]
     ELSE [head |-> Head(g.heads), f |-> [g EXCEPT !.heads = Tail(@)]]

\* The current position entered in the small hashes, which bt2 does not have.
EnterLow(f) ==
  IF kind.n = 2 THEN f
  ELSE [f EXCEPT !.hash2[H2(f.buf, f.buffer)] = f.pos,
                 !.hash3 = IF kind.n = 3 THEN @ ELSE [@ EXCEPT ![H3(f.buf, f.buffer)] = f.pos]]

\* Mutation of Near: a position one beyond the history is taken.
NearOrBeyond(f, d) == d <= MinOf(f.pos - 1, Cyclic) /\ f.buf[f.buffer - d] = f.buf[f.buffer]

\* set_mmm, and the test that a small hash's position is a match of its bytes.
Near(f, d) == d < MinOf(f.pos, Cyclic) /\ f.buf[f.buffer - d] = f.buf[f.buffer]

\* update_max_len.
UpdateMaxLen(f, d, maxLen) == MatchRun(f.buf, d, f.buffer + maxLen, f.buffer + f.lenLimit) - f.buffer

Low(recs, maxLen) == [recs |-> recs, maxLen |-> maxLen]

\* The 2-byte hash of bt3_get_matches.
Bt3Low(f) ==
  LET d2  == f.pos - f.hash2[H2(f.buf, f.buffer)]
      len == UpdateMaxLen(f, d2, 2)
  IN IF Near(f, d2) THEN Low(<< <<len, d2 - 1>> >>, len) ELSE Low(<<>>, 2)

\* The distance bt4, bt5, hc4 and hc5 go on with: the 2-byte hash's if its third
\* byte agrees, else the 3-byte hash's; 0 for neither.
PickLow(f, d2, d3) ==
  IF Near(f, d2) /\ f.buf[f.buffer - d2 + 2] = f.buf[f.buffer + 2] THEN d2
  ELSE IF Near(f, d3) THEN d3 ELSE 0

\* The record of two bytes that stays when the third did not agree.
TwoBytes(f, d2, pick) == IF Near(f, d2) /\ pick # d2 THEN << <<2, d2 - 1>> >> ELSE <<>>

\* The small hashes of bt4_get_matches and hc4_get_matches.
Bt4Low(f) ==
  LET d2   == f.pos - f.hash2[H2(f.buf, f.buffer)]
      d3   == f.pos - f.hash3[H3(f.buf, f.buffer)]
      pick == PickLow(f, d2, d3)
      len  == UpdateMaxLen(f, pick, 3)
  IN IF pick = 0 THEN Low(TwoBytes(f, d2, pick), 3)
     ELSE Low(Append(TwoBytes(f, d2, pick), <<len, pick - 1>>), len)

\* The small hashes of bt5_get_matches and hc5_get_matches: a match of three
\* bytes is recorded, but the big hash is still asked for five.
Bt5Low(f) ==
  LET d2   == f.pos - f.hash2[H2(f.buf, f.buffer)]
      d3   == f.pos - f.hash3[H3(f.buf, f.buffer)]
      pick == PickLow(f, d2, d3)
      len  == UpdateMaxLen(f, pick, 4)
      pre  == TwoBytes(f, d2, pick)
  IN IF pick = 0 THEN Low(pre, 4)
     ELSE IF f.buf[f.buffer - pick + 3] # f.buf[f.buffer + 3] THEN Low(Append(pre, <<3, pick - 1>>), 4)
     ELSE Low(Append(pre, <<len, pick - 1>>), len)

LowMatches(f) ==
  CASE kind.n = 2 -> Low(<<>>, 1)
    [] kind.n = 3 -> Bt3Low(f)
    [] kind.n = 4 -> Bt4Low(f)
    [] kind.n = 5 -> Bt5Low(f)

\* The big hash's part of get_matches: a full-length match only enters the
\* position, any other walks the tree or the chain.
HighMatches(f, low) ==
  LET t    == TakeHead(f, low.maxLen # f.lenLimit)
      g    == t.f
      full == low.maxLen = f.lenLimit
      walk == GetMatchesSpec1(g.buf, g.buffer, g.pos, g.cycPos, Cyclic, g.son, t.head,
                              g.lenLimit, low.maxLen, CutValue)
      link == [g.son EXCEPT ![g.cycPos] = t.head]
  IN IF kind.bt
     THEN [recs |-> walk.recs, f |-> [g EXCEPT !.son = walk.son]]
     ELSE [recs |-> IF full THEN <<>>
                    ELSE HcGetMatchesSpec(g.buf, g.buffer, g.pos, g.cycPos, Cyclic, link, t.head,
                                          g.lenLimit, low.maxLen, CutValue),
           f |-> [g EXCEPT !.son = link]]

(***************************************************************************)
(* The calls of the encoder.                                               *)
(***************************************************************************)
\* get_matches of every kind: near the end of the stream only the position
\* moves.
GetMatches ==
  /\ at < fed
  /\ kind' = kind /\ data' = data
  /\ \/ mf.lenLimit < kind.n /\ MovePos(mf) /\ found' = [at |-> at, recs |-> <<>>, lim |-> mf.lenLimit]
     \/ /\ mf.lenLimit >= kind.n
        /\ \E low \in {LowMatches(mf)} : \E high \in {HighMatches(EnterLow(mf), low)} :
              /\ MovePos(high.f)
              /\ found' = [at |-> at, recs |-> low.recs \o high.recs, lim |-> mf.lenLimit]

\* bt2_skip to bt5_skip: the tree is walked for its sake alone.
BtSkip(t) == [t.f EXCEPT !.son = SkipMatchesSpec(t.f.buf, t.f.buffer, t.f.pos, t.f.cycPos, Cyclic,
                                                 @, t.head, t.f.lenLimit, CutValue)]

\* hc_skip: the head only joins its chain.
HcSkip(t) == [t.f EXCEPT !.son = [@ EXCEPT ![t.f.cycPos] = t.head]]

\* One position of the skip family: the hashes and the tree learn the position.
Skip ==
  /\ at < fed
  /\ kind' = kind /\ data' = data
  /\ found' = [at |-> -1, recs |-> <<>>, lim |-> 0]
  /\ \/ mf.lenLimit < kind.n /\ MovePos(mf)
     \/ /\ mf.lenLimit >= kind.n
        /\ \E t \in {TakeHead(EnterLow(mf), FALSE)} : MovePos(IF kind.bt THEN BtSkip(t) ELSE HcSkip(t))

\* `create` and init_4: an empty window, no positions in the hashes.
Created(k, limit) ==
  [buf |-> [i \in 0 .. BlockSize(k, limit) - 1 |-> 0], blockSize |-> BlockSize(k, limit),
   buffer |-> 0, pos |-> 1, streamPos |-> 1, posLimit |-> 1, lenLimit |-> 0, cycPos |-> 1,
   ended |-> FALSE, err |-> "none",
   hash2 |-> [h \in [1 .. 1 -> {0, 1}] |-> Empty],
   hash3 |-> [h \in [1 .. 2 -> {0, 1}] |-> Empty],
   high |-> [h \in HashValues(k.n) |-> Empty],
   son |-> [i \in 0 .. (IF k.bt THEN 2 ELSE 1) * Cyclic - 1 |-> Empty],
   heads |-> <<>>, begun |-> FALSE]

\* `init`: the first read, and the limits of the first position.
Begin ==
  /\ ~mf.begun
  /\ \E o \in ReadOutcomes(mf) :
        /\ mf' = SetLimits([ReadBlock(mf, o) EXCEPT !.begun = TRUE])
        /\ fed' = o.n
  /\ UNCHANGED <<kind, data, at, found>>

\* `init` with direct_input: the whole input is the window and nothing is read.
BeginDirect ==
  /\ ~mf.begun /\ StreamLen <= DirectMax
  /\ mf' = SetLimits([mf EXCEPT !.begun = TRUE, !.buf = [i \in 0 .. StreamLen - 1 |-> data[i + 1]], !.blockSize = StreamLen,
                                !.streamPos = @ + StreamLen, !.ended = TRUE])
  /\ fed' = StreamLen
  /\ UNCHANGED <<kind, data, at, found>>

\* The encoder has consumed the stream, or gives up on its error.
Finished == mf.begun /\ at = fed /\ (mf.ended \/ mf.err # "none")

Init ==
  /\ kind \in Kinds
  /\ data \in Streams
  /\ mf \in {Created(kind, Len(data)), Created(kind, PosMod)}
  /\ fed = 0 /\ at = 0
  /\ found = [at |-> -1, recs |-> <<>>, lim |-> 0]

Next == Begin \/ BeginDirect \/ (mf.begun /\ (GetMatches \/ Skip)) \/ (Finished /\ UNCHANGED vars)

Spec == Init /\ [][Next]_vars

(***************************************************************************)
(* Properties.                                                             *)
(***************************************************************************)
\* The window around `buffer` holds the stream around the current position: all
\* that was read ahead of it, and the history behind it, whatever was moved,
\* normalised or read in pieces (enc/lz_find.rs move_block, read_block).
WindowHoldsHistory ==
  /\ Avail(mf) = fed - at
  /\ \A k \in - MinOf(at, HistorySize) .. fed - at - 1 :
       mf.buffer + k \in DOMAIN mf.buf /\ mf.buf[mf.buffer + k] = data[at + k + 1]

Agree(i, d) == Min({k \in 0 .. fed - i - 1 : data[i + k + 1] # data[i + k - d + 1]} \cup {fed - i})

\* Every match get_matches reports is one: its distance lies in the history, its
\* bytes agree, lengths grow from record to record and do not pass the limit.
MatchesAreTrue ==
  \A j \in 1 .. Len(found.recs) :
     LET len == found.recs[j][1]
         d   == found.recs[j][2] + 1
     IN /\ d \in 1 .. MinOf(found.at, HistorySize)
        /\ Agree(found.at, d) >= len /\ len \in 2 .. found.lim
        /\ j > 1 => found.recs[j - 1][1] < len /\ found.recs[j - 1][2] < found.recs[j][2]

\* No match is lost: with a cut value that reaches the whole history, the last
\* record is as long as the longest match the history has, whenever that is long
\* enough to be hashed, across window moves and position wraps.
LongestIsFound ==
  CutValue >= Cyclic /\ found.at >= 0 /\ found.lim >= kind.n =>
    LET best == Max({0} \cup {MinOf(Agree(found.at, d), found.lim) : d \in 1 .. MinOf(found.at, HistorySize)})
    IN best >= kind.n => found.recs # <<>> /\ Last(found.recs)[1] = best

\* The window is never too small: whether it was cut to a promised length or has
\* the full size, it always has room for the read that goes on or reports the end,
\* and move_block never meets its internal error (enc/lz_find.rs plan, move_block).
WindowSuffices ==
  /\ mf.err # "internal"
  /\ mf.begun /\ ~mf.ended /\ mf.err = "none" => at < fed
=============================================================================
