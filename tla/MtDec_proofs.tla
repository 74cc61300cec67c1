---------------------------- MODULE MtDec_proofs ----------------------------
(***************************************************************************)
(* The proof that RingInv is an invariant of the ring of MtDec, for every  *)
(* number of threads and every stream.  The steps of the ring are first    *)
(* summarised (BeginTurn, ReadTurn, PassTurn, CodeTurn, WriteTurn): which  *)
(* fields of a block, of the read state and of the tokens they may change. *)
(* The preservation lemmas then argue from these summaries alone.          *)
(***************************************************************************)
EXTENDS MtDec, Lzma2Stream_proofs, SequenceTheorems

\* A sequence that stays as it is or grows by one element keeps its type.
LEMMA AppendOrSame ==
    ASSUME NEW S, NEW s \in Seq(S), NEW e \in S, NEW r, r = s \/ r = Append(s, e)
    PROVE  r \in Seq(S)
  BY AppendProperties

\* The outcomes of a parse.
ParseOutcome == [state : ParseState, status : ParseStatus, pos : Nat, failed : BOOLEAN]

\* The fields of an outcome of the parse.
LEMMA OutcomeType ==
    ASSUME NEW st \in ParseState, NEW su \in ParseStatus, NEW ps \in Nat, NEW fl \in BOOLEAN
    PROVE /\ Outcome(st, su, ps, fl) \in ParseOutcome
          /\ Outcome(st, su, ps, fl).state = st
          /\ Outcome(st, su, ps, fl).status = su
          /\ Outcome(st, su, ps, fl).pos = ps
  BY DEF Outcome, ParseOutcome

\* Lzma2Coder::parse never consumes less than nothing or more than it was
\* given; it consumes all when it wants more, and a block that ends before a
\* new one has the status of a finished block.
LEMMA ParseFacts ==
    ASSUME NEW s \in Seq(Unit), NEW b \in Nat, NEW lo \in Nat, NEW hi \in Nat,
           lo <= hi, NEW o \in Parse(s, b, lo, hi)
    PROVE  /\ o \in ParseOutcome
           /\ lo <= o.pos /\ o.pos <= hi
           /\ o.state = "continue" => o.pos = hi
           /\ o.state = "new" => o.status = "new"
<1>1. PICK n \in lo+1 .. hi+1, p \in lo+1 .. hi+1 :
            p <= n /\ o = ParseAt(s, b, hi, n, p)
  BY DEF Parse
<1>2. n \in Nat /\ p \in Nat /\ p - 1 \in Nat /\ n - 1 \in Nat
      /\ lo <= p - 1 /\ lo <= n - 1 /\ p - 1 <= hi /\ lo <= n  BY <1>1
<1>3. PICK f \in BOOLEAN : f <=> (n <= hi /\ Illegal(s, b, n))  OBVIOUS
<1>4. \/ o = Outcome("new", "new", p - 1, f)
      \/ n > hi /\ o = Outcome("continue", "more", hi, FALSE)
      \/ n <= hi /\ o = Outcome("overflow", "notfin", n, f)
      \/ n <= hi /\ o = Outcome("end", "notspec", n, TRUE)
      \/ n <= hi /\ o = Outcome("end", "mark", n, FALSE)
      \/ n <= hi /\ o = Outcome("new", "new", n - 1, FALSE)
  BY <1>1, <1>2, <1>3 DEF ParseAt, Outcome
<1>5. /\ "new" \in ParseState /\ "continue" \in ParseState /\ "overflow" \in ParseState
      /\ "end" \in ParseState /\ "new" \in ParseStatus /\ "more" \in ParseStatus
      /\ "notfin" \in ParseStatus /\ "notspec" \in ParseStatus /\ "mark" \in ParseStatus
  BY DEF ParseState, ParseStatus
<1>6. CASE o = Outcome("new", "new", p - 1, f)
  BY <1>6, <1>2, <1>5, OutcomeType
<1>7. CASE n <= hi /\ o = Outcome("overflow", "notfin", n, f)
  BY <1>7, <1>2, <1>5, OutcomeType
<1>8. CASE n <= hi /\ o = Outcome("end", "notspec", n, TRUE)
  BY <1>8, <1>2, <1>5 DEF Outcome, ParseOutcome
<1>9. CASE n > hi /\ o = Outcome("continue", "more", hi, FALSE)
  BY <1>9, <1>2, <1>5 DEF Outcome, ParseOutcome
<1>10. CASE n <= hi /\ o = Outcome("end", "mark", n, FALSE)
  BY <1>10, <1>2, <1>5 DEF Outcome, ParseOutcome
<1>11. CASE n <= hi /\ o = Outcome("new", "new", n - 1, FALSE)
  BY <1>11, <1>2, <1>5 DEF Outcome, ParseOutcome
<1>12. QED  BY <1>4, <1>6, <1>7, <1>8, <1>9, <1>10, <1>11

-----------------------------------------------------------------------------
\* The types of the fields of the read state.
LEMMA RdFields ==
    ASSUME NEW r \in ReadState
    PROVE  /\ r.pos \in Nat /\ r.crossLo \in Nat /\ r.crossHi \in Nat
           /\ r.crossBuf \in BOOLEAN /\ r.finished \in BOOLEAN /\ r.err \in BOOLEAN
           /\ r.block \in Nat /\ r.outParse \in Nat
           /\ r.started \in 1 .. NumThreads /\ r.limit \in 1 .. NumThreads
  BY DEF ReadState

\* The types of the fields of a block.
LEMMA BlkFields ==
    ASSUME NEW b \in Block
    PROVE  /\ b.num \in Nat /\ b.lo \in Nat /\ b.mid \in Nat /\ b.hi \in Nat
           /\ b.link \in Nat /\ b.parsed \in Nat /\ b.coded \in Nat
           /\ b.finish \in BOOLEAN /\ b.intr \in BOOLEAN 
           /\ b.next \in Threads /\ b.codeRes \in CodeError \cup {None}
  BY DEF Block

\* The types of the variables the lemmas below use most.
LEMMA Types ==
    ASSUME RingTypeOK
    PROVE  /\ rd \in ReadState
           /\ \A t \in Threads : blk[t] \in Block
           /\ stream \in Seq(Unit) /\ Len(stream) \in Nat
  BY DEF RingTypeOK

\* What a turn of the read loop gets lies within the stream and continues the
\* block, or starts it at the frontier.
LEMMA FetchedFacts ==
    ASSUME RingTypeOK, ReadInv, NEW t \in Threads, pc[t] = "read",
           NEW f \in Fetched(t)
    PROVE  /\ f.lo \in Nat /\ f.hi \in Nat /\ f.lo <= f.hi
           /\ f.finish \in BOOLEAN
           /\ f.fault \subseteq FaultKind
           /\ f.hi <= Len(stream)
           /\ f.lo = IF blk[t].link = 0 THEN Frontier ELSE blk[t].hi
<1>0. /\ rd.pos \in Nat /\ rd.crossLo \in Nat /\ rd.crossHi \in Nat
      /\ blk[t].link \in Nat /\ blk[t].hi \in Nat /\ blk[t].finish \in BOOLEAN
      /\ Len(stream) \in Nat
  BY Types, RdFields, BlkFields
<1>1. /\ rd.pos <= Len(stream)
      /\ rd.crossLo < rd.crossHi => rd.crossHi = rd.pos
      /\ blk[t].link > 0 => rd.crossLo >= rd.crossHi /\ blk[t].hi = rd.pos
  BY DEF ReadInv
<1>2. CASE FromCross(t)
  BY <1>0, <1>1, <1>2 DEF FromCross, Frontier, Fetched
<1>3. CASE ~FromCross(t)
  <2> DEFINE avail == Min2(InBufSize, Len(stream) - rd.pos)
  <2>1. avail \in Nat /\ rd.pos + avail <= Len(stream)
    BY <1>0, <1>1, InBufSizeAssumption DEF Min2
  <2>2. PICK n \in 0 .. avail :
          /\ f.lo = rd.pos /\ f.hi = rd.pos + n 
          /\ f.finish \in BOOLEAN
          /\ f.fault \in {{"read"}, {}}
    <3>1. CASE f = [lo |-> rd.pos, hi |-> rd.pos + avail,
                    finish |-> avail # InBufSize, fault |-> {}]
      BY <2>1, <3>1
    <3>2. CASE \E n \in 0 .. avail : f = [lo |-> rd.pos, hi |-> rd.pos + n,
                    finish |-> TRUE, fault |-> {"read"}]
      BY <3>2
    <3>3. QED  BY <1>3, <3>1, <3>2 DEF Fetched
  <2>3. /\ rd.pos + n \in Nat /\ rd.pos <= rd.pos + n
        /\ rd.pos + n <= Len(stream)
    BY <1>0, <2>1
  <2>4. rd.pos = IF blk[t].link = 0 THEN Frontier ELSE blk[t].hi
    BY <1>0, <1>1, <1>3 DEF FromCross, Frontier
  <2>5. QED  BY <1>0, <2>2, <2>3, <2>4 DEF FaultKind
<1>4. QED  BY <1>2, <1>3

\* A read moves the position to the end of what was fetched and nothing else
\* of the ring's state.
LEMMA AfterReadFacts ==
    ASSUME RingTypeOK, ReadInv, NEW t \in Threads, pc[t] = "read",
           NEW f \in Fetched(t)
    PROVE  LET r == AfterRead(t, f)
           IN  /\ r \in ReadState
               /\ r.pos = f.hi
               /\ r.crossLo = rd.crossLo /\ r.crossHi = rd.crossHi
               /\ r.block = rd.block /\ r.started = rd.started /\ r.limit = rd.limit
<1>0. rd \in ReadState  BY Types
<1>1. CASE FromCross(t)
  BY <1>0, <1>1 DEF AfterRead, Fetched, FromCross, ReadInv
<1>2. CASE ~FromCross(t)
  <2>1. f.hi \in Nat /\ f.finish \in BOOLEAN  BY FetchedFacts
  <2>2. QED  BY <1>0, <1>2, <2>1 DEF AfterRead, ReadState
<1>3. QED  BY <1>1, <1>2
-----------------------------------------------------------------------------
\* Where the next block starts in the read state r.
FrontierOf(r) == IF r.crossLo < r.crossHi THEN r.crossLo ELSE r.pos

\* BlockEnds for a block and a read state given as values.
EndsAt(b, r) ==
    /\ ~b.finish /\ ~b.intr =>
         /\ b.link > 0 /\ b.needWrite
         /\ b.state = "new" /\ b.status = "new" /\ b.parsed = b.hi
    /\ b.finish /\ ~b.intr /\ ~Unusable(b) /\ b.codeRes = None /\ b.needWrite
         /\ b.state \notin {"end", "overflow"} => b.needCode /\ b.hi = FrontierOf(r)

\* A turn of the read loop may leave thread t at w with the block b and the
\* read state r.
GoodTurn(t, w, b, r) ==
    /\ w \in {"read", "pass"}
    /\ b \in Block /\ r \in ReadState
    /\ b.num = blk[t].num
    /\ r.block = rd.block /\ r.started = rd.started /\ r.limit = rd.limit
    /\ r.pos <= Len(stream)
    /\ r.crossLo < r.crossHi => r.crossHi = r.pos
    /\ b.lo <= b.hi
    /\ ~b.intr
    /\ b.needWrite => b.link > 0
    /\ IF b.link > 0 THEN b.lo = Start(t) ELSE r = rd /\ blk[t].link = 0
    /\ w = "read" => /\ ~b.needCode /\ ~b.allocErr
                     /\ ~b.overflow /\ ~b.threadErr /\ b.codeRes = None
                     /\ b.link > 0 => /\ r.crossLo >= r.crossHi
                                      /\ b.hi = r.pos
                                      /\ b.state = "continue"
    /\ w = "pass" => /\ EndsAt(b, r)
                     /\ ~b.finish /\ ~b.intr => b.hi = FrontierOf(r)

\* What ReadInv and the types say of a block being read.
Fresh(b) == /\ b \in Block
            /\ ~b.intr /\ ~b.needCode /\ ~b.allocErr
            /\ ~b.overflow /\ ~b.threadErr /\ b.codeRes = None

\* A block that fetched input is still undamaged, starts where it started and
\* ends at the end of the input.
LEMMA GrownFacts ==
    ASSUME RingTypeOK, ReadInv, NEW t \in Threads, pc[t] = "read",
           NEW f \in Fetched(t)
    PROVE  LET g == Grown(blk[t], f)
           IN  /\ Fresh(g)
               /\ g.num = blk[t].num
               /\ g.lo = Start(t)
               /\ g.hi = f.hi
               /\ g.link > 0
               /\ g.finish = f.finish
               /\ g.lo <= f.lo
<1>1. /\ Fresh(blk[t])
      /\ blk[t].lo <= blk[t].hi
  BY Types DEF ReadInv, Fresh, Busy, Reading
<1>2. /\ f.lo \in Nat /\ f.hi \in Nat /\ f.lo <= f.hi /\ f.finish \in BOOLEAN
      /\ f.lo = IF blk[t].link = 0 THEN Frontier ELSE blk[t].hi
  BY FetchedFacts
<1>3. blk[t].link \in Nat /\ blk[t].link + 1 \in Nat /\ blk[t].lo \in Nat
      /\ blk[t].mid \in Nat /\ blk[t].hi \in Nat
  BY Types, BlkFields
<1>4. Fresh(Grown(blk[t], f))
  <2> DEFINE b == blk[t]
             lo == IF b.link = 0 THEN f.lo ELSE b.lo
             mid == IF b.link = 0 THEN f.hi ELSE b.mid
             link == b.link + 1
             hi == f.hi
             finish == f.finish
  <2>1. b \in Block /\ lo \in Nat /\ mid \in Nat /\ link \in Nat
    BY <1>1, <1>2, <1>3 DEF Fresh
  <2>2. Grown(b, f) = [b EXCEPT !.hi = hi, !.finish = finish, !.link = link,
                                !.lo = lo, !.mid = mid]
    BY <2>1 DEF Grown, Block
  <2>3. /\ Grown(b, f).intr = b.intr /\ Grown(b, f).needCode = b.needCode
        /\ Grown(b, f).allocErr = b.allocErr /\ Grown(b, f).overflow = b.overflow
        /\ Grown(b, f).threadErr = b.threadErr /\ Grown(b, f).codeRes = b.codeRes
    BY <2>1, <2>2 DEF Block
  <2> HIDE DEF b, lo, mid, link, hi, finish
  <2>4. Grown(b, f) \in Block
    <3> DEFINE h == [b EXCEPT !.lo = lo, !.mid = mid]
               k == [h EXCEPT !.hi = hi, !.finish = finish]
    <3>1. h \in Block
      BY <2>1 DEF Block
    <3>2. hi \in Nat /\ finish \in BOOLEAN
      BY <1>2 DEF hi, finish
    <3>3. Grown(b, f) = [k EXCEPT !.link = link]
      BY <2>1, <2>2 DEF Block
    <3> HIDE DEF h
    <3>4. k \in Block
      BY <3>1, <3>2 DEF Block
    <3> HIDE DEF k
    <3> QED
      BY <2>1, <3>3, <3>4 DEF Block
  <2> QED
    BY <1>1, <2>3, <2>4 DEF Fresh, b
<1>5. /\ Grown(blk[t], f).num = blk[t].num
      /\ Grown(blk[t], f).lo = IF blk[t].link = 0 THEN f.lo ELSE blk[t].lo
      /\ Grown(blk[t], f).hi = f.hi
      /\ Grown(blk[t], f).link = blk[t].link + 1
      /\ Grown(blk[t], f).finish = f.finish
  BY <1>1, <1>2, <1>3 DEF Grown, Fresh, Block
<1>6. QED  BY <1>1, <1>2, <1>3, <1>4, <1>5 DEF Start

\* parse leaves the block's input alone and records its outcome.
LEMMA ParsedFacts ==
    ASSUME NEW g, Fresh(g), NEW r \in ReadState, NEW o \in ParseOutcome, g.link > 0
    PROVE  LET b == Parsed(g, r, o)
           IN  /\ Fresh(b)
               /\ b.num = g.num /\ b.lo = g.lo /\ b.hi = g.hi /\ b.link = g.link
               /\ b.finish = g.finish
               /\ b.state = o.state /\ b.status = o.status /\ b.needWrite = TRUE
               /\ o.state # "overflow" => b.parsed = o.pos
  BY ZenonT(40) DEF Parsed, Fresh, Block, ReadState, ParseOutcome

\* Accounting for parsed output changes only the output offset.
LEMMA AccountedFacts ==
    ASSUME NEW r \in ReadState, NEW b, b.lo \in Nat, NEW o \in ParseOutcome
    PROVE  LET q == Accounted(r, b, o)
           IN  /\ q \in ReadState
               /\ q.pos = r.pos /\ q.crossLo = r.crossLo /\ q.crossHi = r.crossHi
               /\ q.block = r.block /\ q.started = r.started /\ q.limit = r.limit
<1>1. o.pos \in Nat  BY DEF ParseOutcome
<1>2. Produced(stream, b.lo, o.pos) \in Nat  BY <1>1, ProducedNat
<1>3. QED  BY <1>2 DEF Accounted, ReadState

\* As long as there is a cross block, a turn of the read loop starts from it.
LEMMA CrossFetched ==
    ASSUME RingTypeOK, ReadInv, NEW t \in Threads, pc[t] = "read",
           NEW f \in Fetched(t), rd.crossLo < rd.crossHi
    PROVE  FromCross(t) /\ rd.crossHi = f.hi
<1>1. blk[t].link \in Nat /\ rd.crossLo \in Nat /\ rd.crossHi \in Nat
  BY Types, BlkFields, RdFields
<1>2. blk[t].link > 0 => rd.crossLo >= rd.crossHi  BY DEF ReadInv
<1>3. FromCross(t)  BY <1>1, <1>2 DEF FromCross
<1>4. QED  BY <1>3 DEF Fetched

\* Every branch after the parse leaves a good block and read state behind.
LEMMA ParseTurn ==
    ASSUME RingTypeOK, ReadInv, NEW t \in Threads, pc[t] = "read",
           NEW f \in Fetched(t),
           NEW o \in Parse(stream, Grown(blk[t], f).lo, f.lo, f.hi),
           ParseStep(t, f, o)
    PROVE  \E w, b, r : /\ GoodTurn(t, w, b, r)
                        /\ blk' = [blk EXCEPT ![t] = b] /\ rd' = r
                        /\ pc' = [pc EXCEPT ![t] = w]
                        /\ faulted' \subseteq FaultKind
<1> DEFINE g == Grown(blk[t], f)
           b == Parsed(g, rd, o)
           a == AfterRead(t, f)
           r == Accounted(a, b, o)
           left == [r EXCEPT !.crossLo = IF FromCross(t) THEN o.pos ELSE @]
           coded == [b EXCEPT !.needCode = TRUE, !.finish = @ \/ o.state = "end"]
<1>1. /\ Fresh(g) /\ g.num = blk[t].num /\ g.lo = Start(t) /\ g.hi = f.hi
      /\ g.link > 0 /\ g.finish = f.finish /\ g.lo <= f.lo /\ g.lo \in Nat
  BY GrownFacts, BlkFields DEF Fresh
<1>2. /\ f.lo \in Nat /\ f.hi \in Nat /\ f.lo <= f.hi /\ f.finish \in BOOLEAN
      /\ f.fault \subseteq FaultKind /\ f.hi <= Len(stream)
  BY FetchedFacts
<1>3. /\ o \in ParseOutcome /\ f.lo <= o.pos /\ o.pos <= f.hi /\ o.pos \in Nat
      /\ o.state = "continue" => o.pos = f.hi
      /\ o.state = "new" => o.status = "new"
  BY <1>1, <1>2, ParseFacts, Types DEF ParseOutcome
<1>4. /\ Fresh(b) /\ b \in Block /\ b.num = blk[t].num /\ b.lo = Start(t) /\ b.hi = f.hi
      /\ b.link > 0 /\ b.finish = f.finish /\ b.lo \in Nat /\ b.lo <= b.hi
      /\ b.state = o.state /\ b.status = o.status /\ b.needWrite
      /\ o.state # "overflow" => b.parsed = o.pos
  <2>1. rd \in ReadState  BY Types
  <2>2. /\ Fresh(b)
        /\ b.num = g.num /\ b.lo = g.lo /\ b.hi = g.hi /\ b.link = g.link
        /\ b.finish = g.finish
        /\ b.state = o.state /\ b.status = o.status /\ b.needWrite = TRUE
        /\ o.state # "overflow" => b.parsed = o.pos
    BY ZenonT(40), <1>1, <1>3, <2>1, ParsedFacts
  <2> HIDE DEF b, g
  <2>3. b \in Block  BY <2>2 DEF Fresh
  <2>4. QED  BY <1>1, <1>2, <2>2, <2>3
<1>5. /\ r \in ReadState /\ r.pos = f.hi
      /\ r.crossLo = rd.crossLo /\ r.crossHi = rd.crossHi
      /\ r.block = rd.block /\ r.started = rd.started /\ r.limit = rd.limit
  BY <1>3, <1>4, AfterReadFacts, AccountedFacts
<1>6. rd.crossLo < rd.crossHi => FromCross(t) /\ rd.crossHi = f.hi
  BY CrossFetched
<1>7. faulted \subseteq FaultKind  BY DEF RingTypeOK
<1>8. b.lo <= o.pos  BY <1>1, <1>2, <1>3, <1>4
<1> HIDE DEF g, b, a, r
<1>9. NoCross(r) \in ReadState /\ NoCross(r).pos = f.hi
      /\ NoCross(r).crossLo = 0 /\ NoCross(r).crossHi = 0
      /\ NoCross(r).block = rd.block /\ NoCross(r).started = rd.started
      /\ NoCross(r).limit = rd.limit
  BY <1>5 DEF NoCross, ReadState
<1>10. /\ coded \in Block /\ coded.num = b.num /\ coded.lo = b.lo /\ coded.hi = b.hi
       /\ coded.link = b.link /\ coded.state = b.state /\ coded.status = b.status
       /\ coded.needWrite /\ coded.needCode /\ coded.parsed = b.parsed
       /\ ~coded.intr /\ ~coded.allocErr /\ ~coded.overflow /\ ~coded.threadErr
       /\ coded.codeRes = None
       /\ coded.finish = (b.finish \/ o.state = "end")
  BY <1>4 DEF Fresh, Block
<1> HIDE DEF coded
<1>11. CASE /\ o.state = "overflow"
            /\ Settle(t, "pass", [b EXCEPT !.finish = TRUE, !.overflow = TRUE],
                      NoCross(r), f.fault)
  <2> DEFINE c == [b EXCEPT !.finish = TRUE, !.overflow = TRUE]
  <2>1. c \in Block /\ c.num = b.num /\ c.lo = b.lo /\ c.hi = b.hi /\ c.link = b.link
        /\ c.finish /\ c.overflow /\ ~c.intr
    BY <1>4 DEF Block, Fresh
  <2> HIDE DEF c
  <2>2. GoodTurn(t, "pass", c, NoCross(r))
    BY <1>2, <1>4, <1>9, <2>1 DEF GoodTurn, EndsAt, Unusable
  <2>3. QED  BY <1>2, <1>7, <1>11, <2>2 DEF Settle, c
<1>12. CASE /\ o.state = "continue" /\ ~b.finish
            /\ Settle(t, "read", b, NoCross(r), f.fault)
  <2>1. GoodTurn(t, "read", b, NoCross(r))
    BY <1>2, <1>4, <1>9, <1>12 DEF GoodTurn, Fresh
  <2>2. QED  BY <1>2, <1>7, <1>12, <2>1 DEF Settle
<1>13. CASE /\ o.state # "overflow"
            /\ o.state # "continue" \/ b.finish
            /\ o.pos = f.hi
            /\ Settle(t, "pass", coded, NoCross(r), f.fault)
  <2>1. GoodTurn(t, "pass", coded, NoCross(r))
    <3>1. FrontierOf(NoCross(r)) = f.hi  BY <1>9 DEF FrontierOf
    <3>2. ~coded.finish => o.state = "new"
      BY <1>3, <1>10, <1>13 DEF ParseOutcome, ParseState
    <3>3. QED  BY <1>2, <1>3, <1>4, <1>9, <1>10, <1>13, <3>1, <3>2 DEF GoodTurn, EndsAt
  <2>2. QED  BY <1>2, <1>7, <1>13, <2>1 DEF Settle
<1>14. CASE /\ o.state = "end" /\ o.pos < f.hi
            /\ Settle(t, "pass", CutAt(coded, o.pos), left, f.fault)
  <2> DEFINE c == CutAt(coded, o.pos)
  <2>1. c \in Block /\ c.num = b.num /\ c.lo = b.lo /\ c.hi = o.pos /\ c.link = b.link
        /\ c.finish /\ c.state = "end" /\ ~c.intr
    BY ZenonT(40), <1>3, <1>4, <1>10, <1>14 DEF Block, CutAt
  <2>2. left \in ReadState /\ left.pos = f.hi
        /\ left.crossHi = rd.crossHi
        /\ left.block = rd.block /\ left.started = rd.started /\ left.limit = rd.limit
        /\ left.crossLo = IF FromCross(t) THEN o.pos ELSE rd.crossLo
    BY <1>3, <1>5 DEF ReadState
  <2>3. left.crossLo < left.crossHi => left.crossHi = left.pos
    BY <1>6, <2>2 DEF FromCross
  <2> HIDE DEF c, left
  <2>4. GoodTurn(t, "pass", c, left)
    BY <1>2, <1>4, <1>8, <2>1, <2>2, <2>3 DEF GoodTurn, EndsAt
  <2>5. QED  BY <1>2, <1>7, <1>14, <2>4 DEF Settle, c, left
<1>15. CASE /\ o.state = "new" /\ o.pos < f.hi
            /\ Settle(t, "pass", [CutAt(coded, o.pos) EXCEPT !.finish = FALSE],
                      IF FromCross(t) THEN left
                      ELSE [r EXCEPT !.crossLo = o.pos, !.crossHi = f.hi,
                                     !.crossBuf = TRUE],
                      f.fault)
  <2> DEFINE c == [CutAt(coded, o.pos) EXCEPT !.finish = FALSE]
             q == IF FromCross(t) THEN left
                  ELSE [r EXCEPT !.crossLo = o.pos, !.crossHi = f.hi, !.crossBuf = TRUE]
  <2>1. c \in Block /\ c.num = b.num /\ c.lo = b.lo /\ c.hi = o.pos /\ c.link = b.link
        /\ ~c.finish /\ c.state = "new" /\ c.status = "new" /\ c.parsed = o.pos
        /\ c.needWrite /\ ~c.intr
    <3> DEFINE d == CutAt(coded, o.pos)
    <3>1. d \in Block /\ d.num = b.num /\ d.lo = b.lo /\ d.hi = o.pos
          /\ d.link = b.link /\ d.state = "new" /\ d.status = "new"
          /\ d.parsed = o.pos /\ d.needWrite /\ ~d.intr
      BY ZenonT(40), <1>3, <1>4, <1>10, <1>15 DEF Block, CutAt
    <3> HIDE DEF d
    <3>2. QED  BY <3>1 DEF Block, d
  <2>2. q \in ReadState /\ q.pos = f.hi /\ q.crossHi = f.hi /\ q.crossLo = o.pos
        /\ q.block = rd.block /\ q.started = rd.started /\ q.limit = rd.limit
    BY <1>2, <1>3, <1>5, <1>6 DEF ReadState, FromCross
  <2> HIDE DEF c, q
  <2>3. GoodTurn(t, "pass", c, q)
    BY <1>2, <1>3, <1>4, <1>8, <1>15, <2>1, <2>2 DEF GoodTurn, EndsAt, FrontierOf
  <2>4. QED  BY <1>2, <1>7, <1>15, <2>3 DEF Settle, c, q
<1>16. CASE /\ o.state = "new" /\ o.pos < f.hi
            /\ ~FromCross(t) /\ ~rd.crossBuf /\ MayFault("cross")
            /\ Settle(t, "pass", [coded EXCEPT !.finish = TRUE, !.allocErr = TRUE],
                      r, f.fault \cup {"cross"})
  <2> DEFINE c == [coded EXCEPT !.finish = TRUE, !.allocErr = TRUE]
  <2>1. c \in Block /\ c.num = b.num /\ c.lo = b.lo /\ c.hi = b.hi /\ c.link = b.link
        /\ c.finish /\ c.allocErr /\ ~c.intr
    BY <1>10 DEF Block
  <2> HIDE DEF c
  <2>2. GoodTurn(t, "pass", c, r)
    BY <1>2, <1>4, <1>5, <1>6, <1>16, <2>1 DEF GoodTurn, EndsAt, Unusable
  <2>3. QED  BY <1>2, <1>7, <1>16, <2>2 DEF Settle, c, FaultKind
<1>17. QED
  BY <1>11, <1>12, <1>13, <1>14, <1>15, <1>16 DEF ParseStep, g, b, a, r, coded

\* Every turn of the read loop leaves a good block and read state behind.
LEMMA ReadTurn ==
    ASSUME RingTypeOK, ReadInv, NEW t \in Threads, ReadLink(t)
    PROVE  /\ \E w, b, r : /\ GoodTurn(t, w, b, r)
                           /\ blk' = [blk EXCEPT ![t] = b] /\ rd' = r
                           /\ pc' = [pc EXCEPT ![t] = w]
           /\ faulted' \subseteq FaultKind
           /\ bufs' \in [Threads -> Int] /\ coder' \in [Threads -> Int]
           /\ UNCHANGED <<stream, canRead, canWrite, exit, wr, prog, out, marked>>
<1>1. pc[t] = "read" /\ faulted \subseteq FaultKind
      /\ UNCHANGED <<stream, canRead, canWrite, exit, wr, prog, out, marked>>
  BY DEF ReadLink, RingTypeOK
<1>2. /\ Fresh(blk[t]) /\ blk[t] \in Block /\ blk[t].lo <= blk[t].hi
      /\ blk[t].needWrite => blk[t].link > 0
      /\ rd \in ReadState /\ rd.pos <= Len(stream)
      /\ rd.crossLo < rd.crossHi => rd.crossHi = rd.pos
  BY <1>1, Types DEF ReadInv, Fresh, Busy, Reading
<1>3. bufs' \in [Threads -> Int] /\ coder' \in [Threads -> Int]
  BY DEF ReadLink, RingTypeOK
<1>4. CASE BufFails(t)
  <2> DEFINE c == [blk[t] EXCEPT !.finish = TRUE, !.allocErr = TRUE]
  <2>1. c \in Block /\ c.num = blk[t].num /\ c.lo = blk[t].lo /\ c.hi = blk[t].hi
        /\ c.link = blk[t].link /\ c.finish /\ c.allocErr /\ ~c.intr
        /\ c.needWrite = blk[t].needWrite
    BY <1>2 DEF Block, Fresh
  <2> HIDE DEF c
  <2>2. GoodTurn(t, "pass", c, rd)
    <3>1. blk[t].link \in Nat  BY <1>2, BlkFields
    <3>2. QED  BY <1>2, <2>1, <3>1 DEF GoodTurn, EndsAt, Unusable, Start
  <2>3. QED  BY <1>1, <1>3, <1>4, <2>2 DEF BufFails, Settle, c, FaultKind
<1>5. ASSUME NEW f \in Fetched(t), CoderFails(t, f)
      PROVE  /\ \E w, b, r : /\ GoodTurn(t, w, b, r)
                             /\ blk' = [blk EXCEPT ![t] = b] /\ rd' = r
                             /\ pc' = [pc EXCEPT ![t] = w]
             /\ faulted' \subseteq FaultKind
  <2> DEFINE g == Grown(blk[t], f)
             c == [g EXCEPT !.finish = TRUE, !.allocErr = TRUE, !.stale = FromCross(t)]
             r == AfterRead(t, f)
  <2>1. /\ g \in Block /\ g.num = blk[t].num /\ g.lo = Start(t) /\ g.hi = f.hi
        /\ g.link > 0 /\ g.lo <= f.lo /\ ~g.intr
    BY <1>1, GrownFacts DEF Fresh
  <2>2. /\ f.lo \in Nat /\ f.hi \in Nat /\ f.lo <= f.hi /\ f.hi <= Len(stream)
        /\ f.fault \subseteq FaultKind
    BY <1>1, FetchedFacts
  <2>3. /\ r \in ReadState /\ r.pos = f.hi
        /\ r.crossLo = rd.crossLo /\ r.crossHi = rd.crossHi
        /\ r.block = rd.block /\ r.started = rd.started /\ r.limit = rd.limit
    BY <1>1, AfterReadFacts
  <2>4. rd.crossLo < rd.crossHi => rd.crossHi = f.hi  BY <1>1, CrossFetched
  <2>5. g.lo \in Nat  BY <2>1, BlkFields
  <2>6. g.lo <= g.hi  BY <2>1, <2>2, <2>5
  <2> HIDE DEF g, r
  <2>7. FromCross(t) \in BOOLEAN  BY DEF FromCross
  <2>8. c \in Block /\ c.num = g.num /\ c.lo = g.lo /\ c.hi = g.hi /\ c.link = g.link
        /\ c.finish /\ c.allocErr /\ ~c.intr
    BY <2>1, <2>7 DEF Block
  <2> HIDE DEF c
  <2>9. GoodTurn(t, "pass", c, r)
    BY <2>1, <2>2, <2>3, <2>4, <2>6, <2>8 DEF GoodTurn, EndsAt, Unusable
  <2>10. QED  BY <1>1, <1>5, <2>2, <2>9 DEF CoderFails, Settle, c, g, r, FaultKind
<1>6. QED  BY <1>1, <1>3, <1>4, <1>5, ParseTurn DEF ReadLink

-----------------------------------------------------------------------------
\* The blocks have the same number, input and parse.
SameInput(b, c) ==
    /\ b.num = c.num /\ b.lo = c.lo /\ b.hi = c.hi /\ b.link = c.link
    /\ b.parsed = c.parsed /\ b.state = c.state /\ b.status = c.status
    /\ b.needWrite = c.needWrite

\* pre_code leaves the block alone or refuses it for good with an error.
LEMMA PreCodeFacts ==
    ASSUME RingTypeOK, NEW t \in Threads, NEW a \in Block, NEW p \in PreCode(t, a)
    PROVE  /\ p.b \in Block /\ SameInput(p.b, a)
           /\ p.b.intr = a.intr
           /\ p.cap \in Int
           /\ p.fault \subseteq FaultKind
           /\ \/ p.b = a
              \/ p.b.finish /\ p.b.codeRes # None
<1>1. coder[t] \in Int  BY DEF RingTypeOK
<1>2. OutPreSize(a) \in Int
  <2>1. a.lo \in Nat /\ a.parsed \in Nat  BY BlkFields
  <2>2. QED  BY <2>1, ProducedNat DEF OutPreSize
<1>3. ASSUME NEW e \in {"truncated", "alloc"},
             p.b = [a EXCEPT !.codeRes = e, !.needCode = FALSE,
                             !.finish = TRUE, !.allocErr = @ \/ e = "alloc"]
      PROVE  /\ p.b \in Block /\ SameInput(p.b, a) /\ p.b.intr = a.intr
             /\ p.b.finish /\ p.b.codeRes # None
  BY ZenonT(40), <1>3 DEF Block, SameInput, CodeError, None
<1>4. \/ p = [b |-> a, cap |-> coder[t], fault |-> {}]
      \/ p = [b |-> a, cap |-> OutPreSize(a), fault |-> {}]
      \/ \E e \in {"truncated", "alloc"} : \E x \in {{}, {"pre"}} :
            p = [b |-> [a EXCEPT !.codeRes = e, !.needCode = FALSE,
                             !.finish = TRUE, !.allocErr = @ \/ e = "alloc"],
                 cap |-> coder[t], fault |-> x]
  BY DEF PreCode
<1>5. CASE p = [b |-> a, cap |-> coder[t], fault |-> {}]
  BY <1>1, <1>5 DEF SameInput
<1>6. CASE p = [b |-> a, cap |-> OutPreSize(a), fault |-> {}]
  BY <1>2, <1>6 DEF SameInput
<1>7. ASSUME NEW e \in {"truncated", "alloc"}, NEW x \in {{}, {"pre"}},
             p = [b |-> [a EXCEPT !.codeRes = e, !.needCode = FALSE,
                             !.finish = TRUE, !.allocErr = @ \/ e = "alloc"],
                 cap |-> coder[t], fault |-> x]
      PROVE  /\ p.b \in Block /\ SameInput(p.b, a) /\ p.b.intr = a.intr
             /\ p.b.finish /\ p.b.codeRes # None /\ p.cap \in Int
             /\ p.fault \subseteq FaultKind
  <2>1. p.fault \subseteq FaultKind /\ p.cap \in Int
    BY <1>1, <1>7 DEF FaultKind
  <2>2. p.b = [a EXCEPT !.codeRes = e, !.needCode = FALSE,
                             !.finish = TRUE, !.allocErr = @ \/ e = "alloc"]
    BY <1>7
  <2>3. QED  BY <1>3, <2>1, <2>2
<1>8. QED  BY <1>4, <1>5, <1>6, <1>7

(***************************************************************************)
(* The two ways a block leaves the read section: it is the last one and    *)
(* keeps the read token, or it passes the token on to its successor.       *)
(***************************************************************************)
Kept(t, b) ==
    /\ b.finish
    /\ \/ b.intr \/ b.codeRes # None \/ b.threadErr
       \/ /\ blk[t].finish /\ b.needCode = blk[t].needCode
          /\ b.codeRes = blk[t].codeRes /\ Unusable(b) = Unusable(blk[t])
          /\ ~blk[t].intr
    /\ b.intr => blk[t].intr \/ Interrupted(blk[t].num)
    /\ UNCHANGED <<canRead, rd>>
    /\ pc' = [pc EXCEPT ![t] = "code"]

Handed(t, b) ==
    /\ ~b.finish /\ ~b.intr
    /\ ~blk[t].finish /\ ~blk[t].intr
    /\ canRead' = [canRead EXCEPT ![b.next] = TRUE]
    /\ rd' \in ReadState
    /\ rd'.pos = rd.pos /\ rd'.crossLo = rd.crossLo /\ rd'.crossHi = rd.crossHi
    /\ rd'.block = rd.block /\ rd'.started <= rd'.limit
    /\ \/ rd'.started = rd.started /\ pc' = [pc EXCEPT ![t] = "code"]
       \/ /\ rd'.started = rd.started + 1 /\ rd.started \in Threads
          /\ pc' = [[pc EXCEPT ![t] = "code"] EXCEPT ![rd.started] = "wait_read"]

\* The end of the read section: the token is kept or handed on.
LEMMA PassTurn ==
    ASSUME RingTypeOK, rd.started <= rd.limit, NEW t \in Threads, PassRead(t)
    PROVE  /\ \E b \in Block : /\ blk' = [blk EXCEPT ![t] = b]
                               /\ SameInput(b, blk[t])
                               /\ Kept(t, b) \/ Handed(t, b)
           /\ coder' \in [Threads -> Int]
           /\ faulted' \subseteq FaultKind
<1> DEFINE a == [blk[t] EXCEPT !.intr = @ \/ Interrupted(blk[t].num)]
<1>1. PICK p \in PreCode(t, a) :
         LET b == [p.b EXCEPT !.finish = @ \/ p.b.intr, !.coded = p.b.lo]
             maySpawn == ~b.finish /\ rd.started < rd.limit
             here == [pc EXCEPT ![t] = "code"]
         IN  /\ coder' = [coder EXCEPT ![t] = p.cap]
             /\ \/ /\ b.finish
                   /\ KeepToken(t, b)
                   /\ pc' = here
                   /\ faulted' = faulted \cup p.fault
                \/ /\ ~b.finish /\ rd.started >= rd.limit
                   /\ PassToken(t, b, rd.started)
                   /\ UNCHANGED rd
                   /\ pc' = here
                   /\ faulted' = faulted \cup p.fault
                \/ /\ maySpawn
                   /\ PassToken(t, b, rd.started + 1)
                   /\ rd' = [rd EXCEPT !.started = @ + 1]
                   /\ pc' = [here EXCEPT ![rd.started] = "wait_read"]
                   /\ faulted' = faulted \cup p.fault
                \/ /\ maySpawn /\ rd.started = 1 /\ MayFault("spawn")
                   /\ KeepToken(t, [b EXCEPT !.finish = TRUE, !.needCode = FALSE,
                                             !.threadErr = TRUE])
                   /\ pc' = here
                   /\ faulted' = faulted \cup p.fault \cup {"spawn"}
                \/ /\ maySpawn /\ rd.started # 1 /\ MayFault("spawn")
                   /\ PassToken(t, b, rd.started)
                   /\ rd' = [rd EXCEPT !.limit = rd.started]
                   /\ pc' = here
                   /\ faulted' = faulted \cup p.fault \cup {"spawn"}
  BY DEF PassRead
<1>2. /\ a \in Block /\ SameInput(a, blk[t]) /\ a.finish = blk[t].finish
      /\ a.needCode = blk[t].needCode /\ a.codeRes = blk[t].codeRes
      /\ Unusable(a) = Unusable(blk[t])
      /\ a.intr = (blk[t].intr \/ Interrupted(blk[t].num))
  <2>1. Interrupted(blk[t].num) \in BOOLEAN  
    <3>1. prog.need \in BOOLEAN  BY DEF RingTypeOK
    <3>2. QED  BY <3>1 DEF Interrupted
  <2>2. blk[t] \in Block  BY Types
  <2>3. QED  BY <2>1, <2>2 DEF Block, SameInput, Unusable
<1> HIDE DEF a
<1>3. /\ p.b \in Block /\ SameInput(p.b, a) /\ p.b.intr = a.intr
      /\ p.cap \in Int /\ p.fault \subseteq FaultKind
      /\ p.b = a \/ (p.b.finish /\ p.b.codeRes # None)
  BY <1>2, PreCodeFacts
<1> DEFINE b == [p.b EXCEPT !.finish = @ \/ p.b.intr, !.coded = p.b.lo]
<1>4. /\ b \in Block /\ SameInput(b, blk[t]) /\ b.intr = a.intr
      /\ b.finish = (p.b.finish \/ p.b.intr) /\ b.needCode = p.b.needCode
      /\ b.codeRes = p.b.codeRes /\ Unusable(b) = Unusable(p.b)
  <2>1. p.b.lo \in Nat  BY <1>3, BlkFields
  <2>2. QED  BY ZenonT(40), <1>2, <1>3, <2>1 DEF Block, SameInput, Unusable
<1>5. rd \in ReadState /\ rd.started \in Nat /\ rd.limit \in Nat
      /\ rd.started \in 1 .. NumThreads /\ rd.limit \in 1 .. NumThreads
  BY Types, RdFields DEF ReadState
<1>6. ASSUME NEW n \in 1 .. NumThreads
      PROVE  NextThread(t, n) \in Threads
  BY NumThreadsAssumption DEF NextThread, Threads
<1>7. /\ coder' \in [Threads -> Int]
      /\ faulted' \subseteq FaultKind
  <2>1. coder \in [Threads -> Int] /\ faulted \subseteq FaultKind  BY DEF RingTypeOK
  <2>2. coder' = [coder EXCEPT ![t] = p.cap]
        /\ faulted' \in {faulted \cup p.fault, faulted \cup p.fault \cup {"spawn"}}
    BY <1>1
  <2>3. QED  BY <1>3, <2>1, <2>2 DEF FaultKind
<1>8. /\ b.finish => b.intr \/ b.codeRes # None \/
           (/\ blk[t].finish /\ b.needCode = blk[t].needCode
            /\ b.codeRes = blk[t].codeRes /\ Unusable(b) = Unusable(blk[t])
            /\ ~blk[t].intr)
      /\ ~b.finish => ~b.intr /\ ~blk[t].finish /\ ~blk[t].intr
  BY <1>2, <1>3, <1>4
<1>9. ASSUME NEW n \in 1 .. NumThreads, PassToken(t, b, n)
      PROVE  \E c \in Block :
                /\ blk' = [blk EXCEPT ![t] = c] /\ SameInput(c, blk[t])
                /\ c.finish = b.finish /\ c.intr = b.intr /\ c.next = NextThread(t, n)
                /\ canRead' = [canRead EXCEPT ![c.next] = TRUE]
  <2> HIDE DEF b
  <2> DEFINE c == [b EXCEPT !.next = NextThread(t, n)]
  <2>1. c \in Block /\ SameInput(c, blk[t]) /\ c.finish = b.finish /\ c.intr = b.intr
        /\ c.next = NextThread(t, n)
    BY <1>4, <1>6 DEF Block, SameInput
  <2>2. QED  BY <1>9, <2>1 DEF PassToken
<1>10. CASE b.finish /\ KeepToken(t, b) /\ pc' = [pc EXCEPT ![t] = "code"]
  <2>1. Kept(t, b)  BY <1>2, <1>4, <1>8, <1>10 DEF Kept, KeepToken
  <2>2. blk' = [blk EXCEPT ![t] = b]  BY <1>10 DEF KeepToken
  <2>3. QED  BY <1>4, <1>7, <2>1, <2>2
<1>11. CASE /\ ~b.finish /\ rd.started >= rd.limit
            /\ PassToken(t, b, rd.started)
            /\ UNCHANGED rd
            /\ pc' = [pc EXCEPT ![t] = "code"]
  <2>1. PICK c \in Block :
                /\ blk' = [blk EXCEPT ![t] = c] /\ SameInput(c, blk[t])
                /\ c.finish = b.finish /\ c.intr = b.intr
                /\ canRead' = [canRead EXCEPT ![c.next] = TRUE]
    BY <1>5, <1>9, <1>11
  <2> HIDE DEF b
  <2>2. Handed(t, c)  BY <1>5, <1>8, <1>11, <2>1 DEF Handed
  <2>3. QED  BY <1>7, <2>1, <2>2
<1>12. CASE /\ ~b.finish /\ rd.started < rd.limit
            /\ PassToken(t, b, rd.started + 1)
            /\ rd' = [rd EXCEPT !.started = @ + 1]
            /\ pc' = [[pc EXCEPT ![t] = "code"] EXCEPT ![rd.started] = "wait_read"]
  <2>0. rd.started + 1 \in 1 .. NumThreads /\ rd.started \in Threads
        /\ rd.started + 1 <= rd.limit
    BY <1>5, <1>12, NumThreadsAssumption DEF Threads
  <2>1. PICK c \in Block :
                /\ blk' = [blk EXCEPT ![t] = c] /\ SameInput(c, blk[t])
                /\ c.finish = b.finish /\ c.intr = b.intr
                /\ canRead' = [canRead EXCEPT ![c.next] = TRUE]
    BY <2>0, <1>9, <1>12
  <2> HIDE DEF b
  <2>2. /\ rd' \in ReadState
        /\ rd'.pos = rd.pos /\ rd'.crossLo = rd.crossLo /\ rd'.crossHi = rd.crossHi
        /\ rd'.block = rd.block /\ rd'.started = rd.started + 1 /\ rd'.limit = rd.limit
    BY <1>5, <1>12, <2>0 DEF ReadState
  <2>3. Handed(t, c)  BY <1>8, <1>12, <2>0, <2>1, <2>2 DEF Handed
  <2>4. QED  BY <1>7, <2>1, <2>3
<1>13. CASE /\ KeepToken(t, [b EXCEPT !.finish = TRUE, !.needCode = FALSE,
                                             !.threadErr = TRUE])
            /\ pc' = [pc EXCEPT ![t] = "code"]
  <2> HIDE DEF b
  <2> DEFINE c == [b EXCEPT !.finish = TRUE, !.needCode = FALSE, !.threadErr = TRUE]
  <2>1. c \in Block /\ SameInput(c, blk[t]) /\ c.finish /\ c.threadErr
        /\ c.intr = b.intr
    BY <1>4 DEF Block, SameInput
  <2>2. Kept(t, c)  BY <1>2, <1>4, <1>13, <2>1 DEF Kept, KeepToken
  <2>3. QED  BY <1>7, <1>13, <2>1, <2>2 DEF KeepToken
<1>14. CASE /\ ~b.finish /\ rd.started < rd.limit
            /\ PassToken(t, b, rd.started)
            /\ rd' = [rd EXCEPT !.limit = rd.started]
            /\ pc' = [pc EXCEPT ![t] = "code"]
  <2>1. PICK c \in Block :
                /\ blk' = [blk EXCEPT ![t] = c] /\ SameInput(c, blk[t])
                /\ c.finish = b.finish /\ c.intr = b.intr
                /\ canRead' = [canRead EXCEPT ![c.next] = TRUE]
    BY <1>5, <1>9, <1>14
  <2> HIDE DEF b
  <2>2. /\ rd' \in ReadState
        /\ rd'.pos = rd.pos /\ rd'.crossLo = rd.crossLo /\ rd'.crossHi = rd.crossHi
        /\ rd'.block = rd.block /\ rd'.started = rd.started /\ rd'.limit = rd.started
    BY <1>5, <1>14 DEF ReadState
  <2>3. Handed(t, c)  BY <1>5, <1>8, <1>14, <2>1, <2>2 DEF Handed
  <2>4. QED  BY <1>7, <2>1, <2>3
<1>15. QED  BY <1>1, <1>10, <1>11, <1>12, <1>13, <1>14

-----------------------------------------------------------------------------
(***************************************************************************)
(* What a decoding step leaves behind: the block still passed, its input   *)
(* and its place in the ring unchanged.                                    *)
(***************************************************************************)
Coded(t, c) ==
    /\ SameInput(c, blk[t])
    /\ c.finish = blk[t].finish /\ c.next = blk[t].next
    /\ c.needCode = blk[t].needCode /\ Unusable(c) = Unusable(blk[t])
    /\ blk[t].intr => c.intr
    /\ c.intr => blk[t].intr \/ Interrupted(blk[t].num)
    /\ blk[t].codeRes # None => c.codeRes # None
    /\ \/ UNCHANGED prog
       \/ c.codeRes # None /\ prog' = Interrupt(blk[t].num)
    /\ \/ pc' = [pc EXCEPT ![t] = "code"]
       \/ /\ pc' = [pc EXCEPT ![t] = "wait_write"]
          /\ c.needCode /\ ~c.intr /\ c.codeRes = None => c.coded = c.hi

\* The types of get_error_spec and interrupt.
LEMMA InterruptedType ==
    ASSUME RingTypeOK, NEW n \in Nat
    PROVE  /\ Interrupted(n) \in BOOLEAN
           /\ Interrupt(n) \in [need : BOOLEAN, index : Nat]
<1>1. prog \in [need : BOOLEAN, index : Nat]  BY DEF RingTypeOK
<1>2. QED  BY <1>1 DEF Interrupted, Interrupt

\* A decoding step changes no more of a block than Coded allows.
LEMMA CodeTurn ==
    ASSUME RingTypeOK, NEW t \in Threads, CodeLink(t)
    PROVE  /\ \E c \in Block : blk' = [blk EXCEPT ![t] = c] /\ Coded(t, c)
           /\ prog' \in [need : BOOLEAN, index : Nat]
<1> DEFINE b == blk[t]
           e == CodeRes(b, LinkEnd(b))
<1>1. /\ b \in Block /\ b.num \in Nat /\ b.coded \in Nat /\ b.hi \in Nat /\ b.mid \in Nat
      /\ blk \in [Threads -> Block] /\ prog \in [need : BOOLEAN, index : Nat]
      /\ DOMAIN pc = Threads /\ pc[t] = "code"
  BY BlkFields DEF RingTypeOK, CodeLink
<1>2. LinkEnd(b) \in Nat  BY <1>1, InBufSizeAssumption DEF LinkEnd, Min2
<1>3. e \in CodeError \cup {None}  BY DEF CodeRes, CodeError
<1>4. /\ Interrupted(b.num) \in BOOLEAN
      /\ Interrupt(b.num) \in [need : BOOLEAN, index : Nat]
  BY <1>1, InterruptedType
<1>5. CASE /\ ~b.needCode \/ b.intr \/ b.codeRes # None
           /\ pc' = [pc EXCEPT ![t] = "wait_write"]
           /\ UNCHANGED <<blk, prog>>
  <2>1. blk' = [blk EXCEPT ![t] = b]  BY <1>1, <1>5
  <2>2. Coded(t, b)  BY <1>5 DEF Coded, SameInput
  <2>3. QED  BY <1>1, <1>5, <2>1, <2>2
<1>6. CASE /\ ~b.intr /\ b.codeRes = None /\ e # None
           /\ blk' = [blk EXCEPT ![t].codeRes = e]
           /\ prog' = Interrupt(b.num)
           /\ pc' = [pc EXCEPT ![t] = "wait_write"]
  <2> DEFINE c == [b EXCEPT !.codeRes = e]
  <2>1. blk' = [blk EXCEPT ![t] = c]  BY <1>6
  <2>2. /\ c \in Block /\ SameInput(c, b) /\ c.finish = b.finish /\ c.next = b.next
        /\ c.needCode = b.needCode /\ Unusable(c) = Unusable(b) /\ c.intr = b.intr
        /\ c.codeRes = e
    <3> HIDE DEF e
    <3>1. QED  BY <1>1, <1>3 DEF Block, SameInput, Unusable
  <2> HIDE DEF c, e
  <2>3. Coded(t, c)  BY <1>6, <2>2 DEF Coded
  <2>4. QED  BY <1>4, <1>6, <2>1, <2>2, <2>3
<1>7. CASE /\ ~b.intr /\ b.codeRes = None
           /\ blk' = [blk EXCEPT ![t].coded = LinkEnd(b),
                           ![t].intr = LinkEnd(b) # b.hi /\ Interrupted(b.num)]
           /\ pc' = IF LinkEnd(b) = b.hi \/ Interrupted(b.num)
                    THEN [pc EXCEPT ![t] = "wait_write"] ELSE pc
           /\ UNCHANGED prog
  <2> DEFINE i == LinkEnd(b) # b.hi /\ Interrupted(b.num)
             c == [b EXCEPT !.coded = LinkEnd(b), !.intr = i]
  <2>1. blk' = [blk EXCEPT ![t] = c]  BY <1>1, <1>7
  <2>2. /\ c \in Block /\ SameInput(c, b) /\ c.finish = b.finish /\ c.next = b.next
        /\ c.needCode = b.needCode /\ Unusable(c) = Unusable(b) /\ c.intr = i
        /\ c.codeRes = b.codeRes /\ c.coded = LinkEnd(b) /\ c.hi = b.hi
    <3>1. i \in BOOLEAN  BY <1>4
    <3> HIDE DEF i
    <3>2. QED  BY ZenonT(40), <1>1, <1>2, <3>1 DEF Block, SameInput, Unusable
  <2> HIDE DEF c
  <2>3. pc = [pc EXCEPT ![t] = "code"]  
    <3>1. pc \in [Threads -> {"off", "wait_read", "read", "pass", "code",
                           "wait_write", "done", "join"}]  BY DEF RingTypeOK
    <3>2. QED  BY <1>1, <3>1
  <2>4. Coded(t, c)  BY <1>4, <1>7, <2>2, <2>3 DEF Coded
  <2>5. QED  BY <1>1, <1>7, <2>1, <2>2, <2>4
<1>8. QED  BY <1>5, <1>6, <1>7 DEF CodeLink


-----------------------------------------------------------------------------
\* The block of thread t is written to the output, not only disposed of.
ToStream(t) ==
    /\ blk[t].needWrite /\ ~(blk[t].intr \/ wr.intr)
    /\ ~(blk[t].codeRes # None \/ Unusable(blk[t]))

\* The results of Lzma2Coder::write.
WriteResult == [nc : BOOLEAN, recode : BOOLEAN, err : CodeError \cup {None, "write"},
                hi : Nat, fault : SUBSET FaultKind]

\* Lzma2Coder::write delivers nothing unless told to, and without an error all
\* that was decoded.
LEMMA WriteResultFacts ==
    ASSUME RingTypeOK, NEW b \in Block, NEW ts \in BOOLEAN, NEW w \in WriteResults(b, ts)
    PROVE  /\ w \in WriteResult
           /\ w.hi # b.lo => ts
           /\ w.err = None /\ ts /\ b.needWrite =>
                 /\ w.hi = b.coded /\ w.nc = (b.state \notin {"overflow", "end"})
                 /\ BlockFinished(b) => b.parsed = b.coded
           /\ w.err = None /\ ~ts => ~w.nc \/ (~b.needWrite /\ ~b.finish)
<1> DEFINE Res(nc, recode, err, hi) ==
            [nc |-> nc, recode |-> recode, err |-> err, hi |-> hi,
             fault |-> IF err = "write" THEN {"write"} ELSE {}]
           more == b.state \notin {"overflow", "end"}
<1>1. /\ b.lo \in Nat /\ b.coded \in Nat /\ b.finish \in BOOLEAN /\ b.needWrite \in BOOLEAN
      /\ b.failed \in BOOLEAN
  BY DEF Block
<1>2. ASSUME NEW nc \in BOOLEAN, NEW rc \in BOOLEAN,
             NEW err \in CodeError \cup {None, "write"}, NEW h \in Nat, w = Res(nc, rc, err, h)
      PROVE  w \in WriteResult /\ w.nc = nc /\ w.err = err /\ w.hi = h
  BY <1>2 DEF WriteResult, FaultKind
<1>3. /\ "corrupt" \in CodeError /\ "internal" \in CodeError /\ "write" # None
      /\ "corrupt" # None /\ "internal" # None
  BY DEF CodeError, None
<1>4. CASE ~b.needWrite
  <2>1. w = Res(~b.finish, TRUE, None, b.lo)  BY <1>4 DEF WriteResults
  <2> HIDE DEF Res
  <2>2. PICK nf \in BOOLEAN, y \in BOOLEAN : nf = ~b.finish /\ y = TRUE /\ w = Res(nf, y, None, b.lo)
    BY <2>1
  <2>3. w \in WriteResult /\ w.nc = nf /\ w.err = None /\ w.hi = b.lo
    <3>1. b.lo \in Nat /\ None \in CodeError \cup {None, "write"}  BY <1>1
    <3>2. QED  BY ZenonT(40), <1>2, <2>2, <3>1
  <2>4. QED  BY <1>4, <2>2, <2>3
<1>5. CASE b.needWrite /\ b.failed
  <2>1. w = Res(~b.finish, TRUE, "corrupt", b.lo)  BY <1>5 DEF WriteResults
  <2> HIDE DEF Res
  <2>2. PICK nf \in BOOLEAN, y \in BOOLEAN : nf = ~b.finish /\ y = TRUE /\ w = Res(nf, y, "corrupt", b.lo)
    BY <2>1
  <2>3. w \in WriteResult /\ w.nc = nf /\ w.err = "corrupt" /\ w.hi = b.lo
    <3>1. b.lo \in Nat /\ "corrupt" \in CodeError \cup {None, "write"}  BY <1>1, <1>3
    <3>2. QED  BY ZenonT(40), <1>2, <2>2, <3>1
  <2>4. QED  BY <1>3, <1>5, <2>2, <2>3
<1>6. CASE b.needWrite /\ ~b.failed /\ ~ts
  <2>1. w = Res(FALSE, TRUE, None, b.lo)  BY <1>6 DEF WriteResults
  <2> HIDE DEF Res
  <2>2. PICK n \in BOOLEAN, y \in BOOLEAN : ~n /\ w = Res(n, y, None, b.lo)
    BY <2>1
  <2>3. w \in WriteResult /\ w.nc = n /\ w.err = None /\ w.hi = b.lo
    <3>1. b.lo \in Nat /\ None \in CodeError \cup {None, "write"}  BY <1>1
    <3>2. QED  BY <1>2, <2>2, <3>1
  <2>4. QED  BY <1>6, <2>2, <2>3
<1>7. CASE b.needWrite /\ ~b.failed /\ ts
  <2>1. \/ w = Res(FALSE, TRUE, "internal", b.lo)
        \/ w = Res(FALSE, FALSE, "internal", b.lo)
        \/ w = Res(more, FALSE, None, b.coded) /\ (BlockFinished(b) => b.parsed = b.coded)
        \/ \E h \in b.lo .. b.coded : w = Res(FALSE, FALSE, "write", h)
    BY <1>7 DEF WriteResults
  <2> HIDE DEF Res
  <2>2. PICK n \in BOOLEAN, y \in BOOLEAN, m \in BOOLEAN :
           n = FALSE /\ y = TRUE /\ m = more
    OBVIOUS
  <2>3. CASE w = Res(FALSE, TRUE, "internal", b.lo) \/ w = Res(FALSE, FALSE, "internal", b.lo)
    <3>1. w = Res(n, y, "internal", b.lo) \/ w = Res(n, n, "internal", b.lo)
      BY <2>2, <2>3
    <3>2. w \in WriteResult /\ w.err = "internal"
      BY <1>1, <1>2, <1>3, <3>1
    <3>3. QED  BY <1>3, <1>7, <3>2
  <2>4. CASE w = Res(more, FALSE, None, b.coded) /\ (BlockFinished(b) => b.parsed = b.coded)
    <3>1. w = Res(m, n, None, b.coded)  BY <2>2, <2>4
    <3>2. w \in WriteResult /\ w.nc = m /\ w.err = None /\ w.hi = b.coded
      BY <1>1, <1>2, <3>1
    <3>3. QED  BY <1>7, <2>2, <2>4, <3>2
  <2>5. CASE \E h \in b.lo .. b.coded : w = Res(FALSE, FALSE, "write", h)
    <3>1. PICK h \in b.lo .. b.coded : w = Res(n, n, "write", h)  BY <2>2, <2>5
    <3>2. h \in Nat  BY <1>1
    <3>3. w \in WriteResult /\ w.err = "write"  BY <1>2, <3>1, <3>2
    <3>4. QED  BY <1>3, <1>7, <3>3
  <2>6. QED  BY <2>1, <2>3, <2>4, <2>5
<1>8. QED  BY <1>1, <1>4, <1>5, <1>6, <1>7

(***************************************************************************)
(* What a write step does to the ring when the decode has not ended: the   *)
(* tokens move on, the output grows by the block or by a part of it, and   *)
(* unless writing stops for good the block was written to its end.         *)
(***************************************************************************)
Wrote(t, nc) ==
    /\ canWrite' = [u \in Threads |-> \/ canWrite[u] /\ u # t
                                      \/ ~blk[t].finish /\ u = blk[t].next
                                      \/ blk[t].finish /\ nc /\ u = 0]
    /\ canRead' = [canRead EXCEPT ![0] = @ \/ (blk[t].finish /\ (nc \/ t # 0))]
    /\ exit' = (exit \/ (blk[t].finish /\ ~nc /\ t # 0))
    /\ pc' = [pc EXCEPT ![t] = IF blk[t].finish /\ ~nc /\ t = 0
                               THEN "done" ELSE "wait_read"]
    /\ wr.intr => wr'.intr
    /\ blk[t].codeRes # None \/ Unusable(blk[t]) => wr'.intr
    /\ UNCHANGED prog \/ wr'.intr \/ (blk[t].needWrite /\ ~nc /\ ~blk[t].finish)
    /\ \/ UNCHANGED out
       \/ ToStream(t) /\ \E h \in Nat : out' = Append(out, [lo |-> blk[t].lo, hi |-> h])
    /\ ~wr'.intr /\ ToStream(t) =>
          /\ out' = Append(out, [lo |-> blk[t].lo, hi |-> blk[t].coded])
          /\ nc = (blk[t].state \notin {"overflow", "end"})
          /\ BlockFinished(blk[t]) => blk[t].parsed = blk[t].coded
    /\ ~wr'.intr /\ ~ToStream(t) => ~nc \/ (~blk[t].needWrite /\ ~blk[t].finish)

\* The write section moves the tokens and the output as Wrote says.
LEMMA WriteTurn ==
    ASSUME RingTypeOK, NEW t \in Threads, Write(t), ~exit
    PROVE  /\ \E nc \in BOOLEAN : Wrote(t, nc)
           /\ wr' \in WriteState
           /\ prog' \in [need : BOOLEAN, index : Nat]
           /\ bufs' \in [Threads -> Int]
           /\ out' \in Seq([lo : Nat, hi : Nat])
           /\ marked' \in BOOLEAN /\ faulted' \subseteq FaultKind
<1> DEFINE b == blk[t]
           intr == b.intr \/ wr.intr
           stop == b.codeRes # None \/ Unusable(b)
           toStream == b.needWrite /\ ~intr /\ ~stop
           intr2(w) == wr.intr \/ stop \/ w.err # None
           keep(w) == /\ w.recode
                      /\ ~b.needCode \/ intr \/ intr2(w) \/ wr.filled # 0
                      /\ b.hi > b.lo \/ ~b.finish
           done(w) == w.hi > b.lo \/ (toStream /\ w.err = None)
           ended(w) == b.finish /\ ~w.nc
<1>1. PICK w \in WriteResults(b, toStream) :
        /\ wr' = [intr |-> intr2(w),
                  codeRes |->
                    IF wr.codeRes # None THEN wr.codeRes
                    ELSE IF ~wr.intr /\ b.codeRes # None THEN b.codeRes
                    ELSE IF w.err \in CodeError THEN w.err
                    ELSE None,
                  err |-> wr.err \/ w.err = "write",
                  replay |-> IF keep(w) /\ b.hi > b.lo
                             THEN Append(wr.replay,
                                    [lo |-> b.lo, hi |-> b.hi, stale |-> b.stale])
                             ELSE wr.replay,
                  filled |-> IF keep(w) THEN wr.filled + 1 ELSE wr.filled,
                  outDone |-> IF toStream /\ w.err = None
                              THEN wr.outDone + Produced(stream, b.lo, b.coded)
                              ELSE wr.outDone]
        /\ out' = IF done(w) THEN Append(out, [lo |-> b.lo, hi |-> w.hi]) ELSE out
        /\ marked' = (marked \/ (toStream /\ w.err = None /\ b.status = "mark"))
        /\ bufs' = [bufs EXCEPT ![t] = IF keep(w) THEN @ - Links(b) ELSE @]
        /\ prog' = IF w.err # None \/ (b.needWrite /\ ~w.nc /\ ~b.finish)
                   THEN Interrupt(b.num) ELSE prog
        /\ faulted' = faulted \cup w.fault
        /\ canWrite' = [u \in Threads |-> \/ canWrite[u] /\ u # t
                                          \/ ~blk[t].finish /\ u = blk[t].next
                                          \/ blk[t].finish /\ w.nc /\ u = 0]
        /\ canRead' = [canRead EXCEPT ![0] = @ \/ (b.finish /\ (w.nc \/ t # 0))]
        /\ exit' = (exit \/ (ended(w) /\ t # 0))
        /\ pc' = [pc EXCEPT ![t] = IF ended(w) /\ t = 0 THEN "done" ELSE "wait_read"]
  BY DEF Write
<1>2. /\ b \in Block /\ wr \in WriteState /\ prog \in [need : BOOLEAN, index : Nat]
      /\ bufs \in [Threads -> Int] /\ out \in Seq([lo : Nat, hi : Nat])
      /\ marked \in BOOLEAN /\ faulted \subseteq FaultKind
  BY DEF RingTypeOK
<1>3. /\ b.lo \in Nat /\ b.hi \in Nat /\ b.mid \in Nat /\ b.coded \in Nat /\ b.num \in Nat
      /\ b.codeRes \in CodeError \cup {None} /\ b.stale \in BOOLEAN
      /\ b.needWrite \in BOOLEAN /\ b.intr \in BOOLEAN
  BY <1>2 DEF Block
<1>4. PICK ts \in BOOLEAN : ts = toStream /\ (ts <=> ToStream(t))
  BY <1>3 DEF ToStream
<1>5. /\ w \in WriteResult
      /\ w.hi # b.lo => ts
      /\ w.err = None /\ ts /\ b.needWrite =>
            /\ w.hi = b.coded /\ w.nc = (b.state \notin {"overflow", "end"})
            /\ BlockFinished(b) => b.parsed = b.coded
      /\ w.err = None /\ ~ts => ~w.nc \/ (~b.needWrite /\ ~b.finish)
  <2>1. w \in WriteResults(b, ts)  BY <1>1, <1>4
  <2> HIDE DEF b, toStream
  <2>2. QED  BY <1>2, <2>1, WriteResultFacts
<1>6. /\ w.nc \in BOOLEAN /\ w.err \in CodeError \cup {None, "write"} /\ w.hi \in Nat
      /\ w.fault \subseteq FaultKind
  BY <1>5 DEF WriteResult
<1>7. wr' \in WriteState
  <2>1. /\ Produced(stream, b.lo, b.coded) \in Nat
    BY <1>3, ProducedNat
  <2>2. /\ wr.intr \in BOOLEAN /\ wr.codeRes \in CodeError \cup {None} /\ wr.err \in BOOLEAN
        /\ wr.replay \in Seq([lo : Nat, hi : Nat, stale : BOOLEAN])
        /\ wr.filled \in Nat /\ wr.outDone \in Nat
    BY <1>2 DEF WriteState
  <2>3. [lo |-> b.lo, hi |-> b.hi, stale |-> b.stale] \in [lo : Nat, hi : Nat, stale : BOOLEAN]
    BY <1>3
  <2>4. /\ wr'.replay \in Seq([lo : Nat, hi : Nat, stale : BOOLEAN])
    <3>1. \/ wr'.replay = wr.replay
          \/ wr'.replay = Append(wr.replay, [lo |-> b.lo, hi |-> b.hi, stale |-> b.stale])
      BY <1>1
    <3>2. QED  BY <2>2, <2>3, <3>1, AppendOrSame, Zenon
  <2>5. /\ wr'.intr \in BOOLEAN /\ wr'.err \in BOOLEAN
    BY <1>1, <2>2
  <2>6. wr'.codeRes \in CodeError \cup {None}
    BY <1>1, <1>3, <2>2
  <2>7. wr'.filled \in Nat /\ wr'.outDone \in Nat
    <3>1. wr'.filled \in {wr.filled, wr.filled + 1}
          /\ wr'.outDone \in {wr.outDone, wr.outDone + Produced(stream, b.lo, b.coded)}
      BY <1>1
    <3> HIDE DEF b
    <3>2. QED  BY <2>1, <2>2, <3>1
  <2>8. wr' = [intr |-> wr'.intr, codeRes |-> wr'.codeRes, err |-> wr'.err,
               replay |-> wr'.replay, filled |-> wr'.filled, outDone |-> wr'.outDone]
    BY <1>1
  <2>9. QED  BY <2>4, <2>5, <2>6, <2>7, <2>8 DEF WriteState
<1>8. bufs' \in [Threads -> Int]
  <2>1. Links(b) \in Int  BY <1>3, InBufSizeAssumption DEF Links
  <2>2. bufs' \in {[bufs EXCEPT ![t] = bufs[t] - Links(b)], [bufs EXCEPT ![t] = bufs[t]]}
    BY <1>1, <1>2
  <2> HIDE DEF b
  <2>3. QED  BY <1>2, <2>1, <2>2
<1>9. out' \in Seq([lo : Nat, hi : Nat])
  <2>1. [lo |-> b.lo, hi |-> w.hi] \in [lo : Nat, hi : Nat]  BY <1>3, <1>6
  <2>2. out' = out \/ out' = Append(out, [lo |-> b.lo, hi |-> w.hi])  BY <1>1
  <2>3. QED  BY <1>2, <2>1, <2>2, AppendOrSame, Zenon
<1>10. prog' \in [need : BOOLEAN, index : Nat]
  <2>1. prog' \in {prog, Interrupt(b.num)}  BY <1>1
  <2>2. Interrupt(b.num) \in [need : BOOLEAN, index : Nat]  BY <1>3, InterruptedType
  <2>3. QED  BY <1>2, <2>1, <2>2
<1>11. marked' \in BOOLEAN /\ faulted' \subseteq FaultKind
  <2>1. faulted' = faulted \cup w.fault /\ marked' \in BOOLEAN  BY <1>1
  <2>2. QED  BY <1>2, <1>6, <2>1
<1>12. /\ wr'.intr = intr2(w)
       /\ wr.intr \in BOOLEAN
  BY <1>1, <1>2 DEF WriteState
<1>13. Wrote(t, w.nc)
  <2>1. /\ canWrite' = [u \in Threads |-> \/ canWrite[u] /\ u # t
                                          \/ ~blk[t].finish /\ u = blk[t].next
                                          \/ blk[t].finish /\ w.nc /\ u = 0]
        /\ canRead' = [canRead EXCEPT ![0] = @ \/ (blk[t].finish /\ (w.nc \/ t # 0))]
        /\ exit' = (exit \/ (blk[t].finish /\ ~w.nc /\ t # 0))
        /\ pc' = [pc EXCEPT ![t] = IF blk[t].finish /\ ~w.nc /\ t = 0
                               THEN "done" ELSE "wait_read"]
    BY <1>1
  <2>2. /\ wr.intr => wr'.intr
        /\ blk[t].codeRes # None \/ Unusable(blk[t]) => wr'.intr
        /\ ~wr'.intr => w.err = None
    BY <1>12
  <2>3. UNCHANGED prog \/ wr'.intr \/ (blk[t].needWrite /\ ~w.nc /\ ~blk[t].finish)
    <3>1. UNCHANGED prog \/ w.err # None \/ (blk[t].needWrite /\ ~w.nc /\ ~blk[t].finish)
      BY <1>1
    <3>2. QED  BY <2>2, <3>1
  <2>4. \/ UNCHANGED out
        \/ ToStream(t) /\ out' = Append(out, [lo |-> blk[t].lo, hi |-> w.hi])
    <3>1. w.hi > b.lo => ts  BY <1>3, <1>5, <1>6
    <3>2. out' = IF done(w) THEN Append(out, [lo |-> b.lo, hi |-> w.hi]) ELSE out
      BY <1>1
    <3>3. done(w) => ToStream(t)  BY <1>4, <3>1
    <3>4. QED  BY <3>2, <3>3
  <2>5. ~wr'.intr /\ ToStream(t) =>
          /\ out' = Append(out, [lo |-> blk[t].lo, hi |-> blk[t].coded])
          /\ w.nc = (blk[t].state \notin {"overflow", "end"})
          /\ BlockFinished(blk[t]) => blk[t].parsed = blk[t].coded
    <3>1. HAVE ~wr'.intr /\ ToStream(t)
    <3>2. w.err = None /\ ts /\ b.needWrite  BY <1>4, <2>2, <3>1 DEF ToStream
    <3>3. out' = Append(out, [lo |-> b.lo, hi |-> w.hi])
      BY <1>1, <1>4, <3>2
    <3>4. QED  BY <1>5, <3>2, <3>3
  <2>6. ~wr'.intr /\ ~ToStream(t) => ~w.nc \/ (~blk[t].needWrite /\ ~blk[t].finish)
    BY <1>4, <1>5, <2>2
  <2>7. QED  BY <1>6, <2>1, <2>2, <2>3, <2>4, <2>5, <2>6 DEF Wrote
<1>14. QED  BY <1>6, <1>7, <1>8, <1>9, <1>10, <1>11, <1>13

-----------------------------------------------------------------------------
(***************************************************************************)
(* The inductive invariant: the types and the five parts of RingInv.       *)
(***************************************************************************)
Ind == RingTypeOK /\ RingInv

\* The fields of the block of an iteration that has read nothing.
LEMMA NewBlockType ==
    ASSUME NEW n \in Nat, NEW f \in BOOLEAN, NEW i \in BOOLEAN
    PROVE  /\ NewBlock(n, f, i) \in Block
           /\ NewBlock(n, f, i).num = n /\ NewBlock(n, f, i).intr = i
           /\ NewBlock(n, f, i).link = 0 /\ NewBlock(n, f, i).needWrite = FALSE
           /\ NewBlock(n, f, i).lo = 0 /\ NewBlock(n, f, i).hi = 0
           /\ NewBlock(n, f, i).needCode = FALSE /\ NewBlock(n, f, i).allocErr = FALSE
           /\ NewBlock(n, f, i).overflow = FALSE /\ NewBlock(n, f, i).threadErr = FALSE
           /\ NewBlock(n, f, i).codeRes = None
<1>1. 0 \in Threads  BY NumThreadsAssumption DEF Threads
<1>2. QED  BY <1>1 DEF NewBlock, Block, ParseState, ParseStatus

\* The invariant holds when run starts.
LEMMA InitInd == Init => Ind
<1> SUFFICES ASSUME Init PROVE Ind
  OBVIOUS
<1>1. 0 \in Threads /\ NumThreads \in Nat /\ NumThreads >= 1
  BY NumThreadsAssumption DEF Threads
<1>2. RingTypeOK
  <2>1. stream \in Seq(Unit)  BY StreamsAssumption DEF Init
  <2>2. blk \in [Threads -> Block]
    <3>1. FALSE \in BOOLEAN  OBVIOUS
    <3>2. 0 \in Nat  OBVIOUS
    <3>3. PICK f \in BOOLEAN : f = FALSE  OBVIOUS
    <3>4. NewBlock(0, f, f) \in Block  BY <3>2, NewBlockType
    <3>5. blk = [t \in Threads |-> NewBlock(0, f, f)]  BY <3>3 DEF Init
    <3>6. QED  BY <3>4, <3>5
  <2>3. rd \in ReadState  BY <1>1 DEF Init, ReadState
  <2>4. wr \in WriteState  BY DEF Init, WriteState
  <2>5. canRead \in [Threads -> BOOLEAN] /\ canWrite \in [Threads -> BOOLEAN]
    BY DEF Init
  <2>6. /\ prog \in [need : BOOLEAN, index : Nat]
        /\ bufs \in [Threads -> Int] /\ coder \in [Threads -> Int]
        /\ out \in Seq([lo : Nat, hi : Nat])
    BY DEF Init
  <2>7. pc \in [Threads -> {"off", "wait_read", "read", "pass", "code",
                           "wait_write", "done", "join"}]
    BY DEF Init
  <2>8. exit \in BOOLEAN /\ marked \in BOOLEAN /\ faulted \subseteq FaultKind
    BY DEF Init
  <2>9. QED  BY <2>1, <2>2, <2>3, <2>4, <2>5, <2>6, <2>7, <2>8 DEF RingTypeOK
<1>3. /\ \A t \in Threads : ~Busy(t)
      /\ pc[0] = "wait_read" /\ exit = FALSE /\ out = <<>>
      /\ \A t \in Threads : (canRead[t] <=> t = 0) /\ (canWrite[t] <=> t = 0)
      /\ \A t \in Threads : pc[t] \in {"wait_read", "off"}
      /\ prog.need = FALSE /\ rd.pos = 0 /\ rd.crossLo = 0 /\ rd.crossHi = 0
      /\ rd.started = 1 /\ rd.limit = NumThreads
  BY <1>1 DEF Init, Busy, Reading, Passed
<1>4. TokenInv
  <2>1. \A t \in Threads : t >= 1 => pc[t] = "off"  BY DEF Init, Threads
  <2>2. QED  BY <1>1, <1>3, <2>1 DEF TokenInv, Live, Busy
<1>5. OrderInv  BY <1>3 DEF OrderInv, Busy
<1>6. ReadInv
  <2>1. Len(stream) \in Nat  BY <1>2 DEF RingTypeOK
  <2>2. QED  BY <1>3, <2>1 DEF ReadInv, Busy, Reading
<1>7. ChainInv  BY <1>3 DEF ChainInv, Busy, Reading, Passed, Delivered, Frontier
<1>8. IntrInv  BY <1>3 DEF IntrInv
<1>9. Gapless  BY <1>3 DEF Gapless
<1>10. QED  BY <1>2, <1>4, <1>5, <1>6, <1>7, <1>8, <1>9 DEF Ind, RingInv

\* Facts about an iteration that has just begun.
LEMMA BeginTurn ==
    ASSUME RingTypeOK, NEW t \in Threads, ReadBegin(t), ~exit
    PROVE  \E b \in Block :
             /\ blk' = [blk EXCEPT ![t] = b]
             /\ b.num = rd.block /\ b.link = 0 /\ b.lo = 0 /\ b.hi = 0
             /\ ~b.needWrite /\ ~b.needCode /\ ~b.allocErr /\ ~b.overflow
             /\ ~b.threadErr /\ b.codeRes = None
             /\ b.intr => Interrupted(rd.block)
             /\ pc' = [pc EXCEPT ![t] = IF b.intr THEN "pass" ELSE "read"]
             /\ rd' \in ReadState /\ rd'.block = rd.block + 1
             /\ rd'.pos = rd.pos /\ rd'.crossLo = rd.crossLo /\ rd'.crossHi = rd.crossHi
             /\ rd'.started = rd.started /\ rd'.limit = rd.limit
<1>1. rd \in ReadState /\ rd.block \in Nat /\ rd.finished \in BOOLEAN /\ rd.block + 1 \in Nat
  BY Types, RdFields
<1>2. PICK i \in BOOLEAN : i = Interrupted(rd.block)
  BY <1>1, InterruptedType
<1> DEFINE b == NewBlock(rd.block, rd.finished, i)
<1>a. 0 \in Threads  BY NumThreadsAssumption DEF Threads
<1>3. /\ b \in Block /\ b.num = rd.block /\ b.link = 0 /\ b.lo = 0 /\ b.hi = 0
      /\ ~b.needWrite /\ ~b.needCode /\ ~b.allocErr /\ ~b.overflow
      /\ ~b.threadErr /\ b.codeRes = None /\ b.intr = i
  BY <1>1, <1>a DEF NewBlock, Block, ParseState, ParseStatus
<1>4. /\ blk' = [blk EXCEPT ![t] = b]
      /\ pc' = [pc EXCEPT ![t] = IF i THEN "pass" ELSE "read"]
      /\ rd' = [rd EXCEPT !.block = @ + 1]
  BY <1>2 DEF ReadBegin
<1> HIDE DEF b
<1>5. /\ rd' \in ReadState /\ rd'.block = rd.block + 1
      /\ rd'.pos = rd.pos /\ rd'.crossLo = rd.crossLo /\ rd'.crossHi = rd.crossHi
      /\ rd'.started = rd.started /\ rd'.limit = rd.limit
  BY <1>1, <1>4 DEF ReadState
<1>6. QED  BY <1>2, <1>3, <1>4, <1>5

\* Where a thread can be.
Places == {"off", "wait_read", "read", "pass", "code", "wait_write", "done", "join"}

(***************************************************************************)
(* Every step keeps the types, given what the invariant says of a block    *)
(* being read.                                                             *)
(***************************************************************************)
LEMMA TypeStep ==
    ASSUME Ind, RingNext
    PROVE  RingTypeOK'
<1>0. RingTypeOK /\ ReadInv /\ rd.started <= rd.limit /\ 0 \in Threads
  BY NumThreadsAssumption DEF Ind, RingInv, TokenInv, Threads
<1>1. /\ stream \in Seq(Unit) /\ canRead \in [Threads -> BOOLEAN]
      /\ canWrite \in [Threads -> BOOLEAN] /\ exit \in BOOLEAN /\ rd \in ReadState
      /\ wr \in WriteState /\ prog \in [need : BOOLEAN, index : Nat]
      /\ pc \in [Threads -> Places] /\ blk \in [Threads -> Block]
      /\ bufs \in [Threads -> Int] /\ coder \in [Threads -> Int]
      /\ out \in Seq([lo : Nat, hi : Nat]) /\ marked \in BOOLEAN
      /\ faulted \subseteq FaultKind
  BY <1>0 DEF RingTypeOK, Places
<1>2. ASSUME NEW t \in Threads, ReadBegin(t)
      PROVE  RingTypeOK'
  <2>1. /\ UNCHANGED <<stream, canWrite, exit, wr, prog, bufs, coder, out, marked, faulted>>
        /\ canRead' \in [Threads -> BOOLEAN]
    BY <1>1, <1>2 DEF ReadBegin
  <2>2. CASE exit
    <3>1. UNCHANGED <<rd, blk>> /\ pc' = [pc EXCEPT ![t] = "done"]
      BY <1>2, <2>2 DEF ReadBegin
    <3>2. pc' \in [Threads -> Places]  BY <1>1, <3>1 DEF Places
    <3>3. QED  BY <1>1, <2>1, <3>1, <3>2 DEF RingTypeOK, Places
  <2>3. CASE ~exit
    <3>1. PICK b \in Block : /\ blk' = [blk EXCEPT ![t] = b] /\ rd' \in ReadState
                             /\ pc' = [pc EXCEPT ![t] = IF b.intr THEN "pass" ELSE "read"]
      BY <1>0, <1>2, <2>3, BeginTurn
    <3>2. pc' \in [Threads -> Places]  BY <1>1, <3>1 DEF Places
    <3>3. blk' \in [Threads -> Block]  BY <1>1, <3>1
    <3>4. QED  BY <1>1, <2>1, <3>1, <3>2, <3>3 DEF RingTypeOK, Places
  <2>4. QED  BY <2>2, <2>3
<1>3. ASSUME NEW t \in Threads, ReadLink(t)
      PROVE  RingTypeOK'
  <2>0. PICK w, b, r : /\ GoodTurn(t, w, b, r)
                       /\ blk' = [blk EXCEPT ![t] = b] /\ rd' = r
                       /\ pc' = [pc EXCEPT ![t] = w]
    BY <1>0, <1>3, ReadTurn
  <2>1. w \in {"read", "pass"} /\ b \in Block /\ r \in ReadState
    BY <2>0 DEF GoodTurn
  <2>2. /\ faulted' \subseteq FaultKind /\ bufs' \in [Threads -> Int]
        /\ coder' \in [Threads -> Int]
        /\ UNCHANGED <<stream, canRead, canWrite, exit, wr, prog, out, marked>>
    BY <1>0, <1>3, ReadTurn
  <2>3. pc' \in [Threads -> Places]  BY <1>1, <2>0, <2>1 DEF Places
  <2>4. blk' \in [Threads -> Block]  BY <1>1, <2>0, <2>1
  <2>5. QED  BY <1>1, <2>0, <2>1, <2>2, <2>3, <2>4 DEF RingTypeOK, Places
<1>4. ASSUME NEW t \in Threads, PassRead(t)
      PROVE  RingTypeOK'
  <2>1. PICK b \in Block : /\ blk' = [blk EXCEPT ![t] = b]
                           /\ Kept(t, b) \/ Handed(t, b)
    BY <1>0, <1>4, PassTurn
  <2>2. /\ faulted' \subseteq FaultKind /\ coder' \in [Threads -> Int]
        /\ UNCHANGED <<stream, canWrite, exit, wr, prog, bufs, out, marked>>
    BY <1>0, <1>4, PassTurn DEF PassRead
  <2>3. rd' \in ReadState  BY <1>1, <2>1 DEF Kept, Handed
  <2>4. canRead' \in [Threads -> BOOLEAN]
    <3>1. b.next \in Threads  BY BlkFields
    <3>2. QED  BY <1>1, <2>1, <3>1 DEF Kept, Handed
  <2>5. pc' \in [Threads -> Places]
    <3>1. [pc EXCEPT ![t] = "code"] \in [Threads -> Places]  BY <1>1 DEF Places
    <3>2. CASE pc' = [pc EXCEPT ![t] = "code"]  BY <3>1, <3>2
    <3>3. CASE pc' = [[pc EXCEPT ![t] = "code"] EXCEPT ![rd.started] = "wait_read"]
      BY <3>1, <3>3 DEF Places
    <3>4. QED  BY <2>1, <3>2, <3>3 DEF Kept, Handed
  <2>6. blk' \in [Threads -> Block]  BY <1>1, <2>1
  <2>7. QED  BY <1>1, <2>2, <2>3, <2>4, <2>5, <2>6 DEF RingTypeOK, Places
<1>5. ASSUME NEW t \in Threads, CodeLink(t)
      PROVE  RingTypeOK'
  <2>1. PICK c \in Block : blk' = [blk EXCEPT ![t] = c] /\ Coded(t, c)
    BY <1>0, <1>5, CodeTurn
  <2>2. /\ prog' \in [need : BOOLEAN, index : Nat]
        /\ UNCHANGED <<stream, canRead, canWrite, exit, rd, wr, bufs, coder,
                       out, marked, faulted>>
    BY <1>0, <1>5, CodeTurn DEF CodeLink
  <2>3. pc' \in [Threads -> Places]  BY <1>1, <2>1 DEF Coded, Places
  <2>4. blk' \in [Threads -> Block]  BY <1>1, <2>1
  <2>5. QED  BY <1>1, <2>2, <2>3, <2>4 DEF RingTypeOK, Places
<1>6. ASSUME NEW t \in Threads, Write(t)
      PROVE  RingTypeOK'
  <2>1. UNCHANGED <<stream, rd, blk, coder>>  BY <1>6 DEF Write
  <2>2. CASE exit
    <3>1. /\ pc' = [pc EXCEPT ![t] = "done"] /\ canWrite' = [canWrite EXCEPT ![t] = FALSE]
          /\ UNCHANGED <<canRead, exit, wr, prog, bufs, out, marked, faulted>>
      BY <1>6, <2>2 DEF Write
    <3>2. pc' \in [Threads -> Places]  BY <1>1, <3>1 DEF Places
    <3>3. canWrite' \in [Threads -> BOOLEAN]  BY <1>1, <3>1
    <3>4. QED  BY <1>1, <2>1, <3>1, <3>2, <3>3 DEF RingTypeOK, Places
  <2>3. CASE ~exit
    <3>1. PICK nc \in BOOLEAN : Wrote(t, nc)  BY <1>0, <1>6, <2>3, WriteTurn
    <3>2. /\ wr' \in WriteState /\ prog' \in [need : BOOLEAN, index : Nat]
          /\ bufs' \in [Threads -> Int] /\ out' \in Seq([lo : Nat, hi : Nat])
          /\ marked' \in BOOLEAN /\ faulted' \subseteq FaultKind
      BY <1>0, <1>6, <2>3, WriteTurn
    <3>3. blk[t].finish \in BOOLEAN /\ blk[t].next \in Threads  BY <1>1, BlkFields
    <3>4. canRead' \in [Threads -> BOOLEAN]  BY <1>1, <3>1, <3>3 DEF Wrote
    <3>5. canWrite' \in [Threads -> BOOLEAN]  BY <1>1, <3>1, <3>3 DEF Wrote
    <3>6. exit' \in BOOLEAN  BY <1>1, <3>1, <3>3 DEF Wrote
    <3>7. pc' \in [Threads -> Places]  BY <1>1, <3>1 DEF Wrote, Places
    <3>8. QED  BY <1>1, <2>1, <3>2, <3>4, <3>5, <3>6, <3>7 DEF RingTypeOK, Places
  <2>4. QED  BY <2>2, <2>3
<1>7. CASE RunReturn
  <2>1. pc' \in [Threads -> Places]  BY <1>1, <1>7 DEF RunReturn, Places
  <2>2. /\ exit' \in BOOLEAN /\ canRead' \in [Threads -> BOOLEAN]
        /\ canWrite' \in [Threads -> BOOLEAN]
    BY <1>7 DEF RunReturn
  <2>3. QED  BY <1>1, <1>7, <2>1, <2>2 DEF RunReturn, RingTypeOK, Places
<1>8. QED  BY <1>2, <1>3, <1>4, <1>5, <1>6, <1>7 DEF RingNext, Step

-----------------------------------------------------------------------------
(***************************************************************************)
(* Consequences of the invariant: the reader has the highest number, every *)
(* other block in work was handed on complete, and the writer the lowest.  *)
(***************************************************************************)
LEMMA LoneReader ==
    ASSUME Ind, NEW t \in Threads, Reading(t), NEW u \in Threads, Busy(u), u # t
    PROVE  /\ Passed(u) /\ ~Reading(u) /\ ~blk[u].finish
           /\ blk[u].num < blk[t].num
           /\ blk[u].link > 0
<1>1. /\ rd.block \in Nat /\ blk[t].num \in Nat /\ blk[u].num \in Nat
      /\ blk[t].num = rd.block - 1 /\ blk[u].num < rd.block /\ blk[t].num # blk[u].num
  <2>1. Busy(t) /\ rd \in ReadState /\ blk[t] \in Block /\ blk[u] \in Block
    BY Types DEF Busy, Ind
  <2>2. QED  BY <2>1, RdFields, BlkFields DEF Ind, RingInv, OrderInv
<1>2. ~Reading(u)  BY <1>1 DEF Ind, RingInv, OrderInv
<1>3. Passed(u)  BY <1>2 DEF Busy
<1>4. ~blk[u].finish  BY <1>1, <1>3 DEF Ind, RingInv, OrderInv
<1>5. QED  BY <1>1, <1>2, <1>3, <1>4 DEF Ind, RingInv, ChainInv

\* The thread in the write section holds the only write token and the lowest
\* block.
LEMMA LoneWriter ==
    ASSUME Ind, NEW t \in Threads, pc[t] = "wait_write", canWrite[t]
    PROVE  /\ Live /\ Passed(t) /\ Busy(t)
           /\ \A u \in Threads : canWrite[u] => u = t
           /\ \A u \in Threads : Busy(u) /\ u # t => blk[t].num < blk[u].num
<1>1. Passed(t) /\ Busy(t)  BY DEF Passed, Busy
<1>2. Live  BY <1>1 DEF Ind, RingInv, TokenInv
<1>3. \A u \in Threads : canWrite[u] => u = t  BY <1>2 DEF Ind, RingInv, TokenInv
<1>4. \A u \in Threads : Busy(u) => blk[t].num <= blk[u].num
  BY <1>1, <1>2 DEF Ind, RingInv, OrderInv
<1>5. \A u \in Threads : Busy(u) /\ u # t => blk[t].num # blk[u].num
  BY <1>1 DEF Ind, RingInv, OrderInv
<1>6. \A u \in Threads : blk[u].num \in Nat
  BY Types, BlkFields DEF Ind
<1>7. QED  BY <1>1, <1>2, <1>3, <1>4, <1>5, <1>6

-----------------------------------------------------------------------------
\* Taking the read token keeps the invariant: the block gets the next number.
LEMMA ReadBeginInv ==
    ASSUME Ind, NEW t \in Threads, ReadBegin(t)
    PROVE  RingInv'
<1>0. /\ RingTypeOK /\ TokenInv /\ OrderInv /\ ReadInv /\ ChainInv /\ IntrInv /\ Gapless
  BY DEF Ind, RingInv
<1>1. /\ pc[t] = "wait_read" /\ canRead[t]
      /\ canRead' = [canRead EXCEPT ![t] = FALSE]
      /\ UNCHANGED <<stream, canWrite, exit, wr, prog, out>>
  BY DEF ReadBegin
<1>2. /\ DOMAIN pc = Threads /\ DOMAIN blk = Threads /\ DOMAIN canRead = Threads
      /\ 0 \in Threads
  BY <1>0, NumThreadsAssumption DEF RingTypeOK, Threads
<1>3. ~Busy(t) /\ ~Reading(t) /\ ~Passed(t)
  BY <1>1 DEF Busy, Reading, Passed
<1>g. Gapless'  BY <1>0, <1>1 DEF Gapless
<1>c. canRead \in [Threads -> BOOLEAN]  BY <1>0 DEF RingTypeOK
<1>4. CASE exit
  <2>1. \A u \in Threads : ~Busy(u)  BY <1>0, <1>4 DEF TokenInv, Live
  <2>2. pc' = [pc EXCEPT ![t] = "done"] /\ UNCHANGED <<rd, blk>>
    BY <1>4 DEF ReadBegin
  <2>3. \A u \in Threads : ~Busy(u)' /\ ~Reading(u)' /\ ~Passed(u)'
    BY <1>2, <2>1, <2>2 DEF Busy, Reading, Passed
  <2>4. ~Live'  BY <1>1, <1>4 DEF Live
  <2>5. TokenInv'  BY <1>0, <1>1, <1>4, <2>2, <2>3, <2>4 DEF TokenInv
  <2>6. OrderInv'  BY <2>3, <2>4 DEF OrderInv
  <2>7. ReadInv'
    <3>1. \A u \in Threads : pc'[u] # "read"  BY <2>3 DEF Reading
    <3>2. QED  BY <1>0, <1>1, <2>2, <2>3, <3>1 DEF ReadInv
  <2>8. ChainInv'
    <3>1. \A u \in Threads : pc'[u] # "pass" /\ pc'[u] # "wait_write"
      BY <2>3 DEF Reading, Passed
    <3>2. QED  BY <2>3, <2>4, <3>1 DEF ChainInv
  <2>9. IntrInv'
    <3>1. prog.need => wr.intr  BY <1>0, <2>1 DEF IntrInv, Busy
    <3>2. QED  BY <1>1, <2>3, <3>1 DEF IntrInv
  <2>10. QED  BY <1>g, <2>5, <2>6, <2>7, <2>8, <2>9 DEF RingInv
<1>5. CASE ~exit
  <2>1. PICK b \in Block :
             /\ blk' = [blk EXCEPT ![t] = b]
             /\ b.num = rd.block /\ b.link = 0 /\ b.lo = 0 /\ b.hi = 0
             /\ ~b.needWrite /\ ~b.needCode /\ ~b.allocErr /\ ~b.overflow
             /\ ~b.threadErr /\ b.codeRes = None
             /\ b.intr => Interrupted(rd.block)
             /\ pc' = [pc EXCEPT ![t] = IF b.intr THEN "pass" ELSE "read"]
             /\ rd' \in ReadState /\ rd'.block = rd.block + 1
             /\ rd'.pos = rd.pos /\ rd'.crossLo = rd.crossLo /\ rd'.crossHi = rd.crossHi
             /\ rd'.started = rd.started /\ rd'.limit = rd.limit
    BY <1>0, <1>5, BeginTurn
  <2>2. Live
    BY <1>0, <1>1, <1>5 DEF TokenInv, Live
  <2>3. /\ blk'[t] = b /\ Busy(t)' /\ Reading(t)' /\ ~Passed(t)'
        /\ pc'[t] = IF b.intr THEN "pass" ELSE "read"
    BY <1>2, <2>1 DEF Busy, Reading, Passed
  <2>4. \A u \in Threads : u # t =>
          /\ blk'[u] = blk[u] /\ pc'[u] = pc[u]
          /\ Busy(u)' <=> Busy(u)
          /\ Reading(u)' <=> Reading(u)
          /\ Passed(u)' <=> Passed(u)
    BY <1>2, <2>1 DEF Busy, Reading, Passed
  <2>5. Live'
    <3>1. pc'[0] \notin {"done", "join"}  BY <1>2, <2>2, <2>3, <2>4 DEF Live
    <3>2. QED  BY <1>1, <1>5, <3>1 DEF Live
  <2>6. \A u \in Threads : ~canRead'[u] /\ ~Reading(u)
    BY <1>0, <1>1, <1>c, <2>2 DEF TokenInv
  <2>7. \A u \in Threads : Passed(u) => ~blk[u].finish
    BY <1>0, <1>1 DEF OrderInv
  <2>8. /\ rd.block \in Nat /\ rd.started \in Nat /\ rd.limit \in Nat
        /\ \A u \in Threads : blk[u].num \in Nat
        /\ rd.crossLo \in Nat /\ rd.crossHi \in Nat /\ rd.pos \in Nat
    BY <1>0, Types, RdFields, BlkFields
  <2>9. t \in Nat /\ t < rd.started
    BY <1>0, <1>1, <2>8, NumThreadsAssumption DEF TokenInv, Threads
  <2>10. TokenInv'
    <3>1. \A u \in Threads : u >= rd'.started => pc'[u] = "off"
      <4>1. \A u \in Threads : u >= rd'.started => u # t  BY <2>1, <2>8, <2>9
      <4>2. QED  BY <1>0, <2>1, <2>4, <4>1 DEF TokenInv
    <3>2. \A v, u \in Threads : canWrite'[v] /\ canWrite'[u] => v = u
      BY <1>0, <1>1, <2>2 DEF TokenInv
    <3>3. pc'[0] # "join" /\ rd'.started <= rd'.limit
      BY <1>0, <2>1, <2>5 DEF TokenInv, Live
    <3>4. QED  BY <2>5, <2>6, <3>1, <3>2, <3>3 DEF TokenInv
  <2>11. OrderInv'
    <3>1. \A u \in Threads : Busy(u)' => blk'[u].num < rd'.block
      BY <1>0, <2>1, <2>3, <2>4, <2>8 DEF OrderInv
    <3>2. \A u \in Threads : Reading(u)' => blk'[u].num = rd'.block - 1
      BY <2>1, <2>3, <2>4, <2>6, <2>8
    <3>3. \A u, v \in Threads : Busy(u)' /\ Busy(v)' /\ u # v => blk'[u].num # blk'[v].num
      BY <1>0, <2>1, <2>3, <2>4, <2>8 DEF OrderInv
    <3>4. \A u \in Threads : Passed(u)' => ~blk'[u].finish
      BY <2>3, <2>4, <2>7
    <3>5. ASSUME NEW u \in Threads, Passed(u)'
          PROVE  (Busy(blk[u].next) /\ blk[blk[u].next].num = blk[u].num + 1)'
      <4>1. u # t /\ Passed(u) /\ ~blk[u].finish /\ blk'[u] = blk[u]
        BY <2>3, <2>4, <2>7, <3>5
      <4>2. PICK n \in Threads : n = blk[u].next  BY <1>0, Types, BlkFields
      <4>3. CASE blk[u].num = rd.block - 1 /\ canRead[n]
        <5>1. n = t  BY <1>0, <1>1, <2>2, <4>3 DEF TokenInv
        <5>2. Busy(n)' /\ blk'[n].num = blk[u].num + 1
          BY <2>1, <2>3, <2>8, <4>3, <5>1
        <5>3. QED  BY <4>1, <4>2, <5>2 DEF Busy, Reading, Passed
      <4>4. CASE Busy(n) /\ blk[n].num = blk[u].num + 1
        <5>1. n # t  BY <1>3, <4>4
        <5>2. Busy(n)' /\ blk'[n].num = blk[u].num + 1  BY <2>4, <4>4, <5>1
        <5>3. QED  BY <4>1, <4>2, <5>2 DEF Busy, Reading, Passed
      <4>5. QED  BY <1>0, <4>1, <4>2, <4>3, <4>4 DEF OrderInv
    <3>6. ASSUME NEW w \in Threads, canWrite'[w]
          PROVE  Busy(w)' /\ \A u \in Threads : Busy(u)' => blk'[w].num <= blk'[u].num
      <4>1. canWrite[w]  BY <1>1, <3>6
      <4>2. CASE Busy(w) /\ \A u \in Threads : Busy(u) => blk[w].num <= blk[u].num
        <5>1. w # t /\ Busy(w)' /\ blk'[w] = blk[w] /\ blk[w].num < rd.block
          BY <1>0, <1>3, <2>4, <4>2 DEF OrderInv
        <5>2. QED  BY <2>1, <2>3, <2>4, <2>8, <4>2, <5>1
      <4>3. CASE canRead[w] /\ \A u \in Threads : ~Busy(u)
        <5>1. w = t  BY <1>0, <1>1, <2>2, <4>3 DEF TokenInv
        <5>2. QED  BY <2>1, <2>3, <2>4, <2>8, <4>3, <5>1
      <4>4. QED  BY <1>0, <2>2, <4>1, <4>2, <4>3 DEF OrderInv
    <3>7. QED  BY <3>1, <3>2, <3>3, <3>4, <3>5, <3>6 DEF OrderInv
  <2>12. ReadInv'
    <3>1. \A u \in Threads : u # t => pc'[u] # "read"  BY <2>4, <2>6 DEF Reading
    <3>2. \A u \in Threads : Busy(u)' => /\ blk'[u].lo <= blk'[u].hi
                                         /\ blk'[u].needWrite => blk'[u].link > 0
      BY <1>0, <2>1, <2>3, <2>4 DEF ReadInv
    <3>3. pc'[t] = "read" => ~blk'[t].intr  BY <2>3
    <3>4. QED  BY <1>0, <1>1, <2>1, <2>3, <3>1, <3>2, <3>3 DEF ReadInv
  <2>13. Frontier' = Frontier  BY <2>1 DEF Frontier
  <2>14. Start(t)' = Frontier /\ \A u \in Threads : u # t => Start(u)' = Start(u)
    BY <2>1, <2>3, <2>4, <2>13 DEF Start
  <2>15. ChainInv'
    <3>1. ASSUME NEW u \in Threads, pc'[u] = "pass"
          PROVE  /\ BlockEnds(u)'
                 /\ ~blk'[u].finish /\ ~blk'[u].intr => blk'[u].hi = Frontier'
      <4>1. u = t  BY <2>4, <2>6, <3>1 DEF Reading
      <4>2. blk'[u].intr  BY <2>3, <3>1, <4>1
      <4>3. QED  BY <4>2 DEF BlockEnds
    <3>2. ASSUME NEW u \in Threads, Passed(u)'
          PROVE  /\ BlockEnds(u)'
                 /\ ~blk'[u].finish => /\ blk'[u].link > 0
                             /\ blk'[u].state = "new" /\ blk'[u].status = "new"
                             /\ blk'[u].parsed = blk'[u].hi
                 /\ blk'[u].num # rd'.block - 1
      <4>1. u # t /\ Passed(u) /\ blk'[u] = blk[u] /\ Busy(u)  BY <2>3, <2>4, <3>2 DEF Busy
      <4>2. blk[u].num < rd.block  BY <1>0, <4>1 DEF OrderInv
      <4>3. BlockEnds(u)  BY <1>0, <4>1 DEF ChainInv
      <4>4. BlockEnds(u)'  BY <2>13, <4>1, <4>3 DEF BlockEnds
      <4>5. QED  BY <1>0, <2>1, <2>8, <4>1, <4>2, <4>4 DEF ChainInv
    <3>3. ASSUME NEW u \in Threads, Passed(u)', NEW v \in Threads, Busy(v)',
                 blk'[v].num = blk'[u].num + 1
          PROVE  blk'[u].hi = Start(v)'
      <4>1. u # t /\ Passed(u) /\ blk'[u] = blk[u] /\ ~blk[u].finish
        BY <2>3, <2>4, <2>7, <3>3
      <4>2. CASE v = t
        <5>1. blk[u].num = rd.block - 1  BY <2>1, <2>3, <2>8, <3>3, <4>1, <4>2
        <5>2. QED  BY <1>0, <2>14, <4>1, <4>2, <5>1 DEF ChainInv
      <4>3. CASE v # t
        <5>1. Busy(v) /\ blk[v].num = blk[u].num + 1 /\ Start(v)' = Start(v)
          BY <2>4, <2>14, <3>3, <4>1, <4>3
        <5>2. QED  BY <1>0, <4>1, <5>1 DEF ChainInv
      <4>4. QED  BY <4>2, <4>3
    <3>4. \A u \in Threads : /\ pc'[u] = "wait_write"
                             /\ blk'[u].needCode /\ ~blk'[u].intr /\ blk'[u].codeRes = None
                             => blk'[u].coded = blk'[u].hi
      BY <1>0, <2>3, <2>4 DEF ChainInv
    <3>5. ASSUME ~wr'.intr, NEW w \in Threads, canWrite'[w]
          PROVE  Busy(w)' /\ Delivered' = Start(w)'
      <4>1. ~wr.intr /\ canWrite[w] /\ Delivered' = Delivered  BY <1>1, <3>5 DEF Delivered
      <4>2. Delivered = IF Busy(w) THEN Start(w) ELSE Frontier
        BY <1>0, <2>2, <4>1 DEF ChainInv
      <4>3. CASE Busy(w)  BY <1>3, <2>4, <2>14, <4>1, <4>2, <4>3
      <4>4. CASE ~Busy(w)
        <5>1. canRead[w]  BY <1>0, <2>2, <4>1, <4>4 DEF OrderInv
        <5>2. w = t  BY <1>0, <1>1, <2>2, <5>1 DEF TokenInv
        <5>3. QED  BY <2>3, <2>14, <4>1, <4>2, <4>4, <5>2
      <4>5. QED  BY <4>3, <4>4
    <3>6. QED  BY <3>1, <3>2, <3>3, <3>4, <3>5 DEF ChainInv
  <2>16. IntrInv'
    <3>1. ASSUME ~wr.intr, prog.need
          PROVE  \E u \in Threads : Passed(u)' /\ blk'[u].codeRes # None
                                    /\ blk'[u].num <= prog'.index
      <4>1. PICK u \in Threads : Passed(u) /\ blk[u].codeRes # None /\ blk[u].num <= prog.index
        BY <1>0, <3>1 DEF IntrInv
      <4>2. u # t  BY <1>3, <4>1
      <4>3. QED  BY <1>1, <2>4, <4>1, <4>2
    <3>2. ASSUME ~wr.intr, NEW v \in Threads, Busy(v)', blk'[v].intr
          PROVE  \E u \in Threads : Passed(u)' /\ blk'[u].codeRes # None
                                    /\ blk'[u].num < blk'[v].num
      <4>1. CASE v # t
        <5>1. PICK u \in Threads : Passed(u) /\ blk[u].codeRes # None /\ blk[u].num < blk[v].num
          BY <1>0, <2>4, <3>2, <4>1 DEF IntrInv
        <5>2. u # t  BY <1>3, <5>1
        <5>3. QED  BY <2>4, <4>1, <5>1, <5>2
      <4>2. CASE v = t
        <5>1. prog.need /\ rd.block > prog.index  BY <2>1, <2>3, <3>2, <4>2 DEF Interrupted
        <5>2. PICK u \in Threads : Passed(u) /\ blk[u].codeRes # None /\ blk[u].num <= prog.index
          BY <1>0, <3>2, <5>1 DEF IntrInv
        <5>3. u # t /\ prog.index \in Nat  BY <1>0, <1>3, <5>2 DEF RingTypeOK
        <5>4. QED  BY <2>1, <2>3, <2>4, <2>8, <4>2, <5>1, <5>2, <5>3
      <4>3. QED  BY <4>1, <4>2
    <3>3. QED  BY <1>1, <3>1, <3>2 DEF IntrInv
  <2>17. QED  BY <1>g, <2>10, <2>11, <2>12, <2>15, <2>16 DEF RingInv
<1>6. QED  BY <1>4, <1>5

\* A turn of the read loop keeps the invariant: only the reader sees the
\* frontier move.
LEMMA ReadLinkInv ==
    ASSUME Ind, NEW t \in Threads, ReadLink(t)
    PROVE  RingInv'
<1>0. /\ RingTypeOK /\ TokenInv /\ OrderInv /\ ReadInv /\ ChainInv /\ IntrInv /\ Gapless
  BY DEF Ind, RingInv
<1>1. PICK w, b, r : /\ GoodTurn(t, w, b, r)
                     /\ blk' = [blk EXCEPT ![t] = b] /\ rd' = r
                     /\ pc' = [pc EXCEPT ![t] = w]
  BY <1>0, ReadTurn
<1>2. /\ pc[t] = "read"
      /\ UNCHANGED <<stream, canRead, canWrite, exit, wr, prog, out, marked>>
  BY DEF ReadLink
<1>3. /\ DOMAIN pc = Threads /\ DOMAIN blk = Threads /\ 0 \in Threads
  BY <1>0, NumThreadsAssumption DEF RingTypeOK, Threads
<1>4. Reading(t) /\ Busy(t) /\ ~Passed(t)  BY <1>2 DEF Busy, Reading, Passed
<1>5. Live  BY <1>0, <1>4 DEF TokenInv
<1>6. /\ blk'[t] = b /\ pc'[t] = w /\ Busy(t)' /\ Reading(t)' /\ ~Passed(t)'
      /\ b.num = blk[t].num /\ pc'[t] \in {"read", "pass"} /\ ~b.intr
  BY <1>1, <1>3 DEF Busy, Reading, Passed, GoodTurn
<1>7. \A u \in Threads : u # t =>
        /\ blk'[u] = blk[u] /\ pc'[u] = pc[u]
        /\ Busy(u)' <=> Busy(u)
        /\ Reading(u)' <=> Reading(u)
        /\ Passed(u)' <=> Passed(u)
  BY <1>1, <1>3 DEF Busy, Reading, Passed
<1>8. \A u \in Threads : u # t /\ Busy(u) =>
        /\ Passed(u) /\ ~Reading(u) /\ ~blk[u].finish
        /\ blk[u].num < blk[t].num /\ blk[u].link > 0
  BY <1>4, LoneReader
<1>9. /\ rd'.block = rd.block /\ rd'.started = rd.started /\ rd'.limit = rd.limit
  BY <1>1 DEF GoodTurn
<1>10. \A u \in Threads : blk'[u].num = blk[u].num /\ (Busy(u)' <=> Busy(u))
                          /\ (Reading(u)' <=> Reading(u)) /\ (Passed(u)' <=> Passed(u))
  BY <1>4, <1>6, <1>7
<1>11. Live'
  <2>1. pc'[0] \notin {"done", "join"}  BY <1>3, <1>5, <1>6, <1>7 DEF Live
  <2>2. QED  BY <1>2, <1>5, <2>1 DEF Live
<1>12. rd.block \in Nat /\ \A u \in Threads : blk[u].num \in Nat
  BY <1>0, Types, RdFields, BlkFields
<1>13. blk[t].num = rd.block - 1  BY <1>0, <1>4 DEF OrderInv
<1>14. TokenInv'
  <2>1. t \in Nat /\ rd.started \in Nat /\ t < rd.started
    <3>1. t \in Nat /\ rd.started \in Nat  BY <1>0, Types, RdFields, NumThreadsAssumption DEF Threads
    <3>2. QED  BY <1>0, <1>2, <3>1 DEF TokenInv
  <2>2. \A u \in Threads : u >= rd'.started => pc'[u] = "off"
    <3>1. \A u \in Threads : u >= rd'.started => u # t  BY <1>9, <2>1
    <3>2. QED  BY <1>0, <1>7, <1>9, <3>1 DEF TokenInv
  <2>3. pc'[0] # "join" /\ rd'.started <= rd'.limit
    BY <1>0, <1>9, <1>11 DEF TokenInv, Live
  <2>4. Live => \A v, u \in Threads :
                 /\ canRead'[v] /\ canRead'[u] => v = u
                 /\ canWrite'[v] /\ canWrite'[u] => v = u
                 /\ canRead'[v] => ~Reading(u)'
    BY <1>0, <1>2, <1>10 DEF TokenInv
  <2>5. QED  BY <1>5, <1>11, <2>2, <2>3, <2>4 DEF TokenInv
<1>15. OrderInv'
  <2>1. /\ \A u \in Threads : Busy(u)' => blk'[u].num < rd'.block
        /\ \A u \in Threads : Reading(u)' => blk'[u].num = rd'.block - 1
        /\ \A u, v \in Threads : Busy(u)' /\ Busy(v)' /\ u # v => blk'[u].num # blk'[v].num
    BY <1>0, <1>9, <1>10 DEF OrderInv
  <2>2. \A u \in Threads : Passed(u)' => ~blk'[u].finish
    BY <1>6, <1>7, <1>8 DEF Busy
  <2>3. ASSUME NEW u \in Threads, Passed(u)'
        PROVE  (\/ blk[u].num = rd.block - 1 /\ canRead[blk[u].next]
                \/ Busy(blk[u].next) /\ blk[blk[u].next].num = blk[u].num + 1)'
    <3>1. u # t /\ Passed(u) /\ ~blk[u].finish /\ blk'[u] = blk[u]
      BY <1>6, <1>7, <2>2, <2>3
    <3>2. PICK n \in Threads : n = blk[u].next  BY <1>0, Types, BlkFields
    <3>3. \/ blk[u].num = rd.block - 1 /\ canRead[n]
          \/ Busy(n) /\ blk[n].num = blk[u].num + 1
      BY <1>0, <3>1, <3>2 DEF OrderInv
    <3>4. \/ blk[u].num = rd.block - 1 /\ canRead[n]
          \/ Busy(n)' /\ blk'[n].num = blk[u].num + 1
      BY <1>10, <3>3
    <3>5. QED  BY <1>2, <1>9, <3>1, <3>2, <3>4 DEF Busy, Reading, Passed
  <2>4. \A v \in Threads : canWrite'[v] =>
            \/ Busy(v)' /\ \A u \in Threads : Busy(u)' => blk'[v].num <= blk'[u].num
            \/ canRead'[v] /\ \A u \in Threads : ~Busy(u)'
    BY <1>0, <1>2, <1>5, <1>10 DEF OrderInv
  <2>5. QED  BY <2>1, <2>2, <2>3, <2>4 DEF OrderInv
<1>16. ReadInv'
  <2>1. \A u \in Threads : u # t => pc'[u] # "read"
    <3>1. \A u \in Threads : pc[u] = "read" => Busy(u) /\ Reading(u)  BY DEF Busy, Reading
    <3>2. QED  BY <1>7, <1>8, <3>1
  <2>2. \A u \in Threads : Busy(u)' => /\ blk'[u].lo <= blk'[u].hi
                                       /\ blk'[u].needWrite => blk'[u].link > 0
    BY <1>0, <1>1, <1>6, <1>7 DEF ReadInv, GoodTurn
  <2>3. /\ rd'.pos <= Len(stream)
        /\ rd'.crossLo < rd'.crossHi => rd'.crossHi = rd'.pos
    BY <1>1 DEF GoodTurn
  <2>4. pc'[t] = "read" =>
        /\ ~blk'[t].intr /\ ~blk'[t].needCode /\ ~blk'[t].allocErr
        /\ ~blk'[t].overflow /\ ~blk'[t].threadErr /\ blk'[t].codeRes = None
        /\ blk'[t].link > 0 => /\ rd'.crossLo >= rd'.crossHi
                               /\ blk'[t].hi = rd'.pos
                               /\ blk'[t].state = "continue"
    BY <1>1, <1>6 DEF GoodTurn
  <2>5. QED  BY <1>2, <2>1, <2>2, <2>3, <2>4 DEF ReadInv
<1>17. FrontierOf(r) = Frontier'  BY <1>1 DEF Frontier, FrontierOf
<1>18. Start(t)' = Start(t)
  <2>1. IF b.link > 0 THEN b.lo = Start(t) ELSE r = rd /\ blk[t].link = 0
    BY <1>1 DEF GoodTurn
  <2>2. CASE b.link > 0  BY <1>6, <2>1, <2>2 DEF Start
  <2>3. CASE ~(b.link > 0)
    <3>1. rd' = rd /\ Frontier' = Frontier  BY <1>1, <2>1, <2>3 DEF Frontier
    <3>2. QED  BY <1>6, <2>1, <2>3, <3>1 DEF Start
  <2>4. QED  BY <2>2, <2>3
<1>19. \A u \in Threads : u # t /\ Busy(u) => Start(u)' = Start(u)
  BY <1>7, <1>8 DEF Start
<1>20. ChainInv'
  <2>1. ASSUME NEW u \in Threads, pc'[u] = "pass"
        PROVE  /\ BlockEnds(u)'
               /\ ~blk'[u].finish /\ ~blk'[u].intr => blk'[u].hi = Frontier'
    <3>1. u = t
      <4>1. pc[u] = "pass" => Busy(u) /\ Reading(u)  BY DEF Busy, Reading
      <4>2. QED  BY <1>7, <1>8, <2>1, <4>1
    <3>2. EndsAt(b, r) /\ (~b.finish => b.hi = Frontier')
      BY <1>1, <1>6, <1>17, <2>1, <3>1 DEF GoodTurn
    <3>3. QED  BY <1>6, <1>17, <3>1, <3>2 DEF BlockEnds, EndsAt
  <2>2. ASSUME NEW u \in Threads, Passed(u)'
        PROVE  /\ u # t /\ Passed(u) /\ Busy(u) /\ blk'[u] = blk[u] /\ ~blk[u].finish
               /\ BlockEnds(u)'
               /\ /\ blk'[u].link > 0
                  /\ blk'[u].state = "new" /\ blk'[u].status = "new"
                  /\ blk'[u].parsed = blk'[u].hi
               /\ blk'[u].num # rd'.block - 1
    <3>1. u # t /\ Passed(u) /\ Busy(u) /\ blk'[u] = blk[u]  BY <1>6, <1>7, <2>2 DEF Busy
    <3>2. blk[u].num < blk[t].num /\ ~blk[u].finish  BY <1>8, <3>1
    <3>3. BlockEnds(u)  BY <1>0, <3>1 DEF ChainInv
    <3>4. BlockEnds(u)'  BY <3>1, <3>2, <3>3 DEF BlockEnds
    <3>5. QED  BY <1>0, <1>9, <1>12, <1>13, <3>1, <3>2, <3>4 DEF ChainInv
  <2>3. ASSUME NEW u \in Threads, Passed(u)', NEW v \in Threads, Busy(v)',
               blk'[v].num = blk'[u].num + 1
        PROVE  blk'[u].hi = Start(v)'
    <3>1. u # t /\ Passed(u) /\ Busy(u) /\ blk'[u] = blk[u] /\ ~blk[u].finish
      BY <2>2, <2>3
    <3>2. Busy(v) /\ blk[v].num = blk[u].num + 1  BY <1>10, <2>3, <3>1
    <3>3. Start(v)' = Start(v)  BY <1>18, <1>19, <3>2
    <3>4. QED  BY <1>0, <3>1, <3>2, <3>3 DEF ChainInv
  <2>4. \A u \in Threads : /\ pc'[u] = "wait_write"
                           /\ blk'[u].needCode /\ ~blk'[u].intr /\ blk'[u].codeRes = None
                           => blk'[u].coded = blk'[u].hi
    BY <1>0, <1>6, <1>7 DEF ChainInv
  <2>5. ASSUME ~wr'.intr, NEW v \in Threads, canWrite'[v]
        PROVE  Busy(v)' /\ Delivered' = Start(v)'
    <3>1. ~wr.intr /\ canWrite[v] /\ Delivered' = Delivered  BY <1>2, <2>5 DEF Delivered
    <3>2. Delivered = IF Busy(v) THEN Start(v) ELSE Frontier
      BY <1>0, <1>5, <3>1 DEF ChainInv
    <3>3. Busy(v)  BY <1>0, <1>4, <1>5, <3>1 DEF OrderInv
    <3>4. QED  BY <1>10, <1>18, <1>19, <3>1, <3>2, <3>3
  <2>6. QED  BY <2>1, <2>2, <2>3, <2>4, <2>5 DEF ChainInv
<1>21. IntrInv'
  <2>1. \A u \in Threads : Passed(u) => Passed(u)' /\ blk'[u] = blk[u]
    BY <1>4, <1>7
  <2>2. ASSUME NEW v \in Threads, Busy(v)', blk'[v].intr
        PROVE  Busy(v) /\ blk[v].intr
    BY <1>6, <1>7, <2>2
  <2>3. QED  BY <1>0, <1>2, <1>10, <2>1, <2>2 DEF IntrInv
<1>22. Gapless'  BY <1>0, <1>2 DEF Gapless
<1>23. QED  BY <1>14, <1>15, <1>16, <1>20, <1>21, <1>22 DEF RingInv

\* Leaving the read section keeps the invariant: the block ends where the
\* frontier is.
LEMMA PassReadInv ==
    ASSUME Ind, NEW t \in Threads, PassRead(t)
    PROVE  RingInv'
<1>0. /\ RingTypeOK /\ TokenInv /\ OrderInv /\ ReadInv /\ ChainInv /\ IntrInv /\ Gapless
      /\ rd.started <= rd.limit
  BY DEF Ind, RingInv, TokenInv
<1>1. PICK b \in Block : /\ blk' = [blk EXCEPT ![t] = b]
                         /\ SameInput(b, blk[t])
                         /\ Kept(t, b) \/ Handed(t, b)
  BY <1>0, PassTurn
<1>2. /\ pc[t] = "pass"
      /\ UNCHANGED <<stream, canWrite, exit, wr, prog, out>>
  BY DEF PassRead
<1>3. /\ DOMAIN pc = Threads /\ DOMAIN blk = Threads /\ 0 \in Threads
      /\ canRead \in [Threads -> BOOLEAN]
  BY <1>0, NumThreadsAssumption DEF RingTypeOK, Threads
<1>4. Reading(t) /\ Busy(t) /\ ~Passed(t)  BY <1>2 DEF Busy, Reading, Passed
<1>5. Live /\ \A u \in Threads : ~canRead[u]  BY <1>0, <1>4 DEF TokenInv
<1>6. /\ rd'.pos = rd.pos /\ rd'.crossLo = rd.crossLo /\ rd'.crossHi = rd.crossHi
      /\ rd'.block = rd.block /\ rd'.started <= rd'.limit
      /\ \/ rd'.started = rd.started /\ pc' = [pc EXCEPT ![t] = "code"]
         \/ /\ rd'.started = rd.started + 1 /\ rd.started \in Threads
            /\ pc' = [[pc EXCEPT ![t] = "code"] EXCEPT ![rd.started] = "wait_read"]
  BY <1>0, <1>1 DEF Kept, Handed
<1>7. /\ t \in Nat /\ rd.started \in Nat /\ t < rd.started /\ rd.started > 0
  <2>1. t \in Nat /\ rd.started \in Nat /\ rd.started > 0
    <3>1. rd.started \in 1 .. NumThreads  BY <1>0, Types, RdFields
    <3>2. QED  BY <3>1, NumThreadsAssumption DEF Threads
  <2>2. QED  BY <1>0, <1>2, <2>1 DEF TokenInv
<1>8. /\ blk'[t] = b /\ pc'[t] = "code" /\ Busy(t)' /\ ~Reading(t)' /\ Passed(t)'
      /\ b.num = blk[t].num
  <2>1. blk'[t] = b /\ b.num = blk[t].num  BY <1>1, <1>3 DEF SameInput
  <2>2. pc'[t] = "code"  BY <1>3, <1>6, <1>7
  <2>3. QED  BY <2>1, <2>2 DEF Busy, Reading, Passed
<1>9. \A u \in Threads : u # t =>
        /\ blk'[u] = blk[u]
        /\ pc'[u] = pc[u] \/ (u = rd.started /\ pc'[u] = "wait_read" /\ pc[u] = "off")
  <2>1. \A u \in Threads : u # t => blk'[u] = blk[u]  BY <1>1, <1>3
  <2>2. \A u \in Threads : u = rd.started => pc[u] = "off"  BY <1>0, <1>7 DEF TokenInv
  <2>3. QED  BY <1>3, <1>6, <2>1, <2>2
<1>10. \A u \in Threads : u # t =>
        /\ Busy(u)' <=> Busy(u)
        /\ Reading(u)' <=> Reading(u)
        /\ Passed(u)' <=> Passed(u)
        /\ pc'[u] = "wait_write" <=> pc[u] = "wait_write"
  BY <1>9 DEF Busy, Reading, Passed
<1>11. \A u \in Threads : u # t /\ Busy(u) =>
        /\ Passed(u) /\ ~Reading(u) /\ ~blk[u].finish
        /\ blk[u].num < blk[t].num /\ blk[u].link > 0
  BY <1>4, LoneReader
<1>12. \A u \in Threads : blk'[u].num = blk[u].num /\ (Busy(u)' <=> Busy(u)) /\ ~Reading(u)'
  BY <1>4, <1>8, <1>9, <1>10, <1>11 DEF Busy
<1>13. Live'
  <2>1. pc'[0] \notin {"done", "join"}
    BY <1>3, <1>5, <1>7, <1>8, <1>9 DEF Live
  <2>2. QED  BY <1>2, <1>5, <2>1 DEF Live
<1>14. rd.block \in Nat /\ \A u \in Threads : blk[u].num \in Nat
  BY <1>0, Types, RdFields, BlkFields
<1>15. blk[t].num = rd.block - 1  BY <1>0, <1>4 DEF OrderInv
<1>16. b.next \in Threads  BY BlkFields
<1>17. /\ b.finish => \A u \in Threads : ~canRead'[u]
       /\ ~b.finish => \A u \in Threads : canRead'[u] <=> u = b.next
  <2>1. CASE Kept(t, b)  BY <1>5, <2>1 DEF Kept
  <2>2. CASE Handed(t, b)  BY <1>3, <1>5, <1>16, <2>2 DEF Handed
  <2>3. QED  BY <1>1, <2>1, <2>2
<1>18. TokenInv'
  <2>1. \A u \in Threads : u >= rd'.started => pc'[u] = "off"
    <3>1. ASSUME NEW u \in Threads, u >= rd'.started
          PROVE  u # t /\ u >= rd.started /\ (u = rd.started => rd'.started = rd.started)
      BY <1>6, <1>7, <3>1, NumThreadsAssumption DEF Threads
    <3>2. ASSUME NEW u \in Threads, u >= rd'.started
          PROVE  pc'[u] = pc[u]
      <4>1. u # t /\ (u = rd.started => rd'.started = rd.started)  BY <3>1, <3>2
      <4>2. rd'.started = rd.started => pc' = [pc EXCEPT ![t] = "code"]  BY <1>6, <1>7
      <4>3. QED  BY <1>3, <1>9, <4>1, <4>2
    <3>3. QED  BY <1>0, <3>1, <3>2 DEF TokenInv
  <2>2. pc'[0] # "join" /\ rd'.started <= rd'.limit
    BY <1>6, <1>13 DEF Live
  <2>3. \A v, u \in Threads :
                 /\ canRead'[v] /\ canRead'[u] => v = u
                 /\ canWrite'[v] /\ canWrite'[u] => v = u
                 /\ canRead'[v] => ~Reading(u)'
    BY <1>0, <1>2, <1>5, <1>12, <1>17 DEF TokenInv
  <2>4. QED  BY <1>13, <2>1, <2>2, <2>3 DEF TokenInv
<1>19. OrderInv'
  <2>1. /\ \A u \in Threads : Busy(u)' => blk'[u].num < rd'.block
        /\ \A u, v \in Threads : Busy(u)' /\ Busy(v)' /\ u # v => blk'[u].num # blk'[v].num
    BY <1>0, <1>6, <1>12 DEF OrderInv
  <2>2. \A u \in Threads : Passed(u)' /\ blk'[u].finish => u = t
    BY <1>9, <1>10, <1>11 DEF Busy
  <2>3. \A u \in Threads : Passed(u)' /\ blk'[u].finish =>
            blk'[u].num = rd'.block - 1 /\ \A v \in Threads : ~canRead'[v]
    BY <1>6, <1>8, <1>15, <1>17, <2>2
  <2>4. ASSUME NEW u \in Threads, Passed(u)', ~blk'[u].finish
        PROVE  (\/ blk[u].num = rd.block - 1 /\ canRead[blk[u].next]
                \/ Busy(blk[u].next) /\ blk[blk[u].next].num = blk[u].num + 1)'
    <3>1. CASE u = t
      BY <1>6, <1>8, <1>15, <1>16, <1>17, <2>4, <3>1
    <3>2. CASE u # t
      <4>1. Passed(u) /\ Busy(u) /\ ~blk[u].finish /\ blk'[u] = blk[u]
        BY <1>9, <1>10, <2>4, <3>2 DEF Busy
      <4>2. PICK n \in Threads : n = blk[u].next  BY <1>0, Types, BlkFields
      <4>3. Busy(n) /\ blk[n].num = blk[u].num + 1
        BY <1>0, <1>5, <4>1, <4>2 DEF OrderInv
      <4>4. Busy(n)' /\ blk'[n].num = blk[u].num + 1  BY <1>12, <4>3
      <4>5. QED  BY <4>1, <4>2, <4>4 DEF Busy, Reading, Passed
    <3>3. QED  BY <3>1, <3>2
  <2>5. \A v \in Threads : canWrite'[v] =>
            Busy(v)' /\ \A u \in Threads : Busy(u)' => blk'[v].num <= blk'[u].num
    BY <1>0, <1>2, <1>4, <1>5, <1>12 DEF OrderInv
  <2>6. QED  BY <1>12, <2>1, <2>3, <2>4, <2>5 DEF OrderInv
<1>20. ReadInv'
  <2>1. \A u \in Threads : pc'[u] # "read"  BY <1>12 DEF Reading
  <2>2. \A u \in Threads : Busy(u)' => /\ blk'[u].lo <= blk'[u].hi
                                       /\ blk'[u].needWrite => blk'[u].link > 0
    BY <1>0, <1>1, <1>4, <1>8, <1>9, <1>10 DEF ReadInv, SameInput
  <2>3. QED  BY <1>0, <1>2, <1>6, <2>1, <2>2 DEF ReadInv
<1>21. Frontier' = Frontier  BY <1>6 DEF Frontier
<1>22. \A u \in Threads : Start(u)' = Start(u)
  BY <1>1, <1>8, <1>9, <1>21 DEF Start, SameInput
<1>23. /\ BlockEnds(t)'
       /\ ~b.finish => /\ b.link > 0 /\ b.state = "new" /\ b.status = "new"
                       /\ b.parsed = b.hi /\ b.hi = Frontier
  <2>1. BlockEnds(t) /\ (~blk[t].finish /\ ~blk[t].intr => blk[t].hi = Frontier)
    BY <1>0, <1>2 DEF ChainInv
  <2>2. CASE Kept(t, b)
    BY <1>1, <1>8, <1>21, <2>1, <2>2 DEF Kept, BlockEnds, SameInput, Unusable
  <2>3. CASE Handed(t, b)
    BY <1>1, <1>8, <1>21, <2>1, <2>3 DEF Handed, BlockEnds, SameInput
  <2>4. QED  BY <1>1, <2>2, <2>3
<1>24. ChainInv'
  <2>1. \A u \in Threads : pc'[u] # "pass"  BY <1>12 DEF Reading
  <2>2. ASSUME NEW u \in Threads, Passed(u)'
        PROVE  /\ BlockEnds(u)'
               /\ ~blk'[u].finish => /\ blk'[u].link > 0
                             /\ blk'[u].state = "new" /\ blk'[u].status = "new"
                             /\ blk'[u].parsed = blk'[u].hi
               /\ ~blk'[u].finish /\ blk'[u].num = rd'.block - 1 => blk'[u].hi = Frontier'
    <3>1. CASE u = t  BY <1>8, <1>21, <1>23, <3>1
    <3>2. CASE u # t
      <4>1. Passed(u) /\ blk'[u] = blk[u]  BY <1>9, <1>10, <2>2, <3>2
      <4>2. BlockEnds(u)'
        <5>1. BlockEnds(u)  BY <1>0, <4>1 DEF ChainInv
        <5>2. QED  BY <1>21, <4>1, <5>1 DEF BlockEnds
      <4>3. QED  BY <1>0, <1>6, <1>21, <4>1, <4>2 DEF ChainInv
    <3>3. QED  BY <3>1, <3>2
  <2>3. ASSUME NEW u \in Threads, Passed(u)', ~blk'[u].finish, NEW v \in Threads, Busy(v)',
               blk'[v].num = blk'[u].num + 1
        PROVE  blk'[u].hi = Start(v)'
    <3>1. Busy(v) /\ blk[v].num < rd.block /\ blk[v].num = blk[u].num + 1
      BY <1>0, <1>12, <2>3 DEF OrderInv
    <3>2. u # t  BY <1>14, <1>15, <3>1
    <3>3. Passed(u) /\ blk'[u] = blk[u] /\ ~blk[u].finish  BY <1>9, <1>10, <2>3, <3>2
    <3>4. QED  BY <1>0, <1>22, <3>1, <3>3 DEF ChainInv
  <2>4. \A u \in Threads : /\ pc'[u] = "wait_write"
                           /\ blk'[u].needCode /\ ~blk'[u].intr /\ blk'[u].codeRes = None
                           => blk'[u].coded = blk'[u].hi
    BY <1>0, <1>8, <1>9, <1>10 DEF ChainInv
  <2>5. ASSUME ~wr'.intr, NEW v \in Threads, canWrite'[v]
        PROVE  Busy(v)' /\ Delivered' = Start(v)'
    <3>1. ~wr.intr /\ canWrite[v] /\ Delivered' = Delivered  BY <1>2, <2>5 DEF Delivered
    <3>2. Delivered = IF Busy(v) THEN Start(v) ELSE Frontier
      BY <1>0, <1>5, <3>1 DEF ChainInv
    <3>3. Busy(v)  BY <1>0, <1>4, <1>5, <3>1 DEF OrderInv
    <3>4. QED  BY <1>12, <1>22, <3>1, <3>2, <3>3
  <2>6. QED  BY <2>1, <2>2, <2>3, <2>4, <2>5 DEF ChainInv
<1>25. IntrInv'
  <2>1. \A u \in Threads : Passed(u) => Passed(u)' /\ blk'[u] = blk[u]
    BY <1>4, <1>9, <1>10
  <2>2. ASSUME ~wr.intr, NEW v \in Threads, Busy(v)', blk'[v].intr
        PROVE  \E u \in Threads :
                 Passed(u) /\ blk[u].codeRes # None /\ blk[u].num < blk[v].num
    <3>1. CASE blk[v].intr  BY <1>0, <1>12, <2>2, <3>1 DEF IntrInv
    <3>2. CASE ~blk[v].intr
      <4>1. v = t /\ b.intr  BY <1>8, <1>9, <2>2, <3>2
      <4>2. Interrupted(blk[t].num)  BY <1>1, <3>2, <4>1 DEF Kept, Handed
      <4>3. PICK u \in Threads :
               Passed(u) /\ blk[u].codeRes # None /\ blk[u].num <= prog.index
        BY <1>0, <2>2, <4>2 DEF IntrInv, Interrupted
      <4>4. prog.index \in Nat  BY <1>0 DEF RingTypeOK
      <4>5. QED  BY <1>14, <4>1, <4>2, <4>3, <4>4 DEF Interrupted
    <3>3. QED  BY <3>1, <3>2
  <2>3. QED  BY <1>0, <1>2, <1>12, <2>1, <2>2 DEF IntrInv
<1>26. Gapless'  BY <1>0, <1>2 DEF Gapless
<1>27. QED  BY <1>18, <1>19, <1>20, <1>24, <1>25, <1>26 DEF RingInv

\* Decoding keeps the invariant: it moves no token and no offset of a block.
LEMMA CodeLinkInv ==
    ASSUME Ind, NEW t \in Threads, CodeLink(t)
    PROVE  RingInv'
<1>0. /\ RingTypeOK /\ TokenInv /\ OrderInv /\ ReadInv /\ ChainInv /\ IntrInv /\ Gapless
  BY DEF Ind, RingInv
<1>1. PICK c \in Block : blk' = [blk EXCEPT ![t] = c] /\ Coded(t, c)
  BY <1>0, CodeTurn
<1>2. /\ pc[t] = "code"
      /\ UNCHANGED <<stream, canRead, canWrite, exit, rd, wr, out>>
  BY DEF CodeLink
<1>3. /\ DOMAIN pc = Threads /\ DOMAIN blk = Threads /\ 0 \in Threads
  BY <1>0, NumThreadsAssumption DEF RingTypeOK, Threads
<1>4. Busy(t) /\ ~Reading(t) /\ Passed(t)  BY <1>2 DEF Busy, Reading, Passed
<1>5. Live  BY <1>0, <1>4 DEF TokenInv
<1>6. /\ blk'[t] = c /\ pc'[t] \in {"code", "wait_write"}
      /\ c.num = blk[t].num /\ c.finish = blk[t].finish /\ c.next = blk[t].next
      /\ c.hi = blk[t].hi /\ c.lo = blk[t].lo /\ c.link = blk[t].link
      /\ c.state = blk[t].state /\ c.status = blk[t].status /\ c.parsed = blk[t].parsed
      /\ c.needWrite = blk[t].needWrite
  BY <1>1, <1>3 DEF Coded, SameInput
<1>7. \A u \in Threads : u # t => blk'[u] = blk[u] /\ pc'[u] = pc[u]
  BY <1>1, <1>3 DEF Coded
<1>8. \A u \in Threads :
        /\ Busy(u)' <=> Busy(u)
        /\ Reading(u)' <=> Reading(u)
        /\ Passed(u)' <=> Passed(u)
  BY <1>4, <1>6, <1>7 DEF Busy, Reading, Passed
<1>9. \A u \in Threads :
        /\ blk'[u].num = blk[u].num /\ blk'[u].finish = blk[u].finish
        /\ blk'[u].next = blk[u].next /\ blk'[u].hi = blk[u].hi
        /\ blk'[u].lo = blk[u].lo /\ blk'[u].link = blk[u].link
        /\ blk'[u].state = blk[u].state /\ blk'[u].status = blk[u].status
        /\ blk'[u].parsed = blk[u].parsed /\ blk'[u].needWrite = blk[u].needWrite
  BY <1>6, <1>7
<1>10. Live'
  <2>1. pc'[0] \notin {"done", "join"}  BY <1>3, <1>5, <1>6, <1>7 DEF Live
  <2>2. QED  BY <1>2, <1>5, <2>1 DEF Live
<1>11. TokenInv'
  <2>1. \A u \in Threads : u >= rd'.started => pc'[u] = "off"
    <3>1. ~(t >= rd.started)  BY <1>0, <1>2 DEF TokenInv
    <3>2. QED  BY <1>0, <1>2, <1>7, <3>1 DEF TokenInv
  <2>2. QED  BY <1>0, <1>2, <1>5, <1>8, <1>10, <2>1 DEF TokenInv, Live
<1>12. OrderInv'
  <2>1. ASSUME NEW u \in Threads, Passed(u)', ~blk'[u].finish
        PROVE  (\/ blk[u].num = rd.block - 1 /\ canRead[blk[u].next]
                \/ Busy(blk[u].next) /\ blk[blk[u].next].num = blk[u].num + 1)'
    <3>1. PICK n \in Threads : n = blk[u].next  BY <1>0, Types, BlkFields
    <3>2. \/ blk[u].num = rd.block - 1 /\ canRead[n]
          \/ Busy(n) /\ blk[n].num = blk[u].num + 1
      BY <1>0, <1>8, <1>9, <2>1, <3>1 DEF OrderInv
    <3>3. \/ blk'[u].num = rd'.block - 1 /\ canRead'[n]
          \/ Busy(n)' /\ blk'[n].num = blk'[u].num + 1
      BY <1>2, <1>8, <1>9, <3>2
    <3>4. n = blk'[u].next  BY <1>9, <3>1
    <3>5. QED  BY <3>3, <3>4 DEF Busy, Reading, Passed
  <2>2. QED  BY <1>0, <1>2, <1>5, <1>8, <1>9, <2>1 DEF OrderInv
<1>13. ReadInv'
  <2>1. \A u \in Threads : pc'[u] = "read" => pc[u] = "read" /\ blk'[u] = blk[u]
    BY <1>6, <1>7
  <2>2. QED  BY <1>0, <1>2, <1>8, <1>9, <2>1 DEF ReadInv
<1>14. Frontier' = Frontier  BY <1>2 DEF Frontier
<1>15. \A u \in Threads : Start(u)' = Start(u)  BY <1>9, <1>14 DEF Start
<1>16. \A u \in Threads : BlockEnds(u) => BlockEnds(u)'
  <2>1. BlockEnds(t) => BlockEnds(t)'
    BY <1>1, <1>6, <1>14 DEF BlockEnds, Coded
  <2>2. \A u \in Threads : u # t /\ BlockEnds(u) => BlockEnds(u)'
    BY <1>7, <1>14 DEF BlockEnds
  <2>3. QED  BY <2>1, <2>2
<1>17. ChainInv'
  <2>1. ASSUME NEW u \in Threads, pc'[u] = "pass"
        PROVE  /\ BlockEnds(u)'
               /\ ~blk'[u].finish /\ ~blk'[u].intr => blk'[u].hi = Frontier'
    <3>1. pc[u] = "pass" /\ blk'[u] = blk[u]  BY <1>6, <1>7, <2>1
    <3>2. QED  BY <1>0, <1>14, <1>16, <3>1 DEF ChainInv
  <2>2. ASSUME NEW u \in Threads, Passed(u)'
        PROVE  /\ BlockEnds(u)'
               /\ ~blk'[u].finish => /\ blk'[u].link > 0
                             /\ blk'[u].state = "new" /\ blk'[u].status = "new"
                             /\ blk'[u].parsed = blk'[u].hi
               /\ ~blk'[u].finish /\ blk'[u].num = rd'.block - 1 => blk'[u].hi = Frontier'
               /\ ~blk'[u].finish => \A v \in Threads :
                      Busy(v)' /\ blk'[v].num = blk'[u].num + 1 => blk'[u].hi = Start(v)'
    <3>1. Passed(u)  BY <1>8, <2>2
    <3>2. QED  BY <1>0, <1>2, <1>8, <1>9, <1>14, <1>15, <1>16, <3>1 DEF ChainInv
  <2>3. ASSUME NEW u \in Threads, pc'[u] = "wait_write",
               blk'[u].needCode, ~blk'[u].intr, blk'[u].codeRes = None
        PROVE  blk'[u].coded = blk'[u].hi
    <3>1. CASE u = t
      <4>1. pc'[t] # "code"  BY <2>3, <3>1
      <4>2. pc' = [pc EXCEPT ![t] = "wait_write"]
              /\ (c.needCode /\ ~c.intr /\ c.codeRes = None => c.coded = c.hi)
        BY <1>1, <1>3, <4>1 DEF Coded
      <4>3. QED  BY <1>6, <2>3, <3>1, <4>2
    <3>2. CASE u # t  BY <1>0, <1>7, <2>3, <3>2 DEF ChainInv
    <3>3. QED  BY <3>1, <3>2
  <2>4. ASSUME ~wr'.intr, NEW v \in Threads, canWrite'[v]
        PROVE  Delivered' = IF Busy(v)' THEN Start(v)' ELSE Frontier'
    <3>1. ~wr.intr /\ canWrite[v] /\ Delivered' = Delivered  BY <1>2, <2>4 DEF Delivered
    <3>2. Delivered = IF Busy(v) THEN Start(v) ELSE Frontier
      BY <1>0, <1>5, <3>1 DEF ChainInv
    <3>3. QED  BY <1>8, <1>14, <1>15, <3>1, <3>2
  <2>5. QED  BY <2>1, <2>2, <2>3, <2>4 DEF ChainInv
<1>18. IntrInv'
  <2>1. \A u \in Threads : Passed(u) /\ blk[u].codeRes # None =>
            Passed(u)' /\ blk'[u].codeRes # None
    BY <1>1, <1>6, <1>7, <1>8 DEF Coded
  <2>2. /\ blk[t].num \in Nat /\ prog.index \in Nat
    BY <1>0, Types, BlkFields DEF RingTypeOK
  <2>3. ASSUME ~wr.intr, prog'.need
        PROVE  \E u \in Threads : Passed(u)' /\ blk'[u].codeRes # None
                                  /\ blk'[u].num <= prog'.index
    <3>1. CASE prog' = prog
      <4>1. PICK u \in Threads :
               Passed(u) /\ blk[u].codeRes # None /\ blk[u].num <= prog.index
        BY <1>0, <2>3, <3>1 DEF IntrInv
      <4>2. QED  BY <1>9, <2>1, <3>1, <4>1
    <3>2. CASE prog' # prog
      <4>1. prog' = Interrupt(blk[t].num) /\ c.codeRes # None  BY <1>1, <3>2 DEF Coded
      <4>2. prog'.index = blk[t].num  BY <3>2, <4>1 DEF Interrupt
      <4>3. Passed(t)' /\ blk'[t].codeRes # None /\ blk'[t].num <= prog'.index
        BY <1>4, <1>6, <1>8, <2>2, <4>1, <4>2
      <4>4. QED  BY <4>3
    <3>3. QED  BY <3>1, <3>2
  <2>4. ASSUME ~wr.intr, NEW v \in Threads, Busy(v)', blk'[v].intr
        PROVE  \E u \in Threads : Passed(u)' /\ blk'[u].codeRes # None
                                  /\ blk'[u].num < blk'[v].num
    <3>1. \E u \in Threads : Passed(u) /\ blk[u].codeRes # None /\ blk[u].num < blk[v].num
      <4>1. CASE blk[v].intr  BY <1>0, <1>8, <2>4, <4>1 DEF IntrInv
      <4>2. CASE ~blk[v].intr
        <5>1. v = t /\ c.intr  BY <1>6, <1>7, <2>4, <4>2
        <5>2. Interrupted(blk[t].num)  BY <1>1, <4>2, <5>1 DEF Coded
        <5>3. PICK u \in Threads :
                 Passed(u) /\ blk[u].codeRes # None /\ blk[u].num <= prog.index
          BY <1>0, <2>4, <5>2 DEF IntrInv, Interrupted
        <5>4. blk[u].num \in Nat  BY <1>0, Types, BlkFields
        <5>5. QED  BY <2>2, <5>1, <5>2, <5>3, <5>4 DEF Interrupted
      <4>3. QED  BY <4>1, <4>2
    <3>2. QED  BY <1>9, <2>1, <3>1
  <2>5. QED  BY <1>2, <2>3, <2>4 DEF IntrInv
<1>19. Gapless'  BY <1>0, <1>2 DEF Gapless
<1>20. QED  BY <1>11, <1>12, <1>13, <1>17, <1>18, <1>19 DEF RingInv

\* A piece that starts where the output ends leaves it gapless.
LEMMA GaplessAppend ==
    ASSUME NEW n \in Nat, NEW h \in Nat, out \in Seq([lo : Nat, hi : Nat]),
           Gapless, Delivered = n, out' = Append(out, [lo |-> n, hi |-> h])
    PROVE  Gapless' /\ Delivered' = h
<1> DEFINE e == [lo |-> n, hi |-> h]
           S == [lo : Nat, hi : Nat]
<1>1. e \in S /\ e.lo = n /\ e.hi = h  OBVIOUS
<1>2. Len(out) \in Nat /\ (out = <<>> <=> Len(out) = 0)  OBVIOUS
<1> HIDE DEF e, S
<1>3. /\ out' # <<>> /\ Len(out') = Len(out) + 1
      /\ \A i \in 1 .. Len(out) : out'[i] = out[i]
      /\ out'[Len(out) + 1] = e
  BY <1>1, AppendProperties DEF e, S
<1>4. Delivered' = h
  BY <1>1, <1>3 DEF Delivered
<1>5. out'[1].lo = 0
  <2>1. CASE Len(out) = 0  BY <1>1, <1>2, <1>3, <2>1 DEF Delivered
  <2>2. CASE Len(out) # 0
    <3>1. 1 \in 1 .. Len(out)  BY <1>2, <2>2
    <3>2. QED  BY <1>2, <1>3, <2>2, <3>1 DEF Gapless
  <2>3. QED  BY <2>1, <2>2
<1>6. ASSUME NEW i \in 1 .. Len(out') - 1
      PROVE  out'[i].hi = out'[i+1].lo
  <2>1. i \in 1 .. Len(out)  BY <1>2, <1>3
  <2>2. CASE i = Len(out)
    <3>1. out # <<>>  BY <1>2, <2>1
    <3>2. QED  BY <1>1, <1>3, <2>1, <2>2, <3>1 DEF Delivered
  <2>3. CASE i # Len(out)
    <3>1. i \in 1 .. Len(out) - 1 /\ i + 1 \in 1 .. Len(out)  BY <1>2, <2>1, <2>3
    <3>2. QED  BY <1>3, <2>1, <3>1 DEF Gapless
  <2>4. QED  BY <2>2, <2>3
<1>7. QED  BY <1>4, <1>5, <1>6 DEF Gapless

\* The write section keeps the invariant: the token goes to the block that
\* starts where the output now ends.
LEMMA WriteInv ==
    ASSUME Ind, NEW t \in Threads, Write(t)
    PROVE  RingInv'
<1>0. /\ RingTypeOK /\ TokenInv /\ OrderInv /\ ReadInv /\ ChainInv /\ IntrInv /\ Gapless
  BY DEF Ind, RingInv
<1>1. /\ pc[t] = "wait_write" /\ canWrite[t] /\ UNCHANGED <<stream, rd, blk>>
  BY DEF Write
<1>2. /\ Live /\ Passed(t) /\ Busy(t)
      /\ \A u \in Threads : canWrite[u] => u = t
      /\ \A u \in Threads : Busy(u) /\ u # t => blk[t].num < blk[u].num
  BY <1>1, LoneWriter
<1>3. PICK nc \in BOOLEAN : Wrote(t, nc)
  BY <1>0, <1>2, WriteTurn DEF Live
<1>4. /\ DOMAIN pc = Threads /\ 0 \in Threads
      /\ canRead \in [Threads -> BOOLEAN] /\ canWrite \in [Threads -> BOOLEAN]
      /\ exit \in BOOLEAN
  BY <1>0, NumThreadsAssumption DEF RingTypeOK, Threads
<1>5. /\ rd.block \in Nat /\ \A u \in Threads : blk[u].num \in Nat
      /\ blk[t].next \in Threads /\ blk[t].finish \in BOOLEAN
      /\ blk[t].lo \in Nat /\ blk[t].coded \in Nat
  BY <1>0, Types, RdFields, BlkFields
<1>6. /\ pc' = [pc EXCEPT ![t] = IF blk[t].finish /\ ~nc /\ t = 0
                                 THEN "done" ELSE "wait_read"]
      /\ exit' = (exit \/ (blk[t].finish /\ ~nc /\ t # 0))
  BY <1>3 DEF Wrote
<1>7. /\ ~Busy(t)' /\ ~Reading(t)' /\ ~Passed(t)'
      /\ \A u \in Threads : u # t => /\ pc'[u] = pc[u]
                                     /\ Busy(u)' <=> Busy(u)
                                     /\ Reading(u)' <=> Reading(u)
                                     /\ Passed(u)' <=> Passed(u)
      /\ pc'[t] \in {"wait_read", "done"}
  BY <1>4, <1>6 DEF Busy, Reading, Passed
<1>8. Frontier' = Frontier /\ \A u \in Threads : Start(u)' = Start(u)
  BY <1>1 DEF Frontier, Start
\* The last block has nobody behind it.
<1>9. blk[t].finish => /\ \A u \in Threads : ~canRead[u]
                       /\ \A u \in Threads : Busy(u) => u = t
  <2>1. HAVE blk[t].finish
  <2>2. blk[t].num = rd.block - 1 /\ \A u \in Threads : ~canRead[u]
    BY <1>0, <1>2, <2>1 DEF OrderInv
  <2>3. \A u \in Threads : Busy(u) => blk[u].num < rd.block  BY <1>0 DEF OrderInv
  <2>4. QED  BY <1>2, <1>5, <2>2, <2>3
<1>10. Live' <=> (blk[t].finish => nc)
  <2>1. ~exit /\ pc[0] \notin {"done", "join"}  BY <1>2 DEF Live
  <2>2. exit' <=> (blk[t].finish /\ ~nc /\ t # 0)  BY <1>6, <2>1
  <2>3. pc'[0] \in {"done", "join"} <=> (blk[t].finish /\ ~nc /\ t = 0)
    BY <1>4, <1>6, <2>1
  <2>4. QED  BY <2>2, <2>3 DEF Live
<1>11. /\ blk[t].finish /\ nc => \A u \in Threads : (canRead'[u] <=> u = 0)
                                                    /\ (canWrite'[u] <=> u = 0)
       /\ ~blk[t].finish => \A u \in Threads : (canRead'[u] <=> canRead[u])
                                              /\ (canWrite'[u] <=> u = blk[t].next)
  <2>1. /\ canWrite' = [u \in Threads |-> \/ canWrite[u] /\ u # t
                                          \/ ~blk[t].finish /\ u = blk[t].next
                                          \/ blk[t].finish /\ nc /\ u = 0]
        /\ canRead' = [canRead EXCEPT ![0] = @ \/ (blk[t].finish /\ (nc \/ t # 0))]
    BY <1>3 DEF Wrote
  <2>2. blk[t].finish /\ nc => \A u \in Threads : canRead'[u] <=> u = 0
    BY <1>4, <1>9, <2>1
  <2>3. ~blk[t].finish => \A u \in Threads : canRead'[u] <=> canRead[u]
    BY <1>4, <2>1
  <2>4. ASSUME NEW u \in Threads
        PROVE  canWrite'[u] <=> ((~blk[t].finish /\ u = blk[t].next)
                                 \/ (blk[t].finish /\ nc /\ u = 0))
    <3>1. canWrite[u] => u = t  BY <1>2
    <3>2. canWrite'[u] = (\/ canWrite[u] /\ u # t
                          \/ ~blk[t].finish /\ u = blk[t].next
                          \/ blk[t].finish /\ nc /\ u = 0)
      BY <2>1
    <3>3. QED  BY <3>1, <3>2
  <2>5. blk[t].finish /\ nc => \A u \in Threads : canWrite'[u] <=> u = 0  BY <2>4
  <2>6. ~blk[t].finish => \A u \in Threads : canWrite'[u] <=> u = blk[t].next  BY <2>4
  <2>7. QED  BY <2>2, <2>3, <2>5, <2>6
\* The thread the write token goes to is next in line.
<1>12. ASSUME ~blk[t].finish
       PROVE  \/ /\ Busy(blk[t].next) /\ blk[t].next # t
                 /\ blk[blk[t].next].num = blk[t].num + 1
              \/ /\ canRead[blk[t].next] /\ blk[t].num = rd.block - 1
                 /\ \A u \in Threads : Busy(u) => u = t
  <2>1. PICK n \in Threads : n = blk[t].next  BY <1>5
  <2>2. \/ blk[t].num = rd.block - 1 /\ canRead[n]
        \/ Busy(n) /\ blk[n].num = blk[t].num + 1
    BY <1>0, <1>2, <1>12, <2>1 DEF OrderInv
  <2>3. CASE blk[t].num = rd.block - 1 /\ canRead[n]
    <3>1. \A u \in Threads : Busy(u) => blk[u].num < rd.block  BY <1>0 DEF OrderInv
    <3>2. \A u \in Threads : Busy(u) => u = t  BY <1>2, <1>5, <2>3, <3>1
    <3>3. QED  BY <2>1, <2>3, <3>2
  <2>4. CASE Busy(n) /\ blk[n].num = blk[t].num + 1
    <3>1. n # t  BY <1>5, <2>4
    <3>2. QED  BY <2>1, <2>4, <3>1
  <2>5. QED  BY <2>2, <2>3, <2>4
<1>13. TokenInv'
  <2>1. \A u \in Threads : Busy(u)' => Live'
    BY <1>7, <1>9, <1>10
  <2>2. pc'[0] # "join"
    BY <1>2, <1>4, <1>7 DEF Live
  <2>3. ASSUME ~exit', ~Live'
        PROVE  \A u \in Threads : ~canRead'[u]
    <3>1. blk[t].finish /\ ~nc /\ t = 0  BY <1>6, <1>10, <2>3
    <3>2. canRead' = [canRead EXCEPT ![0] = @ \/ (blk[t].finish /\ (nc \/ t # 0))]
      BY <1>3 DEF Wrote
    <3>3. QED  BY <1>4, <1>9, <3>1, <3>2
  <2>4. ASSUME Live'
        PROVE  \A v, u \in Threads :
                 /\ canRead'[v] /\ canRead'[u] => v = u
                 /\ canWrite'[v] /\ canWrite'[u] => v = u
                 /\ canRead'[v] => ~Reading(u)'
    <3>1. CASE blk[t].finish
      BY <1>7, <1>9, <1>10, <1>11, <2>4, <3>1 DEF Busy
    <3>2. CASE ~blk[t].finish
      BY <1>0, <1>2, <1>7, <1>11, <3>2 DEF TokenInv
    <3>3. QED  BY <3>1, <3>2
  <2>5. \A u \in Threads : u >= rd'.started => pc'[u] = "off"
    <3>1. ~(t >= rd.started)  BY <1>0, <1>1 DEF TokenInv
    <3>2. QED  BY <1>0, <1>1, <1>7, <3>1 DEF TokenInv
  <2>6. QED  BY <1>0, <1>1, <2>1, <2>2, <2>3, <2>4, <2>5 DEF TokenInv
<1>14. OrderInv'
  <2>1. /\ \A u \in Threads : Busy(u)' => blk'[u].num < rd'.block
        /\ \A u \in Threads : Reading(u)' => blk'[u].num = rd'.block - 1
        /\ \A u, v \in Threads : Busy(u)' /\ Busy(v)' /\ u # v => blk'[u].num # blk'[v].num
    BY <1>0, <1>1, <1>7 DEF OrderInv
  <2>2. ASSUME NEW u \in Threads, Passed(u)'
        PROVE  u # t /\ Passed(u) /\ Busy(u) /\ ~blk[t].finish
    BY <1>7, <1>9, <2>2 DEF Busy
  <2>3. ASSUME NEW u \in Threads, Passed(u)', blk'[u].finish
        PROVE  blk'[u].num = rd'.block - 1 /\ \A v \in Threads : ~canRead'[v]
    <3>1. Passed(u) /\ blk[u].finish /\ ~blk[t].finish  BY <1>1, <2>2, <2>3
    <3>2. QED  BY <1>0, <1>1, <1>11, <3>1 DEF OrderInv
  <2>4. ASSUME NEW u \in Threads, Passed(u)', ~blk'[u].finish
        PROVE  (\/ blk[u].num = rd.block - 1 /\ canRead[blk[u].next]
                \/ Busy(blk[u].next) /\ blk[blk[u].next].num = blk[u].num + 1)'
    <3>1. u # t /\ Passed(u) /\ Busy(u) /\ ~blk[t].finish /\ ~blk[u].finish
      BY <1>1, <2>2, <2>4
    <3>2. PICK n \in Threads : n = blk[u].next  BY <1>0, Types, BlkFields
    <3>3. \/ blk[u].num = rd.block - 1 /\ canRead[n]
          \/ Busy(n) /\ blk[n].num = blk[u].num + 1
      BY <1>0, <3>1, <3>2 DEF OrderInv
    <3>4. Busy(n) /\ blk[n].num = blk[u].num + 1 => n # t
      BY <1>2, <1>5, <3>1
    <3>5. \/ blk[u].num = rd.block - 1 /\ canRead'[n]
          \/ Busy(n)' /\ blk[n].num = blk[u].num + 1
      BY <1>7, <1>11, <3>1, <3>3, <3>4
    <3>6. QED  BY <1>1, <3>2, <3>5 DEF Busy, Reading, Passed
  <2>5. ASSUME Live', NEW w \in Threads, canWrite'[w]
        PROVE  \/ Busy(w)' /\ \A u \in Threads : Busy(u)' => blk'[w].num <= blk'[u].num
               \/ canRead'[w] /\ \A u \in Threads : ~Busy(u)'
    <3>1. CASE blk[t].finish
      BY <1>7, <1>9, <1>10, <1>11, <2>5, <3>1
    <3>2. CASE ~blk[t].finish
      <4>1. w = blk[t].next  BY <1>11, <2>5, <3>2
      <4>2. CASE Busy(w) /\ w # t /\ blk[w].num = blk[t].num + 1
        BY <1>1, <1>2, <1>5, <1>7, <4>2
      <4>3. CASE canRead[w] /\ \A u \in Threads : Busy(u) => u = t
        BY <1>7, <1>11, <3>2, <4>3
      <4>4. QED  BY <1>12, <3>2, <4>1, <4>2, <4>3
    <3>3. QED  BY <3>1, <3>2
  <2>6. QED  BY <2>1, <2>3, <2>4, <2>5 DEF OrderInv
<1>15. ReadInv'
  <2>1. \A u \in Threads : pc'[u] = "read" => pc[u] = "read"  BY <1>7
  <2>2. QED  BY <1>0, <1>1, <1>7, <2>1 DEF ReadInv
\* A block that is written starts where the output ends.
<1>16. ToStream(t) => Delivered = blk[t].lo
  <2>1. HAVE ToStream(t)
  <2>2. ~wr.intr /\ blk[t].link > 0
    BY <1>0, <1>2, <2>1 DEF ToStream, ReadInv
  <2>3. Delivered = Start(t)  BY <1>0, <1>1, <1>2, <2>2 DEF ChainInv
  <2>4. QED  BY <2>2, <2>3 DEF Start
<1>17. out \in Seq([lo : Nat, hi : Nat])  BY <1>0 DEF RingTypeOK
<1>18. Gapless'
  <2>1. CASE UNCHANGED out  BY <1>0, <2>1 DEF Gapless
  <2>2. CASE ToStream(t) /\ \E h \in Nat : out' = Append(out, [lo |-> blk[t].lo, hi |-> h])
    BY <1>0, <1>5, <1>16, <1>17, <2>2, GaplessAppend
  <2>3. QED  BY <1>3, <2>1, <2>2 DEF Wrote
<1>19. ASSUME ~wr'.intr
       PROVE  /\ ~wr.intr /\ blk[t].codeRes = None /\ ~blk[t].intr
              /\ ~Unusable(blk[t])
              /\ ToStream(t) => /\ Delivered' = blk[t].coded
                                /\ nc = (blk[t].state \notin {"overflow", "end"})
                                /\ BlockFinished(blk[t]) => blk[t].parsed = blk[t].coded
              /\ ~ToStream(t) => ~nc \/ (~blk[t].needWrite /\ ~blk[t].finish)
  <2>1. ~wr.intr /\ blk[t].codeRes = None /\ ~Unusable(blk[t])  BY <1>3, <1>19 DEF Wrote
  <2>2. ~blk[t].intr
    <3>1. SUFFICES ASSUME blk[t].intr PROVE FALSE
      OBVIOUS
    <3>2. PICK u \in Threads : Passed(u) /\ blk[u].codeRes # None /\ blk[u].num < blk[t].num
      BY <1>0, <1>2, <2>1, <3>1 DEF IntrInv
    <3>3. Busy(u)  BY <3>2 DEF Busy
    <3>4. QED  BY <1>2, <1>5, <3>2, <3>3
  <2>3. ToStream(t) => /\ out' = Append(out, [lo |-> blk[t].lo, hi |-> blk[t].coded])
                       /\ nc = (blk[t].state \notin {"overflow", "end"})
                       /\ BlockFinished(blk[t]) => blk[t].parsed = blk[t].coded
    BY <1>3, <1>19 DEF Wrote
  <2>4. ToStream(t) => Delivered' = blk[t].coded
    BY <1>0, <1>5, <1>16, <1>17, <2>3, GaplessAppend
  <2>5. QED  BY <1>3, <1>19, <2>1, <2>2, <2>3, <2>4 DEF Wrote
\* Unless writing has stopped, the block was written to its end.
<1>b. BlockEnds(t)  BY <1>0, <1>2 DEF ChainInv
<1>n. ASSUME ~wr'.intr, ~blk[t].finish
      PROVE  /\ ToStream(t) /\ blk[t].state = "new" /\ blk[t].status = "new"
             /\ blk[t].parsed = blk[t].hi
  BY <1>b, <1>n, <1>19 DEF BlockEnds, ToStream
<1>20. ASSUME ~wr'.intr, Live'
       PROVE  Delivered' = blk[t].hi /\ (blk[t].finish => blk[t].hi = Frontier)
  <2>1. CASE ~blk[t].finish
    BY <1>n, <1>19, <1>20, <2>1 DEF BlockFinished
  <2>2. CASE blk[t].finish
    <3>1. nc  BY <1>10, <1>20, <2>2
    <3>2. ToStream(t) /\ blk[t].state \notin {"overflow", "end"}  BY <1>19, <1>20, <2>2, <3>1
    <3>3. blk[t].needCode /\ blk[t].hi = Frontier
      BY <1>b, <1>19, <1>20, <2>2, <3>2 DEF BlockEnds, ToStream
    <3>4. blk[t].coded = blk[t].hi  BY <1>0, <1>1, <1>19, <1>20, <3>3 DEF ChainInv
    <3>5. QED  BY <1>19, <1>20, <3>2, <3>3, <3>4
  <2>3. QED  BY <2>1, <2>2
<1>21. ChainInv'
  <2>1. ASSUME NEW u \in Threads, pc'[u] = "pass"
        PROVE  /\ BlockEnds(u)'
               /\ ~blk'[u].finish /\ ~blk'[u].intr => blk'[u].hi = Frontier'
    <3>1. pc[u] = "pass"  BY <1>7, <2>1
    <3>2. BlockEnds(u)  BY <1>0, <3>1 DEF ChainInv
    <3>3. BlockEnds(u)'  BY <1>1, <1>8, <3>2 DEF BlockEnds
    <3>4. QED  BY <1>0, <1>1, <1>8, <3>1, <3>3 DEF ChainInv
  <2>2. ASSUME NEW u \in Threads, Passed(u)'
        PROVE  /\ BlockEnds(u)'
               /\ ~blk'[u].finish => /\ blk'[u].link > 0
                             /\ blk'[u].state = "new" /\ blk'[u].status = "new"
                             /\ blk'[u].parsed = blk'[u].hi
               /\ ~blk'[u].finish /\ blk'[u].num = rd'.block - 1 => blk'[u].hi = Frontier'
               /\ ~blk'[u].finish => \A v \in Threads :
                      Busy(v)' /\ blk'[v].num = blk'[u].num + 1 => blk'[u].hi = Start(v)'
    <3>1. Passed(u)  BY <1>7, <2>2
    <3>2. BlockEnds(u)  BY <1>0, <3>1 DEF ChainInv
    <3>3. BlockEnds(u)'  BY <1>1, <1>8, <3>2 DEF BlockEnds
    <3>4. \A v \in Threads : Busy(v)' => Busy(v)  BY <1>7
    <3>5. QED  BY <1>0, <1>1, <1>8, <3>1, <3>3, <3>4 DEF ChainInv
  <2>3. \A u \in Threads : /\ pc'[u] = "wait_write"
                           /\ blk'[u].needCode /\ ~blk'[u].intr /\ blk'[u].codeRes = None
                           => blk'[u].coded = blk'[u].hi
    BY <1>0, <1>1, <1>7 DEF ChainInv
  <2>4. ASSUME ~wr'.intr, Live', NEW w \in Threads, canWrite'[w]
        PROVE  Delivered' = IF Busy(w)' THEN Start(w)' ELSE Frontier'
    <3>1. Delivered' = blk[t].hi /\ (blk[t].finish => blk[t].hi = Frontier)  BY <1>20, <2>4
    <3>2. CASE blk[t].finish
      <4>1. ~Busy(w)'  BY <1>7, <1>9, <3>2
      <4>2. QED  BY <1>8, <3>1, <3>2, <4>1
    <3>3. CASE ~blk[t].finish
      <4>1. w = blk[t].next  BY <1>11, <2>4, <3>3
      <4>2. CASE Busy(w) /\ w # t /\ blk[w].num = blk[t].num + 1
        <5>1. blk[t].hi = Start(w)  BY <1>0, <1>2, <3>3, <4>2 DEF ChainInv
        <5>2. QED  BY <1>7, <1>8, <3>1, <4>2, <5>1
      <4>3. CASE blk[t].num = rd.block - 1 /\ \A u \in Threads : Busy(u) => u = t
        <5>1. blk[t].hi = Frontier  BY <1>0, <1>2, <3>3, <4>3 DEF ChainInv
        <5>2. ~Busy(w)'  BY <1>7, <4>3
        <5>3. QED  BY <1>8, <3>1, <5>1, <5>2
      <4>4. QED  BY <1>12, <3>3, <4>1, <4>2, <4>3
    <3>4. QED  BY <3>2, <3>3
  <2>5. QED  BY <2>1, <2>2, <2>3, <2>4 DEF ChainInv
<1>22. IntrInv'
  <2>1. SUFFICES ASSUME ~wr'.intr PROVE IntrInv'
    BY DEF IntrInv
  <2>2. ~wr.intr /\ blk[t].codeRes = None  BY <1>19, <2>1
  <2>3. UNCHANGED prog
    <3>1. ~blk[t].finish => nc  BY <1>n, <1>19, <2>1
    <3>2. QED  BY <1>3, <2>1, <3>1 DEF Wrote
  <2>4. \A u \in Threads : Passed(u) /\ blk[u].codeRes # None => Passed(u)'
    BY <1>7, <2>2
  <2>5. \A u \in Threads : Busy(u)' => Busy(u)  BY <1>7
  <2>6. QED  BY <1>0, <1>1, <2>2, <2>3, <2>4, <2>5 DEF IntrInv
<1>23. QED  BY <1>13, <1>14, <1>15, <1>18, <1>21, <1>22 DEF RingInv

\* The end of run keeps the invariant: nobody is at work any more.
LEMMA RunReturnInv ==
    ASSUME Ind, RunReturn
    PROVE  RingInv'
<1>0. /\ RingTypeOK /\ TokenInv /\ OrderInv /\ ReadInv /\ ChainInv /\ IntrInv /\ Gapless
  BY DEF Ind, RingInv
<1>1. /\ pc[0] = "done" /\ exit' = TRUE /\ pc' = [pc EXCEPT ![0] = "join"]
      /\ UNCHANGED <<stream, rd, wr, prog, blk, out>>
  BY DEF RunReturn
<1>2. DOMAIN pc = Threads /\ 0 \in Threads
  BY <1>0, NumThreadsAssumption DEF RingTypeOK, Threads
<1>3. \A u \in Threads : ~Busy(u)  BY <1>0, <1>1 DEF TokenInv, Live
<1>4. \A u \in Threads : ~Busy(u)' /\ ~Reading(u)' /\ ~Passed(u)'
  BY <1>1, <1>2, <1>3 DEF Busy, Reading, Passed
<1>5. ~Live'  BY <1>1 DEF Live
<1>6. TokenInv'
  <2>1. ~(0 >= rd.started)  BY <1>0, <1>1, <1>2 DEF TokenInv
  <2>2. \A u \in Threads : u >= rd'.started => pc'[u] = "off"
    BY <1>0, <1>1, <1>2, <2>1 DEF TokenInv
  <2>3. QED  BY <1>0, <1>1, <1>4, <1>5, <2>2 DEF TokenInv
<1>7. OrderInv'  BY <1>4, <1>5 DEF OrderInv
<1>8. \A u \in Threads : pc'[u] \notin {"read", "pass", "wait_write"}
  BY <1>4 DEF Reading, Passed
<1>9. ReadInv'  BY <1>0, <1>1, <1>4, <1>8 DEF ReadInv
<1>10. ChainInv'  BY <1>4, <1>5, <1>8 DEF ChainInv
<1>11. IntrInv'
  <2>1. prog.need => wr.intr  BY <1>0, <1>3 DEF IntrInv, Busy
  <2>2. QED  BY <1>1, <1>4, <2>1 DEF IntrInv
<1>12. Gapless'  BY <1>0, <1>1 DEF Gapless
<1>13. QED  BY <1>6, <1>7, <1>9, <1>10, <1>11, <1>12 DEF RingInv

-----------------------------------------------------------------------------
\* A step of the rest of the decoder keeps the invariant.
LEMMA Stutter ==
    ASSUME Ind, UNCHANGED ringVars
    PROVE  Ind'
<1>1. /\ UNCHANGED <<stream, canRead, canWrite, exit, rd, wr, prog>>
      /\ UNCHANGED <<pc, blk, bufs, coder, out, marked, faulted>>
  BY DEF ringVars
<1>2. RingTypeOK'  BY <1>1 DEF Ind, RingTypeOK
<1>3. /\ Frontier' = Frontier /\ Delivered' = Delivered /\ Live' = Live
      /\ \A t \in Threads : /\ Busy(t)' = Busy(t) /\ Reading(t)' = Reading(t)
                            /\ Passed(t)' = Passed(t) /\ Start(t)' = Start(t)
                            /\ BlockEnds(t)' = BlockEnds(t)
  BY <1>1 DEF Frontier, Delivered, Live, Busy, Reading, Passed, Start, BlockEnds
<1>4. TokenInv' /\ ReadInv'  BY <1>1, <1>3 DEF Ind, RingInv, TokenInv, ReadInv
<1>5. OrderInv'
  BY <1>1 DEF Ind, RingInv, OrderInv, Busy, Reading, Passed, Live
<1>6. ChainInv'  BY <1>1, <1>3 DEF Ind, RingInv, ChainInv
<1>7. IntrInv' /\ Gapless'  BY <1>1, <1>3 DEF Ind, RingInv, IntrInv, Gapless
<1>8. QED  BY <1>2, <1>4, <1>5, <1>6, <1>7 DEF Ind, RingInv

\* The types and RingInv together are an invariant of the ring.
THEOREM Inductive == RingSpec => []Ind
<1>1. Init => Ind  BY InitInd
<1>2. Ind /\ [RingNext]_ringVars => Ind'
  <2>1. ASSUME Ind, RingNext PROVE Ind'
    <3>1. RingTypeOK'  BY <2>1, TypeStep
    <3>2. RingInv'
      BY <2>1, ReadBeginInv, ReadLinkInv, PassReadInv, CodeLinkInv, WriteInv, RunReturnInv
         DEF RingNext, Step
    <3>3. QED  BY <3>1, <3>2 DEF Ind
  <2>2. QED  BY <2>1, Stutter
<1>3. QED  BY <1>1, <1>2, PTL DEF RingSpec

\* Every variable of the ring keeps its type.
THEOREM RingTypeCorrect == RingSpec => []RingTypeOK
<1>1. Ind => RingTypeOK  BY DEF Ind
<1>2. QED  BY <1>1, Inductive, PTL

\* For every number of threads, buffer size, stream and set of faults: one read
\* token and one write token circulate, blocks are numbered, handed on and
\* written in order, each block in work starts where its predecessor ends, and
\* nothing is interrupted but behind a failed block.
THEOREM RingCorrect == RingSpec => []RingInv
<1>1. Ind => RingInv  BY DEF Ind
<1>2. QED  BY <1>1, Inductive, PTL

\* For every number of threads, buffer size, stream and set of faults: what the
\* ring writes are consecutive pieces of the input from its start.
THEOREM OutputGapless == RingSpec => []Gapless
<1>1. RingInv => Gapless  BY DEF RingInv
<1>2. QED  BY <1>1, RingCorrect, PTL
=============================================================================
