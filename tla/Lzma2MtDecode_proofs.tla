------------------------ MODULE Lzma2MtDecode_proofs ------------------------
(***************************************************************************)
(* The proof that the output of the threaded decoder is a prefix of the    *)
(* sequential decoder's, and that the single-threaded tail is handed all   *)
(* the input the ring read and did not write (OutputIsPrefix), for every   *)
(* number of threads, buffer size, step and fault, for streams in which    *)
(* nothing follows the end marker.                                         *)
(*                                                                         *)
(* To what the ring keeps (Ind of MtDec_proofs) the invariant adds what a  *)
(* block holds (BlockGood: its extent, and how far it was parsed and       *)
(* decoded without an error), what the write section keeps for replay      *)
(* (KeptInv), what was written (OutInv), and where the tail stands         *)
(* (TailInv).                                                              *)
(***************************************************************************)
EXTENDS Lzma2MtDecode, MtDec_proofs

\* Nothing follows the end marker of stream s.
MarkerLast(s) == \A i \in 1 .. Len(s) - 1 : s[i] # "end"

-----------------------------------------------------------------------------
(***************************************************************************)
(* What a block holds, whatever becomes of it: its input lies within the   *)
(* stream, the parse met nothing illegal unless it says so, and only a     *)
(* block that can not be written holds a buffer nothing was copied to.     *)
(***************************************************************************)
Sound(b, s, refused) ==
    /\ b.hi <= Len(s)
    /\ b.link = 0 => b.hi = b.lo /\ ~b.needWrite
    /\ b.failed => b.needWrite
    /\ b.stale => /\ b.finish /\ b.link > 0 /\ b.lo < b.hi
                  /\ "coder" \in refused /\ Unusable(b)
    /\ b.needWrite /\ ~b.failed =>
          (\A i \in b.lo+1 .. b.parsed : ~Illegal(s, b.lo, i))

\* A block that wants more input was parsed as far as it reaches.
AtRead(b) ==
    IF b.link > 0 THEN b.parsed = b.hi /\ b.needWrite /\ ~b.failed
                  ELSE b.parsed = 0

\* A block with nothing behind it yet reaches up to where the next one starts.
Ends(b, frontier) == b.link > 0 /\ ~b.stale /\ ~b.failed => b.hi = frontier

\* A block that nothing stops was parsed and is decoded up to its end.
Complete(b) ==
    ~b.intr /\ ~Unusable(b) =>
        /\ b.needWrite
        /\ ~b.failed /\ b.codeRes = None => b.needCode /\ b.parsed = b.hi

\* What was decoded has no body that does not decode.
Decoded(b, s) ==
    b.needCode => \A i \in b.lo+1 .. Min2(b.coded, b.parsed) : s[i] # "bad"

BlockGood(t) ==
    /\ Sound(blk[t], stream, faulted)
    /\ pc[t] = "read" => AtRead(blk[t])
    /\ pc[t] = "pass" \/ (Passed(t) /\ blk[t].finish) => Ends(blk[t], Frontier)
    /\ pc[t] # "read" => Complete(blk[t])
    /\ Passed(t) => Decoded(blk[t], stream)

BlocksInv == \A t \in Threads : Busy(t) => BlockGood(t)

\* The units lo+1 .. hi decode, but for an end marker.
Clean(s, lo, hi) == \A i \in lo+1 .. hi : s[i] # "bad" /\ ~Illegal(s, 0, i)

\* What was written decodes.
OutInv == Delivered <= Len(stream) /\ Clean(stream, 0, Delivered)

(***************************************************************************)
(* The pieces c of the input follow one another from p on, within the      *)
(* first n units, up to one that nothing was copied to.                    *)
(***************************************************************************)
Chain(c, p, n) ==
    /\ c # <<>> => c[1].lo = p
    /\ \A i \in 1 .. Len(c) : c[i].lo < c[i].hi /\ c[i].hi <= n
    /\ \A i \in 1 .. Len(c) - 1 : c[i].stale \/ c[i].hi = c[i+1].lo

StaleEnd(c) == c # <<>> /\ c[Len(c)].stale
EndOf(c, p) == IF c = <<>> THEN p ELSE c[Len(c)].hi

\* They also reach as far as e.
ChainTo(c, p, e, n) == Chain(c, p, n) /\ (StaleEnd(c) \/ EndOf(c, p) = e)

\* Nothing that is kept lacks its input unless make_coder failed.
StaleOnly(c, refused) == \A i \in 1 .. Len(c) : c[i].stale => "coder" \in refused

\* The writing has not failed with an error that run returns.
Fine == wr.codeRes = None /\ ~wr.err

\* Where what was written and what is kept for replay end.
Reached == EndOf(wr.replay, Delivered)

(***************************************************************************)
(* What is kept for replay follows what was written and reaches up to the  *)
(* block that holds the write token or, at the end, the next read.         *)
(***************************************************************************)
KeptInv ==
    /\ ~wr.intr => wr.replay = <<>>
    /\ StaleOnly(wr.replay, faulted)
    /\ Fine =>
        /\ Chain(wr.replay, Delivered, Len(stream))
        /\ Live => /\ ~StaleEnd(wr.replay)
                   /\ \A w \in Threads : canWrite[w] =>
                        Reached = IF Busy(w) THEN Start(w) ELSE Frontier
        /\ ~Live => StaleEnd(wr.replay) \/ Reached = Frontier

\* What the ring keeps beyond Ind.
Holds == BlocksInv /\ OutInv /\ KeptInv /\ MarkerLast(stream)

-----------------------------------------------------------------------------
\* Lzma2Coder::parse stops at what it can not accept: what it accepted is
\* legal unless it says that it failed, and an end that is no failure is the
\* end marker.
LEMMA ParseClean ==
    ASSUME NEW s \in Seq(Unit), NEW b \in Nat, NEW lo \in Nat, NEW hi \in Nat,
           lo <= hi, NEW o \in Parse(s, b, lo, hi)
    PROVE  /\ ~o.failed /\ o.state # "overflow" =>
                (\A i \in lo+1 .. o.pos : ~Illegal(s, b, i))
           /\ o.state = "continue" => ~o.failed
           /\ o.state = "end" /\ ~o.failed => o.pos \in lo+1 .. hi /\ s[o.pos] = "end"
<1>1. PICK n \in lo+1 .. hi+1, p \in lo+1 .. hi+1 :
            p <= n /\ FirstStop(s, b, lo, hi, n) /\ o = ParseAt(s, b, hi, n, p)
  BY DEF Parse
<1>2. n \in Nat /\ p \in Nat /\ p - 1 \in Nat /\ n - 1 \in Nat /\ p - 1 <= n - 1
  BY <1>1
<1>3. \A j \in lo+1 .. n-1 : ~Illegal(s, b, j)
  BY <1>1 DEF FirstStop, Stops
<1>4. PICK failed \in BOOLEAN : failed <=> (n <= hi /\ Illegal(s, b, n))
  OBVIOUS
<1>5. o = IF failed /\ ~(Produced(s, b, n - 1) = OutBlockMax) THEN Outcome("end", "notspec", n, TRUE)
          ELSE IF n <= hi /\ s[n] = "end"   THEN Outcome("end", "mark", n, FALSE)
          ELSE IF n <= hi /\ s[n] = "reset" THEN Outcome("new", "new", n - 1, FALSE)
          ELSE IF p < n   THEN Outcome("new", "new", p - 1, failed)
          ELSE IF n <= hi THEN Outcome("overflow", "notfin", n, failed)
          ELSE Outcome("continue", "more", hi, FALSE)
  BY <1>1, <1>4 DEF ParseAt
<1>6. \/ o = Outcome("end", "notspec", n, TRUE)
      \/ n <= hi /\ s[n] = "end" /\ o = Outcome("end", "mark", n, FALSE)
      \/ o = Outcome("new", "new", n - 1, FALSE)
      \/ o = Outcome("new", "new", p - 1, failed)
      \/ o = Outcome("overflow", "notfin", n, failed)
      \/ ~(n <= hi) /\ o = Outcome("continue", "more", hi, FALSE)
  BY <1>5, Zenon
<1>7. CASE o = Outcome("end", "notspec", n, TRUE)
  BY <1>7 DEF Outcome
<1>8. CASE n <= hi /\ s[n] = "end" /\ o = Outcome("end", "mark", n, FALSE)
  <2>1. o.state = "end" /\ o.pos = n /\ o.failed = FALSE
    BY <1>8 DEF Outcome
  <2>2. ~Illegal(s, b, n)
    BY <1>8 DEF Illegal, Payload
  <2>3. \A i \in lo+1 .. n : i = n \/ i \in lo+1 .. n-1
    BY <1>2
  <2>4. \A i \in lo+1 .. n : ~Illegal(s, b, i)
    BY <1>3, <2>2, <2>3
  <2>5. n \in lo+1 .. hi
    BY <1>2, <1>8
  <2> QED
    BY <1>8, <2>1, <2>4, <2>5
<1>9. CASE o = Outcome("new", "new", n - 1, FALSE)
  BY <1>3, <1>9 DEF Outcome
<1>10. CASE o = Outcome("new", "new", p - 1, failed)
  <2>1. o.state = "new" /\ o.pos = p - 1
    BY <1>10 DEF Outcome
  <2>2. \A i \in lo+1 .. p - 1 : i \in lo+1 .. n - 1
    BY <1>2
  <2> QED
    BY <1>3, <2>1, <2>2
<1>11. CASE o = Outcome("overflow", "notfin", n, failed)
  BY <1>11 DEF Outcome
<1>12. CASE ~(n <= hi) /\ o = Outcome("continue", "more", hi, FALSE)
  <2>1. o.state = "continue" /\ o.pos = hi /\ o.failed = FALSE
    BY <1>12 DEF Outcome
  <2>2. \A i \in lo+1 .. hi : i \in lo+1 .. n - 1
    BY <1>2, <1>12
  <2> QED
    BY <1>3, <2>1, <2>2
<1> QED
  BY <1>6, <1>7, <1>8, <1>9, <1>10, <1>11, <1>12

\* A block of which the parse has seen something, before it leaves the read
\* section.
Begun(b) ==
    /\ b.link > 0 /\ ~b.stale
    /\ b.hi <= Len(stream)
    /\ b.needWrite
    /\ ~b.failed => \A i \in b.lo+1 .. b.parsed : ~Illegal(stream, b.lo, i)

\* Such a block is sound whatever was refused.
LEMMA BegunSound ==
    ASSUME NEW b \in Block, Begun(b), NEW refused
    PROVE  Sound(b, stream, refused)
<1>1. b.link \in Nat
  BY BlkFields
<1> QED
  BY <1>1 DEF Begun, Sound

\* Reading more input into a block leaves what was parsed of it.
LEMMA GrownGood ==
    ASSUME RingTypeOK, ReadInv, NEW t \in Threads, pc[t] = "read", BlockGood(t),
           NEW f \in Fetched(t)
    PROVE  LET g == Grown(blk[t], f)
           IN  /\ ~g.stale /\ ~g.failed
               /\ g.parsed = blk[t].parsed /\ g.needWrite = blk[t].needWrite
               /\ \A i \in g.lo+1 .. f.lo : ~Illegal(stream, g.lo, i)
               /\ \A i \in g.lo+1 .. g.parsed : ~Illegal(stream, g.lo, i)
<1> DEFINE g == Grown(blk[t], f)
<1>1. /\ blk[t] \in Block /\ blk[t].link \in Nat /\ blk[t].lo \in Nat
      /\ ~Unusable(blk[t])
  BY Types, BlkFields DEF ReadInv, Unusable
<1>2. /\ Sound(blk[t], stream, faulted) /\ AtRead(blk[t])
  BY DEF BlockGood
<1>3. ~blk[t].stale
  BY <1>1, <1>2 DEF Sound
<1>4. ~blk[t].failed
  BY <1>1, <1>2 DEF Sound, AtRead
<1>5. /\ f.lo \in Nat /\ f.lo = IF blk[t].link = 0 THEN Frontier ELSE blk[t].hi
  BY FetchedFacts
<1>6. /\ g.stale = blk[t].stale /\ g.failed = blk[t].failed
      /\ g.parsed = blk[t].parsed /\ g.needWrite = blk[t].needWrite
      /\ g.lo = IF blk[t].link = 0 THEN f.lo ELSE blk[t].lo
  BY <1>1 DEF Grown, Block
<1> HIDE DEF g
<1>7. \A i \in g.lo+1 .. f.lo : ~Illegal(stream, g.lo, i)
  <2>1. CASE blk[t].link = 0
    <3>1. g.lo+1 .. f.lo = {}
      BY <1>5, <1>6, <2>1
    <3> QED
      BY <3>1
  <2>2. CASE blk[t].link # 0
    <3>1. /\ blk[t].parsed = f.lo /\ blk[t].needWrite /\ g.lo = blk[t].lo
      BY <1>1, <1>2, <1>5, <1>6, <2>2 DEF AtRead
    <3> QED
      BY <1>2, <1>4, <3>1 DEF Sound
  <2> QED
    BY <2>1, <2>2
<1>8. \A i \in g.lo+1 .. g.parsed : ~Illegal(stream, g.lo, i)
  <2>1. CASE blk[t].link = 0
    <3>1. g.parsed = 0 /\ g.lo \in Nat
      BY <1>2, <1>5, <1>6, <2>1 DEF AtRead
    <3>2. g.lo+1 .. g.parsed = {}
      BY <3>1
    <3> QED
      BY <3>2
  <2>2. CASE blk[t].link # 0
    BY <1>1, <1>2, <1>4, <1>6, <2>2 DEF Sound, AtRead
  <2> QED
    BY <2>1, <2>2
<1> QED
  BY <1>3, <1>4, <1>6, <1>7, <1>8 DEF g

\* The parse leaves a block of which everything it accepted is legal.
LEMMA ParsedGood ==
    ASSUME RingTypeOK, ReadInv, NEW t \in Threads, pc[t] = "read", BlockGood(t),
           NEW f \in Fetched(t),
           NEW o \in Parse(stream, Grown(blk[t], f).lo, f.lo, f.hi)
    PROVE  LET b == Parsed(Grown(blk[t], f), rd, o)
           IN  /\ b \in Block /\ Fresh(b) /\ Begun(b)
               /\ b.hi = f.hi /\ b.state = o.state /\ b.failed = o.failed
               /\ b.finish = f.finish
               /\ o.state # "overflow" => b.parsed = o.pos
<1> DEFINE g == Grown(blk[t], f)
           b == Parsed(g, rd, o)
<1>1. /\ Fresh(g) /\ g.hi = f.hi /\ g.link > 0 /\ g.lo <= f.lo /\ g.lo \in Nat
      /\ g.finish = f.finish /\ g \in Block
  BY GrownFacts, BlkFields DEF Fresh
<1>2. /\ f.lo \in Nat /\ f.hi \in Nat /\ f.lo <= f.hi /\ f.hi <= Len(stream)
  BY FetchedFacts
<1>3. /\ ~g.stale
      /\ \A i \in g.lo+1 .. f.lo : ~Illegal(stream, g.lo, i)
      /\ \A i \in g.lo+1 .. g.parsed : ~Illegal(stream, g.lo, i)
  BY GrownGood
<1>4. /\ o \in ParseOutcome /\ f.lo <= o.pos /\ o.pos <= f.hi /\ o.pos \in Nat
      /\ ~o.failed /\ o.state # "overflow" =>
           (\A i \in f.lo+1 .. o.pos : ~Illegal(stream, g.lo, i))
  BY <1>1, <1>2, ParseFacts, ParseClean, Types DEF ParseOutcome
<1>5. rd \in ReadState
  BY Types
<1>6. /\ Fresh(b)
      /\ b.lo = g.lo /\ b.hi = g.hi /\ b.link = g.link /\ b.finish = g.finish
      /\ b.state = o.state /\ b.needWrite = TRUE
      /\ o.state # "overflow" => b.parsed = o.pos
  BY <1>1, <1>4, <1>5, ParsedFacts
<1>7. b.stale = g.stale /\ b.failed = o.failed
      /\ b.parsed = IF o.state = "overflow" THEN g.parsed ELSE o.pos
  BY <1>1 DEF Parsed, Block
<1>8. ~b.failed => \A i \in b.lo+1 .. b.parsed : ~Illegal(stream, b.lo, i)
  <2>1. CASE o.state = "overflow"
    BY <1>3, <1>6, <1>7, <2>1
  <2>2. CASE o.state # "overflow" /\ ~o.failed
    <3>1. \A i \in g.lo+1 .. o.pos : i \in g.lo+1 .. f.lo \/ i \in f.lo+1 .. o.pos
      BY <1>1, <1>2, <1>4
    <3>2. \A i \in g.lo+1 .. o.pos : ~Illegal(stream, g.lo, i)
      BY <1>3, <1>4, <2>2, <3>1
    <3> QED
      BY <1>6, <1>7, <2>2, <3>2
  <2> QED
    BY <1>7, <2>1, <2>2
<1> HIDE DEF g, b
<1>9. Begun(b) /\ b \in Block
  BY <1>1, <1>2, <1>3, <1>6, <1>7, <1>8 DEF Begun, Fresh
<1> QED
  BY <1>1, <1>6, <1>7, <1>9 DEF b, g

\* What a turn of the read loop leaves thread t with: a good block at w.
GoodRead(t) ==
    \E w \in {"read", "pass"}, c \in Block :
        /\ blk' = [blk EXCEPT ![t] = c] /\ pc' = [pc EXCEPT ![t] = w]
        /\ Sound(c, stream, faulted')
        /\ w = "read" => AtRead(c)
        /\ w = "pass" => Ends(c, Frontier') /\ Complete(c)

\* The outcome of the parse is applied to a good block.
LEMMA ParseStepGood ==
    ASSUME RingTypeOK, ReadInv, MarkerLast(stream),
           NEW t \in Threads, pc[t] = "read", BlockGood(t), NEW f \in Fetched(t),
           NEW o \in Parse(stream, Grown(blk[t], f).lo, f.lo, f.hi),
           ParseStep(t, f, o)
    PROVE  GoodRead(t)
<1> DEFINE b == Parsed(Grown(blk[t], f), rd, o)
           r == Accounted(AfterRead(t, f), b, o)
           left == [r EXCEPT !.crossLo = IF FromCross(t) THEN o.pos ELSE @]
           coded == [b EXCEPT !.needCode = TRUE, !.finish = @ \/ o.state = "end"]
<1>1. /\ b \in Block /\ Fresh(b) /\ Begun(b)
      /\ b.hi = f.hi /\ b.state = o.state /\ b.failed = o.failed
      /\ o.state # "overflow" => b.parsed = o.pos
  BY ParsedGood
<1>2. /\ f.lo \in Nat /\ f.hi \in Nat /\ f.lo <= f.hi /\ f.hi <= Len(stream)
      /\ Len(stream) \in Nat
  BY FetchedFacts, Types
<1>3. Grown(blk[t], f).lo \in Nat
  BY GrownFacts, BlkFields DEF Fresh
<1>4. /\ o \in ParseOutcome /\ f.lo <= o.pos /\ o.pos <= f.hi /\ o.pos \in Nat
      /\ o.state = "continue" => o.pos = f.hi
      /\ o.state = "continue" => ~o.failed
      /\ o.state = "end" /\ ~o.failed => o.pos \in f.lo+1 .. f.hi /\ stream[o.pos] = "end"
  BY <1>2, <1>3, ParseFacts, ParseClean, Types DEF ParseOutcome
<1>5. /\ b.lo \in Nat /\ b.finish \in BOOLEAN
  BY <1>1, BlkFields
<1>6. /\ r \in ReadState /\ r.pos = f.hi
      /\ r.crossLo = rd.crossLo /\ r.crossHi = rd.crossHi
  BY <1>4, <1>5, AfterReadFacts, AccountedFacts
<1>7. rd.crossLo < rd.crossHi => FromCross(t) /\ rd.crossHi = f.hi
  BY CrossFetched
<1>8. FromCross(t) => rd.crossLo < rd.crossHi
  BY DEF FromCross
<1> HIDE DEF b, r
<1>9. NoCross(r).pos = f.hi /\ NoCross(r).crossLo = 0 /\ NoCross(r).crossHi = 0
  BY <1>6 DEF NoCross, ReadState
<1>10. FrontierOf(NoCross(r)) = f.hi
  BY <1>9 DEF FrontierOf
<1>11. Frontier' = FrontierOf(rd')
  BY DEF Frontier, FrontierOf
<1>12. /\ coded \in Block /\ coded.lo = b.lo /\ coded.hi = b.hi /\ coded.mid = b.mid
       /\ coded.link = b.link /\ coded.state = b.state
       /\ coded.needWrite = b.needWrite /\ coded.needCode /\ coded.parsed = b.parsed
       /\ coded.failed = b.failed /\ coded.stale = b.stale
  BY <1>1, <1>5 DEF Block
<1> HIDE DEF coded
<1>13. Begun(coded)
  BY <1>1, <1>12 DEF Begun
<1>14. CASE /\ o.state = "overflow"
            /\ Settle(t, "pass", [b EXCEPT !.finish = TRUE, !.overflow = TRUE],
                      NoCross(r), f.fault)
  <2> DEFINE c == [b EXCEPT !.finish = TRUE, !.overflow = TRUE]
  <2>1. c \in Block /\ c.lo = b.lo /\ c.hi = b.hi /\ c.link = b.link
        /\ c.needWrite = b.needWrite /\ c.failed = b.failed /\ c.stale = b.stale
        /\ c.parsed = b.parsed /\ c.overflow
    BY <1>1 DEF Block
  <2>2. Settle(t, "pass", c, NoCross(r), f.fault)
    BY <1>14
  <2> HIDE DEF c
  <2>3. Begun(c)
    BY <1>1, <2>1 DEF Begun
  <2>4. Sound(c, stream, faulted')
    BY <2>1, <2>3, BegunSound
  <2>5. Ends(c, Frontier') /\ Complete(c)
    BY <1>1, <1>10, <1>11, <2>1, <2>2 DEF Ends, Complete, Unusable, Settle
  <2> QED
    BY <2>1, <2>2, <2>4, <2>5 DEF GoodRead, Settle
<1>15. CASE /\ o.state = "continue" /\ ~b.finish
            /\ Settle(t, "read", b, NoCross(r), f.fault)
  <2>1. Sound(b, stream, faulted')
    BY <1>1, BegunSound
  <2>2. AtRead(b)
    BY <1>1, <1>4, <1>15 DEF AtRead, Begun
  <2> QED
    BY <1>1, <1>15, <2>1, <2>2 DEF GoodRead, Settle
<1>16. CASE /\ o.state # "overflow"
            /\ o.state # "continue" \/ b.finish
            /\ o.pos = f.hi
            /\ Settle(t, "pass", coded, NoCross(r), f.fault)
  <2>1. Sound(coded, stream, faulted')
    BY <1>12, <1>13, BegunSound
  <2>2. Ends(coded, Frontier') /\ Complete(coded)
    BY <1>1, <1>10, <1>11, <1>12, <1>13, <1>16 DEF Ends, Complete, Settle, Begun
  <2> QED
    BY <1>12, <1>16, <2>1, <2>2 DEF GoodRead, Settle
<1>17. CASE /\ o.state = "end" /\ o.pos < f.hi
            /\ Settle(t, "pass", CutAt(coded, o.pos), left, f.fault)
  <2> DEFINE c == CutAt(coded, o.pos)
  <2>1. c \in Block /\ c.lo = b.lo /\ c.hi = o.pos /\ c.link = b.link
        /\ c.needWrite = b.needWrite /\ c.failed = b.failed /\ c.stale = b.stale
        /\ c.parsed = b.parsed /\ c.needCode
    BY <1>4, <1>12 DEF Block, CutAt
  <2>2. Settle(t, "pass", c, left, f.fault)
    BY <1>17
  <2> HIDE DEF c
  <2>3. Begun(c)
    BY <1>1, <1>2, <1>4, <2>1 DEF Begun
  <2>4. Sound(c, stream, faulted')
    BY <2>1, <2>3, BegunSound
  <2>5. o.failed
    <3>1. ~o.failed => o.pos \in 1 .. Len(stream) - 1 /\ stream[o.pos] = "end"
      BY <1>2, <1>4, <1>17
    <3> QED
      BY <3>1 DEF MarkerLast
  <2>6. Ends(c, Frontier') /\ Complete(c)
    BY <1>1, <2>1, <2>3, <2>5 DEF Ends, Complete, Begun
  <2> QED
    BY <2>1, <2>2, <2>4, <2>6 DEF GoodRead, Settle
<1>18. CASE /\ o.state = "new" /\ o.pos < f.hi
            /\ Settle(t, "pass", [CutAt(coded, o.pos) EXCEPT !.finish = FALSE],
                      IF FromCross(t) THEN left
                      ELSE [r EXCEPT !.crossLo = o.pos, !.crossHi = f.hi,
                                     !.crossBuf = TRUE],
                      f.fault)
  <2> DEFINE c == [CutAt(coded, o.pos) EXCEPT !.finish = FALSE]
             q == IF FromCross(t) THEN left
                  ELSE [r EXCEPT !.crossLo = o.pos, !.crossHi = f.hi, !.crossBuf = TRUE]
  <2>1. c \in Block /\ c.lo = b.lo /\ c.hi = o.pos /\ c.link = b.link
        /\ c.needWrite = b.needWrite /\ c.failed = b.failed /\ c.stale = b.stale
        /\ c.parsed = b.parsed /\ c.needCode
    <3> DEFINE d == CutAt(coded, o.pos)
    <3>1. d \in Block /\ d.lo = b.lo /\ d.hi = o.pos /\ d.link = b.link
          /\ d.needWrite = b.needWrite /\ d.failed = b.failed /\ d.stale = b.stale
          /\ d.parsed = b.parsed /\ d.needCode
      BY <1>4, <1>12 DEF Block, CutAt
    <3> HIDE DEF d
    <3> QED
      BY <3>1 DEF Block, d
  <2>2. q.crossHi = f.hi /\ q.crossLo = o.pos
    BY <1>6, <1>7, <1>8 DEF ReadState
  <2>3. Settle(t, "pass", c, q, f.fault)
    BY <1>18
  <2> HIDE DEF c, q
  <2>4. Begun(c)
    BY <1>1, <1>2, <1>4, <2>1 DEF Begun
  <2>5. Sound(c, stream, faulted')
    BY <2>1, <2>4, BegunSound
  <2>6. Ends(c, Frontier') /\ Complete(c)
    <3>1. Frontier' = o.pos
      BY <1>11, <1>18, <2>2, <2>3 DEF FrontierOf, Settle
    <3> QED
      BY <1>1, <1>18, <2>1, <2>4, <3>1 DEF Ends, Complete, Begun
  <2> QED
    BY <2>1, <2>3, <2>5, <2>6 DEF GoodRead, Settle
<1>19. CASE /\ o.state = "new" /\ o.pos < f.hi
            /\ ~FromCross(t) /\ ~rd.crossBuf /\ MayFault("cross")
            /\ Settle(t, "pass", [coded EXCEPT !.finish = TRUE, !.allocErr = TRUE],
                      r, f.fault \cup {"cross"})
  <2> DEFINE c == [coded EXCEPT !.finish = TRUE, !.allocErr = TRUE]
  <2>1. c \in Block /\ c.lo = b.lo /\ c.hi = b.hi /\ c.link = b.link
        /\ c.needWrite = b.needWrite /\ c.failed = b.failed /\ c.stale = b.stale
        /\ c.parsed = b.parsed /\ c.allocErr
    BY <1>12 DEF Block
  <2>2. Settle(t, "pass", c, r, f.fault \cup {"cross"})
    BY <1>19
  <2> HIDE DEF c
  <2>3. Begun(c)
    BY <1>1, <2>1 DEF Begun
  <2>4. Sound(c, stream, faulted')
    BY <2>1, <2>3, BegunSound
  <2>5. Ends(c, Frontier') /\ Complete(c)
    <3>1. Frontier' = f.hi
      BY <1>6, <1>7, <1>11, <1>19, <2>2 DEF FrontierOf, Settle
    <3> QED
      BY <1>1, <2>1, <3>1 DEF Ends, Complete, Unusable
  <2> QED
    BY <2>1, <2>2, <2>4, <2>5 DEF GoodRead, Settle
<1> QED
  BY <1>14, <1>15, <1>16, <1>17, <1>18, <1>19 DEF ParseStep, b, r, coded

\* Every turn of the read loop leaves a good block.
LEMMA ReadLinkGood ==
    ASSUME RingTypeOK, ReadInv, MarkerLast(stream),
           NEW t \in Threads, ReadLink(t), BlockGood(t)
    PROVE  GoodRead(t)
<1>1. /\ pc[t] = "read" /\ blk[t] \in Block /\ blk[t].link \in Nat /\ blk[t].lo \in Nat
      /\ ~Unusable(blk[t]) /\ Sound(blk[t], stream, faulted)
  BY Types, BlkFields DEF ReadLink, ReadInv, Unusable, BlockGood
<1>2. ~blk[t].stale
  BY <1>1 DEF Sound
<1>3. Frontier' = FrontierOf(rd')
  BY DEF Frontier, FrontierOf
<1>4. CASE BufFails(t)
  <2> DEFINE c == [blk[t] EXCEPT !.finish = TRUE, !.allocErr = TRUE]
  <2>1. /\ c \in Block /\ c.lo = blk[t].lo /\ c.hi = blk[t].hi /\ c.link = blk[t].link
        /\ c.needWrite = blk[t].needWrite /\ c.failed = blk[t].failed
        /\ c.stale = blk[t].stale /\ c.parsed = blk[t].parsed /\ c.allocErr
    BY <1>1 DEF Block
  <2>2. Settle(t, "pass", c, rd, {"buf"})
    BY <1>4 DEF BufFails
  <2> HIDE DEF c
  <2>3. Sound(c, stream, faulted')
    BY <1>1, <1>2, <2>1 DEF Sound
  <2>4. Ends(c, Frontier')
    <3>1. blk[t].link > 0 => blk[t].hi = FrontierOf(rd)
      <4>1. rd.crossLo \in Nat /\ rd.crossHi \in Nat
        BY Types, RdFields
      <4> QED
        BY <1>1, <4>1 DEF ReadInv, FrontierOf
    <3> QED
      BY <1>3, <2>1, <2>2, <3>1 DEF Ends, Settle
  <2>5. Complete(c)
    BY <2>1 DEF Complete, Unusable
  <2> QED
    BY <2>1, <2>2, <2>3, <2>4, <2>5 DEF GoodRead, Settle
<1>5. ASSUME NEW f \in Fetched(t), CoderFails(t, f)
      PROVE  GoodRead(t)
  <2> DEFINE g == Grown(blk[t], f)
             c == [g EXCEPT !.finish = TRUE, !.allocErr = TRUE, !.stale = FromCross(t)]
             r == AfterRead(t, f)
  <2>1. /\ g \in Block /\ g.lo = Start(t) /\ g.hi = f.hi /\ g.link > 0
    BY <1>1, GrownFacts DEF Fresh
  <2>2. /\ ~g.failed
        /\ \A i \in g.lo+1 .. g.parsed : ~Illegal(stream, g.lo, i)
    BY <1>1, GrownGood
  <2>3. f.hi <= Len(stream)
    BY <1>1, FetchedFacts
  <2>4. r.pos = f.hi /\ r.crossLo = rd.crossLo /\ r.crossHi = rd.crossHi
    BY <1>1, AfterReadFacts
  <2>5. rd.crossLo < rd.crossHi => FromCross(t)
    BY <1>1, CrossFetched
  <2>6. FromCross(t) => g.lo < g.hi
    <3>1. FromCross(t) => blk[t].link = 0 /\ rd.crossLo < rd.crossHi /\ f.hi = rd.crossHi
      BY DEF FromCross, Fetched
    <3> QED
      BY <2>1, <3>1 DEF Start, Frontier
  <2>7. FromCross(t) \in BOOLEAN
    BY DEF FromCross
  <2>8. g.link \in Nat
    BY <2>1, BlkFields
  <2>9. Settle(t, "pass", c, r, f.fault \cup {"coder"})
    BY <1>5 DEF CoderFails
  <2> HIDE DEF g, r
  <2>10. /\ c \in Block /\ c.lo = g.lo /\ c.hi = g.hi /\ c.link = g.link
         /\ c.needWrite = g.needWrite /\ c.failed = g.failed
         /\ c.stale = FromCross(t) /\ c.parsed = g.parsed /\ c.allocErr /\ c.finish
    BY <2>1, <2>7 DEF Block
  <2> HIDE DEF c
  <2>11. Sound(c, stream, faulted')
    <3>1. "coder" \in faulted' /\ Unusable(c)
      BY <2>9, <2>10 DEF Settle, Unusable
    <3> QED
      BY <2>1, <2>2, <2>3, <2>6, <2>8, <2>10, <3>1 DEF Sound
  <2>12. Ends(c, Frontier')
    <3>1. ~FromCross(t) => FrontierOf(r) = f.hi
      BY <2>4, <2>5 DEF FrontierOf
    <3> QED
      BY <1>3, <2>1, <2>9, <2>10, <3>1 DEF Ends, Settle
  <2>13. Complete(c)
    BY <2>10 DEF Complete, Unusable
  <2> QED
    BY <2>9, <2>10, <2>11, <2>12, <2>13 DEF GoodRead, Settle
<1> QED
  BY <1>1, <1>4, <1>5, ParseStepGood DEF ReadLink

\* What was refused stays refused.
LEMMA StillSound ==
    ASSUME NEW b, NEW s, NEW refused, NEW more, refused \subseteq more,
           Sound(b, s, refused)
    PROVE  Sound(b, s, more)
  BY DEF Sound

\* The read loop keeps the blocks good.
LEMMA ReadLinkBlocks ==
    ASSUME Ind, Holds, NEW t \in Threads, ReadLink(t)
    PROVE  BlocksInv'
<1>1. /\ RingTypeOK /\ ReadInv /\ pc[t] = "read" /\ UNCHANGED stream
      /\ faulted \subseteq faulted'
  <2>1. UNCHANGED stream /\ pc[t] = "read"
    BY DEF ReadLink
  <2>2. BufFails(t) => faulted \subseteq faulted'
    BY DEF BufFails, Settle
  <2>3. \A f \in Fetched(t) : CoderFails(t, f) => faulted \subseteq faulted'
    BY DEF CoderFails, Settle
  <2>4. \A f, o : ParseStep(t, f, o) => faulted \subseteq faulted'
    <3>1. ASSUME NEW f, NEW o, ParseStep(t, f, o) PROVE faulted \subseteq faulted'
      <4>1. \E x : faulted' = faulted \cup x
        BY <3>1, Zenon DEF ParseStep, Settle
      <4> QED
        BY <4>1
    <3> QED
      BY <3>1
  <2>5. faulted \subseteq faulted'
    BY <2>2, <2>3, <2>4 DEF ReadLink
  <2> QED
    BY <2>1, <2>5 DEF Ind, RingInv
<1>2. Reading(t) /\ Busy(t) /\ BlockGood(t)
  BY <1>1 DEF Reading, Busy, Holds, BlocksInv
<1>3. PICK w \in {"read", "pass"}, c \in Block :
        /\ blk' = [blk EXCEPT ![t] = c] /\ pc' = [pc EXCEPT ![t] = w]
        /\ Sound(c, stream, faulted')
        /\ w = "read" => AtRead(c)
        /\ w = "pass" => Ends(c, Frontier') /\ Complete(c)
  BY <1>1, <1>2, ReadLinkGood DEF Holds, GoodRead
<1>4. DOMAIN pc = Threads /\ DOMAIN blk = Threads
  BY <1>1 DEF RingTypeOK
<1>5. BlockGood(t)'
  <2>1. blk'[t] = c /\ pc'[t] = w
    BY <1>3, <1>4
  <2> QED
    BY <1>1, <1>3, <2>1 DEF BlockGood, Passed
<1>6. ASSUME NEW u \in Threads, u # t, Busy(u)' PROVE BlockGood(u)'
  <2>1. blk'[u] = blk[u] /\ pc'[u] = pc[u]
    BY <1>3, <1>4, <1>6
  <2>2. Busy(u)
    BY <1>6, <2>1 DEF Busy, Reading, Passed
  <2>3. ~blk[u].finish /\ pc[u] \notin {"read", "pass"}
    BY <1>2, <1>6, <2>2, LoneReader DEF Reading
  <2>4. BlockGood(u)
    BY <2>2 DEF Holds, BlocksInv
  <2>5. Sound(blk[u], stream, faulted')
    BY <1>1, <2>4, StillSound DEF BlockGood
  <2> QED
    BY <1>1, <2>1, <2>3, <2>4, <2>5 DEF BlockGood, Passed
<1> QED
  BY <1>5, <1>6 DEF BlocksInv

\* A step that changes only the block of thread t, which stays in work, and
\* leaves the frontier where it is keeps the blocks good if that one is.
LEMMA OtherBlocks ==
    ASSUME BlocksInv, NEW t \in Threads, BlockGood(t)' \/ ~Busy(t)',
           UNCHANGED stream, faulted \subseteq faulted', Frontier' = Frontier,
           \A u \in Threads : u # t /\ Busy(u)' =>
                blk'[u] = blk[u] /\ pc'[u] = pc[u]
    PROVE  BlocksInv'
<1>1. ASSUME NEW u \in Threads, u # t, Busy(u)' PROVE BlockGood(u)'
  <2>1. blk'[u] = blk[u] /\ pc'[u] = pc[u]
    BY <1>1
  <2>2. Busy(u)
    BY <1>1, <2>1 DEF Busy, Reading, Passed
  <2>3. BlockGood(u)
    BY <2>2 DEF BlocksInv
  <2>4. Sound(blk[u], stream, faulted')
    BY <2>3, StillSound DEF BlockGood
  <2> QED
    BY <2>1, <2>3, <2>4 DEF BlockGood, Passed
<1> QED
  BY <1>1 DEF BlocksInv

\* A new iteration starts with a block that holds nothing.
LEMMA ReadBeginBlocks ==
    ASSUME Ind, Holds, NEW t \in Threads, ReadBegin(t)
    PROVE  BlocksInv'
<1>1. /\ RingTypeOK /\ UNCHANGED <<stream, faulted>>
      /\ rd \in ReadState /\ DOMAIN pc = Threads /\ DOMAIN blk = Threads
  BY DEF Ind, ReadBegin, RingTypeOK
<1>2. CASE exit
  <2>1. pc' = [pc EXCEPT ![t] = "done"] /\ UNCHANGED <<rd, blk>>
    BY <1>2 DEF ReadBegin
  <2>2. ~Busy(t)' /\ \A u \in Threads : u # t => blk'[u] = blk[u] /\ pc'[u] = pc[u]
    BY <1>1, <2>1 DEF Busy, Reading, Passed
  <2>3. Frontier' = Frontier
    BY <2>1 DEF Frontier
  <2> QED
    BY <1>1, <2>2, <2>3, OtherBlocks DEF Holds
<1>3. CASE ~exit
  <2> DEFINE intr == Interrupted(rd.block)
             b == NewBlock(rd.block, rd.finished, intr)
  <2>1. /\ rd' = [rd EXCEPT !.block = @ + 1] /\ blk' = [blk EXCEPT ![t] = b]
        /\ pc' = [pc EXCEPT ![t] = IF intr THEN "pass" ELSE "read"]
    BY <1>3 DEF ReadBegin
  <2>2. Frontier' = Frontier
    BY <1>1, <2>1 DEF Frontier, ReadState
  <2>3. /\ blk'[t] = b /\ pc'[t] = IF intr THEN "pass" ELSE "read"
        /\ \A u \in Threads : u # t => blk'[u] = blk[u] /\ pc'[u] = pc[u]
    BY <1>1, <2>1
  <2>4. /\ b.intr = intr /\ b.link = 0 /\ b.lo = 0 /\ b.hi = 0 /\ b.parsed = 0
        /\ ~b.needWrite /\ ~b.failed /\ ~b.stale
    BY DEF NewBlock
  <2> HIDE DEF b
  <2>5. Sound(b, stream, faulted) /\ AtRead(b)
    <3>1. 0 <= Len(stream)
      BY Types, <1>1
    <3> QED
      BY <2>4, <3>1 DEF Sound, AtRead
  <2>6. BlockGood(t)'
    BY <1>1, <2>3, <2>4, <2>5 DEF BlockGood, Ends, Complete, Passed
  <2> QED
    BY <1>1, <2>2, <2>3, <2>6, OtherBlocks DEF Holds
<1> QED
  BY <1>2, <1>3

\* Decoding one more buffer leaves a good block.
LEMMA CodeLinkBlocks ==
    ASSUME Ind, Holds, NEW t \in Threads, CodeLink(t)
    PROVE  BlocksInv'
<1> DEFINE b == blk[t]
           n == LinkEnd(b)
           e == CodeRes(b, n)
<1>1. /\ RingTypeOK /\ UNCHANGED <<stream, faulted, rd>> /\ pc[t] = "code"
      /\ DOMAIN pc = Threads /\ DOMAIN blk = Threads /\ b \in Block
  BY DEF Ind, CodeLink, RingTypeOK
<1>2. Passed(t) /\ Busy(t) /\ BlockGood(t)
  BY <1>1 DEF Passed, Busy, Holds, BlocksInv
<1>3. Frontier' = Frontier
  BY <1>1 DEF Frontier
<1>4. /\ b.lo \in Nat /\ b.hi \in Nat /\ b.mid \in Nat /\ b.coded \in Nat /\ b.parsed \in Nat
      /\ b.num \in Nat
  BY <1>1, BlkFields
<1>5. n \in Nat
  BY <1>4, InBufSizeAssumption DEF LinkEnd, Min2
<1>6. ASSUME NEW c, blk' = [blk EXCEPT ![t] = c], pc'[t] \in {"code", "wait_write"},
             \A u \in Threads : u # t => pc'[u] = pc[u],
             /\ c.lo = b.lo /\ c.hi = b.hi /\ c.link = b.link /\ c.parsed = b.parsed
             /\ c.failed = b.failed /\ c.needWrite = b.needWrite /\ c.stale = b.stale
             /\ c.finish = b.finish /\ c.needCode = b.needCode
             /\ Unusable(c) = Unusable(b),
             ~c.intr => ~b.intr, c.codeRes = None => b.codeRes = None,
             Decoded(c, stream)
      PROVE  BlocksInv'
  <2>1. blk'[t] = c /\ \A u \in Threads : u # t => blk'[u] = blk[u]
    BY <1>1, <1>6
  <2>2. Sound(c, stream, faulted)
    BY <1>2, <1>6 DEF BlockGood, Sound
  <2>3. c.finish => Ends(c, Frontier)
    BY <1>2, <1>6 DEF BlockGood, Ends
  <2>4. Complete(c)
    <3>1. Complete(b)
      BY <1>1, <1>2 DEF BlockGood
    <3> QED
      BY <1>6, <3>1 DEF Complete
  <2>5. BlockGood(t)'
    BY <1>1, <1>3, <1>6, <2>1, <2>2, <2>3, <2>4 DEF BlockGood
  <2> QED
    BY <1>1, <1>3, <1>6, <2>1, <2>5, OtherBlocks DEF Holds
<1>7. CASE /\ ~b.needCode \/ b.intr \/ b.codeRes # None
           /\ pc' = [pc EXCEPT ![t] = "wait_write"] /\ UNCHANGED <<blk, prog>>
  <2>1. BlockGood(t)'
    BY <1>1, <1>2, <1>3, <1>7 DEF BlockGood, Passed
  <2> QED
    BY <1>1, <1>3, <1>7, <2>1, OtherBlocks DEF Holds
<1>8. CASE /\ b.needCode /\ ~b.intr /\ b.codeRes = None /\ e # None
           /\ blk' = [blk EXCEPT ![t].codeRes = e]
           /\ pc' = [pc EXCEPT ![t] = "wait_write"]
  <2> DEFINE c == [b EXCEPT !.codeRes = e]
  <2>1. /\ blk' = [blk EXCEPT ![t] = c] /\ pc'[t] = "wait_write"
        /\ \A u \in Threads : u # t => pc'[u] = pc[u]
    BY <1>1, <1>8
  <2>2. /\ c.lo = b.lo /\ c.hi = b.hi /\ c.link = b.link /\ c.parsed = b.parsed
        /\ c.failed = b.failed /\ c.needWrite = b.needWrite /\ c.stale = b.stale
        /\ c.finish = b.finish /\ c.needCode = b.needCode
        /\ c.threadErr = b.threadErr /\ c.allocErr = b.allocErr /\ c.overflow = b.overflow
        /\ c.intr = b.intr /\ c.coded = b.coded /\ c.codeRes = e
    BY <1>1 DEF Block
  <2> HIDE DEF c
  <2>3. Decoded(c, stream)
    BY <1>2, <2>2 DEF BlockGood, Decoded
  <2>4. Unusable(c) = Unusable(b)
    BY <2>2 DEF Unusable
  <2> HIDE DEF b, e
  <2> QED
    BY <1>6, <1>8, <2>1, <2>2, <2>3, <2>4
<1>9. CASE /\ b.needCode /\ ~b.intr /\ b.codeRes = None /\ e = None
           /\ blk' = [blk EXCEPT ![t].coded = n,
                        ![t].intr = n # b.hi /\ Interrupted(b.num)]
           /\ pc' = IF n = b.hi \/ Interrupted(b.num)
                    THEN [pc EXCEPT ![t] = "wait_write"] ELSE pc
  <2> DEFINE i1 == n # b.hi /\ Interrupted(b.num)
             c == [b EXCEPT !.coded = n, !.intr = i1]
  <2>1. /\ blk' = [blk EXCEPT ![t] = c] /\ pc'[t] \in {"code", "wait_write"}
        /\ \A u \in Threads : u # t => pc'[u] = pc[u]
    BY <1>1, <1>9
  <2>2. /\ c.lo = b.lo /\ c.hi = b.hi /\ c.link = b.link /\ c.parsed = b.parsed
        /\ c.failed = b.failed /\ c.needWrite = b.needWrite /\ c.stale = b.stale
        /\ c.finish = b.finish /\ c.needCode = b.needCode
        /\ c.threadErr = b.threadErr /\ c.allocErr = b.allocErr /\ c.overflow = b.overflow
        /\ c.coded = n /\ c.codeRes = b.codeRes
    BY <1>1 DEF Block
  <2> HIDE DEF c
  <2>3. \A i \in b.coded+1 .. Min2(n, b.parsed) : stream[i] # "bad"
    BY <1>9 DEF CodeRes, None
  <2>4. \A i \in b.lo+1 .. Min2(b.coded, b.parsed) : stream[i] # "bad"
    BY <1>2, <1>9 DEF BlockGood, Decoded
  <2> HIDE DEF b, n, e
  <2>5. \A i \in b.lo+1 .. Min2(n, b.parsed) :
            i \in b.coded+1 .. Min2(n, b.parsed) \/ i \in b.lo+1 .. Min2(b.coded, b.parsed)
    BY <1>4, <1>5 DEF Min2
  <2>6. Decoded(c, stream)
    BY <2>2, <2>3, <2>4, <2>5 DEF Decoded
  <2>7. Unusable(c) = Unusable(b)
    BY <2>2 DEF Unusable
  <2> QED
    BY <1>6, <1>9, <2>1, <2>2, <2>6, <2>7
<1> QED
  BY <1>7, <1>8, <1>9 DEF CodeLink

\* The block c is what is left of b when its input is complete.
LeftAs(c, b) ==
    /\ c.lo = b.lo /\ c.hi = b.hi /\ c.link = b.link /\ c.parsed = b.parsed
    /\ c.failed = b.failed /\ c.needWrite = b.needWrite /\ c.stale = b.stale
    /\ b.finish => c.finish
    /\ Unusable(b) => Unusable(c)
    /\ ~c.intr => ~b.intr
    /\ ~Unusable(c) /\ c.codeRes = None => c.needCode = b.needCode /\ b.codeRes = None

\* pre_code and the hand-on leave the input and the parse of the block alone.
LEMMA PreCodeLeft ==
    ASSUME RingTypeOK, NEW t \in Threads, NEW a \in Block, NEW p \in PreCode(t, a)
    PROVE  p.b \in Block /\ LeftAs(p.b, a)
<1>1. p.b \in Block
  BY PreCodeFacts
<1>2. ASSUME NEW e \in {"truncated", "alloc"},
             p.b = [a EXCEPT !.codeRes = e, !.needCode = FALSE,
                             !.finish = TRUE, !.allocErr = @ \/ e = "alloc"]
      PROVE  LeftAs(p.b, a)
  <2>1. /\ p.b.lo = a.lo /\ p.b.hi = a.hi /\ p.b.link = a.link /\ p.b.parsed = a.parsed
        /\ p.b.failed = a.failed /\ p.b.needWrite = a.needWrite /\ p.b.stale = a.stale
        /\ p.b.intr = a.intr /\ p.b.threadErr = a.threadErr /\ p.b.overflow = a.overflow
        /\ p.b.finish /\ p.b.codeRes = e /\ p.b.allocErr = (a.allocErr \/ e = "alloc")
    BY <1>2 DEF Block
  <2>2. e # None
    BY DEF None
  <2> QED
    BY <2>1, <2>2 DEF LeftAs, Unusable
<1>3. \/ p.b = a
      \/ \E e \in {"truncated", "alloc"} :
            p.b = [a EXCEPT !.codeRes = e, !.needCode = FALSE,
                            !.finish = TRUE, !.allocErr = @ \/ e = "alloc"]
  BY DEF PreCode
<1>4. p.b = a => LeftAs(p.b, a)
  BY DEF LeftAs
<1> QED
  BY <1>1, <1>2, <1>3, <1>4

\* The end of the read section keeps the blocks good.
LEMMA PassReadBlocks ==
    ASSUME Ind, Holds, NEW t \in Threads, PassRead(t)
    PROVE  BlocksInv'
<1> DEFINE a == [blk[t] EXCEPT !.intr = @ \/ Interrupted(blk[t].num)]
<1>1. /\ RingTypeOK /\ UNCHANGED stream /\ pc[t] = "pass" /\ blk[t] \in Block
      /\ DOMAIN pc = Threads /\ DOMAIN blk = Threads /\ rd \in ReadState
  BY DEF Ind, PassRead, RingTypeOK
<1>2. BlockGood(t)
  BY <1>1 DEF Busy, Reading, Holds, BlocksInv
<1>3. PICK p \in PreCode(t, a) :
         LET b == [p.b EXCEPT !.finish = @ \/ p.b.intr, !.coded = p.b.lo]
             maySpawn == ~b.finish /\ rd.started < rd.limit
             here == [pc EXCEPT ![t] = "code"]
         IN  /\ \/ /\ b.finish
                   /\ KeepToken(t, b)
                   /\ pc' = here
                   /\ faulted' = faulted \cup p.fault
                \/ /\ ~b.finish /\ rd.started >= rd.limit
                   /\ PassToken(t, b, rd.started)
                   /\ UNCHANGED rd
                   /\ pc' = here
                   /\ faulted' = faulted \cup p.fault
                \/ /\ maySpawn
                   /\ PassToken(t, b, rd.started + 1)
                   /\ rd' = [rd EXCEPT !.started = @ + 1]
                   /\ pc' = [here EXCEPT ![rd.started] = "wait_read"]
                   /\ faulted' = faulted \cup p.fault
                \/ /\ maySpawn /\ rd.started = 1 /\ MayFault("spawn")
                   /\ KeepToken(t, [b EXCEPT !.finish = TRUE, !.needCode = FALSE,
                                             !.threadErr = TRUE])
                   /\ pc' = here
                   /\ faulted' = faulted \cup p.fault \cup {"spawn"}
                \/ /\ maySpawn /\ rd.started # 1 /\ MayFault("spawn")
                   /\ PassToken(t, b, rd.started)
                   /\ rd' = [rd EXCEPT !.limit = rd.started]
                   /\ pc' = here
                   /\ faulted' = faulted \cup p.fault \cup {"spawn"}
  BY DEF PassRead
<1> DEFINE b == [p.b EXCEPT !.finish = @ \/ p.b.intr, !.coded = p.b.lo]
<1>4. a \in Block /\ LeftAs(a, blk[t])
  <2>1. Interrupted(blk[t].num) \in BOOLEAN
    BY Types, BlkFields, InterruptedType, <1>1
  <2>2. /\ a \in Block /\ a.lo = blk[t].lo /\ a.hi = blk[t].hi /\ a.link = blk[t].link
        /\ a.parsed = blk[t].parsed /\ a.failed = blk[t].failed
        /\ a.needWrite = blk[t].needWrite /\ a.stale = blk[t].stale
        /\ a.finish = blk[t].finish /\ a.threadErr = blk[t].threadErr
        /\ a.allocErr = blk[t].allocErr /\ a.overflow = blk[t].overflow
        /\ a.intr = (blk[t].intr \/ Interrupted(blk[t].num))
        /\ a.codeRes = blk[t].codeRes /\ a.needCode = blk[t].needCode
    BY <1>1, <2>1 DEF Block
  <2> HIDE DEF a
  <2> QED
    BY <2>2 DEF LeftAs, Unusable
<1> HIDE DEF a
<1>5. p.b \in Block /\ LeftAs(p.b, a)
  BY <1>1, <1>4, PreCodeLeft
<1>6. /\ b \in Block /\ b.coded = b.lo /\ LeftAs(b, p.b)
  <2>1. p.b.lo \in Nat /\ p.b.finish \in BOOLEAN /\ p.b.intr \in BOOLEAN
    BY <1>5, BlkFields
  <2>2. /\ b \in Block /\ b.lo = p.b.lo /\ b.hi = p.b.hi /\ b.link = p.b.link
        /\ b.parsed = p.b.parsed /\ b.failed = p.b.failed
        /\ b.needWrite = p.b.needWrite /\ b.stale = p.b.stale
        /\ b.finish = (p.b.finish \/ p.b.intr) /\ b.threadErr = p.b.threadErr
        /\ b.allocErr = p.b.allocErr /\ b.overflow = p.b.overflow
        /\ b.intr = p.b.intr /\ b.coded = p.b.lo
        /\ b.codeRes = p.b.codeRes /\ b.needCode = p.b.needCode
    BY <1>5, <2>1 DEF Block
  <2> HIDE DEF b
  <2> QED
    BY <2>2 DEF LeftAs, Unusable
<1>7. LeftAs(b, blk[t])
  BY <1>4, <1>5, <1>6 DEF LeftAs
<1>8. ASSUME NEW c, blk' = [blk EXCEPT ![t] = c], LeftAs(c, blk[t]), c.coded = c.lo,
             c.lo \in Nat, c.parsed \in Nat, pc'[t] = "code",
             \A u \in Threads : u # t => pc'[u] = pc[u] \/ pc'[u] = "wait_read",
             faulted \subseteq faulted', Frontier' = Frontier
      PROVE  BlocksInv'
  <2>1. blk'[t] = c /\ \A u \in Threads : u # t => blk'[u] = blk[u]
    BY <1>1, <1>8
  <2>2. Sound(c, stream, faulted')
    BY <1>2, <1>8 DEF BlockGood, Sound, LeftAs
  <2>3. Ends(c, Frontier)
    BY <1>1, <1>2, <1>8 DEF BlockGood, Ends, LeftAs
  <2>4. Complete(c)
    <3>1. Complete(blk[t])
      BY <1>1, <1>2 DEF BlockGood
    <3> QED
      BY <1>8, <3>1 DEF Complete, LeftAs
  <2>5. Decoded(c, stream)
    <3>1. c.lo+1 .. Min2(c.coded, c.parsed) = {}
      BY <1>8 DEF Min2
    <3> QED
      BY <3>1 DEF Decoded
  <2>6. BlockGood(t)'
    BY <1>1, <1>8, <2>1, <2>2, <2>3, <2>4, <2>5 DEF BlockGood
  <2>7. \A u \in Threads : u # t /\ Busy(u)' => blk'[u] = blk[u] /\ pc'[u] = pc[u]
    BY <1>8, <2>1 DEF Busy, Reading, Passed
  <2> QED
    BY <1>1, <1>8, <2>6, <2>7, OtherBlocks DEF Holds
<1>9. /\ pc'[t] = "code"
      /\ \A u \in Threads : u # t => pc'[u] = pc[u] \/ pc'[u] = "wait_read"
  <2>1. \/ pc' = [pc EXCEPT ![t] = "code"]
        \/ pc' = [[pc EXCEPT ![t] = "code"] EXCEPT ![rd.started] = "wait_read"]
    BY <1>3
  <2>2. rd.started = t => pc' = [pc EXCEPT ![t] = "code"]
    <3>1. t < rd.started
      <4>1. /\ \A u \in Threads : u >= rd.started => pc[u] = "off"
            /\ rd.started \in 1 .. NumThreads
        BY <1>1, RdFields DEF Ind, RingInv, TokenInv
      <4> QED
        BY <1>1, <4>1, NumThreadsAssumption DEF Threads
    <3> QED
      BY <2>1, <3>1, <1>1, RdFields, NumThreadsAssumption DEF Threads
  <2> QED
    BY <1>1, <2>1, <2>2
<1>10. faulted \subseteq faulted'
  BY <1>3
<1>11. Frontier' = Frontier
  <2>1. rd' \in {rd, [rd EXCEPT !.started = @ + 1], [rd EXCEPT !.limit = rd.started]}
    BY <1>3 DEF KeepToken
  <2>2. rd'.pos = rd.pos /\ rd'.crossLo = rd.crossLo /\ rd'.crossHi = rd.crossHi
    BY <1>1, <2>1 DEF ReadState
  <2> QED
    BY <2>2 DEF Frontier
<1>12. b.lo \in Nat /\ b.parsed \in Nat
  BY <1>6, BlkFields
<1> HIDE DEF b
<1>13. CASE blk' = [blk EXCEPT ![t] = b]
  BY <1>6, <1>7, <1>8, <1>9, <1>10, <1>11, <1>12, <1>13
<1>14. CASE blk' = [blk EXCEPT ![t] = [b EXCEPT !.finish = TRUE, !.needCode = FALSE,
                                                !.threadErr = TRUE]]
  <2> DEFINE c == [b EXCEPT !.finish = TRUE, !.needCode = FALSE, !.threadErr = TRUE]
  <2>1. /\ c.lo = b.lo /\ c.hi = b.hi /\ c.link = b.link
        /\ c.parsed = b.parsed /\ c.failed = b.failed
        /\ c.needWrite = b.needWrite /\ c.stale = b.stale
        /\ c.finish /\ c.threadErr /\ c.intr = b.intr /\ c.coded = b.coded
    BY <1>6 DEF Block
  <2>2. blk' = [blk EXCEPT ![t] = c]
    BY <1>14
  <2> HIDE DEF c
  <2>3. LeftAs(c, blk[t])
    BY <1>7, <2>1 DEF LeftAs, Unusable
  <2> QED
    BY <1>6, <1>8, <1>9, <1>10, <1>11, <1>12, <2>1, <2>2, <2>3
<1>15. CASE \E n : blk' = [blk EXCEPT ![t] = [b EXCEPT !.next = n]]
  <2>1. PICK n : blk' = [blk EXCEPT ![t] = [b EXCEPT !.next = n]]
    BY <1>15
  <2> DEFINE c == [b EXCEPT !.next = n]
  <2>2. /\ c.lo = b.lo /\ c.hi = b.hi /\ c.link = b.link
        /\ c.parsed = b.parsed /\ c.failed = b.failed
        /\ c.needWrite = b.needWrite /\ c.stale = b.stale
        /\ c.finish = b.finish /\ c.threadErr = b.threadErr
        /\ c.allocErr = b.allocErr /\ c.overflow = b.overflow
        /\ c.intr = b.intr /\ c.coded = b.coded
        /\ c.codeRes = b.codeRes /\ c.needCode = b.needCode
    BY <1>6 DEF Block
  <2>3. blk' = [blk EXCEPT ![t] = c]
    BY <2>1
  <2> HIDE DEF c
  <2>4. LeftAs(c, blk[t])
    BY <1>7, <2>2 DEF LeftAs, Unusable
  <2> QED
    BY <1>6, <1>8, <1>9, <1>10, <1>11, <1>12, <2>2, <2>3, <2>4
<1> QED
  BY <1>3, <1>13, <1>14, <1>15, Zenon DEF KeepToken, PassToken, b

-----------------------------------------------------------------------------
\* Lzma2Coder::write reports a block that failed to parse, keeps for replay
\* what it was not told to write, and writes no more than was decoded.
LEMMA WriteDetail ==
    ASSUME RingTypeOK, NEW b \in Block, NEW ts \in BOOLEAN, ts => b.needWrite,
           NEW w \in WriteResults(b, ts)
    PROVE  /\ b.needWrite /\ b.failed => w.err = "corrupt" /\ w.hi = b.lo
           /\ ts /\ w.err = None => ~w.recode /\ w.hi = b.coded
           /\ ~ts => w.hi = b.lo
           /\ ~ts /\ w.err = None => w.recode /\ (b.finish => ~w.nc)
           /\ w.hi \in {b.lo, b.coded} \cup (b.lo .. b.coded)
           /\ w.fault \subseteq FaultKind
<1> DEFINE Res(nc, recode, err, hi) ==
            [nc |-> nc, recode |-> recode, err |-> err, hi |-> hi,
             fault |-> IF err = "write" THEN {"write"} ELSE {}]
           more == b.state \notin {"overflow", "end"}
<1>1. "corrupt" # None /\ "internal" # None /\ "write" # None
  BY DEF None
<1>2. CASE ~b.needWrite
  <2>1. w = Res(~b.finish, TRUE, None, b.lo)
    BY <1>2 DEF WriteResults
  <2>2. w.recode = TRUE /\ w.err = None /\ w.hi = b.lo /\ w.nc = ~b.finish
    BY <2>1
  <2> QED
    BY <1>2, <2>2, WriteResultFacts DEF WriteResult
<1>3. CASE b.needWrite /\ b.failed
  <2>1. w = Res(~b.finish, TRUE, "corrupt", b.lo)
    BY <1>3 DEF WriteResults
  <2>2. w.err = "corrupt" /\ w.hi = b.lo
    BY <2>1
  <2> QED
    BY <1>1, <1>3, <2>2, WriteResultFacts DEF WriteResult
<1>4. CASE b.needWrite /\ ~b.failed /\ ~ts
  <2>1. w = Res(FALSE, TRUE, None, b.lo)
    BY <1>4 DEF WriteResults
  <2>2. w.recode = TRUE /\ w.err = None /\ w.hi = b.lo /\ w.nc = FALSE
    BY <2>1
  <2> QED
    BY <1>4, <2>2, WriteResultFacts DEF WriteResult
<1>5. CASE b.needWrite /\ ~b.failed /\ ts
  <2>1. \/ w = Res(FALSE, TRUE, "internal", b.lo)
        \/ w = Res(FALSE, FALSE, "internal", b.lo)
        \/ w = Res(more, FALSE, None, b.coded)
        \/ \E h \in b.lo .. b.coded : w = Res(FALSE, FALSE, "write", h)
    BY <1>5 DEF WriteResults
  <2>2. \/ w.err = "internal" /\ w.hi = b.lo
        \/ w.err = None /\ w.recode = FALSE /\ w.hi = b.coded
        \/ w.err = "write" /\ w.hi \in b.lo .. b.coded
    BY <2>1
  <2> QED
    BY <1>1, <1>5, <2>2, WriteResultFacts DEF WriteResult
<1> QED
  BY <1>2, <1>3, <1>4, <1>5

\* The block with the write token is interrupted only when the writing is.
LEMMA WriterGoesOn ==
    ASSUME Ind, NEW t \in Threads, pc[t] = "wait_write", canWrite[t], ~wr.intr
    PROVE  ~blk[t].intr
<1>1. /\ Busy(t) /\ \A u \in Threads : Busy(u) /\ u # t => blk[t].num < blk[u].num
  BY LoneWriter
<1>2. \A u \in Threads : blk[u].num \in Nat
  BY Types, BlkFields DEF Ind
<1>3. blk[t].intr => \E u \in Threads : Passed(u) /\ blk[u].num < blk[t].num
  BY <1>1 DEF Ind, RingInv, IntrInv
<1>4. ASSUME NEW u \in Threads, Passed(u), blk[u].num < blk[t].num PROVE FALSE
  <2>1. Busy(u)
    BY <1>4 DEF Busy
  <2>2. u # t
    BY <1>2, <1>4
  <2>3. blk[t].num < blk[u].num
    BY <1>1, <2>1, <2>2
  <2> QED
    BY <1>2, <1>4, <2>3
<1> QED
  BY <1>3, <1>4

\* A block that is written to the stream, and did not fail, was decoded to
\* its end, which is as far as it was parsed.
LEMMA WrittenWhole ==
    ASSUME Ind, Holds, NEW t \in Threads, pc[t] = "wait_write", ToStream(t),
           ~blk[t].failed
    PROVE  /\ blk[t].coded = blk[t].hi /\ blk[t].parsed = blk[t].hi
           /\ blk[t].link > 0 /\ ~blk[t].stale
           /\ \A i \in blk[t].lo+1 .. blk[t].hi : stream[i] # "bad" /\ ~Illegal(stream, 0, i)
<1> DEFINE b == blk[t]
<1>1. /\ b \in Block /\ b.lo \in Nat /\ b.hi \in Nat /\ b.link \in Nat
      /\ b.coded \in Nat /\ b.parsed \in Nat
  BY Types, BlkFields DEF Ind
<1>2. Busy(t) /\ Passed(t) /\ BlockGood(t)
  BY DEF Busy, Passed, Holds, BlocksInv
<1>3. ~b.intr /\ ~Unusable(b) /\ b.codeRes = None /\ b.needWrite
  BY DEF ToStream
<1>4. b.needCode /\ b.parsed = b.hi
  BY <1>2, <1>3 DEF BlockGood, Complete
<1>5. b.coded = b.hi
  BY <1>3, <1>4 DEF Ind, RingInv, ChainInv
<1>6. b.link > 0 /\ ~b.stale
  BY <1>1, <1>2, <1>3 DEF BlockGood, Sound
<1>7. \A i \in b.lo+1 .. b.hi : stream[i] # "bad"
  <2>1. Min2(b.coded, b.parsed) = b.hi
    BY <1>1, <1>4, <1>5 DEF Min2
  <2> QED
    BY <1>2, <1>4, <2>1 DEF BlockGood, Decoded
<1>8. \A i \in b.lo+1 .. b.hi : ~Illegal(stream, b.lo, i)
  BY <1>2, <1>3, <1>4 DEF BlockGood, Sound
<1>9. \A i \in b.lo+1 .. b.hi : ~Illegal(stream, 0, i)
  <2>1. TAKE i \in b.lo+1 .. b.hi
  <2>2. ~Illegal(stream, b.lo, i)
    BY <1>8
  <2>3. i = 0 + 1 => i = b.lo + 1
    BY <1>1
  <2> QED
    BY <2>2, <2>3 DEF Illegal
<1> QED
  BY <1>4, <1>5, <1>6, <1>7, <1>9

\* The piece of the input that is kept for replay.
Piece(b) == [lo |-> b.lo, hi |-> b.hi, stale |-> b.stale]

(***************************************************************************)
(* What the write section does with the block of thread t: it writes a     *)
(* part of it, or keeps it for replay; unless it fails, it writes all of   *)
(* it or keeps all of it.                                                  *)
(***************************************************************************)
Disposed(t) ==
    /\ \/ UNCHANGED out
       \/ /\ ToStream(t) /\ ~blk[t].failed
          /\ \E h \in blk[t].lo .. blk[t].coded :
                out' = Append(out, [lo |-> blk[t].lo, hi |-> h])
    /\ \/ wr'.replay = wr.replay
       \/ wr'.replay = Append(wr.replay, Piece(blk[t]))
    /\ ~wr'.intr => wr'.replay = wr.replay /\ ~wr.intr
    /\ Fine' =>
        /\ Fine /\ ~blk[t].failed
        /\ ToStream(t) =>
             /\ out' = Append(out, [lo |-> blk[t].lo, hi |-> blk[t].coded])
             /\ wr'.replay = wr.replay /\ ~wr'.intr
        /\ ~ToStream(t) =>
             /\ UNCHANGED out /\ wr'.intr
             /\ wr'.replay = IF blk[t].hi > blk[t].lo
                             THEN Append(wr.replay, Piece(blk[t])) ELSE wr.replay
             /\ blk[t].finish => exit' \/ pc'[0] = "done"
    /\ ~blk[t].finish => \A u \in Threads : canWrite'[u] => u = blk[t].next
    /\ blk[t].finish \/ (~exit' /\ pc'[0] \notin {"done", "join"})
    /\ pc'[t] \in {"wait_read", "done"}
    /\ \A u \in Threads : u # t => pc'[u] = pc[u]
    /\ faulted \subseteq faulted'

\* The write section disposes of the block.
LEMMA WriteDisposes ==
    ASSUME Ind, Holds, NEW t \in Threads, Write(t)
    PROVE  Disposed(t)
<1> DEFINE b == blk[t]
           intr == b.intr \/ wr.intr
           stop == b.codeRes # None \/ Unusable(b)
           toStream == b.needWrite /\ ~intr /\ ~stop
           intr2(w) == wr.intr \/ stop \/ w.err # None
           keep(w) == /\ w.recode
                      /\ ~b.needCode \/ intr \/ intr2(w) \/ wr.filled # 0
                      /\ b.hi > b.lo \/ ~b.finish
           done(w) == w.hi > b.lo \/ (toStream /\ w.err = None)
           ended(w) == b.finish /\ ~w.nc
<1>1. /\ RingTypeOK /\ pc[t] = "wait_write" /\ canWrite[t] /\ Live
      /\ \A u \in Threads : canWrite[u] => u = t
  <2>1. pc[t] = "wait_write" /\ canWrite[t]
    BY DEF Write
  <2> QED
    BY <2>1, LoneWriter DEF Ind
<1>2. ~exit /\ pc[0] \notin {"done", "join"}
  BY <1>1 DEF Live
<1>3. PICK w \in WriteResults(b, toStream) :
        /\ wr' = [intr |-> intr2(w),
                  codeRes |->
                    IF wr.codeRes # None THEN wr.codeRes
                    ELSE IF ~wr.intr /\ b.codeRes # None THEN b.codeRes
                    ELSE IF w.err \in CodeError THEN w.err
                    ELSE None,
                  err |-> wr.err \/ w.err = "write",
                  replay |-> IF keep(w) /\ b.hi > b.lo
                             THEN Append(wr.replay,
                                    [lo |-> b.lo, hi |-> b.hi, stale |-> b.stale])
                             ELSE wr.replay,
                  filled |-> IF keep(w) THEN wr.filled + 1 ELSE wr.filled,
                  outDone |-> IF toStream /\ w.err = None
                              THEN wr.outDone + Produced(stream, b.lo, b.coded)
                              ELSE wr.outDone]
        /\ out' = IF done(w) THEN Append(out, [lo |-> b.lo, hi |-> w.hi]) ELSE out
        /\ faulted' = faulted \cup w.fault
        /\ canWrite' = [u \in Threads |-> \/ canWrite[u] /\ u # t
                                          \/ ~blk[t].finish /\ u = blk[t].next
                                          \/ blk[t].finish /\ w.nc /\ u = 0]
        /\ exit' = (exit \/ (ended(w) /\ t # 0))
        /\ pc' = [pc EXCEPT ![t] = IF ended(w) /\ t = 0 THEN "done" ELSE "wait_read"]
  BY <1>2 DEF Write
<1>4. /\ b \in Block /\ wr \in WriteState /\ DOMAIN pc = Threads /\ 0 \in Threads
  BY <1>1, NumThreadsAssumption DEF RingTypeOK, Threads
<1>5. /\ b.lo \in Nat /\ b.hi \in Nat /\ b.coded \in Nat
      /\ b.codeRes \in CodeError \cup {None}
      /\ b.needWrite \in BOOLEAN /\ b.intr \in BOOLEAN /\ b.finish \in BOOLEAN
  BY <1>4 DEF Block
<1>6. PICK ts \in BOOLEAN : (ts <=> toStream) /\ (ts <=> ToStream(t))
  BY <1>5 DEF ToStream
<1>7. Sound(b, stream, faulted) /\ Complete(b) /\ Busy(t)
  BY <1>1 DEF Busy, Passed, Holds, BlocksInv, BlockGood
<1>8. ~wr.intr => ~b.intr
  BY <1>1, WriterGoesOn
<1>9. b.lo <= b.hi
  BY <1>7 DEF Ind, RingInv, ReadInv
<1> HIDE DEF b
<1>10. /\ b.needWrite /\ b.failed => w.err = "corrupt" /\ w.hi = b.lo
       /\ ts /\ w.err = None => ~w.recode /\ w.hi = b.coded
       /\ ~ts => w.hi = b.lo
       /\ ~ts /\ w.err = None => w.recode /\ (b.finish => ~w.nc)
       /\ w.hi \in {b.lo, b.coded} \cup (b.lo .. b.coded)
       /\ w.err \in CodeError \cup {None, "write"}
  <2>1. w \in WriteResults(b, ts)
    <3>1. ts = toStream
      BY <1>5, <1>6
    <3> QED
      BY <1>3, <3>1
  <2>2. ts => b.needWrite
    BY <1>6
  <2> HIDE DEF toStream
  <2> QED
    BY <1>1, <1>4, <2>1, <2>2, WriteDetail, WriteResultFacts DEF WriteResult
<1>11. /\ wr'.intr <=> intr2(w)
       /\ wr'.codeRes = IF wr.codeRes # None THEN wr.codeRes
                        ELSE IF ~wr.intr /\ b.codeRes # None THEN b.codeRes
                        ELSE IF w.err \in CodeError THEN w.err
                        ELSE None
       /\ wr'.err = (wr.err \/ w.err = "write")
       /\ wr'.replay = IF keep(w) /\ b.hi > b.lo
                       THEN Append(wr.replay, Piece(b)) ELSE wr.replay
  BY <1>3 DEF Piece
<1>12. \/ UNCHANGED out
       \/ /\ ToStream(t) /\ ~b.failed
          /\ \E h \in b.lo .. b.coded : out' = Append(out, [lo |-> b.lo, hi |-> h])
  <2>1. CASE ~done(w)
    BY <1>3, <2>1
  <2>2. CASE done(w)
    <3>1. ts /\ ~b.failed
      BY <1>5, <1>6, <1>7, <1>10, <2>2 DEF Sound, CodeError, None
    <3>2. b.lo <= b.coded
      BY <1>1, <1>6, <1>9, <3>1, WrittenWhole DEF b
    <3>3. w.hi \in b.lo .. b.coded
      BY <1>5, <1>10, <3>2
    <3> QED
      BY <1>3, <1>6, <2>2, <3>1, <3>3
  <2> QED
    BY <2>1, <2>2
<1>13. ~wr'.intr => wr'.replay = wr.replay /\ ~wr.intr
  <2> SUFFICES ASSUME ~wr'.intr PROVE wr'.replay = wr.replay /\ ~wr.intr
    OBVIOUS
  <2>1. ~wr.intr /\ ~stop /\ w.err = None
    BY <1>11
  <2>2. ~b.intr
    BY <1>8, <2>1
  <2>3. b.needWrite
    BY <1>7, <2>1, <2>2 DEF Complete
  <2>4. ts
    BY <1>6, <2>1, <2>2, <2>3
  <2> QED
    BY <1>10, <1>11, <2>1, <2>4
<1>14. ASSUME Fine' PROVE Fine /\ ~b.failed /\ w.err = None
  <2>1. wr'.codeRes = None /\ ~wr'.err
    BY <1>14 DEF Fine
  <2>2. wr.codeRes = None
    BY <1>11, <2>1
  <2>3. ~wr.err /\ w.err # "write"
    BY <1>11, <2>1
  <2>4. w.err \notin CodeError
    <3>1. None \notin CodeError
      BY DEF CodeError, None
    <3> QED
      BY <1>11, <2>1, <2>2, <3>1
  <2>5. w.err = None
    BY <1>10, <2>3, <2>4
  <2>6. ~b.failed
    BY <1>7, <1>10, <2>5 DEF Sound, None
  <2> QED
    BY <2>2, <2>3, <2>5, <2>6 DEF Fine
<1>15. ASSUME Fine', ToStream(t)
       PROVE  /\ out' = Append(out, [lo |-> b.lo, hi |-> b.coded])
              /\ wr'.replay = wr.replay /\ ~wr'.intr
  <2>1. ts /\ toStream /\ w.err = None
    BY <1>6, <1>14, <1>15
  <2>2. w.hi = b.coded /\ ~w.recode
    BY <1>10, <2>1
  <2>3. done(w)
    BY <2>1
  <2>4. ~intr2(w)
    BY <2>1
  <2> QED
    BY <1>3, <1>11, <2>2, <2>3, <2>4
<1>16. ASSUME Fine', ~ToStream(t)
       PROVE  /\ UNCHANGED out /\ wr'.intr
              /\ wr'.replay = IF b.hi > b.lo
                              THEN Append(wr.replay, Piece(b)) ELSE wr.replay
              /\ b.finish => exit' \/ pc'[0] = "done"
  <2>1. ~ts /\ ~toStream /\ w.err = None /\ w.recode /\ (b.finish => ~w.nc) /\ w.hi = b.lo
    BY <1>6, <1>10, <1>14, <1>16
  <2>2. ~done(w)
    BY <1>5, <2>1
  <2>3. wr'.intr
    <3>1. ~wr.intr /\ ~stop => b.needWrite
      BY <1>7, <1>8 DEF Complete
    <3>2. ~wr.intr /\ ~stop => toStream
      BY <1>8, <3>1
    <3> QED
      BY <1>11, <2>1, <3>2
  <2>4. b.hi > b.lo => keep(w)
    BY <1>11, <2>1, <2>3
  <2>5. b.finish => exit' \/ pc'[0] = "done"
    BY <1>3, <1>4, <2>1
  <2> QED
    BY <1>3, <1>11, <2>2, <2>3, <2>4, <2>5
<1>17. ~b.finish => \A u \in Threads : canWrite'[u] => u = b.next
  <2> SUFFICES ASSUME ~b.finish, NEW u \in Threads, canWrite'[u] PROVE u = b.next
    OBVIOUS
  <2>1. canWrite'[u] = (\/ canWrite[u] /\ u # t
                        \/ ~b.finish /\ u = b.next
                        \/ b.finish /\ w.nc /\ u = 0)
    BY <1>3 DEF b
  <2> QED
    BY <1>1, <2>1
<1>18. b.finish \/ (~exit' /\ pc'[0] \notin {"done", "join"})
  <2> SUFFICES ASSUME ~b.finish PROVE ~exit' /\ pc'[0] \notin {"done", "join"}
    OBVIOUS
  <2>1. ~ended(w)
    OBVIOUS
  <2>2. ~exit'
    BY <1>2, <1>3, <2>1
  <2>3. pc' = [pc EXCEPT ![t] = "wait_read"]
    BY <1>3, <2>1
  <2> QED
    BY <1>2, <1>4, <2>2, <2>3
<1>19. /\ pc'[t] \in {"wait_read", "done"}
       /\ \A u \in Threads : u # t => pc'[u] = pc[u]
       /\ faulted \subseteq faulted'
  BY <1>3, <1>4
<1>20. wr'.replay = wr.replay \/ wr'.replay = Append(wr.replay, Piece(b))
  BY <1>11
<1> QED
  BY <1>12, <1>13, <1>14, <1>15, <1>16, <1>17, <1>18, <1>19, <1>20 DEF Disposed, b

\* The write section leaves the other blocks good.
LEMMA WriteBlocks ==
    ASSUME Ind, Holds, NEW t \in Threads, Write(t)
    PROVE  BlocksInv'
<1>1. /\ UNCHANGED <<stream, rd, blk>> /\ Frontier' = Frontier
  BY DEF Write, Frontier
<1>2. Disposed(t)
  BY WriteDisposes
<1>3. ~Busy(t)' /\ faulted \subseteq faulted' /\ \A u \in Threads : u # t => pc'[u] = pc[u]
  BY <1>2 DEF Disposed, Busy, Reading, Passed
<1> QED
  BY <1>1, <1>3, OtherBlocks DEF Holds

\* A block that is written starts where the output ends.
LEMMA WrittenThere ==
    ASSUME Ind, NEW t \in Threads, pc[t] = "wait_write", canWrite[t], ToStream(t)
    PROVE  Delivered = blk[t].lo
<1>1. Live /\ Busy(t)
  BY LoneWriter
<1>2. ~wr.intr /\ blk[t].link > 0
  BY <1>1 DEF ToStream, Ind, RingInv, ReadInv
<1>3. Delivered = Start(t)
  BY <1>1, <1>2 DEF Ind, RingInv, ChainInv
<1> QED
  BY <1>2, <1>3 DEF Start

\* What the write section writes decodes.
LEMMA WriteOut ==
    ASSUME Ind, Holds, NEW t \in Threads, Write(t)
    PROVE  OutInv'
<1> DEFINE b == blk[t]
<1>1. pc[t] = "wait_write" /\ canWrite[t] /\ UNCHANGED stream
  BY DEF Write
<1>2. \/ UNCHANGED out
      \/ /\ ToStream(t) /\ ~b.failed
         /\ \E h \in b.lo .. b.coded : out' = Append(out, [lo |-> b.lo, hi |-> h])
  BY WriteDisposes DEF Disposed
<1>3. CASE UNCHANGED out
  BY <1>1, <1>3 DEF Holds, OutInv, Clean, Delivered
<1>4. CASE /\ ToStream(t) /\ ~b.failed
           /\ \E h \in b.lo .. b.coded : out' = Append(out, [lo |-> b.lo, hi |-> h])
  <2>1. PICK h \in b.lo .. b.coded : out' = Append(out, [lo |-> b.lo, hi |-> h])
    BY <1>4
  <2>2. b.lo \in Nat /\ b.hi \in Nat /\ b.coded \in Nat /\ h \in Nat /\ Len(stream) \in Nat
    BY Types, BlkFields DEF Ind
  <2>3. Delivered = b.lo
    BY <1>1, <1>4, WrittenThere
  <2>4. /\ b.coded = b.hi
        /\ \A i \in b.lo+1 .. b.hi : stream[i] # "bad" /\ ~Illegal(stream, 0, i)
    BY <1>1, <1>4, WrittenWhole
  <2>5. b.hi <= Len(stream)
    BY <1>1 DEF Busy, Passed, Holds, BlocksInv, BlockGood, Sound
  <2> HIDE DEF b
  <2>6. Delivered' = h
    BY <2>1, <2>2, <2>3, GaplessAppend DEF Ind, RingTypeOK, RingInv
  <2>7. Clean(stream, 0, h)
    <3>1. ASSUME NEW i \in 0+1 .. h PROVE i \in 0+1 .. b.lo \/ i \in b.lo+1 .. b.hi
      BY <2>2, <2>4
    <3>2. Clean(stream, 0, b.lo)
      BY <2>3 DEF Holds, OutInv
    <3> QED
      BY <2>4, <3>1, <3>2 DEF Clean
  <2>8. h <= Len(stream)
    BY <2>2, <2>4, <2>5
  <2> QED
    BY <1>1, <2>6, <2>7, <2>8 DEF OutInv
<1> QED
  BY <1>2, <1>3, <1>4

-----------------------------------------------------------------------------
\* The pieces of the input.
Pieces == [lo : Nat, hi : Nat, stale : BOOLEAN]

\* A chain ends with the piece it got last.
LEMMA EndAppend ==
    ASSUME NEW c \in Seq(Pieces), NEW e \in Pieces, NEW p, NEW d, d = Append(c, e)
    PROVE  /\ EndOf(d, p) = e.hi
           /\ StaleEnd(d) => e.stale
           /\ e.stale => StaleEnd(d)
<1>1. d # <<>> /\ Len(c) \in Nat /\ Len(d) = Len(c) + 1 /\ d[Len(c) + 1] = e
  BY AppendProperties
<1> QED
  BY <1>1 DEF EndOf, StaleEnd

\* A piece that follows a chain makes it longer.
LEMMA ChainAppend ==
    ASSUME NEW c \in Seq(Pieces), NEW p \in Nat, NEW n \in Nat, NEW e \in Pieces,
           Chain(c, p, n), StaleEnd(c) \/ EndOf(c, p) = e.lo, e.lo < e.hi, e.hi <= n,
           c = <<>> => e.lo = p,
           NEW d, d = Append(c, e)
    PROVE  Chain(d, p, n)
<1>1. Len(c) \in Nat /\ (c = <<>> <=> Len(c) = 0)
  OBVIOUS
<1>2. /\ d # <<>> /\ Len(d) = Len(c) + 1 /\ d[Len(c) + 1] = e
      /\ \A i \in 1 .. Len(c) : d[i] = c[i]
  BY AppendProperties
<1>4. d[1].lo = p
  <2>1. CASE c = <<>>
    BY <1>1, <1>2, <2>1
  <2>2. CASE c # <<>>
    <3>1. 1 \in 1 .. Len(c)
      BY <1>1, <2>2
    <3> QED
      BY <1>2, <2>2, <3>1 DEF Chain
  <2> QED
    BY <2>1, <2>2
<1>5. ASSUME NEW i \in 1 .. Len(d) PROVE d[i].lo < d[i].hi /\ d[i].hi <= n
  <2>1. CASE i = Len(c) + 1
    BY <1>2, <2>1
  <2>2. CASE i # Len(c) + 1
    <3>1. i \in 1 .. Len(c)
      BY <1>1, <1>2, <2>2
    <3> QED
      BY <1>2, <3>1 DEF Chain
  <2> QED
    BY <2>1, <2>2
<1>6. ASSUME NEW i \in 1 .. Len(d) - 1 PROVE d[i].stale \/ d[i].hi = d[i+1].lo
  <2>1. i \in 1 .. Len(c)
    BY <1>1, <1>2
  <2>2. CASE i = Len(c)
    BY <1>1, <1>2, <2>1, <2>2 DEF StaleEnd, EndOf
  <2>3. CASE i # Len(c)
    <3>1. i \in 1 .. Len(c) - 1 /\ i + 1 \in 1 .. Len(c)
      BY <1>1, <2>1, <2>3
    <3> QED
      BY <1>2, <2>1, <3>1 DEF Chain
  <2> QED
    BY <2>2, <2>3
<1> QED
  BY <1>4, <1>5, <1>6 DEF Chain

\* What is kept lacks its input only after make_coder failed.
LEMMA StaleAppend ==
    ASSUME NEW c \in Seq(Pieces), NEW e \in Pieces, NEW refused, NEW more,
           refused \subseteq more, StaleOnly(c, refused),
           e.stale => "coder" \in more, NEW d, d = c \/ d = Append(c, e)
    PROVE  StaleOnly(d, more)
<1>1. CASE d = c
  BY <1>1 DEF StaleOnly
<1>2. CASE d = Append(c, e)
  <2>1. /\ Len(c) \in Nat /\ Len(d) = Len(c) + 1 /\ d[Len(c) + 1] = e
        /\ \A i \in 1 .. Len(c) : d[i] = c[i]
    BY <1>2, AppendProperties
  <2>2. ASSUME NEW i \in 1 .. Len(d), d[i].stale PROVE "coder" \in more
    <3>1. i = Len(c) + 1 \/ i \in 1 .. Len(c)
      BY <2>1
    <3> QED
      BY <2>1, <2>2, <3>1 DEF StaleOnly
  <2> QED
    BY <2>2 DEF StaleOnly
<1> QED
  BY <1>1, <1>2

\* A chain of nothing.
LEMMA ChainEmpty ==
    ASSUME NEW p, NEW n
    PROVE  Chain(<<>>, p, n) /\ ~StaleEnd(<<>>) /\ EndOf(<<>>, p) = p
  BY DEF Chain, StaleEnd, EndOf

\* The pieces kept for replay and the piece of a block.
LEMMA KeptTypes ==
    ASSUME RingTypeOK, NEW t \in Threads
    PROVE  /\ wr.replay \in Seq(Pieces) /\ Delivered \in Nat
           /\ Piece(blk[t]) \in Pieces
           /\ Piece(blk[t]).lo = blk[t].lo /\ Piece(blk[t]).hi = blk[t].hi
           /\ Piece(blk[t]).stale = blk[t].stale
<1>1. wr.replay \in Seq(Pieces)
  BY DEF RingTypeOK, WriteState, Pieces
<1>2. Delivered \in Nat
  <2>1. CASE out = <<>>
    BY <2>1 DEF Delivered
  <2>2. CASE out # <<>>
    <3>1. Len(out) \in 1 .. Len(out) /\ out \in Seq([lo : Nat, hi : Nat])
      BY <2>2 DEF RingTypeOK
    <3>2. out[Len(out)] \in [lo : Nat, hi : Nat]
      BY <3>1, ElementOfSeq
    <3> QED
      BY <2>2, <3>2 DEF Delivered
  <2> QED
    BY <2>1, <2>2
<1>3. blk[t] \in Block
  BY Types
<1> QED
  BY <1>1, <1>2, <1>3 DEF Piece, Pieces, Block

\* The write token goes to the block that starts where the one it leaves ends.
LEMMA NextInLine ==
    ASSUME Ind, NEW t \in Threads, pc[t] = "wait_write", canWrite[t], ~blk[t].finish,
           NEW n \in Threads, n = blk[t].next
    PROVE  /\ blk[t].link > 0
           /\ n # t /\ Busy(n) => blk[t].hi = Start(n)
           /\ n = t \/ ~Busy(n) => blk[t].hi = Frontier
<1>1. /\ Busy(t) /\ Passed(t)
      /\ \A u \in Threads : Busy(u) /\ u # t => blk[t].num < blk[u].num
  BY LoneWriter
<1>2. /\ rd.block \in Nat /\ \A u \in Threads : blk[u].num \in Nat
  BY Types, RdFields, BlkFields DEF Ind
<1>3. \/ blk[t].num = rd.block - 1 /\ canRead[n]
      \/ Busy(n) /\ blk[n].num = blk[t].num + 1
  BY <1>1 DEF Ind, RingInv, OrderInv
<1>4. blk[t].link > 0
  BY <1>1 DEF Ind, RingInv, ChainInv
<1>5. CASE Busy(n) /\ blk[n].num = blk[t].num + 1
  <2>1. n # t
    BY <1>2, <1>5
  <2>2. blk[t].hi = Start(n)
    BY <1>1, <1>5 DEF Ind, RingInv, ChainInv
  <2> QED
    BY <1>4, <1>5, <2>1, <2>2
<1>6. CASE blk[t].num = rd.block - 1 /\ canRead[n]
  <2>1. \A u \in Threads : Busy(u) => blk[u].num < rd.block
    BY DEF Ind, RingInv, OrderInv
  <2>2. n # t => ~Busy(n)
    BY <1>1, <1>2, <1>6, <2>1
  <2>3. blk[t].hi = Frontier
    BY <1>1, <1>6 DEF Ind, RingInv, ChainInv
  <2> QED
    BY <1>4, <2>2, <2>3
<1> QED
  BY <1>3, <1>5, <1>6

\* What the write section keeps for replay follows what it wrote.
LEMMA WriteKept ==
    ASSUME Ind, Holds, NEW t \in Threads, Write(t)
    PROVE  KeptInv'
<1> DEFINE b == blk[t]
<1>1. /\ pc[t] = "wait_write" /\ canWrite[t] /\ UNCHANGED <<stream, rd, blk>>
      /\ Busy(t) /\ Live /\ RingTypeOK
  <2>1. pc[t] = "wait_write" /\ canWrite[t] /\ UNCHANGED <<stream, rd, blk>>
    BY DEF Write
  <2> QED
    BY <2>1, LoneWriter DEF Ind
<1>2. Disposed(t)
  BY WriteDisposes
<1>3. RingInv'
  BY WriteInv
<1>4. Sound(b, stream, faulted) /\ (b.finish => Ends(b, Frontier)) /\ b.lo <= b.hi
  BY <1>1 DEF Busy, Passed, Holds, BlocksInv, BlockGood, Ind, RingInv, ReadInv
<1>5. /\ wr.replay \in Seq(Pieces) /\ Delivered \in Nat
      /\ Piece(b) \in Pieces
      /\ Piece(b).lo = b.lo /\ Piece(b).hi = b.hi /\ Piece(b).stale = b.stale
  BY <1>1, KeptTypes
<1>6. b.lo \in Nat /\ b.hi \in Nat /\ b.link \in Nat /\ b.coded \in Nat
  BY <1>1, Types, BlkFields
<1>7. /\ ~wr.intr => wr.replay = <<>>
      /\ StaleOnly(wr.replay, faulted)
      /\ Fine => /\ Chain(wr.replay, Delivered, Len(stream)) /\ ~StaleEnd(wr.replay)
                 /\ Reached = Start(t)
  BY <1>1 DEF Holds, KeptInv
<1>8. ~wr'.intr => wr'.replay = <<>>
  BY <1>2, <1>7 DEF Disposed
<1>9. StaleOnly(wr'.replay, faulted')
  <2>1. faulted \subseteq faulted'
    BY <1>2 DEF Disposed
  <2>2. Piece(b).stale => "coder" \in faulted'
    BY <1>4, <1>5, <2>1 DEF Sound
  <2>3. wr'.replay = wr.replay \/ wr'.replay = Append(wr.replay, Piece(b))
    BY <1>2 DEF Disposed
  <2> HIDE DEF b
  <2> QED
    BY <1>5, <1>7, <2>1, <2>2, <2>3, StaleAppend
<1>10. Frontier' = Frontier /\ \A u \in Threads : Start(u)' = Start(u)
  BY <1>1 DEF Frontier, Start
<1>11. ~Live' => b.finish
  BY <1>2 DEF Disposed, Live
<1>12. CASE Fine' /\ ToStream(t)
  <2>1. /\ ~b.failed /\ out' = Append(out, [lo |-> b.lo, hi |-> b.coded])
        /\ wr'.replay = <<>> /\ ~wr'.intr
    BY <1>2, <1>7, <1>12 DEF Disposed
  <2>2. b.coded = b.hi /\ b.link > 0 /\ ~b.stale
    BY <1>1, <1>12, <2>1, WrittenWhole
  <2>3. Delivered = b.lo
    BY <1>1, <1>12, WrittenThere
  <2>4. Ends(b, Frontier) /\ b.finish => b.hi = Frontier
    BY <2>1, <2>2 DEF Ends
  <2> HIDE DEF b
  <2>5. Delivered' = b.hi
    BY <1>6, <2>1, <2>2, <2>3, GaplessAppend DEF Ind, RingTypeOK, RingInv
  <2>6. Chain(wr'.replay, Delivered', Len(stream)) /\ ~StaleEnd(wr'.replay)
        /\ Reached' = Delivered'
    BY <2>1, ChainEmpty DEF Reached
  <2>7. Live' => \A w \in Threads : canWrite'[w] =>
                    Delivered' = IF Busy(w)' THEN Start(w)' ELSE Frontier'
    BY <1>3, <2>1 DEF RingInv, ChainInv
  <2>8. ~Live' => Reached' = Frontier'
    BY <1>4, <1>10, <1>11, <2>4, <2>5, <2>6
  <2> QED
    BY <1>1, <1>8, <1>9, <2>6, <2>7, <2>8 DEF KeptInv
<1>13. CASE Fine' /\ ~ToStream(t)
  <2>1. /\ Fine /\ ~b.failed /\ UNCHANGED out
        /\ wr'.replay = IF b.hi > b.lo THEN Append(wr.replay, Piece(b)) ELSE wr.replay
        /\ b.finish => exit' \/ pc'[0] = "done"
    BY <1>2, <1>13 DEF Disposed
  <2> DEFINE e == IF b.link > 0 THEN b.hi ELSE Frontier
  <2>2. Delivered' = Delivered
    BY <2>1 DEF Delivered
  <2>3. /\ Chain(wr.replay, Delivered, Len(stream)) /\ ~StaleEnd(wr.replay)
        /\ EndOf(wr.replay, Delivered) = Start(t)
    BY <1>7, <2>1 DEF Reached
  <2>4. Start(t) = IF b.link > 0 THEN b.lo ELSE Frontier
    BY DEF Start
  <2>5. /\ b.link = 0 => b.hi = b.lo
        /\ b.hi <= Len(stream)
        /\ b.stale => b.finish /\ b.lo < b.hi
    BY <1>4 DEF Sound
  <2>6. b.finish /\ b.link > 0 /\ ~b.stale => b.hi = Frontier
    BY <1>4, <2>1 DEF Ends
  <2> HIDE DEF b
  <2>7. /\ Chain(wr'.replay, Delivered, Len(stream)) /\ EndOf(wr'.replay, Delivered) = e
        /\ StaleEnd(wr'.replay) <=> b.stale
    <3>1. CASE b.hi > b.lo
      <4>1. b.link > 0 /\ Start(t) = b.lo
        BY <1>6, <2>4, <2>5, <3>1
      <4>2. wr.replay = <<>> => Delivered = b.lo
        BY <2>3, <4>1 DEF EndOf
      <4>3. b.lo < b.hi
        BY <1>6, <3>1
      <4>4. wr'.replay = Append(wr.replay, Piece(b))
        BY <2>1, <3>1
      <4>5. Len(stream) \in Nat
        BY <1>1, Types
      <4>6. /\ Chain(wr'.replay, Delivered, Len(stream))
            /\ EndOf(wr'.replay, Delivered) = Piece(b).hi
            /\ StaleEnd(wr'.replay) => Piece(b).stale
            /\ Piece(b).stale => StaleEnd(wr'.replay)
        <5>1. /\ EndOf(wr.replay, Delivered) = Piece(b).lo
              /\ Piece(b).lo < Piece(b).hi /\ Piece(b).hi <= Len(stream)
              /\ wr.replay = <<>> => Piece(b).lo = Delivered
          BY <1>5, <2>3, <2>5, <4>1, <4>2, <4>3
        <5>2. Chain(wr'.replay, Delivered, Len(stream))
          BY <1>5, <2>3, <4>4, <4>5, <5>1, ChainAppend
        <5>3. EndOf(wr'.replay, Delivered) = Piece(b).hi
          BY <1>5, <4>4, EndAppend
        <5>4. /\ StaleEnd(wr'.replay) => Piece(b).stale
              /\ Piece(b).stale => StaleEnd(wr'.replay)
          BY <1>5, <4>4, EndAppend
        <5> QED
          BY <5>2, <5>3, <5>4
      <4> QED
        BY <1>5, <4>1, <4>6
    <3>2. CASE ~(b.hi > b.lo)
      <4>1. b.hi = b.lo /\ ~b.stale
        BY <1>4, <1>6, <2>5, <3>2 DEF b
      <4>2. Start(t) = e
        BY <2>4, <4>1
      <4>3. wr'.replay = wr.replay
        BY <2>1, <3>2
      <4> HIDE DEF e
      <4> QED
        BY <2>3, <4>1, <4>2, <4>3
    <3> QED
      BY <3>1, <3>2
  <2>8. ~Live' => b.stale \/ e = Frontier
    BY <1>6, <1>11, <2>6
  <2>9. ASSUME Live' PROVE ~b.finish /\ ~b.stale
    BY <2>1, <2>5, <2>9 DEF Live
  <2>10. ASSUME Live', NEW w \in Threads, canWrite'[w]
         PROVE  e = IF Busy(w)' THEN Start(w)' ELSE Frontier'
    <3>1. w = b.next
      BY <1>2, <2>9, <2>10 DEF Disposed, b
    <3>2. /\ b.link > 0
          /\ w # t /\ Busy(w) => b.hi = Start(w)
          /\ w = t \/ ~Busy(w) => b.hi = Frontier
      BY <1>1, <2>9, <2>10, <3>1, NextInLine DEF b
    <3>3. Busy(w)' <=> w # t /\ Busy(w)
      BY <1>2, <2>10 DEF Disposed, Busy, Reading, Passed
    <3> QED
      BY <1>10, <3>2, <3>3
  <2> HIDE DEF e
  <2>11. /\ Chain(wr'.replay, Delivered', Len(stream)) /\ Reached' = e
         /\ (StaleEnd(wr'.replay) <=> b.stale)
    BY <2>2, <2>7 DEF Reached
  <2>12. Live' => /\ ~StaleEnd(wr'.replay)
                  /\ \A w \in Threads : canWrite'[w] =>
                        Reached' = IF Busy(w)' THEN Start(w)' ELSE Frontier'
    BY <2>9, <2>10, <2>11
  <2>13. ~Live' => StaleEnd(wr'.replay) \/ Reached' = Frontier'
    BY <1>10, <2>8, <2>11
  <2> QED
    BY <1>1, <1>8, <1>9, <2>11, <2>12, <2>13 DEF KeptInv
<1>14. CASE ~Fine'
  BY <1>8, <1>9, <1>14 DEF KeptInv
<1> QED
  BY <1>12, <1>13, <1>14

-----------------------------------------------------------------------------
\* What was refused is not forgotten.
LEMMA FaultsGrow ==
    ASSUME NEW t \in Threads, ReadLink(t) \/ PassRead(t)
    PROVE  faulted \subseteq faulted'
<1>1. ASSUME PassRead(t) PROVE \E x : faulted' = faulted \cup x
  <2>1. PICK p \in PreCode(t, [blk[t] EXCEPT !.intr = @ \/ Interrupted(blk[t].num)]) :
          \/ faulted' = faulted \cup p.fault
          \/ faulted' = faulted \cup p.fault \cup {"spawn"}
    BY <1>1, Zenon DEF PassRead
  <2> QED
    BY <2>1
<1>2. ASSUME NEW f, NEW o, ParseStep(t, f, o) PROVE \E x : faulted' = faulted \cup x
  BY <1>2, Zenon DEF ParseStep, Settle
<1>3. ASSUME ReadLink(t) PROVE \E x : faulted' = faulted \cup x
  <2>1. BufFails(t) => faulted' = faulted \cup {"buf"}
    BY DEF BufFails, Settle
  <2>2. \A f \in Fetched(t) :
          CoderFails(t, f) => faulted' = faulted \cup (f.fault \cup {"coder"})
    BY DEF CoderFails, Settle
  <2> QED
    BY <1>2, <1>3, <2>1, <2>2, Zenon DEF ReadLink
<1>4. \E x : faulted' = faulted \cup x
  BY <1>1, <1>3
<1> QED
  BY <1>4

\* Where the input that was neither written nor kept yet starts, for the
\* thread that holds the write token.
Turn(w) == IF Busy(w) THEN Start(w) ELSE Frontier

\* A step that leaves the write section alone keeps what it kept.
LEMMA KeptSame ==
    ASSUME KeptInv, UNCHANGED <<stream, wr, out>>, faulted \subseteq faulted',
           Live' => Live /\ UNCHANGED canWrite,
           Live' => \A w \in Threads : canWrite[w] => Turn(w)' = Turn(w),
           ~Live' => ~Live /\ UNCHANGED rd
    PROVE  KeptInv'
<1>1. Delivered' = Delivered /\ Reached' = Reached
  BY DEF Delivered, Reached
<1>2. StaleOnly(wr.replay, faulted')
  BY DEF KeptInv, StaleOnly
<1>3. Live' => \A w \in Threads : canWrite'[w] =>
                 (IF Busy(w)' THEN Start(w)' ELSE Frontier') = Turn(w)
  BY DEF Turn
<1>4. UNCHANGED rd => Frontier' = Frontier
  BY DEF Frontier
<1>5. Fine' <=> Fine
  BY DEF Fine
<1>6. Fine' => /\ Chain(wr'.replay, Delivered', Len(stream'))
               /\ Live' => ~StaleEnd(wr'.replay)
               /\ ~Live' => StaleEnd(wr'.replay) \/ Reached' = Frontier'
  BY <1>1, <1>4, <1>5 DEF KeptInv
<1>7. ASSUME Fine', Live', NEW w \in Threads, canWrite'[w]
      PROVE  Reached' = IF Busy(w)' THEN Start(w)' ELSE Frontier'
  <2>1. canWrite[w] /\ Live /\ Fine
    BY <1>5, <1>7
  <2>2. Reached = Turn(w)
    BY <2>1 DEF KeptInv, Turn
  <2> QED
    BY <1>1, <1>3, <1>7, <2>2
<1>8. ~wr'.intr => wr'.replay = <<>>
  BY DEF KeptInv
<1> QED
  BY <1>2, <1>6, <1>7, <1>8 DEF KeptInv

\* Taking the read token moves nothing that is kept.
LEMMA ReadBeginKept ==
    ASSUME Ind, Holds, NEW t \in Threads, ReadBegin(t)
    PROVE  KeptInv'
<1>1. /\ RingTypeOK /\ TokenInv /\ pc[t] = "wait_read" /\ canRead[t]
      /\ UNCHANGED <<stream, canWrite, exit, wr, out, faulted>>
      /\ DOMAIN pc = Threads /\ DOMAIN blk = Threads /\ 0 \in Threads
  BY NumThreadsAssumption DEF Ind, RingInv, RingTypeOK, ReadBegin, Threads
<1>2. ~Busy(t)
  BY <1>1 DEF Busy, Reading, Passed
<1>3. CASE exit
  <2>1. ~Live /\ ~Live' /\ UNCHANGED rd
    BY <1>1, <1>3 DEF Live, ReadBegin
  <2> QED
    BY <1>1, <2>1, KeptSame DEF Holds
<1>4. CASE ~exit
  <2>1. PICK b \in Block :
             /\ blk' = [blk EXCEPT ![t] = b] /\ b.link = 0
             /\ pc' = [pc EXCEPT ![t] = IF b.intr THEN "pass" ELSE "read"]
             /\ rd'.pos = rd.pos /\ rd'.crossLo = rd.crossLo /\ rd'.crossHi = rd.crossHi
    BY <1>1, <1>4, BeginTurn
  <2>2. Live
    BY <1>1, <1>4 DEF TokenInv, Live
  <2>3. /\ blk'[t] = b /\ pc'[t] \in {"pass", "read"}
        /\ \A u \in Threads : u # t => blk'[u] = blk[u] /\ pc'[u] = pc[u]
    BY <1>1, <2>1
  <2>4. Live'
    BY <1>1, <2>2, <2>3 DEF Live
  <2>5. Frontier' = Frontier
    BY <2>1 DEF Frontier
  <2>6. ASSUME NEW w \in Threads PROVE Turn(w)' = Turn(w)
    <3>1. CASE w = t
      <4>1. Busy(t)' /\ Start(t)' = Frontier'
        BY <2>1, <2>3 DEF Busy, Reading, Start
      <4> QED
        BY <1>2, <2>5, <3>1, <4>1 DEF Turn
    <3>2. CASE w # t
      <4>1. (Busy(w)' <=> Busy(w)) /\ Start(w)' = Start(w)
        BY <2>3, <2>5, <3>2 DEF Busy, Reading, Passed, Start
      <4> QED
        BY <2>5, <4>1 DEF Turn
    <3> QED
      BY <3>1, <3>2
  <2> QED
    BY <1>1, <2>2, <2>4, <2>6, KeptSame DEF Holds
<1> QED
  BY <1>3, <1>4

\* The block that holds the write token is in work as long as one is read.
LEMMA WriterBusy ==
    ASSUME Ind, NEW t \in Threads, Busy(t), NEW w \in Threads, canWrite[w]
    PROVE  Live /\ Busy(w)
  BY DEF Ind, RingInv, TokenInv, OrderInv

\* The read loop moves nothing that is kept.
LEMMA ReadLinkKept ==
    ASSUME Ind, Holds, NEW t \in Threads, ReadLink(t)
    PROVE  KeptInv'
<1>1. /\ RingTypeOK /\ TokenInv /\ ReadInv /\ pc[t] = "read"
      /\ UNCHANGED <<stream, canWrite, exit, wr, out>>
      /\ DOMAIN pc = Threads /\ DOMAIN blk = Threads /\ 0 \in Threads
  BY NumThreadsAssumption DEF Ind, RingInv, RingTypeOK, ReadLink, Threads
<1>2. PICK w, b, r : /\ GoodTurn(t, w, b, r)
                     /\ blk' = [blk EXCEPT ![t] = b] /\ rd' = r
                     /\ pc' = [pc EXCEPT ![t] = w]
  BY <1>1, ReadTurn
<1>3. Busy(t) /\ Reading(t) /\ Live
  BY <1>1 DEF Busy, Reading, TokenInv
<1>4. /\ blk'[t] = b /\ pc'[t] \in {"read", "pass"}
      /\ \A u \in Threads : u # t => blk'[u] = blk[u] /\ pc'[u] = pc[u]
  BY <1>1, <1>2 DEF GoodTurn
<1>5. Live'
  BY <1>1, <1>3, <1>4 DEF Live
<1>6. Start(t)' = Start(t)
  <2>1. IF b.link > 0 THEN b.lo = Start(t) ELSE r = rd /\ blk[t].link = 0
    BY <1>2 DEF GoodTurn
  <2>2. CASE b.link > 0
    BY <1>4, <2>1, <2>2 DEF Start
  <2>3. CASE ~(b.link > 0)
    <3>1. Frontier' = Frontier
      BY <1>2, <2>1, <2>3 DEF Frontier
    <3> QED
      BY <1>4, <2>1, <2>3, <3>1 DEF Start
  <2> QED
    BY <2>2, <2>3
<1>7. ASSUME NEW u \in Threads, canWrite[u] PROVE Turn(u)' = Turn(u)
  <2>1. Busy(u)
    BY <1>3, <1>7, WriterBusy
  <2>2. CASE u = t
    <3>1. Busy(u)'
      BY <1>4, <2>2 DEF Busy, Reading
    <3> QED
      BY <1>6, <2>1, <2>2, <3>1 DEF Turn
  <2>3. CASE u # t
    <3>1. blk[u].link > 0
      BY <1>3, <2>1, <2>3, LoneReader
    <3>2. Busy(u)' /\ Start(u)' = Start(u)
      BY <1>4, <2>1, <2>3, <3>1 DEF Busy, Reading, Passed, Start
    <3> QED
      BY <2>1, <3>2 DEF Turn
  <2> QED
    BY <2>2, <2>3
<1> QED
  BY <1>1, <1>3, <1>5, <1>7, FaultsGrow, KeptSame DEF Holds

\* Leaving the read section moves nothing that is kept.
LEMMA PassReadKept ==
    ASSUME Ind, Holds, NEW t \in Threads, PassRead(t)
    PROVE  KeptInv'
<1>1. /\ RingTypeOK /\ TokenInv /\ pc[t] = "pass"
      /\ UNCHANGED <<stream, canWrite, exit, wr, out>> /\ rd.started <= rd.limit
      /\ DOMAIN pc = Threads /\ DOMAIN blk = Threads /\ 0 \in Threads
  BY NumThreadsAssumption DEF Ind, RingInv, RingTypeOK, PassRead, Threads, TokenInv
<1>2. PICK b \in Block : /\ blk' = [blk EXCEPT ![t] = b]
                         /\ SameInput(b, blk[t])
                         /\ Kept(t, b) \/ Handed(t, b)
  BY <1>1, PassTurn
<1>3. Busy(t) /\ Live
  BY <1>1 DEF Busy, Reading, TokenInv
<1>4. /\ rd'.pos = rd.pos /\ rd'.crossLo = rd.crossLo /\ rd'.crossHi = rd.crossHi
      /\ \/ pc' = [pc EXCEPT ![t] = "code"]
         \/ pc' = [[pc EXCEPT ![t] = "code"] EXCEPT ![rd.started] = "wait_read"]
  BY <1>2 DEF Kept, Handed
<1>5. ASSUME NEW u \in Threads PROVE pc[u] = "off" \/ u # rd.started
  <2>1. rd.started \in Nat
    BY <1>1, Types, RdFields
  <2> QED
    BY <1>1, <2>1 DEF TokenInv
<1>6. /\ blk'[t] = b /\ b.lo = blk[t].lo /\ b.link = blk[t].link /\ pc'[t] = "code"
      /\ \A u \in Threads : u # t =>
           blk'[u] = blk[u] /\ (pc'[u] = pc[u] \/ (pc[u] = "off" /\ pc'[u] = "wait_read"))
  BY <1>1, <1>2, <1>4, <1>5 DEF SameInput
<1>7. Frontier' = Frontier
  BY <1>4 DEF Frontier
<1>8. Live'
  BY <1>1, <1>3, <1>6 DEF Live
<1>9. ASSUME NEW u \in Threads PROVE Turn(u)' = Turn(u)
  <2>1. Start(u)' = Start(u)
    BY <1>6, <1>7 DEF Start
  <2>2. Busy(u)' <=> Busy(u)
    BY <1>3, <1>6 DEF Busy, Reading, Passed
  <2> QED
    BY <1>7, <2>1, <2>2 DEF Turn
<1> QED
  BY <1>1, <1>3, <1>8, <1>9, FaultsGrow, KeptSame DEF Holds

\* Decoding moves nothing that is kept.
LEMMA CodeLinkKept ==
    ASSUME Ind, Holds, NEW t \in Threads, CodeLink(t)
    PROVE  KeptInv'
<1>1. /\ RingTypeOK /\ TokenInv /\ pc[t] = "code"
      /\ UNCHANGED <<stream, canWrite, exit, wr, out, rd, faulted>>
      /\ DOMAIN pc = Threads /\ DOMAIN blk = Threads /\ 0 \in Threads
  BY NumThreadsAssumption, SMTT(40) DEF Ind, RingInv, RingTypeOK, CodeLink, Threads
<1>2. PICK c \in Block : blk' = [blk EXCEPT ![t] = c] /\ Coded(t, c)
  BY <1>1, CodeTurn
<1>3. Busy(t) /\ Live
  BY <1>1 DEF Busy, Passed, TokenInv
<1>4. /\ blk'[t] = c /\ c.lo = blk[t].lo /\ c.link = blk[t].link
      /\ pc'[t] \in {"code", "wait_write"}
      /\ \A u \in Threads : u # t => blk'[u] = blk[u] /\ pc'[u] = pc[u]
  BY <1>1, <1>2 DEF Coded, SameInput
<1>5. Frontier' = Frontier
  BY <1>1 DEF Frontier
<1>6. Live'
  BY <1>1, <1>3, <1>4 DEF Live
<1>7. ASSUME NEW u \in Threads PROVE Turn(u)' = Turn(u)
  <2>1. Start(u)' = Start(u)
    BY <1>4, <1>5 DEF Start
  <2>2. Busy(u)' <=> Busy(u)
    BY <1>3, <1>4 DEF Busy, Reading, Passed
  <2> QED
    BY <1>5, <2>1, <2>2 DEF Turn
<1> QED
  BY <1>1, <1>3, <1>6, <1>7, KeptSame DEF Holds

\* The end of run finds nobody at work.
LEMMA RunReturnHolds ==
    ASSUME Ind, Holds, RunReturn
    PROVE  Holds'
<1>1. /\ pc[0] = "done" /\ exit' = TRUE /\ pc' = [pc EXCEPT ![0] = "join"]
      /\ UNCHANGED <<stream, rd, wr, blk, out, faulted>>
  BY DEF RunReturn
<1>2. ~Live /\ ~Live' /\ DOMAIN pc = Threads
  BY <1>1 DEF Live, Ind, RingTypeOK
<1>3. \A u \in Threads : ~Busy(u)
  BY <1>2 DEF Ind, RingInv, TokenInv
<1>4. \A u \in Threads : ~Busy(u)'
  BY <1>1, <1>2, <1>3 DEF Busy, Reading, Passed
<1>5. BlocksInv'
  BY <1>4 DEF BlocksInv
<1>6. KeptInv'
  BY <1>1, <1>2, KeptSame DEF Holds
<1>7. OutInv' /\ MarkerLast(stream)'
  BY <1>1 DEF Holds, OutInv, Delivered
<1> QED
  BY <1>5, <1>6, <1>7 DEF Holds

\* Every step of the ring keeps what the blocks, the output and the pieces
\* kept for replay hold.
LEMMA RingHolds ==
    ASSUME Ind, Holds, RingNext
    PROVE  Holds'
<1>1. ASSUME NEW t \in Threads, ReadBegin(t) \/ ReadLink(t) \/ PassRead(t) \/ CodeLink(t)
      PROVE  OutInv' /\ MarkerLast(stream)'
  <2>1. UNCHANGED <<stream, out>>
    BY <1>1 DEF ReadBegin, ReadLink, PassRead, CodeLink
  <2> QED
    BY <2>1 DEF Holds, OutInv, Delivered
<1>2. ASSUME NEW t \in Threads, Write(t) PROVE MarkerLast(stream)'
  <2>1. UNCHANGED stream
    BY <1>2 DEF Write
  <2> QED
    BY <2>1 DEF Holds
<1>3. ASSUME NEW t \in Threads, Step(t) PROVE Holds'
  <2>1. CASE ReadBegin(t)
    BY <1>1, <2>1, ReadBeginBlocks, ReadBeginKept DEF Holds
  <2>2. CASE ReadLink(t)
    BY <1>1, <2>2, ReadLinkBlocks, ReadLinkKept DEF Holds
  <2>3. CASE PassRead(t)
    BY <1>1, <2>3, PassReadBlocks, PassReadKept DEF Holds
  <2>4. CASE CodeLink(t)
    BY <1>1, <2>4, CodeLinkBlocks, CodeLinkKept DEF Holds
  <2>5. CASE Write(t)
    BY <1>2, <2>5, WriteBlocks, WriteOut, WriteKept DEF Holds
  <2> QED
    BY <1>3, <2>1, <2>2, <2>3, <2>4, <2>5 DEF Step
<1> QED
  BY <1>3, RunReturnHolds DEF RingNext

\* It holds when run starts.
LEMMA InitHolds ==
    ASSUME Init, \A s \in Streams : MarkerLast(s)
    PROVE  Holds
<1>1. Ind
  BY InitInd
<1>2. /\ \A u \in Threads : ~Busy(u) /\ (canWrite[u] => u = 0)
      /\ Frontier = 0 /\ out = <<>> /\ wr.replay = <<>> /\ Live
  <2>1. 0 \in Threads
    BY NumThreadsAssumption DEF Threads
  <2>2. \A u \in Threads : ~Busy(u) /\ (canWrite[u] => u = 0)
    BY DEF Init, Busy, Reading, Passed
  <2>3. rd.crossLo = 0 /\ rd.crossHi = 0 /\ rd.pos = 0
    BY DEF Init
  <2>4. Frontier = 0
    BY <2>3 DEF Frontier
  <2>5. out = <<>> /\ wr.replay = <<>>
    BY DEF Init
  <2>6. pc[0] = "wait_read" /\ exit = FALSE
    BY <2>1 DEF Init
  <2> QED
    BY <2>2, <2>4, <2>5, <2>6 DEF Live
<1>3. Delivered = 0 /\ Reached = 0
  BY <1>2 DEF Delivered, Reached, EndOf
<1>4. Len(stream) \in Nat
  BY <1>1, Types DEF Ind
<1>5. OutInv
  <2>1. 0+1 .. 0 = {}
    OBVIOUS
  <2> QED
    BY <1>3, <1>4, <2>1 DEF OutInv, Clean
<1>6. KeptInv
  BY <1>2, <1>3, ChainEmpty DEF KeptInv, StaleOnly
<1>7. BlocksInv
  BY <1>2 DEF BlocksInv
<1>8. MarkerLast(stream)
  BY DEF Init
<1> QED
  BY <1>5, <1>6, <1>7, <1>8 DEF Holds

-----------------------------------------------------------------------------
TailState == [on : BOOLEAN, chunks : Seq(Pieces), pos : Nat, lim : Nat,
              stale : BOOLEAN, base : Nat, flushed : Nat, first : BOOLEAN, held : BOOLEAN]

\* Before its first buffer, the tail holds all that was read and not written.
Handing == /\ st.pos = 0 /\ st.lim = 0
           /\ st.chunks # <<>> \/ ~rd.finished
           /\ ChainTo(st.chunks, Delivered, rd.pos, Len(stream))

\* From its first buffer on it has decoded all the input up to st.pos, and
\* written what lies before st.flushed.
Tailing == /\ st.base <= st.flushed /\ st.flushed <= st.pos
           /\ st.pos <= st.lim /\ st.lim <= Len(stream)
           /\ st.flushed = Delivered
           /\ Clean(stream, 0, st.pos)
           /\ \/ st.stale /\ st.pos < st.lim
              \/ ChainTo(st.chunks, st.lim, rd.pos, Len(stream))

(***************************************************************************)
(* The tail runs when the ring has ended, on a chain of pieces that starts *)
(* where the output ends and reaches up to the next read.                  *)
(***************************************************************************)
TailInv ==
    /\ st \in TailState
    /\ st.on => Joined /\ rd.crossLo >= rd.crossHi
    /\ result # None => Joined
    /\ st.on /\ st.first => Handing /\ StaleOnly(st.chunks, faulted)
    /\ st.on /\ ~st.first /\ result = None => Tailing

DecodeInd ==
    /\ Ind /\ OutInv /\ MarkerLast(stream) /\ TailInv
    /\ ~st.on /\ result = None => Holds

\* When every thread has left the ring nobody is at work, and nobody can be.
LEMMA JoinedQuiet ==
    ASSUME Ind, Joined
    PROVE  /\ ~Live /\ \A t \in Threads : ~Busy(t) /\ pc[t] \notin {"read", "pass", "wait_write"}
           /\ ~RingNext
<1>1. pc[0] = "join" /\ \A t \in Threads : pc[t] \in {"off", "done", "join"}
  BY DEF Joined
<1>2. ~Live
  BY <1>1 DEF Live
<1>3. \A t \in Threads : ~Busy(t)
  BY <1>1 DEF Busy, Reading, Passed
<1>4. \A t \in Threads : ~Step(t)
  BY ZenonT(40), <1>1 DEF Step, ReadBegin, ReadLink, PassRead, CodeLink, Write
<1>5. ~RunReturn
  BY <1>1 DEF RunReturn
<1> QED
  BY <1>1, <1>2, <1>3, <1>4, <1>5 DEF RingNext

\* The tail reads and writes; the ring it leaves as it was.
TailStep ==
    /\ UNCHANGED <<stream, canRead, canWrite, exit, wr, prog, pc, blk, bufs,
                   coder, marked>>
    /\ rd' \in ReadState /\ rd'.pos <= Len(stream)
    /\ rd'.crossLo < rd'.crossHi => rd'.crossHi = rd'.pos
    /\ rd'.started = rd.started /\ rd'.limit = rd.limit
    /\ faulted \subseteq faulted' /\ faulted' \subseteq FaultKind

\* The invariant of the ring survives it.
LEMMA TailInd ==
    ASSUME Ind, Joined, TailStep, Gapless', out' \in Seq([lo : Nat, hi : Nat])
    PROVE  Ind' /\ Joined'
<1>1. /\ UNCHANGED <<stream, canRead, canWrite, exit, wr, prog>>
      /\ UNCHANGED <<pc, blk, bufs, coder, marked>>
  BY DEF TailStep
<1>2. ~Live /\ \A t \in Threads : ~Busy(t) /\ pc[t] \notin {"read", "pass", "wait_write"}
  BY JoinedQuiet
<1>3. /\ ~Live'
      /\ \A t \in Threads : /\ ~Busy(t)' /\ ~Reading(t)' /\ ~Passed(t)'
                            /\ pc'[t] \notin {"read", "pass", "wait_write"}
  BY <1>1, <1>2 DEF Live, Busy, Reading, Passed
<1>4. RingTypeOK'
  BY <1>1 DEF Ind, RingTypeOK, TailStep
<1>5. TokenInv'
  <2>1. TokenInv
    BY DEF Ind, RingInv
  <2> QED
    BY <1>1, <1>2, <1>3, <2>1 DEF TokenInv, TailStep
<1>6. OrderInv'
  BY <1>3 DEF OrderInv
<1>7. ReadInv'
  BY <1>1, <1>3 DEF ReadInv, TailStep
<1>8. ChainInv'
  BY <1>3 DEF ChainInv
<1>9. IntrInv'
  <2>1. prog.need => wr.intr
    BY <1>2 DEF Ind, RingInv, IntrInv, Busy
  <2> QED
    BY <1>1, <1>3, <2>1 DEF IntrInv
<1>10. Joined'
  BY <1>1 DEF Joined
<1> QED
  BY <1>4, <1>5, <1>6, <1>7, <1>8, <1>9, <1>10 DEF Ind, RingInv

\* run hands back the pieces kept for replay and the cross block: together
\* they reach from the end of the output to the next read.
LEMMA ReplayChain ==
    ASSUME Ind, Holds, Joined, Fine
    PROVE  /\ ChainTo(Replay, Delivered, rd.pos, Len(stream)) /\ Replay \in Seq(Pieces)
           /\ StaleOnly(Replay, faulted)
<1> DEFINE e == [lo |-> rd.crossLo, hi |-> rd.crossHi, stale |-> FALSE]
<1>1. /\ wr.replay \in Seq(Pieces) /\ Delivered \in Nat /\ Len(stream) \in Nat
      /\ rd.pos \in Nat /\ rd.crossLo \in Nat /\ rd.crossHi \in Nat
  <2>1. 0 \in Threads
    BY NumThreadsAssumption DEF Threads
  <2> QED
    BY <2>1, KeptTypes, Types, RdFields DEF Ind
<1>2. ~Live
  BY JoinedQuiet
<1>3. /\ Chain(wr.replay, Delivered, Len(stream)) /\ StaleOnly(wr.replay, faulted)
      /\ StaleEnd(wr.replay) \/ EndOf(wr.replay, Delivered) = Frontier
  BY <1>2 DEF Holds, KeptInv, Reached
<1>4. CASE rd.crossLo < rd.crossHi
  <2>1. e \in Pieces /\ e.lo = rd.crossLo /\ e.hi = rd.crossHi /\ ~e.stale
    BY <1>1 DEF Pieces
  <2>2. Replay = Append(wr.replay, e)
    BY <1>4 DEF Replay
  <2> HIDE DEF e
  <2>3. Frontier = e.lo /\ e.lo < e.hi /\ e.hi = rd.pos /\ e.hi <= Len(stream)
    BY <1>4, <2>1 DEF Frontier, Ind, RingInv, ReadInv
  <2>4. wr.replay = <<>> => e.lo = Delivered
    BY <1>3, <2>3 DEF StaleEnd, EndOf
  <2>5. Chain(Replay, Delivered, Len(stream))
    BY <1>1, <1>3, <2>1, <2>2, <2>3, <2>4, ChainAppend
  <2>6. EndOf(Replay, Delivered) = rd.pos
    BY <1>1, <2>1, <2>2, <2>3, EndAppend
  <2>7. StaleOnly(Replay, faulted)
    BY <1>1, <1>3, <2>1, <2>2, StaleAppend
  <2>8. Replay \in Seq(Pieces)
    BY <1>1, <2>1, <2>2, AppendProperties
  <2> QED
    BY <2>5, <2>6, <2>7, <2>8 DEF ChainTo
<1>5. CASE ~(rd.crossLo < rd.crossHi)
  <2>1. Replay = wr.replay /\ Frontier = rd.pos
    BY <1>5 DEF Replay, Frontier
  <2> QED
    BY <1>1, <1>3, <2>1 DEF ChainTo
<1> QED
  BY <1>4, <1>5

\* The rest of a chain starts where its first piece ends.
LEMMA ChainTail ==
    ASSUME NEW c \in Seq(Pieces), c # <<>>, NEW p, NEW e, NEW n, ChainTo(c, p, e, n)
    PROVE  /\ Head(c) \in Pieces /\ Tail(c) \in Seq(Pieces)
           /\ Head(c).lo = p /\ Head(c).lo < Head(c).hi /\ Head(c).hi <= n
           /\ Head(c).stale \/ ChainTo(Tail(c), Head(c).hi, e, n)
<1> DEFINE h == Head(c)
           d == Tail(c)
<1>1. /\ Len(c) \in Nat /\ Len(c) >= 1 /\ h = c[1] /\ d \in Seq(Pieces)
      /\ Len(d) = Len(c) - 1 /\ \A i \in 1 .. Len(d) : d[i] = c[i+1]
  BY HeadTailProperties, EmptySeq
<1>2. h \in Pieces
  BY <1>1, ElementOfSeq
<1>3. /\ h.lo = p /\ h.lo < h.hi /\ h.hi <= n
  BY <1>1 DEF ChainTo, Chain
<1>4. d = <<>> <=> Len(d) = 0
  BY <1>1, EmptySeq
<1> HIDE DEF h, d
<1>5. ASSUME ~h.stale PROVE ChainTo(d, h.hi, e, n)
  <2>1. CASE Len(c) = 1
    <3>1. d = <<>> /\ Len(d) = 0
      BY <1>1, <1>4, <2>1
    <3>2. h.hi = e
      BY <1>1, <1>5, <2>1 DEF ChainTo, StaleEnd, EndOf
    <3> QED
      BY <3>1, <3>2, ChainEmpty DEF ChainTo
  <2>2. CASE Len(c) # 1
    <3>1. 1 \in 1 .. Len(c) - 1 /\ Len(d) \in 1 .. Len(d) /\ d # <<>> /\ 1 \in 1 .. Len(d)
          /\ Len(d) + 1 = Len(c)
      BY <1>1, <1>4, <2>2
    <3>2. h.hi = d[1].lo
      BY <1>1, <1>5, <3>1 DEF ChainTo, Chain
    <3>3. d[Len(d)] = c[Len(c)]
      BY <1>1, <3>1
    <3>4. StaleEnd(d) \/ EndOf(d, h.hi) = e
      BY <3>1, <3>3 DEF ChainTo, StaleEnd, EndOf
    <3>5. ASSUME NEW i \in 1 .. Len(d) PROVE d[i].lo < d[i].hi /\ d[i].hi <= n
      <4>1. i + 1 \in 1 .. Len(c)
        BY <1>1
      <4> QED
        BY <1>1, <4>1 DEF ChainTo, Chain
    <3>6. ASSUME NEW i \in 1 .. Len(d) - 1 PROVE d[i].stale \/ d[i].hi = d[i+1].lo
      <4>1. i + 1 \in 1 .. Len(c) - 1 /\ i \in 1 .. Len(d) /\ i + 1 \in 1 .. Len(d)
        BY <1>1
      <4>2. d[i] = c[i+1] /\ d[i+1] = c[i+1+1]
        BY <1>1, <4>1
      <4> QED
        BY <4>1, <4>2 DEF ChainTo, Chain
    <3> QED
      BY <3>2, <3>4, <3>5, <3>6 DEF ChainTo, Chain
  <2> QED
    BY <2>1, <2>2
<1> QED
  BY <1>1, <1>2, <1>3, <1>5 DEF h, d

-----------------------------------------------------------------------------
\* decode_dyn looks at the results of run: the tail starts where they end.
LEMMA JoinRingStep ==
    ASSUME DecodeInd, JoinRing
    PROVE  DecodeInd'
<1>1. /\ Joined /\ result = None /\ ~st.on /\ Ind /\ OutInv /\ MarkerLast(stream) /\ Holds
      /\ st \in TailState
  BY DEF JoinRing, DecodeInd, TailInv
<1>2. /\ UNCHANGED <<stream, canRead, canWrite, exit, wr, prog, pc, blk, bufs,
                     coder, out, marked, faulted>>
      /\ result' = RunResult
      /\ st' = IF RunResult = None
               THEN [NoTail EXCEPT !.on = TRUE, !.chunks = Replay]
               ELSE st
      /\ rd' = IF wr.err \/ wr.codeRes # None THEN rd ELSE NoCross(rd)
  BY DEF JoinRing
<1>3. rd \in ReadState /\ faulted \subseteq FaultKind /\ ReadInv
      /\ out \in Seq([lo : Nat, hi : Nat]) /\ Gapless
  BY <1>1 DEF Ind, RingTypeOK, RingInv
<1>4. /\ NoCross(rd) \in ReadState /\ NoCross(rd).pos = rd.pos
      /\ NoCross(rd).crossLo = 0 /\ NoCross(rd).crossHi = 0
      /\ NoCross(rd).started = rd.started /\ NoCross(rd).limit = rd.limit
      /\ NoCross(rd).finished = rd.finished
  BY <1>3 DEF NoCross, ReadState
<1>5. TailStep /\ Gapless'
  BY <1>2, <1>3, <1>4 DEF TailStep, ReadInv, Gapless
<1>6. Ind' /\ Joined'
  BY <1>1, <1>2, <1>3, <1>5, TailInd
<1>7. OutInv' /\ MarkerLast(stream)' /\ Delivered' = Delivered
  BY <1>1, <1>2 DEF OutInv, Delivered
<1>8. CASE RunResult = None
  <2>1. Fine /\ (Replay # <<>> \/ ~rd.finished)
    <3>1. ~wr.err
      BY <1>8 DEF RunResult, None
    <3>2. wr.codeRes = None
      BY <1>8, <3>1 DEF RunResult
    <3>3. ~rd.err
      BY <1>8, <3>1, <3>2 DEF RunResult, None
    <3>4. ~(Replay = <<>> /\ rd.finished)
      BY <1>8, <3>1, <3>2, <3>3 DEF RunResult, None
    <3> QED
      BY <3>1, <3>2, <3>4 DEF Fine
  <2>2. /\ ChainTo(Replay, Delivered, rd.pos, Len(stream)) /\ Replay \in Seq(Pieces)
        /\ StaleOnly(Replay, faulted)
    BY <1>1, <2>1, ReplayChain
  <2>3. rd' = NoCross(rd)
    BY <1>2, <2>1 DEF Fine
  <2>4. /\ st'.on /\ st'.first /\ st'.pos = 0 /\ st'.lim = 0 /\ st'.chunks = Replay
        /\ st' \in TailState
    BY <1>2, <1>8, <2>2 DEF NoTail, TailState
  <2>5. Handing' /\ StaleOnly(st.chunks, faulted)'
    BY <1>2, <1>4, <1>7, <2>1, <2>2, <2>3, <2>4 DEF Handing
  <2>6. TailInv'
    BY <1>4, <1>6, <2>3, <2>4, <2>5 DEF TailInv
  <2> QED
    BY <1>6, <1>7, <2>4, <2>6 DEF DecodeInd
<1>9. CASE RunResult # None
  <2>1. st' = st /\ result' # None
    BY <1>2, <1>9
  <2>2. TailInv'
    BY <1>1, <1>6, <2>1 DEF TailInv
  <2> QED
    BY <1>6, <1>7, <2>1, <2>2 DEF DecodeInd
<1> QED
  BY <1>8, <1>9

\* Filling the slice takes the next piece, or what is read next.
LEMMA StFillStep ==
    ASSUME DecodeInd, StFill
    PROVE  DecodeInd'
<1>1. /\ Joined /\ result = None /\ st.on /\ Ind /\ OutInv /\ MarkerLast(stream)
      /\ st \in TailState /\ rd.crossLo >= rd.crossHi
      /\ st.first => Handing /\ StaleOnly(st.chunks, faulted)
      /\ ~st.first => Tailing
      /\ st.pos = st.lim
      /\ UNCHANGED <<stream, canRead, canWrite, exit, wr, prog, pc, blk, bufs,
                     coder, out, marked>>
  BY DEF StFill, DecodeInd, TailInv
<1>2. /\ rd \in ReadState /\ rd.pos \in Nat /\ rd.crossLo \in Nat /\ rd.crossHi \in Nat
      /\ rd.pos <= Len(stream) /\ faulted \subseteq FaultKind /\ Len(stream) \in Nat
      /\ out \in Seq([lo : Nat, hi : Nat]) /\ Gapless'
  <2>1. /\ rd \in ReadState /\ rd.pos <= Len(stream) /\ faulted \subseteq FaultKind
        /\ Len(stream) \in Nat /\ out \in Seq([lo : Nat, hi : Nat]) /\ Gapless
    BY <1>1, Types DEF Ind, RingTypeOK, RingInv, ReadInv
  <2>2. Gapless'
    BY <1>1, <2>1 DEF Gapless
  <2> QED
    BY <2>1, <2>2, RdFields
<1>3. OutInv' /\ MarkerLast(stream)' /\ Delivered' = Delivered
  BY <1>1 DEF OutInv, Delivered
<1>4. /\ st.chunks \in Seq(Pieces) /\ st.pos \in Nat /\ st.lim \in Nat
      /\ st.base \in Nat /\ st.flushed \in Nat
  BY <1>1 DEF TailState
\* Where the slice that comes next starts: the decoder has come that far.
<1> DEFINE p == IF st.first THEN Delivered ELSE st.lim
<1>5. ChainTo(st.chunks, p, rd.pos, Len(stream))
  <2>1. CASE st.first
    BY <1>1, <2>1 DEF Handing
  <2>2. CASE ~st.first
    <3>1. ~(st.pos < st.lim)
      BY <1>1, <1>4
    <3> QED
      BY <1>1, <2>2, <3>1 DEF Tailing
  <2> QED
    BY <2>1, <2>2
<1>6. /\ p \in Nat /\ Clean(stream, 0, p)
      /\ st.first => p = Delivered
      /\ ~st.first => st.base <= st.flushed /\ st.flushed <= p /\ st.flushed = Delivered
  <2>1. CASE st.first
    <3>1. 0 \in Threads
      BY NumThreadsAssumption DEF Threads
    <3>2. Delivered \in Nat
      BY <1>1, <3>1, KeptTypes DEF Ind
    <3> QED
      BY <1>1, <2>1, <3>2 DEF OutInv
  <2>2. CASE ~st.first
    <3>1. p = st.pos
      BY <1>1, <2>2
    <3> QED
      BY <1>1, <1>4, <2>2, <3>1 DEF Tailing
  <2> QED
    BY <2>1, <2>2
<1> HIDE DEF p
<1>7. ASSUME NEW c \in Seq(Pieces), NEW q \in Nat, NEW s \in BOOLEAN,
             st'.on, ~st'.first, st'.chunks = c, st'.pos = p, st'.lim = q,
             st'.stale = s, st' \in TailState,
             st'.base = IF st.first THEN p ELSE st.base,
             st'.flushed = IF st.first THEN p ELSE st.flushed,
             p <= q, q <= Len(stream), UNCHANGED result, UNCHANGED faulted,
             \/ s /\ p < q
             \/ ChainTo(c, q, rd'.pos, Len(stream)),
             rd' \in ReadState, rd'.pos <= Len(stream),
             rd'.crossLo = rd.crossLo, rd'.crossHi = rd.crossHi,
             rd'.started = rd.started, rd'.limit = rd.limit
      PROVE  DecodeInd'
  <2>2. ~(rd'.crossLo < rd'.crossHi) /\ rd'.crossLo >= rd'.crossHi
    BY <1>1, <1>2, <1>7
  <2>3. TailStep
    BY <1>1, <1>2, <1>7, <2>2 DEF TailStep
  <2>4. Ind' /\ Joined'
    BY <1>1, <1>2, <2>3, TailInd
  <2>5. /\ st'.base <= st'.flushed /\ st'.flushed <= st'.pos /\ st'.flushed = Delivered'
    BY <1>3, <1>6, <1>7
  <2>6. Clean(stream', 0, st'.pos)
    BY <1>1, <1>6, <1>7
  <2>7. Tailing'
    BY <1>1, <1>7, <2>5, <2>6 DEF Tailing
  <2>8. TailInv'
    BY <1>1, <1>7, <2>2, <2>4, <2>7 DEF TailInv
  <2> QED
    BY <1>3, <1>7, <2>4, <2>8 DEF DecodeInd
<1>8. CASE /\ st.chunks # <<>>
           /\ LET c == Head(st.chunks)
              IN  st' = [st EXCEPT !.chunks = Tail(@), !.pos = c.lo, !.lim = c.hi,
                           !.stale = c.stale,
                           !.base = IF st.first THEN c.lo ELSE @,
                           !.flushed = IF st.first THEN c.lo ELSE @,
                           !.first = FALSE]
           /\ UNCHANGED <<rd, faulted, result>>
  <2> DEFINE c == Head(st.chunks)
  <2>1. /\ c \in Pieces /\ Tail(st.chunks) \in Seq(Pieces)
        /\ c.lo = p /\ c.lo < c.hi /\ c.hi <= Len(stream)
        /\ c.stale \/ ChainTo(Tail(st.chunks), c.hi, rd.pos, Len(stream))
    BY <1>4, <1>5, <1>8, ChainTail
  <2>2. c.hi \in Nat /\ c.stale \in BOOLEAN
    BY <2>1 DEF Pieces
  <2>3. st' = [st EXCEPT !.chunks = Tail(@), !.pos = c.lo, !.lim = c.hi,
                 !.stale = c.stale,
                 !.base = IF st.first THEN c.lo ELSE @,
                 !.flushed = IF st.first THEN c.lo ELSE @, !.first = FALSE]
    BY <1>8
  <2> HIDE DEF c
  <2>4. p <= c.hi /\ p < c.hi
    BY <1>6, <2>1, <2>2
  <2>5. /\ st'.on /\ ~st'.first /\ st'.chunks = Tail(st.chunks) /\ st'.pos = p
        /\ st'.lim = c.hi /\ st'.stale = c.stale /\ st' \in TailState
        /\ st'.base = IF st.first THEN p ELSE st.base
        /\ st'.flushed = IF st.first THEN p ELSE st.flushed
    BY <1>1, <1>6, <2>1, <2>2, <2>3 DEF TailState
  <2> QED
    BY <1>2, <1>7, <1>8, <2>1, <2>2, <2>4, <2>5
<1>9. CASE /\ st.chunks = <<>> /\ ~rd.finished
           /\ LET n == Min2(StBufSize, Len(stream) - rd.pos)
              IN  /\ rd' = [rd EXCEPT !.pos = @ + n, !.finished = n < StBufSize]
                  /\ st' = [st EXCEPT !.pos = rd.pos, !.lim = rd.pos + n,
                              !.stale = FALSE, !.held = TRUE,
                              !.base = IF st.first THEN rd.pos ELSE @,
                              !.flushed = IF st.first THEN rd.pos ELSE @,
                              !.first = FALSE]
           /\ UNCHANGED <<faulted, result>>
  <2> DEFINE n == Min2(StBufSize, Len(stream) - rd.pos)
  <2>1. n \in Nat /\ rd.pos + n \in Nat /\ rd.pos + n <= Len(stream)
    BY <1>2, StBufSizeAssumption DEF Min2
  <2>2. p = rd.pos
    BY <1>5, <1>9, ChainEmpty DEF ChainTo
  <2>3. /\ rd' = [rd EXCEPT !.pos = @ + n, !.finished = n < StBufSize]
        /\ st' = [st EXCEPT !.pos = rd.pos, !.lim = rd.pos + n, !.stale = FALSE,
                    !.held = TRUE,
                    !.base = IF st.first THEN rd.pos ELSE @,
                    !.flushed = IF st.first THEN rd.pos ELSE @, !.first = FALSE]
    BY <1>9
  <2> HIDE DEF n
  <2>4. (n < StBufSize) \in BOOLEAN
    OBVIOUS
  <2>5. /\ rd' \in ReadState /\ rd'.pos = rd.pos + n
        /\ rd'.crossLo = rd.crossLo /\ rd'.crossHi = rd.crossHi
        /\ rd'.started = rd.started /\ rd'.limit = rd.limit
    BY <1>2, <2>1, <2>3, <2>4 DEF ReadState
  <2>6. PICK q \in Nat : q = rd.pos + n
    BY <2>1
  <2>7. /\ st'.on /\ ~st'.first /\ st'.chunks = <<>> /\ st'.pos = p
        /\ st'.lim = q /\ st'.stale = FALSE /\ st' \in TailState
        /\ st'.base = IF st.first THEN p ELSE st.base
        /\ st'.flushed = IF st.first THEN p ELSE st.flushed
    BY <1>1, <1>2, <1>9, <2>2, <2>3, <2>6 DEF TailState
  <2>8. ChainTo(<<>>, q, rd'.pos, Len(stream))
    BY <2>5, <2>6, ChainEmpty DEF ChainTo
  <2>9. p <= q /\ q <= Len(stream) /\ rd'.pos <= Len(stream)
    BY <1>2, <2>1, <2>2, <2>5, <2>6
  <2>10. <<>> \in Seq(Pieces) /\ FALSE \in BOOLEAN
    OBVIOUS
  <2> QED
    BY <1>7, <1>9, <2>5, <2>7, <2>8, <2>9, <2>10
<1>10. CASE /\ st.chunks = <<>> /\ ~rd.finished /\ MayFault("read")
            /\ faulted' = faulted \cup {"read"}
            /\ result' = "read"
            /\ UNCHANGED <<rd, st>>
  <2>1. TailStep
    BY <1>1, <1>2, <1>10 DEF TailStep, FaultKind
  <2>2. Ind' /\ Joined'
    BY <1>1, <1>2, <2>1, TailInd
  <2>3. result' # None
    BY <1>10 DEF None
  <2>4. st.first => Handing' /\ StaleOnly(st.chunks, faulted)'
    BY <1>1, <1>3, <1>10 DEF Handing, StaleOnly
  <2>5. TailInv'
    BY <1>1, <1>10, <2>2, <2>3, <2>4 DEF TailInv
  <2> QED
    BY <1>3, <2>2, <2>3, <2>5 DEF DecodeInd
<1>11. CASE /\ Allocates /\ MayFault("tail")
            /\ faulted' = faulted \cup {"tail"}
            /\ result' = "alloc"
            /\ UNCHANGED <<rd, st>>
  <2>1. TailStep
    BY <1>1, <1>2, <1>11 DEF TailStep, FaultKind
  <2>2. Ind' /\ Joined'
    BY <1>1, <1>2, <2>1, TailInd
  <2>3. result' # None
    BY <1>11 DEF None
  <2>4. st.first => Handing' /\ StaleOnly(st.chunks, faulted)'
    BY <1>1, <1>3, <1>11 DEF Handing, StaleOnly
  <2>5. TailInv'
    BY <1>1, <1>11, <2>2, <2>3, <2>4 DEF TailInv
  <2> QED
    BY <1>3, <2>2, <2>3, <2>5 DEF DecodeInd
<1> QED
  BY <1>8, <1>9, <1>10, <1>11 DEF StFill

\* A flush writes what decodes, and all of it unless the sink fails.
LEMMA FlushStep ==
    ASSUME Ind, st \in TailState, st.flushed = Delivered,
           NEW hi \in Nat, st.flushed <= hi, hi <= Len(stream), Clean(stream, 0, hi),
           NEW r, Flush(hi, r), UNCHANGED stream
    PROVE  /\ out' \in Seq([lo : Nat, hi : Nat]) /\ Gapless' /\ OutInv'
           /\ faulted \subseteq faulted' /\ faulted' \subseteq FaultKind
           /\ (result' = r /\ Delivered' = hi) \/ result' = "write"
<1>1. /\ out \in Seq([lo : Nat, hi : Nat]) /\ Gapless /\ st.flushed \in Nat
      /\ faulted \subseteq FaultKind /\ Len(stream) \in Nat
  BY Types DEF Ind, RingTypeOK, RingInv, TailState
<1>2. PICK h \in st.flushed .. hi :
        /\ out' = Append(out, [lo |-> st.flushed, hi |-> h])
        /\ (h = hi /\ result' = r) \/ result' = "write"
        /\ faulted' \in {faulted, faulted \cup {"write"}}
  <2>1. hi \in st.flushed .. hi
    BY <1>1
  <2> QED
    BY <2>1 DEF Flush
<1>3. h \in Nat /\ h <= hi
  BY <1>1, <1>2
<1>4. [lo |-> st.flushed, hi |-> h] \in [lo : Nat, hi : Nat]
  BY <1>1, <1>3
<1>5. out' \in Seq([lo : Nat, hi : Nat])
  BY <1>1, <1>2, <1>4, AppendProperties
<1>6. Gapless' /\ Delivered' = h
  BY <1>1, <1>2, <1>3, GaplessAppend
<1>7. Clean(stream, 0, h)
  <2>1. \A i \in 0+1 .. h : i \in 0+1 .. hi
    BY <1>3
  <2> QED
    BY <2>1 DEF Clean
<1>8. h <= Len(stream)
  BY <1>1, <1>3
<1>9. OutInv'
  BY <1>6, <1>7, <1>8 DEF OutInv
<1>10. faulted \subseteq faulted' /\ faulted' \subseteq FaultKind
  BY <1>1, <1>2 DEF FaultKind
<1> QED
  BY <1>2, <1>5, <1>6, <1>9, <1>10

\* What the tail's own steps have in common.
LEMMA Running ==
    ASSUME DecodeInd, st.on, result = None, st.pos < st.lim \/ (st.chunks = <<>> /\ rd.finished)
    PROVE  /\ Joined /\ Ind /\ OutInv /\ MarkerLast(stream) /\ st \in TailState
           /\ rd.crossLo >= rd.crossHi /\ ~st.first /\ Tailing
           /\ st.pos \in Nat /\ st.lim \in Nat /\ st.base \in Nat /\ st.flushed \in Nat
           /\ Len(stream) \in Nat
<1>1. /\ Joined /\ Ind /\ OutInv /\ MarkerLast(stream) /\ st \in TailState
      /\ rd.crossLo >= rd.crossHi
      /\ st.first => Handing
      /\ ~st.first => Tailing
  BY DEF DecodeInd, TailInv
<1>2. ~st.first
  <2>1. Handing => ~(st.pos < st.lim) /\ ~(st.chunks = <<>> /\ rd.finished)
    BY DEF Handing
  <2> QED
    BY <1>1, <2>1
<1> QED
  BY <1>1, <1>2, Types DEF TailState, Ind

\* A step of the tail that reads nothing keeps the invariant.
LEMMA TailGoesOn ==
    ASSUME DecodeInd, Joined, st.on, ~st.first, rd.crossLo >= rd.crossHi,
           UNCHANGED <<stream, canRead, canWrite, exit, rd, wr, prog, pc, blk,
                       bufs, coder, marked>>,
           out' \in Seq([lo : Nat, hi : Nat]), Gapless', OutInv',
           faulted \subseteq faulted', faulted' \subseteq FaultKind,
           st' \in TailState, st'.on, ~st'.first, result' # None \/ Tailing'
    PROVE  DecodeInd'
<1>1. Ind /\ rd \in ReadState /\ ReadInv
  BY DEF DecodeInd, Ind, RingTypeOK, RingInv
<1>2. TailStep
  BY <1>1 DEF TailStep, ReadInv
<1>3. Ind' /\ Joined'
  BY <1>1, <1>2, TailInd
<1>4. TailInv'
  BY <1>3 DEF TailInv
<1>5. MarkerLast(stream)'
  BY DEF DecodeInd
<1> QED
  BY <1>3, <1>4, <1>5 DEF DecodeInd

\* The end of the input leaves nothing behind.
LEMMA StEofStep ==
    ASSUME DecodeInd, StEof
    PROVE  DecodeInd'
<1>1. /\ st.on /\ result = None /\ st.pos = st.lim /\ st.chunks = <<>> /\ rd.finished
      /\ Flush(st.pos, "truncated")
      /\ UNCHANGED <<st, stream, canRead, canWrite, exit, rd, wr, prog, pc, blk,
                     bufs, coder, marked>>
  BY DEF StEof
<1>2. /\ Joined /\ Ind /\ st \in TailState
      /\ rd.crossLo >= rd.crossHi /\ ~st.first /\ Tailing
      /\ st.pos \in Nat /\ st.lim \in Nat /\ Len(stream) \in Nat
  BY <1>1, Running
<1>3. /\ out' \in Seq([lo : Nat, hi : Nat]) /\ Gapless' /\ OutInv'
      /\ faulted \subseteq faulted' /\ faulted' \subseteq FaultKind
      /\ result' = "truncated" \/ result' = "write"
  <2>1. /\ st.flushed = Delivered /\ st.flushed <= st.pos /\ st.pos <= Len(stream)
        /\ Clean(stream, 0, st.pos)
    BY <1>1, <1>2 DEF Tailing
  <2> QED
    BY <1>1, <1>2, <2>1, FlushStep
<1>4. result' # None
  BY <1>3 DEF None
<1> QED
  BY <1>1, <1>2, <1>3, <1>4, TailGoesOn

\* Decoding one more unit keeps what was decoded clean.
LEMMA StUnitStep ==
    ASSUME DecodeInd, StUnit
    PROVE  DecodeInd'
<1> DEFINE u == IF st.stale THEN "end" ELSE stream[st.pos + 1]
           n == st.pos + 1
           full == Produced(stream, st.flushed, n) >= StStep
           next == [st EXCEPT !.pos = n, !.flushed = IF full THEN n ELSE @]
           refused == ~st.stale /\ (u = "bad" \/ Illegal(stream, st.base, n))
<1>1. /\ st.on /\ result = None /\ st.pos < st.lim
      /\ \/ refused /\ result' = "corrupt" /\ UNCHANGED <<out, faulted, st>>
         \/ ~refused /\ u = "end" /\ Flush(st.pos, "ok") /\ UNCHANGED st
         \/ ~refused /\ u # "end" /\ full /\ Flush(n, None) /\ st' = next
         \/ ~refused /\ u # "end" /\ ~full /\ st' = next /\ UNCHANGED <<out, faulted, result>>
      /\ UNCHANGED <<stream, canRead, canWrite, exit, rd, wr, prog, pc, blk,
                     bufs, coder, marked>>
  BY Zenon DEF StUnit
<1>2. /\ Joined /\ Ind /\ OutInv /\ st \in TailState
      /\ rd.crossLo >= rd.crossHi /\ ~st.first /\ Tailing
      /\ st.pos \in Nat /\ st.lim \in Nat /\ st.base \in Nat /\ st.flushed \in Nat
      /\ Len(stream) \in Nat
  BY <1>1, Running
<1>3. /\ st.base <= st.flushed /\ st.flushed <= st.pos
      /\ st.pos <= st.lim /\ st.lim <= Len(stream)
      /\ st.flushed = Delivered
      /\ Clean(stream, 0, st.pos)
      /\ \/ st.stale /\ st.pos < st.lim
         \/ ChainTo(st.chunks, st.lim, rd.pos, Len(stream))
  BY <1>2 DEF Tailing
<1>4. /\ out \in Seq([lo : Nat, hi : Nat]) /\ Gapless /\ faulted \subseteq FaultKind
  BY <1>2 DEF Ind, RingTypeOK, RingInv
<1>5. n \in Nat /\ n <= st.lim /\ n <= Len(stream) /\ st.flushed <= n
  BY <1>1, <1>2, <1>3
<1>6. CASE refused /\ result' = "corrupt" /\ UNCHANGED <<out, faulted, st>>
  <2>1. result' # None
    BY <1>6 DEF None
  <2>2. Gapless' /\ OutInv'
    BY <1>1, <1>2, <1>4, <1>6 DEF Gapless, OutInv, Delivered
  <2> QED
    BY <1>1, <1>2, <1>4, <1>6, <2>1, <2>2, TailGoesOn
<1>7. CASE Flush(st.pos, "ok") /\ UNCHANGED st
  <2>1. st.pos <= Len(stream)
    BY <1>2, <1>3
  <2>2. /\ out' \in Seq([lo : Nat, hi : Nat]) /\ Gapless' /\ OutInv'
        /\ faulted \subseteq faulted' /\ faulted' \subseteq FaultKind
        /\ result' = "ok" \/ result' = "write"
    BY <1>1, <1>2, <1>3, <1>7, <2>1, FlushStep
  <2>3. result' # None
    BY <2>2 DEF None
  <2> QED
    BY <1>1, <1>2, <1>7, <2>2, <2>3, TailGoesOn
<1>8. ASSUME ~refused, u # "end", st' = next
      PROVE  /\ ~st.stale /\ Clean(stream, 0, n)
             /\ st' \in TailState /\ st'.on /\ ~st'.first /\ st'.pos = n
             /\ st'.base = st.base /\ st'.lim = st.lim /\ st'.chunks = st.chunks
             /\ st'.flushed = IF full THEN n ELSE st.flushed
  <2>1. ~st.stale /\ stream[n] # "bad" /\ ~Illegal(stream, st.base, n)
    BY <1>8
  <2>2. n = 0 + 1 => n = st.base + 1
    BY <1>2, <1>3
  <2>3. ~Illegal(stream, 0, n)
    BY <2>1, <2>2 DEF Illegal
  <2>4. \A i \in 0+1 .. n : i = n \/ i \in 0+1 .. st.pos
    BY <1>2
  <2>5. Clean(stream, 0, n)
    BY <1>3, <2>1, <2>3, <2>4 DEF Clean
  <2> HIDE DEF full, n
  <2>6. /\ st' \in TailState /\ st'.on /\ ~st'.first /\ st'.pos = n
        /\ st'.base = st.base /\ st'.lim = st.lim /\ st'.chunks = st.chunks
        /\ st'.flushed = IF full THEN n ELSE st.flushed
    BY <1>1, <1>2, <1>5, <1>8 DEF TailState
  <2> QED
    BY <2>1, <2>5, <2>6
<1>9. CASE ~refused /\ u # "end" /\ full /\ Flush(n, None) /\ st' = next
  <2>1. /\ ~st.stale /\ Clean(stream, 0, n)
        /\ st' \in TailState /\ st'.on /\ ~st'.first /\ st'.pos = n
        /\ st'.base = st.base /\ st'.lim = st.lim /\ st'.chunks = st.chunks
        /\ st'.flushed = n
    BY <1>8, <1>9
  <2>2. Flush(n, None)
    BY <1>9
  <2> HIDE DEF n, full, refused, u, next
  <2>3. /\ out' \in Seq([lo : Nat, hi : Nat]) /\ Gapless' /\ OutInv'
        /\ faulted \subseteq faulted' /\ faulted' \subseteq FaultKind
        /\ (result' = None /\ Delivered' = n) \/ result' = "write"
    BY <1>1, <1>2, <1>3, <1>5, <2>1, <2>2, FlushStep
  <2>4. result' # None \/ Tailing'
    <3>1. CASE result' = "write"
      BY <3>1 DEF None
    <3>2. CASE Delivered' = n
      <4>1. st'.base <= st'.flushed
        BY <1>2, <1>3, <1>5, <2>1
      <4> QED
        BY <1>1, <1>2, <1>3, <1>5, <2>1, <3>2, <4>1 DEF Tailing
    <3> QED
      BY <2>3, <3>1, <3>2
  <2> QED
    BY <1>1, <1>2, <2>1, <2>3, <2>4, TailGoesOn
<1>10. CASE /\ ~refused /\ u # "end" /\ ~full /\ st' = next
            /\ UNCHANGED <<out, faulted, result>>
  <2>1. /\ ~st.stale /\ Clean(stream, 0, n)
        /\ st' \in TailState /\ st'.on /\ ~st'.first /\ st'.pos = n
        /\ st'.base = st.base /\ st'.lim = st.lim /\ st'.chunks = st.chunks
        /\ st'.flushed = st.flushed
    BY <1>8, <1>10
  <2>2. UNCHANGED <<out, faulted, result>>
    BY <1>10
  <2> HIDE DEF n, full, refused, u, next
  <2>3. Delivered' = Delivered /\ Gapless' /\ OutInv'
    BY <1>1, <1>2, <1>4, <2>2 DEF Delivered, Gapless, OutInv
  <2>4. Tailing'
    BY <1>1, <1>3, <1>5, <2>1, <2>3 DEF Tailing
  <2> QED
    BY <1>1, <1>2, <1>4, <2>1, <2>2, <2>3, <2>4, TailGoesOn
<1> HIDE DEF refused, u, n, next, full
<1> QED
  BY <1>1, <1>6, <1>7, <1>9, <1>10

\* While the ring runs the tail does not: what the ring keeps is kept.
LEMMA RingStep ==
    ASSUME DecodeInd, RingNext, UNCHANGED <<result, st>>
    PROVE  DecodeInd'
<1>1. Ind /\ ~Joined /\ ~st.on /\ result = None /\ Holds /\ st \in TailState
  BY JoinedQuiet DEF DecodeInd, TailInv
<1>2. RingTypeOK'
  BY <1>1, TypeStep
<1>3. RingInv'
  BY <1>1, ReadBeginInv, ReadLinkInv, PassReadInv, CodeLinkInv, WriteInv, RunReturnInv
     DEF RingNext, Step
<1>4. Holds'
  BY <1>1, RingHolds
<1>5. OutInv' /\ MarkerLast(stream)'
  BY <1>4 DEF Holds
<1>6. st' = st /\ result' = result
  OBVIOUS
<1>7. TailInv'
  BY <1>1, <1>6 DEF TailInv
<1> QED
  BY <1>2, <1>3, <1>4, <1>5, <1>7 DEF DecodeInd, Ind

\* Neither a stuttering step nor the end of decode changes anything.
LEMMA DecodeStutter ==
    ASSUME DecodeInd, UNCHANGED vars
    PROVE  DecodeInd'
<1>1. /\ UNCHANGED ringVars /\ st' = st /\ result' = result
      /\ UNCHANGED <<stream, canRead, canWrite, exit, rd, wr, prog>>
      /\ UNCHANGED <<pc, blk, bufs, coder, out, marked, faulted>>
  BY DEF vars, ringVars
<1>2. Ind'
  BY <1>1, Stutter DEF DecodeInd
<1>3. OutInv' /\ MarkerLast(stream)' /\ Delivered' = Delivered /\ (Joined' <=> Joined)
  BY <1>1 DEF DecodeInd, OutInv, Delivered, Joined
<1>4. TailInv'
  BY <1>1, <1>3 DEF DecodeInd, TailInv, Handing, Tailing
<1>5. (~st.on /\ result = None => Holds)'
  <2>1. SUFFICES ASSUME Holds PROVE Holds'
    BY <1>1 DEF DecodeInd
  <2>2. BlocksInv'
    BY <1>1, <2>1 DEF Holds, BlocksInv, BlockGood, Busy, Reading, Passed, Frontier
  <2>3. KeptInv'
    BY <1>1, <1>3, <2>1 DEF Holds, KeptInv, Fine, Reached, Live, Busy, Reading, Passed,
       Start, Frontier
  <2> QED
    BY <1>3, <2>2, <2>3 DEF Holds
<1> QED
  BY <1>2, <1>3, <1>4, <1>5 DEF DecodeInd

\* decode starts with the ring, which has read and written nothing.
LEMMA DecodeInitInd ==
    ASSUME DecodeInit, \A s \in Streams : MarkerLast(s)
    PROVE  DecodeInd
<1>1. Init /\ result = None /\ st = NoTail
  BY DEF DecodeInit
<1>2. Ind /\ Holds
  BY <1>1, InitInd, InitHolds
<1>3. <<>> \in Seq(Pieces)
  BY EmptySeq
<1>4. st \in TailState /\ ~st.on
  BY <1>1, <1>3 DEF TailState, NoTail
<1>5. TailInv
  BY <1>1, <1>4 DEF TailInv
<1> QED
  BY <1>2, <1>5 DEF DecodeInd, Holds

\* Every step of decode keeps DecodeInd.
LEMMA DecodeStep ==
    ASSUME DecodeInd, [DecodeNext]_vars
    PROVE  DecodeInd'
<1>1. CASE RingNext /\ UNCHANGED <<result, st>>
  BY <1>1, RingStep
<1>2. CASE Tail0
  BY <1>2, JoinRingStep, StFillStep, StEofStep, StUnitStep DEF Tail0
<1>3. CASE UNCHANGED vars
  BY <1>3, DecodeStutter
<1> QED
  BY <1>1, <1>2, <1>3 DEF DecodeNext, Terminated

-----------------------------------------------------------------------------
\* DecodeInd is an inductive invariant of decode, whatever the number of
\* threads, the buffer sizes, the interleaving and the faults, if nothing
\* follows the end marker of a stream.
THEOREM DecodeInductive ==
    ASSUME \A s \in Streams : MarkerLast(s)
    PROVE  DecodeSpec => []DecodeInd
<1>1. DecodeInit => DecodeInd  BY DecodeInitInd
<1>2. DecodeInd /\ [DecodeNext]_vars => DecodeInd'  BY DecodeStep
<1>3. QED  BY <1>1, <1>2, PTL DEF DecodeSpec

\* The invariant gives what OutputIsPrefix says of a state.
LEMMA PrefixOf ==
    ASSUME DecodeInd
    PROVE  OutputIsPrefix
<1>1. /\ stream \in Seq(Unit) /\ Gapless /\ OutInv /\ MarkerLast(stream) /\ TailInv
      /\ Len(stream) \in Nat
  BY DEF DecodeInd, Ind, RingTypeOK, RingInv
<1>2. Delivered \in Nat
  <2>1. RingTypeOK
    BY DEF DecodeInd, Ind
  <2>2. 0 \in Threads
    BY NumThreadsAssumption DEF Threads
  <2> QED
    BY <2>1, <2>2, KeptTypes
<1>3. Delivered <= IF ValidStream(stream) THEN GoodTo(stream) + 1 ELSE GoodTo(stream)
  <2>1. GoodTo(stream) \in Nat /\ GoodTo(stream) <= Len(stream)
    BY <1>1, GoodToFacts
  <2> DEFINE i == GoodTo(stream) + 1
  <2>2. ASSUME i <= Delivered
        PROVE  stream[i] = "end" /\ i = Len(stream) /\ i = Delivered
    <3>1. i \in 0+1 .. Delivered /\ i \in 1 .. Len(stream)
      BY <1>1, <1>2, <2>1, <2>2 DEF OutInv
    <3>2. Breaks(stream, i)
      BY <1>1, <2>1, <3>1, GoodToFacts
    <3>3. stream[i] # "bad" /\ ~Illegal(stream, 0, i)
      BY <1>1, <3>1 DEF OutInv, Clean
    <3>4. stream[i] = "end"
      BY <3>2, <3>3 DEF Breaks
    <3>5. ~(i \in 1 .. Len(stream) - 1)
      BY <1>1, <3>4 DEF MarkerLast
    <3>6. i = Len(stream)
      BY <1>1, <2>1, <3>1, <3>5
    <3> QED
      BY <1>1, <1>2, <2>2, <3>4, <3>6 DEF OutInv
  <2>3. CASE i <= Delivered
    BY <1>1, <2>1, <2>2, <2>3 DEF ValidStream
  <2>4. CASE ~(i <= Delivered)
    BY <1>2, <2>1, <2>4
  <2> QED
    BY <2>3, <2>4
<1>4. ASSUME st.on, st.first, "coder" \notin faulted
      PROVE  HandedOver(st.chunks)
  <2>1. ChainTo(st.chunks, Delivered, rd.pos, Len(stream)) /\ StaleOnly(st.chunks, faulted)
    BY <1>1, <1>4 DEF TailInv, Handing
  <2>2. st.chunks \in Seq(Pieces)
    BY <1>1 DEF TailInv, TailState
  <2>3. Len(st.chunks) \in Nat /\ (st.chunks # <<>> => Len(st.chunks) > 0)
    BY <2>2, EmptySeq
  <2>4. \A i \in 1 .. Len(st.chunks) : ~st.chunks[i].stale
    BY <1>4, <2>1 DEF StaleOnly
  <2>5. ~StaleEnd(st.chunks)
    BY <2>3, <2>4 DEF StaleEnd
  <2>6. EndOf(st.chunks, Delivered) = rd.pos
    BY <2>1, <2>5 DEF ChainTo
  <2>7. \A i \in 1 .. Len(st.chunks) - 1 : st.chunks[i].hi = st.chunks[i+1].lo
    BY <2>1, <2>3, <2>4 DEF ChainTo, Chain
  <2> QED
    BY <2>1, <2>6, <2>7 DEF HandedOver, ChainTo, Chain, EndOf
<1> QED
  BY <1>1, <1>3, <1>4 DEF OutputIsPrefix

\* For every number of threads, buffer size, step, interleaving and fault: what
\* decode writes is a prefix, without a gap, of what the sequential decoder
\* writes, and the single-threaded tail is handed exactly the input that the
\* ring read and did not write; if nothing follows the end marker of a stream.
THEOREM OutputPrefix ==
    ASSUME \A s \in Streams : MarkerLast(s)
    PROVE  DecodeSpec => []OutputIsPrefix
<1>1. DecodeInd => OutputIsPrefix  BY PrefixOf
<1>2. DecodeSpec => []DecodeInd  BY DecodeInductive
<1>3. QED  BY <1>1, <1>2, PTL

-----------------------------------------------------------------------------
\* A division rounds down.
LEMMA DivBounds ==
    ASSUME NEW n \in Nat, NEW d \in Nat \ {0}
    PROVE  n \div d \in Nat /\ d * (n \div d) <= n /\ n < d * (n \div d) + d
<1>1. n \div d \in Nat
  BY SMT
<1>2. n = d * (n \div d) + (n % d) /\ n % d \in 0 .. d - 1
  BY SMT
<1> DEFINE q == d * (n \div d)
<1>3. q \in Nat
  BY <1>1, SMT
<1> HIDE DEF q
<1>4. n % d \in Nat /\ n % d < d /\ n = q + (n % d)
  BY <1>2 DEF q
<1>5. q <= n /\ n < q + d
  BY <1>3, <1>4
<1> QED
  BY <1>1, <1>5 DEF q

\* A block is expected to hold a dictionary, in whole megabytes.
LEMMA ExpectedBlock ==
    ASSUME NEW dict \in Nat
    PROVE  /\ ExpectedBlockSize(dict) \in Nat \ {0}
           /\ ExpectedBlockSize(dict) >= dict
           /\ \E k \in Nat : ExpectedBlockSize(dict) = MinBlock * k
<1> DEFINE size == IF Clamped(4 * dict) < dict THEN dict ELSE Clamped(4 * dict)
           n == size + MinBlock - 1
           k == n \div MinBlock
<1>1. Clamped(4 * dict) \in Nat \ {0}
  BY DEF Clamped, MinBlock, MaxBlock
<1>2. size \in Nat \ {0} /\ size >= dict
  BY <1>1
<1> HIDE DEF size
<1>3. n \in Nat /\ MinBlock \in Nat \ {0}
  BY <1>2 DEF MinBlock
<1>4. k \in Nat /\ n < MinBlock * k + MinBlock
  BY <1>3, DivBounds
<1>5. MinBlock * k \in Nat
  BY <1>3, <1>4
<1> HIDE DEF k
<1>6. MinBlock * k >= size
  BY <1>2, <1>4, <1>5 DEF MinBlock
<1>7. ExpectedBlockSize(dict) = MinBlock * k
  BY DEF ExpectedBlockSize, size, k
<1> QED
  BY <1>2, <1>4, <1>5, <1>6, <1>7

(***************************************************************************)
(* The plan of a decode with several threads fits the memory limit: what   *)
(* the ring allocates is within it, and the rest is the dictionary and the *)
(* buffer of the tail.  Its threads are no more than were asked for, and   *)
(* enough for the ring; else the decode is single-threaded (mt/mod.rs      *)
(* plan, memory_estimate).                                                 *)
(***************************************************************************)
THEOREM PlanFits ==
    ASSUME NEW dict \in Nat, NEW wanted \in Nat, NEW limit \in Nat
    PROVE  LET p == Plan(dict, wanted, limit)
           IN  /\ p.stOnly <=> p.threads = 1
               /\ ~p.stOnly =>
                    /\ p.threads \in Nat \ {0, 1} /\ p.threads <= wanted
                    /\ MemoryEstimate(dict, p) <= limit + dict + StInput
                    /\ p.outBlockMax >= dict
<1> DEFINE expected == ExpectedBlockSize(dict)
           perThread == expected + (expected + expected \div 16) + Overhead
           q == limit \div perThread
           fitting == Min2(wanted, q)
           threads == IF fitting = 0 THEN 1 ELSE fitting
           p == Plan(dict, wanted, limit)
<1>1. expected \in Nat \ {0} /\ expected >= dict
  BY ExpectedBlock
<1> HIDE DEF expected
<1>2. expected \div 16 \in Nat
  BY <1>1
<1>3. perThread \in Nat \ {0}
  BY <1>1, <1>2 DEF Overhead
<1> HIDE DEF perThread
<1>4. q \in Nat /\ perThread * q <= limit
  BY <1>3, DivBounds
<1> HIDE DEF q
<1>5. fitting \in Nat /\ fitting <= wanted /\ fitting <= q
  BY <1>4 DEF Min2
<1>6. threads \in Nat \ {0} /\ (threads > 1 => threads <= wanted /\ threads <= q)
  BY <1>5
<1> HIDE DEF threads
<1>7. CASE wanted <= 1
  BY <1>7 DEF Plan
<1>8. CASE wanted > 1
  <2>1. p = [threads |-> threads, outBlockMax |-> expected, perThread |-> perThread,
             stOnly |-> threads <= 1]
    BY <1>8 DEF Plan, threads, q, perThread, expected
  <2> HIDE DEF p
  <2>a. p.threads = threads /\ p.outBlockMax = expected /\ p.perThread = perThread
    BY <2>1
  <2>b. p.stOnly <=> threads <= 1
    BY <2>1, Zenon
  <2>2. CASE threads <= 1
    <3>1. threads = 1
      BY <1>6, <2>2
    <3>2. p.stOnly /\ p.threads = 1
      BY <3>1, <2>2, <2>a, <2>b, Zenon
    <3> QED
      BY <3>2 DEF p
  <2>3. CASE threads > 1
    <3>1. threads * perThread <= perThread * q
      BY <1>3, <1>4, <1>6, <2>3
    <3> DEFINE m == threads * perThread
               x == perThread * q
    <3>2. m \in Nat /\ x \in Nat
      BY <1>3, <1>4, <1>6
    <3>3. MemoryEstimate(dict, p) = m + dict + StInput
      BY <2>a, <2>3, <1>6 DEF MemoryEstimate
    <3> HIDE DEF m, x
    <3>4. m <= limit
      BY <3>1, <3>2, <1>4 DEF m, x
    <3>5. m + dict + StInput <= limit + dict + StInput
      BY <3>2, <3>4 DEF StInput
    <3>6. ~(threads <= 1) /\ threads # 1
      BY <2>3, <1>6
    <3>7. p.threads = threads /\ ~p.stOnly /\ p.outBlockMax = expected /\ p.threads # 1
      BY <3>6, <2>a, <2>b, Zenon
    <3> QED
      BY <1>1, <1>6, <2>3, <3>3, <3>5, <3>7 DEF p
  <2> QED
    BY <1>6, <2>2, <2>3
<1> QED
  BY <1>7, <1>8

(***************************************************************************)
(* The proof that the threaded decoder answers what the sequential decoder *)
(* answers when the environment refuses nothing (AgreesWithSequential),    *)
(* and that decode does step by step what DecodePromise allows, for every  *)
(* number of threads, buffer size and step.                                *)
(*                                                                         *)
(* DecodeInd says where the blocks, the output and the tail stand.         *)
(* Agreeing adds to it why nothing goes wrong that the stream is not to    *)
(* blame for: a block starts where the decoder may be reset and knows how  *)
(* much output lies before it, every error of a block is one of the        *)
(* stream, and the thread that reads next starts at such a point too.      *)
(***************************************************************************)

\* Stream s ends with the end marker.
EndsMarked(s) == Len(s) > 0 /\ s[Len(s)] = "end"

\* Something in stream s does not decode, or is not allowed.
Broken(s) == \E i \in 1 .. Len(s) : s[i] = "bad" \/ Illegal(s, 0, i)

\* A decoder that is reset at offset p sees what the sequential one sees.
Restart(s, p) ==
    /\ p \in 1 .. Len(s) - 1 => s[p + 1] = "reset"
    /\ p = Len(s) => ~EndsMarked(s)

\* A block may start at p, with n units of output before it.
StartOk(s, p, n) == Restart(s, p) /\ (p < Len(s) => n = Produced(s, 0, p))

-----------------------------------------------------------------------------
\* The output of two pieces in a row is that of one after that of the other.
LEMMA ProducedAdd ==
    ASSUME NEW s, NEW lo \in Nat, NEW mid \in Nat, NEW hi \in Nat, lo <= mid, mid <= hi
    PROVE  Produced(s, lo, hi) = Produced(s, lo, mid) + Produced(s, mid, hi)
<1> DEFINE A == {i \in lo+1 .. mid : s[i] \in Payload}
           B == {i \in mid+1 .. hi : s[i] \in Payload}
           C == {i \in lo+1 .. hi : s[i] \in Payload}
<1>1. IsFiniteSet(A) /\ IsFiniteSet(B)
  <2>1. IsFiniteSet(lo+1 .. mid) /\ IsFiniteSet(mid+1 .. hi)
    BY FS_Interval
  <2> QED
    BY <2>1, FS_Subset
<1>2. C = A \cup B /\ A \cap B = {}
  OBVIOUS
<1> HIDE DEF A, B, C
<1>3. Cardinality(A) \in Nat /\ Cardinality(B) \in Nat /\ Cardinality({}) = 0
  BY <1>1, FS_CardinalityType, FS_EmptySet
<1>4. Cardinality(A \cup B) = Cardinality(A) + Cardinality(B) - Cardinality(A \cap B)
  BY <1>1, FS_Union
<1>5. Cardinality(C) = Cardinality(A \cup B) /\ Cardinality(A \cap B) = Cardinality({})
  BY <1>2
<1>6. Cardinality(C) = Cardinality(A) + Cardinality(B)
  BY <1>3, <1>4, <1>5
<1> QED
  BY <1>6 DEF Produced, A, B, C

\* No input, no output.
LEMMA ProducedNone ==
    ASSUME NEW s, NEW p \in Nat
    PROVE  Produced(s, p, p) = 0
<1>1. {i \in p+1 .. p : s[i] \in Payload} = {}
  OBVIOUS
<1> QED
  BY <1>1, FS_EmptySet DEF Produced

\* A unit that is no body adds nothing.
LEMMA ProducedSkip ==
    ASSUME NEW s, NEW p \in Nat, s[p + 1] \notin Payload
    PROVE  Produced(s, 0, p + 1) = Produced(s, 0, p)
<1>1. {i \in 0+1 .. p+1 : s[i] \in Payload} = {i \in 0+1 .. p : s[i] \in Payload}
  OBVIOUS
<1> QED
  BY <1>1 DEF Produced

\* More input has more output.
LEMMA ProducedGrows ==
    ASSUME NEW s, NEW p \in Nat, NEW q \in Nat, p <= q
    PROVE  Produced(s, 0, p) <= Produced(s, 0, q)
<1>1. Produced(s, 0, q) = Produced(s, 0, p) + Produced(s, p, q)
  BY ProducedAdd
<1>2. Produced(s, 0, p) \in Nat /\ Produced(s, p, q) \in Nat
  BY ProducedNat
<1> QED
  BY <1>1, <1>2

-----------------------------------------------------------------------------
\* The sequential decoder gets past all that is clean and not the end.
LEMMA CleanGood ==
    ASSUME NEW s \in Seq(Unit), MarkerLast(s), NEW n \in 0 .. Len(s), Clean(s, 0, n),
           n = Len(s) => ~EndsMarked(s)
    PROVE  n <= GoodTo(s)
<1>1. GoodTo(s) \in 0 .. Len(s) /\ (GoodTo(s) < Len(s) => Breaks(s, GoodTo(s) + 1))
      /\ Len(s) \in Nat
  BY GoodToFacts
<1>2. SUFFICES ASSUME GoodTo(s) < n PROVE FALSE
  BY <1>1
<1>3. PICK i \in Nat : i = GoodTo(s) + 1
  BY <1>1
<1>4. Breaks(s, i) /\ i \in 0+1 .. n /\ i \in 1 .. Len(s)
  BY <1>1, <1>2, <1>3
<1>5. s[i] # "bad" /\ ~Illegal(s, 0, i)
  BY <1>4 DEF Clean
<1>6. s[i] = "end"
  BY <1>4, <1>5 DEF Breaks
<1>7. i = Len(s)
  BY <1>1, <1>4, <1>6 DEF MarkerLast
<1>8. n = Len(s) /\ Len(s) > 0
  BY <1>1, <1>4, <1>7
<1> QED
  BY <1>6, <1>7, <1>8 DEF EndsMarked

\* An end marker after clean input is where the sequential decoder ends.
LEMMA CleanEnd ==
    ASSUME NEW s \in Seq(Unit), MarkerLast(s), NEW n \in Nat, n < Len(s), Clean(s, 0, n),
           s[n + 1] = "end"
    PROVE  /\ ValidStream(s) /\ RefResult(s) = "ok"
           /\ GoodTo(s) = n /\ RefLen(s) = Produced(s, 0, n) /\ n + 1 = Len(s)
<1>1. /\ GoodTo(s) \in 0 .. Len(s) /\ Len(s) \in Nat
      /\ \A i \in 1 .. GoodTo(s) : ~Breaks(s, i)
  BY GoodToFacts
<1>2. n <= GoodTo(s)
  BY <1>1, CleanGood
<1>3. Breaks(s, n + 1)
  BY DEF Breaks
<1>4. ~(n + 1 \in 1 .. GoodTo(s))
  BY <1>1, <1>3
<1>5. GoodTo(s) = n
  BY <1>1, <1>2, <1>4
<1>6. ValidStream(s)
  BY <1>5 DEF ValidStream
<1>7. n + 1 = Len(s)
  <2>1. n + 1 \in Nat /\ ~(n + 1 \in 1 .. Len(s) - 1)
    BY DEF MarkerLast
  <2> QED
    BY <1>1, <2>1
<1> QED
  BY <1>5, <1>6, <1>7, RefFacts DEF RefLen

\* Clean input without an end marker is truncated.
LEMMA CleanCut ==
    ASSUME NEW s \in Seq(Unit), MarkerLast(s), Clean(s, 0, Len(s)), ~EndsMarked(s)
    PROVE  RefResult(s) = "truncated"
<1>1. GoodTo(s) \in 0 .. Len(s) /\ Len(s) \in Nat
  BY GoodToFacts
<1>2. Len(s) <= GoodTo(s)
  BY <1>1, CleanGood
<1>3. GoodTo(s) = Len(s)
  BY <1>1, <1>2
<1>4. ~ValidStream(s)
  BY <1>3 DEF ValidStream
<1> QED
  BY <1>3, <1>4 DEF RefResult

\* The sequential decoder meets whatever is broken, for nothing follows the
\* end marker.
LEMMA BrokenResult ==
    ASSUME NEW s \in Seq(Unit), MarkerLast(s), Broken(s)
    PROVE  RefResult(s) = "corrupt"
<1>1. /\ GoodTo(s) \in 0 .. Len(s) /\ Len(s) \in Nat
      /\ \A i \in 1 .. GoodTo(s) : ~Breaks(s, i)
  BY GoodToFacts
<1>2. PICK i \in 1 .. Len(s) : s[i] = "bad" \/ Illegal(s, 0, i)
  BY DEF Broken
<1>3. GoodTo(s) < i
  <2>1. Breaks(s, i)
    BY <1>2 DEF Breaks
  <2> QED
    BY <1>1, <2>1
<1>4. ~ValidStream(s)
  <2>1. SUFFICES ASSUME ValidStream(s) PROVE FALSE
    OBVIOUS
  <2>2. PICK n \in Nat : n = GoodTo(s) + 1
    BY <1>1
  <2>3. s[n] = "end" /\ n \in 1 .. i
    BY <1>1, <1>3, <2>1, <2>2 DEF ValidStream
  <2>4. n = i
    BY <1>1, <2>3 DEF MarkerLast
  <2> QED
    BY <1>2, <2>3, <2>4 DEF Illegal, Payload
<1>5. GoodTo(s) # Len(s)
  BY <1>1, <1>3
<1> QED
  BY <1>4, <1>5 DEF RefResult

\* What decodes, and ends with the end marker, is a valid stream, of which
\* all the output was seen.
LEMMA CleanMarked ==
    ASSUME NEW s \in Seq(Unit), MarkerLast(s), Clean(s, 0, Len(s)), EndsMarked(s)
    PROVE  /\ ValidStream(s) /\ RefResult(s) = "ok"
           /\ Produced(s, 0, Len(s)) = RefLen(s)
<1>1. Len(s) \in Nat /\ Len(s) > 0 /\ s[Len(s)] = "end"
  BY DEF EndsMarked
<1>2. PICK n \in Nat : n + 1 = Len(s)
  BY <1>1
<1>3. Clean(s, 0, n)
  <2>1. \A i \in 0+1 .. n : i \in 0+1 .. Len(s)
    BY <1>1, <1>2
  <2> QED
    BY <2>1 DEF Clean
<1>4. n < Len(s) /\ s[n + 1] = "end"
  BY <1>1, <1>2
<1>5. ValidStream(s) /\ RefResult(s) = "ok" /\ RefLen(s) = Produced(s, 0, n)
  BY <1>3, <1>4, CleanEnd
<1>6. Produced(s, 0, n + 1) = Produced(s, 0, n)
  BY <1>4, ProducedSkip DEF Payload
<1> QED
  BY <1>2, <1>5, <1>6

\* What decodes is never more than the output of the sequential decoder.
LEMMA CleanPrefix ==
    ASSUME NEW s \in Seq(Unit), MarkerLast(s), NEW n \in 0 .. Len(s), Clean(s, 0, n)
    PROVE  Produced(s, 0, n) <= RefLen(s)
<1>1. GoodTo(s) \in Nat /\ Len(s) \in Nat /\ n \in Nat
  BY GoodToFacts
<1>2. CASE n = Len(s) /\ EndsMarked(s)
  <2>1. Produced(s, 0, n) = RefLen(s) /\ RefLen(s) \in Nat
    BY <1>2, CleanMarked, RefFacts
  <2> QED
    BY <2>1
<1>3. CASE ~(n = Len(s) /\ EndsMarked(s))
  <2>1. n <= GoodTo(s)
    BY <1>3, CleanGood
  <2> QED
    BY <1>1, <2>1, ProducedGrows DEF RefLen
<1> QED
  BY <1>2, <1>3

\* An error of a block is one of the stream.
LEMMA IllegalBroken ==
    ASSUME NEW s, NEW b \in Nat, NEW n \in 1 .. Len(s), b < n, Restart(s, b),
           Illegal(s, b, n), Len(s) \in Nat
    PROVE  Broken(s)
<1>1. Illegal(s, 0, n)
  <2>1. CASE b = 0
    BY <2>1
  <2>2. CASE b > 0
    <3>1. b \in 1 .. Len(s) - 1
      BY <2>2
    <3>2. s[b + 1] = "reset"
      BY <3>1 DEF Restart
    <3>3. ~(s[n] \in Payload /\ n = b + 1)
      BY <3>2 DEF Payload
    <3> QED
      BY <3>3 DEF Illegal
  <2> QED
    BY <2>1, <2>2
<1> QED
  BY <1>1 DEF Broken

-----------------------------------------------------------------------------
\* The block with the end marker was written: it was the last of the stream.
MarkInv == marked => Delivered = Len(stream) /\ EndsMarked(stream)

\* The parse of the block b ends with an end marker if it says so.
Marker(b) ==
    b.status = "mark" => b.parsed \in 1 .. Len(stream) /\ stream[b.parsed] = "end"

MarkBlocks == \A t \in Threads : Busy(t) => Marker(blk[t])

(***************************************************************************)
(* The invariant while nothing was refused.  The block b started where a   *)
(* decoder may be reset, nothing but the stream is wrong with it, and it   *)
(* is out of input only at the end of a stream that has no end marker.     *)
(***************************************************************************)
PlainData(b) ==
    /\ ~b.allocErr /\ ~b.threadErr /\ ~b.stale
    /\ b.mid <= b.hi
    /\ b.link > 0 => StartOk(stream, b.lo, b.start)
    /\ b.failed => Broken(stream)
    /\ b.codeRes \in {None, "corrupt", "truncated"}
    /\ b.codeRes = "corrupt" => Broken(stream)
    /\ b.codeRes = "truncated" => b.link > 0 /\ b.lo = Len(stream)
    /\ b.needWrite /\ b.state = "continue" /\ b.hi = Len(stream) => ~EndsMarked(stream)

\* What the parse made of a block that has left the read loop.
Left(b) ==
    /\ b.state = "new" => Restart(stream, b.hi) /\ b.hi < Len(stream)
    /\ b.state = "new" /\ ~b.intr /\ b.codeRes = None => ~b.finish
    /\ b.needWrite /\ b.state = "continue" => b.hi = Len(stream)
    /\ b.state = "end" /\ ~b.failed => b.status = "mark"
    /\ b.state = "overflow" => b.overflow
    /\ BlockFinished(b) => b.parsed = b.hi
    /\ b.needCode /\ b.parsed = b.lo => b.lo = Len(stream)

PlainBlock(t) ==
    LET b == blk[t]
    IN  /\ PlainData(b)
        /\ pc[t] = "read" => IF b.link > 0 THEN rd.outParse = b.start
                                            ELSE b.finish => rd.finished
        /\ pc[t] # "read" => Left(b) /\ (b.needCode => b.link > 0)
        /\ Passed(t) /\ b.needCode /\ ~b.intr /\ b.codeRes = None => b.parsed # b.lo

\* Thread t will start a block at the frontier, or hand on to one that will.
Expects(t) ==
    \/ Live /\ canRead[t]
    \/ pc[t] = "read" /\ blk[t].link = 0
    \/ pc[t] = "pass" /\ ~blk[t].finish /\ ~blk[t].intr

PlainWrite ==
    /\ ~wr.err
    /\ wr.codeRes # None => wr.codeRes = RefResult(stream)
    /\ ~wr.intr => wr.outDone = Produced(stream, 0, Delivered)
    /\ marked \/ Restart(stream, Delivered)

\* A read that does not fill its buffer is the last one.
PlainRead(r) ==
    /\ ~r.err
    /\ r.finished => r.pos = Len(stream)

\* So many units fill a number of buffers.
WholeBuffers(n) == \E k \in Nat : n = k * InBufSize

PlainRing ==
    /\ rd.finished \/ WholeBuffers(rd.pos)
    /\ \A t \in Threads : Busy(t) => PlainBlock(t)
    /\ \A t \in Threads : Expects(t) => StartOk(stream, Frontier, rd.outParse)
    /\ PlainWrite

\* The tail starts where a decoder may be reset and stops at an end marker.
PlainTail ==
    /\ st.first => Restart(stream, Delivered)
    /\ ~st.first => /\ Restart(stream, st.base)
                    /\ st.pos = Len(stream) => ~EndsMarked(stream)

Plain ==
    /\ PlainRead(rd)
    /\ result # None => result = RefResult(stream)
    /\ result = None /\ ~st.on => PlainRing
    /\ result = None /\ st.on => PlainTail

-----------------------------------------------------------------------------
\* What else Lzma2Coder::parse reports: a failure is an illegal byte, a new
\* block starts at a dictionary reset and leaves something to the old one, and
\* the input ends without an end marker when the parse wants more.
LEMMA ParseMore ==
    ASSUME NEW s \in Seq(Unit), NEW b \in Nat, NEW lo \in Nat, NEW hi \in Nat,
           b <= lo, lo <= hi, NEW o \in Parse(s, b, lo, hi)
    PROVE  /\ o.failed => \E n \in lo+1 .. hi : Illegal(s, b, n)
           /\ o.state = "new" => o.status = "new" /\ b < o.pos /\ o.pos < hi
                                 /\ s[o.pos + 1] = "reset"
           /\ o.state = "end" => lo < o.pos /\ (~o.failed => o.status = "mark")
           /\ o.status = "mark" => o.state = "end" /\ o.pos \in lo+1 .. hi /\ s[o.pos] = "end"
           /\ o.status = "new" => o.state = "new"
           /\ o.state = "continue" => o.pos = hi /\ \A i \in lo+1 .. hi : s[i] # "end"
           /\ o.state \in {"continue", "overflow", "new", "end"}
<1>1. PICK n \in lo+1 .. hi+1, p \in lo+1 .. hi+1 :
            /\ p <= n /\ FirstStop(s, b, lo, hi, n) /\ LastPoint(s, b, lo, n, p)
            /\ o = ParseAt(s, b, hi, n, p)
  BY DEF Parse
<1>2. /\ n \in Nat /\ p \in Nat /\ p - 1 \in Nat /\ n - 1 \in Nat /\ p - 1 <= n - 1
      /\ lo <= n - 1 /\ lo <= p - 1 /\ n <= hi + 1
  BY <1>1
<1>3. PICK failed \in BOOLEAN : failed <=> (n <= hi /\ Illegal(s, b, n))
  OBVIOUS
<1>4. o = IF failed /\ ~(Produced(s, b, n - 1) = OutBlockMax) THEN Outcome("end", "notspec", n, TRUE)
          ELSE IF n <= hi /\ s[n] = "end"   THEN Outcome("end", "mark", n, FALSE)
          ELSE IF n <= hi /\ s[n] = "reset" THEN Outcome("new", "new", n - 1, FALSE)
          ELSE IF p < n   THEN Outcome("new", "new", p - 1, failed)
          ELSE IF n <= hi THEN Outcome("overflow", "notfin", n, failed)
          ELSE Outcome("continue", "more", hi, FALSE)
  BY <1>1, <1>3 DEF ParseAt
<1>5. \/ failed /\ o = Outcome("end", "notspec", n, TRUE)
      \/ n <= hi /\ s[n] = "end" /\ o = Outcome("end", "mark", n, FALSE)
      \/ n <= hi /\ s[n] = "reset" /\ o = Outcome("new", "new", n - 1, FALSE)
      \/ p < n /\ o = Outcome("new", "new", p - 1, failed)
      \/ n <= hi /\ o = Outcome("overflow", "notfin", n, failed)
      \/ ~(n <= hi) /\ o = Outcome("continue", "more", hi, FALSE)
  BY <1>4, Zenon
<1>6. failed => n \in lo+1 .. hi /\ Illegal(s, b, n)
  BY <1>1, <1>2, <1>3
<1>7. ASSUME NEW q \in Nat, lo <= q, Produced(s, b, q) > 0 PROVE b < q
  <2>1. q # b
    BY <1>7, ProducedNone
  <2> QED
    BY <1>7, <2>1
<1>8. CASE failed /\ o = Outcome("end", "notspec", n, TRUE)
  <2>1. o.state = "end" /\ o.status = "notspec" /\ o.pos = n /\ o.failed = TRUE
    BY <1>8 DEF Outcome
  <2>2. lo < n /\ n \in lo+1 .. hi /\ Illegal(s, b, n)
    BY <1>2, <1>6, <1>8
  <2> QED
    BY <2>1, <2>2, Zenon
<1>9. CASE n <= hi /\ s[n] = "end" /\ o = Outcome("end", "mark", n, FALSE)
  <2>1. o.state = "end" /\ o.status = "mark" /\ o.pos = n /\ o.failed = FALSE
    BY <1>9 DEF Outcome
  <2>2. lo < n /\ n \in lo+1 .. hi /\ s[n] = "end"
    BY <1>2, <1>9
  <2> QED
    BY <2>1, <2>2, Zenon
<1>10. CASE n <= hi /\ s[n] = "reset" /\ o = Outcome("new", "new", n - 1, FALSE)
  <2>1. o.state = "new" /\ o.status = "new" /\ o.pos = n - 1 /\ o.failed = FALSE
    BY <1>10 DEF Outcome
  <2>2. s[n] # "end" /\ s[n] \notin Payload /\ ~Illegal(s, b, n)
    BY <1>10 DEF Payload, Illegal
  <2>3. Produced(s, b, n - 1) >= SmallBlock
    BY <1>1, <1>10, <2>2 DEF FirstStop, Stops
  <2>4. Produced(s, b, n - 1) > 0
    BY <1>2, <2>3, ProducedNat, SmallBlockAssumption
  <2>5. b < n - 1
    BY <1>2, <1>7, <2>4
  <2>6. n - 1 + 1 = n /\ n - 1 < hi /\ hi \in Nat
    BY <1>2, <1>10
  <2>7. o.pos + 1 = n /\ o.pos < hi /\ b < o.pos
    BY <2>1, <2>5, <2>6
  <2> QED
    BY <1>10, <2>1, <2>7
<1>11. CASE p < n /\ o = Outcome("new", "new", p - 1, failed)
  <2>1. o.state = "new" /\ o.status = "new" /\ o.pos = p - 1 /\ o.failed = failed
    BY <1>11 DEF Outcome
  <2>2. s[p] = "reset" /\ Produced(s, b, p - 1) > 0
    BY <1>1, <1>11 DEF LastPoint
  <2>3. b < p - 1
    BY <1>2, <1>7, <2>2
  <2>4. o.pos + 1 = p /\ o.pos < hi
    BY <1>2, <1>11, <2>1
  <2> QED
    BY <1>6, <2>1, <2>2, <2>3, <2>4
<1>12. CASE n <= hi /\ o = Outcome("overflow", "notfin", n, failed)
  <2>1. o.state = "overflow" /\ o.status = "notfin" /\ o.failed = failed
    BY <1>12 DEF Outcome
  <2> QED
    BY <1>6, <2>1
<1>13. CASE ~(n <= hi) /\ o = Outcome("continue", "more", hi, FALSE)
  <2>1. o.state = "continue" /\ o.status = "more" /\ o.pos = hi /\ o.failed = FALSE
    BY <1>13 DEF Outcome
  <2>2. ASSUME NEW i \in lo+1 .. hi PROVE s[i] # "end"
    <3>1. i \in lo+1 .. n-1
      BY <1>2, <1>13
    <3>2. ~Stops(s, b, i)
      BY <1>1, <3>1 DEF FirstStop
    <3> QED
      BY <3>2 DEF Stops
  <2> QED
    BY <2>1, <2>2
<1> QED
  BY <1>5, <1>8, <1>9, <1>10, <1>11, <1>12, <1>13

-----------------------------------------------------------------------------
\* A read that was not refused stops short of its buffer only at the end of
\* the stream.
LEMMA FetchedPlain ==
    ASSUME RingTypeOK, ReadInv, NEW t \in Threads, pc[t] = "read",
           NEW f \in Fetched(t), f.fault = {},
           PlainRead(rd), rd.finished \/ WholeBuffers(rd.pos),
           blk[t].link = 0 /\ blk[t].finish => rd.finished
    PROVE  /\ f.finish => f.hi = Len(stream)
           /\ PlainRead(AfterRead(t, f))
           /\ AfterRead(t, f).finished \/ WholeBuffers(AfterRead(t, f).pos)
           /\ AfterRead(t, f).outParse = rd.outParse
<1>1. /\ rd \in ReadState /\ rd.pos \in Nat /\ rd.finished \in BOOLEAN /\ rd.pos <= Len(stream)
      /\ rd.err \in BOOLEAN
      /\ rd.crossLo < rd.crossHi => rd.crossHi = rd.pos
      /\ Len(stream) \in Nat /\ InBufSize \in Nat /\ InBufSize > 0
  BY Types, RdFields, InBufSizeAssumption DEF ReadInv
<1>2. CASE FromCross(t)
  <2>1. f.hi = rd.crossHi /\ f.finish = blk[t].finish /\ AfterRead(t, f) = rd
    BY <1>2 DEF Fetched, AfterRead
  <2>2. f.finish => f.hi = Len(stream)
    BY <1>1, <1>2, <2>1 DEF FromCross, PlainRead
  <2> QED
    BY <2>1, <2>2
<1>3. CASE ~FromCross(t)
  <2> DEFINE avail == Min2(InBufSize, Len(stream) - rd.pos)
  <2>1. /\ avail \in Nat
        /\ avail # InBufSize => rd.pos + avail = Len(stream)
        /\ rd.pos = Len(stream) => rd.pos + avail = Len(stream)
    BY <1>1 DEF Min2
  <2>2. f = [lo |-> rd.pos, hi |-> rd.pos + avail, finish |-> avail # InBufSize,
             fault |-> {}]
    BY <1>3 DEF Fetched
  <2>3. f.hi = rd.pos + avail /\ f.finish = (avail # InBufSize)
    BY <2>2
  <2>4. AfterRead(t, f) = [rd EXCEPT !.pos = f.hi, !.finished = @ \/ f.finish, !.err = @]
    BY <1>1, <1>3 DEF AfterRead
  <2>5. /\ AfterRead(t, f).pos = f.hi /\ AfterRead(t, f).err = rd.err
        /\ AfterRead(t, f).finished = (rd.finished \/ f.finish)
        /\ AfterRead(t, f).outParse = rd.outParse
    BY <1>1, <2>4 DEF ReadState
  <2> HIDE DEF avail
  <2>6. f.finish => f.hi = Len(stream)
    BY <2>1, <2>3
  <2>7. rd.finished => f.hi = Len(stream)
    BY <2>1, <2>3 DEF PlainRead
  <2>8. PlainRead(AfterRead(t, f))
    BY <2>5, <2>6, <2>7 DEF PlainRead
  <2>9. ASSUME ~rd.finished, ~f.finish PROVE WholeBuffers(f.hi)
    <3>1. PICK k \in Nat : rd.pos = k * InBufSize
      BY <2>9 DEF WholeBuffers
    <3>2. f.hi = k * InBufSize + InBufSize
      BY <2>3, <2>9, <3>1
    <3>3. k * InBufSize + InBufSize = (k + 1) * InBufSize /\ k + 1 \in Nat
      BY <1>1
    <3> QED
      BY <3>2, <3>3 DEF WholeBuffers
  <2> QED
    BY <2>5, <2>6, <2>8, <2>9
<1> QED
  BY <1>2, <1>3

\* Nothing was refused: the block was parsed.
LEMMA ReadPlain ==
    ASSUME NEW t \in Threads, ReadLink(t), faulted' = {}
    PROVE  \E f \in Fetched(t) : \E o \in Parse(stream, Grown(blk[t], f).lo, f.lo, f.hi) :
              ParseStep(t, f, o) /\ f.fault = {}
<1>1. BufFails(t) => "buf" \in faulted'
  BY DEF BufFails, Settle
<1>2. \A f \in Fetched(t) : CoderFails(t, f) => "coder" \in faulted'
  BY DEF CoderFails, Settle
<1>3. ASSUME NEW f \in Fetched(t), NEW o, ParseStep(t, f, o) PROVE f.fault \subseteq faulted'
  <2>1. \/ faulted' = faulted \cup f.fault
        \/ faulted' = faulted \cup (f.fault \cup {"cross"})
    BY <1>3, Zenon DEF ParseStep, Settle
  <2> QED
    BY <2>1
<1>4. \E f \in Fetched(t) : \E o \in Parse(stream, Grown(blk[t], f).lo, f.lo, f.hi) :
          ParseStep(t, f, o)
  BY <1>1, <1>2 DEF ReadLink
<1> QED
  BY <1>3, <1>4

\* What the parse leaves in the block that was read without a fault.
ParsedAs(b, f, o) ==
    /\ b \in Block /\ b.link > 0 /\ b.lo \in Nat /\ b.lo <= f.lo /\ b.hi = f.hi
    /\ ~b.intr /\ ~b.needCode /\ ~b.overflow /\ b.codeRes = None /\ b.needWrite
    /\ b.finish = f.finish /\ b.state = o.state /\ b.status = o.status
    /\ b.failed = o.failed
    /\ o.state # "overflow" => b.parsed = o.pos
    /\ b.start = rd.outParse
    /\ b.mid <= b.hi /\ (b.link # 1 => b.mid <= f.lo)
    /\ PlainData(b)

\* What Lzma2Coder::parse leaves in a block when nothing was refused and the
\* block starts where a decoder may be reset: every error of it is the stream's.
LEMMA ParsedPlain ==
    ASSUME RingTypeOK, ReadInv, NEW t \in Threads, pc[t] = "read", BlockGood(t), PlainBlock(t),
           NEW f \in Fetched(t), f.fault = {},
           NEW o \in Parse(stream, Grown(blk[t], f).lo, f.lo, f.hi),
           blk[t].link = 0 => StartOk(stream, Frontier, rd.outParse)
    PROVE  ParsedAs(Parsed(Grown(blk[t], f), rd, o), f, o)
<1> DEFINE g == Grown(blk[t], f)
           b == Parsed(g, rd, o)
<1>1. /\ Fresh(g) /\ g.lo = Start(t) /\ g.hi = f.hi /\ g.link > 0
      /\ g.finish = f.finish /\ g.lo <= f.lo /\ g.lo \in Nat
  BY GrownFacts, BlkFields DEF Fresh
<1>2. /\ f.lo \in Nat /\ f.hi \in Nat /\ f.lo <= f.hi /\ f.hi <= Len(stream)
      /\ f.lo = IF blk[t].link = 0 THEN Frontier ELSE blk[t].hi
  BY FetchedFacts
<1>3. /\ blk[t] \in Block /\ rd \in ReadState /\ blk[t].link \in Nat /\ blk[t].hi \in Nat
      /\ stream \in Seq(Unit) /\ Len(stream) \in Nat /\ rd.outParse \in Nat
  BY Types, BlkFields, RdFields
<1>4. PlainData(blk[t]) /\ (blk[t].link > 0 => rd.outParse = blk[t].start)
  BY DEF PlainBlock
<1>5. g.link = blk[t].link + 1 /\ g.start = blk[t].start /\ g.stale = blk[t].stale
      /\ g.allocErr = blk[t].allocErr /\ g.threadErr = blk[t].threadErr
      /\ g.mid = IF blk[t].link = 0 THEN f.hi ELSE blk[t].mid
  BY <1>3 DEF Grown, Block
<1>6. o \in ParseOutcome
  BY <1>1, <1>2, <1>3, ParseFacts
<1> HIDE DEF g
<1>7. /\ b \in Block /\ b.link > 0 /\ b.link = g.link /\ b.lo = g.lo /\ b.hi = g.hi
      /\ b.finish = g.finish /\ b.state = o.state /\ b.status = o.status /\ b.needWrite = TRUE
      /\ o.state # "overflow" => b.parsed = o.pos
      /\ Fresh(b)
  <2>1. Fresh(g) /\ g.link > 0 /\ rd \in ReadState /\ o \in ParseOutcome
    BY <1>1, <1>3, <1>6
  <2>2. /\ Fresh(b)
        /\ b.num = g.num /\ b.lo = g.lo /\ b.hi = g.hi /\ b.link = g.link
        /\ b.finish = g.finish
        /\ b.state = o.state /\ b.status = o.status /\ b.needWrite = TRUE
        /\ o.state # "overflow" => b.parsed = o.pos
    BY <2>1, ParsedFacts, ZenonT(40)
  <2> HIDE DEF b
  <2> QED
    BY <2>1, <2>2 DEF Fresh
<1>8. /\ b.failed = o.failed /\ b.stale = g.stale /\ b.mid = g.mid
      /\ b.start = IF g.link = 1 THEN rd.outParse ELSE g.start
  BY <1>1 DEF Parsed, Fresh, Block
<1>9. b.start = rd.outParse
  BY <1>3, <1>4, <1>5, <1>8
<1> HIDE DEF b
<1>10. StartOk(stream, b.lo, b.start)
  <2>1. CASE blk[t].link = 0
    BY <1>1, <1>7, <1>9, <2>1 DEF Start
  <2>2. CASE blk[t].link > 0
    <3>1. b.lo = blk[t].lo
      BY <1>1, <1>7, <2>2 DEF Start
    <3> QED
      BY <1>4, <1>9, <2>2, <3>1 DEF PlainData
  <2> QED
    BY <1>3, <2>1, <2>2
<1>11. b.failed => Broken(stream)
  <2>1. SUFFICES ASSUME o.failed PROVE Broken(stream)
    BY <1>8
  <2>2. PICK n \in f.lo+1 .. f.hi : Illegal(stream, g.lo, n)
    BY <1>1, <1>2, <1>3, <2>1, ParseMore DEF g
  <2>3. n \in 1 .. Len(stream) /\ g.lo < n
    BY <1>1, <1>2, <1>3
  <2>4. Restart(stream, g.lo)
    BY <1>7, <1>10 DEF StartOk
  <2> QED
    BY <1>1, <1>3, <2>2, <2>3, <2>4, IllegalBroken
<1>12. ASSUME o.state = "continue", f.hi = Len(stream) PROVE ~EndsMarked(stream)
  <2>1. \A i \in f.lo+1 .. f.hi : stream[i] # "end"
    BY <1>1, <1>2, <1>3, <1>12, ParseMore DEF g
  <2>2. CASE f.lo < f.hi
    <3>1. Len(stream) \in f.lo+1 .. f.hi
      BY <1>2, <1>12, <2>2
    <3> QED
      BY <2>1, <3>1 DEF EndsMarked
  <2>3. CASE f.lo = f.hi /\ blk[t].link = 0
    BY <1>2, <1>12, <2>3 DEF StartOk, Restart
  <2>4. CASE f.lo = f.hi /\ blk[t].link > 0
    <3>1. blk[t].hi = Len(stream)
      BY <1>2, <1>12, <2>4
    <3>2. blk[t].state = "continue"
      BY <2>4 DEF ReadInv
    <3>3. blk[t].needWrite
      BY <2>4 DEF BlockGood, AtRead
    <3> QED
      BY <1>4, <3>1, <3>2, <3>3 DEF PlainData
  <2> QED
    BY <1>2, <1>3, <2>2, <2>3, <2>4
<1>14. b.mid <= b.hi /\ (b.link # 1 => b.mid <= f.lo)
  <2>1. blk[t].mid <= blk[t].hi /\ blk[t].mid \in Nat
    BY <1>3, <1>4, BlkFields DEF PlainData
  <2>2. b.link = blk[t].link + 1
    BY <1>5, <1>7
  <2>3. CASE blk[t].link = 0
    BY <1>1, <1>2, <1>5, <1>7, <1>8, <2>2, <2>3
  <2>4. CASE blk[t].link # 0
    <3>1. b.mid = blk[t].mid /\ f.lo = blk[t].hi
      BY <1>2, <1>5, <1>8, <2>4
    <3> QED
      BY <1>1, <1>2, <1>3, <1>7, <2>1, <3>1
  <2> QED
    BY <2>3, <2>4
<1>13. PlainData(b)
  <2>1. ~b.allocErr /\ ~b.threadErr /\ b.codeRes = None
    BY <1>7 DEF Fresh
  <2>2. ~b.stale
    BY <1>4, <1>5, <1>8 DEF PlainData
  <2>3. b.state = "continue" /\ b.hi = Len(stream) => ~EndsMarked(stream)
    BY <1>1, <1>7, <1>12
  <2> QED
    BY <1>10, <1>11, <1>14, <2>1, <2>2, <2>3 DEF PlainData, None
<1> QED
  BY <1>1, <1>7, <1>8, <1>9, <1>14, <1>13 DEF ParsedAs, Fresh, b, g

\* What a turn of the read loop leaves when nothing was refused: thread t at w
\* with the block c, and the read state r.
PlainTurn(w, c, r) ==
    /\ w \in {"read", "pass"} /\ c.link > 0 /\ PlainData(c)
    /\ w = "read" => r.outParse = c.start
    /\ w = "pass" => Left(c) /\ (~c.finish => StartOk(stream, FrontierOf(r), r.outParse))
    /\ PlainRead(r) /\ (r.finished \/ WholeBuffers(r.pos))

\* Handling the cross block does not change how far was read.
SameRead(q, r) ==
    /\ q.pos = r.pos /\ q.finished = r.finished /\ q.err = r.err /\ q.outParse = r.outParse

\* Only the fields of the read state that PlainRead speaks of matter to it.
LEMMA SameReadPlain ==
    ASSUME NEW r, NEW q, SameRead(q, r), PlainRead(r), r.finished \/ WholeBuffers(r.pos)
    PROVE  PlainRead(q) /\ (q.finished \/ WholeBuffers(q.pos))
  BY DEF SameRead, PlainRead, WholeBuffers

\* A parse keeps the turn of a thread that nothing was refused: the block it
\* leaves, and where the next read starts, are again as PlainTurn says.
LEMMA ParseStepPlain ==
    ASSUME RingTypeOK, ReadInv, NEW t \in Threads, pc[t] = "read", BlockGood(t), PlainBlock(t),
           NEW f \in Fetched(t), f.fault = {},
           NEW o \in Parse(stream, Grown(blk[t], f).lo, f.lo, f.hi),
           blk[t].link = 0 => StartOk(stream, Frontier, rd.outParse),
           PlainRead(rd), rd.finished \/ WholeBuffers(rd.pos), MarkerLast(stream),
           ParseStep(t, f, o), faulted' = {}
    PROVE  \E w, c, r : /\ PlainTurn(w, c, r)
                        /\ blk' = [blk EXCEPT ![t] = c] /\ rd' = r
                        /\ pc' = [pc EXCEPT ![t] = w]
<1> DEFINE b == Parsed(Grown(blk[t], f), rd, o)
           a == AfterRead(t, f)
           r == Accounted(a, b, o)
           left == [r EXCEPT !.crossLo = IF FromCross(t) THEN o.pos ELSE @]
           coded == [b EXCEPT !.needCode = TRUE, !.finish = @ \/ o.state = "end"]
<1>1. ParsedAs(b, f, o)
  BY ParsedPlain
<1>2. /\ f.lo \in Nat /\ f.hi \in Nat /\ f.lo <= f.hi /\ f.hi <= Len(stream)
      /\ Len(stream) \in Nat /\ stream \in Seq(Unit)
  BY Types, FetchedFacts
<1>3. /\ f.finish => f.hi = Len(stream)
      /\ PlainRead(a) /\ (a.finished \/ WholeBuffers(a.pos)) /\ a.outParse = rd.outParse
  BY FetchedPlain DEF PlainBlock
<1>4. /\ a \in ReadState /\ a.pos = f.hi /\ a.crossLo = rd.crossLo /\ a.crossHi = rd.crossHi
  BY AfterReadFacts
<1>5. /\ Grown(blk[t], f).lo \in Nat /\ Grown(blk[t], f).lo <= f.lo
      /\ Grown(blk[t], f).lo = b.lo
  <2>1. /\ Fresh(Grown(blk[t], f)) /\ Grown(blk[t], f).lo <= f.lo
    BY GrownFacts
  <2>2. Grown(blk[t], f).lo = b.lo
    BY <2>1 DEF Fresh, Block, Parsed
  <2> QED
    BY <2>1, <2>2, BlkFields DEF Fresh
<1>6. /\ o \in ParseOutcome /\ f.lo <= o.pos /\ o.pos <= f.hi /\ o.pos \in Nat
      /\ o.state = "continue" => o.pos = f.hi
  BY <1>2, <1>5, ParseFacts DEF ParseOutcome
<1>7. /\ o.state = "new" => /\ o.status = "new" /\ b.lo < o.pos /\ o.pos < f.hi
                            /\ stream[o.pos + 1] = "reset"
      /\ o.state = "end" => f.lo < o.pos /\ (~o.failed => o.status = "mark")
      /\ o.status = "mark" => o.state = "end" /\ stream[o.pos] = "end"
      /\ o.status = "new" => o.state = "new"
      /\ o.state \in {"continue", "overflow", "new", "end"}
  BY <1>2, <1>5, ParseMore
<1>8. rd.outParse \in Nat
  BY Types, RdFields
<1> HIDE DEF b
<1>9. r = [a EXCEPT !.outParse = IF o.state \in {"new", "end"}
                                 THEN @ + Produced(stream, b.lo, o.pos) ELSE @]
  BY DEF Accounted
<1>10. Produced(stream, b.lo, o.pos) \in Nat
  BY <1>1, <1>6, ProducedNat DEF ParsedAs
<1> HIDE DEF a
<1>11. /\ r \in ReadState /\ r.pos = a.pos /\ r.crossLo = a.crossLo /\ r.crossHi = a.crossHi
       /\ r.finished = a.finished /\ r.err = a.err
       /\ o.state \in {"new", "end"} => r.outParse = rd.outParse + Produced(stream, b.lo, o.pos)
       /\ o.state = "continue" => r.outParse = rd.outParse
  <2>1. rd.outParse + Produced(stream, b.lo, o.pos) \in Nat
    BY <1>8, <1>10
  <2> QED
    BY <1>3, <1>4, <1>8, <1>9, <2>1 DEF ReadState
<1> HIDE DEF r
<1>12. PlainRead(r) /\ (r.finished \/ WholeBuffers(r.pos))
  BY <1>3, <1>11 DEF PlainRead
<1>13. ASSUME o.state = "new" PROVE StartOk(stream, o.pos, r.outParse) /\ o.pos < Len(stream)
  <2>1. b.lo < o.pos /\ o.pos < Len(stream) /\ o.pos \in 1 .. Len(stream) - 1 /\ b.lo \in Nat
    BY <1>1, <1>2, <1>6, <1>7, <1>13 DEF ParsedAs
  <2>2. Restart(stream, o.pos)
    BY <1>7, <1>13, <2>1 DEF Restart
  <2>3. rd.outParse = Produced(stream, 0, b.lo)
    BY <1>1, <1>2, <2>1 DEF ParsedAs, PlainData, StartOk
  <2>4. Produced(stream, 0, o.pos) = Produced(stream, 0, b.lo) + Produced(stream, b.lo, o.pos)
    BY <1>6, <2>1, ProducedAdd
  <2> QED
    BY <1>11, <1>13, <2>1, <2>2, <2>3, <2>4 DEF StartOk
<1>14. /\ SameRead(NoCross(r), r) /\ SameRead(left, r)
       /\ SameRead([r EXCEPT !.crossLo = o.pos, !.crossHi = f.hi, !.crossBuf = TRUE], r)
  BY <1>11 DEF SameRead, NoCross, ReadState
<1>15. /\ PlainData(b) /\ b \in Block /\ b.link > 0 /\ b.hi = f.hi /\ b.state = o.state
       /\ b.status = o.status /\ b.finish = f.finish /\ b.failed = o.failed
       /\ b.lo \in Nat /\ b.lo <= f.lo /\ b.start = rd.outParse /\ ~b.needCode
       /\ o.state # "overflow" => b.parsed = o.pos
  BY <1>1 DEF ParsedAs
\* The block was parsed as far as it reaches, which may be less than was read.
<1>16. ASSUME NEW c, c.state = o.state, c.status = o.status, c.failed = o.failed,
              c.lo = b.lo, c.parsed = o.pos, c.hi = o.pos, o.state # "overflow",
              o.state = "new" => ~c.finish,
              o.state = "continue" => f.hi = Len(stream)
       PROVE  Left(c)
  <2>1. o.state = "new" => Restart(stream, c.hi) /\ c.hi < Len(stream)
    BY <1>13, <1>16 DEF StartOk
  <2>2. o.state = "continue" => c.hi = Len(stream)
    BY <1>6, <1>16
  <2>3. c.parsed = c.lo => c.lo = Len(stream)
    <3>1. CASE o.state = "new"
      BY <1>7, <1>15, <1>16, <3>1
    <3>2. CASE o.state = "end"
      BY <1>2, <1>7, <1>15, <1>16, <3>2
    <3>3. CASE o.state = "continue"
      BY <1>16, <2>2, <3>3
    <3> QED
      BY <1>7, <1>16, <3>1, <3>2, <3>3
  <2> QED
    BY <1>7, <1>16, <2>1, <2>2, <2>3 DEF Left
<1>17. CASE /\ o.state = "overflow"
            /\ Settle(t, "pass", [b EXCEPT !.finish = TRUE, !.overflow = TRUE],
                      NoCross(r), f.fault)
  <2> DEFINE c == [b EXCEPT !.finish = TRUE, !.overflow = TRUE]
  <2>1. /\ c.link = b.link /\ c.state = "overflow" /\ c.overflow /\ c.finish
        /\ c.status = o.status /\ ~c.needCode
    BY <1>15, <1>17 DEF Block
  <2>2. PlainData(c)
    BY <1>15, <1>17 DEF PlainData, Block
  <2>3. o.status \notin {"mark", "new"}
    BY <1>7, <1>17
  <2> HIDE DEF c
  <2>4. Left(c)
    BY <2>1, <2>3 DEF Left, BlockFinished
  <2>5. PlainTurn("pass", c, NoCross(r))
    BY <1>12, <1>14, <1>15, <2>1, <2>2, <2>4, SameReadPlain DEF PlainTurn
  <2> QED
    BY <1>17, <2>5 DEF Settle, c
<1>18. CASE /\ o.state = "continue" /\ ~b.finish
            /\ Settle(t, "read", b, NoCross(r), f.fault)
  <2>1. NoCross(r).outParse = b.start
    BY <1>11, <1>14, <1>15, <1>18 DEF SameRead
  <2>2. PlainTurn("read", b, NoCross(r))
    BY <1>12, <1>14, <1>15, <2>1, SameReadPlain DEF PlainTurn
  <2> QED
    BY <1>18, <2>2 DEF Settle
<1>19. /\ coded.link = b.link /\ coded.state = o.state /\ coded.status = o.status
       /\ coded.failed = o.failed /\ coded.lo = b.lo /\ coded.hi = f.hi
       /\ coded.finish = (f.finish \/ o.state = "end") /\ PlainData(coded)
       /\ o.state # "overflow" => coded.parsed = o.pos
       /\ coded \in Block
  <2> DEFINE e == b.finish \/ o.state = "end"
  <2>1. e \in BOOLEAN /\ TRUE \in BOOLEAN
    BY <1>15 DEF Block
  <2>2. e <=> f.finish \/ o.state = "end"
    BY <1>15
  <2>3. coded = [b EXCEPT !.needCode = TRUE, !.finish = e]
    OBVIOUS
  <2> HIDE DEF e, coded
  <2>4. /\ coded \in Block /\ coded.finish = e
        /\ coded.link = b.link /\ coded.state = b.state /\ coded.status = b.status
        /\ coded.failed = b.failed /\ coded.lo = b.lo /\ coded.mid = b.mid
        /\ coded.hi = b.hi /\ coded.parsed = b.parsed /\ coded.start = b.start
        /\ coded.allocErr = b.allocErr /\ coded.threadErr = b.threadErr
        /\ coded.stale = b.stale /\ coded.codeRes = b.codeRes
        /\ coded.needWrite = b.needWrite
    BY <1>15, <2>1, <2>3 DEF Block
  <2>5. PlainData(coded)
    BY <1>15, <2>4 DEF PlainData
  <2>6. coded.finish = (f.finish \/ o.state = "end")
    BY <2>1, <2>2, <2>4
  <2> QED
    BY <1>15, <2>4, <2>5, <2>6
<1>20. CASE /\ o.state # "overflow"
            /\ o.state # "continue" \/ b.finish
            /\ o.pos = f.hi
            /\ Settle(t, "pass", coded, NoCross(r), f.fault)
  <2>1. o.state # "new"
    BY <1>2, <1>7, <1>20
  <2>2. o.state = "continue" => f.hi = Len(stream)
    BY <1>3, <1>15, <1>20
  <2>3. coded.finish
    BY <1>7, <1>15, <1>19, <1>20, <2>1
  <2> HIDE DEF coded
  <2>4. Left(coded)
    BY <1>16, <1>19, <1>20, <2>1, <2>2
  <2>5. PlainTurn("pass", coded, NoCross(r))
    BY <1>12, <1>14, <1>15, <1>19, <2>3, <2>4, SameReadPlain DEF PlainTurn
  <2> QED
    BY <1>20, <2>5 DEF Settle
<1>21. /\ CutAt(coded, o.pos).link = b.link /\ CutAt(coded, o.pos).state = o.state
       /\ CutAt(coded, o.pos).status = o.status /\ CutAt(coded, o.pos).failed = o.failed
       /\ CutAt(coded, o.pos).lo = b.lo /\ CutAt(coded, o.pos).hi = o.pos
       /\ CutAt(coded, o.pos).finish = coded.finish
       /\ o.state # "overflow" => CutAt(coded, o.pos).parsed = o.pos
       /\ o.state \in {"new", "end"} => PlainData(CutAt(coded, o.pos))
       /\ CutAt(coded, o.pos) \in Block
  <2>1. b.link # 1 => b.mid <= o.pos
    BY <1>1, <1>2, <1>6, BlkFields DEF ParsedAs
  <2>2. coded.link = b.link /\ coded.mid = b.mid
    BY <1>15 DEF Block
  <2> DEFINE e == CutAt(coded, o.pos)
  <2> HIDE DEF coded
  <2>3. coded.mid \in Nat /\ (IF coded.link = 1 THEN o.pos ELSE coded.mid) \in Nat
    BY <1>6, <1>19, BlkFields
  <2>4. e = [coded EXCEPT !.hi = o.pos, !.mid = IF coded.link = 1 THEN o.pos ELSE coded.mid]
    BY <1>19 DEF CutAt, Block
  <2>5. /\ e.hi = o.pos /\ e.mid = IF coded.link = 1 THEN o.pos ELSE coded.mid
    BY <1>19, <2>4 DEF Block
  <2>6. /\ e.link = coded.link /\ e.state = coded.state /\ e.status = coded.status
        /\ e.failed = coded.failed /\ e.lo = coded.lo /\ e.finish = coded.finish
        /\ e.parsed = coded.parsed /\ e.allocErr = coded.allocErr
        /\ e.threadErr = coded.threadErr /\ e.stale = coded.stale
        /\ e.codeRes = coded.codeRes /\ e.start = coded.start
    BY <1>19, <2>4 DEF Block
  <2>7. e.mid <= e.hi
    BY <1>6, <2>1, <2>2, <2>5
  <2> DEFINE m == IF coded.link = 1 THEN o.pos ELSE coded.mid
  <2>8. e = [coded EXCEPT !.hi = o.pos, !.mid = m] /\ m \in Nat /\ o.pos \in Nat
    BY <1>6, <2>3, <2>4
  <2> HIDE DEF e, m
  <2>9. e \in Block
    BY <1>19, <2>8 DEF Block
  <2>10. o.state \in {"new", "end"} => PlainData(e)
    BY <1>19, <2>6, <2>7 DEF PlainData
  <2> QED
    BY <1>19, <2>5, <2>6, <2>9, <2>10 DEF e
<1>22. CASE /\ o.state = "end" /\ o.pos < f.hi
            /\ Settle(t, "pass", CutAt(coded, o.pos), left, f.fault)
  <2> DEFINE c == CutAt(coded, o.pos)
  <2>1. c.finish
    BY <1>19, <1>21, <1>22
  <2> HIDE DEF coded, c
  <2>2. Left(c)
    BY <1>16, <1>21, <1>22 DEF c
  <2>3. PlainTurn("pass", c, left)
    BY <1>12, <1>14, <1>15, <1>21, <1>22, <2>1, <2>2, SameReadPlain DEF PlainTurn, c
  <2> QED
    BY <1>22, <2>3 DEF Settle, c
<1>23. ASSUME NEW q, o.state = "new", SameRead(q, r), FrontierOf(q) = o.pos,
              Settle(t, "pass", [CutAt(coded, o.pos) EXCEPT !.finish = FALSE], q, f.fault)
       PROVE  \E w, c, z : /\ PlainTurn(w, c, z)
                           /\ blk' = [blk EXCEPT ![t] = c] /\ rd' = z
                           /\ pc' = [pc EXCEPT ![t] = w]
  <2> DEFINE e == CutAt(coded, o.pos)
             c == [e EXCEPT !.finish = FALSE]
  <2> HIDE DEF coded
  <2>1. /\ c.link = e.link /\ c.state = e.state /\ c.status = e.status /\ c.failed = e.failed
        /\ c.lo = e.lo /\ c.hi = e.hi /\ c.parsed = e.parsed /\ ~c.finish
    BY <1>21 DEF Block
  <2>2. PlainData(c)
    BY <1>21, <1>23 DEF PlainData, Block
  <2> HIDE DEF e, c
  <2>3. Left(c)
    BY <1>16, <1>21, <1>23, <2>1 DEF e
  <2>4. StartOk(stream, FrontierOf(q), q.outParse)
    BY <1>13, <1>23 DEF SameRead
  <2>5. PlainTurn("pass", c, q)
    BY <1>12, <1>15, <1>21, <1>23, <2>1, <2>2, <2>3, <2>4, SameReadPlain DEF PlainTurn, e
  <2> QED
    BY <1>23, <2>5 DEF Settle, c, e
<1>24. CASE /\ o.state = "new" /\ o.pos < f.hi
            /\ Settle(t, "pass", [CutAt(coded, o.pos) EXCEPT !.finish = FALSE],
                      IF FromCross(t) THEN left
                      ELSE [r EXCEPT !.crossLo = o.pos, !.crossHi = f.hi, !.crossBuf = TRUE],
                      f.fault)
  <2>1. CASE FromCross(t)
    <3>1. rd.crossHi = f.hi
      BY <2>1, CrossFetched DEF FromCross
    <3>2. left.crossLo = o.pos /\ left.crossHi = f.hi
      BY <1>4, <1>11, <2>1, <3>1 DEF ReadState
    <3>3. FrontierOf(left) = o.pos
      BY <1>24, <3>2 DEF FrontierOf
    <3> QED
      BY <1>14, <1>23, <1>24, <2>1, <3>3
  <2>2. CASE ~FromCross(t)
    <3> DEFINE q == [r EXCEPT !.crossLo = o.pos, !.crossHi = f.hi, !.crossBuf = TRUE]
    <3>1. FrontierOf(q) = o.pos
      BY <1>11, <1>24 DEF FrontierOf, ReadState
    <3>2. Settle(t, "pass", [CutAt(coded, o.pos) EXCEPT !.finish = FALSE], q, f.fault)
      BY <1>24, <2>2
    <3>3. SameRead(q, r)
      BY <1>14
    <3> HIDE DEF q
    <3> QED
      BY <1>23, <1>24, <3>1, <3>2, <3>3
  <2> QED
    BY <2>1, <2>2
<1>25. ~(\E c, q : Settle(t, "pass", c, q, f.fault \cup {"cross"}))
  BY DEF Settle
<1> QED
  BY <1>17, <1>18, <1>20, <1>22, <1>24, <1>25 DEF ParseStep, b, a, r, left, coded

-----------------------------------------------------------------------------
\* What holds while the ring runs and nothing was refused.
Smooth == PlainRead(rd) /\ PlainRing

\* The blocks are plain if that of thread t is, of which alone the step changed
\* something that a block being read depends on.
LEMMA OthersPlain ==
    ASSUME UNCHANGED stream, \A u \in Threads : Busy(u) => PlainBlock(u),
           NEW t \in Threads, Busy(t)' => PlainBlock(t)',
           \A u \in Threads : u # t /\ Busy(u)' =>
              /\ blk'[u] = blk[u] /\ pc'[u] = pc[u]
              /\ pc[u] # "read" \/ (rd'.outParse = rd.outParse /\ rd'.finished = rd.finished)
    PROVE  \A u \in Threads : Busy(u)' => PlainBlock(u)'
<1> SUFFICES ASSUME NEW u \in Threads, Busy(u)' PROVE PlainBlock(u)'
  OBVIOUS
<1>1. CASE u = t
  BY <1>1
<1>2. CASE u # t
  <2>1. /\ blk'[u] = blk[u] /\ pc'[u] = pc[u]
        /\ pc[u] # "read" \/ (rd'.outParse = rd.outParse /\ rd'.finished = rd.finished)
    BY <1>2
  <2>2. Busy(u)
    BY <2>1 DEF Busy, Reading, Passed
  <2>3. PlainBlock(u)
    BY <2>2
  <2>4. PlainData(blk[u])' /\ (Left(blk[u]) => Left(blk[u])')
    BY <2>1, <2>3 DEF PlainBlock, PlainData, Left, BlockFinished
  <2>5. pc[u] = "read" => IF blk'[u].link > 0 THEN rd'.outParse = blk'[u].start
                                             ELSE blk'[u].finish => rd'.finished
    BY <2>1, <2>3 DEF PlainBlock
  <2> QED
    BY <2>1, <2>3, <2>4, <2>5 DEF PlainBlock, Passed
<1> QED
  BY <1>1, <1>2

\* What was written stands.
LEMMA WriteStands ==
    ASSUME PlainWrite, UNCHANGED <<stream, wr, out, marked>>
    PROVE  PlainWrite'
  BY DEF PlainWrite, Delivered

\* The read loop meets nothing that the stream is not to blame for.
LEMMA ReadLinkPlain ==
    ASSUME Ind, Holds, Smooth, NEW t \in Threads, ReadLink(t), faulted' = {}
    PROVE  Smooth'
<1>1. /\ pc[t] = "read" /\ UNCHANGED <<stream, canRead, exit, wr, out, marked>>
      /\ DOMAIN pc = Threads /\ DOMAIN blk = Threads /\ RingTypeOK /\ ReadInv
  BY DEF ReadLink, Ind, RingTypeOK, RingInv
<1>2. Busy(t) /\ Reading(t) /\ BlockGood(t) /\ PlainBlock(t) /\ PlainRead(rd)
      /\ (rd.finished \/ WholeBuffers(rd.pos)) /\ MarkerLast(stream)
  BY <1>1 DEF Busy, Reading, Holds, BlocksInv, Smooth, PlainRing
<1>3. blk[t].link = 0 => StartOk(stream, Frontier, rd.outParse)
  BY <1>1 DEF Smooth, PlainRing, Expects
<1>4. PICK f \in Fetched(t) : \E o \in Parse(stream, Grown(blk[t], f).lo, f.lo, f.hi) :
              ParseStep(t, f, o) /\ f.fault = {}
  BY ReadPlain
<1>5. PICK o \in Parse(stream, Grown(blk[t], f).lo, f.lo, f.hi) :
              ParseStep(t, f, o) /\ f.fault = {}
  BY <1>4
<1>6. \E w, c, r : /\ PlainTurn(w, c, r)
                   /\ blk' = [blk EXCEPT ![t] = c] /\ rd' = r
                   /\ pc' = [pc EXCEPT ![t] = w]
  BY <1>1, <1>2, <1>3, <1>5, ParseStepPlain
<1>7. PICK w, c, r : /\ PlainTurn(w, c, r)
                     /\ blk' = [blk EXCEPT ![t] = c] /\ rd' = r
                     /\ pc' = [pc EXCEPT ![t] = w]
  BY <1>6
<1>8. /\ blk'[t] = c /\ pc'[t] = w /\ rd' = r
      /\ \A u \in Threads : u # t => blk'[u] = blk[u] /\ pc'[u] = pc[u]
  BY <1>1, <1>7
<1>9. /\ w \in {"read", "pass"} /\ c.link > 0 /\ PlainData(c)
      /\ w = "read" => r.outParse = c.start
      /\ w = "pass" => Left(c) /\ (~c.finish => StartOk(stream, FrontierOf(r), r.outParse))
      /\ PlainRead(r) /\ (r.finished \/ WholeBuffers(r.pos))
  BY <1>7 DEF PlainTurn
<1>10. \A u \in Threads : u # t => ~Reading(u)
  BY <1>2, LoneReader DEF Busy
<1>11. PlainBlock(t)'
  <2>1. PlainData(blk[t])' /\ (w = "pass" => Left(blk[t])')
    BY <1>1, <1>8, <1>9 DEF PlainData, Left, BlockFinished
  <2> QED
    BY <1>8, <1>9, <2>1 DEF PlainBlock, Passed
<1>12. \A u \in Threads : Busy(u)' => PlainBlock(u)'
  <2>1. \A u \in Threads : u # t /\ Busy(u)' =>
              /\ blk'[u] = blk[u] /\ pc'[u] = pc[u]
              /\ pc[u] # "read" \/ (rd'.outParse = rd.outParse /\ rd'.finished = rd.finished)
    BY <1>8, <1>10 DEF Reading
  <2>2. \A u \in Threads : Busy(u) => PlainBlock(u)
    BY DEF Smooth, PlainRing
  <2> QED
    BY <1>1, <1>11, <2>1, <2>2, OthersPlain
<1>13. ASSUME NEW u \in Threads, Expects(u)' PROVE StartOk(stream, Frontier, rd.outParse)'
  <2>1. ~canRead[u]
    BY <1>2 DEF Ind, RingInv, TokenInv
  <2>2. pc'[u] \in {"read", "pass"}
    BY <1>1, <1>13, <2>1 DEF Expects
  <2>3. u = t
    BY <1>8, <1>10, <2>2 DEF Reading
  <2>4. w = "pass" /\ ~c.finish
    BY <1>1, <1>8, <1>9, <1>13, <2>1, <2>3 DEF Expects
  <2>5. Frontier' = FrontierOf(r)
    BY <1>8 DEF Frontier, FrontierOf
  <2> QED
    BY <1>1, <1>8, <1>9, <2>4, <2>5
<1>14. PlainWrite'
  BY <1>1, WriteStands DEF Smooth, PlainRing
<1>15. PlainRead(rd)' /\ (rd.finished \/ WholeBuffers(rd.pos))'
  BY <1>1, <1>8, <1>9 DEF PlainRead, WholeBuffers
<1> QED
  BY <1>12, <1>13, <1>14, <1>15 DEF Smooth, PlainRing

\* A new iteration starts with nothing.
LEMMA ReadBeginPlain ==
    ASSUME Ind, Smooth, NEW t \in Threads, ReadBegin(t)
    PROVE  Smooth'
<1>1. /\ pc[t] = "wait_read" /\ canRead[t] /\ UNCHANGED <<stream, exit, wr, out, marked>>
      /\ DOMAIN pc = Threads /\ DOMAIN blk = Threads /\ RingTypeOK
      /\ canRead' = [canRead EXCEPT ![t] = FALSE] /\ DOMAIN canRead = Threads
  BY DEF ReadBegin, Ind, RingTypeOK
<1>2. \A u \in Threads : Busy(u) => PlainBlock(u)
  BY DEF Smooth, PlainRing
<1>3. PlainWrite'
  BY <1>1, WriteStands DEF Smooth, PlainRing
<1>4. CASE exit
  <2>1. /\ pc' = [pc EXCEPT ![t] = "done"] /\ UNCHANGED <<rd, blk>>
    BY <1>4 DEF ReadBegin
  <2>2. \A u \in Threads : Busy(u)' => PlainBlock(u)'
    BY <1>1, <1>2, <2>1, OthersPlain DEF Busy, Reading, Passed
  <2>3. \A u \in Threads : Expects(u)' => Expects(u)
    BY <1>1, <1>4, <2>1 DEF Expects, Live
  <2>4. Frontier' = Frontier /\ rd' = rd /\ stream' = stream
    BY <1>1, <2>1 DEF Frontier
  <2> QED
    BY <1>3, <2>2, <2>3, <2>4 DEF Smooth, PlainRing, PlainRead, WholeBuffers
<1>5. CASE ~exit
  <2> DEFINE intr == Interrupted(rd.block)
             c == NewBlock(rd.block, rd.finished, intr)
  <2>1. /\ rd' = [rd EXCEPT !.block = @ + 1] /\ blk' = [blk EXCEPT ![t] = c]
        /\ pc' = [pc EXCEPT ![t] = IF intr THEN "pass" ELSE "read"]
    BY <1>5 DEF ReadBegin
  <2>2. /\ rd'.pos = rd.pos /\ rd'.finished = rd.finished /\ rd'.err = rd.err
        /\ rd'.outParse = rd.outParse /\ Frontier' = Frontier
    BY <1>1, <2>1 DEF RingTypeOK, ReadState, Frontier
  <2>3. /\ c.link = 0 /\ c.codeRes = None /\ c.state = "continue" /\ c.status = "notspec"
        /\ ~c.needWrite /\ ~c.needCode /\ ~c.failed /\ ~c.overflow /\ ~c.allocErr
        /\ ~c.threadErr /\ ~c.stale /\ c.mid = 0 /\ c.hi = 0 /\ c.finish = rd.finished
    BY DEF NewBlock
  <2> HIDE DEF c, intr
  <2>4. /\ blk'[t] = c /\ pc'[t] \in {"pass", "read"}
        /\ \A u \in Threads : u # t => blk'[u] = blk[u] /\ pc'[u] = pc[u]
    BY <1>1, <2>1
  <2>5. PlainBlock(t)'
    <3>1. PlainData(blk[t])'
      BY <2>3, <2>4 DEF PlainData, None
    <3>2. Left(blk[t])'
      BY <2>3, <2>4 DEF Left, BlockFinished
    <3> QED
      BY <2>2, <2>3, <2>4, <3>1, <3>2 DEF PlainBlock, Passed
  <2>6. \A u \in Threads : Busy(u)' => PlainBlock(u)'
    BY <1>1, <1>2, <2>2, <2>4, <2>5, OthersPlain
  <2>7. StartOk(stream, Frontier, rd.outParse)'
    <3>1. Live
      BY <1>1, <1>5 DEF Ind, RingInv, TokenInv
    <3>2. StartOk(stream, Frontier, rd.outParse)
      BY <1>1, <3>1 DEF Smooth, PlainRing, Expects
    <3> QED
      BY <1>1, <2>2, <3>2
  <2>8. PlainRead(rd)' /\ (rd.finished \/ WholeBuffers(rd.pos))'
    BY <1>1, <2>2 DEF Smooth, PlainRing, PlainRead, WholeBuffers
  <2> QED
    BY <1>3, <2>6, <2>7, <2>8 DEF Smooth, PlainRing
<1> QED
  BY <1>4, <1>5

\* The blocks have the same input, and the same was parsed of it.
SameParse(b, c) ==
    /\ b.lo = c.lo /\ b.mid = c.mid /\ b.hi = c.hi /\ b.link = c.link
    /\ b.parsed = c.parsed /\ b.start = c.start /\ b.state = c.state
    /\ b.status = c.status /\ b.failed = c.failed /\ b.needWrite = c.needWrite
    /\ b.allocErr = c.allocErr /\ b.overflow = c.overflow
    /\ b.threadErr = c.threadErr /\ b.stale = c.stale

\* What becomes of the block c when it is refused for want of input, or not.
LeftPlain(b, c) ==
    /\ b \in Block /\ SameParse(b, c)
    /\ \/ /\ b.needCode = c.needCode /\ b.codeRes = c.codeRes
          /\ c.intr => b.intr
          /\ ~b.intr => b.finish = c.finish
          /\ b.needCode /\ ~b.intr => b.parsed # b.lo
       \/ /\ ~b.needCode /\ b.codeRes = "truncated"
          /\ c.needCode /\ c.parsed = c.lo

\* Without a refusal, the end of the read section refuses a block without
\* input, and no other.
LEMMA PassPlain ==
    ASSUME RingTypeOK, NEW t \in Threads, PassRead(t), faulted' = {}
    PROVE  /\ \E b : blk' = [blk EXCEPT ![t] = b] /\ LeftPlain(b, blk[t])
           /\ rd'.pos = rd.pos /\ rd'.finished = rd.finished /\ rd'.err = rd.err
           /\ rd'.outParse = rd.outParse
<1> DEFINE c == blk[t]
           i == c.intr \/ Interrupted(c.num)
           a == [c EXCEPT !.intr = i]
<1>1. /\ c \in Block /\ rd \in ReadState /\ c.num \in Nat /\ c.lo \in Nat /\ DOMAIN blk = Threads
  BY Types, BlkFields DEF RingTypeOK
<1>2. i \in BOOLEAN
  BY <1>1, InterruptedType, BlkFields
<1>3. PICK p \in PreCode(t, a) :
         LET b == [p.b EXCEPT !.finish = @ \/ p.b.intr, !.coded = p.b.lo]
         IN  \/ /\ blk' = [blk EXCEPT ![t] = b] /\ UNCHANGED rd
                /\ faulted' = faulted \cup p.fault
             \/ /\ \E n \in Threads : blk' = [blk EXCEPT ![t] = [b EXCEPT !.next = n]]
                /\ UNCHANGED rd \/ rd' = [rd EXCEPT !.started = @ + 1]
                /\ faulted' = faulted \cup p.fault
             \/ "spawn" \in faulted'
  <2>1. \A n \in 1 .. NumThreads : NextThread(t, n) \in Threads
    BY NumThreadsAssumption DEF NextThread, Threads
  <2>2. /\ rd.started \in 1 .. NumThreads
        /\ rd.started < rd.limit => rd.started + 1 \in 1 .. NumThreads
    BY <1>1, RdFields, NumThreadsAssumption
  <2>3. /\ NextThread(t, rd.started) \in Threads
        /\ rd.started < rd.limit => NextThread(t, rd.started + 1) \in Threads
    BY <2>1, <2>2
  <2>4. PICK p \in PreCode(t, a) :
         LET b == [p.b EXCEPT !.finish = @ \/ p.b.intr, !.coded = p.b.lo]
             maySpawn == ~b.finish /\ rd.started < rd.limit
         IN  \/ KeepToken(t, b) /\ faulted' = faulted \cup p.fault
             \/ PassToken(t, b, rd.started) /\ UNCHANGED rd /\ faulted' = faulted \cup p.fault
             \/ /\ rd.started < rd.limit /\ PassToken(t, b, rd.started + 1)
                /\ rd' = [rd EXCEPT !.started = @ + 1] /\ faulted' = faulted \cup p.fault
             \/ faulted' = faulted \cup p.fault \cup {"spawn"}
    BY Zenon DEF PassRead
  <2> DEFINE b == [p.b EXCEPT !.finish = @ \/ p.b.intr, !.coded = p.b.lo]
  <2> HIDE DEF b
  <2>5. \/ KeepToken(t, b) /\ faulted' = faulted \cup p.fault
        \/ PassToken(t, b, rd.started) /\ UNCHANGED rd /\ faulted' = faulted \cup p.fault
        \/ /\ rd.started < rd.limit /\ PassToken(t, b, rd.started + 1)
           /\ rd' = [rd EXCEPT !.started = @ + 1] /\ faulted' = faulted \cup p.fault
        \/ "spawn" \in faulted'
    BY <2>4 DEF b
  <2>6. \/ /\ blk' = [blk EXCEPT ![t] = b] /\ UNCHANGED rd
           /\ faulted' = faulted \cup p.fault
        \/ /\ \E n \in Threads : blk' = [blk EXCEPT ![t] = [b EXCEPT !.next = n]]
           /\ UNCHANGED rd \/ rd' = [rd EXCEPT !.started = @ + 1]
           /\ faulted' = faulted \cup p.fault
        \/ "spawn" \in faulted'
    BY <2>3, <2>5 DEF KeepToken, PassToken
  <2> QED
    BY <2>6 DEF b
<1>4. /\ a \in Block /\ a.intr = i /\ SameParse(a, c) /\ a.finish = c.finish
      /\ a.needCode = c.needCode /\ a.codeRes = c.codeRes
  <2>1. /\ a.intr = i /\ SameParse(a, c) /\ a.finish = c.finish
        /\ a.needCode = c.needCode /\ a.codeRes = c.codeRes
    BY <1>1 DEF Block, SameParse
  <2> HIDE DEF i
  <2>2. a \in Block
    BY <1>1, <1>2 DEF Block
  <2> QED
    BY <2>1, <2>2
<1> HIDE DEF a, i
<1>5. p.fault = {}
  BY <1>3
<1>6. \/ p.b = a /\ (a.needCode /\ ~a.intr => a.parsed # a.lo)
      \/ /\ a.needCode /\ a.parsed = a.lo
         /\ p.b = [a EXCEPT !.codeRes = "truncated", !.needCode = FALSE,
                            !.finish = TRUE, !.allocErr = @ \/ "truncated" = "alloc"]
  BY <1>5 DEF PreCode
<1>7. /\ p.b \in Block /\ SameParse(p.b, a) /\ p.b.intr = a.intr
      /\ \/ /\ p.b.needCode = a.needCode /\ p.b.codeRes = a.codeRes /\ p.b.finish = a.finish
            /\ a.needCode /\ ~a.intr => a.parsed # a.lo
         \/ /\ ~p.b.needCode /\ p.b.codeRes = "truncated"
            /\ a.needCode /\ a.parsed = a.lo
  <2>1. CASE p.b = a /\ (a.needCode /\ ~a.intr => a.parsed # a.lo)
    BY <1>4, <2>1 DEF SameParse
  <2>2. CASE /\ a.needCode /\ a.parsed = a.lo
             /\ p.b = [a EXCEPT !.codeRes = "truncated", !.needCode = FALSE,
                                !.finish = TRUE, !.allocErr = @ \/ "truncated" = "alloc"]
    <3>1. a.allocErr \in BOOLEAN /\ "truncated" # "alloc"
      BY <1>4 DEF Block
    <3>2. p.b = [a EXCEPT !.codeRes = "truncated", !.needCode = FALSE, !.finish = TRUE]
      <4>1. (a.allocErr \/ "truncated" = "alloc") = a.allocErr
        BY <3>1
      <4>2. p.b = [a EXCEPT !.codeRes = "truncated", !.needCode = FALSE,
                            !.finish = TRUE, !.allocErr = a.allocErr]
        BY <1>4, <2>2, <4>1 DEF Block
      <4> QED
        BY <1>4, <4>2 DEF Block
    <3>3. p.b \in Block
      BY <1>4, PreCodeFacts
    <3>4. p.b.codeRes = "truncated" /\ p.b.needCode = FALSE /\ p.b.intr = a.intr
      BY <1>4, <3>2 DEF Block
    <3>5. SameParse(p.b, a)
      BY <1>4, <3>2 DEF SameParse, Block
    <3> QED
      BY <2>2, <3>3, <3>4, <3>5
  <2> QED
    BY <1>6, <2>1, <2>2
<1> DEFINE b == [p.b EXCEPT !.finish = @ \/ p.b.intr, !.coded = p.b.lo]
<1>8. /\ b \in Block /\ SameParse(b, p.b) /\ b.intr = p.b.intr /\ b.needCode = p.b.needCode
      /\ b.codeRes = p.b.codeRes /\ b.finish = (p.b.finish \/ p.b.intr)
  <2>1. p.b.lo \in Nat /\ (p.b.finish \/ p.b.intr) \in BOOLEAN
    BY <1>7, BlkFields
  <2> DEFINE x == p.b
             fin == x.finish \/ x.intr
             lo == x.lo
  <2>2. b = [x EXCEPT !.finish = fin, !.coded = lo] /\ x \in Block
        /\ fin \in BOOLEAN /\ lo \in Nat
    BY <1>7, <2>1 DEF Block
  <2>3. SameParse(b, x) /\ b.intr = x.intr /\ b.needCode = x.needCode
        /\ b.codeRes = x.codeRes /\ b.finish = fin
    BY <2>2 DEF Block, SameParse
  <2> HIDE DEF b, x, fin, lo
  <2>4. b \in Block
    BY <2>2 DEF Block
  <2> QED
    BY <2>3, <2>4 DEF x, fin
<1> HIDE DEF b
<1>9. ASSUME NEW d \in Block, SameParse(d, b), d.intr = b.intr, d.needCode = b.needCode,
             d.codeRes = b.codeRes, d.finish = b.finish
      PROVE  LeftPlain(d, c)
  <2>1. SameParse(d, c)
    BY <1>4, <1>7, <1>8, <1>9 DEF SameParse
  <2>2. d.intr = i /\ d.needCode = p.b.needCode /\ d.codeRes = p.b.codeRes
        /\ d.finish = (p.b.finish \/ i) /\ d.parsed = a.parsed /\ d.lo = a.lo
        /\ c.parsed = a.parsed /\ c.lo = a.lo
    BY <1>4, <1>7, <1>8, <1>9 DEF SameParse
  <2>3. c.intr => i
    BY DEF i
  <2>4. c.finish \in BOOLEAN /\ i \in BOOLEAN
    BY <1>1, <1>2, BlkFields
  <2> HIDE DEF c
  <2> QED
    BY <1>4, <1>7, <1>9, <2>1, <2>2, <2>3, <2>4 DEF LeftPlain
<1>10. SameParse(b, b)
  BY DEF SameParse
<1>11. ASSUME NEW n \in Threads
       PROVE  /\ [b EXCEPT !.next = n] \in Block /\ SameParse([b EXCEPT !.next = n], b)
              /\ LeftPlain([b EXCEPT !.next = n], c)
  <2> DEFINE d == [b EXCEPT !.next = n]
  <2>1. /\ d \in Block /\ SameParse(d, b) /\ d.intr = b.intr /\ d.needCode = b.needCode
        /\ d.codeRes = b.codeRes /\ d.finish = b.finish
    BY <1>8 DEF Block, SameParse
  <2> HIDE DEF d
  <2>2. LeftPlain(d, c)
    BY <1>9, <2>1
  <2> QED
    BY <2>1, <2>2 DEF d
<1>12. LeftPlain(b, c)
  BY <1>8, <1>9, <1>10
<1>13. \/ blk' = [blk EXCEPT ![t] = b] /\ UNCHANGED rd
       \/ /\ \E n \in Threads : blk' = [blk EXCEPT ![t] = [b EXCEPT !.next = n]]
          /\ UNCHANGED rd \/ rd' = [rd EXCEPT !.started = @ + 1]
  BY <1>3 DEF b
<1>14. \E d : blk' = [blk EXCEPT ![t] = d] /\ LeftPlain(d, c)
  BY <1>11, <1>12, <1>13
<1>15. /\ rd'.pos = rd.pos /\ rd'.finished = rd.finished /\ rd'.err = rd.err
       /\ rd'.outParse = rd.outParse
  BY <1>1, <1>13 DEF ReadState
<1> QED
  BY <1>14, <1>15

\* Leaving the read section leaves a plain block plain.
LEMMA LeftStays ==
    ASSUME NEW b, NEW c, LeftPlain(b, c), PlainData(c), Left(c), c.needCode => c.link > 0
    PROVE  /\ PlainData(b) /\ Left(b) /\ (b.needCode => b.link > 0)
           /\ b.needCode /\ ~b.intr /\ b.codeRes = None => b.parsed # b.lo
<1>1. SameParse(b, c)
  BY DEF LeftPlain
<1>2. CASE /\ b.needCode = c.needCode /\ b.codeRes = c.codeRes
           /\ c.intr => b.intr
           /\ ~b.intr => b.finish = c.finish
           /\ b.needCode /\ ~b.intr => b.parsed # b.lo
  <2>1. PlainData(b)
    BY <1>1, <1>2 DEF PlainData, SameParse
  <2>2. Left(b)
    BY <1>1, <1>2 DEF Left, SameParse, BlockFinished
  <2> QED
    BY <1>1, <1>2, <2>1, <2>2 DEF SameParse
<1>3. CASE /\ ~b.needCode /\ b.codeRes = "truncated"
           /\ c.needCode /\ c.parsed = c.lo
  <2>1. c.link > 0 /\ c.lo = Len(stream)
    BY <1>3 DEF Left
  <2>2. PlainData(b)
    BY <1>1, <1>3, <2>1 DEF PlainData, SameParse, None
  <2>3. Left(b)
    BY <1>1, <1>3 DEF Left, SameParse, BlockFinished, None
  <2> QED
    BY <1>3, <2>2, <2>3
<1> QED
  BY <1>2, <1>3 DEF LeftPlain

\* pre_code, and handing the read token on, blame only the stream.
LEMMA PassReadPlain ==
    ASSUME Ind, Smooth, NEW t \in Threads, PassRead(t), faulted' = {}
    PROVE  Smooth'
<1>1. /\ pc[t] = "pass" /\ UNCHANGED <<stream, exit, wr, out, marked>>
      /\ DOMAIN pc = Threads /\ DOMAIN blk = Threads /\ RingTypeOK
      /\ rd.started <= rd.limit
  BY DEF PassRead, Ind, RingTypeOK, RingInv, TokenInv
<1>2. Busy(t) /\ Live /\ PlainBlock(t)
  BY <1>1 DEF Busy, Reading, Smooth, PlainRing, Ind, RingInv, TokenInv
<1>3. /\ \E b : blk' = [blk EXCEPT ![t] = b] /\ LeftPlain(b, blk[t])
      /\ rd'.pos = rd.pos /\ rd'.finished = rd.finished /\ rd'.err = rd.err
      /\ rd'.outParse = rd.outParse
  BY <1>1, PassPlain
<1>4. PICK b : blk' = [blk EXCEPT ![t] = b] /\ LeftPlain(b, blk[t])
  BY <1>3
<1>5. Kept(t, b) \/ Handed(t, b)
  <2>1. PICK d \in Block : /\ blk' = [blk EXCEPT ![t] = d]
                           /\ Kept(t, d) \/ Handed(t, d)
    BY <1>1, PassTurn
  <2>2. d = b
    BY <1>1, <1>4, <2>1
  <2> QED
    BY <2>1, <2>2
<1>6. blk'[t] = b /\ \A u \in Threads : u # t => blk'[u] = blk[u]
  BY <1>1, <1>4
<1>7. /\ pc'[t] = "code"
      /\ \A u \in Threads : u # t => pc'[u] = pc[u] \/ (pc'[u] = "wait_read" /\ pc[u] = "off")
  <2>1. CASE pc' = [pc EXCEPT ![t] = "code"]
    BY <1>1, <2>1
  <2>2. CASE /\ rd.started \in Threads
             /\ pc' = [[pc EXCEPT ![t] = "code"] EXCEPT ![rd.started] = "wait_read"]
    <3>1. pc[rd.started] = "off"
      <4>1. rd.started >= rd.started
        BY <1>1, Types, RdFields
      <4> QED
        BY <2>2, <4>1 DEF Ind, RingInv, TokenInv
    <3>2. rd.started # t
      BY <1>1, <3>1
    <3> QED
      BY <1>1, <2>2, <3>1, <3>2
  <2> QED
    BY <1>5, <2>1, <2>2 DEF Kept, Handed
<1>8. /\ PlainData(b) /\ Left(b) /\ (b.needCode => b.link > 0)
      /\ b.needCode /\ ~b.intr /\ b.codeRes = None => b.parsed # b.lo
  BY <1>1, <1>2, <1>4, LeftStays DEF PlainBlock
<1>9. PlainBlock(t)'
  <2>1. PlainData(blk[t])' /\ Left(blk[t])'
    BY <1>1, <1>6, <1>8 DEF PlainData, Left, BlockFinished
  <2> QED
    BY <1>6, <1>7, <1>8, <2>1 DEF PlainBlock, Passed
<1>10. \A u \in Threads : Busy(u)' => PlainBlock(u)'
  <2>1. \A u \in Threads : u # t /\ Busy(u)' => blk'[u] = blk[u] /\ pc'[u] = pc[u]
    BY <1>6, <1>7 DEF Busy, Reading, Passed
  <2>2. \A u \in Threads : Busy(u) => PlainBlock(u)
    BY DEF Smooth, PlainRing
  <2> QED
    BY <1>1, <1>3, <1>9, <2>1, <2>2, OthersPlain
<1>11. Frontier' = Frontier
  BY <1>5 DEF Kept, Handed, Frontier
<1>12. ASSUME NEW u \in Threads, Expects(u)' PROVE StartOk(stream, Frontier, rd.outParse)'
  <2>1. CASE Handed(t, b)
    <3>1. Expects(t)
      BY <1>1, <2>1 DEF Handed, Expects
    <3>2. StartOk(stream, Frontier, rd.outParse)
      BY <3>1 DEF Smooth, PlainRing
    <3> QED
      BY <1>1, <1>3, <1>11, <3>2
  <2>2. CASE Kept(t, b)
    <3>1. canRead' = canRead
      BY <2>2 DEF Kept
    <3>2. Expects(u)
      <4>1. CASE u = t
        BY <1>2, <1>7, <1>12, <3>1, <4>1 DEF Expects
      <4>2. CASE u # t
        BY <1>2, <1>6, <1>7, <1>12, <3>1, <4>2 DEF Expects
      <4> QED
        BY <4>1, <4>2
    <3>3. StartOk(stream, Frontier, rd.outParse)
      BY <3>2 DEF Smooth, PlainRing
    <3> QED
      BY <1>1, <1>3, <1>11, <3>3
  <2> QED
    BY <1>5, <2>1, <2>2
<1>13. PlainWrite'
  BY <1>1, WriteStands DEF Smooth, PlainRing
<1>14. PlainRead(rd)' /\ (rd.finished \/ WholeBuffers(rd.pos))'
  BY <1>1, <1>3 DEF Smooth, PlainRing, PlainRead, WholeBuffers
<1> QED
  BY <1>10, <1>12, <1>13, <1>14 DEF Smooth, PlainRing

\* Decoding reports what does not decode, and an interruption: the buffers of
\* a block never reach past its end.
LEMMA CodeLinkPlain ==
    ASSUME Ind, Holds, Smooth, NEW t \in Threads, CodeLink(t)
    PROVE  Smooth'
<1> DEFINE b == blk[t]
           n == LinkEnd(b)
           e == CodeRes(b, n)
<1>1. /\ pc[t] = "code" /\ UNCHANGED <<stream, canRead, exit, rd, wr, out, marked>>
      /\ DOMAIN pc = Threads /\ DOMAIN blk = Threads /\ RingTypeOK /\ b \in Block
  BY DEF CodeLink, Ind, RingTypeOK
<1>2. /\ Passed(t) /\ Busy(t) /\ Live /\ PlainBlock(t) /\ BlockGood(t)
  BY <1>1 DEF Passed, Busy, Smooth, PlainRing, Ind, RingInv, TokenInv, Holds, BlocksInv
<1>3. PlainData(b) /\ Left(b) /\ (b.needCode => b.link > 0) /\ b.hi <= Len(stream)
  BY <1>1, <1>2 DEF PlainBlock, BlockGood, Sound
<1>4. /\ b.lo \in Nat /\ b.hi \in Nat /\ b.mid \in Nat /\ b.coded \in Nat /\ b.parsed \in Nat
      /\ Len(stream) \in Nat /\ InBufSize \in Nat
  BY <1>1, BlkFields, Types, InBufSizeAssumption
<1>5. n <= b.hi /\ n \in Nat
  BY <1>3, <1>4 DEF LinkEnd, Min2, PlainData
<1>6. ASSUME NEW c, blk' = [blk EXCEPT ![t] = c], SameParse(c, b), c.needCode = b.needCode,
             b.intr => c.intr, b.codeRes # None => c.codeRes = b.codeRes, c.finish = b.finish,
             c.codeRes \in {b.codeRes, None} \/ (c.codeRes = "corrupt" /\ Broken(stream)),
             pc'[t] \in {"code", "wait_write"},
             \A u \in Threads : u # t => pc'[u] = pc[u]
      PROVE  Smooth'
  <2>1. blk'[t] = c /\ \A u \in Threads : u # t => blk'[u] = blk[u]
    BY <1>1, <1>6
  <2>2. PlainData(c)
    BY <1>3, <1>6 DEF PlainData, SameParse
  <2>3. Left(c)
    BY <1>3, <1>6 DEF Left, SameParse, BlockFinished
  <2>4. /\ c.needCode => c.link > 0
        /\ c.needCode /\ ~c.intr /\ c.codeRes = None => c.parsed # c.lo
    BY <1>2, <1>3, <1>6 DEF PlainBlock, SameParse
  <2>5. PlainBlock(t)'
    <3>1. PlainData(blk[t])' /\ Left(blk[t])'
      BY <1>1, <2>1, <2>2, <2>3 DEF PlainData, Left, BlockFinished
    <3> QED
      BY <1>6, <2>1, <2>4, <3>1 DEF PlainBlock
  <2>6. \A u \in Threads : Busy(u)' => PlainBlock(u)'
    BY <1>1, <1>6, <2>1, <2>5, OthersPlain DEF Smooth, PlainRing
  <2>7. \A u \in Threads : Expects(u)' => Expects(u)
    <3> SUFFICES ASSUME NEW u \in Threads, Expects(u)' PROVE Expects(u)
      OBVIOUS
    <3>1. CASE u = t
      BY <1>1, <1>2, <1>6, <3>1 DEF Expects
    <3>2. CASE u # t
      BY <1>1, <1>2, <1>6, <2>1, <3>2 DEF Expects
    <3> QED
      BY <3>1, <3>2
  <2>8. (Frontier' = Frontier) /\ PlainWrite'
    BY <1>1, WriteStands DEF Smooth, PlainRing, Frontier
  <2> QED
    BY <1>1, <2>6, <2>7, <2>8 DEF Smooth, PlainRing, PlainRead, WholeBuffers
<1>7. CASE /\ ~b.needCode \/ b.intr \/ b.codeRes # None
           /\ pc' = [pc EXCEPT ![t] = "wait_write"] /\ UNCHANGED <<blk, prog>>
  <2>1. blk' = [blk EXCEPT ![t] = b]
    <3>1. blk \in [Threads -> Block] /\ blk' = blk
      BY <1>1, <1>7 DEF RingTypeOK
    <3> QED
      BY <3>1
  <2>2. SameParse(b, b)
    BY DEF SameParse
  <2> QED
    BY <1>1, <1>6, <1>7, <2>1, <2>2
<1>8. CASE /\ b.needCode /\ ~b.intr /\ b.codeRes = None /\ e # None
           /\ blk' = [blk EXCEPT ![t].codeRes = e]
           /\ pc' = [pc EXCEPT ![t] = "wait_write"]
  <2> DEFINE c == [b EXCEPT !.codeRes = e]
  <2>1. /\ blk' = [blk EXCEPT ![t] = c] /\ SameParse(c, b) /\ c.needCode = b.needCode
        /\ c.intr = b.intr /\ c.codeRes = e /\ c.finish = b.finish
    BY <1>1, <1>8 DEF SameParse, Block
  <2>2. e = "corrupt" /\ Broken(stream)
    <3>1. ~(BlockFinished(b) /\ n > b.parsed)
      BY <1>3, <1>4, <1>5 DEF Left
    <3>2. e = "corrupt" /\ \E i \in b.coded+1 .. Min2(n, b.parsed) : stream[i] = "bad"
      BY <1>8, <3>1 DEF CodeRes
    <3>3. PICK i \in b.coded+1 .. Min2(n, b.parsed) : stream[i] = "bad"
      BY <3>2
    <3>4. i \in 1 .. Len(stream)
      BY <1>3, <1>4, <1>5 DEF Min2
    <3> QED
      BY <3>2, <3>3, <3>4 DEF Broken
  <2> HIDE DEF c, e, b
  <2> QED
    BY <1>1, <1>6, <1>8, <2>1, <2>2
<1>9. CASE /\ b.needCode /\ ~b.intr /\ b.codeRes = None /\ e = None
           /\ blk' = [blk EXCEPT ![t].coded = n,
                        ![t].intr = n # b.hi /\ Interrupted(b.num)]
           /\ pc' = IF n = b.hi \/ Interrupted(b.num)
                    THEN [pc EXCEPT ![t] = "wait_write"] ELSE pc
  <2> DEFINE i1 == n # b.hi /\ Interrupted(b.num)
             c == [b EXCEPT !.coded = n, !.intr = i1]
  <2>1. /\ blk' = [blk EXCEPT ![t] = c] /\ pc'[t] \in {"code", "wait_write"}
        /\ \A u \in Threads : u # t => pc'[u] = pc[u]
    BY <1>1, <1>9
  <2>2. /\ SameParse(c, b) /\ c.needCode = b.needCode
        /\ c.codeRes = b.codeRes /\ c.finish = b.finish
    BY <1>1 DEF SameParse, Block
  <2> HIDE DEF c, e, b
  <2> QED
    BY <1>6, <1>9, <2>1, <2>2
<1> QED
  BY <1>7, <1>8, <1>9 DEF CodeLink

-----------------------------------------------------------------------------
\* What Lzma2Coder::write reports, case by case.
LEMMA WriteKinds ==
    ASSUME NEW b \in Block, NEW ts \in BOOLEAN, ts => b.needWrite, NEW w \in WriteResults(b, ts)
    PROVE  /\ w.err = None /\ ts => /\ w.hi = b.coded /\ ~b.failed
                                    /\ w.nc = (b.state \notin {"overflow", "end"})
           /\ w.err = None /\ ~ts => w.hi = b.lo
           /\ ~(w.err = None /\ ts) => (b.finish => ~w.nc)
           /\ w.err # None =>
                \/ w.err = "corrupt" /\ b.failed /\ b.needWrite /\ w.hi = b.lo
                \/ /\ w.err = "internal" /\ ts /\ ~b.failed /\ w.hi = b.lo
                   /\ (BlockFinished(b) /\ b.parsed # b.coded) \/ b.start # wr.outDone
                \/ w.err = "write" /\ ts /\ ~b.failed /\ "write" \in w.fault
           /\ w.fault = IF w.err = "write" THEN {"write"} ELSE {}
           /\ w.err = "write" => MayFault("write")
<1> DEFINE Res(nc, recode, err, hi) ==
            [nc |-> nc, recode |-> recode, err |-> err, hi |-> hi,
             fault |-> IF err = "write" THEN {"write"} ELSE {}]
           more == b.state \notin {"overflow", "end"}
<1>1. None # "corrupt" /\ None # "internal" /\ None # "write"
  BY DEF None
<1>2. CASE ~b.needWrite
  <2>1. w = Res(~b.finish, TRUE, None, b.lo)
    BY <1>2 DEF WriteResults
  <2>2. w.nc = ~b.finish /\ w.err = None /\ w.hi = b.lo /\ w.fault = {}
    BY <1>1, <2>1
  <2> QED
    BY <1>1, <1>2, <2>2
<1>3. CASE b.needWrite /\ b.failed
  <2>1. w = Res(~b.finish, TRUE, "corrupt", b.lo)
    BY <1>3 DEF WriteResults
  <2>2. w.nc = ~b.finish /\ w.err = "corrupt" /\ w.hi = b.lo /\ w.fault = {}
    BY <2>1
  <2> QED
    BY <1>1, <1>3, <2>2
<1>4. CASE b.needWrite /\ ~b.failed /\ ~ts
  <2>1. w = Res(FALSE, TRUE, None, b.lo)
    BY <1>4 DEF WriteResults
  <2>2. w.nc = FALSE /\ w.err = None /\ w.hi = b.lo /\ w.fault = {}
    BY <1>1, <2>1
  <2> QED
    BY <1>1, <1>4, <2>2
<1>5. CASE b.needWrite /\ ~b.failed /\ ts
  <2>1. CASE BlockFinished(b) /\ b.parsed # b.coded
    <3>1. w = Res(FALSE, TRUE, "internal", b.lo)
      BY <1>5, <2>1 DEF WriteResults
    <3>2. w.nc = FALSE /\ w.err = "internal" /\ w.hi = b.lo /\ w.fault = {}
      BY <3>1
    <3> QED
      BY <1>1, <1>5, <2>1, <3>2
  <2>2. CASE ~(BlockFinished(b) /\ b.parsed # b.coded) /\ b.start # wr.outDone
    <3>1. w = Res(FALSE, FALSE, "internal", b.lo)
      BY <1>5, <2>2 DEF WriteResults
    <3>2. w.nc = FALSE /\ w.err = "internal" /\ w.hi = b.lo /\ w.fault = {}
      BY <3>1
    <3> QED
      BY <1>1, <1>5, <2>2, <3>2
  <2>3. CASE ~(BlockFinished(b) /\ b.parsed # b.coded) /\ ~(b.start # wr.outDone)
    <3>1. \/ w = Res(more, FALSE, None, b.coded)
          \/ MayFault("write") /\ \E h \in b.lo .. b.coded : w = Res(FALSE, FALSE, "write", h)
      BY <1>5, <2>3 DEF WriteResults
    <3>2. \/ w.nc = more /\ w.err = None /\ w.hi = b.coded /\ w.fault = {}
          \/ MayFault("write") /\ w.nc = FALSE /\ w.err = "write" /\ w.fault = {"write"}
      BY <1>1, <3>1
    <3> QED
      BY <1>1, <1>5, <2>3, <3>2
  <2> QED
    BY <2>1, <2>2, <2>3
<1> QED
  BY <1>2, <1>3, <1>4, <1>5

(***************************************************************************)
(* What the write section leaves of the block of thread t: it was written  *)
(* to its end (whole), or an error e is reported, or it is only disposed   *)
(* of.                                                                     *)
(***************************************************************************)
Leaves(t, whole, e, nc) ==
    LET b == blk[t]
    IN  /\ whole => e = None /\ ToStream(t) /\ ~b.failed
        /\ ~whole => (b.finish => ~nc)
        /\ whole => nc = (b.state \notin {"overflow", "end"})
        /\ e # None =>
             \/ e = "corrupt" /\ b.failed
             \/ /\ e = "internal" /\ ToStream(t) /\ ~b.failed
                /\ (BlockFinished(b) /\ b.parsed # b.coded) \/ b.start # wr.outDone
             \/ e = "write" /\ MayFault("write") /\ "write" \in faulted'
        /\ e = None \/ ~whole
        /\ ~whole => e # None \/ ~ToStream(t)
        /\ faulted' = faulted \cup (IF e = "write" THEN {"write"} ELSE {})
        /\ wr'.intr <=> wr.intr \/ b.codeRes # None \/ Unusable(b) \/ e # None
        /\ wr'.codeRes = IF wr.codeRes # None THEN wr.codeRes
                         ELSE IF ~wr.intr /\ b.codeRes # None THEN b.codeRes
                         ELSE IF e \in CodeError THEN e ELSE None
        /\ wr'.err = (wr.err \/ e = "write")
        /\ wr'.outDone = IF whole THEN wr.outDone + Produced(stream, b.lo, b.coded)
                                  ELSE wr.outDone
        /\ whole => out' = Append(out, [lo |-> b.lo, hi |-> b.coded])
        /\ ~whole /\ e # "write" => UNCHANGED out
        /\ marked' = (marked \/ (whole /\ b.status = "mark"))
        /\ canRead' = [canRead EXCEPT ![0] = @ \/ (b.finish /\ (nc \/ t # 0))]
        /\ exit' = (exit \/ (b.finish /\ ~nc /\ t # 0))
        /\ pc' = [pc EXCEPT ![t] = IF b.finish /\ ~nc /\ t = 0 THEN "done" ELSE "wait_read"]

\* What Write leaves in the write state, the output and the tokens, in every
\* case of its error handling.
LEMMA WriteLeaves ==
    ASSUME RingTypeOK, NEW t \in Threads, Write(t), ~exit
    PROVE  \E whole \in BOOLEAN, e \in CodeError \cup {None, "write"}, nc \in BOOLEAN :
              Leaves(t, whole, e, nc)
<1> DEFINE b == blk[t]
           intr == b.intr \/ wr.intr
           stop == b.codeRes # None \/ Unusable(b)
           toStream == b.needWrite /\ ~intr /\ ~stop
<1> DEFINE intr2(w) == wr.intr \/ stop \/ w.err # None
           keep(w) == /\ w.recode
                      /\ ~b.needCode \/ intr \/ intr2(w) \/ wr.filled # 0
                      /\ b.hi > b.lo \/ ~b.finish
           done(w) == w.hi > b.lo \/ (toStream /\ w.err = None)
           ended(w) == b.finish /\ ~w.nc
<1>0. PICK w \in WriteResults(b, toStream) :
        /\ wr' = [intr |-> intr2(w),
                  codeRes |->
                    IF wr.codeRes # None THEN wr.codeRes
                    ELSE IF ~wr.intr /\ b.codeRes # None THEN b.codeRes
                    ELSE IF w.err \in CodeError THEN w.err
                    ELSE None,
                  err |-> wr.err \/ w.err = "write",
                  replay |-> IF keep(w) /\ b.hi > b.lo
                             THEN Append(wr.replay,
                                    [lo |-> b.lo, hi |-> b.hi, stale |-> b.stale])
                             ELSE wr.replay,
                  filled |-> IF keep(w) THEN wr.filled + 1 ELSE wr.filled,
                  outDone |-> IF toStream /\ w.err = None
                              THEN wr.outDone + Produced(stream, b.lo, b.coded)
                              ELSE wr.outDone]
        /\ out' = IF done(w) THEN Append(out, [lo |-> b.lo, hi |-> w.hi]) ELSE out
        /\ marked' = (marked \/ (toStream /\ w.err = None /\ b.status = "mark"))
        /\ faulted' = faulted \cup w.fault
        /\ canRead' = [canRead EXCEPT ![0] = @ \/ (b.finish /\ (w.nc \/ t # 0))]
        /\ exit' = (exit \/ (ended(w) /\ t # 0))
        /\ pc' = [pc EXCEPT ![t] = IF ended(w) /\ t = 0 THEN "done" ELSE "wait_read"]
  BY DEF Write
<1>1. /\ wr'.intr = (wr.intr \/ stop \/ w.err # None)
      /\ wr'.codeRes = IF wr.codeRes # None THEN wr.codeRes
                       ELSE IF ~wr.intr /\ b.codeRes # None THEN b.codeRes
                       ELSE IF w.err \in CodeError THEN w.err ELSE None
      /\ wr'.err = (wr.err \/ w.err = "write")
      /\ wr'.outDone = IF toStream /\ w.err = None
                       THEN wr.outDone + Produced(stream, b.lo, b.coded) ELSE wr.outDone
      /\ out' = IF w.hi > b.lo \/ (toStream /\ w.err = None)
                THEN Append(out, [lo |-> b.lo, hi |-> w.hi]) ELSE out
      /\ marked' = (marked \/ (toStream /\ w.err = None /\ b.status = "mark"))
      /\ faulted' = faulted \cup w.fault
      /\ canRead' = [canRead EXCEPT ![0] = @ \/ (b.finish /\ (w.nc \/ t # 0))]
      /\ exit' = (exit \/ (b.finish /\ ~w.nc /\ t # 0))
      /\ pc' = [pc EXCEPT ![t] = IF b.finish /\ ~w.nc /\ t = 0
                                 THEN "done" ELSE "wait_read"]
  BY <1>0
<1>2. /\ b \in Block /\ b.lo \in Nat
      /\ b.needWrite \in BOOLEAN /\ b.intr \in BOOLEAN
  BY Types DEF Block
<1>3. PICK ts \in BOOLEAN : (ts <=> toStream) /\ (ts <=> ToStream(t))
  BY <1>2 DEF ToStream
<1>4. w \in WriteResults(b, ts)
  <2>1. ts = toStream
    BY <1>2, <1>3
  <2> QED
    BY <1>0, <2>1
<1>5. ts => b.needWrite
  BY <1>3
<1>6. w.err \in CodeError \cup {None, "write"} /\ w.nc \in BOOLEAN
  BY <1>2, <1>4, WriteResultFacts DEF WriteResult
<1>7. PICK whole \in BOOLEAN : whole <=> ts /\ w.err = None
  OBVIOUS
<1> HIDE DEF b
<1>8. /\ w.err = None /\ ts => /\ w.hi = b.coded /\ ~b.failed
                               /\ w.nc = (b.state \notin {"overflow", "end"})
      /\ w.err = None /\ ~ts => w.hi = b.lo
      /\ ~(w.err = None /\ ts) => (b.finish => ~w.nc)
      /\ w.err # None =>
           \/ w.err = "corrupt" /\ b.failed /\ b.needWrite /\ w.hi = b.lo
           \/ /\ w.err = "internal" /\ ts /\ ~b.failed /\ w.hi = b.lo
              /\ (BlockFinished(b) /\ b.parsed # b.coded) \/ b.start # wr.outDone
           \/ w.err = "write" /\ ts /\ ~b.failed /\ "write" \in w.fault
      /\ w.fault = IF w.err = "write" THEN {"write"} ELSE {}
      /\ w.err = "write" => MayFault("write")
  BY <1>2, <1>4, <1>5, WriteKinds
<1>9. ~whole /\ w.err # "write" => w.hi = b.lo /\ ~(w.hi > b.lo)
  BY <1>2, <1>7, <1>8
<1>10. wr'.intr <=> wr.intr \/ b.codeRes # None \/ Unusable(b) \/ w.err # None
  BY <1>1
<1>11. /\ wr'.codeRes = IF wr.codeRes # None THEN wr.codeRes
                         ELSE IF ~wr.intr /\ b.codeRes # None THEN b.codeRes
                         ELSE IF w.err \in CodeError THEN w.err ELSE None
       /\ wr'.err = (wr.err \/ w.err = "write")
       /\ wr'.outDone = IF whole THEN wr.outDone + Produced(stream, b.lo, b.coded)
                                 ELSE wr.outDone
       /\ marked' = (marked \/ (whole /\ b.status = "mark"))
       /\ whole => out' = Append(out, [lo |-> b.lo, hi |-> b.coded])
       /\ ~whole /\ w.err # "write" => UNCHANGED out
  <2> HIDE DEF toStream
  <2> QED
    BY <1>1, <1>3, <1>7, <1>8, <1>9
<1>12. /\ whole => w.err = None /\ ToStream(t) /\ ~b.failed
       /\ ~whole => (b.finish => ~w.nc)
       /\ whole => w.nc = (b.state \notin {"overflow", "end"})
       /\ w.err = None \/ ~whole
       /\ ~whole => w.err # None \/ ~ToStream(t)
  <2> HIDE DEF toStream
  <2> QED
    BY <1>3, <1>7, <1>8
<1>13. /\ faulted' = faulted \cup (IF w.err = "write" THEN {"write"} ELSE {})
       /\ canRead' = [canRead EXCEPT ![0] = @ \/ (b.finish /\ (w.nc \/ t # 0))]
       /\ exit' = (exit \/ (b.finish /\ ~w.nc /\ t # 0))
       /\ pc' = [pc EXCEPT ![t] = IF b.finish /\ ~w.nc /\ t = 0 THEN "done" ELSE "wait_read"]
  BY <1>1, <1>8
<1>14. w.err # None =>
             \/ w.err = "corrupt" /\ b.failed
             \/ /\ w.err = "internal" /\ ToStream(t) /\ ~b.failed
                /\ (BlockFinished(b) /\ b.parsed # b.coded) \/ b.start # wr.outDone
             \/ w.err = "write" /\ MayFault("write") /\ "write" \in faulted'
  BY <1>3, <1>8, <1>13
<1>15. Leaves(t, whole, w.err, w.nc)
  BY <1>10, <1>11, <1>12, <1>13, <1>14 DEF Leaves, b
<1> QED
  BY <1>6, <1>15

\* A write of a whole block starts where the output ends, so that the output
\* now ends with it.
LEMMA WholeWritten ==
    ASSUME Ind, Holds, NEW t \in Threads, pc[t] = "wait_write", canWrite[t], ToStream(t),
           ~blk[t].failed, out' = Append(out, [lo |-> blk[t].lo, hi |-> blk[t].coded])
    PROVE  /\ Delivered = blk[t].lo /\ Delivered' = blk[t].hi
           /\ blk[t].coded = blk[t].hi /\ blk[t].parsed = blk[t].hi /\ blk[t].link > 0
           /\ blk[t].lo <= blk[t].hi /\ blk[t].hi <= Len(stream)
           /\ blk[t].lo \in Nat /\ blk[t].hi \in Nat /\ blk[t].needCode
<1>1. /\ blk[t].coded = blk[t].hi /\ blk[t].parsed = blk[t].hi /\ blk[t].link > 0
  BY WrittenWhole
<1>2. Delivered = blk[t].lo
  BY WrittenThere
<1>3. blk[t].lo \in Nat /\ blk[t].hi \in Nat
  BY Types, BlkFields DEF Ind
<1>4. Delivered' = blk[t].hi
  BY <1>1, <1>2, <1>3, GaplessAppend DEF Ind, RingTypeOK, RingInv
<1>5. Busy(t) /\ Passed(t) /\ BlockGood(t)
  BY DEF Busy, Passed, Holds, BlocksInv
<1>6. blk[t].lo <= blk[t].hi /\ blk[t].hi <= Len(stream)
  BY <1>5 DEF Ind, RingInv, ReadInv, BlockGood, Sound
<1>7. blk[t].needCode
  BY <1>5 DEF BlockGood, Complete, ToStream
<1> QED
  BY <1>1, <1>2, <1>3, <1>4, <1>6, <1>7

\* The write section meets nothing that the stream is not to blame for: no
\* block lacks input, and no offset is wrong.
LEMMA WriteBlame ==
    ASSUME Ind, Holds, Smooth, NEW t \in Threads, Write(t), ~exit, faulted' = {},
           NEW whole \in BOOLEAN, NEW e, NEW nc, Leaves(t, whole, e, nc)
    PROVE  /\ e \in {None, "corrupt"}
           /\ e = "corrupt" => Broken(stream)
           /\ wr'.codeRes # None => wr'.codeRes = RefResult(stream)
<1> DEFINE b == blk[t]
<1>1. /\ pc[t] = "wait_write" /\ canWrite[t] /\ RingTypeOK /\ b \in Block
      /\ stream \in Seq(Unit) /\ Len(stream) \in Nat /\ MarkerLast(stream)
  BY Types DEF Write, Ind, Holds
<1>2. Passed(t) /\ Busy(t) /\ PlainBlock(t) /\ BlockGood(t)
  BY <1>1 DEF Passed, Busy, Smooth, PlainRing, Holds, BlocksInv
<1>3. PlainData(b) /\ Left(b)
  BY <1>1, <1>2 DEF PlainBlock
<1>4. /\ b.lo \in Nat /\ b.hi \in Nat /\ b.parsed \in Nat
      /\ b.lo <= b.hi /\ b.hi <= Len(stream)
  BY <1>1, <1>2, BlkFields DEF Ind, RingInv, ReadInv, BlockGood, Sound
<1>5. e # "internal"
  <2> SUFFICES ASSUME e = "internal" PROVE FALSE
    OBVIOUS
  <2>1. /\ ToStream(t) /\ ~b.failed
        /\ (BlockFinished(b) /\ b.parsed # b.coded) \/ b.start # wr.outDone
    BY DEF Leaves, None
  <2>2. b.coded = b.hi /\ b.parsed = b.hi /\ b.link > 0
    BY <1>1, <2>1, WrittenWhole
  <2>3. Delivered = b.lo
    BY <1>1, <2>1, WrittenThere
  <2>4. ~wr.intr /\ ~b.intr /\ b.codeRes = None /\ ~Unusable(b)
    BY <2>1 DEF ToStream
  <2>5. wr.outDone = Produced(stream, 0, b.lo)
    BY <2>3, <2>4 DEF Smooth, PlainRing, PlainWrite
  <2>6. b.needCode
    BY <1>2, <2>1, <2>4 DEF BlockGood, Complete, Passed
  <2>7. b.parsed # b.lo
    BY <1>2, <2>4, <2>6 DEF PlainBlock
  <2>8. b.lo < Len(stream)
    BY <1>4, <2>2, <2>7
  <2>9. b.start = Produced(stream, 0, b.lo)
    BY <1>3, <2>2, <2>8 DEF PlainData, StartOk
  <2> QED
    BY <2>1, <2>2, <2>5, <2>9
<1>6. e # "write" /\ (e # None => e = "corrupt" /\ b.failed)
  BY <1>5 DEF Leaves
<1>7. e = "corrupt" => Broken(stream)
  BY <1>3, <1>6 DEF PlainData, None
<1>8. Broken(stream) => RefResult(stream) = "corrupt"
  BY <1>1, BrokenResult
<1>9. ASSUME ~wr.intr, b.codeRes # None PROVE b.codeRes = RefResult(stream)
  <2>1. CASE b.codeRes = "corrupt"
    BY <1>3, <1>8, <2>1 DEF PlainData
  <2>2. CASE b.codeRes = "truncated"
    <3>1. b.link > 0 /\ b.lo = Len(stream) /\ StartOk(stream, b.lo, b.start)
      BY <1>3, <2>2 DEF PlainData
    <3>2. ~EndsMarked(stream)
      BY <3>1 DEF StartOk, Restart
    <3>3. Live
      BY <1>1, LoneWriter
    <3>4. Delivered = b.lo
      BY <1>1, <1>2, <1>9, <3>1, <3>3 DEF Ind, RingInv, ChainInv, Start
    <3>5. Clean(stream, 0, Len(stream))
      BY <3>1, <3>4 DEF Holds, OutInv
    <3> QED
      BY <1>1, <2>2, <3>2, <3>5, CleanCut
  <2> QED
    BY <1>3, <1>9, <2>1, <2>2 DEF PlainData
<1>10. wr'.codeRes # None => wr'.codeRes = RefResult(stream)
  <2>1. wr'.codeRes = IF wr.codeRes # None THEN wr.codeRes
                      ELSE IF ~wr.intr /\ b.codeRes # None THEN b.codeRes
                      ELSE IF e \in CodeError THEN e ELSE None
    BY DEF Leaves
  <2>2. wr.codeRes # None => wr.codeRes = RefResult(stream)
    BY DEF Smooth, PlainRing, PlainWrite
  <2>3. e \in CodeError => e = "corrupt"
    BY <1>6 DEF CodeError, None
  <2> HIDE DEF b
  <2> QED
    BY <1>7, <1>8, <1>9, <2>1, <2>2, <2>3
<1> QED
  BY <1>6, <1>7, <1>10

\* Writing a block, or keeping it for replay, blames only the stream.
LEMMA WritePlain ==
    ASSUME Ind, Holds, Smooth, NEW t \in Threads, Write(t), faulted' = {}
    PROVE  Smooth'
<1> DEFINE b == blk[t]
<1>1. /\ pc[t] = "wait_write" /\ canWrite[t] /\ RingTypeOK /\ b \in Block
      /\ UNCHANGED <<stream, rd, blk>> /\ DOMAIN pc = Threads /\ DOMAIN canRead = Threads
      /\ Len(stream) \in Nat
  BY Types DEF Write, Ind, RingTypeOK
<1>2. Live /\ ~exit
  BY <1>1, LoneWriter DEF Live
<1>3. Passed(t) /\ Busy(t) /\ PlainBlock(t) /\ BlockGood(t)
  BY <1>1 DEF Passed, Busy, Smooth, PlainRing, Holds, BlocksInv
<1>4. PlainData(b) /\ Left(b)
  BY <1>1, <1>3 DEF PlainBlock
<1>5. PICK whole \in BOOLEAN, e \in CodeError \cup {None, "write"}, nc \in BOOLEAN :
              Leaves(t, whole, e, nc)
  BY <1>1, <1>2, WriteLeaves
<1>6. /\ e \in {None, "corrupt"} /\ e # "write"
      /\ wr'.codeRes # None => wr'.codeRes = RefResult(stream)
  BY <1>2, <1>5, WriteBlame DEF None
<1>7. /\ pc'[t] \in {"done", "wait_read"} /\ \A u \in Threads : u # t => pc'[u] = pc[u]
  BY <1>1, <1>5 DEF Leaves
<1>8. \A u \in Threads : Busy(u)' => PlainBlock(u)'
  <2>1. \A u \in Threads : u # t /\ Busy(u)' =>
              /\ blk'[u] = blk[u] /\ pc'[u] = pc[u]
              /\ pc[u] # "read" \/ (rd'.outParse = rd.outParse /\ rd'.finished = rd.finished)
    BY <1>1, <1>7
  <2>2. ~Busy(t)'
    BY <1>7 DEF Busy, Reading, Passed
  <2>3. \A u \in Threads : Busy(u) => PlainBlock(u)
    BY DEF Smooth, PlainRing
  <2> QED
    BY <1>1, <2>1, <2>2, <2>3, OthersPlain
\* A block that was written whole ends where a decoder may be reset, or is the
\* one with the end marker.
<1>9. ASSUME whole
      PROVE  /\ b.hi \in Nat /\ b.hi <= Len(stream) /\ Delivered' = b.hi
             /\ ~wr.intr /\ ~b.intr /\ b.codeRes = None /\ ~Unusable(b) /\ ~b.failed
             /\ b.needWrite
             /\ \/ b.state = "new" /\ Restart(stream, b.hi)
                \/ b.state = "continue" /\ b.hi = Len(stream) /\ ~EndsMarked(stream)
                \/ b.state = "end" /\ b.status = "mark"
  <2>1. /\ ToStream(t) /\ ~b.failed /\ out' = Append(out, [lo |-> b.lo, hi |-> b.coded])
    BY <1>5, <1>9 DEF Leaves
  <2>2. b.hi \in Nat /\ b.hi <= Len(stream) /\ Delivered' = b.hi
    BY <1>1, <2>1, WholeWritten
  <2>3. ~wr.intr /\ ~b.intr /\ b.codeRes = None /\ ~Unusable(b) /\ b.needWrite
    BY <2>1 DEF ToStream
  <2>4. b.state \in {"continue", "overflow", "new", "end"}
    BY <1>1 DEF Block, ParseState
  <2>5. b.state # "overflow"
    BY <1>4, <2>3 DEF Left, Unusable
  <2>6. b.state = "continue" => b.hi = Len(stream) /\ ~EndsMarked(stream)
    BY <1>4, <2>3 DEF Left, PlainData
  <2> QED
    BY <1>4, <2>1, <2>2, <2>3, <2>4, <2>5, <2>6 DEF Left
<1>10. marked' \/ Restart(stream, Delivered')
  <2>1. CASE whole
    <3>1. b.state = "new" => Restart(stream, Delivered')
      BY <1>9, <2>1
    <3>2. b.state = "continue" => Restart(stream, Delivered')
      BY <1>1, <1>9, <2>1 DEF Restart
    <3>3. b.state = "end" => marked'
      BY <1>5, <1>9, <2>1 DEF Leaves
    <3> QED
      BY <1>9, <2>1, <3>1, <3>2, <3>3
  <2>2. CASE ~whole
    <3>0. marked \in BOOLEAN
      BY <1>1 DEF RingTypeOK
    <3>1. UNCHANGED out /\ marked' = marked
      BY <1>5, <1>6, <2>2, <3>0 DEF Leaves
    <3>2. Delivered' = Delivered
      BY <3>1 DEF Delivered
    <3> QED
      BY <3>1, <3>2 DEF Smooth, PlainRing, PlainWrite
  <2> QED
    BY <2>1, <2>2
<1>11. ~wr'.intr => wr'.outDone = Produced(stream, 0, Delivered')
  <2> SUFFICES ASSUME ~wr'.intr PROVE wr'.outDone = Produced(stream, 0, Delivered')
    OBVIOUS
  <2>1. ~wr.intr
    BY <1>5 DEF Leaves
  <2>2. wr.outDone = Produced(stream, 0, Delivered)
    BY <2>1 DEF Smooth, PlainRing, PlainWrite
  <2>3. CASE whole
    <3>1. /\ ToStream(t) /\ ~b.failed /\ out' = Append(out, [lo |-> b.lo, hi |-> b.coded])
          /\ wr'.outDone = wr.outDone + Produced(stream, b.lo, b.coded)
      BY <1>5, <2>3 DEF Leaves
    <3>2. /\ Delivered = b.lo /\ Delivered' = b.hi /\ b.coded = b.hi
          /\ b.lo \in Nat /\ b.hi \in Nat /\ b.lo <= b.hi
      BY <1>1, <3>1, WholeWritten
    <3>3. Produced(stream, 0, b.hi) = Produced(stream, 0, b.lo) + Produced(stream, b.lo, b.hi)
      BY <3>2, ProducedAdd
    <3> QED
      BY <2>2, <3>1, <3>2, <3>3
  <2>4. CASE ~whole
    <3>1. UNCHANGED out /\ wr'.outDone = wr.outDone
      BY <1>5, <1>6, <2>4 DEF Leaves
    <3>2. Delivered' = Delivered
      BY <3>1 DEF Delivered
    <3> QED
      BY <2>2, <3>1, <3>2
  <2> QED
    BY <2>3, <2>4
<1>12. PlainWrite'
  <2>1. ~wr'.err
    BY <1>5, <1>6 DEF Leaves, Smooth, PlainRing, PlainWrite
  <2> QED
    BY <1>1, <1>6, <1>10, <1>11, <2>1 DEF PlainWrite
<1>13. Frontier' = Frontier
  BY <1>1 DEF Frontier
<1>14. ASSUME NEW u \in Threads, Expects(u)' PROVE StartOk(stream, Frontier, rd.outParse)
  <2>1. CASE Expects(u)
    BY <2>1 DEF Smooth, PlainRing
  <2>2. CASE ~Expects(u)
    <3>1. Live' /\ canRead'[u] /\ ~canRead[u]
      <4>1. u # t => pc'[u] = pc[u]
        BY <1>7
      <4> QED
        BY <1>1, <1>2, <1>7, <1>14, <2>2, <4>1 DEF Expects
    <3>2. b.finish /\ (nc \/ t # 0)
      BY <1>1, <1>5, <3>1 DEF Leaves
    <3>3. nc
      <4> SUFFICES ASSUME ~nc PROVE FALSE
        BY <1>5
      <4>1. exit'
        BY <1>5, <3>2 DEF Leaves
      <4> QED
        BY <3>1, <4>1 DEF Live
    <3>4. whole /\ b.state # "end"
      BY <1>5, <3>2, <3>3 DEF Leaves
    <3>5. b.state = "continue" /\ b.hi = Len(stream) /\ ~EndsMarked(stream)
      <4>1. b.state # "new"
        BY <1>4, <1>9, <3>2, <3>4 DEF Left
      <4> QED
        BY <1>9, <3>4, <4>1
    <3>6. b.hi = Frontier
      <4>1. BlockEnds(t)
        BY <1>3 DEF Ind, RingInv, ChainInv
      <4> QED
        BY <1>9, <3>2, <3>4, <3>5, <4>1 DEF BlockEnds
    <3> QED
      BY <1>1, <3>5, <3>6 DEF StartOk, Restart
  <2> QED
    BY <2>1, <2>2
<1>15. PlainRead(rd)' /\ (rd.finished \/ WholeBuffers(rd.pos))'
  BY <1>1 DEF Smooth, PlainRing, PlainRead, WholeBuffers
<1>16. \A u \in Threads : Expects(u)' => StartOk(stream, Frontier, rd.outParse)'
  BY <1>1, <1>13, <1>14
<1> QED
  BY <1>8, <1>12, <1>15, <1>16 DEF Smooth, PlainRing

\* The end of run finds nobody at work.
LEMMA RunReturnPlain ==
    ASSUME Ind, Smooth, RunReturn
    PROVE  Smooth'
<1>1. /\ pc[0] = "done" /\ UNCHANGED <<stream, rd, wr, blk, out, marked>> /\ exit'
      /\ pc' = [pc EXCEPT ![0] = "join"] /\ DOMAIN pc = Threads
  BY DEF RunReturn, Ind, RingTypeOK
<1>2. \A u \in Threads : ~Busy(u)
  BY <1>1 DEF Ind, RingInv, TokenInv, Live
<1>3. \A u \in Threads : ~Busy(u)'
  BY <1>1, <1>2 DEF Busy, Reading, Passed
<1>4. \A u \in Threads : ~Expects(u)'
  BY <1>1, <1>3 DEF Expects, Busy, Reading, Live
<1>5. PlainWrite'
  BY <1>1, WriteStands DEF Smooth, PlainRing
<1>6. PlainRead(rd)' /\ (rd.finished \/ WholeBuffers(rd.pos))'
  BY <1>1 DEF Smooth, PlainRing, PlainRead, WholeBuffers
<1> QED
  BY <1>3, <1>4, <1>5, <1>6 DEF Smooth, PlainRing

-----------------------------------------------------------------------------
(***************************************************************************)
(* What holds however much was refused: nothing was that may not be, and   *)
(* nothing is marked that the end marker does not end.                     *)
(***************************************************************************)
Grounded == faulted \subseteq Faults /\ MarkInv /\ MarkBlocks

\* A step that changes only the block of thread t keeps the markers if that
\* block does.
LEMMA OtherMarkers ==
    ASSUME MarkBlocks, NEW t \in Threads, Busy(t)' => Marker(blk[t])', UNCHANGED stream,
           \A u \in Threads : u # t /\ Busy(u)' =>
                blk'[u] = blk[u] /\ pc'[u] = pc[u]
    PROVE  MarkBlocks'
<1>1. ASSUME NEW u \in Threads, u # t, Busy(u)' PROVE Marker(blk[u])'
  <2>1. blk'[u] = blk[u] /\ pc'[u] = pc[u]
    BY <1>1
  <2>2. Busy(u)
    BY <1>1, <2>1 DEF Busy, Reading, Passed
  <2> QED
    BY <2>1, <2>2 DEF MarkBlocks, Marker
<1> QED
  BY <1>1 DEF MarkBlocks

\* A read fails only if reads may.
LEMMA FetchedFault ==
    ASSUME NEW t \in Threads, NEW f \in Fetched(t)
    PROVE  f.fault \subseteq Faults
  BY DEF Fetched, MayFault

\* Everything the parse applies to the block leaves its marker.
LEMMA ParseStepMarks ==
    ASSUME RingTypeOK, ReadInv, NEW t \in Threads, pc[t] = "read", faulted \subseteq Faults,
           NEW f \in Fetched(t),
           NEW o \in Parse(stream, Grown(blk[t], f).lo, f.lo, f.hi),
           ParseStep(t, f, o)
    PROVE  /\ faulted' \subseteq Faults
           /\ \E w, c : Marker(c) /\ blk' = [blk EXCEPT ![t] = c] /\ pc' = [pc EXCEPT ![t] = w]
<1> DEFINE b == Parsed(Grown(blk[t], f), rd, o)
           r == Accounted(AfterRead(t, f), b, o)
           left == [r EXCEPT !.crossLo = IF FromCross(t) THEN o.pos ELSE @]
           coded == [b EXCEPT !.needCode = TRUE, !.finish = @ \/ o.state = "end"]
<1>1. /\ f.lo \in Nat /\ f.hi \in Nat /\ f.lo <= f.hi /\ f.hi <= Len(stream)
      /\ Len(stream) \in Nat /\ stream \in Seq(Unit)
  BY Types, FetchedFacts
<1>2. /\ Grown(blk[t], f) \in Block
      /\ Grown(blk[t], f).lo \in Nat /\ Grown(blk[t], f).lo <= f.lo
  <2>1. Fresh(Grown(blk[t], f)) /\ Grown(blk[t], f).lo <= f.lo
    BY GrownFacts
  <2> QED
    BY <2>1, BlkFields DEF Fresh
<1>3. o.status = "mark" => o.state = "end" /\ o.pos \in f.lo+1 .. f.hi /\ stream[o.pos] = "end"
  BY <1>1, <1>2, ParseMore
<1>4. /\ b.status = o.status
      /\ b.parsed = IF o.state = "overflow" THEN Grown(blk[t], f).parsed ELSE o.pos
  BY <1>2 DEF Parsed, Block
<1>5. b.status = "mark" => b.parsed \in 1 .. Len(stream) /\ stream[b.parsed] = "end"
  BY <1>1, <1>3, <1>4
<1>6. \A c : c.status = b.status /\ c.parsed = b.parsed => Marker(c)
  BY <1>5 DEF Marker
<1>7. b \in Block
  <2>1. Fresh(Grown(blk[t], f)) /\ Grown(blk[t], f).link > 0
    BY GrownFacts
  <2>2. o \in ParseOutcome
    BY <1>1, <1>2, ParseFacts
  <2>3. rd \in ReadState
    BY DEF RingTypeOK
  <2>4. Fresh(b)
    BY <2>1, <2>2, <2>3, ParsedFacts, ZenonT(40)
  <2> QED
    BY <2>4 DEF Fresh
<1> HIDE DEF b
<1>8. coded.status = b.status /\ coded.parsed = b.parsed /\ coded \in Block
  BY <1>7, BlkFields DEF Block
<1> HIDE DEF coded, r
<1>9. f.fault \subseteq Faults
  BY FetchedFault
<1>10. \E w, c, q, e : /\ Settle(t, w, c, q, e) /\ e \subseteq Faults
                       /\ c.status = b.status /\ c.parsed = b.parsed
  <2>1. CASE /\ o.state = "overflow"
             /\ Settle(t, "pass", [b EXCEPT !.finish = TRUE, !.overflow = TRUE],
                       NoCross(r), f.fault)
    <3>1. /\ [b EXCEPT !.finish = TRUE, !.overflow = TRUE].status = b.status
          /\ [b EXCEPT !.finish = TRUE, !.overflow = TRUE].parsed = b.parsed
      BY <1>7 DEF Block
    <3> QED
      BY <1>9, <2>1, <3>1
  <2>2. CASE Settle(t, "read", b, NoCross(r), f.fault)
    BY <1>9, <2>2
  <2>3. CASE Settle(t, "pass", coded, NoCross(r), f.fault)
    BY <1>8, <1>9, <2>3
  <2>4. CASE Settle(t, "pass", CutAt(coded, o.pos), left, f.fault)
    <3>1. CutAt(coded, o.pos).status = b.status /\ CutAt(coded, o.pos).parsed = b.parsed
      BY <1>8 DEF CutAt, Block
    <3> QED
      BY <1>9, <2>4, <3>1
  <2>5. CASE \E q : Settle(t, "pass", [CutAt(coded, o.pos) EXCEPT !.finish = FALSE], q, f.fault)
    <3>1. /\ [CutAt(coded, o.pos) EXCEPT !.finish = FALSE].status = b.status
          /\ [CutAt(coded, o.pos) EXCEPT !.finish = FALSE].parsed = b.parsed
      BY <1>8 DEF CutAt, Block
    <3> QED
      BY <1>9, <2>5, <3>1
  <2>6. CASE /\ MayFault("cross")
             /\ Settle(t, "pass", [coded EXCEPT !.finish = TRUE, !.allocErr = TRUE],
                       r, f.fault \cup {"cross"})
    <3>1. /\ [coded EXCEPT !.finish = TRUE, !.allocErr = TRUE].status = b.status
          /\ [coded EXCEPT !.finish = TRUE, !.allocErr = TRUE].parsed = b.parsed
      BY <1>8 DEF Block
    <3>2. f.fault \cup {"cross"} \subseteq Faults
      BY <1>9, <2>6 DEF MayFault
    <3> QED
      BY <2>6, <3>1, <3>2
  <2> QED
    BY <2>1, <2>2, <2>3, <2>4, <2>5, <2>6 DEF ParseStep, b, r, coded
<1>11. PICK w, c, q, e : /\ Settle(t, w, c, q, e) /\ e \subseteq Faults
                         /\ c.status = b.status /\ c.parsed = b.parsed
  BY <1>10
<1> QED
  BY <1>6, <1>11 DEF Settle

\* The read loop leaves the markers.
LEMMA ReadLinkMarks ==
    ASSUME Ind, Grounded, NEW t \in Threads, ReadLink(t)
    PROVE  Grounded'
<1>1. /\ RingTypeOK /\ ReadInv /\ pc[t] = "read" /\ Busy(t) /\ UNCHANGED <<stream, out, marked>>
      /\ DOMAIN blk = Threads /\ DOMAIN pc = Threads /\ blk[t] \in Block
  BY DEF Ind, RingInv, ReadLink, Busy, Reading, RingTypeOK
<1>2. faulted \subseteq Faults /\ Marker(blk[t])
  BY <1>1 DEF Grounded, MarkBlocks
<1>3. /\ faulted' \subseteq Faults
      /\ \E w, c : Marker(c) /\ blk' = [blk EXCEPT ![t] = c] /\ pc' = [pc EXCEPT ![t] = w]
  <2>1. CASE BufFails(t)
    <3>1. /\ Settle(t, "pass", [blk[t] EXCEPT !.finish = TRUE, !.allocErr = TRUE], rd, {"buf"})
          /\ MayFault("buf")
      BY <2>1 DEF BufFails
    <3>2. Marker([blk[t] EXCEPT !.finish = TRUE, !.allocErr = TRUE])
      BY <1>1, <1>2 DEF Marker, Block
    <3> QED
      BY <1>2, <3>1, <3>2 DEF Settle, MayFault
  <2>2. CASE \E f \in Fetched(t) : CoderFails(t, f)
    <3>1. PICK f \in Fetched(t) : CoderFails(t, f)
      BY <2>2
    <3> DEFINE c == [Grown(blk[t], f) EXCEPT !.finish = TRUE, !.allocErr = TRUE,
                                             !.stale = FromCross(t)]
    <3>2. Settle(t, "pass", c, AfterRead(t, f), f.fault \cup {"coder"}) /\ MayFault("coder")
      BY <3>1 DEF CoderFails
    <3>3. c.status = blk[t].status /\ c.parsed = blk[t].parsed
      BY <1>1 DEF Grown, Block
    <3> HIDE DEF c
    <3>4. Marker(c)
      BY <1>2, <3>3 DEF Marker
    <3>5. f.fault \cup {"coder"} \subseteq Faults
      BY <3>2, FetchedFault DEF MayFault
    <3> QED
      BY <1>2, <3>2, <3>4, <3>5 DEF Settle
  <2>3. CASE \E f \in Fetched(t) :
                \E o \in Parse(stream, Grown(blk[t], f).lo, f.lo, f.hi) : ParseStep(t, f, o)
    BY <1>1, <1>2, <2>3, ParseStepMarks
  <2> QED
    BY <2>1, <2>2, <2>3 DEF ReadLink
<1>4. PICK w, c : Marker(c) /\ blk' = [blk EXCEPT ![t] = c] /\ pc' = [pc EXCEPT ![t] = w]
  BY <1>3
<1>5. blk'[t] = c /\ \A u \in Threads : u # t => blk'[u] = blk[u] /\ pc'[u] = pc[u]
  BY <1>1, <1>4
<1>6. MarkBlocks'
  BY <1>1, <1>4, <1>5, OtherMarkers DEF Grounded, Marker
<1> QED
  BY <1>1, <1>3, <1>6 DEF Grounded, MarkInv, Delivered

\* A step that works on no other block keeps what was found, if the output
\* does not shrink.
LEMMA SameMarks ==
    ASSUME Grounded, UNCHANGED <<stream, blk, marked>>,
           \A t \in Threads : Busy(t)' => Busy(t),
           Delivered \in Nat, Delivered' \in Nat, Len(stream) \in Nat,
           Delivered <= Delivered', Delivered' <= Len(stream), faulted' \subseteq Faults
    PROVE  Grounded'
<1>1. MarkBlocks'
  BY DEF Grounded, MarkBlocks, Marker
<1>2. MarkInv'
  BY DEF Grounded, MarkInv
<1> QED
  BY <1>1, <1>2 DEF Grounded

\* The parse of a new block has no marker yet.
LEMMA ReadBeginMarks ==
    ASSUME Ind, Grounded, NEW t \in Threads, ReadBegin(t)
    PROVE  Grounded'
<1>1. /\ RingTypeOK /\ UNCHANGED <<stream, out, marked, faulted>>
      /\ DOMAIN blk = Threads /\ DOMAIN pc = Threads
  BY DEF Ind, ReadBegin, RingTypeOK
<1>2. /\ Busy(t)' => Marker(blk[t])'
      /\ \A u \in Threads : u # t => pc'[u] = pc[u] /\ blk'[u] = blk[u]
  <2>1. CASE exit
    BY <1>1, <2>1 DEF ReadBegin, Busy, Reading, Passed
  <2>2. CASE ~exit
    <3>1. PICK w : /\ blk' = [blk EXCEPT ![t] =
                                NewBlock(rd.block, rd.finished, Interrupted(rd.block))]
                   /\ pc' = [pc EXCEPT ![t] = w]
      BY <2>2 DEF ReadBegin
    <3>2. blk'[t].status = "notspec"
      BY <1>1, <3>1 DEF NewBlock
    <3> QED
      BY <1>1, <3>1, <3>2 DEF Marker
  <2> QED
    BY <2>1, <2>2
<1>3. MarkBlocks'
  BY <1>1, <1>2, OtherMarkers DEF Grounded
<1> QED
  BY <1>1, <1>3 DEF Grounded, MarkInv, Delivered

\* Leaving the read section leaves the markers.
LEMMA PassReadMarks ==
    ASSUME Ind, Grounded, NEW t \in Threads, PassRead(t)
    PROVE  Grounded'
<1>1. /\ RingTypeOK /\ UNCHANGED <<stream, out, marked>> /\ pc[t] = "pass" /\ Busy(t)
      /\ DOMAIN blk = Threads /\ DOMAIN pc = Threads /\ rd.started <= rd.limit
  BY DEF Ind, RingInv, TokenInv, PassRead, RingTypeOK, Busy, Reading
<1>2. PICK b \in Block : /\ blk' = [blk EXCEPT ![t] = b]
                         /\ SameInput(b, blk[t])
                         /\ Kept(t, b) \/ Handed(t, b)
  BY <1>1, PassTurn
<1>3. \A u \in Threads : u # t /\ Busy(u)' => pc'[u] = pc[u] /\ blk'[u] = blk[u]
  <2>1. CASE pc' = [pc EXCEPT ![t] = "code"]
    BY <1>1, <1>2, <2>1
  <2>2. CASE /\ pc' = [[pc EXCEPT ![t] = "code"] EXCEPT ![rd.started] = "wait_read"]
             /\ rd.started \in Threads
    BY <1>1, <1>2, <2>2 DEF Busy, Reading, Passed
  <2> QED
    BY <1>2, <2>1, <2>2 DEF Kept, Handed
<1>4. Marker(blk[t])'
  <2>1. Marker(blk[t])
    BY <1>1 DEF Grounded, MarkBlocks
  <2> QED
    BY <1>1, <1>2, <2>1 DEF Marker, SameInput
<1>5. MarkBlocks'
  BY <1>1, <1>3, <1>4, OtherMarkers DEF Grounded
<1>6. faulted' \subseteq Faults
  <2>1. PICK p \in PreCode(t, [blk[t] EXCEPT !.intr = @ \/ Interrupted(blk[t].num)]) :
           \/ faulted' = faulted \cup p.fault
           \/ MayFault("spawn") /\ faulted' = faulted \cup p.fault \cup {"spawn"}
    BY DEF PassRead
  <2>2. p.fault \subseteq Faults
    BY DEF PreCode, MayFault
  <2> QED
    BY <2>1, <2>2 DEF Grounded, MayFault
<1> QED
  BY <1>1, <1>5, <1>6 DEF Grounded, MarkInv, Delivered

\* Decoding leaves the markers.
LEMMA CodeLinkMarks ==
    ASSUME Ind, Grounded, NEW t \in Threads, CodeLink(t)
    PROVE  Grounded'
<1>1. /\ RingTypeOK /\ UNCHANGED <<stream, out, marked, faulted>> /\ pc[t] = "code" /\ Busy(t)
      /\ DOMAIN blk = Threads /\ DOMAIN pc = Threads
  BY DEF Ind, CodeLink, RingTypeOK, Busy, Passed
<1>2. PICK c \in Block : blk' = [blk EXCEPT ![t] = c] /\ Coded(t, c)
  BY <1>1, CodeTurn
<1>3. \A u \in Threads : u # t => pc'[u] = pc[u] /\ blk'[u] = blk[u]
  BY <1>1, <1>2 DEF Coded
<1>4. Marker(blk[t])'
  <2>1. Marker(blk[t])
    BY <1>1 DEF Grounded, MarkBlocks
  <2> QED
    BY <1>1, <1>2, <2>1 DEF Marker, Coded, SameInput
<1>5. MarkBlocks'
  BY <1>1, <1>3, <1>4, OtherMarkers DEF Grounded
<1> QED
  BY <1>1, <1>5 DEF Grounded, MarkInv, Delivered

\* A write adds to the output.
LEMMA WriteGrows ==
    ASSUME Ind, Holds, NEW t \in Threads, Write(t)
    PROVE  Delivered \in Nat /\ Delivered' \in Nat /\ Delivered <= Delivered'
<1> DEFINE b == blk[t]
<1>1. /\ pc[t] = "wait_write" /\ canWrite[t] /\ RingTypeOK
      /\ b.lo \in Nat /\ b.coded \in Nat
  BY Types, BlkFields DEF Ind, Write
<1>2. Delivered \in Nat
  BY <1>1, KeptTypes
<1>3. CASE UNCHANGED out
  BY <1>2, <1>3 DEF Delivered
<1>4. CASE /\ ToStream(t) /\ ~b.failed
           /\ \E h \in b.lo .. b.coded : out' = Append(out, [lo |-> b.lo, hi |-> h])
  <2>1. PICK h \in b.lo .. b.coded : out' = Append(out, [lo |-> b.lo, hi |-> h])
    BY <1>4
  <2>2. Delivered = b.lo
    BY <1>1, <1>4, WrittenThere
  <2>3. h \in Nat /\ b.lo <= h
    BY <1>1
  <2> HIDE DEF b
  <2>4. Delivered' = h
    BY <1>1, <2>1, <2>2, <2>3, GaplessAppend DEF Ind, RingTypeOK, RingInv
  <2> QED
    BY <1>2, <2>2, <2>3, <2>4
<1> QED
  BY <1>3, <1>4, WriteDisposes DEF Disposed

\* The end marker is written last.
LEMMA WriteMarks ==
    ASSUME Ind, Holds, Grounded, NEW t \in Threads, Write(t)
    PROVE  Grounded'
<1> DEFINE b == blk[t]
<1>1. /\ pc[t] = "wait_write" /\ canWrite[t] /\ UNCHANGED <<stream, blk>>
      /\ DOMAIN blk = Threads /\ DOMAIN pc = Threads /\ RingTypeOK
      /\ stream \in Seq(Unit) /\ Len(stream) \in Nat /\ MarkerLast(stream)
      /\ Delivered \in Nat /\ Delivered' \in Nat /\ Delivered <= Delivered'
  BY Types, WriteGrows DEF Ind, Write, RingTypeOK, Holds
<1>2. Delivered' <= Len(stream)
  BY <1>1, WriteOut DEF OutInv
<1>3. \A u \in Threads : Busy(u)' => Busy(u)
  <2>1. ~Busy(t)' /\ \A u \in Threads : u # t => pc'[u] = pc[u]
    BY WriteDisposes DEF Disposed, Busy, Reading, Passed
  <2> QED
    BY <2>1 DEF Busy, Reading, Passed
<1>4. CASE exit
  <2>1. UNCHANGED <<marked, faulted>>
    BY <1>4 DEF Write
  <2> QED
    BY <1>1, <1>2, <1>3, <2>1, SameMarks DEF Grounded
<1>5. CASE ~exit
  <2>1. PICK whole \in BOOLEAN, e \in CodeError \cup {None, "write"}, nc \in BOOLEAN :
           Leaves(t, whole, e, nc)
    BY <1>1, <1>5, WriteLeaves
  <2>2. faulted' \subseteq Faults
    BY <2>1 DEF Leaves, Grounded, MayFault, None
  <2>3. marked' <=> marked \/ (whole /\ b.status = "mark")
    BY <2>1 DEF Leaves
  <2>4. CASE ~(whole /\ b.status = "mark")
    <3>1. marked \in BOOLEAN /\ marked' \in BOOLEAN
      BY <1>1, <2>1 DEF Leaves, RingTypeOK
    <3>2. marked' = marked
      BY <2>3, <2>4, <3>1
    <3> QED
      BY <1>1, <1>2, <1>3, <2>2, <3>2, SameMarks
  <2>5. CASE whole /\ b.status = "mark"
    <3>1. ToStream(t) /\ ~b.failed /\ out' = Append(out, [lo |-> b.lo, hi |-> b.coded])
      BY <2>1, <2>5 DEF Leaves
    <3>2. Delivered' = b.hi /\ b.parsed = b.hi
      BY <1>1, <3>1, WholeWritten
    <3>3. Busy(t)
      BY <1>1 DEF Busy, Passed
    <3>4. b.hi \in 1 .. Len(stream) /\ stream[b.hi] = "end"
      BY <2>5, <3>2, <3>3 DEF Grounded, MarkBlocks, Marker
    <3>5. b.hi = Len(stream)
      BY <1>1, <3>4 DEF MarkerLast
    <3>6. MarkInv'
      BY <1>1, <3>2, <3>4, <3>5 DEF MarkInv, EndsMarked
    <3>7. MarkBlocks'
      BY <1>1, <1>3 DEF Grounded, MarkBlocks, Marker
    <3> QED
      BY <2>2, <3>6, <3>7 DEF Grounded
  <2> QED
    BY <2>4, <2>5
<1> QED
  BY <1>4, <1>5

\* A step of the ring adds to the output.
LEMMA RingGrows ==
    ASSUME Ind, Holds, RingNext
    PROVE  Delivered \in Nat /\ Delivered' \in Nat /\ Delivered <= Delivered'
<1>1. Delivered \in Nat
  <2>1. 0 \in Threads
    BY NumThreadsAssumption DEF Threads
  <2> QED
    BY <2>1, KeptTypes DEF Ind
<1>2. CASE UNCHANGED out
  BY <1>1, <1>2 DEF Delivered
<1>3. CASE \E t \in Threads : Write(t)
  BY <1>3, WriteGrows
<1> QED
  BY <1>2, <1>3 DEF RingNext, Step, ReadBegin, ReadLink, PassRead, CodeLink, RunReturn

\* Every step of the ring keeps what was found.
LEMMA RingMarks ==
    ASSUME Ind, Holds, Grounded, RingNext
    PROVE  Grounded'
<1>1. ASSUME NEW t \in Threads, Step(t) PROVE Grounded'
  BY <1>1, ReadBeginMarks, ReadLinkMarks, PassReadMarks, CodeLinkMarks, WriteMarks DEF Step
<1>2. CASE RunReturn
  <2>1. /\ UNCHANGED <<stream, blk, marked, out, faulted>>
        /\ DOMAIN pc = Threads /\ Len(stream) \in Nat
    BY <1>2, Types DEF RunReturn, Ind, RingTypeOK
  <2>2. \A t \in Threads : Busy(t)' => Busy(t)
    BY <1>2, <2>1 DEF RunReturn, Busy, Reading, Passed
  <2>3. Delivered \in Nat /\ Delivered' = Delivered /\ Delivered <= Len(stream)
    BY <1>2, <2>1, RingGrows DEF Delivered, Holds, OutInv
  <2> QED
    BY <2>1, <2>2, <2>3, SameMarks DEF Grounded
<1> QED
  BY <1>1, <1>2 DEF RingNext

\* Every step of the ring meets nothing that the stream is not to blame for,
\* unless something is refused.
LEMMA RingPlain ==
    ASSUME Ind, Holds, Smooth, RingNext, faulted' = {}
    PROVE  Smooth'
<1>1. ASSUME NEW t \in Threads, Step(t) PROVE Smooth'
  BY <1>1, ReadBeginPlain, ReadLinkPlain, PassReadPlain, CodeLinkPlain, WritePlain DEF Step
<1> QED
  BY <1>1, RunReturnPlain DEF RingNext

-----------------------------------------------------------------------------
\* Only a buffer that make_coder left without its input lacks it.
TailFresh ==
    st.on => StaleOnly(st.chunks, faulted) /\ (st.stale => "coder" \in faulted)

\* Everything that is needed to know the answer of decode.
Agreeing ==
    /\ DecodeInd /\ Grounded /\ TailFresh
    /\ ValidStream(stream) => ~WholeBuffers(Len(stream))
    /\ faulted = {} => Plain

\* What the tail was handed stays what it is when more is refused.
LEMMA StillFresh ==
    ASSUME TailFresh, st.on, faulted \subseteq faulted',
           st'.chunks = st.chunks, st'.stale = st.stale
    PROVE  TailFresh'
  BY DEF TailFresh, StaleOnly

\* What follows the first piece of a chain is as fresh as the chain.
LEMMA FreshTail ==
    ASSUME NEW c \in Seq(Pieces), c # <<>>, NEW refused, StaleOnly(c, refused)
    PROVE  /\ Head(c).stale => "coder" \in refused
           /\ StaleOnly(Tail(c), refused)
<1>1. /\ Len(c) \in Nat /\ Len(c) > 0 /\ Head(c) = c[1]
      /\ Len(Tail(c)) = Len(c) - 1
      /\ \A i \in 1 .. Len(Tail(c)) : Tail(c)[i] = c[i + 1]
  BY HeadTailProperties, EmptySeq
<1>2. ASSUME NEW i \in 1 .. Len(Tail(c)), Tail(c)[i].stale PROVE "coder" \in refused
  <2>1. i + 1 \in 1 .. Len(c) /\ Tail(c)[i] = c[i + 1]
    BY <1>1
  <2> QED
    BY <1>2, <2>1 DEF StaleOnly
<1>3. 1 \in 1 .. Len(c)
  BY <1>1
<1> QED
  BY <1>1, <1>2, <1>3 DEF StaleOnly

\* When run ends, its answer is the right one, or the tail goes on from where
\* a decoder may be reset.
LEMMA JoinRingPlain ==
    ASSUME Agreeing, JoinRing, faulted' = {}
    PROVE  Plain'
<1>1. /\ Joined /\ result = None /\ ~st.on /\ Ind /\ OutInv /\ MarkerLast(stream) /\ Holds
      /\ UNCHANGED <<stream, wr, out, marked, faulted>> /\ faulted = {}
      /\ stream \in Seq(Unit) /\ Len(stream) \in Nat
  BY Types DEF JoinRing, Agreeing, DecodeInd, TailInv, Ind
<1>2. /\ result' = RunResult
      /\ st' = IF RunResult = None
               THEN [NoTail EXCEPT !.on = TRUE, !.chunks = Replay]
               ELSE st
      /\ rd' = IF wr.err \/ wr.codeRes # None THEN rd ELSE NoCross(rd)
  BY DEF JoinRing
<1>3. PlainRead(rd) /\ PlainRing
  BY <1>1 DEF Agreeing, Plain
<1>4. PlainRead(rd)'
  <2>1. rd'.pos = rd.pos /\ rd'.finished = rd.finished /\ rd'.err = rd.err
    BY <1>1, <1>2 DEF NoCross, Ind, RingTypeOK, ReadState
  <2> QED
    BY <1>1, <1>3, <2>1 DEF PlainRead
<1>5. PlainWrite /\ ~wr.err /\ ~rd.err /\ (rd.finished \/ WholeBuffers(rd.pos))
  BY <1>3 DEF PlainRing, PlainWrite, PlainRead
<1>6. CASE wr.codeRes # None
  <2>1. RunResult = wr.codeRes /\ wr.codeRes = RefResult(stream)
    BY <1>5, <1>6 DEF RunResult, PlainWrite
  <2> QED
    BY <1>1, <1>2, <1>4, <1>6, <2>1 DEF Plain
<1>7. CASE wr.codeRes = None
  <2>1. /\ ChainTo(Replay, Delivered, rd.pos, Len(stream)) /\ Replay \in Seq(Pieces)
    BY <1>1, <1>5, <1>7, ReplayChain DEF Fine
  <2>2. Replay = <<>> => rd.pos = Delivered
    BY <2>1, ChainEmpty DEF ChainTo, StaleEnd, EndOf
  <2>3. Clean(stream, 0, Delivered)
    BY <1>1 DEF OutInv
  <2>4. CASE Replay = <<>> /\ rd.finished
    <3>1. Delivered = Len(stream)
      BY <1>3, <2>2, <2>4 DEF PlainRead
    <3>2. RunResult = IF marked THEN "ok" ELSE "truncated"
      BY <1>5, <1>7, <2>4 DEF RunResult, None
    <3>3. CASE marked
      <4>1. EndsMarked(stream)
        BY <3>3 DEF Agreeing, Grounded, MarkInv
      <4>2. RefResult(stream) = "ok"
        BY <1>1, <2>3, <3>1, <4>1, CleanMarked
      <4> QED
        BY <1>1, <1>2, <1>4, <3>2, <3>3, <4>2 DEF Plain, None
    <3>4. CASE ~marked
      <4>1. ~EndsMarked(stream)
        BY <1>5, <3>1, <3>4 DEF PlainWrite, Restart
      <4>2. RefResult(stream) = "truncated"
        BY <1>1, <2>3, <3>1, <4>1, CleanCut
      <4> QED
        BY <1>1, <1>2, <1>4, <3>2, <3>4, <4>2 DEF Plain, None
    <3> QED
      BY <3>3, <3>4
  <2>5. CASE ~(Replay = <<>> /\ rd.finished)
    <3>1. RunResult = None
      BY <1>5, <1>7, <2>5 DEF RunResult
    <3>2. result' = None /\ st'.on /\ st'.first
      BY <1>2, <3>1 DEF NoTail
    <3>3. ~marked
      <4> SUFFICES ASSUME marked PROVE FALSE
        OBVIOUS
      <4>1. Delivered = Len(stream) /\ EndsMarked(stream)
        BY DEF Agreeing, Grounded, MarkInv
      <4>2. Replay = <<>>
        <5> SUFFICES ASSUME Replay # <<>> PROVE FALSE
          OBVIOUS
        <5>1. /\ Head(Replay) \in Pieces /\ Head(Replay).lo = Delivered
              /\ Head(Replay).lo < Head(Replay).hi /\ Head(Replay).hi <= Len(stream)
          BY <2>1, ChainTail
        <5>2. Head(Replay).hi \in Nat
          BY <5>1 DEF Pieces
        <5> QED
          BY <1>1, <4>1, <5>1, <5>2
      <4>3. WholeBuffers(Len(stream))
        BY <1>5, <2>2, <2>5, <4>1, <4>2
      <4>4. ValidStream(stream)
        BY <1>1, <2>3, <4>1, CleanMarked
      <4> QED
        BY <4>3, <4>4 DEF Agreeing
    <3>4. Restart(stream, Delivered)
      BY <1>5, <3>3 DEF PlainWrite
    <3>5. PlainTail'
      BY <1>1, <3>2, <3>4 DEF PlainTail, Delivered
    <3> QED
      BY <1>4, <3>2, <3>5 DEF Plain
  <2> QED
    BY <2>4, <2>5
<1> QED
  BY <1>6, <1>7

\* Where the slice that comes next starts: the decoder has come that far.
Upto == IF st.first THEN Delivered ELSE st.lim

\* The pieces that are left start there.
LEMMA FillFrom ==
    ASSUME DecodeInd, st.on, result = None, st.pos = st.lim
    PROVE  /\ st \in TailState /\ st.chunks \in Seq(Pieces)
           /\ ChainTo(st.chunks, Upto, rd.pos, Len(stream))
           /\ Upto \in Nat /\ Clean(stream, 0, Upto)
<1>1. /\ st \in TailState /\ OutInv /\ RingTypeOK
      /\ st.first => Handing
      /\ ~st.first => Tailing
  BY DEF DecodeInd, TailInv, Ind
<1>2. st.chunks \in Seq(Pieces) /\ st.pos \in Nat /\ st.lim \in Nat
  BY <1>1 DEF TailState
<1>3. CASE st.first
  <2>1. 0 \in Threads
    BY NumThreadsAssumption DEF Threads
  <2>2. Delivered \in Nat
    BY <1>1, <2>1, KeptTypes
  <2> QED
    BY <1>1, <1>2, <1>3, <2>2 DEF Handing, Upto, OutInv
<1>4. CASE ~st.first
  <2>1. ~(st.pos < st.lim) /\ Upto = st.lim
    BY <1>2, <1>4 DEF Upto
  <2> QED
    BY <1>1, <1>2, <1>4, <2>1 DEF Tailing
<1> QED
  BY <1>3, <1>4

\* The tail reads on from where the last piece ends.
LEMMA StFillPlain ==
    ASSUME Agreeing, StFill, faulted' = {}
    PROVE  Plain'
<1>1. /\ result = None /\ st.on /\ st.pos = st.lim /\ DecodeInd
      /\ UNCHANGED <<stream, out>>
  BY DEF StFill, Agreeing
<1>2. /\ st \in TailState /\ st.chunks \in Seq(Pieces) /\ Upto \in Nat
      /\ ChainTo(st.chunks, Upto, rd.pos, Len(stream))
      /\ Len(stream) \in Nat /\ rd \in ReadState /\ rd.pos \in Nat /\ rd.pos <= Len(stream)
  <2>1. RingTypeOK /\ ReadInv
    BY <1>1 DEF DecodeInd, Ind, RingInv
  <2> QED
    BY <1>1, <2>1, FillFrom, Types, RdFields DEF ReadInv
<1>3. faulted = {} /\ UNCHANGED <<faulted, result>>
  BY DEF StFill
<1>4. PlainRead(rd) /\ PlainTail
  BY <1>1, <1>3 DEF Agreeing, Plain
<1>5. ASSUME PlainRead(rd)', st'.on, ~st'.first, st'.pos = Upto,
             st'.base = IF st.first THEN Upto ELSE st.base,
             st'.pos = Len(stream) => Upto = st.lim \/ st.first
      PROVE  Plain'
  <2>1. Restart(stream, st'.base)
    BY <1>4, <1>5 DEF PlainTail, Upto
  <2>2. st'.pos = Len(stream) => ~EndsMarked(stream)
    BY <1>1, <1>2, <1>4, <1>5 DEF PlainTail, Upto, Restart
  <2>3. PlainTail'
    BY <1>1, <1>5, <2>1, <2>2 DEF PlainTail
  <2> QED
    BY <1>1, <1>3, <1>5, <2>3 DEF Plain
<1>6. CASE /\ st.chunks # <<>>
           /\ LET c == Head(st.chunks)
              IN  st' = [st EXCEPT !.chunks = Tail(@), !.pos = c.lo, !.lim = c.hi,
                           !.stale = c.stale,
                           !.base = IF st.first THEN c.lo ELSE @,
                           !.flushed = IF st.first THEN c.lo ELSE @,
                           !.first = FALSE]
           /\ UNCHANGED rd
  <2>1. Head(st.chunks).lo = Upto
    BY <1>2, <1>6, ChainTail
  <2>2. /\ st'.on /\ ~st'.first /\ st'.pos = Upto
        /\ st'.base = IF st.first THEN Upto ELSE st.base
    BY <1>1, <1>2, <1>6, <2>1 DEF TailState
  <2>3. PlainRead(rd)'
    BY <1>1, <1>4, <1>6 DEF PlainRead
  <2> QED
    BY <1>5, <2>2, <2>3 DEF Upto
<1>7. CASE /\ st.chunks = <<>>
           /\ LET n == Min2(StBufSize, Len(stream) - rd.pos)
              IN  /\ rd' = [rd EXCEPT !.pos = @ + n, !.finished = n < StBufSize]
                  /\ st' = [st EXCEPT !.pos = rd.pos, !.lim = rd.pos + n,
                              !.stale = FALSE, !.held = TRUE,
                              !.base = IF st.first THEN rd.pos ELSE @,
                              !.flushed = IF st.first THEN rd.pos ELSE @,
                              !.first = FALSE]
  <2>1. rd.pos = Upto
    BY <1>2, <1>7, ChainEmpty DEF ChainTo, EndOf
  <2>2. /\ st'.on /\ ~st'.first /\ st'.pos = Upto
        /\ st'.base = IF st.first THEN Upto ELSE st.base
    BY <1>1, <1>2, <1>7, <2>1 DEF TailState
  <2> DEFINE n == Min2(StBufSize, Len(stream) - rd.pos)
  <2>3. n \in Nat /\ (n < StBufSize => rd.pos + n = Len(stream))
    BY <1>2, StBufSizeAssumption DEF Min2
  <2>4. rd' = [rd EXCEPT !.pos = @ + n, !.finished = n < StBufSize]
    BY <1>7
  <2> HIDE DEF n
  <2>5. rd'.pos = rd.pos + n /\ (rd'.finished <=> n < StBufSize) /\ rd'.err = rd.err
    BY <1>2, <2>4 DEF ReadState
  <2>6. PlainRead(rd)'
    BY <1>1, <1>4, <2>3, <2>5 DEF PlainRead
  <2> QED
    BY <1>5, <2>2, <2>6 DEF Upto
<1> QED
  BY <1>3, <1>6, <1>7 DEF StFill

\* A flush that is not refused returns what it was asked to.
LEMMA FlushPlain ==
    ASSUME NEW hi, NEW r, Flush(hi, r), faulted' = {}
    PROVE  result' = r /\ faulted = {}
  BY DEF Flush

\* The input ended without an end marker.
LEMMA StEofPlain ==
    ASSUME Agreeing, StEof, faulted' = {}
    PROVE  Plain'
<1>1. /\ st.on /\ result = None /\ st.pos = st.lim /\ st.chunks = <<>> /\ rd.finished
      /\ Flush(st.pos, "truncated") /\ UNCHANGED <<stream, rd>> /\ DecodeInd
  BY DEF StEof, Agreeing
<1>2. result' = "truncated" /\ faulted = {}
  BY <1>1, FlushPlain
<1>3. PlainRead(rd) /\ PlainTail
  BY <1>1, <1>2 DEF Agreeing, Plain
<1>4. /\ ~st.first /\ MarkerLast(stream) /\ stream \in Seq(Unit) /\ Tailing
  BY <1>1, Running DEF Ind, RingTypeOK
<1>5. rd.pos = st.pos
  <2>1. ChainTo(st.chunks, Upto, rd.pos, Len(stream)) /\ Upto = st.lim
    BY <1>1, <1>4, FillFrom DEF Upto
  <2> QED
    BY <1>1, <2>1, ChainEmpty DEF ChainTo, EndOf
<1>6. st.pos = Len(stream) /\ Clean(stream, 0, Len(stream))
  BY <1>1, <1>3, <1>4, <1>5 DEF PlainRead, Tailing
<1>7. RefResult(stream) = "truncated"
  BY <1>3, <1>4, <1>6, CleanCut DEF PlainTail
<1> QED
  BY <1>1, <1>2, <1>3, <1>7 DEF Plain, PlainRead, None

\* The tail ends where the sequential decoder ends, and for the same reason.
LEMMA StUnitPlain ==
    ASSUME Agreeing, StUnit, faulted' = {}
    PROVE  Plain'
<1> DEFINE u == IF st.stale THEN "end" ELSE stream[st.pos + 1]
           n == st.pos + 1
           full == Produced(stream, st.flushed, n) >= StStep
           next == [st EXCEPT !.pos = n, !.flushed = IF full THEN n ELSE @]
           refused == ~st.stale /\ (u = "bad" \/ Illegal(stream, st.base, n))
<1>1. /\ st.on /\ result = None /\ st.pos < st.lim
      /\ \/ refused /\ result' = "corrupt" /\ UNCHANGED <<out, faulted, st>>
         \/ ~refused /\ u = "end" /\ Flush(st.pos, "ok") /\ UNCHANGED st
         \/ ~refused /\ u # "end" /\ full /\ Flush(n, None) /\ st' = next
         \/ ~refused /\ u # "end" /\ ~full /\ st' = next /\ UNCHANGED <<out, faulted, result>>
      /\ UNCHANGED <<stream, rd>>
  BY Zenon DEF StUnit
<1>2. /\ DecodeInd /\ ~st.first /\ MarkerLast(stream) /\ stream \in Seq(Unit)
      /\ st \in TailState /\ Tailing
      /\ st.pos \in Nat /\ st.lim \in Nat /\ st.base \in Nat /\ st.flushed \in Nat
      /\ Len(stream) \in Nat
  BY <1>1, Running DEF Agreeing, Ind, RingTypeOK
<1>3. /\ st.base <= st.flushed /\ st.flushed <= st.pos /\ st.lim <= Len(stream)
      /\ Clean(stream, 0, st.pos)
  BY <1>2 DEF Tailing
<1>4. n \in 1 .. Len(stream) /\ st.base < n /\ st.pos < Len(stream)
  BY <1>1, <1>2, <1>3
<1>5. faulted = {}
  BY <1>1, FlushPlain
<1>6. PlainRead(rd) /\ PlainTail /\ ~st.stale
  BY <1>1, <1>5 DEF Agreeing, Plain, TailFresh
<1>7. u = stream[n] /\ PlainRead(rd)'
  BY <1>1, <1>6 DEF PlainRead
<1>8. ASSUME result' = RefResult(stream), result' # None PROVE Plain'
  BY <1>1, <1>7, <1>8 DEF Plain
<1>9. ASSUME st' = next, u # "end", result' = None PROVE Plain'
  <2>1. st'.on /\ st'.pos = n /\ st'.base = st.base /\ st'.first = st.first
    BY <1>1, <1>2, <1>9 DEF TailState
  <2>2. n = Len(stream) => ~EndsMarked(stream)
    BY <1>7, <1>9 DEF EndsMarked
  <2>3. PlainTail'
    BY <1>1, <1>2, <1>6, <2>1, <2>2 DEF PlainTail
  <2> QED
    BY <1>7, <1>9, <2>1, <2>3 DEF Plain
<1>10. CASE refused /\ result' = "corrupt"
  <2>1. Broken(stream)
    <3>1. CASE u = "bad"
      BY <1>4, <1>7, <3>1 DEF Broken
    <3>2. CASE Illegal(stream, st.base, n)
      <4>1. Restart(stream, st.base)
        BY <1>2, <1>6 DEF PlainTail
      <4> QED
        BY <1>2, <1>4, <3>2, <4>1, IllegalBroken
    <3> QED
      BY <1>10, <3>1, <3>2
  <2>2. RefResult(stream) = "corrupt"
    BY <1>2, <2>1, BrokenResult
  <2> QED
    BY <1>8, <1>10, <2>2 DEF None
<1>11. CASE u = "end" /\ Flush(st.pos, "ok")
  <2>1. result' = "ok"
    BY <1>11, FlushPlain
  <2>2. RefResult(stream) = "ok"
    BY <1>2, <1>3, <1>4, <1>7, <1>11, CleanEnd
  <2> QED
    BY <1>8, <2>1, <2>2 DEF None
<1>12. CASE u # "end" /\ Flush(n, None) /\ st' = next
  BY <1>9, <1>12, FlushPlain
<1>13. CASE u # "end" /\ st' = next /\ UNCHANGED result
  BY <1>1, <1>9, <1>13
<1> HIDE DEF refused, u, n, next, full
<1> QED
  BY <1>1, <1>10, <1>11, <1>12, <1>13

-----------------------------------------------------------------------------
\* A flush adds to the output, and fails only if writes may.
LEMMA FlushGrows ==
    ASSUME Ind, st \in TailState, st.flushed = Delivered,
           NEW hi \in Nat, st.flushed <= hi, NEW r, Flush(hi, r)
    PROVE  /\ Delivered \in Nat /\ Delivered' \in Nat /\ Delivered <= Delivered'
           /\ faulted' \in {faulted, faulted \cup ({"write"} \cap Faults)}
           /\ result' = "write" \/ (result' = r /\ Delivered' = hi)
           /\ faulted' = {} => result' = r
<1>1. /\ out \in Seq([lo : Nat, hi : Nat]) /\ Gapless /\ st.flushed \in Nat
  BY DEF Ind, RingTypeOK, RingInv, TailState
<1>2. ASSUME NEW h \in Nat, out' = Append(out, [lo |-> st.flushed, hi |-> h])
      PROVE  Delivered' = h
  BY <1>1, <1>2, GaplessAppend
<1>3. CASE /\ out' = Append(out, [lo |-> st.flushed, hi |-> hi])
           /\ UNCHANGED faulted /\ result' = r
  BY <1>1, <1>2, <1>3
<1>4. CASE /\ MayFault("write") /\ result' = "write"
           /\ \E h \in st.flushed .. hi : out' = Append(out, [lo |-> st.flushed, hi |-> h])
           /\ faulted' = faulted \cup {"write"}
  <2>1. PICK h \in st.flushed .. hi : out' = Append(out, [lo |-> st.flushed, hi |-> h])
    BY <1>4
  <2>2. h \in Nat /\ st.flushed <= h
    BY <1>1
  <2>3. Delivered' = h
    BY <1>2, <2>1, <2>2
  <2> QED
    BY <1>1, <1>4, <2>2, <2>3 DEF MayFault
<1> QED
  BY <1>3, <1>4 DEF Flush

\* A step of the tail refuses only what may be refused, and adds to the output.
LEMMA TailGrows ==
    ASSUME DecodeInd, faulted \subseteq Faults, Tail0
    PROVE  /\ Delivered \in Nat /\ Delivered' \in Nat /\ Delivered <= Delivered'
           /\ faulted \subseteq faulted' /\ faulted' \subseteq Faults
<1>1. Ind /\ Delivered \in Nat
  <2>1. 0 \in Threads
    BY NumThreadsAssumption DEF Threads
  <2> QED
    BY <2>1, KeptTypes DEF DecodeInd, Ind
<1>2. CASE UNCHANGED out /\ \E k : faulted' \in {faulted, faulted \cup ({k} \cap Faults)}
  BY <1>1, <1>2 DEF Delivered
<1>3. ASSUME st.on, result = None, st.pos < st.lim \/ (st.chunks = <<>> /\ rd.finished),
             NEW hi \in {st.pos, st.pos + 1}, NEW r, Flush(hi, r)
      PROVE  /\ Delivered \in Nat /\ Delivered' \in Nat /\ Delivered <= Delivered'
             /\ faulted \subseteq faulted' /\ faulted' \subseteq Faults
  <2>1. st \in TailState /\ Tailing /\ st.pos \in Nat /\ st.flushed \in Nat
    BY <1>3, Running
  <2>2. st.flushed = Delivered /\ st.flushed <= hi /\ hi \in Nat
    BY <2>1 DEF Tailing
  <2> QED
    BY <1>1, <1>3, <2>1, <2>2, FlushGrows
<1>4. CASE JoinRing
  BY <1>2, <1>4 DEF JoinRing
<1>5. CASE StFill
  <2>1. UNCHANGED out /\ \E k : faulted' \in {faulted, faulted \cup ({k} \cap Faults)}
    BY <1>5 DEF StFill, MayFault
  <2> QED
    BY <1>2, <2>1
<1>6. CASE StEof
  BY <1>3, <1>6 DEF StEof
<1>7. CASE StUnit
  <2>1. /\ st.on /\ result = None /\ st.pos < st.lim
        /\ UNCHANGED <<out, faulted>> \/ \E r : \E hi \in {st.pos, st.pos + 1} : Flush(hi, r)
    BY <1>7, Zenon DEF StUnit
  <2> QED
    BY <1>2, <1>3, <2>1
<1> QED
  BY <1>4, <1>5, <1>6, <1>7 DEF Tail0

\* A step of the tail keeps what was found.
LEMMA TailMarks ==
    ASSUME DecodeInd, Grounded, Tail0
    PROVE  Grounded'
<1>1. UNCHANGED <<stream, blk, marked, pc>>
  BY DEF Tail0, JoinRing, StFill, StEof, StUnit
<1>2. \A t \in Threads : Busy(t)' => Busy(t)
  BY <1>1 DEF Busy, Reading, Passed
<1>3. Tail0 => [DecodeNext]_vars
  BY DEF DecodeNext
<1>4. OutInv'
  BY <1>3, DecodeStep DEF DecodeInd
<1>5. Len(stream) \in Nat /\ Delivered' <= Len(stream)
  BY <1>1, <1>4, Types DEF OutInv, DecodeInd, Ind
<1> QED
  BY <1>1, <1>2, <1>5, TailGrows, SameMarks DEF Grounded

\* The tail gets no buffer without its input but from the ring.
LEMMA TailKeepsFresh ==
    ASSUME DecodeInd, Grounded, TailFresh, Tail0
    PROVE  TailFresh'
<1>1. faulted \subseteq faulted'
  BY TailGrows DEF Grounded
<1>2. CASE JoinRing
  <2>1. /\ Joined /\ result = None /\ ~st.on /\ Ind /\ Holds /\ UNCHANGED faulted
        /\ st' = IF RunResult = None
                 THEN [NoTail EXCEPT !.on = TRUE, !.chunks = Replay]
                 ELSE st
    BY <1>2 DEF JoinRing, DecodeInd
  <2>2. CASE RunResult # None
    BY <2>1, <2>2 DEF TailFresh
  <2>3. CASE RunResult = None
    <3>1. Fine
      BY <2>3 DEF RunResult, Fine, None
    <3>2. StaleOnly(Replay, faulted)
      BY <2>1, <3>1, ReplayChain
    <3>3. st'.chunks = Replay /\ ~st'.stale
      BY <2>1, <2>3 DEF NoTail
    <3> QED
      BY <2>1, <3>2, <3>3 DEF TailFresh
  <2> QED
    BY <2>2, <2>3
<1>3. CASE StFill
  <2>1. st.on /\ result = None /\ st.pos = st.lim
    BY <1>3 DEF StFill
  <2>2. st \in TailState /\ st.chunks \in Seq(Pieces)
    BY <2>1, FillFrom
  <2>3. StaleOnly(st.chunks, faulted)
    BY <2>1 DEF TailFresh
  <2>4. CASE /\ st.chunks # <<>> /\ UNCHANGED faulted
             /\ LET c == Head(st.chunks)
                IN  st' = [st EXCEPT !.chunks = Tail(@), !.pos = c.lo, !.lim = c.hi,
                             !.stale = c.stale,
                             !.base = IF st.first THEN c.lo ELSE @,
                             !.flushed = IF st.first THEN c.lo ELSE @,
                             !.first = FALSE]
    <3>1. st'.chunks = Tail(st.chunks) /\ st'.stale = Head(st.chunks).stale
      BY <2>2, <2>4 DEF TailState
    <3> QED
      BY <2>2, <2>3, <2>4, <3>1, FreshTail DEF TailFresh
  <2>5. CASE /\ UNCHANGED faulted
             /\ st' = [st EXCEPT !.pos = rd.pos,
                         !.lim = rd.pos + Min2(StBufSize, Len(stream) - rd.pos),
                         !.stale = FALSE, !.held = TRUE,
                         !.base = IF st.first THEN rd.pos ELSE @,
                         !.flushed = IF st.first THEN rd.pos ELSE @,
                         !.first = FALSE]
    <3>1. st'.chunks = st.chunks /\ ~st'.stale
      BY <2>2, <2>5 DEF TailState
    <3> QED
      BY <2>3, <2>5, <3>1 DEF TailFresh
  <2>6. CASE UNCHANGED st
    BY <1>1, <2>1, <2>6, StillFresh
  <2> QED
    BY <1>3, <2>4, <2>5, <2>6 DEF StFill
<1>4. CASE StEof
  <2>1. st.on /\ UNCHANGED st
    BY <1>4 DEF StEof
  <2> QED
    BY <1>1, <2>1, StillFresh
<1>5. CASE StUnit
  <2>1. st.on /\ result = None /\ st.pos < st.lim
    BY <1>5 DEF StUnit
  <2>2. st \in TailState
    BY <2>1, Running
  <2>3. UNCHANGED st \/ \E p, q : st' = [st EXCEPT !.pos = p, !.flushed = q]
    BY <1>5, Zenon DEF StUnit
  <2>4. st'.chunks = st.chunks /\ st'.stale = st.stale
    BY <2>2, <2>3 DEF TailState
  <2> QED
    BY <1>1, <2>1, <2>4, StillFresh
<1> QED
  BY <1>2, <1>3, <1>4, <1>5 DEF Tail0

\* The ring refuses nothing for good: what was refused is remembered.
LEMMA RingFaults ==
    ASSUME Ind, Holds, RingNext
    PROVE  faulted \subseteq faulted'
<1>1. CASE UNCHANGED faulted
  BY <1>1
<1>2. CASE \E t \in Threads : ReadLink(t) \/ PassRead(t)
  BY <1>2, FaultsGrow
<1>3. CASE \E t \in Threads : Write(t)
  BY <1>3, WriteDisposes DEF Disposed
<1> QED
  BY <1>1, <1>2, <1>3 DEF RingNext, Step, ReadBegin, CodeLink, RunReturn

\* While the ring runs the tail does not.
LEMMA RingAgrees ==
    ASSUME Agreeing, RingNext, UNCHANGED <<result, st>>
    PROVE  Agreeing'
<1>1. /\ ~st.on /\ result = None /\ Ind /\ Holds /\ Grounded /\ DecodeInd
  BY JoinedQuiet DEF Agreeing, DecodeInd, TailInv
<1>2. UNCHANGED stream
  BY DEF RingNext, Step, ReadBegin, ReadLink, PassRead, CodeLink, Write, RunReturn
<1>3. DecodeInd' /\ Grounded'
  BY <1>1, RingStep, RingMarks
<1>4. TailFresh'
  BY <1>1 DEF TailFresh
<1>5. ASSUME faulted' = {} PROVE Plain'
  <2>1. faulted = {}
    BY <1>1, <1>5, RingFaults
  <2>2. Smooth
    BY <1>1, <2>1 DEF Agreeing, Plain, Smooth
  <2>3. Smooth'
    BY <1>1, <1>5, <2>2, RingPlain
  <2> QED
    BY <1>1, <2>3 DEF Smooth, Plain
<1> QED
  BY <1>2, <1>3, <1>4, <1>5 DEF Agreeing

\* The tail keeps the agreement.
LEMMA TailAgrees ==
    ASSUME Agreeing, Tail0
    PROVE  Agreeing'
<1>1. DecodeInd /\ Grounded /\ TailFresh
  BY DEF Agreeing
<1>2. UNCHANGED stream
  BY DEF Tail0, JoinRing, StFill, StEof, StUnit
<1>3. DecodeInd'
  BY <1>1, DecodeStep DEF DecodeNext
<1>4. Grounded' /\ TailFresh'
  BY <1>1, TailMarks, TailKeepsFresh
<1>5. faulted' = {} => Plain'
  BY JoinRingPlain, StFillPlain, StEofPlain, StUnitPlain DEF Tail0
<1> QED
  BY <1>2, <1>3, <1>4, <1>5 DEF Agreeing

\* Neither a stuttering step nor the end of decode changes anything.
LEMMA StutterAgrees ==
    ASSUME Agreeing, UNCHANGED vars
    PROVE  Agreeing'
<1>1. /\ st' = st /\ result' = result
      /\ UNCHANGED <<stream, canRead, canWrite, exit, rd, wr, prog>>
      /\ UNCHANGED <<pc, blk, bufs, coder, out, marked, faulted>>
  BY DEF vars, ringVars
<1>2. DecodeInd' /\ Delivered' = Delivered
  BY <1>1, DecodeStutter DEF Agreeing, Delivered
<1>3. Grounded' /\ TailFresh'
  BY <1>1, <1>2 DEF Agreeing, Grounded, MarkInv, MarkBlocks, Marker, Busy, Reading, Passed,
     TailFresh
<1>4. PlainRing => PlainRing'
  <2>1. SUFFICES ASSUME PlainRing PROVE PlainRing'
    OBVIOUS
  <2>2. ASSUME NEW t \in Threads, Busy(t)' PROVE PlainBlock(t)'
    <3>1. PlainBlock(t)
      BY <1>1, <2>1, <2>2 DEF PlainRing, Busy, Reading, Passed
    <3>2. PlainData(blk[t])' /\ (Left(blk[t]) => Left(blk[t])')
      BY <1>1, <3>1 DEF PlainBlock, PlainData, Left
    <3> QED
      BY <1>1, <3>1, <3>2 DEF PlainBlock, Passed
  <2>3. ASSUME NEW t \in Threads, Expects(t)' PROVE StartOk(stream, Frontier, rd.outParse)'
    BY <1>1, <2>1, <2>3 DEF PlainRing, Expects, Live, Frontier
  <2>4. PlainWrite'
    BY <1>1, <2>1, WriteStands DEF PlainRing
  <2> QED
    BY <1>1, <2>1, <2>2, <2>3, <2>4 DEF PlainRing
<1>5. (faulted = {} => Plain)'
  BY <1>1, <1>2, <1>4 DEF Agreeing, Plain, PlainRead, PlainTail
<1> QED
  BY <1>1, <1>2, <1>3, <1>5 DEF Agreeing

\* Nothing is wrong when decode starts.
LEMMA InitAgrees ==
    ASSUME DecodeInit, \A s \in Streams : MarkerLast(s),
           \A s \in Streams : ValidStream(s) => ~WholeBuffers(Len(s))
    PROVE  Agreeing
<1>1. /\ DecodeInd /\ Init /\ result = None /\ st = NoTail
      /\ RingTypeOK /\ Len(stream) \in Nat
  BY DecodeInitInd, Types DEF DecodeInit, DecodeInd, Ind
<1>2. /\ stream \in Streams /\ out = <<>> /\ marked = FALSE /\ faulted = {}
      /\ rd.pos = 0 /\ rd.crossLo = 0 /\ rd.crossHi = 0 /\ ~rd.finished /\ ~rd.err
      /\ rd.outParse = 0
      /\ ~wr.err /\ wr.codeRes = None /\ wr.outDone = 0
      /\ \A t \in Threads : pc[t] \in {"wait_read", "off"}
  BY <1>1 DEF Init
<1>3. Delivered = 0 /\ Frontier = 0
  BY <1>2 DEF Delivered, Frontier
<1>4. \A t \in Threads : ~Busy(t) /\ pc[t] # "read" /\ pc[t] # "pass"
  BY <1>2 DEF Busy, Reading, Passed
<1>5. Restart(stream, 0)
  BY <1>1 DEF Restart, EndsMarked
<1>6. Produced(stream, 0, 0) = 0
  BY ProducedNone
<1>7. PlainWrite
  BY <1>2, <1>3, <1>5, <1>6 DEF PlainWrite
<1>8. WholeBuffers(rd.pos)
  <2>1. 0 = 0 * InBufSize
    BY InBufSizeAssumption
  <2> QED
    BY <1>2, <2>1 DEF WholeBuffers
<1>9. PlainRing
  BY <1>2, <1>3, <1>4, <1>5, <1>6, <1>7, <1>8 DEF PlainRing, StartOk
<1>10. Plain
  BY <1>1, <1>2, <1>9 DEF Plain, PlainRead, NoTail
<1>11. Grounded
  BY <1>2, <1>4 DEF Grounded, MarkInv, MarkBlocks
<1> QED
  BY <1>1, <1>2, <1>10, <1>11 DEF Agreeing, TailFresh, NoTail

\* Every step of decode keeps Agreeing.
LEMMA AgreesStep ==
    ASSUME Agreeing, [DecodeNext]_vars
    PROVE  Agreeing'
  BY RingAgrees, TailAgrees, StutterAgrees DEF DecodeNext, Terminated

-----------------------------------------------------------------------------
\* Agreeing is an inductive invariant of decode, if nothing follows the end
\* marker of a stream and no end marker is the last unit of a full buffer.
THEOREM AgreeingInductive ==
    ASSUME \A s \in Streams : MarkerLast(s),
           \A s \in Streams : ValidStream(s) => ~WholeBuffers(Len(s))
    PROVE  DecodeSpec => []Agreeing
<1>1. DecodeInit => Agreeing
  BY InitAgrees
<1>2. Agreeing /\ [DecodeNext]_vars => Agreeing'
  BY AgreesStep
<1>3. QED
  BY <1>1, <1>2, PTL DEF DecodeSpec

\* For every number of threads, buffer size, step and interleaving: when the
\* environment refuses nothing, decode answers what the sequential decoder
\* answers; if nothing follows the end marker of a stream and no end marker is
\* the last unit of a full buffer.
THEOREM Agreement ==
    ASSUME \A s \in Streams : MarkerLast(s),
           \A s \in Streams : ValidStream(s) => ~WholeBuffers(Len(s))
    PROVE  DecodeSpec => []AgreesWithSequential
<1>1. DecodeSpec => []Agreeing
  BY AgreeingInductive
<1>2. Agreeing => AgreesWithSequential
  BY DEF Agreeing, Plain, AgreesWithSequential
<1>3. QED
  BY <1>1, <1>2, PTL

-----------------------------------------------------------------------------
\* The stream and the reference are the same for the promise.
LEMMA SameReference ==
    ASSUME NEW s
    PROVE  /\ P!RefLen(s) = RefLen(s) /\ P!RefResult(s) = RefResult(s)
           /\ P!ValidStream(s) <=> ValidStream(s)
<1>1. \A lo, hi : P!Produced(s, lo, hi) = Produced(s, lo, hi)
  BY DEF P!Produced, Produced, P!Payload, Payload, P!Cardinality, Cardinality
<1>2. P!GoodTo(s) = GoodTo(s)
  BY DEF P!GoodTo, GoodTo, P!Breaks, Breaks, P!Illegal, Illegal, P!Payload, Payload
<1> QED
  BY <1>1, <1>2 DEF P!RefLen, RefLen, P!RefResult, RefResult, P!ValidStream, ValidStream

\* Success means that all of a valid stream was delivered, whatever else was
\* refused than a coder.
LEMMA OkIsWhole ==
    ASSUME Agreeing, Tail0, result' = "ok", "coder" \notin Faults
    PROVE  ValidStream(stream) /\ Produced(stream, 0, Delivered') = RefLen(stream)
<1>1. /\ MarkerLast(stream) /\ stream \in Seq(Unit) /\ wr \in WriteState /\ OutInv
      /\ DecodeInd /\ MarkInv /\ "coder" \notin faulted
  BY DEF Agreeing, Grounded, DecodeInd, Ind, RingTypeOK
<1>2. CASE JoinRing
  <2>1. RunResult = "ok" /\ UNCHANGED out
    BY <1>2 DEF JoinRing
  <2>2. wr.codeRes # "ok"
    BY <1>1 DEF WriteState, CodeError, None
  <2>3. marked
    BY <2>1, <2>2 DEF RunResult, None
  <2>4. Delivered = Len(stream) /\ EndsMarked(stream) /\ Delivered' = Delivered
    BY <1>1, <2>1, <2>3 DEF MarkInv, Delivered
  <2> QED
    BY <1>1, <2>4, CleanMarked DEF OutInv
<1>3. CASE StFill
  BY <1>3 DEF StFill, None
<1>4. CASE StEof
  <2>1. /\ st.on /\ result = None /\ st.chunks = <<>> /\ rd.finished
        /\ Flush(st.pos, "truncated")
    BY <1>4 DEF StEof
  <2> QED
    BY <2>1 DEF Flush
<1>5. CASE StUnit
  <2> DEFINE n == st.pos + 1
  <2>1. /\ st.on /\ result = None /\ st.pos < st.lim
    BY <1>5 DEF StUnit
  <2>2. ~st.stale
    BY <1>1, <2>1 DEF Agreeing, TailFresh
  <2>3. \/ stream[n] = "end" /\ Flush(st.pos, "ok")
        \/ Flush(n, None)
        \/ UNCHANGED result
        \/ result' = "corrupt"
    BY <1>5, <2>2, Zenon DEF StUnit
  <2>4. ~Flush(n, None)
    BY DEF Flush, None
  <2>5. stream[n] = "end" /\ Flush(st.pos, "ok")
    BY <2>1, <2>3, <2>4 DEF None
  <2>6. /\ Ind /\ st \in TailState /\ Tailing
        /\ st.pos \in Nat /\ st.lim \in Nat /\ st.flushed \in Nat /\ Len(stream) \in Nat
    BY <1>1, <2>1, Running
  <2>7. /\ st.flushed = Delivered /\ st.flushed <= st.pos /\ st.pos < Len(stream)
        /\ Clean(stream, 0, st.pos)
    BY <2>1, <2>6 DEF Tailing
  <2>8. Delivered' = st.pos
    BY <2>5, <2>6, <2>7, FlushGrows
  <2> QED
    BY <1>1, <2>5, <2>6, <2>7, <2>8, CleanEnd
<1> QED
  BY <1>2, <1>3, <1>4, <1>5 DEF Tail0

\* What was delivered grows, and never beyond the sequential decoder's output.
LEMMA DeliveredGrows ==
    ASSUME Agreeing, Agreeing', UNCHANGED stream, Delivered \in Nat, Delivered' \in Nat,
           Delivered <= Delivered'
    PROVE  Produced(stream, 0, Delivered') \in
              Produced(stream, 0, Delivered) .. RefLen(stream)
<1>1. /\ stream \in Seq(Unit) /\ MarkerLast(stream) /\ OutInv'
      /\ Len(stream) \in Nat
  BY Types DEF Agreeing, DecodeInd, Ind, RingTypeOK
<1>2. Delivered' \in 0 .. Len(stream) /\ Clean(stream, 0, Delivered')
  BY <1>1 DEF OutInv
<1>3. Produced(stream, 0, Delivered') <= RefLen(stream)
  BY <1>1, <1>2, CleanPrefix
<1>4. Produced(stream, 0, Delivered) <= Produced(stream, 0, Delivered')
  BY ProducedGrows
<1>5. /\ Produced(stream, 0, Delivered) \in Nat /\ Produced(stream, 0, Delivered') \in Nat
      /\ RefLen(stream) \in Nat
  BY <1>1, ProducedNat, RefFacts
<1> QED
  BY <1>3, <1>4, <1>5

\* Every step of decode is one of the promise, or changes nothing it speaks of.
LEMMA PromiseStep ==
    ASSUME Agreeing, [DecodeNext]_vars, "coder" \notin Faults
    PROVE  [P!Proceed \/ P!Return]_(P!promiseVars)
<1>1. Agreeing' /\ UNCHANGED stream
  <2>1. Agreeing'
    BY AgreesStep
  <2>2. UNCHANGED stream
    BY DEF DecodeNext, Terminated, Tail0, JoinRing, StFill, StEof, StUnit, RingNext, Step,
           ReadBegin, ReadLink, PassRead, CodeLink, Write, RunReturn, vars, ringVars
  <2> QED
    BY <2>1, <2>2
<1>2. ASSUME result = None, Delivered \in Nat, Delivered' \in Nat, Delivered <= Delivered',
             faulted \subseteq faulted',
             result' = "ok" => ValidStream(stream) /\
                               Produced(stream, 0, Delivered') = RefLen(stream)
      PROVE  P!Proceed \/ P!Return
  <2>1. Produced(stream, 0, Delivered') \in
              Produced(stream, 0, Delivered) .. P!RefLen(stream)
    BY <1>1, <1>2, DeliveredGrows, SameReference
  <2>2. CASE result' = None
    BY <1>1, <1>2, <2>1, <2>2 DEF P!Proceed, None
  <2>3. CASE result' # None
    <3>1. result' # P!RefResult(stream) => faulted' # {}
      BY <1>1, <2>3, SameReference DEF Agreeing, Plain
    <3>2. result' = "ok" => /\ P!ValidStream(stream)
                            /\ Produced(stream, 0, Delivered') = P!RefLen(stream)
      BY <1>2, SameReference
    <3> QED
      BY <1>1, <1>2, <2>1, <2>3, <3>1, <3>2 DEF P!Return, None
  <2> QED
    BY <2>2, <2>3
<1>3. CASE RingNext /\ UNCHANGED <<result, st>>
  <2>1. /\ ~st.on /\ result = None /\ Ind /\ Holds
    BY <1>3, JoinedQuiet DEF Agreeing, DecodeInd, TailInv
  <2> QED
    BY <1>2, <1>3, <2>1, RingGrows, RingFaults DEF None
<1>4. CASE Tail0
  <2>1. result = None
    BY <1>4 DEF Tail0, JoinRing, StFill, StEof, StUnit
  <2>2. /\ Delivered \in Nat /\ Delivered' \in Nat /\ Delivered <= Delivered'
        /\ faulted \subseteq faulted'
    BY <1>4, TailGrows DEF Agreeing, Grounded
  <2> QED
    BY <1>2, <1>4, <2>1, <2>2, OkIsWhole
<1>5. CASE UNCHANGED vars
  <2>1. UNCHANGED <<stream, result, faulted>> /\ Delivered' = Delivered
    BY <1>5 DEF vars, ringVars, Delivered
  <2> QED
    BY <2>1 DEF P!promiseVars
<1> QED
  BY <1>3, <1>4, <1>5 DEF DecodeNext, Terminated

\* decode starts as promised.
LEMMA PromiseStart ==
    ASSUME DecodeInit
    PROVE  P!PromiseInit
<1>1. stream \in Streams /\ out = <<>> /\ faulted = {} /\ result = None
  BY DEF DecodeInit, Init
<1>2. Produced(stream, 0, Delivered) = 0
  BY <1>1, ProducedNone DEF Delivered
<1> QED
  BY <1>1, <1>2 DEF P!PromiseInit, None

\* The threads, the blocks and the single-threaded tail together do nothing
\* that DecodePromise does not allow, whatever the environment refuses but a
\* coder: the output grows along that of the sequential decoder, success means
\* that all of a valid stream was delivered, and any other answer than the
\* sequential decoder's needs something that was refused.
THEOREM ImplementsPromise ==
    ASSUME \A s \in Streams : MarkerLast(s),
           \A s \in Streams : ValidStream(s) => ~WholeBuffers(Len(s)),
           "coder" \notin Faults
    PROVE  DecodeSpec => P!PromiseInit /\ [][P!Proceed \/ P!Return]_(P!promiseVars)
<1>1. DecodeSpec => []Agreeing
  BY AgreeingInductive
<1>2. DecodeInit => P!PromiseInit
  BY PromiseStart
<1>3. Agreeing /\ [DecodeNext]_vars => [P!Proceed \/ P!Return]_(P!promiseVars)
  BY PromiseStep
<1>4. QED
  BY <1>1, <1>2, <1>3, PTL DEF DecodeSpec

=============================================================================
