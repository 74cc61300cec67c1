------------------------------- MODULE LzmaDec -------------------------------
(***************************************************************************)
(* The LZMA decoder (lzma/mod.rs, decode.rs, dummy.rs), as operators on    *)
(* its record.  A call is given some input and some room and must stop     *)
(* wherever either ends, in the middle of a symbol or of a match, and go   *)
(* on from there.  The loop that decodes does not look for the end of its  *)
(* input: near it, a dry run of one symbol (TryDummy) finds out first how  *)
(* many bytes the symbol takes, and what is too short for a symbol is kept *)
(* in temp until the next call.                                            *)
(*                                                                         *)
(* A walk w reads one buffer: its own range and code, the place pos in     *)
(* buf, the last bit and the symbol so far.  eof is set when a read falls  *)
(* outside buf: the dry run stops there, the unchecked loop goes on with   *)
(* whatever byte is there (here 0), and over remembers that it did so.     *)
(***************************************************************************)
EXTENDS LzmaConsts, Sequences

CONSTANTS
    RequiredMax,  \* LZMA_REQUIRED_INPUT_MAX: bytes one symbol may take, 20
    DicRound      \* dictionaries are allocated in multiples of this

RcInitSize == 5

DicBufSize == ((DictSize + DicRound - 1) \div DicRound) * DicRound

\* The table of probabilities is flat.
LenLow     == 0
LenHigh    == LenLow + 2 * (16 * LowSymbols)
NumLenProbs == LenHigh + 2^HighBits
LenChoice  == LenLow
LenChoice2 == LenLow + LowSymbols
SpecPos    == 0
IsRep0Long == SpecPos + FullDistances
RepLenCoder == IsRep0Long + 16 * 16
LenCoder   == RepLenCoder + NumLenProbs
IsMatch    == LenCoder + NumLenProbs
Align      == IsMatch + 16 * 16
IsRep      == Align + 2^AlignBits
IsRepG0    == IsRep + NumStates
IsRepG1    == IsRepG0 + NumStates
IsRepG2    == IsRepG1 + NumStates
PosSlotAt  == IsRepG2 + NumStates
Literal    == PosSlotAt + LenToPosStates * 2^SlotBits

\* K_BAD_REP_CODE: from here on the first symbol would be a repeat.
BadRepCode ==
    LET bound0 == ((Word - 1) \div ProbTotal) * ProbInit
    IN  bound0 + ((Word - 1 - bound0) \div ProbTotal) * ProbInit

InitDicAndState(d, initDic, initState) ==
    [d EXCEPT !.remain = IF initDic \/ initState THEN SpecLenStart + 2 ELSE SpecLenStart + 1,
              !.temp = <<>>,
              !.processed = IF initDic THEN 0 ELSE @,
              !.checkDic  = IF initDic THEN 0 ELSE @]

ResetState(d) == [d EXCEPT !.probs = <<>>, !.reps = <<1, 1, 1, 1>>, !.state = 0]

DecStart ==
    InitDicAndState([range |-> 0, code |-> 0, probs |-> <<>>, state |-> 0,
                     reps |-> <<0, 0, 0, 0>>, dic |-> [i \in 0 .. DicBufSize - 1 |-> 0],
                     dicPos |-> 0, processed |-> 0, checkDic |-> 0, remain |-> 0,
                     temp |-> <<>>, over |-> FALSE], TRUE, TRUE)

-----------------------------------------------------------------------------
(***************************************************************************)
(* Bits.  real: the walk of the decoding loop, which updates the           *)
(* probabilities; otherwise the dry run, which does not.                   *)
(***************************************************************************)
Walk(d, buf, real) ==
    [range |-> d.range, code |-> d.code, probs |-> d.probs, buf |-> buf, pos |-> 0,
     real |-> real, eof |-> FALSE, bit |-> 0, sym |-> 1]

Normalize(w) ==
    LET inside == w.pos < Len(w.buf)
    IN  IF w.range >= Top THEN w
        ELSE IF ~w.real /\ ~inside THEN [w EXCEPT !.eof = TRUE]
        ELSE [w EXCEPT !.range = @ * Byte, !.pos = @ + 1, !.eof = @ \/ ~inside,
                       !.code = ((@ * Byte) % Word) + IF inside THEN w.buf[w.pos + 1] ELSE 0]

GetBit(w, i) ==
    LET n     == Normalize(w)
        ttt   == ProbOf(n.probs, i)
        bound == (n.range \div ProbTotal) * ttt
        zero  == n.code < bound
    IN  [n EXCEPT !.bit   = IF zero THEN 0 ELSE 1,
                  !.range = IF zero THEN bound ELSE @ - bound,
                  !.code  = IF zero THEN @ ELSE @ - bound,
                  !.probs = IF ~n.real THEN @
                            ELSE (i :> IF zero THEN ttt + (ProbTotal - ttt) \div 2^MoveBits
                                               ELSE ttt - ttt \div 2^MoveBits) @@ @]

RECURSIVE TreeDown(_, _, _)
TreeDown(w, at, limit) ==
    IF w.sym >= limit THEN w
    ELSE LET b == GetBit(w, at + w.sym)
         IN  TreeDown([b EXCEPT !.sym = 2 * @ + b.bit], at, limit)

\* A tree of limit leaves; the symbol is left in sym.
TreeDecode(w, at, limit) ==
    LET t == TreeDown([w EXCEPT !.sym = 1], at, limit) IN [t EXCEPT !.sym = @ - limit]

RECURSIVE MatchedDown(_, _, _, _)
MatchedDown(w, at, matchByte, offs) ==
    IF w.sym >= Byte THEN w
    ELSE LET mb   == (2 * matchByte)
             set  == IF offs # 0 /\ (mb \div Byte) % 2 = 1 THEN Byte ELSE 0
             b    == GetBit(w, at + set + offs + w.sym)
             next == IF b.bit = 1 THEN set ELSE IF set = offs THEN 0 ELSE Byte
         IN  MatchedDown([b EXCEPT !.sym = 2 * @ + b.bit], at, mb, next)

MatchedDecode(w, at, matchByte) ==
    LET t == MatchedDown([w EXCEPT !.sym = 1], at, matchByte, Byte)
    IN  [t EXCEPT !.sym = @ - Byte]

\* REV_BIT_VAR: sym is the index i, m the weight of the next bit.
RECURSIVE ReverseDown(_, _, _, _)
ReverseDown(w, at, m, n) ==
    IF n = 0 THEN [w EXCEPT !.sym = @ - m]
    ELSE LET b == GetBit(w, at + w.sym)
         IN  ReverseDown([b EXCEPT !.sym = @ + m + m * b.bit], at, 2 * m, n - 1)

RECURSIVE DirectDown(_, _)
DirectDown(w, n) ==
    IF n = 0 THEN w
    ELSE LET z    == Normalize(w)
             half == z.range \div 2
             bit  == IF z.code >= half THEN 1 ELSE 0
         IN  DirectDown([z EXCEPT !.range = half, !.code = @ - half * bit,
                                  !.sym = 2 * @ + bit], n - 1)

LenDecode(w, at, posState) ==
    LET c == GetBit(w, at + LenChoice)
        c2 == GetBit(c, at + LenChoice2)
    IN  IF c.bit = 0 THEN TreeDecode(c, at + LenLow + posState, LowSymbols)
        ELSE LET t == IF c2.bit = 0
                      THEN TreeDecode(c2, at + LenLow + posState + LowSymbols, LowSymbols)
                      ELSE TreeDecode(c2, at + LenHigh, 2^HighBits)
             IN  [t EXCEPT !.sym = @ + IF c2.bit = 0 THEN LowSymbols ELSE 2 * LowSymbols]

\* The distance of a match, after its slot; used by the loop (a place SpecPos in
\* the table is reached through the distance itself).
DistanceDecode(w, len) ==
    LET s    == TreeDecode(w, PosSlotAt + Lesser(len, LenToPosStates - 1) * 2^SlotBits, 2^SlotBits)
        slot == s.sym
        n    == slot \div 2 - 1
        top  == 2 + (slot % 2)
        far  == DirectDown([s EXCEPT !.sym = top], n - AlignBits)
        low  == ReverseDown([far EXCEPT !.sym = 1], Align, 1, AlignBits)
    IN  IF slot < StartPosModel THEN s
        ELSE IF slot < EndPosModel
        THEN ReverseDown([s EXCEPT !.sym = top * 2^n + 1], SpecPos, 1, n)
        ELSE [low EXCEPT !.sym = far.sym * 2^AlignBits + @]

-----------------------------------------------------------------------------
Behind(d, n) == IF d.dicPos < n THEN d.dicPos - n + DicBufSize ELSE d.dicPos - n

\* n bytes from rep0 back, each one readable by the next.
CopyMatch(d, n) ==
    LET rep0 == d.reps[1]
        src  == Behind(d, rep0)
    IN  [d EXCEPT !.dic = [i \in DOMAIN @ |->
                             IF i \in d.dicPos .. d.dicPos + n - 1
                             THEN @[(src + ((i - d.dicPos) % rep0)) % DicBufSize] ELSE @[i]],
                  !.dicPos = @ + n, !.processed = @ + n]

PutByte(d, b) == [d EXCEPT !.dic[d.dicPos] = b, !.dicPos = @ + 1, !.processed = @ + 1]

LiteralAt(d) ==
    Literal + IF d.processed # 0 \/ d.checkDic # 0
              THEN LitTable(d.processed, d.dic[(IF d.dicPos = 0 THEN DicBufSize ELSE d.dicPos) - 1])
              ELSE 0

PosState(d) == (d.processed % 2^Pb) * 16

-----------------------------------------------------------------------------
(***************************************************************************)
(* lzma_dec_try_dummy: one symbol without touching the decoder.  Only its  *)
(* kind and the bytes it takes are wanted, so the distance of a match is   *)
(* walked and not computed.                                                *)
(***************************************************************************)
DummyDistance(w, len) ==
    LET s    == TreeDecode(w, PosSlotAt + (IF len < LenToPosStates - 1 THEN len
                                           ELSE LenToPosStates - 1) * 2^SlotBits, 2^SlotBits)
        slot == s.sym
        n    == slot \div 2 - 1
    IN  IF slot < StartPosModel THEN s
        ELSE IF slot < EndPosModel
        THEN ReverseDown([s EXCEPT !.sym = 1], SpecPos + (2 + (slot % 2)) * 2^n, 1, n)
        ELSE ReverseDown([DirectDown(s, n - AlignBits) EXCEPT !.sym = 1], Align, 1, AlignBits)

DummyLiteral(d, w) ==
    LET prev == d.dic[(IF d.dicPos = 0 THEN DicBufSize ELSE d.dicPos) - 1]
        at   == Literal + IF d.checkDic # 0 \/ d.processed # 0
                          THEN 3 * Byte * ((d.processed % 2^Lp) * 2^Lc + prev \div 2^(ByteBits - Lc))
                          ELSE 0
    IN  IF d.state < NumLitStates THEN TreeDecode(w, at, Byte)
        ELSE MatchedDecode(w, at, d.dic[Behind(d, d.reps[1])])

DummyRep(d, w) ==
    LET s  == d.state
        ps == PosState(d)
        g0 == GetBit(w, IsRepG0 + s)
        long == GetBit(g0, IsRep0Long + ps + s)
        g1 == GetBit(g0, IsRepG1 + s)
        g  == IF g0.bit = 0 THEN long
              ELSE IF g1.bit = 0 THEN g1 ELSE GetBit(g1, IsRepG2 + s)
    IN  IF g0.bit = 0 /\ long.bit = 0 THEN long ELSE LenDecode(g, RepLenCoder, ps)

TryDummy(d, buf) ==
    LET ps    == PosState(d)
        m     == GetBit(Walk(d, buf, FALSE), IsMatch + ps + d.state)
        r     == GetBit(m, IsRep + d.state)
        l     == LenDecode(r, LenCoder, ps)
        kind  == IF m.bit = 0 THEN "lit" ELSE IF r.bit = 0 THEN "match" ELSE "rep"
        w     == Normalize(CASE kind = "lit"   -> DummyLiteral(d, m)
                             [] kind = "match" -> DummyDistance(l, l.sym)
                             [] kind = "rep"   -> DummyRep(d, r))
    IN  [kind |-> IF w.eof THEN "eof" ELSE kind, len |-> w.pos]

-----------------------------------------------------------------------------
(***************************************************************************)
(* lzma_dec_decode_real: symbols until the room or the vouched-for input   *)
(* is used up.  One symbol gives the decoder, the walk, the length still   *)
(* to copy (or a mark or an error in its place) and whether to stop.       *)
(***************************************************************************)
Symbol(d, w, len, stop) == [d |-> d, w |-> w, len |-> len, stop |-> stop]

RealLiteral(d, w) ==
    LET at == LiteralAt(d)
        l  == IF d.state < NumLitStates THEN TreeDecode(w, at, Byte)
              ELSE MatchedDecode(w, at, d.dic[Behind(d, d.reps[1])])
        s  == IF d.state < NumLitStates THEN (IF d.state < 4 THEN 0 ELSE d.state - 3)
              ELSE IF d.state < 10 THEN d.state - 3 ELSE d.state - 6
    IN  Symbol(PutByte([d EXCEPT !.state = s], l.sym), l, 0, FALSE)

\* The copy at the end of a symbol: as much of it as there is room for.
CopyLen(d, w, len, limit) ==
    LET rem == limit - d.dicPos
        n   == Lesser(rem, len)
    IN  IF rem = 0 THEN Symbol(d, w, len, TRUE) ELSE Symbol(CopyMatch(d, n), w, len - n, FALSE)

RealRep(d, w, limit) ==
    LET s    == d.state
        ps   == PosState(d)
        g0   == GetBit(w, IsRepG0 + s)
        long == GetBit(g0, IsRep0Long + ps + s)
        g1   == GetBit(g0, IsRepG1 + s)
        g2   == GetBit(g1, IsRepG2 + s)
        r    == d.reps
        pick == IF g0.bit = 0 THEN [w |-> long, reps |-> r]
                ELSE IF g1.bit = 0 THEN [w |-> g1, reps |-> <<r[2], r[1], r[3], r[4]>>]
                ELSE IF g2.bit = 0 THEN [w |-> g2, reps |-> <<r[3], r[1], r[2], r[4]>>]
                ELSE [w |-> g2, reps |-> <<r[4], r[1], r[2], r[3]>>]
        l    == LenDecode(pick.w, RepLenCoder, ps)
    IN  IF g0.bit = 0 /\ long.bit = 0
        THEN Symbol(PutByte([d EXCEPT !.state = IF s < NumLitStates THEN 9 ELSE 11],
                            d.dic[Behind(d, d.reps[1])]), long, 0, FALSE)
        ELSE CopyLen([d EXCEPT !.state = IF s < NumLitStates THEN 8 ELSE 11, !.reps = pick.reps],
                     l, l.sym + MatchMin, limit)

RealMatch(d, w, limit) ==
    LET l  == LenDecode(w, LenCoder, PosState(d))
        t  == DistanceDecode(l, l.sym)
        d1 == [d EXCEPT !.reps = <<t.sym + 1>> \o SubSeq(@, 1, 3),
                        !.state = IF @ < NumLitStates THEN NumLitStates ELSE NumLitStates + 3]
    IN  IF t.sym = LastDistance THEN Symbol(d, t, SpecLenStart, TRUE)
        ELSE IF t.sym >= (IF d.checkDic = 0 THEN d.processed ELSE d.checkDic)
        THEN Symbol(d1, t, l.sym + ErrorData + MatchMin, TRUE)
        ELSE CopyLen(d1, t, l.sym + MatchMin, limit)

RealSymbol(d, w, limit) ==
    LET m == GetBit(w, IsMatch + PosState(d) + d.state)
        r == GetBit(m, IsRep + d.state)
    IN  IF m.bit = 0 THEN RealLiteral(d, m)
        ELSE IF r.bit = 1 THEN RealRep(d, r, limit)
        ELSE RealMatch(d, r, limit)

RECURSIVE RealLoop(_, _, _, _)
RealLoop(d, w, limit, bufLimit) ==
    LET s == RealSymbol(d, w, limit)
    IN  IF s.stop \/ ~(s.d.dicPos < limit /\ s.w.pos < bufLimit) THEN s
        ELSE RealLoop(s.d, s.w, limit, bufLimit)

DecodeReal(d, limit, buf, bufLimit) ==
    LET s == RealLoop(d, Walk(d, buf, TRUE), limit, bufLimit)
        w == Normalize(s.w)
    IN  [d |-> [s.d EXCEPT !.range = w.range, !.code = w.code, !.probs = w.probs,
                           !.remain = s.len, !.over = @ \/ w.eof],
         used |-> w.pos, ok |-> s.len < ErrorData]

\* lzma_dec_decode_real2: the loop stops where checkDicSize has to change.
DecodeReal2(d, limit, buf, bufLimit) ==
    LET lim == IF d.checkDic = 0 THEN Lesser(limit, d.dicPos + DictSize - d.processed) ELSE limit
        r   == DecodeReal(d, lim, buf, bufLimit)
    IN  [r EXCEPT !.d.checkDic = IF @ = 0 /\ r.d.processed >= DictSize THEN DictSize ELSE @]

WriteRem(d, limit) ==
    LET n == Lesser(d.remain, limit - d.dicPos)
    IN  IF n = 0 THEN d
        ELSE LET c == CopyMatch(d, n)
             IN  [c EXCEPT !.remain = @ - n,
                           !.checkDic = IF @ = 0 /\ DictSize - d.processed <= n
                                        THEN DictSize ELSE @]

-----------------------------------------------------------------------------
(***************************************************************************)
(* lzma_dec_decode_to_dic: one call, with dicLimit as the room.  The       *)
(* answer: the decoder, the bytes read, the status, and the error.         *)
(***************************************************************************)
Return(d, read, status) == [d |-> d, read |-> read, status |-> status, err |-> "none"]
Fails(d, read, err) == [d |-> d, read |-> read, status |-> "none", err |-> err]

Internal(d, read) == Fails([d EXCEPT !.remain = ErrorFail], read, "internal")

From(src, pos) == SubSeq(src, pos + 1, Len(src))

\* A symbol decoded from buf, of which skip bytes were in temp already.
AfterReal(r, read, skip) ==
    LET d == [r.d EXCEPT !.temp = <<>>]
    IN  IF r.ok THEN Return(d, read + r.used - skip, "go")
        ELSE Fails([d EXCEPT !.remain = ErrorData], read + r.used - skip, "corrupt")

\* Mutation of Tried: too late by the bytes of one bit tree.
TriedLate(size, endNow) == size < RequiredMax - 3 \/ endNow

\* Whether a symbol is tried before it is decoded: the input may end inside it,
\* or it may only be the end marker.
Tried(size, endNow) == size < RequiredMax \/ endNow

\* Input straight from the caller.
FromSource(d, limit, src, pos, endNow) ==
    LET buf   == From(src, pos)
        size  == Len(buf)
        try   == TryDummy(d, buf)
        tried == Tried(size, endNow)
        r     == DecodeReal2(d, limit, buf, IF tried THEN 0 ELSE size - RequiredMax)
    IN  IF tried /\ try.kind = "eof"
        THEN IF size >= RequiredMax THEN Internal(d, pos)
             ELSE Return([d EXCEPT !.temp = buf], pos + size, "more")
        ELSE IF tried /\ try.len > RequiredMax THEN Internal(d, pos)
        ELSE IF endNow /\ try.kind # "match"
        THEN Fails([d EXCEPT !.temp = SubSeq(buf, 1, try.len)], pos + try.len, "corrupt")
        ELSE IF r.used # (IF tried THEN try.len ELSE r.used) \/ r.used > size
        THEN Internal(r.d, pos)
        ELSE AfterReal(r, pos, 0)

\* Input that continues the beginning of a symbol in temp.
FromTemp(d, limit, src, pos, endNow) ==
    LET have  == Len(d.temp)
        ahead == Lesser(RequiredMax - have, Len(src) - pos)
        buf   == d.temp \o SubSeq(src, pos + 1, pos + ahead)
        size  == Len(buf)
        try   == TryDummy(d, buf)
        tried == Tried(size, endNow)
        r     == DecodeReal2(d, limit, buf, 0)
    IN  IF tried /\ try.kind = "eof"
        THEN IF size >= RequiredMax THEN Internal(d, pos)
             ELSE Return([d EXCEPT !.temp = buf], pos + ahead, "more")
        ELSE IF tried /\ try.len < have THEN Internal(d, pos)
        ELSE IF endNow /\ try.kind # "match"
        THEN Fails([d EXCEPT !.temp = SubSeq(buf, 1, try.len)], pos + try.len - have, "corrupt")
        ELSE IF r.used # (IF tried THEN try.len ELSE r.used) \/ r.used > RequiredMax \/ r.used < have
        THEN Internal(r.d, pos)
        ELSE AfterReal(r, pos, have)

RECURSIVE DecodeLoop(_, _, _, _, _)
DecodeLoop(d0, limit, src, pos, finish) ==
    LET d    == WriteRem(d0, limit)
        full == d.dicPos >= limit
        r    == IF d.temp = <<>> THEN FromSource(d, limit, src, pos, full)
                                 ELSE FromTemp(d, limit, src, pos, full)
    IN  IF d0.remain = SpecLenStart
        THEN IF d0.code # 0 THEN Fails(d0, pos, "corrupt") ELSE Return(d0, pos, "mark")
        ELSE IF full /\ d.remain = 0 /\ d.code = 0 THEN Return(d, pos, "maybe")
        ELSE IF full /\ finish = "any" THEN Return(d, pos, "notfinished")
        ELSE IF full /\ d.remain # 0 THEN Fails(d, pos, "corrupt")
        ELSE IF r.status # "go" THEN r
        ELSE DecodeLoop(r.d, limit, src, r.read, finish)

\* The five bytes that start the range coder; the first is always zero.
StartCoder(d, src) ==
    LET n    == Lesser(RcInitSize - Len(d.temp), Len(src))
        temp == d.temp \o SubSeq(src, 1, n)
        code == ((temp[2] * Byte + temp[3]) * Byte + temp[4]) * Byte + temp[5]
        d1   == [d EXCEPT !.temp = temp]
        d2   == [d EXCEPT !.temp = <<>>, !.code = code, !.range = Word - 1]
    IN  IF temp # <<>> /\ temp[1] # 0 THEN Fails(d1, n, "corrupt")
        ELSE IF Len(temp) < RcInitSize THEN Return(d1, n, "more")
        ELSE IF d.checkDic = 0 /\ d.processed = 0 /\ code >= BadRepCode
        THEN Fails([d1 EXCEPT !.code = code], n, "corrupt")
        ELSE Return([(IF d.remain > SpecLenStart + 1 THEN ResetState(d2) ELSE d2)
                        EXCEPT !.remain = 0], n, "go")

DecodeToDic(d, limit, src, finish) ==
    LET s == StartCoder(d, src)
    IN  IF d.remain > SpecLenStart + 2
        THEN Fails(d, 0, IF d.remain = ErrorFail THEN "internal" ELSE "corrupt")
        ELSE IF d.remain <= SpecLenStart THEN DecodeLoop(d, limit, src, 0, finish)
        ELSE IF s.status # "go" THEN s
        ELSE DecodeLoop(s.d, limit, src, s.read, finish)

\* LzmaDecoder::decode: calls of DecodeToDic, wrapping at the dictionary's end.
RECURSIVE DecodeMore(_, _, _, _, _, _)
DecodeMore(d0, src, pos, room, out, finish) ==
    LET d    == [d0 EXCEPT !.dicPos = IF @ = DicBufSize THEN 0 ELSE @]
        far  == room > DicBufSize - d.dicPos
        r    == DecodeToDic(d, IF far THEN DicBufSize ELSE d.dicPos + room, From(src, pos),
                            IF far THEN "any" ELSE finish)
        n    == r.d.dicPos - d.dicPos
        out1 == out \o [i \in 1..n |-> r.d.dic[d.dicPos + i - 1]]
    IN  IF r.err # "none" \/ n = 0 \/ n = room
        THEN [d |-> r.d, read |-> pos + r.read, out |-> IF r.err = "none" THEN out1 ELSE <<>>,
              status |-> r.status, err |-> r.err]
        ELSE DecodeMore(r.d, src, pos + r.read, room - n, out1, finish)

Decode(d, src, room, finish) == DecodeMore(d, src, 0, room, <<>>, finish)
=============================================================================
