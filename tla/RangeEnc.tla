------------------------------ MODULE RangeEnc ------------------------------
(***************************************************************************)
(* The range encoder (enc/range_enc.rs), as operators on the encoder's     *)
(* record.  Low is one bit wider than the word: that bit is the carry, and *)
(* it has to run through the bytes of all ones that ShiftLow holds back.   *)
(* A table of probabilities is named by a tuple <<table, i, j>>, an entry  *)
(* of it by one more number; an entry not in probs still has its initial   *)
(* value.                                                                  *)
(***************************************************************************)
EXTENDS LzmaConsts, Sequences

CONSTANTS
    RcBufSize     \* RC_BUF_SIZE, 2^16 in the code

(***************************************************************************)
(* The sink: room is how many bytes a LimitedSink still takes, NoLimit for *)
(* any other; what does not fit is dropped and remembered as overflow.     *)
(***************************************************************************)
NoLimit == -1

SinkWrite(e, s) ==
    LET n == IF e.room = NoLimit THEN Len(s) ELSE Lesser(e.room, Len(s))
    IN  [e EXCEPT !.out = @ \o SubSeq(s, 1, n),
                  !.room = IF @ = NoLimit THEN NoLimit ELSE @ - n,
                  !.overflow = @ \/ n < Len(s)]

RcStart == [low |-> 0, range |-> Word - 1, cache |-> 0, cacheSize |-> 0,
            buf |-> <<>>, processed |-> 0]

RcInit(e) == [f \in DOMAIN e |-> IF f \in DOMAIN RcStart THEN RcStart[f] ELSE e[f]]

GetProcessed(e) == e.processed + Len(e.buf) + e.cacheSize

FlushStream(e) == [SinkWrite(e, e.buf) EXCEPT !.processed = @ + Len(e.buf), !.buf = <<>>]

RECURSIVE PushBytes(_, _)
PushBytes(e, s) ==
    IF s = <<>> THEN e
    ELSE LET p == [e EXCEPT !.buf = Append(@, Head(s))]
         IN  PushBytes(IF Len(p.buf) = RcBufSize THEN FlushStream(p) ELSE p, Tail(s))

\* Mutation of ShiftLow: a carry reaches the first byte held back and no further.
ShiftLowHalfCarry(e) ==
    LET low  == e.low % Word
        high == e.low \div Word
        next == [e EXCEPT !.low = (low * Byte) % Word]
    IN  IF low < (Byte - 1) * Top \/ high # 0
        THEN PushBytes([next EXCEPT !.cache = low \div Top, !.cacheSize = 0],
                       <<(e.cache + high) % Byte>>
                         \o [i \in 1..e.cacheSize |-> Byte - 1])
        ELSE [next EXCEPT !.cacheSize = @ + 1]

ShiftLow(e) ==
    LET low  == e.low % Word
        high == e.low \div Word
        next == [e EXCEPT !.low = (low * Byte) % Word]
    IN  IF low < (Byte - 1) * Top \/ high # 0
        THEN PushBytes([next EXCEPT !.cache = low \div Top, !.cacheSize = 0],
                       <<(e.cache + high) % Byte>>
                         \o [i \in 1..e.cacheSize |-> (Byte - 1 + high) % Byte])
        ELSE [next EXCEPT !.cacheSize = @ + 1]

RECURSIVE FlushData(_, _)
FlushData(e, n) == IF n = 0 THEN e ELSE FlushData(ShiftLow(e), n - 1)

RcNorm(e) == IF e.range < Top THEN ShiftLow([e EXCEPT !.range = @ * Byte]) ELSE e

\* The probability of a zero moves towards the bit that was coded.
Moved(ttt, bit) ==
    IF bit = 0 THEN ttt + (ProbTotal - ttt) \div 2^MoveBits
               ELSE ttt - ttt \div 2^MoveBits

EncodeBit(e, c, bit) ==
    LET ttt   == ProbOf(e.probs, c)
        bound == (e.range \div ProbTotal) * ttt
    IN  RcNorm([e EXCEPT !.range = IF bit = 0 THEN bound ELSE @ - bound,
                         !.low   = IF bit = 0 THEN @ ELSE @ + bound,
                         !.probs = (c :> Moved(ttt, bit)) @@ @])

EncodeDirectBit(e, bit) ==
    LET half == e.range \div 2
    IN  RcNorm([e EXCEPT !.range = half, !.low = @ + half * bit])

\* RcTree_Encode: the top bit of an n-bit symbol first.
RECURSIVE TreeFrom(_, _, _, _, _)
TreeFrom(e, t, m, n, sym) ==
    IF n = 0 THEN e
    ELSE LET bit == (sym \div 2^(n - 1)) % 2
         IN  TreeFrom(EncodeBit(e, Append(t, m), bit), t, 2 * m + bit, n - 1, sym)

TreeEncode(e, t, n, sym) == TreeFrom(e, t, 1, n, sym)

\* RcTree_ReverseEncode: the low bit first.
RECURSIVE ReverseFrom(_, _, _, _, _)
ReverseFrom(e, t, m, n, sym) ==
    IF n = 0 THEN e
    ELSE ReverseFrom(EncodeBit(e, Append(t, m), sym % 2), t, 2 * m + (sym % 2), n - 1, sym \div 2)

ReverseEncode(e, t, n, sym) == ReverseFrom(e, t, 1, n, sym)

LitEncode(e, at, sym) == TreeEncode(e, <<"Lit", at, 0>>, ByteBits, sym)

\* LitEnc_EncodeMatched: offs stays set while the bits agree with the match
\* byte's, and picks one of two further tables by the match byte's next bit.
RECURSIVE MatchedFrom(_, _, _, _, _, _)
MatchedFrom(e, at, m, n, s, offs) ==
    IF n = 0 THEN e
    ELSE LET bit  == (s[1] \div 2^(n - 1)) % 2
             mbit == (s[2] \div 2^(n - 1)) % 2
             i    == offs * (Byte + Byte * mbit) + m
         IN  MatchedFrom(EncodeBit(e, <<"Lit", at, 0, i>>, bit), at, 2 * m + bit, n - 1, s,
                         IF mbit = bit THEN offs ELSE 0)

LitEncodeMatched(e, at, sym, matchByte) ==
    MatchedFrom(e, at, 1, ByteBits, <<sym, matchByte>>, 1)

\* LenEnc::encode (enc/price.rs): two choices, then one of three trees.
LenEncode(e, t, sym, posState) ==
    LET choice(x, k, bit) == EncodeBit(x, <<t, k, 0, 0>>, bit)
    IN  CASE sym < LowSymbols ->
                 TreeEncode(choice(e, 1, 0), <<t, 3, posState>>, LowBits, sym)
          [] sym \in LowSymbols .. 2 * LowSymbols - 1 ->
                 TreeEncode(choice(choice(e, 1, 1), 2, 0), <<t, 4, posState>>, LowBits,
                            sym - LowSymbols)
          [] OTHER ->
                 TreeEncode(choice(choice(e, 1, 1), 2, 1), <<t, 5, 0>>, HighBits,
                            sym - 2 * LowSymbols)
=============================================================================
