--------------------------- MODULE LzFind_proofs ---------------------------
(***************************************************************************)
(* Proofs about the single-threaded match finder.                          *)
(*                                                                         *)
(* The window: it holds the stream around the current position and is      *)
(* large enough, whatever the tables hold (WindowInv).                     *)
(*                                                                         *)
(* The tables: the hashes, the tree and the chains hold the history, so    *)
(* that what is reported is a match and the longest one is reported        *)
(* (HistoryInv).  In order: the text and its order; the tree of a history, *)
(* a walk of it that enters a position, and what a lookup finds; the       *)
(* positions of the finder, which wrap, and those of the stream; the       *)
(* arrays of the finder as that tree; the hashes and the small hashes; the *)
(* matches of one position; the tree and the chains from one position to   *)
(* the next; and at last the steps of the finder.                          *)
(***************************************************************************)
EXTENDS LzFind, TLAPS, NaturalsInduction, WellFoundedInduction, SequenceTheorems

\* The fields of the struct that the window and the positions are about.
WindowFields == {"buf", "blockSize", "buffer", "pos", "streamPos", "posLimit",
                 "lenLimit", "cycPos", "ended", "err", "begun"}

Positions == 0 .. PosMod - 1

FinderOK(f) ==
    /\ WindowFields \cup {"hash2", "hash3", "high", "son", "heads"} \subseteq DOMAIN f
    /\ f.blockSize \in Nat /\ f.buffer \in Nat
    /\ DOMAIN f.buf = 0 .. f.blockSize - 1
    /\ f.pos \in Positions /\ f.streamPos \in Positions /\ f.posLimit \in Positions
    /\ f.cycPos \in 0 .. Cyclic
    /\ f.ended \in BOOLEAN /\ f.begun \in BOOLEAN /\ f.err \in {"none", "read"}

\* What f, at position p of a stream of which n bytes were read, has in its window.
Window(f, p, n) ==
    /\ Avail(f) = n - p
    /\ f.buffer <= p /\ MinOf(p, HistorySize) <= f.buffer
    /\ f.buffer + (n - p) <= f.blockSize
    /\ \A k \in - MinOf(p, HistorySize) .. n - p - 1 :
         f.buf[f.buffer + k] = data[p + k + 1]

\* A window that can still be read into has one of the two sizes of `plan`.
Sized(f) ==
    /\ f.blockSize < PosMod
    /\ ~f.ended => f.blockSize \in {KeepBefore + KeepAfter(kind) + Reserve,
                                    Len(data) + KeepAfter(kind) + 1}

\* How far it is to the next look around.
ToLimit(f) == (f.posLimit - f.pos) % PosMod

\* Reading goes on: neither the end of the stream nor an error was met.
ReadsOn(f) == ~f.ended /\ f.err = "none"

\* While reading goes on, the next look around comes with at least the
\* look-ahead left; otherwise before the last byte is passed.  No slot of the
\* cyclic buffer is passed either.
Limited(f) ==
    /\ ToLimit(f) \in 1 .. Avail(f) \/ Avail(f) = 0
    /\ Avail(f) > 0 => f.cycPos + ToLimit(f) <= Cyclic
    /\ ReadsOn(f) => ToLimit(f) + KeepAfter(kind) <= Avail(f) /\ Avail(f) > 0

WindowInv ==
    /\ kind \in Kinds /\ data \in Streams
    /\ at \in Nat /\ fed \in at .. Len(data)
    /\ FinderOK(mf) /\ Sized(mf) /\ Window(mf, at, fed)
    /\ ~mf.begun => at = 0 /\ fed = 0 /\ mf.cycPos = 1 /\ mf.pos = 1 /\ mf.streamPos = 1
                    /\ mf.buffer = 0 /\ ReadsOn(mf)
    /\ mf.begun => Limited(mf)

-----------------------------------------------------------------------------
(* Arithmetic on positions, which wrap at PosMod.                          *)

\* The constants are numbers, and a window is shorter than the range of positions.
LEMMA Sizes ==
    /\ HistorySize \in Nat \ {0} /\ MatchMaxLen \in Nat \ {0} /\ MoveAlign \in Nat \ {0}
    /\ Reserve \in Nat \ {0} /\ PosMod \in Nat \ {0} /\ Reserve > MoveAlign
    /\ KeepAddBefore \in Nat /\ KeepAddAfter \in Nat /\ DirectMax \in 0 .. PosMod - 2
    /\ Cyclic = HistorySize + 1 /\ KeepBefore = HistorySize + KeepAddBefore + 1
    /\ KMax = 0 /\ PosMod > HistorySize + 1
  BY FinderAssumption, SMTT(40) DEF Cyclic, KeepBefore, KMax

\* The look-ahead of a finder, and a window that fits the range of positions.
LEMMA KindFacts ==
    ASSUME NEW k \in Kinds
    PROVE  /\ KeepAfter(k) = KeepAddAfter + MatchMaxLen
           /\ KeepAfter(k) \in Nat \ {0}
           /\ KeepBefore + KeepAfter(k) + Reserve < PosMod
           /\ k.n \in 2 .. 5
<1>1. k.n \in 2 .. 5 /\ k.n <= MatchMaxLen
  BY FinderAssumption
<1>2. PosMod > HistorySize + KeepAddBefore + KeepAddAfter + MatchMaxLen + Reserve + 1
  BY FinderAssumption
<1>3. KeepAfter(k) = KeepAddAfter + MatchMaxLen
  BY <1>1, Sizes DEF KeepAfter, MaxOf
<1> QED
  BY <1>1, <1>2, <1>3, Sizes

\* Division with remainder.
LEMMA DivMod ==
    ASSUME NEW i \in Int
    PROVE  /\ i = PosMod * (i \div PosMod) + (i % PosMod)
           /\ i % PosMod \in Positions
           /\ i \div PosMod \in Int
<1> DEFINE M == PosMod
<1>1. M \in Nat \ {0}
  BY Sizes
<1> HIDE DEF M
<1>2. i = M * (i \div M) + (i % M) /\ i % M \in 0 .. M - 1
  BY <1>1
<1>3. i \div M \in Int
  BY <1>1
<1> QED
  BY <1>2, <1>3 DEF M, Positions

\* Numbers some whole ranges apart are the same position.
LEMMA SameMod ==
    ASSUME NEW x \in Int, NEW y \in Int, NEW k \in Int, x = y + PosMod * k
    PROVE  x % PosMod = y % PosMod
<1> DEFINE M == PosMod
           p == x \div M
           q == y \div M
           r == x % M
           s == y % M
           d == q + k - p
<1>1. /\ x = M * p + r /\ r \in 0 .. M - 1 /\ p \in Int
      /\ y = M * q + s /\ s \in 0 .. M - 1 /\ q \in Int
      /\ M \in Nat \ {0}
  BY DivMod, Sizes DEF Positions
<1>2. x = y + M * k
  OBVIOUS
<1> HIDE DEF M, p, q, r, s
<1>3. M * p + r = M * q + s + M * k
  BY <1>1, <1>2
<1>4. M * d = r - s /\ d \in Int
  BY <1>1, <1>3
<1> HIDE DEF d
<1>5. M * d \in -(M - 1) .. M - 1
  BY <1>1, <1>4
<1>6. d >= 1 => M * d >= M
  BY <1>1, <1>4
<1>7. d <= -1 => M * d <= -M
  BY <1>1, <1>4
<1>8. d = 0
  BY <1>1, <1>4, <1>5, <1>6, <1>7
<1>9. M * 0 = 0
  BY <1>1
<1>10. r = s
  BY <1>1, <1>4, <1>8, <1>9
<1> QED
  BY <1>10 DEF r, s, M

\* A position is itself.
LEMMA SmallMod ==
    ASSUME NEW x \in Positions
    PROVE  x % PosMod = x
<1> DEFINE M == PosMod
<1>1. M \in Nat \ {0} /\ x \in 0 .. M - 1
  BY Sizes DEF Positions
<1> HIDE DEF M
<1>2. x % M = x
  BY <1>1
<1> QED
  BY <1>2 DEF M

\* Wrapping an operand of a sum or a difference changes nothing.
LEMMA WrapFirst ==
    ASSUME NEW x \in Int, NEW y \in Int
    PROVE  ((x % PosMod) - y) % PosMod = (x - y) % PosMod
<1> DEFINE M == PosMod
           q == x \div M
           r == x % M
<1>1. x = M * q + r /\ r \in Int /\ q \in Int /\ M \in Nat
  BY DivMod, Sizes DEF Positions
<1> HIDE DEF q, r, M
<1> DEFINE u == x - y
           v == r - y
<1>2. u = v + M * q /\ u \in Int /\ v \in Int
  BY <1>1
<1> HIDE DEF u, v
<1>3. u % PosMod = v % PosMod
  BY <1>1, <1>2, SameMod DEF M
<1> QED
  BY <1>3, Zenon DEF r, M, u, v

\* The same of the second operand.
LEMMA WrapSecond ==
    ASSUME NEW x \in Int, NEW y \in Int
    PROVE  (x - (y % PosMod)) % PosMod = (x - y) % PosMod
<1> DEFINE M == PosMod
           q == y \div M
           r == y % M
<1>1. y = M * q + r /\ r \in Int /\ q \in Int /\ M \in Nat
  BY DivMod, Sizes DEF Positions
<1> HIDE DEF q, r, M
<1> DEFINE u == x - r
           v == x - y
<1>2. u = v + M * q /\ u \in Int /\ v \in Int
  BY <1>1
<1> HIDE DEF u, v
<1>3. u % PosMod = v % PosMod
  BY <1>1, <1>2, SameMod DEF M
<1> QED
  BY <1>3, Zenon DEF r, M, u, v

\* A position n further on is n nearer.
LEMMA Closer ==
    ASSUME NEW x \in Int, NEW y \in Int, NEW n \in 0 .. (x - y) % PosMod
    PROVE  (x - ((y + n) % PosMod)) % PosMod = ((x - y) % PosMod) - n
<1> DEFINE v == (x - y) % PosMod
           z == x - y
<1>1. v \in Positions /\ n \in Int /\ z \in Int /\ n <= v /\ 0 <= n
  BY DivMod DEF Positions
<1>2. (x - ((y + n) % PosMod)) % PosMod = (x - (y + n)) % PosMod
  BY <1>1, WrapSecond
<1>3. x - (y + n) = z - n
  BY <1>1
<1>4. (z - n) % PosMod = ((z % PosMod) - n) % PosMod
  BY <1>1, WrapFirst
<1>5. v - n \in Positions
  BY <1>1, Sizes DEF Positions
<1>6. (v - n) % PosMod = v - n
  BY <1>5, SmallMod
<1> QED
  BY <1>2, <1>3, <1>4, <1>6, Zenon

\* A number n further on is n farther away.
LEMMA Farther ==
    ASSUME NEW x \in Int, NEW y \in Int, NEW n \in Nat, ((x - y) % PosMod) + n < PosMod
    PROVE  (((x + n) % PosMod) - y) % PosMod = ((x - y) % PosMod) + n
<1> DEFINE v == (x - y) % PosMod
           z == x - y
           m == -n
<1>1. v \in Positions /\ z \in Int /\ m \in Int
  BY DivMod
<1>2. (((x + n) % PosMod) - y) % PosMod = ((x + n) - y) % PosMod
  BY WrapFirst
<1>3. (x + n) - y = z - m
  BY <1>1
<1>4. (z - m) % PosMod = ((z % PosMod) - m) % PosMod
  BY <1>1, WrapFirst
<1>5. v - m = v + n /\ v + n \in Positions
  BY <1>1, Sizes DEF Positions
<1>6. (v + n) % PosMod = v + n
  BY <1>5, SmallMod
<1> QED
  BY <1>2, <1>3, <1>4, <1>5, <1>6, Zenon

\* Reducing two positions by the same number keeps their distance.
LEMMA Reduced ==
    ASSUME NEW x \in Int, NEW y \in Int, NEW s \in Int
    PROVE  (((x - s) % PosMod) - ((y - s) % PosMod)) % PosMod = (x - y) % PosMod
<1> DEFINE u == x - s
           v == y - s
           w == v % PosMod
<1>1. u \in Int /\ v \in Int /\ w \in Int /\ u - v = x - y
  BY DivMod DEF Positions
<1> HIDE DEF u, v
<1>2. ((u % PosMod) - w) % PosMod = (u - w) % PosMod
  BY <1>1, WrapFirst
<1>3. (u - w) % PosMod = (u - v) % PosMod
  BY <1>1, WrapSecond
<1> QED
  BY <1>1, <1>2, <1>3, Zenon DEF u, v

\* The least of three numbers.
LEMMA MinThree ==
    ASSUME NEW i \in Int, NEW j \in Int, NEW k \in Int
    PROVE  /\ Min({i, j, k}) \in {i, j, k}
           /\ Min({i, j, k}) <= i /\ Min({i, j, k}) <= j /\ Min({i, j, k}) <= k
<1> DEFINE S == {i, j, k}
<1>1. \E x \in S : \A y \in S : x <= y
  OBVIOUS
<1>2. Min(S) \in S /\ \A y \in S : Min(S) <= y
  BY <1>1 DEF Min
<1> QED
  BY <1>2

-----------------------------------------------------------------------------
(* What the operations of the finder leave in the window.                  *)

\* The window, the positions and the limits of f and g are the same.
SameWindow(f, g) ==
    /\ WindowFields \cup {"hash2", "hash3", "high", "son", "heads"} \subseteq DOMAIN g
    /\ \A x \in WindowFields : f[x] = g[x]

\* Entering a position in the hashes, the tree or a chain leaves the window.
LEMMA EnterLowSame ==
    ASSUME NEW f, FinderOK(f)
    PROVE  SameWindow(f, EnterLow(f))
  BY DEF FinderOK, SameWindow, EnterLow, WindowFields

\* Taking the head of a chain, with the chain heads ahead or without, leaves the window.
LEMMA TakeHeadSame ==
    ASSUME NEW f, NEW g, FinderOK(f), SameWindow(f, g), NEW prefetch
    PROVE  SameWindow(f, TakeHead(g, prefetch).f)
<1> DEFINE hv == HashCalc(g.buf, g.buffer, kind.n)
           filled == IF g.heads = <<>> THEN FillHeads(g) ELSE g
           entered == [g EXCEPT !.high[hv] = g.pos]
           taken == [filled EXCEPT !.heads = Tail(@)]
<1>1. TakeHead(g, prefetch).f \in {entered, taken}
  BY Zenon DEF TakeHead
<1>2. SameWindow(f, entered)
  BY DEF SameWindow, WindowFields
<1>3. SameWindow(f, filled)
  <2>1. SameWindow(f, FillHeads(g))
    BY DEF SameWindow, FillHeads, WindowFields
  <2> QED
    BY <2>1
<1> HIDE DEF filled, entered
<1>4. SameWindow(f, taken)
  BY <1>3 DEF SameWindow, WindowFields
<1> QED
  BY <1>1, <1>2, <1>4

\* So does the part of the big hash.
LEMMA HighMatchesSame ==
    ASSUME NEW f, NEW g, FinderOK(f), SameWindow(f, g), NEW low
    PROVE  SameWindow(f, HighMatches(g, low).f)
<1> DEFINE p == low.maxLen # g.lenLimit
           t == TakeHead(g, p)
<1>1. SameWindow(f, t.f)
  BY TakeHeadSame
<1>2. \E x : HighMatches(g, low).f = [t.f EXCEPT !.son = x]
  BY Zenon DEF HighMatches
<1> HIDE DEF t
<1>3. \A x : SameWindow(f, [t.f EXCEPT !.son = x])
  BY <1>1 DEF SameWindow, WindowFields
<1> QED
  BY <1>2, <1>3

\* So what is said of the window holds as well.
LEMMA SameKeeps ==
    ASSUME NEW f, NEW g, FinderOK(f), SameWindow(f, g)
    PROVE  /\ FinderOK(g) /\ Avail(g) = Avail(f) /\ ToLimit(g) = ToLimit(f)
           /\ \A p, n : Window(f, p, n) => Window(g, p, n)
           /\ Sized(f) => Sized(g)
           /\ Limited(f) => Limited(g)
  BY DEF FinderOK, SameWindow, WindowFields, Avail, ToLimit, Window, Sized, Limited, ReadsOn

\* A wrap is never less than one position off.
LEMMA WrapAhead ==
    ASSUME NEW p \in Positions
    PROVE  (IF p = KMax THEN PosMod - 1 ELSE (KMax - p) % PosMod) \in 1 .. PosMod - 1
<1>1. /\ PosMod \in Nat /\ PosMod > 1 /\ KMax = 0
      /\ PosMod * (-1) = -PosMod /\ p \in 0 .. PosMod - 1
  BY Sizes DEF Positions
<1>2. CASE p = KMax
  BY <1>1, <1>2
<1>3. CASE p # KMax
  <2> DEFINE x == KMax - p
             y == PosMod - p
  <2>1. x = y + PosMod * (-1) /\ x \in Int /\ y \in Int /\ -1 \in Int
    BY <1>1
  <2>2. y \in 1 .. PosMod - 1
    BY <1>1, <1>3
  <2>3. y \in Positions
    BY <2>2, <1>1 DEF Positions
  <2> HIDE DEF x, y
  <2>4. x % PosMod = y % PosMod
    BY <2>1, SameMod
  <2>5. y % PosMod = y
    BY <2>3, SmallMod
  <2> QED
    BY <1>3, <2>2, <2>4, <2>5 DEF x
<1> QED
  BY <1>2, <1>3

\* set_limits: the next look around comes soon enough.
LEMMA SetLimitsFacts ==
    ASSUME kind \in Kinds, NEW f, FinderOK(f), f.cycPos < Cyclic,
           ReadsOn(f) => Avail(f) > KeepAfter(kind)
    PROVE  /\ FinderOK(SetLimits(f)) /\ Limited(SetLimits(f))
           /\ Avail(SetLimits(f)) = Avail(f)
           /\ SetLimits(f).begun = f.begun /\ SetLimits(f).err = f.err
           /\ SetLimits(f).ended = f.ended
           /\ Sized(f) => Sized(SetLimits(f))
           /\ \A p, n : Window(f, p, n) => Window(SetLimits(f), p, n)
<1> DEFINE a == Avail(f)
           toWrap == IF f.pos = KMax THEN PosMod - 1 ELSE (KMax - f.pos) % PosMod
           step == IF a > KeepAfter(kind) THEN a - KeepAfter(kind)
                   ELSE IF a >= MatchMaxLen THEN a - MatchMaxLen + 1
                   ELSE MinOf(a, 1)
           room == Cyclic - f.cycPos
           m == Min({toWrap, room, step})
           len == MinOf(MatchMaxLen, a)
           limit == (f.pos + m) % PosMod
           g == SetLimits(f)
<1>1. /\ a \in Positions /\ f.pos \in Positions /\ f.pos \in Int
      /\ f.cycPos \in Nat /\ room \in Nat \ {0}
  <2>1. /\ f.pos \in Positions /\ f.streamPos \in Positions /\ f.cycPos \in Nat
        /\ f.pos \in Int /\ f.streamPos \in Int /\ Cyclic \in Nat
    BY Sizes DEF FinderOK, Positions
  <2>2. f.streamPos - f.pos \in Int
    BY <2>1
  <2>3. a \in Positions
    BY <2>2, DivMod DEF Avail
  <2>4. room \in Nat \ {0}
    BY <2>1
  <2> QED
    BY <2>1, <2>3, <2>4, Zenon
<1>2. toWrap \in 1 .. PosMod - 1
  BY <1>1, WrapAhead
<1>3. /\ KeepAfter(kind) = KeepAddAfter + MatchMaxLen /\ KeepAfter(kind) \in Nat \ {0}
      /\ MatchMaxLen \in Nat \ {0} /\ PosMod \in Nat \ {0} /\ Cyclic \in Nat /\ a \in Nat
      /\ KeepAddAfter \in Nat
  BY <1>1, KindFacts, Sizes DEF Positions
<1>4. g = [f EXCEPT !.lenLimit = len, !.posLimit = limit]
  BY Zenon DEF SetLimits
<1> HIDE DEF a, toWrap, room, len
<1>5. /\ step \in 0 .. a /\ (a > 0 => step >= 1)
      /\ a > KeepAfter(kind) => step = a - KeepAfter(kind)
  BY <1>3 DEF MinOf
<1> HIDE DEF step
<1>6. /\ m \in {toWrap, room, step} /\ m <= toWrap /\ m <= room /\ m <= step
  <2>1. toWrap \in Int /\ room \in Int /\ step \in Int
    BY <1>1, <1>2, <1>3, <1>5
  <2> QED
    BY <2>1, MinThree, Zenon
<1>7. m \in 0 .. a /\ m < PosMod /\ (a > 0 => m >= 1)
  BY <1>1, <1>2, <1>3, <1>5, <1>6
<1> HIDE DEF m
<1>8. limit \in Positions /\ (limit - f.pos) % PosMod = m
  <2>1. (f.pos - f.pos) % PosMod = 0
    <3>1. f.pos - f.pos = 0 /\ 0 \in Positions
      BY <1>1, <1>3 DEF Positions
    <3> QED
      BY <3>1, SmallMod
  <2>2. m \in Nat /\ f.pos + m \in Int
    BY <1>1, <1>3, <1>7
  <2>3. (((f.pos + m) % PosMod) - f.pos) % PosMod = ((f.pos - f.pos) % PosMod) + m
    <3>1. ((f.pos - f.pos) % PosMod) + m < PosMod
      BY <1>7, <2>1, <2>2
    <3> QED
      BY <1>1, <2>2, <3>1, Farther, Zenon
  <2>4. (f.pos + m) % PosMod \in Positions
    BY <2>2, DivMod
  <2> QED
    BY <1>3, <2>1, <2>2, <2>3, <2>4
<1> HIDE DEF limit, g
<1>9. /\ g.posLimit = limit
      /\ \A x \in WindowFields \ {"posLimit", "lenLimit"} : g[x] = f[x]
      /\ DOMAIN g = DOMAIN f
  BY <1>4 DEF FinderOK, WindowFields
<1>10. FinderOK(g) /\ Avail(g) = a /\ ToLimit(g) = m /\ g.begun = f.begun
       /\ g.err = f.err /\ g.ended = f.ended /\ g.cycPos = f.cycPos
       /\ g.blockSize = f.blockSize /\ g.buffer = f.buffer /\ g.buf = f.buf
  BY <1>8, <1>9 DEF FinderOK, WindowFields, Avail, ToLimit, a
<1>11. Limited(g)
  <2>1. a > 0 => g.cycPos + m <= Cyclic
    BY <1>1, <1>3, <1>6, <1>7, <1>10 DEF room
  <2>2. ReadsOn(g) => m + KeepAfter(kind) <= a /\ a > 0
    <3>1. ReadsOn(g) => a > KeepAfter(kind)
      BY <1>10 DEF ReadsOn, a
    <3> QED
      BY <1>3, <1>5, <1>6, <1>7, <3>1
  <2>3. m \in 1 .. a \/ a = 0
    BY <1>3, <1>7
  <2> QED
    BY <1>10, <2>1, <2>2, <2>3 DEF Limited
<1>12. Sized(f) => Sized(g)
  BY <1>10 DEF Sized
<1>13. \A p, n : Window(f, p, n) => Window(g, p, n)
  BY <1>10 DEF Window, a
<1> QED
  BY <1>10, <1>11, <1>12, <1>13 DEF g, a

\* What read_block may see: it reads no more than there is and fits, and goes on
\* reading until the look-ahead is passed or the window is full.
LEMMA OutcomeFacts ==
    ASSUME NEW f, Avail(f) \in Nat, f.blockSize \in Nat, f.buffer \in Nat,
           f.buffer + Avail(f) <= f.blockSize, fed \in 0 .. Len(data), Len(data) \in Nat,
           f.ended \in BOOLEAN, KeepAfter(kind) \in Nat, NEW o \in ReadOutcomes(f)
    PROVE  /\ o.n \in Nat /\ o.n <= Len(data) - fed
           /\ o.n <= f.blockSize - f.buffer - Avail(f)
           /\ o.end \in BOOLEAN /\ o.err \in BOOLEAN
           /\ ~ReadsOn(f) => ~o.end /\ ~o.err
           /\ ~o.end /\ ~o.err /\ ReadsOn(f) =>
                \/ Avail(f) + o.n > KeepAfter(kind)
                \/ Avail(f) + o.n = f.blockSize - f.buffer
<1> DEFINE a == Avail(f)
           room == f.blockSize - f.buffer - a
           left == StreamLen - fed
           most == MinOf(room, left)
           Short(n) == a + n <= KeepAfter(kind)
           Outcome(n, end, err) == [n |-> n, end |-> end, err |-> err]
<1>1. /\ a \in Nat /\ room \in Nat /\ left \in Nat /\ left = Len(data) - fed
      /\ most \in Nat /\ most <= room /\ most <= left /\ a + room = f.blockSize - f.buffer
  BY DEF StreamLen, MinOf
<1>2. o \in IF f.ended \/ f.err # "none" THEN {Outcome(0, FALSE, FALSE)}
            ELSE {Outcome(n, FALSE, FALSE) : n \in {m \in 0 .. most : m = room \/ (m > 0 /\ ~Short(m))}}
              \cup {Outcome(n, TRUE, FALSE) : n \in {m \in {left} : Short(m) /\ m < room}}
              \cup {Outcome(n, FALSE, TRUE) : n \in {m \in 0 .. most : Short(m) /\ m < room}}
  BY Zenon DEF ReadOutcomes
<1> SUFFICES /\ o.n \in 0 .. most /\ o.end \in BOOLEAN /\ o.err \in BOOLEAN
             /\ ~ReadsOn(f) => ~o.end /\ ~o.err
             /\ ~o.end /\ ~o.err /\ ReadsOn(f) => ~Short(o.n) \/ o.n = room
  BY <1>1, SMTT(40)
<1>4. left < room => left = most
  BY <1>1 DEF MinOf
<1>5. CASE o = Outcome(0, FALSE, FALSE) /\ ~ReadsOn(f)
  BY <1>1, <1>5
<1>6. ASSUME ReadsOn(f), NEW n \in 0 .. most, ~Short(n) \/ n = room, o = Outcome(n, FALSE, FALSE)
      PROVE  o.n \in 0 .. most /\ ~o.end /\ ~o.err /\ (~Short(o.n) \/ o.n = room)
  BY <1>6
<1>7. ASSUME ReadsOn(f), left < room, o = Outcome(left, TRUE, FALSE)
      PROVE  o.n \in 0 .. most /\ o.end = TRUE /\ ~o.err
  BY <1>1, <1>4, <1>7
<1>8. ASSUME ReadsOn(f), NEW n \in 0 .. most, o = Outcome(n, FALSE, TRUE)
      PROVE  o.n \in 0 .. most /\ ~o.end /\ o.err = TRUE
  BY <1>8
<1>9. \/ o = Outcome(0, FALSE, FALSE) /\ ~ReadsOn(f)
      \/ ReadsOn(f) /\ \E n \in 0 .. most : (~Short(n) \/ n = room) /\ o = Outcome(n, FALSE, FALSE)
      \/ ReadsOn(f) /\ left < room /\ o = Outcome(left, TRUE, FALSE)
      \/ ReadsOn(f) /\ \E n \in 0 .. most : o = Outcome(n, FALSE, TRUE)
  <2> HIDE DEF a, room, left, most, Short, Outcome
  <2> QED
    BY <1>2 DEF ReadsOn
<1>10. CASE ReadsOn(f) /\ \E n \in 0 .. most : (~Short(n) \/ n = room) /\ o = Outcome(n, FALSE, FALSE)
  <2> HIDE DEF a, room, left, most
  <2> QED
    BY <1>6, <1>10
<1>11. CASE ReadsOn(f) /\ \E n \in 0 .. most : o = Outcome(n, FALSE, TRUE)
  <2> HIDE DEF a, room, left, most
  <2> QED
    BY <1>8, <1>11
<1>12. CASE ReadsOn(f) /\ left < room /\ o = Outcome(left, TRUE, FALSE)
  <2> HIDE DEF a, room, left, most
  <2> QED
    BY <1>7, <1>12
<1> QED
  BY <1>5, <1>9, <1>10, <1>11, <1>12

\* read_block: the bytes read come behind those the window has.
LEMMA ReadFacts ==
    ASSUME kind \in Kinds, data \in Streams, NEW f, FinderOK(f), f.blockSize < PosMod,
           NEW p \in Nat, fed \in p .. Len(data), Window(f, p, fed),
           NEW o \in ReadOutcomes(f)
    PROVE  LET g == ReadBlock(f, o)
           IN  /\ FinderOK(g) /\ o.n \in Nat /\ fed + o.n \in p .. Len(data)
               /\ Window(g, p, fed + o.n)
               /\ g.blockSize = f.blockSize /\ g.buffer = f.buffer /\ g.pos = f.pos
               /\ g.cycPos = f.cycPos /\ g.begun = f.begun /\ (f.ended => g.ended)
               /\ ReadsOn(g) => /\ ReadsOn(f)
                                /\ \/ Avail(g) > KeepAfter(kind)
                                   \/ Avail(g) = f.blockSize - f.buffer
<1> DEFINE g == ReadBlock(f, o)
           a == Avail(f)
           buf == [i \in DOMAIN f.buf |-> LET k == i - f.buffer - a
                                          IN IF k \in 0 .. o.n - 1 THEN data[fed + k + 1] ELSE f.buf[i]]
           sp == (f.streamPos + o.n) % PosMod
           ended == f.ended \/ o.end
           err == IF o.err THEN "read" ELSE f.err
           w == MinOf(p, HistorySize)
<1>1. /\ Len(data) \in Nat /\ KeepAfter(kind) \in Nat /\ fed \in Nat
      /\ a = fed - p /\ a \in Nat /\ f.blockSize \in Nat /\ f.buffer \in Nat
      /\ f.buffer + a <= f.blockSize /\ f.blockSize < PosMod /\ PosMod \in Nat
      /\ f.pos \in Int /\ f.streamPos \in Int
      /\ f.ended \in BOOLEAN /\ f.err \in {"none", "read"}
      /\ w \in Nat /\ w <= f.buffer /\ DOMAIN f.buf = 0 .. f.blockSize - 1
      /\ p <= fed /\ fed <= Len(data)
  <2>1. Len(data) \in Nat /\ KeepAfter(kind) \in Nat
    BY FinderAssumption, KindFacts
  <2>2. fed \in Nat /\ p <= fed /\ fed <= Len(data)
    BY <2>1
  <2>3. w \in Nat
    BY Sizes DEF MinOf
  <2>4. /\ f.blockSize \in Nat /\ f.buffer \in Nat /\ f.ended \in BOOLEAN
        /\ f.err \in {"none", "read"} /\ DOMAIN f.buf = 0 .. f.blockSize - 1
        /\ f.pos \in Int /\ f.streamPos \in Int /\ PosMod \in Nat
    BY Sizes DEF FinderOK, Positions
  <2>5. a = fed - p /\ w <= f.buffer /\ f.buffer + (fed - p) <= f.blockSize
    BY DEF Window
  <2>6. a \in Nat
    BY <2>2, <2>5
  <2> QED
    BY <2>1, <2>2, <2>3, <2>4, <2>5, <2>6
<1>2. /\ o.n \in Nat /\ o.n <= Len(data) - fed /\ o.n <= f.blockSize - f.buffer - a
      /\ o.end \in BOOLEAN /\ o.err \in BOOLEAN /\ (~ReadsOn(f) => ~o.end /\ ~o.err)
      /\ ~o.end /\ ~o.err /\ ReadsOn(f) => \/ a + o.n > KeepAfter(kind)
                                          \/ a + o.n = f.blockSize - f.buffer
  <2>1. fed \in 0 .. Len(data)
    BY <1>1
  <2> QED
    BY <1>1, <2>1, OutcomeFacts
<1>3. g = [f EXCEPT !.buf = buf, !.streamPos = sp, !.ended = ended, !.err = err]
  BY Zenon DEF ReadBlock
<1>4. sp \in Positions /\ (sp - f.pos) % PosMod = a + o.n
  <2>1. (f.streamPos - f.pos) % PosMod = a
    BY DEF Avail
  <2>2. a + o.n < PosMod
    <3> DEFINE size == f.blockSize
               b == f.buffer
               m == o.n
    <3>1. /\ m \in Nat /\ a \in Nat /\ b \in Nat /\ size \in Nat /\ PosMod \in Nat /\ size < PosMod
          /\ m <= size - b - a
      BY <1>1, <1>2
    <3> HIDE DEF a, size, b, m
    <3>2. a + m < PosMod
      BY <3>1
    <3> QED BY <3>2 DEF m
  <2>3. (((f.streamPos + o.n) % PosMod) - f.pos) % PosMod = ((f.streamPos - f.pos) % PosMod) + o.n
    BY <1>1, <1>2, <2>1, <2>2, Farther
  <2>4. (f.streamPos + o.n) % PosMod \in Positions
    <3>1. f.streamPos + o.n \in Int
      BY <1>1, <1>2
    <3> QED
      BY <3>1, DivMod
  <2> QED
    BY <2>1, <2>3, <2>4
<1>5. /\ DOMAIN buf = 0 .. f.blockSize - 1
      /\ \A k \in -w .. (fed + o.n) - p - 1 : buf[f.buffer + k] = data[p + k + 1]
  <2>1. DOMAIN buf = 0 .. f.blockSize - 1
    BY <1>1
  <2> DEFINE n == o.n
  <2>2. n \in Nat /\ a \in Nat /\ a + n <= f.blockSize - f.buffer
    BY <1>1, <1>2, SMTT(40)
  <2>3. \A k \in -w .. fed - p - 1 : f.buf[f.buffer + k] = data[p + k + 1]
    BY DEF Window
  <2> HIDE DEF a, w, n
  <2> DEFINE top == f.buffer
             size == f.blockSize
             dom == DOMAIN f.buf
  <2>4. /\ top \in Nat /\ size \in Nat /\ w \in Nat /\ a \in Nat /\ w <= top
        /\ dom = 0 .. size - 1 /\ a + n <= size - top
    BY <1>1, <2>2
  <2>5. \A i \in DOMAIN f.buf :
          buf[i] = IF i - top - a \in 0 .. n - 1 THEN data[fed + (i - top - a) + 1] ELSE f.buf[i]
    BY DEF n
  <2>6. ASSUME NEW k \in -w .. (fed + n) - p - 1
        PROVE  buf[f.buffer + k] = data[p + k + 1]
    <3>1. k \in Int /\ -w <= k /\ k < a + n
      BY <1>1, <2>2
    <3>2. top + k \in dom /\ ((top + k) - top) - a = k - a
      <4> HIDE DEF top, size, dom
      <4> QED
        BY <2>4, <2>2, <3>1
    <3>4. buf[f.buffer + k] = IF k - a \in 0 .. n - 1 THEN data[fed + (k - a) + 1]
                                                     ELSE f.buf[f.buffer + k]
      BY <2>5, <3>2, Zenon
    <3> HIDE DEF buf
    <3>5. CASE k < a
      <4>1. k \in -w .. fed - p - 1 /\ k - a \notin 0 .. n - 1
        BY <1>1, <3>1, <3>5
      <4> QED
        BY <2>3, <3>4, <4>1
    <3>6. CASE k >= a
      <4>1. k - a \in 0 .. n - 1 /\ fed + (k - a) + 1 = p + k + 1
        BY <1>1, <2>2, <3>1, <3>6
      <4> QED
        BY <3>4, <4>1, Zenon
    <3> QED
      BY <1>1, <3>1, <3>5, <3>6
  <2> QED
    BY <2>1, <2>6 DEF n
<1>6. ended \in BOOLEAN /\ err \in {"none", "read"}
  BY <1>1, <1>2
<1>7. ~ended /\ err = "none" => ReadsOn(f) /\ ~o.end /\ ~o.err
  BY <1>1, <1>2 DEF ReadsOn
<1> HIDE DEF g, a, w, buf, sp, ended, err
<1>8. /\ g.buf = buf /\ g.streamPos = sp /\ g.ended = ended /\ g.err = err
      /\ DOMAIN g = DOMAIN f
      /\ \A x \in WindowFields \ {"buf", "streamPos", "ended", "err"} : g[x] = f[x]
  BY <1>3 DEF FinderOK, WindowFields
<1>9. /\ FinderOK(g) /\ Avail(g) = a + o.n
      /\ g.blockSize = f.blockSize /\ g.buffer = f.buffer /\ g.pos = f.pos
      /\ g.cycPos = f.cycPos /\ g.begun = f.begun
  BY <1>4, <1>5, <1>6, <1>8 DEF FinderOK, WindowFields, Avail
<1>10. Window(g, p, fed + o.n)
  <2> DEFINE n == o.n
             size == f.blockSize
             top == f.buffer
  <2>1. /\ n \in Nat /\ fed \in Nat /\ size \in Nat /\ top \in Nat /\ a = fed - p
        /\ n <= size - top - a
    BY <1>1, <1>2
  <2> HIDE DEF n, size, top
  <2>2. a + n = (fed + n) - p /\ top + ((fed + n) - p) <= size
    BY <2>1
  <2>3. a + o.n = (fed + o.n) - p /\ g.buffer + ((fed + o.n) - p) <= g.blockSize
    BY <1>9, <2>2, Zenon DEF n, size, top
  <2>4. g.buffer <= p /\ w <= g.buffer
    BY <1>1, <1>9 DEF Window
  <2>5. \A k \in -w .. (fed + o.n) - p - 1 : g.buf[g.buffer + k] = data[p + k + 1]
    BY <1>5, <1>8, <1>9, Zenon
  <2>6. Avail(g) = (fed + o.n) - p
    BY <1>9, <2>3, Zenon
  <2> DEFINE m == fed + o.n
  <2>7. /\ Avail(g) = m - p /\ g.buffer + (m - p) <= g.blockSize
        /\ \A k \in -w .. m - p - 1 : g.buf[g.buffer + k] = data[p + k + 1]
    BY <2>3, <2>5, <2>6, Zenon
  <2> HIDE DEF m
  <2>8. Window(g, p, m)
    BY <2>4, <2>7, Zenon DEF Window, w
  <2> QED
    BY <2>8 DEF m
<1>11. ReadsOn(g) => ReadsOn(f) /\ (Avail(g) > KeepAfter(kind) \/ Avail(g) = f.blockSize - f.buffer)
  BY <1>2, <1>7, <1>8, <1>9 DEF ReadsOn
<1>12. fed + o.n \in p .. Len(data)
  <2>1. /\ Len(data) \in Nat /\ fed \in Nat /\ o.n \in Nat
        /\ p <= fed /\ o.n <= Len(data) - fed
    BY <1>1, <1>2
  <2> QED
    BY <2>1
<1>13. f.ended => g.ended
  BY <1>8 DEF ended
<1> QED
  BY <1>2, <1>9, <1>10, <1>11, <1>12, <1>13 DEF g

\* A window that has to move is a full one, and there is more than the kept bytes
\* in front of `buffer`: move_block does not meet its internal error.
LEMMA MoveFits ==
    ASSUME kind \in Kinds, data \in Streams, NEW f, FinderOK(f), Sized(f),
           NEW p \in Nat, fed \in p .. Len(data), Window(f, p, fed), NeedMove(f)
    PROVE  /\ f.blockSize = KeepBefore + KeepAfter(kind) + Reserve
           /\ f.buffer >= KeepBefore + Reserve
<1> DEFINE n == Len(data)
           size == f.blockSize
           top == f.buffer
           after == KeepAfter(kind)
<1>1. n \in Nat /\ after \in Nat /\ KeepBefore \in Nat /\ Reserve \in Nat
  BY FinderAssumption, KindFacts, Sizes
<1>2. size \in Nat /\ top \in Nat /\ top <= p
  BY DEF FinderOK, Window
<1>3. size - top <= after /\ size \in {KeepBefore + after + Reserve, n + after + 1}
  BY DEF NeedMove, Sized
<1>4. p <= n
  BY <1>1
<1> HIDE DEF n, size, top, after
<1>5. size # n + after + 1
  BY <1>1, <1>2, <1>3, <1>4
<1>6. size = KeepBefore + after + Reserve
  BY <1>3, <1>5
<1>7. top >= KeepBefore + Reserve
  BY <1>1, <1>2, <1>3, <1>6
<1> QED
  BY <1>6, <1>7 DEF size, top, after

\* The remainder that the aligned move leaves.
LEMMA Aligned ==
    ASSUME NEW i \in Nat
    PROVE  i % MoveAlign \in 0 .. MoveAlign - 1
  BY Sizes

\* move_block: every byte stays at its distance from `buffer`.
LEMMA MoveFacts ==
    ASSUME kind \in Kinds, data \in Streams, NEW f, FinderOK(f), Sized(f),
           NEW p \in Nat, fed \in p .. Len(data), Window(f, p, fed), NeedMove(f)
    PROVE  LET g == MoveBlock(f)
           IN  /\ FinderOK(g) /\ Sized(g) /\ Window(g, p, fed)
               /\ g.blockSize - g.buffer > KeepAfter(kind)
               /\ g.pos = f.pos /\ g.cycPos = f.cycPos /\ g.begun = f.begun
               /\ g.ended = f.ended /\ g.err = f.err /\ Avail(g) = Avail(f)
<1> DEFINE a == Avail(f)
           offset == f.buffer - KeepBefore
           r == offset % MoveAlign
           keep == r + KeepBefore
           from == offset - r
           buf == [i \in DOMAIN f.buf |-> IF i < keep + a THEN f.buf[from + i] ELSE f.buf[i]]
           g == MoveBlock(f)
           w == MinOf(p, HistorySize)
           size == f.blockSize
           top == f.buffer
           after == KeepAfter(kind)
<1>1. /\ KeepBefore \in Nat /\ HistorySize < KeepBefore /\ Reserve \in Nat
      /\ MoveAlign \in Nat /\ Reserve > MoveAlign /\ after \in Nat /\ Len(data) \in Nat
      /\ HistorySize \in Nat
  BY FinderAssumption, KindFacts, Sizes
<1>2. size \in Nat /\ top \in Nat /\ DOMAIN f.buf = 0 .. size - 1
  BY DEF FinderOK
<1>3. size = KeepBefore + after + Reserve /\ top >= KeepBefore + Reserve
  BY MoveFits
<1>4. a = fed - p /\ a \in Nat /\ top <= p /\ top + (fed - p) <= size
  BY <1>1 DEF Window
<1>5. offset \in Nat /\ r \in 0 .. MoveAlign - 1
  <2>1. offset \in Nat
    BY <1>1, <1>2, <1>3
  <2> HIDE DEF offset
  <2> QED
    BY <2>1, Aligned
<1>6. g = [f EXCEPT !.buffer = keep, !.buf = buf]
  <2>1. ~(f.buffer < KeepBefore)
    BY <1>1, <1>2, <1>3
  <2> QED
    BY <2>1, Zenon DEF MoveBlock
<1> HIDE DEF a, r, buf, g, w, size, top, after
<1>7. /\ keep \in Nat /\ from \in Nat /\ from + keep = top /\ keep <= top
      /\ keep >= KeepBefore /\ size - keep > after
  <2>1. offset = top - KeepBefore
    BY DEF top
  <2> HIDE DEF offset
  <2>2. r \in Nat /\ r < Reserve /\ r <= offset
    BY <1>1, <1>2, <1>3, <1>5, <2>1
  <2> QED
    BY <1>1, <1>2, <1>3, <2>1, <2>2
<1>8. w \in Nat /\ w <= p /\ w <= HistorySize
  BY <1>1 DEF w, MinOf
<1> HIDE DEF offset, keep, from
<1>9. /\ g.buf = buf /\ g.buffer = keep /\ DOMAIN g = DOMAIN f
      /\ \A x \in WindowFields \ {"buf", "buffer"} : g[x] = f[x]
  BY <1>6 DEF FinderOK, WindowFields
<1>10. DOMAIN buf = DOMAIN f.buf
  BY DEF buf
<1>11. \A k \in -w .. fed - p - 1 : buf[keep + k] = data[p + k + 1]
  <2>1. ASSUME NEW k \in -w .. fed - p - 1
        PROVE  buf[keep + k] = data[p + k + 1]
    <3>1. k \in Int /\ -w <= k /\ k < a
      BY <1>1, <1>4, <1>8
    <3>2. keep + k \in 0 .. size - 1 /\ keep + k < keep + a
      BY <1>1, <1>2, <1>4, <1>7, <1>8, <3>1
    <3>3. from + (keep + k) = top + k
      BY <1>2, <1>7, <3>1
    <3>4. buf[keep + k] = f.buf[from + (keep + k)]
      BY <1>2, <3>2 DEF buf
    <3>5. f.buf[top + k] = data[p + k + 1]
      BY DEF Window, w, top
    <3> QED
      BY <3>3, <3>4, <3>5, Zenon
  <2> QED
    BY <2>1
<1>12. FinderOK(g) /\ Avail(g) = a /\ g.blockSize = size
       /\ g.pos = f.pos /\ g.cycPos = f.cycPos /\ g.begun = f.begun
       /\ g.ended = f.ended /\ g.err = f.err
  BY <1>2, <1>7, <1>9, <1>10 DEF FinderOK, WindowFields, Avail, a, size
<1>13. Sized(g)
  BY <1>12 DEF Sized, size
<1>14. Window(g, p, fed)
  <2>1. g.buffer <= p /\ w <= g.buffer /\ g.buffer + (fed - p) <= g.blockSize
    BY <1>1, <1>2, <1>4, <1>7, <1>8, <1>9, <1>12
  <2>2. \A k \in -w .. fed - p - 1 : g.buf[g.buffer + k] = data[p + k + 1]
    BY <1>9, <1>11, Zenon
  <2> QED
    BY <1>4, <1>12, <2>1, <2>2, Zenon DEF Window, w
<1> QED
  BY <1>7, <1>9, <1>12, <1>13, <1>14 DEF g, a, after

\* The first half of check_limits leaves room for a read.
LEMMA BeforeReadFacts ==
    ASSUME kind \in Kinds, data \in Streams, NEW f, FinderOK(f), Sized(f),
           NEW p \in Nat, fed \in p .. Len(data), Window(f, p, fed),
           Avail(f) = KeepAfter(kind)
    PROVE  LET g == BeforeRead(f)
           IN  /\ FinderOK(g) /\ Sized(g) /\ Window(g, p, fed)
               /\ ReadsOn(g) => g.blockSize - g.buffer > KeepAfter(kind)
               /\ g.pos = f.pos /\ g.cycPos = f.cycPos /\ g.begun = f.begun
<1>1. CASE NeedMove(f)
  <2>1. BeforeRead(f) = MoveBlock(f)
    BY <1>1 DEF BeforeRead
  <2> QED
    BY <1>1, <2>1, MoveFacts
<1>2. CASE ~NeedMove(f)
  <2>1. BeforeRead(f) = f
    BY <1>2 DEF BeforeRead
  <2>2. f.blockSize - f.buffer \in Int /\ KeepAfter(kind) \in Nat
    BY KindFacts DEF FinderOK
  <2>3. ReadsOn(f) => f.blockSize - f.buffer > KeepAfter(kind)
    BY <1>2, <2>2 DEF NeedMove, ReadsOn
  <2> QED
    BY <2>1, <2>3
<1> QED
  BY <1>1, <1>2

\* The second half of check_limits: the positions are normalised, the cyclic slot
\* wraps and the limits are set, with the window as it was.
LEMMA AfterReadFacts ==
    ASSUME kind \in Kinds, NEW f, FinderOK(f), Sized(f), f.begun,
           ReadsOn(f) => Avail(f) > KeepAfter(kind)
    PROVE  LET g == AfterRead(f)
           IN  /\ FinderOK(g) /\ Sized(g) /\ Limited(g) /\ g.begun
               /\ \A p, n : Window(f, p, n) => Window(g, p, n)
<1> DEFINE sub == (f.pos - HistorySize - 1) % PosMod
           x == (f.pos - sub) % PosMod
           y == (f.streamPos - sub) % PosMod
           m == IF f.pos = KMax /\ Avail(f) >= kind.n THEN Normalize(f) ELSE f
           cyc == IF m.cycPos = Cyclic THEN 0 ELSE m.cycPos
           c == [m EXCEPT !.cycPos = cyc]
<1>1. f.pos \in Int /\ f.streamPos \in Int /\ HistorySize \in Nat
  BY Sizes DEF FinderOK, Positions
<1>2. sub \in Int
  <2>1. f.pos - HistorySize - 1 \in Int
    BY <1>1
  <2> QED
    BY <2>1, DivMod DEF Positions
<1> HIDE DEF sub
<1>3. x \in Positions /\ y \in Positions /\ (y - x) % PosMod = Avail(f)
  <2>1. f.pos - sub \in Int /\ f.streamPos - sub \in Int
    BY <1>1, <1>2
  <2>2. x \in Positions /\ y \in Positions
    BY <2>1, DivMod
  <2>3. (y - x) % PosMod = (f.streamPos - f.pos) % PosMod
    BY <1>1, <1>2, Reduced
  <2> QED
    BY <2>2, <2>3 DEF Avail
<1> HIDE DEF x, y
<1>4. \E p2, p3, p4, p5 :
        Normalize(f) = [f EXCEPT !.pos = x, !.streamPos = y, !.hash2 = p2, !.hash3 = p3,
                                 !.high = p4, !.son = p5]
  BY Zenon DEF Normalize, x, y, sub
<1>5. LET g == Normalize(f)
      IN  /\ DOMAIN g = DOMAIN f /\ g.pos = x /\ g.streamPos = y
          /\ \A z \in WindowFields \ {"pos", "streamPos"} : g[z] = f[z]
  BY <1>4 DEF FinderOK, WindowFields
<1>6. /\ DOMAIN m = DOMAIN f /\ m.pos \in Positions /\ m.streamPos \in Positions
      /\ Avail(m) = Avail(f)
      /\ \A z \in WindowFields \ {"pos", "streamPos"} : m[z] = f[z]
  <2>1. CASE m = f
    BY <2>1 DEF FinderOK
  <2>2. CASE m = Normalize(f)
    BY <1>3, <1>5, <2>2 DEF Avail
  <2> QED
    BY <2>1, <2>2
<1> HIDE DEF m
<1>7. cyc \in 0 .. Cyclic /\ cyc < Cyclic
  <2>1. f.cycPos \in 0 .. Cyclic /\ m.cycPos = f.cycPos /\ Cyclic \in Nat \ {0}
    BY <1>6, Sizes DEF FinderOK, WindowFields
  <2> QED
    BY <2>1
<1> HIDE DEF cyc
<1>8. /\ DOMAIN c = DOMAIN f /\ c.pos \in Positions /\ c.streamPos \in Positions
      /\ c.cycPos = cyc /\ Avail(c) = Avail(f)
      /\ \A z \in WindowFields \ {"pos", "streamPos", "cycPos"} : c[z] = f[z]
  BY <1>6 DEF WindowFields, FinderOK, Avail
<1>9. AfterRead(f) = SetLimits(c)
  BY Zenon DEF AfterRead, c, cyc, m
<1> HIDE DEF c
<1>10. /\ c.blockSize = f.blockSize /\ c.buffer = f.buffer /\ c.buf = f.buf
       /\ c.ended = f.ended /\ c.begun = f.begun /\ c.err = f.err /\ c.posLimit = f.posLimit
  BY <1>8 DEF WindowFields
<1>11. FinderOK(c) /\ Sized(c) /\ c.begun /\ (ReadsOn(c) => Avail(c) > KeepAfter(kind))
  BY <1>7, <1>8, <1>10 DEF FinderOK, Sized, ReadsOn
<1>12. \A p, n : Window(f, p, n) => Window(c, p, n)
  BY <1>8, <1>10 DEF Window
<1>13. c.cycPos < Cyclic
  BY <1>7, <1>8
<1> QED
  BY <1>9, <1>11, <1>12, <1>13, SetLimitsFacts

\* Two positions that are no distance apart are the same.
LEMMA NoDistance ==
    ASSUME NEW x \in Positions, NEW y \in Positions
    PROVE  (x - y) % PosMod = 0 <=> x = y
<1> DEFINE M == PosMod
           z == x - y
           q == z \div M
<1>1. M \in Nat \ {0} /\ x \in 0 .. M - 1 /\ y \in 0 .. M - 1 /\ z \in Int
  BY Sizes DEF Positions
<1>2. z = M * q + (z % M) /\ q \in Int
  BY <1>1, DivMod
<1>3. 0 % M = 0
  BY <1>1
<1> HIDE DEF M, q
<1>4. ASSUME z % M = 0 PROVE z = 0
  <2>1. z = M * q
    BY <1>1, <1>2, <1>4
  <2>2. q >= 1 => M * q >= M
    BY <1>1, <1>2
  <2>3. q <= -1 => M * q <= -M
    BY <1>1, <1>2
  <2>4. q = 0 => M * q = 0
    BY <1>1
  <2> QED
    BY <1>1, <1>2, <2>1, <2>2, <2>3, <2>4
<1> QED
  BY <1>1, <1>3, <1>4 DEF M

\* One position on, the window still holds the stream.
LEMMA StepFacts ==
    ASSUME data \in Streams, NEW f, FinderOK(f), Sized(f),
           NEW p \in Nat, NEW n \in Nat, p < n, Window(f, p, n), f.cycPos < Cyclic
    PROVE  LET g == Step1(f)
           IN  /\ FinderOK(g) /\ Sized(g) /\ Window(g, p + 1, n)
               /\ Avail(g) = Avail(f) - 1
               /\ g.posLimit = f.posLimit /\ g.begun = f.begun
               /\ g.pos = (f.pos + 1) % PosMod /\ g.cycPos = f.cycPos + 1
               /\ g.ended = f.ended /\ g.err = f.err
<1> DEFINE g == Step1(f)
           pos == (f.pos + 1) % PosMod
           cyc == f.cycPos + 1
           top == f.buffer
           v == MinOf(p, HistorySize)
           w == MinOf(p + 1, HistorySize)
<1>1. /\ f.pos \in Int /\ f.streamPos \in Int /\ top \in Nat /\ f.cycPos \in Nat
      /\ Cyclic \in Nat /\ HistorySize \in Nat
  BY Sizes DEF FinderOK, Positions
<1>2. pos \in Positions
  <2>1. f.pos + 1 \in Int
    BY <1>1
  <2> QED
    BY <2>1, DivMod
<1>3. cyc \in 0 .. Cyclic
  BY <1>1
<1>4. Avail(f) = n - p /\ n - p \in Nat /\ n - p >= 1
  BY DEF Window
<1>5. (f.streamPos - pos) % PosMod = Avail(f) - 1
  <2>1. 1 \in 0 .. (f.streamPos - f.pos) % PosMod
    BY <1>4 DEF Avail
  <2> QED
    BY <1>1, <2>1, Closer DEF Avail
<1>6. g = [f EXCEPT !.cycPos = cyc, !.buffer = top + 1, !.pos = pos]
  BY Zenon DEF Step1
<1>7. v \in Nat /\ w \in Nat /\ w <= p + 1 /\ w <= v + 1
  BY <1>1 DEF MinOf
<1>8. /\ top <= p /\ v <= top /\ top + (n - p) <= f.blockSize /\ f.blockSize \in Nat
      /\ \A k \in -v .. n - p - 1 : f.buf[top + k] = data[p + k + 1]
  BY DEF Window, FinderOK
<1> HIDE DEF g, pos, cyc, top, v, w
<1>9. /\ DOMAIN g = DOMAIN f /\ g.pos = pos /\ g.cycPos = cyc /\ g.buffer = top + 1
      /\ \A x \in WindowFields \ {"pos", "cycPos", "buffer"} : g[x] = f[x]
  BY <1>6 DEF FinderOK, WindowFields
<1>10. /\ g.blockSize = f.blockSize /\ g.buf = f.buf /\ g.posLimit = f.posLimit
       /\ g.begun = f.begun /\ g.streamPos = f.streamPos /\ g.ended = f.ended /\ g.err = f.err
  BY <1>9 DEF WindowFields
<1>11. FinderOK(g) /\ Sized(g)
  BY <1>1, <1>2, <1>3, <1>9, <1>10 DEF FinderOK, Sized
<1>12. Avail(g) = Avail(f) - 1
  BY <1>5, <1>9, <1>10 DEF Avail
<1>13. Window(g, p + 1, n)
  <2> DEFINE i == p + 1
  <2>1. Avail(g) = n - i /\ g.buffer <= i /\ w <= g.buffer /\ g.buffer + (n - i) <= g.blockSize
    BY <1>1, <1>4, <1>7, <1>8, <1>9, <1>10, <1>12
  <2>2. ASSUME NEW k \in -w .. n - i - 1
        PROVE  g.buf[g.buffer + k] = data[i + k + 1]
    <3>1. k + 1 \in -v .. n - p - 1
      BY <1>7
    <3>2. g.buffer + k = top + (k + 1) /\ i + k + 1 = p + (k + 1) + 1
      BY <1>1, <1>7, <1>9
    <3>3. f.buf[top + (k + 1)] = data[p + (k + 1) + 1]
      BY <1>8, <3>1
    <3> QED
      BY <1>10, <3>2, <3>3
  <2>3. w = MinOf(i, HistorySize)
    BY DEF w
  <2> HIDE DEF i
  <2>4. Window(g, i, n)
    BY <2>1, <2>2, <2>3 DEF Window
  <2> QED
    BY <2>4 DEF i
<1> QED
  BY <1>9, <1>10, <1>11, <1>12, <1>13 DEF g, pos, cyc

\* What a state of the window says of a finder with the same window as mf.
LEMMA SameAsState ==
    ASSUME WindowInv, mf.begun, NEW f, SameWindow(mf, f)
    PROVE  /\ FinderOK(f) /\ Sized(f) /\ Window(f, at, fed) /\ Limited(f) /\ f.begun
           /\ kind \in Kinds /\ data \in Streams /\ at \in Nat /\ fed \in at .. Len(data)
           /\ Len(data) \in Nat
<1>1. FinderOK(mf) /\ Sized(mf) /\ Window(mf, at, fed) /\ Limited(mf)
  BY DEF WindowInv
<1>2. FinderOK(f) /\ Sized(f) /\ Window(f, at, fed) /\ Limited(f)
  BY <1>1, SameKeeps
<1>3. f.begun
  BY DEF SameWindow, WindowFields
<1> QED
  BY <1>2, <1>3, FinderAssumption DEF WindowInv

\* move_pos: the position moves, and where it has to look around the window is
\* moved, read into, and given its limits again.
LEMMA MovePosKeeps ==
    ASSUME WindowInv, mf.begun, at < fed, NEW f, SameWindow(mf, f), MovePos(f),
           kind' = kind, data' = data
    PROVE  WindowInv'
<1> DEFINE g == Step1(f)
           h == BeforeRead(g)
           p == at + 1
           after == KeepAfter(kind)
<1>1. /\ FinderOK(f) /\ Sized(f) /\ Window(f, at, fed) /\ Limited(f) /\ f.begun
      /\ kind \in Kinds /\ data \in Streams /\ at \in Nat /\ fed \in at .. Len(data)
      /\ Len(data) \in Nat
  BY SameAsState
<1>2. /\ fed \in Nat /\ p \in Nat /\ fed \in p .. Len(data) /\ after \in Nat \ {0} /\ Cyclic \in Nat
      /\ PosMod \in Nat
  BY <1>1, KindFacts, Sizes
<1>3. /\ Avail(f) = fed - at /\ Avail(f) \in Nat \ {0} /\ f.cycPos \in Nat
      /\ f.pos \in Positions /\ f.posLimit \in Positions
      /\ f.pos \in Int /\ f.posLimit \in Int
  BY <1>1, <1>2, Sizes, SMTT(40) DEF Window, FinderOK, Positions
<1>4. /\ ToLimit(f) \in 1 .. Avail(f) /\ f.cycPos + ToLimit(f) <= Cyclic
      /\ ReadsOn(f) => ToLimit(f) + after <= Avail(f)
  BY <1>1, <1>3 DEF Limited
<1>5. f.cycPos < Cyclic
  BY <1>2, <1>3, <1>4
<1>6. /\ FinderOK(g) /\ Sized(g) /\ Window(g, p, fed) /\ Avail(g) = Avail(f) - 1
      /\ g.posLimit = f.posLimit /\ g.begun = f.begun
      /\ g.pos = (f.pos + 1) % PosMod /\ g.cycPos = f.cycPos + 1
      /\ g.ended = f.ended /\ g.err = f.err
  BY <1>1, <1>2, <1>5, StepFacts
<1>7. ToLimit(g) = ToLimit(f) - 1
  <2>1. 1 \in 0 .. (f.posLimit - f.pos) % PosMod
    BY <1>3, <1>4 DEF ToLimit
  <2> QED
    BY <1>3, <1>6, <2>1, Closer DEF ToLimit
<1>8. ToLimit(g) = 0 <=> g.pos = g.posLimit
  <2>1. g.pos \in Positions /\ g.posLimit \in Positions
    BY <1>6 DEF FinderOK
  <2>2. (g.posLimit - g.pos) % PosMod = 0 <=> g.posLimit = g.pos
    BY <2>1, NoDistance
  <2> QED
    BY <2>2 DEF ToLimit
<1>9. ReadsOn(g) <=> ReadsOn(f)
  BY <1>6 DEF ReadsOn
<1>10. ReadsOn(g) => Avail(g) >= after
  BY <1>2, <1>3, <1>4, <1>6, <1>9
<1> HIDE DEF g
<1>11. /\ at' = p
       /\ \/ g.pos # g.posLimit /\ mf' = g /\ fed' = fed
          \/ g.pos = g.posLimit /\ Avail(g) # after /\ mf' = AfterRead(g) /\ fed' = fed
          \/ g.pos = g.posLimit /\ Avail(g) = after
             /\ \E o \in ReadOutcomes(h) : mf' = AfterRead(ReadBlock(h, o)) /\ fed' = fed + o.n
  BY Zenon DEF MovePos, g
<1> HIDE DEF p, after, h
<1>12. ASSUME NEW x, NEW n, mf' = x, fed' = n, n \in p .. Len(data), x.begun,
              FinderOK(x), Sized(x), Window(x, p, n), Limited(x)
       PROVE  WindowInv'
  BY <1>1, <1>2, <1>11, <1>12
     DEF WindowInv, FinderOK, Sized, Window, Limited, Avail, ToLimit, ReadsOn
<1>13. CASE g.pos # g.posLimit /\ mf' = g /\ fed' = fed
  <2>1. ToLimit(g) \in 1 .. Avail(g)
    BY <1>3, <1>4, <1>6, <1>7, <1>8, <1>13
  <2>2. g.cycPos + ToLimit(g) <= Cyclic
    BY <1>2, <1>3, <1>4, <1>6, <1>7
  <2>3. ReadsOn(g) => ToLimit(g) + after <= Avail(g) /\ Avail(g) > 0
    BY <1>2, <1>3, <1>4, <1>6, <1>7, <1>9, <2>1, SMTT(40)
  <2>4. Limited(g)
    BY <2>1, <2>2, <2>3 DEF Limited, after
  <2> QED
    BY <1>1, <1>2, <1>6, <1>12, <1>13, <2>4
<1>14. CASE Avail(g) # after /\ mf' = AfterRead(g) /\ fed' = fed
  <2>1. ReadsOn(g) => Avail(g) > after
    BY <1>2, <1>3, <1>6, <1>10, <1>14
  <2> DEFINE x == AfterRead(g)
  <2>2. FinderOK(x) /\ Sized(x) /\ Limited(x) /\ x.begun /\ Window(x, p, fed)
    BY <1>1, <1>6, <2>1, AfterReadFacts DEF after
  <2> HIDE DEF x
  <2>3. mf' = x
    BY <1>14 DEF x
  <2> QED
    BY <1>2, <1>12, <1>14, <2>2, <2>3
<1>15. ASSUME Avail(g) = after, NEW o \in ReadOutcomes(h),
              mf' = AfterRead(ReadBlock(h, o)), fed' = fed + o.n
       PROVE  WindowInv'
  <2> DEFINE r == ReadBlock(h, o)
             x == AfterRead(r)
             n == fed + o.n
  <2>1. /\ FinderOK(h) /\ Sized(h) /\ Window(h, p, fed)
        /\ ReadsOn(h) => h.blockSize - h.buffer > after
        /\ h.begun = g.begun
    BY <1>1, <1>2, <1>6, <1>15, BeforeReadFacts DEF after, h
  <2>2. h.blockSize < PosMod
    BY <2>1 DEF Sized
  <2>3. /\ FinderOK(r) /\ n \in p .. Len(data) /\ Window(r, p, n)
        /\ r.blockSize = h.blockSize /\ r.begun = h.begun /\ (h.ended => r.ended)
        /\ ReadsOn(r) => ReadsOn(h) /\ (Avail(r) > after \/ Avail(r) = h.blockSize - h.buffer)
    BY <1>1, <1>2, <1>15, <2>1, <2>2, ReadFacts DEF after
  <2>4. mf' = x /\ fed' = n
    BY <1>15
  <2> HIDE DEF r, n
  <2>5. ReadsOn(r) => Avail(r) > after
    BY <2>1, <2>3
  <2>6. Sized(r)
    BY <2>1, <2>3 DEF Sized
  <2>7. r.begun
    BY <1>1, <1>6, <2>1, <2>3
  <2>8. FinderOK(x) /\ Sized(x) /\ Limited(x) /\ x.begun /\ Window(x, p, n)
    BY <1>1, <2>3, <2>5, <2>6, <2>7, AfterReadFacts DEF after
  <2> HIDE DEF x
  <2> QED
    BY <1>12, <2>3, <2>4, <2>8
<1> QED
  BY <1>11, <1>13, <1>14, <1>15

-----------------------------------------------------------------------------
(* The actions.                                                            *)

\* The struct before any call has the window of itself.
LEMMA SameSelf ==
    ASSUME NEW f, FinderOK(f)
    PROVE  SameWindow(f, f)
  BY DEF FinderOK, SameWindow

\* get_matches and skip enter the position and move on.
LEMMA GetMatchesKeeps ==
    ASSUME WindowInv, mf.begun, GetMatches
    PROVE  WindowInv'
<1>1. FinderOK(mf) /\ at < fed /\ kind' = kind /\ data' = data
  BY Zenon DEF WindowInv, GetMatches
<1>2. SameWindow(mf, mf)
  BY <1>1, SameSelf
<1>3. CASE MovePos(mf)
  BY <1>1, <1>2, <1>3, MovePosKeeps
<1>4. ASSUME NEW low, MovePos(HighMatches(EnterLow(mf), low).f)
      PROVE  WindowInv'
  <2>1. SameWindow(mf, EnterLow(mf))
    BY <1>1, EnterLowSame
  <2> DEFINE f == HighMatches(EnterLow(mf), low).f
  <2>2. SameWindow(mf, f)
    BY <1>1, <2>1, HighMatchesSame
  <2>3. MovePos(f)
    BY <1>4
  <2> HIDE DEF f
  <2> QED
    BY <1>1, <2>2, <2>3, MovePosKeeps
<1>5. MovePos(mf) \/ \E low : MovePos(HighMatches(EnterLow(mf), low).f)
  BY Zenon DEF GetMatches
<1> QED
  BY <1>3, <1>4, <1>5

\* The same of skip.
LEMMA SkipKeeps ==
    ASSUME WindowInv, mf.begun, Skip
    PROVE  WindowInv'
<1>1. FinderOK(mf) /\ at < fed /\ kind' = kind /\ data' = data
  BY Zenon DEF WindowInv, Skip
<1>2. SameWindow(mf, mf)
  BY <1>1, SameSelf
<1>3. CASE MovePos(mf)
  BY <1>1, <1>2, <1>3, MovePosKeeps
<1> DEFINE t == TakeHead(EnterLow(mf), FALSE)
<1>4. SameWindow(mf, t.f)
  BY <1>1, EnterLowSame, TakeHeadSame
<1>5. MovePos(mf) \/ \E s : MovePos([t.f EXCEPT !.son = s])
  BY Zenon DEF Skip, BtSkip, HcSkip
<1> HIDE DEF t
<1>6. ASSUME NEW s, MovePos([t.f EXCEPT !.son = s])
      PROVE  WindowInv'
  <2> DEFINE f == [t.f EXCEPT !.son = s]
  <2>1. SameWindow(mf, f)
    BY <1>4 DEF SameWindow, WindowFields
  <2>2. MovePos(f)
    BY <1>6
  <2> HIDE DEF f
  <2> QED
    BY <1>1, <2>1, <2>2, MovePosKeeps
<1> QED
  BY <1>3, <1>5, <1>6

\* `init`: the first read leaves more than the look-ahead, or reading is over.
LEMMA BeginKeeps ==
    ASSUME WindowInv, Begin
    PROVE  WindowInv'
<1> DEFINE n == Len(data)
           after == KeepAfter(kind)
<1>1. /\ kind \in Kinds /\ data \in Streams /\ at = 0 /\ fed = 0 /\ n \in Nat
      /\ FinderOK(mf) /\ Sized(mf) /\ Window(mf, at, fed) /\ ReadsOn(mf)
      /\ mf.cycPos = 1 /\ mf.buffer = 0
  BY FinderAssumption DEF WindowInv, Begin
<1>2. after \in Nat /\ KeepBefore \in Nat /\ Reserve \in Nat \ {0} /\ Cyclic > 1 /\ Cyclic \in Nat
  BY <1>1, KindFacts, Sizes
<1>3. mf.blockSize \in {KeepBefore + after + Reserve, n + after + 1} /\ mf.blockSize < PosMod
  BY <1>1 DEF Sized, ReadsOn
<1>4. mf.blockSize > after /\ mf.blockSize \in Nat
  BY <1>1, <1>2, <1>3 DEF FinderOK
<1>5. PICK o \in ReadOutcomes(mf) :
        mf' = SetLimits([ReadBlock(mf, o) EXCEPT !.begun = TRUE]) /\ fed' = o.n
  BY Zenon DEF Begin
<1> DEFINE r == ReadBlock(mf, o)
           b == [r EXCEPT !.begun = TRUE]
           x == SetLimits(b)
<1>6. kind' = kind /\ data' = data /\ at' = at
  BY DEF Begin
<1>7. /\ FinderOK(r) /\ o.n \in Nat /\ fed + o.n \in at .. n /\ Window(r, at, fed + o.n)
      /\ r.blockSize = mf.blockSize /\ r.buffer = mf.buffer /\ r.cycPos = mf.cycPos
      /\ (mf.ended => r.ended)
      /\ ReadsOn(r) => /\ ReadsOn(mf)
                       /\ Avail(r) > after \/ Avail(r) = mf.blockSize - mf.buffer
  <2>1. at \in Nat /\ fed \in at .. Len(data)
    BY <1>1
  <2> QED
    BY <1>1, <1>3, <2>1, ReadFacts
<1> HIDE DEF r, n, after
<1>8. ReadsOn(r) => Avail(r) > after
  BY <1>1, <1>4, <1>7
<1>9. /\ FinderOK(b) /\ b.cycPos < Cyclic /\ b.begun /\ Sized(b)
      /\ ReadsOn(b) => Avail(b) > after
      /\ Avail(b) = Avail(r)
      /\ \A p, m : Window(r, p, m) => Window(b, p, m)
  <2>1. /\ DOMAIN b = DOMAIN r /\ b.begun
        /\ \A z \in WindowFields \ {"begun"} : b[z] = r[z]
    BY <1>7 DEF FinderOK, WindowFields
  <2> HIDE DEF b
  <2>2. FinderOK(b) /\ b.cycPos = 1 /\ b.blockSize = mf.blockSize /\ Avail(b) = Avail(r)
        /\ (ReadsOn(b) => ReadsOn(r)) /\ b.ended = r.ended
        /\ b.buf = r.buf /\ b.buffer = r.buffer
    BY <1>1, <1>7, <2>1 DEF FinderOK, WindowFields, Avail, ReadsOn
  <2>3. Sized(b)
    BY <1>1, <1>7, <2>2 DEF Sized
  <2>4. \A p, m : Window(r, p, m) => Window(b, p, m)
    BY <1>7, <2>2 DEF Window
  <2> QED
    BY <1>2, <1>8, <2>1, <2>2, <2>3, <2>4
<1>10. mf' = x /\ fed' = fed + o.n
  BY <1>1, <1>5, <1>7 DEF r
<1> HIDE DEF b
<1>11. Window(b, at, fed + o.n)
  BY <1>7, <1>9
<1>12. FinderOK(x) /\ Sized(x) /\ Window(x, at, fed + o.n) /\ Limited(x) /\ x.begun
  BY <1>1, <1>9, <1>11, SetLimitsFacts DEF after
<1> HIDE DEF x
<1>13. fed' \in at .. n
  BY <1>7, <1>10
<1> DEFINE f1 == fed + o.n
<1>14. /\ mf' = x /\ fed' = f1 /\ fed' \in at .. Len(data) /\ x.begun
       /\ FinderOK(x) /\ Sized(x) /\ Window(x, at, f1) /\ Limited(x)
  BY <1>10, <1>12, <1>13 DEF n
<1> HIDE DEF f1
<1> QED
  BY <1>1, <1>6, <1>14 DEF WindowInv, FinderOK, Sized, Window, Limited, Avail, ToLimit, ReadsOn

\* `init` with direct_input: the window is the whole stream.
LEMMA BeginDirectKeeps ==
    ASSUME WindowInv, BeginDirect
    PROVE  WindowInv'
<1> DEFINE n == Len(data)
           buf == [i \in 0 .. n - 1 |-> data[i + 1]]
           sp == mf.streamPos + n
           b == [mf EXCEPT !.begun = TRUE, !.buf = buf, !.blockSize = n,
                           !.streamPos = sp, !.ended = TRUE]
           x == SetLimits(b)
<1>1. /\ kind \in Kinds /\ data \in Streams /\ at = 0 /\ fed = 0 /\ n \in Nat
      /\ FinderOK(mf) /\ mf.cycPos = 1 /\ mf.buffer = 0 /\ mf.pos = 1 /\ mf.streamPos = 1
      /\ n <= DirectMax
  BY FinderAssumption DEF WindowInv, BeginDirect, StreamLen
<1>2. /\ HistorySize \in Nat /\ Cyclic \in Nat /\ Cyclic > 1 /\ PosMod \in Nat
      /\ n <= PosMod - 2
  BY <1>1, Sizes
<1>3. kind' = kind /\ data' = data /\ at' = at /\ fed' = n
  BY DEF BeginDirect, StreamLen
<1>4. mf' = x
  BY Zenon DEF BeginDirect, StreamLen
<1>5. /\ DOMAIN b = DOMAIN mf /\ b.begun = TRUE /\ b.buf = buf /\ b.blockSize = n
      /\ b.streamPos = sp /\ b.ended = TRUE
      /\ \A z \in WindowFields \ {"begun", "buf", "blockSize", "streamPos", "ended"} : b[z] = mf[z]
  BY <1>1 DEF FinderOK, WindowFields
<1>6. sp = n + 1 /\ sp \in Positions
  BY <1>1, <1>2 DEF Positions
<1>7. DOMAIN buf = 0 .. n - 1 /\ \A k \in 0 .. n - 1 : buf[k] = data[k + 1]
  OBVIOUS
<1> HIDE DEF b, sp, buf, n
<1>8. FinderOK(b) /\ b.cycPos = 1 /\ b.buffer = 0 /\ b.pos = 1
  BY <1>1, <1>5, <1>6, <1>7, ZenonT(60) DEF FinderOK, WindowFields
<1>9. Avail(b) = n
  <2>1. (b.streamPos - b.pos) = n /\ n \in Positions
    BY <1>1, <1>2, <1>5, <1>6, <1>8 DEF Positions
  <2> QED
    BY <2>1, SmallMod DEF Avail
<1>10. Sized(b) /\ ~ReadsOn(b)
  BY <1>1, <1>2, <1>5 DEF Sized, ReadsOn
<1>11. Window(b, 0, n)
  <2>1. MinOf(0, HistorySize) = 0
    BY <1>2 DEF MinOf
  <2>2. ASSUME NEW k \in 0 .. n - 1
        PROVE  b.buf[b.buffer + k] = data[0 + k + 1]
    <3>1. b.buffer + k = k /\ 0 + k + 1 = k + 1
      BY <1>8
    <3> QED
      BY <1>5, <1>7, <3>1
  <2>3. /\ n - 0 = n /\ 0 + (n - 0) <= n
    BY <1>1 DEF n
  <2> QED
    BY <1>5, <1>8, <1>9, <2>1, <2>2, <2>3 DEF Window
<1>12. FinderOK(x) /\ Sized(x) /\ Window(x, 0, n) /\ Limited(x) /\ x.begun
  BY <1>1, <1>2, <1>5, <1>8, <1>10, <1>11, SetLimitsFacts
<1> HIDE DEF x
<1>13. fed' \in at .. Len(data)
  BY <1>1, <1>3 DEF n
<1> QED
  BY <1>1, <1>3, <1>4, <1>12, <1>13
     DEF WindowInv, FinderOK, Sized, Window, Limited, Avail, ToLimit, ReadsOn

\* The empty window has the size that `plan` computes.
LEMMA InitWindow ==
    Init => WindowInv
<1> SUFFICES ASSUME Init PROVE WindowInv
  OBVIOUS
<1> DEFINE after == KeepAfter(kind)
           n == Len(data)
<1>1. kind \in Kinds /\ data \in Streams /\ fed = 0 /\ at = 0 /\ n \in Nat
  BY FinderAssumption DEF Init
<1>2. PICK limit \in {n, PosMod} : mf = Created(kind, limit)
  BY DEF Init
<1> DEFINE size == BlockSize(kind, limit)
<1>3. /\ after \in Nat /\ KeepBefore \in Nat /\ Reserve \in Nat /\ PosMod \in Nat
      /\ KeepBefore + after + Reserve < PosMod /\ Cyclic \in Nat /\ Cyclic > 1 /\ PosMod > 1
      /\ HistorySize \in Nat
  BY <1>1, KindFacts, Sizes
<1>4. /\ size \in {KeepBefore + after + Reserve, n + after + 1}
      /\ size < PosMod /\ size \in Nat
  BY <1>1, <1>2, <1>3 DEF BlockSize, MinOf
<1> HIDE DEF size, after, n
<1>5. /\ WindowFields \cup {"hash2", "hash3", "high", "son", "heads"} \subseteq DOMAIN mf
      /\ mf.blockSize = size /\ mf.buffer = 0 /\ DOMAIN mf.buf = 0 .. size - 1
      /\ mf.pos = 1 /\ mf.streamPos = 1 /\ mf.posLimit = 1 /\ mf.cycPos = 1
      /\ mf.ended = FALSE /\ mf.err = "none" /\ mf.begun = FALSE
  BY <1>2 DEF Created, WindowFields, size
<1>6. FinderOK(mf)
  <2>1. 1 \in Positions /\ 1 \in 0 .. Cyclic /\ 0 \in Nat
    BY <1>3 DEF Positions
  <2> QED
    BY <1>4, <1>5, <2>1 DEF FinderOK
<1>7. Sized(mf) /\ ReadsOn(mf)
  BY <1>4, <1>5 DEF Sized, ReadsOn, after, n
<1>8. Avail(mf) = 0
  <2>1. mf.streamPos - mf.pos = 0 /\ 0 \in Positions
    BY <1>3, <1>5 DEF Positions
  <2> QED
    BY <2>1, SmallMod DEF Avail
<1>9. Window(mf, 0, 0)
  <2>1. MinOf(0, HistorySize) = 0
    BY <1>3 DEF MinOf
  <2>2. 0 - 0 = 0 /\ 0 + (0 - 0) <= size /\ 0 <= 0
    BY <1>4
  <2>3. -0 .. 0 - 0 - 1 = {}
    OBVIOUS
  <2> QED
    BY <1>5, <1>8, <2>1, <2>2, <2>3 DEF Window
<1>10. fed \in at .. Len(data) /\ at \in Nat
  BY <1>1 DEF n
<1> QED
  BY <1>1, <1>5, <1>6, <1>7, <1>9, <1>10 DEF WindowInv

-----------------------------------------------------------------------------
(* The theorems about the window.                                          *)

\* The window is sound in every state of the finder, for every kind of it, every
\* stream and every size of the window.
THEOREM WindowInductive == Spec => []WindowInv
<1>1. ASSUME WindowInv, [Next]_vars PROVE WindowInv'
  <2>1. CASE Begin
    BY <1>1, <2>1, BeginKeeps
  <2>2. CASE BeginDirect
    BY <1>1, <2>2, BeginDirectKeeps
  <2>3. CASE mf.begun /\ GetMatches
    BY <1>1, <2>3, GetMatchesKeeps
  <2>4. CASE mf.begun /\ Skip
    BY <1>1, <2>4, SkipKeeps
  <2>5. CASE UNCHANGED vars
    BY <1>1, <2>5 DEF vars, WindowInv, FinderOK, Sized, Window, Limited, Avail, ToLimit, ReadsOn
  <2> QED
    BY <1>1, <2>1, <2>2, <2>3, <2>4, <2>5 DEF Next
<1> QED
  BY InitWindow, <1>1, PTL DEF Spec

\* The window around `buffer` holds the stream around the current position, whatever
\* was moved, normalised or read in pieces.
THEOREM HoldsHistory == Spec => []WindowHoldsHistory
<1>1. ASSUME WindowInv PROVE WindowHoldsHistory
  <2>1. FinderOK(mf) /\ Window(mf, at, fed) /\ at \in Nat /\ fed \in at .. Len(data)
        /\ Len(data) \in Nat /\ HistorySize \in Nat
    BY <1>1, FinderAssumption, Sizes DEF WindowInv
  <2>2. Avail(mf) = fed - at
    BY <2>1 DEF Window
  <2> DEFINE w == MinOf(at, HistorySize)
             d == fed - at
  <2>3. w \in Nat /\ w <= mf.buffer /\ mf.buffer \in Nat /\ mf.blockSize \in Nat
        /\ d \in Nat /\ mf.buffer + d <= mf.blockSize
    BY <2>1 DEF Window, FinderOK, MinOf
  <2>4. ASSUME NEW k \in -w .. d - 1
        PROVE  mf.buffer + k \in DOMAIN mf.buf /\ mf.buf[mf.buffer + k] = data[at + k + 1]
    <3>1. mf.buf[mf.buffer + k] = data[at + k + 1]
      BY <2>1 DEF Window
    <3> HIDE DEF w, d
    <3>2. mf.buffer + k \in 0 .. mf.blockSize - 1
      BY <2>3
    <3> QED
      BY <2>1, <3>1, <3>2 DEF FinderOK
  <2> QED
    BY <2>2, <2>4 DEF WindowHoldsHistory
<1> QED
  BY WindowInductive, <1>1, PTL

\* move_block never meets its internal error, and while reading goes on there is
\* always a byte left to move to.
THEOREM WindowLargeEnough == Spec => []WindowSuffices
<1>1. ASSUME WindowInv PROVE WindowSuffices
  <2>1. mf.err # "internal"
    BY <1>1 DEF WindowInv, FinderOK
  <2>2. ASSUME mf.begun, ~mf.ended, mf.err = "none" PROVE at < fed
    <3>1. Avail(mf) > 0 /\ Avail(mf) = fed - at /\ at \in Nat /\ fed \in at .. Len(data)
          /\ Len(data) \in Nat
      BY <1>1, <2>2, FinderAssumption DEF WindowInv, Limited, ReadsOn, Window
    <3> QED
      BY <3>1
  <2> QED
    BY <2>1, <2>2 DEF WindowSuffices
<1> QED
  BY WindowInductive, <1>1, PTL

(***************************************************************************)
(* The order of positions by the bytes that follow them.  D[i] is byte i   *)
(* of the stream, and n bytes are looked at.                               *)
(***************************************************************************)
Texts == [Nat -> Int]

\* The same n bytes follow x and y.
Same(D, x, y, n) == \A k \in 0 .. n - 1 : D[x + k] = D[y + k]

\* Less bytes follow x.
Below(D, x, y, n) == \E k \in 0 .. n - 1 : Same(D, x, y, k) /\ D[x + k] < D[y + k]

\* Side 0 of a position is below it, side 1 above.
Strict(D, t, y, x, n) == IF t = 0 THEN Below(D, y, x, n) ELSE Below(D, x, y, n)

Ord(D, t, y, x, n) == Same(D, y, x, n) \/ Strict(D, t, y, x, n)

\* Same is an equivalence, and fewer bytes agree if more do.
LEMMA SameFacts ==
    ASSUME NEW D \in Texts, NEW x \in Nat, NEW y \in Nat, NEW z \in Nat, NEW n \in Nat, NEW m \in 0 .. n
    PROVE  /\ Same(D, x, x, n)
           /\ Same(D, x, y, n) => Same(D, y, x, n) /\ Same(D, x, y, m)
           /\ Same(D, x, y, n) /\ Same(D, y, z, n) => Same(D, x, z, n)
  BY DEF Same

\* Of two positions that differ, the first byte where they do tells which is below.
LEMMA Trichotomy ==
    ASSUME NEW D \in Texts, NEW x \in Nat, NEW y \in Nat, NEW n \in Nat
    PROVE  Same(D, x, y, n) \/ Below(D, x, y, n) \/ Below(D, y, x, n)
<1> SUFFICES ASSUME ~Same(D, x, y, n) PROVE Below(D, x, y, n) \/ Below(D, y, x, n)
  OBVIOUS
<1> DEFINE T == {k \in Nat : k < n /\ D[x + k] # D[y + k]}
<1>1. \E k \in 0 .. n - 1 : D[x + k] # D[y + k]
  BY DEF Same
<1>2. T # {} /\ T \subseteq Nat
  <2>1. PICK k \in 0 .. n - 1 : D[x + k] # D[y + k]
    BY <1>1
  <2>2. k \in Nat /\ k < n
    BY <2>1
  <2>3. k \in T
    BY <2>1, <2>2
  <2> QED BY <2>3
<1>3. PICK k \in T : \A j \in T : <<j, k>> \notin OpToRel(<, Nat)
  BY <1>2, WFMin, NatLessThanWellFounded, Zenon
<1>4. k \in Nat /\ k < n /\ D[x + k] # D[y + k] /\ k \in 0 .. n - 1
  <2>1. k \in Nat /\ k < n /\ D[x + k] # D[y + k]
    BY <1>3
  <2> QED BY <2>1
<1>5. \A j \in 0 .. k - 1 : D[x + j] = D[y + j]
  <2> SUFFICES ASSUME NEW j \in 0 .. k - 1, D[x + j] # D[y + j] PROVE FALSE
    OBVIOUS
  <2>1. j \in T /\ j < k /\ j \in Nat
    BY <1>4
  <2> QED BY <1>3, <1>4, <2>1 DEF OpToRel
<1>6. Same(D, x, y, k) /\ Same(D, y, x, k)
  BY <1>5 DEF Same
<1>7. D[x + k] \in Int /\ D[y + k] \in Int
  BY <1>4 DEF Texts
<1>8. D[x + k] < D[y + k] \/ D[y + k] < D[x + k]
  BY <1>4, <1>7
<1> QED BY <1>4, <1>6, <1>8 DEF Below

\* Below is a strict order, and respects Same.
LEMMA BelowFacts ==
    ASSUME NEW D \in Texts, NEW x \in Nat, NEW y \in Nat, NEW z \in Nat, NEW n \in Nat
    PROVE  /\ Below(D, x, y, n) => ~Same(D, x, y, n) /\ ~Same(D, y, x, n) /\ ~Below(D, y, x, n)
           /\ Below(D, x, y, n) /\ Below(D, y, z, n) => Below(D, x, z, n)
           /\ Same(D, x, y, n) /\ Below(D, y, z, n) => Below(D, x, z, n)
           /\ Below(D, x, y, n) /\ Same(D, y, z, n) => Below(D, x, z, n)
<1>1. ASSUME Below(D, x, y, n) PROVE ~Same(D, x, y, n) /\ ~Same(D, y, x, n)
  <2>1. PICK k \in 0 .. n - 1 : D[x + k] < D[y + k]
    BY <1>1 DEF Below
  <2>2. D[x + k] \in Int /\ D[y + k] \in Int /\ D[x + k] # D[y + k]
    BY <2>1 DEF Texts
  <2> QED BY <2>2 DEF Same
<1>2. ASSUME Below(D, x, y, n), Below(D, y, z, n) PROVE Below(D, x, z, n) /\ (z = x => FALSE)
  <2>1. PICK k \in 0 .. n - 1 : Same(D, x, y, k) /\ D[x + k] < D[y + k]
    BY <1>2 DEF Below
  <2>2. PICK j \in 0 .. n - 1 : Same(D, y, z, j) /\ D[y + j] < D[z + j]
    BY <1>2 DEF Below
  <2>3. /\ D[x + k] \in Int /\ D[y + k] \in Int /\ D[z + k] \in Int
        /\ D[x + j] \in Int /\ D[y + j] \in Int /\ D[z + j] \in Int
    BY DEF Texts
  <2>4. CASE k <= j
    <3>1. Same(D, x, z, k)
      BY <2>1, <2>2, <2>4 DEF Same
    <3>2. k < j => D[y + k] = D[z + k]
      BY <2>2 DEF Same
    <3>3. D[x + k] < D[z + k]
      BY <2>1, <2>2, <2>3, <2>4, <3>2
    <3> QED BY <2>3, <3>1, <3>3 DEF Below
  <2>5. CASE j < k
    <3>1. Same(D, x, z, j)
      BY <2>1, <2>2, <2>5 DEF Same
    <3>2. D[x + j] = D[y + j]
      BY <2>1, <2>5 DEF Same
    <3>3. D[x + j] < D[z + j]
      BY <2>2, <3>2
    <3> QED BY <2>3, <3>1, <3>3 DEF Below
  <2> QED BY <2>4, <2>5
<1>3. ASSUME Same(D, x, y, n), Below(D, y, z, n) PROVE Below(D, x, z, n)
  <2>1. PICK k \in 0 .. n - 1 : Same(D, y, z, k) /\ D[y + k] < D[z + k]
    BY <1>3 DEF Below
  <2>2. D[x + k] = D[y + k] /\ Same(D, x, z, k)
    BY <1>3, <2>1 DEF Same
  <2> QED BY <2>1, <2>2 DEF Below
<1>4. ASSUME Below(D, x, y, n), Same(D, y, z, n) PROVE Below(D, x, z, n)
  <2>1. PICK k \in 0 .. n - 1 : Same(D, x, y, k) /\ D[x + k] < D[y + k]
    BY <1>4 DEF Below
  <2>2. D[y + k] = D[z + k] /\ Same(D, x, z, k)
    BY <1>4, <2>1 DEF Same
  <2> QED BY <2>1, <2>2 DEF Below
<1>5. ASSUME Below(D, x, y, n) PROVE ~Below(D, y, x, n)
  <2> SUFFICES ASSUME Below(D, y, x, n) PROVE FALSE
    OBVIOUS
  <2>1. PICK k \in 0 .. n - 1 : Same(D, x, y, k) /\ D[x + k] < D[y + k]
    BY <1>5 DEF Below
  <2>2. PICK j \in 0 .. n - 1 : Same(D, y, x, j) /\ D[y + j] < D[x + j]
    BY DEF Below
  <2>3. /\ D[x + k] \in Int /\ D[y + k] \in Int /\ D[x + j] \in Int /\ D[y + j] \in Int
    BY DEF Texts
  <2>4. k < j => D[y + k] = D[x + k]
    BY <2>2 DEF Same
  <2>5. j < k => D[x + j] = D[y + j]
    BY <2>1 DEF Same
  <2> QED BY <2>1, <2>2, <2>3, <2>4, <2>5
<1> QED BY <1>1, <1>2, <1>3, <1>4, <1>5

\* What lies between two positions that agree on m bytes agrees with them.
LEMMA Between ==
    ASSUME NEW D \in Texts, NEW x \in Nat, NEW y \in Nat, NEW z \in Nat, NEW n \in Nat, NEW m \in 0 .. n,
           Same(D, x, y, n) \/ Below(D, x, y, n), Same(D, y, z, n) \/ Below(D, y, z, n), Same(D, x, z, m)
    PROVE  Same(D, x, y, m)
<1>1. CASE Same(D, x, y, n)
  BY <1>1, SameFacts
<1>2. CASE Below(D, x, y, n)
  <2>1. PICK k \in 0 .. n - 1 : Same(D, x, y, k) /\ D[x + k] < D[y + k]
    BY <1>2 DEF Below
  <2>2. CASE k >= m
    BY <2>1, <2>2 DEF Same
  <2>3. CASE k < m
    <3>1. D[x + k] = D[z + k] /\ D[x + k] \in Int /\ D[y + k] \in Int
      BY <2>3 DEF Same, Texts
    <3>2. ~Same(D, y, z, n)
      BY <2>1, <3>1 DEF Same
    <3>3. PICK j \in 0 .. n - 1 : Same(D, y, z, j) /\ D[y + j] < D[z + j]
      BY <3>2 DEF Below
    <3>4. CASE j > k
      BY <2>1, <3>1, <3>3, <3>4 DEF Same
    <3>5. CASE j = k
      BY <2>1, <3>1, <3>3, <3>5
    <3>6. CASE j < k
      <4>1. D[x + j] = D[y + j] /\ D[x + j] = D[z + j] /\ D[x + j] \in Int
        BY <2>1, <2>3, <3>6 DEF Same, Texts
      <4> QED BY <4>1, <3>3
    <3> QED BY <3>4, <3>5, <3>6
  <2> QED BY <2>2, <2>3
<1> QED BY <1>1, <1>2

\* With fewer bytes looked at.
LEMMA BelowFewer ==
    ASSUME NEW D \in Texts, NEW x \in Nat, NEW y \in Nat, NEW n \in Nat, NEW m \in 0 .. n
    PROVE  /\ Below(D, x, y, n) => Same(D, x, y, m) \/ Below(D, x, y, m)
           /\ Below(D, x, y, m) => Below(D, x, y, n)
<1>1. ASSUME Below(D, x, y, n) PROVE Same(D, x, y, m) \/ Below(D, x, y, m)
  <2>1. PICK k \in 0 .. n - 1 : Same(D, x, y, k) /\ D[x + k] < D[y + k]
    BY <1>1 DEF Below
  <2>2. CASE k < m
    BY <2>1, <2>2 DEF Below
  <2>3. CASE k >= m
    BY <2>1, <2>3 DEF Same
  <2> QED BY <2>2, <2>3
<1>2. Below(D, x, y, m) => Below(D, x, y, n)
  BY DEF Below
<1> QED BY <1>1, <1>2

-----------------------------------------------------------------------------
\* The same, by side.
LEMMA SideFacts ==
    ASSUME NEW D \in Texts, NEW t \in {0, 1}, NEW x \in Nat, NEW y \in Nat, NEW z \in Nat, NEW n \in Nat
    PROVE  /\ Strict(D, t, y, x, n) <=> Strict(D, 1 - t, x, y, n)
           /\ Same(D, y, x, n) \/ Strict(D, t, y, x, n) \/ Strict(D, 1 - t, y, x, n)
           /\ Strict(D, t, y, x, n) => ~Same(D, y, x, n) /\ ~Strict(D, 1 - t, y, x, n)
           /\ Ord(D, t, z, y, n) /\ Ord(D, t, y, x, n) => Ord(D, t, z, x, n)
           /\ Ord(D, t, z, y, n) /\ Strict(D, t, y, x, n) => Strict(D, t, z, x, n)
           /\ Strict(D, t, z, y, n) /\ Ord(D, t, y, x, n) => Strict(D, t, z, x, n)
<1> DEFINE B(u, v) == Below(D, u, v, n)
           S(u, v) == Same(D, u, v, n)
<1>1. \A u, v, w \in {x, y, z} :
        /\ S(u, v) => S(v, u)
        /\ S(u, v) /\ S(v, w) => S(u, w)
        /\ S(u, v) \/ B(u, v) \/ B(v, u)
        /\ B(u, v) => ~S(u, v) /\ ~S(v, u) /\ ~B(v, u)
        /\ B(u, v) /\ B(v, w) => B(u, w)
        /\ S(u, v) /\ B(v, w) => B(u, w)
        /\ B(u, v) /\ S(v, w) => B(u, w)
  <2> TAKE u, v, w \in {x, y, z}
  <2>1. u \in Nat /\ v \in Nat /\ w \in Nat /\ n \in 0 .. n
    OBVIOUS
  <2> QED BY <2>1, SameFacts, Trichotomy, BelowFacts
<1>2. t = 0 \/ t = 1
  OBVIOUS
<1> HIDE DEF B, S
<1>3. \A u, v : Strict(D, 0, u, v, n) = B(u, v) /\ Strict(D, 1, u, v, n) = B(v, u)
  BY DEF Strict, B
<1>4. \A u, v, q : Ord(D, q, u, v, n) <=> S(u, v) \/ Strict(D, q, u, v, n)
  BY DEF Ord, S
<1>5. Same(D, y, x, n) <=> S(y, x)
  BY DEF S
<1>6. CASE t = 0
  BY <1>1, <1>3, <1>4, <1>5, <1>6
<1>7. CASE t = 1
  BY <1>1, <1>3, <1>4, <1>5, <1>7
<1> QED BY <1>2, <1>6, <1>7

\* The between lemma and the one of fewer bytes, by side.
LEMMA SideBetween ==
    ASSUME NEW D \in Texts, NEW t \in {0, 1}, NEW x \in Nat, NEW y \in Nat, NEW z \in Nat, NEW n \in Nat, NEW m \in 0 .. n
    PROVE  /\ Ord(D, t, x, y, n) /\ Ord(D, t, y, z, n) /\ Same(D, x, z, m) => Same(D, x, y, m) /\ Same(D, y, z, m)
           /\ Ord(D, t, x, y, n) => Ord(D, t, x, y, m)
           /\ Strict(D, t, x, y, m) => Strict(D, t, x, y, n)
<1>1. t = 0 \/ t = 1
  OBVIOUS
<1>2. \A u, v \in {x, y, z} : Ord(D, 0, u, v, n) <=> Same(D, u, v, n) \/ Below(D, u, v, n)
  BY DEF Ord, Strict
<1>3. \A u, v \in {x, y, z} : Ord(D, 1, u, v, n) <=> Same(D, v, u, n) \/ Below(D, v, u, n)
  BY SameFacts DEF Ord, Strict
<1>4. \A u, v, w \in {x, y, z} :
         (Same(D, u, v, n) \/ Below(D, u, v, n)) /\ (Same(D, v, w, n) \/ Below(D, v, w, n)) /\ Same(D, u, w, m)
           => Same(D, u, v, m)
  BY Between
<1>5. \A u, v, w \in {x, y, z} : (Same(D, u, v, m) => Same(D, v, u, m)) /\ (Same(D, u, v, m) /\ Same(D, v, w, m) => Same(D, u, w, m))
  <2> m \in Nat /\ m \in 0 .. m
    OBVIOUS
  <2> QED BY SameFacts
<1>6. Ord(D, t, x, y, n) /\ Ord(D, t, y, z, n) /\ Same(D, x, z, m) => Same(D, x, y, m) /\ Same(D, y, z, m)
  BY <1>1, <1>2, <1>3, <1>4, <1>5
<1>7. /\ Ord(D, t, x, y, n) => Ord(D, t, x, y, m)
      /\ Strict(D, t, x, y, m) => Strict(D, t, x, y, n)
  BY <1>1, BelowFewer, SameFacts DEF Ord, Strict
<1> QED BY <1>6, <1>7

(***************************************************************************)
(* The tree of the history.  What a walk of it is about is a record e: the *)
(* text e.D, the position e.p that is entered, the bytes e.n that are      *)
(* looked at, the positions e.H of the history, and e.F, whether a walk is *)
(* cut off nowhere.  N are the nodes of the tree, Ch[<<x, t>>] is the child of *)
(* x on side t, a position of the history, or -1.                          *)
(* Nobody keeps the positions below a node: I[x] is a set they lie in, and *)
(* K[x] one of which none is lost, since it is found there or equal, as    *)
(* far as one looks, to a node that was met on the way.                    *)
(***************************************************************************)
Env(e) ==
    /\ e.D \in Texts /\ e.p \in Nat /\ e.n \in Nat
    /\ e.H \subseteq 0 .. e.p - 1 /\ e.F \in BOOLEAN

Sides == {0, 1}

Shapes(e, N, Ch, I, K) ==
    /\ N \subseteq e.H /\ Ch \in [Nat \X Sides -> e.H \cup {-1}]
    /\ I \in [Nat -> SUBSET Nat] /\ K \in [Nat -> SUBSET Nat]

\* The child of x on side t is older, what is below it lies on its side of x, and
\* what x must not lose on that side is below it.
Side(e, N, Ch, I, K, x, t) ==
    /\ Ch[<<x, t>>] \in e.H =>
         /\ Ch[<<x, t>>] \in N /\ Ch[<<x, t>>] < x
         /\ \A y \in I[Ch[<<x, t>>]] : y \in I[x] /\ Ord(e.D, t, y, x, e.n)
    /\ e.F => \A y \in K[x] \cap e.H : Strict(e.D, t, y, x, e.n) => Ch[<<x, t>>] \in e.H /\ y \in K[Ch[<<x, t>>]]

\* No position is the child in two of these places, and those in R are in none.
Single(e, Ch, S, R) ==
    /\ \A a, b \in S : a # b /\ Ch[a] \in e.H => Ch[a] # Ch[b]
    /\ \A a \in S : Ch[a] \notin R

\* What is kept of a node is not younger, and the node lies where it may.
Node(I, K, x) == x \in I[x] /\ \A y \in K[x] : y <= x

\* A tree with the roots R.
Tree(e, N, Ch, I, K, R) ==
    /\ Shapes(e, N, Ch, I, K)
    /\ \A x \in N : Node(I, K, x) /\ \A t \in Sides : Side(e, N, Ch, I, K, x, t)
    /\ Single(e, Ch, N \X Sides, R) /\ R \subseteq N

(***************************************************************************)
(* A walk.  O[s] is the last node that goes to the side s of the new one,  *)
(* or the new one itself; its place Spot waits for a child.  What lies on  *)
(* side s of the walk is still below c.                                    *)
(***************************************************************************)
Waits(e, O, s) == IF O[s] = e.p THEN 1 - s ELSE s

Spot(e, O, s) == <<O[s], Waits(e, O, s)>>

Settled(e, N, O) == ((N \cup {e.p}) \X Sides) \ {Spot(e, O, 0), Spot(e, O, 1)}

\* The place that waits on side s takes what is below c there, and nothing it must hold is elsewhere.
Takes(e, N, I, K, O, L, c, s) ==
    /\ O[s] # e.p => /\ O[s] \in N /\ Strict(e.D, 1 - s, O[s], e.p, e.n)
                     /\ \A y \in K[O[s]] : Strict(e.D, 1 - s, y, e.p, e.n)
    /\ c \in e.H =>
         /\ c < O[s]
         /\ \A y \in I[c] :
              /\ Ord(e.D, 1 - s, y, e.p, e.n) => y \in I[O[s]] /\ Ord(e.D, Waits(e, O, s), y, O[s], e.n)
              /\ O[s] # e.p => Ord(e.D, s, y, O[s], e.n)
    /\ e.F => \A y \in K[O[s]] \cap e.H :
                Strict(e.D, Waits(e, O, s), y, O[s], e.n) => c \in e.H /\ y \in K[c]
    /\ L[s] \in 0 .. e.n
    /\ L[s] > 0 => O[s] # e.p /\ Same(e.D, O[s], e.p, L[s])

Walk(e, N, Ch, I, K, R, O, L, c) ==
    /\ Shapes(e, N, Ch, I, K) /\ O \in [Sides -> Nat] /\ L \in [Sides -> Nat]
    /\ c \in e.H \cup {-1}
    /\ \A x \in N \cup {e.p} : Node(I, K, x)
    /\ \A x \in N \cup {e.p} : \A t \in Sides : <<x, t>> \in Settled(e, N, O) => Side(e, N, Ch, I, K, x, t)
    /\ Single(e, Ch, Settled(e, N, O), R) /\ R \subseteq N
    /\ c \in e.H => c \in N /\ c \notin R /\ \A a \in Settled(e, N, O) : Ch[a] # c
    /\ \A s \in Sides : Takes(e, N, I, K, O, L, c, s)

\* Of what is looked for below the new position, more than m bytes agree only with what is still to come.
Sought(e, K, c, m) ==
    \A y \in K[e.p] \cap e.H : (c \in e.H /\ y \in K[c]) \/ m >= e.n \/ ~Same(e.D, y, e.p, m + 1)

\* The node agrees with the new position as far as both sides do.
LEMMA KnownToAgree ==
    ASSUME NEW e, NEW N, NEW Ch, NEW I, NEW K, NEW R, NEW O, NEW L, NEW c, Env(e),
           Walk(e, N, Ch, I, K, R, O, L, c), c \in e.H
    PROVE  Same(e.D, c, e.p, MinOf(L[0], L[1])) /\ MinOf(L[0], L[1]) \in 0 .. e.n
<1> DEFINE m == MinOf(L[0], L[1])
<1>1. /\ e.D \in Texts /\ e.p \in Nat /\ e.n \in Nat /\ c \in Nat /\ c \in I[c] /\ 0 \in Sides /\ 1 \in Sides
      /\ L[0] \in 0 .. e.n /\ L[1] \in 0 .. e.n
  BY DEF Env, Walk, Takes, Sides, Node, Shapes
<1>2. m \in 0 .. e.n /\ m \in 0 .. L[0] /\ m \in 0 .. L[1]
  BY <1>1 DEF MinOf
<1>3. CASE m = 0
  BY <1>2, <1>3 DEF Same
<1>4. CASE m > 0
  <2>1. L[0] > 0 /\ L[1] > 0
    BY <1>1, <1>2, <1>4
  <2>2. /\ O[0] # e.p /\ Same(e.D, O[0], e.p, L[0]) /\ Ord(e.D, 0, c, O[0], e.n)
        /\ O[1] # e.p /\ Same(e.D, O[1], e.p, L[1]) /\ Ord(e.D, 1, c, O[1], e.n)
        /\ O[0] \in Nat /\ O[1] \in Nat
    BY <1>1, <2>1 DEF Walk, Takes
  <2>3. Same(e.D, O[0], e.p, m) /\ Same(e.D, O[1], e.p, m)
    <3>1. L[0] \in Nat /\ L[1] \in Nat
      BY <1>1
    <3> QED BY <1>1, <1>2, <2>2, <3>1, SameFacts, SMTT(40)
  <2>4. Same(e.D, O[1], O[0], m)
    <3>1. m \in Nat /\ m \in 0 .. m
      BY <1>2
    <3> HIDE DEF m
    <3> QED BY <1>1, <2>2, <2>3, <3>1, SameFacts
  <2>5. Ord(e.D, 0, O[1], c, e.n)
    BY <1>1, <2>2, SameFacts, SMTT(40) DEF Ord, Strict
  <2>6. Same(e.D, c, O[0], m)
    <3> HIDE DEF m
    <3> QED BY <1>1, <1>2, <2>2, <2>4, <2>5, SideBetween
  <2> QED
    <3>1. m \in Nat /\ m \in 0 .. m
      BY <1>2
    <3> HIDE DEF m
    <3>2. Same(e.D, c, e.p, m)
      BY <1>1, <2>2, <2>3, <2>6, <3>1, SameFacts
    <3> QED BY <1>2, <3>2 DEF m
<1> QED BY <1>2, <1>3, <1>4

\* Where a walk stands: its two places are different ones of nodes or of the new position,
\* and the node at hand is younger than none of them.
LEMMA WalkPlaces ==
    ASSUME NEW e, NEW N, NEW Ch, NEW I, NEW K, NEW R, NEW O, NEW L, NEW c, Env(e),
           Walk(e, N, Ch, I, K, R, O, L, c)
    PROVE  /\ e.p \in Nat /\ e.n \in Nat /\ e.D \in Texts /\ e.p \notin e.H /\ e.p \notin N /\ N \subseteq Nat
           /\ -1 \notin e.H /\ e.H \subseteq Nat
           /\ \A x \in e.H : x < e.p
           /\ \A s \in Sides : /\ O[s] \in N \cup {e.p} /\ O[s] \in Nat /\ Waits(e, O, s) \in Sides
                               /\ Spot(e, O, s) \in (N \cup {e.p}) \X Sides
           /\ Spot(e, O, 0) # Spot(e, O, 1)
           /\ c \in e.H => /\ c \in N /\ c \in Nat /\ c # e.p
                           /\ \A s \in Sides : c # O[s] /\ c < O[s]
                           /\ \A t \in Sides : <<c, t>> \in Settled(e, N, O)
<1>1. /\ e.p \in Nat /\ e.n \in Nat /\ e.D \in Texts /\ e.H \subseteq 0 .. e.p - 1 /\ N \subseteq e.H
      /\ O \in [Sides -> Nat]
  BY DEF Env, Walk, Shapes
<1>2. /\ e.p \notin e.H /\ e.p \notin N /\ N \subseteq Nat /\ -1 \notin e.H /\ e.H \subseteq Nat
      /\ \A x \in e.H : x < e.p
  BY <1>1
<1>3. \A s \in Sides : Takes(e, N, I, K, O, L, c, s)
  BY DEF Walk
<1>4. ASSUME NEW s \in Sides
      PROVE  O[s] \in N \cup {e.p} /\ O[s] \in Nat /\ Waits(e, O, s) \in Sides /\ Spot(e, O, s) \in (N \cup {e.p}) \X Sides
  <2>1. O[s] \in N \cup {e.p} /\ O[s] \in Nat
    BY <1>1, <1>3 DEF Takes
  <2>2. Waits(e, O, s) \in Sides
    BY DEF Waits, Sides
  <2> QED BY <2>1, <2>2 DEF Spot
<1>5. Spot(e, O, 0) # Spot(e, O, 1)
  <2> SUFFICES ASSUME Spot(e, O, 0) = Spot(e, O, 1) PROVE FALSE
    OBVIOUS
  <2>1. O[0] = O[1] /\ Waits(e, O, 0) = Waits(e, O, 1)
    BY DEF Spot
  <2>2. O[0] # e.p /\ O[1] # e.p
    BY <2>1 DEF Waits
  <2> QED BY <2>1, <2>2 DEF Waits
<1>6. ASSUME c \in e.H
      PROVE  /\ c \in N /\ c \in Nat /\ c # e.p
             /\ \A s \in Sides : c # O[s] /\ c < O[s]
             /\ \A t \in Sides : <<c, t>> \in Settled(e, N, O)
  <2>1. c \in N /\ c \in Nat /\ c # e.p
    BY <1>1, <1>2, <1>6 DEF Walk
  <2>2. \A s \in Sides : c # O[s] /\ c < O[s]
    BY <1>3, <1>4, <1>6, <2>1 DEF Takes
  <2>3. 0 \in Sides /\ 1 \in Sides
    BY DEF Sides
  <2>4. \A t \in Sides : <<c, t>> # Spot(e, O, 0) /\ <<c, t>> # Spot(e, O, 1)
    BY <2>2, <2>3 DEF Spot
  <2> QED BY <2>1, <2>2, <2>4 DEF Settled
<1> QED BY <1>1, <1>2, <1>4, <1>5, <1>6

\* What a node that goes to a side keeps of the positions below it.
Kept(I, c, S) == [I EXCEPT ![c] = @ \cap S]

BySide(e, t) == {y \in Nat : Ord(e.D, t, y, e.p, e.n)}

StrictlyBy(e, t) == {y \in Nat : Strict(e.D, t, y, e.p, e.n)}

\* The node at hand goes to side s, the place there gets it as a child, and the walk goes on
\* below it on that side.
LEMMA WalkGoesOn ==
    ASSUME NEW e, NEW N, NEW Ch, NEW I, NEW K, NEW R, NEW O, NEW L, NEW c, Env(e),
           Walk(e, N, Ch, I, K, R, O, L, c), c \in e.H, NEW s \in Sides, NEW len \in 0 .. e.n,
           Same(e.D, c, e.p, len), Strict(e.D, 1 - s, c, e.p, e.n)
    PROVE  Walk(e, N, [Ch EXCEPT ![Spot(e, O, s)] = c], Kept(I, c, BySide(e, 1 - s)),
                Kept(K, c, StrictlyBy(e, 1 - s)), R, [O EXCEPT ![s] = c], [L EXCEPT ![s] = len], Ch[<<c, s>>])
<1> DEFINE Ch2 == [Ch EXCEPT ![Spot(e, O, s)] = c]
           I2 == Kept(I, c, BySide(e, 1 - s))
           K2 == Kept(K, c, StrictlyBy(e, 1 - s))
           O2 == [O EXCEPT ![s] = c]
           L2 == [L EXCEPT ![s] = len]
           c2 == Ch[<<c, s>>]
           S == Settled(e, N, O)
           S2 == Settled(e, N, O2)
<1>1. /\ e.p \in Nat /\ e.n \in Nat /\ e.D \in Texts /\ e.p \notin e.H /\ e.p \notin N /\ N \subseteq Nat
      /\ -1 \notin e.H /\ e.H \subseteq Nat
      /\ \A x \in e.H : x < e.p
      /\ \A t \in Sides : /\ O[t] \in N \cup {e.p} /\ O[t] \in Nat /\ Waits(e, O, t) \in Sides
                          /\ Spot(e, O, t) \in (N \cup {e.p}) \X Sides
      /\ Spot(e, O, 0) # Spot(e, O, 1)
  <2>1. /\ e.p \in Nat /\ e.n \in Nat /\ e.D \in Texts /\ e.p \notin e.H /\ e.p \notin N /\ N \subseteq Nat
        /\ -1 \notin e.H /\ e.H \subseteq Nat
        /\ \A x \in e.H : x < e.p
    BY WalkPlaces, Zenon
  <2>2. \A t \in Sides : /\ O[t] \in N \cup {e.p} /\ O[t] \in Nat /\ Waits(e, O, t) \in Sides
                          /\ Spot(e, O, t) \in (N \cup {e.p}) \X Sides
    BY WalkPlaces, Zenon
  <2>3. Spot(e, O, 0) # Spot(e, O, 1)
    BY WalkPlaces
  <2> QED BY <2>1, <2>2, <2>3, Zenon
<1>2. /\ c \in N /\ c \in Nat /\ c # e.p
      /\ \A t \in Sides : c # O[t] /\ c < O[t]
      /\ \A t \in Sides : <<c, t>> \in S
  BY WalkPlaces, Zenon
<1>3. /\ Ch \in [Nat \X Sides -> e.H \cup {-1}] /\ I \in [Nat -> SUBSET Nat] /\ K \in [Nat -> SUBSET Nat]
      /\ O \in [Sides -> Nat] /\ L \in [Sides -> Nat]
      /\ \A x \in N \cup {e.p} : Node(I, K, x)
      /\ \A x \in N \cup {e.p} : \A t \in Sides : <<x, t>> \in S => Side(e, N, Ch, I, K, x, t)
      /\ Single(e, Ch, S, R) /\ R \subseteq N /\ c \notin R /\ \A a \in S : Ch[a] # c
      /\ \A t \in Sides : Takes(e, N, I, K, O, L, c, t)
  BY Zenon DEF Walk, Shapes
<1>a. N \subseteq e.H
  BY DEF Walk, Shapes
<1>4. s \in {0, 1} /\ 1 - s \in Sides /\ 1 - s # s /\ 1 - (1 - s) = s
  BY DEF Sides
<1>5. Shapes(e, N, Ch2, I2, K2) /\ O2 \in [Sides -> Nat] /\ L2 \in [Sides -> Nat] /\ c2 \in e.H \cup {-1}
  <2>1. Spot(e, O, s) \in Nat \X Sides /\ <<c, s>> \in Nat \X Sides
    BY <1>1, <1>2
  <2>2. Ch2 \in [Nat \X Sides -> e.H \cup {-1}] /\ c2 \in e.H \cup {-1}
    BY <1>3, <2>1
  <2>3. I2 \in [Nat -> SUBSET Nat] /\ K2 \in [Nat -> SUBSET Nat]
    BY <1>2, <1>3 DEF Kept
  <2>4. O2 \in [Sides -> Nat] /\ L2 \in [Sides -> Nat]
    BY <1>2, <1>3
  <2> QED BY <1>a, <2>2, <2>3, <2>4 DEF Shapes
\* The new sets and places.
<1>6. /\ I2[c] = I[c] \cap BySide(e, 1 - s) /\ K2[c] = K[c] \cap StrictlyBy(e, 1 - s)
      /\ \A x \in Nat : x # c => I2[x] = I[x] /\ K2[x] = K[x]
  BY <1>2, <1>3 DEF Kept
<1>7. /\ O2[s] = c /\ L2[s] = len /\ O2[1 - s] = O[1 - s] /\ L2[1 - s] = L[1 - s]
  BY <1>3, <1>4
<1>8. /\ Waits(e, O2, s) = s /\ Spot(e, O2, s) = <<c, s>>
      /\ Waits(e, O2, 1 - s) = Waits(e, O, 1 - s) /\ Spot(e, O2, 1 - s) = Spot(e, O, 1 - s)
  BY <1>2, <1>7 DEF Waits, Spot
<1>9. S2 = (S \cup {Spot(e, O, s)}) \ {<<c, s>>}
  <2>1. {Spot(e, O, 0), Spot(e, O, 1)} = {Spot(e, O, s), Spot(e, O, 1 - s)}
    BY <1>4
  <2>2. {Spot(e, O2, 0), Spot(e, O2, 1)} = {<<c, s>>, Spot(e, O, 1 - s)}
    <3>1. {Spot(e, O2, 0), Spot(e, O2, 1)} = {Spot(e, O2, s), Spot(e, O2, 1 - s)}
      BY <1>4
    <3> QED BY <3>1, <1>8
  <2>3. Spot(e, O, s) # Spot(e, O, 1 - s) /\ Spot(e, O, s) # <<c, s>> /\ Spot(e, O, s) \in (N \cup {e.p}) \X Sides
    BY <1>1, <1>2, <1>4 DEF Spot
  <2> QED BY <2>1, <2>2, <2>3 DEF Settled
<1>10. /\ Ch2[Spot(e, O, s)] = c
       /\ \A a \in Nat \X Sides : a # Spot(e, O, s) => Ch2[a] = Ch[a]
  BY <1>1, <1>3
\* The text at the node.
<1>11. /\ c \in BySide(e, 1 - s) /\ \A y \in Nat : y \in BySide(e, 1 - s) <=> Ord(e.D, 1 - s, y, e.p, e.n)
       /\ \A y \in Nat : y \in StrictlyBy(e, 1 - s) <=> Strict(e.D, 1 - s, y, e.p, e.n)
  BY <1>2 DEF BySide, StrictlyBy, Ord
<1>12. \A x \in N \cup {e.p} : Node(I2, K2, x)
  BY <1>1, <1>2, <1>3, <1>6, <1>11, SMTT(40) DEF Node
<1> HIDE DEF Ch2, I2, K2, O2, L2, c2, S, S2
<1>13. Single(e, Ch2, S2, R)
  <2>1. S \subseteq Nat \X Sides
    BY <1>1 DEF S, Settled
  <2>a. Spot(e, O, s) \notin S
    BY <1>4 DEF S, Settled
  <2>2. \A a \in S2 : a = Spot(e, O, s) \/ (a \in S /\ Ch2[a] = Ch[a])
    BY <1>9, <1>10, <2>1, <2>a
  <2> QED BY <2>2, <1>3, <1>10 DEF Single
\* The settled places have the children they may have: the place filled, and those untouched.
<1>14. \A x \in N \cup {e.p} : \A t \in Sides : <<x, t>> \in S2 => Side(e, N, Ch2, I2, K2, x, t)
  <2> SUFFICES ASSUME NEW x \in N \cup {e.p}, NEW t \in Sides, <<x, t>> \in S2
               PROVE  Side(e, N, Ch2, I2, K2, x, t)
    OBVIOUS
  <2>1. x \in Nat /\ <<x, t>> \in Nat \X Sides
    BY <1>1
  <2>2. CASE <<x, t>> = Spot(e, O, s)
    <3>1. /\ x = O[s] /\ t = Waits(e, O, s) /\ Ch2[<<x, t>>] = c /\ x # c /\ I2[x] = I[x] /\ K2[x] = K[x]
          /\ Takes(e, N, I, K, O, L, c, s) /\ c < x
      BY <2>1, <2>2, <1>2, <1>3, <1>6, <1>10 DEF Spot
    <3>2. \A y \in I2[c] : y \in I2[x] /\ Ord(e.D, t, y, x, e.n)
      <4> SUFFICES ASSUME NEW y \in I2[c] PROVE y \in I2[x] /\ Ord(e.D, t, y, x, e.n)
        OBVIOUS
      <4>1. y \in Nat /\ y \in I[c] /\ Ord(e.D, 1 - s, y, e.p, e.n)
        BY <1>3, <1>2, <1>6, <1>11
      <4> QED BY <3>1, <4>1 DEF Takes
    <3>3. ASSUME e.F, NEW y \in K2[x] \cap e.H, Strict(e.D, t, y, x, e.n) PROVE c \in e.H /\ y \in K2[c]
      <4>1. y \in Nat /\ y \in K[O[s]] /\ y \in K[c]
        BY <1>1, <3>1, <3>3 DEF Takes
      <4>2. Strict(e.D, 1 - s, y, e.p, e.n)
        BY <3>1, <3>3, <4>1 DEF Takes, Waits
      <4> QED BY <4>1, <4>2, <1>6, <1>11
    <3> QED BY <3>1, <3>2, <3>3, <1>2 DEF Side
  <2>3. CASE <<x, t>> # Spot(e, O, s)
    <3>1. <<x, t>> \in S /\ <<x, t>> # <<c, s>> /\ Ch2[<<x, t>>] = Ch[<<x, t>>]
      BY <2>1, <2>3, <1>9, <1>10
    <3>2. Side(e, N, Ch, I, K, x, t) /\ Ch[<<x, t>>] # c
      BY <3>1, <1>3
    <3> DEFINE z == Ch[<<x, t>>]
    <3>3. z \in e.H => z \in Nat /\ I2[z] = I[z] /\ K2[z] = K[z]
      BY <3>2, <1>1, <1>6
    <3>4. CASE x # c
      <4>1. I2[x] = I[x] /\ K2[x] = K[x]
        BY <2>1, <3>4, <1>6
      <4> QED BY <3>1, <3>2, <3>3, <4>1 DEF Side
    <3>5. CASE x = c
      <4>1. t = 1 - s
        BY <3>1, <3>5, <1>4 DEF Sides
      <4>2. I2[x] \subseteq I[x] /\ K2[x] \subseteq K[x]
        BY <3>5, <1>6
      <4>3. \A y \in Nat : y \in I[x] /\ Ord(e.D, t, y, x, e.n) => y \in I2[x]
        <5> SUFFICES ASSUME NEW y \in Nat, y \in I[x], Ord(e.D, t, y, x, e.n) PROVE y \in I2[x]
          OBVIOUS
        <5>1. Ord(e.D, t, y, c, e.n) /\ Ord(e.D, t, c, e.p, e.n)
          BY <3>5, <4>1, <1>11, <1>2
        <5>2. t \in {0, 1} /\ e.D \in Texts /\ e.p \in Nat /\ c \in Nat /\ e.n \in Nat
          BY <1>1, <1>2 DEF Sides
        <5>3. Ord(e.D, t, y, e.p, e.n)
          BY <5>1, <5>2, SideFacts
        <5> QED BY <5>3, <3>5, <4>1, <1>6, <1>11
      <4>4. I[z] \subseteq Nat \/ z \notin e.H
        BY <1>1, <1>3
      <4> QED BY <3>1, <3>2, <3>3, <4>2, <4>3, <4>4 DEF Side
    <3> QED BY <3>4, <3>5
  <2> QED BY <2>2, <2>3
\* The next node.
<1>15. /\ Side(e, N, Ch, I, K, c, s) /\ c2 = Ch[<<c, s>>] /\ <<c, s>> \in S
       /\ c2 \in e.H => c2 \in N /\ c2 < c /\ c2 \in Nat /\ c2 # c /\ I2[c2] = I[c2] /\ K2[c2] = K[c2]
  <2>1. Side(e, N, Ch, I, K, c, s) /\ c2 = Ch[<<c, s>>] /\ <<c, s>> \in S
    BY <1>2, <1>3 DEF c2
  <2>2. c2 \in e.H => c2 \in N /\ c2 < c /\ c2 \in Nat /\ c2 # c
    BY <2>1, <1>1, <1>2 DEF Side
  <2> QED BY <2>1, <2>2, <1>6
<1>16. c2 \in e.H => c2 \in N /\ c2 \notin R /\ \A a \in S2 : Ch2[a] # c2
  <2> SUFFICES ASSUME c2 \in e.H PROVE c2 \notin R /\ \A a \in S2 : Ch2[a] # c2
    BY <1>15
  <2>1. c2 \notin R
    BY <1>3, <1>15 DEF Single
  <2>2. \A a \in S2 : a = Spot(e, O, s) \/ (a \in S /\ Ch2[a] = Ch[a] /\ a # <<c, s>>)
    <3>1. S \subseteq Nat \X Sides
      BY <1>1 DEF S, Settled
    <3>2. Spot(e, O, s) \notin S
      BY <1>4 DEF S, Settled
    <3> QED BY <3>1, <3>2, <1>9, <1>10
  <2>3. \A a \in S : a # <<c, s>> => Ch[a] # c2
    BY <1>3, <1>15 DEF Single
  <2> QED BY <2>1, <2>2, <2>3, <1>10, <1>15
\* What the two places take.
<1>17. Takes(e, N, I2, K2, O2, L2, c2, s)
  <2>1. O2[s] = c /\ c # e.p /\ c \in N /\ Waits(e, O2, s) = s /\ L2[s] = len
    BY <1>2, <1>7, <1>8
  <2>2. \A y \in K2[c] : Strict(e.D, 1 - s, y, e.p, e.n)
    BY <1>1, <1>2, <1>3, <1>6, <1>11
  <2>3. ASSUME c2 \in e.H, NEW y \in I2[c2]
        PROVE  /\ Ord(e.D, 1 - s, y, e.p, e.n) => y \in I2[c]
               /\ Ord(e.D, s, y, c, e.n)
    <3>1. y \in I[c2] /\ y \in I[c] /\ Ord(e.D, s, y, c, e.n) /\ y \in Nat
      BY <2>3, <1>1, <1>2, <1>3, <1>15 DEF Side
    <3> QED BY <3>1, <1>6, <1>11
  <2>4. ASSUME e.F, NEW y \in K2[c] \cap e.H, Strict(e.D, s, y, c, e.n)
        PROVE  c2 \in e.H /\ y \in K2[c2]
    BY <2>4, <1>6, <1>15 DEF Side
  <2> QED BY <2>1, <2>2, <2>3, <2>4, <1>15 DEF Takes
<1>18. Takes(e, N, I2, K2, O2, L2, c2, 1 - s)
  <2> DEFINE u == 1 - s
  <2>1. /\ O2[u] = O[u] /\ O[u] # c /\ c < O[u] /\ Waits(e, O2, u) = Waits(e, O, u) /\ L2[u] = L[u] /\ O[u] \in Nat
        /\ Takes(e, N, I, K, O, L, c, u) /\ I2[O[u]] = I[O[u]] /\ K2[O[u]] = K[O[u]] /\ u \in Sides /\ 1 - u = s
    BY <1>1, <1>2, <1>3, <1>4, <1>6, <1>7, <1>8
  <2> HIDE DEF u
  <2>2. ASSUME c2 \in e.H, NEW y \in I2[c2]
        PROVE  /\ Ord(e.D, 1 - u, y, e.p, e.n) => y \in I2[O[u]] /\ Ord(e.D, Waits(e, O, u), y, O[u], e.n)
               /\ O[u] # e.p => Ord(e.D, u, y, O[u], e.n)
    <3>1. y \in I[c]
      BY <2>2, <1>15 DEF Side
    <3> QED BY <3>1, <2>1 DEF Takes
  <2>3. ASSUME e.F, NEW y \in K2[O[u]] \cap e.H, Strict(e.D, Waits(e, O, u), y, O[u], e.n)
        PROVE  c2 \in e.H /\ y \in K2[c2]
    <3>1. y \in K[c] /\ y \in Nat /\ y \in e.H
      BY <2>1, <2>3, <1>1 DEF Takes
    <3>2. Strict(e.D, 1 - u, y, e.p, e.n)
      BY <2>1, <2>3 DEF Takes, Waits
    <3>3. Strict(e.D, s, y, c, e.n)
      <4>1. s \in {0, 1} /\ e.D \in Texts /\ e.p \in Nat /\ c \in Nat /\ e.n \in Nat
        BY <1>1, <1>2 DEF Sides
      <4>2. Strict(e.D, s, e.p, c, e.n)
        BY <4>1, <1>4, SideFacts
      <4>3. Strict(e.D, s, y, e.p, e.n)
        BY <2>1, <3>2
      <4> QED BY <4>1, <4>2, <4>3, <3>1, SideFacts DEF Ord
    <3> QED BY <3>1, <3>3, <2>3, <1>15 DEF Side
  <2>4. c2 \in e.H => c2 < O[u]
    BY <2>1, <1>15, <1>2
  <2>5. \A y \in K2[O2[u]] : O2[u] # e.p => Strict(e.D, 1 - u, y, e.p, e.n)
    BY <2>1 DEF Takes
  <2>6. O2[u] # e.p => O2[u] \in N /\ Strict(e.D, 1 - u, O2[u], e.p, e.n)
    BY <2>1 DEF Takes
  <2>7. L2[u] \in 0 .. e.n /\ (L2[u] > 0 => O2[u] # e.p /\ Same(e.D, O2[u], e.p, L2[u]))
    BY <2>1 DEF Takes
  <2>8. Takes(e, N, I2, K2, O2, L2, c2, u)
    BY <2>1, <2>2, <2>3, <2>4, <2>5, <2>6, <2>7 DEF Takes
  <2> QED BY <2>8 DEF u
<1>19. \A t \in Sides : Takes(e, N, I2, K2, O2, L2, c2, t)
  BY <1>4, <1>17, <1>18 DEF Sides
<1>20. Walk(e, N, Ch2, I2, K2, R, O2, L2, c2)
  BY <1>5, <1>12, <1>13, <1>14, <1>16, <1>19, <1>3 DEF Walk, S2, c2, O2, L2, Ch2, I2, K2
<1> QED BY <1>20 DEF O2, L2, Ch2, I2, K2, c2

\* The new position may have anything below it, and keeps what the root c of its hash kept.
Entered(e, I) == [I EXCEPT ![e.p] = Nat]

Looked(e, K, c) == [K EXCEPT ![e.p] = {e.p} \cup (IF c \in e.H THEN K[c] ELSE {})]

Start(e) == [s \in Sides |-> e.p]

Zeros == [s \in Sides |-> 0]

\* A walk begins at a root.
LEMMA WalkBegins ==
    ASSUME NEW e, NEW N, NEW Ch, NEW I, NEW K, NEW R, NEW c, Env(e), Tree(e, N, Ch, I, K, R),
           c \in e.H \cup {-1}, c \in e.H => c \in R
    PROVE  Walk(e, N, Ch, Entered(e, I), Looked(e, K, c), R \ {c}, Start(e), Zeros, c)
<1> DEFINE I2 == Entered(e, I)
           K2 == Looked(e, K, c)
           O == Start(e)
           S == Settled(e, N, O)
<1>1. /\ e.p \in Nat /\ e.n \in Nat /\ e.D \in Texts /\ e.H \subseteq 0 .. e.p - 1 /\ N \subseteq e.H
      /\ Ch \in [Nat \X Sides -> e.H \cup {-1}] /\ I \in [Nat -> SUBSET Nat] /\ K \in [Nat -> SUBSET Nat]
      /\ \A x \in N : Node(I, K, x) /\ \A t \in Sides : Side(e, N, Ch, I, K, x, t)
      /\ Single(e, Ch, N \X Sides, R) /\ R \subseteq N
  BY DEF Env, Tree, Shapes
<1>2. /\ e.p \notin e.H /\ e.p \notin N /\ N \subseteq Nat /\ e.H \subseteq Nat /\ -1 \notin e.H
      /\ \A x \in e.H : x < e.p /\ x # e.p
  BY <1>1
<1>3. /\ I2[e.p] = Nat /\ K2[e.p] = {e.p} \cup (IF c \in e.H THEN K[c] ELSE {})
      /\ \A x \in Nat : x # e.p => I2[x] = I[x] /\ K2[x] = K[x]
      /\ I2 \in [Nat -> SUBSET Nat] /\ K2 \in [Nat -> SUBSET Nat]
  BY <1>1, <1>2 DEF Entered, Looked
<1>4. /\ \A s \in Sides : O[s] = e.p /\ Zeros[s] = 0 /\ Waits(e, O, s) = 1 - s
      /\ O \in [Sides -> Nat] /\ Zeros \in [Sides -> Nat] /\ 0 \in Sides /\ 1 \in Sides
  BY <1>1 DEF Start, Zeros, Waits, Sides
<1>5. S = N \X Sides
  <2>1. Spot(e, O, 0) = <<e.p, 1>> /\ Spot(e, O, 1) = <<e.p, 0>>
    BY <1>4 DEF Spot
  <2>2. \A t \in Sides : <<e.p, t>> \in {Spot(e, O, 0), Spot(e, O, 1)}
    BY <2>1 DEF Sides
  <2> QED BY <2>1, <2>2, <1>2 DEF Settled
<1> HIDE DEF I2, K2, O, S
<1>6. \A x \in N \cup {e.p} : Node(I2, K2, x)
  <2>1. \A x \in N : Node(I2, K2, x)
    BY <1>1, <1>2, <1>3 DEF Node
  <2>2. c \in e.H => \A y \in K[c] : y <= e.p
    <3> SUFFICES ASSUME c \in e.H, NEW y \in K[c] PROVE y <= e.p
      OBVIOUS
    <3>1. c \in N /\ c \in Nat /\ c < e.p /\ y \in Nat /\ y <= c
      BY <1>1, <1>2 DEF Node
    <3> QED BY <3>1, <1>1
  <2>3. Node(I2, K2, e.p)
    BY <2>2, <1>1, <1>3 DEF Node
  <2> QED BY <2>1, <2>3
<1>7. ASSUME NEW x \in N, NEW t \in Sides PROVE Side(e, N, Ch, I2, K2, x, t)
  <2>1. Side(e, N, Ch, I, K, x, t) /\ I2[x] = I[x] /\ K2[x] = K[x]
    BY <1>1, <1>2, <1>3
  <2>2. Ch[<<x, t>>] \in e.H => I2[Ch[<<x, t>>]] = I[Ch[<<x, t>>]] /\ K2[Ch[<<x, t>>]] = K[Ch[<<x, t>>]]
    BY <1>2, <1>3
  <2> QED BY <2>1, <2>2 DEF Side
<1>8. \A x \in N \cup {e.p} : \A t \in Sides : <<x, t>> \in S => Side(e, N, Ch, I2, K2, x, t)
  BY <1>5, <1>7
<1>9. ASSUME NEW s \in Sides PROVE Takes(e, N, I2, K2, O, Zeros, c, s)
  <2>1. O[s] = e.p /\ Zeros[s] = 0 /\ Waits(e, O, s) = 1 - s
    BY <1>4
  <2>2. c \in e.H => c < e.p
    BY <1>2
  <2>3. \A y \in K2[e.p] \cap e.H : c \in e.H /\ y \in K2[c]
    BY <1>2, <1>3
  <2>4. \A y \in I2[c] : c \in e.H => y \in I2[e.p]
    BY <1>2, <1>3
  <2> QED BY <2>1, <2>2, <2>3, <2>4, <1>1 DEF Takes
<1>10. Single(e, Ch, S, R \ {c}) /\ R \ {c} \subseteq N
  BY <1>1, <1>5 DEF Single
<1>11. c \in e.H => c \in N /\ c \notin R \ {c} /\ \A a \in S : Ch[a] # c
  BY <1>1, <1>5 DEF Single
<1>12. Shapes(e, N, Ch, I2, K2)
  BY <1>1, <1>3 DEF Shapes
<1> QED BY <1>4, <1>6, <1>8, <1>9, <1>10, <1>11, <1>12 DEF Walk, S, I2, K2, O

-----------------------------------------------------------------------------
\* What there is once the new position has been entered.
After(e) == [D |-> e.D, p |-> e.p + 1, n |-> e.n, H |-> e.H \cup {e.p}, F |-> e.F]

\* What still waits for a child gets none.
Closed(e, Ch, O) == [Ch EXCEPT ![Spot(e, O, 0)] = -1, ![Spot(e, O, 1)] = -1]

\* The children of an equal node go to the places that wait.
Replaced(e, Ch, O, c) == [Ch EXCEPT ![Spot(e, O, 1)] = Ch[<<c, 0>>], ![Spot(e, O, 0)] = Ch[<<c, 1>>]]

\* A place that is settled stays so.
LEMMA SideAfter ==
    ASSUME NEW e, NEW N, NEW M, NEW Ch, NEW Ch2, NEW I, NEW K, NEW x \in e.H \cup {e.p}, NEW t \in Sides, Env(e),
           Shapes(e, N, Ch, I, K), Node(I, K, x), Side(e, N, Ch, I, K, x, t), Ch2[<<x, t>>] = Ch[<<x, t>>],
           Ch[<<x, t>>] \in e.H => Ch[<<x, t>>] \in M
    PROVE  Side(After(e), M, Ch2, I, K, x, t)
<1>1. /\ e.p \in Nat /\ e.H \subseteq 0 .. e.p - 1 /\ e.D \in Texts /\ e.n \in Nat
      /\ Ch \in [Nat \X Sides -> e.H \cup {-1}] /\ t \in {0, 1}
  BY DEF Env, Shapes, Sides
<1>2. After(e).D = e.D /\ After(e).n = e.n /\ After(e).H = e.H \cup {e.p} /\ After(e).F = e.F
  BY DEF After
<1>3. <<x, t>> \in Nat \X Sides /\ e.p \notin e.H /\ e.p # -1 /\ x \in Nat
  BY <1>1
<1>4. Ch[<<x, t>>] \in e.H \cup {e.p} => Ch[<<x, t>>] \in e.H
  BY <1>1, <1>3
<1>5. ASSUME NEW y \in K[x] \cap (e.H \cup {e.p}), Strict(e.D, t, y, x, e.n) PROVE y \in e.H
  <2> SUFFICES ASSUME y = e.p PROVE FALSE
    OBVIOUS
  <2>1. e.p <= x
    BY DEF Node
  <2>2. x = e.p
    BY <2>1, <1>1, <1>3
  <2>3. Strict(e.D, t, e.p, e.p, e.n) /\ Same(e.D, e.p, e.p, e.n)
    BY <2>2, <1>1, <1>5, SameFacts
  <2> QED BY <2>3, <1>1, SideFacts
<1> QED BY <1>2, <1>4, <1>5 DEF Side

\* A walk that is over leaves a tree with the new position as a root.
LEMMA WalkEnds ==
    ASSUME NEW e, NEW N, NEW Ch, NEW I, NEW K, NEW R, NEW O, NEW L, NEW c, Env(e),
           Walk(e, N, Ch, I, K, R, O, L, c), e.F => c \notin e.H
    PROVE  Tree(After(e), N \cup {e.p}, Closed(e, Ch, O), I, K, R \cup {e.p})
<1> DEFINE Ch2 == Closed(e, Ch, O)
           S == Settled(e, N, O)
           M == N \cup {e.p}
<1>1. /\ e.p \in Nat /\ e.n \in Nat /\ e.D \in Texts /\ e.p \notin e.H /\ e.p \notin N /\ N \subseteq Nat
      /\ -1 \notin e.H /\ e.H \subseteq Nat
      /\ \A x \in e.H : x < e.p
  BY WalkPlaces, Zenon
<1>2. \A t \in Sides : /\ O[t] \in N \cup {e.p} /\ O[t] \in Nat /\ Waits(e, O, t) \in Sides
                       /\ Spot(e, O, t) \in (N \cup {e.p}) \X Sides
  BY WalkPlaces, Zenon
<1>3. Spot(e, O, 0) # Spot(e, O, 1)
  BY WalkPlaces
<1>4. /\ Ch \in [Nat \X Sides -> e.H \cup {-1}] /\ I \in [Nat -> SUBSET Nat] /\ K \in [Nat -> SUBSET Nat]
      /\ \A x \in N \cup {e.p} : Node(I, K, x)
      /\ \A x \in N \cup {e.p} : \A t \in Sides : <<x, t>> \in S => Side(e, N, Ch, I, K, x, t)
      /\ Single(e, Ch, S, R) /\ R \subseteq N /\ Shapes(e, N, Ch, I, K)
      /\ \A t \in Sides : Takes(e, N, I, K, O, L, c, t)
  BY Zenon DEF Walk, Shapes
<1>5. N \subseteq e.H
  BY DEF Walk, Shapes
<1>6. After(e).D = e.D /\ After(e).n = e.n /\ After(e).H = e.H \cup {e.p} /\ After(e).F = e.F
  BY DEF After
<1>7. /\ Ch2 \in [Nat \X Sides -> e.H \cup {-1}]
      /\ \A s \in Sides : Ch2[Spot(e, O, s)] = -1
      /\ \A a \in S : Ch2[a] = Ch[a]
      /\ S \subseteq Nat \X Sides
      /\ \A a \in M \X Sides : a \in S \/ a = Spot(e, O, 0) \/ a = Spot(e, O, 1)
      /\ 0 \in Sides /\ 1 \in Sides
  <2>1. 0 \in Sides /\ 1 \in Sides /\ \A s \in Sides : s = 0 \/ s = 1
    BY DEF Sides
  <2>2. Spot(e, O, 0) \in Nat \X Sides /\ Spot(e, O, 1) \in Nat \X Sides
    BY <1>1, <1>2, <2>1
  <2>3. Ch2 \in [Nat \X Sides -> e.H \cup {-1}] /\ Ch2[Spot(e, O, 0)] = -1 /\ Ch2[Spot(e, O, 1)] = -1
        /\ \A a \in Nat \X Sides : a # Spot(e, O, 0) /\ a # Spot(e, O, 1) => Ch2[a] = Ch[a]
    BY <1>3, <1>4, <2>2 DEF Closed
  <2>4. S \subseteq Nat \X Sides /\ \A a \in S : a # Spot(e, O, 0) /\ a # Spot(e, O, 1)
    BY <1>1 DEF Settled
  <2>5. \A a \in M \X Sides : a \in S \/ a = Spot(e, O, 0) \/ a = Spot(e, O, 1)
    BY DEF Settled
  <2> HIDE DEF Ch2, S, M
  <2> QED BY <2>1, <2>3, <2>4, <2>5
<1> HIDE DEF Ch2, S
<1>8. ASSUME NEW x \in M, NEW t \in Sides PROVE Side(After(e), M, Ch2, I, K, x, t)
  <2>1. CASE <<x, t>> \in S
    <3>1. Side(e, N, Ch, I, K, x, t) /\ Ch2[<<x, t>>] = Ch[<<x, t>>] /\ x \in e.H \cup {e.p} /\ Node(I, K, x)
      BY <2>1, <1>4, <1>5, <1>7
    <3>2. Ch[<<x, t>>] \in e.H => Ch[<<x, t>>] \in M
      BY <3>1 DEF Side
    <3> QED BY <3>1, <3>2, <1>4, SideAfter
  <2>2. ASSUME NEW s \in Sides, <<x, t>> = Spot(e, O, s) PROVE Side(After(e), M, Ch2, I, K, x, t)
    <3>1. x = O[s] /\ t = Waits(e, O, s) /\ Ch2[<<x, t>>] = -1
      BY <2>2, <1>7 DEF Spot
    <3>2. Takes(e, N, I, K, O, L, c, s) /\ Node(I, K, x)
      BY <1>4
    <3>3. ASSUME e.F, NEW y \in K[x] \cap (e.H \cup {e.p}), Strict(e.D, t, y, x, e.n) PROVE FALSE
      <4>1. CASE y \in e.H
        BY <4>1, <3>1, <3>2, <3>3 DEF Takes
      <4>2. CASE y = e.p
        <5>1. x = e.p
          <6>1. e.p <= x
            BY <4>2, <3>2, <3>3 DEF Node
          <6>2. x \in Nat /\ (x = e.p \/ x < e.p)
            BY <1>1, <1>5
          <6> QED BY <6>1, <6>2, <1>1
        <5>2. Strict(e.D, t, e.p, e.p, e.n) /\ Same(e.D, e.p, e.p, e.n) /\ t \in {0, 1}
          BY <5>1, <4>2, <1>1, <3>3, SameFacts DEF Sides
        <5> QED BY <5>2, <1>1, SideFacts
      <4> QED BY <4>1, <4>2, <3>3
    <3>4. -1 \notin e.H \cup {e.p}
      BY <1>1
    <3> QED BY <3>1, <3>3, <3>4, <1>6 DEF Side
  <2> QED BY <2>1, <2>2, <1>7
<1>9. Single(After(e), Ch2, M \X Sides, R \cup {e.p})
  <2>1. \A a \in M \X Sides : Ch2[a] # e.p /\ (Ch2[a] \in e.H => a \in S /\ Ch2[a] = Ch[a])
    <3>1. M \X Sides \subseteq Nat \X Sides
      BY <1>1
    <3>2. \A a \in M \X Sides : Ch2[a] \in e.H \cup {-1}
      BY <3>1, <1>7
    <3> QED BY <3>2, <1>1, <1>7
  <2>2. \A a \in M \X Sides : Ch2[a] \notin R
    BY <2>1, <1>4, <1>5 DEF Single
  <2> QED BY <2>1, <2>2, <1>1, <1>4, <1>6 DEF Single
<1>10. Shapes(After(e), M, Ch2, I, K)
  BY <1>4, <1>5, <1>6, <1>7 DEF Shapes
<1>11. \A x \in M : Node(I, K, x) /\ \A t \in Sides : Side(After(e), M, Ch2, I, K, x, t)
  BY <1>4, <1>8
<1>12. R \cup {e.p} \subseteq M
  BY <1>4
<1> QED BY <1>9, <1>10, <1>11, <1>12 DEF Tree, Ch2

\* A node that equals the new position is replaced by it: its children go to the waiting places.
LEMMA WalkIsFull ==
    ASSUME NEW e, NEW N, NEW Ch, NEW I, NEW K, NEW R, NEW O, NEW L, NEW c, Env(e),
           Walk(e, N, Ch, I, K, R, O, L, c), c \in e.H, Same(e.D, c, e.p, e.n)
    PROVE  Tree(After(e), (N \ {c}) \cup {e.p}, Replaced(e, Ch, O, c), I, K, R \cup {e.p})
<1> DEFINE Ch2 == Replaced(e, Ch, O, c)
           S == Settled(e, N, O)
           M == (N \ {c}) \cup {e.p}
<1>1. /\ e.p \in Nat /\ e.n \in Nat /\ e.D \in Texts /\ e.p \notin e.H /\ e.p \notin N /\ N \subseteq Nat
      /\ -1 \notin e.H /\ e.H \subseteq Nat
      /\ \A x \in e.H : x < e.p
  BY WalkPlaces, Zenon
<1>2. \A t \in Sides : /\ O[t] \in N \cup {e.p} /\ O[t] \in Nat /\ Waits(e, O, t) \in Sides
                       /\ Spot(e, O, t) \in (N \cup {e.p}) \X Sides
  BY WalkPlaces, Zenon
<1>3. Spot(e, O, 0) # Spot(e, O, 1)
  BY WalkPlaces
<1>4. /\ c \in N /\ c \in Nat /\ c # e.p
      /\ \A t \in Sides : c # O[t] /\ c < O[t]
      /\ \A t \in Sides : <<c, t>> \in S
  BY WalkPlaces, Zenon
<1>5. /\ Ch \in [Nat \X Sides -> e.H \cup {-1}] /\ I \in [Nat -> SUBSET Nat] /\ K \in [Nat -> SUBSET Nat]
      /\ \A x \in N \cup {e.p} : Node(I, K, x)
      /\ \A x \in N \cup {e.p} : \A t \in Sides : <<x, t>> \in S => Side(e, N, Ch, I, K, x, t)
      /\ Single(e, Ch, S, R) /\ R \subseteq N /\ c \notin R /\ Shapes(e, N, Ch, I, K)
      /\ \A t \in Sides : Takes(e, N, I, K, O, L, c, t)
  BY Zenon DEF Walk, Shapes
<1>6. N \subseteq e.H /\ \A a \in S : Ch[a] # c
  BY DEF Walk, Shapes
<1>7. After(e).D = e.D /\ After(e).n = e.n /\ After(e).H = e.H \cup {e.p} /\ After(e).F = e.F
  BY DEF After
<1>8. 0 \in Sides /\ 1 \in Sides /\ \A s \in Sides : s \in {0, 1} /\ 1 - s \in Sides /\ 1 - (1 - s) = s
  BY DEF Sides
<1>9. /\ Ch2 \in [Nat \X Sides -> e.H \cup {-1}]
      /\ \A s \in Sides : Ch2[Spot(e, O, s)] = Ch[<<c, 1 - s>>]
      /\ \A a \in S : Ch2[a] = Ch[a]
      /\ S \subseteq Nat \X Sides
  <2>1. /\ Spot(e, O, 0) \in Nat \X Sides /\ Spot(e, O, 1) \in Nat \X Sides
        /\ <<c, 0>> \in Nat \X Sides /\ <<c, 1>> \in Nat \X Sides
    BY <1>1, <1>2, <1>4, <1>8
  <2>2. /\ Ch2 \in [Nat \X Sides -> e.H \cup {-1}]
        /\ Ch2[Spot(e, O, 0)] = Ch[<<c, 1>>] /\ Ch2[Spot(e, O, 1)] = Ch[<<c, 0>>]
        /\ \A a \in Nat \X Sides : a # Spot(e, O, 0) /\ a # Spot(e, O, 1) => Ch2[a] = Ch[a]
    BY <1>3, <1>5, <2>1 DEF Replaced
  <2>3. S \subseteq Nat \X Sides /\ \A a \in S : a # Spot(e, O, 0) /\ a # Spot(e, O, 1)
    BY <1>1 DEF Settled
  <2>4. \A s \in Sides : (s = 0 /\ 1 - s = 1) \/ (s = 1 /\ 1 - s = 0)
    BY DEF Sides
  <2> HIDE DEF Ch2, S
  <2> QED BY <2>2, <2>3, <2>4
\* A place of the new tree was settled, and is none of the node replaced, or waited.
<1>10. \A a \in M \X Sides :
          \/ a \in S /\ a # <<c, 0>> /\ a # <<c, 1>>
          \/ a = Spot(e, O, 0) \/ a = Spot(e, O, 1)
  <2>1. \A a \in M \X Sides : a \in (N \cup {e.p}) \X Sides /\ a # <<c, 0>> /\ a # <<c, 1>>
    BY <1>4
  <2> QED BY <2>1 DEF Settled
<1> HIDE DEF Ch2, S
\* The children of the node replaced.
<1>11. ASSUME NEW s \in Sides
       PROVE  LET z == Ch[<<c, 1 - s>>]
              IN  /\ Side(e, N, Ch, I, K, c, 1 - s) /\ <<c, 1 - s>> \in S
                  /\ z \in e.H => /\ z \in M /\ z < c /\ z # c /\ z \notin R /\ \A y \in I[z] : y \in I[c] /\ y \in Nat /\ Ord(e.D, 1 - s, y, e.p, e.n)
  <2> DEFINE z == Ch[<<c, 1 - s>>]
  <2>1. Side(e, N, Ch, I, K, c, 1 - s) /\ <<c, 1 - s>> \in S
    BY <1>4, <1>5, <1>8
  <2>2. z \in e.H => z \in N /\ z < c /\ z # c /\ z \in Nat /\ z \notin R
    BY <2>1, <1>1, <1>4, <1>5 DEF Side, Single
  <2>3. ASSUME z \in e.H, NEW y \in I[z] PROVE y \in I[c] /\ y \in Nat /\ Ord(e.D, 1 - s, y, e.p, e.n)
    <3>1. y \in Nat /\ y \in I[c] /\ Ord(e.D, 1 - s, y, c, e.n)
      BY <2>1, <2>2, <2>3, <1>5 DEF Side
    <3>2. 1 - s \in {0, 1} /\ Ord(e.D, 1 - s, c, e.p, e.n)
      BY <1>8 DEF Ord
    <3> QED BY <3>1, <3>2, <1>1, <1>4, SideFacts
  <2> QED BY <2>1, <2>2, <2>3
<1>12. ASSUME NEW x \in M, NEW t \in Sides PROVE Side(After(e), M, Ch2, I, K, x, t)
  <2>0. x \in N \cup {e.p} /\ x \in e.H \cup {e.p} /\ Node(I, K, x) /\ x \in Nat
    BY <1>1, <1>5, <1>6
  <2>1. CASE <<x, t>> \in S
    <3>1. Side(e, N, Ch, I, K, x, t) /\ Ch2[<<x, t>>] = Ch[<<x, t>>] /\ Ch[<<x, t>>] # c
      BY <2>0, <2>1, <1>5, <1>6, <1>9
    <3>2. Ch[<<x, t>>] \in e.H => Ch[<<x, t>>] \in M
      BY <3>1 DEF Side
    <3> QED BY <2>0, <3>1, <3>2, <1>5, SideAfter
  <2>2. ASSUME NEW s \in Sides, <<x, t>> = Spot(e, O, s) PROVE Side(After(e), M, Ch2, I, K, x, t)
    <3> DEFINE z == Ch[<<c, 1 - s>>]
    <3>1. x = O[s] /\ t = Waits(e, O, s) /\ Ch2[<<x, t>>] = z /\ c < x
      BY <2>2, <1>4, <1>9 DEF Spot
    <3>2. Takes(e, N, I, K, O, L, c, s)
      BY <1>5
    <3>3. /\ Side(e, N, Ch, I, K, c, 1 - s)
          /\ z \in e.H => /\ z \in M /\ z < c /\ \A y \in I[z] : y \in I[c] /\ y \in Nat /\ Ord(e.D, 1 - s, y, e.p, e.n)
      BY <1>11
    <3>a. z \in e.H \cup {-1}
      BY <1>4, <1>5, <1>8
    <3> HIDE DEF z
    <3>4. z \in e.H => z < x /\ \A y \in I[z] : y \in I[x] /\ Ord(e.D, t, y, x, e.n)
      <4>1. z \in e.H => z < x
        BY <3>1, <3>3, <1>1, <1>4, <2>0
      <4> QED BY <4>1, <3>1, <3>2, <3>3 DEF Takes
    <3>5. ASSUME e.F, NEW y \in K[x] \cap (e.H \cup {e.p}), Strict(e.D, t, y, x, e.n)
          PROVE  z \in e.H /\ y \in K[z]
      <4>0. y \in Nat
        BY <1>1, <3>5
      <4>1. CASE y = e.p
        <5>1. x = e.p
          <6>1. e.p <= x
            BY <2>0, <4>1, <3>5 DEF Node
          <6>2. x = e.p \/ x < e.p
            BY <1>1, <2>0
          <6> QED BY <6>1, <6>2, <1>1, <2>0
        <5>2. Strict(e.D, t, e.p, e.p, e.n) /\ Same(e.D, e.p, e.p, e.n) /\ t \in {0, 1}
          <6>1. t \in {0, 1}
            BY <1>8
          <6>2. Strict(e.D, t, e.p, e.p, e.n)
            BY <5>1, <4>1, <3>5
          <6>3. e.n \in 0 .. e.n
            BY <1>1
          <6>4. Same(e.D, e.p, e.p, e.n)
            BY <6>3, <1>1, SameFacts
          <6> QED BY <6>1, <6>2, <6>4
        <5> QED BY <5>2, <1>1, SideFacts
      <4>2. CASE y \in e.H
        <5>1. y \in K[c] \cap e.H
          BY <3>1, <3>2, <3>5, <4>2 DEF Takes
        <5>2. Strict(e.D, 1 - s, y, e.p, e.n)
          BY <3>1, <3>2, <3>5 DEF Takes, Waits
        <5>3. Strict(e.D, 1 - s, y, c, e.n)
          <6>1. 1 - s \in {0, 1} /\ Ord(e.D, 1 - s, e.p, c, e.n)
            BY <1>1, <1>4, <1>8, SameFacts DEF Ord
          <6> QED BY <6>1, <5>2, <4>0, <1>1, <1>4, SideFacts
        <5> QED BY <5>1, <5>3, <3>3, <3>5 DEF Side, z
      <4> QED BY <4>1, <4>2, <3>5
    <3>6. z \in e.H \cup {e.p} => z \in e.H
      BY <3>a, <1>1
    <3> QED BY <3>1, <3>3, <3>4, <3>5, <3>6, <1>7 DEF Side
  <2>3. <<x, t>> \in S \/ <<x, t>> = Spot(e, O, 0) \/ <<x, t>> = Spot(e, O, 1)
    BY <1>10
  <2> QED BY <2>1, <2>2, <2>3, <1>8
\* Where the child of a place of the new tree was before.
<1> DEFINE from(a) == IF a = Spot(e, O, 0) THEN <<c, 1>> ELSE IF a = Spot(e, O, 1) THEN <<c, 0>> ELSE a
<1>13. /\ \A a \in M \X Sides : from(a) \in S /\ Ch2[a] = Ch[from(a)]
       /\ \A a, b \in M \X Sides : a # b => from(a) # from(b)
  <2>1. /\ Ch2[Spot(e, O, 0)] = Ch[<<c, 1>>] /\ Ch2[Spot(e, O, 1)] = Ch[<<c, 0>>]
        /\ <<c, 0>> \in S /\ <<c, 1>> \in S /\ <<c, 0>> # <<c, 1>>
    BY <1>4, <1>8, <1>9
  <2> QED BY <2>1, <1>3, <1>9, <1>10
<1> HIDE DEF from, M
<1>14. Single(After(e), Ch2, M \X Sides, R \cup {e.p})
  <2>1. \A a \in M \X Sides : Ch2[a] # e.p /\ Ch2[a] \notin R
    <3>1. \A a \in S : Ch[a] # e.p /\ Ch[a] \notin R
      <4>1. \A a \in S : Ch[a] \in e.H \cup {-1}
        BY <1>5, <1>9
      <4> QED BY <4>1, <1>1, <1>5 DEF Single
    <3> QED BY <3>1, <1>13
  <2>2. \A a, b \in M \X Sides : a # b /\ Ch2[a] \in e.H => Ch2[a] # Ch2[b]
    BY <1>5, <1>13 DEF Single
  <2> QED BY <2>1, <2>2, <1>7 DEF Single
<1>15. Shapes(After(e), M, Ch2, I, K)
  BY <1>5, <1>6, <1>7, <1>9 DEF Shapes, M
<1>16. \A x \in M : Node(I, K, x) /\ \A t \in Sides : Side(After(e), M, Ch2, I, K, x, t)
  BY <1>5, <1>12 DEF M
<1>17. R \cup {e.p} \subseteq M
  BY <1>5 DEF M
<1> QED BY <1>14, <1>15, <1>16, <1>17 DEF Tree, Ch2, M

-----------------------------------------------------------------------------
(* What is looked for.                                                     *)

\* A lookup that has met nothing: what it seeks is below the root, or lost nowhere.
LEMMA SoughtBegins ==
    ASSUME NEW e, NEW K, NEW c, NEW m, Env(e), K \in [Nat -> SUBSET Nat], c \in e.H \cup {-1}
    PROVE  Sought(e, Looked(e, K, c), c, m)
<1>1. e.p \in Nat /\ e.p \notin e.H /\ e.H \subseteq Nat
  BY DEF Env
<1>2. Looked(e, K, c)[e.p] = {e.p} \cup (IF c \in e.H THEN K[c] ELSE {})
  BY <1>1 DEF Looked
<1>3. c \in e.H => Looked(e, K, c)[c] = K[c]
  BY <1>1 DEF Looked
<1> QED BY <1>1, <1>2, <1>3 DEF Sought

\* A node that was compared is no loss: what agrees longer is on the side the walk goes on with.
LEMMA SoughtGoesOn ==
    ASSUME NEW e, NEW N, NEW Ch, NEW I, NEW K, NEW R, NEW O, NEW L, NEW c, Env(e),
           Walk(e, N, Ch, I, K, R, O, L, c), c \in e.H, NEW s \in Sides, NEW len \in 0 .. e.n - 1,
           ~Same(e.D, c, e.p, len + 1), Strict(e.D, 1 - s, c, e.p, e.n), e.F,
           NEW m \in Nat, Sought(e, K, c, m)
    PROVE  Sought(e, Kept(K, c, StrictlyBy(e, 1 - s)), Ch[<<c, s>>], MaxOf(m, len))
<1> DEFINE K2 == Kept(K, c, StrictlyBy(e, 1 - s))
           z == Ch[<<c, s>>]
           m2 == MaxOf(m, len)
<1>1. /\ e.p \in Nat /\ e.n \in Nat /\ e.D \in Texts /\ e.p \notin e.H /\ e.p \notin N /\ N \subseteq Nat
      /\ -1 \notin e.H /\ e.H \subseteq Nat
      /\ \A x \in e.H : x < e.p
  BY WalkPlaces, Zenon
<1>2. /\ c \in N /\ c \in Nat /\ c # e.p
      /\ \A t \in Sides : c # O[t] /\ c < O[t]
      /\ \A t \in Sides : <<c, t>> \in Settled(e, N, O)
  BY WalkPlaces, Zenon
<1>3. Side(e, N, Ch, I, K, c, s) /\ K \in [Nat -> SUBSET Nat]
  BY <1>2 DEF Walk, Shapes
<1>4. K2[e.p] = K[e.p] /\ (z \in e.H => K2[z] = K[z])
  <2>1. z \in e.H => z < c /\ z \in Nat
    BY <1>1, <1>3 DEF Side
  <2>2. \A x \in Nat : x # c => K2[x] = K[x]
    BY <1>3 DEF Kept
  <2> QED BY <2>1, <2>2, <1>1, <1>2
<1>5. m2 \in Nat /\ m2 >= m /\ m2 >= len
  BY DEF MaxOf
<1> HIDE DEF K2, z, m2
<1> SUFFICES ASSUME NEW y \in K2[e.p] \cap e.H, ~(m2 >= e.n), Same(e.D, y, e.p, m2 + 1)
             PROVE  z \in e.H /\ y \in K2[z]
  BY DEF Sought, K2, z, m2
<1>6. y \in Nat /\ m + 1 \in 0 .. m2 + 1 /\ len + 1 \in 0 .. m2 + 1 /\ m2 + 1 \in 0 .. e.n /\ ~(m >= e.n)
      /\ m2 + 1 \in Nat
  BY <1>1, <1>5
<1>7. Same(e.D, y, e.p, m + 1) /\ Same(e.D, y, e.p, len + 1)
  BY <1>1, <1>6, SameFacts
<1>8. y \in K[c] /\ y \in K[e.p]
  BY <1>4, <1>6, <1>7 DEF Sought
\* It is not on the far side of the node, nor equal to it.
<1>9. ~Same(e.D, y, c, len + 1)
  <2> SUFFICES ASSUME Same(e.D, y, c, len + 1) PROVE FALSE
    OBVIOUS
  <2>1. len + 1 \in Nat /\ len + 1 \in 0 .. len + 1
    BY <1>6
  <2>2. Same(e.D, c, y, len + 1)
    BY <2>1, <1>1, <1>2, <1>6, SameFacts
  <2> QED BY <2>1, <2>2, <1>1, <1>2, <1>6, <1>7, SameFacts
<1>10. s \in {0, 1} /\ 1 - s \in {0, 1} /\ 1 - (1 - s) = s
  BY DEF Sides
<1>11. ~Ord(e.D, 1 - s, y, c, e.n)
  <2> SUFFICES ASSUME Ord(e.D, 1 - s, y, c, e.n) PROVE FALSE
    OBVIOUS
  <2>1. Ord(e.D, 1 - s, c, e.p, e.n)
    BY DEF Ord
  <2>2. len + 1 \in 0 .. e.n
    BY <1>1
  <2> DEFINE u == 1 - s
             l == len + 1
  <2>3. u \in {0, 1} /\ l \in 0 .. e.n /\ Ord(e.D, u, y, c, e.n) /\ Ord(e.D, u, c, e.p, e.n) /\ Same(e.D, y, e.p, l)
    BY <2>1, <2>2, <1>7, <1>10
  <2> HIDE DEF u, l
  <2>4. Same(e.D, y, c, l)
    BY <2>3, <1>1, <1>2, <1>6, SideBetween, ZenonT(60)
  <2> QED BY <2>4, <1>9 DEF l
<1>12. Strict(e.D, s, y, c, e.n)
  <2>1. Same(e.D, y, c, e.n) \/ Strict(e.D, 1 - s, y, c, e.n) \/ Strict(e.D, 1 - (1 - s), y, c, e.n)
    BY <1>1, <1>2, <1>6, <1>10, SideFacts
  <2> QED BY <2>1, <1>10, <1>11 DEF Ord
<1> QED BY <1>3, <1>4, <1>8, <1>12 DEF Side, z

-----------------------------------------------------------------------------
(* Time.                                                                   *)

\* One position on: the history loses its oldest positions, and fewer bytes may be looked at.
Later(e, f) ==
    /\ f.D = e.D /\ f.F = e.F /\ f.p = e.p /\ f.n \in 0 .. e.n
    /\ f.H \subseteq e.H /\ \A x \in e.H : \A y \in f.H : y <= x => x \in f.H

\* The tree stays one when the oldest position falls out of the history.
LEMMA TimeGoesBy ==
    ASSUME NEW e, NEW f, NEW N, NEW Ch, NEW Ch2, NEW I, NEW K, NEW R, Env(e), Tree(e, N, Ch, I, K, R), Later(e, f),
           Ch2 \in [Nat \X Sides -> f.H \cup {-1}],
           \A x \in f.H : \A t \in Sides : Ch2[<<x, t>>] = IF Ch[<<x, t>>] \in f.H THEN Ch[<<x, t>>] ELSE -1
    PROVE  Env(f) /\ Tree(f, N \cap f.H, Ch2, I, K, R \cap f.H)
<1> DEFINE M == N \cap f.H
<1>1. /\ e.p \in Nat /\ e.n \in Nat /\ e.D \in Texts /\ e.H \subseteq 0 .. e.p - 1 /\ N \subseteq e.H /\ e.F \in BOOLEAN
      /\ Ch \in [Nat \X Sides -> e.H \cup {-1}] /\ I \in [Nat -> SUBSET Nat] /\ K \in [Nat -> SUBSET Nat]
      /\ \A x \in N : Node(I, K, x) /\ \A t \in Sides : Side(e, N, Ch, I, K, x, t)
      /\ Single(e, Ch, N \X Sides, R) /\ R \subseteq N
  BY DEF Env, Tree, Shapes
<1>2. /\ f.D = e.D /\ f.F = e.F /\ f.p = e.p /\ f.n \in 0 .. e.n /\ f.n \in Nat
      /\ f.H \subseteq e.H /\ \A x \in e.H : \A y \in f.H : y <= x => x \in f.H
  BY <1>1 DEF Later
<1>3. Env(f)
  BY <1>1, <1>2 DEF Env
<1>4. -1 \notin f.H /\ e.H \subseteq Nat /\ -1 \notin e.H
  BY <1>1, <1>2
<1>5. ASSUME NEW x \in M, NEW t \in Sides PROVE Side(f, M, Ch2, I, K, x, t)
  <2>1. /\ Side(e, N, Ch, I, K, x, t) /\ x \in f.H /\ x \in Nat /\ t \in {0, 1}
        /\ Ch2[<<x, t>>] = (IF Ch[<<x, t>>] \in f.H THEN Ch[<<x, t>>] ELSE -1)
    BY <1>1, <1>2, <1>4, ZenonT(60) DEF Sides
  <2> DEFINE z == Ch[<<x, t>>]
  <2>2. Ch2[<<x, t>>] \in f.H => Ch2[<<x, t>>] = z /\ z \in f.H /\ z \in e.H /\ z \in N /\ z < x
    BY <2>1, <1>2, <1>4 DEF Side
  <2>3. ASSUME Ch2[<<x, t>>] \in f.H, NEW y \in I[z] PROVE y \in I[x] /\ Ord(f.D, t, y, x, f.n)
    <3>1. y \in I[x] /\ Ord(e.D, t, y, x, e.n) /\ y \in Nat
      BY <2>1, <2>2, <2>3, <1>1, <1>4 DEF Side
    <3> QED BY <3>1, <2>1, <1>1, <1>2, SideBetween
  <2>4. ASSUME f.F, NEW y \in K[x] \cap f.H, Strict(f.D, t, y, x, f.n) PROVE Ch2[<<x, t>>] \in f.H /\ y \in K[Ch2[<<x, t>>]]
    <3>1. y \in Nat /\ y \in e.H /\ Strict(e.D, t, y, x, e.n)
      <4>1. y \in Nat /\ y \in e.H
        BY <1>2, <1>4
      <4> QED BY <4>1, <2>1, <2>4, <1>1, <1>2, SideBetween, SMTT(40)
    <3>2. z \in e.H /\ y \in K[z] /\ z \in N
      BY <3>1, <2>1, <2>4, <1>2 DEF Side
    <3>3. y <= z
      BY <3>2, <1>1 DEF Node
    <3>4. z \in f.H
      BY <3>2, <3>3, <1>2
    <3> QED BY <3>2, <3>4, <2>1
  <2> HIDE DEF z
  <2> QED BY <2>2, <2>3, <2>4 DEF Side
<1>6. Single(f, Ch2, M \X Sides, R \cap f.H)
  <2>1. \A a \in M \X Sides : a \in N \X Sides /\ (Ch2[a] \in f.H => Ch2[a] = Ch[a] /\ Ch[a] \in e.H)
    <3> SUFFICES ASSUME NEW a \in M \X Sides PROVE a \in N \X Sides /\ (Ch2[a] \in f.H => Ch2[a] = Ch[a] /\ Ch[a] \in e.H)
      OBVIOUS
    <3>1. PICK x \in M, t \in Sides : a = <<x, t>>
      OBVIOUS
    <3> QED BY <3>1, <1>2, <1>4
  <2>2. \A a \in M \X Sides : Ch2[a] \notin R \cap f.H
    BY <2>1, <1>1 DEF Single
  <2> HIDE DEF M
  <2> QED BY <2>1, <2>2, <1>1 DEF Single
<1>7. \A x \in M : Node(I, K, x) /\ \A t \in Sides : Side(f, M, Ch2, I, K, x, t)
  BY <1>1, <1>5
<1>8. Shapes(f, M, Ch2, I, K) /\ R \cap f.H \subseteq M
  BY <1>1 DEF Shapes
<1> QED BY <1>3, <1>6, <1>7, <1>8 DEF Tree

(***************************************************************************)
(* Positions and the history.  q is the position of the finder where p is  *)
(* the one in the stream; a value v in a table of the finder names a       *)
(* stream position, as long as that is one of the history.                 *)
(***************************************************************************)
Hist(p) == {x \in Nat : x < p /\ p <= x + HistorySize}

Seen(q, p, v) == IF InHistory(v, q, Cyclic) THEN p - (q - v) ELSE -1

\* Until positions were normalised, they are one more than those of the stream; then there is a full history.
Steady(q, p) == q \in Nat \ {0} /\ p \in Nat /\ (q = p + 1 \/ (q >= Cyclic /\ p >= HistorySize))

\* A value of a table is a position of the history exactly when the code takes it for one, and the
\* distance is that of the text.
LEMMA SeenFacts ==
    ASSUME NEW q, NEW p, Steady(q, p), NEW v \in Nat, v < q
    PROVE  /\ Seen(q, p, v) \in Hist(p) \cup {-1} /\ -1 \notin Hist(p)
           /\ InHistory(v, q, Cyclic) <=> Seen(q, p, v) \in Hist(p)
           /\ InHistory(v, q, Cyclic) <=> v > 0 /\ q - v < Cyclic
           /\ Seen(q, p, v) \in Hist(p) => p - Seen(q, p, v) = q - v
           /\ Seen(q, p, 0) = -1
           /\ Seen(q + 1, p + 1, v) = IF Seen(q, p, v) \in Hist(p + 1) THEN Seen(q, p, v) ELSE -1
  BY Sizes DEF Steady, Seen, InHistory, Hist

\* The history of the next position has the position just left, and loses at most its oldest one.
LEMMA HistFacts ==
    ASSUME NEW q, NEW p, Steady(q, p)
    PROVE  /\ Steady(q + 1, p + 1) /\ Seen(q + 1, p + 1, q) = p /\ p \in Hist(p + 1) /\ p \notin Hist(p)
           /\ Hist(p + 1) \subseteq Hist(p) \cup {p} /\ Hist(p) \subseteq 0 .. p - 1 /\ Hist(p) \subseteq Nat
           /\ \A x \in Hist(p) : \A y \in Hist(p + 1) : y <= x => x \in Hist(p + 1)
           /\ \A x \in Nat : x \in Hist(p) <=> p - x \in 1 .. MinOf(p, HistorySize)
  BY Sizes DEF Steady, Seen, InHistory, Hist, MinOf

\* Normalising the positions keeps what the values name.
LEMMA SeenWraps ==
    ASSUME NEW p, Steady(PosMod, p), NEW v \in Nat, v < PosMod
    PROVE  /\ Steady(Cyclic, p)
           /\ MaxOf(v, PosMod - Cyclic) - (PosMod - Cyclic) \in 0 .. Cyclic - 1
           /\ Seen(Cyclic, p, MaxOf(v, PosMod - Cyclic) - (PosMod - Cyclic)) = Seen(PosMod, p, v)
  BY Sizes DEF Steady, Seen, InHistory, MaxOf

(***************************************************************************)
(* key[x] is the hash of the string at x.  A value names the latest        *)
(* position below u that has the hash h, if the history has one.           *)
(***************************************************************************)
IsLatest(q, p, u, v, h, key) ==
    LET x == Seen(q, p, v)
    IN  /\ v \in Nat /\ v < q
        /\ x \in Hist(p) => x < u /\ key[x] = h
        /\ \A y \in Hist(p) : y < u /\ key[y] = h => x \in Hist(p) /\ y <= x

Latest(q, p, T, key) == \A h \in DOMAIN T : IsLatest(q, p, p, T[h], h, key)

\* What is the latest position of a hash stays so when the history moves on, or fell out of it.
LEMMA LatestAges ==
    ASSUME NEW q, NEW p, Steady(q, p), NEW u \in Nat, u <= p, NEW v, NEW h, NEW key, IsLatest(q, p, u, v, h, key)
    PROVE  IsLatest(q + 1, p + 1, u, v, h, key)
<1> DEFINE x == Seen(q, p, v)
           x2 == Seen(q + 1, p + 1, v)
<1>1. /\ q \in Nat /\ p \in Nat /\ v \in Nat /\ v < q /\ v < q + 1
      /\ x \in Hist(p) => x < u /\ key[x] = h
      /\ \A y \in Hist(p) : y < u /\ key[y] = h => x \in Hist(p) /\ y <= x
  BY DEF IsLatest, Steady
<1>2. /\ x \in Hist(p) \cup {-1} /\ -1 \notin Hist(p) /\ x2 = IF x \in Hist(p + 1) THEN x ELSE -1
  BY <1>1, SeenFacts
<1>3. /\ Hist(p + 1) \subseteq Hist(p) \cup {p}
      /\ \A z \in Hist(p) : \A y \in Hist(p + 1) : y <= z => z \in Hist(p + 1)
  BY HistFacts
<1>4. -1 \notin Hist(p + 1)
  BY DEF Hist
<1> HIDE DEF x, x2
<1>5. x2 \in Hist(p + 1) => x2 = x /\ x \in Hist(p)
  BY <1>1, <1>2, <1>3, <1>4
<1>6. ASSUME NEW y \in Hist(p + 1), y < u, key[y] = h PROVE x2 \in Hist(p + 1) /\ y <= x2
  <2>1. y \in Hist(p)
    BY <1>1, <1>3, <1>6
  <2>2. x \in Hist(p) /\ y <= x
    BY <2>1, <1>1, <1>6
  <2> QED BY <2>2, <1>2, <1>3
<1> QED BY <1>1, <1>5, <1>6 DEF IsLatest, x, x2

\* Normalising keeps it too.
LEMMA LatestWraps ==
    ASSUME NEW p, Steady(PosMod, p), NEW u, NEW v, NEW h, NEW key, IsLatest(PosMod, p, u, v, h, key)
    PROVE  IsLatest(Cyclic, p, u, MaxOf(v, PosMod - Cyclic) - (PosMod - Cyclic), h, key)
<1> DEFINE w == MaxOf(v, PosMod - Cyclic) - (PosMod - Cyclic)
<1>1. v \in Nat /\ v < PosMod
  BY DEF IsLatest
<1>2. w \in 0 .. Cyclic - 1 /\ Seen(Cyclic, p, w) = Seen(PosMod, p, v)
  BY <1>1, SeenWraps
<1>3. w \in Nat /\ w < Cyclic
  BY <1>2, Sizes
<1> HIDE DEF w
<1>4. IsLatest(Cyclic, p, u, w, h, key)
  BY <1>2, <1>3 DEF IsLatest
<1> QED BY <1>4 DEF w

\* Entering a position in a table.
LEMMA LatestEnters ==
    ASSUME NEW q, NEW p, Steady(q, p), NEW T, NEW key, Latest(q, p, T, key)
    PROVE  Latest(q + 1, p + 1, [T EXCEPT ![key[p]] = q], key)
<1> DEFINE U == [T EXCEPT ![key[p]] = q]
<1> SUFFICES ASSUME NEW h \in DOMAIN T PROVE IsLatest(q + 1, p + 1, p + 1, U[h], h, key)
  BY DEF Latest
<1>1. q \in Nat /\ p \in Nat
  BY DEF Steady
<1>2. Seen(q + 1, p + 1, q) = p /\ p \in Hist(p + 1) /\ Hist(p + 1) \subseteq Hist(p) \cup {p} /\ Hist(p) \subseteq 0 .. p - 1
  BY HistFacts
<1>3. CASE h = key[p]
  <2>1. U[h] = q
    BY <1>3
  <2> HIDE DEF U
  <2>2. \A y \in Hist(p + 1) : y <= p
    BY <1>1, <1>2
  <2> QED BY <1>1, <1>2, <1>3, <2>1, <2>2 DEF IsLatest
<1>4. CASE h # key[p]
  <2>1. U[h] = T[h]
    BY <1>4
  <2> HIDE DEF U
  <2>2. IsLatest(q, p, p, T[h], h, key)
    BY DEF Latest
  <2>3. p <= p
    BY <1>1
  <2>4. IsLatest(q + 1, p + 1, p, T[h], h, key)
    BY <1>1, <2>2, <2>3, LatestAges
  <2>5. \A y \in Hist(p + 1) : y # p => y < p
    BY <1>1, <1>2
  <2>6. Hist(p + 1) \subseteq Nat
    BY DEF Hist
  <2> QED BY <2>1, <2>4, <2>5, <2>6, <1>1, <1>4 DEF IsLatest
<1> QED BY <1>3, <1>4

\* A set of numbers not below b has a least one.
LEMMA MinFacts ==
    ASSUME NEW b \in Int, NEW S, S # {}, \A i \in S : i \in Int /\ i >= b
    PROVE  Min(S) \in S /\ \A i \in S : Min(S) <= i
<1> DEFINE T == {k \in Nat : b + k \in S}
<1>1. T # {} /\ T \subseteq Nat
  <2>1. PICK i : i \in S
    OBVIOUS
  <2>2. i - b \in Nat /\ b + (i - b) = i
    BY <2>1
  <2>3. i - b \in T
    BY <2>1, <2>2
  <2> QED BY <2>3
<1>2. PICK k \in T : \A j \in T : <<j, k>> \notin OpToRel(<, Nat)
  BY <1>1, WFMin, NatLessThanWellFounded, Zenon
<1>3. k \in Nat /\ b + k \in S
  BY <1>2
<1>4. \A i \in S : b + k <= i
  <2> SUFFICES ASSUME NEW i \in S, ~(b + k <= i) PROVE FALSE
    OBVIOUS
  <2>1. i - b \in Nat /\ b + (i - b) = i /\ i - b < k
    BY <1>3
  <2>2. i - b \in T
    BY <2>1
  <2> QED BY <1>2, <1>3, <2>1, <2>2 DEF OpToRel
<1>5. \E x \in S : \A i \in S : x <= i
  BY <1>3, <1>4
<1>6. Min(S) = CHOOSE x \in S : \A i \in S : x <= i
  BY DEF Min
<1> QED BY <1>5, <1>6

\* The same of a largest one.
LEMMA MaxFacts ==
    ASSUME NEW b \in Int, NEW S, S # {}, \A i \in S : i \in Int /\ i <= b
    PROVE  Max(S) \in S /\ \A i \in S : i <= Max(S)
<1> DEFINE T == {k \in Nat : b - k \in S}
<1>1. T # {} /\ T \subseteq Nat
  <2>1. PICK i : i \in S
    OBVIOUS
  <2>2. b - i \in Nat /\ b - (b - i) = i
    BY <2>1
  <2>3. b - i \in T
    BY <2>1, <2>2
  <2> QED BY <2>3
<1>2. PICK k \in T : \A j \in T : <<j, k>> \notin OpToRel(<, Nat)
  BY <1>1, WFMin, NatLessThanWellFounded, Zenon
<1>3. k \in Nat /\ b - k \in S
  BY <1>2
<1>4. \A i \in S : i <= b - k
  <2> SUFFICES ASSUME NEW i \in S, ~(i <= b - k) PROVE FALSE
    OBVIOUS
  <2>1. b - i \in Nat /\ b - (b - i) = i /\ b - i < k
    BY <1>3
  <2>2. b - i \in T
    BY <2>1
  <2> QED BY <1>2, <1>3, <2>1, <2>2 DEF OpToRel
<1>5. \E x \in S : \A i \in S : i <= x
  BY <1>3, <1>4
<1>6. Max(S) = CHOOSE x \in S : \A i \in S : x >= i
  BY DEF Max
<1>7. \A x, i \in S : x >= i <=> i <= x
  OBVIOUS
<1> QED BY <1>5, <1>6, <1>7

\* match_run stops at the first byte that differs from its copy.
LEMMA MatchRunFacts ==
    ASSUME NEW B, NEW d \in Int, NEW start \in Int, NEW limit \in Int, start <= limit
    PROVE  LET j == MatchRun(B, d, start, limit)
           IN  /\ j \in start .. limit /\ \A i \in start .. j - 1 : B[i - d] = B[i]
               /\ j < limit => B[j - d] # B[j]
<1> DEFINE j == MatchRun(B, d, start, limit)
           S == {i \in start .. limit - 1 : B[i - d] # B[i]} \cup {limit}
<1>1. CASE start >= limit
  <2>1. j = start /\ start = limit
    BY <1>1 DEF MatchRun
  <2> QED BY <2>1
<1>2. CASE ~(start >= limit)
  <2>1. j = Min(S)
    BY <1>2 DEF MatchRun
  <2>2. S # {} /\ \A i \in S : i \in Int /\ i >= start
    OBVIOUS
  <2>3. Min(S) \in S /\ \A i \in S : Min(S) <= i
    <3> HIDE DEF S
    <3> QED BY <2>2, MinFacts
  <2> HIDE DEF j
  <2>4. j \in start .. limit /\ (j < limit => B[j - d] # B[j])
    BY <2>1, <2>3
  <2>5. \A i \in start .. j - 1 : B[i - d] = B[i]
    <3> SUFFICES ASSUME NEW i \in start .. j - 1, B[i - d] # B[i] PROVE FALSE
      OBVIOUS
    <3>1. i \in S
      BY <2>4
    <3> HIDE DEF S
    <3>2. j <= i
      BY <2>1, <2>3, <3>1
    <3> QED BY <2>4, <3>2
  <2> QED BY <2>4, <2>5 DEF j
<1> QED BY <1>1, <1>2

-----------------------------------------------------------------------------
(* The tree as the finder stores it.                                       *)

\* Where the child of a[1] on side a[2] is, cp being the slot of p.
Place(cp, p, a) == 2 * CyclicBack(cp, p - a[1], Cyclic) + a[2]

Slots == 0 .. Cyclic - 1

Sons(q) == [0 .. 2 * Cyclic - 1 -> 0 .. q - 1]

Places(p) == (Hist(p) \cup {p}) \X Sides

Children(son, q, p, cp) ==
    [a \in Nat \X Sides |-> IF a[1] \in Hist(p) \cup {p} THEN Seen(q, p, son[Place(cp, p, a)]) ELSE -1]

\* Every position of the history has a slot of its own.
LEMMA SlotFacts ==
    ASSUME NEW cp \in Slots, NEW p \in Nat, NEW x \in Hist(p) \cup {p}, NEW y \in Hist(p) \cup {p}
    PROVE  /\ CyclicBack(cp, p - x, Cyclic) \in Slots /\ CyclicBack(cp, 0, Cyclic) = cp
           /\ CyclicBack(cp, p - x, Cyclic) = CyclicBack(cp, p - y, Cyclic) => x = y
  BY Sizes DEF Slots, Hist, CyclicBack

\* Different children of nodes of the history have different cells of `son`.
LEMMA PlaceFacts ==
    ASSUME NEW cp \in Slots, NEW p \in Nat, NEW a \in Places(p), NEW b \in Places(p)
    PROVE  /\ Place(cp, p, a) \in 0 .. 2 * Cyclic - 1
           /\ Place(cp, p, a) = Place(cp, p, b) => a = b
           /\ Place(cp, p, <<p, 0>>) = 2 * cp /\ Place(cp, p, <<p, 1>>) = 2 * cp + 1
           /\ a \in Nat \X Sides
<1>1. PICK x \in Hist(p) \cup {p}, s \in Sides : a = <<x, s>>
  BY DEF Places
<1>2. PICK y \in Hist(p) \cup {p}, t \in Sides : b = <<y, t>>
  BY DEF Places
<1> DEFINE u == CyclicBack(cp, p - x, Cyclic)
           v == CyclicBack(cp, p - y, Cyclic)
<1>3. /\ u \in Slots /\ v \in Slots /\ CyclicBack(cp, 0, Cyclic) = cp
      /\ u = v => x = y
  BY SlotFacts
<1>4. s \in {0, 1} /\ t \in {0, 1} /\ cp \in Nat /\ p - p = 0 /\ Cyclic \in Nat /\ x \in Nat
  BY Sizes DEF Sides, Slots, Hist
<1>5. Place(cp, p, a) = 2 * u + s /\ Place(cp, p, b) = 2 * v + t
  BY <1>1, <1>2 DEF Place
<1>6. Place(cp, p, <<p, 0>>) = 2 * cp /\ Place(cp, p, <<p, 1>>) = 2 * cp + 1
  BY <1>3, <1>4 DEF Place
<1> HIDE DEF u, v
<1>7. u \in 0 .. Cyclic - 1 /\ v \in 0 .. Cyclic - 1
  BY <1>3 DEF Slots
<1>8. 2 * u + s \in 0 .. 2 * Cyclic - 1
  BY <1>4, <1>7
<1>9. 2 * u + s = 2 * v + t => u = v /\ s = t
  BY <1>4, <1>7
<1> QED BY <1>1, <1>2, <1>3, <1>4, <1>5, <1>6, <1>8, <1>9

\* The children that the cells of `son` stand for, and what a write to a cell does to them.
LEMMA ChildrenFacts ==
    ASSUME NEW q, NEW p, Steady(q, p), NEW cp \in Slots, NEW son \in Sons(q)
    PROVE  /\ Children(son, q, p, cp) \in [Nat \X Sides -> Hist(p) \cup {-1}]
           /\ \A a \in Places(p) : /\ Children(son, q, p, cp)[a] = Seen(q, p, son[Place(cp, p, a)])
                                   /\ son[Place(cp, p, a)] \in 0 .. q - 1
           /\ \A a \in Places(p), v \in 0 .. q - 1 :
                /\ [son EXCEPT ![Place(cp, p, a)] = v] \in Sons(q)
                /\ Children([son EXCEPT ![Place(cp, p, a)] = v], q, p, cp)
                     = [Children(son, q, p, cp) EXCEPT ![a] = Seen(q, p, v)]
<1>1. q \in Nat /\ p \in Nat
  BY DEF Steady
<1>2. \A a \in Places(p) : /\ Place(cp, p, a) \in 0 .. 2 * Cyclic - 1 /\ a \in Nat \X Sides /\ a[1] \in Hist(p) \cup {p}
                           /\ \A b \in Places(p) : Place(cp, p, a) = Place(cp, p, b) => a = b
  <2>1. \A a \in Places(p) : a[1] \in Hist(p) \cup {p}
    BY DEF Places
  <2> QED BY <1>1, <2>1, PlaceFacts, Zenon
<1>3. \A a \in Places(p) : son[Place(cp, p, a)] \in 0 .. q - 1
  BY <1>2 DEF Sons
<1>4. \A v \in 0 .. q - 1 : Seen(q, p, v) \in Hist(p) \cup {-1}
  <2> SUFFICES ASSUME NEW v \in 0 .. q - 1 PROVE Seen(q, p, v) \in Hist(p) \cup {-1}
    OBVIOUS
  <2>1. v \in Nat /\ v < q
    BY <1>1
  <2> QED BY <2>1, SeenFacts
<1>5. \A a \in Nat \X Sides : a[1] \in Hist(p) \cup {p} => a \in Places(p)
  BY DEF Places
<1>6. Children(son, q, p, cp) \in [Nat \X Sides -> Hist(p) \cup {-1}]
  BY <1>3, <1>4, <1>5 DEF Children
<1>7. \A a \in Places(p) : Children(son, q, p, cp)[a] = Seen(q, p, son[Place(cp, p, a)])
  BY <1>2 DEF Children
<1>8. ASSUME NEW a \in Places(p), NEW v \in 0 .. q - 1
      PROVE  /\ [son EXCEPT ![Place(cp, p, a)] = v] \in Sons(q)
             /\ Children([son EXCEPT ![Place(cp, p, a)] = v], q, p, cp)
                  = [Children(son, q, p, cp) EXCEPT ![a] = Seen(q, p, v)]
  <2> DEFINE son2 == [son EXCEPT ![Place(cp, p, a)] = v]
  <2>1. son2 \in Sons(q)
    BY DEF Sons
  <2>2. /\ son2[Place(cp, p, a)] = v
        /\ \A b \in Places(p) : b # a => son2[Place(cp, p, b)] = son[Place(cp, p, b)]
    BY <1>2 DEF Sons
  <2> HIDE DEF son2
  <2> DEFINE C(x, b) == IF b[1] \in Hist(p) \cup {p} THEN Seen(q, p, x[Place(cp, p, b)]) ELSE -1
  <2>3. \A b \in Nat \X Sides : C(son2, b) = IF b = a THEN Seen(q, p, v) ELSE C(son, b)
    BY <1>2, <1>5, <2>2
  <2>4. Children(son, q, p, cp) = [b \in Nat \X Sides |-> C(son, b)] /\ Children(son2, q, p, cp) = [b \in Nat \X Sides |-> C(son2, b)]
    BY DEF Children
  <2> HIDE DEF C
  <2>5. Children(son2, q, p, cp) = [Children(son, q, p, cp) EXCEPT ![a] = Seen(q, p, v)]
    <3> DEFINE A == Nat \X Sides
               x == Seen(q, p, v)
               F == [b \in A |-> C(son, b)]
               G == [b \in A |-> C(son2, b)]
    <3>1. \A b \in A : C(son2, b) = IF b = a THEN x ELSE C(son, b)
      BY <2>3
    <3> HIDE DEF A, x
    <3>2. G = [F EXCEPT ![a] = x]
      BY <3>1
    <3> QED BY <2>4, <3>2 DEF A, x
  <2> QED BY <2>1, <2>5 DEF son2
<1> QED BY <1>3, <1>6, <1>7, <1>8

(***************************************************************************)
(* The walk of the finder follows the walk of the tree.                    *)
(***************************************************************************)
\* The window B shows at b the text around the position e.p.
Shows(B, b, e) == \A k \in - MinOf(e.p, HistorySize) .. e.n - 1 : B[b + k] = e.D[e.p + k]

\* At position q of the finder, with the cyclic slot cp, e.p is entered.
Setting(B, b, q, cp, e) ==
    /\ Env(e) /\ e.H = Hist(e.p) /\ Steady(q, e.p) /\ cp \in Slots /\ b \in Int /\ Shows(B, b, e)

\* How far a position of the history agrees with the one that is entered.
LEMMA AgreesHere ==
    ASSUME NEW B, NEW b, NEW q, NEW cp, NEW e, Setting(B, b, q, cp, e), NEW c \in e.H, NEW m \in 0 .. e.n,
           Same(e.D, c, e.p, m)
    PROVE  LET len == MatchRun(B, e.p - c, b + m, b + e.n) - b
           IN  /\ len \in m .. e.n /\ Same(e.D, c, e.p, len)
               /\ len < e.n => /\ ~Same(e.D, c, e.p, len + 1)
                               /\ B[b - (e.p - c) + len] < B[b + len] => Below(e.D, c, e.p, e.n)
                               /\ ~(B[b - (e.p - c) + len] < B[b + len]) => Below(e.D, e.p, c, e.n)
<1> DEFINE j == MatchRun(B, e.p - c, b + m, b + e.n)
           len == j - b
<1>1. /\ b \in Int /\ e.p \in Nat /\ e.n \in Nat /\ e.D \in Texts /\ c \in Nat /\ c < e.p /\ e.p - c <= MinOf(e.p, HistorySize)
      /\ MinOf(e.p, HistorySize) \in Nat
  <2>1. b \in Int /\ e.p \in Nat /\ e.n \in Nat /\ e.D \in Texts /\ e.H = Hist(e.p)
    BY DEF Setting, Env
  <2>2. c \in Nat /\ c < e.p /\ e.p <= c + HistorySize
    BY <2>1 DEF Hist
  <2> QED BY <2>1, <2>2, Sizes DEF MinOf
<1>2. m \in Nat /\ m <= e.n
  BY <1>1
<1>3. /\ j \in b + m .. b + e.n /\ \A i \in b + m .. j - 1 : B[i - (e.p - c)] = B[i]
      /\ j < b + e.n => B[j - (e.p - c)] # B[j]
  <2>1. b + m \in Int /\ b + e.n \in Int /\ b + m <= b + e.n /\ e.p - c \in Int
    BY <1>1, <1>2
  <2> QED BY <2>1, MatchRunFacts
<1> HIDE DEF j
<1>4. len \in m .. e.n /\ j = b + len
  BY <1>1, <1>2, <1>3
<1> HIDE DEF len
<1>5. \A k \in 0 .. e.n - 1 : B[b + k] = e.D[e.p + k] /\ B[(b + k) - (e.p - c)] = e.D[c + k]
  <2> SUFFICES ASSUME NEW k \in 0 .. e.n - 1 PROVE B[b + k] = e.D[e.p + k] /\ B[(b + k) - (e.p - c)] = e.D[c + k]
    OBVIOUS
  <2>1. /\ k \in - MinOf(e.p, HistorySize) .. e.n - 1 /\ k - (e.p - c) \in - MinOf(e.p, HistorySize) .. e.n - 1
        /\ (b + k) - (e.p - c) = b + (k - (e.p - c)) /\ e.p + (k - (e.p - c)) = c + k
    BY <1>1
  <2>2. /\ B[b + k] = e.D[e.p + k]
        /\ B[b + (k - (e.p - c))] = e.D[e.p + (k - (e.p - c))]
    BY <2>1 DEF Setting, Shows
  <2> QED BY <2>1, <2>2
<1>6. \A k \in m .. len - 1 : e.D[c + k] = e.D[e.p + k]
  <2> SUFFICES ASSUME NEW k \in m .. len - 1 PROVE e.D[c + k] = e.D[e.p + k]
    OBVIOUS
  <2>1. b + k \in b + m .. j - 1 /\ k \in 0 .. e.n - 1
    BY <1>1, <1>2, <1>4
  <2> QED BY <2>1, <1>3, <1>5
<1>7. Same(e.D, c, e.p, len)
  BY <1>1, <1>2, <1>4, <1>6 DEF Same
<1>8. ASSUME len < e.n
      PROVE  /\ ~Same(e.D, c, e.p, len + 1)
             /\ B[b - (e.p - c) + len] < B[b + len] => Below(e.D, c, e.p, e.n)
             /\ ~(B[b - (e.p - c) + len] < B[b + len]) => Below(e.D, e.p, c, e.n)
  <2>1. len \in 0 .. e.n - 1 /\ len \in Nat
    BY <1>1, <1>2, <1>4, <1>8
  <2>2. /\ B[b + len] = e.D[e.p + len] /\ B[(b + len) - (e.p - c)] = e.D[c + len]
        /\ (b + len) - (e.p - c) = b - (e.p - c) + len
    BY <1>1, <1>5, <2>1
  <2>3. e.D[c + len] # e.D[e.p + len]
    <3>1. j < b + e.n
      BY <1>1, <1>4, <1>8, <2>1
    <3> QED BY <3>1, <1>3, <1>4, <2>2
  <2>4. e.D[c + len] \in Int /\ e.D[e.p + len] \in Int
    BY <1>1, <2>1 DEF Texts
  <2>5. Same(e.D, e.p, c, len)
    BY <1>7 DEF Same
  <2>6. ~Same(e.D, c, e.p, len + 1)
    <3>1. len \in 0 .. len + 1 - 1
      BY <2>1
    <3> QED BY <3>1, <2>3 DEF Same
  <2>7. e.D[c + len] < e.D[e.p + len] => Below(e.D, c, e.p, e.n)
    BY <1>7, <2>1 DEF Below
  <2>8. e.D[e.p + len] < e.D[c + len] => Below(e.D, e.p, c, e.n)
    BY <2>5, <2>1 DEF Below
  <2>9. e.D[c + len] < e.D[e.p + len] \/ e.D[e.p + len] < e.D[c + len]
    BY <2>3, <2>4
  <2> QED BY <2>2, <2>6, <2>7, <2>8, <2>9
<1> QED BY <1>4, <1>7, <1>8 DEF len, j

(***************************************************************************)
(* The matches found.                                                      *)
(***************************************************************************)
Hit(e, r) == r[1] \in 1 .. e.n /\ e.p - (r[2] + 1) \in e.H /\ Same(e.D, e.p - (r[2] + 1), e.p, r[1])

Grows(recs) == \A j \in 2 .. Len(recs) : recs[j - 1][1] < recs[j][1] /\ recs[j - 1][2] < recs[j][2]

\* Matches longer than m, each longer and farther than the last.
Hits(e, m, recs) ==
    /\ recs \in Seq(Nat \X Nat) /\ Grows(recs)
    /\ \A j \in 1 .. Len(recs) : Hit(e, recs[j]) /\ recs[j][1] > m

\* Those of a search that has come to c.
Recorded(e, m, c, recs, maxLen) ==
    /\ Hits(e, m, recs) /\ maxLen \in 0 .. e.n /\ maxLen >= m
    /\ Len(recs) = 0 => maxLen = m
    /\ Len(recs) > 0 => recs[Len(recs)][1] = maxLen /\ (c \in e.H => c < e.p - (recs[Len(recs)][2] + 1))

\* A node met on the walk is recorded when it matches longer than all before it.
LEMMA RecordNode ==
    ASSUME NEW e, Env(e), NEW m \in Nat, NEW c \in e.H, NEW recs, NEW maxLen, Recorded(e, m, c, recs, maxLen),
           NEW len \in 0 .. e.n, Same(e.D, c, e.p, len), NEW d, d \in e.H => d < c
    PROVE  Recorded(e, m, d, IF len > maxLen THEN Append(recs, <<len, (e.p - c) - 1>>) ELSE recs, MaxOf(maxLen, len))
<1>1. /\ e.p \in Nat /\ e.n \in Nat /\ e.H \subseteq Nat /\ c \in Nat /\ c < e.p /\ len \in Nat
      /\ recs \in Seq(Nat \X Nat) /\ Len(recs) \in Nat /\ maxLen \in 0 .. e.n /\ maxLen >= m /\ maxLen \in Nat
  BY DEF Env, Recorded, Hits
<1>2. \A j \in 1 .. Len(recs) : recs[j] \in Nat \X Nat /\ recs[j][1] \in Nat /\ recs[j][2] \in Nat
  BY <1>1, SMTT(40)
<1>3. Len(recs) > 0 => Len(recs) \in 1 .. Len(recs)
  BY <1>1
<1>4. CASE ~(len > maxLen)
  <2>1. MaxOf(maxLen, len) = maxLen
    BY <1>1, <1>4 DEF MaxOf
  <2>2. Len(recs) > 0 => (d \in e.H => d < e.p - (recs[Len(recs)][2] + 1))
    <3> SUFFICES ASSUME Len(recs) > 0, d \in e.H PROVE d < e.p - (recs[Len(recs)][2] + 1)
      OBVIOUS
    <3>1. d \in Nat /\ d < c /\ c < e.p - (recs[Len(recs)][2] + 1) /\ recs[Len(recs)][2] \in Nat
      BY <1>1, <1>2, <1>3 DEF Recorded
    <3> QED BY <3>1, <1>1, SMTT(40)
  <2> QED BY <2>1, <2>2, <1>4 DEF Recorded
<1>5. CASE len > maxLen
  <2> DEFINE r == <<len, (e.p - c) - 1>>
             recs2 == Append(recs, r)
             k == Len(recs)
  <2>1. r \in Nat \X Nat /\ r[1] = len /\ r[2] = (e.p - c) - 1 /\ e.p - (r[2] + 1) = c
    BY <1>1
  <2>2. /\ recs2 \in Seq(Nat \X Nat) /\ Len(recs2) = k + 1 /\ recs2[k + 1] = r
        /\ \A j \in 1 .. k : recs2[j] = recs[j]
    BY <1>1, <2>1, SMTT(40)
  <2>3. MaxOf(maxLen, len) = len /\ len > m /\ len \in 1 .. e.n
    BY <1>1, <1>5 DEF MaxOf
  <2>4. Hit(e, r)
    BY <2>1, <2>3 DEF Hit
  <2> HIDE DEF r, recs2
  <2>5. \A j \in 1 .. Len(recs2) : Hit(e, recs2[j]) /\ recs2[j][1] > m
    <3>1. \A j \in 1 .. k : Hit(e, recs[j]) /\ recs[j][1] > m
      BY DEF Recorded, Hits
    <3>2. \A j \in 1 .. k + 1 : j = k + 1 \/ j \in 1 .. k
      <4>1. k \in Nat
        BY <1>1
      <4> HIDE DEF k
      <4> QED BY <4>1
    <3> QED BY <3>1, <3>2, <2>1, <2>2, <2>3, <2>4
  <2>6. Grows(recs2)
    <3> SUFFICES ASSUME NEW j \in 2 .. k + 1 PROVE recs2[j - 1][1] < recs2[j][1] /\ recs2[j - 1][2] < recs2[j][2]
      BY <2>2 DEF Grows
    <3>1. CASE j \in 2 .. k
      <4>1. j - 1 \in 1 .. k /\ j \in 1 .. k
        BY <1>1, <3>1
      <4>2. recs2[j - 1] = recs[j - 1] /\ recs2[j] = recs[j]
        BY <4>1, <2>2
      <4>3. recs[j - 1][1] < recs[j][1] /\ recs[j - 1][2] < recs[j][2]
        BY <3>1 DEF Recorded, Hits, Grows
      <4> QED BY <4>2, <4>3
    <3>2. CASE j = k + 1
      <4>1. k > 0 /\ j - 1 = k /\ k \in 1 .. k
        BY <1>1, <3>2
      <4>2. recs2[j - 1] = recs[k] /\ recs2[j] = r
        BY <4>1, <3>2, <2>2
      <4>3. recs[k][1] = maxLen /\ c < e.p - (recs[k][2] + 1) /\ recs[k][2] \in Nat
        BY <4>1, <1>2 DEF Recorded
      <4>4. recs[k][2] < (e.p - c) - 1
        <5> DEFINE z == recs[k][2]
                   y == e.p
        <5>1. z \in Nat /\ y \in Nat /\ c \in Nat /\ c < y - (z + 1)
          BY <4>3, <1>1
        <5> HIDE DEF z, y
        <5>2. z < (y - c) - 1
          BY <5>1
        <5> QED BY <5>2 DEF z, y
      <4> QED BY <4>2, <4>3, <4>4, <2>1, <1>5
    <3> QED BY <3>1, <3>2, <1>1
  <2>7. Hits(e, m, recs2)
    BY <2>2, <2>5, <2>6 DEF Hits
  <2>8. Recorded(e, m, d, recs2, len)
    <3>1. Len(recs2) > 0 /\ recs2[Len(recs2)] = r
      BY <1>1, <2>2
    <3> QED BY <3>1, <2>1, <2>3, <2>7, <1>1 DEF Recorded
  <2> QED BY <2>8, <2>3, <1>5 DEF recs2, r
<1> QED BY <1>4, <1>5

Fields == {"son", "p0", "p1", "len0", "len1", "cm", "maxLen", "recs", "full"}

PlaceOf(w, s) == IF s = 0 THEN w.p0 ELSE w.p1

LenOf(w, s) == IF s = 0 THEN w.len0 ELSE w.len1

\* What is kept of the roots and of the new position is as in KK.
SameKept(e, R, K, KK) == \A x \in R \cup {e.p} : K[x] = KK[x]

\* The walk w stands in the tree as one does that has come to c.
Standing(q, cp, e, N, R, KK, w, c) ==
    \E I, K, O, L :
      /\ Walk(e, N, Children(w.son, q, e.p, cp), I, K, R, O, L, c)
      /\ \A s \in Sides : PlaceOf(w, s) = Place(cp, e.p, Spot(e, O, s)) /\ LenOf(w, s) = L[s]
      /\ SameKept(e, R, K, KK)
      /\ e.F => Sought(e, K, c, w.maxLen)

\* The walk w in the tree N of the history, whose roots are R, with i nodes behind it.
Stands(q, cp, e, N, R, KK, m, w, i) ==
    LET c == Seen(q, e.p, w.cm)
    IN  /\ Fields \subseteq DOMAIN w /\ w.son \in Sons(q) /\ w.cm \in 0 .. q - 1 /\ w.full = FALSE
        /\ Recorded(e, m, c, w.recs, w.maxLen)
        /\ c \in e.H => i < e.p - c
        /\ Standing(q, cp, e, N, R, KK, w, c)

\* The walk w has met a node that equals the new position.
Filled(q, cp, e, R, KK, m, w) ==
    /\ Fields \subseteq DOMAIN w /\ w.son \in Sons(q) /\ w.full = TRUE
    /\ Recorded(e, m, -1, w.recs, w.maxLen) /\ w.maxLen = e.n
    /\ \E M, I, K : Tree(After(e), M, Children(w.son, q, e.p, cp), I, K, R \cup {e.p}) /\ SameKept(e, R, K, KK)

\* w2 is what becomes of w when its node c, which agrees on len bytes, goes to the side s.
Descends(cp, e, w, c, s, len, w2) ==
    /\ Fields \subseteq DOMAIN w2 /\ w2.full = FALSE
    /\ w2.son = [w.son EXCEPT ![PlaceOf(w, s)] = w.cm]
    /\ w2.cm = w.son[Place(cp, e.p, <<c, s>>)] /\ w2.maxLen = MaxOf(w.maxLen, len)
    /\ w2.recs = IF len > w.maxLen THEN Append(w.recs, <<len, (e.p - c) - 1>>) ELSE w.recs
    /\ PlaceOf(w2, s) = Place(cp, e.p, <<c, s>>) /\ PlaceOf(w2, 1 - s) = PlaceOf(w, 1 - s)
    /\ LenOf(w2, s) = len /\ LenOf(w2, 1 - s) = LenOf(w, 1 - s)

\* WalkPlaces, for a node of the history.
LEMMA NodePlaces ==
    ASSUME NEW e, NEW N, NEW Ch, NEW I, NEW K, NEW R, NEW O, NEW L, NEW c, Env(e), Walk(e, N, Ch, I, K, R, O, L, c), c \in e.H
    PROVE  /\ \A t \in Sides : Spot(e, O, t) \in (N \cup {e.p}) \X Sides
           /\ \A t \in Sides : <<c, t>> \in Settled(e, N, O)
<1>1. \A t \in Sides : /\ O[t] \in N \cup {e.p} /\ O[t] \in Nat /\ Waits(e, O, t) \in Sides
                        /\ Spot(e, O, t) \in (N \cup {e.p}) \X Sides
  BY WalkPlaces, Zenon
<1>2. /\ c \in N /\ c \in Nat /\ c # e.p
      /\ \A t \in Sides : c # O[t] /\ c < O[t]
      /\ \A t \in Sides : <<c, t>> \in Settled(e, N, O)
  BY WalkPlaces, Zenon
<1> QED BY <1>1, <1>2

\* The node at hand goes to the side s.
LEMMA GoesTo ==
    ASSUME NEW B, NEW b, NEW q, NEW cp, NEW e, Setting(B, b, q, cp, e), NEW N, NEW R, NEW KK, NEW m \in Nat, NEW w, NEW i \in Nat,
           Stands(q, cp, e, N, R, KK, m, w, i), NEW c, c = Seen(q, e.p, w.cm), c \in e.H,
           NEW s \in Sides, NEW len \in 0 .. e.n - 1, Same(e.D, c, e.p, len), ~Same(e.D, c, e.p, len + 1),
           Strict(e.D, 1 - s, c, e.p, e.n),
           NEW w2, Descends(cp, e, w, c, s, len, w2)
    PROVE  Stands(q, cp, e, N, R, KK, m, w2, i + 1)
<1> DEFINE Ch == Children(w.son, q, e.p, cp)
           d == Seen(q, e.p, w2.cm)
<1>0. Standing(q, cp, e, N, R, KK, w, c)
  BY DEF Stands
<1>1. PICK I, K, O, L :
             /\ Walk(e, N, Ch, I, K, R, O, L, c)
             /\ \A t \in Sides : PlaceOf(w, t) = Place(cp, e.p, Spot(e, O, t)) /\ LenOf(w, t) = L[t]
             /\ SameKept(e, R, K, KK)
             /\ e.F => Sought(e, K, c, w.maxLen)
  BY <1>0, Zenon DEF Standing
<1>2. /\ w.son \in Sons(q) /\ w.cm \in 0 .. q - 1 /\ Recorded(e, m, c, w.recs, w.maxLen) /\ i < e.p - c
  BY Zenon DEF Stands
<1>3. Env(e) /\ e.H = Hist(e.p) /\ Steady(q, e.p) /\ cp \in Slots /\ e.p \in Nat /\ e.n \in Nat
  BY DEF Setting, Env
<1>4. /\ Ch \in [Nat \X Sides -> e.H \cup {-1}]
      /\ \A a \in Places(e.p) : Ch[a] = Seen(q, e.p, w.son[Place(cp, e.p, a)]) /\ w.son[Place(cp, e.p, a)] \in 0 .. q - 1
      /\ \A a \in Places(e.p), v \in 0 .. q - 1 :
                /\ [w.son EXCEPT ![Place(cp, e.p, a)] = v] \in Sons(q)
                /\ Children([w.son EXCEPT ![Place(cp, e.p, a)] = v], q, e.p, cp) = [Ch EXCEPT ![a] = Seen(q, e.p, v)]
  <2>1. Children(w.son, q, e.p, cp) \in [Nat \X Sides -> e.H \cup {-1}]
    BY <1>2, <1>3, ChildrenFacts
  <2>2. /\ w.son \in Sons(q) /\ Steady(q, e.p) /\ cp \in Slots
    BY <1>2, <1>3
  <2>3. \A a \in Places(e.p) : Ch[a] = Seen(q, e.p, w.son[Place(cp, e.p, a)]) /\ w.son[Place(cp, e.p, a)] \in 0 .. q - 1
    BY <2>2, ChildrenFacts, Zenon
  <2>4. \A a \in Places(e.p), v \in 0 .. q - 1 :
                /\ [w.son EXCEPT ![Place(cp, e.p, a)] = v] \in Sons(q)
                /\ Children([w.son EXCEPT ![Place(cp, e.p, a)] = v], q, e.p, cp) = [Ch EXCEPT ![a] = Seen(q, e.p, v)]
    BY <2>2, ChildrenFacts
  <2> QED BY <2>1, <2>3, <2>4, Zenon
<1> HIDE DEF Ch, d
<1>a. Env(e) /\ Walk(e, N, Ch, I, K, R, O, L, c)
  BY <1>1, <1>3
<1>5. /\ \A t \in Sides : Spot(e, O, t) \in (N \cup {e.p}) \X Sides
      /\ N \subseteq e.H /\ c \in Nat /\ c < e.p /\ e.H \subseteq Nat
      /\ \A t \in Sides : <<c, t>> \in Settled(e, N, O)
  <2>1. /\ \A t \in Sides : Spot(e, O, t) \in (N \cup {e.p}) \X Sides
        /\ \A t \in Sides : <<c, t>> \in Settled(e, N, O)
    BY <1>a, NodePlaces
  <2>2. N \subseteq e.H
    BY <1>1 DEF Walk, Shapes
  <2>3. c \in Nat /\ c < e.p /\ e.H \subseteq Nat
    BY <1>3 DEF Hist
  <2> QED BY <2>1, <2>2, <2>3
<1>6. Spot(e, O, s) \in Places(e.p) /\ <<c, s>> \in Places(e.p)
  BY <1>3, <1>5 DEF Places
<1>7. /\ w2.son \in Sons(q) /\ Children(w2.son, q, e.p, cp) = [Ch EXCEPT ![Spot(e, O, s)] = c]
  <2>1. PlaceOf(w, s) = Place(cp, e.p, Spot(e, O, s))
    BY <1>1
  <2>2. w2.son = [w.son EXCEPT ![Place(cp, e.p, Spot(e, O, s))] = w.cm] /\ w.cm \in 0 .. q - 1
    BY <2>1, <1>2 DEF Descends
  <2> DEFINE a == Spot(e, O, s)
             v == w.cm
  <2>3. a \in Places(e.p) /\ v \in 0 .. q - 1
    BY <2>2, <1>6
  <2>4. /\ [w.son EXCEPT ![Place(cp, e.p, a)] = v] \in Sons(q)
        /\ Children([w.son EXCEPT ![Place(cp, e.p, a)] = v], q, e.p, cp) = [Ch EXCEPT ![a] = Seen(q, e.p, v)]
    <3> HIDE DEF a, v
    <3> QED BY <2>3, <1>4, Zenon
  <2>5. Seen(q, e.p, v) = c
    OBVIOUS
  <2> QED BY <2>2, <2>4, <2>5
<1>8. w2.cm \in 0 .. q - 1 /\ d = Ch[<<c, s>>]
  BY <1>4, <1>6 DEF d, Descends
<1> DEFINE I2 == Kept(I, c, BySide(e, 1 - s))
           K2 == Kept(K, c, StrictlyBy(e, 1 - s))
           O2 == [O EXCEPT ![s] = c]
           L2 == [L EXCEPT ![s] = len]
<1>9. len \in 0 .. e.n
  BY <1>3
<1>10. Walk(e, N, Children(w2.son, q, e.p, cp), I2, K2, R, O2, L2, d)
  <2>1. Walk(e, N, [Ch EXCEPT ![Spot(e, O, s)] = c], I2, K2, R, O2, L2, Ch[<<c, s>>])
    BY <1>1, <1>3, <1>9, WalkGoesOn
  <2> QED BY <2>1, <1>7, <1>8
<1>11. K \in [Nat -> SUBSET Nat] /\ O \in [Sides -> Nat] /\ L \in [Sides -> Nat] /\ c \notin R /\ R \subseteq N
       /\ Side(e, N, Ch, I, K, c, s)
  <2>1. K \in [Nat -> SUBSET Nat] /\ O \in [Sides -> Nat] /\ L \in [Sides -> Nat] /\ c \notin R /\ R \subseteq N
        /\ c \in N /\ \A x \in N \cup {e.p} : \A t \in Sides : <<x, t>> \in Settled(e, N, O) => Side(e, N, Ch, I, K, x, t)
    BY <1>1 DEF Walk, Shapes
  <2> QED BY <2>1, <1>5
<1>12. d \in e.H => d < c /\ d \in Nat
  BY <1>5, <1>8, <1>11 DEF Side
<1>13. SameKept(e, R, K2, KK)
  <2>1. \A x \in Nat : x # c => K2[x] = K[x]
    BY <1>11 DEF Kept
  <2>2. \A x \in R \cup {e.p} : x \in Nat /\ x # c
    BY <1>3, <1>5, <1>11
  <2> HIDE DEF K2
  <2> QED BY <2>1, <2>2, <1>1 DEF SameKept
<1>14. \A t \in Sides : PlaceOf(w2, t) = Place(cp, e.p, Spot(e, O2, t)) /\ LenOf(w2, t) = L2[t]
  <2>1. O2[s] = c /\ L2[s] = len /\ O2[1 - s] = O[1 - s] /\ L2[1 - s] = L[1 - s] /\ 1 - s \in Sides
    BY <1>11 DEF Sides
  <2> HIDE DEF O2, L2
  <2>2. Waits(e, O2, s) = s
    BY <2>1, <1>5, <1>3 DEF Waits
  <2>3. Spot(e, O2, s) = <<c, s>> /\ Spot(e, O2, 1 - s) = Spot(e, O, 1 - s)
    BY <2>1, <2>2 DEF Spot, Waits
  <2>4. \A t \in Sides : t = s \/ t = 1 - s
    BY DEF Sides
  <2>5. PlaceOf(w, 1 - s) = Place(cp, e.p, Spot(e, O, 1 - s)) /\ LenOf(w, 1 - s) = L[1 - s]
    BY <2>1, <1>1
  <2>6. PlaceOf(w2, s) = Place(cp, e.p, Spot(e, O2, s)) /\ LenOf(w2, s) = L2[s]
    BY <2>1, <2>3 DEF Descends
  <2>7. PlaceOf(w2, 1 - s) = Place(cp, e.p, Spot(e, O2, 1 - s)) /\ LenOf(w2, 1 - s) = L2[1 - s]
    BY <2>1, <2>3, <2>5 DEF Descends
  <2> QED BY <2>4, <2>6, <2>7
<1>15. e.F => Sought(e, K2, d, w2.maxLen)
  <2> SUFFICES ASSUME e.F PROVE Sought(e, K2, d, w2.maxLen)
    OBVIOUS
  <2>1. w.maxLen \in Nat
    BY <1>2 DEF Recorded
  <2>2. Sought(e, K2, Ch[<<c, s>>], MaxOf(w.maxLen, len))
    BY <2>1, <1>1, <1>3, SoughtGoesOn
  <2> QED BY <2>2, <1>8 DEF Descends
<1>16. Recorded(e, m, d, w2.recs, w2.maxLen)
  BY <1>2, <1>3, <1>9, <1>12, RecordNode DEF Descends
<1>17. d \in e.H => i + 1 < e.p - d
  BY <1>2, <1>3, <1>5, <1>12
<1> HIDE DEF I2, K2, O2, L2
<1>18. Standing(q, cp, e, N, R, KK, w2, d)
  BY <1>10, <1>13, <1>14, <1>15, Zenon DEF Standing
<1> QED BY <1>7, <1>8, <1>16, <1>17, <1>18, Zenon DEF Stands, d, Descends

\* A place gets a child.
LEMMA OneChild ==
    ASSUME NEW q, NEW p, Steady(q, p), NEW cp \in Slots, NEW son \in Sons(q), NEW a \in Places(p), NEW v \in 0 .. q - 1
    PROVE  /\ [son EXCEPT ![Place(cp, p, a)] = v] \in Sons(q)
           /\ Children([son EXCEPT ![Place(cp, p, a)] = v], q, p, cp) = [Children(son, q, p, cp) EXCEPT ![a] = Seen(q, p, v)]
<1>1. \A x \in Places(p), v2 \in 0 .. q - 1 :
                /\ [son EXCEPT ![Place(cp, p, x)] = v2] \in Sons(q)
                /\ Children([son EXCEPT ![Place(cp, p, x)] = v2], q, p, cp) = [Children(son, q, p, cp) EXCEPT ![x] = Seen(q, p, v2)]
  BY ChildrenFacts
<1> QED BY <1>1, Zenon

\* Two places get a child each.
LEMMA TwoChildren ==
    ASSUME NEW q, NEW p, Steady(q, p), NEW cp \in Slots, NEW son \in Sons(q), NEW a \in Places(p), NEW v \in 0 .. q - 1,
           NEW b \in Places(p), NEW u \in 0 .. q - 1
    PROVE  /\ [son EXCEPT ![Place(cp, p, a)] = v, ![Place(cp, p, b)] = u] \in Sons(q)
           /\ Children([son EXCEPT ![Place(cp, p, a)] = v, ![Place(cp, p, b)] = u], q, p, cp)
                = [Children(son, q, p, cp) EXCEPT ![a] = Seen(q, p, v), ![b] = Seen(q, p, u)]
<1> DEFINE s1 == [son EXCEPT ![Place(cp, p, a)] = v]
           s2 == [s1 EXCEPT ![Place(cp, p, b)] = u]
<1>1. s1 \in Sons(q) /\ Children(s1, q, p, cp) = [Children(son, q, p, cp) EXCEPT ![a] = Seen(q, p, v)]
  BY ChildrenFacts
<1> HIDE DEF s1
<1>2. s2 \in Sons(q) /\ Children(s2, q, p, cp) = [Children(s1, q, p, cp) EXCEPT ![b] = Seen(q, p, u)]
  <2>1. ASSUME NEW f \in Sons(q)
        PROVE  /\ [f EXCEPT ![Place(cp, p, b)] = u] \in Sons(q)
               /\ Children([f EXCEPT ![Place(cp, p, b)] = u], q, p, cp) = [Children(f, q, p, cp) EXCEPT ![b] = Seen(q, p, u)]
    BY OneChild
  <2> QED BY <1>1, <2>1, Zenon
<1>3. s2 = [son EXCEPT ![Place(cp, p, a)] = v, ![Place(cp, p, b)] = u]
  BY DEF s1
<1> HIDE DEF s2
<1> QED BY <1>1, <1>2, <1>3

\* A node more: the walk is full, or stands a node further.
LEMMA NodeStep ==
    ASSUME NEW B, NEW b, NEW q, NEW cp, NEW e, Setting(B, b, q, cp, e), NEW N, NEW R, NEW KK, NEW m \in Nat, NEW w, NEW i \in Nat,
           Stands(q, cp, e, N, R, KK, m, w, i), InHistory(w.cm, q, Cyclic)
    PROVE  LET w2 == WalkNode(w, B, b, q, cp, Cyclic, e.n)
           IN  Filled(q, cp, e, R, KK, m, w2) \/ Stands(q, cp, e, N, R, KK, m, w2, i + 1)
<1> DEFINE c == Seen(q, e.p, w.cm)
           Ch == Children(w.son, q, e.p, cp)
           w2 == WalkNode(w, B, b, q, cp, Cyclic, e.n)
<1>1. /\ Fields \subseteq DOMAIN w /\ w.son \in Sons(q) /\ w.cm \in 0 .. q - 1 /\ w.full = FALSE
      /\ Recorded(e, m, c, w.recs, w.maxLen) /\ Standing(q, cp, e, N, R, KK, w, c)
  BY Zenon DEF Stands
<1>2. Env(e) /\ e.H = Hist(e.p) /\ Steady(q, e.p) /\ cp \in Slots /\ e.p \in Nat /\ e.n \in Nat /\ q \in Nat
  BY DEF Setting, Env, Steady
<1>3. c \in e.H /\ e.p - c = q - w.cm /\ c \in Nat /\ -1 \notin e.H
  <2>1. w.cm \in Nat /\ w.cm < q
    BY <1>1, <1>2
  <2>2. c \in Hist(e.p)
    BY <2>1, <1>2, SeenFacts
  <2> QED BY <2>1, <2>2, <1>2, SeenFacts DEF Hist
<1> HIDE DEF c
<1>4. PICK I, K, O, L :
             /\ Walk(e, N, Ch, I, K, R, O, L, c)
             /\ \A t \in Sides : PlaceOf(w, t) = Place(cp, e.p, Spot(e, O, t)) /\ LenOf(w, t) = L[t]
             /\ SameKept(e, R, K, KK)
             /\ e.F => Sought(e, K, c, w.maxLen)
  BY <1>1, Zenon DEF Standing
<1> DEFINE pair == 2 * CyclicBack(cp, q - w.cm, Cyclic)
<1>5. /\ pair = Place(cp, e.p, <<c, 0>>) /\ pair + 1 = Place(cp, e.p, <<c, 1>>)
      /\ <<c, 0>> \in Places(e.p) /\ <<c, 1>> \in Places(e.p)
  <2>1. <<c, 0>> \in Places(e.p) /\ <<c, 1>> \in Places(e.p)
    BY <1>2, <1>3 DEF Places, Sides
  <2>2. CyclicBack(cp, q - w.cm, Cyclic) \in Slots /\ e.p - c = q - w.cm
    BY <1>2, <1>3, SlotFacts
  <2>3. CyclicBack(cp, q - w.cm, Cyclic) \in Nat
    BY <2>2, Sizes DEF Slots
  <2>4. Place(cp, e.p, <<c, 0>>) = 2 * CyclicBack(cp, q - w.cm, Cyclic) + 0 /\ Place(cp, e.p, <<c, 1>>) = 2 * CyclicBack(cp, q - w.cm, Cyclic) + 1
    BY <2>2 DEF Place
  <2> QED BY <2>1, <2>3, <2>4
<1>6. w.p0 = Place(cp, e.p, Spot(e, O, 0)) /\ w.p1 = Place(cp, e.p, Spot(e, O, 1)) /\ w.len0 = L[0] /\ w.len1 = L[1]
  <2>1. 0 \in Sides /\ 1 \in Sides
    BY DEF Sides
  <2>2. /\ PlaceOf(w, 0) = Place(cp, e.p, Spot(e, O, 0)) /\ PlaceOf(w, 1) = Place(cp, e.p, Spot(e, O, 1))
        /\ LenOf(w, 0) = L[0] /\ LenOf(w, 1) = L[1]
    BY <1>4, <2>1
  <2> QED BY <2>2 DEF PlaceOf, LenOf
<1> DEFINE known == MinOf(w.len0, w.len1)
           len == MatchRun(B, q - w.cm, b + known, b + e.n) - b
           recs == IF len > w.maxLen THEN Append(w.recs, <<len, (q - w.cm) - 1>>) ELSE w.recs
<1>7. Same(e.D, c, e.p, known) /\ known \in 0 .. e.n
  BY <1>2, <1>3, <1>4, <1>6, KnownToAgree
<1> HIDE DEF known
<1>8. /\ len \in known .. e.n /\ Same(e.D, c, e.p, len)
      /\ len < e.n => /\ ~Same(e.D, c, e.p, len + 1)
                      /\ B[b - (q - w.cm) + len] < B[b + len] => Below(e.D, c, e.p, e.n)
                      /\ ~(B[b - (q - w.cm) + len] < B[b + len]) => Below(e.D, e.p, c, e.n)
  BY <1>3, <1>7, AgreesHere
<1>9. w2 = IF len = e.n
           THEN [w EXCEPT !.recs = recs, !.maxLen = len, !.full = TRUE,
                    !.son = [w.son EXCEPT ![w.p1] = w.son[pair], ![w.p0] = w.son[pair + 1]]]
           ELSE IF B[b - (q - w.cm) + len] < B[b + len]
           THEN [w EXCEPT !.recs = recs, !.maxLen = MaxOf(@, len), !.son = [w.son EXCEPT ![w.p1] = w.cm],
                    !.cm = w.son[pair + 1], !.p1 = pair + 1, !.len1 = len]
           ELSE [w EXCEPT !.recs = recs, !.maxLen = MaxOf(@, len), !.son = [w.son EXCEPT ![w.p0] = w.cm],
                    !.cm = w.son[pair], !.p0 = pair, !.len0 = len]
  BY DEF WalkNode, known
<1> HIDE DEF w2, len, pair
<1>10. len \in 0 .. e.n /\ len \in Nat /\ w.maxLen \in 0 .. e.n
  BY <1>1, <1>2, <1>7, <1>8 DEF Recorded
<1>11. recs = IF len > w.maxLen THEN Append(w.recs, <<len, (e.p - c) - 1>>) ELSE w.recs
  BY <1>3
<1> HIDE DEF recs
<1>12. CASE len = e.n
  <2> DEFINE son2 == [w.son EXCEPT ![w.p1] = w.son[pair], ![w.p0] = w.son[pair + 1]]
  <2>1. Fields \subseteq DOMAIN w2 /\ w2.recs = recs /\ w2.maxLen = e.n /\ w2.full = TRUE /\ w2.son = son2
    BY <1>1, <1>9, <1>12 DEF Fields
  <2> HIDE DEF son2
  <2>2. /\ Spot(e, O, 0) \in Places(e.p) /\ Spot(e, O, 1) \in Places(e.p)
    <3>1. \A t \in Sides : Spot(e, O, t) \in (N \cup {e.p}) \X Sides
      BY <1>2, <1>3, <1>4, NodePlaces
    <3>2. N \subseteq e.H
      BY <1>4 DEF Walk, Shapes
    <3> QED BY <3>1, <3>2, <1>2 DEF Places, Sides
  <2>3. /\ Ch[<<c, 0>>] = Seen(q, e.p, w.son[pair]) /\ w.son[pair] \in 0 .. q - 1
        /\ Ch[<<c, 1>>] = Seen(q, e.p, w.son[pair + 1]) /\ w.son[pair + 1] \in 0 .. q - 1
    BY <1>1, <1>2, <1>5, ChildrenFacts
  <2>4. son2 \in Sons(q) /\ Children(son2, q, e.p, cp) = Replaced(e, Ch, O, c)
    <3> DEFINE u == w.son[pair]
               v == w.son[pair + 1]
               son == w.son
               i0 == w.p0
               i1 == w.p1
    <3>1. /\ son \in Sons(q) /\ u \in 0 .. q - 1 /\ v \in 0 .. q - 1 /\ i0 = Place(cp, e.p, Spot(e, O, 0)) /\ i1 = Place(cp, e.p, Spot(e, O, 1))
          /\ son2 = [son EXCEPT ![i1] = u, ![i0] = v]
      BY <1>1, <1>6, <2>3 DEF son2
    <3>2. Replaced(e, Ch, O, c) = [Ch EXCEPT ![Spot(e, O, 1)] = Seen(q, e.p, u), ![Spot(e, O, 0)] = Seen(q, e.p, v)]
      BY <2>3 DEF Replaced
    <3>3. Ch = Children(son, q, e.p, cp)
      OBVIOUS
    <3> HIDE DEF u, v, son, i0, i1, Ch
    <3> DEFINE a == Spot(e, O, 1)
               z == Spot(e, O, 0)
               p == e.p
    <3>a. a \in Places(p) /\ z \in Places(p) /\ Steady(q, p)
      BY <2>2, <1>2
    <3>b. i1 = Place(cp, p, a) /\ i0 = Place(cp, p, z)
      BY <3>1
    <3> HIDE DEF a, z, p
    <3>4. /\ [son EXCEPT ![Place(cp, p, a)] = u, ![Place(cp, p, z)] = v] \in Sons(q)
          /\ Children([son EXCEPT ![Place(cp, p, a)] = u, ![Place(cp, p, z)] = v], q, p, cp)
                = [Children(son, q, p, cp) EXCEPT ![a] = Seen(q, p, u), ![z] = Seen(q, p, v)]
      <4>1. son \in Sons(q) /\ u \in 0 .. q - 1 /\ v \in 0 .. q - 1 /\ cp \in Slots
        BY <3>1, <1>2
      <4> QED BY <4>1, <3>a, TwoChildren
    <3>5. /\ [son EXCEPT ![i1] = u, ![i0] = v] \in Sons(q)
          /\ Children([son EXCEPT ![i1] = u, ![i0] = v], q, p, cp)
                = [Children(son, q, p, cp) EXCEPT ![a] = Seen(q, p, u), ![z] = Seen(q, p, v)]
      BY <3>4, <3>b, Zenon
    <3> QED BY <3>1, <3>2, <3>3, <3>5 DEF a, z, p
  <2>5. Tree(After(e), (N \ {c}) \cup {e.p}, Children(son2, q, e.p, cp), I, K, R \cup {e.p})
    <3>1. Same(e.D, c, e.p, e.n)
      BY <1>8, <1>12
    <3> HIDE DEF Ch
    <3> QED BY <3>1, <2>4, <1>2, <1>3, <1>4, WalkIsFull
  <2>6. Recorded(e, m, -1, recs, e.n)
    <3>1. MaxOf(w.maxLen, len) = e.n
      BY <1>2, <1>10, <1>12 DEF MaxOf
    <3>2. Recorded(e, m, -1, IF len > w.maxLen THEN Append(w.recs, <<len, (e.p - c) - 1>>) ELSE w.recs, MaxOf(w.maxLen, len))
      BY <1>1, <1>2, <1>3, <1>8, <1>10, RecordNode
    <3> QED BY <3>1, <3>2, <1>11
  <2>7. \E M, I3, K3 : Tree(After(e), M, Children(w2.son, q, e.p, cp), I3, K3, R \cup {e.p}) /\ SameKept(e, R, K3, KK)
    BY <2>1, <2>5, <1>4
  <2>8. Filled(q, cp, e, R, KK, m, w2)
    BY <2>1, <2>4, <2>6, <2>7, Zenon DEF Filled
  <2> QED BY <2>8 DEF w2
<1>13. ASSUME len # e.n, NEW s \in Sides, Strict(e.D, 1 - s, c, e.p, e.n), Descends(cp, e, w, c, s, len, w2)
       PROVE  Stands(q, cp, e, N, R, KK, m, w2, i + 1)
  <2>1. len \in 0 .. e.n - 1 /\ ~Same(e.D, c, e.p, len + 1)
    BY <1>2, <1>8, <1>10, <1>13
  <2> QED BY <2>1, <1>3, <1>8, <1>13, GoesTo DEF c
<1>14. 0 \in Sides /\ 1 \in Sides /\ 1 - 1 = 0 /\ 1 - 0 = 1
  BY DEF Sides
<1>15. CASE len # e.n /\ B[b - (q - w.cm) + len] < B[b + len]
  <2>1. Strict(e.D, 1 - 1, c, e.p, e.n)
    BY <1>8, <1>2, <1>10, <1>15 DEF Strict
  <2>2. Descends(cp, e, w, c, 1, len, w2)
    BY <1>1, <1>5, <1>9, <1>11, <1>15 DEF Descends, Fields, PlaceOf, LenOf
  <2> QED BY <2>1, <2>2, <1>13, <1>14, <1>15 DEF w2
<1>16. CASE len # e.n /\ ~(B[b - (q - w.cm) + len] < B[b + len])
  <2>1. Strict(e.D, 1 - 0, c, e.p, e.n)
    BY <1>8, <1>2, <1>10, <1>16 DEF Strict
  <2>2. Descends(cp, e, w, c, 0, len, w2)
    BY <1>1, <1>5, <1>9, <1>11, <1>16 DEF Descends, Fields, PlaceOf, LenOf
  <2> QED BY <2>1, <2>2, <1>13, <1>14, <1>16 DEF w2
<1> QED BY <1>12, <1>15, <1>16

\* What is true of a number and false of another one has a first number where it is false.
LEMMA FirstBad ==
    ASSUME NEW S, S \subseteq Nat, S # {}
    PROVE  \E k \in S : \A j \in S : ~(j < k)
<1>1. PICK k \in S : \A j \in S : <<j, k>> \notin OpToRel(<, Nat)
  BY WFMin, NatLessThanWellFounded, Zenon
<1>2. \A j \in S : ~(j < k)
  <2> SUFFICES ASSUME NEW j \in S, j < k PROVE FALSE
    OBVIOUS
  <2>1. j \in Nat /\ k \in Nat
    OBVIOUS
  <2> QED BY <1>1, <2>1 DEF OpToRel
<1> QED BY <1>2

\* The walk of a tree ends with a tree whose root is the new position, and has found the longest
\* of the matches that are kept under the head.
LEMMA TreeWalk ==
    ASSUME NEW B, NEW b, NEW q, NEW cp, NEW e, Setting(B, b, q, cp, e), e.F = (CutValue >= Cyclic),
           NEW son \in Sons(q), NEW head \in 0 .. q - 1, NEW N, NEW I, NEW K, NEW R,
           Tree(e, N, Children(son, q, e.p, cp), I, K, R), NEW c, c = Seen(q, e.p, head), c \in e.H => c \in R,
           NEW m \in 0 .. e.n
    PROVE  LET g == GetMatchesSpec1(B, b, q, cp, Cyclic, son, head, e.n, m, CutValue)
               KK == Looked(e, K, c)
           IN  /\ g.son \in Sons(q)
               /\ \E maxLen : /\ Recorded(e, m, -1, g.recs, maxLen)
                              /\ e.F => \A y \in KK[e.p] \cap e.H : maxLen >= e.n \/ ~Same(e.D, y, e.p, maxLen + 1)
               /\ \E M, I2, K2 : /\ Tree(After(e), M, Children(g.son, q, e.p, cp), I2, K2, (R \ {c}) \cup {e.p})
                                 /\ SameKept(e, R \ {c}, K2, KK)
<1> DEFINE KK == Looked(e, K, c)
           Ch == Children(son, q, e.p, cp)
           Step(r, i) == WalkStep(r, B, b, q, cp, Cyclic, e.n)
           base == [son |-> son, p0 |-> 2 * cp + 1, p1 |-> 2 * cp, len0 |-> 0, len1 |-> 0,
                    cm |-> head, maxLen |-> m, recs |-> <<>>, full |-> FALSE]
           Rec(f, n) == f = [i \in 0 .. n |-> IF i = 0 THEN base ELSE Step(f[i - 1], i)]
           x == CHOOSE f : Rec(f, CutValue)
           end == x[CutValue]
           Good(r, i) == Filled(q, cp, e, R \ {c}, KK, m, r) \/ Stands(q, cp, e, N, R \ {c}, KK, m, r, i)
           g == GetMatchesSpec1(B, b, q, cp, Cyclic, son, head, e.n, m, CutValue)
<1>1. /\ g.recs = end.recs
      /\ g.son = IF end.full THEN end.son ELSE [end.son EXCEPT ![end.p0] = Empty, ![end.p1] = Empty]
  BY DEF GetMatchesSpec1, Descent, WalkResult
<1>2. /\ Env(e) /\ e.H = Hist(e.p) /\ Steady(q, e.p) /\ cp \in Slots /\ e.p \in Nat /\ e.n \in Nat /\ q \in Nat /\ q > 0
      /\ m \in Nat /\ CutValue \in Nat
  <2>1. CutValue \in Nat
    BY FinderAssumption
  <2> QED BY <2>1 DEF Setting, Env, Steady
<1>3. c \in e.H \cup {-1}
  <2>1. head \in Nat /\ head < q
    BY <1>2
  <2> QED BY <2>1, <1>2, SeenFacts
<1>4. Good(base, 0)
  <2>1. Walk(e, N, Ch, Entered(e, I), KK, R \ {c}, Start(e), Zeros, c)
    <3> HIDE DEF Ch
    <3> QED BY <1>2, <1>3, WalkBegins DEF Ch
  <2>2. /\ Spot(e, Start(e), 0) = <<e.p, 1>> /\ Spot(e, Start(e), 1) = <<e.p, 0>> /\ Zeros[0] = 0 /\ Zeros[1] = 0
    BY DEF Spot, Start, Waits, Zeros, Sides
  <2>3. Place(cp, e.p, <<e.p, 0>>) = 2 * cp /\ Place(cp, e.p, <<e.p, 1>>) = 2 * cp + 1
    <3>1. <<e.p, 0>> \in Places(e.p)
      BY DEF Places, Sides
    <3> QED BY <3>1, <1>2, PlaceFacts
  <2>4. /\ base.son = son /\ base.p0 = 2 * cp + 1 /\ base.p1 = 2 * cp /\ base.len0 = 0 /\ base.len1 = 0
        /\ base.cm = head /\ base.maxLen = m /\ base.recs = <<>> /\ base.full = FALSE /\ Fields \subseteq DOMAIN base
    BY DEF Fields
  <2> HIDE DEF base
  <2>5. \A s \in Sides : PlaceOf(base, s) = Place(cp, e.p, Spot(e, Start(e), s)) /\ LenOf(base, s) = Zeros[s]
    BY <2>2, <2>3, <2>4 DEF PlaceOf, LenOf, Sides
  <2>6. SameKept(e, R \ {c}, KK, KK)
    BY DEF SameKept
  <2>7. Sought(e, KK, c, base.maxLen)
    <3>1. K \in [Nat -> SUBSET Nat]
      BY DEF Tree, Shapes
    <3> QED BY <3>1, <1>2, <1>3, SoughtBegins
  <2>8. Standing(q, cp, e, N, R \ {c}, KK, base, c)
    <3>1. Children(base.son, q, e.p, cp) = Ch
      BY <2>4
    <3> HIDE DEF Ch, KK
    <3> QED BY <2>1, <2>5, <2>6, <2>7, <3>1 DEF Standing
  <2>9. Recorded(e, m, c, base.recs, base.maxLen)
    <3>1. base.recs \in Seq(Nat \X Nat) /\ Len(base.recs) = 0
      BY <2>4
    <3> QED BY <3>1, <2>4, <1>2 DEF Recorded, Hits, Grows
  <2>10. c \in e.H => 0 < e.p - c
    <3> SUFFICES ASSUME c \in e.H PROVE 0 < e.p - c
      OBVIOUS
    <3>1. c \in Nat /\ c < e.p
      BY <1>2 DEF Hist
    <3> QED BY <3>1, <1>2
  <2>11. Seen(q, e.p, base.cm) = c
    BY <2>4
  <2> HIDE DEF KK
  <2>12. Stands(q, cp, e, N, R \ {c}, KK, m, base, 0)
    BY <2>4, <2>8, <2>9, <2>10, <2>11 DEF Stands
  <2> QED BY <2>12
<1>5. ASSUME NEW r, NEW i \in Nat, Good(r, i) PROVE Good(Step(r, i + 1), i + 1)
  <2> HIDE DEF KK
  <2>1. CASE r.full \/ ~InHistory(r.cm, q, Cyclic)
    <3>1. Step(r, i + 1) = r
      BY <2>1 DEF WalkStep
    <3>2. CASE Filled(q, cp, e, R \ {c}, KK, m, r)
      BY <3>1, <3>2
    <3>3. CASE Stands(q, cp, e, N, R \ {c}, KK, m, r, i)
      <4>1. ~InHistory(r.cm, q, Cyclic) /\ r.cm \in 0 .. q - 1
        BY <2>1, <3>3 DEF Stands
      <4>2. Seen(q, e.p, r.cm) \notin e.H
        <5>1. r.cm \in Nat /\ r.cm < q
          BY <4>1, <1>2
        <5> QED BY <5>1, <4>1, <1>2, SeenFacts
      <4>3. Stands(q, cp, e, N, R \ {c}, KK, m, r, i + 1)
        BY <3>3, <4>2 DEF Stands
      <4> QED BY <3>1, <4>3
    <3> QED BY <3>2, <3>3, <1>5
  <2>2. CASE ~r.full /\ InHistory(r.cm, q, Cyclic)
    <3>1. Step(r, i + 1) = WalkNode(r, B, b, q, cp, Cyclic, e.n)
      BY <2>2 DEF WalkStep
    <3>2. Stands(q, cp, e, N, R \ {c}, KK, m, r, i)
      BY <1>5, <2>2 DEF Filled
    <3> QED BY <3>1, <3>2, <2>2, <1>2, NodeStep
  <2> QED BY <2>1, <2>2
<1> HIDE DEF Step, base, Good, g
<1>6. ASSUME NEW n \in Nat PROVE \E f : Rec(f, n)
  <2> DEFINE Bad == {k \in Nat : ~(\E f : Rec(f, k))}
  <2>1. SUFFICES ASSUME Bad # {} PROVE FALSE
    OBVIOUS
  <2>2. PICK k \in Bad : \A j \in Bad : ~(j < k)
    BY <2>1, FirstBad
  <2>3. k # 0
    <3>1. Rec([i \in 0 .. 0 |-> base], 0)
      OBVIOUS
    <3> QED BY <3>1
  <2>4. PICK f : Rec(f, k - 1)
    <3>1. k - 1 \in Nat /\ k - 1 < k
      BY <2>3
    <3> QED BY <2>2, <3>1
  <2> DEFINE h == [i \in 0 .. k |-> IF i = k THEN Step(f[k - 1], k) ELSE f[i]]
  <2>5. \A i \in 0 .. k : h[i] = IF i = 0 THEN base ELSE Step(h[i - 1], i)
    <3> TAKE i \in 0 .. k
    <3>1. CASE i = k
      BY <3>1, <2>3
    <3>2. CASE i # k
      <4>1. i \in 0 .. k - 1 /\ h[i] = f[i]
        BY <3>2
      <4>2. f[i] = IF i = 0 THEN base ELSE Step(f[i - 1], i)
        BY <2>4, <4>1
      <4>3. i # 0 => i - 1 \in 0 .. k /\ i - 1 # k /\ h[i - 1] = f[i - 1]
        BY <3>2
      <4> QED BY <4>1, <4>2, <4>3
    <3> QED BY <3>1, <3>2
  <2>6. Rec(h, k)
    BY <2>5
  <2> QED BY <2>6
<1>7. Rec(x, CutValue)
  BY <1>2, <1>6, Zenon
<1>8. \A i \in 0 .. CutValue : Good(x[i], i)
  <2> DEFINE Bad == {k \in 0 .. CutValue : ~Good(x[k], k)}
  <2>1. SUFFICES ASSUME Bad # {} PROVE FALSE
    OBVIOUS
  <2>5. Bad \subseteq Nat
    OBVIOUS
  <2>2. PICK k \in Bad : \A j \in Bad : ~(j < k)
    BY <2>1, <2>5, FirstBad
  <2>3. CASE k = 0
    BY <1>4, <1>7, <2>3
  <2>4. CASE k # 0
    <3>0. k \in 0 .. CutValue
      OBVIOUS
    <3>1. k - 1 \in 0 .. CutValue /\ k - 1 \in Nat /\ k - 1 < k /\ (k - 1) + 1 = k
      BY <2>4, <3>0, <1>2
    <3>2. Good(x[k - 1], k - 1)
      BY <2>2, <3>1
    <3>3. x[k] = Step(x[k - 1], k)
      BY <1>7, <2>4
    <3> QED BY <1>5, <3>1, <3>2, <3>3
  <2> QED BY <2>3, <2>4
<1>9. Good(end, CutValue)
  BY <1>2, <1>8
<1> HIDE DEF x, end
<1>10. CASE Filled(q, cp, e, R \ {c}, KK, m, end)
  <2>1. /\ end.full = TRUE /\ end.son \in Sons(q) /\ Recorded(e, m, -1, end.recs, end.maxLen) /\ end.maxLen = e.n
        /\ \E M, I2, K2 : Tree(After(e), M, Children(end.son, q, e.p, cp), I2, K2, (R \ {c}) \cup {e.p}) /\ SameKept(e, R \ {c}, K2, KK)
    BY <1>10, Zenon DEF Filled
  <2>2. g.son = end.son /\ g.recs = end.recs
    BY <1>1, <2>1
  <2>3. \E maxLen : /\ Recorded(e, m, -1, g.recs, maxLen)
                    /\ e.F => \A y \in KK[e.p] \cap e.H : maxLen >= e.n \/ ~Same(e.D, y, e.p, maxLen + 1)
    <3>1. e.n >= e.n
      BY <1>2
    <3> HIDE DEF KK
    <3> QED BY <2>1, <2>2, <3>1
  <2> QED BY <2>1, <2>2, <2>3 DEF g
<1>11. CASE Stands(q, cp, e, N, R \ {c}, KK, m, end, CutValue)
  <2> DEFINE d == Seen(q, e.p, end.cm)
  <2>1. /\ end.full = FALSE /\ end.son \in Sons(q) /\ Recorded(e, m, d, end.recs, end.maxLen)
        /\ (d \in e.H => CutValue < e.p - d) /\ Standing(q, cp, e, N, R \ {c}, KK, end, d)
    BY <1>11, Zenon DEF Stands
  <2> HIDE DEF d, KK
  <2>2. PICK I2, K2, O, L :
             /\ Walk(e, N, Children(end.son, q, e.p, cp), I2, K2, R \ {c}, O, L, d)
             /\ \A s \in Sides : PlaceOf(end, s) = Place(cp, e.p, Spot(e, O, s)) /\ LenOf(end, s) = L[s]
             /\ SameKept(e, R \ {c}, K2, KK)
             /\ e.F => Sought(e, K2, d, end.maxLen)
    BY <2>1, Zenon DEF Standing
  <2>3. e.F => d \notin e.H
    <3> SUFFICES ASSUME CutValue >= Cyclic, d \in e.H PROVE FALSE
      OBVIOUS
    <3>1. d \in Nat /\ e.p <= d + HistorySize /\ CutValue < e.p - d
      BY <1>2, <2>1 DEF Hist
    <3> QED BY <3>1, <1>2, Sizes
  <2>4. end.p0 = Place(cp, e.p, Spot(e, O, 0)) /\ end.p1 = Place(cp, e.p, Spot(e, O, 1))
    <3>1. 0 \in Sides /\ 1 \in Sides
      BY DEF Sides
    <3>2. PlaceOf(end, 0) = Place(cp, e.p, Spot(e, O, 0)) /\ PlaceOf(end, 1) = Place(cp, e.p, Spot(e, O, 1))
      BY <2>2, <3>1
    <3> QED BY <3>2 DEF PlaceOf
  <2>5. Spot(e, O, 0) \in Places(e.p) /\ Spot(e, O, 1) \in Places(e.p)
    <3>1. \A s \in Sides : /\ O[s] \in N \cup {e.p} /\ O[s] \in Nat /\ Waits(e, O, s) \in Sides
                           /\ Spot(e, O, s) \in (N \cup {e.p}) \X Sides
      BY <1>2, <2>2, WalkPlaces
    <3>2. N \subseteq e.H
      BY <2>2 DEF Walk, Shapes
    <3> QED BY <3>1, <3>2, <1>2 DEF Places, Sides
  <2>6. g.son \in Sons(q) /\ Children(g.son, q, e.p, cp) = Closed(e, Children(end.son, q, e.p, cp), O)
    <3> DEFINE a == Spot(e, O, 0)
               z == Spot(e, O, 1)
               p == e.p
               es == end.son
    <3>1. g.son = [es EXCEPT ![Place(cp, p, a)] = Empty, ![Place(cp, p, z)] = Empty]
      BY <1>1, <2>1, <2>4
    <3>2. a \in Places(p) /\ z \in Places(p) /\ Steady(q, p) /\ cp \in Slots /\ es \in Sons(q) /\ Empty \in 0 .. q - 1
      BY <2>1, <2>5, <1>2 DEF Empty
    <3>3. Seen(q, p, Empty) = -1
      <4>1. Empty = 0 /\ 0 \in Nat /\ 0 < q
        BY <1>2 DEF Empty
      <4> QED BY <4>1, <3>2, SeenFacts
    <3>4. Closed(e, Children(es, q, p, cp), O) = [Children(es, q, p, cp) EXCEPT ![a] = Seen(q, p, Empty), ![z] = Seen(q, p, Empty)]
      BY <3>3 DEF Closed
    <3> HIDE DEF a, z, p, es
    <3>5. /\ [es EXCEPT ![Place(cp, p, a)] = Empty, ![Place(cp, p, z)] = Empty] \in Sons(q)
          /\ Children([es EXCEPT ![Place(cp, p, a)] = Empty, ![Place(cp, p, z)] = Empty], q, p, cp)
                = [Children(es, q, p, cp) EXCEPT ![a] = Seen(q, p, Empty), ![z] = Seen(q, p, Empty)]
      BY <3>2, TwoChildren
    <3> QED BY <3>1, <3>4, <3>5 DEF es, p
  <2>7. Tree(After(e), N \cup {e.p}, Children(g.son, q, e.p, cp), I2, K2, (R \ {c}) \cup {e.p})
    <3>1. Tree(After(e), N \cup {e.p}, Closed(e, Children(end.son, q, e.p, cp), O), I2, K2, (R \ {c}) \cup {e.p})
      BY <1>2, <2>2, <2>3, WalkEnds
    <3> QED BY <3>1, <2>6
  <2>8. Recorded(e, m, -1, g.recs, end.maxLen)
    <3>1. -1 \notin e.H
      BY <1>2 DEF Hist
    <3> QED BY <3>1, <2>1, <1>1 DEF Recorded
  <2>9. e.F => \A y \in KK[e.p] \cap e.H : end.maxLen >= e.n \/ ~Same(e.D, y, e.p, end.maxLen + 1)
    <3>1. K2[e.p] = KK[e.p]
      BY <2>2 DEF SameKept
    <3> QED BY <3>1, <2>2, <2>3 DEF Sought
  <2> QED BY <2>2, <2>6, <2>7, <2>8, <2>9 DEF g, KK
<1> QED BY <1>9, <1>10, <1>11 DEF Good

(***************************************************************************)
(* The hashes.                                                             *)
(***************************************************************************)
Bits == [Nat -> {0, 1}]

\* The hashes of the same bytes are the same.
LEMMA HashSame ==
    ASSUME NEW B, NEW b \in Int, NEW C, NEW c \in Int
    PROVE  /\ (\A k \in 0 .. 1 : B[b + k] = C[c + k]) => H2(B, b) = H2(C, c)
           /\ (\A k \in 0 .. 2 : B[b + k] = C[c + k]) => H3(B, b) = H3(C, c)
           /\ \A n \in 2 .. 5 : (\A k \in 0 .. n - 1 : B[b + k] = C[c + k]) => HashCalc(B, b, n) = HashCalc(C, c, n)
<1>0. b + 0 = b /\ c + 0 = c
  OBVIOUS
<1>1. ASSUME NEW n \in 2 .. 5, \A k \in 0 .. n - 1 : B[b + k] = C[c + k]
      PROVE  /\ H2(B, b) = H2(C, c) /\ Hash2Calc(B, b) = Hash2Calc(C, c)
             /\ n >= 3 => B[b + 2] = C[c + 2] /\ H3(B, b) = H3(C, c)
             /\ n >= 4 => B[b + 3] = C[c + 3]
             /\ n >= 5 => B[b + 4] = C[c + 4]
  <2>1. 0 \in 0 .. n - 1 /\ 1 \in 0 .. n - 1 /\ (n >= 3 => 2 \in 0 .. n - 1) /\ (n >= 4 => 3 \in 0 .. n - 1) /\ (n >= 5 => 4 \in 0 .. n - 1)
    OBVIOUS
  <2>2. B[b] = C[c] /\ B[b + 1] = C[c + 1]
    BY <1>0, <1>1, <2>1
  <2>3. n >= 3 => B[b + 2] = C[c + 2]
    BY <1>1, <2>1
  <2>4. n >= 4 => B[b + 3] = C[c + 3]
    BY <1>1, <2>1
  <2>5. n >= 5 => B[b + 4] = C[c + 4]
    BY <1>1, <2>1
  <2>6. H2(B, b) = H2(C, c) /\ Hash2Calc(B, b) = Hash2Calc(C, c)
    BY <2>2, Zenon DEF H2, Hash2Calc
  <2>7. n >= 3 => H3(B, b) = H3(C, c)
    <3> SUFFICES ASSUME n >= 3 PROVE H3(B, b) = H3(C, c)
      OBVIOUS
    <3>1. B[b + 2] = C[c + 2]
      BY <2>3
    <3> QED BY <3>1, <2>6, Zenon DEF H3
  <2> QED BY <2>3, <2>4, <2>5, <2>6, <2>7
<1>2. ASSUME NEW n \in 2 .. 5, \A k \in 0 .. n - 1 : B[b + k] = C[c + k] PROVE HashCalc(B, b, n) = HashCalc(C, c, n)
  <2>1. CASE n = 2
    <3>1. HashCalc(B, b, 2) = Hash2Calc(B, b) /\ HashCalc(C, c, 2) = Hash2Calc(C, c)
      BY DEF HashCalc
    <3> QED BY <3>1, <2>1, <1>1, <1>2
  <2>2. CASE n = 3
    <3>1. HashCalc(B, b, 3) = H3(B, b) /\ HashCalc(C, c, 3) = H3(C, c)
      BY DEF HashCalc
    <3> QED BY <3>1, <2>2, <1>1, <1>2
  <2>3. CASE n = 4
    <3>1. /\ HashCalc(B, b, 4) = Append(H2(B, b), Xor(B[b + 2], Crc(B[b + 3])))
          /\ HashCalc(C, c, 4) = Append(H2(C, c), Xor(C[c + 2], Crc(C[c + 3])))
      BY DEF HashCalc
    <3>2. H2(B, b) = H2(C, c) /\ B[b + 2] = C[c + 2] /\ B[b + 3] = C[c + 3]
      BY <2>3, <1>1, <1>2
    <3> QED BY <3>1, <3>2, <2>3
  <2>4. CASE n = 5
    <3>1. /\ HashCalc(B, b, 5) = <<H2(B, b)[1], Xor(B[b + 2], Crc(B[b + 3])), Crc(B[b + 4])>>
          /\ HashCalc(C, c, 5) = <<H2(C, c)[1], Xor(C[c + 2], Crc(C[c + 3])), Crc(C[c + 4])>>
      BY DEF HashCalc
    <3>2. H2(B, b) = H2(C, c) /\ B[b + 2] = C[c + 2] /\ B[b + 3] = C[c + 3] /\ B[b + 4] = C[c + 4]
      BY <2>4, <1>1, <1>2
    <3> QED BY <3>1, <3>2, <2>4
  <2> QED BY <2>1, <2>2, <2>3, <2>4
<1>3. (\A k \in 0 .. 1 : B[b + k] = C[c + k]) => H2(B, b) = H2(C, c)
  <2>1. 2 \in 2 .. 5 /\ 2 - 1 = 1
    OBVIOUS
  <2> QED BY <2>1, <1>1
<1>4. (\A k \in 0 .. 2 : B[b + k] = C[c + k]) => H3(B, b) = H3(C, c)
  <2>1. 3 \in 2 .. 5 /\ 3 - 1 = 2 /\ 3 >= 3
    OBVIOUS
  <2> QED BY <2>1, <1>1
<1> QED BY <1>2, <1>3, <1>4

\* Two values in a row.
LEMMA AppendOne ==
    ASSUME NEW a, NEW b
    PROVE  Append(<<a>>, b) = <<a, b>>
<1>1. <<a>> \in Seq({a, b}) /\ Len(<<a>>) = 1 /\ b \in {a, b}
  OBVIOUS
<1>2. /\ Append(<<a>>, b) \in Seq({a, b}) /\ Len(Append(<<a>>, b)) = 2
      /\ Append(<<a>>, b)[1] = a /\ Append(<<a>>, b)[2] = b
  BY <1>1, AppendProperties
<1>3. <<a, b>> \in Seq({a, b}) /\ Len(<<a, b>>) = 2 /\ <<a, b>>[1] = a /\ <<a, b>>[2] = b
  OBVIOUS
<1>4. \A s, t \in Seq({a, b}) : Len(s) = Len(t) /\ (\A i \in 1 .. Len(s) : s[i] = t[i]) => s = t
  BY SeqEqual
<1>5. \A i \in 1 .. 2 : i = 1 \/ i = 2
  OBVIOUS
<1> DEFINE s == Append(<<a>>, b)
           t == <<a, b>>
<1>6. s \in Seq({a, b}) /\ t \in Seq({a, b}) /\ Len(s) = 2 /\ Len(t) = 2 /\ s[1] = t[1] /\ s[2] = t[2]
  BY <1>2, <1>3
<1> HIDE DEF s, t
<1>7. s = t
  BY <1>4, <1>5, <1>6
<1> QED BY <1>7 DEF s, t

\* The tuples that hashes are.
LEMMA TuplesOf ==
    ASSUME NEW S, NEW a \in S, NEW b \in S, NEW c \in S
    PROVE  <<a>> \in [1 .. 1 -> S] /\ <<a, b>> \in [1 .. 2 -> S] /\ <<a, b, c>> \in [1 .. 3 -> S]
  OBVIOUS

\* The hash of a byte can be undone.
LEMMA XorFacts ==
    ASSUME NEW a \in {0, 1}, NEW b \in {0, 1}, NEW c \in {0, 1}
    PROVE  Xor(a, b) \in {0, 1} /\ (Xor(a, b) = Xor(a, c) => b = c) /\ Crc(a) = a
<1>1. \A x, y \in {0, 1} : Xor(x, y) = IF x = y THEN 0 ELSE 1
  <2>1. 0 % 2 = 0 /\ 1 % 2 = 1 /\ 2 % 2 = 0
    OBVIOUS
  <2>2. Xor(0, 0) = 0 /\ Xor(0, 1) = 1 /\ Xor(1, 0) = 1 /\ Xor(1, 1) = 0
    BY <2>1 DEF Xor
  <2> QED BY <2>2
<1> QED BY <1>1 DEF Crc

\* A hash of bytes is an index of its table.
LEMMA HashTypes ==
    ASSUME NEW D \in Bits, NEW x \in Nat
    PROVE  /\ H2(D, x) \in [1 .. 1 -> {0, 1}] /\ H3(D, x) \in [1 .. 2 -> {0, 1}]
           /\ \A n \in 2 .. 5 : HashCalc(D, x, n) \in HashValues(n)
<1>1. D[x] \in {0, 1} /\ D[x + 1] \in {0, 1} /\ D[x + 2] \in {0, 1} /\ D[x + 3] \in {0, 1} /\ D[x + 4] \in {0, 1}
  BY DEF Bits
<1> DEFINE u == Xor(Crc(D[x]), D[x + 1])
           v == Xor(D[x + 2], Crc(D[x + 3]))
<1>2. u \in {0, 1} /\ v \in {0, 1} /\ Crc(D[x + 4]) = D[x + 4]
  BY <1>1, XorFacts
<1>3. H2(D, x) = <<u>> /\ H3(D, x) = Append(<<u>>, D[x + 2])
  BY DEF H2, H3
<1>4. HashCalc(D, x, 2) = <<D[x], D[x + 1]>> /\ HashCalc(D, x, 3) = H3(D, x) /\ HashCalc(D, x, 4) = Append(<<u>>, v)
      /\ HashCalc(D, x, 5) = <<u, v, D[x + 4]>>
  <2>1. H2(D, x)[1] = u
    BY <1>3
  <2> HIDE DEF u, v
  <2>2. HashCalc(D, x, 2) = Hash2Calc(D, x) /\ HashCalc(D, x, 3) = H3(D, x)
    BY DEF HashCalc
  <2>3. HashCalc(D, x, 4) = Append(H2(D, x), v)
    BY DEF HashCalc, v
  <2>4. HashCalc(D, x, 5) = <<H2(D, x)[1], v, D[x + 4]>>
    BY <1>2 DEF HashCalc, v
  <2> QED BY <1>3, <2>1, <2>2, <2>3, <2>4 DEF Hash2Calc
<1> HIDE DEF u, v
<1>5. \A a, b, c \in {0, 1} : /\ <<a>> \in [1 .. 1 -> {0, 1}] /\ Append(<<a>>, b) = <<a, b>> /\ <<a, b>> \in [1 .. 2 -> {0, 1}]
                              /\ <<a, b, c>> \in [1 .. 3 -> {0, 1}]
  <2> DEFINE S == {0, 1}
  <2> HIDE DEF S
  <2>1. \A a, b, c \in S : /\ <<a>> \in [1 .. 1 -> S] /\ Append(<<a>>, b) = <<a, b>> /\ <<a, b>> \in [1 .. 2 -> S]
                           /\ <<a, b, c>> \in [1 .. 3 -> S]
    BY AppendOne, TuplesOf
  <2> QED BY <2>1, Zenon DEF S
<1>6. /\ HashValues(2) = {0, 1} \X {0, 1} /\ HashValues(3) = [1 .. 2 -> {0, 1}] /\ HashValues(4) = [1 .. 2 -> {0, 1}]
      /\ HashValues(5) = [1 .. 3 -> {0, 1}]
  BY DEF HashValues
<1>7. H2(D, x) \in [1 .. 1 -> {0, 1}] /\ H3(D, x) \in [1 .. 2 -> {0, 1}]
  BY <1>1, <1>2, <1>3, <1>5
<1>8. /\ HashCalc(D, x, 2) \in HashValues(2) /\ HashCalc(D, x, 3) \in HashValues(3) /\ HashCalc(D, x, 4) \in HashValues(4)
      /\ HashCalc(D, x, 5) \in HashValues(5)
  BY <1>1, <1>2, <1>4, <1>5, <1>6, <1>7
<1>9. \A n \in 2 .. 5 : n = 2 \/ n = 3 \/ n = 4 \/ n = 5
  OBVIOUS
<1> QED BY <1>7, <1>8, <1>9

\* The same small hash after the same first byte comes from the same bytes.
LEMMA HashExact ==
    ASSUME NEW D \in Bits, NEW x \in Nat, NEW y \in Nat
    PROVE  /\ D[x] = D[y] /\ H2(D, x) = H2(D, y) => D[x + 1] = D[y + 1]
           /\ H3(D, x) = H3(D, y) => H2(D, x) = H2(D, y) /\ D[x + 2] = D[y + 2]
<1> DEFINE u == Xor(Crc(D[x]), D[x + 1])
           v == Xor(Crc(D[y]), D[y + 1])
<1>1. D[x] \in {0, 1} /\ D[x + 1] \in {0, 1} /\ D[y + 1] \in {0, 1} /\ D[y] \in {0, 1}
  BY DEF Bits
<1>2. H2(D, x) = <<u>> /\ H2(D, y) = <<v>> /\ H3(D, x) = Append(<<u>>, D[x + 2]) /\ H3(D, y) = Append(<<v>>, D[y + 2])
  BY DEF H2, H3
<1>3. D[x] = D[y] /\ u = v => D[x + 1] = D[y + 1]
  BY <1>1, XorFacts
<1> HIDE DEF u, v
<1>4. <<u>> = <<v>> => u = v
  OBVIOUS
<1>5. Append(<<u>>, D[x + 2]) = Append(<<v>>, D[y + 2]) => u = v /\ D[x + 2] = D[y + 2]
  <2> DEFINE a == D[x + 2]
             b == D[y + 2]
  <2> HIDE DEF a, b
  <2>1. Append(<<u>>, a) = <<u, a>> /\ Append(<<v>>, b) = <<v, b>>
    BY AppendOne, Zenon
  <2>2. <<u, a>> = <<v, b>> => u = v /\ a = b
    OBVIOUS
  <2> QED BY <2>1, <2>2 DEF a, b
<1> QED BY <1>2, <1>3, <1>4, <1>5

(***************************************************************************)
(* The small hashes.                                                       *)
(***************************************************************************)
Key2(D) == [x \in Nat |-> H2(D, x)]

Key3(D) == [x \in Nat |-> H3(D, x)]

\* The finder f enters e.p, and may look at e.n bytes.
Enters(f, e) ==
    /\ Setting(f.buf, f.buffer, f.pos, f.cycPos, e) /\ e.D \in Bits /\ f.lenLimit = e.n /\ e.n >= kind.n
    /\ kind.n \in 2 .. 5

LowTables(f, e) ==
    /\ kind.n >= 3 => DOMAIN f.hash2 = [1 .. 1 -> {0, 1}] /\ Latest(f.pos, e.p, f.hash2, Key2(e.D))
    /\ kind.n >= 4 => DOMAIN f.hash3 = [1 .. 2 -> {0, 1}] /\ Latest(f.pos, e.p, f.hash3, Key3(e.D))

\* The window shows the bytes that follow a position of the history.
LEMMA ShownBytes ==
    ASSUME NEW f, NEW e, Enters(f, e), NEW d \in Int, d = 0 \/ e.p - d \in e.H, NEW j \in 0 .. e.n - 1
    PROVE  f.buf[f.buffer - d + j] = e.D[(e.p - d) + j]
<1>1. /\ Shows(f.buf, f.buffer, e) /\ f.buffer \in Int /\ e.p \in Nat /\ e.n \in Nat /\ e.H = Hist(e.p)
  BY DEF Enters, Setting, Env
<1>2. j - d \in - MinOf(e.p, HistorySize) .. e.n - 1
  BY <1>1, Sizes DEF Hist, MinOf
<1>3. f.buf[f.buffer + (j - d)] = e.D[e.p + (j - d)]
  BY <1>1, <1>2 DEF Shows
<1>4. f.buffer + (j - d) = f.buffer - d + j /\ e.p + (j - d) = (e.p - d) + j
  BY <1>1
<1> QED BY <1>3, <1>4

\* HashSame, of one hash.
LEMMA HashCalcSame ==
    ASSUME NEW B, NEW b \in Int, NEW C, NEW c \in Int, NEW n \in 2 .. 5, \A k \in 0 .. n - 1 : B[b + k] = C[c + k]
    PROVE  HashCalc(B, b, n) = HashCalc(C, c, n)
  BY HashSame

\* What the window shows of the position itself, and its hashes.
LEMMA ShownHashes ==
    ASSUME NEW f, NEW e, Enters(f, e)
    PROVE  /\ \A j \in 0 .. e.n - 1 : f.buf[f.buffer + j] = e.D[e.p + j]
           /\ H2(f.buf, f.buffer) = H2(e.D, e.p)
           /\ e.n >= 3 => H3(f.buf, f.buffer) = H3(e.D, e.p)
           /\ HashCalc(f.buf, f.buffer, kind.n) = HashCalc(e.D, e.p, kind.n)
<1>1. f.buffer \in Int /\ e.p \in Nat /\ e.n \in Nat /\ kind.n \in 2 .. 5 /\ e.n >= kind.n
  BY DEF Enters, Setting, Env
<1>2. \A j \in 0 .. e.n - 1 : f.buf[f.buffer + j] = e.D[e.p + j]
  <2> SUFFICES ASSUME NEW j \in 0 .. e.n - 1 PROVE f.buf[f.buffer + j] = e.D[e.p + j]
    OBVIOUS
  <2>1. f.buf[f.buffer - 0 + j] = e.D[(e.p - 0) + j]
    BY ShownBytes
  <2>2. f.buffer - 0 + j = f.buffer + j /\ (e.p - 0) + j = e.p + j
    BY <1>1
  <2> QED BY <2>1, <2>2
<1>3. /\ \A j \in 0 .. 1 : f.buf[f.buffer + j] = e.D[e.p + j]
      /\ e.n >= 3 => \A j \in 0 .. 2 : f.buf[f.buffer + j] = e.D[e.p + j]
      /\ \A j \in 0 .. kind.n - 1 : f.buf[f.buffer + j] = e.D[e.p + j]
  <2>1. /\ \A j \in 0 .. 1 : j \in 0 .. e.n - 1
        /\ e.n >= 3 => \A j \in 0 .. 2 : j \in 0 .. e.n - 1
        /\ \A j \in 0 .. kind.n - 1 : j \in 0 .. e.n - 1
    BY <1>1
  <2> QED BY <1>2, <2>1
<1>4. e.p \in Int
  BY <1>1
<1>5. H2(f.buf, f.buffer) = H2(e.D, e.p)
  BY <1>1, <1>3, <1>4, HashSame
<1>6. e.n >= 3 => H3(f.buf, f.buffer) = H3(e.D, e.p)
  BY <1>1, <1>3, <1>4, HashSame
<1>7. HashCalc(f.buf, f.buffer, kind.n) = HashCalc(e.D, e.p, kind.n)
  <2> DEFINE n == kind.n
  <2>1. n \in 2 .. 5 /\ \A j \in 0 .. n - 1 : f.buf[f.buffer + j] = e.D[e.p + j]
    BY <1>1, <1>3
  <2> HIDE DEF n
  <2>2. HashCalc(f.buf, f.buffer, n) = HashCalc(e.D, e.p, n)
    <3>1. f.buffer \in Int
      BY <1>1
    <3> QED BY <3>1, <1>4, <2>1, HashCalcSame, SMTT(40)
  <2> QED BY <2>2 DEF n
<1> QED BY <1>2, <1>5, <1>6, <1>7

\* A value of a table that Near takes names a position of the history with the same first byte.
LEMMA NearFacts ==
    ASSUME NEW f, NEW e, Enters(f, e), NEW v \in Nat, v < f.pos, Near(f, f.pos - v)
    PROVE  LET x == e.p - (f.pos - v)
           IN  x = Seen(f.pos, e.p, v) /\ x \in e.H /\ e.D[x] = e.D[e.p]
<1> DEFINE d == f.pos - v
           x == e.p - d
<1>1. /\ Steady(f.pos, e.p) /\ e.H = Hist(e.p) /\ f.pos \in Nat /\ e.p \in Nat /\ e.n \in Nat /\ e.n >= 2 /\ f.buffer \in Int
  BY DEF Enters, Setting, Steady, Env
<1>2. d < f.pos /\ d < Cyclic /\ f.buf[f.buffer - d] = f.buf[f.buffer]
  BY <1>1, Sizes DEF Near, MinOf
<1>3. InHistory(v, f.pos, Cyclic)
  BY <1>1, <1>2, Sizes DEF InHistory
<1>4. Seen(f.pos, e.p, v) = x /\ x \in e.H
  BY <1>1, <1>3, SeenFacts DEF Seen
<1>5. e.D[x] = e.D[e.p]
  <2>1. 0 \in 0 .. e.n - 1 /\ d \in Int /\ 0 \in Int
    BY <1>1
  <2>2. f.buf[f.buffer - d + 0] = e.D[(e.p - d) + 0] /\ f.buf[f.buffer + 0] = e.D[e.p + 0]
    <3> HIDE DEF d
    <3> QED BY <1>4, <2>1, ShownBytes, ShownHashes
  <2>3. f.buffer - d + 0 = f.buffer - d /\ (e.p - d) + 0 = x /\ f.buffer + 0 = f.buffer /\ e.p + 0 = e.p
    BY <1>1, <2>1
  <2> QED BY <1>2, <2>2, <2>3
<1> QED BY <1>4, <1>5

\* The candidate of the hash of two bytes is the latest match of two, or there is none.
LEMMA NearTwo ==
    ASSUME NEW f, NEW e, Enters(f, e), LowTables(f, e), kind.n >= 3, NEW d, d = f.pos - f.hash2[H2(f.buf, f.buffer)]
    PROVE  /\ d \in Nat \ {0}
           /\ Near(f, d) => /\ e.p - d \in e.H /\ Same(e.D, e.p - d, e.p, 2)
                            /\ \A y \in e.H : H2(e.D, y) = H2(e.D, e.p) => y <= e.p - d
<1> DEFINE h == H2(e.D, e.p)
           v == f.hash2[h]
           x == Seen(f.pos, e.p, v)
<1>1. /\ e.D \in Bits /\ e.p \in Nat /\ f.pos \in Nat /\ e.H = Hist(e.p) /\ e.H \subseteq Nat
      /\ H2(f.buf, f.buffer) = h
  BY ShownHashes DEF Enters, Setting, Env, Steady, Hist
<1>2. IsLatest(f.pos, e.p, e.p, v, h, Key2(e.D))
  <2>1. h \in [1 .. 1 -> {0, 1}]
    BY <1>1, HashTypes
  <2> QED BY <2>1 DEF LowTables, Latest
<1>3. v \in Nat /\ v < f.pos /\ d = f.pos - v
  BY <1>1, <1>2 DEF IsLatest
<1>4. ASSUME Near(f, d)
      PROVE  /\ e.p - d \in e.H /\ Same(e.D, e.p - d, e.p, 2)
             /\ \A y \in e.H : H2(e.D, y) = h => y <= e.p - d
  <2>1. e.p - d = x /\ x \in e.H /\ e.D[x] = e.D[e.p]
    <3> HIDE DEF v
    <3> QED BY <1>3, <1>4, NearFacts
  <2>2. \A y \in Nat : Key2(e.D)[y] = H2(e.D, y)
    BY DEF Key2
  <2>3. H2(e.D, x) = h /\ \A y \in e.H : H2(e.D, y) = h => y <= x
    <3>1. \A y \in e.H : y \in Nat /\ y < e.p
      BY <1>1 DEF Hist
    <3> HIDE DEF h, v, x
    <3> QED BY <2>1, <2>2, <1>1, <1>2, <3>1 DEF IsLatest, x
  <2>4. e.D[x + 1] = e.D[e.p + 1]
    <3>1. x \in Nat
      BY <1>1, <2>1
    <3> HIDE DEF x
    <3> QED BY <3>1, <2>1, <2>3, <1>1, HashExact
  <2>5. Same(e.D, x, e.p, 2)
    <3>1. x + 0 = x /\ e.p + 0 = e.p /\ \A k \in 0 .. 2 - 1 : k = 0 \/ k = 1
      BY <1>1, <2>1
    <3> HIDE DEF x
    <3> QED BY <3>1, <2>1, <2>4 DEF Same
  <2> QED BY <2>1, <2>3, <2>5
<1>5. d \in Nat \ {0}
  BY <1>1, <1>3
<1> QED BY <1>4, <1>5

\* The same of three bytes.
LEMMA NearThree ==
    ASSUME NEW f, NEW e, Enters(f, e), LowTables(f, e), kind.n >= 4, NEW d, d = f.pos - f.hash3[H3(f.buf, f.buffer)]
    PROVE  /\ d \in Nat \ {0}
           /\ Near(f, d) => /\ e.p - d \in e.H /\ Same(e.D, e.p - d, e.p, 3)
                            /\ \A y \in e.H : H3(e.D, y) = H3(e.D, e.p) => y <= e.p - d
<1> DEFINE h == H3(e.D, e.p)
           v == f.hash3[h]
           x == Seen(f.pos, e.p, v)
<1>1. /\ e.D \in Bits /\ e.p \in Nat /\ f.pos \in Nat /\ e.H = Hist(e.p) /\ e.H \subseteq Nat /\ e.n \in Nat /\ e.n >= 3
  BY DEF Enters, Setting, Env, Steady, Hist
<1>a. H3(f.buf, f.buffer) = h
  BY <1>1, ShownHashes
<1>2. IsLatest(f.pos, e.p, e.p, v, h, Key3(e.D))
  <2>1. h \in [1 .. 2 -> {0, 1}]
    BY <1>1, HashTypes
  <2> QED BY <2>1 DEF LowTables, Latest
<1>3. v \in Nat /\ v < f.pos /\ d = f.pos - v
  BY <1>a, <1>2 DEF IsLatest
<1>4. ASSUME Near(f, d)
      PROVE  /\ e.p - d \in e.H /\ Same(e.D, e.p - d, e.p, 3)
             /\ \A y \in e.H : H3(e.D, y) = h => y <= e.p - d
  <2>1. e.p - d = x /\ x \in e.H /\ e.D[x] = e.D[e.p]
    <3> HIDE DEF v
    <3> QED BY <1>3, <1>4, NearFacts
  <2>2. \A y \in Nat : Key3(e.D)[y] = H3(e.D, y)
    BY DEF Key3
  <2>3. H3(e.D, x) = h /\ \A y \in e.H : H3(e.D, y) = h => y <= x
    <3>1. \A y \in e.H : y \in Nat /\ y < e.p
      BY <1>1 DEF Hist
    <3> HIDE DEF h, v, x
    <3> QED BY <2>1, <2>2, <1>1, <1>2, <3>1 DEF IsLatest, x
  <2>4. e.D[x + 1] = e.D[e.p + 1] /\ e.D[x + 2] = e.D[e.p + 2]
    <3>1. x \in Nat
      BY <1>1, <2>1
    <3> HIDE DEF x
    <3> QED BY <3>1, <2>1, <2>3, <1>1, HashExact
  <2>5. Same(e.D, x, e.p, 3)
    <3>1. x + 0 = x /\ e.p + 0 = e.p /\ \A k \in 0 .. 3 - 1 : k = 0 \/ k = 1 \/ k = 2
      BY <1>1, <2>1
    <3> HIDE DEF x
    <3> QED BY <3>1, <2>1, <2>4 DEF Same
  <2> QED BY <2>1, <2>3, <2>5
<1>5. d \in Nat \ {0}
  BY <1>1, <1>3
<1> QED BY <1>4, <1>5

\* What the small hashes found, for a big hash of k bytes: matches, the last of length maxLen if that is more
\* than k - 1, and nothing nearer agrees longer.
LowSound(e, k, low) ==
    LET n == Len(low.recs)
    IN  /\ Hits(e, 1, low.recs) /\ low.maxLen \in k - 1 .. e.n
        /\ n > 0 => low.recs[n][1] <= low.maxLen
        /\ low.maxLen > k - 1 => n > 0 /\ low.recs[n][1] = low.maxLen
        /\ low.maxLen < e.n /\ n > 0 =>
             \A y \in e.H : Same(e.D, y, e.p, low.maxLen + 1) => y < e.p - (low.recs[n][2] + 1)

\* What is recorded before the match at x.
Before(e, pre, x) ==
    /\ Hits(e, 1, pre) /\ Len(pre) \in 0 .. 1
    /\ Len(pre) = 1 => pre[1][1] = 2 /\ x < e.p - (pre[1][2] + 1)

\* Nothing was found.
LEMMA LowNone ==
    ASSUME NEW e, Env(e), NEW k \in 2 .. e.n
    PROVE  LowSound(e, k, Low(<<>>, k - 1))
<1> DEFINE recs == <<>>
           low == Low(recs, k - 1)
<1>1. recs \in Seq(Nat \X Nat) /\ Len(recs) = 0
  OBVIOUS
<1>2. low.recs = recs /\ low.maxLen = k - 1
  BY DEF Low
<1> HIDE DEF recs
<1>3. e.n \in Nat
  BY DEF Env
<1>4. Hits(e, 1, recs)
  BY <1>1 DEF Hits, Grows
<1>5. k - 1 \in k - 1 .. e.n /\ ~(k - 1 > k - 1)
  BY <1>3
<1> HIDE DEF low
<1>6. LowSound(e, k, low)
  BY <1>1, <1>2, <1>4, <1>5 DEF LowSound
<1> QED BY <1>6 DEF low, recs

\* A match more.
LEMMA LowAppend ==
    ASSUME NEW e, Env(e), NEW k \in 2 .. e.n, NEW pre, NEW x \in e.H, Before(e, pre, x), NEW len \in 2 .. e.n,
           Same(e.D, x, e.p, len), Len(pre) = 1 => len >= 3, NEW maxLen \in k - 1 .. e.n, len <= maxLen,
           maxLen > k - 1 => len = maxLen,
           maxLen < e.n => \A y \in e.H : Same(e.D, y, e.p, maxLen + 1) => y < x
    PROVE  LowSound(e, k, Low(Append(pre, <<len, (e.p - x) - 1>>), maxLen))
<1> DEFINE r == <<len, (e.p - x) - 1>>
           recs == Append(pre, r)
           n == Len(recs)
           low == Low(recs, maxLen)
<1>1. e.p \in Nat /\ x \in Nat /\ x < e.p /\ e.n \in Nat /\ len \in Nat
  BY DEF Env
<1>2. r \in Nat \X Nat /\ r[1] = len /\ r[2] = (e.p - x) - 1 /\ e.p - (r[2] + 1) = x
  BY <1>1
<1>3. pre \in Seq(Nat \X Nat) /\ Len(pre) \in 0 .. 1 /\ Grows(pre) /\ \A j \in 1 .. Len(pre) : Hit(e, pre[j]) /\ pre[j][1] > 1
  BY DEF Before, Hits
<1> HIDE DEF r
<1>4. /\ recs \in Seq(Nat \X Nat) /\ n = Len(pre) + 1 /\ recs[n] = r
      /\ \A j \in 1 .. Len(pre) : recs[j] = pre[j]
  BY <1>2, <1>3
<1>5. Hit(e, r) /\ r[1] > 1
  BY <1>1, <1>2 DEF Hit
<1> HIDE DEF recs
<1>6. \A j \in 1 .. n : Hit(e, recs[j]) /\ recs[j][1] > 1
  <2> TAKE j \in 1 .. n
  <2>1. j = n \/ j \in 1 .. Len(pre)
    BY <1>3, <1>4
  <2> QED BY <2>1, <1>3, <1>4, <1>5
<1>7. Grows(recs)
  <2> SUFFICES ASSUME NEW j \in 2 .. n PROVE recs[j - 1][1] < recs[j][1] /\ recs[j - 1][2] < recs[j][2]
    BY DEF Grows
  <2>1. j = 2 /\ n = 2 /\ Len(pre) = 1 /\ j - 1 = 1
    <3> DEFINE l == Len(pre)
    <3>1. l \in 0 .. 1 /\ n = l + 1 /\ j \in 2 .. n
      BY <1>3, <1>4
    <3> HIDE DEF l, n
    <3>2. j = 2 /\ n = 2 /\ l = 1 /\ j - 1 = 1
      BY <3>1
    <3> QED BY <3>2 DEF l
  <2>2. recs[1] = pre[1] /\ recs[2] = r /\ pre[1][1] = 2 /\ x < e.p - (pre[1][2] + 1)
    BY <2>1, <1>4 DEF Before
  <2>3. pre[1][2] \in Nat
    <3>1. pre \in Seq(Nat \X Nat) /\ 1 \in 1 .. Len(pre)
      BY <1>3, <2>1
    <3>2. pre[1] \in Nat \X Nat
      BY <3>1
    <3> QED BY <3>2
  <2>4. pre[1][1] < r[1]
    BY <2>1, <2>2, <1>1, <1>2
  <2>5. pre[1][2] < r[2]
    <3> DEFINE z == pre[1][2]
    <3>1. z \in Nat /\ x < e.p - (z + 1) /\ r[2] = (e.p - x) - 1
      BY <2>2, <2>3, <1>2
    <3> HIDE DEF z
    <3>2. z < r[2]
      BY <3>1, <1>1
    <3> QED BY <3>2 DEF z
  <2> QED BY <2>1, <2>2, <2>4, <2>5
<1>8. Hits(e, 1, recs)
  BY <1>4, <1>6, <1>7 DEF Hits
<1>9. low.recs = recs /\ low.maxLen = maxLen /\ Len(low.recs) = n
  BY DEF Low
<1>10. recs[n][1] = len /\ e.p - (recs[n][2] + 1) = x /\ n > 0
  BY <1>2, <1>3, <1>4
<1> HIDE DEF low, n
<1>11. LowSound(e, k, low)
  BY <1>8, <1>9, <1>10 DEF LowSound
<1> QED BY <1>11 DEF low, recs, r

\* Positions followed by the same bytes have the same small hashes.
LEMMA SameHashes ==
    ASSUME NEW D \in Bits, NEW x \in Nat, NEW y \in Nat
    PROVE  /\ Same(D, x, y, 2) => H2(D, x) = H2(D, y)
           /\ Same(D, x, y, 3) => H3(D, x) = H3(D, y)
           /\ \A n \in 2 .. 5 : Same(D, x, y, n) => HashCalc(D, x, n) = HashCalc(D, y, n)
<1>1. x \in Int /\ y \in Int
  OBVIOUS
<1>2. /\ Same(D, x, y, 2) => \A k \in 0 .. 1 : D[x + k] = D[y + k]
      /\ Same(D, x, y, 3) => \A k \in 0 .. 2 : D[x + k] = D[y + k]
  BY DEF Same
<1>3. ASSUME NEW n \in 2 .. 5, Same(D, x, y, n) PROVE HashCalc(D, x, n) = HashCalc(D, y, n)
  BY <1>1, <1>3, HashCalcSame DEF Same
<1> QED BY <1>1, <1>2, <1>3, HashSame

\* Less of the same is the same.
LEMMA SameLess ==
    ASSUME NEW e, NEW f, Enters(f, e), NEW y \in e.H, NEW n \in Nat, Same(e.D, y, e.p, n), NEW m \in 0 .. n
    PROVE  Same(e.D, y, e.p, m) /\ e.D \in Texts /\ e.D \in Bits /\ y \in Nat /\ e.p \in Nat /\ y < e.p
<1>1. e.D \in Texts /\ e.D \in Bits /\ y \in Nat /\ e.p \in Nat /\ y < e.p
  BY DEF Enters, Setting, Env
<1> QED BY <1>1, SameFacts

\* What update_max_len finds.
LEMMA RunFacts ==
    ASSUME NEW f, NEW e, Enters(f, e), NEW d \in Nat, e.p - d \in e.H, NEW m \in 0 .. e.n, Same(e.D, e.p - d, e.p, m)
    PROVE  LET len == UpdateMaxLen(f, d, m)
           IN  /\ len \in m .. e.n /\ Same(e.D, e.p - d, e.p, len)
               /\ len < e.n => ~Same(e.D, e.p - d, e.p, len + 1)
<1> DEFINE c == e.p - d
<1>1. Setting(f.buf, f.buffer, f.pos, f.cycPos, e) /\ f.lenLimit = e.n /\ e.p \in Nat
  BY DEF Enters, Setting, Env
<1>2. e.p - c = d
  BY <1>1
<1> HIDE DEF c
<1>3. LET len == MatchRun(f.buf, e.p - c, f.buffer + m, f.buffer + e.n) - f.buffer
      IN  /\ len \in m .. e.n /\ Same(e.D, c, e.p, len)
          /\ len < e.n => ~Same(e.D, c, e.p, len + 1)
  <2>1. c \in e.H /\ Same(e.D, c, e.p, m)
    BY DEF c
  <2> QED BY <1>1, <2>1, AgreesHere
<1> QED BY <1>1, <1>2, <1>3 DEF UpdateMaxLen, c

\* An empty record before the first.
LEMMA NothingBefore ==
    ASSUME NEW e, NEW x
    PROVE  Before(e, <<>>, x)
<1> DEFINE pre == <<>>
<1>1. pre \in Seq(Nat \X Nat) /\ Len(pre) = 0
  OBVIOUS
<1> HIDE DEF pre
<1>2. Before(e, pre, x)
  BY <1>1 DEF Before, Hits, Grows
<1> QED BY <1>2 DEF pre

\* The first match has two bytes.
LEMMA TwoBefore ==
    ASSUME NEW e, Env(e), NEW d \in Nat \ {0}, e.p - d \in e.H, Same(e.D, e.p - d, e.p, 2), e.n >= 2, NEW x, x < e.p - d
    PROVE  Before(e, << <<2, d - 1>> >>, x)
<1> DEFINE r == <<2, d - 1>>
           pre == <<r>>
<1>1. r \in Nat \X Nat /\ r[1] = 2 /\ r[2] + 1 = d /\ e.n \in Nat
  BY DEF Env
<1> HIDE DEF r
<1>2. pre \in Seq(Nat \X Nat) /\ Len(pre) = 1 /\ pre[1] = r
  BY <1>1
<1> HIDE DEF pre
<1>3. Hit(e, r) /\ r[1] > 1
  BY <1>1 DEF Hit
<1>4. Before(e, pre, x)
  <2>1. \A j \in 1 .. Len(pre) : j = 1
    BY <1>2
  <2>2. \A j \in 2 .. Len(pre) : FALSE
    BY <1>2
  <2>3. Hits(e, 1, pre)
    BY <1>2, <1>3, <2>1, <2>2 DEF Hits, Grows
  <2> QED BY <1>1, <1>2, <2>3 DEF Before
<1> QED BY <1>4 DEF pre, r

\* The 2-byte hash of bt3.
LEMMA Bt3LowSound ==
    ASSUME NEW f, NEW e, Enters(f, e), LowTables(f, e), kind.n = 3
    PROVE  LowSound(e, 3, Bt3Low(f))
<1> DEFINE d2 == f.pos - f.hash2[H2(f.buf, f.buffer)]
           len == UpdateMaxLen(f, d2, 2)
           x == e.p - d2
<1>1. Env(e) /\ e.n \in Nat /\ e.n >= 3 /\ e.D \in Bits /\ e.p \in Nat
  BY DEF Enters, Setting, Env
<1>2. /\ d2 \in Nat \ {0}
      /\ Near(f, d2) => /\ x \in e.H /\ Same(e.D, x, e.p, 2)
                        /\ \A y \in e.H : H2(e.D, y) = H2(e.D, e.p) => y <= x
  <2>1. kind.n >= 3
    OBVIOUS
  <2> QED BY <2>1, NearTwo
<1>3. Bt3Low(f) = IF Near(f, d2) THEN Low(<< <<len, d2 - 1>> >>, len) ELSE Low(<<>>, 2)
  BY DEF Bt3Low
<1>4. CASE Near(f, d2)
  <2>1. /\ len \in 2 .. e.n /\ Same(e.D, x, e.p, len)
        /\ len < e.n => ~Same(e.D, x, e.p, len + 1)
    <3>1. 2 \in 0 .. e.n
      BY <1>1
    <3> HIDE DEF d2
    <3> QED BY <1>2, <1>4, <3>1, RunFacts
  <2> HIDE DEF len, d2
  <2>2. len < e.n => \A y \in e.H : Same(e.D, y, e.p, len + 1) => y < x
    <3> SUFFICES ASSUME len < e.n, NEW y \in e.H, Same(e.D, y, e.p, len + 1) PROVE y < x
      OBVIOUS
    <3>1. len + 1 \in Nat /\ 2 \in 0 .. len + 1
      BY <2>1, <1>1
    <3>2. Same(e.D, y, e.p, 2) /\ y \in Nat /\ x \in Nat
      BY <1>2, <1>4, <3>1, SameLess DEF Enters, Setting, Env
    <3>3. y <= x
      BY <3>2, <1>1, <1>2, <1>4, SameHashes
    <3>4. y # x
      BY <2>1
    <3> QED BY <3>2, <3>3, <3>4
  <2>3. LowSound(e, 3, Low(Append(<<>>, <<len, (e.p - x) - 1>>), len))
    <3>1. Len(<<>>) # 1 /\ len >= 2 /\ len \in 3 - 1 .. e.n /\ len <= len /\ 3 \in 2 .. e.n /\ Before(e, <<>>, x)
      BY <2>1, <1>1, NothingBefore
    <3> HIDE DEF x
    <3> QED BY <1>1, <1>2, <1>4, <2>1, <2>2, <3>1, LowAppend
  <2>4. e.p - x = d2 /\ Append(<<>>, <<len, d2 - 1>>) = << <<len, d2 - 1>> >>
    BY <1>1, <1>2
  <2> QED BY <1>3, <1>4, <2>3, <2>4
<1>5. CASE ~Near(f, d2)
  <2>1. 3 \in 2 .. e.n /\ 3 - 1 = 2
    BY <1>1
  <2> QED BY <1>1, <1>3, <1>5, <2>1, LowNone
<1> QED BY <1>4, <1>5

\* What bt4, bt5, hc4 and hc5 go on with is the nearest position that agrees on three bytes, and the record
\* before it is nearer.
LEMMA PickFacts ==
    ASSUME NEW f, NEW e, Enters(f, e), LowTables(f, e), kind.n >= 4,
           NEW d2, d2 = f.pos - f.hash2[H2(f.buf, f.buffer)], NEW d3, d3 = f.pos - f.hash3[H3(f.buf, f.buffer)]
    PROVE  LET pick == PickLow(f, d2, d3)
               pre  == TwoBytes(f, d2, pick)
           IN  /\ pick \in Nat
               /\ pick # 0 => /\ e.p - pick \in e.H /\ Same(e.D, e.p - pick, e.p, 3) /\ Before(e, pre, e.p - pick)
                              /\ \A y \in e.H : Same(e.D, y, e.p, 3) => y <= e.p - pick
               /\ pick = 0 => LowSound(e, kind.n, Low(pre, kind.n - 1))
<1> DEFINE pick == PickLow(f, d2, d3)
           pre == TwoBytes(f, d2, pick)
           x2 == e.p - d2
           x3 == e.p - d3
           Third == f.buf[f.buffer - d2 + 2] = f.buf[f.buffer + 2]
<1>1. Env(e) /\ e.n \in Nat /\ e.n >= 4 /\ e.D \in Bits /\ e.p \in Nat /\ kind.n \in 2 .. 5 /\ e.H \subseteq Nat /\ kind.n \in 2 .. e.n
  BY DEF Enters, Setting, Env
<1>2. /\ d2 \in Nat \ {0}
      /\ Near(f, d2) => /\ x2 \in e.H /\ Same(e.D, x2, e.p, 2)
                        /\ \A y \in e.H : H2(e.D, y) = H2(e.D, e.p) => y <= x2
  <2>1. kind.n >= 3
    BY <1>1
  <2> QED BY <2>1, NearTwo
<1>3. /\ d3 \in Nat \ {0}
      /\ Near(f, d3) => /\ x3 \in e.H /\ Same(e.D, x3, e.p, 3)
                        /\ \A y \in e.H : H3(e.D, y) = H3(e.D, e.p) => y <= x3
  BY NearThree
<1>4. pick = IF Near(f, d2) /\ Third THEN d2 ELSE IF Near(f, d3) THEN d3 ELSE 0
  BY DEF PickLow
<1>5. pre = IF Near(f, d2) /\ pick # d2 THEN << <<2, d2 - 1>> >> ELSE <<>>
  BY DEF TwoBytes
<1>6. ASSUME Near(f, d2) PROVE Third <=> Same(e.D, x2, e.p, 3)
  <2>1. f.buf[f.buffer - d2 + 2] = e.D[x2 + 2] /\ f.buf[f.buffer + 2] = e.D[e.p + 2]
    <3>1. 2 \in 0 .. e.n - 1 /\ d2 \in Int
      BY <1>1, <1>2
    <3> QED BY <3>1, <1>2, <1>6, ShownBytes, ShownHashes
  <2>2. \A k \in 0 .. 3 - 1 : k \in 0 .. 2 - 1 \/ k = 2
    OBVIOUS
  <2>3. 2 \in 0 .. 3 - 1
    OBVIOUS
  <2> HIDE DEF x2
  <2> QED BY <1>2, <1>6, <2>1, <2>2, <2>3 DEF Same
<1>7. ASSUME NEW y \in e.H, Same(e.D, y, e.p, 3)
      PROVE  /\ H2(e.D, y) = H2(e.D, e.p) /\ H3(e.D, y) = H3(e.D, e.p)
             /\ Near(f, d2) => y <= x2
             /\ Near(f, d3) => y <= x3
  <2>1. Same(e.D, y, e.p, 2)
    <3>1. 3 \in Nat /\ 2 \in 0 .. 3
      OBVIOUS
    <3> QED BY <3>1, <1>7, SameLess
  <2>2. y \in Nat
    BY <1>1
  <2>3. H2(e.D, y) = H2(e.D, e.p) /\ H3(e.D, y) = H3(e.D, e.p)
    BY <1>1, <1>7, <2>1, <2>2, SameHashes
  <2> QED BY <2>3, <1>2, <1>3
<1> HIDE DEF pick, pre, Third
<1>8. pick \in Nat
  BY <1>2, <1>3, <1>4
<1>9. ASSUME pick # 0
      PROVE  /\ e.p - pick \in e.H /\ Same(e.D, e.p - pick, e.p, 3) /\ Before(e, pre, e.p - pick)
             /\ \A y \in e.H : Same(e.D, y, e.p, 3) => y <= e.p - pick
  <2>1. CASE Near(f, d2) /\ Third
    <3>1. pick = d2 /\ pre = <<>>
      BY <2>1, <1>4, <1>5
    <3> QED BY <3>1, <2>1, <1>2, <1>6, <1>7, NothingBefore
  <2>2. CASE ~(Near(f, d2) /\ Third) /\ Near(f, d3)
    <3>1. pick = d3
      BY <2>2, <1>4
    <3>2. /\ x3 \in e.H /\ Same(e.D, x3, e.p, 3) /\ \A y \in e.H : Same(e.D, y, e.p, 3) => y <= x3
      BY <2>2, <1>3, <1>7
    <3>3. Before(e, pre, x3)
      <4>1. CASE pre = <<>>
        BY <4>1, NothingBefore
      <4>2. CASE pre # <<>>
        <5>1. Near(f, d2) /\ pre = << <<2, d2 - 1>> >>
          BY <4>2, <1>5
        <5>2. x3 < x2
          <6>1. x3 <= x2 /\ x3 # x2
            BY <5>1, <3>2, <2>2, <1>6, <1>7
          <6> QED BY <6>1, <5>1, <3>2, <1>1, <1>2
        <5> HIDE DEF x3
        <5> QED BY <5>1, <5>2, <1>1, <1>2, TwoBefore
      <4> QED BY <4>1, <4>2
    <3> QED BY <3>1, <3>2, <3>3
  <2> QED BY <2>1, <2>2, <1>4, <1>9
<1>10. ASSUME pick = 0 PROVE LowSound(e, kind.n, Low(pre, kind.n - 1))
  <2>1. CASE pre = <<>>
    BY <2>1, <1>1, LowNone
  <2>2. CASE pre # <<>>
    <3>1. Near(f, d2) /\ pre = << <<2, d2 - 1>> >> /\ ~Third
      BY <2>2, <1>2, <1>4, <1>5, <1>10
    <3>2. kind.n - 1 < e.n => \A y \in e.H : Same(e.D, y, e.p, (kind.n - 1) + 1) => y < x2
      <4> SUFFICES ASSUME NEW y \in e.H, Same(e.D, y, e.p, (kind.n - 1) + 1) PROVE y < x2
        OBVIOUS
      <4>1. (kind.n - 1) + 1 \in Nat /\ 3 \in 0 .. (kind.n - 1) + 1
        BY <1>1
      <4>2. Same(e.D, y, e.p, 3)
        BY <4>1, SameLess
      <4>3. y <= x2 /\ y # x2 /\ y \in Nat /\ x2 \in Nat
        BY <4>2, <3>1, <1>1, <1>2, <1>6, <1>7
      <4> QED BY <4>3
    <3>3. /\ 2 \in 2 .. e.n /\ kind.n - 1 \in kind.n - 1 .. e.n /\ 2 <= kind.n - 1 /\ ~(kind.n - 1 > kind.n - 1)
          /\ Len(<<>>) # 1
      BY <1>1
    <3>4. LowSound(e, kind.n, Low(Append(<<>>, <<2, (e.p - x2) - 1>>), kind.n - 1))
      <4>1. x2 \in e.H /\ Same(e.D, x2, e.p, 2) /\ Before(e, <<>>, x2)
        BY <3>1, <1>2, NothingBefore
      <4> HIDE DEF x2
      <4> QED BY <4>1, <1>1, <3>2, <3>3, LowAppend
    <3>5. e.p - x2 = d2 /\ Append(<<>>, <<2, d2 - 1>>) = << <<2, d2 - 1>> >>
      BY <1>1, <1>2
    <3> QED BY <3>1, <3>4, <3>5
  <2> QED BY <2>1, <2>2
<1> QED BY <1>8, <1>9, <1>10 DEF pick, pre

\* The nearest position that agrees on m bytes is extended and recorded.
LEMMA PickRun ==
    ASSUME NEW f, NEW e, Enters(f, e), NEW d \in Nat \ {0}, e.p - d \in e.H, NEW m \in 3 .. e.n, Same(e.D, e.p - d, e.p, m),
           m = kind.n - 1, \A y \in e.H : Same(e.D, y, e.p, 3) => y <= e.p - d, NEW pre, Before(e, pre, e.p - d)
    PROVE  LET len == UpdateMaxLen(f, d, m)
           IN  LowSound(e, kind.n, Low(Append(pre, <<len, d - 1>>), len))
<1> DEFINE x == e.p - d
           len == UpdateMaxLen(f, d, m)
<1>1. Env(e) /\ e.n \in Nat /\ e.p \in Nat /\ kind.n \in 2 .. e.n /\ e.H \subseteq Nat /\ m \in 0 .. e.n /\ d \in Nat
  BY DEF Enters, Setting, Env
<1>2. /\ len \in m .. e.n /\ Same(e.D, x, e.p, len)
      /\ len < e.n => ~Same(e.D, x, e.p, len + 1)
  BY <1>1, RunFacts
<1> HIDE DEF len
<1>3. len < e.n => \A y \in e.H : Same(e.D, y, e.p, len + 1) => y < x
  <2> SUFFICES ASSUME len < e.n, NEW y \in e.H, Same(e.D, y, e.p, len + 1) PROVE y < x
    OBVIOUS
  <2>1. len + 1 \in Nat /\ 3 \in 0 .. len + 1
    BY <1>1, <1>2
  <2>2. Same(e.D, y, e.p, 3)
    BY <2>1, SameLess
  <2>3. y <= x /\ y # x /\ y \in Nat /\ x \in Nat
    BY <2>2, <1>1, <1>2
  <2> QED BY <2>3
<1>4. len \in 2 .. e.n /\ len >= 3 /\ len \in kind.n - 1 .. e.n /\ len <= len
  BY <1>1, <1>2
<1>5. LowSound(e, kind.n, Low(Append(pre, <<len, (e.p - x) - 1>>), len))
  <2>1. x \in e.H /\ Before(e, pre, x)
    OBVIOUS
  <2> HIDE DEF x
  <2> QED BY <2>1, <1>1, <1>2, <1>3, <1>4, LowAppend
<1>6. e.p - x = d
  BY <1>1
<1> QED BY <1>5, <1>6 DEF len

\* The small hashes of bt4 and hc4.
LEMMA Bt4LowSound ==
    ASSUME NEW f, NEW e, Enters(f, e), LowTables(f, e), kind.n = 4
    PROVE  LowSound(e, 4, Bt4Low(f))
<1> DEFINE d2 == f.pos - f.hash2[H2(f.buf, f.buffer)]
           d3 == f.pos - f.hash3[H3(f.buf, f.buffer)]
           pick == PickLow(f, d2, d3)
           pre == TwoBytes(f, d2, pick)
           len == UpdateMaxLen(f, pick, 3)
<1>1. Bt4Low(f) = IF pick = 0 THEN Low(pre, 3) ELSE Low(Append(pre, <<len, pick - 1>>), len)
  BY DEF Bt4Low
<1>2. /\ pick \in Nat
      /\ pick # 0 => /\ e.p - pick \in e.H /\ Same(e.D, e.p - pick, e.p, 3) /\ Before(e, pre, e.p - pick)
                     /\ \A y \in e.H : Same(e.D, y, e.p, 3) => y <= e.p - pick
      /\ pick = 0 => LowSound(e, kind.n, Low(pre, kind.n - 1))
  <2>1. kind.n >= 4
    OBVIOUS
  <2> HIDE DEF d2, d3
  <2> QED BY <2>1, PickFacts DEF d2, d3
<1> HIDE DEF pick, pre
<1>3. CASE pick # 0
  <2>1. 3 \in 3 .. e.n /\ 3 = kind.n - 1 /\ pick \in Nat \ {0}
    BY <1>2, <1>3 DEF Enters, Setting, Env
  <2>2. LowSound(e, kind.n, Low(Append(pre, <<len, pick - 1>>), len))
    BY <1>2, <1>3, <2>1, PickRun
  <2> QED BY <1>1, <1>3, <2>2
<1>4. CASE pick = 0
  BY <1>1, <1>2, <1>4
<1> QED BY <1>3, <1>4

\* The small hashes of bt5 and hc5.
LEMMA Bt5LowSound ==
    ASSUME NEW f, NEW e, Enters(f, e), LowTables(f, e), kind.n = 5
    PROVE  LowSound(e, 5, Bt5Low(f))
<1> DEFINE d2 == f.pos - f.hash2[H2(f.buf, f.buffer)]
           d3 == f.pos - f.hash3[H3(f.buf, f.buffer)]
           pick == PickLow(f, d2, d3)
           pre == TwoBytes(f, d2, pick)
           len == UpdateMaxLen(f, pick, 4)
           x == e.p - pick
           Fourth == f.buf[f.buffer - pick + 3] = f.buf[f.buffer + 3]
<1>1. Bt5Low(f) = IF pick = 0 THEN Low(pre, 4)
                  ELSE IF ~Fourth THEN Low(Append(pre, <<3, pick - 1>>), 4)
                  ELSE Low(Append(pre, <<len, pick - 1>>), len)
  BY DEF Bt5Low
<1>2. /\ pick \in Nat
      /\ pick # 0 => /\ x \in e.H /\ Same(e.D, x, e.p, 3) /\ Before(e, pre, x)
                     /\ \A y \in e.H : Same(e.D, y, e.p, 3) => y <= x
      /\ pick = 0 => LowSound(e, kind.n, Low(pre, kind.n - 1))
  <2>1. kind.n >= 4
    OBVIOUS
  <2> HIDE DEF d2, d3
  <2> QED BY <2>1, PickFacts DEF d2, d3
<1>3. Env(e) /\ e.n \in Nat /\ e.n >= 5 /\ e.p \in Nat /\ e.H \subseteq Nat
  BY DEF Enters, Setting, Env
<1> HIDE DEF pick, pre, len
<1>4. ASSUME pick # 0 PROVE Fourth <=> Same(e.D, x, e.p, 4)
  <2>1. f.buf[f.buffer - pick + 3] = e.D[x + 3] /\ f.buf[f.buffer + 3] = e.D[e.p + 3]
    <3>1. 3 \in 0 .. e.n - 1 /\ pick \in Int
      BY <1>2, <1>3
    <3> QED BY <3>1, <1>2, <1>4, ShownBytes, ShownHashes
  <2>2. \A k \in 0 .. 4 - 1 : k \in 0 .. 3 - 1 \/ k = 3
    OBVIOUS
  <2>3. 3 \in 0 .. 4 - 1
    OBVIOUS
  <2> HIDE DEF x
  <2> QED BY <1>2, <1>4, <2>1, <2>2, <2>3 DEF Same
<1> HIDE DEF Fourth
<1>5. CASE pick # 0 /\ Fourth
  <2>1. 4 \in 3 .. e.n /\ 4 = kind.n - 1 /\ pick \in Nat \ {0} /\ Same(e.D, x, e.p, 4)
    BY <1>2, <1>3, <1>4, <1>5
  <2>2. LowSound(e, kind.n, Low(Append(pre, <<len, pick - 1>>), len))
    BY <1>2, <1>5, <2>1, PickRun DEF len
  <2> QED BY <1>1, <1>5, <2>2
<1>6. CASE pick # 0 /\ ~Fourth
  <2>1. 4 < e.n => \A y \in e.H : Same(e.D, y, e.p, 4 + 1) => y < x
    <3> SUFFICES ASSUME NEW y \in e.H, Same(e.D, y, e.p, 4 + 1) PROVE y < x
      OBVIOUS
    <3>1. 4 + 1 \in Nat /\ 3 \in 0 .. 4 + 1 /\ 4 \in 0 .. 4 + 1
      OBVIOUS
    <3>2. Same(e.D, y, e.p, 3) /\ Same(e.D, y, e.p, 4)
      BY <3>1, SameLess
    <3>3. y <= x /\ y # x /\ y \in Nat /\ x \in Nat
      BY <3>2, <1>2, <1>3, <1>4, <1>6
    <3> QED BY <3>3
  <2>2. /\ 3 \in 2 .. e.n /\ 3 >= 3 /\ 4 \in 5 - 1 .. e.n /\ 3 <= 4 /\ ~(4 > 5 - 1) /\ 5 \in 2 .. e.n
    BY <1>3
  <2>3. LowSound(e, 5, Low(Append(pre, <<3, (e.p - x) - 1>>), 4))
    <3>1. x \in e.H /\ Same(e.D, x, e.p, 3) /\ Before(e, pre, x)
      BY <1>2, <1>6
    <3> HIDE DEF x
    <3> QED BY <3>1, <1>3, <2>1, <2>2, LowAppend
  <2>4. e.p - x = pick
    BY <1>2, <1>3
  <2> QED BY <1>1, <1>6, <2>3, <2>4
<1>7. CASE pick = 0
  BY <1>1, <1>2, <1>7
<1> QED BY <1>5, <1>6, <1>7

\* The small hashes of every kind.
LEMMA LowMatchesSound ==
    ASSUME NEW f, NEW e, Enters(f, e), LowTables(f, e)
    PROVE  LowSound(e, kind.n, LowMatches(f))
<1>1. kind.n \in 2 .. 5 /\ e.n \in Nat /\ e.n >= kind.n /\ Env(e)
  BY DEF Enters, Setting, Env
<1>2. CASE kind.n = 2
  <2>1. LowMatches(f) = Low(<<>>, 1) /\ 2 \in 2 .. e.n /\ 2 - 1 = 1
    BY <1>1, <1>2 DEF LowMatches
  <2> QED BY <2>1, <1>1, <1>2, LowNone
<1>3. CASE kind.n = 3
  BY <1>3, Bt3LowSound DEF LowMatches
<1>4. CASE kind.n = 4
  BY <1>4, Bt4LowSound DEF LowMatches
<1>5. CASE kind.n = 5
  BY <1>5, Bt5LowSound DEF LowMatches
<1> QED BY <1>1, <1>2, <1>3, <1>4, <1>5

(***************************************************************************)
(* All matches of a position.                                              *)
(***************************************************************************)
\* What the big hash found that has hashes key[x] of the strings: with no cut, every position with the hash of e.p
\* was looked at.
Searched(e, m, recs, key) ==
    \E maxLen :
      /\ Recorded(e, m, -1, recs, maxLen)
      /\ e.F => \A y \in e.H : key[y] = key[e.p] => maxLen >= e.n \/ ~Same(e.D, y, e.p, maxLen + 1)

\* The records of a call: matches, and one as long as any that is long enough to be hashed.
Answers(e, k, recs) ==
    /\ Hits(e, 1, recs)
    /\ e.F => \A y \in e.H, j \in k .. e.n : Same(e.D, y, e.p, j) => Len(recs) > 0 /\ j <= recs[Len(recs)][1]

\* Fewer of the bytes that agree.
LEMMA AgreeLess ==
    ASSUME NEW e, Env(e), NEW y \in e.H, NEW n \in Nat, Same(e.D, y, e.p, n), NEW m \in 0 .. n
    PROVE  Same(e.D, y, e.p, m)
<1>1. e.D \in Texts /\ y \in Nat /\ e.p \in Nat
  BY DEF Env
<1> QED BY <1>1, SameFacts

\* The second of two sequences follows the first.
LEMMA Follows ==
    ASSUME NEW S, NEW a \in Seq(S), NEW b \in Seq(S)
    PROVE  /\ a \o b \in Seq(S) /\ Len(a \o b) = Len(a) + Len(b) /\ Len(a) \in Nat /\ Len(b) \in Nat
           /\ \A j \in 1 .. Len(a) : (a \o b)[j] = a[j]
           /\ \A j \in Len(a) + 1 .. Len(a) + Len(b) : (a \o b)[j] = b[j - Len(a)]
<1>1. Len(a) \in Nat /\ Len(b) \in Nat
  OBVIOUS
<1> DEFINE c == a \o b
           i == Len(a)
           n == Len(b)
<1>2. /\ c \in Seq(S) /\ Len(c) = i + n
      /\ \A j \in 1 .. i + n : c[j] = IF j <= i THEN a[j] ELSE b[j - i]
  BY ConcatProperties
<1> HIDE DEF c, i, n
<1>3. /\ \A j \in 1 .. i : c[j] = a[j]
      /\ \A j \in i + 1 .. i + n : c[j] = b[j - i]
  BY <1>1, <1>2 DEF i, n
<1> QED BY <1>1, <1>2, <1>3 DEF c, i, n

\* The matches of the big hash come after those of the small ones.
LEMMA Together ==
    ASSUME NEW e, Env(e), NEW k \in 2 .. e.n, NEW low, LowSound(e, k, low), NEW recs, NEW key,
           Searched(e, low.maxLen, recs, key), \A y \in e.H : Same(e.D, y, e.p, k) => key[y] = key[e.p]
    PROVE  Answers(e, k, low.recs \o recs)
<1> DEFINE pre == low.recs
           m == low.maxLen
           i == Len(pre)
           n == Len(recs)
           all == pre \o recs
<1>1. PICK maxLen :
           /\ Recorded(e, m, -1, recs, maxLen)
           /\ e.F => \A y \in e.H : key[y] = key[e.p] => maxLen >= e.n \/ ~Same(e.D, y, e.p, maxLen + 1)
  BY DEF Searched
<1>2. /\ pre \in Seq(Nat \X Nat) /\ Grows(pre) /\ \A j \in 1 .. i : Hit(e, pre[j]) /\ pre[j][1] > 1
      /\ m \in k - 1 .. e.n /\ (i > 0 => pre[i][1] <= m) /\ (m > k - 1 => i > 0 /\ pre[i][1] = m)
      /\ m < e.n /\ i > 0 => \A y \in e.H : Same(e.D, y, e.p, m + 1) => y < e.p - (pre[i][2] + 1)
  BY DEF LowSound, Hits
<1>3. /\ recs \in Seq(Nat \X Nat) /\ Grows(recs) /\ \A j \in 1 .. n : Hit(e, recs[j]) /\ recs[j][1] > m
      /\ maxLen \in 0 .. e.n /\ maxLen >= m
      /\ (n = 0 => maxLen = m) /\ (n > 0 => recs[n][1] = maxLen)
  BY <1>1 DEF Recorded, Hits
<1>4. e.n \in Nat /\ e.p \in Nat /\ m \in Nat /\ m >= 1 /\ k \in Nat /\ i \in Nat /\ n \in Nat
  <2>1. e.n \in Nat /\ e.p \in Nat
    BY DEF Env
  <2>2. i \in Nat /\ n \in Nat
    BY <1>2, <1>3, Follows
  <2> DEFINE E == e.n
  <2>3. E \in Nat /\ k \in 2 .. E /\ m \in k - 1 .. E
    BY <2>1, <1>2
  <2> HIDE DEF E, m
  <2>4. k \in Nat /\ m \in Nat /\ m >= 1
    BY <2>3
  <2> QED BY <2>1, <2>2, <2>4
<1>5. /\ all \in Seq(Nat \X Nat) /\ Len(all) = i + n
      /\ \A j \in 1 .. i : all[j] = pre[j]
      /\ \A j \in i + 1 .. i + n : all[j] = recs[j - i]
  <2>1. pre \in Seq(Nat \X Nat) /\ recs \in Seq(Nat \X Nat)
    BY <1>2, <1>3
  <2> HIDE DEF pre
  <2> QED BY <2>1, Follows
<1> HIDE DEF pre, all, i, n, m
<1>6. \A j \in 1 .. i : pre[j] \in Nat \X Nat
  BY <1>2 DEF i
<1>7. \A j \in 1 .. n : recs[j] \in Nat \X Nat
  BY <1>3 DEF n
<1>8. \A j \in 1 .. Len(all) : Hit(e, all[j]) /\ all[j][1] > 1
  <2> TAKE j \in 1 .. Len(all)
  <2>1. CASE j \in 1 .. i
    BY <2>1, <1>2, <1>5
  <2>2. CASE j \in i + 1 .. i + n
    <3>1. j - i \in 1 .. n
      BY <2>2, <1>4
    <3>2. all[j] = recs[j - i] /\ Hit(e, recs[j - i]) /\ recs[j - i][1] > m /\ recs[j - i] \in Nat \X Nat
      BY <2>2, <3>1, <1>3, <1>5, <1>7
    <3> DEFINE l == recs[j - i][1]
    <3>3. l \in Nat /\ l > m
      BY <3>2
    <3> HIDE DEF l
    <3>4. l > 1
      BY <3>3, <1>4
    <3> QED BY <3>2, <3>4 DEF l
  <2> QED BY <2>1, <2>2, <1>4, <1>5
<1>9. Grows(all)
  <2> SUFFICES ASSUME NEW j \in 2 .. Len(all) PROVE all[j - 1][1] < all[j][1] /\ all[j - 1][2] < all[j][2]
    BY DEF Grows
  <2>1. CASE j <= i
    <3>1. j \in 2 .. i /\ j - 1 \in 1 .. i /\ j \in 1 .. i
      BY <2>1, <1>4, <1>5
    <3>2. pre[j - 1][1] < pre[j][1] /\ pre[j - 1][2] < pre[j][2]
      BY <3>1, <1>2 DEF Grows, i
    <3> QED BY <3>1, <3>2, <1>5
  <2>2. CASE j > i + 1
    <3>1. j - i \in 2 .. n /\ (j - 1) - i = (j - i) - 1 /\ j - 1 \in i + 1 .. i + n /\ j \in i + 1 .. i + n
      BY <2>2, <1>4, <1>5
    <3>2. recs[(j - i) - 1][1] < recs[j - i][1] /\ recs[(j - i) - 1][2] < recs[j - i][2]
      BY <3>1, <1>3 DEF Grows, n
    <3> QED BY <3>1, <3>2, <1>5
  <2>3. CASE j = i + 1
    <3> DEFINE a == pre[i]
               b == recs[1]
               y == e.p - (b[2] + 1)
    <3>1. i \in 1 .. i /\ 1 \in 1 .. n /\ i > 0 /\ j - 1 = i /\ all[j - 1] = a /\ all[j] = b
      BY <2>3, <1>4, <1>5
    <3>2. Hit(e, b) /\ b[1] > m /\ a[1] <= m /\ a \in Nat \X Nat /\ b \in Nat \X Nat
      BY <3>1, <1>2, <1>3, <1>6, <1>7
    <3>3. y \in e.H /\ Same(e.D, y, e.p, b[1]) /\ b[1] \in 1 .. e.n
      BY <3>2 DEF Hit
    <3> DEFINE a1 == a[1]
               a2 == a[2]
               b1 == b[1]
               b2 == b[2]
    <3>4. /\ a1 \in Nat /\ a2 \in Nat /\ b1 \in Nat /\ b2 \in Nat /\ b1 > m /\ a1 <= m /\ b1 \in 1 .. e.n /\ y = e.p - (b2 + 1)
          /\ y \in e.H /\ Same(e.D, y, e.p, b1)
      BY <3>2, <3>3
    <3> HIDE DEF a1, a2, b1, b2, y
    <3>5. a1 < b1 /\ m < e.n /\ m + 1 \in 0 .. b1
      BY <3>4, <1>4
    <3>6. Same(e.D, y, e.p, m + 1)
      BY <3>4, <3>5, AgreeLess
    <3>7. y < e.p - (a2 + 1)
      BY <3>1, <3>4, <3>5, <3>6, <1>2 DEF a2
    <3>8. a2 < b2
      BY <3>4, <3>7, <1>4
    <3> QED BY <3>1, <3>5, <3>8 DEF a1, a2, b1, b2
  <2> QED BY <2>1, <2>2, <2>3, <1>4, <1>5
<1>10. Hits(e, 1, all)
  BY <1>5, <1>8, <1>9 DEF Hits
<1>11. ASSUME e.F, NEW y \in e.H, NEW j \in k .. e.n, Same(e.D, y, e.p, j)
       PROVE  Len(all) > 0 /\ j <= all[Len(all)][1]
  <2>1. j \in Nat /\ k \in 0 .. j
    BY <1>4
  <2>2. key[y] = key[e.p]
    BY <1>11, <2>1, AgreeLess
  <2>3. j <= maxLen
    <3> SUFFICES ASSUME j > maxLen PROVE FALSE
      BY <1>3, <2>1
    <3>1. maxLen < e.n /\ maxLen + 1 \in 0 .. j
      BY <1>3, <1>4, <2>1
    <3>2. Same(e.D, y, e.p, maxLen + 1)
      BY <1>11, <2>1, <3>1, AgreeLess
    <3> QED BY <1>1, <1>3, <1>4, <1>11, <2>2, <3>1, <3>2
  <2>4. CASE n > 0
    <3>1. i + n \in i + 1 .. i + n /\ (i + n) - i = n /\ i + n > 0
      BY <2>4, <1>4
    <3> QED BY <3>1, <2>3, <2>4, <1>3, <1>5
  <2>5. CASE n = 0
    <3>1. m > k - 1 /\ i + n = i /\ i > 0 /\ i \in 1 .. i
      <4>1. maxLen = m
        BY <2>5, <1>3
      <4>2. m > k - 1
        BY <4>1, <2>1, <2>3, <1>4
      <4> QED BY <4>2, <2>5, <1>2, <1>4, SMTT(40)
    <3> QED BY <3>1, <2>3, <2>5, <1>2, <1>3, <1>5
  <2> QED BY <2>4, <2>5, <1>4
<1> QED BY <1>10, <1>11 DEF Answers, all, pre

(***************************************************************************)
(* The hash and the tree of bt2 to bt5, from position to position.         *)
(***************************************************************************)
KeyN(D) == [x \in Nat |-> HashCalc(D, x, kind.n)]

\* What it is about at position p of the text D, with n bytes to look at.
Here(D, p, n) == [D |-> D, p |-> p, n |-> n, H |-> Hist(p), F |-> CutValue >= Cyclic]

\* The slot that comes after cp.
NextSlot(cp) == IF cp + 1 = Cyclic THEN 0 ELSE cp + 1

\* The positions that the heads name.
Roots(high, q, p) == {Seen(q, p, high[h]) : h \in DOMAIN high} \cap Hist(p)

\* A tree whose roots are the heads, each with all positions of its hash below it.
Grown(high, son, q, p, cp, n, D, N, I, K) ==
    /\ Tree(Here(D, p, n), N, Children(son, q, p, cp), I, K, Roots(high, q, p))
    /\ \A x \in Roots(high, q, p), y \in Hist(p) : KeyN(D)[y] = KeyN(D)[x] => y \in K[x]

BtTables(high, son, q, p, cp, n, D) ==
    /\ DOMAIN high = HashValues(kind.n) /\ Latest(q, p, high, KeyN(D)) /\ son \in Sons(q)
    /\ \E N, I, K : Grown(high, son, q, p, cp, n, D, N, I, K)

\* The fields of the record that a walk is about.
LEMMA HereFacts ==
    ASSUME NEW D, NEW p, NEW n
    PROVE  /\ Here(D, p, n).D = D /\ Here(D, p, n).p = p /\ Here(D, p, n).n = n
           /\ Here(D, p, n).H = Hist(p) /\ Here(D, p, n).F = (CutValue >= Cyclic)
           /\ After(Here(D, p, n)).D = D /\ After(Here(D, p, n)).p = p + 1 /\ After(Here(D, p, n)).n = n
           /\ After(Here(D, p, n)).H = Hist(p) \cup {p} /\ After(Here(D, p, n)).F = (CutValue >= Cyclic)
  BY DEF Here, After

\* A walk can be about every position.
LEMMA HereEnv ==
    ASSUME NEW D \in Texts, NEW p \in Nat, NEW n \in Nat
    PROVE  Env(Here(D, p, n)) /\ Env(After(Here(D, p, n)))
<1>1. Hist(p) \subseteq 0 .. p - 1 /\ Hist(p) \cup {p} \subseteq 0 .. (p + 1) - 1 /\ p + 1 \in Nat
  BY DEF Hist
<1>2. (CutValue >= Cyclic) \in BOOLEAN
  OBVIOUS
<1> DEFINE e == Here(D, p, n)
           a == After(Here(D, p, n))
<1>3. /\ e.D = D /\ e.p = p /\ e.n = n /\ e.H = Hist(p) /\ e.F = (CutValue >= Cyclic)
      /\ a.D = D /\ a.p = p + 1 /\ a.n = n /\ a.H = Hist(p) \cup {p} /\ a.F = (CutValue >= Cyclic)
  BY HereFacts
<1> HIDE DEF e, a
<1>4. Env(e)
  BY <1>1, <1>2, <1>3 DEF Env
<1>5. Env(a)
  BY <1>1, <1>2, <1>3 DEF Env
<1> QED BY <1>4, <1>5 DEF e, a

\* A position keeps its slot.
LEMMA SlotOn ==
    ASSUME NEW cp \in Slots, NEW p \in Nat
    PROVE  /\ NextSlot(cp) \in Slots
           /\ \A x \in Hist(p + 1) : CyclicBack(NextSlot(cp), (p + 1) - x, Cyclic) = CyclicBack(cp, p - x, Cyclic)
<1>1. Cyclic \in Nat /\ Cyclic = HistorySize + 1 /\ HistorySize \in Nat \ {0} /\ cp \in 0 .. Cyclic - 1
  BY Sizes DEF Slots
<1>2. NextSlot(cp) \in Slots
  BY <1>1 DEF NextSlot, Slots
<1>3. ASSUME NEW x \in Hist(p + 1)
      PROVE CyclicBack(NextSlot(cp), (p + 1) - x, Cyclic) = CyclicBack(cp, p - x, Cyclic)
  <2>1. x \in Nat /\ x < p + 1 /\ p + 1 <= x + HistorySize
    BY DEF Hist
  <2> QED BY <1>1, <2>1 DEF NextSlot, CyclicBack
<1> QED BY <1>2, <1>3

\* A value that names a position of the history names it still, until that is too old.
LEMMA ChildrenAge ==
    ASSUME NEW q, NEW p, Steady(q, p), NEW cp \in Slots, NEW son \in Sons(q)
    PROVE  LET Ch  == Children(son, q, p, cp)
               Ch2 == Children(son, q + 1, p + 1, NextSlot(cp))
           IN  /\ son \in Sons(q + 1)
               /\ Ch2 \in [Nat \X Sides -> Hist(p + 1) \cup {-1}]
               /\ \A x \in Hist(p + 1), t \in Sides : Ch2[<<x, t>>] = IF Ch[<<x, t>>] \in Hist(p + 1) THEN Ch[<<x, t>>] ELSE -1
<1> DEFINE Ch == Children(son, q, p, cp)
           Ch2 == Children(son, q + 1, p + 1, NextSlot(cp))
<1>1. q \in Nat /\ p \in Nat /\ q > 0
  BY DEF Steady
<1>2. son \in Sons(q + 1)
  BY <1>1 DEF Sons
<1>3. Steady(q + 1, p + 1) /\ Hist(p + 1) \subseteq Hist(p) \cup {p} /\ NextSlot(cp) \in Slots
  BY <1>1, HistFacts, SlotOn
<1>4. Ch2 \in [Nat \X Sides -> Hist(p + 1) \cup {-1}]
  BY <1>2, <1>3, ChildrenFacts
<1>5. ASSUME NEW x \in Hist(p + 1), NEW t \in Sides
      PROVE Ch2[<<x, t>>] = IF Ch[<<x, t>>] \in Hist(p + 1) THEN Ch[<<x, t>>] ELSE -1
  <2> DEFINE a == <<x, t>>
             v == son[Place(cp, p, a)]
  <2>1. a \in Places(p + 1) /\ a \in Places(p) /\ a[1] = x /\ a[2] = t
    BY <1>3 DEF Places
  <2>2. Place(NextSlot(cp), p + 1, a) = Place(cp, p, a)
    BY <1>1, <2>1, SlotOn DEF Place
  <2> HIDE DEF a
  <2>3. Ch[a] = Seen(q, p, v) /\ v \in 0 .. q - 1
    BY <2>1, ChildrenFacts
  <2>4. Ch2[a] = Seen(q + 1, p + 1, v)
    BY <1>2, <1>3, <2>1, <2>2, ChildrenFacts
  <2>5. v \in Nat /\ v < q
    BY <2>3, <1>1
  <2> HIDE DEF v, Ch, Ch2
  <2>6. Seen(q + 1, p + 1, v) = IF Seen(q, p, v) \in Hist(p + 1) THEN Seen(q, p, v) ELSE -1
    BY <2>5, SeenFacts
  <2>7. Ch2[a] = IF Ch[a] \in Hist(p + 1) THEN Ch[a] ELSE -1
    BY <2>3, <2>4, <2>6
  <2> QED BY <2>7 DEF a
<1> QED BY <1>2, <1>4, <1>5

\* Distinct heads name distinct positions.
LEMMA HeadsDiffer ==
    ASSUME NEW q, NEW p, NEW high, NEW key, Latest(q, p, high, key), NEW h \in DOMAIN high,
           Seen(q, p, high[h]) \in Hist(p)
    PROVE  /\ key[Seen(q, p, high[h])] = h /\ Seen(q, p, high[h]) \in Roots(high, q, p)
           /\ \A k \in DOMAIN high : Seen(q, p, high[k]) = Seen(q, p, high[h]) => k = h
<1>1. \A k \in DOMAIN high : Seen(q, p, high[k]) \in Hist(p) => key[Seen(q, p, high[k])] = k
  BY DEF Latest, IsLatest
<1> QED BY <1>1 DEF Roots

\* The heads once the position p is entered under the hash h.
LEMMA RootsEnter ==
    ASSUME NEW q, NEW p, Steady(q, p), NEW high, NEW key, Latest(q, p, high, key), NEW h \in DOMAIN high,
           NEW c, c = Seen(q, p, high[h]), NEW T, T = [high EXCEPT ![h] = q]
    PROVE  Roots(T, q + 1, p + 1) = ((Roots(high, q, p) \ {c}) \cup {p}) \cap Hist(p + 1)
<1> DEFINE New == Roots(T, q + 1, p + 1)
           Old == Roots(high, q, p)
<1>1. DOMAIN T = DOMAIN high /\ T[h] = q /\ \A k \in DOMAIN high : k # h => T[k] = high[k]
  OBVIOUS
<1>2. Seen(q + 1, p + 1, q) = p /\ p \in Hist(p + 1) /\ Hist(p + 1) \subseteq Hist(p) \cup {p} /\ p \notin Hist(p)
  BY HistFacts
<1>3. \A k \in DOMAIN high : high[k] \in Nat /\ high[k] < q
  BY DEF Latest, IsLatest
<1>4. ASSUME NEW k \in DOMAIN high
      PROVE  Seen(q + 1, p + 1, high[k]) = IF Seen(q, p, high[k]) \in Hist(p + 1) THEN Seen(q, p, high[k]) ELSE -1
  BY <1>3, SeenFacts
<1>5. -1 \notin Hist(p + 1)
  BY DEF Hist
<1>6. ASSUME NEW k \in DOMAIN high, k # h, Seen(q, p, high[k]) \in Hist(p) PROVE Seen(q, p, high[k]) # c
  BY <1>6, HeadsDiffer
<1>7. ASSUME NEW x \in New PROVE x \in ((Old \ {c}) \cup {p}) \cap Hist(p + 1)
  <2>1. PICK k \in DOMAIN T : x = Seen(q + 1, p + 1, T[k])
    BY DEF Roots
  <2>2. x \in Hist(p + 1)
    BY DEF Roots
  <2>3. CASE k = h
    BY <2>1, <2>2, <2>3, <1>1, <1>2
  <2>4. CASE k # h
    <3>1. T[k] = high[k] /\ k \in DOMAIN high
      BY <2>4, <1>1
    <3>2. x = Seen(q, p, high[k])
      BY <2>1, <2>2, <3>1, <1>4, <1>5
    <3>3. CASE x = p
      BY <3>3, <2>2
    <3>4. CASE x # p
      <4>1. x \in Hist(p)
        BY <2>2, <3>4, <1>2
      <4> QED BY <4>1, <2>2, <2>4, <3>1, <3>2, <1>6 DEF Roots
    <3> QED BY <3>3, <3>4
  <2> QED BY <2>3, <2>4
<1>8. ASSUME NEW x \in ((Old \ {c}) \cup {p}) \cap Hist(p + 1) PROVE x \in New
  <2>1. CASE x = p
    BY <2>1, <1>1, <1>2 DEF Roots
  <2>2. CASE x \in Old \ {c}
    <3>1. PICK k \in DOMAIN high : x = Seen(q, p, high[k])
      BY <2>2 DEF Roots
    <3>2. k # h
      BY <2>2, <3>1
    <3> QED BY <3>1, <3>2, <1>1, <1>4 DEF Roots
  <2> QED BY <2>1, <2>2
<1> QED BY <1>7, <1>8

\* The position p is entered in the hash and the tree, and the matches are found.
LEMMA BtEnters ==
    ASSUME NEW B, NEW b, NEW q, NEW p, NEW cp, NEW n, NEW D \in Bits, Setting(B, b, q, cp, Here(D, p, n)),
           NEW high, NEW son, BtTables(high, son, q, p, cp, n, D), NEW h \in DOMAIN high, h = KeyN(D)[p],
           NEW m \in 0 .. n
    PROVE  LET g == GetMatchesSpec1(B, b, q, cp, Cyclic, son, high[h], n, m, CutValue)
           IN  /\ Searched(Here(D, p, n), m, g.recs, KeyN(D))
               /\ BtTables([high EXCEPT ![h] = q], g.son, q + 1, p + 1, NextSlot(cp), n, D)
<1> DEFINE e == Here(D, p, n)
           head == high[h]
           c == Seen(q, p, head)
           g == GetMatchesSpec1(B, b, q, cp, Cyclic, son, head, n, m, CutValue)
           R == Roots(high, q, p)
           T == [high EXCEPT ![h] = q]
           S == Roots(T, q + 1, p + 1)
           key == KeyN(D)
<1>1. /\ e.D = D /\ e.p = p /\ e.n = n /\ e.H = Hist(p) /\ e.F = (CutValue >= Cyclic)
      /\ After(e).D = D /\ After(e).p = p + 1 /\ After(e).n = n /\ After(e).H = Hist(p) \cup {p}
      /\ After(e).F = (CutValue >= Cyclic)
  BY HereFacts
<1> HIDE DEF e
<1>2. /\ Env(e) /\ Steady(q, p) /\ cp \in Slots /\ q \in Nat /\ p \in Nat /\ n \in Nat /\ Setting(B, b, q, cp, e)
      /\ D \in Texts
  BY <1>1 DEF Setting, Env, Steady, e
<1>3. DOMAIN high = HashValues(kind.n) /\ Latest(q, p, high, key) /\ son \in Sons(q)
  BY DEF BtTables
<1>4. PICK N, I, K : Grown(high, son, q, p, cp, n, D, N, I, K)
  BY DEF BtTables
<1>5. /\ Tree(e, N, Children(son, q, p, cp), I, K, R)
      /\ \A x \in R, y \in Hist(p) : key[y] = key[x] => y \in K[x]
  BY <1>4 DEF Grown, e
<1>6. IsLatest(q, p, p, head, h, key)
  BY <1>3 DEF Latest
<1>7. head \in 0 .. q - 1
  <2>1. head \in Nat /\ head < q
    BY <1>6 DEF IsLatest
  <2> HIDE DEF head
  <2> QED BY <2>1, <1>2
<1>8. c \in Hist(p) => c \in R /\ key[c] = h
  BY <1>3, HeadsDiffer
<1>9. -1 \notin Hist(p) /\ p \notin Hist(p) /\ Hist(p) \subseteq Nat /\ Hist(p + 1) \subseteq Hist(p) \cup {p} /\ p \in Hist(p + 1)
      /\ \A x \in Hist(p) : \A y \in Hist(p + 1) : y <= x => x \in Hist(p + 1)
  <2>1. -1 \notin Hist(p)
    BY DEF Hist
  <2> QED BY <2>1, <1>2, HistFacts
<1> HIDE DEF head, c, R, key, T, S, g
<1> DEFINE KK == Looked(e, K, c)
<1>10. /\ g.son \in Sons(q)
       /\ \E maxLen : /\ Recorded(e, m, -1, g.recs, maxLen)
                      /\ e.F => \A y \in KK[e.p] \cap e.H : maxLen >= e.n \/ ~Same(e.D, y, e.p, maxLen + 1)
       /\ \E M, I2, K2 : /\ Tree(After(e), M, Children(g.son, q, e.p, cp), I2, K2, (R \ {c}) \cup {e.p})
                         /\ SameKept(e, R \ {c}, K2, KK)
  <2>1. c = Seen(q, e.p, head) /\ (c \in e.H => c \in R) /\ m \in 0 .. e.n /\ Tree(e, N, Children(son, q, e.p, cp), I, K, R)
    BY <1>1, <1>5, <1>8 DEF c
  <2>2. g = GetMatchesSpec1(B, b, q, cp, Cyclic, son, head, e.n, m, CutValue)
    BY <1>1 DEF g
  <2> DEFINE g0 == GetMatchesSpec1(B, b, q, cp, Cyclic, son, head, e.n, m, CutValue)
  <2>3. Env(e) /\ Setting(B, b, q, cp, e) /\ e.F = (CutValue >= Cyclic) /\ son \in Sons(q) /\ head \in 0 .. q - 1
    BY <1>1, <1>2, <1>3, <1>7
  <2>4. /\ g0.son \in Sons(q)
        /\ \E maxLen : /\ Recorded(e, m, -1, g0.recs, maxLen)
                       /\ e.F => \A y \in Looked(e, K, c)[e.p] \cap e.H : maxLen >= e.n \/ ~Same(e.D, y, e.p, maxLen + 1)
        /\ \E M, I2, K2 : /\ Tree(After(e), M, Children(g0.son, q, e.p, cp), I2, K2, (R \ {c}) \cup {e.p})
                          /\ SameKept(e, R \ {c}, K2, Looked(e, K, c))
    BY <2>1, <2>3, TreeWalk, ZenonT(60)
  <2> HIDE DEF g0
  <2>5. g = g0
    BY <2>2 DEF g0
  <2> QED BY <2>4, <2>5, Zenon
<1>11. K \in [Nat -> SUBSET Nat] /\ N \subseteq Hist(p) /\ R \subseteq Hist(p)
  BY <1>1, <1>5 DEF Tree, Shapes, R, Roots
<1>12. /\ KK[p] = {p} \cup (IF c \in Hist(p) THEN K[c] ELSE {})
       /\ \A x \in Nat : x # p => KK[x] = K[x]
  BY <1>1, <1>2, <1>11 DEF Looked
<1>13. \A y \in Hist(p) : key[y] = h => y \in KK[p]
  <2> TAKE y \in Hist(p)
  <2> HAVE key[y] = h
  <2>1. y < p
    BY DEF Hist
  <2>2. c \in Hist(p)
    BY <2>1, <1>6 DEF IsLatest, c
  <2>3. y \in K[c]
    BY <2>2, <1>5, <1>8
  <2> QED BY <2>2, <2>3, <1>12
<1> HIDE DEF KK
<1>14. Searched(e, m, g.recs, key)
  <2>1. h = key[p]
    BY DEF key
  <2>2. PICK maxLen :
             /\ Recorded(e, m, -1, g.recs, maxLen)
             /\ e.F => \A y \in KK[e.p] \cap e.H : maxLen >= e.n \/ ~Same(e.D, y, e.p, maxLen + 1)
    BY <1>10
  <2>3. ASSUME e.F, NEW y \in e.H, key[y] = key[e.p] PROVE maxLen >= e.n \/ ~Same(e.D, y, e.p, maxLen + 1)
    <3>1. y \in KK[e.p] \cap e.H
      BY <2>1, <2>3, <1>1, <1>13
    <3> QED BY <2>2, <2>3, <3>1
  <2> QED BY <2>2, <2>3 DEF Searched
<1>15. PICK M, I2, K2 : /\ Tree(After(e), M, Children(g.son, q, p, cp), I2, K2, (R \ {c}) \cup {p})
                        /\ SameKept(e, R \ {c}, K2, KK)
  BY <1>1, <1>10
<1> DEFINE f == Here(D, p + 1, n)
           q2 == q + 1
           p2 == p + 1
           Ch2 == Children(g.son, q + 1, p + 1, NextSlot(cp))
<1>16. f.D = D /\ f.p = p + 1 /\ f.n = n /\ f.H = Hist(p + 1) /\ f.F = (CutValue >= Cyclic)
  BY HereFacts
<1> HIDE DEF f
<1>17. Later(After(e), f)
  <2>1. n \in 0 .. n
    BY <1>2
  <2>2. \A x \in Hist(p) \cup {p} : \A y \in Hist(p + 1) : y <= x => x \in Hist(p + 1)
    BY <1>9
  <2> QED BY <2>1, <2>2, <1>1, <1>9, <1>16 DEF Later
<1>18. /\ g.son \in Sons(q + 1) /\ Ch2 \in [Nat \X Sides -> f.H \cup {-1}]
       /\ \A x \in f.H : \A t \in Sides :
            Ch2[<<x, t>>] = IF Children(g.son, q, p, cp)[<<x, t>>] \in f.H THEN Children(g.son, q, p, cp)[<<x, t>>] ELSE -1
  <2> DEFINE sn == g.son
  <2>1. sn \in Sons(q) /\ Steady(q, p) /\ cp \in Slots
    BY <1>2, <1>10
  <2> HIDE DEF sn
  <2>2. /\ sn \in Sons(q + 1)
        /\ Children(sn, q + 1, p + 1, NextSlot(cp)) \in [Nat \X Sides -> Hist(p + 1) \cup {-1}]
        /\ \A x \in Hist(p + 1), t \in Sides :
             Children(sn, q + 1, p + 1, NextSlot(cp))[<<x, t>>] = IF Children(sn, q, p, cp)[<<x, t>>] \in Hist(p + 1)
                                                                  THEN Children(sn, q, p, cp)[<<x, t>>] ELSE -1
    BY <2>1, ChildrenAge
  <2> QED BY <2>2, <1>16 DEF sn
<1>19. Env(After(e))
  BY <1>2, HereEnv DEF e
<1>20. S = ((R \ {c}) \cup {p}) \cap Hist(p + 1)
  <2>1. c = Seen(q, p, high[h])
    BY DEF c, head
  <2>3. Steady(q, p) /\ Latest(q, p, high, key) /\ h \in DOMAIN high
    BY <1>2, <1>3
  <2>4. Roots(T, q + 1, p + 1) = ((Roots(high, q, p) \ {c}) \cup {p}) \cap Hist(p + 1)
    BY <2>1, <2>3, RootsEnter DEF T
  <2> QED BY <2>4 DEF S, R
<1> HIDE DEF Ch2
<1>21. Tree(f, M \cap f.H, Ch2, I2, K2, S)
  <2>1. S = ((R \ {c}) \cup {p}) \cap f.H
    BY <1>16, <1>20
  <2> DEFINE a == After(e)
             Ch1 == Children(g.son, q, p, cp)
             Q == (R \ {c}) \cup {p}
  <2>2. /\ Env(a) /\ Tree(a, M, Ch1, I2, K2, Q) /\ Later(a, f)
        /\ Ch2 \in [Nat \X Sides -> f.H \cup {-1}]
        /\ \A x \in f.H : \A t \in Sides : Ch2[<<x, t>>] = IF Ch1[<<x, t>>] \in f.H THEN Ch1[<<x, t>>] ELSE -1
    BY <1>15, <1>17, <1>18, <1>19
  <2> HIDE DEF a, Ch1, Q
  <2>3. Tree(f, M \cap f.H, Ch2, I2, K2, Q \cap f.H)
    BY <2>2, TimeGoesBy
  <2> QED BY <2>1, <2>3 DEF Q
<1>22. ASSUME NEW x \in S, NEW y \in Hist(p + 1), key[y] = key[x] PROVE y \in K2[x]
  <2>1. K2[x] = KK[x]
    BY <1>1, <1>15, <1>20 DEF SameKept
  <2>2. CASE x = p
    <3>1. key[y] = h
      BY <1>22, <2>2 DEF key
    <3>2. y = p \/ y \in Hist(p)
      BY <1>9
    <3> QED BY <3>1, <3>2, <2>1, <2>2, <1>12, <1>13
  <2>3. CASE x # p
    <3>1. x \in R /\ x # c /\ x \in Nat
      BY <2>3, <1>9, <1>11, <1>20
    <3>2. key[x] # h
      <4> SUFFICES ASSUME key[x] = h PROVE FALSE
        OBVIOUS
      <4>1. PICK k \in DOMAIN high : x = Seen(q, p, high[k])
        BY <3>1 DEF R, Roots
      <4>2. key[x] = k
        BY <4>1, <3>1, <1>3, <1>11, HeadsDiffer
      <4> QED BY <4>1, <4>2, <3>1 DEF c, head
    <3>3. y # p
      BY <3>2, <1>22 DEF key
    <3>4. y \in K[x]
      BY <3>1, <3>3, <1>5, <1>9, <1>22
    <3> QED BY <3>1, <3>4, <2>1, <2>3, <1>12
  <2> QED BY <2>2, <2>3
<1>23. Grown(T, g.son, q + 1, p + 1, NextSlot(cp), n, D, M \cap f.H, I2, K2)
  BY <1>21, <1>22 DEF Grown, f, Ch2, S, key
<1>24. DOMAIN T = HashValues(kind.n) /\ Latest(q + 1, p + 1, T, key)
  <2>1. T = [high EXCEPT ![key[p]] = q]
    BY DEF T, key
  <2>2. Latest(q + 1, p + 1, T, key)
    BY <2>1, <1>2, <1>3, LatestEnters
  <2> QED BY <2>2, <1>3 DEF T
<1>25. BtTables(T, g.son, q + 1, p + 1, NextSlot(cp), n, D)
  BY <1>18, <1>23, <1>24 DEF BtTables, key
<1> QED BY <1>14, <1>25 DEF e, g, T, key, head

\* With fewer bytes to look at, the tables are as good.
LEMMA BtFewer ==
    ASSUME NEW q, NEW p \in Nat, NEW cp, NEW n \in Nat, NEW D \in Texts, NEW high, NEW son, BtTables(high, son, q, p, cp, n, D),
           NEW k \in 0 .. n
    PROVE  BtTables(high, son, q, p, cp, k, D)
<1> DEFINE e == Here(D, p, n)
           f == Here(D, p, k)
           R == Roots(high, q, p)
           Ch == Children(son, q, p, cp)
<1>1. PICK N, I, K : Grown(high, son, q, p, cp, n, D, N, I, K)
  BY DEF BtTables
<1>2. /\ Tree(e, N, Ch, I, K, R)
      /\ \A x \in R, y \in Hist(p) : KeyN(D)[y] = KeyN(D)[x] => y \in K[x]
  BY <1>1 DEF Grown
<1>3. /\ e.D = D /\ e.p = p /\ e.n = n /\ e.H = Hist(p) /\ e.F = (CutValue >= Cyclic)
      /\ f.D = D /\ f.p = p /\ f.n = k /\ f.H = Hist(p) /\ f.F = (CutValue >= Cyclic)
  BY HereFacts
<1>4. Env(e)
  BY HereEnv
<1>5. R \cap Hist(p) = R
  BY DEF Roots
<1> HIDE DEF e, f, R, Ch
<1>6. Later(e, f)
  BY <1>3 DEF Later
<1>7. Ch \in [Nat \X Sides -> Hist(p) \cup {-1}]
  BY <1>2, <1>3 DEF Tree, Shapes
<1>8. /\ Ch \in [Nat \X Sides -> f.H \cup {-1}]
      /\ \A x \in f.H : \A t \in Sides : Ch[<<x, t>>] = IF Ch[<<x, t>>] \in f.H THEN Ch[<<x, t>>] ELSE -1
  <2>1. \A x \in Hist(p) : \A t \in Sides : Ch[<<x, t>>] \in Hist(p) \cup {-1}
    BY <1>7 DEF Hist
  <2> QED BY <2>1, <1>3, <1>7
<1>9. Tree(f, N \cap f.H, Ch, I, K, R \cap f.H)
  BY <1>2, <1>4, <1>6, <1>8, TimeGoesBy
<1>10. Grown(high, son, q, p, cp, k, D, N \cap f.H, I, K)
  BY <1>2, <1>3, <1>5, <1>9 DEF Grown, f, R, Ch
<1> QED BY <1>10 DEF BtTables

\* Normalising the positions in a table.
Norm(T) == Normalize3(PosMod - Cyclic, T)

\* normalize: a value names the same position before and after it.
LEMMA NormFacts ==
    ASSUME NEW p, Steady(PosMod, p), NEW T, NEW i \in DOMAIN T, T[i] \in Nat, T[i] < PosMod
    PROVE  /\ DOMAIN Norm(T) = DOMAIN T /\ Norm(T)[i] = MaxOf(T[i], PosMod - Cyclic) - (PosMod - Cyclic)
           /\ Norm(T)[i] \in 0 .. Cyclic - 1 /\ Seen(Cyclic, p, Norm(T)[i]) = Seen(PosMod, p, T[i])
<1>1. DOMAIN Norm(T) = DOMAIN T /\ Norm(T)[i] = MaxOf(T[i], PosMod - Cyclic) - (PosMod - Cyclic)
  BY DEF Norm, Normalize3
<1> DEFINE v == T[i]
<1>2. v \in Nat /\ v < PosMod
  OBVIOUS
<1> HIDE DEF v
<1>3. /\ MaxOf(v, PosMod - Cyclic) - (PosMod - Cyclic) \in 0 .. Cyclic - 1
      /\ Seen(Cyclic, p, MaxOf(v, PosMod - Cyclic) - (PosMod - Cyclic)) = Seen(PosMod, p, v)
  BY <1>2, SeenWraps
<1> QED BY <1>1, <1>3 DEF v

\* The heads stay the latest positions of their hashes.
LEMMA LatestNorm ==
    ASSUME NEW p, Steady(PosMod, p), NEW T, NEW key, Latest(PosMod, p, T, key)
    PROVE  Latest(Cyclic, p, Norm(T), key) /\ DOMAIN Norm(T) = DOMAIN T
<1>1. DOMAIN Norm(T) = DOMAIN T
  BY DEF Norm, Normalize3
<1>2. ASSUME NEW h \in DOMAIN T PROVE IsLatest(Cyclic, p, p, Norm(T)[h], h, key)
  <2>1. IsLatest(PosMod, p, p, T[h], h, key)
    BY DEF Latest
  <2>2. Norm(T)[h] = MaxOf(T[h], PosMod - Cyclic) - (PosMod - Cyclic)
    BY DEF Norm, Normalize3
  <2> QED BY <2>1, <2>2, LatestWraps
<1> QED BY <1>1, <1>2 DEF Latest

\* The children stay the same.
LEMMA ChildrenNorm ==
    ASSUME NEW p, Steady(PosMod, p), NEW cp \in Slots, NEW son \in Sons(PosMod)
    PROVE  Norm(son) \in Sons(Cyclic) /\ Children(Norm(son), Cyclic, p, cp) = Children(son, PosMod, p, cp)
<1>1. PosMod \in Nat /\ Cyclic \in Nat /\ p \in Nat
  BY Sizes DEF Steady
<1>2. /\ DOMAIN son = 0 .. 2 * Cyclic - 1
      /\ \A i \in 0 .. 2 * Cyclic - 1 : son[i] \in Nat /\ son[i] < PosMod
  BY <1>1 DEF Sons
<1>3. \A i \in 0 .. 2 * Cyclic - 1 : Norm(son)[i] \in 0 .. Cyclic - 1 /\ Seen(Cyclic, p, Norm(son)[i]) = Seen(PosMod, p, son[i])
  BY <1>2, NormFacts
<1>4. Norm(son) \in Sons(Cyclic)
  BY <1>2, <1>3 DEF Norm, Normalize3, Sons
<1>5. \A a \in Nat \X Sides : a[1] \in Hist(p) \cup {p} => Place(cp, p, a) \in 0 .. 2 * Cyclic - 1
  <2> SUFFICES ASSUME NEW a \in Nat \X Sides, a[1] \in Hist(p) \cup {p} PROVE Place(cp, p, a) \in 0 .. 2 * Cyclic - 1
    OBVIOUS
  <2>1. a \in Places(p)
    BY DEF Places
  <2> QED BY <2>1, <1>1, PlaceFacts
<1> QED BY <1>3, <1>4, <1>5 DEF Children

\* The tree of the finder stays the same.
LEMMA BtNorm ==
    ASSUME NEW p, Steady(PosMod, p), NEW cp \in Slots, NEW n, NEW D, NEW high, NEW son, BtTables(high, son, PosMod, p, cp, n, D)
    PROVE  BtTables(Norm(high), Norm(son), Cyclic, p, cp, n, D)
<1>1. DOMAIN high = HashValues(kind.n) /\ Latest(PosMod, p, high, KeyN(D)) /\ son \in Sons(PosMod)
  BY DEF BtTables
<1>2. Latest(Cyclic, p, Norm(high), KeyN(D)) /\ DOMAIN Norm(high) = DOMAIN high
  BY <1>1, LatestNorm
<1>3. Norm(son) \in Sons(Cyclic) /\ Children(Norm(son), Cyclic, p, cp) = Children(son, PosMod, p, cp)
  BY <1>1, ChildrenNorm
<1>4. Roots(Norm(high), Cyclic, p) = Roots(high, PosMod, p)
  <2>1. \A h \in DOMAIN high : high[h] \in Nat /\ high[h] < PosMod
    BY <1>1 DEF Latest, IsLatest
  <2>2. \A h \in DOMAIN high : Seen(Cyclic, p, Norm(high)[h]) = Seen(PosMod, p, high[h])
    BY <2>1, NormFacts
  <2> QED BY <2>2, <1>2 DEF Roots
<1>5. PICK N, I, K : Grown(high, son, PosMod, p, cp, n, D, N, I, K)
  BY DEF BtTables
<1>6. Grown(Norm(high), Norm(son), Cyclic, p, cp, n, D, N, I, K)
  BY <1>3, <1>4, <1>5 DEF Grown
<1> QED BY <1>1, <1>2, <1>3, <1>6 DEF BtTables

(***************************************************************************)
(* The chains of hc4 and hc5.                                              *)
(***************************************************************************)
Links(q) == [Slots -> 0 .. q - 1]

\* The chain of a position goes on with the latest one before it that has its hash.
Chained(son, q, p, cp, key) ==
    /\ son \in Links(q)
    /\ \A x \in Hist(p) : IsLatest(q, p, x, son[CyclicBack(cp, p - x, Cyclic)], key[x], key)

\* The search w along the chain of e.p, with i links behind it.
AlongChain(e, q, key, m, w, i) ==
    LET c == Seen(q, e.p, w.cm)
    IN  /\ {"cm", "maxLen", "recs"} \subseteq DOMAIN w /\ w.cm \in 0 .. q - 1
        /\ Recorded(e, m, c, w.recs, w.maxLen)
        /\ c \in e.H => key[c] = key[e.p] /\ (w.maxLen = e.n \/ i < e.p - c)
        /\ \A y \in e.H : key[y] = key[e.p] =>
             (c \in e.H /\ y <= c) \/ w.maxLen >= e.n \/ ~Same(e.D, y, e.p, w.maxLen + 1)

\* A link more.
LEMMA LinkStep ==
    ASSUME NEW B, NEW b, NEW q, NEW cp, NEW e, Setting(B, b, q, cp, e), NEW son, NEW key, Chained(son, q, e.p, cp, key),
           NEW m \in 0 .. e.n, NEW w, NEW i \in Nat, AlongChain(e, q, key, m, w, i)
    PROVE  AlongChain(e, q, key, m, HcLink(w, B, b, q, cp, Cyclic, son, e.n), i + 1)
<1> DEFINE w2 == HcLink(w, B, b, q, cp, Cyclic, son, e.n)
           v == w.cm
           c == Seen(q, e.p, v)
           max == w.maxLen
           delta == q - v
           len == MatchRun(B, delta, b, b + e.n) - b
           next == son[CyclicBack(cp, delta, Cyclic)]
           d == Seen(q, e.p, next)
<1>1. /\ Env(e) /\ e.H = Hist(e.p) /\ Steady(q, e.p) /\ cp \in Slots /\ b \in Int /\ e.p \in Nat /\ e.n \in Nat /\ q \in Nat
      /\ Cyclic \in Nat /\ e.D \in Texts
  BY Sizes DEF Setting, Env, Steady
<1>2. /\ {"cm", "maxLen", "recs"} \subseteq DOMAIN w /\ v \in 0 .. q - 1
      /\ Recorded(e, m, c, w.recs, max)
      /\ c \in e.H => key[c] = key[e.p] /\ (max = e.n \/ i < e.p - c)
      /\ \A y \in e.H : key[y] = key[e.p] => (c \in e.H /\ y <= c) \/ max >= e.n \/ ~Same(e.D, y, e.p, max + 1)
  BY DEF AlongChain
<1>3. max \in 0 .. e.n /\ max \in Nat
  BY <1>1, <1>2 DEF Recorded
<1>4. /\ c \in e.H <=> v > 0 /\ q - v < Cyclic
      /\ c \in e.H => e.p - c = q - v
  <2>1. v \in Nat /\ v < q
    BY <1>1, <1>2
  <2> HIDE DEF v
  <2> QED BY <2>1, <1>1, SeenFacts DEF c
<1>5. CASE max = e.n \/ v = Empty \/ delta >= Cyclic
  <2>1. w2 = w
    BY <1>5 DEF HcLink
  <2>2. c \in e.H => max = e.n
    BY <1>1, <1>2, <1>4, <1>5 DEF Empty
  <2> QED BY <1>2, <2>1, <2>2 DEF AlongChain
<1>6. CASE ~(max = e.n \/ v = Empty \/ delta >= Cyclic)
  <2>1. c \in e.H /\ max # e.n /\ delta = e.p - c
    BY <1>1, <1>2, <1>4, <1>6 DEF Empty
  <2>2. c \in Nat /\ c < e.p
    BY <2>1, <1>1 DEF Env
  <2>3. w2 = IF len > max THEN [w EXCEPT !.cm = next, !.maxLen = len, !.recs = Append(@, <<len, delta - 1>>)]
             ELSE [w EXCEPT !.cm = next]
    BY <1>6 DEF HcLink
  <2>4. len \in 0 .. e.n /\ Same(e.D, c, e.p, len) /\ (len < e.n => ~Same(e.D, c, e.p, len + 1))
    <3>1. 0 \in 0 .. e.n /\ Same(e.D, c, e.p, 0) /\ b + 0 = b
      BY <1>1 DEF Same
    <3>2. LET l == MatchRun(B, e.p - c, b + 0, b + e.n) - b
          IN  /\ l \in 0 .. e.n /\ Same(e.D, c, e.p, l)
              /\ l < e.n => ~Same(e.D, c, e.p, l + 1)
      <4> HIDE DEF c
      <4> QED BY <2>1, <3>1, AgreesHere
    <3> QED BY <2>1, <3>1, <3>2
  <2>5. IsLatest(q, e.p, c, next, key[c], key)
    BY <1>1, <2>1 DEF Chained
  <2>6. next \in 0 .. q - 1
    <3>1. next \in Nat /\ next < q
      BY <2>5 DEF IsLatest
    <3> HIDE DEF next
    <3> QED BY <3>1, <1>1
  <2> HIDE DEF v, c, max, delta, len, next, d, w2
  <2>7. /\ d \in e.H => d < c /\ key[d] = key[e.p]
        /\ \A y \in e.H : y < c /\ key[y] = key[e.p] => d \in e.H /\ y <= d
    <3>1. key[c] = key[e.p]
      BY <1>2, <2>1
    <3> QED BY <3>1, <2>5, <1>1 DEF IsLatest, d
  <2> DEFINE recs2 == IF len > max THEN Append(w.recs, <<len, (e.p - c) - 1>>) ELSE w.recs
             max2 == MaxOf(max, len)
  <2>8. Recorded(e, m, d, recs2, max2)
    <3>1. m \in Nat
      BY <1>1
    <3> QED BY <3>1, <1>1, <1>2, <2>1, <2>4, <2>7, RecordNode
  <2>9. w2.cm = next /\ w2.recs = recs2 /\ w2.maxLen = max2 /\ {"cm", "maxLen", "recs"} \subseteq DOMAIN w2
    <3>1. CASE len > max
      <4>1. w2 = [w EXCEPT !.cm = next, !.maxLen = len, !.recs = Append(@, <<len, delta - 1>>)]
        BY <2>3, <3>1
      <4>2. max2 = len
        BY <3>1, <1>3, <2>4 DEF MaxOf
      <4>3. w2.cm = next /\ w2.maxLen = len /\ w2.recs = Append(w.recs, <<len, delta - 1>>) /\ DOMAIN w2 = DOMAIN w
        BY <4>1, <1>2
      <4> QED BY <4>2, <4>3, <3>1, <1>2, <2>1
    <3>2. CASE ~(len > max)
      <4>1. w2 = [w EXCEPT !.cm = next]
        BY <2>3, <3>2
      <4>2. max2 = max
        BY <3>2, <1>3, <2>4 DEF MaxOf
      <4>3. w2.cm = next /\ w2.maxLen = max /\ w2.recs = w.recs /\ DOMAIN w2 = DOMAIN w
        BY <4>1, <1>2 DEF max
      <4> QED BY <4>2, <4>3, <3>2, <1>2
    <3> QED BY <3>1, <3>2
  <2>10. max2 \in 0 .. e.n /\ max2 \in Nat /\ max2 >= max /\ max2 >= len
    BY <1>1, <1>3, <2>4 DEF MaxOf
  <2> HIDE DEF recs2, max2
  <2>11. d \in e.H => key[d] = key[e.p] /\ (max2 = e.n \/ i + 1 < e.p - d)
    <3> SUFFICES ASSUME d \in e.H PROVE key[d] = key[e.p] /\ i + 1 < e.p - d
      OBVIOUS
    <3>1. d \in Nat /\ d < c /\ i < e.p - c
      BY <1>1, <1>2, <2>1, <2>7 DEF Env
    <3> QED BY <3>1, <2>2, <2>7, <1>1
  <2>12. ASSUME NEW y \in e.H, key[y] = key[e.p]
         PROVE  (d \in e.H /\ y <= d) \/ max2 >= e.n \/ ~Same(e.D, y, e.p, max2 + 1)
    <3> SUFFICES ASSUME max2 < e.n, Same(e.D, y, e.p, max2 + 1) PROVE d \in e.H /\ y <= d
      BY <1>1, <2>10
    <3>1. y \in Nat
      BY <1>1 DEF Env
    <3>2. max2 + 1 \in Nat /\ max + 1 \in 0 .. max2 + 1 /\ len + 1 \in 0 .. max2 + 1 /\ max < e.n /\ len < e.n
      BY <1>1, <1>3, <2>4, <2>10
    <3>3. Same(e.D, y, e.p, max + 1) /\ Same(e.D, y, e.p, len + 1)
      BY <1>1, <3>2, AgreeLess
    <3>4. y <= c
      BY <1>1, <1>2, <1>3, <2>12, <3>2, <3>3
    <3>5. y # c
      BY <2>4, <3>2, <3>3
    <3> QED BY <3>1, <3>4, <3>5, <2>2, <2>7, <2>12
  <2>13. AlongChain(e, q, key, m, w2, i + 1)
    BY <2>6, <2>8, <2>9, <2>11, <2>12 DEF AlongChain, d
  <2> QED BY <2>13 DEF w2
<1> QED BY <1>5, <1>6

\* The search along a chain finds the longest of the matches with the hash of the position.
LEMMA ChainWalk ==
    ASSUME NEW B, NEW b, NEW q, NEW cp, NEW e, Setting(B, b, q, cp, e), e.F = (CutValue >= Cyclic), NEW son, NEW key,
           Chained(son, q, e.p, cp, key), NEW head, IsLatest(q, e.p, e.p, head, key[e.p], key), NEW m \in 0 .. e.n
    PROVE  Searched(e, m, HcGetMatchesSpec(B, b, q, cp, Cyclic, son, head, e.n, m, CutValue), key)
<1> DEFINE Step(r, i) == HcLink(r, B, b, q, cp, Cyclic, son, e.n)
           base == [cm |-> head, maxLen |-> m, recs |-> <<>>]
           Rec(f, n) == f = [i \in 0 .. n |-> IF i = 0 THEN base ELSE Step(f[i - 1], i)]
           x == CHOOSE f : Rec(f, CutValue)
           end == x[CutValue]
           Good(r, i) == AlongChain(e, q, key, m, r, i)
           c == Seen(q, e.p, head)
<1>1. HcGetMatchesSpec(B, b, q, cp, Cyclic, son, head, e.n, m, CutValue) = end.recs
  BY DEF HcGetMatchesSpec
<1>2. /\ Env(e) /\ e.H = Hist(e.p) /\ Steady(q, e.p) /\ e.p \in Nat /\ e.n \in Nat /\ q \in Nat /\ m \in Nat /\ CutValue \in Nat
  <2>1. CutValue \in Nat
    BY FinderAssumption
  <2> QED BY <2>1 DEF Setting, Env, Steady
<1>3. /\ head \in Nat /\ head < q /\ (c \in e.H => c < e.p /\ key[c] = key[e.p])
      /\ \A y \in e.H : y < e.p /\ key[y] = key[e.p] => c \in e.H /\ y <= c
  BY <1>2 DEF IsLatest
<1>4. Good(base, 0)
  <2>1. base.cm = head /\ base.maxLen = m /\ base.recs = <<>> /\ {"cm", "maxLen", "recs"} \subseteq DOMAIN base
    OBVIOUS
  <2> HIDE DEF base
  <2>2. Recorded(e, m, c, base.recs, base.maxLen)
    <3>1. base.recs \in Seq(Nat \X Nat) /\ Len(base.recs) = 0
      BY <2>1
    <3> QED BY <3>1, <2>1, <1>2 DEF Recorded, Hits, Grows
  <2>3. c \in e.H => 0 < e.p - c
    <3> SUFFICES ASSUME c \in e.H PROVE 0 < e.p - c
      OBVIOUS
    <3>1. c \in Nat
      BY <1>2 DEF Hist
    <3> HIDE DEF c
    <3> QED BY <3>1, <1>2, <1>3
  <2>4. \A y \in e.H : y < e.p
    BY <1>2 DEF Hist
  <2>5. head \in 0 .. q - 1 /\ Seen(q, e.p, base.cm) = c
    BY <1>2, <1>3, <2>1
  <2> HIDE DEF c
  <2> QED BY <2>1, <2>2, <2>3, <2>4, <2>5, <1>3 DEF AlongChain
<1>5. ASSUME NEW r, NEW i \in Nat, Good(r, i) PROVE Good(Step(r, i + 1), i + 1)
  BY <1>5, LinkStep
<1> HIDE DEF Step, base, Good
<1>6. ASSUME NEW n \in Nat PROVE \E f : Rec(f, n)
  <2> DEFINE Bad == {k \in Nat : ~(\E f : Rec(f, k))}
  <2>1. SUFFICES ASSUME Bad # {} PROVE FALSE
    OBVIOUS
  <2>2. PICK k \in Bad : \A j \in Bad : ~(j < k)
    BY <2>1, FirstBad
  <2>3. k # 0
    <3>1. Rec([i \in 0 .. 0 |-> base], 0)
      OBVIOUS
    <3> QED BY <3>1
  <2>4. PICK f : Rec(f, k - 1)
    <3>1. k - 1 \in Nat /\ k - 1 < k
      BY <2>3
    <3> QED BY <2>2, <3>1
  <2> DEFINE h == [i \in 0 .. k |-> IF i = k THEN Step(f[k - 1], k) ELSE f[i]]
  <2>5. \A i \in 0 .. k : h[i] = IF i = 0 THEN base ELSE Step(h[i - 1], i)
    <3> TAKE i \in 0 .. k
    <3>1. CASE i = k
      BY <3>1, <2>3
    <3>2. CASE i # k
      <4>1. i \in 0 .. k - 1 /\ h[i] = f[i]
        BY <3>2
      <4>2. f[i] = IF i = 0 THEN base ELSE Step(f[i - 1], i)
        BY <2>4, <4>1
      <4>3. i # 0 => i - 1 \in 0 .. k /\ i - 1 # k /\ h[i - 1] = f[i - 1]
        BY <3>2
      <4> QED BY <4>1, <4>2, <4>3
    <3> QED BY <3>1, <3>2
  <2>6. Rec(h, k)
    BY <2>5
  <2> QED BY <2>6
<1>7. Rec(x, CutValue)
  BY <1>2, <1>6, Zenon
<1>8. \A i \in 0 .. CutValue : Good(x[i], i)
  <2> DEFINE Bad == {k \in 0 .. CutValue : ~Good(x[k], k)}
  <2>1. SUFFICES ASSUME Bad # {} PROVE FALSE
    OBVIOUS
  <2>5. Bad \subseteq Nat
    OBVIOUS
  <2>2. PICK k \in Bad : \A j \in Bad : ~(j < k)
    BY <2>1, <2>5, FirstBad
  <2>3. CASE k = 0
    BY <1>4, <1>7, <2>3
  <2>4. CASE k # 0
    <3>0. k \in 0 .. CutValue
      OBVIOUS
    <3>1. k - 1 \in 0 .. CutValue /\ k - 1 \in Nat /\ k - 1 < k /\ (k - 1) + 1 = k
      BY <2>4, <3>0, <1>2
    <3>2. Good(x[k - 1], k - 1)
      BY <2>2, <3>1
    <3>3. x[k] = Step(x[k - 1], k)
      BY <1>7, <2>4
    <3> QED BY <1>5, <3>1, <3>2, <3>3
  <2> QED BY <2>3, <2>4
<1>9. Good(end, CutValue)
  BY <1>2, <1>8
<1> HIDE DEF x, end
<1> DEFINE d == Seen(q, e.p, end.cm)
           max == end.maxLen
<1>10. /\ Recorded(e, m, d, end.recs, max)
       /\ d \in e.H => max = e.n \/ CutValue < e.p - d
       /\ \A y \in e.H : key[y] = key[e.p] => (d \in e.H /\ y <= d) \/ max >= e.n \/ ~Same(e.D, y, e.p, max + 1)
  BY <1>9 DEF Good, AlongChain
<1> HIDE DEF d, max
<1>11. Recorded(e, m, -1, end.recs, max)
  <2>1. -1 \notin e.H
    BY <1>2 DEF Hist
  <2> QED BY <2>1, <1>10 DEF Recorded
<1>12. e.F => \A y \in e.H : key[y] = key[e.p] => max >= e.n \/ ~Same(e.D, y, e.p, max + 1)
  <2> SUFFICES ASSUME CutValue >= Cyclic PROVE d \in e.H => max >= e.n
    BY <1>10
  <2> SUFFICES ASSUME d \in e.H, ~(max >= e.n) PROVE FALSE
    OBVIOUS
  <2>1. max # e.n
    BY <1>2
  <2>2. d \in Nat /\ e.p <= d + HistorySize /\ CutValue < e.p - d
    BY <2>1, <1>2, <1>10 DEF Hist
  <2> QED BY <2>2, <1>2, Sizes
<1> QED BY <1>1, <1>11, <1>12 DEF Searched
-----------------------------------------------------------------------------
\* A position joins its chain, which ages with the others.
LEMMA LinkJoins ==
    ASSUME NEW q, NEW p, Steady(q, p), NEW cp \in Slots, NEW son, NEW key, Chained(son, q, p, cp, key),
           NEW head, IsLatest(q, p, p, head, key[p], key), NEW link, link = [son EXCEPT ![cp] = head]
    PROVE  Chained(link, q, p, cp, key) /\ Chained(link, q + 1, p + 1, NextSlot(cp), key)
<1>1. q \in Nat /\ p \in Nat /\ head \in Nat /\ head < q /\ son \in [Slots -> 0 .. q - 1]
  BY DEF Steady, Chained, Links, IsLatest
<1>2. head \in 0 .. q - 1
  BY <1>1
<1>3. link \in Links(q) /\ link \in Links(q + 1) /\ link[cp] = head /\ \A i \in Slots : i # cp => link[i] = son[i]
  <2>1. link \in [Slots -> 0 .. q - 1]
    BY <1>1, <1>2
  <2>2. link \in [Slots -> 0 .. (q + 1) - 1]
    BY <1>1, <2>1
  <2> QED BY <1>1, <2>1, <2>2 DEF Links
<1>4. ASSUME NEW x \in Hist(p) PROVE IsLatest(q, p, x, link[CyclicBack(cp, p - x, Cyclic)], key[x], key)
  <2>1. CyclicBack(cp, p - x, Cyclic) \in Slots /\ CyclicBack(cp, p - x, Cyclic) # cp
    <3>1. x \in Hist(p) \cup {p} /\ p \in Hist(p) \cup {p} /\ x # p /\ p - p = 0
      BY <1>1 DEF Hist
    <3>2. CyclicBack(cp, p - x, Cyclic) \in Slots /\ CyclicBack(cp, p - p, Cyclic) = cp
      BY <1>1, <3>1, SlotFacts
    <3>3. CyclicBack(cp, p - x, Cyclic) # CyclicBack(cp, p - p, Cyclic)
      BY <1>1, <3>1, SlotFacts
    <3> QED BY <3>2, <3>3
  <2> QED BY <2>1, <1>3 DEF Chained
<1>5. ASSUME NEW x \in Hist(p + 1)
      PROVE IsLatest(q + 1, p + 1, x, link[CyclicBack(NextSlot(cp), (p + 1) - x, Cyclic)], key[x], key)
  <2> DEFINE v == link[CyclicBack(cp, p - x, Cyclic)]
  <2>1. link[CyclicBack(NextSlot(cp), (p + 1) - x, Cyclic)] = v
    BY <1>1, SlotOn
  <2>2. x \in Nat /\ x <= p
    BY <1>1 DEF Hist
  <2>3. IsLatest(q, p, x, v, key[x], key)
    <3>1. CASE x = p
      <4>1. p - p = 0 /\ CyclicBack(cp, 0, Cyclic) = cp
        BY <1>1 DEF CyclicBack, Slots
      <4> QED BY <4>1, <3>1, <1>3
    <3>2. CASE x # p
      <4>1. x \in Hist(p)
        BY <3>2, HistFacts
      <4> QED BY <4>1, <1>4
    <3> QED BY <3>1, <3>2
  <2> HIDE DEF v
  <2>4. IsLatest(q + 1, p + 1, x, v, key[x], key)
    BY <2>2, <2>3, LatestAges
  <2> QED BY <2>1, <2>4
<1> QED BY <1>3, <1>4, <1>5 DEF Chained

\* Normalising keeps the chains.
LEMMA ChainedNorm ==
    ASSUME NEW p, Steady(PosMod, p), NEW cp \in Slots, NEW son, NEW key, Chained(son, PosMod, p, cp, key)
    PROVE  Chained(Norm(son), Cyclic, p, cp, key)
<1>1. PosMod \in Nat /\ Cyclic \in Nat /\ p \in Nat /\ son \in [Slots -> 0 .. PosMod - 1]
  BY Sizes DEF Steady, Chained, Links
<1>2. DOMAIN son = Slots /\ \A i \in Slots : son[i] \in Nat /\ son[i] < PosMod
  BY <1>1
<1>3. Norm(son) \in [Slots -> 0 .. Cyclic - 1]
  <2>1. \A i \in Slots : Norm(son)[i] \in 0 .. Cyclic - 1
    BY <1>2, NormFacts
  <2> QED BY <2>1, <1>2 DEF Norm, Normalize3
<1>4. ASSUME NEW x \in Hist(p) PROVE IsLatest(Cyclic, p, x, Norm(son)[CyclicBack(cp, p - x, Cyclic)], key[x], key)
  <2> DEFINE i == CyclicBack(cp, p - x, Cyclic)
  <2>1. i \in Slots
    BY <1>1, SlotFacts
  <2>2. IsLatest(PosMod, p, x, son[i], key[x], key)
    BY DEF Chained
  <2>3. Norm(son)[i] = MaxOf(son[i], PosMod - Cyclic) - (PosMod - Cyclic)
    BY <1>2, <2>1 DEF Norm, Normalize3
  <2> HIDE DEF i
  <2>4. IsLatest(Cyclic, p, x, MaxOf(son[i], PosMod - Cyclic) - (PosMod - Cyclic), key[x], key)
    BY <2>2, LatestWraps
  <2>5. IsLatest(Cyclic, p, x, Norm(son)[i], key[x], key)
    BY <2>3, <2>4
  <2> QED BY <2>5 DEF i
<1> QED BY <1>3, <1>4 DEF Chained, Links

\* The hash of hc4 and hc5, from which the heads of the coming positions are taken ahead.
HcQueue(heads, high, q, p, D) ==
    LET a == Len(heads)
    IN  /\ heads \in Seq(Nat) /\ DOMAIN high = HashValues(kind.n) /\ Latest(q + a, p + a, high, KeyN(D))
        /\ \A i \in 1 .. a : IsLatest(q + i - 1, p + i - 1, p + i - 1, heads[i], KeyN(D)[p + i - 1], KeyN(D))

\* The hashes of the positions up to the next look around are those of the text.
Ahead(f, p, D) ==
    /\ ToLimit(f) \in Nat \ {0} /\ f.pos + ToLimit(f) <= PosMod
    /\ \A i \in 0 .. ToLimit(f) - 1 : HashCalc(f.buf, f.buffer + i, kind.n) = KeyN(D)[p + i]

\* The hash of the text at a position.
LEMMA KeyHash ==
    ASSUME kind.n \in 2 .. 5, NEW D \in Bits, NEW x \in Nat
    PROVE  KeyN(D)[x] \in HashValues(kind.n) /\ KeyN(D)[x] = HashCalc(D, x, kind.n)
<1>1. KeyN(D)[x] = HashCalc(D, x, kind.n)
  BY DEF KeyN
<1> DEFINE n == kind.n
<1>2. n \in 2 .. 5
  OBVIOUS
<1> HIDE DEF n
<1>3. HashCalc(D, x, n) \in HashValues(n)
  BY <1>2, HashTypes
<1> QED BY <1>1, <1>3 DEF n

\* Some positions on, still steady.
LEMMA SteadyOn ==
    ASSUME NEW q, NEW p, Steady(q, p), NEW i \in Nat
    PROVE  Steady(q + i, p + i) /\ q + i \in Nat /\ p + i \in Nat
  BY Sizes DEF Steady

\* A head more.
LEMMA QueueMore ==
    ASSUME kind.n \in 2 .. 5, NEW D \in Bits, NEW q, NEW p, Steady(q, p), NEW heads, NEW high, HcQueue(heads, high, q, p, D),
           NEW a, a = Len(heads), NEW h, h = KeyN(D)[p + a]
    PROVE  HcQueue(Append(heads, high[h]), [high EXCEPT ![h] = q + a], q, p, D) /\ Len(Append(heads, high[h])) = a + 1
<1> DEFINE key == KeyN(D)
           T == [high EXCEPT ![key[p + a]] = q + a]
           more == Append(heads, high[h])
<1>1. /\ heads \in Seq(Nat) /\ a \in Nat /\ DOMAIN high = HashValues(kind.n) /\ Latest(q + a, p + a, high, key)
      /\ \A i \in 1 .. a : IsLatest(q + i - 1, p + i - 1, p + i - 1, heads[i], key[p + i - 1], key)
  BY DEF HcQueue
<1>2. Steady(q + a, p + a) /\ q + a \in Nat /\ p + a \in Nat /\ q \in Nat /\ p \in Nat
  BY <1>1, SteadyOn DEF Steady
<1>3. h \in DOMAIN high /\ h = key[p + a]
  BY <1>1, <1>2, KeyHash
<1>4. IsLatest(q + a, p + a, p + a, high[h], h, key)
  BY <1>1, <1>3 DEF Latest
<1>5. high[h] \in Nat
  BY <1>4 DEF IsLatest
<1> HIDE DEF key
<1>6. more \in Seq(Nat) /\ Len(more) = a + 1 /\ more[a + 1] = high[h] /\ \A i \in 1 .. a : more[i] = heads[i]
  BY <1>1, <1>5
<1>7. Latest((q + a) + 1, (p + a) + 1, T, key)
  BY <1>1, <1>2, LatestEnters
<1> HIDE DEF more, T
<1>8. ASSUME NEW i \in 1 .. a + 1 PROVE IsLatest(q + i - 1, p + i - 1, p + i - 1, more[i], key[p + i - 1], key)
  <2>1. CASE i \in 1 .. a
    BY <2>1, <1>1, <1>6
  <2>2. CASE i = a + 1
    <3>1. q + i - 1 = q + a /\ p + i - 1 = p + a
      BY <2>2, <1>1, <1>2
    <3> QED BY <3>1, <2>2, <1>3, <1>4, <1>6
  <2> QED BY <2>1, <2>2, <1>1
<1>9. (q + a) + 1 = q + (a + 1) /\ (p + a) + 1 = p + (a + 1)
  BY <1>1, <1>2
<1>10. DOMAIN T = HashValues(kind.n)
  BY <1>1 DEF T
<1>11. HcQueue(more, T, q, p, D)
  BY <1>6, <1>7, <1>8, <1>9, <1>10 DEF HcQueue, key
<1>12. T = [high EXCEPT ![h] = q + a]
  BY <1>3 DEF T
<1> QED BY <1>6, <1>11, <1>12 DEF more

\* The head in front is used up.
LEMMA QueueLess ==
    ASSUME NEW D, NEW q \in Nat, NEW p \in Nat, NEW heads, NEW high, HcQueue(heads, high, q, p, D), Len(heads) > 0
    PROVE  /\ IsLatest(q, p, p, Head(heads), KeyN(D)[p], KeyN(D))
           /\ HcQueue(Tail(heads), high, q + 1, p + 1, D) /\ Len(Tail(heads)) = Len(heads) - 1
<1> DEFINE key == KeyN(D)
           a == Len(heads)
           rest == Tail(heads)
<1>1. /\ heads \in Seq(Nat) /\ a \in Nat /\ a > 0 /\ DOMAIN high = HashValues(kind.n) /\ Latest(q + a, p + a, high, key)
      /\ \A i \in 1 .. a : IsLatest(q + i - 1, p + i - 1, p + i - 1, heads[i], key[p + i - 1], key)
  BY DEF HcQueue
<1>2. IsLatest(q, p, p, Head(heads), key[p], key)
  <2>1. 1 \in 1 .. a /\ q + 1 - 1 = q /\ p + 1 - 1 = p /\ Head(heads) = heads[1]
    BY <1>1
  <2>2. IsLatest(q + 1 - 1, p + 1 - 1, p + 1 - 1, heads[1], key[p + 1 - 1], key)
    BY <1>1, <2>1
  <2> HIDE DEF key
  <2> QED BY <2>1, <2>2
<1>3. rest \in Seq(Nat) /\ Len(rest) = a - 1 /\ \A i \in 1 .. a - 1 : rest[i] = heads[i + 1]
  BY <1>1
<1> HIDE DEF key, rest, a
<1>4. ASSUME NEW i \in 1 .. a - 1
      PROVE IsLatest((q + 1) + i - 1, (p + 1) + i - 1, (p + 1) + i - 1, rest[i], key[(p + 1) + i - 1], key)
  <2>1. i + 1 \in 1 .. a /\ (q + 1) + i - 1 = q + (i + 1) - 1 /\ (p + 1) + i - 1 = p + (i + 1) - 1
    BY <1>1
  <2> QED BY <2>1, <1>1, <1>3
<1>5. (q + 1) + (a - 1) = q + a /\ (p + 1) + (a - 1) = p + a
  BY <1>1
<1>6. HcQueue(rest, high, q + 1, p + 1, D)
  BY <1>1, <1>3, <1>4, <1>5 DEF HcQueue, key
<1> QED BY <1>2, <1>3, <1>6 DEF key, rest, a

\* fill_heads takes at least one head, and none past the next look around.
LEMMA FillHeadsSound ==
    ASSUME kind.n \in 2 .. 5, NEW D \in Bits, NEW f, {"heads", "high"} \subseteq DOMAIN f, NEW p, Steady(f.pos, p), Ahead(f, p, D),
           HcQueue(<<>>, f.high, f.pos, p, D)
    PROVE  LET g == FillHeads(f)
           IN  HcQueue(g.heads, g.high, f.pos, p, D) /\ Len(g.heads) \in 1 .. ToLimit(f)
<1> DEFINE Step(r, i) == TakeAhead(r, f, i - 1)
           base == [heads |-> <<>>, high |-> f.high]
           Rec(r, k) == r = [i \in 0 .. k |-> IF i = 0 THEN base ELSE Step(r[i - 1], i)]
           n == MinOf(ToLimit(f), HcHeads)
           x == CHOOSE r : Rec(r, n)
           end == x[n]
           q == f.pos
           Good(r, i) == HcQueue(r.heads, r.high, q, p, D) /\ Len(r.heads) = i
           g == FillHeads(f)
<1>1. g.heads = end.heads /\ g.high = end.high
  BY DEF FillHeads, ToLimit
<1>2. /\ n \in Nat /\ n >= 1 /\ n <= ToLimit(f) /\ q \in Nat /\ p \in Nat /\ ToLimit(f) \in Nat /\ q + ToLimit(f) <= PosMod
      /\ PosMod \in Nat /\ Steady(q, p)
  <2>1. HcHeads \in Nat \ {0}
    BY FinderAssumption
  <2> QED BY <2>1, Sizes DEF Ahead, MinOf, Steady
<1>3. Good(base, 0)
  <2>1. base.heads = <<>> /\ base.high = f.high /\ Len(<<>>) = 0
    OBVIOUS
  <2> HIDE DEF base
  <2> QED BY <2>1
<1> HIDE DEF n, base, x, end, g
<1>4. ASSUME NEW r, NEW i \in 0 .. n - 1, Good(r, i) PROVE Good(Step(r, i + 1), i + 1)
  <2> DEFINE h == KeyN(D)[p + i]
             y == Step(r, i + 1)
  <2>1. (i + 1) - 1 = i /\ i \in 0 .. ToLimit(f) - 1 /\ (q + i) % PosMod = q + i
    <3>1. i \in 0 .. ToLimit(f) - 1 /\ q + i \in 0 .. PosMod - 1
      BY <1>2
    <3>2. q + i \in Positions
      BY <3>1 DEF Positions
    <3> HIDE DEF q
    <3> QED BY <3>1, <3>2, SmallMod
  <2>2. HashCalc(f.buf, f.buffer + i, kind.n) = h
    BY <2>1 DEF Ahead
  <2>3. y.heads = Append(r.heads, r.high[h]) /\ y.high = [r.high EXCEPT ![h] = q + i]
    <3> HIDE DEF h
    <3> QED BY <2>1, <2>2 DEF TakeAhead
  <2>4. HcQueue(Append(r.heads, r.high[h]), [r.high EXCEPT ![h] = q + i], q, p, D) /\ Len(Append(r.heads, r.high[h])) = i + 1
    <3>1. i = Len(r.heads) /\ HcQueue(r.heads, r.high, q, p, D) /\ Steady(q, p)
      BY <1>2, <1>4
    <3> HIDE DEF q
    <3> QED BY <3>1, QueueMore
  <2> HIDE DEF y, h
  <2>5. Good(y, i + 1)
    BY <2>3, <2>4
  <2> QED BY <2>5 DEF y
<1> HIDE DEF Step, Good
<1>6. ASSUME NEW k \in Nat PROVE \E r : Rec(r, k)
  <2> DEFINE Bad == {l \in Nat : ~(\E r : Rec(r, l))}
  <2>1. SUFFICES ASSUME Bad # {} PROVE FALSE
    OBVIOUS
  <2>2. PICK l \in Bad : \A j \in Bad : ~(j < l)
    BY <2>1, FirstBad
  <2>3. l # 0
    <3>1. Rec([i \in 0 .. 0 |-> base], 0)
      OBVIOUS
    <3> QED BY <3>1
  <2>4. PICK r : Rec(r, l - 1)
    <3>1. l - 1 \in Nat /\ l - 1 < l
      BY <2>3
    <3> QED BY <2>2, <3>1
  <2> DEFINE h == [i \in 0 .. l |-> IF i = l THEN Step(r[l - 1], l) ELSE r[i]]
  <2>5. \A i \in 0 .. l : h[i] = IF i = 0 THEN base ELSE Step(h[i - 1], i)
    <3> TAKE i \in 0 .. l
    <3>1. CASE i = l
      BY <3>1, <2>3
    <3>2. CASE i # l
      <4>1. i \in 0 .. l - 1 /\ h[i] = r[i]
        BY <3>2
      <4>2. r[i] = IF i = 0 THEN base ELSE Step(r[i - 1], i)
        BY <2>4, <4>1
      <4>3. i # 0 => i - 1 \in 0 .. l /\ i - 1 # l /\ h[i - 1] = r[i - 1]
        BY <3>2
      <4> QED BY <4>1, <4>2, <4>3
    <3> QED BY <3>1, <3>2
  <2>6. Rec(h, l)
    BY <2>5
  <2> QED BY <2>6
<1>7. Rec(x, n)
  BY <1>2, <1>6, Zenon DEF x
<1>8. \A i \in 0 .. n : Good(x[i], i)
  <2> DEFINE Bad == {l \in 0 .. n : ~Good(x[l], l)}
  <2>1. SUFFICES ASSUME Bad # {} PROVE FALSE
    OBVIOUS
  <2>5. Bad \subseteq Nat
    OBVIOUS
  <2>2. PICK l \in Bad : \A j \in Bad : ~(j < l)
    BY <2>1, <2>5, FirstBad
  <2>3. CASE l = 0
    BY <1>3, <1>7, <2>3
  <2>4. CASE l # 0
    <3>0. l \in 0 .. n
      OBVIOUS
    <3>1. l - 1 \in 0 .. n - 1 /\ l - 1 \in 0 .. n /\ l - 1 < l /\ (l - 1) + 1 = l
      BY <2>4, <3>0, <1>2
    <3>2. Good(x[l - 1], l - 1)
      BY <2>2, <3>1
    <3>3. x[l] = Step(x[l - 1], l)
      BY <1>7, <2>4
    <3> QED BY <1>4, <3>1, <3>2, <3>3
  <2> QED BY <2>3, <2>4
<1>9. Good(end, n)
  BY <1>2, <1>8 DEF end
<1>10. HcQueue(end.heads, end.high, q, p, D) /\ Len(end.heads) = n
  BY <1>9 DEF Good
<1>11. n \in 1 .. ToLimit(f)
  BY <1>2
<1> QED BY <1>1, <1>10, <1>11 DEF g

(***************************************************************************)
(* A position enters the tables.                                           *)
(***************************************************************************)
LowOK(f, q, p, D) ==
    /\ kind.n >= 3 => DOMAIN f.hash2 = [1 .. 1 -> {0, 1}] /\ Latest(q, p, f.hash2, Key2(D))
    /\ kind.n >= 4 => DOMAIN f.hash3 = [1 .. 2 -> {0, 1}] /\ Latest(q, p, f.hash3, Key3(D))

\* The tables of the finder hold the history of position p, which is q in the tables and has the slot cp.
Tables(f, q, p, cp, n, D) ==
    /\ LowOK(f, q, p, D)
    /\ kind.bt => f.heads = <<>> /\ BtTables(f.high, f.son, q, p, cp, n, D)
    /\ ~kind.bt => HcQueue(f.heads, f.high, q, p, D) /\ Chained(f.son, q, p, cp, KeyN(D))

\* The finder is about to enter p.
Ready(f, p, D) ==
    /\ FinderOK(f) /\ D \in Bits /\ Enters(f, Here(D, p, f.lenLimit)) /\ Ahead(f, p, D) /\ kind.bt \in BOOLEAN
    /\ Tables(f, f.pos, p, f.cycPos, f.lenLimit, D) /\ Len(f.heads) <= ToLimit(f)

\* p is entered, and the position after it is next.
Entered2(f, g, p, D) ==
    /\ Tables(g, f.pos + 1, p + 1, NextSlot(f.cycPos), f.lenLimit, D) /\ Len(g.heads) <= ToLimit(f) - 1

\* The fields that the tables are read with are the same.
SameView(f, g) ==
    /\ g.buf = f.buf /\ g.buffer = f.buffer /\ g.pos = f.pos /\ g.posLimit = f.posLimit /\ g.cycPos = f.cycPos
    /\ g.lenLimit = f.lenLimit
    /\ {"hash2", "hash3", "high", "son", "heads"} \subseteq DOMAIN g

\* What holds of a finder about to enter a position.
LEMMA ReadyFacts ==
    ASSUME NEW f, NEW p, NEW D, Ready(f, p, D)
    PROVE  /\ Steady(f.pos, p) /\ f.pos \in Nat /\ p \in Nat /\ f.cycPos \in Slots /\ f.lenLimit \in Nat /\ f.lenLimit >= kind.n
           /\ kind.n \in 2 .. 5 /\ D \in Texts /\ Env(Here(D, p, f.lenLimit))
           /\ Setting(f.buf, f.buffer, f.pos, f.cycPos, Here(D, p, f.lenLimit))
           /\ HashCalc(f.buf, f.buffer, kind.n) = KeyN(D)[p]
           /\ {"hash2", "hash3", "high", "son", "heads", "buf", "buffer", "pos", "cycPos", "lenLimit", "posLimit"} \subseteq DOMAIN f
<1> DEFINE e == Here(D, p, f.lenLimit)
<1>1. e.D = D /\ e.p = p /\ e.n = f.lenLimit /\ e.H = Hist(p)
  BY HereFacts
<1> HIDE DEF e
<1>2. Enters(f, e) /\ FinderOK(f) /\ D \in Bits
  BY DEF Ready, e
<1>3. Setting(f.buf, f.buffer, f.pos, f.cycPos, e) /\ Env(e) /\ e.n >= kind.n /\ kind.n \in 2 .. 5
  BY <1>2 DEF Enters, Setting
<1>4. Steady(f.pos, p) /\ f.cycPos \in Slots /\ p \in Nat /\ f.lenLimit \in Nat /\ D \in Texts
  BY <1>1, <1>3 DEF Setting, Env
<1>5. HashCalc(f.buf, f.buffer, kind.n) = KeyN(D)[p]
  <2>1. HashCalc(f.buf, f.buffer, kind.n) = HashCalc(e.D, e.p, kind.n)
    BY <1>2, ShownHashes
  <2> QED BY <2>1, <1>1, <1>4 DEF KeyN
<1>6. f.pos \in Nat
  BY <1>4 DEF Steady
<1>7. {"hash2", "hash3", "high", "son", "heads", "buf", "buffer", "pos", "cycPos", "lenLimit", "posLimit"} \subseteq DOMAIN f
  BY <1>2 DEF FinderOK, WindowFields
<1> QED BY <1>1, <1>3, <1>4, <1>5, <1>6, <1>7 DEF e

\* The small hashes learn the position.
LEMMA LowEnters ==
    ASSUME NEW f, NEW p, NEW D, Ready(f, p, D)
    PROVE  LET g == EnterLow(f)
           IN  /\ SameView(f, g) /\ g.high = f.high /\ g.son = f.son /\ g.heads = f.heads
               /\ LowOK(g, f.pos + 1, p + 1, D)
<1> DEFINE g == EnterLow(f)
           h2 == H2(f.buf, f.buffer)
           h3 == H3(f.buf, f.buffer)
           e == Here(D, p, f.lenLimit)
<1>1. /\ Steady(f.pos, p) /\ p \in Nat /\ kind.n \in 2 .. 5 /\ f.lenLimit >= kind.n /\ f.lenLimit \in Nat
      /\ {"hash2", "hash3", "high", "son", "heads", "buf", "buffer", "pos", "cycPos", "lenLimit", "posLimit"} \subseteq DOMAIN f
  BY ReadyFacts
<1>2. g = IF kind.n = 2 THEN f
          ELSE [f EXCEPT !.hash2[h2] = f.pos, !.hash3 = IF kind.n = 3 THEN @ ELSE [@ EXCEPT ![h3] = f.pos]]
  BY DEF EnterLow
<1> HIDE DEF g, h2, h3
<1>3. SameView(f, g) /\ g.high = f.high /\ g.son = f.son /\ g.heads = f.heads
  BY <1>1, <1>2 DEF SameView
<1>4. /\ kind.n >= 3 => g.hash2 = [f.hash2 EXCEPT ![h2] = f.pos]
      /\ kind.n >= 4 => g.hash3 = [f.hash3 EXCEPT ![h3] = f.pos]
  BY <1>1, <1>2
<1>5. h2 = Key2(D)[p] /\ (kind.n >= 3 => h3 = Key3(D)[p])
  <2>1. Enters(f, e)
    BY DEF Ready
  <2>2. e.D = D /\ e.p = p /\ e.n = f.lenLimit
    BY HereFacts
  <2> HIDE DEF e
  <2>3. H2(f.buf, f.buffer) = H2(e.D, e.p) /\ (e.n >= 3 => H3(f.buf, f.buffer) = H3(e.D, e.p))
    BY <2>1, ShownHashes
  <2>4. H2(f.buf, f.buffer) = H2(D, p) /\ (kind.n >= 3 => H3(f.buf, f.buffer) = H3(D, p))
    BY <1>1, <2>2, <2>3
  <2> QED BY <2>4, <1>1 DEF Key2, Key3, h2, h3
<1>6. LowOK(f, f.pos, p, D)
  BY DEF Ready, Tables
<1>7. kind.n >= 3 => DOMAIN g.hash2 = [1 .. 1 -> {0, 1}] /\ Latest(f.pos + 1, p + 1, g.hash2, Key2(D))
  <2> SUFFICES ASSUME kind.n >= 3 PROVE DOMAIN g.hash2 = [1 .. 1 -> {0, 1}] /\ Latest(f.pos + 1, p + 1, g.hash2, Key2(D))
    OBVIOUS
  <2>1. g.hash2 = [f.hash2 EXCEPT ![Key2(D)[p]] = f.pos]
    BY <1>4, <1>5
  <2>2. DOMAIN f.hash2 = [1 .. 1 -> {0, 1}] /\ Latest(f.pos, p, f.hash2, Key2(D))
    BY <1>6 DEF LowOK
  <2>3. Latest(f.pos + 1, p + 1, [f.hash2 EXCEPT ![Key2(D)[p]] = f.pos], Key2(D))
    BY <1>1, <2>2, LatestEnters
  <2> QED BY <2>1, <2>2, <2>3
<1>8. kind.n >= 4 => DOMAIN g.hash3 = [1 .. 2 -> {0, 1}] /\ Latest(f.pos + 1, p + 1, g.hash3, Key3(D))
  <2> SUFFICES ASSUME kind.n >= 4 PROVE DOMAIN g.hash3 = [1 .. 2 -> {0, 1}] /\ Latest(f.pos + 1, p + 1, g.hash3, Key3(D))
    OBVIOUS
  <2>1. g.hash3 = [f.hash3 EXCEPT ![Key3(D)[p]] = f.pos]
    BY <1>1, <1>4, <1>5
  <2>2. DOMAIN f.hash3 = [1 .. 2 -> {0, 1}] /\ Latest(f.pos, p, f.hash3, Key3(D))
    BY <1>6 DEF LowOK
  <2>3. Latest(f.pos + 1, p + 1, [f.hash3 EXCEPT ![Key3(D)[p]] = f.pos], Key3(D))
    BY <1>1, <2>2, LatestEnters
  <2> QED BY <2>1, <2>2, <2>3
<1>9. LowOK(g, f.pos + 1, p + 1, D)
  BY <1>7, <1>8 DEF LowOK
<1> QED BY <1>3, <1>9 DEF g

\* What the small hashes answer of the position.
LEMMA LowAnswers ==
    ASSUME NEW f, NEW p, NEW D, Ready(f, p, D)
    PROVE  LowSound(Here(D, p, f.lenLimit), kind.n, LowMatches(f))
<1> DEFINE e == Here(D, p, f.lenLimit)
<1>1. e.D = D /\ e.p = p /\ e.n = f.lenLimit /\ Enters(f, e) /\ LowOK(f, f.pos, p, D)
  BY HereFacts DEF Ready, Tables
<1> HIDE DEF e
<1>2. LowTables(f, e)
  BY <1>1 DEF LowTables, LowOK
<1>3. LowSound(e, kind.n, LowMatches(f))
  BY <1>1, <1>2, LowMatchesSound
<1> QED BY <1>3 DEF e

\* take_head of a tree finder: the head is replaced by the position.
LEMMA BtHead ==
    ASSUME kind.bt, NEW g, NEW pre, {"hash2", "hash3", "high", "son", "heads"} \subseteq DOMAIN g
    PROVE  LET t == TakeHead(g, pre)
               h == HashCalc(g.buf, g.buffer, kind.n)
           IN  /\ t.head = g.high[h] /\ SameView(g, t.f) /\ t.f.high = [g.high EXCEPT ![h] = g.pos]
               /\ t.f.hash2 = g.hash2 /\ t.f.hash3 = g.hash3 /\ t.f.heads = g.heads /\ t.f.son = g.son
<1> DEFINE t == TakeHead(g, pre)
           h == HashCalc(g.buf, g.buffer, kind.n)
<1>1. t = [head |-> g.high[h], f |-> [g EXCEPT !.high[h] = g.pos]]
  BY DEF TakeHead
<1> HIDE DEF h, t
<1>2. t.head = g.high[h] /\ t.f = [g EXCEPT !.high[h] = g.pos]
  BY <1>1
<1>3. /\ SameView(g, t.f) /\ t.f.high = [g.high EXCEPT ![h] = g.pos]
      /\ t.f.hash2 = g.hash2 /\ t.f.hash3 = g.hash3 /\ t.f.heads = g.heads /\ t.f.son = g.son
  BY <1>2 DEF SameView
<1> QED BY <1>2, <1>3 DEF h, t

\* take_head of a chain finder: the latest position with the hash, from the queue or from the hash.
LEMMA HcHead ==
    ASSUME ~kind.bt, NEW f, NEW p, NEW D, Ready(f, p, D), NEW g, SameView(f, g), g.high = f.high, g.heads = f.heads, NEW pre
    PROVE  LET t == TakeHead(g, pre)
           IN  /\ IsLatest(f.pos, p, p, t.head, KeyN(D)[p], KeyN(D)) /\ SameView(f, t.f)
               /\ HcQueue(t.f.heads, t.f.high, f.pos + 1, p + 1, D) /\ Len(t.f.heads) <= ToLimit(f) - 1
               /\ t.f.hash2 = g.hash2 /\ t.f.hash3 = g.hash3 /\ t.f.son = g.son
<1> DEFINE t == TakeHead(g, pre)
           h == HashCalc(g.buf, g.buffer, kind.n)
           q == f.pos
           key == KeyN(D)
<1>1. /\ Steady(q, p) /\ q \in Nat /\ p \in Nat /\ kind.n \in 2 .. 5 /\ D \in Bits
      /\ HashCalc(f.buf, f.buffer, kind.n) = key[p]
  BY ReadyFacts DEF Ready
<1>2. g.buf = f.buf /\ g.buffer = f.buffer /\ g.pos = q /\ {"hash2", "hash3", "high", "son", "heads"} \subseteq DOMAIN g
  BY DEF SameView
<1>3. h = key[p]
  BY <1>1, <1>2
<1>4. Ahead(f, p, D) /\ HcQueue(f.heads, f.high, q, p, D) /\ ToLimit(f) \in Nat \ {0} /\ Len(f.heads) <= ToLimit(f)
  BY DEF Ready, Tables, Ahead
<1>5. ToLimit(g) = ToLimit(f) /\ Ahead(g, p, D)
  BY <1>4 DEF SameView, ToLimit, Ahead
<1> HIDE DEF q, key
<1>6. CASE ~pre /\ g.heads = <<>>
  <2> DEFINE T == [g.high EXCEPT ![h] = g.pos]
  <2>1. t = [head |-> g.high[h], f |-> [g EXCEPT !.high[h] = g.pos]]
    BY <1>6 DEF TakeHead
  <2> HIDE DEF t, h
  <2>2. /\ t.head = g.high[h] /\ SameView(f, t.f) /\ t.f.high = T /\ t.f.heads = g.heads
        /\ t.f.hash2 = g.hash2 /\ t.f.hash3 = g.hash3 /\ t.f.son = g.son
    <3>1. t.head = g.high[h] /\ t.f = [g EXCEPT !.high[h] = g.pos]
      BY <2>1
    <3> DEFINE k == t.f
    <3> HIDE DEF k
    <3>2. k = [g EXCEPT !.high[h] = g.pos]
      BY <3>1 DEF k
    <3>3. /\ SameView(g, k) /\ k.high = T /\ k.heads = g.heads /\ k.hash2 = g.hash2 /\ k.hash3 = g.hash3 /\ k.son = g.son
      BY <3>2, <1>2 DEF SameView
    <3>4. SameView(f, k)
      BY <3>3 DEF SameView
    <3> QED BY <3>1, <3>3, <3>4 DEF k
  <2>3. HcQueue(<<>>, f.high, q, p, D) /\ Len(<<>>) = 0 /\ q + 0 = q /\ p + 0 = p
    BY <1>1, <1>4, <1>6
  <2>4. DOMAIN f.high = HashValues(kind.n) /\ Latest(q, p, f.high, key)
    BY <2>3 DEF HcQueue, key
  <2>5. IsLatest(q, p, p, t.head, key[p], key)
    <3>1. h \in DOMAIN f.high
      BY <1>1, <1>3, <2>4, KeyHash DEF key
    <3> QED BY <3>1, <2>2, <2>4, <1>3 DEF Latest
  <2>6. Latest(q + 1, p + 1, T, key) /\ DOMAIN T = HashValues(kind.n)
    <3>1. T = [f.high EXCEPT ![key[p]] = q]
      BY <1>2, <1>3
    <3>2. Latest(q + 1, p + 1, [f.high EXCEPT ![key[p]] = q], key)
      BY <1>1, <2>4, LatestEnters
    <3> QED BY <3>1, <3>2, <2>4
  <2>7. HcQueue(<<>>, T, q + 1, p + 1, D)
    <3> DEFINE none == <<>>
    <3>1. none \in Seq(Nat) /\ Len(none) = 0 /\ (q + 1) + 0 = q + 1 /\ (p + 1) + 0 = p + 1
      BY <1>1
    <3> HIDE DEF none, T
    <3>2. HcQueue(none, T, q + 1, p + 1, D)
      BY <3>1, <2>6 DEF HcQueue, key
    <3> QED BY <3>2 DEF none
  <2>8. Len(<<>>) <= ToLimit(f) - 1
    BY <1>4
  <2> QED BY <2>2, <2>5, <2>7, <2>8, <1>6 DEF t, q, key
<1>7. CASE pre \/ g.heads # <<>>
  <2> DEFINE k == IF g.heads = <<>> THEN FillHeads(g) ELSE g
  <2>1. t = [head |-> Head(k.heads), f |-> [k EXCEPT !.heads = Tail(@)]]
    BY <1>7 DEF TakeHead
  <2>2. /\ SameView(f, k) /\ k.hash2 = g.hash2 /\ k.hash3 = g.hash3 /\ k.son = g.son
    BY <1>2 DEF SameView, FillHeads
  <2>3. HcQueue(k.heads, k.high, q, p, D) /\ Len(k.heads) \in 1 .. ToLimit(f)
    <3>1. CASE g.heads = <<>>
      <4>1. HcQueue(<<>>, g.high, g.pos, p, D) /\ Steady(g.pos, p) /\ {"heads", "high"} \subseteq DOMAIN g
        BY <1>1, <1>2, <1>4, <3>1
      <4>2. HcQueue(FillHeads(g).heads, FillHeads(g).high, g.pos, p, D) /\ Len(FillHeads(g).heads) \in 1 .. ToLimit(g)
        BY <4>1, <1>1, <1>5, FillHeadsSound
      <4> QED BY <4>2, <3>1, <1>2, <1>5
    <3>2. CASE g.heads # <<>>
      <4>1. k = g /\ f.heads \in Seq(Nat)
        BY <3>2, <1>4 DEF HcQueue
      <4>2. Len(f.heads) \in 1 .. ToLimit(f)
        BY <4>1, <3>2, <1>4
      <4> QED BY <4>1, <4>2, <1>4
    <3> QED BY <3>1, <3>2
  <2> HIDE DEF k, t, h
  <2>4. /\ t.head = Head(k.heads) /\ t.f.heads = Tail(k.heads) /\ t.f.high = k.high /\ SameView(f, t.f)
        /\ t.f.hash2 = k.hash2 /\ t.f.hash3 = k.hash3 /\ t.f.son = k.son
    <3>1. t.head = Head(k.heads) /\ t.f = [k EXCEPT !.heads = Tail(k.heads)]
      BY <2>1
    <3> DEFINE z == t.f
    <3> HIDE DEF z
    <3>2. z = [k EXCEPT !.heads = Tail(k.heads)]
      BY <3>1 DEF z
    <3>3. /\ SameView(k, z) /\ z.heads = Tail(k.heads) /\ z.high = k.high /\ z.hash2 = k.hash2 /\ z.hash3 = k.hash3 /\ z.son = k.son
      BY <3>2, <2>2 DEF SameView
    <3>4. SameView(f, z)
      BY <3>3, <2>2 DEF SameView
    <3> QED BY <3>1, <3>3, <3>4 DEF z
  <2>5. /\ IsLatest(q, p, p, Head(k.heads), key[p], key)
        /\ HcQueue(Tail(k.heads), k.high, q + 1, p + 1, D) /\ Len(Tail(k.heads)) = Len(k.heads) - 1
    <3>1. Len(k.heads) > 0
      BY <2>3
    <3> QED BY <3>1, <1>1, <2>3, QueueLess DEF key
  <2>6. Len(t.f.heads) <= ToLimit(f) - 1
    <3> DEFINE l == Len(k.heads)
    <3>1. l \in 1 .. ToLimit(f) /\ Len(t.f.heads) = l - 1
      BY <2>3, <2>4, <2>5
    <3> HIDE DEF l
    <3> QED BY <3>1, <1>4
  <2>7. t.f.hash2 = g.hash2 /\ t.f.hash3 = g.hash3 /\ t.f.son = g.son
    BY <2>2, <2>4
  <2> QED BY <2>4, <2>5, <2>6, <2>7 DEF t, q, key
<1> QED BY <1>6, <1>7

\* A tree finder after the walk from the head of the position.
LEMMA BtWalked ==
    ASSUME kind.bt, NEW f, NEW p, NEW D, Ready(f, p, D), NEW pre, NEW m \in 0 .. f.lenLimit
    PROVE  LET t    == TakeHead(EnterLow(f), pre)
               walk == GetMatchesSpec1(t.f.buf, t.f.buffer, t.f.pos, t.f.cycPos, Cyclic, t.f.son, t.head, t.f.lenLimit, m, CutValue)
               g    == [t.f EXCEPT !.son = walk.son]
           IN  Searched(Here(D, p, f.lenLimit), m, walk.recs, KeyN(D)) /\ Entered2(f, g, p, D)
<1> DEFINE l == EnterLow(f)
           t == TakeHead(l, pre)
           k == t.f
           h == HashCalc(f.buf, f.buffer, kind.n)
           walk == GetMatchesSpec1(k.buf, k.buffer, k.pos, k.cycPos, Cyclic, k.son, t.head, k.lenLimit, m, CutValue)
           g == [k EXCEPT !.son = walk.son]
           e == Here(D, p, f.lenLimit)
<1>1. /\ Steady(f.pos, p) /\ f.pos \in Nat /\ p \in Nat /\ f.cycPos \in Slots /\ f.lenLimit \in Nat /\ kind.n \in 2 .. 5
      /\ D \in Bits /\ Setting(f.buf, f.buffer, f.pos, f.cycPos, e) /\ h = KeyN(D)[p]
  BY ReadyFacts DEF Ready
<1>2. f.heads = <<>> /\ BtTables(f.high, f.son, f.pos, p, f.cycPos, f.lenLimit, D) /\ ToLimit(f) \in Nat \ {0}
  BY DEF Ready, Tables, Ahead
<1>3. SameView(f, l) /\ l.high = f.high /\ l.son = f.son /\ l.heads = f.heads /\ LowOK(l, f.pos + 1, p + 1, D)
  BY LowEnters
<1> HIDE DEF l, h, e
<1>4. HashCalc(l.buf, l.buffer, kind.n) = h /\ l.pos = f.pos /\ {"hash2", "hash3", "high", "son", "heads"} \subseteq DOMAIN l
  BY <1>3 DEF SameView, h
<1>5. /\ t.head = f.high[h] /\ SameView(f, k) /\ k.high = [f.high EXCEPT ![h] = f.pos]
      /\ k.hash2 = l.hash2 /\ k.hash3 = l.hash3 /\ k.heads = <<>> /\ k.son = f.son
  <2>1. /\ t.head = l.high[h] /\ SameView(l, k) /\ k.high = [l.high EXCEPT ![h] = l.pos]
        /\ k.hash2 = l.hash2 /\ k.hash3 = l.hash3 /\ k.heads = l.heads /\ k.son = l.son
    BY <1>4, BtHead
  <2> HIDE DEF t
  <2> QED BY <2>1, <1>2, <1>3, <1>4 DEF SameView
<1> HIDE DEF t
<1>6. walk = GetMatchesSpec1(f.buf, f.buffer, f.pos, f.cycPos, Cyclic, f.son, f.high[h], f.lenLimit, m, CutValue)
  BY <1>5 DEF SameView
<1>7. h \in DOMAIN f.high
  BY <1>1, <1>2, KeyHash DEF BtTables
<1> HIDE DEF walk
<1>8. /\ Searched(e, m, walk.recs, KeyN(D))
      /\ BtTables([f.high EXCEPT ![h] = f.pos], walk.son, f.pos + 1, p + 1, NextSlot(f.cycPos), f.lenLimit, D)
  <2>1. LET w == GetMatchesSpec1(f.buf, f.buffer, f.pos, f.cycPos, Cyclic, f.son, f.high[h], f.lenLimit, m, CutValue)
        IN  /\ Searched(e, m, w.recs, KeyN(D))
            /\ BtTables([f.high EXCEPT ![h] = f.pos], w.son, f.pos + 1, p + 1, NextSlot(f.cycPos), f.lenLimit, D)
    BY <1>1, <1>2, <1>7, BtEnters DEF e
  <2> QED BY <2>1, <1>6
<1>9. /\ g.son = walk.son /\ g.high = k.high /\ g.heads = <<>> /\ g.hash2 = l.hash2 /\ g.hash3 = l.hash3
  BY <1>5 DEF SameView
<1> HIDE DEF g
<1>10. LowOK(g, f.pos + 1, p + 1, D)
  BY <1>3, <1>9 DEF LowOK
<1>11. Len(<<>>) <= ToLimit(f) - 1
  BY <1>2
<1>12. Entered2(f, g, p, D)
  BY <1>5, <1>8, <1>9, <1>10, <1>11 DEF Entered2, Tables
<1> QED BY <1>8, <1>12 DEF g, walk, t, k, l, e

\* A search for matches longer than any there can be finds none.
LEMMA NothingLonger ==
    ASSUME NEW e, Env(e), NEW key
    PROVE  Searched(e, e.n, <<>>, key)
<1> DEFINE none == <<>>
           l == Len(none)
<1>1. none \in Seq(Nat \X Nat) /\ l = 0 /\ e.n \in Nat
  BY DEF Env
<1>2. Recorded(e, e.n, -1, none, e.n)
  <2> HIDE DEF none
  <2> QED BY <1>1 DEF Recorded, Hits, Grows
<1> QED BY <1>1, <1>2 DEF Searched

\* A chain finder after the position joined its chain, and the walk along it.
LEMMA HcWalked ==
    ASSUME ~kind.bt, NEW f, NEW p, NEW D, Ready(f, p, D), NEW pre, NEW m \in 0 .. f.lenLimit
    PROVE  LET t    == TakeHead(EnterLow(f), pre)
               link == [t.f.son EXCEPT ![t.f.cycPos] = t.head]
               g    == [t.f EXCEPT !.son = link]
               recs == HcGetMatchesSpec(t.f.buf, t.f.buffer, t.f.pos, t.f.cycPos, Cyclic, link, t.head, t.f.lenLimit, m, CutValue)
           IN  Searched(Here(D, p, f.lenLimit), m, recs, KeyN(D)) /\ Entered2(f, g, p, D)
<1> DEFINE l == EnterLow(f)
           t == TakeHead(l, pre)
           k == t.f
           link == [k.son EXCEPT ![k.cycPos] = t.head]
           g == [k EXCEPT !.son = link]
           recs == HcGetMatchesSpec(k.buf, k.buffer, k.pos, k.cycPos, Cyclic, link, t.head, k.lenLimit, m, CutValue)
           e == Here(D, p, f.lenLimit)
           key == KeyN(D)
<1>1. /\ Steady(f.pos, p) /\ f.pos \in Nat /\ p \in Nat /\ f.cycPos \in Slots /\ f.lenLimit \in Nat
      /\ Setting(f.buf, f.buffer, f.pos, f.cycPos, e)
  BY ReadyFacts
<1>2. Chained(f.son, f.pos, p, f.cycPos, key)
  BY DEF Ready, Tables
<1>3. e.p = p /\ e.n = f.lenLimit /\ e.F = (CutValue >= Cyclic)
  BY HereFacts
<1>4. SameView(f, l) /\ l.high = f.high /\ l.son = f.son /\ l.heads = f.heads /\ LowOK(l, f.pos + 1, p + 1, D)
  BY LowEnters
<1> HIDE DEF l, e
<1>5. /\ IsLatest(f.pos, p, p, t.head, key[p], key) /\ SameView(f, k)
      /\ HcQueue(k.heads, k.high, f.pos + 1, p + 1, D) /\ Len(k.heads) <= ToLimit(f) - 1
      /\ k.hash2 = l.hash2 /\ k.hash3 = l.hash3 /\ k.son = l.son
  BY <1>4, HcHead
<1> HIDE DEF t
<1>6. /\ k.buf = f.buf /\ k.buffer = f.buffer /\ k.pos = f.pos /\ k.cycPos = f.cycPos /\ k.lenLimit = f.lenLimit
      /\ {"hash2", "hash3", "high", "son", "heads"} \subseteq DOMAIN k
  BY <1>5 DEF SameView
<1>7. link = [f.son EXCEPT ![f.cycPos] = t.head]
  BY <1>4, <1>5, <1>6
<1>8. recs = HcGetMatchesSpec(f.buf, f.buffer, f.pos, f.cycPos, Cyclic, link, t.head, f.lenLimit, m, CutValue)
  BY <1>6
<1>9. /\ g.son = link /\ g.high = k.high /\ g.heads = k.heads /\ g.hash2 = l.hash2 /\ g.hash3 = l.hash3
  <2> HIDE DEF link
  <2>1. g.son = link /\ g.high = k.high /\ g.heads = k.heads /\ g.hash2 = k.hash2 /\ g.hash3 = k.hash3
    BY <1>6
  <2> QED BY <2>1, <1>5
<1> HIDE DEF g, recs, key, link, k
<1>10. Chained(link, f.pos, p, f.cycPos, key) /\ Chained(link, f.pos + 1, p + 1, NextSlot(f.cycPos), key)
  BY <1>1, <1>2, <1>5, <1>7, LinkJoins
<1>11. Searched(e, m, recs, key)
  <2>1. /\ Chained(link, f.pos, e.p, f.cycPos, key) /\ IsLatest(f.pos, e.p, e.p, t.head, key[e.p], key) /\ m \in 0 .. e.n
    BY <1>3, <1>5, <1>10
  <2>2. Searched(e, m, HcGetMatchesSpec(f.buf, f.buffer, f.pos, f.cycPos, Cyclic, link, t.head, e.n, m, CutValue), key)
    BY <2>1, <1>1, <1>3, ChainWalk
  <2> QED BY <2>2, <1>3, <1>8
<1>12. LowOK(g, f.pos + 1, p + 1, D)
  BY <1>4, <1>9 DEF LowOK
<1>13. Entered2(f, g, p, D)
  BY <1>5, <1>9, <1>10, <1>12 DEF Entered2, Tables, key
<1> QED BY <1>11, <1>13 DEF g, recs, link, k, t, l, e, key

\* What get_matches finds, and how it leaves the tables.
LEMMA GetEnters ==
    ASSUME NEW f, NEW p, NEW D, Ready(f, p, D)
    PROVE  LET low  == LowMatches(f)
               high == HighMatches(EnterLow(f), low)
           IN  Answers(Here(D, p, f.lenLimit), kind.n, low.recs \o high.recs) /\ Entered2(f, high.f, p, D)
<1> DEFINE low == LowMatches(f)
           l == EnterLow(f)
           high == HighMatches(l, low)
           e == Here(D, p, f.lenLimit)
           t == TakeHead(l, low.maxLen # f.lenLimit)
           k == t.f
           m == low.maxLen
           key == KeyN(D)
<1>1. /\ f.lenLimit \in Nat /\ f.lenLimit >= kind.n /\ kind.n \in 2 .. 5 /\ Env(e) /\ D \in Bits /\ p \in Nat
      /\ kind.bt \in BOOLEAN
  BY ReadyFacts DEF Ready
<1>2. e.D = D /\ e.p = p /\ e.n = f.lenLimit /\ e.H = Hist(p)
  BY HereFacts
<1>3. LowSound(e, kind.n, low)
  BY LowAnswers
<1>4. SameView(f, l)
  BY LowEnters
<1> HIDE DEF e, low, l
<1>5. m \in 0 .. f.lenLimit
  <2> DEFINE n == kind.n
             lim == f.lenLimit
  <2>1. m \in n - 1 .. lim /\ n \in 2 .. 5 /\ lim \in Nat
    BY <1>1, <1>2, <1>3 DEF LowSound
  <2> HIDE DEF n, lim, m
  <2>2. m \in 0 .. lim
    BY <2>1
  <2> QED BY <2>2 DEF lim
<1>6. l.lenLimit = f.lenLimit
  BY <1>4 DEF SameView
<1>7. Searched(e, m, high.recs, key) /\ Entered2(f, high.f, p, D)
  <2>1. CASE kind.bt
    <3> DEFINE walk == GetMatchesSpec1(k.buf, k.buffer, k.pos, k.cycPos, Cyclic, k.son, t.head, k.lenLimit, m, CutValue)
               g == [k EXCEPT !.son = walk.son]
    <3>1. high = [recs |-> walk.recs, f |-> g]
      BY <2>1, <1>6 DEF HighMatches
    <3>2. Searched(e, m, walk.recs, key) /\ Entered2(f, g, p, D)
      BY <2>1, <1>5, BtWalked DEF e, l
    <3> HIDE DEF walk, g, high
    <3> QED BY <3>1, <3>2
  <2>2. CASE ~kind.bt
    <3> DEFINE link == [k.son EXCEPT ![k.cycPos] = t.head]
               g == [k EXCEPT !.son = link]
               recs == HcGetMatchesSpec(k.buf, k.buffer, k.pos, k.cycPos, Cyclic, link, t.head, k.lenLimit, m, CutValue)
    <3>1. high = [recs |-> IF m = f.lenLimit THEN <<>> ELSE recs, f |-> g]
      BY <2>2, <1>6 DEF HighMatches
    <3>2. Searched(e, m, recs, key) /\ Entered2(f, g, p, D)
      BY <2>2, <1>5, HcWalked DEF e, l
    <3> HIDE DEF recs, g, high
    <3>3. Searched(e, e.n, <<>>, key)
      BY <1>1, NothingLonger
    <3>4. high.recs = (IF m = f.lenLimit THEN <<>> ELSE recs) /\ high.f = g
      BY <3>1
    <3>5. CASE m = f.lenLimit
      BY <3>2, <3>3, <3>4, <3>5, <1>2
    <3>6. CASE m # f.lenLimit
      BY <3>2, <3>4, <3>6
    <3> QED BY <3>5, <3>6
  <2> QED BY <2>1, <2>2
<1> HIDE DEF high
<1>8. \A y \in e.H : Same(e.D, y, e.p, kind.n) => key[y] = key[e.p]
  <2> TAKE y \in e.H
  <2> HAVE Same(e.D, y, e.p, kind.n)
  <2>1. y \in Nat
    BY <1>2 DEF Hist
  <2> DEFINE n == kind.n
  <2>2. n \in 2 .. 5 /\ Same(D, y, p, n)
    BY <1>1, <1>2
  <2>3. key[y] = HashCalc(D, y, n) /\ key[p] = HashCalc(D, p, n)
    BY <2>1, <1>1 DEF KeyN
  <2> HIDE DEF n
  <2>4. HashCalc(D, y, n) = HashCalc(D, p, n)
    BY <2>1, <2>2, <1>1, SameHashes
  <2> QED BY <2>3, <2>4, <1>2
<1>9. Answers(e, kind.n, low.recs \o high.recs)
  <2>1. kind.n \in 2 .. e.n
    BY <1>1, <1>2
  <2> HIDE DEF key
  <2> QED BY <2>1, <1>1, <1>3, <1>7, <1>8, Together
<1> QED BY <1>7, <1>9 DEF e, high, low, l

\* How skip leaves the tables.
LEMMA SkipEnters ==
    ASSUME NEW f, NEW p, NEW D, Ready(f, p, D)
    PROVE  LET t == TakeHead(EnterLow(f), FALSE)
           IN  Entered2(f, IF kind.bt THEN BtSkip(t) ELSE HcSkip(t), p, D)
<1> DEFINE t == TakeHead(EnterLow(f), FALSE)
           m == f.lenLimit
<1>1. m \in Nat /\ m \in 0 .. f.lenLimit
  BY ReadyFacts
<1>2. t.f.lenLimit = m
  <2>1. SameView(f, EnterLow(f)) /\ EnterLow(f).high = f.high /\ EnterLow(f).heads = f.heads
    BY LowEnters
  <2>2. CASE kind.bt
    <3>1. SameView(EnterLow(f), t.f)
      BY <2>1, <2>2, BtHead, ZenonT(60) DEF SameView
    <3> QED BY <2>1, <3>1 DEF SameView
  <2>3. CASE ~kind.bt
    <3>1. SameView(f, t.f)
      BY <2>1, <2>3, HcHead
    <3> QED BY <3>1 DEF SameView
  <2> QED BY <2>2, <2>3
<1>3. CASE kind.bt
  <2> DEFINE walk == GetMatchesSpec1(t.f.buf, t.f.buffer, t.f.pos, t.f.cycPos, Cyclic, t.f.son, t.head, t.f.lenLimit, m, CutValue)
  <2>1. Entered2(f, [t.f EXCEPT !.son = walk.son], p, D)
    BY <1>1, <1>3, BtWalked
  <2>2. BtSkip(t) = [t.f EXCEPT !.son = walk.son]
    BY <1>2 DEF BtSkip, SkipMatchesSpec
  <2> QED BY <2>1, <2>2, <1>3
<1>4. CASE ~kind.bt
  <2> DEFINE link == [t.f.son EXCEPT ![t.f.cycPos] = t.head]
  <2>1. Entered2(f, [t.f EXCEPT !.son = link], p, D)
    BY <1>1, <1>4, HcWalked
  <2>2. HcSkip(t) = [t.f EXCEPT !.son = link]
    BY DEF HcSkip
  <2> QED BY <2>1, <2>2, <1>4
<1> QED BY <1>3, <1>4

(***************************************************************************)
(* The tables while the finder moves on.                                   *)
(***************************************************************************)
TableFields == {"hash2", "hash3", "high", "son", "heads"}

\* The tables of f and g are the same.
SameTables(f, g) == TableFields \subseteq DOMAIN g /\ \A x \in TableFields : g[x] = f[x]

\* Those of g are those of f, normalised.
TablesWrapped(f, g) ==
    /\ g.hash2 = Norm(f.hash2) /\ g.hash3 = Norm(f.hash3) /\ g.high = Norm(f.high) /\ g.son = Norm(f.son)
    /\ g.heads = f.heads

\* The same tables hold the same.
LEMMA TablesSame ==
    ASSUME NEW f, NEW g, SameTables(f, g), NEW q, NEW p, NEW cp, NEW n, NEW D, Tables(f, q, p, cp, n, D)
    PROVE  Tables(g, q, p, cp, n, D)
<1>1. g.hash2 = f.hash2 /\ g.hash3 = f.hash3 /\ g.high = f.high /\ g.son = f.son /\ g.heads = f.heads
  BY DEF SameTables, TableFields
<1> QED BY <1>1 DEF Tables, LowOK

\* What holds of the bytes looked at holds of fewer.
LEMMA TablesFewer ==
    ASSUME NEW f, NEW q, NEW p \in Nat, NEW cp, NEW n \in Nat, NEW D \in Texts, Tables(f, q, p, cp, n, D), NEW k \in 0 .. n
    PROVE  Tables(f, q, p, cp, k, D)
<1>1. kind.bt => BtTables(f.high, f.son, q, p, cp, k, D)
  BY BtFewer DEF Tables
<1> QED BY <1>1 DEF Tables

\* The normalised tables hold the same history.
LEMMA TablesNorm ==
    ASSUME NEW p, Steady(PosMod, p), NEW cp \in Slots, NEW n, NEW D, NEW f, f.heads = <<>>, Tables(f, PosMod, p, cp, n, D),
           NEW g, TablesWrapped(f, g)
    PROVE  Tables(g, Cyclic, p, cp, n, D)
<1>1. g.hash2 = Norm(f.hash2) /\ g.hash3 = Norm(f.hash3) /\ g.high = Norm(f.high) /\ g.son = Norm(f.son) /\ g.heads = <<>>
  BY DEF TablesWrapped
<1>2. LowOK(f, PosMod, p, D)
  BY DEF Tables
<1>3. kind.n >= 3 => DOMAIN g.hash2 = [1 .. 1 -> {0, 1}] /\ Latest(Cyclic, p, g.hash2, Key2(D))
  BY <1>1, <1>2, LatestNorm DEF LowOK
<1>4. kind.n >= 4 => DOMAIN g.hash3 = [1 .. 2 -> {0, 1}] /\ Latest(Cyclic, p, g.hash3, Key3(D))
  BY <1>1, <1>2, LatestNorm DEF LowOK
<1>5. LowOK(g, Cyclic, p, D)
  BY <1>3, <1>4 DEF LowOK
<1>6. kind.bt => BtTables(g.high, g.son, Cyclic, p, cp, n, D)
  BY <1>1, BtNorm DEF Tables
<1>7. ASSUME ~kind.bt PROVE HcQueue(g.heads, g.high, Cyclic, p, D) /\ Chained(g.son, Cyclic, p, cp, KeyN(D))
  <2>1. HcQueue(<<>>, f.high, PosMod, p, D) /\ Chained(f.son, PosMod, p, cp, KeyN(D))
    BY <1>7 DEF Tables
  <2>2. Chained(g.son, Cyclic, p, cp, KeyN(D))
    BY <2>1, <1>1, ChainedNorm
  <2> DEFINE none == <<>>
  <2>3. none \in Seq(Nat) /\ Len(none) = 0 /\ PosMod + 0 = PosMod /\ p + 0 = p /\ Cyclic + 0 = Cyclic
    BY Sizes DEF Steady
  <2> HIDE DEF none
  <2>4. HcQueue(none, f.high, PosMod, p, D)
    BY <2>1 DEF none
  <2>5. DOMAIN f.high = HashValues(kind.n) /\ Latest(PosMod, p, f.high, KeyN(D))
    BY <2>3, <2>4 DEF HcQueue
  <2>6. DOMAIN g.high = HashValues(kind.n) /\ Latest(Cyclic, p, g.high, KeyN(D))
    BY <2>5, <1>1, LatestNorm
  <2>7. HcQueue(none, g.high, Cyclic, p, D)
    BY <2>3, <2>6 DEF HcQueue
  <2> QED BY <2>2, <2>7, <1>1 DEF none
<1> QED BY <1>1, <1>5, <1>6, <1>7 DEF Tables

\* set_limits: from here to the next look around there are bytes for the longest match that may be reported, and no
\* position wraps before.
LEMMA LimitsFacts ==
    ASSUME kind \in Kinds, NEW f, FinderOK(f), f.cycPos < Cyclic
    PROVE  LET g == SetLimits(f)
           IN  /\ g.lenLimit = MinOf(MatchMaxLen, Avail(f)) /\ g.pos = f.pos /\ g.cycPos = f.cycPos /\ SameTables(f, g)
               /\ Avail(g) = Avail(f) /\ Avail(f) \in Nat /\ g.ended = f.ended /\ g.err = f.err
               /\ Avail(f) > 0 => /\ ToLimit(g) \in Nat \ {0} /\ g.lenLimit + ToLimit(g) - 1 <= Avail(f)
                                  /\ g.pos + ToLimit(g) <= PosMod
<1> DEFINE a == Avail(f)
           toWrap == IF f.pos = KMax THEN PosMod - 1 ELSE (KMax - f.pos) % PosMod
           step == IF a > KeepAfter(kind) THEN a - KeepAfter(kind)
                   ELSE IF a >= MatchMaxLen THEN a - MatchMaxLen + 1
                   ELSE MinOf(a, 1)
           room == Cyclic - f.cycPos
           m == Min({toWrap, room, step})
           len == MinOf(MatchMaxLen, a)
           limit == (f.pos + m) % PosMod
           q == f.pos
           g == SetLimits(f)
<1>1. /\ a \in Positions /\ q \in Positions /\ q \in Int
      /\ f.cycPos \in Nat /\ room \in Nat \ {0}
  <2>1. /\ q \in Positions /\ f.streamPos \in Positions /\ f.cycPos \in Nat
        /\ q \in Int /\ f.streamPos \in Int /\ Cyclic \in Nat
    <3>1. q \in Positions /\ f.streamPos \in Positions /\ f.cycPos \in 0 .. Cyclic /\ Cyclic \in Nat /\ PosMod \in Nat
      BY Sizes DEF FinderOK
    <3> QED BY <3>1 DEF Positions
  <2>2. f.streamPos - q \in Int
    BY <2>1
  <2>3. a \in Positions
    BY <2>2, DivMod DEF Avail
  <2>4. room \in Nat \ {0}
    BY <2>1
  <2> QED
    BY <2>1, <2>3, <2>4, Zenon
<1>2. toWrap \in 1 .. PosMod - 1
  BY <1>1, WrapAhead
<1>3. /\ KeepAfter(kind) = KeepAddAfter + MatchMaxLen /\ KeepAfter(kind) \in Nat \ {0}
      /\ MatchMaxLen \in Nat \ {0} /\ PosMod \in Nat \ {0} /\ Cyclic \in Nat /\ a \in Nat
      /\ KeepAddAfter \in Nat
  BY <1>1, KindFacts, Sizes DEF Positions
<1>4. g = [f EXCEPT !.lenLimit = len, !.posLimit = limit]
  BY Zenon DEF SetLimits
<1>5. q + toWrap <= PosMod
  <2>1. KMax = 0 /\ q \in 0 .. PosMod - 1 /\ PosMod \in Nat \ {0}
    BY <1>1, <1>3, Sizes DEF Positions
  <2>2. CASE q = 0
    BY <2>1, <2>2
  <2>3. CASE q # 0
    <3>1. PosMod - q \in Positions /\ -q \in Int /\ PosMod - q \in Int
      BY <2>1, <2>3 DEF Positions
    <3>2. PosMod - q = -q + PosMod * 1
      BY <2>1
    <3>3. (PosMod - q) % PosMod = (-q) % PosMod
      <4> DEFINE x == PosMod - q
                 y == -q
      <4>1. x \in Int /\ y \in Int /\ x = y + PosMod * 1
        BY <3>1, <3>2
      <4> HIDE DEF x, y
      <4>2. x % PosMod = y % PosMod
        BY <4>1, SameMod
      <4> QED BY <4>2 DEF x, y
    <3>4. (PosMod - q) % PosMod = PosMod - q
      BY <3>1, SmallMod
    <3>5. KMax - q = -q
      BY <2>1
    <3>6. toWrap = PosMod - q
      BY <2>1, <2>3, <3>3, <3>4, <3>5
    <3> HIDE DEF toWrap
    <3> QED BY <2>1, <3>6
  <2> QED BY <2>2, <2>3
<1> HIDE DEF a, toWrap, room, len
<1>6. step \in 0 .. a /\ (a > 0 => step >= 1 /\ len + step - 1 <= a) /\ len \in Nat
  BY <1>3 DEF MinOf, len
<1> HIDE DEF step
<1>7. /\ m \in {toWrap, room, step} /\ m <= toWrap /\ m <= room /\ m <= step
  <2>1. toWrap \in Int /\ room \in Int /\ step \in Int
    BY <1>1, <1>2, <1>3, <1>6
  <2> QED
    BY <2>1, MinThree, Zenon
<1>8. m \in 0 .. a /\ m < PosMod /\ (a > 0 => m >= 1 /\ len + m - 1 <= a) /\ q + m <= PosMod
  BY <1>1, <1>2, <1>3, <1>5, <1>6, <1>7
<1> HIDE DEF m
<1>9. limit \in Positions /\ (limit - q) % PosMod = m
  <2>1. (q - q) % PosMod = 0
    <3>1. q - q = 0 /\ 0 \in Positions
      BY <1>1, <1>3 DEF Positions
    <3> QED
      BY <3>1, SmallMod
  <2>2. m \in Nat /\ q + m \in Int
    BY <1>1, <1>3, <1>8
  <2>3. (((q + m) % PosMod) - q) % PosMod = ((q - q) % PosMod) + m
    <3>1. ((q - q) % PosMod) + m < PosMod
      BY <1>8, <2>1, <2>2
    <3> QED
      BY <1>1, <2>2, <3>1, Farther, Zenon
  <2>4. (q + m) % PosMod \in Positions
    BY <2>2, DivMod
  <2> QED
    BY <1>3, <2>1, <2>2, <2>3, <2>4
<1> HIDE DEF limit, g
<1>10. /\ g.posLimit = limit /\ g.lenLimit = len /\ g.pos = q /\ g.cycPos = f.cycPos /\ g.streamPos = f.streamPos
       /\ g.ended = f.ended /\ g.err = f.err
  BY <1>4 DEF FinderOK, WindowFields
<1>11. SameTables(f, g)
  BY <1>4 DEF FinderOK, SameTables, TableFields
<1>12. Avail(g) = a /\ ToLimit(g) = m
  BY <1>9, <1>10 DEF Avail, ToLimit, a
<1>13. m \in Nat /\ (a > 0 => m \in Nat \ {0} /\ len + m - 1 <= a)
  BY <1>3, <1>8
<1> QED BY <1>3, <1>8, <1>10, <1>11, <1>12, <1>13 DEF g, a, len

\* What a finder knows of the longest match it may report at p, and of the next look around.
Posn(f, p) ==
    /\ f.lenLimit \in 0 .. MatchMaxLen
    /\ f.lenLimit < MatchMaxLen => ~ReadsOn(f) /\ Avail(f) <= f.lenLimit
    /\ f.lenLimit >= kind.n => /\ ToLimit(f) \in Nat \ {0} /\ f.lenLimit + ToLimit(f) - 1 <= Avail(f)
                               /\ f.pos + ToLimit(f) <= PosMod /\ Steady(f.pos, p)

\* As long as a position can be hashed, the tables hold the history.
Holds(f, p, D) ==
    f.lenLimit >= kind.n => Tables(f, f.pos, p, f.cycPos, f.lenLimit, D) /\ Len(f.heads) <= ToLimit(f)

\* normalise: the positions become small, and the tables with them.
LEMMA NormalizeFacts ==
    ASSUME NEW f, FinderOK(f), f.pos = 0
    PROVE  LET g == Normalize(f)
           IN  /\ g.pos = Cyclic /\ TablesWrapped(f, g) /\ FinderOK(g) /\ Avail(g) = Avail(f)
               /\ g.cycPos = f.cycPos /\ g.ended = f.ended /\ g.err = f.err
<1> DEFINE sub == (f.pos - HistorySize - 1) % PosMod
           x == (f.pos - sub) % PosMod
           y == (f.streamPos - sub) % PosMod
           g == Normalize(f)
<1>1. /\ HistorySize \in Nat \ {0} /\ PosMod \in Nat \ {0} /\ PosMod > HistorySize + 1 /\ Cyclic = HistorySize + 1
      /\ f.streamPos \in Positions /\ f.streamPos \in Int
  BY Sizes DEF FinderOK, Positions
<1>2. sub = PosMod - Cyclic
  <2> DEFINE a == PosMod - Cyclic
             b == f.pos - HistorySize - 1
  <2>1. a \in Int /\ b \in Int /\ a = b + PosMod * 1 /\ a \in Positions
    BY <1>1 DEF Positions
  <2> HIDE DEF a, b
  <2>2. a % PosMod = b % PosMod /\ a % PosMod = a
    BY <2>1, SameMod, SmallMod
  <2> QED BY <2>2 DEF a, b
<1> HIDE DEF sub
<1>3. x = Cyclic
  <2> DEFINE a == Cyclic
             b == f.pos - sub
  <2>1. a \in Int /\ b \in Int /\ a = b + PosMod * 1 /\ a \in Positions
    BY <1>1, <1>2 DEF Positions
  <2> HIDE DEF a, b
  <2>2. a % PosMod = b % PosMod /\ a % PosMod = a
    BY <2>1, SameMod, SmallMod
  <2> QED BY <2>2 DEF a, b
<1>4. x \in Positions /\ y \in Positions /\ (y - x) % PosMod = Avail(f)
  <2>1. f.pos - sub \in Int /\ f.streamPos - sub \in Int /\ f.pos \in Int /\ sub \in Int
    BY <1>1, <1>2
  <2>2. x \in Positions /\ y \in Positions
    BY <2>1, DivMod
  <2>3. (y - x) % PosMod = (f.streamPos - f.pos) % PosMod
    BY <1>1, <2>1, Reduced
  <2> QED
    BY <2>2, <2>3 DEF Avail
<1> HIDE DEF x, y
<1>5. g = [f EXCEPT !.pos = x, !.streamPos = y, !.hash2 = Normalize3(sub, f.hash2), !.hash3 = Normalize3(sub, f.hash3),
                    !.high = Normalize3(sub, f.high), !.son = Normalize3(sub, f.son)]
  BY Zenon DEF Normalize, x, y, sub
<1> HIDE DEF g
<1>6. {"pos", "streamPos", "hash2", "hash3", "high", "son", "heads"} \subseteq DOMAIN f
  BY DEF FinderOK, WindowFields
<1>7. /\ DOMAIN g = DOMAIN f /\ g.pos = x /\ g.streamPos = y
      /\ g.hash2 = Normalize3(sub, f.hash2) /\ g.hash3 = Normalize3(sub, f.hash3)
      /\ g.high = Normalize3(sub, f.high) /\ g.son = Normalize3(sub, f.son) /\ g.heads = f.heads
      /\ \A z \in WindowFields \ {"pos", "streamPos"} : g[z] = f[z]
  <2> DEFINE s2 == Normalize3(sub, f.hash2)
             s3 == Normalize3(sub, f.hash3)
             s4 == Normalize3(sub, f.high)
             s5 == Normalize3(sub, f.son)
  <2>1. g = [f EXCEPT !.pos = x, !.streamPos = y, !.hash2 = s2, !.hash3 = s3, !.high = s4, !.son = s5]
    BY <1>5
  <2> HIDE DEF s2, s3, s4, s5
  <2>2. /\ DOMAIN g = DOMAIN f /\ g.pos = x /\ g.streamPos = y
        /\ g.hash2 = s2 /\ g.hash3 = s3 /\ g.high = s4 /\ g.son = s5 /\ g.heads = f.heads
    BY <2>1, <1>6
  <2>3. \A z \in WindowFields \ {"pos", "streamPos"} : g[z] = f[z]
    BY <2>1 DEF FinderOK, WindowFields
  <2> QED BY <2>2, <2>3 DEF s2, s3, s4, s5
<1>8. TablesWrapped(f, g)
  BY <1>2, <1>7 DEF TablesWrapped, Norm
<1>9. /\ g.cycPos = f.cycPos /\ g.ended = f.ended /\ g.err = f.err /\ g.blockSize = f.blockSize /\ g.buffer = f.buffer
      /\ g.buf = f.buf /\ g.posLimit = f.posLimit /\ g.begun = f.begun
  BY <1>7 DEF WindowFields
<1>10. FinderOK(g)
  BY <1>4, <1>7, <1>9 DEF FinderOK
<1>11. Avail(g) = Avail(f)
  BY <1>4, <1>7 DEF Avail
<1> QED BY <1>3, <1>7, <1>8, <1>9, <1>10, <1>11 DEF g

\* The second half of check_limits: what it does to the positions and the tables.
LEMMA AroundFacts ==
    ASSUME kind \in Kinds, NEW f, FinderOK(f), NEW cp, cp = IF f.cycPos = Cyclic THEN 0 ELSE f.cycPos
    PROVE  LET g == AfterRead(f)
           IN  /\ g.lenLimit = MinOf(MatchMaxLen, Avail(f)) /\ g.cycPos = cp
               /\ Avail(g) = Avail(f) /\ Avail(f) \in Nat /\ g.ended = f.ended /\ g.err = f.err
               /\ Avail(f) > 0 => /\ ToLimit(g) \in Nat \ {0} /\ g.lenLimit + ToLimit(g) - 1 <= Avail(f)
                                  /\ g.pos + ToLimit(g) <= PosMod
               /\ IF f.pos = 0 /\ Avail(f) >= kind.n THEN g.pos = Cyclic /\ TablesWrapped(f, g)
                  ELSE g.pos = f.pos /\ SameTables(f, g)
<1> DEFINE m == IF f.pos = KMax /\ Avail(f) >= kind.n THEN Normalize(f) ELSE f
           cyc == IF m.cycPos = Cyclic THEN 0 ELSE m.cycPos
           c == [m EXCEPT !.cycPos = cyc]
           g == AfterRead(f)
<1>1. g = SetLimits(c)
  BY Zenon DEF AfterRead, c, cyc, m
<1>2. /\ FinderOK(m) /\ Avail(m) = Avail(f) /\ m.cycPos = f.cycPos /\ m.ended = f.ended /\ m.err = f.err
      /\ IF f.pos = 0 /\ Avail(f) >= kind.n THEN m.pos = Cyclic /\ TablesWrapped(f, m)
         ELSE m = f
  BY NormalizeFacts, Sizes
<1> HIDE DEF m
<1>3. cyc = cp /\ cyc \in 0 .. Cyclic /\ cyc < Cyclic
  BY <1>2, Sizes DEF FinderOK
<1> HIDE DEF cyc, g
<1>4. /\ DOMAIN c = DOMAIN m /\ c.cycPos = cyc
      /\ \A z \in (WindowFields \cup TableFields) \ {"cycPos"} : c[z] = m[z]
  BY <1>2 DEF FinderOK, WindowFields, TableFields
<1> HIDE DEF c
<1>5. /\ c.pos = m.pos /\ c.streamPos = m.streamPos /\ c.ended = m.ended /\ c.err = m.err /\ c.blockSize = m.blockSize
      /\ c.buffer = m.buffer /\ c.buf = m.buf /\ c.posLimit = m.posLimit /\ c.begun = m.begun
      /\ c.hash2 = m.hash2 /\ c.hash3 = m.hash3 /\ c.high = m.high /\ c.son = m.son /\ c.heads = m.heads
  BY <1>4 DEF WindowFields, TableFields
<1>6. FinderOK(c) /\ Avail(c) = Avail(f) /\ c.cycPos < Cyclic
  BY <1>2, <1>3, <1>4, <1>5 DEF FinderOK, Avail
<1>7. /\ g.lenLimit = MinOf(MatchMaxLen, Avail(c)) /\ g.pos = c.pos /\ g.cycPos = c.cycPos /\ SameTables(c, g)
      /\ Avail(g) = Avail(c) /\ Avail(c) \in Nat /\ g.ended = c.ended /\ g.err = c.err
      /\ Avail(c) > 0 => /\ ToLimit(g) \in Nat \ {0} /\ g.lenLimit + ToLimit(g) - 1 <= Avail(c)
                         /\ g.pos + ToLimit(g) <= PosMod
  BY <1>1, <1>6, LimitsFacts
<1>8. /\ g.hash2 = m.hash2 /\ g.hash3 = m.hash3 /\ g.high = m.high /\ g.son = m.son /\ g.heads = m.heads
      /\ TableFields \subseteq DOMAIN g
  BY <1>5, <1>7 DEF SameTables, TableFields
<1>9. IF f.pos = 0 /\ Avail(f) >= kind.n THEN g.pos = Cyclic /\ TablesWrapped(f, g)
      ELSE g.pos = f.pos /\ SameTables(f, g)
  <2>1. CASE f.pos = 0 /\ Avail(f) >= kind.n
    BY <2>1, <1>2, <1>5, <1>7, <1>8 DEF TablesWrapped
  <2>2. CASE ~(f.pos = 0 /\ Avail(f) >= kind.n)
    BY <2>2, <1>2, <1>5, <1>7, <1>8 DEF SameTables, TableFields
  <2> QED BY <2>1, <2>2
<1> QED BY <1>2, <1>3, <1>4, <1>5, <1>6, <1>7, <1>9 DEF g

\* A finder x that has come to p is about to look around; n bytes were looked at so far, and q is the position of the
\* tables before it wraps.
Arrived(x, p, n, q, D) ==
    /\ n >= kind.n => /\ x.heads = <<>> /\ Steady(q, p) /\ q <= PosMod /\ x.pos = (IF q = PosMod THEN 0 ELSE q)
                      /\ Tables(x, q, p, IF x.cycPos = Cyclic THEN 0 ELSE x.cycPos, n, D)
    /\ n < MatchMaxLen => ~ReadsOn(x) /\ Avail(x) <= n

\* check_limits looks around in time, and keeps the history.
LEMMA LooksAround ==
    ASSUME kind \in Kinds, NEW x, FinderOK(x), ReadsOn(x) => Avail(x) > KeepAfter(kind), NEW p \in Nat, NEW n \in 0 .. MatchMaxLen,
           NEW q, NEW D \in Texts, Arrived(x, p, n, q, D)
    PROVE  Posn(AfterRead(x), p) /\ Holds(AfterRead(x), p, D)
<1> DEFINE cp == IF x.cycPos = Cyclic THEN 0 ELSE x.cycPos
           g == AfterRead(x)
           a == Avail(x)
           len == g.lenLimit
           k == kind.n
           t == ToLimit(g)
<1>1. /\ len = MinOf(MatchMaxLen, a) /\ g.cycPos = cp
      /\ Avail(g) = a /\ a \in Nat /\ g.ended = x.ended /\ g.err = x.err
      /\ a > 0 => t \in Nat \ {0} /\ len + t - 1 <= a /\ g.pos + t <= PosMod
      /\ IF x.pos = 0 /\ a >= k THEN g.pos = Cyclic /\ TablesWrapped(x, g)
         ELSE g.pos = x.pos /\ SameTables(x, g)
  BY AroundFacts
<1>2. /\ KeepAfter(kind) = KeepAddAfter + MatchMaxLen /\ MatchMaxLen \in Nat \ {0} /\ KeepAddAfter \in Nat
      /\ k \in 2 .. 5 /\ Cyclic \in Nat \ {0} /\ PosMod \in Nat \ {0} /\ Cyclic = HistorySize + 1 /\ HistorySize \in Nat
  BY KindFacts, Sizes
<1>3. cp \in Slots
  <2>1. x.cycPos \in 0 .. Cyclic
    BY DEF FinderOK
  <2> QED BY <2>1, <1>2 DEF Slots
<1>4. n < MatchMaxLen => ~ReadsOn(x) /\ a <= n
  BY DEF Arrived
<1>5. n >= k => /\ x.heads = <<>> /\ Steady(q, p) /\ q <= PosMod /\ x.pos = (IF q = PosMod THEN 0 ELSE q)
                /\ Tables(x, q, p, cp, n, D)
  BY DEF Arrived
<1>6. ReadsOn(x) => a > KeepAfter(kind)
  OBVIOUS
<1>7. ReadsOn(g) <=> ReadsOn(x)
  BY <1>1 DEF ReadsOn
<1> HIDE DEF g, a, len, k, t, cp
<1>8. len \in 0 .. MatchMaxLen /\ len <= n /\ len <= a /\ (len < MatchMaxLen => a <= len)
  BY <1>1, <1>2, <1>4 DEF MinOf
<1>9. len < MatchMaxLen => ~ReadsOn(x)
  BY <1>1, <1>2, <1>6, <1>8
<1>10. ASSUME len >= k
       PROVE  /\ t \in Nat \ {0} /\ len + t - 1 <= a /\ g.pos + t <= PosMod /\ Steady(g.pos, p)
              /\ Tables(g, g.pos, p, cp, len, D) /\ g.heads = <<>>
  <2>1. n >= k /\ a >= k /\ a > 0
    BY <1>1, <1>2, <1>8, <1>10
  <2>2. x.heads = <<>> /\ Steady(q, p) /\ q <= PosMod /\ x.pos = (IF q = PosMod THEN 0 ELSE q) /\ Tables(x, q, p, cp, n, D)
    BY <2>1, <1>5
  <2>3. q \in Nat \ {0}
    BY <2>2 DEF Steady
  <2>4. g.heads = <<>> /\ Steady(g.pos, p) /\ Tables(g, g.pos, p, cp, n, D)
    <3>1. CASE q = PosMod
      <4>1. x.pos = 0 /\ g.pos = Cyclic /\ TablesWrapped(x, g)
        BY <2>1, <2>2, <3>1, <1>1
      <4>2. Tables(g, Cyclic, p, cp, n, D)
        BY <4>1, <2>2, <3>1, <1>3, TablesNorm
      <4>3. Steady(Cyclic, p)
        <5>1. p >= HistorySize
          BY <2>2, <3>1, <1>2, Sizes DEF Steady
        <5> QED BY <5>1, <1>2 DEF Steady
      <4>4. g.heads = <<>>
        BY <4>1, <2>2 DEF TablesWrapped
      <4> QED BY <4>1, <4>2, <4>3, <4>4
    <3>2. CASE q # PosMod
      <4>1. x.pos = q /\ q # 0
        BY <2>2, <2>3, <3>2
      <4>2. g.pos = q /\ SameTables(x, g)
        BY <4>1, <1>1
      <4>3. Tables(g, q, p, cp, n, D)
        BY <4>2, <2>2, TablesSame
      <4>4. g.heads = <<>>
        BY <4>2, <2>2 DEF SameTables, TableFields
      <4> QED BY <4>2, <4>3, <4>4, <2>2
    <3> QED BY <3>1, <3>2
  <2>5. len \in 0 .. n /\ n \in Nat
    BY <1>2, <1>8
  <2>6. Tables(g, g.pos, p, cp, len, D)
    BY <2>4, <2>5, TablesFewer
  <2> QED BY <2>1, <2>4, <2>6, <1>1
<1>11. Posn(g, p)
  BY <1>1, <1>7, <1>8, <1>9, <1>10 DEF Posn, len, k, t
<1>12. Holds(g, p, D)
  <2> SUFFICES ASSUME len >= k PROVE Tables(g, g.pos, p, g.cycPos, len, D) /\ Len(g.heads) <= t
    BY DEF Holds, len, k, t
  <2>1. Len(g.heads) <= t
    <3>1. Len(<<>>) = 0 /\ t \in Nat
      BY <1>10
    <3> QED BY <3>1, <1>10
  <2> QED BY <2>1, <1>1, <1>10
<1> QED BY <1>11, <1>12 DEF g

\* The reads and moves of the window leave the tables and the position.
LEMMA ReadTables ==
    ASSUME NEW f, FinderOK(f), NEW o
    PROVE  /\ SameTables(f, ReadBlock(f, o)) /\ SameTables(f, BeforeRead(f))
           /\ ReadBlock(f, o).pos = f.pos /\ ReadBlock(f, o).cycPos = f.cycPos
           /\ BeforeRead(f).pos = f.pos /\ BeforeRead(f).cycPos = f.cycPos
<1>1. TableFields \cup {"pos", "cycPos"} \subseteq DOMAIN f
  BY DEF FinderOK, WindowFields, TableFields
<1>2. \E b, s, e, r : ReadBlock(f, o) = [f EXCEPT !.buf = b, !.streamPos = s, !.ended = e, !.err = r]
  BY Zenon DEF ReadBlock
<1>3. SameTables(f, ReadBlock(f, o)) /\ ReadBlock(f, o).pos = f.pos /\ ReadBlock(f, o).cycPos = f.cycPos
  BY <1>1, <1>2 DEF SameTables, TableFields
<1>4. BeforeRead(f) = f \/ (\E r : BeforeRead(f) = [f EXCEPT !.err = r])
      \/ (\E c, b : BeforeRead(f) = [f EXCEPT !.buffer = c, !.buf = b])
  BY Zenon DEF BeforeRead, MoveBlock
<1>5. SameTables(f, BeforeRead(f)) /\ BeforeRead(f).pos = f.pos /\ BeforeRead(f).cycPos = f.cycPos
  BY <1>1, <1>4 DEF SameTables, TableFields
<1> QED BY <1>3, <1>5

\* A look around that finds other bytes in the window finds the same tables.
LEMMA ArrivedSame ==
    ASSUME NEW f, NEW g, SameTables(f, g), g.pos = f.pos, g.cycPos = f.cycPos, NEW p, NEW n, NEW q, NEW D, Arrived(f, p, n, q, D),
           n < MatchMaxLen => ~ReadsOn(g) /\ Avail(g) <= n
    PROVE  Arrived(g, p, n, q, D)
<1>1. ASSUME n >= kind.n
      PROVE /\ g.heads = <<>> /\ Steady(q, p) /\ q <= PosMod /\ g.pos = (IF q = PosMod THEN 0 ELSE q)
            /\ Tables(g, q, p, IF g.cycPos = Cyclic THEN 0 ELSE g.cycPos, n, D)
  <2>1. /\ f.heads = <<>> /\ Steady(q, p) /\ q <= PosMod /\ f.pos = (IF q = PosMod THEN 0 ELSE q)
        /\ Tables(f, q, p, IF f.cycPos = Cyclic THEN 0 ELSE f.cycPos, n, D)
    BY <1>1 DEF Arrived
  <2> DEFINE cp == IF f.cycPos = Cyclic THEN 0 ELSE f.cycPos
  <2>2. Tables(f, q, p, cp, n, D)
    BY <2>1
  <2> HIDE DEF cp
  <2>3. Tables(g, q, p, cp, n, D)
    BY <2>2, TablesSame
  <2>4. g.heads = f.heads
    BY DEF SameTables, TableFields
  <2> QED BY <2>1, <2>3, <2>4 DEF cp
<1> QED BY <1>1 DEF Arrived

\* move_pos: what was entered at the position stays in the tables, wherever the finder looks around.
LEMMA MovePosTables ==
    ASSUME WindowInv, mf.begun, at < fed, Posn(mf, at), NEW f, SameWindow(mf, f), MovePos(f), NEW D \in Texts,
           mf.lenLimit >= kind.n => Entered2(mf, f, at, D)
    PROVE  Posn(mf', at + 1) /\ Holds(mf', at + 1, D) /\ fed' \in Nat /\ fed <= fed'
<1> DEFINE g == Step1(f)
           h == BeforeRead(g)
           p == at + 1
           after == KeepAfter(kind)
           n == mf.lenLimit
           q == f.pos + 1
           cp == IF g.cycPos = Cyclic THEN 0 ELSE g.cycPos
           t == ToLimit(f)
<1>1. /\ FinderOK(f) /\ Sized(f) /\ Window(f, at, fed) /\ Limited(f) /\ f.begun
      /\ kind \in Kinds /\ data \in Streams /\ at \in Nat /\ fed \in at .. Len(data)
      /\ Len(data) \in Nat
  BY SameAsState
<1>2. /\ fed \in Nat /\ p \in Nat /\ fed \in p .. Len(data) /\ after \in Nat \ {0} /\ Cyclic \in Nat \ {0}
      /\ PosMod \in Nat \ {0} /\ kind.n \in 2 .. 5
  BY <1>1, KindFacts, Sizes
<1>3. /\ Avail(f) = fed - at /\ Avail(f) \in Nat \ {0} /\ f.cycPos \in Nat
      /\ f.pos \in Positions /\ f.posLimit \in Positions
      /\ f.pos \in Int /\ f.posLimit \in Int
  BY <1>1, <1>2, Sizes, SMTT(40) DEF Window, FinderOK, Positions
<1>4. /\ t \in 1 .. Avail(f) /\ f.cycPos + t <= Cyclic
      /\ ReadsOn(f) => t + after <= Avail(f)
  BY <1>1, <1>3 DEF Limited
<1>5. f.cycPos < Cyclic
  BY <1>2, <1>3, <1>4
<1>6. /\ FinderOK(g) /\ Sized(g) /\ Window(g, p, fed) /\ Avail(g) = Avail(f) - 1
      /\ g.posLimit = f.posLimit /\ g.begun = f.begun
      /\ g.pos = q % PosMod /\ g.cycPos = f.cycPos + 1
      /\ g.ended = f.ended /\ g.err = f.err
  BY <1>1, <1>2, <1>5, StepFacts
<1>7. ToLimit(g) = t - 1
  <2>1. 1 \in 0 .. (f.posLimit - f.pos) % PosMod
    BY <1>3, <1>4 DEF ToLimit
  <2> QED
    BY <1>3, <1>6, <2>1, Closer DEF ToLimit
<1>8. ToLimit(g) = 0 <=> g.pos = g.posLimit
  <2>1. g.pos \in Positions /\ g.posLimit \in Positions
    BY <1>6 DEF FinderOK
  <2>2. (g.posLimit - g.pos) % PosMod = 0 <=> g.posLimit = g.pos
    BY <2>1, NoDistance
  <2> QED
    BY <2>2 DEF ToLimit
<1>9. ReadsOn(g) <=> ReadsOn(f)
  BY <1>6 DEF ReadsOn
<1>10. ReadsOn(g) => Avail(g) >= after
  BY <1>2, <1>3, <1>4, <1>6, <1>9
<1>11. /\ SameTables(f, g) /\ g.lenLimit = f.lenLimit
  BY <1>1 DEF Step1, SameTables, TableFields, FinderOK, WindowFields
<1>12. /\ f.lenLimit = n /\ f.pos = mf.pos /\ f.cycPos = mf.cycPos /\ ToLimit(mf) = t /\ Avail(mf) = Avail(f)
       /\ (ReadsOn(mf) <=> ReadsOn(f))
  BY DEF SameWindow, WindowFields, ToLimit, Avail, ReadsOn
<1> HIDE DEF t
<1>13. /\ n \in 0 .. MatchMaxLen
       /\ n < MatchMaxLen => ~ReadsOn(f) /\ Avail(f) <= n
       /\ n >= kind.n => n + t - 1 <= Avail(f) /\ q - 1 + t <= PosMod /\ Steady(q - 1, at)
  <2>1. q - 1 = f.pos
    BY <1>3
  <2> QED BY <2>1, <1>12 DEF Posn
<1>14. cp \in Slots /\ cp = NextSlot(mf.cycPos)
  <2> DEFINE c == mf.cycPos
             d == g.cycPos
  <2>1. c \in Nat /\ c < Cyclic /\ d = c + 1 /\ Cyclic \in Nat \ {0}
    BY <1>2, <1>3, <1>5, <1>6, <1>12
  <2>2. cp = IF d = Cyclic THEN 0 ELSE d
    OBVIOUS
  <2> HIDE DEF cp, c, d
  <2>3. cp \in 0 .. Cyclic - 1 /\ cp = IF c + 1 = Cyclic THEN 0 ELSE c + 1
    BY <2>1, <2>2
  <2> QED BY <2>3 DEF Slots, NextSlot, c
<1>15. n < MatchMaxLen => ~ReadsOn(g) /\ Avail(g) <= n
  <2>1. n \in Int
    BY <1>13, Sizes
  <2> QED BY <2>1, <1>3, <1>6, <1>9, <1>13
<1>16. ASSUME n >= kind.n
       PROVE  /\ Steady(q, p) /\ q <= PosMod /\ g.pos = (IF q = PosMod THEN 0 ELSE q) /\ Tables(g, q, p, cp, n, D)
              /\ Len(g.heads) <= t - 1 /\ (kind.bt => g.heads = <<>>) /\ (~kind.bt => g.heads \in Seq(Nat))
  <2>1. q - 1 + t <= PosMod /\ Steady(q - 1, at) /\ t \in Nat \ {0} /\ q \in Nat /\ q >= 1
    <3>1. Steady(q - 1, at) /\ q - 1 + t <= PosMod
      BY <1>13, <1>16
    <3>2. t \in Nat \ {0}
      BY <1>3, <1>4
    <3>3. q - 1 \in Nat
      BY <3>1 DEF Steady
    <3> QED BY <3>1, <3>2, <3>3, <1>3
  <2>2. Steady(q, p) /\ q <= PosMod
    <3>1. Steady(q - 1 + 1, at + 1)
      BY <2>1, SteadyOn
    <3>2. q - 1 + 1 = q
      BY <2>1
    <3>3. q <= PosMod
      BY <2>1, <1>2
    <3> HIDE DEF q
    <3> QED BY <3>1, <3>2, <3>3
  <2>3. g.pos = (IF q = PosMod THEN 0 ELSE q)
    <3>1. CASE q = PosMod
      <4>1. PosMod % PosMod = 0
        BY <1>2
      <4> HIDE DEF q
      <4> QED BY <4>1, <3>1, <1>6
    <3>2. CASE q # PosMod
      <4>1. q \in Positions
        BY <2>1, <2>2, <3>2, <1>2 DEF Positions
      <4> HIDE DEF q
      <4> QED BY <4>1, <3>2, <1>6, SmallMod
    <3> QED BY <3>1, <3>2
  <2>4. Tables(f, mf.pos + 1, p, NextSlot(mf.cycPos), n, D) /\ Len(f.heads) <= t - 1
    BY <1>12, <1>16 DEF Entered2
  <2>5. Tables(f, q, p, cp, n, D)
    BY <2>4, <1>12, <1>14
  <2> HIDE DEF q, cp, p, n, g
  <2>6. Tables(g, q, p, cp, n, D)
    BY <2>5, <1>11, TablesSame
  <2>7. g.heads = f.heads
    BY <1>11 DEF SameTables, TableFields
  <2>8. (kind.bt => g.heads = <<>>) /\ (~kind.bt => g.heads \in Seq(Nat))
    BY <2>6 DEF Tables, HcQueue
  <2> QED BY <2>2, <2>3, <2>4, <2>6, <2>7, <2>8
<1> HIDE DEF q, cp, g
<1>17. ToLimit(g) = 0 => Arrived(g, p, n, q, D)
  <2> SUFFICES ASSUME ToLimit(g) = 0, n >= kind.n PROVE g.heads = <<>>
    <3>1. n >= kind.n => Steady(q, p) /\ q <= PosMod /\ g.pos = (IF q = PosMod THEN 0 ELSE q) /\ Tables(g, q, p, cp, n, D)
      BY <1>16
    <3> QED BY <3>1, <1>15 DEF Arrived, cp
  <2>1. kind.bt \in BOOLEAN
    BY <1>1, FinderAssumption
  <2> DEFINE l == Len(g.heads)
  <2>2. l <= t - 1 /\ t - 1 = 0
    BY <1>7, <1>16
  <2>3. CASE ~kind.bt
    <3>1. g.heads \in Seq(Nat)
      BY <2>3, <1>16
    <3>2. l \in Nat
      BY <3>1
    <3> HIDE DEF l
    <3>3. l = 0
      BY <3>2, <2>2
    <3> QED BY <3>1, <3>3 DEF l
  <2> QED BY <2>1, <2>3, <1>16
<1>18. /\ \/ g.pos # g.posLimit /\ mf' = g /\ fed' = fed
          \/ g.pos = g.posLimit /\ Avail(g) # after /\ mf' = AfterRead(g) /\ fed' = fed
          \/ g.pos = g.posLimit /\ Avail(g) = after
             /\ \E o \in ReadOutcomes(h) : mf' = AfterRead(ReadBlock(h, o)) /\ fed' = fed + o.n
  BY Zenon DEF MovePos, g
<1>19. CASE g.pos # g.posLimit /\ mf' = g /\ fed' = fed
  <2> DEFINE t1 == ToLimit(g)
             len == n
             k == kind.n
             a == Avail(g)
  <2>1. t1 = t - 1 /\ t1 # 0 /\ t \in 1 .. Avail(f) /\ Avail(f) \in Nat /\ a = Avail(f) - 1
    BY <1>3, <1>4, <1>6, <1>7, <1>8, <1>19
  <2> HIDE DEF t1
  <2>2. t1 \in Nat \ {0}
    BY <2>1
  <2>3. ASSUME len >= k
        PROVE  len + t1 - 1 <= a /\ g.pos + t1 <= PosMod /\ g.pos = q /\ Steady(q, p) /\ cp = g.cycPos
               /\ Tables(g, q, p, cp, len, D) /\ Len(g.heads) <= t1
    <3>1. /\ len + t - 1 <= Avail(f) /\ q - 1 + t <= PosMod /\ len \in 0 .. MatchMaxLen /\ MatchMaxLen \in Nat
          /\ Steady(q, p) /\ q <= PosMod /\ g.pos = (IF q = PosMod THEN 0 ELSE q) /\ Tables(g, q, p, cp, n, D)
          /\ Len(g.heads) <= t - 1
      BY <2>3, <1>13, <1>16, Sizes
    <3>2. q \in Nat
      BY <3>1 DEF Steady
    <3> HIDE DEF len
    <3>3. len + t1 - 1 <= a /\ q + t1 <= PosMod
      BY <2>1, <2>2, <3>1, <3>2, <1>2
    <3>4. q # PosMod
      BY <2>2, <3>2, <3>3, <1>2
    <3>5. g.cycPos # Cyclic
      <4>1. f.cycPos + t <= Cyclic /\ t = t1 + 1 /\ t1 >= 1 /\ f.cycPos \in Nat /\ g.cycPos = f.cycPos + 1
        BY <2>1, <2>2, <1>3, <1>4, <1>6
      <4> QED BY <4>1, <2>2, <1>2
    <3>6. Len(g.heads) <= t1
      BY <2>1, <3>1
    <3> QED BY <3>1, <3>3, <3>4, <3>5, <3>6 DEF cp, len
  <2>4. Posn(g, p)
    BY <2>2, <2>3, <1>11, <1>12, <1>13, <1>15 DEF Posn, t1, len, k, a
  <2>5. Holds(g, p, D)
    BY <2>3, <1>11, <1>12 DEF Holds, t1, len, k
  <2> QED BY <2>4, <2>5, <1>2, <1>19
<1>20. CASE g.pos = g.posLimit /\ Avail(g) # after /\ mf' = AfterRead(g) /\ fed' = fed
  <2>1. ReadsOn(g) => Avail(g) > after
    BY <1>2, <1>3, <1>6, <1>10, <1>20
  <2>2. Arrived(g, p, n, q, D)
    BY <1>8, <1>17, <1>20
  <2> DEFINE x == AfterRead(g)
  <2> HIDE DEF p, n
  <2>3. Posn(x, p) /\ Holds(x, p, D)
    BY <1>1, <1>2, <1>6, <1>13, <2>1, <2>2, LooksAround DEF after
  <2> QED BY <2>3, <1>2, <1>20 DEF p
<1>21. ASSUME g.pos = g.posLimit, Avail(g) = after, NEW o \in ReadOutcomes(h), mf' = AfterRead(ReadBlock(h, o)), fed' = fed + o.n
       PROVE  Posn(mf', p) /\ Holds(mf', p, D) /\ fed' \in Nat /\ fed <= fed'
  <2> DEFINE r == ReadBlock(h, o)
             m == fed + o.n
  <2>1. /\ FinderOK(h) /\ Sized(h) /\ Window(h, p, fed)
        /\ ReadsOn(h) => h.blockSize - h.buffer > after
        /\ h.pos = g.pos /\ h.cycPos = g.cycPos
    BY <1>1, <1>2, <1>6, <1>21, BeforeReadFacts DEF after, h
  <2>2. h.blockSize < PosMod
    BY <2>1 DEF Sized
  <2>3. /\ FinderOK(r) /\ m \in p .. Len(data) /\ Window(r, p, m) /\ r.pos = h.pos /\ r.cycPos = h.cycPos /\ o.n \in Nat
        /\ ReadsOn(r) => ReadsOn(h) /\ (Avail(r) > after \/ Avail(r) = h.blockSize - h.buffer)
    BY <1>1, <1>2, <1>21, <2>1, <2>2, ReadFacts DEF after
  <2>4. ReadsOn(r) => Avail(r) > after
    BY <2>1, <2>3
  <2>5. ASSUME n < MatchMaxLen PROVE ~ReadsOn(r) /\ Avail(r) <= n
    <3>1. ~ReadsOn(g) /\ Avail(g) <= n
      BY <2>5, <1>15
    <3>2. ~NeedMove(g)
      BY <3>1 DEF NeedMove, ReadsOn
    <3>3. h = g
      BY <3>2 DEF BeforeRead, h
    <3>4. o.n = 0
      <4>1. ReadOutcomes(h) = {[n |-> 0, end |-> FALSE, err |-> FALSE]}
        BY <3>1, <3>3 DEF ReadOutcomes, ReadsOn
      <4> QED BY <4>1
    <3>5. Avail(r) = m - p /\ Avail(g) = fed - p
      BY <2>3, <1>6 DEF Window
    <3>6. m = fed
      BY <3>4, <1>2
    <3> QED BY <3>1, <3>3, <3>5, <3>6, <2>3
  <2>6. SameTables(g, h) /\ SameTables(h, r)
    BY <1>6, <2>1, ReadTables DEF h
  <2>7. Arrived(g, p, n, q, D)
    BY <1>8, <1>17, <1>21
  <2>8. SameTables(g, r) /\ r.pos = g.pos /\ r.cycPos = g.cycPos
    BY <2>1, <2>3, <2>6 DEF SameTables
  <2> HIDE DEF r, n, p
  <2>9. Arrived(r, p, n, q, D)
    BY <2>5, <2>7, <2>8, ArrivedSame
  <2> DEFINE x == AfterRead(r)
  <2>10. Posn(x, p) /\ Holds(x, p, D)
    BY <1>1, <1>2, <1>13, <2>3, <2>4, <2>9, LooksAround DEF after
  <2>11. fed + o.n \in Nat /\ fed <= fed + o.n
    BY <2>3, <1>2
  <2> QED BY <2>10, <2>11, <1>21 DEF r
<1> QED BY <1>18, <1>19, <1>20, <1>21

(***************************************************************************)
(* The state of the finder.                                                *)
(***************************************************************************)
\* The stream as a text.
Text == [i \in Nat |-> IF i < Len(data) THEN data[i + 1] ELSE 0]

\* Nothing was entered yet.
Fresh(f, D) == f.heads = <<>> /\ \A n \in Nat : Tables(f, 1, 0, 1, n, D)

\* What get_matches returned are the matches at the position it was called for.
FoundOK ==
    /\ found.lim \in Nat
    /\ \/ found.recs = <<>> /\ (found.at = -1 \/ found.lim < kind.n)
       \/ /\ found.at \in Nat /\ found.lim >= kind.n /\ found.at + found.lim <= fed
          /\ Answers(Here(Text, found.at, found.lim), kind.n, found.recs)

HistoryInv ==
    /\ WindowInv /\ FoundOK
    /\ ~mf.begun => Fresh(mf, Text)
    /\ mf.begun => Posn(mf, at) /\ Holds(mf, at, Text)

\* The bytes are 0 or 1.
LEMMA TextFacts ==
    ASSUME data \in Streams
    PROVE  /\ Text \in Bits /\ Text \in Texts /\ Len(data) \in Nat
           /\ \A i \in Nat : i < Len(data) => Text[i] = data[i + 1]
<1>1. data \in Seq({0, 1}) /\ Len(data) \in Nat
  BY FinderAssumption
<1>2. \A i \in Nat : Text[i] \in {0, 1} /\ (i < Len(data) => Text[i] = data[i + 1])
  <2> TAKE i \in Nat
  <2>1. CASE i < Len(data)
    <3>1. i + 1 \in 1 .. Len(data)
      BY <1>1, <2>1
    <3>2. data[i + 1] \in {0, 1}
      BY <1>1, <3>1
    <3> QED BY <2>1, <3>2 DEF Text
  <2>2. CASE ~(i < Len(data))
    BY <2>2 DEF Text
  <2> QED BY <2>1, <2>2
<1>3. Text \in Bits
  BY <1>2 DEF Text, Bits
<1>4. Text \in Texts
  BY <1>2 DEF Text, Texts
<1> QED BY <1>1, <1>2, <1>3, <1>4

\* A position that can be hashed is ready to be entered.
LEMMA ReadyNow ==
    ASSUME WindowInv, mf.begun, at < fed, Posn(mf, at), mf.lenLimit >= kind.n, Holds(mf, at, Text)
    PROVE  Ready(mf, at, Text) /\ at + mf.lenLimit <= fed
<1> DEFINE f == mf
           e == Here(Text, at, f.lenLimit)
           len == f.lenLimit
           t == ToLimit(f)
           k == kind.n
           d == fed - at
<1>1. /\ FinderOK(f) /\ Window(f, at, fed) /\ Limited(f) /\ kind \in Kinds /\ data \in Streams
      /\ at \in Nat /\ fed \in at .. Len(data)
  BY DEF WindowInv
<1>2. Text \in Bits /\ Text \in Texts /\ Len(data) \in Nat /\ \A i \in Nat : i < Len(data) => Text[i] = data[i + 1]
  BY <1>1, TextFacts
<1>3. /\ k \in 2 .. 5 /\ kind.bt \in BOOLEAN /\ HistorySize \in Nat \ {0} /\ Cyclic \in Nat \ {0} /\ MatchMaxLen \in Nat
      /\ PosMod \in Nat
  BY <1>1, KindFacts, Sizes, FinderAssumption
<1>4. /\ Avail(f) = d /\ d \in Nat /\ d > 0 /\ fed \in Nat /\ fed <= Len(data)
      /\ \A i \in - MinOf(at, HistorySize) .. d - 1 : f.buf[f.buffer + i] = data[at + i + 1]
  BY <1>1, <1>2 DEF Window
<1>5. /\ t \in Nat \ {0} /\ len + t - 1 <= d /\ f.pos + t <= PosMod /\ Steady(f.pos, at)
      /\ len \in Nat /\ len >= k
  BY <1>3, <1>4 DEF Posn
<1>6. f.cycPos \in Slots /\ f.buffer \in Int
  <2>1. f.cycPos \in 0 .. Cyclic /\ f.cycPos + t <= Cyclic /\ f.buffer \in Nat
    BY <1>1, <1>4 DEF FinderOK, Limited
  <2> HIDE DEF t
  <2> QED BY <2>1, <1>3, <1>5 DEF Slots
<1>7. ASSUME NEW i \in - MinOf(at, HistorySize) .. d - 1 PROVE f.buf[f.buffer + i] = Text[at + i]
  <2>1. at + i \in Nat /\ at + i < Len(data) /\ at + i + 1 = (at + i) + 1
    <3>1. MinOf(at, HistorySize) \in 0 .. at
      BY <1>1, <1>3 DEF MinOf
    <3> QED BY <3>1, <1>1, <1>2, <1>4
  <2> QED BY <2>1, <1>2, <1>4
<1>8. MinOf(at, HistorySize) \in Nat
  BY <1>1, <1>3 DEF MinOf
<1>9. e.D = Text /\ e.p = at /\ e.n = len /\ e.H = Hist(at)
  BY HereFacts
<1>10. Env(e)
  BY <1>1, <1>2, <1>5, HereEnv
<1> HIDE DEF e, t, d, len, k, f
<1>11. Shows(f.buf, f.buffer, e)
  <2> SUFFICES ASSUME NEW i \in - MinOf(at, HistorySize) .. len - 1 PROVE f.buf[f.buffer + i] = Text[at + i]
    BY <1>9 DEF Shows
  <2>1. i \in - MinOf(at, HistorySize) .. d - 1
    BY <1>4, <1>5, <1>8
  <2> QED BY <2>1, <1>7
<1>12. Enters(f, e)
  BY <1>2, <1>3, <1>5, <1>6, <1>9, <1>10, <1>11 DEF Enters, Setting, len, k
<1>13. Ahead(f, at, Text)
  <2>1. ASSUME NEW i \in 0 .. t - 1 PROVE HashCalc(f.buf, f.buffer + i, k) = KeyN(Text)[at + i]
    <3> DEFINE b == f.buffer + i
               c == at + i
    <3>1. b \in Int /\ c \in Int /\ c \in Nat
      BY <1>1, <1>5, <1>6
    <3>2. \A j \in 0 .. k - 1 : f.buf[b + j] = Text[c + j]
      <4> TAKE j \in 0 .. k - 1
      <4>1. i + j \in - MinOf(at, HistorySize) .. d - 1 /\ b + j = f.buffer + (i + j) /\ c + j = at + (i + j)
        BY <1>1, <1>3, <1>4, <1>5, <1>6, <1>8, SMTT(40)
      <4> QED BY <4>1, <1>7
    <3>3. KeyN(Text)[c] = HashCalc(Text, c, k)
      BY <3>1 DEF KeyN, k
    <3> HIDE DEF b, c
    <3>4. HashCalc(f.buf, b, k) = HashCalc(Text, c, k)
      <4> DEFINE B == f.buf
                 C == Text
      <4>1. b \in Int /\ c \in Int /\ k \in 2 .. 5 /\ \A j \in 0 .. k - 1 : B[b + j] = C[c + j]
        BY <3>1, <3>2, <1>3
      <4> HIDE DEF B, C
      <4>2. HashCalc(B, b, k) = HashCalc(C, c, k)
        BY <4>1, HashCalcSame
      <4> QED BY <4>2 DEF B, C
    <3> QED BY <3>3, <3>4 DEF b, c
  <2> QED BY <2>1, <1>5 DEF Ahead, t, k
<1>14. Tables(f, f.pos, at, f.cycPos, f.lenLimit, Text) /\ Len(f.heads) <= ToLimit(f)
  BY DEF Holds, f
<1>15. Ready(f, at, Text)
  BY <1>1, <1>2, <1>3, <1>12, <1>13, <1>14 DEF Ready, e, len
<1>16. at + len <= fed
  BY <1>1, <1>4, <1>5 DEF d
<1> QED BY <1>15, <1>16 DEF f, len

\* What is about kind in an unchanged finder is about the same kind afterwards.
LEMMA KindStays ==
    ASSUME kind' = kind, NEW f, NEW p, NEW D, NEW q, NEW cp, NEW n
    PROVE  /\ Posn(f, p)' <=> Posn(f, p)
           /\ Holds(f, p, D)' <=> Holds(f, p, D)
           /\ Tables(f, q, p, cp, n, D)' <=> Tables(f, q, p, cp, n, D)
  BY Zenon DEF Posn, Holds, Tables, LowOK, HcQueue, BtTables, Grown, KeyN, ReadsOn, Avail, ToLimit

(***************************************************************************)
(* The matches as the properties say them.                                 *)
(***************************************************************************)
\* How far two positions agree, in bytes that were read.
LEMMA AgreeFacts ==
    ASSUME data \in Streams, fed \in Nat, fed <= Len(data), NEW p \in Nat, p <= fed, NEW d \in 1 .. p
    PROVE  /\ Agree(p, d) \in 0 .. fed - p
           /\ \A m \in 0 .. fed - p : m <= Agree(p, d) <=> Same(Text, p - d, p, m)
<1> DEFINE a == Agree(p, d)
           n == fed - p
           D == Text
           S == {k \in 0 .. fed - p - 1 : data[p + k + 1] # data[p + k - d + 1]} \cup {fed - p}
<1>1. a = Min(S)
  BY DEF Agree
<1>2. n \in Nat /\ Len(data) \in Nat /\ \A i \in Nat : i < Len(data) => D[i] = data[i + 1]
  BY TextFacts
<1>3. \A k \in 0 .. n - 1 : data[p + k + 1] = D[p + k] /\ data[p + k - d + 1] = D[(p - d) + k]
  <2> TAKE k \in 0 .. n - 1
  <2>1. /\ p + k \in Nat /\ p + k < Len(data) /\ p + k + 1 = (p + k) + 1
        /\ (p - d) + k \in Nat /\ (p - d) + k < Len(data) /\ p + k - d + 1 = ((p - d) + k) + 1
    BY <1>2
  <2> QED BY <2>1, <1>2
<1>4. S # {} /\ \A i \in S : i \in Int /\ i >= 0
  BY <1>2
<1>5. a \in S /\ \A i \in S : a <= i
  <2>1. 0 \in Int
    OBVIOUS
  <2> HIDE DEF S, a
  <2>2. Min(S) \in S /\ \A i \in S : Min(S) <= i
    BY <2>1, <1>4, MinFacts
  <2> QED BY <2>2, <1>1
<1> HIDE DEF a, D
<1>6. a \in 0 .. n
  BY <1>2, <1>5
<1>7. \A k \in 0 .. n - 1 : D[p + k] # D[(p - d) + k] => a <= k
  BY <1>3, <1>5
<1>8. a < n => D[p + a] # D[(p - d) + a]
  BY <1>3, <1>5, <1>6
<1> HIDE DEF S, n
<1>9. ASSUME NEW m \in 0 .. n PROVE m <= a <=> Same(D, p - d, p, m)
  <2>1. ASSUME m <= a PROVE Same(D, p - d, p, m)
    <3> SUFFICES ASSUME NEW k \in 0 .. m - 1 PROVE D[(p - d) + k] = D[p + k]
      BY DEF Same
    <3>1. k \in 0 .. n - 1 /\ ~(a <= k)
      BY <2>1, <1>2, <1>6
    <3> QED BY <3>1, <1>7
  <2>2. ASSUME Same(D, p - d, p, m), ~(m <= a) PROVE FALSE
    <3>1. a \in 0 .. m - 1 /\ a < n
      BY <2>2, <1>2, <1>6
    <3> QED BY <2>2, <3>1, <1>8 DEF Same
  <2> QED BY <2>1, <2>2
<1> QED BY <1>6, <1>9 DEF a, n, D

\* The distances into the history.
LEMMA Distances ==
    ASSUME NEW p \in Nat, NEW d \in Int
    PROVE  p - d \in Hist(p) <=> d \in 1 .. MinOf(p, HistorySize)
  BY Sizes DEF Hist, MinOf

\* A recorded match is one.
LEMMA HitAgrees ==
    ASSUME data \in Streams, fed \in Nat, fed <= Len(data), NEW p \in Nat, NEW n \in Nat, p + n <= fed,
           NEW r \in Nat \X Nat, Hit(Here(Text, p, n), r)
    PROVE  /\ r[2] + 1 \in 1 .. MinOf(p, HistorySize) /\ Agree(p, r[2] + 1) \in Nat
           /\ r[1] \in 1 .. n /\ r[1] <= Agree(p, r[2] + 1)
<1> DEFINE e == Here(Text, p, n)
           len == r[1]
           d == r[2] + 1
<1>1. e.D = Text /\ e.p = p /\ e.n = n /\ e.H = Hist(p)
  BY HereFacts
<1> HIDE DEF e
<1>2. len \in 1 .. n /\ p - d \in Hist(p) /\ Same(Text, p - d, p, len)
  BY <1>1 DEF Hit, e
<1>3. d \in Int /\ len \in Nat
  OBVIOUS
<1> HIDE DEF len, d
<1>4. d \in 1 .. MinOf(p, HistorySize)
  BY <1>2, <1>3, Distances
<1>5. d \in 1 .. p /\ p <= fed /\ len \in 0 .. fed - p
  <2>1. MinOf(p, HistorySize) <= p /\ MinOf(p, HistorySize) \in Nat
    BY Sizes DEF MinOf
  <2> HIDE DEF MinOf
  <2> QED BY <2>1, <1>2, <1>4
<1>6. len <= Agree(p, d) /\ Agree(p, d) \in Nat
  <2>1. Agree(p, d) \in 0 .. fed - p /\ \A m \in 0 .. fed - p : m <= Agree(p, d) <=> Same(Text, p - d, p, m)
    BY <1>5, AgreeFacts
  <2>2. Agree(p, d) \in Nat
    BY <2>1
  <2> QED BY <2>1, <2>2, <1>2, <1>5
<1> QED BY <1>2, <1>4, <1>6 DEF len, d

\* The answers are true.
LEMMA AnswersTrue ==
    ASSUME WindowInv, FoundOK
    PROVE  MatchesAreTrue
<1> DEFINE p == found.at
           n == found.lim
           recs == found.recs
           e == Here(Text, p, n)
<1>1. CASE recs = <<>>
  BY <1>1 DEF MatchesAreTrue
<1>2. CASE recs # <<>>
  <2>1. p \in Nat /\ n \in Nat /\ p + n <= fed /\ Answers(e, kind.n, recs)
    BY <1>2 DEF FoundOK
  <2>2. data \in Streams /\ fed \in Nat /\ fed <= Len(data)
    <3>1. data \in Streams /\ at \in Nat /\ fed \in at .. Len(data)
      BY DEF WindowInv
    <3>2. Len(data) \in Nat
      BY <3>1, TextFacts
    <3> QED BY <3>1, <3>2
  <2> HIDE DEF e
  <2>3. recs \in Seq(Nat \X Nat) /\ Grows(recs) /\ \A j \in 1 .. Len(recs) : Hit(e, recs[j]) /\ recs[j][1] > 1
    BY <2>1 DEF Answers, Hits
  <2> HIDE DEF recs, p, n
  <2>4. ASSUME NEW j \in 1 .. Len(recs)
        PROVE  /\ recs[j][2] + 1 \in 1 .. MinOf(p, HistorySize)
               /\ Agree(p, recs[j][2] + 1) >= recs[j][1] /\ recs[j][1] \in 2 .. n
               /\ j > 1 => recs[j - 1][1] < recs[j][1] /\ recs[j - 1][2] < recs[j][2]
    <3> DEFINE r == recs[j]
    <3>1. r \in Nat \X Nat /\ Hit(e, r) /\ r[1] > 1
      BY <2>3
    <3> HIDE DEF r
    <3>2. /\ r[2] + 1 \in 1 .. MinOf(p, HistorySize) /\ Agree(p, r[2] + 1) \in Nat
          /\ r[1] \in 1 .. n /\ r[1] <= Agree(p, r[2] + 1)
      BY <3>1, <2>1, <2>2, HitAgrees DEF e
    <3> DEFINE a == Agree(p, r[2] + 1)
               len == r[1]
    <3>3. a \in Nat /\ len \in 1 .. n /\ len <= a /\ len > 1
      BY <3>1, <3>2
    <3> HIDE DEF a, len
    <3>4. a >= len /\ len \in 2 .. n
      BY <3>3, <2>1
    <3>5. j > 1 => recs[j - 1][1] < recs[j][1] /\ recs[j - 1][2] < recs[j][2]
      <4>1. j > 1 => j \in 2 .. Len(recs)
        OBVIOUS
      <4> QED BY <4>1, <2>3 DEF Grows
    <3> QED BY <3>2, <3>4, <3>5 DEF a, len, r
  <2> QED BY <2>4 DEF MatchesAreTrue, recs, p, n
<1> QED BY <1>1, <1>2

\* The last of them is the longest match.
LEMMA AnswersLongest ==
    ASSUME WindowInv, FoundOK
    PROVE  LongestIsFound
<1> DEFINE p == found.at
           n == found.lim
           recs == found.recs
           e == Here(Text, p, n)
           k == kind.n
           S == {0} \cup {MinOf(Agree(p, d), n) : d \in 1 .. MinOf(p, HistorySize)}
           best == Max(S)
<1> SUFFICES ASSUME CutValue >= Cyclic, p >= 0, n >= k, best >= k PROVE recs # <<>> /\ Last(recs)[1] = best
  BY DEF LongestIsFound
<1>1. kind \in Kinds /\ data \in Streams /\ at \in Nat /\ fed \in at .. Len(data) /\ Len(data) \in Nat
  BY TextFacts DEF WindowInv
<1>2. k \in 2 .. 5 /\ HistorySize \in Nat
  BY <1>1, KindFacts, Sizes
<1>3. p \in Nat /\ n \in Nat /\ p + n <= fed /\ Answers(e, k, recs)
  <2>1. ~(found.at = -1) /\ ~(found.lim < kind.n)
    <3>1. found.lim < kind.n => found.lim \in Int
      BY DEF FoundOK
    <3> QED BY <3>1, <1>2
  <2> QED BY <2>1 DEF FoundOK
<1>4. e.D = Text /\ e.p = p /\ e.n = n /\ e.H = Hist(p) /\ e.F
  <2>1. e.F = (CutValue >= Cyclic)
    BY HereFacts
  <2>2. e.F
    BY <2>1, Zenon
  <2>3. e.D = Text /\ e.p = p /\ e.n = n /\ e.H = Hist(p)
    BY HereFacts
  <2> QED BY <2>2, <2>3, Zenon
<1>5. fed \in Nat /\ fed <= Len(data) /\ p <= fed
  BY <1>1, <1>3
<1> HIDE DEF p, n, recs, e
<1> DEFINE w == MinOf(p, HistorySize)
<1>6. w \in Nat /\ w <= p
  BY <1>2, <1>3 DEF MinOf
<1>7. \A d \in 1 .. w : d \in 1 .. p /\ Agree(p, d) \in Nat /\ MinOf(Agree(p, d), n) \in 0 .. n /\ MinOf(Agree(p, d), n) <= Agree(p, d)
  <2> TAKE d \in 1 .. w
  <2>1. d \in 1 .. p
    BY <1>3, <1>6
  <2>2. Agree(p, d) \in 0 .. fed - p
    BY <2>1, <1>1, <1>3, <1>5, AgreeFacts
  <2> DEFINE a == Agree(p, d)
  <2>3. a \in Nat
    BY <2>2, <1>3, <1>5
  <2> HIDE DEF a
  <2>4. MinOf(a, n) \in 0 .. n /\ MinOf(a, n) <= a
    BY <2>3, <1>3 DEF MinOf
  <2> QED BY <2>1, <2>3, <2>4 DEF a
<1>8. best \in S /\ \A i \in S : i <= best
  <2>1. S # {} /\ \A i \in S : i \in Int /\ i <= n
    BY <1>3, <1>7
  <2> HIDE DEF S
  <2> QED BY <2>1, <1>3, MaxFacts
<1>9. \A d \in 1 .. w : MinOf(Agree(p, d), n) <= best
  BY <1>8
<1>10. PICK d \in 1 .. w : best = MinOf(Agree(p, d), n)
  BY <1>2, <1>8
<1> HIDE DEF best, S, w, k
<1>11. best \in k .. n /\ best \in 0 .. fed - p /\ best <= Agree(p, d) /\ d \in 1 .. p /\ d \in Int
  <2>1. best \in 0 .. n /\ best <= Agree(p, d) /\ d \in 1 .. p
    BY <1>7, <1>10
  <2> QED BY <2>1, <1>2, <1>3, <1>5
<1>12. Same(Text, p - d, p, best)
  BY <1>1, <1>3, <1>5, <1>11, AgreeFacts
<1>13. p - d \in Hist(p)
  BY <1>3, <1>10, <1>11, Distances DEF w
<1> DEFINE l == Len(recs)
           r == recs[l]
           len == r[1]
<1>14. l > 0 /\ best <= len
  BY <1>3, <1>4, <1>11, <1>12, <1>13 DEF Answers
<1>15. recs \in Seq(Nat \X Nat) /\ \A j \in 1 .. l : Hit(e, recs[j])
  BY <1>3 DEF Answers, Hits
<1>16. l \in Nat /\ l \in 1 .. l /\ recs # <<>> /\ Last(recs) = r
  BY <1>14, <1>15 DEF Last
<1>17. r \in Nat \X Nat /\ Hit(e, r)
  BY <1>15, <1>16
<1> HIDE DEF r, l
<1>18. r[2] + 1 \in 1 .. w /\ Agree(p, r[2] + 1) \in Nat /\ len \in 1 .. n /\ len <= Agree(p, r[2] + 1)
  BY <1>1, <1>3, <1>5, <1>17, HitAgrees DEF e, w
<1>19. len <= best
  <2> DEFINE a == Agree(p, r[2] + 1)
  <2>1. MinOf(a, n) <= best
    BY <1>9, <1>18
  <2>2. a \in Nat /\ len \in 1 .. n /\ len <= a
    BY <1>18
  <2> HIDE DEF a, len
  <2>3. len <= MinOf(a, n) /\ MinOf(a, n) \in Nat
    BY <2>2, <1>3 DEF MinOf
  <2> QED BY <2>1, <2>2, <2>3, <1>3, <1>11
<1>20. len = best
  <2>1. len \in Int /\ best \in Int /\ len <= best /\ best <= len
    BY <1>3, <1>11, <1>14, <1>18, <1>19 DEF r, l
  <2> HIDE DEF len
  <2> QED BY <2>1
<1> QED BY <1>16, <1>20

\* Tables without a position hold the empty history.
LEMMA EmptyTables ==
    ASSUME kind \in Kinds, NEW f, NEW D, f.heads = <<>>,
           f.hash2 = [h \in [1 .. 1 -> {0, 1}] |-> Empty], f.hash3 = [h \in [1 .. 2 -> {0, 1}] |-> Empty],
           f.high = [h \in HashValues(kind.n) |-> Empty],
           f.son = [i \in 0 .. (IF kind.bt THEN 2 ELSE 1) * Cyclic - 1 |-> Empty]
    PROVE  Fresh(f, D)
<1>1. Steady(1, 0) /\ Hist(0) = {} /\ 1 \in Slots /\ Cyclic \in Nat /\ kind.bt \in BOOLEAN
  BY Sizes, FinderAssumption DEF Steady, Hist, Slots
<1>2. ASSUME NEW u, NEW h, NEW key PROVE IsLatest(1, 0, u, 0, h, key)
  BY <1>1 DEF IsLatest
<1>3. ASSUME NEW T, NEW S, T = [h \in S |-> Empty], NEW key PROVE Latest(1, 0, T, key)
  BY <1>2, <1>3 DEF Latest, Empty
<1>4. LowOK(f, 1, 0, D)
  BY <1>3 DEF LowOK
<1>5. DOMAIN f.high = HashValues(kind.n) /\ Latest(1, 0, f.high, KeyN(D))
  BY <1>3
<1>6. ASSUME kind.bt, NEW n \in Nat PROVE BtTables(f.high, f.son, 1, 0, 1, n, D)
  <2> DEFINE e == Here(D, 0, n)
             Ch == Children(f.son, 1, 0, 1)
             I == [i \in Nat |-> {}]
  <2>1. f.son \in Sons(1)
    BY <1>1, <1>6 DEF Sons, Empty
  <2>2. Roots(f.high, 1, 0) = {}
    BY <1>1 DEF Roots
  <2>3. Ch \in [Nat \X Sides -> Hist(0) \cup {-1}]
    BY <2>1, <1>1, ChildrenFacts
  <2>4. e.H = {}
    BY <1>1, HereFacts
  <2>5. I \in [Nat -> SUBSET Nat]
    OBVIOUS
  <2> HIDE DEF e, Ch, I
  <2>6. Shapes(e, {}, Ch, I, I)
    BY <2>3, <2>4, <2>5, <1>1 DEF Shapes
  <2>7. Single(e, Ch, {} \X Sides, {})
    BY DEF Single
  <2>8. Tree(e, {}, Ch, I, I, {})
    BY <2>6, <2>7 DEF Tree
  <2>9. Grown(f.high, f.son, 1, 0, 1, n, D, {}, I, I)
    BY <2>2, <2>8, <1>1 DEF Grown, e, Ch
  <2> QED BY <2>1, <2>9, <1>5 DEF BtTables
<1>7. ASSUME ~kind.bt PROVE HcQueue(f.heads, f.high, 1, 0, D) /\ Chained(f.son, 1, 0, 1, KeyN(D))
  <2> DEFINE none == <<>>
  <2>1. none \in Seq(Nat) /\ Len(none) = 0 /\ 1 + 0 = 1 /\ 0 + 0 = 0
    OBVIOUS
  <2> HIDE DEF none
  <2>2. HcQueue(none, f.high, 1, 0, D)
    BY <2>1, <1>5 DEF HcQueue
  <2>3. f.son \in Links(1)
    BY <1>1, <1>7 DEF Links, Slots, Empty
  <2>4. Chained(f.son, 1, 0, 1, KeyN(D))
    BY <2>3, <1>1 DEF Chained
  <2> QED BY <2>2, <2>4 DEF none
<1> QED BY <1>4, <1>6, <1>7 DEF Fresh, Tables

\* The empty finder knows no history.
LEMMA InitHistory ==
    Init => HistoryInv
<1> SUFFICES ASSUME Init PROVE HistoryInv
  OBVIOUS
<1>1. WindowInv
  BY InitWindow
<1>2. kind \in Kinds /\ found = [at |-> -1, recs |-> <<>>, lim |-> 0]
  BY DEF Init
<1>3. FoundOK
  BY <1>2 DEF FoundOK
<1>4. PICK limit : mf = Created(kind, limit)
  BY DEF Init
<1>5. Fresh(mf, Text) /\ mf.begun = FALSE
  <2>1. /\ mf.heads = <<>> /\ mf.begun = FALSE
        /\ mf.hash2 = [h \in [1 .. 1 -> {0, 1}] |-> Empty] /\ mf.hash3 = [h \in [1 .. 2 -> {0, 1}] |-> Empty]
        /\ mf.high = [h \in HashValues(kind.n) |-> Empty]
        /\ mf.son = [i \in 0 .. (IF kind.bt THEN 2 ELSE 1) * Cyclic - 1 |-> Empty]
    BY <1>4 DEF Created
  <2> QED BY <2>1, <1>2, EmptyTables
<1> QED BY <1>1, <1>3, <1>5 DEF HistoryInv

\* The first limits.
LEMMA FirstLimits ==
    ASSUME kind \in Kinds, NEW x, FinderOK(x), x.pos = 1, x.cycPos = 1, NEW D \in Texts, Fresh(x, D), Limited(SetLimits(x))
    PROVE  Posn(SetLimits(x), 0) /\ Holds(SetLimits(x), 0, D)
<1> DEFINE g == SetLimits(x)
           a == Avail(x)
           len == g.lenLimit
           k == kind.n
           t == ToLimit(g)
<1>1. Cyclic \in Nat /\ Cyclic > 1 /\ k \in 2 .. 5 /\ MatchMaxLen \in Nat /\ KeepAfter(kind) = KeepAddAfter + MatchMaxLen
      /\ KeepAddAfter \in Nat
  BY KindFacts, Sizes
<1>2. x.cycPos < Cyclic
  BY <1>1
<1>3. /\ len = MinOf(MatchMaxLen, a) /\ g.pos = 1 /\ g.cycPos = 1 /\ SameTables(x, g)
      /\ Avail(g) = a /\ a \in Nat
      /\ a > 0 => t \in Nat \ {0} /\ len + t - 1 <= a /\ g.pos + t <= PosMod
  BY <1>2, LimitsFacts
<1>4. ReadsOn(g) => t + KeepAfter(kind) <= a /\ a > 0
  BY <1>3 DEF Limited
<1> HIDE DEF g, a, len, k, t
<1>5. len \in 0 .. MatchMaxLen /\ (len < MatchMaxLen => a = len) /\ len <= a
  BY <1>1, <1>3 DEF MinOf
<1>6. len < MatchMaxLen => ~ReadsOn(g) /\ a <= len
  BY <1>1, <1>3, <1>4, <1>5
<1>7. Steady(1, 0)
  BY DEF Steady
<1>8. len >= k => a > 0
  BY <1>1, <1>3, <1>5
<1>9. Posn(g, 0)
  BY <1>3, <1>5, <1>6, <1>7, <1>8 DEF Posn, len, k, t
<1>10. Holds(g, 0, D)
  <2> SUFFICES ASSUME len >= k PROVE Tables(g, g.pos, 0, g.cycPos, len, D) /\ Len(g.heads) <= t
    BY DEF Holds, len, k, t
  <2>1. len \in Nat
    BY <1>1, <1>5
  <2>2. Tables(x, 1, 0, 1, len, D) /\ x.heads = <<>>
    BY <2>1 DEF Fresh
  <2>3. Tables(g, 1, 0, 1, len, D) /\ g.heads = <<>>
    <3>1. Tables(g, 1, 0, 1, len, D)
      BY <2>2, <1>3, TablesSame
    <3> QED BY <3>1, <2>2, <1>3 DEF SameTables, TableFields
  <2>4. Len(<<>>) <= t
    BY <1>3, <1>8
  <2> QED BY <2>3, <2>4, <1>3
<1> QED BY <1>9, <1>10 DEF g

\* The tables of the next state.
LEMMA NextTables ==
    ASSUME kind' = kind, NEW y, mf' = y, NEW D, Text' = D, NEW q, NEW p, NEW cp, NEW n, Tables(y, q, p, cp, n, D)
    PROVE  Tables(mf, q, p, cp, n, Text)'
<1>1. KeyN(Text)' = KeyN(D)
  BY DEF KeyN
<1>2. LowOK(mf, q, p, Text)'
  BY DEF Tables, LowOK
<1>3. (kind.bt => mf.heads = <<>> /\ BtTables(mf.high, mf.son, q, p, cp, n, Text))'
  <2>1. SUFFICES ASSUME kind.bt PROVE (mf.heads = <<>> /\ BtTables(mf.high, mf.son, q, p, cp, n, Text))'
    OBVIOUS
  <2>2. y.heads = <<>> /\ BtTables(y.high, y.son, q, p, cp, n, D)
    BY <2>1 DEF Tables
  <2>3. PICK N, I, K : Grown(y.high, y.son, q, p, cp, n, D, N, I, K)
    BY <2>2 DEF BtTables
  <2>4. Grown(mf.high, mf.son, q, p, cp, n, Text, N, I, K)'
    BY <1>1, <2>3 DEF Grown
  <2>5. (/\ DOMAIN mf.high = HashValues(kind.n) /\ Latest(q, p, mf.high, KeyN(Text)) /\ mf.son \in Sons(q))'
    BY <1>1, <2>2 DEF BtTables
  <2> QED BY <2>2, <2>4, <2>5 DEF BtTables
<1>4. (~kind.bt => HcQueue(mf.heads, mf.high, q, p, Text) /\ Chained(mf.son, q, p, cp, KeyN(Text)))'
  <2>1. SUFFICES ASSUME ~kind.bt PROVE (HcQueue(mf.heads, mf.high, q, p, Text) /\ Chained(mf.son, q, p, cp, KeyN(Text)))'
    OBVIOUS
  <2>2. HcQueue(y.heads, y.high, q, p, D) /\ Chained(y.son, q, p, cp, KeyN(D))
    BY <2>1 DEF Tables
  <2>3. HcQueue(mf.heads, mf.high, q, p, Text)'
    BY <1>1, <2>2 DEF HcQueue
  <2> QED BY <1>1, <2>2, <2>3
<1> QED BY <1>2, <1>3, <1>4 DEF Tables

\* The history of the next state.
LEMMA NextHistory ==
    ASSUME kind' = kind, WindowInv', FoundOK', NEW y, mf' = y, y.begun, NEW p, at' = p, NEW D, Text' = D,
           Posn(y, p), Holds(y, p, D)
    PROVE  HistoryInv'
<1>1. Posn(y, p)' /\ Holds(y, p, D)'
  BY KindStays
<1>2. Posn(mf, at)' /\ Holds(mf, at, Text)'
  <2>1. Posn(mf, at)'
    BY <1>1 DEF Posn, ReadsOn, Avail, ToLimit
  <2>2. Holds(mf, at, Text)'
    <3>2. SUFFICES ASSUME y.lenLimit >= kind.n PROVE (Tables(mf, mf.pos, at, mf.cycPos, mf.lenLimit, Text) /\ Len(mf.heads) <= ToLimit(mf))'
      BY DEF Holds
    <3>3. Tables(y, y.pos, p, y.cycPos, y.lenLimit, D) /\ Len(y.heads) <= ToLimit(y)
      BY <3>2 DEF Holds
    <3>4. (Len(mf.heads) <= ToLimit(mf))'
      BY <3>3 DEF ToLimit
    <3>5. ASSUME NEW q, q = y.pos, NEW cp, cp = y.cycPos, NEW n, n = y.lenLimit
          PROVE  Tables(mf, mf.pos, at, mf.cycPos, mf.lenLimit, Text)'
      <4>1. Tables(mf, q, p, cp, n, Text)'
        BY <3>3, <3>5, NextTables
      <4> QED BY <4>1, <3>5
    <3> QED BY <3>4, <3>5
  <2> QED BY <2>1, <2>2
<1> QED BY <1>2 DEF HistoryInv

\* After `init`, whichever of the two.
LEMMA Began ==
    ASSUME HistoryInv, ~mf.begun, WindowInv', UNCHANGED <<kind, data, at, found>>, fed' \in Nat,
           NEW x, FinderOK(x), x.pos = 1, x.cycPos = 1, SameTables(mf, x), x.begun, mf' = SetLimits(x)
    PROVE  HistoryInv'
<1>1. /\ kind \in Kinds /\ data \in Streams /\ at = 0 /\ fed = 0 /\ Fresh(mf, Text) /\ FoundOK
  BY DEF HistoryInv, WindowInv
<1>2. Text \in Texts /\ Text' = Text
  BY <1>1, TextFacts DEF Text
<1> DEFINE D == Text
<1>3. Fresh(x, D)
  <2>1. x.heads = mf.heads
    BY DEF SameTables, TableFields
  <2>2. mf.heads = <<>> /\ \A n \in Nat : Tables(mf, 1, 0, 1, n, D)
    BY <1>1 DEF Fresh
  <2> HIDE DEF D
  <2>3. \A n \in Nat : Tables(x, 1, 0, 1, n, D)
    BY <2>2, TablesSame
  <2> QED BY <2>1, <2>2, <2>3 DEF Fresh
<1> DEFINE g == SetLimits(x)
<1>4. mf' = g /\ g.begun
  BY DEF SetLimits, FinderOK, WindowFields
<1>5. ASSUME NEW y, y = g PROVE HistoryInv'
  <2>1. mf' = y /\ y.begun
    BY <1>4, <1>5
  <2>2. Limited(y)
    <3>1. Limited(mf)'
      BY <2>1 DEF WindowInv
    <3> QED BY <3>1, <2>1 DEF Limited, ReadsOn, Avail, ToLimit
  <2>3. Posn(y, 0) /\ Holds(y, 0, D)
    <3>1. Limited(SetLimits(x))
      BY <2>2, <1>5
    <3>2. Posn(SetLimits(x), 0) /\ Holds(SetLimits(x), 0, D)
      BY <3>1, <1>1, <1>2, <1>3, FirstLimits
    <3> QED BY <3>2, <1>5
  <2>4. FoundOK'
    <3>1. found' = found /\ kind' = kind /\ fed' >= fed /\ fed' \in Nat
      BY <1>1
    <3> DEFINE k == kind.n
    <3>2. k \in 2 .. 5
      BY <1>1, KindFacts
    <3>3. CASE found.recs = <<>> /\ (found.at = -1 \/ found.lim < k)
      BY <3>1, <3>3, <1>1 DEF FoundOK
    <3>4. CASE /\ found.at \in Nat /\ found.lim >= k /\ found.at + found.lim <= fed
               /\ Answers(Here(D, found.at, found.lim), k, found.recs)
      <4>1. found.lim \in Nat
        BY <1>1 DEF FoundOK
      <4>2. FALSE
        BY <3>2, <3>4, <4>1, <1>1
      <4> QED BY <4>2
    <3> QED BY <3>3, <3>4, <1>1 DEF FoundOK
  <2>5. at' = 0 /\ Text' = D
    BY <1>1, <1>2
  <2> HIDE DEF D, g
  <2> QED BY <2>1, <2>3, <2>4, <2>5, NextHistory
<1> QED BY <1>5

\* `init`.
LEMMA BeginHistory ==
    ASSUME HistoryInv, Begin
    PROVE  HistoryInv'
<1>1. WindowInv' /\ WindowInv /\ ~mf.begun
  BY BeginKeeps DEF HistoryInv, Begin
<1>2. PICK o \in ReadOutcomes(mf) :
        mf' = SetLimits([ReadBlock(mf, o) EXCEPT !.begun = TRUE]) /\ fed' = o.n
  BY Zenon DEF Begin
<1> DEFINE r == ReadBlock(mf, o)
           x == [r EXCEPT !.begun = TRUE]
<1>3. /\ kind \in Kinds /\ data \in Streams /\ at \in Nat /\ fed \in at .. Len(data)
      /\ FinderOK(mf) /\ Sized(mf) /\ Window(mf, at, fed) /\ mf.pos = 1 /\ mf.cycPos = 1
  BY <1>1 DEF WindowInv
<1>4. FinderOK(r) /\ o.n \in Nat /\ r.pos = 1 /\ r.cycPos = 1
  <2>1. mf.blockSize < PosMod
    BY <1>3 DEF Sized
  <2>2. FinderOK(r) /\ o.n \in Nat
    BY <2>1, <1>3, ReadFacts
  <2>3. r.pos = mf.pos /\ r.cycPos = mf.cycPos
    BY <1>3, ReadTables
  <2> QED BY <2>2, <2>3, <1>3
<1>5. SameTables(mf, r)
  BY <1>3, ReadTables
<1> HIDE DEF r
<1>6. /\ DOMAIN x = DOMAIN r /\ x.begun
      /\ \A z \in (WindowFields \cup TableFields) \ {"begun"} : x[z] = r[z]
  BY <1>4 DEF FinderOK, WindowFields, TableFields
<1>7. mf' = SetLimits(x) /\ fed' \in Nat
  BY <1>2, <1>4 DEF r
<1> HIDE DEF x
<1>8. FinderOK(x) /\ x.pos = 1 /\ x.cycPos = 1
  BY <1>4, <1>6 DEF FinderOK, WindowFields
<1>9. SameTables(mf, x)
  BY <1>5, <1>6 DEF SameTables, TableFields
<1>10. UNCHANGED <<kind, data, at, found>>
  BY DEF Begin
<1> QED BY <1>1, <1>6, <1>7, <1>8, <1>9, <1>10, Began

\* `init` with direct_input.
LEMMA BeginDirectHistory ==
    ASSUME HistoryInv, BeginDirect
    PROVE  HistoryInv'
<1> DEFINE n == Len(data)
           buf == [i \in 0 .. n - 1 |-> data[i + 1]]
           sp == mf.streamPos + n
           x == [mf EXCEPT !.begun = TRUE, !.buf = buf, !.blockSize = n, !.streamPos = sp, !.ended = TRUE]
<1>1. WindowInv' /\ WindowInv /\ ~mf.begun
  BY BeginDirectKeeps DEF HistoryInv, BeginDirect
<1>2. /\ data \in Streams /\ n \in Nat /\ FinderOK(mf) /\ mf.cycPos = 1 /\ mf.pos = 1 /\ mf.streamPos = 1
      /\ n <= DirectMax
  BY <1>1, FinderAssumption DEF WindowInv, BeginDirect, StreamLen
<1>3. mf' = SetLimits(x) /\ fed' = n
  BY Zenon DEF BeginDirect, StreamLen
<1>4. sp = n + 1 /\ sp \in Positions
  BY <1>2, Sizes DEF Positions
<1>5. DOMAIN buf = 0 .. n - 1
  OBVIOUS
<1> HIDE DEF sp, buf, n
<1>6. /\ DOMAIN x = DOMAIN mf /\ x.begun /\ x.begun = TRUE /\ x.buf = buf /\ x.blockSize = n
      /\ x.streamPos = sp /\ x.ended = TRUE
      /\ \A z \in (WindowFields \cup TableFields) \ {"begun", "buf", "blockSize", "streamPos", "ended"} : x[z] = mf[z]
  BY <1>2 DEF FinderOK, WindowFields, TableFields
<1> HIDE DEF x
<1>7. FinderOK(x) /\ x.pos = 1 /\ x.cycPos = 1
  BY <1>2, <1>4, <1>5, <1>6 DEF FinderOK, WindowFields
<1>8. SameTables(mf, x)
  BY <1>2, <1>6 DEF SameTables, TableFields, FinderOK
<1>9. UNCHANGED <<kind, data, at, found>>
  BY DEF BeginDirect
<1>10. fed' \in Nat
  BY <1>2, <1>3
<1> QED BY <1>1, <1>3, <1>6, <1>7, <1>8, <1>9, <1>10, Began

\* After move_pos.
LEMMA MovedHistory ==
    ASSUME HistoryInv, mf.begun, at < fed, NEW f, SameWindow(mf, f), MovePos(f), kind' = kind, data' = data,
           mf.lenLimit >= kind.n => Entered2(mf, f, at, Text), fed <= fed' => FoundOK'
    PROVE  HistoryInv'
<1>1. WindowInv /\ Posn(mf, at) /\ data \in Streams /\ at \in Nat
  BY DEF HistoryInv, WindowInv
<1>2. WindowInv'
  BY <1>1, MovePosKeeps
<1>3. Text \in Texts /\ Text' = Text
  BY <1>1, TextFacts DEF Text
<1>4. at' = at + 1
  BY DEF MovePos
<1>5. mf'.begun
  <2>1. ~mf'.begun => at' = 0
    BY <1>2 DEF WindowInv
  <2> QED BY <2>1, <1>1, <1>4
<1> DEFINE D == Text
<1>6. Posn(mf', at + 1) /\ Holds(mf', at + 1, D) /\ fed <= fed'
  <2>1. D \in Texts /\ (mf.lenLimit >= kind.n => Entered2(mf, f, at, D))
    BY <1>3
  <2> HIDE DEF D
  <2> QED BY <2>1, <1>1, MovePosTables
<1>7. FoundOK' /\ Text' = D
  BY <1>3, <1>6
<1> HIDE DEF D
<1>8. ASSUME NEW y, y = mf', NEW p, p = at + 1 PROVE HistoryInv'
  <2>1. Posn(y, p) /\ Holds(y, p, D) /\ mf' = y /\ y.begun /\ at' = p
    BY <1>4, <1>5, <1>6, <1>8
  <2> QED BY <2>1, <1>2, <1>7, NextHistory
<1> QED BY <1>8

\* What was found stays true when more is read.
LEMMA FoundStays ==
    ASSUME FoundOK, fed \in Nat, fed' \in Nat, fed <= fed', UNCHANGED <<kind, data, found>>
    PROVE  FoundOK'
<1>1. found.lim \in Nat /\ found'.lim \in Nat
  BY DEF FoundOK
<1>2. CASE found.recs = <<>> /\ (found.at = -1 \/ found.lim < kind.n)
  BY <1>1, <1>2 DEF FoundOK
<1>3. CASE /\ found.at \in Nat /\ found.lim >= kind.n /\ found.at + found.lim <= fed
           /\ Answers(Here(Text, found.at, found.lim), kind.n, found.recs)
  <2>1. found.at + found.lim <= fed'
    BY <1>1, <1>3
  <2>2. Text' = Text
    BY DEF Text
  <2> QED BY <1>1, <1>3, <2>1, <2>2 DEF FoundOK
<1> QED BY <1>2, <1>3 DEF FoundOK

\* get_matches of every kind: the matches of its position, and the position in the tables.
LEMMA GetHistory ==
    ASSUME HistoryInv, mf.begun, GetMatches
    PROVE  HistoryInv'
<1>1. /\ WindowInv /\ at < fed /\ kind' = kind /\ data' = data /\ FinderOK(mf) /\ at \in Nat /\ fed \in at .. Len(data)
      /\ Posn(mf, at) /\ Holds(mf, at, Text) /\ data \in Streams /\ Len(data) \in Nat
  BY Zenon, TextFacts DEF HistoryInv, WindowInv, GetMatches
<1>2. Text' = Text
  BY <1>1 DEF Text
<1>3. CASE mf.lenLimit < kind.n /\ MovePos(mf) /\ found' = [at |-> at, recs |-> <<>>, lim |-> mf.lenLimit]
  <2>1. SameWindow(mf, mf)
    BY <1>1, SameSelf
  <2>2. mf.lenLimit \in Nat
    BY <1>1 DEF Posn
  <2>3. FoundOK'
    BY <1>1, <1>3, <2>2 DEF FoundOK
  <2>4. ~(mf.lenLimit >= kind.n)
    <3>1. kind.n \in 2 .. 5
      BY KindFacts DEF WindowInv, HistoryInv
    <3> QED BY <3>1, <2>2, <1>3
  <2> QED BY <1>1, <1>3, <2>1, <2>3, <2>4, MovedHistory
<1> DEFINE low  == LowMatches(mf)
           high == HighMatches(EnterLow(mf), low)
           recs == low.recs \o high.recs
           lim  == mf.lenLimit
<1>4. CASE /\ lim >= kind.n /\ MovePos(high.f)
           /\ found' = [at |-> at, recs |-> recs, lim |-> lim]
  <2>1. Ready(mf, at, Text) /\ at + lim <= fed
    BY <1>1, <1>4, ReadyNow
  <2>2. Answers(Here(Text, at, lim), kind.n, recs) /\ Entered2(mf, high.f, at, Text)
    BY <2>1, GetEnters
  <2>3. SameWindow(mf, high.f)
    <3>1. SameWindow(mf, EnterLow(mf))
      BY <1>1, EnterLowSame
    <3> QED BY <1>1, <3>1, HighMatchesSame
  <2>4. lim \in Nat
    BY <1>1 DEF Posn
  <2> DEFINE f == high.f
  <2>5. SameWindow(mf, f) /\ MovePos(f) /\ Entered2(mf, f, at, Text)
    BY <1>4, <2>2, <2>3
  <2>6. found'.at = at /\ found'.recs = recs /\ found'.lim = lim
    BY <1>4
  <2> HIDE DEF f, low, high, recs
  <2>7. ASSUME fed <= fed' PROVE FoundOK'
    <3>1. fed' \in Nat
      <4>1. Text \in Texts
        BY <1>1, TextFacts
      <4> QED BY <1>1, <2>5, <4>1, MovePosTables DEF HistoryInv
    <3>2. at + lim <= fed'
      BY <1>1, <2>1, <2>4, <2>7, <3>1
    <3>3. Answers(Here(Text', found'.at, found'.lim), kind'.n, found'.recs)
      BY <1>1, <1>2, <2>2, <2>6
    <3>4. found'.at \in Nat /\ found'.lim \in Nat /\ found'.lim >= kind'.n /\ found'.at + found'.lim <= fed'
      BY <1>1, <1>4, <2>4, <2>6, <3>2
    <3> QED BY <3>3, <3>4 DEF FoundOK
  <2> QED BY <1>1, <2>5, <2>7, MovedHistory
<1>5. \/ mf.lenLimit < kind.n /\ MovePos(mf) /\ found' = [at |-> at, recs |-> <<>>, lim |-> mf.lenLimit]
      \/ lim >= kind.n /\ MovePos(high.f) /\ found' = [at |-> at, recs |-> recs, lim |-> lim]
  BY Zenon DEF GetMatches
<1> QED BY <1>3, <1>4, <1>5

\* The skip family: the tables learn the position.
LEMMA SkipHistory ==
    ASSUME HistoryInv, mf.begun, Skip
    PROVE  HistoryInv'
<1>1. /\ WindowInv /\ at < fed /\ kind' = kind /\ data' = data /\ FinderOK(mf)
      /\ Posn(mf, at) /\ Holds(mf, at, Text) /\ found' = [at |-> -1, recs |-> <<>>, lim |-> 0]
  BY Zenon DEF HistoryInv, WindowInv, Skip
<1>2. FoundOK'
  BY <1>1 DEF FoundOK
<1>3. CASE mf.lenLimit < kind.n /\ MovePos(mf)
  <2>1. SameWindow(mf, mf)
    BY <1>1, SameSelf
  <2>2. ~(mf.lenLimit >= kind.n)
    <3>1. kind.n \in 2 .. 5
      BY KindFacts DEF WindowInv, HistoryInv
    <3>2. mf.lenLimit \in 0 .. MatchMaxLen /\ MatchMaxLen \in Nat
      BY <1>1, FinderAssumption DEF Posn
    <3> QED BY <3>1, <3>2, <1>3
  <2> QED BY <1>1, <1>2, <1>3, <2>1, <2>2, MovedHistory
<1> DEFINE t == TakeHead(EnterLow(mf), FALSE)
           f == IF kind.bt THEN BtSkip(t) ELSE HcSkip(t)
<1>4. CASE mf.lenLimit >= kind.n /\ MovePos(f)
  <2>1. Entered2(mf, f, at, Text)
    <3>1. Ready(mf, at, Text)
      BY <1>1, <1>4, ReadyNow
    <3> QED BY <3>1, SkipEnters
  <2>2. SameWindow(mf, f)
    <3>1. SameWindow(mf, t.f)
      BY <1>1, EnterLowSame, TakeHeadSame
    <3>2. \E s : f = [t.f EXCEPT !.son = s]
      BY Zenon DEF BtSkip, HcSkip
    <3>3. PICK s : f = [t.f EXCEPT !.son = s]
      BY <3>2
    <3> HIDE DEF t, f
    <3> QED BY <3>1, <3>3 DEF SameWindow, WindowFields
  <2> HIDE DEF f
  <2> QED BY <1>1, <1>2, <1>4, <2>1, <2>2, MovedHistory
<1>5. (mf.lenLimit < kind.n /\ MovePos(mf)) \/ (mf.lenLimit >= kind.n /\ MovePos(f))
  BY Zenon DEF Skip
<1> QED BY <1>3, <1>4, <1>5

\* The finder is finished.
LEMMA StillHistory ==
    ASSUME HistoryInv, UNCHANGED vars
    PROVE  HistoryInv'
<1>1. kind' = kind /\ data' = data /\ at' = at /\ fed' = fed /\ mf' = mf /\ found' = found
  BY DEF vars
<1>2. WindowInv /\ fed \in Nat
  <2>1. WindowInv /\ data \in Streams /\ at \in Nat /\ fed \in at .. Len(data)
    BY DEF HistoryInv, WindowInv
  <2> QED BY <2>1, TextFacts
<1>3. WindowInv'
  BY <1>1, <1>2 DEF vars, WindowInv, FinderOK, Sized, Window, Limited, Avail, ToLimit, ReadsOn
<1>4. FoundOK'
  BY <1>1, <1>2, FoundStays DEF HistoryInv
<1>5. Text' = Text
  BY <1>1 DEF Text
<1>6. CASE mf.begun
  <2>1. Posn(mf, at) /\ Holds(mf, at, Text)
    BY <1>6 DEF HistoryInv
  <2> DEFINE D == Text
  <2>2. ASSUME NEW y, y = mf, NEW p, p = at PROVE HistoryInv'
    <3>1. mf' = y /\ y.begun /\ at' = p /\ Text' = D /\ Posn(y, p) /\ Holds(y, p, D)
      BY <2>1, <2>2, <1>1, <1>5, <1>6
    <3> HIDE DEF D
    <3> QED BY <3>1, <1>1, <1>3, <1>4, NextHistory
  <2> QED BY <2>2
<1>7. CASE ~mf.begun
  <2>1. Fresh(mf, Text)
    BY <1>7 DEF HistoryInv
  <2>2. Fresh(mf, Text)'
    <3>1. mf'.heads = <<>>
      BY <1>1, <2>1 DEF Fresh
    <3>2. ASSUME NEW n \in Nat PROVE Tables(mf, 1, 0, 1, n, Text)'
      <4> DEFINE D == Text
      <4>1. Tables(mf, 1, 0, 1, n, D)
        BY <2>1 DEF Fresh
      <4>2. ASSUME NEW y, y = mf, NEW q, q = 1, NEW p, p = 0 PROVE Tables(mf, q, p, q, n, Text)'
        <5>1. mf' = y /\ Text' = D /\ Tables(y, q, p, q, n, D)
          BY <4>1, <4>2, <1>1, <1>5
        <5> HIDE DEF D
        <5> QED BY <5>1, <1>1, NextTables
      <4> QED BY <4>2
    <3> QED BY <3>1, <3>2 DEF Fresh
  <2> QED BY <1>1, <1>3, <1>4, <1>7, <2>2 DEF HistoryInv
<1> QED BY <1>6, <1>7

\* The tables hold the history at every position that is looked up, and what get_matches
\* returned are the matches of the position it was called for.
THEOREM HistoryInductive == Spec => []HistoryInv
<1>1. ASSUME HistoryInv, [Next]_vars PROVE HistoryInv'
  <2>1. CASE Begin
    BY <1>1, <2>1, BeginHistory
  <2>2. CASE BeginDirect
    BY <1>1, <2>2, BeginDirectHistory
  <2>3. CASE mf.begun /\ GetMatches
    BY <1>1, <2>3, GetHistory
  <2>4. CASE mf.begun /\ Skip
    BY <1>1, <2>4, SkipHistory
  <2>5. CASE UNCHANGED vars
    BY <1>1, <2>5, StillHistory
  <2> QED
    BY <1>1, <2>1, <2>2, <2>3, <2>4, <2>5 DEF Next
<1> QED
  BY InitHistory, <1>1, PTL DEF Spec

\* Every reported pair is a match that the window really holds, for every size of the
\* window, of the positions and of the cut value.
THEOREM MatchesTrue == Spec => []MatchesAreTrue
<1>1. HistoryInv => MatchesAreTrue
  BY AnswersTrue DEF HistoryInv
<1> QED
  BY HistoryInductive, <1>1, PTL

\* With a cut value that reaches the whole history, no match that is long enough to be
\* hashed is lost.
THEOREM LongestFound == Spec => []LongestIsFound
<1>1. HistoryInv => LongestIsFound
  BY AnswersLongest DEF HistoryInv
<1> QED
  BY HistoryInductive, <1>1, PTL

=============================================================================
