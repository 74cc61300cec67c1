--------------------------- MODULE MtCoder_proofs ---------------------------
(***************************************************************************)
(* Proofs about the block-parallel coder.                                  *)
(*                                                                         *)
(* The inductive invariant says what the code keeps nowhere: which slot w  *)
(* is the base of the ring (the next one to be written, or the one that is *)
(* being written), the number K of its block, how many blocks M reached    *)
(* the output, and the buffer held[s] that the block of slot s occupies.   *)
(* They are bound by an existential quantifier, and every step is proved   *)
(* to keep the invariant for new values of them that depend on the step.   *)
(***************************************************************************)
EXTENDS MtCoder, TLAPS, FiniteSetTheorems, SequenceTheorems

\* How far slot s is behind slot w, and the slot that is d behind w.
Dist(w, s) == IF s >= w THEN s - w ELSE s - w + NumBlocks
At(w, d) == IF w + d >= NumBlocks THEN w + d - NumBlocks ELSE w + d

\* Where block j begins, and the piece p that block j is.
Start(j) == j * BlockSize
IsRef(p, j) == j + 1 \in 1 .. Len(RefOut) /\ p = RefOut[j + 1]

InFlight == NumBlocks - sem

Codes(t)   == pc[t] \in {"start", "code", "post", "panicked"}
Writes(t)  == pc[t] \in {"write", "free", "load"}
HasSlot(t) == Codes(t) \/ Writes(t)
Slot(t)    == IF Writes(t) THEN th[t].wi ELSE th[t].bi
Owner(t)   == Writes(t) \/ (pc[t] \in {"code", "post"} /\ th[t].owns)

-----------------------------------------------------------------------------
Pieces == [lo : Nat, hi : Nat, eof : BOOLEAN]
Bufs == Slots \cup {NoBuf}
PCs == {"off", "wait", "slot", "start", "code", "post", "write", "free", "load",
        "exit", "last", "done", "panicked"}
Works == [lo : Nat, hi : Nat, pos : Nat, bi : Slots, wi : Slots, res : Res,
          buf : Bufs, fin : BOOLEAN, del : BOOLEAN, owns : BOOLEAN, last : Nat]

Types ==
    /\ input \in Inputs
    /\ readEvent \in BOOLEAN
    /\ sem \in 0 .. NumBlocks
    /\ rd \in [stop : BOOLEAN, res : Res, pos : 0 .. input.len, index : Slots,
               started : 1 .. NumThreads]
    /\ shared \in [free : Seq(0 .. NumBlocks), ready : [Slots -> BOOLEAN],
                   write : Slots \cup {Writing}]
    /\ blocks \in [Slots -> Block]
    /\ bufs \in [0 .. NumBlocks -> Pieces]
    /\ writeRes \in Res /\ error \in Res
    /\ finished \in BOOLEAN
    /\ pc \in [Threads -> PCs]
    /\ th \in [Threads -> Works]
    /\ out \in Seq(Pieces)
    /\ faulted \subseteq FaultKind
    /\ result \in Res \cup {None}

(***************************************************************************)
(* The blocks in flight occupy the slots from w on; each is either ready   *)
(* or in the hands of one thread, and only slot w is written.              *)
(***************************************************************************)
Ring(w) ==
    /\ rd.index = At(w, InFlight)
    /\ \A t \in Threads : HasSlot(t) =>
         Dist(w, Slot(t)) < InFlight /\ ~shared.ready[Slot(t)]
    /\ \A s \in Slots : shared.ready[s] => Dist(w, s) < InFlight
    /\ \A s \in Slots : Dist(w, s) < InFlight =>
         shared.ready[s] \/ \E t \in Threads : HasSlot(t) /\ Slot(t) = s
    /\ \A t, u \in Threads :
         HasSlot(t) /\ HasSlot(u) /\ Slot(t) = Slot(u) => t = u
    /\ shared.write \in {w, Writing}
    /\ ~shared.ready[w]
    /\ \A t \in Threads : Owner(t) => shared.write = Writing /\ Slot(t) = w
    /\ shared.write = Writing => \E t \in Threads : Owner(t)

(***************************************************************************)
(* Every buffer but the last is either free or held by one block in        *)
(* flight, and the last one stays at the end of the free list.             *)
(***************************************************************************)
Holds(w, held) ==
    /\ \A s \in Slots : held[s] # NoBuf => Dist(w, s) < InFlight
    /\ \A t \in Threads :
         /\ pc[t] \in {"start", "panicked"} => held[th[t].bi] = NoBuf
         /\ pc[t] \in {"code", "post"} => held[th[t].bi] = th[t].buf
         /\ pc[t] \in {"write", "free"} => held[th[t].wi] = th[t].buf
         /\ pc[t] = "load" => held[th[t].wi] = blocks[th[t].wi].buf
    /\ \A s \in Slots : shared.ready[s] => held[s] = blocks[s].buf
    /\ \A r, s \in Slots : held[r] = held[s] /\ held[r] # NoBuf => r = s

FreeList(held) ==
    /\ shared.free # <<>>
    /\ shared.free[Len(shared.free)] = NumBlocks
    /\ \A i \in 1 .. Len(shared.free) : \A s \in Slots : shared.free[i] # held[s]
    /\ \A i, j \in 1 .. Len(shared.free) : shared.free[i] = shared.free[j] => i = j
    /\ \A b \in Slots : \/ \E i \in 1 .. Len(shared.free) : shared.free[i] = b
                        \/ \E s \in Slots : held[s] = b

(***************************************************************************)
(* The block at distance d from w is block K + d of the input, from the    *)
(* moment it is read until its buffer was written.                         *)
(***************************************************************************)
Buffered(b, j) == b.res = Ok /\ ~b.del => b.buf # NoBuf /\ IsRef(bufs[b.buf], j)

WorkOk(t, w, K) ==
    /\ pc[t] \in {"start", "code"} =>
         /\ th[t].res = Ok
         /\ IsRef(Piece(th[t].lo, th[t].hi, th[t].fin), K + Dist(w, th[t].bi))
    /\ pc[t] = "start" => ~th[t].owns /\ ~th[t].del
    /\ pc[t] = "code" => th[t].buf # NoBuf /\ ~th[t].del
    /\ pc[t] = "post" =>
         /\ th[t].owns => th[t].del \/ th[t].res # Ok
         /\ ~th[t].owns => ~th[t].del
         /\ Buffered(th[t], K + Dist(w, th[t].bi))
    /\ pc[t] = "write" => Buffered(th[t], K)
    /\ pc[t] = "load" => ~blocks[w].del /\ Buffered(blocks[w], K)

Contents(w, K) ==
    /\ \A t \in Threads : WorkOk(t, w, K)
    /\ \A s \in Slots : shared.ready[s] =>
         ~blocks[s].del /\ Buffered(blocks[s], K + Dist(w, s))

(***************************************************************************)
(* The reader: one thread at a time has the token, and the next block to   *)
(* be read comes after the ones in flight.                                 *)
(***************************************************************************)
Reading(K) ==
    /\ \A t, u \in Threads : pc[t] \in {"slot", "panicked"} /\ pc[u] \in {"slot", "panicked"}
                               => t = u
    /\ readEvent => \A t \in Threads : pc[t] \notin {"slot", "panicked"}
    /\ \A t \in Threads : pc[t] = "slot" =>
         /\ ~rd.stop /\ ~th[t].owns /\ ~th[t].del /\ th[t].buf = NoBuf
         /\ th[t].res # Ok => th[t].fin
         /\ th[t].res = Ok =>
              /\ IsRef(Piece(th[t].lo, th[t].hi, th[t].fin), K + InFlight)
              /\ ~th[t].fin => rd.pos = Start(K + InFlight + 1)
    /\ readEvent /\ ~rd.stop =>
         rd.pos = Start(K + InFlight) /\ K + InFlight < Len(RefOut)
    /\ rd.stop /\ error = Ok => K + InFlight = Len(RefOut)
    /\ "spawn" \in faulted <=> \E t \in Threads : pc[t] = "panicked"

\* What is due to be written by the thread that has the write turn.
Due(b) == b.res = Ok /\ b.buf # NoBuf /\ ~b.del
Emitted(t) == pc[t] \in {"free", "post"} \/ (pc[t] = "write" /\ ~Due(th[t]))

(***************************************************************************)
(* The output ends where block M begins, and is whole unless an error was  *)
(* set.                                                                    *)
(***************************************************************************)
Output(K, M) ==
    /\ M \in {K, K + 1}
    /\ \A t \in Threads : Owner(t) => (M = K + 1 <=> Emitted(t))
    /\ shared.write # Writing => M = K
    /\ \A i \in 1 .. Len(out) - 1 : out[i].hi <= out[i+1].lo
    /\ out # <<>> => out[Len(out)].hi <= Start(M)
    /\ error = Ok => Len(out) = M /\ \A i \in 1 .. Len(out) : IsRef(out[i], i - 1)

(***************************************************************************)
(* Whatever goes wrong sets the error, and no thread ends before reading   *)
(* did.                                                                    *)
(***************************************************************************)
Flags ==
    /\ error = Ok =>
         /\ writeRes = Ok /\ rd.res = Ok /\ faulted \subseteq {"spawn"}
         /\ \A t \in Threads : th[t].res = Ok
         /\ \A s \in Slots : blocks[s].res = Ok
    /\ \A t \in Threads : pc[t] # "slot" /\ th[t].fin => rd.stop
    /\ \A s \in Slots : blocks[s].fin => rd.stop
    /\ \A t \in Threads : pc[t] \in {"exit", "last", "done"} => rd.stop \/ error # Ok

\* The threads that were started, the ones that ended, and the answer.
Ending ==
    /\ \A t \in Threads : t >= rd.started => pc[t] = "off"
    /\ pc[0] # "off"
    /\ ended = Cardinality({t \in Threads : pc[t] \in {"last", "done"}})
    /\ result # None => \A t \in Threads : pc[t] \in {"off", "done"}
    /\ OkIsComplete

RingAt(w, K, M, held) ==
    /\ Ring(w) /\ Holds(w, held) /\ FreeList(held)
    /\ Contents(w, K) /\ Reading(K) /\ Output(K, M)

IInv ==
    /\ Types /\ Flags /\ Ending
    /\ \E w \in Slots, K \in Nat, M \in Nat, held \in [Slots -> Bufs] :
         RingAt(w, K, M, held)

-----------------------------------------------------------------------------
(* The arithmetic of the ring.                                             *)

\* There are at least two slots.
LEMMA SlotCount ==
    /\ NumBlocks \in Nat /\ NumBlocks >= 2
    /\ NumThreads \in Nat /\ NumThreads >= 1
    /\ 0 \in Threads /\ Threads \subseteq Nat
    /\ Slots = 0 .. NumBlocks - 1
    /\ \A s \in Slots : s \in Int /\ 0 <= s /\ s < NumBlocks
    /\ 0 \in Slots /\ NoBuf \notin Slots /\ Writing \notin Slots
<1>1. NumThreads \div 8 \in Nat
  BY NumThreadsAssumption, SMT
<1> QED
  BY <1>1, NumThreadsAssumption, SmallBlocksAssumption, SMT
     DEF NumBlocks, Slots, Threads, NoBuf, Writing

\* Distances from w tell the slots apart.
LEMMA DistFacts ==
    ASSUME NEW w \in Slots, NEW s \in Slots
    PROVE  /\ Dist(w, s) \in Nat /\ Dist(w, s) < NumBlocks
           /\ Dist(w, s) = 0 <=> s = w
           /\ Dist(w, w) = 0
           /\ \A r \in Slots : Dist(w, r) = Dist(w, s) => r = s
  BY SlotCount, SMT DEF Dist

\* The slot that is n behind w, for n below the number of slots.
LEMMA AtFacts ==
    ASSUME NEW w \in Slots, NEW n \in Nat, n < NumBlocks
    PROVE  /\ At(w, n) \in Slots /\ Dist(w, At(w, n)) = n
           /\ NextIndex(At(w, n)) = At(w, n + 1)
           /\ NextIndex(At(w, n)) \in Slots
  BY SlotCount, SMT DEF Dist, At, NextIndex

\* The base of the ring goes on by one slot.
LEMMA NextFacts ==
    ASSUME NEW w \in Slots
    PROVE  /\ NextSlot(w) \in Slots /\ NextSlot(w) # w
           /\ \A s \in Slots : s # w => Dist(NextSlot(w), s) = Dist(w, s) - 1
           /\ Dist(NextSlot(w), w) = NumBlocks - 1
           /\ \A n \in 1 .. NumBlocks : At(NextSlot(w), n - 1) = At(w, n)
  BY SlotCount, SMT DEF Dist, At, NextSlot

\* Blocks begin one after the other.
LEMMA StartFacts ==
    ASSUME NEW j \in Nat
    PROVE  /\ Start(j) \in Nat /\ Start(j + 1) = Start(j) + BlockSize
           /\ Start(j) <= Start(j + 1) /\ Start(0) = 0
  BY BlockSizeAssumption, SMT DEF Start

\* Whole blocks in an input of n units.
LEMMA Division ==
    ASSUME NEW n \in Nat
    PROVE  /\ n \div BlockSize \in Nat /\ n % BlockSize \in Nat
           /\ Start(n \div BlockSize) <= n /\ n < Start((n \div BlockSize) + 1)
           /\ n % BlockSize = 0 <=> Start(n \div BlockSize) = n
<1>1. BlockSize \in Nat /\ BlockSize > 0
  BY BlockSizeAssumption
<1>2. n = BlockSize * (n \div BlockSize) + (n % BlockSize) /\ n % BlockSize \in 0 .. BlockSize - 1
  BY <1>1, SMT
<1>3. n \div BlockSize \in Nat
  BY <1>1, SMT
<1>4. Start((n \div BlockSize) + 1) = Start(n \div BlockSize) + BlockSize
  BY <1>3, StartFacts
<1> QED
  BY <1>1, <1>2, <1>3, <1>4, SMT DEF Start

\* The parts of Start's order.
LEMMA StartMono ==
    ASSUME NEW i \in Nat, NEW j \in Nat
    PROVE  /\ i < j <=> Start(i) < Start(j)
           /\ i + 1 <= j => Start(i + 1) <= Start(j)
<1>1. BlockSize \in Nat /\ BlockSize > 0
  BY BlockSizeAssumption
<1> QED
  BY <1>1, SMT DEF Start

(***************************************************************************)
(* The pieces of the reference output.                                     *)
(***************************************************************************)
RefLength == LET full == input.len \div BlockSize
             IN  IF input.kind = "data" /\ full > 0 /\ input.len % BlockSize = 0
                 THEN full ELSE full + 1

LEMMA RefFacts ==
    ASSUME input \in Inputs
    PROVE  /\ input.len \in Nat
           /\ RefOut \in Seq(Pieces) /\ Len(RefOut) \in Nat \ {0}
           /\ \A j \in Nat : j < Len(RefOut) =>
                /\ RefOut[j + 1] \in Pieces
                /\ RefOut[j + 1].lo = Start(j)
                /\ RefOut[j + 1].lo <= RefOut[j + 1].hi
                /\ RefOut[j + 1].hi <= Start(j + 1)
                /\ RefOut[j + 1].hi <= input.len
                /\ RefOut[j + 1].eof <=> j + 1 = Len(RefOut)
                /\ j + 1 < Len(RefOut) => RefOut[j + 1].hi = Start(j + 1)
                /\ j + 1 = Len(RefOut) => RefOut[j + 1].hi = input.len
           /\ \A j \in Nat : j < Len(RefOut) <=>
                \/ j = 0
                \/ Start(j) < input.len
                \/ Start(j) = input.len /\ input.kind = "stream"
<1> DEFINE n == RefLength
<1>1. input.len \in Nat /\ input.kind \in {"data", "stream"}
  BY InputsAssumption DEF InputKind
<1>2. PICK full \in Nat :
        /\ full = input.len \div BlockSize
        /\ Start(full) <= input.len /\ input.len < Start(full + 1)
        /\ input.len % BlockSize = 0 <=> Start(full) = input.len
  BY <1>1, Division
<1>3. /\ n = IF input.kind = "data" /\ full > 0 /\ Start(full) = input.len
             THEN full ELSE full + 1
      /\ n \in Nat /\ n >= 1 /\ n \in {full, full + 1}
  BY <1>2 DEF RefLength
<1>6. RefOut = [i \in 1 .. n |->
                  IF i < n THEN Piece(Start(i - 1), Start(i), FALSE)
                           ELSE Piece(Start(i - 1), input.len, TRUE)]
  BY Zenon DEF RefOut, RefLength, Start
<1> HIDE DEF n
<1>4. n = full => Start(full) = input.len /\ full > 0 /\ input.kind = "data"
  BY <1>3
<1>5. n = full + 1 => Start(full) < input.len \/ full = 0 \/ input.kind = "stream"
  <2>1. Start(full) \in Nat
    BY StartFacts
  <2>2. Start(full) <= input.len
    BY <1>2
  <2> QED
    BY <2>1, <2>2, <1>1, <1>3
<1>7. Start(n) >= input.len
  BY <1>1, <1>2, <1>3, <1>4, StartFacts
<1>8. n - 1 \in Nat /\ Start(n - 1) <= input.len
  <2>1. CASE n = full
    <3>1. Start((n - 1) + 1) = Start(n - 1) + BlockSize /\ Start(n - 1) \in Nat
      BY <1>3, StartFacts
    <3>2. (n - 1) + 1 = full
      BY <2>1, <1>3
    <3>3. Start(n - 1) <= Start(full)
      BY <3>1, <3>2, BlockSizeAssumption
    <3>4. Start(full) = input.len
      BY <2>1, <1>3
    <3> QED
      BY <3>3, <3>4, <1>3
  <2>2. CASE n = full + 1
    BY <2>2, <1>2, <1>3
  <2> QED
    BY <2>1, <2>2, <1>3
<1>9. ASSUME NEW j \in Nat, j < n
      PROVE  /\ RefOut[j + 1] = IF j + 1 < n THEN Piece(Start(j), Start(j + 1), FALSE)
                                             ELSE Piece(Start(j), input.len, TRUE)
             /\ Start(j) \in Nat /\ Start(j + 1) \in Nat /\ Start(j) <= Start(j + 1)
             /\ j + 1 < n => Start(j + 1) <= input.len
             /\ j + 1 = n => Start(j) <= input.len /\ input.len <= Start(j + 1)
  <2>1. RefOut[j + 1] = IF j + 1 < n THEN Piece(Start(j), Start(j + 1), FALSE)
                                     ELSE Piece(Start(j), input.len, TRUE)
    <3>1. j + 1 \in 1 .. n /\ (j + 1) - 1 = j
      BY <1>3, <1>9
    <3> QED
      BY <3>1, <1>6
  <2>2. Start(j) \in Nat /\ Start(j + 1) \in Nat /\ Start(j) <= Start(j + 1)
    BY StartFacts
  <2>3. j + 1 < n => Start(j + 1) <= Start(n - 1)
    <3>1. SUFFICES ASSUME j + 1 < n PROVE Start(j + 1) <= Start(n - 1)
      OBVIOUS
    <3>2. CASE j + 1 = n - 1
      BY <3>2, <1>8, StartFacts
    <3>3. CASE j + 1 < n - 1
      BY <3>3, <1>8, StartMono, StartFacts
    <3> QED
      BY <3>1, <3>2, <3>3, <1>3
  <2>4. Start(n - 1) \in Nat
    BY <1>8, StartFacts
  <2>5. j + 1 = n => j = n - 1
    BY <1>3
  <2> QED
    BY <2>1, <2>2, <2>3, <2>4, <2>5, <1>1, <1>3, <1>7, <1>8
<1>10. RefOut \in [1 .. n -> Pieces] /\ Len(RefOut) = n /\ RefOut \in Seq(Pieces)
  <2>1. \A i \in 1 .. n : RefOut[i] \in Pieces
    <3> SUFFICES ASSUME NEW i \in 1 .. n PROVE RefOut[i] \in Pieces
      OBVIOUS
    <3>1. i - 1 \in Nat /\ i - 1 < n /\ (i - 1) + 1 = i
      BY <1>3
    <3>2. /\ RefOut[(i - 1) + 1] = IF (i - 1) + 1 < n
                                     THEN Piece(Start(i - 1), Start((i - 1) + 1), FALSE)
                                     ELSE Piece(Start(i - 1), input.len, TRUE)
          /\ Start(i - 1) \in Nat /\ Start((i - 1) + 1) \in Nat
      BY <3>1, <1>9
    <3>3. RefOut[(i - 1) + 1] \in Pieces
      BY <3>2, <1>1 DEF Piece, Pieces
    <3> QED
      BY <3>1, <3>3
  <2>2. DOMAIN RefOut = 1 .. n
    BY <1>6
  <2>3. RefOut \in [1 .. n -> Pieces]
    BY <2>1, <2>2, <1>6
  <2> QED
    BY <2>3, <1>3
<1>11. ASSUME NEW j \in Nat
       PROVE  j < n <=> \/ j = 0
                        \/ Start(j) < input.len
                        \/ Start(j) = input.len /\ input.kind = "stream"
  <2>1. Start(j) \in Nat /\ Start(n - 1) \in Nat /\ Start(n) \in Nat
    BY <1>3, <1>8, StartFacts
  <2>2. CASE j >= n
    <3>1. Start(n) <= Start(j)
      BY <2>1, <2>2, <1>3, StartMono
    <3>2. ~(Start(j) < input.len)
      BY <3>1, <2>1, <1>1, <1>7
    <3>3. Start(j) = input.len => input.kind # "stream"
      BY <3>1, <2>1, <1>1, <1>2, <1>3, <1>4
    <3> QED
      BY <3>2, <3>3, <2>2, <1>3
  <2>3. CASE j < n
    <3>1. j < n - 1 => Start(j) < Start(n - 1)
      BY <1>3, <1>8, StartMono
    <3>2. j = n - 1 \/ j < n - 1
      BY <2>3, <1>3
    <3>3. CASE j < n - 1
      BY <3>1, <3>3, <2>1, <2>3, <1>1, <1>8
    <3>4. CASE j = n - 1
      <4>1. CASE n = full
        <5>1. Start(j) < Start(n)
          BY <3>4, <1>3, StartMono
        <5> QED
          BY <5>1, <4>1, <2>3, <1>4
      <4>2. CASE n = full + 1
        <5>1. j = full
          BY <4>2, <3>4, <1>2
        <5> QED
          BY <5>1, <4>2, <2>1, <2>3, <1>1, <1>2, <1>5
      <4> QED
        BY <4>1, <4>2, <1>3
    <3> QED
      BY <3>2, <3>3, <3>4
  <2> QED
    BY <2>2, <2>3, <1>3
<1>12. ASSUME NEW j \in Nat, j < n
       PROVE  /\ RefOut[j + 1] \in Pieces
              /\ RefOut[j + 1].lo = Start(j)
              /\ RefOut[j + 1].lo <= RefOut[j + 1].hi
              /\ RefOut[j + 1].hi <= Start(j + 1)
              /\ RefOut[j + 1].hi <= input.len
              /\ RefOut[j + 1].eof <=> j + 1 = n
              /\ j + 1 < n => RefOut[j + 1].hi = Start(j + 1)
              /\ j + 1 = n => RefOut[j + 1].hi = input.len
  <2>1. PICK h, e : /\ RefOut[j + 1] = Piece(Start(j), h, e)
                    /\ h = (IF j + 1 < n THEN Start(j + 1) ELSE input.len)
                    /\ e = (IF j + 1 < n THEN FALSE ELSE TRUE)
    BY <1>9, <1>12
  <2>2. /\ Start(j) \in Nat /\ h \in Nat /\ e \in BOOLEAN /\ Start(j) <= h
        /\ h <= Start(j + 1) /\ h <= input.len
        /\ e <=> j + 1 = n
        /\ j + 1 < n => h = Start(j + 1)
        /\ j + 1 = n => h = input.len
    <3>1. /\ Start(j) \in Nat /\ Start(j + 1) \in Nat /\ Start(j) <= Start(j + 1)
          /\ j + 1 < n => Start(j + 1) <= input.len
          /\ j + 1 = n => Start(j) <= input.len /\ input.len <= Start(j + 1)
      BY <1>9, <1>12
    <3>2. CASE j + 1 < n
      BY <3>1, <3>2, <2>1, <1>1, <1>3
    <3>3. CASE j + 1 = n
      BY <3>1, <3>3, <2>1, <1>1, <1>3
    <3> QED
      BY <3>2, <3>3, <1>3, <1>12
  <2>3. /\ RefOut[j + 1] \in Pieces /\ RefOut[j + 1].lo = Start(j)
        /\ RefOut[j + 1].hi = h /\ RefOut[j + 1].eof = e
    BY <2>1, <2>2 DEF Piece, Pieces
  <2> QED
    BY <2>2, <2>3
<1> QED
  BY <1>1, <1>3, <1>10, <1>11, <1>12

\* The block that is read at the place where block j begins.
LEMMA ReadsRef ==
    ASSUME input \in Inputs, NEW j \in Nat, j < Len(RefOut), rd.pos = Start(j),
           NEW r \in Readings, r.res = Ok
    PROVE  /\ IsRef(Piece(rd.pos, r.hi, r.fin), j)
           /\ ~r.fin => r.hi = Start(j + 1)
<1> DEFINE top == IF rd.pos + BlockSize <= input.len THEN rd.pos + BlockSize
                                                    ELSE input.len
           end == IF input.kind = "data" THEN top = input.len
                                         ELSE top # rd.pos + BlockSize
           n == Len(RefOut)
<1>1. r.hi = top /\ r.fin = end
  BY DEF Readings, Ok
<1>2. /\ input.len \in Nat /\ input.kind \in {"data", "stream"}
      /\ n \in Nat /\ RefOut[j + 1] \in Pieces
  BY RefFacts, InputsAssumption DEF InputKind
<1>3. /\ Start(j) \in Nat /\ Start(j + 1) = rd.pos + BlockSize /\ Start(j + 1) \in Nat
  BY StartFacts
<1>4. /\ RefOut[j + 1].lo = Start(j)
      /\ RefOut[j + 1].eof <=> j + 1 = n
      /\ j + 1 < n => RefOut[j + 1].hi = Start(j + 1) /\ Start(j + 1) <= input.len
      /\ j + 1 = n => RefOut[j + 1].hi = input.len /\ input.len <= Start(j + 1)
  BY RefFacts
<1>5. j + 1 < n <=> \/ Start(j + 1) < input.len
                    \/ Start(j + 1) = input.len /\ input.kind = "stream"
  BY RefFacts
<1>6. BlockSize \in Nat /\ BlockSize > 0
  BY BlockSizeAssumption
<1>7. top = RefOut[j + 1].hi
  BY <1>2, <1>3, <1>4, <1>6
<1>8. end <=> j + 1 = n
  BY <1>2, <1>3, <1>4, <1>5, <1>6
<1>9. end = RefOut[j + 1].eof
  BY <1>2, <1>4, <1>8 DEF Pieces
<1>10. Piece(rd.pos, r.hi, r.fin) = RefOut[j + 1]
  BY <1>1, <1>2, <1>4, <1>7, <1>9 DEF Piece, Pieces
<1>11. ~r.fin => r.hi = Start(j + 1)
  <2>1. ~end => j + 1 < n
    BY <1>2, <1>8
  <2> HIDE DEF end, top
  <2> QED
    BY <2>1, <1>1, <1>4, <1>7
<1> QED
  BY <1>2, <1>10, <1>11 DEF IsRef

-----------------------------------------------------------------------------
(* What the steps do, field by field.                                      *)

LEMMA WorkFields ==
    ASSUME Types, NEW t \in Threads
    PROVE  /\ th[t].lo \in Nat /\ th[t].hi \in Nat /\ th[t].pos \in Nat
           /\ th[t].bi \in Slots /\ th[t].wi \in Slots /\ th[t].res \in Res
           /\ th[t].buf \in Bufs /\ th[t].fin \in BOOLEAN /\ th[t].del \in BOOLEAN
           /\ th[t].owns \in BOOLEAN /\ th[t].last \in Nat
           /\ th[t] \in Works /\ pc[t] \in PCs
  BY DEF Types, Works

LEMMA BlockFields ==
    ASSUME Types, NEW s \in Slots
    PROVE  /\ blocks[s].res \in Res /\ blocks[s].buf \in Bufs
           /\ blocks[s].fin \in BOOLEAN /\ blocks[s].del \in BOOLEAN
           /\ blocks[s] \in Block
  BY DEF Types, Block, Bufs

LEMMA RdFields ==
    ASSUME Types
    PROVE  /\ rd.stop \in BOOLEAN /\ rd.res \in Res /\ rd.pos \in 0 .. input.len
           /\ rd.index \in Slots /\ rd.started \in 1 .. NumThreads
           /\ input.len \in Nat /\ rd.pos \in Nat
           /\ sem \in Nat /\ sem <= NumBlocks /\ InFlight \in Nat
           /\ InFlight <= NumBlocks
           /\ shared.free \in Seq(0 .. NumBlocks) /\ shared.ready \in [Slots -> BOOLEAN]
           /\ shared.write \in Slots \cup {Writing}
<1>1. input.len \in Nat
  BY RefFacts DEF Types
<1> QED
  BY <1>1, SlotCount DEF Types, InFlight

\* Slots of the ring are slots.
LEMMA SlotType ==
    ASSUME Types, NEW t \in Threads
    PROVE  Slot(t) \in Slots
  BY WorkFields DEF Slot

\* The other threads keep their place and their locals.
Others(t) == \A u \in Threads : u # t => pc[u]' = pc[u] /\ th[u]' = th[u]

\* What a read may return.
LEMMA ReadingType ==
    ASSUME Types, NEW r \in Readings
    PROVE  /\ r.hi \in 0 .. input.len /\ r.fin \in BOOLEAN /\ r.res \in {Ok, "read"}
           /\ r.res # Ok => r.fin
<1> DEFINE hi == IF rd.pos + BlockSize <= input.len THEN rd.pos + BlockSize
                                                    ELSE input.len
           fin == IF input.kind = "data" THEN hi = input.len
                                         ELSE hi # rd.pos + BlockSize
<1>1. hi \in 0 .. input.len /\ rd.pos \in 0 .. input.len
  BY RdFields, BlockSizeAssumption
<1>2. fin \in BOOLEAN
  OBVIOUS
<1>3. \/ r = [hi |-> hi, fin |-> fin, res |-> Ok]
      \/ r = [hi |-> rd.pos, fin |-> TRUE, res |-> "read"]
  BY Zenon DEF Readings
<1>4. CASE r = [hi |-> hi, fin |-> fin, res |-> Ok]
  <2> HIDE DEF hi, fin
  <2>1. r.hi = hi /\ r.fin = fin /\ r.res = Ok
    BY <1>4
  <2> QED
    BY <2>1, <1>1, <1>2
<1>5. CASE r = [hi |-> rd.pos, fin |-> TRUE, res |-> "read"]
  BY <1>1, <1>5
<1> QED
  BY <1>3, <1>4, <1>5

LEMMA ReadBlockFacts ==
    ASSUME Types, NEW t \in Threads, ReadBlock(t)
    PROVE  /\ Others(t)
           /\ pc[t] = "wait" /\ readEvent /\ ~rd.stop
           /\ pc'[t] = "slot" /\ readEvent' = FALSE
           /\ ~th'[t].owns /\ ~th'[t].del /\ th'[t].buf = NoBuf
           /\ rd'.stop = rd.stop /\ rd'.index = rd.index /\ rd'.started = rd.started
           /\ UNCHANGED <<input, sem, shared, blocks, bufs, writeRes, ended, finished,
                          out, result>>
           /\ \/ /\ error # Ok /\ th'[t].res = error /\ th'[t].fin
                 /\ UNCHANGED <<rd, error, faulted>>
              \/ /\ error = Ok
                 /\ \E r \in Readings :
                      /\ th'[t].lo = rd.pos /\ th'[t].hi = r.hi /\ th'[t].fin = r.fin
                      /\ th'[t].res = r.res /\ rd'.pos = r.hi
                      /\ r.res = Ok => UNCHANGED <<error, faulted>> /\ rd'.res = rd.res
                      /\ r.res # Ok => error' = r.res /\ r.fin
           /\ "spawn" \in faulted' <=> "spawn" \in faulted
           /\ Types'
<1> USE DEF Others
<1>1. /\ pc[t] = "wait" /\ readEvent /\ ~rd.stop
      /\ pc'[t] = "slot" /\ readEvent' = FALSE /\ pc' \in [Threads -> PCs]
      /\ \A u \in Threads : u # t => pc'[u] = pc[u]
      /\ UNCHANGED <<input, sem, shared, blocks, bufs, writeRes, ended, finished,
                     out, result>>
  BY DEF ReadBlock, Types, PCs
<1>2. /\ NoWork \in Works /\ ~NoWork.owns /\ ~NoWork.del /\ NoWork.buf = NoBuf
  BY SlotCount DEF NoWork, Works, Res, Bufs, Ok
<1>3. input.len \in Nat
  BY RdFields
<1>4. CASE /\ error # Ok
           /\ th' = [th EXCEPT ![t] = [NoWork EXCEPT !.res = error, !.fin = TRUE]]
           /\ UNCHANGED <<rd, error, faulted>>
  <2>1. [NoWork EXCEPT !.res = error, !.fin = TRUE] \in Works
    BY <1>2 DEF Types, Works
  <2>2. /\ th' \in [Threads -> Works] /\ \A u \in Threads : u # t => th'[u] = th[u]
        /\ th'[t] = [NoWork EXCEPT !.res = error, !.fin = TRUE]
    BY <1>4, <2>1 DEF Types
  <2>3. /\ ~th'[t].owns /\ ~th'[t].del /\ th'[t].buf = NoBuf
        /\ th'[t].res = error /\ th'[t].fin
    BY <2>2 DEF NoWork
  <2>4. Types'
    BY <1>1, <1>4, <2>2 DEF Types
  <2> QED
    BY <1>1, <1>4, <2>2, <2>3, <2>4
<1>5. ASSUME error = Ok, NEW r \in Readings,
             th' = [th EXCEPT ![t] = [NoWork EXCEPT !.lo = rd.pos, !.hi = r.hi,
                            !.pos = r.hi, !.fin = r.fin, !.res = r.res]],
             rd' = [rd EXCEPT !.pos = r.hi, !.res = IF r.res = Ok THEN @ ELSE r.res],
             error' = FirstError(r.res),
             faulted' = faulted \cup (IF r.res = Ok THEN {} ELSE {"read"})
      PROVE  /\ Types' /\ Others(t)
             /\ ~th'[t].owns /\ ~th'[t].del /\ th'[t].buf = NoBuf
             /\ rd'.stop = rd.stop /\ rd'.index = rd.index /\ rd'.started = rd.started
             /\ th'[t].lo = rd.pos /\ th'[t].hi = r.hi /\ th'[t].fin = r.fin
             /\ th'[t].res = r.res /\ rd'.pos = r.hi
             /\ r.res = Ok => UNCHANGED <<error, faulted>> /\ rd'.res = rd.res
             /\ r.res # Ok => error' = r.res /\ r.fin
             /\ "spawn" \in faulted' <=> "spawn" \in faulted
  <2>1. /\ r.hi \in 0 .. input.len /\ r.fin \in BOOLEAN /\ r.res \in {Ok, "read"}
        /\ r.res # Ok => r.fin
    BY ReadingType
  <2>2. [NoWork EXCEPT !.lo = rd.pos, !.hi = r.hi,
                            !.pos = r.hi, !.fin = r.fin, !.res = r.res] \in Works
    <3>1. r.hi \in Nat /\ rd.pos \in Nat /\ r.res \in Res
      BY <1>3, <2>1, RdFields DEF Res
    <3> QED
      BY <3>1, <2>1, <1>2 DEF NoWork, Works
  <2>3. /\ th' \in [Threads -> Works] /\ \A u \in Threads : u # t => th'[u] = th[u]
        /\ th'[t] = [NoWork EXCEPT !.lo = rd.pos, !.hi = r.hi,
                            !.pos = r.hi, !.fin = r.fin, !.res = r.res]
    BY <1>5, <2>2 DEF Types
  <2>4. /\ ~th'[t].owns /\ ~th'[t].del /\ th'[t].buf = NoBuf
        /\ th'[t].lo = rd.pos /\ th'[t].hi = r.hi /\ th'[t].fin = r.fin
        /\ th'[t].res = r.res
    BY <2>3 DEF NoWork
  <2>5. /\ rd' \in [stop : BOOLEAN, res : Res, pos : 0 .. input.len, index : Slots,
                    started : 1 .. NumThreads]
        /\ rd'.stop = rd.stop /\ rd'.index = rd.index /\ rd'.started = rd.started
        /\ rd'.pos = r.hi
        /\ r.res = Ok => rd'.res = rd.res
    BY <1>5, <2>1 DEF Types, Res
  <2>6. /\ error' = r.res /\ error' \in Res
        /\ faulted' \subseteq FaultKind
        /\ "spawn" \in faulted' <=> "spawn" \in faulted
        /\ r.res = Ok => UNCHANGED <<error, faulted>>
    BY <1>5, <2>1 DEF Types, FaultKind, FirstError, Res
  <2>7. Types'
    BY <1>1, <2>3, <2>5, <2>6 DEF Types
  <2> QED
    BY <1>1, <2>1, <2>3, <2>4, <2>5, <2>6, <2>7
<1> QED
  BY <1>1, <1>4, <1>5 DEF ReadBlock

LEMMA StopReadingFacts ==
    ASSUME Types, NEW t \in Threads, StopReading(t)
    PROVE  /\ Others(t)
           /\ pc[t] = "wait" /\ readEvent /\ rd.stop /\ pc'[t] = "exit"
           /\ th'[t] = th[t]
           /\ UNCHANGED <<input, readEvent, sem, rd, shared, blocks, bufs, writeRes,
                          error, ended, finished, th, out, faulted, result>>
           /\ Types'
  BY DEF StopReading, Types, PCs, Others

\* What TakeSlot computes before it changes anything.
TakenRes(t) == IF th[t].res = Ok THEN error ELSE th[t].res
TakenFin(t) == th[t].fin \/ TakenRes(t) # Ok
More(t) == ~TakenFin(t) /\ rd.started < NumThreads /\ input.expected # th[t].pos

LEMMA TakeSlotFacts ==
    ASSUME Types, NEW t \in Threads, TakeSlot(t), t # rd.started
    PROVE  /\ pc[t] = "slot" /\ sem > 0 /\ sem' = sem - 1
           /\ \A u \in Threads : u # t => th'[u] = th[u]
           /\ th'[t].bi = rd.index /\ th'[t].res = TakenRes(t)
           /\ th'[t].fin = TakenFin(t) /\ th'[t].buf = th[t].buf
           /\ th'[t].lo = th[t].lo /\ th'[t].hi = th[t].hi
           /\ th'[t].del = th[t].del /\ th'[t].owns = th[t].owns
           /\ rd'.index = NextIndex(rd.index) /\ rd'.pos = rd.pos /\ rd'.res = rd.res
           /\ UNCHANGED <<input, shared, blocks, bufs, writeRes, error, ended,
                          finished, out, result>>
           /\ \/ /\ rd'.stop = TakenFin(t) /\ readEvent' = TRUE
                 /\ UNCHANGED faulted
                 /\ pc'[t] = IF TakenRes(t) = Ok THEN "start" ELSE "post"
                 /\ \/ /\ rd'.started = rd.started
                       /\ \A u \in Threads : u # t => pc'[u] = pc[u]
                    \/ /\ rd'.started = rd.started + 1
                       /\ \A u \in Threads : u # t =>
                            pc'[u] = IF u = rd.started THEN "wait" ELSE pc[u]
              \/ /\ More(t) /\ pc'[t] = "panicked" /\ UNCHANGED readEvent
                 /\ rd'.stop = rd.stop /\ rd'.started = rd.started + 1
                 /\ faulted' = faulted \cup {"spawn"}
                 /\ \A u \in Threads : u # t => pc'[u] = pc[u]
           /\ Types'
<1> DEFINE res == TakenRes(t)
           fin == TakenFin(t)
           more == More(t)
<1>1. /\ pc[t] = "slot" /\ sem > 0 /\ sem' = sem - 1
      /\ th' = [th EXCEPT ![t].bi = rd.index, ![t].res = res, ![t].fin = fin]
      /\ \/ /\ rd' = [rd EXCEPT !.index = NextIndex(rd.index), !.stop = fin,
                                !.started = IF more THEN @ + 1 ELSE @]
            /\ pc' = [u \in Threads |->
                          CASE u = t -> IF res = Ok THEN "start" ELSE "post"
                            [] more /\ u = rd.started -> "wait"
                            [] OTHER -> pc[u]]
            /\ readEvent' = TRUE
            /\ UNCHANGED faulted
         \/ /\ more
            /\ rd' = [rd EXCEPT !.index = NextIndex(rd.index), !.started = @ + 1]
            /\ pc' = [pc EXCEPT ![t] = "panicked"]
            /\ faulted' = faulted \cup {"spawn"}
            /\ UNCHANGED readEvent
      /\ UNCHANGED <<input, shared, blocks, bufs, writeRes, error, ended,
                     finished, out, result>>
  BY DEF TakeSlot, TakenRes, TakenFin, More
<1>2. res \in Res /\ fin \in BOOLEAN /\ more \in BOOLEAN
  BY WorkFields DEF TakenRes, TakenFin, More, Types
<1>3. more => rd.started < NumThreads
  BY DEF More
<1> HIDE DEF res, fin, more
<1>4. rd.index \in Slots /\ NextIndex(rd.index) \in Slots
  <2>1. rd.index \in Slots
    BY RdFields
  <2> QED
    BY SMTT(20), <2>1, SlotCount DEF NextIndex
<1> DEFINE Rd == [stop : BOOLEAN, res : Res, pos : 0 .. input.len, index : Slots,
                  started : 1 .. NumThreads]
<1>r. rd \in Rd /\ NumThreads \in Nat /\ rd.started \in 1 .. NumThreads
  BY SlotCount, RdFields DEF Types
<1>s. more => rd.started + 1 \in 1 .. NumThreads
  BY <1>3, <1>r
<1>5. /\ \A u \in Threads : u # t => th'[u] = th[u]
      /\ th'[t].bi = rd.index /\ th'[t].res = res
      /\ th'[t].fin = fin /\ th'[t].buf = th[t].buf
      /\ th'[t].lo = th[t].lo /\ th'[t].hi = th[t].hi
      /\ th'[t].del = th[t].del /\ th'[t].owns = th[t].owns
      /\ th' \in [Threads -> Works]
  <2>1. th' = [th EXCEPT ![t] = [th[t] EXCEPT !.bi = rd.index, !.res = res, !.fin = fin]]
    BY <1>1 DEF Types
  <2>2. [th[t] EXCEPT !.bi = rd.index, !.res = res, !.fin = fin] \in Works
    BY <1>2, <1>4, WorkFields DEF Works
  <2>3. /\ th' \in [Threads -> Works] /\ \A u \in Threads : u # t => th'[u] = th[u]
        /\ th'[t] = [th[t] EXCEPT !.bi = rd.index, !.res = res, !.fin = fin]
    BY <2>1, <2>2 DEF Types
  <2> QED
    BY <2>3, WorkFields DEF Works
<1>6. sem' \in 0 .. NumBlocks
  BY <1>1, RdFields, SlotCount
<1>7. CASE /\ rd' = [rd EXCEPT !.index = NextIndex(rd.index), !.stop = fin,
                                !.started = IF more THEN @ + 1 ELSE @]
           /\ pc' = [u \in Threads |->
                          CASE u = t -> IF res = Ok THEN "start" ELSE "post"
                            [] more /\ u = rd.started -> "wait"
                            [] OTHER -> pc[u]]
           /\ readEvent' = TRUE
           /\ UNCHANGED faulted
  <2>1. /\ rd'.index = NextIndex(rd.index) /\ rd'.pos = rd.pos /\ rd'.res = rd.res
        /\ rd'.stop = fin
        /\ rd'.started = IF more THEN rd.started + 1 ELSE rd.started
    BY <1>r, <1>7
  <2>r. rd' \in Rd
    BY <1>r, <1>s, <1>2, <1>4, <1>7
  <2>2. /\ pc'[t] = IF res = Ok THEN "start" ELSE "post"
        /\ ~more => \A u \in Threads : u # t => pc'[u] = pc[u]
        /\ more => \A u \in Threads : u # t =>
                     pc'[u] = IF u = rd.started THEN "wait" ELSE pc[u]
    <3>1. pc'[t] = IF res = Ok THEN "start" ELSE "post"
      BY <1>7
    <3>2. ASSUME NEW u \in Threads, u # t
          PROVE  pc'[u] = CASE more /\ u = rd.started -> "wait"
                            [] OTHER -> pc[u]
      BY <1>7, <3>2
    <3> QED
      BY <1>2, <3>1, <3>2
  <2>3. pc' \in [Threads -> PCs]
    <3>1. \A u \in Threads : pc'[u] \in PCs
      BY <1>2, <2>2 DEF Types, PCs
    <3>2. pc' = [u \in Threads |-> pc'[u]]
      BY <1>7
    <3> QED
      BY <3>1, <3>2
  <2>4. Types'
    BY <1>1, <1>5, <1>6, <1>7, <2>r, <2>3 DEF Types
  <2>5. \/ /\ rd'.started = rd.started
           /\ \A u \in Threads : u # t => pc'[u] = pc[u]
        \/ /\ rd'.started = rd.started + 1
           /\ \A u \in Threads : u # t =>
                pc'[u] = IF u = rd.started THEN "wait" ELSE pc[u]
    BY <1>2, <2>1, <2>2
  <2> QED
    BY <1>1, <1>5, <1>7, <2>1, <2>2, <2>4, <2>5 DEF res, fin, more
<1>8. CASE /\ more
           /\ rd' = [rd EXCEPT !.index = NextIndex(rd.index), !.started = @ + 1]
           /\ pc' = [pc EXCEPT ![t] = "panicked"]
           /\ faulted' = faulted \cup {"spawn"}
           /\ UNCHANGED readEvent
  <2>1. /\ rd'.index = NextIndex(rd.index) /\ rd'.pos = rd.pos /\ rd'.res = rd.res
        /\ rd'.stop = rd.stop /\ rd'.started = rd.started + 1
    BY <1>r, <1>8
  <2>r. rd' \in Rd
    BY <1>r, <1>s, <1>4, <1>8
  <2>2. /\ pc'[t] = "panicked" /\ \A u \in Threads : u # t => pc'[u] = pc[u]
        /\ pc' \in [Threads -> PCs] /\ faulted' \subseteq FaultKind
    BY <1>8 DEF Types, PCs, FaultKind
  <2>3. Types'
    BY <1>1, <1>5, <1>6, <1>8, <2>r, <2>2 DEF Types
  <2> QED
    BY <1>1, <1>5, <1>8, <2>1, <2>2, <2>3 DEF res, fin, more
<1> QED
  BY <1>1, <1>7, <1>8

LEMMA StartCodeFacts ==
    ASSUME Types, NEW t \in Threads, StartCode(t),
           shared.free # <<>>, Head(shared.free) \in Slots
    PROVE  /\ Others(t)
           /\ pc[t] = "start" /\ pc'[t] = "code"
           /\ shared'.ready = shared.ready /\ shared'.free = Tail(shared.free)
           /\ \/ /\ input.direct /\ shared.write = th[t].bi
                 /\ th'[t].owns /\ shared'.write = Writing
              \/ /\ ~th'[t].owns /\ shared'.write = shared.write
           /\ th'[t].buf = Head(shared.free)
           /\ th'[t].bi = th[t].bi /\ th'[t].res = th[t].res /\ th'[t].fin = th[t].fin
           /\ th'[t].lo = th[t].lo /\ th'[t].hi = th[t].hi /\ th'[t].del = th[t].del
           /\ UNCHANGED <<input, readEvent, sem, rd, blocks, bufs, writeRes, error,
                          ended, finished, out, faulted, result>>
           /\ Types'
<1> DEFINE owns == Claims(th[t].bi)
           sh == [shared EXCEPT !.write = IF owns THEN Writing ELSE @, !.free = Tail(@)]
           work == [th[t] EXCEPT !.owns = owns, !.buf = Head(shared.free)]
<1>1. /\ pc[t] = "start" /\ pc' = [pc EXCEPT ![t] = "code"] /\ shared' = sh
      /\ th' = [th EXCEPT ![t].owns = owns, ![t].buf = Head(shared.free)]
      /\ UNCHANGED <<input, readEvent, sem, rd, blocks, bufs, writeRes, error,
                     ended, finished, out, faulted, result>>
  BY DEF StartCode
<1>2. input.direct \in BOOLEAN
  BY InputsAssumption DEF Types, InputKind
<1>3. owns \in BOOLEAN /\ (owns => input.direct /\ shared.write = th[t].bi)
  BY <1>2 DEF Claims
<1> HIDE DEF owns
<1>4. /\ sh.write = (IF owns THEN Writing ELSE shared.write)
      /\ sh.free = Tail(shared.free) /\ sh.ready = shared.ready
      /\ sh \in [free : Seq(0 .. NumBlocks), ready : [Slots -> BOOLEAN],
                 write : Slots \cup {Writing}]
  <2>1. Tail(shared.free) \in Seq(0 .. NumBlocks)
    BY RdFields, HeadTailProperties
  <2>2. shared \in [free : Seq(0 .. NumBlocks), ready : [Slots -> BOOLEAN],
                 write : Slots \cup {Writing}]
    BY DEF Types
  <2> QED
    BY <2>1, <2>2
<1>5. th' = [th EXCEPT ![t] = work]
  BY <1>1 DEF Types
<1>6. /\ work \in Works /\ work.owns = owns /\ work.buf = Head(shared.free)
      /\ work.bi = th[t].bi /\ work.res = th[t].res /\ work.fin = th[t].fin
      /\ work.lo = th[t].lo /\ work.hi = th[t].hi /\ work.del = th[t].del
  BY <1>3, WorkFields DEF Works, Bufs
<1> HIDE DEF sh, work
<1>7. /\ th' \in [Threads -> Works] /\ th'[t] = work
      /\ \A u \in Threads : u # t => th'[u] = th[u] /\ pc'[u] = pc[u]
      /\ pc'[t] = "code" /\ pc' \in [Threads -> PCs]
  <2>1. th \in [Threads -> Works] /\ pc \in [Threads -> PCs]
    BY DEF Types
  <2>2. th' \in [Threads -> Works] /\ th'[t] = work /\ \A u \in Threads : u # t => th'[u] = th[u]
    BY <1>5, <1>6, <2>1
  <2>3. "code" \in PCs
    BY DEF PCs
  <2>4. /\ pc' \in [Threads -> PCs] /\ pc'[t] = "code"
        /\ \A u \in Threads : u # t => pc'[u] = pc[u]
    BY <1>1, <2>1, <2>3
  <2> QED
    BY <2>2, <2>4
<1>8. Types'
  BY <1>1, <1>4, <1>7 DEF Types
<1> QED
  BY <1>1, <1>3, <1>4, <1>6, <1>7, <1>8 DEF Others

\* The parts of a piece that may have been written before an error.
LEMMA PartFacts ==
    ASSUME NEW b \in Pieces, NEW p \in Parts(b)
    PROVE  p \in Pieces /\ p.lo = b.lo /\ p.hi <= b.hi
<1>1. PICK h \in b.lo .. b.hi : p = Piece(b.lo, h, FALSE)
  BY DEF Parts
<1>2. b.lo \in Nat /\ b.hi \in Nat /\ h \in Nat /\ h <= b.hi
  BY DEF Pieces
<1> QED
  BY <1>1, <1>2 DEF Pieces, Piece

\* What Code leaves in the output and in the buffer: the piece, or a part of it.
LEMMA CodeFacts ==
    ASSUME Types, NEW t \in Threads, Code(t), th[t].buf # NoBuf
    PROVE  /\ Others(t)
           /\ pc[t] = "code" /\ pc'[t] = "post"
           /\ th'[t].owns = th[t].owns /\ th'[t].buf = th[t].buf
           /\ th'[t].bi = th[t].bi /\ th'[t].fin = th[t].fin
           /\ \E p \in Pieces :
                /\ p.lo = th[t].lo
                /\ p.hi <= th[t].hi \/ p.hi = th[t].hi
                /\ \/ /\ th[t].owns /\ out' = Append(out, p) /\ bufs' = bufs
                   \/ /\ ~th[t].owns /\ out' = out
                      /\ bufs'[th[t].buf] = p
                      /\ \A b \in 0 .. NumBlocks : b # th[t].buf => bufs'[b] = bufs[b]
                /\ \/ /\ p = Piece(th[t].lo, th[t].hi, th[t].fin)
                      /\ th'[t].res = th[t].res
                      /\ UNCHANGED <<error, faulted>>
                      /\ th[t].owns => th'[t].del
                      /\ ~th[t].owns => th'[t].del = th[t].del
                   \/ /\ th'[t].res # Ok /\ error' # Ok /\ th'[t].del = th[t].del
           /\ error # Ok => error' # Ok
           /\ "spawn" \in faulted' <=> "spawn" \in faulted
           /\ UNCHANGED <<input, readEvent, sem, rd, shared, blocks, writeRes,
                          ended, finished, result>>
           /\ Types'
<1> DEFINE w == th[t]
           b == Piece(w.lo, w.hi, w.fin)
<1>1. /\ pc[t] = "code" /\ pc' = [pc EXCEPT ![t] = "post"]
      /\ UNCHANGED <<input, readEvent, sem, rd, shared, blocks, writeRes,
                     ended, finished, result>>
      /\ pc'[t] = "post" /\ pc' \in [Threads -> PCs]
      /\ \A u \in Threads : u # t => pc'[u] = pc[u]
  BY DEF Code, Types, PCs
<1>2. /\ b \in Pieces /\ b.lo = w.lo /\ b.hi = w.hi
      /\ w.buf \in 0 .. NumBlocks
      /\ w.owns \in BOOLEAN /\ w.lo \in Nat /\ w.hi \in Nat
  BY WorkFields, SlotCount DEF Pieces, Piece, Bufs
<1>3. ASSUME ~w.owns, bufs' = [bufs EXCEPT ![w.buf] = b],
             UNCHANGED <<out, th, error, faulted>>
      PROVE  /\ bufs' \in [0 .. NumBlocks -> Pieces] /\ bufs'[w.buf] = b
             /\ \A c \in 0 .. NumBlocks : c # w.buf => bufs'[c] = bufs[c]
  BY <1>2, <1>3 DEF Types
<1>4. ASSUME w.owns, out' = Append(out, b), th' = [th EXCEPT ![t].del = DirectDone]
      PROVE  /\ out' \in Seq(Pieces) /\ th' \in [Threads -> Works]
             /\ \A u \in Threads : u # t => th'[u] = th[u]
             /\ th'[t].owns = w.owns /\ th'[t].buf = w.buf
             /\ th'[t].bi = w.bi /\ th'[t].fin = w.fin
             /\ th'[t].res = w.res /\ th'[t].del
  <2>1. out' \in Seq(Pieces)
    BY <1>2, <1>4 DEF Types
  <2>2. [w EXCEPT !.del = DirectDone] \in Works
    BY WorkFields DEF Works, DirectDone
  <2>3. /\ th' \in [Threads -> Works] /\ th'[t] = [w EXCEPT !.del = DirectDone]
        /\ \A u \in Threads : u # t => th'[u] = th[u]
    BY <1>4, <2>2 DEF Types
  <2> QED
    BY <2>1, <2>3, WorkFields DEF Works, DirectDone
<1>5. ASSUME NEW k \in {"code", "write"}, th' = [th EXCEPT ![t].res = k],
             error' = FirstError(k), faulted' = faulted \cup {k},
             NEW p \in Parts(b),
             IF w.owns THEN out' = Append(out, p) /\ UNCHANGED bufs
                       ELSE bufs' = [bufs EXCEPT ![w.buf] = p] /\ UNCHANGED out
      PROVE  /\ p \in Pieces /\ p.lo = w.lo /\ p.hi <= w.hi
             /\ out' \in Seq(Pieces) /\ bufs' \in [0 .. NumBlocks -> Pieces]
             /\ \/ w.owns /\ out' = Append(out, p) /\ bufs' = bufs
                \/ /\ ~w.owns /\ out' = out /\ bufs'[w.buf] = p
                   /\ \A c \in 0 .. NumBlocks : c # w.buf => bufs'[c] = bufs[c]
             /\ th' \in [Threads -> Works]
             /\ \A u \in Threads : u # t => th'[u] = th[u]
             /\ th'[t].owns = w.owns /\ th'[t].buf = w.buf
             /\ th'[t].bi = w.bi /\ th'[t].fin = w.fin
             /\ th'[t].res # Ok /\ error' # Ok /\ th'[t].del = w.del
             /\ error' \in Res /\ faulted' \subseteq FaultKind
             /\ "spawn" \in faulted' <=> "spawn" \in faulted
  <2>1. p \in Pieces /\ p.lo = w.lo /\ p.hi <= w.hi
    BY <1>2, PartFacts
  <2>2. [w EXCEPT !.res = k] \in Works
    BY WorkFields DEF Works, Res
  <2>3. /\ th' \in [Threads -> Works] /\ th'[t] = [w EXCEPT !.res = k]
        /\ \A u \in Threads : u # t => th'[u] = th[u]
    BY <1>5, <2>2 DEF Types
  <2>4. /\ th'[t].owns = w.owns /\ th'[t].buf = w.buf
        /\ th'[t].bi = w.bi /\ th'[t].fin = w.fin
        /\ th'[t].res # Ok /\ th'[t].del = w.del
    BY <2>3, WorkFields DEF Works, Ok
  <2>5. /\ error' \in Res /\ error' # Ok
        /\ faulted' \subseteq FaultKind
        /\ "spawn" \in faulted' <=> "spawn" \in faulted
    BY <1>5 DEF Types, FaultKind, FirstError, Res, Ok
  <2>6. /\ out' \in Seq(Pieces) /\ bufs' \in [0 .. NumBlocks -> Pieces]
        /\ \/ w.owns /\ out' = Append(out, p) /\ bufs' = bufs
           \/ /\ ~w.owns /\ out' = out /\ bufs'[w.buf] = p
              /\ \A c \in 0 .. NumBlocks : c # w.buf => bufs'[c] = bufs[c]
    <3>1. out \in Seq(Pieces) /\ bufs \in [0 .. NumBlocks -> Pieces]
      BY DEF Types
    <3>2. CASE w.owns
      BY <3>1, <3>2, <1>5, <2>1
    <3>3. CASE ~w.owns
      BY <3>1, <3>3, <1>2, <1>5, <2>1
    <3> QED
      BY <1>2, <3>2, <3>3
  <2> QED
    BY <2>1, <2>3, <2>4, <2>5, <2>6
<1>6. \/ /\ ~w.owns
         /\ bufs' = [bufs EXCEPT ![w.buf] = b]
         /\ UNCHANGED <<out, th, error, faulted>>
      \/ /\ w.owns
         /\ out' = Append(out, b)
         /\ th' = [th EXCEPT ![t].del = DirectDone]
         /\ UNCHANGED <<bufs, error, faulted>>
      \/ \E k \in {"code", "write"} :
         /\ th' = [th EXCEPT ![t].res = k]
         /\ error' = FirstError(k)
         /\ faulted' = faulted \cup {k}
         /\ \E p \in Parts(b) :
               IF w.owns THEN out' = Append(out, p) /\ UNCHANGED bufs
                         ELSE bufs' = [bufs EXCEPT ![w.buf] = p] /\ UNCHANGED out
  BY DEF Code
<1> HIDE DEF b
<1>7. CASE /\ ~w.owns
           /\ bufs' = [bufs EXCEPT ![w.buf] = b]
           /\ UNCHANGED <<out, th, error, faulted>>
  <2>1. Types'
    BY <1>1, <1>3, <1>7 DEF Types
  <2>2. th'[t] = th[t]
    BY <1>7
  <2> QED
    BY <1>1, <1>2, <1>3, <1>7, <2>1, <2>2 DEF Others, b
<1>8. CASE /\ w.owns
           /\ out' = Append(out, b)
           /\ th' = [th EXCEPT ![t].del = DirectDone]
           /\ UNCHANGED <<bufs, error, faulted>>
  <2>1. Types'
    BY <1>1, <1>4, <1>8 DEF Types
  <2> QED
    BY <1>1, <1>2, <1>4, <1>8, <2>1 DEF Others, b
<1>9. CASE \E k \in {"code", "write"} :
         /\ th' = [th EXCEPT ![t].res = k]
         /\ error' = FirstError(k)
         /\ faulted' = faulted \cup {k}
         /\ \E p \in Parts(b) :
               IF w.owns THEN out' = Append(out, p) /\ UNCHANGED bufs
                         ELSE bufs' = [bufs EXCEPT ![w.buf] = p] /\ UNCHANGED out
  <2>1. PICK k \in {"code", "write"} :
         /\ th' = [th EXCEPT ![t].res = k]
         /\ error' = FirstError(k)
         /\ faulted' = faulted \cup {k}
         /\ \E p \in Parts(b) :
               IF w.owns THEN out' = Append(out, p) /\ UNCHANGED bufs
                         ELSE bufs' = [bufs EXCEPT ![w.buf] = p] /\ UNCHANGED out
    BY <1>9
  <2>2. PICK p \in Parts(b) :
               IF w.owns THEN out' = Append(out, p) /\ UNCHANGED bufs
                         ELSE bufs' = [bufs EXCEPT ![w.buf] = p] /\ UNCHANGED out
    BY <2>1
  <2>3. /\ p \in Pieces /\ p.lo = w.lo /\ p.hi <= w.hi
        /\ out' \in Seq(Pieces) /\ bufs' \in [0 .. NumBlocks -> Pieces]
        /\ \/ w.owns /\ out' = Append(out, p) /\ bufs' = bufs
           \/ /\ ~w.owns /\ out' = out /\ bufs'[w.buf] = p
              /\ \A c \in 0 .. NumBlocks : c # w.buf => bufs'[c] = bufs[c]
        /\ th' \in [Threads -> Works]
        /\ \A u \in Threads : u # t => th'[u] = th[u]
        /\ th'[t].owns = w.owns /\ th'[t].buf = w.buf
        /\ th'[t].bi = w.bi /\ th'[t].fin = w.fin
        /\ th'[t].res # Ok /\ error' # Ok /\ th'[t].del = w.del
        /\ error' \in Res /\ faulted' \subseteq FaultKind
        /\ "spawn" \in faulted' <=> "spawn" \in faulted
    BY <2>1, <2>2, <1>5
  <2>4. Types'
    BY <1>1, <2>3 DEF Types
  <2> QED
    BY <1>1, <2>3, <2>4 DEF Others
<1> QED
  BY <1>6, <1>7, <1>8, <1>9

LEMMA PostFacts ==
    ASSUME Types, NEW t \in Threads, Post(t)
    PROVE  /\ Others(t) /\ pc[t] = "post"
           /\ \A s \in Slots : s # th[t].bi => blocks'[s] = blocks[s]
           /\ blocks'[th[t].bi].res = th[t].res /\ blocks'[th[t].bi].buf = th[t].buf
           /\ blocks'[th[t].bi].fin = th[t].fin /\ blocks'[th[t].bi].del = th[t].del
           /\ shared'.free = shared.free
           /\ th'[t].wi = th[t].bi /\ th'[t].bi = th[t].bi /\ th'[t].buf = th[t].buf
           /\ th'[t].fin = th[t].fin /\ th'[t].del = th[t].del
           /\ th'[t].owns = th[t].owns
           /\ \/ /\ th[t].owns \/ shared.write = th[t].bi
                 /\ shared'.write = Writing /\ shared'.ready = shared.ready
                 /\ pc'[t] = "write"
                 /\ \/ writeRes = Ok /\ th'[t].res = th[t].res
                    \/ writeRes # Ok /\ th'[t].res # Ok
              \/ /\ ~th[t].owns /\ shared.write # th[t].bi
                 /\ shared'.write = shared.write
                 /\ \A s \in Slots : s # th[t].bi => shared'.ready[s] = shared.ready[s]
                 /\ shared'.ready[th[t].bi]
                 /\ th'[t].res = th[t].res
                 /\ \/ pc'[t] = "exit" /\ (th[t].res # Ok \/ th[t].fin)
                    \/ pc'[t] = "wait"
           /\ UNCHANGED <<input, readEvent, sem, rd, bufs, writeRes, error, ended,
                          finished, out, faulted, result>>
           /\ Types'
<1> DEFINE b == th[t]
           turn == Turn(b)
           blk == [res |-> b.res, buf |-> b.buf, fin |-> b.fin, del |-> b.del]
           work == [b EXCEPT !.wi = b.bi, !.res = TurnRes(b)]
           sh == IF turn THEN [shared EXCEPT !.write = Writing]
                         ELSE [shared EXCEPT !.ready[b.bi] = TRUE]
<1>1. /\ pc[t] = "post"
      /\ blocks' = [blocks EXCEPT ![b.bi] = blk]
      /\ shared' = sh
      /\ th' = [th EXCEPT ![t] = work]
      /\ pc' = [pc EXCEPT ![t] = IF turn THEN "write"
                                 ELSE IF b.res # Ok \/ b.fin THEN "exit" ELSE "wait"]
      /\ UNCHANGED <<input, readEvent, sem, rd, bufs, writeRes, error, ended,
                     finished, out, faulted, result>>
  BY DEF Post, Types
<1>2. /\ b \in Works /\ b.bi \in Slots /\ b.res \in Res /\ b.buf \in Bufs
      /\ b.fin \in BOOLEAN /\ b.del \in BOOLEAN /\ b.owns \in BOOLEAN
      /\ turn <=> b.owns \/ shared.write = b.bi
  BY WorkFields DEF Turn
<1>3. /\ TurnRes(b) \in Res
      /\ turn => \/ writeRes = Ok /\ TurnRes(b) = b.res
                 \/ writeRes # Ok /\ TurnRes(b) # Ok
      /\ ~turn => TurnRes(b) = b.res
  BY <1>2 DEF TurnRes, Types
<1>4. /\ work \in Works /\ work.wi = b.bi /\ work.bi = b.bi /\ work.buf = b.buf
      /\ work.fin = b.fin /\ work.del = b.del /\ work.owns = b.owns
      /\ work.res = TurnRes(b)
  BY <1>2, <1>3 DEF Works
<1>5. /\ blk \in Block /\ blk.res = b.res /\ blk.buf = b.buf /\ blk.fin = b.fin
      /\ blk.del = b.del
  BY <1>2 DEF Block, Bufs
<1>6. /\ shared \in [free : Seq(0 .. NumBlocks), ready : [Slots -> BOOLEAN],
                     write : Slots \cup {Writing}]
      /\ blocks \in [Slots -> Block] /\ th \in [Threads -> Works] /\ pc \in [Threads -> PCs]
  BY DEF Types
<1> HIDE DEF turn, work, blk
<1>7. /\ sh.free = shared.free
      /\ turn => sh.write = Writing /\ sh.ready = shared.ready
      /\ ~turn => /\ sh.write = shared.write /\ sh.ready[b.bi]
                  /\ \A s \in Slots : s # b.bi => sh.ready[s] = shared.ready[s]
      /\ sh \in [free : Seq(0 .. NumBlocks), ready : [Slots -> BOOLEAN],
                 write : Slots \cup {Writing}]
  BY <1>2, <1>6
<1>8. /\ th'[t] = work /\ th' \in [Threads -> Works]
      /\ blocks' \in [Slots -> Block] /\ blocks'[b.bi] = blk
      /\ \A s \in Slots : s # b.bi => blocks'[s] = blocks[s]
      /\ Others(t)
      /\ pc'[t] = (IF turn THEN "write"
                           ELSE IF b.res # Ok \/ b.fin THEN "exit" ELSE "wait")
      /\ pc' \in [Threads -> PCs]
  BY <1>1, <1>2, <1>4, <1>5, <1>6 DEF Others, PCs
<1> HIDE DEF sh
<1>9. Types'
  BY <1>1, <1>7, <1>8 DEF Types
<1>10. CASE turn
  BY <1>1, <1>2, <1>3, <1>4, <1>5, <1>7, <1>8, <1>9, <1>10
<1>11. CASE ~turn
  BY <1>1, <1>2, <1>3, <1>4, <1>5, <1>7, <1>8, <1>9, <1>11
<1> QED
  BY <1>10, <1>11

\* What WriteBlock leaves in the output, if the block is due.
LEMMA WriteBlockFacts ==
    ASSUME Types, NEW t \in Threads, WriteBlock(t)
    PROVE  /\ Others(t) /\ pc[t] = "write" /\ pc'[t] = "free"
           /\ th'[t].bi = th[t].bi /\ th'[t].wi = th[t].wi /\ th'[t].buf = th[t].buf
           /\ th'[t].fin = th[t].fin
           /\ \/ /\ ~Due(th[t])
                 /\ UNCHANGED <<out, bufs, th, writeRes, error, faulted>>
              \/ /\ Due(th[t])
                 /\ \A b \in 0 .. NumBlocks : b # th[t].buf => bufs'[b] = bufs[b]
                 /\ \E p \in Pieces :
                      /\ out' = Append(out, p)
                      /\ \/ p = bufs[th[t].buf] /\ UNCHANGED <<th, writeRes, error, faulted>>
                         \/ /\ p.lo = bufs[th[t].buf].lo /\ p.hi <= bufs[th[t].buf].hi
                            /\ error' # Ok
           /\ error # Ok => error' # Ok
           /\ "spawn" \in faulted' <=> "spawn" \in faulted
           /\ UNCHANGED <<input, readEvent, sem, rd, shared, blocks, ended, finished,
                          result>>
           /\ Types'
<1> DEFINE w == th[t]
<1>1. /\ pc[t] = "write" /\ pc'[t] = "free" /\ pc' \in [Threads -> PCs]
      /\ \A u \in Threads : u # t => pc'[u] = pc[u]
      /\ UNCHANGED <<input, readEvent, sem, rd, shared, blocks, ended, finished, result>>
  BY DEF WriteBlock, Types, PCs
<1>2. /\ out \in Seq(Pieces) /\ bufs \in [0 .. NumBlocks -> Pieces]
      /\ th \in [Threads -> Works] /\ w \in Works /\ w.buf \in Bufs
  BY WorkFields DEF Types
<1>3. w.buf # NoBuf => w.buf \in 0 .. NumBlocks /\ bufs[w.buf] \in Pieces
  BY <1>2, SlotCount DEF Bufs
<1>4. Empty \in Pieces
  BY DEF Empty, Piece, Pieces
<1>5. CASE ~Due(w) /\ UNCHANGED <<out, bufs, th, writeRes, error, faulted>>
  <2>1. Types'
    BY <1>1, <1>5 DEF Types
  <2> QED
    BY <1>1, <1>5, <2>1 DEF Others
<1>6. CASE /\ Due(w)
           /\ out' = Append(out, bufs[w.buf])
           /\ bufs' = [bufs EXCEPT ![w.buf] = Empty]
           /\ UNCHANGED <<th, writeRes, error, faulted>>
  <2>1. /\ out' \in Seq(Pieces) /\ bufs' \in [0 .. NumBlocks -> Pieces]
        /\ \A b \in 0 .. NumBlocks : b # w.buf => bufs'[b] = bufs[b]
        /\ bufs[w.buf] \in Pieces
    BY <1>2, <1>3, <1>4, <1>6 DEF Due
  <2>2. Types'
    BY <1>1, <1>6, <2>1 DEF Types
  <2> QED
    BY <1>1, <1>6, <2>1, <2>2 DEF Others
<1>7. CASE /\ Due(w)
           /\ \E p \in Parts(bufs[w.buf]) : out' = Append(out, p)
           /\ bufs' = [bufs EXCEPT ![w.buf] = Empty]
           /\ th' = [th EXCEPT ![t].res = "write"]
           /\ writeRes' = "write"
           /\ error' = FirstError("write")
           /\ faulted' = faulted \cup {"write"}
  <2>1. PICK p \in Parts(bufs[w.buf]) : out' = Append(out, p)
    BY <1>7
  <2>2. p \in Pieces /\ p.lo = bufs[w.buf].lo /\ p.hi <= bufs[w.buf].hi
    BY <1>3, <1>7, PartFacts DEF Due
  <2>3. /\ out' \in Seq(Pieces) /\ bufs' \in [0 .. NumBlocks -> Pieces]
        /\ \A b \in 0 .. NumBlocks : b # w.buf => bufs'[b] = bufs[b]
    BY <1>2, <1>3, <1>4, <1>7, <2>1, <2>2 DEF Due
  <2>4. [w EXCEPT !.res = "write"] \in Works
    BY <1>2 DEF Works, Res
  <2>5. /\ th' \in [Threads -> Works] /\ th'[t] = [w EXCEPT !.res = "write"]
        /\ \A u \in Threads : u # t => th'[u] = th[u]
    BY <1>2, <1>7, <2>4
  <2>6. /\ th'[t].bi = w.bi /\ th'[t].wi = w.wi /\ th'[t].buf = w.buf
        /\ th'[t].fin = w.fin
    BY <1>2, <2>5 DEF Works
  <2>7. /\ error' \in Res /\ error' # Ok /\ writeRes' \in Res
        /\ faulted' \subseteq FaultKind
        /\ "spawn" \in faulted' <=> "spawn" \in faulted
    BY <1>7 DEF Types, FaultKind, FirstError, Res, Ok
  <2>8. Types'
    BY <1>1, <2>3, <2>5, <2>7 DEF Types
  <2> QED
    BY <1>1, <1>7, <2>1, <2>2, <2>3, <2>5, <2>6, <2>7, <2>8 DEF Others
<1> QED
  BY <1>5, <1>6, <1>7 DEF WriteBlock, Due

LEMMA FreeSlotFacts ==
    ASSUME Types, NEW t \in Threads, FreeSlot(t), sem < NumBlocks
    PROVE  /\ Others(t) /\ pc[t] = "free"
           /\ sem' = sem + 1
           /\ th'[t].wi = NextSlot(th[t].wi) /\ th'[t].bi = th[t].bi
           /\ th'[t].res = th[t].res /\ th'[t].fin = th[t].fin
           /\ shared'.free = IF th[t].buf = NoBuf THEN shared.free
                             ELSE <<th[t].buf>> \o shared.free
           /\ \A s \in Slots : s # NextSlot(th[t].wi) => shared'.ready[s] = shared.ready[s]
           /\ ~shared'.ready[NextSlot(th[t].wi)]
           /\ \/ /\ shared.ready[NextSlot(th[t].wi)] /\ shared'.write = shared.write
                 /\ pc'[t] = "load"
              \/ /\ ~shared.ready[NextSlot(th[t].wi)]
                 /\ shared'.write = NextSlot(th[t].wi)
                 /\ \/ pc'[t] = "exit" /\ (th[t].fin \/ th[t].res # Ok)
                    \/ pc'[t] = "wait"
           /\ UNCHANGED <<input, readEvent, rd, blocks, bufs, writeRes, error,
                          ended, finished, out, faulted, result>>
           /\ Types'
<1> DEFINE b == th[t]
           w == NextSlot(b.wi)
           ready == shared.ready[w]
           free == IF b.buf = NoBuf THEN shared.free ELSE <<b.buf>> \o shared.free
           sh == [free |-> free, ready |-> Cleared(w),
                  write |-> IF ready THEN shared.write ELSE w]
           work == [b EXCEPT !.wi = w]
<1>1. /\ pc[t] = "free" /\ shared' = sh /\ sem' = sem + 1
      /\ th' = [th EXCEPT ![t] = work]
      /\ pc' = [pc EXCEPT ![t] = IF ready THEN "load"
                                 ELSE IF b.fin \/ b.res # Ok THEN "exit" ELSE "wait"]
      /\ UNCHANGED <<input, readEvent, rd, blocks, bufs, writeRes, error,
                     ended, finished, out, faulted, result>>
  BY DEF FreeSlot, Types
<1>2. /\ b \in Works /\ b.wi \in Slots /\ b.res \in Res /\ b.buf \in Bufs
      /\ b.fin \in BOOLEAN
      /\ shared.free \in Seq(0 .. NumBlocks) /\ shared.ready \in [Slots -> BOOLEAN]
      /\ shared.write \in Slots \cup {Writing}
      /\ th \in [Threads -> Works] /\ pc \in [Threads -> PCs]
  BY WorkFields, RdFields DEF Types
<1>3. w \in Slots
  BY <1>2, NextFacts
<1>4. ready \in BOOLEAN
  BY <1>2, <1>3
<1>5. free \in Seq(0 .. NumBlocks)
  <2>1. CASE b.buf = NoBuf
    BY <1>2, <2>1
  <2>2. CASE b.buf # NoBuf
    <3>1. b.buf \in 0 .. NumBlocks
      BY <1>2, <2>2, SlotCount DEF Bufs
    <3>2. <<b.buf>> \in Seq(0 .. NumBlocks)
      BY <3>1
    <3> QED
      BY <3>2, <2>2, <1>2, ConcatProperties
  <2> QED
    BY <2>1, <2>2
<1>6. /\ Cleared(w) \in [Slots -> BOOLEAN] /\ ~Cleared(w)[w]
      /\ \A s \in Slots : s # w => Cleared(w)[s] = shared.ready[s]
  BY <1>2, <1>3 DEF Cleared
<1>7. /\ work \in Works /\ work.wi = w /\ work.bi = b.bi /\ work.res = b.res
      /\ work.fin = b.fin
  BY <1>2, <1>3 DEF Works
<1>8. sem' \in 0 .. NumBlocks
  BY <1>1, RdFields, SlotCount, SMTT(40)
<1> HIDE DEF w, ready, free, work
<1>9. /\ shared'.free = free /\ shared'.ready = Cleared(w)
      /\ ready => shared'.write = shared.write
      /\ ~ready => shared'.write = w
      /\ shared' \in [free : Seq(0 .. NumBlocks), ready : [Slots -> BOOLEAN],
                      write : Slots \cup {Writing}]
  BY <1>1, <1>2, <1>3, <1>4, <1>5, <1>6
<1>10. /\ th'[t] = work /\ th' \in [Threads -> Works] /\ Others(t)
       /\ ready => pc'[t] = "load"
       /\ ~ready => \/ pc'[t] = "exit" /\ (b.fin \/ b.res # Ok)
                    \/ pc'[t] = "wait"
       /\ pc' \in [Threads -> PCs]
  BY <1>1, <1>2, <1>4, <1>7 DEF Others, PCs
<1>11. Types'
  BY <1>1, <1>8, <1>9, <1>10 DEF Types
<1> QED
  BY <1>1, <1>4, <1>6, <1>7, <1>9, <1>10, <1>11 DEF w, ready, free

LEMMA LoadBlockFacts ==
    ASSUME Types, NEW t \in Threads, LoadBlock(t)
    PROVE  /\ Others(t) /\ pc[t] = "load" /\ pc'[t] = "write"
           /\ th'[t].bi = th[t].bi /\ th'[t].wi = th[t].wi
           /\ th'[t].buf = blocks[th[t].wi].buf
           /\ th'[t].fin = blocks[th[t].wi].fin /\ th'[t].del = blocks[th[t].wi].del
           /\ \/ th[t].res = Ok /\ th'[t].res = blocks[th[t].wi].res
              \/ th[t].res # Ok /\ th'[t].res = th[t].res
           /\ UNCHANGED <<input, readEvent, sem, rd, shared, blocks, bufs, writeRes,
                          error, ended, finished, out, faulted, result>>
           /\ Types'
<1> DEFINE w == th[t]
           b == blocks[w.wi]
           work == [w EXCEPT !.res = IF w.res = Ok THEN b.res ELSE w.res,
                             !.buf = b.buf, !.fin = b.fin, !.del = b.del]
<1>1. /\ pc[t] = "load" /\ pc' = [pc EXCEPT ![t] = "write"]
      /\ th' = [th EXCEPT ![t] = work]
      /\ UNCHANGED <<input, readEvent, sem, rd, shared, blocks, bufs, writeRes,
                     error, ended, finished, out, faulted, result>>
  BY DEF LoadBlock, Types
<1>2. /\ w \in Works /\ w.wi \in Slots /\ w.res \in Res
      /\ th \in [Threads -> Works] /\ pc \in [Threads -> PCs]
  BY WorkFields DEF Types
<1>3. b.res \in Res /\ b.buf \in Bufs /\ b.fin \in BOOLEAN /\ b.del \in BOOLEAN
  BY <1>2, BlockFields
<1>4. /\ work \in Works /\ work.bi = w.bi /\ work.wi = w.wi /\ work.buf = b.buf
      /\ work.fin = b.fin /\ work.del = b.del
      /\ work.res = IF w.res = Ok THEN b.res ELSE w.res
  BY <1>2, <1>3 DEF Works
<1> HIDE DEF work
<1>5. /\ th'[t] = work /\ th' \in [Threads -> Works] /\ Others(t)
      /\ pc'[t] = "write" /\ pc' \in [Threads -> PCs]
  BY <1>1, <1>2, <1>4 DEF Others, PCs
<1>6. Types'
  BY <1>1, <1>5 DEF Types
<1> QED
  BY <1>1, <1>4, <1>5, <1>6

LEMMA ExitFacts ==
    ASSUME Types, NEW t \in Threads, Exit(t), ended \in Nat
    PROVE  /\ Others(t) /\ pc[t] = "exit" /\ pc'[t] = "last"
           /\ ended' = ended + 1
           /\ th'[t].res = th[t].res /\ th'[t].fin = th[t].fin
           /\ UNCHANGED <<input, readEvent, sem, rd, shared, blocks, bufs, writeRes,
                          error, finished, out, faulted, result>>
           /\ Types'
<1> DEFINE work == [th[t] EXCEPT !.last = ended + 1]
<1>1. /\ pc[t] = "exit" /\ pc' = [pc EXCEPT ![t] = "last"]
      /\ th' = [th EXCEPT ![t] = work] /\ ended' = ended + 1
      /\ UNCHANGED <<input, readEvent, sem, rd, shared, blocks, bufs, writeRes,
                     error, finished, out, faulted, result>>
  BY DEF Exit, Types
<1>2. work \in Works /\ work.res = th[t].res /\ work.fin = th[t].fin
  BY WorkFields DEF Works
<1> HIDE DEF work
<1>3. /\ th'[t] = work /\ th' \in [Threads -> Works] /\ Others(t)
      /\ pc'[t] = "last" /\ pc' \in [Threads -> PCs]
  BY <1>1, <1>2 DEF Others, PCs, Types
<1>4. Types'
  BY <1>1, <1>3 DEF Types
<1> QED
  BY <1>1, <1>2, <1>3, <1>4

LEMMA LastOutFacts ==
    ASSUME Types, NEW t \in Threads, LastOut(t)
    PROVE  /\ Others(t) /\ pc[t] = "last" /\ pc'[t] = "done" /\ th' = th
           /\ UNCHANGED <<input, readEvent, sem, rd, shared, blocks, bufs, writeRes,
                          error, ended, th, out, faulted, result>>
           /\ Types'
<1>1. /\ pc[t] = "last" /\ pc' = [pc EXCEPT ![t] = "done"]
      /\ finished' \in BOOLEAN
      /\ UNCHANGED <<input, readEvent, sem, rd, shared, blocks, bufs, writeRes,
                     error, ended, th, out, faulted, result>>
  BY DEF LastOut, AllOut, Types
<1>2. Others(t) /\ pc'[t] = "done" /\ pc' \in [Threads -> PCs]
  BY <1>1 DEF Others, PCs, Types
<1>3. Types'
  BY <1>1, <1>2 DEF Types
<1> QED
  BY <1>1, <1>2, <1>3

(***************************************************************************)
(* A block that has no buffer yet finds one that is not the last: the      *)
(* others are in at most as many slots as there are other slots.           *)
(***************************************************************************)
LEMMA FreeHead ==
    ASSUME Types, NEW held \in [Slots -> Bufs], FreeList(held),
           NEW q \in Slots, held[q] = NoBuf
    PROVE  /\ shared.free # <<>> /\ Len(shared.free) >= 2
           /\ Head(shared.free) \in Slots /\ Head(shared.free) = shared.free[1]
           /\ Tail(shared.free) \in Seq(0 .. NumBlocks)
           /\ Len(Tail(shared.free)) = Len(shared.free) - 1
           /\ \A i \in 1 .. Len(shared.free) - 1 :
                Tail(shared.free)[i] = shared.free[i + 1]
<1> DEFINE free == shared.free
<1>1. free \in Seq(0 .. NumBlocks) /\ free # <<>> /\ Len(free) \in Nat /\ Len(free) >= 1
  BY RdFields DEF FreeList
<1>2. Len(free) # 1
  <2> SUFFICES ASSUME Len(free) = 1 PROVE FALSE
    OBVIOUS
  <2>1. \A i \in 1 .. Len(free) : free[i] = NumBlocks
    BY DEF FreeList
  <2>2. \A b \in Slots : \E s \in Slots \ {q} : held[s] = b
    <3> SUFFICES ASSUME NEW b \in Slots PROVE \E s \in Slots \ {q} : held[s] = b
      OBVIOUS
    <3>1. b # NumBlocks /\ b # NoBuf
      BY SlotCount
    <3>2. PICK s \in Slots : held[s] = b
      BY <2>1, <3>1 DEF FreeList
    <3> QED
      BY <3>1, <3>2
  <2> DEFINE f == [b \in Slots |-> CHOOSE s \in Slots \ {q} : held[s] = b]
  <2>3. f \in [Slots -> Slots \ {q}] /\ \A b \in Slots : held[f[b]] = b
    BY <2>2
  <2> HIDE DEF f
  <2>4. IsFiniteSet(Slots) /\ Cardinality(Slots) = NumBlocks
    BY SlotCount, FS_Interval
  <2>5. IsFiniteSet(Slots \ {q}) /\ Cardinality(Slots \ {q}) = NumBlocks - 1
    BY <2>4, FS_RemoveElement
  <2>6. Cardinality(Slots \ {q}) < Cardinality(Slots)
    BY <2>4, <2>5, SlotCount
  <2>7. PICK x, y \in Slots : x # y /\ f[x] = f[y]
    BY <2>3, <2>4, <2>5, <2>6, FS_PigeonHole
  <2> QED
    BY <2>3, <2>7
<1>3. Len(free) >= 2
  <2>1. \A n \in Nat : n >= 1 /\ n # 1 => n >= 2
    OBVIOUS
  <2> QED
    BY <2>1, <1>1, <1>2
<1>4. /\ Head(free) = free[1] /\ free[1] \in 0 .. NumBlocks
      /\ free[Len(free)] = NumBlocks /\ free[1] # free[Len(free)]
  <2>1. /\ 1 \in 1 .. Len(free) /\ Len(free) \in 1 .. Len(free) /\ 1 # Len(free)
    <3>1. \A n \in Nat : n >= 2 => 1 \in 1 .. n /\ n \in 1 .. n /\ 1 # n
      OBVIOUS
    <3> QED
      BY <3>1, <1>1, <1>3, Zenon
  <2>2. free[Len(free)] = NumBlocks /\ free[1] # free[Len(free)]
    BY <2>1 DEF FreeList
  <2>3. free[1] \in 0 .. NumBlocks
    BY <1>1, <2>1, ElementOfSeq
  <2>4. Head(free) = free[1]
    BY <1>1
  <2> QED
    BY <2>2, <2>3, <2>4
<1>5. Head(free) \in Slots
  BY <1>4, SlotCount
<1> QED
  BY <1>1, <1>3, <1>4, <1>5, HeadTailProperties

-----------------------------------------------------------------------------
(* The ring.                                                               *)

\* A step after which everybody is in the slot where they were.
KeepsSlots ==
    \A u \in Threads : /\ HasSlot(u)' <=> HasSlot(u)
                       /\ HasSlot(u) => Slot(u)' = Slot(u)
                       /\ Owner(u)' <=> Owner(u)

LEMMA RingSame ==
    ASSUME NEW w \in Slots, Ring(w), KeepsSlots,
           rd'.index = rd.index, sem' = sem,
           shared'.ready = shared.ready, shared'.write = shared.write
    PROVE  Ring(w)'
<1>1. InFlight' = InFlight
  BY DEF InFlight
<1>2. \A u \in Threads : HasSlot(u)' =>
         Dist(w, Slot(u)') < InFlight /\ ~shared.ready[Slot(u)']
  BY DEF Ring, KeepsSlots
<1>3. \A s \in Slots : Dist(w, s) < InFlight =>
         shared.ready[s] \/ \E u \in Threads : HasSlot(u)' /\ Slot(u)' = s
  BY DEF Ring, KeepsSlots
<1>4. \A u, v \in Threads :
         HasSlot(u)' /\ HasSlot(v)' /\ Slot(u)' = Slot(v)' => u = v
  BY DEF Ring, KeepsSlots
<1>5. \A u \in Threads : Owner(u)' => shared.write = Writing /\ Slot(u)' = w
  BY DEF Ring, KeepsSlots, Owner, HasSlot, Codes
<1>6. shared.write = Writing => \E u \in Threads : Owner(u)'
  BY DEF Ring, KeepsSlots
<1> QED
  BY <1>1, <1>2, <1>3, <1>4, <1>5, <1>6 DEF Ring

\* The steps of a thread that keeps its slot, or has none.
LEMMA KeepsSlotsFacts ==
    ASSUME NEW t \in Threads, Others(t),
           \/ pc[t] \notin {"start", "code", "post", "panicked", "write", "free", "load"}
              /\ pc'[t] \notin {"start", "code", "post", "panicked", "write", "free", "load"}
           \/ /\ pc[t] = "code" /\ pc'[t] = "post"
              /\ th'[t].bi = th[t].bi /\ th'[t].owns = th[t].owns
           \/ /\ pc[t] \in {"write", "load"} /\ pc'[t] \in {"free", "write"}
              /\ th'[t].wi = th[t].wi
    PROVE  KeepsSlots
<1> SUFFICES ASSUME NEW u \in Threads
             PROVE  /\ HasSlot(u)' <=> HasSlot(u)
                    /\ HasSlot(u) => Slot(u)' = Slot(u)
                    /\ Owner(u)' <=> Owner(u)
  BY DEF KeepsSlots
<1>1. CASE u # t
  BY <1>1 DEF Others, HasSlot, Slot, Owner, Codes, Writes
<1>2. CASE u = t
  BY <1>2 DEF HasSlot, Slot, Owner, Codes, Writes
<1> QED
  BY <1>1, <1>2

\* A block that begins takes one of the slots.
LEMMA OneMore ==
    ASSUME Types, sem > 0, sem' = sem - 1
    PROVE  /\ InFlight \in Nat /\ InFlight < NumBlocks /\ InFlight' = InFlight + 1
<1>1. sem \in 0 .. NumBlocks
  BY DEF Types
<1>2. NumBlocks \in Nat /\ NumBlocks' = NumBlocks
  BY SlotCount
<1> QED
  BY SMTT(20), <1>1, <1>2 DEF InFlight

LEMMA TakeSlotRing ==
    ASSUME Types, Ending, NEW w \in Slots, NEW K \in Nat, Ring(w), Reading(K),
           NEW t \in Threads, TakeSlot(t)
    PROVE  Ring(w)'
<1>0. pc[t] # "off" /\ t # rd.started
  <2>1. rd.started >= rd.started
    BY RdFields
  <2> QED
    BY <2>1 DEF TakeSlot, Ending
<1>1. /\ pc[t] = "slot" /\ sem > 0 /\ sem' = sem - 1
      /\ \A u \in Threads : u # t => th'[u] = th[u]
      /\ th'[t].bi = rd.index /\ th'[t].owns = th[t].owns
      /\ rd'.index = NextIndex(rd.index) /\ shared' = shared
      /\ pc'[t] \in {"start", "post", "panicked"}
      /\ \A u \in Threads : u # t =>
           pc'[u] = pc[u] \/ (u = rd.started /\ pc'[u] = "wait")
  BY ZenonT(40), <1>0, TakeSlotFacts
<1>2. \A u \in Threads : u = rd.started => pc[u] = "off"
  BY RdFields DEF Ending
<1>3. /\ InFlight \in Nat /\ InFlight < NumBlocks /\ InFlight' = InFlight + 1
  BY <1>1, OneMore
<1>4. ~th[t].owns
  BY <1>1 DEF Reading
<1>5. \A u \in Threads : u # t => /\ HasSlot(u)' <=> HasSlot(u)
                                  /\ HasSlot(u) => Slot(u)' = Slot(u)
                                  /\ Owner(u)' <=> Owner(u)
  BY <1>1, <1>2 DEF HasSlot, Slot, Owner, Codes, Writes
<1>6. HasSlot(t)' /\ Slot(t)' = rd.index /\ ~Owner(t)' /\ ~HasSlot(t) /\ ~Owner(t)
  BY <1>1, <1>4 DEF HasSlot, Slot, Owner, Codes, Writes
<1>7. /\ rd.index \in Slots /\ Dist(w, rd.index) = InFlight
      /\ rd'.index = At(w, InFlight')
  BY <1>1, <1>3, AtFacts DEF Ring
<1>8. \A s \in Slots : Dist(w, s) \in Nat /\ (Dist(w, s) = InFlight => s = rd.index)
  BY <1>7, DistFacts
<1>9. \A u \in Threads : Slot(u) \in Slots
  BY SlotType
<1>10. \A u \in Threads : HasSlot(u) => Slot(u) # rd.index
  BY <1>3, <1>7, <1>9 DEF Ring
<1>11. ~shared.ready[rd.index]
  BY <1>3, <1>7 DEF Ring
<1> HIDE DEF InFlight
<1> DEFINE I == InFlight
           J == InFlight'
<1>12. /\ \A u \in Threads : HasSlot(u)' =>
            Dist(w, Slot(u)') < J /\ ~shared.ready[Slot(u)']
       /\ \A u, v \in Threads :
            HasSlot(u)' /\ HasSlot(v)' /\ Slot(u)' = Slot(v)' => u = v
       /\ \A u \in Threads : Owner(u)' => shared.write = Writing /\ Slot(u)' = w
  <2>1. ASSUME NEW u \in Threads, HasSlot(u)'
        PROVE  Dist(w, Slot(u)') < J /\ ~shared.ready[Slot(u)']
    <3>1. CASE u = t
      BY <3>1, <1>3, <1>6, <1>7, <1>11
    <3>2. CASE u # t
      <4>1. HasSlot(u) /\ Slot(u)' = Slot(u)
        BY <2>1, <3>2, <1>5
      <4>2. Dist(w, Slot(u)) < I /\ ~shared.ready[Slot(u)]
        BY <4>1 DEF Ring
      <4> QED
        BY <4>1, <4>2, <1>3, <1>8, <1>9
    <3> QED
      BY <3>1, <3>2
  <2>2. ASSUME NEW u \in Threads, NEW v \in Threads,
               HasSlot(u)', HasSlot(v)', Slot(u)' = Slot(v)'
        PROVE  u = v
    BY <2>2, <1>5, <1>6, <1>10 DEF Ring
  <2>3. ASSUME NEW u \in Threads, Owner(u)'
        PROVE  shared.write = Writing /\ Slot(u)' = w
    <3>1. Owner(u) /\ u # t
      BY <2>3, <1>5, <1>6
    <3>2. HasSlot(u)
      BY <3>1 DEF Owner, HasSlot, Codes
    <3> QED
      BY <3>1, <3>2, <1>5 DEF Ring
  <2> QED
    BY <2>1, <2>2, <2>3
<1>13. \A s \in Slots : shared.ready[s] => Dist(w, s) < J
  BY <1>3, <1>8 DEF Ring
<1>14. ASSUME NEW s \in Slots, Dist(w, s) < J
       PROVE  shared.ready[s] \/ \E u \in Threads : HasSlot(u)' /\ Slot(u)' = s
  <2>1. CASE s = rd.index
    BY <2>1, <1>6
  <2>2. CASE s # rd.index
    <3>1. Dist(w, s) < I
      BY <2>2, <1>3, <1>8, <1>14
    <3>2. CASE shared.ready[s]
      BY <3>2
    <3>3. CASE ~shared.ready[s]
      <4>1. PICK u \in Threads : HasSlot(u) /\ Slot(u) = s
        BY <3>1, <3>3 DEF Ring
      <4>2. u # t
        BY <4>1, <1>6
      <4> QED
        BY <4>1, <4>2, <1>5
    <3> QED
      BY <3>2, <3>3
  <2> QED
    BY <2>1, <2>2
<1>15. shared.write = Writing => \E u \in Threads : Owner(u)'
  <2> SUFFICES ASSUME shared.write = Writing PROVE \E u \in Threads : Owner(u)'
    OBVIOUS
  <2>1. PICK u \in Threads : Owner(u)
    BY DEF Ring
  <2> QED
    BY <2>1, <1>5, <1>6
<1> QED
  BY <1>1, <1>7, <1>12, <1>13, <1>14, <1>15 DEF Ring

\* A slot's owner is the only one who has it, and has the base of the ring.
LEMMA OwnerFacts ==
    ASSUME Types, NEW w \in Slots, Ring(w), NEW t \in Threads, Owner(t)
    PROVE  /\ HasSlot(t) /\ Slot(t) = w /\ shared.write = Writing
           /\ \A u \in Threads : u # t => ~Owner(u) /\ ~(HasSlot(u) /\ Slot(u) = w)
           /\ InFlight >= 1
<1>1. \A u \in Threads : Owner(u) => HasSlot(u)
  BY DEF Owner, HasSlot, Codes
<1>2. Dist(w, w) < InFlight
  BY <1>1 DEF Ring
<1>3. InFlight >= 1
  BY <1>2, DistFacts, RdFields
<1> QED
  BY <1>1, <1>3 DEF Ring

LEMMA StartCodeRing ==
    ASSUME Types, NEW w \in Slots, Ring(w), NEW t \in Threads, Others(t),
           pc[t] = "start", pc'[t] = "code", th'[t].bi = th[t].bi,
           rd' = rd, sem' = sem, shared'.ready = shared.ready,
           \/ /\ shared.write = th[t].bi /\ th'[t].owns /\ shared'.write = Writing
           \/ ~th'[t].owns /\ shared'.write = shared.write
    PROVE  Ring(w)'
<1>1. \A u \in Threads : /\ HasSlot(u)' <=> HasSlot(u)
                         /\ HasSlot(u) => Slot(u)' = Slot(u)
                         /\ u # t => (Owner(u)' <=> Owner(u))
  BY DEF Others, HasSlot, Slot, Owner, Codes, Writes
<1>2. /\ HasSlot(t) /\ Slot(t) = th[t].bi /\ ~Owner(t)
      /\ Owner(t)' <=> th'[t].owns
  BY DEF HasSlot, Slot, Owner, Codes, Writes
<1>3. CASE shared.write = th[t].bi /\ th'[t].owns /\ shared'.write = Writing
  <2>1. th[t].bi = w /\ \A u \in Threads : ~Owner(u)
    BY <1>3, WorkFields, SlotCount DEF Ring
  <2> QED
    BY <1>1, <1>2, <1>3, <2>1 DEF Ring, InFlight
<1>4. CASE ~th'[t].owns /\ shared'.write = shared.write
  <2>1. KeepsSlots
    BY <1>1, <1>2, <1>4 DEF KeepsSlots
  <2> QED
    BY <2>1, <1>4, RingSame
<1> QED
  BY <1>3, <1>4

\* Who takes the write turn has the base of the ring; who does not, has not.
LEMMA TurnFacts ==
    ASSUME Types, NEW w \in Slots, Ring(w), NEW t \in Threads, pc[t] = "post"
    PROVE  /\ HasSlot(t) /\ Slot(t) = th[t].bi
           /\ Owner(t) <=> th[t].owns
           /\ th[t].owns => th[t].bi = w /\ shared.write = Writing
           /\ shared.write = th[t].bi => th[t].bi = w /\ \A u \in Threads : ~Owner(u)
           /\ ~th[t].owns /\ shared.write # th[t].bi => th[t].bi # w
<1>1. HasSlot(t) /\ Slot(t) = th[t].bi /\ (Owner(t) <=> th[t].owns)
  BY DEF HasSlot, Slot, Owner, Codes, Writes
<1>2. th[t].owns => th[t].bi = w /\ shared.write = Writing
  BY <1>1 DEF Ring
<1>3. shared.write = th[t].bi => th[t].bi = w /\ \A u \in Threads : ~Owner(u)
  BY WorkFields, SlotCount DEF Ring
<1>4. ASSUME ~th[t].owns, shared.write # th[t].bi
      PROVE  th[t].bi # w
  <2>1. CASE shared.write = w
    BY <2>1, <1>4
  <2>2. CASE shared.write = Writing
    <3>1. PICK o \in Threads : Owner(o)
      BY <2>2 DEF Ring
    <3> QED
      BY <3>1, <1>1, <1>4, OwnerFacts
  <2> QED
    BY <2>1, <2>2 DEF Ring
<1> QED
  BY <1>1, <1>2, <1>3, <1>4

LEMMA PostRing ==
    ASSUME Types, NEW w \in Slots, Ring(w), NEW t \in Threads, Post(t)
    PROVE  Ring(w)'
<1> DEFINE q == th[t].bi
<1>1. /\ Others(t) /\ pc[t] = "post" /\ th'[t].wi = q /\ th'[t].bi = q
      /\ rd' = rd /\ sem' = sem
      /\ \/ /\ th[t].owns \/ shared.write = q
            /\ shared'.write = Writing /\ shared'.ready = shared.ready
            /\ pc'[t] = "write"
         \/ /\ ~th[t].owns /\ shared.write # q
            /\ shared'.write = shared.write
            /\ \A s \in Slots : s # q => shared'.ready[s] = shared.ready[s]
            /\ shared'.ready[q]
            /\ pc'[t] \in {"exit", "wait"}
  BY PostFacts
<1>2. /\ HasSlot(t) /\ Slot(t) = q /\ q \in Slots
      /\ Owner(t) <=> th[t].owns
      /\ th[t].owns => q = w /\ shared.write = Writing
      /\ shared.write = q => q = w /\ \A u \in Threads : ~Owner(u)
      /\ ~th[t].owns /\ shared.write # q => q # w
  BY <1>1, TurnFacts, WorkFields
<1>3. \A u \in Threads : u # t => /\ HasSlot(u)' <=> HasSlot(u)
                                  /\ HasSlot(u) => Slot(u)' = Slot(u)
                                  /\ Owner(u)' <=> Owner(u)
  BY <1>1 DEF Others, HasSlot, Slot, Owner, Codes, Writes
<1>4. InFlight' = InFlight
  BY <1>1 DEF InFlight
<1>5. CASE /\ th[t].owns \/ shared.write = q
           /\ shared'.write = Writing /\ shared'.ready = shared.ready
           /\ pc'[t] = "write"
  <2>1. HasSlot(t)' /\ Slot(t)' = q /\ Owner(t)'
    BY <1>1, <1>5 DEF HasSlot, Slot, Owner, Writes
  <2>2. q = w /\ \A u \in Threads : u # t => ~Owner(u)
    BY <1>2, <1>5, OwnerFacts
  <2>3. \A u \in Threads : /\ HasSlot(u)' <=> HasSlot(u)
                           /\ HasSlot(u) => Slot(u)' = Slot(u)
                           /\ Owner(u)' <=> u = t
    BY <2>1, <2>2, <1>2, <1>3
  <2> QED
    BY <2>1, <2>2, <2>3, <1>1, <1>2, <1>4, <1>5 DEF Ring
<1>6. CASE /\ ~th[t].owns /\ shared.write # q
           /\ shared'.write = shared.write
           /\ \A s \in Slots : s # q => shared'.ready[s] = shared.ready[s]
           /\ shared'.ready[q]
           /\ pc'[t] \in {"exit", "wait"}
  <2>1. ~HasSlot(t)' /\ ~Owner(t)' /\ ~Owner(t) /\ q # w
    BY <1>2, <1>6 DEF HasSlot, Owner, Codes, Writes
  <2>2. Dist(w, q) < InFlight
    BY <1>2 DEF Ring
  <2>3. \A u \in Threads : HasSlot(u)' =>
          Dist(w, Slot(u)') < InFlight /\ ~shared'.ready[Slot(u)']
    <3> SUFFICES ASSUME NEW u \in Threads, HasSlot(u)'
                 PROVE  Dist(w, Slot(u)') < InFlight /\ ~shared'.ready[Slot(u)']
      OBVIOUS
    <3>1. u # t /\ HasSlot(u) /\ Slot(u)' = Slot(u) /\ Slot(u) \in Slots
      BY <2>1, <1>3, SlotType
    <3>2. Dist(w, Slot(u)) < InFlight /\ ~shared.ready[Slot(u)] /\ Slot(u) # q
      BY <3>1, <1>2 DEF Ring
    <3> QED
      BY <3>1, <3>2, <1>6
  <2>4. \A s \in Slots : shared'.ready[s] => Dist(w, s) < InFlight
    BY <2>2, <1>6 DEF Ring
  <2>5. \A s \in Slots : Dist(w, s) < InFlight =>
          shared'.ready[s] \/ \E u \in Threads : HasSlot(u)' /\ Slot(u)' = s
    <3> SUFFICES ASSUME NEW s \in Slots, Dist(w, s) < InFlight, s # q, ~shared.ready[s]
                 PROVE  \E u \in Threads : HasSlot(u)' /\ Slot(u)' = s
      BY <1>6
    <3>1. PICK u \in Threads : HasSlot(u) /\ Slot(u) = s
      BY DEF Ring
    <3> QED
      BY <3>1, <1>2, <1>3
  <2>6. \A u, v \in Threads :
          HasSlot(u)' /\ HasSlot(v)' /\ Slot(u)' = Slot(v)' => u = v
    BY <2>1, <1>3 DEF Ring
  <2>7. \A u \in Threads : Owner(u)' => shared.write = Writing /\ Slot(u)' = w
    <3> SUFFICES ASSUME NEW u \in Threads, Owner(u)'
                 PROVE  shared.write = Writing /\ Slot(u)' = w
      OBVIOUS
    <3>1. u # t /\ Owner(u) /\ HasSlot(u)
      BY <2>1, <1>3 DEF Owner, HasSlot, Codes
    <3> QED
      BY <3>1, <1>3 DEF Ring
  <2>8. shared.write = Writing => \E u \in Threads : Owner(u)'
    BY <2>1, <1>3 DEF Ring
  <2>9. ~shared'.ready[w]
    BY <2>1, <1>6 DEF Ring
  <2> QED
    BY <2>3, <2>4, <2>5, <2>6, <2>7, <2>8, <2>9, <1>1, <1>4, <1>6 DEF Ring
<1> QED
  BY <1>1, <1>5, <1>6

LEMMA FreeSlotRing ==
    ASSUME Types, NEW w \in Slots, Ring(w), NEW t \in Threads, FreeSlot(t)
    PROVE  /\ sem < NumBlocks /\ th[t].wi = w
           /\ InFlight >= 1 /\ InFlight' = InFlight - 1
           /\ Ring(NextSlot(w))'
<1> DEFINE x == NextSlot(w)
<1>1. pc[t] = "free" /\ Owner(t)
  BY DEF FreeSlot, Owner, Writes
<1>2. /\ HasSlot(t) /\ Slot(t) = w /\ shared.write = Writing /\ th[t].wi = w
      /\ \A u \in Threads : u # t => ~Owner(u) /\ ~(HasSlot(u) /\ Slot(u) = w)
      /\ InFlight >= 1
  BY <1>1, OwnerFacts DEF Slot, Writes
<1>3. sem < NumBlocks
  BY <1>2, SlotCount, RdFields DEF InFlight
<1>4. /\ Others(t) /\ sem' = sem + 1 /\ th'[t].wi = x /\ rd' = rd
      /\ \A s \in Slots : s # x => shared'.ready[s] = shared.ready[s]
      /\ ~shared'.ready[x]
      /\ \/ /\ shared.ready[x] /\ shared'.write = shared.write
            /\ pc'[t] = "load"
         \/ /\ ~shared.ready[x] /\ shared'.write = x
            /\ pc'[t] \in {"exit", "wait"}
  <2>1. NextSlot(th[t].wi) = x
    BY <1>2
  <2> HIDE DEF x
  <2> QED
    BY <2>1, <1>3, FreeSlotFacts
<1>5. InFlight' = InFlight - 1 /\ InFlight \in Nat /\ InFlight <= NumBlocks
  BY <1>4, RdFields, SlotCount DEF InFlight
<1>6. /\ x \in Slots /\ x # w
      /\ \A s \in Slots : s # w => Dist(x, s) = Dist(w, s) - 1
      /\ Dist(x, w) = NumBlocks - 1
      /\ \A n \in 1 .. NumBlocks : At(x, n - 1) = At(w, n)
  BY NextFacts
<1> HIDE DEF x
<1>7. \A s \in Slots : Dist(w, s) \in Nat
  BY DistFacts
<1>8. \A u \in Threads : u # t => /\ HasSlot(u)' <=> HasSlot(u)
                                  /\ HasSlot(u) => Slot(u)' = Slot(u)
                                  /\ ~Owner(u)'
  BY <1>2, <1>4 DEF Others, HasSlot, Slot, Owner, Codes, Writes
<1>9. HasSlot(t)' <=> shared.ready[x]
  BY <1>4 DEF HasSlot, Codes, Writes
<1>10. shared.ready[x] => Owner(t)' /\ Slot(t)' = x
  BY <1>4 DEF Slot, Owner, Writes
<1>11. rd'.index = At(x, InFlight')
  <2>1. InFlight \in 1 .. NumBlocks
    BY <1>2, <1>5, SlotCount
  <2> QED
    BY <2>1, <1>4, <1>5, <1>6 DEF Ring
<1>12. \A u \in Threads : HasSlot(u) /\ u # t =>
          /\ Slot(u) \in Slots /\ Slot(u) # w /\ ~shared.ready[Slot(u)]
          /\ Dist(x, Slot(u)) < InFlight'
  <2> SUFFICES ASSUME NEW u \in Threads, HasSlot(u), u # t
               PROVE  /\ Slot(u) \in Slots /\ Slot(u) # w /\ ~shared.ready[Slot(u)]
                      /\ Dist(x, Slot(u)) < InFlight'
    OBVIOUS
  <2>1. /\ Slot(u) \in Slots /\ Slot(u) # w /\ ~shared.ready[Slot(u)]
        /\ Dist(w, Slot(u)) < InFlight
    BY <1>2, SlotType DEF Ring
  <2> QED
    BY <2>1, <1>5, <1>6, <1>7
<1>13. \A s \in Slots : shared.ready[s] => s # w /\ Dist(x, s) < InFlight'
  <2> SUFFICES ASSUME NEW s \in Slots, shared.ready[s]
               PROVE  s # w /\ Dist(x, s) < InFlight'
    OBVIOUS
  <2>1. s # w /\ Dist(w, s) < InFlight
    BY DEF Ring
  <2> QED
    BY <2>1, <1>5, <1>6, <1>7
<1>14. \A u \in Threads : HasSlot(u)' =>
         Dist(x, Slot(u)') < InFlight' /\ ~shared'.ready[Slot(u)']
  <2> SUFFICES ASSUME NEW u \in Threads, HasSlot(u)'
               PROVE  Dist(x, Slot(u)') < InFlight' /\ ~shared'.ready[Slot(u)']
    OBVIOUS
  <2>1. CASE u = t
    BY <2>1, <1>4, <1>6, <1>9, <1>10, <1>13
  <2>2. CASE u # t
    BY <2>2, <1>4, <1>8, <1>12
  <2> QED
    BY <2>1, <2>2
<1>15. \A s \in Slots : shared'.ready[s] => Dist(x, s) < InFlight'
  BY <1>4, <1>13
<1>16. \A s \in Slots : Dist(x, s) < InFlight' =>
         shared'.ready[s] \/ \E u \in Threads : HasSlot(u)' /\ Slot(u)' = s
  <2> SUFFICES ASSUME NEW s \in Slots, Dist(x, s) < InFlight', ~shared'.ready[s]
               PROVE  \E u \in Threads : HasSlot(u)' /\ Slot(u)' = s
    OBVIOUS
  <2>1. s # w
    BY <1>5, <1>6, SlotCount
  <2>2. Dist(w, s) < InFlight
    BY <2>1, <1>5, <1>6, <1>7
  <2>3. CASE shared.ready[s]
    <3>1. s = x
      BY <2>3, <1>4
    <3> QED
      BY <3>1, <2>3, <1>9, <1>10
  <2>4. CASE ~shared.ready[s]
    <3>1. PICK u \in Threads : HasSlot(u) /\ Slot(u) = s
      BY <2>2, <2>4 DEF Ring
    <3>2. u # t
      BY <3>1, <2>1, <1>2
    <3> QED
      BY <3>1, <3>2, <1>8
  <2> QED
    BY <2>3, <2>4
<1>17. \A u, v \in Threads :
         HasSlot(u)' /\ HasSlot(v)' /\ Slot(u)' = Slot(v)' => u = v
  <2> SUFFICES ASSUME NEW u \in Threads, NEW v \in Threads,
                      HasSlot(u)', HasSlot(v)', Slot(u)' = Slot(v)'
               PROVE  u = v
    OBVIOUS
  <2>1. CASE u # t /\ v # t
    BY <2>1, <1>8 DEF Ring
  <2>2. CASE u = t /\ v # t
    BY <2>2, <1>8, <1>9, <1>10, <1>12
  <2>3. CASE v = t /\ u # t
    BY <2>3, <1>8, <1>9, <1>10, <1>12
  <2> QED
    BY <2>1, <2>2, <2>3
<1>18. /\ shared'.write \in {x, Writing} /\ ~shared'.ready[x]
       /\ \A u \in Threads : Owner(u)' => shared'.write = Writing /\ Slot(u)' = x
       /\ shared'.write = Writing => \E u \in Threads : Owner(u)'
  <2>1. Owner(t)' => HasSlot(t)'
    BY DEF Owner, HasSlot, Codes
  <2>2. x # Writing
    BY <1>6, SlotCount
  <2> QED
    BY <2>1, <2>2, <1>2, <1>4, <1>8, <1>9, <1>10
<1>19. Ring(x)'
  BY <1>11, <1>14, <1>15, <1>16, <1>17, <1>18 DEF Ring
<1> QED
  BY <1>2, <1>3, <1>5, <1>19 DEF x

-----------------------------------------------------------------------------
(* The buffers.                                                            *)

\* The places of a thread that has no slot.
Idle == PCs \ {"start", "code", "post", "panicked", "write", "free", "load"}

\* A step in which nobody's buffer changes hands.
LEMMA HoldsSame ==
    ASSUME Types, NEW w \in Slots, NEW held \in [Slots -> Bufs], Holds(w, held),
           NEW t \in Threads, Others(t), sem' = sem,
           shared'.ready = shared.ready, blocks' = blocks,
           \/ pc'[t] \in Idle
           \/ /\ pc[t] = "code" /\ pc'[t] = "post"
              /\ th'[t].bi = th[t].bi /\ th'[t].buf = th[t].buf
           \/ /\ pc[t] = "write" /\ pc'[t] = "free"
              /\ th'[t].wi = th[t].wi /\ th'[t].buf = th[t].buf
           \/ /\ pc[t] = "load" /\ pc'[t] = "write"
              /\ th'[t].wi = th[t].wi /\ th'[t].buf = blocks[th[t].wi].buf
    PROVE  Holds(w, held)'
<1>1. InFlight' = InFlight
  BY DEF InFlight
<1>2. ASSUME NEW u \in Threads
      PROVE  /\ pc'[u] \in {"start", "panicked"} => held[th'[u].bi] = NoBuf
             /\ pc'[u] \in {"code", "post"} => held[th'[u].bi] = th'[u].buf
             /\ pc'[u] \in {"write", "free"} => held[th'[u].wi] = th'[u].buf
             /\ pc'[u] = "load" => held[th'[u].wi] = blocks[th'[u].wi].buf
  <2>1. CASE u # t
    BY <2>1 DEF Others, Holds
  <2>2. CASE u = t
    BY <2>2 DEF Holds, Idle
  <2> QED
    BY <2>1, <2>2
<1> QED
  BY <1>1, <1>2 DEF Holds

LEMMA TakeSlotHolds ==
    ASSUME Types, Ending, NEW w \in Slots, NEW K \in Nat, Ring(w), Reading(K),
           NEW held \in [Slots -> Bufs], Holds(w, held),
           NEW t \in Threads, TakeSlot(t)
    PROVE  Holds(w, held)'
<1>0. pc[t] # "off" /\ t # rd.started
  <2>1. rd.started >= rd.started
    BY RdFields
  <2> QED
    BY <2>1 DEF TakeSlot, Ending
<1>1. /\ pc[t] = "slot" /\ sem > 0 /\ sem' = sem - 1
      /\ \A u \in Threads : u # t => th'[u] = th[u]
      /\ th'[t].bi = rd.index /\ th'[t].buf = th[t].buf
      /\ shared' = shared /\ blocks' = blocks
      /\ pc'[t] \in {"start", "post", "panicked"}
      /\ \A u \in Threads : u # t =>
           pc'[u] = pc[u] \/ (u = rd.started /\ pc'[u] = "wait")
  BY ZenonT(40), <1>0, TakeSlotFacts
<1>2. th[t].buf = NoBuf
  BY <1>1 DEF Reading
<1>3. /\ InFlight \in Nat /\ InFlight < NumBlocks /\ InFlight' = InFlight + 1
  BY <1>1, OneMore
<1>4. rd.index \in Slots /\ Dist(w, rd.index) = InFlight
  BY <1>3, AtFacts DEF Ring
<1>5. held[rd.index] = NoBuf
  BY <1>3, <1>4 DEF Holds
<1>6. \A s \in Slots : held[s] # NoBuf => Dist(w, s) < InFlight'
  <2> SUFFICES ASSUME NEW s \in Slots, held[s] # NoBuf PROVE Dist(w, s) < InFlight'
    OBVIOUS
  <2>1. Dist(w, s) < InFlight /\ Dist(w, s) \in Nat
    BY DistFacts DEF Holds
  <2> QED
    BY <2>1, <1>3
<1>7. ASSUME NEW u \in Threads
      PROVE  /\ pc'[u] \in {"start", "panicked"} => held[th'[u].bi] = NoBuf
             /\ pc'[u] \in {"code", "post"} => held[th'[u].bi] = th'[u].buf
             /\ pc'[u] \in {"write", "free"} => held[th'[u].wi] = th'[u].buf
             /\ pc'[u] = "load" => held[th'[u].wi] = blocks[th'[u].wi].buf
  <2>1. CASE u # t
    BY <2>1, <1>1 DEF Holds
  <2>2. CASE u = t
    BY <2>2, <1>1, <1>2, <1>5
  <2> QED
    BY <2>1, <2>2
<1> QED
  BY <1>1, <1>6, <1>7 DEF Holds

LEMMA StartCodeHolds ==
    ASSUME Types, NEW w \in Slots, Ring(w),
           NEW held \in [Slots -> Bufs], Holds(w, held), FreeList(held),
           NEW t \in Threads, StartCode(t),
           NEW h2 \in [Slots -> Bufs],
           h2 = [held EXCEPT ![th[t].bi] = Head(shared.free)]
    PROVE  Holds(w, h2)' /\ FreeList(h2)'
<1> DEFINE q == th[t].bi
           h == Head(shared.free)
           free == shared.free
<1>1. q \in Slots /\ held[q] = NoBuf /\ pc[t] = "start" /\ HasSlot(t) /\ Slot(t) = q
  BY WorkFields DEF StartCode, Holds, HasSlot, Slot, Codes, Writes
<1>2. /\ free # <<>> /\ Len(free) >= 2 /\ h \in Slots /\ h = free[1]
      /\ Tail(free) \in Seq(0 .. NumBlocks) /\ Len(Tail(free)) = Len(free) - 1
      /\ \A i \in 1 .. Len(free) - 1 : Tail(free)[i] = free[i + 1]
  BY <1>1, FreeHead
<1>3. /\ Others(t) /\ pc'[t] = "code" /\ shared'.ready = shared.ready
      /\ shared'.free = Tail(free) /\ th'[t].buf = h /\ th'[t].bi = q
      /\ sem' = sem /\ blocks' = blocks
  BY <1>2, StartCodeFacts
<1>4. h2[q] = h /\ h # NoBuf /\ \A s \in Slots : s # q => h2[s] = held[s]
  BY <1>1, <1>2, SlotCount
<1>5. \A s \in Slots : held[s] # h
  <2>1. 1 \in 1 .. Len(free)
    <3>1. \A n \in Nat : n >= 2 => 1 \in 1 .. n
      OBVIOUS
    <3>2. Len(free) \in Nat
      BY RdFields
    <3> QED
      BY <3>1, <3>2, <1>2
  <2> QED
    BY <1>2, <2>1 DEF FreeList
<1>6. InFlight' = InFlight /\ Dist(w, q) < InFlight
  BY <1>1, <1>3 DEF InFlight, Ring
<1>7. Holds(w, h2)'
  <2>1. \A s \in Slots : h2[s] # NoBuf => Dist(w, s) < InFlight
    BY <1>4, <1>6 DEF Holds
  <2>2. ASSUME NEW u \in Threads
        PROVE  /\ pc'[u] \in {"start", "panicked"} => h2[th'[u].bi] = NoBuf
               /\ pc'[u] \in {"code", "post"} => h2[th'[u].bi] = th'[u].buf
               /\ pc'[u] \in {"write", "free"} => h2[th'[u].wi] = th'[u].buf
               /\ pc'[u] = "load" => h2[th'[u].wi] = blocks[th'[u].wi].buf
    <3>1. CASE u = t
      BY <3>1, <1>3, <1>4
    <3>2. CASE u # t
      <4>1. th'[u] = th[u] /\ pc'[u] = pc[u] /\ th[u].bi \in Slots /\ th[u].wi \in Slots
        BY <3>2, <1>3, WorkFields DEF Others
      <4>2. HasSlot(u) => Slot(u) # q
        BY <3>2, <1>1 DEF Ring
      <4>3. /\ pc[u] \in {"start", "panicked", "code", "post"} => th[u].bi # q
            /\ pc[u] \in {"write", "free", "load"} => th[u].wi # q
        BY <4>2 DEF HasSlot, Slot, Codes, Writes
      <4> QED
        BY <4>1, <4>3, <1>4 DEF Holds
    <3> QED
      BY <3>1, <3>2
  <2>3. \A s \in Slots : shared.ready[s] => h2[s] = blocks[s].buf
    BY <1>1, <1>4 DEF Holds, Ring
  <2>4. \A r, s \in Slots : h2[r] = h2[s] /\ h2[r] # NoBuf => r = s
    BY <1>1, <1>4, <1>5 DEF Holds
  <2> QED
    BY <1>3, <1>6, <2>1, <2>2, <2>3, <2>4 DEF Holds
<1>8. FreeList(h2)'
  <2>1. PICK n \in Nat : n = Len(free) - 1 /\ n >= 1 /\ n + 1 = Len(free) /\ n # 0
    <3>1. Len(free) \in Nat
      BY RdFields
    <3>2. \A m \in Nat : m >= 2 => /\ m - 1 \in Nat /\ m - 1 >= 1 /\ (m - 1) + 1 = m
                                   /\ m - 1 # 0
      OBVIOUS
    <3> QED
      BY <3>1, <3>2, <1>2
  <2>2. /\ Len(shared'.free) = n
        /\ \A i \in 1 .. n : shared'.free[i] = free[i + 1] /\ i + 1 \in 1 .. n + 1
                             /\ i + 1 # 1
    BY <1>2, <1>3, <2>1
  <2>3. shared'.free # <<>> /\ shared'.free[n] = NumBlocks
    <3>1. free[n + 1] = NumBlocks
      BY <2>1 DEF FreeList
    <3>2. shared'.free[n] = free[n + 1]
      BY <2>1, <2>2
    <3>4. Len(<<>>) = 0
      OBVIOUS
    <3> QED
      BY <3>1, <3>2, <3>4, <2>1, <2>2
  <2>4. \A i \in 1 .. n + 1 : \A s \in Slots : free[i] # held[s]
    BY <2>1 DEF FreeList
  <2>5. \A i, j \in 1 .. n + 1 : free[i] = free[j] => i = j
    BY <2>1 DEF FreeList
  <2>6. 1 \in 1 .. n + 1
    BY <2>1
  <2>7. \A i \in 1 .. n : \A s \in Slots : shared'.free[i] # h2[s]
    <3> SUFFICES ASSUME NEW i \in 1 .. n, NEW s \in Slots PROVE shared'.free[i] # h2[s]
      OBVIOUS
    <3>1. shared'.free[i] = free[i + 1] /\ i + 1 \in 1 .. n + 1 /\ i + 1 # 1
      BY <2>2
    <3>2. CASE s = q
      BY <3>1, <3>2, <1>2, <1>4, <2>5, <2>6
    <3>3. CASE s # q
      BY <3>1, <3>3, <1>4, <2>4
    <3> QED
      BY <3>2, <3>3
  <2>8. \A i, j \in 1 .. n : shared'.free[i] = shared'.free[j] => i = j
    BY <2>2, <2>5
  <2>9. \A b \in Slots : \/ \E i \in 1 .. n : shared'.free[i] = b
                         \/ \E s \in Slots : h2[s] = b
    <3> SUFFICES ASSUME NEW b \in Slots, b # h
                 PROVE  \/ \E i \in 1 .. n : shared'.free[i] = b
                        \/ \E s \in Slots : h2[s] = b
      BY <1>1, <1>4
    <3>1. CASE \E s \in Slots : held[s] = b
      BY <3>1, <1>1, <1>4, SlotCount
    <3>2. CASE \E i \in 1 .. n + 1 : free[i] = b
      <4>1. PICK i \in 1 .. n + 1 : free[i] = b
        BY <3>2
      <4>2. i - 1 \in 1 .. n /\ (i - 1) + 1 = i
        BY <4>1, <1>2, <2>1
      <4> QED
        BY <4>1, <4>2, <2>2
    <3> QED
      BY <3>1, <3>2, <2>1 DEF FreeList
  <2> QED
    BY <2>2, <2>3, <2>7, <2>8, <2>9 DEF FreeList
<1> QED
  BY <1>7, <1>8

LEMMA PostHolds ==
    ASSUME Types, NEW w \in Slots, Ring(w),
           NEW held \in [Slots -> Bufs], Holds(w, held),
           NEW t \in Threads, Post(t)
    PROVE  Holds(w, held)'
<1> DEFINE q == th[t].bi
<1>1. /\ Others(t) /\ pc[t] = "post" /\ th'[t].wi = q /\ th'[t].buf = th[t].buf
      /\ sem' = sem /\ q \in Slots
      /\ \A s \in Slots : s # q => blocks'[s] = blocks[s]
      /\ blocks'[q].buf = th[t].buf
      /\ \A s \in Slots : s # q => shared'.ready[s] = shared.ready[s]
      /\ pc'[t] = "write" \/ pc'[t] \in {"exit", "wait"}
  BY PostFacts, WorkFields
<1>2. HasSlot(t) /\ Slot(t) = q /\ held[q] = th[t].buf
  BY <1>1 DEF Holds, HasSlot, Slot, Codes, Writes
<1>3. InFlight' = InFlight
  BY <1>1 DEF InFlight
<1>4. ASSUME NEW u \in Threads
      PROVE  /\ pc'[u] \in {"start", "panicked"} => held[th'[u].bi] = NoBuf
             /\ pc'[u] \in {"code", "post"} => held[th'[u].bi] = th'[u].buf
             /\ pc'[u] \in {"write", "free"} => held[th'[u].wi] = th'[u].buf
             /\ pc'[u] = "load" => held[th'[u].wi] = blocks'[th'[u].wi].buf
  <2>1. CASE u = t
    BY <2>1, <1>1, <1>2
  <2>2. CASE u # t
    <3>1. th'[u] = th[u] /\ pc'[u] = pc[u] /\ th[u].wi \in Slots
      BY <2>2, <1>1, WorkFields DEF Others
    <3>2. pc[u] = "load" => th[u].wi # q
      BY <2>2, <1>2 DEF Ring, HasSlot, Slot, Writes
    <3> QED
      BY <3>1, <3>2, <1>1 DEF Holds
  <2> QED
    BY <2>1, <2>2
<1>5. \A s \in Slots : shared'.ready[s] => held[s] = blocks'[s].buf
  BY <1>1, <1>2 DEF Holds
<1> QED
  BY <1>3, <1>4, <1>5 DEF Holds

LEMMA FreeSlotHolds ==
    ASSUME Types, NEW w \in Slots, Ring(w),
           NEW held \in [Slots -> Bufs], Holds(w, held), FreeList(held),
           NEW t \in Threads, FreeSlot(t),
           NEW h2 \in [Slots -> Bufs], h2 = [held EXCEPT ![w] = NoBuf]
    PROVE  Holds(NextSlot(w), h2)' /\ FreeList(h2)'
<1> DEFINE x == NextSlot(w)
           b == th[t].buf
           free == shared.free
<1>1. /\ sem < NumBlocks /\ th[t].wi = w /\ InFlight >= 1 /\ InFlight' = InFlight - 1
      /\ pc[t] = "free" /\ Owner(t) /\ HasSlot(t) /\ Slot(t) = w
  BY FreeSlotRing DEF FreeSlot, Owner, HasSlot, Slot, Writes
<1>2. /\ Others(t) /\ th'[t].wi = x /\ blocks' = blocks
      /\ shared'.free = IF b = NoBuf THEN free ELSE <<b>> \o free
      /\ \A s \in Slots : s # x => shared'.ready[s] = shared.ready[s]
      /\ ~shared'.ready[x]
      /\ \/ shared.ready[x] /\ pc'[t] = "load"
         \/ pc'[t] \in {"exit", "wait"}
  <2>1. NextSlot(th[t].wi) = x
    BY <1>1
  <2> HIDE DEF x
  <2> QED
    BY <2>1, <1>1, FreeSlotFacts
<1>3. /\ x \in Slots /\ x # w
      /\ \A s \in Slots : s # w => Dist(x, s) = Dist(w, s) - 1
  BY NextFacts
<1> HIDE DEF x
<1>4. h2[w] = NoBuf /\ held[w] = b /\ \A s \in Slots : s # w => h2[s] = held[s]
  BY <1>1 DEF Holds
<1>5. \A s \in Slots : Dist(w, s) \in Nat
  BY DistFacts
<1>6. \A s \in Slots : h2[s] # NoBuf => Dist(x, s) < InFlight'
  <2> SUFFICES ASSUME NEW s \in Slots, h2[s] # NoBuf PROVE Dist(x, s) < InFlight'
    OBVIOUS
  <2>1. s # w /\ Dist(w, s) < InFlight
    BY <1>4 DEF Holds
  <2> QED
    BY <2>1, <1>1, <1>3, <1>5, RdFields
<1>7. ASSUME NEW u \in Threads
      PROVE  /\ pc'[u] \in {"start", "panicked"} => h2[th'[u].bi] = NoBuf
             /\ pc'[u] \in {"code", "post"} => h2[th'[u].bi] = th'[u].buf
             /\ pc'[u] \in {"write", "free"} => h2[th'[u].wi] = th'[u].buf
             /\ pc'[u] = "load" => h2[th'[u].wi] = blocks'[th'[u].wi].buf
  <2>1. CASE u = t
    BY <2>1, <1>2, <1>3, <1>4 DEF Holds
  <2>2. CASE u # t
    <3>1. th'[u] = th[u] /\ pc'[u] = pc[u] /\ th[u].bi \in Slots /\ th[u].wi \in Slots
      BY <2>2, <1>2, WorkFields DEF Others
    <3>2. HasSlot(u) => Slot(u) # w
      BY <2>2, <1>1 DEF Ring
    <3>3. /\ pc[u] \in {"start", "panicked", "code", "post"} => th[u].bi # w
          /\ pc[u] \in {"write", "free", "load"} => th[u].wi # w
      BY <3>2 DEF HasSlot, Slot, Codes, Writes
    <3> QED
      BY <3>1, <3>3, <1>2, <1>4 DEF Holds
  <2> QED
    BY <2>1, <2>2
<1>8. \A s \in Slots : shared'.ready[s] => h2[s] = blocks'[s].buf
  BY <1>2, <1>3, <1>4 DEF Holds, Ring
<1>9. \A r, s \in Slots : h2[r] = h2[s] /\ h2[r] # NoBuf => r = s
  BY <1>4 DEF Holds
<1>10. Holds(x, h2)'
  BY <1>6, <1>7, <1>8, <1>9 DEF Holds
<1>11. FreeList(h2)'
  <2>1. CASE b = NoBuf
    <3>1. shared'.free = free /\ h2 = held
      BY <2>1, <1>2, <1>4
    <3> QED
      BY <3>1 DEF FreeList
  <2>2. CASE b # NoBuf
    <3>1. b \in Slots /\ b \in 0 .. NumBlocks /\ b # NumBlocks
      BY <2>2, WorkFields, SlotCount DEF Bufs
    <3>2. PICK n \in Nat : n = Len(free) /\ n # 0
      <4>1. free # <<>> /\ free \in Seq(0 .. NumBlocks)
        BY RdFields DEF FreeList
      <4> QED
        BY <4>1, EmptySeq
    <3> DEFINE f2 == <<b>> \o free
    <3>3. /\ shared'.free = f2 /\ Len(f2) = n + 1 /\ f2[1] = b
          /\ \A i \in 2 .. n + 1 : f2[i] = free[i - 1]
      <4>1. <<b>> \in Seq(0 .. NumBlocks) /\ Len(<<b>>) = 1 /\ <<b>>[1] = b
        BY <3>1
      <4>2. free \in Seq(0 .. NumBlocks)
        BY RdFields
      <4>3. Len(f2) = 1 + n /\ \A i \in 1 .. 1 + n :
                f2[i] = IF i <= 1 THEN <<b>>[i] ELSE free[i - 1]
        BY <4>1, <4>2, <3>2, ConcatProperties
      <4>4. 1 \in 1 .. 1 + n /\ 1 + n = n + 1
        BY <3>2
      <4>5. \A i \in 2 .. n + 1 : i \in 1 .. 1 + n /\ ~(i <= 1)
        OBVIOUS
      <4> QED
        BY <4>1, <4>3, <4>4, <4>5, <2>2, <1>2
    <3> HIDE DEF f2
    <3>4. /\ free[n] = NumBlocks
          /\ \A i \in 1 .. n : \A s \in Slots : free[i] # held[s]
          /\ \A i, j \in 1 .. n : free[i] = free[j] => i = j
          /\ \A c \in Slots : \/ \E i \in 1 .. n : free[i] = c
                              \/ \E s \in Slots : held[s] = c
      BY <3>2 DEF FreeList
    <3>5. \A i \in 1 .. n + 1 : i = 1 \/ (i \in 2 .. n + 1 /\ i - 1 \in 1 .. n)
      OBVIOUS
    <3>6. \A i \in 1 .. n : i + 1 \in 2 .. n + 1 /\ i + 1 \in 1 .. n + 1 /\ (i + 1) - 1 = i
      OBVIOUS
    <3>7. \A i \in 1 .. n : free[i] # b
      BY <1>4, <3>4
    <3>8. f2 # <<>> /\ f2[n + 1] = NumBlocks
      <4>1. n \in 1 .. n /\ n + 1 # 0 /\ Len(<<>>) = 0
        BY <3>2
      <4> QED
        BY <4>1, <3>3, <3>4, <3>6
    <3>9. \A i \in 1 .. n + 1 : \A s \in Slots : f2[i] # h2[s]
      <4> SUFFICES ASSUME NEW i \in 1 .. n + 1, NEW s \in Slots PROVE f2[i] # h2[s]
        OBVIOUS
      <4>1. s # w => held[s] # b
        BY <1>4, <2>2 DEF Holds
      <4>2. h2[s] = IF s = w THEN NoBuf ELSE held[s]
        BY <1>4
      <4>3. CASE i = 1
        BY <4>1, <4>2, <4>3, <3>3, <2>2
      <4>4. CASE i \in 2 .. n + 1 /\ i - 1 \in 1 .. n
        <5>1. f2[i] = free[i - 1] /\ free[i - 1] # held[s]
          BY <4>4, <3>3, <3>4
        <5>2. free[i - 1] \in 0 .. NumBlocks
          BY <4>4, <3>2, RdFields, ElementOfSeq
        <5>3. free[i - 1] # NoBuf
          BY <5>2, SlotCount DEF NoBuf
        <5> QED
          BY <5>1, <5>3, <4>2
      <4> QED
        BY <4>3, <4>4, <3>5
    <3>10. \A i, j \in 1 .. n + 1 : f2[i] = f2[j] => i = j
      <4> SUFFICES ASSUME NEW i \in 1 .. n + 1, NEW j \in 1 .. n + 1, f2[i] = f2[j]
                   PROVE  i = j
        OBVIOUS
      <4>1. CASE i = 1 /\ j = 1
        BY <4>1
      <4>2. CASE i = 1 /\ j # 1
        BY <4>2, <3>3, <3>5, <3>7
      <4>3. CASE i # 1 /\ j = 1
        BY <4>3, <3>3, <3>5, <3>7
      <4>4. CASE i # 1 /\ j # 1
        <5>1. i - 1 = j - 1
          BY <4>4, <3>3, <3>4, <3>5
        <5> QED
          BY <5>1
      <4> QED
        BY <4>1, <4>2, <4>3, <4>4
    <3>11. \A c \in Slots : \/ \E i \in 1 .. n + 1 : f2[i] = c
                            \/ \E s \in Slots : h2[s] = c
      <4> SUFFICES ASSUME NEW c \in Slots, c # b
                   PROVE  \/ \E i \in 1 .. n + 1 : f2[i] = c
                          \/ \E s \in Slots : h2[s] = c
        <5>1. 1 \in 1 .. n + 1
          BY <3>2
        <5> QED
          BY <5>1, <3>3
      <4>1. CASE \E s \in Slots : held[s] = c
        BY <4>1, <1>4
      <4>2. CASE \E i \in 1 .. n : free[i] = c
        <5>1. PICK i \in 1 .. n : free[i] = c
          BY <4>2
        <5>2. i + 1 \in 1 .. n + 1 /\ f2[i + 1] = free[i]
          BY <3>3, <3>6
        <5> QED
          BY <5>1, <5>2
      <4> QED
        BY <4>1, <4>2, <3>4
    <3> QED
      BY <3>3, <3>8, <3>9, <3>10, <3>11 DEF FreeList
  <2> QED
    BY <2>1, <2>2
<1> QED
  BY <1>10, <1>11 DEF x

-----------------------------------------------------------------------------
(* The contents of the buffers.                                            *)

LEMMA RefSame ==
    ASSUME UNCHANGED input
    PROVE  RefOut' = RefOut /\ \A p, j : IsRef(p, j)' <=> IsRef(p, j)
<1>1. RefOut' = RefOut
  BY DEF RefOut
<1> QED
  BY <1>1 DEF IsRef

\* What a step leaves alone stays as it is.
LEMMA WorkSame ==
    ASSUME NEW w \in Slots, NEW K \in Nat, NEW u \in Threads, WorkOk(u, w, K),
           UNCHANGED input, pc'[u] = pc[u], th'[u] = th[u],
           pc[u] \in {"post", "write"} /\ th[u].buf # NoBuf =>
             bufs'[th[u].buf] = bufs[th[u].buf],
           pc[u] = "load" => blocks'[w] = blocks[w],
           pc[u] = "load" /\ blocks[w].buf # NoBuf =>
             bufs'[blocks[w].buf] = bufs[blocks[w].buf]
    PROVE  WorkOk(u, w, K)'
<1>1. RefOut' = RefOut
  BY RefSame
<1> QED
  BY <1>1 DEF WorkOk, Buffered, IsRef

LEMMA ReadySame ==
    ASSUME NEW w \in Slots, NEW K \in Nat, NEW s \in Slots, UNCHANGED input,
           Buffered(blocks[s], K + Dist(w, s)), blocks'[s] = blocks[s],
           blocks[s].buf # NoBuf => bufs'[blocks[s].buf] = bufs[blocks[s].buf]
    PROVE  Buffered(blocks[s], K + Dist(w, s))'
<1>1. RefOut' = RefOut
  BY RefSame
<1> QED
  BY <1>1 DEF Buffered, IsRef

\* A step of a thread that has no work afterwards.
LEMMA ContentsSame ==
    ASSUME NEW w \in Slots, NEW K \in Nat, Contents(w, K),
           NEW t \in Threads, Others(t), pc'[t] \in Idle,
           UNCHANGED <<input, blocks, bufs>>, shared'.ready = shared.ready
    PROVE  Contents(w, K)'
<1>1. \A u \in Threads : WorkOk(u, w, K)'
  <2> SUFFICES ASSUME NEW u \in Threads PROVE WorkOk(u, w, K)'
    OBVIOUS
  <2>1. CASE u = t
    BY <2>1 DEF WorkOk, Idle
  <2>2. CASE u # t
    BY <2>2, WorkSame DEF Contents, Others
  <2> QED
    BY <2>1, <2>2
<1>2. \A s \in Slots : shared'.ready[s] =>
        ~blocks'[s].del /\ Buffered(blocks[s], K + Dist(w, s))'
  BY ReadySame DEF Contents
<1> QED
  BY <1>1, <1>2 DEF Contents

\* The buffer of a thread's slot is nobody else's.
LEMMA Apart ==
    ASSUME Types, NEW w \in Slots, Ring(w),
           NEW held \in [Slots -> Bufs], Holds(w, held),
           NEW t \in Threads, pc[t] \in {"code", "write"}, th[t].buf # NoBuf
    PROVE  /\ \A u \in Threads : u # t /\ pc[u] \in {"post", "write"}
                => th[u].buf # th[t].buf
           /\ \A u \in Threads : pc[u] = "load" => blocks[th[u].wi].buf # th[t].buf
           /\ \A s \in Slots : shared.ready[s] => blocks[s].buf # th[t].buf
<1>1. /\ HasSlot(t) /\ Slot(t) \in Slots /\ held[Slot(t)] = th[t].buf
  BY SlotType DEF Holds, HasSlot, Slot, Codes, Writes
<1>2. ASSUME NEW u \in Threads, u # t, pc[u] \in {"post", "write", "load"}
      PROVE  /\ HasSlot(u) /\ Slot(u) \in Slots /\ Slot(u) # Slot(t)
             /\ held[Slot(u)] = IF pc[u] = "load" THEN blocks[th[u].wi].buf ELSE th[u].buf
  <2>1. HasSlot(u)
    BY <1>2 DEF HasSlot, Codes, Writes
  <2>2. Slot(u) \in Slots /\ Slot(u) # Slot(t)
    BY <1>1, <1>2, <2>1, SlotType DEF Ring
  <2>3. held[Slot(u)] = IF pc[u] = "load" THEN blocks[th[u].wi].buf ELSE th[u].buf
    BY <1>2 DEF Holds, Slot, Writes
  <2> QED
    BY <2>1, <2>2, <2>3
<1>3. \A s \in Slots : s # Slot(t) => held[s] # th[t].buf
  BY <1>1 DEF Holds
<1>4. \A s \in Slots : shared.ready[s] => s # Slot(t) /\ held[s] = blocks[s].buf
  BY <1>1 DEF Ring, Holds
<1>5. ASSUME NEW u \in Threads, u # t, pc[u] \in {"post", "write"}
      PROVE  th[u].buf # th[t].buf
  BY <1>2, <1>3, <1>5
<1>6. ASSUME NEW u \in Threads, pc[u] = "load"
      PROVE  blocks[th[u].wi].buf # th[t].buf
  BY <1>2, <1>3, <1>6
<1> QED
  BY <1>3, <1>4, <1>5, <1>6

LEMMA TakeSlotContents ==
    ASSUME Types, Ending, NEW w \in Slots, NEW K \in Nat, Ring(w), Reading(K),
           Contents(w, K), NEW t \in Threads, TakeSlot(t)
    PROVE  Contents(w, K)'
<1>0. pc[t] # "off" /\ t # rd.started
  <2>1. rd.started >= rd.started
    BY RdFields
  <2> QED
    BY <2>1 DEF TakeSlot, Ending
<1>1. /\ pc[t] = "slot" /\ sem > 0 /\ sem' = sem - 1
      /\ \A u \in Threads : u # t => th'[u] = th[u]
      /\ th'[t].bi = rd.index /\ th'[t].res = TakenRes(t)
      /\ th'[t].fin = TakenFin(t)
      /\ th'[t].lo = th[t].lo /\ th'[t].hi = th[t].hi
      /\ th'[t].del = th[t].del /\ th'[t].owns = th[t].owns
      /\ UNCHANGED <<input, shared, blocks, bufs>>
      /\ pc'[t] \in {"start", "post", "panicked"}
      /\ pc'[t] = "start" => TakenRes(t) = Ok
      /\ pc'[t] = "post" => TakenRes(t) # Ok
      /\ \A u \in Threads : u # t =>
           pc'[u] = pc[u] \/ (u = rd.started /\ pc'[u] = "wait")
  BY ZenonT(40), <1>0, TakeSlotFacts
<1>2. /\ ~th[t].owns /\ ~th[t].del
      /\ th[t].res = Ok => IsRef(Piece(th[t].lo, th[t].hi, th[t].fin), K + InFlight)
  BY <1>1 DEF Reading
<1>3. Dist(w, rd.index) = InFlight
  BY <1>1, OneMore, AtFacts DEF Ring
<1>4. TakenRes(t) = Ok => th[t].res = Ok /\ TakenFin(t) = th[t].fin
  BY WorkFields DEF TakenRes, TakenFin
<1>5. RefOut' = RefOut
  BY <1>1, RefSame
<1>6. WorkOk(t, w, K)'
  <2>1. CASE pc'[t] = "start"
    <3>1. IsRef(Piece(th'[t].lo, th'[t].hi, th'[t].fin), K + Dist(w, th'[t].bi))
      BY <2>1, <1>1, <1>2, <1>3, <1>4
    <3> QED
      BY <2>1, <3>1, <1>1, <1>2, <1>5 DEF WorkOk, IsRef
  <2>2. CASE pc'[t] = "post"
    BY <2>2, <1>1, <1>2 DEF WorkOk, Buffered
  <2>3. CASE pc'[t] = "panicked"
    BY <2>3 DEF WorkOk
  <2> QED
    BY <1>1, <2>1, <2>2, <2>3
<1>7. \A u \in Threads : u # t => WorkOk(u, w, K)'
  <2> SUFFICES ASSUME NEW u \in Threads, u # t PROVE WorkOk(u, w, K)'
    OBVIOUS
  <2>1. CASE pc'[u] = pc[u]
    BY <2>1, <1>1, WorkSame DEF Contents
  <2>2. CASE pc'[u] = "wait"
    BY <2>2 DEF WorkOk
  <2> QED
    BY <1>1, <2>1, <2>2
<1>8. \A s \in Slots : shared'.ready[s] =>
        ~blocks'[s].del /\ Buffered(blocks[s], K + Dist(w, s))'
  BY <1>1, ReadySame DEF Contents
<1> QED
  BY <1>6, <1>7, <1>8 DEF Contents

LEMMA StartCodeContents ==
    ASSUME Types, NEW w \in Slots, NEW K \in Nat, Contents(w, K),
           NEW t \in Threads, StartCode(t),
           shared.free # <<>>, Head(shared.free) \in Slots
    PROVE  Contents(w, K)'
<1>1. /\ Others(t) /\ pc[t] = "start" /\ pc'[t] = "code"
      /\ shared'.ready = shared.ready /\ th'[t].buf = Head(shared.free)
      /\ th'[t].bi = th[t].bi /\ th'[t].res = th[t].res /\ th'[t].fin = th[t].fin
      /\ th'[t].lo = th[t].lo /\ th'[t].hi = th[t].hi /\ th'[t].del = th[t].del
      /\ UNCHANGED <<input, blocks, bufs>>
  BY StartCodeFacts
<1>2. RefOut' = RefOut
  BY <1>1, RefSame
<1>3. th'[t].buf # NoBuf
  BY <1>1, SlotCount
<1>4. WorkOk(t, w, K)'
  BY <1>1, <1>2, <1>3 DEF Contents, WorkOk, IsRef
<1>5. \A u \in Threads : u # t => WorkOk(u, w, K)'
  BY <1>1, WorkSame DEF Contents, Others
<1>6. \A s \in Slots : shared'.ready[s] =>
        ~blocks'[s].del /\ Buffered(blocks[s], K + Dist(w, s))'
  BY <1>1, ReadySame DEF Contents
<1> QED
  BY <1>4, <1>5, <1>6 DEF Contents

LEMMA CodeContents ==
    ASSUME Types, NEW w \in Slots, NEW K \in Nat, Ring(w), Contents(w, K),
           NEW held \in [Slots -> Bufs], Holds(w, held),
           NEW t \in Threads, Code(t)
    PROVE  Contents(w, K)'
<1>1. pc[t] = "code" /\ th[t].buf # NoBuf /\ ~th[t].del
  BY DEF Code, Contents, WorkOk
<1>2. /\ Others(t) /\ pc'[t] = "post"
      /\ th'[t].owns = th[t].owns /\ th'[t].buf = th[t].buf /\ th'[t].bi = th[t].bi
      /\ UNCHANGED <<input, shared, blocks>>
  BY <1>1, CodeFacts
<1>3. PICK p \in Pieces :
        /\ \/ /\ th[t].owns /\ out' = Append(out, p) /\ bufs' = bufs
           \/ /\ ~th[t].owns /\ out' = out /\ bufs'[th[t].buf] = p
              /\ \A b \in 0 .. NumBlocks : b # th[t].buf => bufs'[b] = bufs[b]
        /\ \/ /\ p = Piece(th[t].lo, th[t].hi, th[t].fin)
              /\ th[t].owns => th'[t].del
              /\ ~th[t].owns => th'[t].del = th[t].del
           \/ /\ th'[t].res # Ok /\ th'[t].del = th[t].del
  BY <1>1, CodeFacts
<1>4. RefOut' = RefOut
  BY <1>2, RefSame
<1>5. \A b \in Slots : b # th[t].buf => bufs'[b] = bufs[b]
  BY <1>3, SlotCount
<1>6. WorkOk(t, w, K)'
  <2>1. IsRef(Piece(th[t].lo, th[t].hi, th[t].fin), K + Dist(w, th[t].bi))
    BY <1>1 DEF Contents, WorkOk
  <2>2. CASE th[t].owns
    BY <2>2, <1>1, <1>2, <1>3 DEF WorkOk, Buffered
  <2>3. CASE ~th[t].owns
    BY <2>1, <2>3, <1>1, <1>2, <1>3, <1>4 DEF WorkOk, Buffered, IsRef
  <2> QED
    BY <2>2, <2>3
<1>7. ASSUME NEW u \in Threads, u # t PROVE WorkOk(u, w, K)'
  <2>1. /\ pc[u] \in {"post", "write"} /\ th[u].buf # NoBuf =>
             bufs'[th[u].buf] = bufs[th[u].buf]
        /\ pc[u] = "load" /\ blocks[w].buf # NoBuf =>
             bufs'[blocks[w].buf] = bufs[blocks[w].buf]
    <3>1. pc[u] = "load" => th[u].wi = w
      BY DEF Ring, Owner, Slot, Writes
    <3>2. /\ pc[u] \in {"post", "write"} => th[u].buf # th[t].buf
          /\ pc[u] = "load" => blocks[w].buf # th[t].buf
      BY <1>1, <1>7, <3>1, Apart
    <3> QED
      BY <3>2, <1>5, WorkFields, BlockFields DEF Bufs
  <2> QED
    BY <2>1, <1>2, <1>7, WorkSame DEF Contents, Others
<1>8. ASSUME NEW s \in Slots, shared'.ready[s]
      PROVE  ~blocks'[s].del /\ Buffered(blocks[s], K + Dist(w, s))'
  <2>1. shared.ready[s] /\ blocks[s].buf # th[t].buf
    BY <1>1, <1>2, <1>8, Apart
  <2>2. blocks[s].buf # NoBuf => bufs'[blocks[s].buf] = bufs[blocks[s].buf]
    BY <2>1, <1>5, BlockFields DEF Bufs
  <2> QED
    BY <2>1, <2>2, <1>2, ReadySame DEF Contents
<1> QED
  BY <1>6, <1>7, <1>8 DEF Contents

LEMMA PostContents ==
    ASSUME Types, NEW w \in Slots, NEW K \in Nat, Ring(w), Contents(w, K),
           NEW t \in Threads, Post(t)
    PROVE  Contents(w, K)'
<1>0. PICK q \in Slots : q = th[t].bi
  BY WorkFields
<1> USE <1>0
<1>1. /\ Others(t) /\ pc[t] = "post" /\ q \in Slots
      /\ \A s \in Slots : s # q => blocks'[s] = blocks[s]
      /\ blocks'[q].res = th[t].res /\ blocks'[q].buf = th[t].buf
      /\ blocks'[q].del = th[t].del
      /\ th'[t].buf = th[t].buf /\ th'[t].del = th[t].del
      /\ \/ /\ th[t].owns \/ shared.write = q
            /\ shared'.ready = shared.ready
            /\ pc'[t] = "write"
            /\ th'[t].res = Ok => th[t].res = Ok
         \/ /\ ~th[t].owns /\ shared.write # q
            /\ \A s \in Slots : s # q => shared'.ready[s] = shared.ready[s]
            /\ pc'[t] \in {"exit", "wait"}
      /\ UNCHANGED <<input, bufs>>
  BY PostFacts, WorkFields
<1>2. /\ HasSlot(t) /\ Slot(t) = q
      /\ Owner(t) <=> th[t].owns
      /\ th[t].owns => q = w
      /\ shared.write = q => q = w /\ \A u \in Threads : ~Owner(u)
      /\ ~th[t].owns /\ shared.write # q => q # w
  BY <1>1, TurnFacts
<1>3. /\ ~th[t].owns => ~th[t].del
      /\ Buffered(th[t], K + Dist(w, q))
  BY <1>1 DEF Contents, WorkOk
<1>4. RefOut' = RefOut
  BY <1>1, RefSame
<1>5. ASSUME NEW u \in Threads, u # t PROVE WorkOk(u, w, K)'
  <2>1. pc[u] = "load" => blocks'[w] = blocks[w]
    <3> SUFFICES ASSUME pc[u] = "load" PROVE blocks'[w] = blocks[w]
      OBVIOUS
    <3>1. Owner(u)
      BY DEF Owner, Writes
    <3>2. ~th[t].owns /\ shared.write # q
      BY <3>1, <1>2, <1>5, OwnerFacts
    <3> QED
      BY <3>2, <1>1, <1>2
  <2> QED
    BY <2>1, <1>1, <1>5, WorkSame DEF Contents, Others
<1>6. ASSUME NEW s \in Slots, s # q, shared.ready[s]
      PROVE  ~blocks'[s].del /\ Buffered(blocks[s], K + Dist(w, s))'
  BY <1>1, <1>6, ReadySame DEF Contents
<1>7. CASE /\ th[t].owns \/ shared.write = q
           /\ shared'.ready = shared.ready
           /\ pc'[t] = "write"
           /\ th'[t].res = Ok => th[t].res = Ok
  <2>1. q = w /\ K + Dist(w, q) = K
    BY <1>2, <1>7, DistFacts
  <2>2. WorkOk(t, w, K)'
    BY <2>1, <1>1, <1>3, <1>4, <1>7 DEF WorkOk, Buffered, IsRef
  <2>3. ~shared.ready[q]
    BY <2>1 DEF Ring
  <2> QED
    BY <2>2, <2>3, <1>5, <1>6, <1>7 DEF Contents
<1>8. CASE /\ ~th[t].owns /\ shared.write # q
           /\ \A s \in Slots : s # q => shared'.ready[s] = shared.ready[s]
           /\ pc'[t] \in {"exit", "wait"}
  <2>1. WorkOk(t, w, K)'
    BY <1>8 DEF WorkOk
  <2>2. ~blocks'[q].del /\ Buffered(blocks[q], K + Dist(w, q))'
    BY <1>1, <1>3, <1>4, <1>8 DEF Buffered, IsRef
  <2> QED
    BY <2>1, <2>2, <1>5, <1>6, <1>8 DEF Contents
<1> QED
  BY <1>1, <1>7, <1>8

LEMMA WriteBlockContents ==
    ASSUME Types, NEW w \in Slots, NEW K \in Nat, Ring(w), Contents(w, K),
           NEW held \in [Slots -> Bufs], Holds(w, held),
           NEW t \in Threads, WriteBlock(t)
    PROVE  Contents(w, K)'
<1>1. /\ Others(t) /\ pc[t] = "write" /\ pc'[t] = "free"
      /\ UNCHANGED <<input, shared, blocks>>
      /\ \/ bufs' = bufs
         \/ /\ Due(th[t])
            /\ \A b \in 0 .. NumBlocks : b # th[t].buf => bufs'[b] = bufs[b]
  BY WriteBlockFacts
<1>2. WorkOk(t, w, K)'
  BY <1>1 DEF WorkOk
<1>3. CASE bufs' = bufs
  <2>1. \A u \in Threads : u # t => WorkOk(u, w, K)'
    BY <1>1, <1>3, WorkSame DEF Contents, Others
  <2>2. \A s \in Slots : shared'.ready[s] =>
        ~blocks'[s].del /\ Buffered(blocks[s], K + Dist(w, s))'
    BY <1>1, <1>3, ReadySame DEF Contents
  <2> QED
    BY <2>1, <2>2, <1>2 DEF Contents
<1>4. CASE /\ Due(th[t])
           /\ \A b \in 0 .. NumBlocks : b # th[t].buf => bufs'[b] = bufs[b]
  <2>1. th[t].buf # NoBuf /\ \A b \in Slots : b # th[t].buf => bufs'[b] = bufs[b]
    BY <1>4, SlotCount DEF Due
  <2>2. ASSUME NEW u \in Threads, u # t PROVE WorkOk(u, w, K)'
    <3>1. pc[u] # "load"
      BY <1>1, <2>2, OwnerFacts DEF Owner, Writes
    <3>2. pc[u] \in {"post", "write"} => th[u].buf # th[t].buf
      BY <1>1, <2>1, <2>2, Apart
    <3>3. pc[u] \in {"post", "write"} /\ th[u].buf # NoBuf =>
             bufs'[th[u].buf] = bufs[th[u].buf]
      BY <2>1, <3>2, WorkFields DEF Bufs
    <3> QED
      BY <3>1, <3>3, <1>1, <2>2, WorkSame DEF Contents, Others
  <2>3. ASSUME NEW s \in Slots, shared'.ready[s]
        PROVE  ~blocks'[s].del /\ Buffered(blocks[s], K + Dist(w, s))'
    <3>1. shared.ready[s] /\ blocks[s].buf # th[t].buf
      BY <1>1, <2>1, <2>3, Apart
    <3>2. blocks[s].buf # NoBuf => bufs'[blocks[s].buf] = bufs[blocks[s].buf]
      BY <2>1, <3>1, BlockFields DEF Bufs
    <3> QED
      BY <3>1, <3>2, <1>1, ReadySame DEF Contents
  <2> QED
    BY <2>2, <2>3, <1>2 DEF Contents
<1> QED
  BY <1>1, <1>3, <1>4

LEMMA FreeSlotContents ==
    ASSUME Types, NEW w \in Slots, NEW K \in Nat, Ring(w), Contents(w, K),
           NEW t \in Threads, FreeSlot(t)
    PROVE  Contents(NextSlot(w), K + 1)'
<1> DEFINE x == NextSlot(w)
<1>1. /\ sem < NumBlocks /\ th[t].wi = w /\ pc[t] = "free" /\ Owner(t) /\ HasSlot(t)
      /\ Slot(t) = w
  BY FreeSlotRing DEF FreeSlot, Owner, HasSlot, Slot, Writes
<1>2. /\ Others(t) /\ UNCHANGED <<input, blocks, bufs>>
      /\ \A s \in Slots : s # x => shared'.ready[s] = shared.ready[s]
      /\ ~shared'.ready[x]
      /\ \/ shared.ready[x] /\ pc'[t] = "load"
         \/ pc'[t] \in {"exit", "wait"}
  <2>1. NextSlot(th[t].wi) = x
    BY <1>1
  <2> HIDE DEF x
  <2> QED
    BY <2>1, <1>1, FreeSlotFacts
<1>3. /\ x \in Slots /\ x # w
      /\ \A s \in Slots : s # w => Dist(x, s) = Dist(w, s) - 1
  BY NextFacts
<1> HIDE DEF x
<1>4. \A s \in Slots : s # w => (K + 1) + Dist(x, s) = K + Dist(w, s)
  BY <1>3, DistFacts
<1>5. K + Dist(w, x) = K + 1
  BY <1>3, <1>4, DistFacts
<1>6. RefOut' = RefOut
  BY <1>2, RefSame
<1>7. WorkOk(t, x, K + 1)'
  <2>1. CASE shared.ready[x] /\ pc'[t] = "load"
    <3>1. ~blocks[x].del /\ Buffered(blocks[x], K + 1)
      BY <2>1, <1>3, <1>5 DEF Contents
    <3> QED
      BY <2>1, <3>1, <1>2, <1>6 DEF WorkOk, Buffered, IsRef
  <2>2. CASE pc'[t] \in {"exit", "wait"}
    BY <2>2 DEF WorkOk
  <2> QED
    BY <2>1, <2>2, <1>2
<1>8. ASSUME NEW u \in Threads, u # t PROVE WorkOk(u, x, K + 1)'
  <2>1. WorkOk(u, w, K) /\ pc[u] \notin {"write", "load"} /\ th[u].bi \in Slots
    BY <1>1, <1>8, OwnerFacts, WorkFields DEF Contents, Owner, Writes
  <2>2. pc[u] \in {"start", "code", "post"} => (K + 1) + Dist(x, th[u].bi) = K + Dist(w, th[u].bi)
    <3>1. pc[u] \in {"start", "code", "post"} => th[u].bi # w
      BY <1>1, <1>8, OwnerFacts DEF HasSlot, Slot, Codes, Writes
    <3> QED
      BY <3>1, <2>1, <1>4
  <2>3. WorkOk(u, x, K + 1)
    BY <2>1, <2>2 DEF WorkOk
  <2>4. K + 1 \in Nat
    OBVIOUS
  <2> QED
    BY <2>1, <2>3, <2>4, <1>2, <1>3, <1>8, WorkSame DEF Others
<1>9. ASSUME NEW s \in Slots, shared'.ready[s]
      PROVE  ~blocks'[s].del /\ Buffered(blocks[s], (K + 1) + Dist(x, s))'
  <2>1. shared.ready[s] /\ s # w
    BY <1>2, <1>9 DEF Ring
  <2>2. ~blocks[s].del /\ Buffered(blocks[s], (K + 1) + Dist(x, s))
    BY <2>1, <1>4 DEF Contents
  <2> QED
    BY <2>2, <1>2, <1>6 DEF Buffered, IsRef
<1>10. Contents(x, K + 1)'
  BY <1>7, <1>8, <1>9 DEF Contents
<1> QED
  BY <1>10 DEF x

LEMMA LoadBlockContents ==
    ASSUME Types, NEW w \in Slots, NEW K \in Nat, Ring(w), Contents(w, K),
           NEW t \in Threads, LoadBlock(t)
    PROVE  Contents(w, K)'
<1>1. /\ Others(t) /\ pc[t] = "load" /\ pc'[t] = "write"
      /\ th'[t].buf = blocks[th[t].wi].buf /\ th'[t].del = blocks[th[t].wi].del
      /\ th'[t].res = Ok => blocks[th[t].wi].res = Ok
      /\ UNCHANGED <<input, shared, blocks, bufs>>
  BY LoadBlockFacts
<1>2. th[t].wi = w
  BY <1>1 DEF Ring, Owner, Slot, Writes
<1>3. Buffered(blocks[w], K)
  BY <1>1 DEF Contents, WorkOk
<1>4. RefOut' = RefOut
  BY <1>1, RefSame
<1>5. WorkOk(t, w, K)'
  BY <1>1, <1>2, <1>3, <1>4 DEF WorkOk, Buffered, IsRef
<1>6. \A u \in Threads : u # t => WorkOk(u, w, K)'
  BY <1>1, WorkSame DEF Contents, Others
<1>7. \A s \in Slots : shared'.ready[s] =>
        ~blocks'[s].del /\ Buffered(blocks[s], K + Dist(w, s))'
  BY <1>1, ReadySame DEF Contents
<1> QED
  BY <1>5, <1>6, <1>7 DEF Contents

-----------------------------------------------------------------------------
(* The reader.                                                             *)

\* A step of a thread that has nothing to do with reading; the sum of K and
\* the blocks in flight is the number of blocks that were read.
LEMMA ReadingSame ==
    ASSUME Types, NEW K \in Nat, Reading(K), NEW L \in Nat,
           L + InFlight' = K + InFlight,
           NEW t \in Threads, Others(t),
           pc[t] \notin {"slot", "panicked"}, pc'[t] \notin {"slot", "panicked"},
           UNCHANGED <<input, rd, readEvent>>, error # Ok => error' # Ok,
           "spawn" \in faulted' <=> "spawn" \in faulted
    PROVE  Reading(L)'
<1>1. RefOut' = RefOut
  BY RefSame
<1>2. \A u \in Threads : /\ pc'[u] = "slot" <=> pc[u] = "slot"
                         /\ pc'[u] = "panicked" <=> pc[u] = "panicked"
                         /\ pc'[u] = "slot" => th'[u] = th[u]
  BY DEF Others
<1>3. \A u \in Threads : pc'[u] = "slot" =>
         /\ ~rd.stop /\ ~th'[u].owns /\ ~th'[u].del /\ th'[u].buf = NoBuf
         /\ th'[u].res # Ok => th'[u].fin
         /\ th'[u].res = Ok =>
              /\ L + InFlight' + 1 \in 1 .. Len(RefOut)
              /\ Piece(th'[u].lo, th'[u].hi, th'[u].fin) = RefOut[L + InFlight' + 1]
              /\ ~th'[u].fin => rd.pos = Start(L + InFlight' + 1)
  BY <1>2 DEF Reading, IsRef
<1>4. \A u, v \in Threads :
        pc'[u] \in {"slot", "panicked"} /\ pc'[v] \in {"slot", "panicked"} => u = v
  BY <1>2 DEF Reading
<1>5. /\ readEvent => \A u \in Threads : pc'[u] \notin {"slot", "panicked"}
      /\ readEvent /\ ~rd.stop =>
           rd.pos = Start(L + InFlight') /\ L + InFlight' < Len(RefOut)
      /\ rd.stop /\ error' = Ok => L + InFlight' = Len(RefOut)
      /\ "spawn" \in faulted' <=> \E u \in Threads : pc'[u] = "panicked"
  BY <1>2 DEF Reading
<1> QED
  BY <1>1, <1>3, <1>4, <1>5 DEF Reading, IsRef

LEMMA ReadBlockReading ==
    ASSUME Types, NEW K \in Nat, Reading(K), NEW t \in Threads, ReadBlock(t)
    PROVE  Reading(K)'
<1> DEFINE j == K + InFlight
<1>1. /\ Others(t) /\ pc[t] = "wait" /\ readEvent /\ ~rd.stop
      /\ pc'[t] = "slot" /\ readEvent' = FALSE
      /\ ~th'[t].owns /\ ~th'[t].del /\ th'[t].buf = NoBuf
      /\ rd'.stop = rd.stop /\ UNCHANGED <<input, sem>>
      /\ "spawn" \in faulted' <=> "spawn" \in faulted
  BY ReadBlockFacts
<1>2. /\ rd.pos = Start(j) /\ j < Len(RefOut) /\ j \in Nat
      /\ \A u \in Threads : pc[u] \notin {"slot", "panicked"}
  BY <1>1, RdFields DEF Reading
<1>3. /\ th'[t].res # Ok => th'[t].fin
      /\ th'[t].res = Ok =>
           /\ IsRef(Piece(th'[t].lo, th'[t].hi, th'[t].fin), j)
           /\ ~th'[t].fin => rd'.pos = Start(j + 1)
  <2>1. CASE error # Ok
    BY <2>1, ReadBlockFacts
  <2>2. CASE error = Ok
    <3>1. PICK r \in Readings :
            /\ th'[t].lo = rd.pos /\ th'[t].hi = r.hi /\ th'[t].fin = r.fin
            /\ th'[t].res = r.res /\ rd'.pos = r.hi
            /\ r.res # Ok => r.fin
      BY <2>2, ReadBlockFacts
    <3>2. CASE r.res = Ok
      <4>1. /\ IsRef(Piece(rd.pos, r.hi, r.fin), j)
            /\ ~r.fin => r.hi = Start(j + 1)
        BY <3>2, <1>2, ReadsRef DEF Types
      <4> QED
        BY <4>1, <3>1, <3>2
    <3>3. CASE r.res # Ok
      BY <3>1, <3>3
    <3> QED
      BY <3>2, <3>3
  <2> QED
    BY <2>1, <2>2
<1>4. RefOut' = RefOut /\ InFlight' = InFlight
  BY <1>1, RefSame DEF InFlight
<1>5. \A u \in Threads : u # t => pc'[u] \notin {"slot", "panicked"}
  BY <1>1, <1>2 DEF Others
<1>6. ~("spawn" \in faulted')
  BY <1>1, <1>2 DEF Reading
<1> QED
  BY <1>1, <1>3, <1>4, <1>5, <1>6 DEF Reading, IsRef

LEMMA TakeSlotReading ==
    ASSUME Types, Ending, Flags, NEW K \in Nat, Reading(K), NEW t \in Threads, TakeSlot(t)
    PROVE  Reading(K)'
<1> DEFINE j == K + InFlight
<1>0. pc[t] # "off" /\ t # rd.started
  <2>1. rd.started >= rd.started
    BY RdFields
  <2> QED
    BY <2>1 DEF TakeSlot, Ending
<1>1. /\ pc[t] = "slot" /\ sem > 0 /\ sem' = sem - 1
      /\ rd'.pos = rd.pos /\ UNCHANGED <<input, error>>
      /\ \A u \in Threads : u # t => th'[u] = th[u]
      /\ \A u \in Threads : u # t => pc'[u] = pc[u] \/ pc'[u] = "wait"
      /\ \/ /\ rd'.stop = TakenFin(t) /\ readEvent' = TRUE /\ UNCHANGED faulted
            /\ pc'[t] \in {"start", "post"}
         \/ /\ More(t) /\ pc'[t] = "panicked" /\ UNCHANGED readEvent
            /\ rd'.stop = rd.stop
            /\ faulted' = faulted \cup {"spawn"}
  BY ZenonT(40), <1>0, TakeSlotFacts
<1>2. /\ ~readEvent /\ ~rd.stop
      /\ \A u \in Threads : u # t => pc[u] \notin {"slot", "panicked"}
      /\ "spawn" \notin faulted
      /\ th[t].res = Ok =>
           /\ IsRef(Piece(th[t].lo, th[t].hi, th[t].fin), j)
           /\ ~th[t].fin => rd.pos = Start(j + 1)
  BY <1>1 DEF Reading
<1>3. /\ InFlight \in Nat /\ InFlight' = InFlight + 1 /\ K + InFlight' = j + 1
      /\ j \in Nat /\ j + 1 \in Nat
  BY <1>1, OneMore
<1>4. RefOut' = RefOut /\ Len(RefOut) \in Nat
  BY <1>1, RefSame, RefFacts DEF Types
<1>5. th[t].res = Ok => /\ j + 1 <= Len(RefOut)
                        /\ th[t].fin <=> j + 1 = Len(RefOut)
  <2> SUFFICES ASSUME th[t].res = Ok
               PROVE  /\ j + 1 <= Len(RefOut)
                      /\ th[t].fin <=> j + 1 = Len(RefOut)
    OBVIOUS
  <2>1. j + 1 \in 1 .. Len(RefOut) /\ Piece(th[t].lo, th[t].hi, th[t].fin) = RefOut[j + 1]
    BY <1>2 DEF IsRef
  <2>2. j < Len(RefOut) /\ j + 1 <= Len(RefOut)
    BY <2>1, <1>3, <1>4
  <2>3. RefOut[j + 1].eof <=> j + 1 = Len(RefOut)
    BY <2>2, <1>3, RefFacts DEF Types
  <2>4. RefOut[j + 1].eof = th[t].fin
    BY <2>1 DEF Piece
  <2> QED
    BY <2>2, <2>3, <2>4
<1>6. \A u \in Threads : u # t => pc'[u] \notin {"slot", "panicked"}
  BY <1>1, <1>2
<1>7. pc'[t] # "slot"
  BY <1>1
<1>8. CASE /\ rd'.stop = TakenFin(t) /\ readEvent' = TRUE /\ UNCHANGED faulted
           /\ pc'[t] \in {"start", "post"}
  <2>1. ~rd'.stop => rd.pos = Start(j + 1) /\ j + 1 < Len(RefOut)
    <3> SUFFICES ASSUME ~rd'.stop PROVE rd.pos = Start(j + 1) /\ j + 1 < Len(RefOut)
      OBVIOUS
    <3>1. ~th[t].fin /\ th[t].res = Ok
      BY <1>8 DEF TakenFin, TakenRes
    <3> QED
      BY <3>1, <1>2, <1>3, <1>4, <1>5
  <2>2. rd'.stop /\ error = Ok => j + 1 = Len(RefOut)
    <3> SUFFICES ASSUME rd'.stop, error = Ok PROVE j + 1 = Len(RefOut)
      OBVIOUS
    <3>1. th[t].res = Ok /\ th[t].fin
      BY <1>8, WorkFields DEF TakenFin, TakenRes, Flags
    <3> QED
      BY <3>1, <1>5
  <2> QED
    BY <2>1, <2>2, <1>1, <1>2, <1>3, <1>4, <1>6, <1>7, <1>8 DEF Reading
<1>9. CASE /\ More(t) /\ pc'[t] = "panicked" /\ UNCHANGED readEvent
           /\ rd'.stop = rd.stop
           /\ faulted' = faulted \cup {"spawn"}
  BY <1>1, <1>2, <1>6, <1>7, <1>9 DEF Reading
<1> QED
  BY <1>1, <1>8, <1>9

-----------------------------------------------------------------------------
(* The error and the end.                                                  *)

\* A step that sets no result and no mark anew.
LEMMA FlagsSame ==
    ASSUME Types, Flags, NEW t \in Threads, Others(t),
           UNCHANGED <<rd, blocks, writeRes, error, faulted>>,
           th'[t].res = th[t].res, th'[t].fin = th[t].fin,
           pc[t] # "slot", pc'[t] # "slot",
           pc'[t] \in {"exit", "last", "done"} =>
             \/ pc[t] \in {"exit", "last", "done"}
             \/ rd.stop \/ th[t].res # Ok \/ th[t].fin
    PROVE  Flags'
<1>1. \A u \in Threads : th'[u].res = th[u].res /\ th'[u].fin = th[u].fin
  BY DEF Others
<1>2. \A u \in Threads : pc'[u] # "slot" /\ th'[u].fin => rd.stop
  BY <1>1 DEF Others, Flags
<1>3. ASSUME NEW u \in Threads, pc'[u] \in {"exit", "last", "done"}
      PROVE  rd.stop \/ error # Ok
  <2>1. CASE u # t
    BY <2>1, <1>3 DEF Others, Flags
  <2>2. CASE u = t
    BY <2>2, <1>3 DEF Flags
  <2> QED
    BY <2>1, <2>2
<1> QED
  BY <1>1, <1>2, <1>3 DEF Flags

\* The other steps: what they set goes with the error, or with the end of
\* reading.
LEMMA ReadBlockFlags ==
    ASSUME Types, Flags, NEW t \in Threads, ReadBlock(t)
    PROVE  Flags'
<1>1. /\ Others(t) /\ pc'[t] = "slot" /\ rd'.stop = rd.stop
      /\ UNCHANGED <<blocks, writeRes>>
      /\ \/ error # Ok /\ UNCHANGED <<rd, error, faulted>>
         \/ /\ error = Ok
            /\ \E r \in Readings :
                 /\ th'[t].res = r.res
                 /\ r.res = Ok => UNCHANGED <<error, faulted>> /\ rd'.res = rd.res
                 /\ r.res # Ok => error' = r.res
  BY ReadBlockFacts
<1>2. error' = Ok => error = Ok /\ rd'.res = rd.res /\ faulted' = faulted /\ th'[t].res = Ok
  BY <1>1
<1> QED
  BY <1>1, <1>2 DEF Flags, Others

LEMMA TakeSlotFlags ==
    ASSUME Types, Ending, Flags, NEW K \in Nat, Reading(K), NEW t \in Threads, TakeSlot(t)
    PROVE  Flags'
<1>1. pc[t] = "slot" /\ t # rd.started
  <2>1. pc[t] = "slot"
    BY DEF TakeSlot
  <2>2. rd.started \in Int /\ t \in Int
    BY RdFields, SlotCount
  <2> QED
    BY <2>1, <2>2 DEF Ending
<1>2. ~rd.stop /\ th[t].fin \in BOOLEAN
  BY <1>1, WorkFields DEF Reading
<1>3. /\ \A u \in Threads : u # t => th'[u] = th[u]
      /\ th'[t].res = TakenRes(t) /\ th'[t].fin = TakenFin(t) /\ rd'.res = rd.res
      /\ UNCHANGED <<blocks, writeRes, error>>
      /\ \/ /\ rd'.stop = TakenFin(t) /\ faulted' = faulted
            /\ pc'[t] \in {"start", "post"}
            /\ \A u \in Threads : u # t => pc'[u] = pc[u] \/ pc'[u] = "wait"
         \/ /\ ~TakenFin(t) /\ pc'[t] = "panicked" /\ rd'.stop = rd.stop
            /\ faulted' = faulted \cup {"spawn"}
            /\ \A u \in Threads : u # t => pc'[u] = pc[u]
  BY ZenonT(40), <1>1, TakeSlotFacts DEF More
<1>4. \A u \in Threads : u # t /\ pc[u] # "slot" => ~th[u].fin
  BY <1>2 DEF Flags
<1>5. \A u \in Threads : u # t => pc[u] # "slot"
  BY <1>1 DEF Reading
<1>6. error = Ok => TakenRes(t) = Ok
  BY DEF TakenRes, Flags
<1>7. error' = Ok =>
        /\ writeRes' = Ok /\ rd'.res = Ok /\ faulted' \subseteq {"spawn"}
        /\ \A u \in Threads : th'[u].res = Ok
        /\ \A s \in Slots : blocks'[s].res = Ok
  BY <1>3, <1>6 DEF Flags
<1>8. \A u \in Threads : pc'[u] # "slot" /\ th'[u].fin => rd'.stop
  BY <1>3, <1>4, <1>5
<1>9. \A s \in Slots : blocks'[s].fin => rd'.stop
  BY <1>2, <1>3 DEF Flags
<1>10. \A u \in Threads : pc'[u] \in {"exit", "last", "done"} => rd'.stop \/ error' # Ok
  BY <1>2, <1>3 DEF Flags
<1> QED
  BY <1>7, <1>8, <1>9, <1>10 DEF Flags

LEMMA CodeFlags ==
    ASSUME Types, Flags, NEW w \in Slots, NEW K \in Nat, Contents(w, K),
           NEW t \in Threads, Code(t)
    PROVE  Flags'
<1>1. pc[t] = "code" /\ th[t].buf # NoBuf
  BY DEF Code, Contents, WorkOk
<1>2. /\ Others(t) /\ pc'[t] = "post" /\ th'[t].fin = th[t].fin
      /\ UNCHANGED <<rd, blocks, writeRes>>
      /\ error # Ok => error' # Ok
      /\ \/ th'[t].res = th[t].res /\ UNCHANGED <<error, faulted>>
         \/ error' # Ok
  BY <1>1, CodeFacts
<1> QED
  BY <1>1, <1>2 DEF Flags, Others

LEMMA PostFlags ==
    ASSUME Types, Flags, NEW t \in Threads, Post(t)
    PROVE  Flags'
<1>1. /\ Others(t) /\ pc[t] = "post"
      /\ \A s \in Slots : s # th[t].bi => blocks'[s] = blocks[s]
      /\ blocks'[th[t].bi].res = th[t].res /\ blocks'[th[t].bi].fin = th[t].fin
      /\ th'[t].fin = th[t].fin
      /\ UNCHANGED <<rd, writeRes, error, faulted>>
      /\ writeRes = Ok => th'[t].res = th[t].res
      /\ \/ pc'[t] \in {"write", "wait"}
         \/ pc'[t] = "exit" /\ (th[t].res # Ok \/ th[t].fin)
  BY PostFacts
<1>2. th[t].bi \in Slots
  BY WorkFields
<1>3. \A s \in Slots : \/ blocks'[s].res = blocks[s].res /\ blocks'[s].fin = blocks[s].fin
                       \/ blocks'[s].res = th[t].res /\ blocks'[s].fin = th[t].fin
  BY <1>1, <1>2
<1> QED
  BY <1>1, <1>3 DEF Flags, Others

LEMMA WriteBlockFlags ==
    ASSUME Types, Flags, NEW t \in Threads, WriteBlock(t)
    PROVE  Flags'
<1>1. /\ Others(t) /\ pc[t] = "write" /\ pc'[t] = "free" /\ th'[t].fin = th[t].fin
      /\ UNCHANGED <<rd, blocks>>
      /\ error # Ok => error' # Ok
      /\ \/ th'[t].res = th[t].res /\ UNCHANGED <<writeRes, error, faulted>>
         \/ error' # Ok
  BY WriteBlockFacts
<1> QED
  BY <1>1 DEF Flags, Others

LEMMA LoadBlockFlags ==
    ASSUME Types, Flags, NEW t \in Threads, LoadBlock(t)
    PROVE  Flags'
<1>1. /\ Others(t) /\ pc[t] = "load" /\ pc'[t] = "write"
      /\ th'[t].fin = blocks[th[t].wi].fin
      /\ \/ th'[t].res = blocks[th[t].wi].res
         \/ th'[t].res = th[t].res
      /\ UNCHANGED <<rd, blocks, writeRes, error, faulted>>
  BY LoadBlockFacts
<1>2. th[t].wi \in Slots
  BY WorkFields
<1> QED
  BY <1>1, <1>2 DEF Flags, Others

-----------------------------------------------------------------------------
(* What reached the output.                                                *)

\* Steps that leave the output and the write turn alone.
LEMMA OutputSame ==
    ASSUME Types, NEW K \in Nat, NEW M \in Nat, Output(K, M), UNCHANGED <<input, out>>,
           error # Ok => error' # Ok,
           shared'.write # Writing => shared.write # Writing,
           \A u \in Threads : Owner(u)' => /\ Owner(u)
                                           /\ Emitted(u)' <=> Emitted(u)
    PROVE  Output(K, M)'
<1>1. \A p, j : IsRef(p, j)' <=> IsRef(p, j)
  BY RefSame
<1>2. \A u \in Threads : Owner(u)' => (M = K + 1 <=> Emitted(u)')
  BY DEF Output
<1>3. /\ shared'.write # Writing => M = K
      /\ \A i \in 1 .. Len(out') - 1 : out'[i].hi <= out'[i+1].lo
      /\ out' # <<>> => out'[Len(out')].hi <= Start(M)
  BY DEF Output
<1>4. error' = Ok => Len(out') = M /\ \A i \in 1 .. Len(out') : IsRef(out'[i], i - 1)
  BY <1>1 DEF Output
<1> QED
  BY <1>1, <1>2, <1>3, <1>4 DEF Output, Start

\* Block K is delivered, whole or, with the error set, in part.
LEMMA OutputMore ==
    ASSUME Types, NEW K \in Nat, Output(K, K), UNCHANGED input,
           NEW p \in Pieces, out' = Append(out, p),
           p.lo = Start(K), p.hi <= Start(K + 1),
           error # Ok => error' # Ok,
           error' = Ok => IsRef(p, K),
           shared'.write = Writing,
           \A u \in Threads : Owner(u)' => Emitted(u)'
    PROVE  Output(K, K + 1)'
<1>1. \A q, j : IsRef(q, j)' <=> IsRef(q, j)
  BY RefSame
<1>2. out \in Seq(Pieces)
  BY DEF Types
<1>3. PICK n \in Nat : n = Len(out)
  BY <1>2
<1>4. Len(out') = n + 1 /\ out'[n + 1] = p /\ \A i \in 1 .. n : out'[i] = out[i]
  BY <1>2, <1>3, AppendProperties
<1>5. \A i \in 1 .. Len(out') - 1 : out'[i].hi <= out'[i+1].lo
  <2> TAKE i \in 1 .. Len(out') - 1
  <2>1. i \in 1 .. n
    BY <1>3, <1>4
  <2>2. CASE i = n
    <3>1. out # <<>>
      BY <1>3, <2>1, <1>2
    <3>2. out[n].hi <= Start(K)
      BY <3>1, <1>3 DEF Output
    <3> QED
      BY <2>1, <2>2, <3>2, <1>4
  <2>3. CASE i # n
    <3>1. i \in 1 .. n - 1 /\ i + 1 \in 1 .. n
      BY <2>1, <2>3, <1>3
    <3>2. out[i].hi <= out[i+1].lo
      BY <3>1, <1>3 DEF Output
    <3> QED
      BY <3>1, <3>2, <2>1, <1>4
  <2> QED
    BY <2>2, <2>3
<1>6. out'[Len(out')].hi <= Start(K + 1)'
  BY <1>4 DEF Start
<1>7. ASSUME error' = Ok
      PROVE  Len(out') = K + 1 /\ \A i \in 1 .. Len(out') : IsRef(out'[i], i - 1)
  <2>1. n = K /\ \A i \in 1 .. n : IsRef(out[i], i - 1)
    BY <1>7, <1>3 DEF Output
  <2>2. ASSUME NEW i \in 1 .. n + 1
        PROVE  IsRef(out'[i], i - 1)
    <3>1. CASE i = n + 1
      <4>1. i - 1 = K
        BY <3>1, <2>1
      <4> QED
        BY <3>1, <4>1, <1>4, <1>7
    <3>2. CASE i # n + 1
      BY <3>2, <2>1, <1>4, <1>3
    <3> QED
      BY <3>1, <3>2
  <2> QED
    BY <2>1, <2>2, <1>4, <1>1
<1>8. /\ K + 1 \in {K, K + 1}
      /\ \A u \in Threads : Owner(u)' => (K + 1 = K + 1 <=> Emitted(u)')
      /\ shared'.write # Writing => K + 1 = K
  OBVIOUS
<1>9. /\ \A i \in 1 .. Len(out') - 1 : out'[i].hi <= out'[i+1].lo
      /\ out' # <<>> => out'[Len(out')].hi <= Start(K + 1)'
      /\ error' = Ok => /\ Len(out') = K + 1
                        /\ \A i \in 1 .. Len(out') : IsRef(out'[i], i - 1)
  BY <1>5, <1>6, <1>7
<1> QED
  BY <1>1, <1>8, <1>9 DEF Output, Start

\* Block K failed, and nothing of it is delivered.
LEMMA OutputSkips ==
    ASSUME Types, NEW K \in Nat, Output(K, K), UNCHANGED <<input, out>>,
           error' # Ok, shared'.write = Writing,
           \A u \in Threads : Owner(u)' => Emitted(u)'
    PROVE  Output(K, K + 1)'
<1>1. Start(K) \in Nat /\ Start(K + 1) \in Nat /\ Start(K) <= Start(K + 1)
  BY StartFacts
<1>2. out # <<>> => out[Len(out)] \in Pieces
  BY DEF Types
<1>3. out # <<>> => out[Len(out)].hi \in Nat
  BY <1>2 DEF Pieces
<1>4. out' # <<>> => out'[Len(out')].hi <= Start(K + 1)
  BY <1>1, <1>3 DEF Output
<1>5. /\ K + 1 \in {K, K + 1}
      /\ \A u \in Threads : Owner(u)' => (K + 1 = K + 1 <=> Emitted(u)')
      /\ shared'.write # Writing => K + 1 = K
  OBVIOUS
<1> QED
  BY <1>4, <1>5 DEF Output, Start

LEMMA TakeSlotOutput ==
    ASSUME Types, Ending, NEW K \in Nat, Reading(K), NEW M \in Nat, Output(K, M),
           NEW t \in Threads, TakeSlot(t)
    PROVE  Output(K, M)'
<1>1. pc[t] = "slot" /\ t # rd.started
  <2>1. pc[t] = "slot"
    BY DEF TakeSlot
  <2>2. rd.started \in Int /\ t \in Int
    BY RdFields, SlotCount
  <2> QED
    BY <2>1, <2>2 DEF Ending
<1>2. ~th[t].owns
  BY <1>1 DEF Reading
<1>3. /\ \A u \in Threads : u # t => th'[u] = th[u] /\ (pc'[u] = pc[u] \/ pc'[u] = "wait")
      /\ th'[t].owns = th[t].owns /\ pc'[t] \in {"start", "post", "panicked"}
      /\ UNCHANGED <<input, shared, error, out>>
  BY ZenonT(40), <1>1, TakeSlotFacts
<1>4. ~Owner(t)'
  BY <1>2, <1>3 DEF Owner, Writes
<1>5. \A u \in Threads : u # t /\ Owner(u)' =>
        /\ Owner(u)
        /\ Emitted(u)' <=> Emitted(u)
  BY <1>3 DEF Owner, Writes, Emitted, Due
<1> QED
  BY <1>3, <1>4, <1>5, OutputSame

LEMMA StartCodeOutput ==
    ASSUME Types, NEW K \in Nat, NEW M \in Nat, Output(K, M),
           NEW t \in Threads, StartCode(t),
           shared.free # <<>>, Head(shared.free) \in Slots
    PROVE  Output(K, M)'
<1>1. /\ Others(t) /\ pc[t] = "start" /\ pc'[t] = "code"
      /\ \/ shared.write # Writing /\ th'[t].owns /\ shared'.write = Writing
         \/ ~th'[t].owns /\ shared'.write = shared.write
      /\ UNCHANGED <<input, error, out>>
  <2>1. th[t].bi # Writing
    BY WorkFields, SlotCount
  <2> QED
    BY <2>1, StartCodeFacts
<1>2. \A u \in Threads : u # t /\ Owner(u)' =>
        /\ Owner(u)
        /\ Emitted(u)' <=> Emitted(u)
  BY <1>1 DEF Owner, Writes, Emitted, Due, Others
<1>3. CASE ~th'[t].owns
  <2>1. ~Owner(t)' /\ shared'.write = shared.write
    BY <1>1, <1>3 DEF Owner, Writes
  <2> QED
    BY <2>1, <1>1, <1>2, OutputSame
<1>4. CASE th'[t].owns
  <2>1. M = K /\ shared'.write = Writing
    BY <1>1, <1>4 DEF Output
  <2>2. ~Emitted(t)'
    BY <1>1 DEF Emitted
  <2>3. \A u \in Threads : Owner(u)' => (M = K + 1 <=> Emitted(u)')
    <3>1. \A u \in Threads : u # t /\ Owner(u)' => (M = K + 1 <=> Emitted(u)')
      BY <1>2 DEF Output
    <3> QED
      BY <3>1, <2>1, <2>2
  <2>4. \A p, j : IsRef(p, j)' <=> IsRef(p, j)
    BY <1>1, RefSame
  <2>5. error' = Ok => Len(out') = M /\ \A i \in 1 .. Len(out') : IsRef(out'[i], i - 1)
    BY <2>4, <1>1 DEF Output
  <2>6. /\ M \in {K, K + 1}
        /\ \A i \in 1 .. Len(out') - 1 : out'[i].hi <= out'[i+1].lo
        /\ out' # <<>> => out'[Len(out')].hi <= Start(M)
    BY <1>1 DEF Output
  <2> QED
    BY <2>1, <2>3, <2>4, <2>5, <2>6 DEF Output, Start
<1> QED
  BY <1>3, <1>4

LEMMA CodeOutput ==
    ASSUME Types, Flags, NEW w \in Slots, NEW K \in Nat, Ring(w), Contents(w, K),
           NEW M \in Nat, Output(K, M), NEW t \in Threads, Code(t)
    PROVE  \E N \in Nat : Output(K, N)'
<1>1. pc[t] = "code" /\ th[t].buf # NoBuf
  BY DEF Code, Contents, WorkOk
<1>2. /\ Others(t) /\ pc'[t] = "post" /\ th'[t].owns = th[t].owns
      /\ shared' = shared /\ input' = input
      /\ error # Ok => error' # Ok
      /\ \E p \in Pieces :
           /\ p.lo = th[t].lo
           /\ p.hi <= th[t].hi \/ p.hi = th[t].hi
           /\ \/ th[t].owns /\ out' = Append(out, p)
              \/ ~th[t].owns /\ out' = out
           /\ \/ p = Piece(th[t].lo, th[t].hi, th[t].fin)
              \/ error' # Ok
  BY <1>1, CodeFacts
<1>3. \A u \in Threads : u # t /\ Owner(u)' =>
        /\ Owner(u)
        /\ Emitted(u)' <=> Emitted(u)
  BY <1>2 DEF Owner, Writes, Emitted, Due, Others
<1>4. CASE ~th[t].owns
  <2>1. ~Owner(t)' /\ shared'.write = shared.write /\ out' = out
    BY <1>2, <1>4 DEF Owner, Writes
  <2> QED
    BY <2>1, <1>2, <1>3, OutputSame
<1>5. CASE th[t].owns
  <2>1. Owner(t)
    BY <1>1, <1>5 DEF Owner
  <2>2. Slot(t) = w /\ shared.write = Writing /\ \A u \in Threads : u # t => ~Owner(u)
    BY <2>1, OwnerFacts
  <2>3. th[t].bi = w
    BY <2>2, <1>1 DEF Slot, Writes
  <2>4. M = K
    <3>1. ~Emitted(t)
      BY <1>1 DEF Emitted
    <3> QED
      BY <3>1, <2>1 DEF Output
  <2>5. IsRef(Piece(th[t].lo, th[t].hi, th[t].fin), K)
    <3>1. IsRef(Piece(th[t].lo, th[t].hi, th[t].fin), K + Dist(w, th[t].bi))
      BY <1>1 DEF Contents, WorkOk
    <3>2. Dist(w, th[t].bi) = 0
      BY <2>3, DistFacts
    <3> QED
      BY <3>1, <3>2
  <2>6. th[t].lo = Start(K) /\ th[t].hi <= Start(K + 1)
    <3>1. input \in Inputs
      BY DEF Types
    <3>2. Piece(th[t].lo, th[t].hi, th[t].fin) = RefOut[K + 1] /\ K < Len(RefOut)
      <4>1. Len(RefOut) \in Nat
        BY <3>1, RefFacts
      <4> QED
        BY <2>5, <4>1 DEF IsRef
    <3>3. RefOut[K + 1].lo = Start(K) /\ RefOut[K + 1].hi <= Start(K + 1)
      BY <3>1, <3>2, RefFacts
    <3> QED
      BY <3>2, <3>3 DEF Piece
  <2>7. PICK p \in Pieces :
          /\ p.lo = th[t].lo
          /\ p.hi <= th[t].hi \/ p.hi = th[t].hi
          /\ out' = Append(out, p)
          /\ p = Piece(th[t].lo, th[t].hi, th[t].fin) \/ error' # Ok
    BY <1>2, <1>5
  <2>8. p.hi <= Start(K + 1)
    <3>1. p.hi \in Nat /\ th[t].hi \in Nat /\ Start(K + 1) \in Nat
      BY WorkFields, StartFacts DEF Pieces
    <3> QED
      BY <3>1, <2>6, <2>7
  <2>9. error' = Ok => IsRef(p, K)
    BY <2>5, <2>7
  <2>10. Output(K, K)
    BY <2>4
  <2>11. \A u \in Threads : Owner(u)' => Emitted(u)'
    BY <1>2, <1>3, <2>2 DEF Emitted
  <2> QED
    BY <2>2, <2>6, <2>7, <2>8, <2>9, <2>10, <2>11, <1>2, OutputMore
<1> QED
  BY <1>4, <1>5

LEMMA PostOutput ==
    ASSUME Types, Flags, NEW w \in Slots, NEW K \in Nat, Ring(w), Contents(w, K),
           NEW M \in Nat, Output(K, M), NEW t \in Threads, Post(t)
    PROVE  \E N \in Nat : Output(K, N)'
<1>1. /\ Others(t) /\ pc[t] = "post"
      /\ th'[t].buf = th[t].buf /\ th'[t].del = th[t].del
      /\ UNCHANGED <<input, out, error>>
      /\ \/ /\ th[t].owns \/ shared.write = th[t].bi
            /\ shared'.write = Writing
            /\ pc'[t] = "write"
            /\ th'[t].res = th[t].res \/ th'[t].res # Ok
         \/ /\ ~th[t].owns /\ shared.write # th[t].bi
            /\ shared'.write = shared.write
            /\ pc'[t] \in {"exit", "wait"}
  BY PostFacts
<1>2. Flags'
  BY PostFlags
<1>3. /\ th[t].owns => th[t].bi = w /\ shared.write = Writing
      /\ Owner(t) <=> th[t].owns
      /\ shared.write = th[t].bi => th[t].bi = w /\ \A u \in Threads : ~Owner(u)
  BY <1>1, TurnFacts
<1>4. \A u \in Threads : u # t /\ Owner(u)' =>
        /\ Owner(u)
        /\ Emitted(u)' <=> Emitted(u)
  BY <1>1 DEF Owner, Writes, Emitted, Due, Others
<1>5. /\ th[t].owns => th[t].del \/ th[t].res # Ok
      /\ ~th[t].owns => ~th[t].del
      /\ th[t].res = Ok /\ ~th[t].del => th[t].buf # NoBuf
  BY <1>1 DEF Contents, WorkOk, Buffered
<1>6. th[t].owns \in BOOLEAN /\ th[t].del \in BOOLEAN /\ th[t].bi \in Slots
  BY WorkFields
<1>7. CASE pc'[t] \in {"exit", "wait"}
  <2>1. ~Owner(t)' /\ shared'.write = shared.write
    BY <1>1, <1>7 DEF Owner, Writes
  <2> QED
    BY <2>1, <1>1, <1>4, OutputSame
<1>8. CASE th[t].owns
  <2>1. shared'.write = Writing /\ pc'[t] = "write" /\ shared.write = Writing
    BY <1>1, <1>3, <1>8
  <2>2. Owner(t) /\ Emitted(t) /\ Emitted(t)'
    BY <1>1, <1>3, <1>5, <1>8, <2>1 DEF Emitted, Due
  <2> QED
    BY <2>1, <2>2, <1>1, <1>4, OutputSame
<1>9. CASE ~th[t].owns /\ shared.write = th[t].bi
  <2>1. /\ shared'.write = Writing /\ pc'[t] = "write" /\ shared.write # Writing
        /\ \A u \in Threads : u # t => ~Owner(u)'
    BY <1>1, <1>3, <1>4, <1>6, <1>9, SlotCount
  <2>2. M = K
    BY <2>1 DEF Output
  <2>3. CASE Due(th[t])'
    <3>1. ~Emitted(t)'
      BY <2>1, <2>3 DEF Emitted
    <3>2. \A u \in Threads : Owner(u)' => (K = K + 1 <=> Emitted(u)')
      BY <2>1, <3>1
    <3>3. \A p, j : IsRef(p, j)' <=> IsRef(p, j)
      BY <1>1, RefSame
    <3>4. error' = Ok => Len(out') = K /\ \A i \in 1 .. Len(out') : IsRef(out'[i], i - 1)
      BY <1>1, <2>2, <3>3 DEF Output
    <3>5. /\ K \in {K, K + 1}
          /\ \A i \in 1 .. Len(out') - 1 : out'[i].hi <= out'[i+1].lo
          /\ out' # <<>> => out'[Len(out')].hi <= Start(K)
      BY <1>1, <2>2 DEF Output
    <3>6. Output(K, K)'
      BY <2>1, <3>2, <3>3, <3>4, <3>5 DEF Output, Start
    <3> QED
      BY <3>6
  <2>4. CASE ~Due(th[t])'
    <3>1. Emitted(t)'
      BY <2>1, <2>4 DEF Emitted
    <3>2. th'[t].res # Ok
      BY <1>1, <1>5, <1>9, <2>4 DEF Due
    <3>3. error' # Ok
      BY <3>2, <1>2 DEF Flags
    <3>4. \A u \in Threads : Owner(u)' => Emitted(u)'
      BY <2>1, <3>1
    <3> QED
      BY <3>3, <3>4, <2>1, <2>2, <1>1, OutputSkips
  <2> QED
    BY <2>3, <2>4
<1> QED
  BY <1>1, <1>7, <1>8, <1>9

LEMMA WriteBlockOutput ==
    ASSUME Types, NEW w \in Slots, NEW K \in Nat, Ring(w), Contents(w, K),
           NEW M \in Nat, Output(K, M), NEW t \in Threads, WriteBlock(t)
    PROVE  \E N \in Nat : Output(K, N)'
<1>1. /\ Others(t) /\ pc[t] = "write" /\ pc'[t] = "free"
      /\ input' = input /\ shared' = shared
      /\ error # Ok => error' # Ok
      /\ \/ ~Due(th[t]) /\ out' = out
         \/ /\ Due(th[t])
            /\ \E p \in Pieces :
                 /\ out' = Append(out, p)
                 /\ \/ p = bufs[th[t].buf]
                    \/ /\ p.lo = bufs[th[t].buf].lo /\ p.hi <= bufs[th[t].buf].hi
                       /\ error' # Ok
  BY WriteBlockFacts
<1>2. Owner(t) /\ Owner(t)' /\ Emitted(t)'
  BY <1>1 DEF Owner, Writes, Emitted
<1>3. shared.write = Writing /\ \A u \in Threads : u # t => ~Owner(u)
  BY <1>2, OwnerFacts
<1>4. \A u \in Threads : u # t => ~Owner(u)'
  BY <1>1, <1>3 DEF Owner, Writes, Others
<1>5. CASE ~Due(th[t])
  <2>1. Emitted(t) /\ out' = out
    BY <1>1, <1>5 DEF Emitted
  <2>2. \A u \in Threads : Owner(u)' => /\ Owner(u)
                                        /\ Emitted(u)' <=> Emitted(u)
    BY <2>1, <1>2, <1>4
  <2> QED
    BY <2>1, <2>2, <1>1, OutputSame
<1>6. CASE Due(th[t])
  <2>1. M = K
    <3>1. ~Emitted(t)
      BY <1>1, <1>6 DEF Emitted
    <3> QED
      BY <3>1, <1>2 DEF Output
  <2>2. IsRef(bufs[th[t].buf], K)
    BY <1>1, <1>6 DEF Contents, WorkOk, Buffered, Due
  <2>3. bufs[th[t].buf].lo = Start(K) /\ bufs[th[t].buf].hi <= Start(K + 1)
    <3>1. input \in Inputs
      BY DEF Types
    <3>2. Len(RefOut) \in Nat
      BY <3>1, RefFacts
    <3>3. bufs[th[t].buf] = RefOut[K + 1] /\ K < Len(RefOut)
      BY <2>2, <3>2 DEF IsRef
    <3> QED
      BY <3>1, <3>3, RefFacts
  <2>4. bufs[th[t].buf] \in Pieces
    <3>1. th[t].buf \in 0 .. NumBlocks
      BY <1>6, WorkFields, SlotCount DEF Due, Bufs
    <3>2. bufs \in [0 .. NumBlocks -> Pieces]
      BY DEF Types
    <3> QED
      BY <3>1, <3>2
  <2>5. PICK p \in Pieces :
          /\ out' = Append(out, p)
          /\ \/ p = bufs[th[t].buf]
             \/ /\ p.lo = bufs[th[t].buf].lo /\ p.hi <= bufs[th[t].buf].hi
                /\ error' # Ok
    BY <1>1, <1>6
  <2>6. p.lo = Start(K) /\ p.hi <= Start(K + 1)
    <3>1. p.hi \in Nat /\ bufs[th[t].buf].hi \in Nat /\ Start(K + 1) \in Nat
      BY <2>4, StartFacts DEF Pieces
    <3> QED
      BY <3>1, <2>3, <2>5
  <2>7. error' = Ok => IsRef(p, K)
    BY <2>2, <2>5
  <2>8. Output(K, K) /\ \A u \in Threads : Owner(u)' => Emitted(u)'
    BY <2>1, <1>2, <1>4
  <2>9. shared'.write = Writing /\ out' = Append(out, p)
    BY <2>5, <1>1, <1>3
  <2>10. Output(K, K + 1)'
    BY <2>6, <2>7, <2>8, <2>9, <1>1, OutputMore
  <2> QED
    BY <2>10
<1> QED
  BY <1>5, <1>6

\* The block that was written, or skipped, is done with.
LEMMA FreeSlotOutput ==
    ASSUME Types, NEW w \in Slots, NEW K \in Nat, Ring(w),
           NEW M \in Nat, Output(K, M), NEW t \in Threads, FreeSlot(t)
    PROVE  M = K + 1 /\ Output(K + 1, M)'
<1>1. sem < NumBlocks
  BY FreeSlotRing
<1>2. /\ Others(t) /\ pc[t] = "free" /\ UNCHANGED <<input, error, out>>
      /\ pc'[t] \in {"load", "exit", "wait"}
  BY <1>1, FreeSlotFacts
<1>3. Owner(t) /\ Emitted(t) /\ ~Emitted(t)'
  BY <1>2 DEF Owner, Writes, Emitted
<1>4. \A u \in Threads : u # t => ~Owner(u)'
  <2>1. \A u \in Threads : u # t => ~Owner(u)
    BY <1>3, OwnerFacts
  <2> QED
    BY <2>1, <1>2 DEF Owner, Writes, Others
<1>5. M = K + 1
  BY <1>3 DEF Output
<1>6. \A p, j : IsRef(p, j)' <=> IsRef(p, j)
  BY <1>2, RefSame
<1>7. error' = Ok => Len(out') = M /\ \A i \in 1 .. Len(out') : IsRef(out'[i], i - 1)
  BY <1>2, <1>6 DEF Output
<1>8. /\ M \in {K + 1, K + 1 + 1} /\ M # K + 1 + 1
      /\ \A i \in 1 .. Len(out') - 1 : out'[i].hi <= out'[i+1].lo
      /\ out' # <<>> => out'[Len(out')].hi <= Start(M)
      /\ \A u \in Threads : Owner(u)' => (M = K + 1 + 1 <=> Emitted(u)')
  BY <1>2, <1>3, <1>4, <1>5 DEF Output
<1> QED
  BY <1>5, <1>6, <1>7, <1>8 DEF Output, Start

LEMMA LoadBlockOutput ==
    ASSUME Types, Flags, NEW w \in Slots, NEW K \in Nat, Ring(w), Contents(w, K),
           NEW M \in Nat, Output(K, M), NEW t \in Threads, LoadBlock(t)
    PROVE  \E N \in Nat : Output(K, N)'
<1>1. /\ Others(t) /\ pc[t] = "load" /\ pc'[t] = "write"
      /\ th'[t].buf = blocks[th[t].wi].buf /\ th'[t].del = blocks[th[t].wi].del
      /\ \/ th'[t].res = blocks[th[t].wi].res
         \/ th'[t].res # Ok
      /\ UNCHANGED <<input, shared, error, out>>
  BY LoadBlockFacts
<1>2. Flags'
  BY LoadBlockFlags
<1>3. Owner(t) /\ ~Emitted(t)
  BY <1>1 DEF Owner, Writes, Emitted
<1>4. /\ shared.write = Writing /\ Slot(t) = w
      /\ \A u \in Threads : u # t => ~Owner(u)'
  <2>1. shared.write = Writing /\ Slot(t) = w /\ \A u \in Threads : u # t => ~Owner(u)
    BY <1>3, OwnerFacts
  <2> QED
    BY <2>1, <1>1 DEF Owner, Writes, Others
<1>5. th[t].wi = w /\ M = K
  BY <1>1, <1>3, <1>4 DEF Slot, Writes, Output
<1>6. ~blocks[w].del /\ (blocks[w].res = Ok => blocks[w].buf # NoBuf)
  BY <1>1 DEF Contents, WorkOk, Buffered
<1>7. CASE Due(th[t])'
  <2>1. ~Emitted(t)'
    BY <1>1, <1>7 DEF Emitted
  <2>2. \A u \in Threads : u # t /\ Owner(u)' =>
          /\ Owner(u)
          /\ Emitted(u)' <=> Emitted(u)
    BY <1>4
  <2>3. \A u \in Threads : Owner(u)' =>
          /\ Owner(u)
          /\ Emitted(u)' <=> Emitted(u)
    BY <1>3, <2>1, <2>2
  <2> QED
    BY <2>3, <1>1, OutputSame
<1>8. CASE ~Due(th[t])'
  <2>1. Emitted(t)'
    BY <1>1, <1>8 DEF Emitted
  <2>2. th'[t].res # Ok
    BY <1>1, <1>5, <1>6, <1>8 DEF Due
  <2>3. error' # Ok
    BY <2>2, <1>2 DEF Flags
  <2>4. \A u \in Threads : Owner(u)' => Emitted(u)'
    BY <2>1, <1>4
  <2>5. Output(K, K)
    BY <1>5
  <2> QED
    BY <2>3, <2>4, <2>5, <1>1, <1>4, OutputSkips
<1> QED
  BY <1>7, <1>8

-----------------------------------------------------------------------------
(* The threads that ended, and the answer.                                 *)

LEMMA ThreadsFinite ==
    /\ IsFiniteSet(Threads)
    /\ \A S \in SUBSET Threads : IsFiniteSet(S) /\ Cardinality(S) \in Nat
<1>1. IsFiniteSet(Threads)
  BY NumThreadsAssumption, FS_Interval DEF Threads
<1> QED
  BY <1>1, FS_Subset, FS_CardinalityType

LEMMA EndingSame ==
    ASSUME Types, Ending, NEW t \in Threads, Others(t),
           pc[t] \notin {"off", "done"}, pc'[t] # "off",
           pc[t] = "last" <=> pc'[t] \in {"last", "done"},
           rd'.started = rd.started, UNCHANGED <<ended, result>>
    PROVE  Ending'
<1>1. {u \in Threads : pc'[u] \in {"last", "done"}} = {u \in Threads : pc[u] \in {"last", "done"}}
  BY DEF Others
<1>2. result = None
  BY DEF Ending
<1>3. result' # Ok /\ result' = None
  BY <1>2 DEF None, Ok
<1>4. \A u \in Threads : u >= rd'.started => pc'[u] = "off"
  BY DEF Ending, Others
<1>5. pc'[0] # "off"
  BY SlotCount DEF Ending, Others
<1> QED
  BY <1>1, <1>3, <1>4, <1>5 DEF Ending, OkIsComplete

LEMMA TakeSlotEnding ==
    ASSUME Types, Ending, NEW t \in Threads, TakeSlot(t)
    PROVE  Ending'
<1>1. pc[t] = "slot" /\ rd.started \in Int /\ t \in Int
  BY RdFields, SlotCount DEF TakeSlot
<1>2. t # rd.started
  BY <1>1 DEF Ending
<1>3. /\ UNCHANGED <<ended, result>>
      /\ rd'.started \in {rd.started, rd.started + 1}
      /\ pc'[t] \in {"start", "post", "panicked"}
      /\ \A u \in Threads : u # t =>
           \/ pc'[u] = pc[u]
           \/ u = rd.started /\ rd'.started = rd.started + 1 /\ pc'[u] = "wait"
  BY ZenonT(80), <1>2, TakeSlotFacts
<1>4. result = None
  BY <1>1 DEF Ending
<1>5. result' # Ok /\ result' = None
  BY <1>3, <1>4 DEF None, Ok
<1>6. \A u \in Threads : u >= rd.started => pc[u] = "off" /\ u # t
  BY <1>1 DEF Ending
<1>7. \A u \in Threads : pc'[u] \in {"last", "done"} <=> pc[u] \in {"last", "done"}
  BY <1>1, <1>3, <1>6
<1>8. {u \in Threads : pc'[u] \in {"last", "done"}} = {u \in Threads : pc[u] \in {"last", "done"}}
  BY <1>7
<1>9. \A u \in Threads : u >= rd'.started => pc'[u] = "off"
  <2> TAKE u \in Threads
  <2> HAVE u >= rd'.started
  <2>1. u \in Int
    BY SlotCount
  <2>2. u >= rd.started /\ (rd'.started = rd.started + 1 => u # rd.started)
    BY <1>1, <1>3, <2>1
  <2> QED
    BY <1>3, <1>6, <2>2
<1>10. pc'[0] # "off"
  BY <1>3, SlotCount DEF Ending
<1> QED
  BY <1>3, <1>5, <1>8, <1>9, <1>10 DEF Ending, OkIsComplete

LEMMA ExitEnding ==
    ASSUME Types, Ending, NEW t \in Threads, Exit(t)
    PROVE  ended \in Nat /\ Ending'
<1> DEFINE E == {u \in Threads : pc[u] \in {"last", "done"}}
<1>1. E \in SUBSET Threads
  OBVIOUS
<1>2. IsFiniteSet(E) /\ ended = Cardinality(E) /\ ended \in Nat
  BY <1>1, ThreadsFinite DEF Ending
<1>3. /\ Others(t) /\ pc[t] = "exit" /\ pc'[t] = "last" /\ ended' = ended + 1
      /\ rd' = rd /\ result' = result
  BY <1>2, ExitFacts
<1>4. {u \in Threads : pc'[u] \in {"last", "done"}} = E \cup {t} /\ t \notin E
  BY <1>3 DEF Others
<1>5. Cardinality(E \cup {t}) = Cardinality(E) + 1
  BY <1>2, <1>4, FS_AddElement
<1>6. result = None
  BY <1>3 DEF Ending
<1>7. result' # Ok /\ result' = None
  BY <1>3, <1>6 DEF None, Ok
<1>8. \A u \in Threads : u >= rd'.started => pc'[u] = "off"
  BY <1>3 DEF Ending, Others
<1>9. pc'[0] # "off"
  BY <1>3, SlotCount DEF Ending, Others
<1> QED
  BY <1>2, <1>3, <1>4, <1>5, <1>7, <1>8, <1>9 DEF Ending, OkIsComplete

(***************************************************************************)
(* When every thread ended without an error, nothing is in flight, and all *)
(* of the reference output was written.                                    *)
(***************************************************************************)
LEMMA AllWritten ==
    ASSUME IInv, \A t \in Threads : pc[t] \in {"off", "done"}, error = Ok
    PROVE  out = RefOut /\ faulted = {}
<1>1. Types /\ Flags /\ Ending
  BY DEF IInv
<1>2. PICK w \in Slots, K \in Nat, M \in Nat, held \in [Slots -> Bufs] :
        RingAt(w, K, M, held)
  BY DEF IInv
<1>3. Ring(w) /\ Reading(K) /\ Output(K, M)
  BY <1>2 DEF RingAt
<1>4. \A t \in Threads : ~HasSlot(t) /\ ~Owner(t)
  BY DEF HasSlot, Codes, Writes, Owner
<1>5. shared.write # Writing
  BY <1>3, <1>4 DEF Ring
<1>6. M = K
  BY <1>3, <1>5 DEF Output
<1>7. ~(Dist(w, w) < InFlight)
  BY <1>3, <1>4 DEF Ring
<1>8. InFlight = 0
  BY <1>1, <1>7, RdFields, DistFacts
<1>9. rd.stop
  <2>1. pc[0] = "done"
    BY <1>1, SlotCount DEF Ending
  <2> QED
    BY <2>1, <1>1, SlotCount DEF Flags
<1>10. K = Len(RefOut)
  BY <1>3, <1>8, <1>9 DEF Reading
<1>11. RefOut \in Seq(Pieces) /\ out \in Seq(Pieces)
  BY <1>1, RefFacts DEF Types
<1>12. Len(out) = Len(RefOut) /\ \A i \in 1 .. Len(out) : IsRef(out[i], i - 1)
  BY <1>3, <1>6, <1>10 DEF Output
<1>13. \A i \in 1 .. Len(out) : out[i] = RefOut[i]
  <2> TAKE i \in 1 .. Len(out)
  <2>1. Len(out) \in Nat /\ i \in Int
    BY <1>11
  <2>2. out[i] = RefOut[(i - 1) + 1]
    BY <1>12 DEF IsRef
  <2> QED
    BY <2>1, <2>2
<1>14. out = RefOut
  BY <1>11, <1>12, <1>13, SeqEqual
<1>15. faulted \subseteq {"spawn"} /\ "spawn" \notin faulted
  BY <1>1, <1>3 DEF Flags, Reading
<1> QED
  BY <1>14, <1>15

-----------------------------------------------------------------------------
(* Every step keeps the invariant.                                         *)

\* Steps that leave the free list alone.
LEMMA FreeListSame ==
    ASSUME NEW held, FreeList(held), shared'.free = shared.free
    PROVE  FreeList(held)'
  BY DEF FreeList

LEMMA ReadBlockStep ==
    ASSUME IInv, NEW t \in Threads, ReadBlock(t)
    PROVE  IInv'
<1>1. Types /\ Flags /\ Ending
  BY DEF IInv
<1>2. PICK w \in Slots, K \in Nat, M \in Nat, held \in [Slots -> Bufs] :
        RingAt(w, K, M, held)
  BY DEF IInv
<1>3. /\ Ring(w) /\ Holds(w, held) /\ FreeList(held)
      /\ Contents(w, K) /\ Reading(K) /\ Output(K, M)
  BY <1>2 DEF RingAt
<1>4. /\ Others(t) /\ pc[t] = "wait" /\ pc'[t] = "slot" /\ Types'
      /\ rd'.index = rd.index /\ rd'.started = rd.started
      /\ UNCHANGED <<input, sem, shared, blocks, bufs, ended, out, result>>
      /\ error # Ok => error' # Ok
  <2>1. \A r \in Readings : error = Ok /\ r.res # Ok => error # r.res
    OBVIOUS
  <2> QED
    BY <1>1, <2>1, ReadBlockFacts
<1>5. KeepsSlots /\ pc'[t] \in Idle
  BY <1>4, KeepsSlotsFacts DEF Idle, PCs
<1>6. Ring(w)' /\ FreeList(held)'
  BY <1>3, <1>4, <1>5, RingSame, FreeListSame
<1>7. Holds(w, held)' /\ Contents(w, K)'
  BY <1>1, <1>3, <1>4, <1>5, HoldsSame, ContentsSame
<1>8. Reading(K)' /\ Flags'
  BY <1>1, <1>3, ReadBlockReading, ReadBlockFlags
<1>9. Output(K, M)'
  <2>1. \A u \in Threads : Owner(u)' => Owner(u) /\ u # t
    BY <1>4, <1>5 DEF KeepsSlots, Owner, Writes
  <2>2. \A u \in Threads : u # t => (Emitted(u)' <=> Emitted(u))
    BY <1>4 DEF Emitted, Due, Others
  <2> QED
    BY <1>1, <1>3, <1>4, <2>1, <2>2, OutputSame
<1>10. Ending'
  BY <1>1, <1>4, EndingSame
<1> QED
  BY <1>4, <1>6, <1>7, <1>8, <1>9, <1>10 DEF IInv, RingAt

LEMMA StopReadingStep ==
    ASSUME IInv, NEW t \in Threads, StopReading(t)
    PROVE  IInv'
<1>1. Types /\ Flags /\ Ending
  BY DEF IInv
<1>2. PICK w \in Slots, K \in Nat, M \in Nat, held \in [Slots -> Bufs] :
        RingAt(w, K, M, held)
  BY DEF IInv
<1>3. /\ Ring(w) /\ Holds(w, held) /\ FreeList(held)
      /\ Contents(w, K) /\ Reading(K) /\ Output(K, M)
  BY <1>2 DEF RingAt
<1>4. /\ Others(t) /\ pc[t] = "wait" /\ pc'[t] = "exit" /\ Types' /\ rd.stop
      /\ UNCHANGED <<input, readEvent, sem, rd, shared, blocks, bufs, writeRes,
                     error, ended, th, out, faulted, result>>
  BY <1>1, StopReadingFacts
<1>5. KeepsSlots /\ pc'[t] \in Idle
  BY <1>4, KeepsSlotsFacts DEF Idle, PCs
<1>6. Ring(w)' /\ FreeList(held)'
  BY <1>3, <1>4, <1>5, RingSame, FreeListSame
<1>7. Holds(w, held)' /\ Contents(w, K)'
  BY <1>1, <1>3, <1>4, <1>5, HoldsSame, ContentsSame
<1>8. K + InFlight' = K + InFlight
  BY <1>4 DEF InFlight
<1>9. Reading(K)' /\ Flags'
  BY <1>1, <1>3, <1>4, <1>8, ReadingSame, FlagsSame
<1>10. Output(K, M)'
  <2>1. \A u \in Threads : Owner(u)' => Owner(u) /\ u # t
    BY <1>4, <1>5 DEF KeepsSlots, Owner, Writes
  <2>2. \A u \in Threads : u # t => (Emitted(u)' <=> Emitted(u))
    BY <1>4 DEF Emitted, Due, Others
  <2> QED
    BY <1>1, <1>3, <1>4, <2>1, <2>2, OutputSame
<1>11. Ending'
  BY <1>1, <1>4, EndingSame
<1> QED
  BY <1>4, <1>6, <1>7, <1>9, <1>10, <1>11 DEF IInv, RingAt

LEMMA TakeSlotStep ==
    ASSUME IInv, NEW t \in Threads, TakeSlot(t)
    PROVE  IInv'
<1>1. Types /\ Flags /\ Ending
  BY DEF IInv
<1>2. PICK w \in Slots, K \in Nat, M \in Nat, held \in [Slots -> Bufs] :
        RingAt(w, K, M, held)
  BY DEF IInv
<1>3. /\ Ring(w) /\ Holds(w, held) /\ FreeList(held)
      /\ Contents(w, K) /\ Reading(K) /\ Output(K, M)
  BY <1>2 DEF RingAt
<1>4. Types' /\ shared' = shared
  <2>1. pc[t] = "slot" /\ rd.started \in Int /\ t \in Int
    BY <1>1, RdFields, SlotCount DEF TakeSlot
  <2>2. t # rd.started
    BY <1>1, <2>1 DEF Ending
  <2> QED
    BY <1>1, <2>2, TakeSlotFacts
<1>5. Ring(w)' /\ Holds(w, held)' /\ Contents(w, K)' /\ Reading(K)' /\ Output(K, M)'
  BY <1>1, <1>3, TakeSlotRing, TakeSlotHolds, TakeSlotContents, TakeSlotReading,
     TakeSlotOutput
<1>6. FreeList(held)' /\ Flags' /\ Ending'
  BY <1>1, <1>3, <1>4, FreeListSame, TakeSlotFlags, TakeSlotEnding
<1> QED
  BY <1>4, <1>5, <1>6 DEF IInv, RingAt

LEMMA StartCodeStep ==
    ASSUME IInv, NEW t \in Threads, StartCode(t)
    PROVE  IInv'
<1>1. Types /\ Flags /\ Ending
  BY DEF IInv
<1>2. PICK w \in Slots, K \in Nat, M \in Nat, held \in [Slots -> Bufs] :
        RingAt(w, K, M, held)
  BY DEF IInv
<1>3. /\ Ring(w) /\ Holds(w, held) /\ FreeList(held)
      /\ Contents(w, K) /\ Reading(K) /\ Output(K, M)
  BY <1>2 DEF RingAt
<1>4. pc[t] = "start" /\ th[t].bi \in Slots /\ held[th[t].bi] = NoBuf
  BY <1>1, <1>3, WorkFields DEF StartCode, Holds
<1>5. shared.free # <<>> /\ Head(shared.free) \in Slots
  BY <1>1, <1>3, <1>4, FreeHead
<1>6. /\ Others(t) /\ pc[t] = "start" /\ pc'[t] = "code" /\ Types'
      /\ th'[t].bi = th[t].bi /\ th'[t].res = th[t].res /\ th'[t].fin = th[t].fin
      /\ shared'.ready = shared.ready
      /\ \/ /\ shared.write = th[t].bi /\ th'[t].owns /\ shared'.write = Writing
         \/ ~th'[t].owns /\ shared'.write = shared.write
      /\ UNCHANGED <<input, readEvent, sem, rd, blocks, writeRes, error, ended,
                     faulted, result>>
  BY <1>1, <1>5, StartCodeFacts
<1>7. PICK h2 \in [Slots -> Bufs] : h2 = [held EXCEPT ![th[t].bi] = Head(shared.free)]
  BY <1>5 DEF Bufs
<1>8. Holds(w, h2)' /\ FreeList(h2)'
  BY <1>1, <1>3, <1>7, StartCodeHolds
<1>9. Ring(w)' /\ Contents(w, K)' /\ Output(K, M)'
  BY <1>1, <1>3, <1>5, <1>6, StartCodeRing, StartCodeContents, StartCodeOutput
<1>10. K + InFlight' = K + InFlight
  BY <1>6 DEF InFlight
<1>11. Reading(K)' /\ Flags' /\ Ending'
  BY <1>1, <1>3, <1>6, <1>10, ReadingSame, FlagsSame, EndingSame
<1> QED
  BY <1>6, <1>8, <1>9, <1>11 DEF IInv, RingAt

LEMMA CodeStep ==
    ASSUME IInv, NEW t \in Threads, Code(t)
    PROVE  IInv'
<1>1. Types /\ Flags /\ Ending
  BY DEF IInv
<1>2. PICK w \in Slots, K \in Nat, M \in Nat, held \in [Slots -> Bufs] :
        RingAt(w, K, M, held)
  BY DEF IInv
<1>3. /\ Ring(w) /\ Holds(w, held) /\ FreeList(held)
      /\ Contents(w, K) /\ Reading(K) /\ Output(K, M)
  BY <1>2 DEF RingAt
<1>4. th[t].buf # NoBuf
  BY <1>3 DEF Code, Contents, WorkOk
<1>5. /\ Others(t) /\ pc[t] = "code" /\ pc'[t] = "post" /\ Types'
      /\ th'[t].bi = th[t].bi /\ th'[t].buf = th[t].buf /\ th'[t].owns = th[t].owns
      /\ error # Ok => error' # Ok
      /\ "spawn" \in faulted' <=> "spawn" \in faulted
      /\ UNCHANGED <<input, readEvent, sem, rd, shared, blocks, ended, result>>
  BY <1>1, <1>4, CodeFacts
<1>6. Ring(w)' /\ FreeList(held)' /\ Holds(w, held)'
  BY <1>1, <1>3, <1>5, KeepsSlotsFacts, RingSame, FreeListSame, HoldsSame
<1>7. Contents(w, K)' /\ \E N \in Nat : Output(K, N)'
  BY <1>1, <1>3, CodeContents, CodeOutput
<1>8. K + InFlight' = K + InFlight
  BY <1>5 DEF InFlight
<1>9. Reading(K)' /\ Flags' /\ Ending'
  BY <1>1, <1>3, <1>5, <1>8, ReadingSame, CodeFlags, EndingSame
<1> QED
  BY <1>5, <1>6, <1>7, <1>9 DEF IInv, RingAt

LEMMA PostStep ==
    ASSUME IInv, NEW t \in Threads, Post(t)
    PROVE  IInv'
<1>1. Types /\ Flags /\ Ending
  BY DEF IInv
<1>2. PICK w \in Slots, K \in Nat, M \in Nat, held \in [Slots -> Bufs] :
        RingAt(w, K, M, held)
  BY DEF IInv
<1>3. /\ Ring(w) /\ Holds(w, held) /\ FreeList(held)
      /\ Contents(w, K) /\ Reading(K) /\ Output(K, M)
  BY <1>2 DEF RingAt
<1>4. /\ Others(t) /\ pc[t] = "post" /\ pc'[t] \in {"write", "exit", "wait"} /\ Types'
      /\ shared'.free = shared.free
      /\ UNCHANGED <<input, readEvent, sem, rd, error, ended, faulted, result>>
  BY <1>1, PostFacts
<1>5. /\ Ring(w)' /\ FreeList(held)' /\ Holds(w, held)' /\ Contents(w, K)'
      /\ \E N \in Nat : Output(K, N)'
  BY <1>1, <1>3, <1>4, PostRing, FreeListSame, PostHolds, PostContents, PostOutput
<1>6. K + InFlight' = K + InFlight
  BY <1>4 DEF InFlight
<1>7. Reading(K)' /\ Flags' /\ Ending'
  BY <1>1, <1>3, <1>4, <1>6, ReadingSame, PostFlags, EndingSame
<1> QED
  BY <1>4, <1>5, <1>7 DEF IInv, RingAt

LEMMA WriteBlockStep ==
    ASSUME IInv, NEW t \in Threads, WriteBlock(t)
    PROVE  IInv'
<1>1. Types /\ Flags /\ Ending
  BY DEF IInv
<1>2. PICK w \in Slots, K \in Nat, M \in Nat, held \in [Slots -> Bufs] :
        RingAt(w, K, M, held)
  BY DEF IInv
<1>3. /\ Ring(w) /\ Holds(w, held) /\ FreeList(held)
      /\ Contents(w, K) /\ Reading(K) /\ Output(K, M)
  BY <1>2 DEF RingAt
<1>4. /\ Others(t) /\ pc[t] = "write" /\ pc'[t] = "free" /\ Types'
      /\ th'[t].wi = th[t].wi /\ th'[t].buf = th[t].buf
      /\ error # Ok => error' # Ok
      /\ "spawn" \in faulted' <=> "spawn" \in faulted
      /\ UNCHANGED <<input, readEvent, sem, rd, shared, blocks, ended, result>>
  BY <1>1, WriteBlockFacts
<1>5. Ring(w)' /\ FreeList(held)' /\ Holds(w, held)'
  BY <1>1, <1>3, <1>4, KeepsSlotsFacts, RingSame, FreeListSame, HoldsSame
<1>6. Contents(w, K)' /\ \E N \in Nat : Output(K, N)'
  BY <1>1, <1>3, WriteBlockContents, WriteBlockOutput
<1>7. K + InFlight' = K + InFlight
  BY <1>4 DEF InFlight
<1>8. Reading(K)' /\ Flags' /\ Ending'
  BY <1>1, <1>3, <1>4, <1>7, ReadingSame, WriteBlockFlags, EndingSame
<1> QED
  BY <1>4, <1>5, <1>6, <1>8 DEF IInv, RingAt

LEMMA FreeSlotStep ==
    ASSUME IInv, NEW t \in Threads, FreeSlot(t)
    PROVE  IInv'
<1>1. Types /\ Flags /\ Ending
  BY DEF IInv
<1>2. PICK w \in Slots, K \in Nat, M \in Nat, held \in [Slots -> Bufs] :
        RingAt(w, K, M, held)
  BY DEF IInv
<1>3. /\ Ring(w) /\ Holds(w, held) /\ FreeList(held)
      /\ Contents(w, K) /\ Reading(K) /\ Output(K, M)
  BY <1>2 DEF RingAt
<1>4. /\ sem < NumBlocks /\ InFlight >= 1 /\ InFlight' = InFlight - 1
      /\ Ring(NextSlot(w))' /\ NextSlot(w) \in Slots
  BY <1>1, <1>3, FreeSlotRing, NextFacts
<1>5. /\ Others(t) /\ pc[t] = "free" /\ Types'
      /\ pc'[t] = "load" \/ pc'[t] = "wait" \/ (pc'[t] = "exit" /\ (th[t].fin \/ th[t].res # Ok))
      /\ th'[t].res = th[t].res /\ th'[t].fin = th[t].fin
      /\ UNCHANGED <<input, readEvent, rd, blocks, writeRes, error, ended, faulted, result>>
  BY <1>1, <1>4, FreeSlotFacts
<1>6. PICK h2 \in [Slots -> Bufs] : h2 = [held EXCEPT ![w] = NoBuf]
  BY DEF Bufs
<1>7. Holds(NextSlot(w), h2)' /\ FreeList(h2)'
  BY <1>1, <1>3, <1>6, FreeSlotHolds
<1>8. M = K + 1 /\ Contents(NextSlot(w), K + 1)' /\ Output(K + 1, M)'
  BY <1>1, <1>3, FreeSlotContents, FreeSlotOutput
<1>9. K + 1 \in Nat /\ K + 1 + InFlight' = K + InFlight
  BY <1>1, <1>4, RdFields
<1>10. Reading(K + 1)'
  BY <1>1, <1>3, <1>5, <1>9, ReadingSame
<1>11. Flags' /\ Ending'
  BY <1>1, <1>5, FlagsSame, EndingSame
<1>12. RingAt(NextSlot(w), K + 1, M, h2)'
  BY <1>4, <1>7, <1>8, <1>10 DEF RingAt
<1> QED
  BY <1>4, <1>5, <1>9, <1>11, <1>12 DEF IInv

LEMMA LoadBlockStep ==
    ASSUME IInv, NEW t \in Threads, LoadBlock(t)
    PROVE  IInv'
<1>1. Types /\ Flags /\ Ending
  BY DEF IInv
<1>2. PICK w \in Slots, K \in Nat, M \in Nat, held \in [Slots -> Bufs] :
        RingAt(w, K, M, held)
  BY DEF IInv
<1>3. /\ Ring(w) /\ Holds(w, held) /\ FreeList(held)
      /\ Contents(w, K) /\ Reading(K) /\ Output(K, M)
  BY <1>2 DEF RingAt
<1>4. /\ Others(t) /\ pc[t] = "load" /\ pc'[t] = "write" /\ Types'
      /\ th'[t].wi = th[t].wi /\ th'[t].buf = blocks[th[t].wi].buf
      /\ UNCHANGED <<input, readEvent, sem, rd, shared, blocks, bufs, error, ended,
                     faulted, result>>
  BY <1>1, LoadBlockFacts
<1>5. Ring(w)' /\ FreeList(held)' /\ Holds(w, held)'
  BY <1>1, <1>3, <1>4, KeepsSlotsFacts, RingSame, FreeListSame, HoldsSame
<1>6. Contents(w, K)' /\ \E N \in Nat : Output(K, N)'
  BY <1>1, <1>3, LoadBlockContents, LoadBlockOutput
<1>7. K + InFlight' = K + InFlight
  BY <1>4 DEF InFlight
<1>8. Reading(K)' /\ Flags' /\ Ending'
  BY <1>1, <1>3, <1>4, <1>7, ReadingSame, LoadBlockFlags, EndingSame
<1> QED
  BY <1>4, <1>5, <1>6, <1>8 DEF IInv, RingAt

LEMMA ExitStep ==
    ASSUME IInv, NEW t \in Threads, Exit(t)
    PROVE  IInv'
<1>1. Types /\ Flags /\ Ending
  BY DEF IInv
<1>2. PICK w \in Slots, K \in Nat, M \in Nat, held \in [Slots -> Bufs] :
        RingAt(w, K, M, held)
  BY DEF IInv
<1>3. /\ Ring(w) /\ Holds(w, held) /\ FreeList(held)
      /\ Contents(w, K) /\ Reading(K) /\ Output(K, M)
  BY <1>2 DEF RingAt
<1>4. ended \in Nat /\ Ending'
  BY <1>1, ExitEnding
<1>5. /\ Others(t) /\ pc[t] = "exit" /\ pc'[t] = "last" /\ Types'
      /\ th'[t].res = th[t].res /\ th'[t].fin = th[t].fin
      /\ UNCHANGED <<input, readEvent, sem, rd, shared, blocks, bufs, writeRes,
                     error, out, faulted>>
  BY <1>1, <1>4, ExitFacts
<1>6. KeepsSlots /\ pc'[t] \in Idle
  BY <1>5, KeepsSlotsFacts DEF Idle, PCs
<1>7. Ring(w)' /\ FreeList(held)'
  BY <1>3, <1>5, <1>6, RingSame, FreeListSame
<1>8. Holds(w, held)' /\ Contents(w, K)'
  BY <1>1, <1>3, <1>5, <1>6, HoldsSame, ContentsSame
<1>9. K + InFlight' = K + InFlight
  BY <1>5 DEF InFlight
<1>10. Reading(K)' /\ Flags'
  BY <1>1, <1>3, <1>5, <1>9, ReadingSame, FlagsSame
<1>11. Output(K, M)'
  <2>1. \A u \in Threads : Owner(u)' => Owner(u) /\ u # t
    BY <1>5, <1>6 DEF KeepsSlots, Owner, Writes
  <2>2. \A u \in Threads : u # t => (Emitted(u)' <=> Emitted(u))
    BY <1>5 DEF Emitted, Due, Others
  <2> QED
    BY <1>1, <1>3, <1>5, <2>1, <2>2, OutputSame
<1> QED
  BY <1>4, <1>5, <1>7, <1>8, <1>10, <1>11 DEF IInv, RingAt

LEMMA LastOutStep ==
    ASSUME IInv, NEW t \in Threads, LastOut(t)
    PROVE  IInv'
<1>1. Types /\ Flags /\ Ending
  BY DEF IInv
<1>2. PICK w \in Slots, K \in Nat, M \in Nat, held \in [Slots -> Bufs] :
        RingAt(w, K, M, held)
  BY DEF IInv
<1>3. /\ Ring(w) /\ Holds(w, held) /\ FreeList(held)
      /\ Contents(w, K) /\ Reading(K) /\ Output(K, M)
  BY <1>2 DEF RingAt
<1>4. /\ Others(t) /\ pc[t] = "last" /\ pc'[t] = "done" /\ Types'
      /\ UNCHANGED <<input, readEvent, sem, rd, shared, blocks, bufs, writeRes,
                     error, ended, th, out, faulted, result>>
  BY <1>1, LastOutFacts
<1>5. KeepsSlots /\ pc'[t] \in Idle
  BY <1>4, KeepsSlotsFacts DEF Idle, PCs
<1>6. Ring(w)' /\ FreeList(held)'
  BY <1>3, <1>4, <1>5, RingSame, FreeListSame
<1>7. Holds(w, held)' /\ Contents(w, K)'
  BY <1>1, <1>3, <1>4, <1>5, HoldsSame, ContentsSame
<1>8. K + InFlight' = K + InFlight
  BY <1>4 DEF InFlight
<1>9. Reading(K)' /\ Flags'
  BY <1>1, <1>3, <1>4, <1>8, ReadingSame, FlagsSame
<1>10. Output(K, M)'
  <2>1. \A u \in Threads : Owner(u)' => Owner(u) /\ u # t
    BY <1>4, <1>5 DEF KeepsSlots, Owner, Writes
  <2>2. \A u \in Threads : u # t => (Emitted(u)' <=> Emitted(u))
    BY <1>4 DEF Emitted, Due, Others
  <2> QED
    BY <1>1, <1>3, <1>4, <2>1, <2>2, OutputSame
<1>11. Ending'
  BY <1>1, <1>4, EndingSame
<1> QED
  BY <1>4, <1>6, <1>7, <1>9, <1>10, <1>11 DEF IInv, RingAt

\* Nothing of the ring depends on the answer.
LEMMA RingUnchanged ==
    ASSUME UNCHANGED <<input, readEvent, sem, rd, shared, blocks, bufs, writeRes,
                       error, ended, finished, pc, th, out, faulted>>,
           NEW w, NEW K, NEW M, NEW held, RingAt(w, K, M, held)
    PROVE  RingAt(w, K, M, held)'
<1>1. RefOut' = RefOut /\ \A p, j : IsRef(p, j)' <=> IsRef(p, j)
  BY RefSame
<1>2. Ring(w)'
  BY DEF RingAt, Ring, HasSlot, Codes, Writes, Slot, Owner, InFlight
<1>3. Holds(w, held)' /\ FreeList(held)'
  BY DEF RingAt, Holds, FreeList, InFlight
<1>4. Contents(w, K)'
  BY <1>1 DEF RingAt, Contents, WorkOk, Buffered
<1>5. Reading(K)'
  BY <1>1 DEF RingAt, Reading, InFlight, Start
<1>6. Output(K, M)'
  BY <1>1 DEF RingAt, Output, Owner, Writes, Emitted, Due, Start
<1> QED
  BY <1>2, <1>3, <1>4, <1>5, <1>6 DEF RingAt

LEMMA ReturnStep ==
    ASSUME IInv, Return
    PROVE  IInv'
<1>1. Types /\ Flags /\ Ending
  BY DEF IInv
<1>2. /\ \A t \in Threads : pc[t] \in {"off", "done"}
      /\ result' = IF error # Ok THEN error ELSE IF rd.res # Ok THEN rd.res ELSE writeRes
      /\ UNCHANGED <<input, readEvent, sem, rd, shared, blocks, bufs, writeRes,
                     error, ended, finished, pc, th, out, faulted>>
  BY DEF Return, Joined
<1>3. Types'
  BY <1>1, <1>2, RdFields DEF Types
<1>4. Flags'
  BY <1>1, <1>2 DEF Flags
<1>5. \E w \in Slots, K \in Nat, M \in Nat, held \in [Slots -> Bufs] :
        RingAt(w, K, M, held)'
  BY <1>2, RingUnchanged DEF IInv
<1>6. Ending'
  <2>1. result' = Ok => out = RefOut /\ faulted = {}
    BY <1>2, AllWritten
  <2>2. RefOut' = RefOut
    BY <1>2, RefSame
  <2>3. OkIsComplete'
    BY <1>2, <2>1, <2>2 DEF OkIsComplete
  <2> QED
    BY <1>1, <1>2, <2>3 DEF Ending
<1> QED
  BY <1>3, <1>4, <1>5, <1>6 DEF IInv

\* Nothing happens.
LEMMA StutterStep ==
    ASSUME IInv, UNCHANGED vars
    PROVE  IInv'
<1>1. Types /\ Flags /\ Ending
  BY DEF IInv
<1>2. /\ UNCHANGED <<input, readEvent, sem, rd, shared, blocks, bufs, writeRes,
                     error, ended, finished, pc, th, out, faulted>>
      /\ result' = result
  BY DEF vars
<1>3. Types'
  BY <1>1, <1>2 DEF Types
<1>4. Flags'
  BY <1>1, <1>2 DEF Flags
<1>5. \E w \in Slots, K \in Nat, M \in Nat, held \in [Slots -> Bufs] :
        RingAt(w, K, M, held)'
  BY <1>2, RingUnchanged DEF IInv
<1>6. Ending'
  <2>1. RefOut' = RefOut
    BY <1>2, RefSame
  <2>2. OkIsComplete'
    BY <1>1, <1>2, <2>1 DEF Ending, OkIsComplete
  <2> QED
    BY <1>1, <1>2, <2>2 DEF Ending
<1> QED
  BY <1>3, <1>4, <1>5, <1>6 DEF IInv

-----------------------------------------------------------------------------
LEMMA InitTypes ==
    ASSUME Init
    PROVE  Types
<1>1. input.len \in Nat
  BY InputsAssumption DEF Init, InputKind
<1>2. rd \in [stop : BOOLEAN, res : Res, pos : 0 .. input.len, index : Slots,
              started : 1 .. NumThreads]
  BY <1>1, SlotCount DEF Init, Res
<1>3. [i \in 1 .. NumBlocks + 1 |-> i - 1] \in Seq(0 .. NumBlocks)
  BY SlotCount
<1>4. shared \in [free : Seq(0 .. NumBlocks), ready : [Slots -> BOOLEAN],
                  write : Slots \cup {Writing}]
  BY <1>3, SlotCount DEF Init
<1>5. blocks \in [Slots -> Block]
  BY DEF Init, Block, NoBlock, Res
<1>6. bufs \in [0 .. NumBlocks -> Pieces]
  BY DEF Init, Pieces, Empty, Piece
<1>7. NoWork \in Works
  BY SlotCount DEF NoWork, Works, Res, Bufs
<1>8. th \in [Threads -> Works]
  BY <1>7 DEF Init
<1>9. pc \in [Threads -> PCs]
  BY DEF Init, PCs
<1>10. sem \in 0 .. NumBlocks /\ out \in Seq(Pieces)
  BY SlotCount DEF Init
<1> QED
  BY <1>2, <1>4, <1>5, <1>6, <1>8, <1>9, <1>10 DEF Init, Types, Res

LEMMA InitIInv ==
    ASSUME Init
    PROVE  IInv
<1>1. Types
  BY InitTypes
<1>2. /\ InFlight = 0 /\ rd.index = 0 /\ rd.pos = 0 /\ ~rd.stop /\ rd.started = 1
      /\ \A t \in Threads : pc[t] \in {"wait", "off"} /\ th[t] = NoWork
      /\ \A s \in Slots : ~shared.ready[s] /\ blocks[s] = NoBlock
      /\ shared.write = 0 /\ out = <<>> /\ readEvent = TRUE /\ faulted = {}
  BY SlotCount DEF Init, InFlight
<1>3. \A t \in Threads : ~HasSlot(t) /\ ~Owner(t)
  BY <1>2 DEF HasSlot, Codes, Writes, Owner
<1>4. Flags
  BY <1>2 DEF Init, Flags, NoWork, NoBlock
<1>5. Ending
  <2>1. {t \in Threads : pc[t] \in {"last", "done"}} = {}
    BY <1>2
  <2>2. Cardinality({}) = 0
    BY FS_EmptySet
  <2>3. \A t \in Threads : t >= 1 => pc[t] = "off"
    BY SlotCount DEF Init
  <2>4. pc[0] # "off" /\ ended = 0 /\ result = None
    BY SlotCount DEF Init
  <2> QED
    BY <2>1, <2>2, <2>3, <2>4, <1>2 DEF Ending, OkIsComplete, None, Ok
<1>6. 0 \in Slots /\ \A s \in Slots : Dist(0, s) \in Nat
  BY SlotCount, DistFacts
<1>7. PICK held \in [Slots -> Bufs] : held = [s \in Slots |-> NoBuf]
  BY DEF Bufs
<1>8. Ring(0)
  <2>1. rd.index = At(0, InFlight)
    BY <1>2, SlotCount DEF At
  <2>2. \A s \in Slots : ~(Dist(0, s) < InFlight)
    BY <1>2, <1>6
  <2>3. shared.write # Writing
    BY <1>2, SlotCount
  <2> QED
    BY <1>2, <1>3, <1>6, <2>1, <2>2, <2>3 DEF Ring
<1>9. Holds(0, held)
  BY <1>2, <1>7 DEF Holds
<1>10. FreeList(held)
  <2>1. shared.free = [i \in 1 .. NumBlocks + 1 |-> i - 1]
    BY DEF Init
  <2>2. PICK n \in Nat : n = NumBlocks + 1 /\ n >= 1
    BY SlotCount
  <2>3. Len(shared.free) = n /\ shared.free \in Seq(0 .. NumBlocks)
    BY <2>1, <2>2, SlotCount, LenProperties, SMT
  <2>4. \A i \in 1 .. n : shared.free[i] = i - 1 /\ i \in Int
    BY <2>1, <2>2
  <2>5. shared.free # <<>>
    BY <2>2, <2>3
  <2>6. \A b \in Slots : b + 1 \in 1 .. n /\ (b + 1) - 1 = b
    BY <2>2, SlotCount
  <2>7. \A b \in Slots : \E i \in 1 .. n : shared.free[i] = b
    <3> TAKE b \in Slots
    <3>1. b + 1 \in 1 .. n /\ shared.free[b + 1] = b
      BY <2>4, <2>6
    <3> QED
      BY <3>1
  <2>8. \A i \in 1 .. n : \A s \in Slots : shared.free[i] # held[s]
    BY <1>7, <2>4 DEF NoBuf
  <2>9. shared.free[n] = NumBlocks
    BY <2>2, <2>4, SlotCount
  <2>10. \A i, j \in 1 .. n : shared.free[i] = shared.free[j] => i = j
    BY <2>4
  <2> QED
    BY <2>3, <2>5, <2>7, <2>8, <2>9, <2>10 DEF FreeList
<1>11. Contents(0, 0)
  BY <1>2 DEF Contents, WorkOk
<1>12. Reading(0)
  <2>1. Start(0) = 0 /\ 0 + InFlight = 0
    BY <1>2, StartFacts
  <2>2. 0 < Len(RefOut)
    BY <1>1, RefFacts DEF Types
  <2> QED
    BY <1>2, <2>1, <2>2 DEF Reading
<1>13. Output(0, 0)
  <2>1. Len(out) = 0
    BY <1>2
  <2> QED
    BY <1>2, <1>3, <2>1 DEF Output
<1>14. RingAt(0, 0, 0, held)
  BY <1>8, <1>9, <1>10, <1>11, <1>12, <1>13 DEF RingAt
<1> QED
  BY <1>1, <1>4, <1>5, <1>6, <1>14 DEF IInv

LEMMA NextIInv ==
    ASSUME IInv, [Next]_vars
    PROVE  IInv'
<1>1. ASSUME NEW t \in Threads, Step(t)
      PROVE  IInv'
  BY <1>1, ReadBlockStep, StopReadingStep, TakeSlotStep, StartCodeStep, CodeStep,
     PostStep, WriteBlockStep, FreeSlotStep, LoadBlockStep, ExitStep, LastOutStep
     DEF Step
<1>2. ASSUME UNCHANGED vars
      PROVE  IInv'
  BY <1>2, StutterStep
<1> QED
  BY <1>1, <1>2, ReturnStep DEF Next, Returned

(***************************************************************************)
(* Whatever the threads' order and whatever fails, the blocks in flight    *)
(* stay in a ring from the one that is next to be written, every one with  *)
(* the slot, the buffer and the part of the input that belong to it.       *)
(***************************************************************************)
THEOREM Inductive == Spec => []IInv
<1>1. Init => IInv
  BY InitIInv
<1>2. IInv /\ [Next]_vars => IInv'
  BY NextIInv
<1> QED
  BY <1>1, <1>2, PTL DEF Spec

-----------------------------------------------------------------------------
(* What follows of it.                                                     *)

LEMMA SlotOfFacts ==
    ASSUME NEW t \in Threads
    PROVE  /\ SlotOf(t) = IF HasSlot(t) /\ pc[t] # "panicked" THEN {Slot(t)} ELSE {}
  BY DEF SlotOf, HasSlot, Codes, Writes, Slot

\* The slots that are less than n behind w are n.
LEMMA RingSize ==
    ASSUME NEW w \in Slots, NEW n \in Nat, n <= NumBlocks
    PROVE  Cardinality({s \in Slots : Dist(w, s) < n}) = n
<1> DEFINE D == {s \in Slots : Dist(w, s) < n}
           f == [d \in 0 .. n - 1 |-> At(w, d)]
<1>1. \A d \in 0 .. n - 1 : At(w, d) \in Slots /\ Dist(w, At(w, d)) = d
  <2> TAKE d \in 0 .. n - 1
  <2>1. d \in Nat /\ d < NumBlocks
    BY SlotCount
  <2> QED
    BY <2>1, AtFacts
<1>2. f \in [0 .. n - 1 -> D]
  BY <1>1
<1>3. \A c, d \in 0 .. n - 1 : f[c] = f[d] => c = d
  BY <1>1
<1>4. \A s \in D : \E d \in 0 .. n - 1 : f[d] = s
  <2> TAKE s \in D
  <2>1. Dist(w, s) \in 0 .. n - 1
    BY DistFacts
  <2>2. Dist(w, At(w, Dist(w, s))) = Dist(w, s) /\ At(w, Dist(w, s)) \in Slots
    BY <2>1, <1>1
  <2>3. At(w, Dist(w, s)) = s
    BY <2>2, DistFacts
  <2> QED
    BY <2>1, <2>3
<1>5. f \in Bijection(0 .. n - 1, D)
  BY <1>2, <1>3, <1>4 DEF Bijection, Injection, Surjection, IsInjective
<1>6. ExistsBijection(0 .. n - 1, D)
  BY <1>5 DEF ExistsBijection
<1>7. IsFiniteSet(0 .. n - 1) /\ Cardinality(0 .. n - 1) = n
  BY FS_Interval
<1>8. Cardinality(D) = Cardinality(0 .. n - 1)
  BY <1>6, <1>7, FS_Bijection
<1> QED
  BY <1>7, <1>8

LEMMA SlotsApart ==
    ASSUME IInv
    PROVE  SlotsExclusive
<1>1. Types
  BY DEF IInv
<1>2. PICK w \in Slots, K \in Nat : Ring(w) /\ Reading(K)
  BY DEF IInv, RingAt
<1>3. \A t, u \in Threads : t # u => SlotOf(t) \cap SlotOf(u) = {}
  BY <1>2, SlotOfFacts DEF Ring
<1>4. \A t \in Threads : SlotOf(t) \cap ReadySlots = {}
  BY <1>2, SlotOfFacts DEF Ring, ReadySlots
<1>5. ASSUME "spawn" \notin faulted
      PROVE  sem + Cardinality((UNION {SlotOf(t) : t \in Threads}) \cup ReadySlots) = NumBlocks
  <2>1. \A t \in Threads : pc[t] # "panicked"
    BY <1>2, <1>5 DEF Reading
  <2>2. \A t \in Threads : SlotOf(t) = IF HasSlot(t) THEN {Slot(t)} ELSE {}
    BY <2>1, SlotOfFacts
  <2>3. \A s \in Slots : Dist(w, s) < InFlight <=>
          s \in ReadySlots \/ \E t \in Threads : HasSlot(t) /\ Slot(t) = s
    BY <1>2 DEF Ring, ReadySlots
  <2>4. \A t \in Threads : Slot(t) \in Slots
    BY <1>1, SlotType
  <2>5. (UNION {SlotOf(t) : t \in Threads}) \cup ReadySlots
          = {s \in Slots : Dist(w, s) < InFlight}
    BY <2>2, <2>3, <2>4 DEF ReadySlots
  <2>6. Cardinality({s \in Slots : Dist(w, s) < InFlight}) = InFlight
    BY <1>1, RdFields, RingSize
  <2>7. Cardinality((UNION {SlotOf(t) : t \in Threads}) \cup ReadySlots) = InFlight
    BY <2>5, <2>6
  <2>8. sem + InFlight = NumBlocks
    BY <1>1, RdFields, SlotCount DEF InFlight
  <2> QED
    BY <2>7, <2>8
<1> QED
  BY <1>3, <1>4, <1>5 DEF SlotsExclusive

LEMMA BuffersApart ==
    ASSUME IInv
    PROVE  BuffersExclusive
<1>1. Types
  BY DEF IInv
<1>2. PICK w \in Slots, held \in [Slots -> Bufs] :
        Ring(w) /\ Holds(w, held) /\ FreeList(held)
  BY DEF IInv, RingAt
<1>3. \A t \in Threads : BufOf(t) # {} =>
        /\ BufOf(t) = {held[Slot(t)]} /\ held[Slot(t)] \in Slots
        /\ HasSlot(t) /\ pc[t] # "load" /\ Slot(t) \in Slots
  <2> TAKE t \in Threads
  <2>1. Slot(t) \in Slots /\ held[Slot(t)] \in Bufs /\ th[t].buf \in Bufs
    BY <1>1, SlotType, WorkFields
  <2>2. pc[t] \in {"code", "post"} => held[Slot(t)] = th[t].buf
    BY <1>2 DEF Holds, Slot, Writes
  <2>3. pc[t] \in {"write", "free"} => held[Slot(t)] = th[t].buf
    BY <1>2 DEF Holds, Slot, Writes
  <2> QED
    BY <2>1, <2>2, <2>3 DEF BufOf, HasSlot, Codes, Writes, Bufs
<1>4. \A b \in ReadyBufs : \E s \in Slots :
        /\ b = held[s] /\ b # NoBuf
        /\ shared.ready[s] \/ \E u \in Threads : pc[u] = "load" /\ Slot(u) = s
  <2>1. \A u \in Threads : pc[u] = "load" =>
          Slot(u) = th[u].wi /\ th[u].wi \in Slots
          /\ held[th[u].wi] = blocks[th[u].wi].buf
    BY <1>1, <1>2, WorkFields DEF Holds, Slot, Writes
  <2>2. \A s \in Slots : shared.ready[s] => held[s] = blocks[s].buf
    BY <1>2 DEF Holds
  <2> QED
    BY <2>1, <2>2 DEF ReadyBufs, ReadySlots
<1>5. \A t, u \in Threads : HasSlot(t) /\ HasSlot(u) /\ Slot(t) = Slot(u) => t = u
  BY <1>2 DEF Ring
<1>6. \A r, s \in Slots : held[r] = held[s] /\ held[r] # NoBuf => r = s
  BY <1>2 DEF Holds
<1>7. \A t, u \in Threads : t # u => BufOf(t) \cap BufOf(u) = {}
  <2> SUFFICES ASSUME NEW t \in Threads, NEW u \in Threads, t # u,
                      NEW b \in BufOf(t), b \in BufOf(u)
               PROVE  FALSE
    OBVIOUS
  <2>1. b = held[Slot(t)] /\ b = held[Slot(u)] /\ b # NoBuf
    BY <1>3, SlotCount
  <2>2. Slot(t) = Slot(u)
    BY <2>1, <1>3, <1>6
  <2> QED
    BY <2>2, <1>3, <1>5
<1>8. \A t \in Threads : BufOf(t) \cap ReadyBufs = {}
  <2> SUFFICES ASSUME NEW t \in Threads, NEW b \in BufOf(t), b \in ReadyBufs
               PROVE  FALSE
    OBVIOUS
  <2>1. b = held[Slot(t)] /\ HasSlot(t) /\ pc[t] # "load" /\ Slot(t) \in Slots
    BY <1>3
  <2>2. PICK s \in Slots :
          /\ b = held[s] /\ b # NoBuf
          /\ shared.ready[s] \/ \E u \in Threads : pc[u] = "load" /\ Slot(u) = s
    BY <1>4
  <2>3. s = Slot(t)
    BY <2>1, <2>2, <1>6
  <2>4. ~shared.ready[s]
    BY <2>1, <2>3, <1>2 DEF Ring
  <2>5. PICK u \in Threads : pc[u] = "load" /\ Slot(u) = s
    BY <2>2, <2>4
  <2>6. HasSlot(u)
    BY <2>5 DEF HasSlot, Writes
  <2> QED
    BY <2>1, <2>3, <2>5, <2>6, <1>5
<1>9. DOMAIN shared.free = 1 .. Len(shared.free)
  BY <1>1, RdFields, LenProperties
<1>10. \A i \in DOMAIN shared.free :
         /\ \A t \in Threads : shared.free[i] \notin BufOf(t) \cup ReadyBufs
         /\ \A j \in DOMAIN shared.free : shared.free[i] = shared.free[j] => i = j
  <2>1. \A i \in DOMAIN shared.free : \A s \in Slots : shared.free[i] # held[s]
    BY <1>2, <1>9 DEF FreeList
  <2>2. \A i \in DOMAIN shared.free : \A t \in Threads : shared.free[i] \notin BufOf(t)
    BY <2>1, <1>3
  <2>3. \A i \in DOMAIN shared.free : shared.free[i] \notin ReadyBufs
    BY <2>1, <1>4
  <2>4. \A i, j \in DOMAIN shared.free : shared.free[i] = shared.free[j] => i = j
    BY <1>2, <1>9 DEF FreeList
  <2> QED
    BY <2>2, <2>3, <2>4
<1>11. \A t \in Threads : BufOf(t) \subseteq Slots
  BY <1>3
<1> QED
  BY <1>7, <1>8, <1>10, <1>11 DEF BuffersExclusive

LEMMA WritersApart ==
    ASSUME IInv
    PROVE  OneWriter
<1>1. Types
  BY DEF IInv
<1>2. PICK w \in Slots : Ring(w)
  BY DEF IInv, RingAt
<1>3. Writers = {t \in Threads : Owner(t)}
  BY DEF Writers, Owner, Writes
<1>4. \A t, u \in Threads : Owner(t) /\ Owner(u) => t = u
  BY <1>1, <1>2, OwnerFacts
<1>5. (Writers = {}) = (shared.write # Writing)
  BY <1>2, <1>3 DEF Ring
<1>6. Cardinality(Writers) <= 1
  <2>1. CASE Writers = {}
    BY <2>1, FS_EmptySet
  <2>2. CASE Writers # {}
    <3>1. PICK t : Writers = {t}
      BY <2>2, <1>3, <1>4
    <3>2. Cardinality({t}) = 1
      BY FS_Singleton
    <3> QED
      BY <3>1, <3>2
  <2> QED
    BY <2>1, <2>2
<1> QED
  BY <1>5, <1>6 DEF OneWriter

LEMMA InOrder ==
    ASSUME IInv
    PROVE  WrittenInOrder
<1>1. Types
  BY DEF IInv
<1>2. PICK K \in Nat, M \in Nat : Output(K, M)
  BY DEF IInv, RingAt
<1>3. \A i \in 1 .. Len(out) - 1 : out[i].hi <= out[i+1].lo
  BY <1>2 DEF Output
<1>4. ASSUME error = Ok
      PROVE  OutputIsPrefix
  <2>1. Len(out) = M /\ \A i \in 1 .. M : IsRef(out[i], i - 1)
    BY <1>2, <1>4 DEF Output
  <2>2. \A i \in 1 .. M : i \in Int /\ (i - 1) + 1 = i
    OBVIOUS
  <2>3. \A i \in 1 .. M : i \in 1 .. Len(RefOut) /\ out[i] = RefOut[i]
    BY <2>1, <2>2 DEF IsRef
  <2>4. Len(RefOut) \in Nat
    BY <1>1, RefFacts DEF Types
  <2>5. M <= Len(RefOut)
    <3>1. CASE M = 0
      BY <3>1, <2>4
    <3>2. CASE M # 0
      <4>1. M \in 1 .. M
        BY <3>2
      <4> QED
        BY <4>1, <2>3, <2>4
    <3> QED
      BY <3>1, <3>2
  <2>6. \A i \in 1 .. M - 1 : i \in 1 .. M
    OBVIOUS
  <2>7. out # <<>> => M \in 1 .. M
    <3>1. out # <<>> => Len(out) # 0
      BY <1>1, EmptySeq DEF Types
    <3> QED
      BY <3>1, <2>1
  <2> QED
    BY <2>1, <2>3, <2>5, <2>6, <2>7 DEF OutputIsPrefix
<1> QED
  BY <1>3, <1>4 DEF WrittenInOrder

LEMMA TypesOK ==
    ASSUME IInv
    PROVE  TypeOK
<1>1. Types /\ Ending
  BY DEF IInv
<1> DEFINE E == {t \in Threads : pc[t] \in {"last", "done"}}
<1>2. rd.started \in 1 .. NumThreads
  BY <1>1, RdFields
<1>3. E \subseteq 0 .. rd.started - 1
  <2> SUFFICES ASSUME NEW t \in E
               PROVE  t \in 0 .. rd.started - 1
    OBVIOUS
  <2>1. ~(t >= rd.started)
    BY <1>1 DEF Ending
  <2>2. t \in Int /\ t >= 0
    BY NumThreadsAssumption DEF Threads
  <2> QED
    BY <2>1, <2>2, <1>2, NumThreadsAssumption
<1>4. IsFiniteSet(0 .. rd.started - 1) /\ Cardinality(0 .. rd.started - 1) = rd.started
  BY <1>2, NumThreadsAssumption, FS_Interval
<1>5. IsFiniteSet(E) /\ Cardinality(E) <= rd.started
  BY <1>3, <1>4, FS_Subset
<1>6. Cardinality(E) \in Nat
  BY <1>5, FS_CardinalityType
<1>7. ended \in 0 .. rd.started
  BY <1>1, <1>2, <1>5, <1>6, NumThreadsAssumption DEF Ending
<1>8. \A t \in Threads : th[t].bi \in Slots /\ th[t].wi \in Slots
  BY <1>1, WorkFields
<1>9. /\ shared.ready \in [Slots -> BOOLEAN]
      /\ shared.free \in Seq(0 .. NumBlocks)
      /\ shared.write \in Slots \cup {Writing}
  BY <1>1, RdFields
<1> QED
  BY <1>1, <1>7, <1>8, <1>9 DEF Types, TypeOK, PCs

-----------------------------------------------------------------------------
\* Every variable keeps its type; in particular no index leaves the ring, and
\* no more threads end than were started.
THEOREM TypeCorrect == Spec => []TypeOK
  BY Inductive, TypesOK, PTL

(***************************************************************************)
(* The semaphore of mt_coder.rs bounds the ring: no slot and no output     *)
(* buffer of out_bufs is ever used for two blocks, for any number of       *)
(* threads and any order in which they finish.                             *)
(***************************************************************************)
THEOREM NeverShared == Spec => []NothingShared
<1>1. IInv => NothingShared
  BY SlotsApart, BuffersApart DEF NothingShared
<1> QED
  BY <1>1, Inductive, PTL

\* write_index of Shared is None exactly while one thread writes, whether it
\* claimed its turn before it encoded (direct_output) or after.
THEOREM WritesAlone == Spec => []OneWriter
  BY Inductive, WritersApart, PTL

\* The writer loop delivers the blocks in the order of the input, at most once,
\* and none is missing between two of them unless an error was set.
THEOREM Ordered == Spec => []WrittenInOrder
  BY Inductive, InOrder, PTL

\* code answers Ok only when the output is complete and nothing failed: no
\* thread's error is lost on the way to the result.
THEOREM OkMeansComplete == Spec => []OkIsComplete
<1>1. IInv => OkIsComplete
  BY DEF IInv, Ending
<1> QED
  BY <1>1, Inductive, PTL

=============================================================================
