-------------------------- MODULE LzFindMt_proofs --------------------------
(***************************************************************************)
(* Proofs about the threaded match finder.  First the protocol: who waits  *)
(* for whom, who holds the window, and which blocks of the two rings are   *)
(* in use.  Then what is in the blocks: at every moment the rings can be   *)
(* read as consecutive pieces of the stream between the places of the      *)
(* three threads, so that none takes a failure for the end of the stream   *)
(* and each finds its own bytes in a window that slides under it.          *)
(***************************************************************************)
EXTENDS LzFindMt, TLAPS, NaturalsInduction, WellFoundedInduction, SequenceTheorems

HashPcs == {"start", "loop", "enter", "gone"}
BtPcs == {"start", "loop", "lock", "begin", "run", "wait", "end", "stop", "stopping", "gone"}
LzPcs == {"idle", "init", "body", "wait", "stopping", "stopped", "joinbt", "joinhash", "scope", "done"}

Syncs == [processed : Nat, needStart : BOOLEAN, exit : BOOLEAN, stop : BOOLEAN,
          canStart : BOOLEAN, wasStopped : BOOLEAN, free : Int, filled : Int,
          cs : {"none", "user", "mover"}]

Control ==
    /\ pc \in [hash : HashPcs, bt : BtPcs, lz : LzPcs]
    /\ hs \in Syncs /\ bs \in Syncs
    /\ direct \in BOOLEAN

\* The fields of the three threads' states that the protocol is about.
Fields ==
    /\ "index" \in DOMAIN h /\ h.index \in Nat
    /\ "index" \in DOMAIN b /\ b.index \in Nat /\ "hblk" \in DOMAIN b
    /\ "blk" \in DOMAIN l

(***************************************************************************)
(* The two events of an MtSync.  While the consumer has not started it,    *)
(* the producer waits, and only the end of the threads wakes it; while it  *)
(* is started, it waits only to begin or because it was stopped.           *)
(***************************************************************************)
Handshake(s, producer, joining) ==
    /\ s.needStart =>
         /\ producer \in {"start", "gone"} /\ ~s.wasStopped /\ s.cs # "user"
         /\ s.canStart <=> joining /\ producer = "start"
         /\ s.canStart => s.exit
    /\ ~s.needStart =>
         /\ ~s.exit /\ producer # "gone"
         /\ producer = "start" <=> s.canStart \/ s.wasStopped
         /\ ~(s.canStart /\ s.wasStopped)
         /\ s.wasStopped => s.stop

\* Where the encoder is inside of a stream.
Active == {"body", "wait", "stopping"}

HashInv ==
    /\ Handshake(hs, pc.hash, pc.lz = "joinhash")
    /\ hs.cs # "mover"
    /\ hs.cs = "user" <=> ~direct /\ ~hs.needStart /\ pc.bt \in {"begin", "run", "end"}
    /\ pc.bt \in {"start", "gone"} => hs.needStart
    /\ pc.bt \in {"wait", "stopping", "lock"} => ~hs.needStart
    /\ pc.bt = "lock" => ~direct
    /\ ~hs.needStart => (hs.stop <=> pc.bt = "stopping")
    /\ pc.hash = "enter" => ~direct
    /\ pc.hash = "gone" => pc.lz \in {"idle", "joinhash", "done"}
    /\ pc.lz \in {"idle", "done"} => pc.hash = "gone"

BtInv ==
    /\ Handshake(bs, pc.bt, pc.lz = "joinbt")
    /\ bs.cs = "mover" <=> pc.hash = "enter"
    /\ bs.cs = "user" <=> ~direct /\ ~bs.needStart /\ pc.lz = "body"
    /\ pc.lz \in {"wait", "stopping"} => ~bs.needStart
    /\ pc.lz \notin Active => bs.needStart
    /\ ~bs.needStart => (bs.stop <=> pc.lz = "stopping")
    /\ pc.bt \in {"stop", "stopping"} => pc.lz = "stopping"
    /\ pc.bt = "gone" => pc.lz \in {"idle", "joinbt", "joinhash", "scope", "done"}
    /\ pc.lz \in {"idle", "joinhash", "scope", "done"} => pc.bt = "gone"

(***************************************************************************)
(* The two semaphores of an MtSync count the blocks of its ring: what was  *)
(* produced is filled, in the consumer's hands or free again, and the      *)
(* block in its hands is the last it asked for.                            *)
(***************************************************************************)
Hashed == IF hs.canStart THEN 0 ELSE h.index
Treed == IF bs.canStart THEN 0 ELSE b.index

HeadRing ==
    /\ hs.needStart /\ pc.lz \in Active /\ ~bs.wasStopped =>
         hs.free = HashNumBlocks /\ hs.filled = 0
    /\ ~hs.needStart /\ ~hs.stop =>
         /\ hs.processed > 0 /\ hs.free >= 0 /\ hs.filled >= 0
         /\ hs.free = HashNumBlocks + hs.processed - 1 - Hashed
         /\ hs.filled = Hashed - hs.processed + (IF pc.bt = "wait" THEN 1 ELSE 0)
         /\ b.hblk = (hs.processed - 1) % HashNumBlocks

AtWork == pc.bt \in {"lock", "begin", "run", "wait", "end"}

RecordRing ==
    /\ bs.needStart /\ pc.lz = "body" => bs.free = BtNumBlocks /\ bs.filled = 0
    /\ ~bs.needStart /\ ~bs.stop =>
         /\ bs.processed > 0 /\ bs.free >= 0 /\ bs.filled >= 0
         /\ bs.free = BtNumBlocks + bs.processed - 1 - Treed - (IF AtWork THEN 1 ELSE 0)
         /\ bs.filled = Treed - bs.processed + (IF pc.lz = "wait" THEN 1 ELSE 0)
         /\ l.blk = (bs.processed - 1) % BtNumBlocks

\* A stream begins only if one is left to encode.
StreamInv == stream \in Nat /\ (pc.lz \in {"idle", "init"} => stream < NumStreams)

Protocol == Control /\ Fields /\ HashInv /\ BtInv /\ HeadRing /\ RecordRing

IInv == Protocol /\ StreamInv

-----------------------------------------------------------------------------
\* The rings have blocks.
LEMMA Sizes == /\ HashNumBlocks \in Nat \ {0} /\ BtNumBlocks \in Nat \ {0}
  BY MtFinderAssumption

\* An MtSync keeps its type when its semaphores and flags change.
LEMMA SyncTypes ==
    ASSUME NEW s \in Syncs, NEW n \in Nat, NEW x \in Int, NEW y \in Int
    PROVE  /\ [s EXCEPT !.processed = n, !.free = x] \in Syncs
           /\ [s EXCEPT !.stop = TRUE, !.free = x] \in Syncs
           /\ [s EXCEPT !.free = x, !.wasStopped = TRUE] \in Syncs
           /\ [s EXCEPT !.free = x, !.filled = y] \in Syncs
           /\ [s EXCEPT !.filled = x, !.cs = "user"] \in Syncs
           /\ [s EXCEPT !.filled = x] \in Syncs
  BY DEF Syncs

\* What the operations of an MtSync do to its fields.
LEMMA AskFacts ==
    ASSUME NEW s \in Syncs, direct \in BOOLEAN
    PROVE  /\ AskBlock(s) \in Syncs
           /\ ~AskBlock(s).needStart
           /\ s.needStart =>
                /\ AskBlock(s).processed = 1 /\ AskBlock(s).canStart
                /\ ~AskBlock(s).stop /\ ~AskBlock(s).exit /\ ~AskBlock(s).wasStopped
                /\ AskBlock(s).free = s.free /\ AskBlock(s).filled = s.filled
                /\ AskBlock(s).cs = s.cs
           /\ ~s.needStart =>
                /\ AskBlock(s).processed = s.processed + 1
                /\ AskBlock(s).canStart = s.canStart
                /\ AskBlock(s).stop = s.stop /\ AskBlock(s).exit = s.exit
                /\ AskBlock(s).wasStopped = s.wasStopped
                /\ AskBlock(s).free = s.free + 1 /\ AskBlock(s).filled = s.filled
                /\ AskBlock(s).cs = IF direct THEN s.cs ELSE "none"
<1>1. CASE s.needStart
  BY <1>1 DEF AskBlock, Syncs
<1>2. CASE ~s.needStart /\ direct
  <2>1. AskBlock(s) = [s EXCEPT !.processed = @ + 1, !.free = @ + 1]
    BY <1>2 DEF AskBlock, Movable
  <2>2. s.processed + 1 \in Nat /\ s.free + 1 \in Int
    BY DEF Syncs
  <2>3. [s EXCEPT !.processed = s.processed + 1, !.free = s.free + 1] \in Syncs
    BY <2>2, SyncTypes
  <2>4. /\ AskBlock(s).processed = s.processed + 1 /\ AskBlock(s).free = s.free + 1
        /\ AskBlock(s).needStart = s.needStart /\ AskBlock(s).canStart = s.canStart
        /\ AskBlock(s).stop = s.stop /\ AskBlock(s).exit = s.exit /\ AskBlock(s).cs = s.cs
        /\ AskBlock(s).wasStopped = s.wasStopped /\ AskBlock(s).filled = s.filled
    BY <2>1 DEF Syncs
  <2> QED
    BY <1>2, <2>1, <2>3, <2>4
<1>3. CASE ~s.needStart /\ ~direct
  <2> DEFINE u == [s EXCEPT !.cs = "none"]
  <2>1. AskBlock(s) = [u EXCEPT !.processed = @ + 1, !.free = @ + 1]
    BY <1>3 DEF AskBlock, UnlockBuffer, Movable
  <2>2. u \in Syncs /\ u.processed = s.processed /\ u.free = s.free /\ u.filled = s.filled
        /\ u.stop = s.stop /\ u.exit = s.exit /\ u.wasStopped = s.wasStopped
        /\ u.canStart = s.canStart /\ u.needStart = s.needStart /\ u.cs = "none"
    BY DEF Syncs
  <2> HIDE DEF u
  <2>3. u.processed + 1 \in Nat /\ u.free + 1 \in Int
    BY <2>2 DEF Syncs
  <2>4. [u EXCEPT !.processed = u.processed + 1, !.free = u.free + 1] \in Syncs
    BY <2>2, <2>3, SyncTypes
  <2>5. /\ AskBlock(s).processed = u.processed + 1 /\ AskBlock(s).free = u.free + 1
        /\ AskBlock(s).needStart = u.needStart /\ AskBlock(s).canStart = u.canStart
        /\ AskBlock(s).stop = u.stop /\ AskBlock(s).exit = u.exit /\ AskBlock(s).cs = u.cs
        /\ AskBlock(s).wasStopped = u.wasStopped /\ AskBlock(s).filled = u.filled
    BY <2>1, <2>2 DEF Syncs
  <2> QED
    BY <1>3, <2>1, <2>2, <2>4, <2>5
<1> QED
  BY <1>1, <1>2, <1>3

\* What stop_writing does to the fields of an MtSync.
LEMMA StopFacts ==
    ASSUME NEW s \in Syncs
    PROVE  /\ AskStop(s) \in Syncs
           /\ AskStop(s).needStart = s.needStart /\ AskStop(s).processed = s.processed
           /\ AskStop(s).canStart = s.canStart /\ AskStop(s).exit = s.exit
           /\ AskStop(s).wasStopped = s.wasStopped /\ AskStop(s).stop
           /\ AskStop(s).cs = IF s.cs = "user" THEN "none" ELSE s.cs
<1>1. CASE s.cs = "user"
  <2> DEFINE u == [s EXCEPT !.cs = "none"]
  <2>1. AskStop(s) = [u EXCEPT !.stop = TRUE, !.free = @ + 1]
    BY <1>1 DEF AskStop, UnlockBuffer
  <2>2. u \in Syncs /\ u.processed = s.processed /\ u.free = s.free /\ u.filled = s.filled
        /\ u.stop = s.stop /\ u.exit = s.exit /\ u.wasStopped = s.wasStopped
        /\ u.canStart = s.canStart /\ u.needStart = s.needStart /\ u.cs = "none"
    BY DEF Syncs
  <2> HIDE DEF u
  <2>3. u.free + 1 \in Int
    BY <2>2 DEF Syncs
  <2>4. [u EXCEPT !.stop = TRUE, !.free = u.free + 1] \in Syncs
    BY <2>2, <2>3, SyncTypes
  <2>5. /\ AskStop(s).processed = u.processed /\ AskStop(s).stop
        /\ AskStop(s).needStart = u.needStart /\ AskStop(s).canStart = u.canStart
        /\ AskStop(s).exit = u.exit /\ AskStop(s).cs = u.cs
        /\ AskStop(s).wasStopped = u.wasStopped
    BY <2>1, <2>2 DEF Syncs
  <2> QED
    BY <1>1, <2>1, <2>2, <2>4, <2>5
<1>2. CASE s.cs # "user"
  <2>1. AskStop(s) = [s EXCEPT !.stop = TRUE, !.free = @ + 1]
    BY <1>2 DEF AskStop
  <2>2. s.free + 1 \in Int
    BY DEF Syncs
  <2>3. [s EXCEPT !.stop = TRUE, !.free = s.free + 1] \in Syncs
    BY <2>2, SyncTypes
  <2>4. /\ AskStop(s).processed = s.processed /\ AskStop(s).stop
        /\ AskStop(s).needStart = s.needStart /\ AskStop(s).canStart = s.canStart
        /\ AskStop(s).exit = s.exit /\ AskStop(s).cs = s.cs
        /\ AskStop(s).wasStopped = s.wasStopped
    BY <2>1 DEF Syncs
  <2> QED
    BY <1>2, <2>1, <2>3, <2>4
<1> QED
  BY <1>1, <1>2

\* The hash thread's number of a block.
LEMMA FillIndex ==
    ASSUME NEW g, NEW w, NEW tab
    PROVE  /\ DOMAIN HashFill(g, w, tab).g = DOMAIN g
           /\ "index" \in DOMAIN g => HashFill(g, w, tab).g.index = g.index
  BY DEF HashFill

\* The invariant holds before the threads are started.
LEMMA InitIInv == ASSUME Init PROVE Protocol
<1>1. Control
  <2>1. NewSync \in Syncs
    BY DEF NewSync, Syncs
  <2>2. pc \in [hash : HashPcs, bt : BtPcs, lz : LzPcs]
    BY DEF Init, HashPcs, BtPcs, LzPcs
  <2> QED
    BY <2>1, <2>2 DEF Init, Control
<1>2. Fields
  BY DEF Init, Fields, NewH, NewB, NewL
<1>3. HashInv /\ BtInv
  BY DEF Init, HashInv, BtInv, Handshake, NewSync, Active
<1>4. HeadRing /\ RecordRing
  BY DEF Init, HeadRing, RecordRing, NewSync, Active
<1> QED
  BY <1>1, <1>2, <1>3, <1>4 DEF Protocol

\* HashStart keeps the protocol.
LEMMA HashStartStep == ASSUME Protocol, HashStart PROVE Protocol'
<1>1. /\ pc.hash = "start" /\ hs.canStart
      /\ hs' = [hs EXCEPT !.canStart = FALSE] /\ UNCHANGED <<bs, direct, b, l>>
      /\ \/ hs.exit /\ pc' = [pc EXCEPT !.hash = "gone"] /\ h' = h
         \/ ~hs.exit /\ pc' = [pc EXCEPT !.hash = "loop"] /\ h' = [h EXCEPT !.index = 0]
  BY DEF HashStart, btVars, lzVars, inputVars
<1>2. Control'
  <2>1. hs' \in Syncs
    BY <1>1 DEF Protocol, Control, Syncs
  <2>2. bs' \in Syncs
    BY <1>1 DEF Protocol, Control, Syncs
  <2>3. pc' \in [hash : HashPcs, bt : BtPcs, lz : LzPcs]
    BY <1>1 DEF Protocol, Control, HashPcs, BtPcs, LzPcs
  <2> QED
    BY <1>1, <2>1, <2>2, <2>3 DEF Protocol, Control
<1>3. Fields'
  BY <1>1 DEF Protocol, Fields
<1>4. HashInv'
  BY <1>1 DEF Protocol, Control, Fields, Syncs, HashInv, BtInv, Handshake, Active
<1>5. BtInv'
  BY <1>1 DEF Protocol, Control, Fields, Syncs, HashInv, BtInv, Handshake, Active
<1>6. HeadRing'
  BY <1>1, Sizes DEF Protocol, Control, Fields, Syncs, HashInv, BtInv, Handshake, HeadRing, Hashed, Active
<1>7. RecordRing'
  BY <1>1, Sizes DEF Protocol, Control, Fields, Syncs, BtInv, HashInv, Handshake, RecordRing, Treed, AtWork, Active
<1> QED
  BY <1>2, <1>3, <1>4, <1>5, <1>6, <1>7 DEF Protocol

\* HashEnter keeps the protocol.
LEMMA HashEnterStep == ASSUME Protocol, HashEnter PROVE Protocol'
<1>1. /\ pc.hash = "loop" /\ ~direct /\ bs.cs = "none"
      /\ bs' = [bs EXCEPT !.cs = "mover"] /\ pc' = [pc EXCEPT !.hash = "enter"]
      /\ UNCHANGED <<hs, direct, h, b, l>>
  BY DEF HashEnter, NeedMove, Movable, hashVars, btVars, lzVars, inputVars
<1>2. Control'
  <2>1. hs' \in Syncs
    BY <1>1 DEF Protocol, Control, Syncs
  <2>2. bs' \in Syncs
    BY <1>1 DEF Protocol, Control, Syncs
  <2>3. pc' \in [hash : HashPcs, bt : BtPcs, lz : LzPcs]
    BY <1>1 DEF Protocol, Control, HashPcs, BtPcs, LzPcs
  <2> QED
    BY <1>1, <2>1, <2>2, <2>3 DEF Protocol, Control
<1>3. Fields'
  BY <1>1 DEF Protocol, Fields
<1>4. HashInv'
  BY <1>1 DEF Protocol, Control, Fields, Syncs, HashInv, BtInv, Handshake, Active
<1>5. BtInv'
  BY <1>1 DEF Protocol, Control, Fields, Syncs, HashInv, BtInv, Handshake, Active
<1>6. HeadRing'
  BY <1>1, Sizes DEF Protocol, Control, Fields, Syncs, HashInv, BtInv, Handshake, HeadRing, Hashed, Active
<1>7. RecordRing'
  BY <1>1, Sizes DEF Protocol, Control, Fields, Syncs, BtInv, HashInv, Handshake, RecordRing, Treed, AtWork, Active
<1> QED
  BY <1>2, <1>3, <1>4, <1>5, <1>6, <1>7 DEF Protocol

\* HashMove keeps the protocol.
LEMMA HashMoveStep == ASSUME Protocol, HashMove PROVE Protocol'
<1>1. /\ pc.hash = "enter" /\ hs.cs = "none"
      /\ bs' = [bs EXCEPT !.cs = "none"] /\ pc' = [pc EXCEPT !.hash = "loop"]
      /\ UNCHANGED <<hs, direct, b, l>>
      /\ DOMAIN h' = DOMAIN h /\ ("index" \in DOMAIN h => h'.index = h.index)
  BY DEF HashMove, UnlockBuffer, btVars, lzVars, inputVars
<1>2. Control'
  <2>1. hs' \in Syncs
    BY <1>1 DEF Protocol, Control, Syncs
  <2>2. bs' \in Syncs
    BY <1>1 DEF Protocol, Control, Syncs
  <2>3. pc' \in [hash : HashPcs, bt : BtPcs, lz : LzPcs]
    BY <1>1 DEF Protocol, Control, HashPcs, BtPcs, LzPcs
  <2> QED
    BY <1>1, <2>1, <2>2, <2>3 DEF Protocol, Control
<1>3. Fields'
  BY <1>1 DEF Protocol, Fields
<1>4. HashInv'
  BY <1>1 DEF Protocol, Control, Fields, Syncs, HashInv, BtInv, Handshake, Active
<1>5. BtInv'
  BY <1>1 DEF Protocol, Control, Fields, Syncs, HashInv, BtInv, Handshake, Active
<1>6. HeadRing'
  BY <1>1, Sizes DEF Protocol, Control, Fields, Syncs, HashInv, BtInv, Handshake, HeadRing, Hashed, Active
<1>7. RecordRing'
  BY <1>1, Sizes DEF Protocol, Control, Fields, Syncs, BtInv, HashInv, Handshake, RecordRing, Treed, AtWork, Active
<1> QED
  BY <1>2, <1>3, <1>4, <1>5, <1>6, <1>7 DEF Protocol

\* HashBlock keeps the protocol.
LEMMA HashBlockStep == ASSUME Protocol, HashBlock PROVE Protocol'
<1>1. /\ pc.hash = "loop" /\ hs.free > 0 /\ UNCHANGED <<bs, direct, b, l>>
      /\ \/ hs.stop /\ hs' = [hs EXCEPT !.free = @ - 1, !.wasStopped = TRUE]
            /\ pc' = [pc EXCEPT !.hash = "start"] /\ h' = h
         \/ /\ ~hs.stop /\ hs' = [hs EXCEPT !.free = @ - 1, !.filled = @ + 1] /\ pc' = pc
            /\ DOMAIN h' = DOMAIN h /\ ("index" \in DOMAIN h => h'.index = h.index + 1)
  <2>1. ASSUME ~hs.stop, NEW o \in Reads, NEW f,
               f = HashFill([h EXCEPT !.streamPos = @ + o.n, !.ended = @ \/ o.end,
                                     !.err = @ \/ o.err], Filled(o), high),
               h' = [f.g EXCEPT !.index = @ + 1]
        PROVE  DOMAIN h' = DOMAIN h /\ ("index" \in DOMAIN h => h'.index = h.index + 1)
    <3> DEFINE g == [h EXCEPT !.streamPos = @ + o.n, !.ended = @ \/ o.end, !.err = @ \/ o.err]
    <3>1. DOMAIN g = DOMAIN h /\ ("index" \in DOMAIN h => g.index = h.index)
      OBVIOUS
    <3>2. f = HashFill(g, Filled(o), high)
      BY <2>1
    <3> HIDE DEF g
    <3>3. DOMAIN f.g = DOMAIN g /\ ("index" \in DOMAIN g => f.g.index = g.index)
      BY <3>2, FillIndex
    <3> QED
      BY <2>1, <3>1, <3>3
  <2>2. CASE hs.stop
    BY <2>2 DEF HashBlock, hashVars, btVars, lzVars, inputVars
  <2>3. CASE ~hs.stop
    <3>1. /\ pc.hash = "loop" /\ hs.free > 0 /\ UNCHANGED <<bs, direct, b, l, pc>>
          /\ hs' = [hs EXCEPT !.free = @ - 1, !.filled = @ + 1]
      BY <2>3 DEF HashBlock, hashVars, btVars, lzVars, inputVars
    <3> DEFINE Fill(o, w, f) ==
                 /\ win' = w /\ fed' = fed + o.n
                 /\ h' = [f.g EXCEPT !.index = @ + 1]
                 /\ high' = f.tab
                 /\ hashBuf' = [hashBuf EXCEPT ![h.index % HashNumBlocks] = f.block]
    <3>2. \/ h' = [h EXCEPT !.failed = TRUE, !.ended = TRUE, !.index = @ + 1]
          \/ \E o \in Reads : \E w \in {Filled(o)} :
             \E f \in {HashFill([h EXCEPT !.streamPos = @ + o.n, !.ended = @ \/ o.end,
                                         !.err = @ \/ o.err], w, high)} : Fill(o, w, f)
      BY <2>3, Zenon DEF HashBlock
    <3>3. DOMAIN h' = DOMAIN h /\ ("index" \in DOMAIN h => h'.index = h.index + 1)
      <4>1. CASE h' = [h EXCEPT !.failed = TRUE, !.ended = TRUE, !.index = @ + 1]
        BY <4>1
      <4>2. CASE \E o \in Reads : \E w \in {Filled(o)} :
                 \E f \in {HashFill([h EXCEPT !.streamPos = @ + o.n, !.ended = @ \/ o.end,
                                             !.err = @ \/ o.err], w, high)} : Fill(o, w, f)
        <5>1. PICK o \in Reads : \E w \in {Filled(o)} :
                \E f \in {HashFill([h EXCEPT !.streamPos = @ + o.n, !.ended = @ \/ o.end,
                                            !.err = @ \/ o.err], w, high)} : Fill(o, w, f)
          BY <4>2
        <5>2. PICK f : /\ f = HashFill([h EXCEPT !.streamPos = @ + o.n, !.ended = @ \/ o.end,
                                            !.err = @ \/ o.err], Filled(o), high)
                       /\ h' = [f.g EXCEPT !.index = @ + 1]
          BY <5>1
        <5> QED
          BY <2>1, <2>3, <5>2
      <4> QED
        BY <3>2, <4>1, <4>2
    <3> QED
      BY <2>3, <3>1, <3>3
  <2> QED
    BY <2>2, <2>3
<1>2. Control'
  <2>1. hs' \in Syncs
    <3>1. hs \in Syncs /\ hs.free - 1 \in Int /\ hs.filled + 1 \in Int /\ hs.filled - 1 \in Int
      BY DEF Protocol, Control, Syncs
    <3>2. /\ [hs EXCEPT !.free = hs.free - 1, !.wasStopped = TRUE] \in Syncs
          /\ [hs EXCEPT !.free = hs.free - 1, !.filled = hs.filled + 1] \in Syncs
      BY <3>1, SyncTypes
    <3> QED
      BY <1>1, <3>1, <3>2
  <2>2. bs' \in Syncs
    BY <1>1 DEF Protocol, Control, Syncs
  <2>3. pc' \in [hash : HashPcs, bt : BtPcs, lz : LzPcs]
    BY <1>1 DEF Protocol, Control, HashPcs, BtPcs, LzPcs
  <2> QED
    BY <1>1, <2>1, <2>2, <2>3 DEF Protocol, Control
<1>3. Fields'
  BY <1>1 DEF Protocol, Fields
<1>4. HashInv'
  BY ZenonT(40), <1>1 DEF Protocol, Control, Fields, Syncs, HashInv, BtInv, Handshake, Active
<1>5. BtInv'
  BY <1>1 DEF Protocol, Control, Fields, Syncs, HashInv, BtInv, Handshake, Active
<1>6. HeadRing'
  <2>1. CASE hs.stop
    BY <1>1, <2>1, Sizes DEF Protocol, Control, Fields, Syncs, HashInv, BtInv, Handshake, HeadRing, Hashed, Active
  <2>2. CASE ~hs.stop
    <3>1. h'.index = h.index + 1 /\ pc' = pc /\ b' = b /\ l' = l /\ bs' = bs
      BY <1>1, <2>2 DEF Protocol, Fields
    <3>2. /\ hs'.free = hs.free - 1 /\ hs'.filled = hs.filled + 1 /\ hs'.processed = hs.processed
          /\ hs'.needStart = hs.needStart /\ hs'.stop = hs.stop /\ hs'.canStart = hs.canStart
      BY <1>1, <2>2 DEF Protocol, Control, Syncs
    <3>3. ~hs.needStart /\ ~hs.canStart
      BY <1>1 DEF Protocol, HashInv, Handshake
    <3> QED
      BY <1>1, <2>2, <3>1, <3>2, <3>3, Sizes DEF Protocol, Control, Fields, Syncs, HeadRing, Hashed
  <2> QED
    BY <2>1, <2>2
<1>7. RecordRing'
  BY <1>1, Sizes DEF Protocol, Control, Fields, Syncs, BtInv, HashInv, Handshake, RecordRing, Treed, AtWork, Active
<1> QED
  BY <1>2, <1>3, <1>4, <1>5, <1>6, <1>7 DEF Protocol

\* BtStart keeps the protocol.
LEMMA BtStartStep == ASSUME Protocol, BtStart PROVE Protocol'
<1>1. /\ pc.bt = "start" /\ bs.canStart
      /\ bs' = [bs EXCEPT !.canStart = FALSE] /\ b' = [b EXCEPT !.index = 0]
      /\ pc' = [pc EXCEPT !.bt = IF bs.exit THEN "gone" ELSE "loop"]
      /\ UNCHANGED <<hs, direct, h, l>>
  BY DEF BtStart, BtGoes, hashVars, lzVars, inputVars
<1>2. Control'
  <2>1. hs' \in Syncs
    BY <1>1 DEF Protocol, Control, Syncs
  <2>2. bs' \in Syncs
    BY <1>1 DEF Protocol, Control, Syncs
  <2>3. pc' \in [hash : HashPcs, bt : BtPcs, lz : LzPcs]
    BY <1>1 DEF Protocol, Control, HashPcs, BtPcs, LzPcs
  <2> QED
    BY <1>1, <2>1, <2>2, <2>3 DEF Protocol, Control
<1>3. Fields'
  BY <1>1 DEF Protocol, Fields
<1>4. HashInv'
  BY <1>1 DEF Protocol, Control, Fields, Syncs, HashInv, BtInv, Handshake, Active
<1>5. BtInv'
  BY <1>1 DEF Protocol, Control, Fields, Syncs, HashInv, BtInv, Handshake, Active
<1>6. HeadRing'
  BY <1>1, Sizes DEF Protocol, Control, Fields, Syncs, HashInv, BtInv, Handshake, HeadRing, Hashed, Active
<1>7. RecordRing'
  BY <1>1, Sizes DEF Protocol, Control, Fields, Syncs, BtInv, HashInv, Handshake, RecordRing, Treed, AtWork, Active
<1> QED
  BY <1>2, <1>3, <1>4, <1>5, <1>6, <1>7 DEF Protocol

\* BtFree keeps the protocol.
LEMMA BtFreeStep == ASSUME Protocol, BtFree PROVE Protocol'
<1>1. /\ pc.bt = "loop" /\ bs.free > 0
      /\ bs' = [bs EXCEPT !.free = @ - 1]
      /\ pc' = [pc EXCEPT !.bt = IF bs.stop THEN "stop"
                                 ELSE IF ~direct /\ ~hs.needStart THEN "lock" ELSE "begin"]
      /\ UNCHANGED <<hs, direct, h, b, l>>
  BY DEF BtFree, BtGoes, Movable, hashVars, btVars, lzVars, inputVars
<1>2. Control'
  <2>1. hs' \in Syncs
    BY <1>1 DEF Protocol, Control, Syncs
  <2>2. bs' \in Syncs
    BY <1>1 DEF Protocol, Control, Syncs
  <2>3. pc' \in [hash : HashPcs, bt : BtPcs, lz : LzPcs]
    BY <1>1 DEF Protocol, Control, HashPcs, BtPcs, LzPcs
  <2> QED
    BY <1>1, <2>1, <2>2, <2>3 DEF Protocol, Control
<1>3. Fields'
  BY <1>1 DEF Protocol, Fields
<1>4. HashInv'
  BY <1>1 DEF Protocol, Control, Fields, Syncs, HashInv, BtInv, Handshake, Active
<1>5. BtInv'
  BY <1>1 DEF Protocol, Control, Fields, Syncs, HashInv, BtInv, Handshake, Active
<1>6. HeadRing'
  BY <1>1, Sizes DEF Protocol, Control, Fields, Syncs, HashInv, BtInv, Handshake, HeadRing, Hashed, Active
<1>7. RecordRing'
  BY <1>1, Sizes DEF Protocol, Control, Fields, Syncs, BtInv, HashInv, Handshake, RecordRing, Treed, AtWork, Active
<1> QED
  BY <1>2, <1>3, <1>4, <1>5, <1>6, <1>7 DEF Protocol

\* BtLock keeps the protocol.
LEMMA BtLockStep == ASSUME Protocol, BtLock PROVE Protocol'
<1>1. /\ pc.bt = "lock" /\ (~direct => hs.cs = "none")
      /\ hs' = IF ~direct THEN [hs EXCEPT !.cs = "user"] ELSE hs
      /\ pc' = [pc EXCEPT !.bt = "begin"]
      /\ UNCHANGED <<bs, direct, h, l>>
      /\ DOMAIN b' = DOMAIN b
      /\ "index" \in DOMAIN b => b'.index = b.index
      /\ "hblk" \in DOMAIN b => b'.hblk = b.hblk
  BY DEF BtLock, BtGoes, CanLock, LockBuffer, Movable, ApplyBtShift, hashVars, lzVars, inputVars
<1>2. Control'
  <2>1. hs' \in Syncs
    BY <1>1 DEF Protocol, Control, Syncs
  <2>2. bs' \in Syncs
    BY <1>1 DEF Protocol, Control, Syncs
  <2>3. pc' \in [hash : HashPcs, bt : BtPcs, lz : LzPcs]
    BY <1>1 DEF Protocol, Control, HashPcs, BtPcs, LzPcs
  <2> QED
    BY <1>1, <2>1, <2>2, <2>3 DEF Protocol, Control
<1>3. Fields'
  BY <1>1 DEF Protocol, Fields
<1>4. HashInv'
  BY <1>1 DEF Protocol, Control, Fields, Syncs, HashInv, BtInv, Handshake, Active
<1>5. BtInv'
  BY <1>1 DEF Protocol, Control, Fields, Syncs, HashInv, BtInv, Handshake, Active
<1>6. HeadRing'
  BY <1>1, Sizes DEF Protocol, Control, Fields, Syncs, HashInv, BtInv, Handshake, HeadRing, Hashed, Active
<1>7. RecordRing'
  BY <1>1, Sizes DEF Protocol, Control, Fields, Syncs, BtInv, HashInv, Handshake, RecordRing, Treed, AtWork, Active
<1> QED
  BY <1>2, <1>3, <1>4, <1>5, <1>6, <1>7 DEF Protocol

\* BtBegin keeps the protocol.
LEMMA BtBeginStep == ASSUME Protocol, BtBegin PROVE Protocol'
<1>1. /\ pc.bt = "begin"
      /\ pc' = [pc EXCEPT !.bt = IF b.failure THEN "end" ELSE "run"]
      /\ UNCHANGED <<hs, bs, direct, h, l>>
      /\ DOMAIN b' = DOMAIN b
      /\ "index" \in DOMAIN b => b'.index = b.index
      /\ "hblk" \in DOMAIN b => b'.hblk = b.hblk
  BY DEF BtBegin, BtGoes, hashVars, lzVars, inputVars
<1>2. Control'
  <2>1. hs' \in Syncs
    BY <1>1 DEF Protocol, Control, Syncs
  <2>2. bs' \in Syncs
    BY <1>1 DEF Protocol, Control, Syncs
  <2>3. pc' \in [hash : HashPcs, bt : BtPcs, lz : LzPcs]
    BY <1>1 DEF Protocol, Control, HashPcs, BtPcs, LzPcs
  <2> QED
    BY <1>1, <2>1, <2>2, <2>3 DEF Protocol, Control
<1>3. Fields'
  BY <1>1 DEF Protocol, Fields
<1>4. HashInv'
  BY <1>1 DEF Protocol, Control, Fields, Syncs, HashInv, BtInv, Handshake, Active
<1>5. BtInv'
  BY <1>1 DEF Protocol, Control, Fields, Syncs, HashInv, BtInv, Handshake, Active
<1>6. HeadRing'
  BY <1>1, Sizes DEF Protocol, Control, Fields, Syncs, HashInv, BtInv, Handshake, HeadRing, Hashed, Active
<1>7. RecordRing'
  BY <1>1, Sizes DEF Protocol, Control, Fields, Syncs, BtInv, HashInv, Handshake, RecordRing, Treed, AtWork, Active
<1> QED
  BY <1>2, <1>3, <1>4, <1>5, <1>6, <1>7 DEF Protocol

\* BtAsk keeps the protocol.
LEMMA BtAskStep == ASSUME Protocol, BtAsk PROVE Protocol'
<1>1. /\ pc.bt = "run"
      /\ hs' = AskBlock(hs) /\ pc' = [pc EXCEPT !.bt = "wait"]
      /\ UNCHANGED <<bs, direct, h, l>>
      /\ b' = [b EXCEPT !.hblk = AskIndex(hs) % HashNumBlocks]
  BY DEF BtAsk, BtGoes, hashVars, lzVars, inputVars
<1>8. /\ hs \in Syncs /\ direct \in BOOLEAN
  BY DEF Protocol, Control
<1>9. /\ hs' \in Syncs /\ ~hs'.needStart
      /\ hs.needStart =>
           /\ hs'.processed = 1 /\ hs'.canStart /\ ~hs'.stop /\ ~hs'.exit /\ ~hs'.wasStopped
           /\ hs'.free = hs.free /\ hs'.filled = hs.filled /\ hs'.cs = hs.cs
      /\ ~hs.needStart =>
           /\ hs'.processed = hs.processed + 1 /\ hs'.canStart = hs.canStart
           /\ hs'.stop = hs.stop /\ hs'.exit = hs.exit /\ hs'.wasStopped = hs.wasStopped
           /\ hs'.free = hs.free + 1 /\ hs'.filled = hs.filled
           /\ hs'.cs = IF direct THEN hs.cs ELSE "none"
  BY <1>1, <1>8, AskFacts
<1>2. Control'
  <2>1. hs' \in Syncs
    BY <1>9
  <2>2. bs' \in Syncs
    BY <1>1 DEF Protocol, Control, Syncs
  <2>3. pc' \in [hash : HashPcs, bt : BtPcs, lz : LzPcs]
    BY <1>1 DEF Protocol, Control, HashPcs, BtPcs, LzPcs
  <2> QED
    BY <1>1, <2>1, <2>2, <2>3 DEF Protocol, Control
<1>3. Fields'
  BY <1>1 DEF Protocol, Fields
<1>4. HashInv'
  BY <1>1, <1>9 DEF Protocol, Control, Fields, Syncs, HashInv, BtInv, Handshake, Active
<1>5. BtInv'
  BY <1>1 DEF Protocol, Control, Fields, Syncs, HashInv, BtInv, Handshake, Active
<1>6. HeadRing'
  <2>1. CASE hs.needStart
    BY <1>1, <1>9, <2>1, Sizes DEF AskIndex, Protocol, Control, Fields, Syncs, HashInv, BtInv, Handshake, HeadRing, Hashed, Active
  <2>2. CASE ~hs.needStart
    BY <1>1, <1>9, <2>2, Sizes DEF AskIndex, Protocol, Control, Fields, Syncs, HashInv, BtInv, Handshake, HeadRing, Hashed, Active
  <2> QED
    BY <2>1, <2>2
<1>7. RecordRing'
  BY <1>1, Sizes DEF Protocol, Control, Fields, Syncs, BtInv, HashInv, Handshake, RecordRing, Treed, AtWork, Active
<1> QED
  BY <1>2, <1>3, <1>4, <1>5, <1>6, <1>7 DEF Protocol

\* BtTake keeps the protocol.
LEMMA BtTakeStep == ASSUME Protocol, BtTake PROVE Protocol'
<1>1. /\ pc.bt = "wait" /\ hs.filled > 0 /\ (~direct => hs.cs = "none")
      /\ hs' = IF ~direct THEN [hs EXCEPT !.filled = @ - 1, !.cs = "user"]
                          ELSE [hs EXCEPT !.filled = @ - 1]
      /\ pc' = [pc EXCEPT !.bt = "run"] \/ pc' = [pc EXCEPT !.bt = "end"]
      /\ UNCHANGED <<bs, direct, h, l>>
      /\ DOMAIN b' = DOMAIN b
      /\ "index" \in DOMAIN b => b'.index = b.index
      /\ "hblk" \in DOMAIN b => b'.hblk = b.hblk
  BY DEF BtTake, BtGoes, CanTake, CanLock, TakeBlock, LockBuffer, Movable, ApplyBtShift, BtFailed, hashVars, lzVars, inputVars
<1>2. Control'
  <2>1. hs' \in Syncs
    <3>1. hs \in Syncs /\ hs.free - 1 \in Int /\ hs.filled + 1 \in Int /\ hs.filled - 1 \in Int
      BY DEF Protocol, Control, Syncs
    <3>2. /\ [hs EXCEPT !.filled = hs.filled - 1, !.cs = "user"] \in Syncs
          /\ [hs EXCEPT !.filled = hs.filled - 1] \in Syncs
      BY <3>1, SyncTypes
    <3> QED
      BY <1>1, <3>1, <3>2
  <2>2. bs' \in Syncs
    BY <1>1 DEF Protocol, Control, Syncs
  <2>3. pc' \in [hash : HashPcs, bt : BtPcs, lz : LzPcs]
    BY <1>1 DEF Protocol, Control, HashPcs, BtPcs, LzPcs
  <2> QED
    BY <1>1, <2>1, <2>2, <2>3 DEF Protocol, Control
<1>3. Fields'
  BY <1>1 DEF Protocol, Fields
<1>4. HashInv'
  BY <1>1 DEF Protocol, Control, Fields, Syncs, HashInv, BtInv, Handshake, Active
<1>5. BtInv'
  BY <1>1 DEF Protocol, Control, Fields, Syncs, HashInv, BtInv, Handshake, Active
<1>6. HeadRing'
  BY <1>1, Sizes DEF Protocol, Control, Fields, Syncs, HashInv, BtInv, Handshake, HeadRing, Hashed, Active
<1>7. RecordRing'
  BY <1>1, Sizes DEF Protocol, Control, Fields, Syncs, BtInv, HashInv, Handshake, RecordRing, Treed, AtWork, Active
<1> QED
  BY <1>2, <1>3, <1>4, <1>5, <1>6, <1>7 DEF Protocol

\* BtWalk keeps the protocol.
LEMMA BtWalkStep == ASSUME Protocol, BtWalk PROVE Protocol'
<1>1. /\ pc.bt = "run"
      /\ pc' = [pc EXCEPT !.bt = "run"] \/ pc' = [pc EXCEPT !.bt = "end"]
      /\ UNCHANGED <<hs, bs, direct, h, l>>
      /\ DOMAIN b' = DOMAIN b
      /\ "index" \in DOMAIN b => b'.index = b.index
      /\ "hblk" \in DOMAIN b => b'.hblk = b.hblk
  BY ZenonT(40) DEF BtWalk, BtGoes, BtFailed, hashVars, lzVars, inputVars
<1>2. Control'
  <2>1. hs' \in Syncs
    BY <1>1 DEF Protocol, Control, Syncs
  <2>2. bs' \in Syncs
    BY <1>1 DEF Protocol, Control, Syncs
  <2>3. pc' \in [hash : HashPcs, bt : BtPcs, lz : LzPcs]
    BY <1>1 DEF Protocol, Control, HashPcs, BtPcs, LzPcs
  <2> QED
    BY <1>1, <2>1, <2>2, <2>3 DEF Protocol, Control
<1>3. Fields'
  BY <1>1 DEF Protocol, Fields
<1>4. HashInv'
  BY <1>1 DEF Protocol, Control, Fields, Syncs, HashInv, BtInv, Handshake, Active
<1>5. BtInv'
  BY <1>1 DEF Protocol, Control, Fields, Syncs, HashInv, BtInv, Handshake, Active
<1>6. HeadRing'
  BY <1>1, Sizes DEF Protocol, Control, Fields, Syncs, HashInv, BtInv, Handshake, HeadRing, Hashed, Active
<1>7. RecordRing'
  BY <1>1, Sizes DEF Protocol, Control, Fields, Syncs, BtInv, HashInv, Handshake, RecordRing, Treed, AtWork, Active
<1> QED
  BY <1>2, <1>3, <1>4, <1>5, <1>6, <1>7 DEF Protocol

\* BtPanic keeps the protocol.
LEMMA BtPanicStep == ASSUME Protocol, BtPanic PROVE Protocol'
<1>1. /\ pc.bt = "run"
      /\ pc' = [pc EXCEPT !.bt = "end"]
      /\ UNCHANGED <<hs, bs, direct, h, l>>
      /\ DOMAIN b' = DOMAIN b
      /\ "index" \in DOMAIN b => b'.index = b.index
      /\ "hblk" \in DOMAIN b => b'.hblk = b.hblk
  BY DEF BtPanic, BtGoes, BtFailed, hashVars, lzVars, inputVars
<1>2. Control'
  <2>1. hs' \in Syncs
    BY <1>1 DEF Protocol, Control, Syncs
  <2>2. bs' \in Syncs
    BY <1>1 DEF Protocol, Control, Syncs
  <2>3. pc' \in [hash : HashPcs, bt : BtPcs, lz : LzPcs]
    BY <1>1 DEF Protocol, Control, HashPcs, BtPcs, LzPcs
  <2> QED
    BY <1>1, <2>1, <2>2, <2>3 DEF Protocol, Control
<1>3. Fields'
  BY <1>1 DEF Protocol, Fields
<1>4. HashInv'
  BY <1>1 DEF Protocol, Control, Fields, Syncs, HashInv, BtInv, Handshake, Active
<1>5. BtInv'
  BY <1>1 DEF Protocol, Control, Fields, Syncs, HashInv, BtInv, Handshake, Active
<1>6. HeadRing'
  BY <1>1, Sizes DEF Protocol, Control, Fields, Syncs, HashInv, BtInv, Handshake, HeadRing, Hashed, Active
<1>7. RecordRing'
  BY <1>1, Sizes DEF Protocol, Control, Fields, Syncs, BtInv, HashInv, Handshake, RecordRing, Treed, AtWork, Active
<1> QED
  BY <1>2, <1>3, <1>4, <1>5, <1>6, <1>7 DEF Protocol

\* BtFinish keeps the protocol.
LEMMA BtFinishStep == ASSUME Protocol, BtFinish PROVE Protocol'
<1>1. /\ pc.bt \in {"run", "end"}
      /\ hs' = IF ~direct THEN [hs EXCEPT !.cs = "none"] ELSE hs
      /\ bs' = [bs EXCEPT !.filled = @ + 1] /\ pc' = [pc EXCEPT !.bt = "loop"]
      /\ UNCHANGED <<direct, h, l>>
      /\ DOMAIN b' = DOMAIN b
      /\ "index" \in DOMAIN b => b'.index = b.index + 1
      /\ "index" \in DOMAIN b /\ "hblk" \in DOMAIN b => b'.hblk = b.hblk
  BY DEF BtFinish, BtGoes, UnlockBuffer, Movable, hashVars, lzVars, inputVars
<1>2. Control'
  <2>1. hs' \in Syncs
    BY <1>1 DEF Protocol, Control, Syncs
  <2>2. bs' \in Syncs
    BY <1>1 DEF Protocol, Control, Syncs
  <2>3. pc' \in [hash : HashPcs, bt : BtPcs, lz : LzPcs]
    BY <1>1 DEF Protocol, Control, HashPcs, BtPcs, LzPcs
  <2> QED
    BY <1>1, <2>1, <2>2, <2>3 DEF Protocol, Control
<1>3. Fields'
  BY <1>1 DEF Protocol, Fields
<1>4. HashInv'
  BY <1>1 DEF Protocol, Control, Fields, Syncs, HashInv, BtInv, Handshake, Active
<1>5. BtInv'
  BY <1>1 DEF Protocol, Control, Fields, Syncs, HashInv, BtInv, Handshake, Active
<1>6. HeadRing'
  BY <1>1, Sizes DEF Protocol, Control, Fields, Syncs, HashInv, BtInv, Handshake, HeadRing, Hashed, Active
<1>7. RecordRing'
  BY <1>1, Sizes DEF Protocol, Control, Fields, Syncs, BtInv, HashInv, Handshake, RecordRing, Treed, AtWork, Active
<1> QED
  BY <1>2, <1>3, <1>4, <1>5, <1>6, <1>7 DEF Protocol

\* BtStop keeps the protocol.
LEMMA BtStopStep == ASSUME Protocol, BtStop PROVE Protocol'
<1>1. /\ pc.bt = "stop"
      /\ hs' = IF hs.needStart THEN hs ELSE AskStop(hs)
      /\ bs' = [bs EXCEPT !.wasStopped = @ \/ hs.needStart]
      /\ pc' = [pc EXCEPT !.bt = IF hs.needStart THEN "start" ELSE "stopping"]
      /\ UNCHANGED <<direct, h, b, l>>
  BY DEF BtStop, BtGoes, hashVars, btVars, lzVars, inputVars
<1>8. hs \in Syncs
  BY DEF Protocol, Control
<1>9. /\ hs' \in Syncs /\ hs'.needStart = hs.needStart /\ hs'.processed = hs.processed
      /\ hs'.canStart = hs.canStart /\ hs'.exit = hs.exit /\ hs'.wasStopped = hs.wasStopped
      /\ ~hs.needStart => hs'.stop /\ hs'.cs = IF hs.cs = "user" THEN "none" ELSE hs.cs
      /\ hs.needStart => hs' = hs
  BY <1>1, <1>8, StopFacts
<1>2. Control'
  <2>1. hs' \in Syncs
    BY <1>9
  <2>2. bs' \in Syncs
    BY <1>1 DEF Protocol, Control, Syncs
  <2>3. pc' \in [hash : HashPcs, bt : BtPcs, lz : LzPcs]
    BY <1>1 DEF Protocol, Control, HashPcs, BtPcs, LzPcs
  <2> QED
    BY <1>1, <2>1, <2>2, <2>3 DEF Protocol, Control
<1>3. Fields'
  BY <1>1 DEF Protocol, Fields
<1>4. HashInv'
  BY <1>1, <1>9 DEF Protocol, Control, Fields, Syncs, HashInv, BtInv, Handshake, Active
<1>5. BtInv'
  BY <1>1 DEF Protocol, Control, Fields, Syncs, HashInv, BtInv, Handshake, Active
<1>6. HeadRing'
  BY <1>1, <1>9, Sizes DEF Protocol, Control, Fields, Syncs, HashInv, BtInv, Handshake, HeadRing, Hashed, Active
<1>7. RecordRing'
  BY <1>1, Sizes DEF Protocol, Control, Fields, Syncs, BtInv, HashInv, Handshake, RecordRing, Treed, AtWork, Active
<1> QED
  BY <1>2, <1>3, <1>4, <1>5, <1>6, <1>7 DEF Protocol

\* BtStopped keeps the protocol.
LEMMA BtStoppedStep == ASSUME Protocol, BtStopped PROVE Protocol'
<1>1. /\ pc.bt = "stopping" /\ hs.wasStopped
      /\ hs' = [hs EXCEPT !.wasStopped = FALSE, !.needStart = TRUE]
      /\ bs' = [bs EXCEPT !.wasStopped = TRUE]
      /\ pc' = [pc EXCEPT !.bt = "start"]
      /\ UNCHANGED <<direct, h, b, l>>
  BY DEF BtStopped, BtGoes, Stopped, hashVars, btVars, lzVars, inputVars
<1>2. Control'
  <2>1. hs' \in Syncs
    BY <1>1 DEF Protocol, Control, Syncs
  <2>2. bs' \in Syncs
    BY <1>1 DEF Protocol, Control, Syncs
  <2>3. pc' \in [hash : HashPcs, bt : BtPcs, lz : LzPcs]
    BY <1>1 DEF Protocol, Control, HashPcs, BtPcs, LzPcs
  <2> QED
    BY <1>1, <2>1, <2>2, <2>3 DEF Protocol, Control
<1>3. Fields'
  BY <1>1 DEF Protocol, Fields
<1>4. HashInv'
  BY <1>1 DEF Protocol, Control, Fields, Syncs, HashInv, BtInv, Handshake, Active
<1>5. BtInv'
  BY <1>1 DEF Protocol, Control, Fields, Syncs, HashInv, BtInv, Handshake, Active
<1>6. HeadRing'
  BY <1>1, Sizes DEF Protocol, Control, Fields, Syncs, HashInv, BtInv, Handshake, HeadRing, Hashed, Active
<1>7. RecordRing'
  BY <1>1, Sizes DEF Protocol, Control, Fields, Syncs, BtInv, HashInv, Handshake, RecordRing, Treed, AtWork, Active
<1> QED
  BY <1>2, <1>3, <1>4, <1>5, <1>6, <1>7 DEF Protocol

\* LzSpawn keeps the protocol.
LEMMA LzSpawnStep == ASSUME Protocol, LzSpawn PROVE Protocol'
<1>1. /\ pc.lz = "idle" /\ pc.hash = "gone" /\ pc.bt = "gone"
      /\ \/ pc' = [hash |-> "start", bt |-> "start", lz |-> "init"] /\ hs' = hs
         \/ pc' = [pc EXCEPT !.lz = "done"] /\ hs' = hs
         \/ /\ pc' = [pc EXCEPT !.hash = "start", !.lz = "joinhash"]
            /\ hs' = [hs EXCEPT !.exit = TRUE, !.canStart = TRUE]
         \/ pc' = [pc EXCEPT !.hash = "start", !.lz = "scope"] /\ hs' = hs
      /\ UNCHANGED <<bs, direct, h, b, l>>
  BY DEF LzSpawn, LzGoes, SendExit, hashVars, btVars, lzVars, inputVars
<1>8. /\ pc' \in [hash : HashPcs, bt : BtPcs, lz : LzPcs] /\ hs' \in Syncs
      /\ \/ pc'.hash = "start" /\ pc'.bt = "start" /\ pc'.lz = "init" /\ hs' = hs
         \/ pc'.hash = "gone" /\ pc'.bt = "gone" /\ pc'.lz = "done" /\ hs' = hs
         \/ /\ pc'.hash = "start" /\ pc'.bt = "gone" /\ pc'.lz = "joinhash"
            /\ hs'.exit /\ hs'.canStart /\ hs'.needStart = hs.needStart
            /\ hs'.wasStopped = hs.wasStopped /\ hs'.cs = hs.cs
         \/ pc'.hash = "start" /\ pc'.bt = "gone" /\ pc'.lz = "scope" /\ hs' = hs
  <2>1. CASE pc' = [hash |-> "start", bt |-> "start", lz |-> "init"] /\ hs' = hs
    BY <1>1, <2>1 DEF Protocol, Control, HashPcs, BtPcs, LzPcs
  <2>2. CASE pc' = [pc EXCEPT !.lz = "done"] /\ hs' = hs
    BY <1>1, <2>2 DEF Protocol, Control, HashPcs, BtPcs, LzPcs
  <2>3. CASE /\ pc' = [pc EXCEPT !.hash = "start", !.lz = "joinhash"]
             /\ hs' = [hs EXCEPT !.exit = TRUE, !.canStart = TRUE]
    <3>1. hs' \in Syncs /\ hs'.exit /\ hs'.canStart /\ hs'.needStart = hs.needStart
          /\ hs'.wasStopped = hs.wasStopped /\ hs'.cs = hs.cs
      BY <2>3 DEF Protocol, Control, Syncs
    <3> QED
      BY <1>1, <2>3, <3>1 DEF Protocol, Control, HashPcs, BtPcs, LzPcs
  <2>4. CASE pc' = [pc EXCEPT !.hash = "start", !.lz = "scope"] /\ hs' = hs
    BY <1>1, <2>4 DEF Protocol, Control, HashPcs, BtPcs, LzPcs
  <2> QED
    BY <1>1, <2>1, <2>2, <2>3, <2>4
<1>9. UNCHANGED <<bs, direct, h, b, l>> /\ pc.lz = "idle" /\ pc.hash = "gone" /\ pc.bt = "gone"
  BY <1>1
<1>2. Control'
  BY <1>8, <1>9 DEF Protocol, Control
<1>3. Fields'
  BY <1>1 DEF Protocol, Fields
<1>4. HashInv'
  BY <1>8, <1>9 DEF Protocol, Control, Fields, Syncs, HashInv, BtInv, Handshake, Active
<1>5. BtInv'
  BY <1>8, <1>9 DEF Protocol, Control, Fields, Syncs, HashInv, BtInv, Handshake, Active
<1>6. HeadRing'
  BY <1>8, <1>9 DEF Protocol, Control, Fields, Syncs, HashInv, BtInv, Handshake, HeadRing, Hashed, Active
<1>7. RecordRing'
  BY <1>8, <1>9 DEF Protocol, Control, Fields, Syncs, BtInv, HashInv, Handshake, RecordRing, Treed, AtWork, Active
<1> QED
  BY <1>2, <1>3, <1>4, <1>5, <1>6, <1>7 DEF Protocol

\* LzInit keeps the protocol.
LEMMA LzInitStep == ASSUME Protocol, StreamInv, LzInit PROVE Protocol'
<1>1. /\ pc.lz = "init" /\ pc' = [pc EXCEPT !.lz = "body"]
      /\ hs' = [hs EXCEPT !.free = HashNumBlocks, !.filled = 0]
      /\ bs' = [bs EXCEPT !.free = BtNumBlocks, !.filled = 0]
      /\ direct' \in BOOLEAN
      /\ h' = NewH /\ b' = NewB /\ l' = NewL
  <2>1. stream' \in 1 .. NumStreams /\ direct' \in BOOLEAN
    BY MtInputsAssumption DEF LzInit, StreamInv
  <2> QED
    BY <2>1 DEF LzInit, LzGoes, SyncInit, hashVars, btVars, lzVars, inputVars
<1>2. Control'
  <2>4. /\ hs \in Syncs /\ bs \in Syncs
        /\ HashNumBlocks \in Int /\ BtNumBlocks \in Int /\ 0 \in Int
    BY Sizes DEF Protocol, Control
  <2>1. hs' \in Syncs
    BY <1>1, <2>4, SyncTypes
  <2>2. bs' \in Syncs
    BY <1>1, <2>4, SyncTypes
  <2>3. pc' \in [hash : HashPcs, bt : BtPcs, lz : LzPcs]
    BY <1>1 DEF Protocol, Control, HashPcs, BtPcs, LzPcs
  <2> QED
    BY <1>1, <2>1, <2>2, <2>3 DEF Control
<1>3. Fields'
  BY <1>1 DEF Fields, NewH, NewB, NewL
<1>4. HashInv'
  BY <1>1 DEF Protocol, Control, Fields, Syncs, HashInv, BtInv, Handshake, Active
<1>5. BtInv'
  BY <1>1 DEF Protocol, Control, Fields, Syncs, HashInv, BtInv, Handshake, Active
<1>6. HeadRing'
  BY <1>1, Sizes DEF Protocol, Control, Fields, Syncs, HashInv, BtInv, Handshake, HeadRing, Hashed, Active
<1>7. RecordRing'
  BY <1>1, Sizes DEF Protocol, Control, Fields, Syncs, BtInv, HashInv, Handshake, RecordRing, Treed, AtWork, Active
<1> QED
  BY <1>2, <1>3, <1>4, <1>5, <1>6, <1>7 DEF Protocol

\* LzAsk keeps the protocol.
LEMMA LzAskStep == ASSUME Protocol, LzAsk PROVE Protocol'
<1>1. /\ pc.lz = "body" /\ UNCHANGED <<hs, direct, h, b>>
      /\ \/ l.failed /\ UNCHANGED <<bs, pc>> /\ DOMAIN l' = DOMAIN l
            /\ ("blk" \in DOMAIN l => l'.blk = l.blk)
         \/ /\ bs' = AskBlock(bs) /\ pc' = [pc EXCEPT !.lz = "wait"]
            /\ l' = [l EXCEPT !.blk = AskIndex(bs) % BtNumBlocks]
  BY DEF LzAsk, LzGoes, hashVars, btVars, inputVars
<1>8. /\ bs \in Syncs /\ direct \in BOOLEAN
  BY DEF Protocol, Control
<1>9. bs' = AskBlock(bs) =>
      /\ bs' \in Syncs /\ ~bs'.needStart
      /\ bs.needStart =>
           /\ bs'.processed = 1 /\ bs'.canStart /\ ~bs'.stop /\ ~bs'.exit /\ ~bs'.wasStopped
           /\ bs'.free = bs.free /\ bs'.filled = bs.filled /\ bs'.cs = bs.cs
      /\ ~bs.needStart =>
           /\ bs'.processed = bs.processed + 1 /\ bs'.canStart = bs.canStart
           /\ bs'.stop = bs.stop /\ bs'.exit = bs.exit /\ bs'.wasStopped = bs.wasStopped
           /\ bs'.free = bs.free + 1 /\ bs'.filled = bs.filled
           /\ bs'.cs = IF direct THEN bs.cs ELSE "none"
  BY <1>8, AskFacts
<1>2. Control'
  <2>1. hs' \in Syncs
    BY <1>1 DEF Protocol, Control, Syncs
  <2>2. bs' \in Syncs
    BY <1>1, <1>8, <1>9
  <2>3. pc' \in [hash : HashPcs, bt : BtPcs, lz : LzPcs]
    BY <1>1 DEF Protocol, Control, HashPcs, BtPcs, LzPcs
  <2> QED
    BY <1>1, <2>1, <2>2, <2>3 DEF Protocol, Control
<1>3. Fields'
  BY <1>1 DEF Protocol, Fields
<1>4. HashInv'
  BY <1>1 DEF Protocol, Control, Fields, Syncs, HashInv, BtInv, Handshake, Active
<1>5. BtInv'
  <2>1. CASE bs' = bs /\ pc' = pc
    BY <1>1, <2>1 DEF Protocol, Control, Fields, Syncs, HashInv, BtInv, Handshake, Active
  <2>2. CASE bs' = AskBlock(bs) /\ pc' = [pc EXCEPT !.lz = "wait"]
    BY <1>1, <1>9, <2>2 DEF Protocol, Control, Fields, Syncs, HashInv, BtInv, Handshake, Active
  <2> QED
    BY <1>1, <2>1, <2>2
<1>6. HeadRing'
  BY <1>1, Sizes DEF Protocol, Control, Fields, Syncs, HashInv, BtInv, Handshake, HeadRing, Hashed, Active
<1>7. RecordRing'
  <2>1. CASE bs' = bs /\ pc' = pc
    BY <1>1, <2>1 DEF Protocol, Control, Fields, Syncs, BtInv, HashInv, Handshake, RecordRing, Treed, AtWork, Active
  <2>2. CASE bs' = AskBlock(bs) /\ pc' = [pc EXCEPT !.lz = "wait"]
    <3>1. l'.blk = AskIndex(bs) % BtNumBlocks
      <4>1. l' = [l EXCEPT !.blk = AskIndex(bs) % BtNumBlocks]
        BY <1>1, <2>2, <1>9 DEF Protocol, Control, LzPcs
      <4> QED
        BY <4>1 DEF Protocol, Fields
    <3>2. CASE bs.needStart
      BY <1>1, <1>9, <2>2, <3>1, <3>2, Sizes DEF AskIndex, Protocol, Control, Fields, Syncs, BtInv, HashInv, Handshake, RecordRing, Treed, AtWork, Active
    <3>3. CASE ~bs.needStart
      BY <1>1, <1>9, <2>2, <3>1, <3>3, Sizes DEF AskIndex, Protocol, Control, Fields, Syncs, BtInv, HashInv, Handshake, RecordRing, Treed, AtWork, Active
    <3> QED
      BY <3>2, <3>3
  <2> QED
    BY <1>1, <2>1, <2>2
<1> QED
  BY <1>2, <1>3, <1>4, <1>5, <1>6, <1>7 DEF Protocol

\* LzTake keeps the protocol.
LEMMA LzTakeStep == ASSUME Protocol, LzTake PROVE Protocol'
<1>1. /\ pc.lz = "wait" /\ bs.filled > 0 /\ (~direct => bs.cs = "none")
      /\ bs' = IF ~direct THEN [bs EXCEPT !.filled = @ - 1, !.cs = "user"]
                          ELSE [bs EXCEPT !.filled = @ - 1]
      /\ pc' = [pc EXCEPT !.lz = "body"] /\ UNCHANGED <<hs, direct, h, b>>
      /\ DOMAIN l' = DOMAIN l /\ ("blk" \in DOMAIN l => l'.blk = l.blk)
  BY DEF LzTake, LzGoes, CanTake, CanLock, TakeBlock, LockBuffer, Movable, hashVars, btVars, inputVars
<1>2. Control'
  <2>1. hs' \in Syncs
    BY <1>1 DEF Protocol, Control, Syncs
  <2>2. bs' \in Syncs
    <3>1. bs \in Syncs /\ bs.free - 1 \in Int /\ bs.filled + 1 \in Int /\ bs.filled - 1 \in Int
      BY DEF Protocol, Control, Syncs
    <3>2. /\ [bs EXCEPT !.filled = bs.filled - 1, !.cs = "user"] \in Syncs
          /\ [bs EXCEPT !.filled = bs.filled - 1] \in Syncs
      BY <3>1, SyncTypes
    <3> QED
      BY <1>1, <3>1, <3>2
  <2>3. pc' \in [hash : HashPcs, bt : BtPcs, lz : LzPcs]
    BY <1>1 DEF Protocol, Control, HashPcs, BtPcs, LzPcs
  <2> QED
    BY <1>1, <2>1, <2>2, <2>3 DEF Protocol, Control
<1>3. Fields'
  BY <1>1 DEF Protocol, Fields
<1>4. HashInv'
  BY <1>1 DEF Protocol, Control, Fields, Syncs, HashInv, BtInv, Handshake, Active
<1>5. BtInv'
  BY <1>1 DEF Protocol, Control, Fields, Syncs, HashInv, BtInv, Handshake, Active
<1>6. HeadRing'
  BY <1>1, Sizes DEF Protocol, Control, Fields, Syncs, HashInv, BtInv, Handshake, HeadRing, Hashed, Active
<1>7. RecordRing'
  BY <1>1, Sizes DEF Protocol, Control, Fields, Syncs, BtInv, HashInv, Handshake, RecordRing, Treed, AtWork, Active
<1> QED
  BY <1>2, <1>3, <1>4, <1>5, <1>6, <1>7 DEF Protocol

\* LzMatches keeps the protocol.
LEMMA LzMatchesStep == ASSUME Protocol, LzMatches PROVE Protocol'
<1>1. /\ UNCHANGED <<pc, hs, bs, direct, h, b>>
      /\ DOMAIN l' = DOMAIN l /\ ("blk" \in DOMAIN l => l'.blk = l.blk)
  BY DEF LzMatches, LzMoved, hashVars, btVars, inputVars
<1>2. Control'
  <2>1. hs' \in Syncs
    BY <1>1 DEF Protocol, Control, Syncs
  <2>2. bs' \in Syncs
    BY <1>1 DEF Protocol, Control, Syncs
  <2>3. pc' \in [hash : HashPcs, bt : BtPcs, lz : LzPcs]
    BY <1>1 DEF Protocol, Control, HashPcs, BtPcs, LzPcs
  <2> QED
    BY <1>1, <2>1, <2>2, <2>3 DEF Protocol, Control
<1>3. Fields'
  BY <1>1 DEF Protocol, Fields
<1>4. HashInv'
  BY <1>1 DEF Protocol, Control, Fields, Syncs, HashInv, BtInv, Handshake, Active
<1>5. BtInv'
  BY <1>1 DEF Protocol, Control, Fields, Syncs, HashInv, BtInv, Handshake, Active
<1>6. HeadRing'
  BY <1>1, Sizes DEF Protocol, Control, Fields, Syncs, HashInv, BtInv, Handshake, HeadRing, Hashed, Active
<1>7. RecordRing'
  BY <1>1, Sizes DEF Protocol, Control, Fields, Syncs, BtInv, HashInv, Handshake, RecordRing, Treed, AtWork, Active
<1> QED
  BY <1>2, <1>3, <1>4, <1>5, <1>6, <1>7 DEF Protocol

\* LzSkip keeps the protocol.
LEMMA LzSkipStep == ASSUME Protocol, LzSkip PROVE Protocol'
<1>1. /\ UNCHANGED <<pc, hs, bs, direct, h, b>>
      /\ DOMAIN l' = DOMAIN l /\ ("blk" \in DOMAIN l => l'.blk = l.blk)
  BY DEF LzSkip, LzMoved, hashVars, btVars, inputVars
<1>2. Control'
  <2>1. hs' \in Syncs
    BY <1>1 DEF Protocol, Control, Syncs
  <2>2. bs' \in Syncs
    BY <1>1 DEF Protocol, Control, Syncs
  <2>3. pc' \in [hash : HashPcs, bt : BtPcs, lz : LzPcs]
    BY <1>1 DEF Protocol, Control, HashPcs, BtPcs, LzPcs
  <2> QED
    BY <1>1, <2>1, <2>2, <2>3 DEF Protocol, Control
<1>3. Fields'
  BY <1>1 DEF Protocol, Fields
<1>4. HashInv'
  BY <1>1 DEF Protocol, Control, Fields, Syncs, HashInv, BtInv, Handshake, Active
<1>5. BtInv'
  BY <1>1 DEF Protocol, Control, Fields, Syncs, HashInv, BtInv, Handshake, Active
<1>6. HeadRing'
  BY <1>1, Sizes DEF Protocol, Control, Fields, Syncs, HashInv, BtInv, Handshake, HeadRing, Hashed, Active
<1>7. RecordRing'
  BY <1>1, Sizes DEF Protocol, Control, Fields, Syncs, BtInv, HashInv, Handshake, RecordRing, Treed, AtWork, Active
<1> QED
  BY <1>2, <1>3, <1>4, <1>5, <1>6, <1>7 DEF Protocol

\* LzStop keeps the protocol.
LEMMA LzStopStep == ASSUME Protocol, LzStop PROVE Protocol'
<1>1. /\ pc.lz = "body" /\ UNCHANGED <<hs, direct, h, b, l>>
      /\ \/ bs.needStart /\ pc' = [pc EXCEPT !.lz = "stopped"] /\ bs' = bs
         \/ ~bs.needStart /\ bs' = AskStop(bs) /\ pc' = [pc EXCEPT !.lz = "stopping"]
  BY DEF LzStop, LzGoes, hashVars, btVars, inputVars
<1>8. bs \in Syncs
  BY DEF Protocol, Control
<1>9. /\ ~bs.needStart =>
           /\ bs' \in Syncs /\ bs'.needStart = bs.needStart /\ bs'.processed = bs.processed
           /\ bs'.canStart = bs.canStart /\ bs'.exit = bs.exit /\ bs'.wasStopped = bs.wasStopped
           /\ bs'.stop /\ bs'.cs = IF bs.cs = "user" THEN "none" ELSE bs.cs
      /\ bs.needStart => bs' = bs
  BY <1>1, <1>8, StopFacts
<1>2. Control'
  <2>1. hs' \in Syncs
    BY <1>1 DEF Protocol, Control, Syncs
  <2>2. bs' \in Syncs
    BY <1>8, <1>9
  <2>3. pc' \in [hash : HashPcs, bt : BtPcs, lz : LzPcs]
    BY <1>1 DEF Protocol, Control, HashPcs, BtPcs, LzPcs
  <2> QED
    BY <1>1, <2>1, <2>2, <2>3 DEF Protocol, Control
<1>3. Fields'
  BY <1>1 DEF Protocol, Fields
<1>4. HashInv'
  BY <1>1 DEF Protocol, Control, Fields, Syncs, HashInv, BtInv, Handshake, Active
<1>5. BtInv'
  BY <1>1, <1>9 DEF Protocol, Control, Fields, Syncs, HashInv, BtInv, Handshake, Active
<1>6. HeadRing'
  BY <1>1, Sizes DEF Protocol, Control, Fields, Syncs, HashInv, BtInv, Handshake, HeadRing, Hashed, Active
<1>7. RecordRing'
  BY <1>1, <1>9 DEF Protocol, Control, Fields, Syncs, BtInv, HashInv, Handshake, RecordRing, Treed, AtWork, Active
<1> QED
  BY <1>2, <1>3, <1>4, <1>5, <1>6, <1>7 DEF Protocol

\* LzStopped keeps the protocol.
LEMMA LzStoppedStep == ASSUME Protocol, LzStopped PROVE Protocol'
<1>1. /\ pc.lz = "stopping" /\ bs.wasStopped
      /\ bs' = [bs EXCEPT !.wasStopped = FALSE, !.needStart = TRUE]
      /\ pc' = [pc EXCEPT !.lz = "stopped"]
      /\ UNCHANGED <<hs, direct, h, b, l>>
  BY DEF LzStopped, LzGoes, Stopped, hashVars, btVars, lzVars, inputVars
<1>2. Control'
  <2>1. hs' \in Syncs
    BY <1>1 DEF Protocol, Control, Syncs
  <2>2. bs' \in Syncs
    BY <1>1 DEF Protocol, Control, Syncs
  <2>3. pc' \in [hash : HashPcs, bt : BtPcs, lz : LzPcs]
    BY <1>1 DEF Protocol, Control, HashPcs, BtPcs, LzPcs
  <2> QED
    BY <1>1, <2>1, <2>2, <2>3 DEF Protocol, Control
<1>3. Fields'
  BY <1>1 DEF Protocol, Fields
<1>4. HashInv'
  BY <1>1 DEF Protocol, Control, Fields, Syncs, HashInv, BtInv, Handshake, Active
<1>5. BtInv'
  BY <1>1 DEF Protocol, Control, Fields, Syncs, HashInv, BtInv, Handshake, Active
<1>6. HeadRing'
  BY <1>1, Sizes DEF Protocol, Control, Fields, Syncs, HashInv, BtInv, Handshake, HeadRing, Hashed, Active
<1>7. RecordRing'
  BY <1>1, Sizes DEF Protocol, Control, Fields, Syncs, BtInv, HashInv, Handshake, RecordRing, Treed, AtWork, Active
<1> QED
  BY <1>2, <1>3, <1>4, <1>5, <1>6, <1>7 DEF Protocol

\* LzAgain keeps the protocol.
LEMMA LzAgainStep == ASSUME Protocol, LzAgain PROVE Protocol'
<1>1. /\ pc.lz = "stopped" /\ UNCHANGED <<hs, direct, h, b, l>>
      /\ \/ pc' = [pc EXCEPT !.lz = "init"] /\ bs' = bs
         \/ pc' = [pc EXCEPT !.lz = "joinbt"] /\ bs' = [bs EXCEPT !.exit = TRUE, !.canStart = TRUE]
  BY DEF LzAgain, LzGoes, SendExit, hashVars, btVars, lzVars, inputVars
<1>2. Control'
  <2>1. hs' \in Syncs
    BY <1>1 DEF Protocol, Control, Syncs
  <2>2. bs' \in Syncs
    BY <1>1 DEF Protocol, Control, Syncs
  <2>3. pc' \in [hash : HashPcs, bt : BtPcs, lz : LzPcs]
    BY <1>1 DEF Protocol, Control, HashPcs, BtPcs, LzPcs
  <2> QED
    BY <1>1, <2>1, <2>2, <2>3 DEF Protocol, Control
<1>3. Fields'
  BY <1>1 DEF Protocol, Fields
<1>4. HashInv'
  BY <1>1 DEF Protocol, Control, Fields, Syncs, HashInv, BtInv, Handshake, Active
<1>5. BtInv'
  BY ZenonT(40), <1>1 DEF Protocol, Control, Fields, Syncs, HashInv, BtInv, Handshake, Active
<1>6. HeadRing'
  BY <1>1, Sizes DEF Protocol, Control, Fields, Syncs, HashInv, BtInv, Handshake, HeadRing, Hashed, Active
<1>7. RecordRing'
  BY <1>1, Sizes DEF Protocol, Control, Fields, Syncs, BtInv, HashInv, Handshake, RecordRing, Treed, AtWork, Active
<1> QED
  BY <1>2, <1>3, <1>4, <1>5, <1>6, <1>7 DEF Protocol

\* LzJoinBt keeps the protocol.
LEMMA LzJoinBtStep == ASSUME Protocol, LzJoinBt PROVE Protocol'
<1>1. /\ pc.lz = "joinbt" /\ pc.bt = "gone"
      /\ hs' = [hs EXCEPT !.exit = TRUE, !.canStart = TRUE]
      /\ pc' = [pc EXCEPT !.lz = "joinhash"] /\ UNCHANGED <<bs, direct, h, b, l>>
  BY DEF LzJoinBt, LzGoes, SendExit, hashVars, btVars, lzVars, inputVars
<1>2. Control'
  <2>1. hs' \in Syncs
    BY <1>1 DEF Protocol, Control, Syncs
  <2>2. bs' \in Syncs
    BY <1>1 DEF Protocol, Control, Syncs
  <2>3. pc' \in [hash : HashPcs, bt : BtPcs, lz : LzPcs]
    BY <1>1 DEF Protocol, Control, HashPcs, BtPcs, LzPcs
  <2> QED
    BY <1>1, <2>1, <2>2, <2>3 DEF Protocol, Control
<1>3. Fields'
  BY <1>1 DEF Protocol, Fields
<1>4. HashInv'
  BY <1>1 DEF Protocol, Control, Fields, Syncs, HashInv, BtInv, Handshake, Active
<1>5. BtInv'
  BY <1>1 DEF Protocol, Control, Fields, Syncs, HashInv, BtInv, Handshake, Active
<1>6. HeadRing'
  BY <1>1, Sizes DEF Protocol, Control, Fields, Syncs, HashInv, BtInv, Handshake, HeadRing, Hashed, Active
<1>7. RecordRing'
  BY <1>1, Sizes DEF Protocol, Control, Fields, Syncs, BtInv, HashInv, Handshake, RecordRing, Treed, AtWork, Active
<1> QED
  BY <1>2, <1>3, <1>4, <1>5, <1>6, <1>7 DEF Protocol

\* LzJoinHash keeps the protocol.
LEMMA LzJoinHashStep == ASSUME Protocol, LzJoinHash PROVE Protocol'
<1>1. /\ pc.lz = "joinhash" /\ pc.hash = "gone" /\ UNCHANGED <<hs, bs, direct, h, b, l>>
      /\ pc' = [pc EXCEPT !.lz = "idle"] \/ pc' = [pc EXCEPT !.lz = "done"]
  <2>1. pc.hash = "gone" => pc.lz # "scope"
    BY DEF Protocol, HashInv
  <2> QED
    BY <2>1 DEF LzJoinHash, LzGoes, hashVars, btVars, lzVars, inputVars
<1>2. Control'
  <2>1. hs' \in Syncs
    BY <1>1 DEF Protocol, Control, Syncs
  <2>2. bs' \in Syncs
    BY <1>1 DEF Protocol, Control, Syncs
  <2>3. pc' \in [hash : HashPcs, bt : BtPcs, lz : LzPcs]
    BY <1>1 DEF Protocol, Control, HashPcs, BtPcs, LzPcs
  <2> QED
    BY <1>1, <2>1, <2>2, <2>3 DEF Protocol, Control
<1>3. Fields'
  BY <1>1 DEF Protocol, Fields
<1>4. HashInv'
  BY <1>1 DEF Protocol, Control, Fields, Syncs, HashInv, BtInv, Handshake, Active
<1>5. BtInv'
  BY <1>1 DEF Protocol, Control, Fields, Syncs, HashInv, BtInv, Handshake, Active
<1>6. HeadRing'
  BY <1>1, Sizes DEF Protocol, Control, Fields, Syncs, HashInv, BtInv, Handshake, HeadRing, Hashed, Active
<1>7. RecordRing'
  BY <1>1, Sizes DEF Protocol, Control, Fields, Syncs, BtInv, HashInv, Handshake, RecordRing, Treed, AtWork, Active
<1> QED
  BY <1>2, <1>3, <1>4, <1>5, <1>6, <1>7 DEF Protocol

-----------------------------------------------------------------------------
\* Every step keeps the protocol.
LEMMA ProtocolStep == ASSUME IInv, Next PROVE Protocol'
<1>1. Protocol /\ StreamInv
  BY DEF IInv
<1>2. ASSUME HashStep PROVE Protocol'
  BY <1>1, <1>2, HashStartStep, HashEnterStep, HashMoveStep, HashBlockStep DEF HashStep
<1>3. ASSUME BtStep PROVE Protocol'
  BY <1>1, <1>3, BtStartStep, BtFreeStep, BtLockStep, BtBeginStep, BtAskStep, BtTakeStep, BtWalkStep,
     BtPanicStep, BtFinishStep, BtStopStep, BtStoppedStep DEF BtStep
<1>4. ASSUME LzStep PROVE Protocol'
  BY <1>1, <1>4, LzSpawnStep, LzInitStep, LzAskStep, LzTakeStep, LzMatchesStep, LzSkipStep, LzStopStep,
     LzStoppedStep, LzAgainStep, LzJoinBtStep, LzJoinHashStep DEF LzStep
<1>5. ASSUME UNCHANGED vars PROVE Protocol'
  BY <1>1, <1>5 DEF vars, hashVars, btVars, lzVars, inputVars, Protocol, Control, Fields, HashInv, BtInv,
     HeadRing, RecordRing, Hashed, Treed, AtWork
<1> QED
  BY <1>2, <1>3, <1>4, <1>5 DEF Next

\* Every step keeps the count of the streams.
LEMMA StreamStep == ASSUME IInv, Next PROVE StreamInv'
<1>1. /\ stream \in Nat /\ (pc.lz \in {"idle", "init"} => stream < NumStreams)
      /\ pc \in [hash : HashPcs, bt : BtPcs, lz : LzPcs] /\ NumStreams \in Nat
  BY MtInputsAssumption DEF IInv, Protocol, Control, StreamInv
<1>2. ASSUME HashStep PROVE StreamInv'
  <2>1. stream' = stream /\ pc'.lz = pc.lz
    BY <1>1, <1>2 DEF HashStep, HashStart, HashEnter, HashMove, HashBlock, inputVars
  <2> QED
    BY <1>1, <2>1 DEF StreamInv
<1>3. ASSUME BtStep PROVE StreamInv'
  <2>1. stream' = stream /\ pc'.lz = pc.lz
    BY <1>1, <1>3 DEF BtStep, BtStart, BtFree, BtLock, BtBegin, BtAsk, BtTake, BtWalk, BtPanic, BtFinish,
       BtStop, BtStopped, BtGoes, inputVars
  <2> QED
    BY <1>1, <2>1 DEF StreamInv
<1>4. CASE LzSpawn
  <2>1. stream' = (IF pc'.lz = "init" THEN stream ELSE NumStreams) /\ pc.lz = "idle"
    BY <1>4 DEF LzSpawn
  <2>2. \/ pc' = [hash |-> "start", bt |-> "start", lz |-> "init"]
        \/ pc' = [pc EXCEPT !.lz = "done"]
        \/ pc' = [pc EXCEPT !.hash = "start", !.lz = "joinhash"]
        \/ pc' = [pc EXCEPT !.hash = "start", !.lz = "scope"]
    BY <1>4 DEF LzSpawn, LzGoes
  <2>4. pc \in [hash : HashPcs, bt : BtPcs, lz : LzPcs]
    BY <1>1
  <2>3. pc'.lz \in {"init", "done", "joinhash", "scope"}
    <3>1. CASE pc' = [hash |-> "start", bt |-> "start", lz |-> "init"]
      BY <3>1
    <3>2. CASE pc' = [pc EXCEPT !.lz = "done"]
      BY <2>4, <3>2
    <3>3. CASE pc' = [pc EXCEPT !.hash = "start", !.lz = "joinhash"]
      BY <2>4, <3>3
    <3>4. CASE pc' = [pc EXCEPT !.hash = "start", !.lz = "scope"]
      BY <2>4, <3>4
    <3> QED
      BY <2>2, <3>1, <3>2, <3>3, <3>4
  <2> QED
    BY <1>1, <2>1, <2>3 DEF StreamInv
<1>5. CASE LzInit
  <2>1. stream' = stream + 1 /\ pc'.lz = "body"
    BY <1>1, <1>5 DEF LzInit, LzGoes
  <2> QED
    BY <1>1, <2>1 DEF StreamInv
<1>6. CASE LzAgain
  <2>1. stream' = stream /\ (pc'.lz = "joinbt" \/ (pc'.lz = "init" /\ stream < NumStreams))
    BY <1>1, <1>6 DEF LzAgain, LzGoes, inputVars
  <2> QED
    BY <1>1, <2>1 DEF StreamInv
<1>7. CASE LzJoinHash
  <2>1. stream' = stream /\ pc'.lz = IF stream < NumStreams THEN "idle" ELSE "done"
    BY <1>1, <1>7 DEF LzJoinHash, LzGoes, inputVars
  <2> QED
    BY <1>1, <2>1 DEF StreamInv
<1>8. CASE LzAsk \/ LzTake \/ LzMatches \/ LzSkip \/ LzStop \/ LzStopped \/ LzJoinBt
  <2>1. stream' = stream /\ (pc'.lz = pc.lz \/ pc'.lz \in {"wait", "body", "stopped", "stopping", "joinhash"})
    BY <1>1, <1>8 DEF LzAsk, LzTake, LzMatches, LzSkip, LzStop, LzStopped, LzJoinBt, LzGoes, inputVars
  <2> QED
    BY <1>1, <2>1 DEF StreamInv
<1>9. CASE UNCHANGED vars
  BY <1>1, <1>9 DEF vars, inputVars, StreamInv
<1> QED
  BY <1>2, <1>3, <1>4, <1>5, <1>6, <1>7, <1>8, <1>9 DEF Next, LzStep

(***************************************************************************)
(* The invariant of the protocol is inductive: the positions of the three  *)
(* threads, the flags of the two MtSync, their locks and their semaphores  *)
(* fit each other, for all inputs, all sizes of rings and blocks, and      *)
(* whichever threads panic or fail to start.                               *)
(***************************************************************************)
THEOREM ProtocolInductive == Spec => []IInv
<1>1. Init => IInv
  <2>1. ASSUME Init PROVE StreamInv
    BY <2>1, MtInputsAssumption DEF Init, StreamInv
  <2> QED
    BY <2>1, InitIInv DEF IInv
<1>2. IInv /\ [Next]_vars => IInv'
  <2>1. ASSUME IInv, Next PROVE IInv'
    BY <2>1, ProtocolStep, StreamStep DEF IInv
  <2>2. ASSUME IInv, UNCHANGED vars PROVE IInv'
    BY <2>2 DEF vars, hashVars, btVars, lzVars, inputVars, IInv, StreamInv, Protocol, Control, Fields,
       HashInv, BtInv, HeadRing, RecordRing, Hashed, Treed, AtWork
  <2> QED
    BY <2>1, <2>2
<1> QED
  BY <1>1, <1>2, PTL DEF Spec

(***************************************************************************)
(* A stream begins, and threads are sent away, only when both threads are  *)
(* back at their start and no token or lock is left from before.           *)
(***************************************************************************)
THEOREM RestartsClean == Spec => []RestartReady
<1>1. IInv => RestartReady
  BY DEF IInv, Protocol, Control, Syncs, HashInv, BtInv, Handshake, Active, RestartReady
<1> QED
  BY <1>1, ProtocolInductive, PTL

\* Division with remainder.
LEMMA DivMod ==
    ASSUME NEW n \in Nat \ {0}, NEW i \in Nat
    PROVE  i = n * (i \div n) + (i % n) /\ i % n \in 0 .. n - 1 /\ i \div n \in Int
<1>1. i = n * (i \div n) + (i % n) /\ i % n \in 0 .. n - 1
  OBVIOUS
<1>2. i \div n \in Int
  OBVIOUS
<1> QED
  BY <1>1, <1>2

\* Numbers less than a whole ring apart have different slots.
LEMMA RingSlots ==
    ASSUME NEW n \in Nat \ {0}, NEW i \in Nat, NEW j \in Nat, i < j, j < i + n
    PROVE  i % n # j % n
<1>1. /\ i = n * (i \div n) + (i % n) /\ i % n \in 0 .. n - 1 /\ i \div n \in Int
      /\ j = n * (j \div n) + (j % n) /\ j % n \in 0 .. n - 1 /\ j \div n \in Int
  BY DivMod
<1>2. ASSUME i % n = j % n PROVE FALSE
  <2> DEFINE p == i \div n
             q == j \div n
  <2>1. n * q - n * p = j - i
    BY <1>1, <1>2
  <2>2. n * (q - p) = j - i /\ q - p \in Int
    BY <1>1, <2>1
  <2> DEFINE d == q - p
  <2>3. n * d \in 1 .. n - 1 /\ d \in Int
    BY <2>2
  <2> HIDE DEF d
  <2>4. d <= 0 \/ d >= 1
    BY <2>3
  <2>5. d <= 0 => n * d <= 0
    BY <2>3
  <2>6. d >= 1 => n * d >= n
    BY <2>3
  <2> QED
    BY <2>3, <2>4, <2>5, <2>6
<1> QED
  BY <1>2

(***************************************************************************)
(* The hash thread slides the window only while neither the tree thread    *)
(* nor the encoder is looking into it (hash_thread_func locks bt_sync and  *)
(* then hash_sync before move_block).                                      *)
(***************************************************************************)
THEOREM SlidesAlone == Spec => [][HashMove => pc.bt \notin {"begin", "run", "end"} /\ pc.lz # "body"]_vars
<1>1. ASSUME IInv, HashMove PROVE pc.bt \notin {"begin", "run", "end"} /\ pc.lz # "body"
  <2>1. pc.hash = "enter" /\ hs.cs = "none"
    BY <1>1 DEF HashMove
  <2> QED
    BY <1>1, <2>1 DEF IInv, Protocol, Control, HashInv, BtInv, Handshake
<1> QED
  BY <1>1, ProtocolInductive, PTL

(***************************************************************************)
(* No block of heads is overwritten while the tree thread uses it: the     *)
(* hash thread is never a whole ring ahead (HASH_NUM_BLOCKS).              *)
(***************************************************************************)
THEOREM HeadsKept ==
    Spec => [][pc.bt \in {"begin", "run", "end"} /\ ~hs.needStart => hashBuf'[b.hblk] = hashBuf[b.hblk]]_vars
<1>1. ASSUME IInv, Next, pc.bt \in {"begin", "run", "end"}, ~hs.needStart
      PROVE  hashBuf'[b.hblk] = hashBuf[b.hblk]
  <2>1. CASE hashBuf' = hashBuf
    BY <2>1
  <2>2. CASE \E v : pc.hash = "loop" /\ hs.free > 0 /\ ~hs.stop
                    /\ hashBuf' = [hashBuf EXCEPT ![h.index % HashNumBlocks] = v]
    <3>1. /\ hs.processed \in Nat \ {0} /\ h.index \in Nat /\ hs.free \in Int /\ HashNumBlocks \in Nat \ {0}
          /\ hs.free = HashNumBlocks + hs.processed - 1 - h.index /\ hs.free > 0
          /\ hs.filled = h.index - hs.processed /\ hs.filled >= 0
          /\ b.hblk = (hs.processed - 1) % HashNumBlocks
      BY <1>1, <2>2, Sizes DEF IInv, Protocol, Control, Syncs, Fields, HashInv, Handshake, HeadRing, Hashed
    <3>2. h.index > hs.processed - 1 /\ h.index < hs.processed - 1 + HashNumBlocks /\ hs.processed - 1 \in Nat
      BY <3>1
    <3>3. b.hblk # h.index % HashNumBlocks
      BY <3>1, <3>2, RingSlots
    <3> QED
      BY <2>2, <3>3
  <2> QED
    BY <1>1, <2>1, <2>2 DEF Next, HashStep, BtStep, LzStep, HashStart, HashEnter, HashMove, HashBlock, BtStart, BtFree,
       BtLock, BtBegin, BtAsk, BtTake, BtWalk, BtPanic, BtFinish, BtStop, BtStopped, LzSpawn, LzInit,
       LzAsk, LzTake, LzMatches, LzSkip, LzStop, LzStopped, LzAgain, LzJoinBt, LzJoinHash, hashVars, vars
<1>2. IInv /\ [Next]_vars => [pc.bt \in {"begin", "run", "end"} /\ ~hs.needStart => hashBuf'[b.hblk] = hashBuf[b.hblk]]_vars
  BY <1>1
<1> QED
  BY <1>2, ProtocolInductive, PTL DEF Spec

(***************************************************************************)
(* No block of records is overwritten while the encoder uses it.           *)
(***************************************************************************)
THEOREM RecordsKept ==
    Spec => [][pc.lz = "body" /\ ~bs.needStart => btBuf'[l.blk] = btBuf[l.blk]]_vars
<1>1. ASSUME IInv, Next, pc.lz = "body", ~bs.needStart
      PROVE  btBuf'[l.blk] = btBuf[l.blk]
  <2>1. CASE btBuf' = btBuf
    BY <2>1
  <2>2. CASE pc.bt \in {"end", "run"} /\ \E v : btBuf' = [btBuf EXCEPT ![b.index % BtNumBlocks] = v]
    <3>1. /\ bs.processed \in Nat \ {0} /\ b.index \in Nat /\ bs.free \in Int /\ BtNumBlocks \in Nat \ {0}
          /\ bs.free = BtNumBlocks + bs.processed - 1 - b.index - 1 /\ bs.free >= 0
          /\ bs.filled = b.index - bs.processed /\ bs.filled >= 0
          /\ l.blk = (bs.processed - 1) % BtNumBlocks
      BY <1>1, <2>2, Sizes DEF IInv, Protocol, Control, Syncs, Fields, BtInv, Handshake, RecordRing, Treed, AtWork
    <3>2. b.index > bs.processed - 1 /\ b.index < bs.processed - 1 + BtNumBlocks /\ bs.processed - 1 \in Nat
      BY <3>1
    <3>3. l.blk # b.index % BtNumBlocks
      BY <3>1, <3>2, RingSlots
    <3> QED
      BY <2>2, <3>3
  <2> QED
    BY <1>1, <2>1, <2>2 DEF Next, HashStep, BtStep, LzStep, HashStart, HashEnter, HashMove, HashBlock, BtStart, BtFree,
       BtLock, BtBegin, BtAsk, BtTake, BtWalk, BtPanic, BtFinish, BtStop, BtStopped, LzSpawn, LzInit,
       LzAsk, LzTake, LzMatches, LzSkip, LzStop, LzStopped, LzAgain, LzJoinBt, LzJoinHash, btVars, vars
<1>2. IInv /\ [Next]_vars => [pc.lz = "body" /\ ~bs.needStart => btBuf'[l.blk] = btBuf[l.blk]]_vars
  BY <1>1
<1> QED
  BY <1>2, ProtocolInductive, PTL DEF Spec

\* Every non-empty set of numbers has a least one.
LEMMA LeastNat == ASSUME NEW X, X \subseteq Nat, X # {} PROVE \E n \in X : \A m \in X : ~(m < n)
<1>1. PICK n \in X : \A m \in X : ~(<<m, n>> \in OpToRel(<, Nat))
  BY WFMin, NatLessThanWellFounded, Zenon
<1>2. \A m \in X : ~(m < n)
  BY <1>1, Zenon DEF OpToRel
<1> QED BY <1>2

\* A sequence, whatever its elements are.
IsSeq(s) == \E U : s \in Seq(U)

\* What appending and joining do to a sequence of anything.
LEMMA SeqFacts ==
    ASSUME NEW s, IsSeq(s)
    PROVE  /\ Len(s) \in Nat
           /\ \A e : IsSeq(Append(s, e)) /\ Len(Append(s, e)) = Len(s) + 1
           /\ \A t : IsSeq(t) => IsSeq(s \o t) /\ Len(s \o t) = Len(s) + Len(t)
<1>1. PICK U : s \in Seq(U)
  BY DEF IsSeq
<1>2. Len(s) \in Nat
  BY <1>1, LenProperties
<1>3. ASSUME NEW e PROVE IsSeq(Append(s, e)) /\ Len(Append(s, e)) = Len(s) + 1
  <2>1. s \in Seq(U \cup {e})
    BY <1>1, SeqMonotonic, Zenon
  <2>2. Append(s, e) \in Seq(U \cup {e}) /\ Len(Append(s, e)) = Len(s) + 1
    BY <2>1
  <2> QED BY <2>2, Zenon DEF IsSeq
<1>4. ASSUME NEW t, IsSeq(t) PROVE IsSeq(s \o t) /\ Len(s \o t) = Len(s) + Len(t)
  <2>1. PICK V : t \in Seq(V)
    BY <1>4 DEF IsSeq
  <2>2. s \in Seq(U \cup V) /\ t \in Seq(U \cup V)
    BY <1>1, <2>1, SeqMonotonic, Zenon
  <2>3. s \o t \in Seq(U \cup V) /\ Len(s \o t) = Len(s) + Len(t)
    BY <2>2, ConcatProperties
  <2> QED BY <2>3, Zenon DEF IsSeq
<1> QED BY <1>2, <1>3, <1>4

\* The empty sequence is one.
LEMMA EmptyIsSeq == IsSeq(<<>>) /\ Len(<<>>) = 0
<1>1. <<>> \in Seq({}) /\ Len(<<>>) = 0
  BY EmptySeq
<1> QED BY <1>1, Zenon DEF IsSeq

\* get_heads makes as many heads as it is asked for.
LEMMA HeadsRun ==
    ASSUME NEW w, NEW buffer, NEW pos, NEW num \in Nat, NEW tab
    PROVE  /\ IsSeq(GetHeads(w, buffer, pos, num, tab).heads)
           /\ Len(GetHeads(w, buffer, pos, num, tab).heads) = num
<1> DEFINE Step(r, i) == NextHead(r, w, buffer + i - 1, pos + i - 1)
           base == [heads |-> <<>>, tab |-> tab]
           Rec(f, n) == f = [i \in 0 .. n |-> IF i = 0 THEN base ELSE Step(f[i - 1], i)]
           x == CHOOSE f : Rec(f, num)
           Good(r, i) == IsSeq(r.heads) /\ Len(r.heads) = i
<1>1. GetHeads(w, buffer, pos, num, tab) = x[num]
  BY Zenon DEF GetHeads
<1>2. Good(base, 0)
  BY EmptyIsSeq
<1>3. ASSUME NEW r, NEW i \in Nat, Good(r, i) PROVE Good(Step(r, i + 1), i + 1)
  <2>1. ASSUME NEW u, NEW p PROVE \E d : NextHead(r, w, u, p).heads = Append(r.heads, d)
    <3> DEFINE v == HashCalc(w, u, NumHashBytes)
    <3>1. NextHead(r, w, u, p) = [heads |-> Append(r.heads, p - r.tab[v]), tab |-> [r.tab EXCEPT ![v] = p]]
      BY Zenon DEF NextHead
    <3> QED BY <3>1
  <2>2. PICK d : Step(r, i + 1).heads = Append(r.heads, d)
    BY <2>1, Zenon
  <2> QED BY <1>3, <2>2, SeqFacts
<1> HIDE DEF Step, base, Good
<1>4. ASSUME NEW n \in Nat PROVE \E f : Rec(f, n)
  <2> DEFINE Bad == {m \in Nat : ~(\E f : Rec(f, m))}
  <2>1. SUFFICES ASSUME Bad # {} PROVE FALSE
    OBVIOUS
  <2>2. PICK m \in Bad : \A k \in Bad : ~(k < m)
    BY <2>1, LeastNat
  <2>3. m # 0
    <3>1. Rec([i \in 0 .. 0 |-> base], 0)
      OBVIOUS
    <3> QED BY <3>1
  <2>4. PICK f : Rec(f, m - 1)
    <3>1. m - 1 \in Nat /\ m - 1 < m
      BY <2>3
    <3> QED BY <2>2, <3>1
  <2> DEFINE g == [i \in 0 .. m |-> IF i = m THEN Step(f[m - 1], m) ELSE f[i]]
  <2>5. \A i \in 0 .. m : g[i] = IF i = 0 THEN base ELSE Step(g[i - 1], i)
    <3> TAKE i \in 0 .. m
    <3>1. CASE i = m
      BY <3>1, <2>3
    <3>2. CASE i # m
      <4>1. i \in 0 .. m - 1 /\ g[i] = f[i]
        BY <3>2
      <4>2. f[i] = IF i = 0 THEN base ELSE Step(f[i - 1], i)
        BY <2>4, <4>1
      <4>3. i # 0 => i - 1 \in 0 .. m /\ i - 1 # m /\ g[i - 1] = f[i - 1]
        BY <3>2
      <4> QED BY <4>1, <4>2, <4>3
    <3> QED BY <3>1, <3>2
  <2>6. Rec(g, m)
    BY <2>5
  <2> QED BY <2>6
<1>5. Rec(x, num)
  BY <1>4, Zenon
<1>6. \A i \in 0 .. num : Good(x[i], i)
  <2> DEFINE Bad == {m \in 0 .. num : ~Good(x[m], m)}
  <2>1. SUFFICES ASSUME Bad # {} PROVE FALSE
    OBVIOUS
  <2>5. Bad \subseteq Nat
    OBVIOUS
  <2>2. PICK m \in Bad : \A k \in Bad : ~(k < m)
    BY <2>1, <2>5, LeastNat
  <2>3. CASE m = 0
    BY <1>2, <1>5, <2>3
  <2>4. CASE m # 0
    <3>1. m - 1 \in 0 .. num /\ m - 1 \in Nat /\ m - 1 < m /\ (m - 1) + 1 = m
      BY <2>4
    <3>2. Good(x[m - 1], m - 1)
      BY <2>2, <3>1
    <3>3. x[m] = Step(x[m - 1], m)
      BY <1>5, <2>4
    <3> QED BY <1>3, <3>1, <3>2, <3>3
  <2> QED BY <2>3, <2>4
<1> QED BY <1>1, <1>6 DEF Good

\* A node adds at most one match to those of the walk.
LEMMA WalkKeeps ==
    ASSUME NEW r, NEW buf, NEW cur, NEW pos, NEW cp, NEW cyc, NEW lim, "recs" \in DOMAIN r, IsSeq(r.recs)
    PROVE  LET t == WalkStep(r, buf, cur, pos, cp, cyc, lim)
           IN  "recs" \in DOMAIN t /\ IsSeq(t.recs)
<1> DEFINE delta == pos - r.cm
           pair == 2 * CyclicBack(cp, delta, cyc)
           len == MatchRun(buf, delta, cur + MinOf(r.len0, r.len1), cur + lim) - cur
           recs == IF len > r.maxLen THEN Append(r.recs, <<len, delta - 1>>) ELSE r.recs
           t == WalkNode(r, buf, cur, pos, cp, cyc, lim)
<1>2. IsSeq(recs)
  BY SeqFacts
<1>3. \/ t = [r EXCEPT !.recs = recs, !.maxLen = len, !.full = TRUE,
                    !.son = [r.son EXCEPT ![r.p1] = r.son[pair], ![r.p0] = r.son[pair + 1]]]
      \/ t = [r EXCEPT !.recs = recs, !.maxLen = MaxOf(@, len), !.son = [r.son EXCEPT ![r.p1] = r.cm],
                    !.cm = r.son[pair + 1], !.p1 = pair + 1, !.len1 = len]
      \/ t = [r EXCEPT !.recs = recs, !.maxLen = MaxOf(@, len), !.son = [r.son EXCEPT ![r.p0] = r.cm],
                    !.cm = r.son[pair], !.p0 = pair, !.len0 = len]
  BY Zenon DEF WalkNode
<1> HIDE DEF recs, len, pair, delta, t
<1>4. "recs" \in DOMAIN t /\ t.recs = recs
  BY <1>3
<1> QED BY <1>2, <1>4 DEF WalkStep, t

\* The walk leaves a sequence of matches.
LEMMA SpecRecs ==
    ASSUME NEW buf, NEW cur, NEW pos, NEW cp, NEW cyc, NEW tree, NEW head, NEW lim, NEW maxLen, NEW cut \in Nat
    PROVE  IsSeq(GetMatchesSpec1(buf, cur, pos, cp, cyc, tree, head, lim, maxLen, cut).recs)
<1> DEFINE Step(r, i) == WalkStep(r, buf, cur, pos, cp, cyc, lim)
           base == [son |-> tree, p0 |-> 2 * cp + 1, p1 |-> 2 * cp, len0 |-> 0, len1 |-> 0,
            cm |-> head, maxLen |-> maxLen, recs |-> <<>>, full |-> FALSE]
           Rec(f, n) == f = [i \in 0 .. n |-> IF i = 0 THEN base ELSE Step(f[i - 1], i)]
           x == CHOOSE f : Rec(f, cut)
           Good(r) == "recs" \in DOMAIN r /\ IsSeq(r.recs)
<1>1. GetMatchesSpec1(buf, cur, pos, cp, cyc, tree, head, lim, maxLen, cut).recs = x[cut].recs
  BY DEF GetMatchesSpec1, Descent, WalkResult
<1>2. Good(base)
  BY EmptyIsSeq
<1>3. ASSUME NEW r, NEW i, Good(r) PROVE Good(Step(r, i))
  BY <1>3, WalkKeeps
<1> HIDE DEF Step, base, Good
<1>4. ASSUME NEW n \in Nat PROVE \E f : Rec(f, n)
  <2> DEFINE Bad == {m \in Nat : ~(\E f : Rec(f, m))}
  <2>1. SUFFICES ASSUME Bad # {} PROVE FALSE
    OBVIOUS
  <2>2. PICK m \in Bad : \A k \in Bad : ~(k < m)
    BY <2>1, LeastNat
  <2>3. m # 0
    <3>1. Rec([i \in 0 .. 0 |-> base], 0)
      OBVIOUS
    <3> QED BY <3>1
  <2>4. PICK f : Rec(f, m - 1)
    <3>1. m - 1 \in Nat /\ m - 1 < m
      BY <2>3
    <3> QED BY <2>2, <3>1
  <2> DEFINE g == [i \in 0 .. m |-> IF i = m THEN Step(f[m - 1], m) ELSE f[i]]
  <2>5. \A i \in 0 .. m : g[i] = IF i = 0 THEN base ELSE Step(g[i - 1], i)
    <3> TAKE i \in 0 .. m
    <3>1. CASE i = m
      BY <3>1, <2>3
    <3>2. CASE i # m
      <4>1. i \in 0 .. m - 1 /\ g[i] = f[i]
        BY <3>2
      <4>2. f[i] = IF i = 0 THEN base ELSE Step(f[i - 1], i)
        BY <2>4, <4>1
      <4>3. i # 0 => i - 1 \in 0 .. m /\ i - 1 # m /\ g[i - 1] = f[i - 1]
        BY <3>2
      <4> QED BY <4>1, <4>2, <4>3
    <3> QED BY <3>1, <3>2
  <2>6. Rec(g, m)
    BY <2>5
  <2> QED BY <2>6
<1>5. Rec(x, cut)
  BY <1>4, Zenon
<1>6. \A i \in 0 .. cut : Good(x[i])
  <2> DEFINE Bad == {m \in 0 .. cut : ~Good(x[m])}
  <2>1. SUFFICES ASSUME Bad # {} PROVE FALSE
    OBVIOUS
  <2>5. Bad \subseteq Nat
    OBVIOUS
  <2>2. PICK m \in Bad : \A k \in Bad : ~(k < m)
    BY <2>1, <2>5, LeastNat
  <2>3. CASE m = 0
    BY <1>2, <1>5, <2>3
  <2>4. CASE m # 0
    <3>1. m - 1 \in 0 .. cut /\ m - 1 < m
      BY <2>4
    <3>2. Good(x[m - 1])
      BY <2>2, <3>1
    <3>3. x[m] = Step(x[m - 1], m)
      BY <1>5, <2>4
    <3> QED BY <1>3, <3>2, <3>3
  <2> QED BY <2>3, <2>4
<1>7. Good(x[cut])
  BY <1>6
<1> QED BY <1>1, <1>7 DEF Good

\* What a run of heads has done to the block after some of them: as many records as
\* positions, at least one word for each, and none begun behind the block's limit.
RunFacts(r) ==
    /\ DOMAIN r = {"son", "recs", "words", "n", "bad"}
    /\ r.n \in Nat /\ r.words \in Nat
    /\ IsSeq(r.recs) /\ Len(r.recs) = r.n
    /\ b.words + r.n <= r.words /\ b.words + r.n <= BtLimit
    /\ r.words > b.words => r.n > 0

\* One head more.
LEMMA RunGoesOn ==
    ASSUME b.words \in Nat, NEW r, RunFacts(r), NEW delta, NEW cur, NEW p, NEW cp
    PROVE  RunFacts(TreeStep(r, delta, cur, p, cp)) /\ TreeStep(r, delta, cur, p, cp).n <= r.n + 1
<1> DEFINE t == TreeNode(r, delta, cur, p, cp)
           head == IF delta >= MinOf(p, Cyclic) THEN Empty ELSE p - delta
           w == Descent(win, cur, p, cp, Cyclic, r.son, head,
                        MinOf(MatchMaxLen, b.avail), NumHashBytes - 1, CutValue)
           tree == w[Min(Forward(w, p))].son
           g == WalkResult(w[CutValue])
<1>1. IsSeq(g.recs)
  <2>1. CutValue \in Nat
    BY MtFinderAssumption
  <2> QED BY <2>1, SpecRecs DEF GetMatchesSpec1
<1>2. \/ t = [r EXCEPT !.bad = TRUE]
      \/ t = [r EXCEPT !.bad = TRUE, !.son = tree]
      \/ t = [r EXCEPT !.son = g.son, !.recs = Append(@, g.recs), !.n = @ + 1, !.words = @ + 1 + 2 * Len(g.recs)]
  BY Zenon DEF TreeNode
<1>3. Len(g.recs) \in Nat
  BY <1>1, SeqFacts
<1>4. BtLimit \in Nat
  BY MtFinderAssumption
<1> HIDE DEF t, g, tree
<1>5. CASE t = [r EXCEPT !.bad = TRUE] \/ t = [r EXCEPT !.bad = TRUE, !.son = tree]
  <2>1. DOMAIN t = DOMAIN r /\ t.n = r.n /\ t.words = r.words /\ t.recs = r.recs
    BY <1>5 DEF RunFacts
  <2>2. RunFacts(t) /\ t.n <= r.n + 1
    BY <2>1 DEF RunFacts
  <2> QED BY <2>2 DEF TreeStep, t, RunFacts
<1>6. CASE ~(r.bad \/ r.words >= BtLimit) /\
           t = [r EXCEPT !.son = g.son, !.recs = Append(@, g.recs), !.n = @ + 1, !.words = @ + 1 + 2 * Len(g.recs)]
  <2>1. /\ DOMAIN t = DOMAIN r /\ t.n = r.n + 1 /\ t.words = r.words + 1 + 2 * Len(g.recs)
        /\ t.recs = Append(r.recs, g.recs)
    BY <1>6 DEF RunFacts
  <2>2. IsSeq(t.recs) /\ Len(t.recs) = r.n + 1
    BY <2>1, SeqFacts DEF RunFacts
  <2>3. r.words < BtLimit
    BY <1>4, <1>6 DEF RunFacts
  <2>4. RunFacts(t)
    <3>1. DOMAIN t = {"son", "recs", "words", "n", "bad"}
      BY <2>1 DEF RunFacts
    <3>2. t.n \in Nat /\ t.n > 0 /\ t.words \in Nat /\ b.words + t.n <= t.words /\ b.words + t.n <= BtLimit
      <4> DEFINE n == r.n
                 words == r.words
                 k == Len(g.recs)
      <4>1. n \in Nat /\ words \in Nat /\ b.words + n <= words /\ k \in Nat
        BY <1>3 DEF RunFacts
      <4>2. t.n = n + 1 /\ t.words = words + 1 + 2 * k /\ words < BtLimit
        BY <2>1, <2>3
      <4> HIDE DEF n, words, k
      <4> QED BY <4>1, <4>2, <1>4
    <3> QED BY <2>1, <2>2, <3>1, <3>2 DEF RunFacts
  <2> QED BY <1>6, <2>1, <2>4 DEF TreeStep, t, RunFacts
<1>7. CASE r.bad \/ r.words >= BtLimit
  BY <1>7 DEF TreeStep, RunFacts
<1> QED BY <1>2, <1>5, <1>6, <1>7

\* get_matches_spec_n_2 over a whole run.
LEMMA RunEnds ==
    ASSUME NEW heads, NEW size \in Nat, NEW pos, NEW tree, b.words \in Nat, b.words <= BtLimit
    PROVE  RunFacts(TreeRun(heads, size, pos, tree)) /\ TreeRun(heads, size, pos, tree).n <= size
<1> DEFINE Step(r, i) == TreeStep(r, heads[b.hpos + i], b.buffer + i - 1, pos + i - 1, b.cycPos + i - 1)
           base == [son |-> tree, recs |-> <<>>, words |-> b.words, n |-> 0, bad |-> FALSE]
           Rec(f, n) == f = [i \in 0 .. n |-> IF i = 0 THEN base ELSE Step(f[i - 1], i)]
           x == CHOOSE f : Rec(f, size)
           Good(r, i) == RunFacts(r) /\ r.n <= i
<1>1. TreeRun(heads, size, pos, tree) = x[size]
  BY Zenon DEF TreeRun
<1>2. Good(base, 0)
  BY EmptyIsSeq DEF RunFacts
<1>3. ASSUME NEW r, NEW i \in Nat, Good(r, i) PROVE Good(Step(r, i + 1), i + 1)
  <2>1. RunFacts(Step(r, i + 1)) /\ Step(r, i + 1).n <= r.n + 1
    BY <1>3, RunGoesOn
  <2> QED BY <1>3, <2>1 DEF RunFacts
<1> HIDE DEF Step, base, Good
<1>4. ASSUME NEW n \in Nat PROVE \E f : Rec(f, n)
  <2> DEFINE Bad == {m \in Nat : ~(\E f : Rec(f, m))}
  <2>1. SUFFICES ASSUME Bad # {} PROVE FALSE
    OBVIOUS
  <2>2. PICK m \in Bad : \A k \in Bad : ~(k < m)
    BY <2>1, LeastNat
  <2>3. m # 0
    <3>1. Rec([i \in 0 .. 0 |-> base], 0)
      OBVIOUS
    <3> QED BY <3>1
  <2>4. PICK f : Rec(f, m - 1)
    <3>1. m - 1 \in Nat /\ m - 1 < m
      BY <2>3
    <3> QED BY <2>2, <3>1
  <2> DEFINE g == [i \in 0 .. m |-> IF i = m THEN Step(f[m - 1], m) ELSE f[i]]
  <2>5. \A i \in 0 .. m : g[i] = IF i = 0 THEN base ELSE Step(g[i - 1], i)
    <3> TAKE i \in 0 .. m
    <3>1. CASE i = m
      BY <3>1, <2>3
    <3>2. CASE i # m
      <4>1. i \in 0 .. m - 1 /\ g[i] = f[i]
        BY <3>2
      <4>2. f[i] = IF i = 0 THEN base ELSE Step(f[i - 1], i)
        BY <2>4, <4>1
      <4>3. i # 0 => i - 1 \in 0 .. m /\ i - 1 # m /\ g[i - 1] = f[i - 1]
        BY <3>2
      <4> QED BY <4>1, <4>2, <4>3
    <3> QED BY <3>1, <3>2
  <2>6. Rec(g, m)
    BY <2>5
  <2> QED BY <2>6
<1>5. Rec(x, size)
  BY <1>4, Zenon
<1>6. \A i \in 0 .. size : Good(x[i], i)
  <2> DEFINE Bad == {m \in 0 .. size : ~Good(x[m], m)}
  <2>1. SUFFICES ASSUME Bad # {} PROVE FALSE
    OBVIOUS
  <2>5. Bad \subseteq Nat
    OBVIOUS
  <2>2. PICK m \in Bad : \A k \in Bad : ~(k < m)
    BY <2>1, <2>5, LeastNat
  <2>3. CASE m = 0
    BY <1>2, <1>5, <2>3
  <2>4. CASE m # 0
    <3>1. m - 1 \in 0 .. size /\ m - 1 \in Nat /\ m - 1 < m /\ (m - 1) + 1 = m
      BY <2>4
    <3>2. Good(x[m - 1], m - 1)
      BY <2>2, <3>1
    <3>3. x[m] = Step(x[m - 1], m)
      BY <1>5, <2>4
    <3> QED BY <1>3, <3>1, <3>2, <3>3
  <2> QED BY <2>3, <2>4
<1> QED BY <1>1, <1>6 DEF Good

(***************************************************************************)
(* Where the three threads are in the stream.  T[k] is the position at     *)
(* which the hash thread's block k begins and S[j] the one at which the    *)
(* record block j of the tree thread begins.                               *)
(***************************************************************************)
\* The stream position of the hash thread.
HeadPos == fed - HAvail

\* The hash thread will read no more.
Over == h.ended \/ h.err

HeadsMade == IF hs.needStart THEN 0 ELSE Hashed

HeadsTaken == IF hs.needStart THEN 0 ELSE IF pc.bt = "wait" THEN hs.processed - 1 ELSE hs.processed

RecordsMade == IF bs.needStart THEN 0 ELSE Treed

RecordsTaken == IF bs.needStart THEN 0 ELSE IF pc.lz = "wait" THEN bs.processed - 1 ELSE bs.processed

\* A stream has begun and nobody has stopped the threads yet.
Streaming == pc.lz \in Active /\ ~bs.wasStopped /\ pc.bt # "stopping"

HashPlace ==
    /\ DOMAIN h = {"buffer", "pos", "streamPos", "ended", "err", "failed", "index"}
    /\ h.buffer \in Int /\ h.pos \in Int /\ h.streamPos \in Int /\ HAvail >= 0
    /\ data \in Seq(Nat) /\ fed \in 0 .. Len(data)
    /\ ~direct => h.buffer + HAvail <= WinLen
    /\ h.failed => h.ended /\ threadFailed
    /\ h.ended => h.failed \/ fed = Len(data)

\* What the hash thread's block k says about the stream.
HeadBlock(T, k) ==
    LET blk == hashBuf[k % HashNumBlocks]
    IN  /\ ~blk.ok => T[k + 1] = T[k]
        /\ blk.ok => blk.avail \in Nat
        /\ blk.ok /\ blk.avail >= NumHashBytes =>
              /\ Len(blk.heads) \in 1 .. HashHeads /\ Len(blk.heads) < blk.avail
              /\ T[k + 1] = T[k] + Len(blk.heads) /\ T[k] + blk.avail <= fed
        /\ blk.ok /\ blk.avail < NumHashBytes =>
              T[k + 1] = T[k] + blk.avail /\ T[k + 1] = fed /\ HAvail = 0 /\ Over

HeadsLag(T) ==
    ~Over => \A k \in HeadsTaken .. HeadsMade : HeadPos <= T[k] + (HeadsMade - k) * HashHeads

Heads(T) ==
    /\ T[HeadsMade] = HeadPos
    /\ \A k \in HeadsTaken .. HeadsMade - 1 : HeadBlock(T, k)
    /\ HeadsLag(T)

\* The stream position behind the tree thread's last record,
Reached(T) == T[HeadsTaken] - (b.hlim - b.hpos)

\* which is its own position unless it has counted the last bytes of the stream.
Passed(T) == T[HeadsTaken] = fed /\ HAvail = 0 /\ Over /\ b.hpos = b.hlim /\ b.avail = 0

BtPlace(T) ==
    /\ DOMAIN b = {"hblk", "hpos", "hlim", "avail", "failure", "pos", "cycPos", "buffer", "at", "index",
                   "recs", "words", "done", "sum", "ok"}
    /\ b.at \in Nat /\ b.avail \in Nat /\ b.hpos \in Nat /\ b.hlim \in Nat
    /\ b.cycPos \in 0 .. Cyclic - 1
    /\ b.hpos <= b.hlim /\ b.hlim <= HashHeads
    /\ b.hpos < b.hlim => b.hlim - b.hpos < b.avail
    /\ b.at + b.avail <= fed
    /\ Reached(T) = b.at \/ Passed(T)

BtBlock(T) ==
    /\ b.words \in Nat /\ b.done \in Nat /\ b.sum \in Nat /\ IsSeq(b.recs)
    /\ pc.bt \in {"run", "wait"} =>
          /\ b.done = Len(b.recs) /\ b.done + b.avail = b.sum
          /\ b.done <= b.words /\ b.done <= BtLimit /\ (b.words > 0 => b.done > 0)
    /\ pc.bt = "wait" => b.hpos = b.hlim /\ b.words < BtLimit
    /\ pc.bt \notin {"run", "wait", "end"} => Len(b.recs) = 0
    /\ pc.bt = "end" =>
          /\ Reached(T) - Len(b.recs) + b.sum <= fed
          /\ b.ok => Passed(T) /\ (b.sum = 0 => Len(b.recs) = 0)
          /\ Len(b.recs) <= BtLimit \/ Over

\* The encoder may be told that no bytes are left at p.
Ending(p) == p = Len(data) \/ threadFailed \/ h.err

\* What the tree thread's block j says about the stream.
RecordBlock(S, j) ==
    LET blk == btBuf[j % BtNumBlocks]
    IN  /\ blk.avail \in Nat /\ Len(blk.recs) \in Nat
        /\ S[j + 1] = S[j] + Len(blk.recs)
        /\ S[j] + blk.avail <= fed
        /\ Len(blk.recs) <= BtLimit \/ Over
        /\ blk.ok /\ blk.avail = 0 => Len(blk.recs) = 0 /\ Ending(S[j])

RecordsLag(S) ==
    ~Over => \A j \in RecordsTaken .. RecordsMade : S[RecordsMade] <= S[j] + (RecordsMade - j) * BtLimit

Records(T, S) ==
    /\ S[RecordsMade] + Len(b.recs) = Reached(T)
    /\ \A j \in RecordsTaken .. RecordsMade - 1 : RecordBlock(S, j)
    /\ RecordsLag(S)

LzPlace(S) ==
    /\ DOMAIN l = {"blk", "pos", "lim", "pointer", "avail", "failed", "lzPos", "zero"}
    /\ at \in Nat /\ l.avail \in Nat /\ l.pos \in Nat /\ l.lim \in Nat /\ l.pos <= l.lim
    /\ ~l.failed => at + (l.lim - l.pos) = S[RecordsTaken] /\ (l.lim - l.pos <= BtLimit \/ Over)
    /\ at + l.avail <= fed
    /\ pc.lz = "wait" => l.pos = l.lim /\ ~l.failed
    /\ l.zero => l.avail = 0 /\ (l.failed \/ Ending(at))

Places(T, S) ==
    /\ HashPlace /\ Heads(T) /\ BtPlace(T) /\ BtBlock(T)
    /\ pc.lz \in {"body", "wait"} => Records(T, S) /\ LzPlace(S)

Positions == [Nat -> Nat]

PlacesInv == Streaming => \E T, S \in Positions : Places(T, S)

-----------------------------------------------------------------------------
\* What the constants are.
LEMMA Constants ==
    /\ NumHashBytes \in 2 .. 5 /\ MatchMaxLen \in Nat /\ NumHashBytes <= MatchMaxLen
    /\ HistorySize \in Nat /\ HistorySize > 0 /\ HashNumBlocks \in Nat /\ HashNumBlocks > 0
    /\ HashHeads \in Nat /\ HashHeads > 0 /\ BtNumBlocks \in Nat /\ BtNumBlocks > 0
    /\ BtLimit \in Nat /\ BtLimit > 0 /\ MoveAlign \in Nat /\ MoveAlign > 0
    /\ LagKept \in Nat /\ Reserve \in Nat /\ Reserve > MoveAlign
    /\ LagKept >= HashNumBlocks * HashHeads + BtNumBlocks * BtLimit
  BY MtFinderAssumption

\* What is derived from the constants: the window and what is kept in it.
LEMMA Room ==
    /\ Cyclic \in Nat /\ Cyclic >= 2
    /\ KeepAfter \in Nat /\ KeepAfter >= NumHashBytes
    /\ KeepBefore \in Nat /\ KeepBefore = HistorySize + LagKept + 1
    /\ WinLen \in Nat /\ WinLen = KeepBefore + KeepAfter + Reserve
  BY Constants DEF Cyclic, KeepAfter, KeepBefore, WinLen

\* What a read may bring.
LEMMA ReadFacts ==
    ASSUME HashPlace, direct \in BOOLEAN, ~NeedMove, NEW o \in Reads
    PROVE  /\ o.n \in Nat /\ o.n <= Len(data) - fed
           /\ ~direct => h.buffer + HAvail + o.n <= WinLen
           /\ Over => o.n = 0
           /\ o.end \in BOOLEAN /\ o.err \in BOOLEAN
           /\ o.end => fed + o.n = Len(data)
           /\ HAvail + o.n < NumHashBytes => Over \/ o.end \/ o.err
<1> DEFINE room == WinLen - h.buffer - HAvail
           left == Len(data) - fed
           most == MinOf(room, left)
           Short(n) == HAvail + n <= KeepAfter
           A == HAvail
<1>1. left \in Nat /\ A \in Nat /\ room \in Int /\ (~direct => room \in Nat)
  BY Room, SMTT(40) DEF HashPlace, HAvail
<1>2. most \in Int /\ most <= left /\ most <= room /\ (~direct => most \in Nat)
  BY <1>1 DEF MinOf
<1>3. NumHashBytes \in Nat /\ KeepAfter \in Nat /\ KeepAfter >= NumHashBytes
  BY Room, Constants
<1>4. \/ (h.ended \/ h.err \/ ~Short(0)) /\ o = [n |-> 0, end |-> FALSE, err |-> FALSE]
      \/ direct /\ ~Over /\ o = [n |-> left, end |-> TRUE, err |-> FALSE]
      \/ ~direct /\ ~Over /\ \E m \in 0 .. most : (m = room \/ ~Short(m)) /\ o = [n |-> m, end |-> FALSE, err |-> FALSE]
      \/ ~direct /\ ~Over /\ \E m \in {left} : m < room /\ o = [n |-> m, end |-> TRUE, err |-> FALSE]
      \/ ~direct /\ ~Over /\ \E m \in 0 .. MinOf(most, ReadSlack) : m < room /\ o = [n |-> m, end |-> FALSE, err |-> TRUE]
  BY Zenon DEF Reads, Over
<1>5. fed + left = Len(data) /\ h.buffer + HAvail \in Int /\ \A n \in Int : n <= room => h.buffer + HAvail + n <= WinLen
  BY Room, SMTT(40) DEF HashPlace, HAvail
<1>12. ~direct /\ ~Over => ~(A + room <= KeepAfter)
  <2>1. ~direct /\ ~Over => ~(WinLen - h.buffer <= KeepAfter)
    BY DEF NeedMove, Movable, Over
  <2>2. A + room = WinLen - h.buffer
    BY <1>1, Room DEF HashPlace
  <2> QED BY <2>1, <2>2
<1>13. \A m \in 0 .. MinOf(most, ReadSlack) : m \in Nat /\ m <= most
  BY <1>2, MtInputsAssumption DEF MinOf
<1>6. ~direct => h.buffer + HAvail + 0 <= WinLen
  <2>1. ~direct => h.buffer + HAvail <= WinLen
    BY DEF HashPlace
  <2>2. h.buffer + HAvail + 0 = h.buffer + HAvail
    BY <1>5
  <2> QED BY <2>1, <2>2, Zenon
<1> DEFINE Goal == /\ o.n \in Nat /\ o.n <= left
                   /\ ~direct => h.buffer + HAvail + o.n <= WinLen
                   /\ Over => o.n = 0
                   /\ o.end \in BOOLEAN /\ o.err \in BOOLEAN
                   /\ o.end => fed + o.n = Len(data)
                   /\ A + o.n < NumHashBytes => Over \/ o.end \/ o.err
<1> HIDE DEF room, left, most, A
<1>7. CASE (h.ended \/ h.err \/ ~Short(0)) /\ o = [n |-> 0, end |-> FALSE, err |-> FALSE]
  <2>1. ~(A + 0 <= KeepAfter) => ~(A + 0 < NumHashBytes)
    BY <1>1, <1>3
  <2>2. Goal
    BY <1>7, <2>1, <1>1, <1>3, <1>6 DEF Over, A
  <2> QED BY <2>2 DEF left, A
<1>8. CASE direct /\ ~Over /\ o = [n |-> left, end |-> TRUE, err |-> FALSE]
  <2>1. Goal
    BY <1>8, <1>1, <1>5
  <2> QED BY <2>1 DEF left, A
<1>9. ASSUME ~direct, ~Over, NEW m \in 0 .. most, m = room \/ ~Short(m), o = [n |-> m, end |-> FALSE, err |-> FALSE]
      PROVE  Goal
  <2>1. m \in Nat /\ m <= most
    BY <1>9, <1>2
  <2>2. ~(A + m < NumHashBytes)
    BY <1>9, <1>1, <1>3, <1>12, <2>1 DEF A
  <2>3. m <= left /\ m <= room
    BY <2>1, <1>1, <1>2
  <2> QED BY <1>9, <2>1, <2>2, <2>3, <1>5
<1>10. ASSUME ~direct, ~Over, NEW m \in {left}, m < room, o = [n |-> m, end |-> TRUE, err |-> FALSE]
      PROVE  Goal
  BY <1>10, <1>1, <1>5
<1>11. ASSUME ~direct, ~Over, NEW m \in 0 .. MinOf(most, ReadSlack), m < room, o = [n |-> m, end |-> FALSE, err |-> TRUE]
      PROVE  Goal
  <2>1. m \in Nat /\ m <= left /\ m <= room
    BY <1>13, <1>1, <1>2
  <2> QED BY <1>11, <2>1, <1>5
<1> QED BY <1>4, <1>7, <1>8, <1>9, <1>10, <1>11 DEF left, A, Goal

HFields == {"buffer", "pos", "streamPos", "ended", "err", "failed", "index"}

\* What hash_fill_block makes of the bytes that are available.
LEMMA FillFacts ==
    ASSUME NEW g, DOMAIN g = HFields, g.pos \in Int, g.streamPos \in Int, g.streamPos >= g.pos, g.buffer \in Int,
           NEW w, NEW tab
    PROVE  LET f == HashFill(g, w, tab)
               avail == g.streamPos - g.pos
           IN  \E step \in 0 .. avail :
                 /\ f.block.ok /\ f.block.avail = avail
                 /\ avail >= NumHashBytes => step \in 1 .. HashHeads /\ step < avail /\ Len(f.block.heads) = step
                 /\ avail < NumHashBytes => step = avail
                 /\ DOMAIN f.g = HFields /\ f.g.pos \in Int /\ f.g.streamPos \in Int
                 /\ f.g.streamPos - f.g.pos = avail - step /\ f.g.buffer = g.buffer + step
                 /\ f.g.ended = g.ended /\ f.g.err = g.err /\ f.g.failed = g.failed
<1> DEFINE avail == g.streamPos - g.pos
           num   == HeadCount(avail)
           sub   == IF num > 0 /\ g.pos > MaxVal - num THEN g.pos - HistorySize - 1 ELSE 0
           pos   == g.pos - sub
           x     == GetHeads(w, g.buffer, pos, num, Normalize3(sub, tab))
           step  == IF avail >= NumHashBytes THEN num ELSE avail
           f     == HashFill(g, w, tab)
<1>1. f = [block |-> [ok |-> TRUE, avail |-> avail, heads |-> x.heads], tab |-> x.tab,
           g |-> [g EXCEPT !.pos = pos + step, !.streamPos = @ - sub, !.buffer = @ + step]]
  BY Zenon DEF HashFill
<1>2. avail \in Nat
  OBVIOUS
<1> HIDE DEF avail
<1>3. num \in Nat /\ (avail >= NumHashBytes => num \in 1 .. HashHeads /\ num < avail)
  BY <1>2, Constants DEF HeadCount, MinOf
<1> HIDE DEF num
<1>4. Len(x.heads) = num
  BY <1>3, HeadsRun
<1>5. sub \in Int
  BY Constants
<1> HIDE DEF sub, x, f
<1>6. step \in 0 .. avail /\ NumHashBytes \in Nat
  BY <1>2, <1>3, Constants
<1>7. /\ f.block.ok /\ f.block.avail = avail /\ f.block.heads = x.heads
      /\ f.g = [g EXCEPT !.pos = pos + step, !.streamPos = @ - sub, !.buffer = @ + step]
  BY <1>1
<1> DEFINE s == step
<1>8. /\ DOMAIN f.g = HFields /\ f.g.pos = g.pos - sub + s /\ f.g.streamPos = g.streamPos - sub
      /\ f.g.buffer = g.buffer + s
      /\ f.g.ended = g.ended /\ f.g.err = g.err /\ f.g.failed = g.failed
  BY <1>7 DEF HFields
<1>9. f.g.pos \in Int /\ f.g.streamPos \in Int /\ f.g.streamPos - f.g.pos = avail - s
  <2> HIDE DEF s
  <2>1. s \in Int
    BY <1>6 DEF s
  <2> QED BY <1>5, <1>8, <2>1 DEF avail
<1>10. (avail >= NumHashBytes => s = num) /\ (avail < NumHashBytes => s = avail)
  BY <1>2, <1>6
<1> HIDE DEF s
<1>11. s \in 0 .. avail
  BY <1>6 DEF s
<1> QED BY <1>3, <1>4, <1>7, <1>8, <1>9, <1>10, <1>11 DEF avail, f

\* A block of heads as it is handed over, and what it has done to the stream.
Made(blk, n, step) ==
    /\ hashBuf' = [hashBuf EXCEPT ![h.index % HashNumBlocks] = blk]
    /\ n \in Nat /\ step \in Nat /\ fed' = fed + n /\ n <= Len(data) - fed
    /\ ~direct => h.buffer + HAvail + n <= WinLen
    /\ Over => n = 0 /\ Over'
    /\ \/ win' = win /\ n = 0
       \/ \E o : o.n = n /\ win' = Filled(o)
    /\ DOMAIN h' = HFields /\ h'.pos \in Int /\ h'.streamPos \in Int
    /\ h'.streamPos - h'.pos = HAvail + n - step /\ h'.buffer = h.buffer + step
    /\ h'.index = h.index + 1
    /\ h'.failed => h'.ended /\ threadFailed'
    /\ h'.ended => h'.failed \/ fed' = Len(data)
    /\ h.err => h'.err
    /\ threadFailed => threadFailed'
    /\ \/ ~blk.ok /\ step = 0
       \/ /\ blk.ok /\ blk.avail = HAvail + n /\ blk.avail >= NumHashBytes
          /\ step \in 1 .. HashHeads /\ step < blk.avail /\ Len(blk.heads) = step
       \/ blk.ok /\ blk.avail = HAvail + n /\ blk.avail < NumHashBytes /\ step = blk.avail /\ Over'

\* Every pass of the inner loop of hash_thread_func that is not stopped makes such a block.
LEMMA BlockMade ==
    ASSUME Protocol, HashPlace, HashBlock, ~hs.stop
    PROVE  \E blk, n, step : Made(blk, n, step)
<1>1. \/ /\ h' = [h EXCEPT !.failed = TRUE, !.ended = TRUE, !.index = @ + 1]
         /\ threadFailed' = TRUE
         /\ hashBuf' = [hashBuf EXCEPT ![h.index % HashNumBlocks] = FailedBlock]
         /\ UNCHANGED <<win, fed>>
      \/ /\ ~h.failed /\ UNCHANGED threadFailed
         /\ \E o \in Reads : \E w \in {Filled(o)} :
            \E f \in {HashFill([h EXCEPT !.streamPos = @ + o.n, !.ended = @ \/ o.end, !.err = @ \/ o.err], w, high)} :
              /\ win' = w /\ fed' = fed + o.n
              /\ h' = [f.g EXCEPT !.index = @ + 1]
              /\ high' = f.tab
              /\ hashBuf' = [hashBuf EXCEPT ![h.index % HashNumBlocks] = f.block]
  BY Zenon DEF HashBlock
<1>2. UNCHANGED <<data, direct>>
  BY DEF HashBlock, inputVars
<1>3. /\ DOMAIN h = HFields /\ h.buffer \in Int /\ h.pos \in Int /\ h.streamPos \in Int
      /\ HAvail \in Nat /\ fed \in Nat /\ fed <= Len(data) /\ Len(data) \in Nat
      /\ direct \in BOOLEAN /\ h.index \in Nat
  <2>1. Len(data) \in Nat
    BY DEF HashPlace
  <2> QED BY <2>1 DEF HashPlace, HAvail, Protocol, Control, Fields, HFields
<1>6. ~NeedMove
  BY DEF HashBlock
<1>4. ASSUME h' = [h EXCEPT !.failed = TRUE, !.ended = TRUE, !.index = @ + 1],
             threadFailed' = TRUE,
             hashBuf' = [hashBuf EXCEPT ![h.index % HashNumBlocks] = FailedBlock],
             UNCHANGED <<win, fed>>
      PROVE  Made(FailedBlock, 0, 0)
  <2>1. /\ DOMAIN h' = HFields /\ h'.pos = h.pos /\ h'.streamPos = h.streamPos /\ h'.buffer = h.buffer
        /\ h'.index = h.index + 1 /\ h'.failed = TRUE /\ h'.ended = TRUE /\ h'.err = h.err
    BY <1>3, <1>4 DEF HFields
  <2>2. /\ ~FailedBlock.ok
    BY DEF FailedBlock
  <2>3. ~direct => h.buffer + HAvail + 0 <= WinLen
    BY <1>3 DEF HashPlace
  <2>4. h'.streamPos - h'.pos = HAvail + 0 - 0
    BY <1>3, <2>1 DEF HAvail
  <2>5. h'.buffer = h.buffer + 0
    BY <1>3, <2>1
  <2>6. fed' = fed + 0 /\ 0 <= Len(data) - fed
    BY <1>3, <1>4
  <2> QED BY <1>3, <1>4, <2>1, <2>2, <2>3, <2>4, <2>5, <2>6 DEF Made, Over
<1>5. ASSUME ~h.failed, UNCHANGED threadFailed, NEW o \in Reads, NEW f,
             f = HashFill([h EXCEPT !.streamPos = @ + o.n, !.ended = @ \/ o.end, !.err = @ \/ o.err], Filled(o), high),
             win' = Filled(o), fed' = fed + o.n, h' = [f.g EXCEPT !.index = @ + 1],
             hashBuf' = [hashBuf EXCEPT ![h.index % HashNumBlocks] = f.block]
      PROVE  \E step : Made(f.block, o.n, step)
  <2> DEFINE g == [h EXCEPT !.streamPos = @ + o.n, !.ended = @ \/ o.end, !.err = @ \/ o.err]
             avail == g.streamPos - g.pos
  <2>1. /\ o.n \in Nat /\ o.n <= Len(data) - fed
        /\ ~direct => h.buffer + HAvail + o.n <= WinLen
        /\ Over => o.n = 0
        /\ o.end \in BOOLEAN /\ o.err \in BOOLEAN
        /\ o.end => fed + o.n = Len(data)
        /\ HAvail + o.n < NumHashBytes => Over \/ o.end \/ o.err
    BY <1>3, <1>5, <1>6, ReadFacts
  <2>2. /\ DOMAIN g = HFields /\ g.pos = h.pos /\ g.streamPos = h.streamPos + o.n /\ g.buffer = h.buffer
        /\ g.index = h.index /\ g.failed = h.failed
    BY <1>3 DEF HFields
  <2>3. (g.ended <=> h.ended \/ o.end) /\ (g.err <=> h.err \/ o.err)
    <3>1. g.ended = (h.ended \/ o.end) /\ g.err = (h.err \/ o.err)
      BY <1>3 DEF HFields
    <3> QED BY <3>1, Zenon
  <2>4. avail = HAvail + o.n /\ avail \in Nat
    BY <1>3, <2>1, <2>2, SMTT(40) DEF HAvail
  <2> HIDE DEF g
  <2>5. f = HashFill(g, Filled(o), high)
    BY <1>5, Zenon DEF g
  <2>6. PICK step \in 0 .. avail :
                 /\ f.block.ok /\ f.block.avail = avail
                 /\ avail >= NumHashBytes => step \in 1 .. HashHeads /\ step < avail /\ Len(f.block.heads) = step
                 /\ avail < NumHashBytes => step = avail
                 /\ DOMAIN f.g = HFields /\ f.g.pos \in Int /\ f.g.streamPos \in Int
                 /\ f.g.streamPos - f.g.pos = avail - step /\ f.g.buffer = g.buffer + step
                 /\ f.g.ended = g.ended /\ f.g.err = g.err /\ f.g.failed = g.failed
    <3>1. g.pos \in Int /\ g.streamPos \in Int /\ g.streamPos >= g.pos /\ g.buffer \in Int
      BY <1>3, <2>1, <2>2, <2>4
    <3> QED BY <2>2, <2>5, <3>1, FillFacts, SMTT(40)
  <2> HIDE DEF avail
  <2>7. /\ DOMAIN h' = HFields /\ h'.pos = f.g.pos /\ h'.streamPos = f.g.streamPos /\ h'.buffer = f.g.buffer
        /\ h'.ended = f.g.ended /\ h'.err = f.g.err /\ h'.failed = f.g.failed
    BY <1>5, <2>6 DEF HFields
  <2>8. h'.index = h.index + 1
    <3>1. f.g.index = g.index
      BY <2>2, <2>5, FillIndex DEF HFields
    <3> QED BY <1>5, <2>2, <2>6, <3>1 DEF HFields
  <2>9. (h'.ended <=> h.ended \/ o.end) /\ (h'.err <=> h.err \/ o.err) /\ ~h'.failed
    <3>1. h'.ended = g.ended /\ h'.err = g.err /\ h'.failed = h.failed
      BY <2>2, <2>6, <2>7
    <3> QED BY <1>5, <2>3, <3>1
  <2>10. (Over => Over') /\ (HAvail + o.n < NumHashBytes => Over')
    BY <2>1, <2>9 DEF Over
  <2>11. h'.ended => fed' = Len(data)
    <3>1. h.ended => fed = Len(data)
      BY <1>5 DEF HashPlace
    <3>2. Over => fed' = fed
      BY <1>3, <1>5, <2>1
    <3> QED BY <1>5, <2>1, <2>9, <3>1, <3>2 DEF Over
  <2>12. NumHashBytes \in Nat
    BY Constants
  <2>13. /\ h'.pos \in Int /\ h'.streamPos \in Int /\ h'.streamPos - h'.pos = HAvail + o.n - step
         /\ h'.buffer = h.buffer + step
    <3>1. h'.pos \in Int /\ h'.streamPos \in Int /\ h'.streamPos - h'.pos = avail - step
      BY <2>6, <2>7
    <3>2. h'.buffer = h.buffer + step
      BY <2>2, <2>6, <2>7
    <3>3. avail - step = HAvail + o.n - step
      BY <1>3, <2>1, <2>4, <2>6
    <3> QED BY <3>1, <3>2, <3>3
  <2>14. Made(f.block, o.n, step)
    <3>1. step \in Nat
      BY <2>4, <2>6
    <3>2. \/ /\ f.block.ok /\ f.block.avail = HAvail + o.n /\ f.block.avail >= NumHashBytes
             /\ step \in 1 .. HashHeads /\ step < f.block.avail /\ Len(f.block.heads) = step
          \/ f.block.ok /\ f.block.avail = HAvail + o.n /\ f.block.avail < NumHashBytes /\ step = f.block.avail /\ Over'
      BY <2>4, <2>6, <2>10, <2>12
    <3>3. UNCHANGED data /\ h.err => h'.err
      BY <1>2, <2>9
    <3> QED BY <1>2, <1>5, <2>1, <2>7, <2>8, <2>9, <2>10, <2>11, <2>13, <3>1, <3>2, Zenon DEF Made
  <2> QED BY <2>14
<1> QED BY <1>1, <1>4, <1>5

Buffers == DOMAIN hashBuf = 0 .. HashNumBlocks - 1 /\ DOMAIN btBuf = 0 .. BtNumBlocks - 1

\* The stream goes on: nothing that was found is lost, and nothing follows its end.
Grows ==
    /\ data' = data /\ fed \in Nat /\ fed' \in Nat /\ fed <= fed'
    /\ Over => Over' /\ fed' = fed /\ (HAvail = 0 => HAvail' = 0)
    /\ threadFailed => threadFailed'
    /\ h.err => h'.err

\* The encoder stays where it is while the others go on.
LEMMA LzPlaceKept ==
    ASSUME Grows, NEW S, UNCHANGED <<l, at>>, RecordsTaken' = RecordsTaken, pc'.lz = pc.lz, LzPlace(S)
    PROVE  LzPlace(S)'
<1>1. Ending(at) => Ending(at)'
  BY DEF Ending, Grows
<1>2. at + l.avail <= fed => at + l.avail <= fed'
  BY DEF Grows, LzPlace
<1>3. Over => Over'
  BY DEF Grows
<1> QED BY <1>1, <1>2, <1>3 DEF LzPlace

\* A block of records that stays in the ring goes on to be right.
LEMMA RecordBlockKept ==
    ASSUME Grows, NEW S \in Positions, NEW j \in Nat, RecordBlock(S, j),
           btBuf'[j % BtNumBlocks] = btBuf[j % BtNumBlocks]
    PROVE  RecordBlock(S, j)'
<1> DEFINE blk == btBuf[j % BtNumBlocks]
           blk2 == btBuf'[j % BtNumBlocks]
<1>1. /\ blk.avail \in Nat /\ Len(blk.recs) \in Nat
      /\ S[j + 1] = S[j] + Len(blk.recs)
      /\ S[j] + blk.avail <= fed
      /\ Len(blk.recs) <= BtLimit \/ Over
      /\ blk.ok /\ blk.avail = 0 => Len(blk.recs) = 0 /\ Ending(S[j])
  BY DEF RecordBlock
<1>2. blk2 = blk /\ S[j] \in Nat
  BY DEF Positions
<1> HIDE DEF blk, blk2
<1>3. S[j] + blk.avail <= fed' /\ (Over => Over') /\ (Ending(S[j]) => Ending(S[j])')
  BY <1>1, <1>2 DEF Grows, Ending
<1> QED BY <1>1, <1>2, <1>3 DEF RecordBlock, blk, blk2

\* The blocks of records do not change while the tree thread writes none.
LEMMA RecordsStay ==
    ASSUME Grows, NEW S \in Positions, NEW T, NEW U, btBuf' = btBuf, RecordsMade' = RecordsMade,
           RecordsTaken' = RecordsTaken, Len(b.recs)' = Len(b.recs), Reached(U)' = Reached(T),
           RecordsTaken \in Nat, Records(T, S)
    PROVE  Records(U, S)'
<1>1. \A j \in RecordsTaken .. RecordsMade - 1 : RecordBlock(S, j)'
  <2> TAKE j \in RecordsTaken .. RecordsMade - 1
  <2>1. RecordBlock(S, j)
    BY DEF Records
  <2>2. j \in Nat
    OBVIOUS
  <2> QED BY <2>1, <2>2, RecordBlockKept
<1>2. RecordsLag(S)'
  BY DEF Records, RecordsLag, Grows
<1> QED BY <1>1, <1>2 DEF Records

\* The tree thread stays where it is while the others go on.
LEMMA BtKept ==
    ASSUME Grows, NEW T, NEW U, UNCHANGED b, pc'.bt = pc.bt, HeadsTaken' = HeadsTaken, U[HeadsTaken] = T[HeadsTaken],
           BtPlace(T), BtBlock(T), fed \in Nat
    PROVE  BtPlace(U)' /\ BtBlock(U)' /\ Reached(U)' = Reached(T)
<1>1. Reached(U)' = Reached(T)
  BY DEF Reached
<1>2. Passed(T) => Passed(U)'
  BY DEF Passed, Grows
<1>3. b.at + b.avail <= fed'
  BY DEF BtPlace, Grows
<1>4. BtPlace(U)'
  BY <1>1, <1>2, <1>3 DEF BtPlace
<1>5. ASSUME pc.bt = "end"
      PROVE  /\ Reached(T) - Len(b.recs) + b.sum <= fed'
             /\ b.ok => Passed(U)' /\ (b.sum = 0 => Len(b.recs) = 0)
             /\ Len(b.recs) <= BtLimit \/ Over'
  <2>1. /\ Reached(T) - Len(b.recs) + b.sum <= fed
        /\ b.ok => Passed(T) /\ (b.sum = 0 => Len(b.recs) = 0)
        /\ Len(b.recs) <= BtLimit \/ Over
    BY <1>5 DEF BtBlock
  <2>2. Reached(T) - Len(b.recs) + b.sum \in Int
    <3>1. Reached(T) \in Int
      BY DEF BtPlace, Passed, Reached
    <3> QED BY <3>1, SeqFacts DEF BtBlock
  <2> QED BY <2>1, <2>2, <1>2 DEF Grows
<1> QED BY <1>1, <1>4, <1>5 DEF BtBlock

\* Multiplication, a step at a time.
LEMMA OneMore == ASSUME NEW n \in Int, NEW m \in Int PROVE (n + 1) * m = n * m + m
  OBVIOUS

\* The block of heads that is made next has a slot of its own.
LEMMA HeadCounts ==
    ASSUME IInv, Streaming
    PROVE  /\ HeadsMade \in Nat /\ HeadsTaken \in Nat /\ HeadsTaken <= HeadsMade
           /\ ~hs.needStart => /\ hs.free = HashNumBlocks + hs.processed - 1 - HeadsMade
                               /\ hs.filled = HeadsMade - HeadsTaken
                               /\ hs.processed \in Nat /\ hs.processed > 0 /\ hs.free >= 0
                               /\ ~hs.stop
                               /\ b.hblk = (hs.processed - 1) % HashNumBlocks
           /\ pc.bt # "wait" => HeadsTaken = (IF hs.needStart THEN 0 ELSE hs.processed)
           /\ pc.bt = "wait" => ~hs.needStart /\ HeadsTaken = hs.processed - 1
           /\ HeadsMade - HeadsTaken <= HashNumBlocks
<1>1. ~hs.needStart => ~hs.stop
  BY DEF IInv, Protocol, HashInv, Streaming
<1>2. pc.bt = "wait" => ~hs.needStart
  BY DEF IInv, Protocol, HashInv
<1>3. Hashed \in Nat /\ hs.processed \in Nat /\ hs.free \in Int /\ hs.filled \in Int
  BY DEF IInv, Protocol, Fields, Control, Syncs, Hashed
<1>4. HashNumBlocks \in Nat
  BY Constants
<1> QED BY <1>1, <1>2, <1>3, <1>4 DEF IInv, Protocol, HeadRing, HeadsMade, HeadsTaken

\* The block of records that is made next has a slot of its own.
LEMMA RecordCounts ==
    ASSUME IInv, pc.lz \in {"body", "wait"}
    PROVE  /\ RecordsMade \in Nat /\ RecordsTaken \in Nat /\ RecordsTaken <= RecordsMade
           /\ ~bs.needStart => /\ bs.free = BtNumBlocks + bs.processed - 1 - RecordsMade - (IF AtWork THEN 1 ELSE 0)
                               /\ bs.filled = RecordsMade - RecordsTaken
                               /\ bs.processed \in Nat /\ bs.processed > 0 /\ bs.free >= 0
                               /\ l.blk = (bs.processed - 1) % BtNumBlocks
           /\ bs.needStart => ~AtWork
           /\ pc.lz = "body" => RecordsTaken = (IF bs.needStart THEN 0 ELSE bs.processed)
           /\ pc.lz = "wait" => ~bs.needStart /\ RecordsTaken = bs.processed - 1
<1>1. ~bs.needStart => ~bs.stop
  BY DEF IInv, Protocol, BtInv
<1>2. pc.lz = "wait" => ~bs.needStart
  BY DEF IInv, Protocol, BtInv
<1>3. Treed \in Nat /\ bs.processed \in Nat /\ bs.free \in Int /\ bs.filled \in Int
  BY DEF IInv, Protocol, Fields, Control, Syncs, Treed
<1>4. BtNumBlocks \in Nat
  BY Constants
<1>5. bs.needStart => ~AtWork
  BY DEF IInv, Protocol, BtInv, Handshake, AtWork
<1> QED BY <1>1, <1>2, <1>3, <1>4, <1>5 DEF IInv, Protocol, RecordRing, RecordsMade, RecordsTaken

\* A block of heads that stays in the ring goes on to be right.
LEMMA HeadBlockKept ==
    ASSUME Grows, NEW T, NEW U, NEW k, HeadBlock(T, k),
           hashBuf'[k % HashNumBlocks] = hashBuf[k % HashNumBlocks], U[k] = T[k], U[k + 1] = T[k + 1], T[k] \in Nat
    PROVE  HeadBlock(U, k)'
<1> DEFINE blk == hashBuf[k % HashNumBlocks]
           blk2 == hashBuf'[k % HashNumBlocks]
<1>1. /\ ~blk.ok => T[k + 1] = T[k]
      /\ blk.ok => blk.avail \in Nat
      /\ blk.ok /\ blk.avail >= NumHashBytes =>
            /\ Len(blk.heads) \in 1 .. HashHeads /\ Len(blk.heads) < blk.avail
            /\ T[k + 1] = T[k] + Len(blk.heads) /\ T[k] + blk.avail <= fed
      /\ blk.ok /\ blk.avail < NumHashBytes =>
            T[k + 1] = T[k] + blk.avail /\ T[k + 1] = fed /\ HAvail = 0 /\ Over
  BY DEF HeadBlock
<1>2. blk2 = blk
  OBVIOUS
<1> HIDE DEF blk, blk2
<1>3. blk.ok /\ T[k] + blk.avail <= fed => T[k] + blk.avail <= fed'
  BY <1>1 DEF Grows
<1> QED BY <1>1, <1>2, <1>3 DEF HeadBlock, blk, blk2, Grows

\* hash_thread_func makes a block: the next one begins behind its heads.
LEMMA PlacesHashBlock ==
    ASSUME IInv, Buffers, HashBlock, Streaming, NEW T \in Positions, NEW S \in Positions, Places(T, S)
    PROVE  \E U \in Positions : Places(U, S)'
<1>1. pc.hash = "loop" /\ ~NeedMove /\ hs.free > 0
  BY DEF HashBlock
<1>2. ~hs.needStart
  BY <1>1 DEF IInv, Protocol, HashInv, Handshake
<1>3. ~hs.stop
  BY <1>2, HeadCounts
<1>4. ~hs.canStart
  BY <1>1, <1>2 DEF IInv, Protocol, HashInv, Handshake, Control
<1>5. Protocol /\ HashPlace
  BY DEF IInv, Places
<1>6. PICK blk, n, step : Made(blk, n, step)
  BY <1>3, <1>5, BlockMade
<1>7. /\ UNCHANGED <<bs, data, direct, shift, b, son, btBuf, l, low, at, found, pc>>
      /\ hs' = [hs EXCEPT !.free = @ - 1, !.filled = @ + 1]
  <2>1. UNCHANGED <<bs, inputVars, shift, btVars, lzVars>>
    BY DEF HashBlock
  <2>2. hs' = [hs EXCEPT !.free = @ - 1, !.filled = @ + 1] /\ pc' = pc
    BY <1>3, Zenon DEF HashBlock
  <2> QED BY <2>1, <2>2 DEF inputVars, btVars, lzVars
<1>20. PICK K : K = h.index
  OBVIOUS
<1> DEFINE U == [T EXCEPT ![K + 1] = T[K] + step]
<1>8. K \in Nat /\ HeadsMade = K
  BY <1>2, <1>4, <1>20 DEF IInv, Protocol, Fields, HeadsMade, Hashed
<1>9. /\ HeadsMade' = K + 1 /\ HeadsTaken' = HeadsTaken
      /\ RecordsMade' = RecordsMade /\ RecordsTaken' = RecordsTaken
  <2>1. hs'.needStart = hs.needStart /\ hs'.canStart = hs.canStart /\ hs'.processed = hs.processed
    BY <1>7 DEF IInv, Protocol, Control, Syncs
  <2>2. h'.index = K + 1
    BY <1>6, <1>20 DEF Made
  <2> QED BY <1>2, <1>4, <1>7, <2>1, <2>2 DEF HeadsMade, HeadsTaken, RecordsMade, RecordsTaken, Hashed, Treed
<1>10. /\ HeadsTaken \in Nat /\ HeadsTaken <= K /\ K - HeadsTaken < HashNumBlocks /\ HashNumBlocks \in Nat
  <2>1. /\ HeadsTaken \in Nat /\ HeadsTaken <= HeadsMade /\ HashNumBlocks \in Nat
        /\ hs.free = HashNumBlocks + hs.processed - 1 - HeadsMade /\ hs.processed \in Nat
        /\ HeadsTaken >= hs.processed - 1
    BY <1>2, HeadCounts, Constants
  <2> QED BY <1>1, <1>8, <2>1
<1>11. U \in Positions /\ U[K + 1] = T[K] + step /\ \A k \in Nat : k # K + 1 => U[k] = T[k]
  <2>1. T[K] + step \in Nat
    <3>1. step \in Nat
      BY <1>6 DEF Made
    <3> QED BY <1>8, <3>1 DEF Positions
  <2> QED BY <1>8, <2>1 DEF Positions
<1> HIDE DEF U
<1>12. HAvail \in Nat /\ fed \in Nat /\ Len(data) \in Nat /\ fed <= Len(data) /\ h.buffer \in Int /\ data \in Seq(Nat)
  BY <1>5 DEF HashPlace, HAvail
<1>13. /\ n \in Nat /\ step \in Nat /\ fed' = fed + n /\ fed + n <= Len(data)
       /\ HAvail' = HAvail + n - step /\ step <= HAvail + n
       /\ h'.buffer = h.buffer + step
  <2>1. step <= HAvail + n
    BY <1>6, <1>12, Constants DEF Made
  <2> QED BY <1>6, <1>12, <2>1 DEF Made, HAvail
<1>14. HashPlace'
  <2>1. ~direct => h'.buffer + HAvail' <= WinLen
    <3>1. ~direct => h.buffer + HAvail + n <= WinLen
      BY <1>6 DEF Made
    <3>2. WinLen \in Int
      BY Room
    <3> QED BY <1>12, <1>13, <3>1, <3>2
  <2>2. HAvail' >= 0 /\ h'.buffer \in Int /\ fed' \in 0 .. Len(data)
    BY <1>12, <1>13
  <2> QED BY <1>6, <1>7, <1>12, <2>1, <2>2 DEF Made, HashPlace, HFields
<1>15. Grows
  <2>1. Over => Over' /\ n = 0
    BY <1>6 DEF Made
  <2>2. Over /\ HAvail = 0 => HAvail' = 0
    BY <2>1, <1>12, <1>13
  <2>3. data' = data /\ (threadFailed => threadFailed') /\ (h.err => h'.err)
    BY <1>6, <1>7 DEF Made
  <2>4. fed \in Nat /\ fed' \in Nat /\ fed <= fed' /\ (n = 0 => fed' = fed)
    BY <1>12, <1>13
  <2> QED BY <2>1, <2>2, <2>3, <2>4 DEF Grows
<1>16. HeadPos = T[K] /\ HeadPos' = T[K] + step /\ T[K] \in Nat
  <2>1. HeadPos = T[K]
    BY <1>8 DEF Places, Heads
  <2>2. HeadPos' = HeadPos + step
    BY <1>12, <1>13 DEF HeadPos
  <2> QED BY <1>8, <2>1, <2>2 DEF Positions
<1>17. Heads(U)'
  <2>1. (T[HeadsMade])' = (T[HeadsMade])' /\ U[HeadsMade'] = HeadPos'
    BY <1>9, <1>11, <1>16
  <2>2. ASSUME NEW k \in HeadsTaken .. K - 1 PROVE HeadBlock(U, k)'
    <3>1. k \in Nat /\ k # K + 1 /\ k + 1 # K + 1 /\ k < K /\ K < k + HashNumBlocks
      BY <1>8, <1>10
    <3>2. k % HashNumBlocks # K % HashNumBlocks
      BY <3>1, <1>8, RingSlots, Sizes
    <3>3. hashBuf'[k % HashNumBlocks] = hashBuf[k % HashNumBlocks]
      BY <1>6, <1>20, <3>2 DEF Made
    <3>4. U[k] = T[k] /\ U[k + 1] = T[k + 1] /\ T[k] \in Nat
      BY <1>11, <3>1 DEF Positions
    <3>5. HeadBlock(T, k)
      BY <1>8 DEF Places, Heads
    <3> QED BY <1>15, <3>3, <3>4, <3>5, HeadBlockKept
  <2>3. HeadBlock(U, K)'
    <3>1. hashBuf'[K % HashNumBlocks] = blk
      <4>1. K % HashNumBlocks \in 0 .. HashNumBlocks - 1
        BY <1>8, Sizes, DivMod
      <4> QED BY <1>6, <1>20, <4>1 DEF Made, Buffers
    <3>2. U[K] = T[K] /\ U[K + 1] = T[K] + step
      BY <1>8, <1>11
    <3>3. fed - HAvail = T[K]
      BY <1>16 DEF HeadPos
    <3>4. CASE ~blk.ok /\ step = 0
      BY <3>1, <3>2, <3>4, <1>16 DEF HeadBlock
    <3>5. CASE /\ blk.ok /\ blk.avail = HAvail + n /\ blk.avail >= NumHashBytes
               /\ step \in 1 .. HashHeads /\ step < blk.avail /\ Len(blk.heads) = step
      <4>1. blk.avail \in Nat /\ T[K] + blk.avail <= fed' /\ ~(blk.avail < NumHashBytes)
        BY <3>3, <3>5, <1>12, <1>13, <1>16, Constants
      <4> QED BY <3>1, <3>2, <3>5, <4>1 DEF HeadBlock
    <3>6. CASE blk.ok /\ blk.avail = HAvail + n /\ blk.avail < NumHashBytes /\ step = blk.avail /\ Over'
      <4>1. blk.avail \in Nat /\ T[K] + blk.avail = fed' /\ ~(blk.avail >= NumHashBytes) /\ HAvail' = 0
        BY <3>3, <3>6, <1>12, <1>13, <1>16, Constants
      <4> QED BY <3>1, <3>2, <3>6, <4>1 DEF HeadBlock
    <3> QED BY <1>6, <3>4, <3>5, <3>6 DEF Made
  <2>4. HeadsLag(U)'
    <3>1. SUFFICES ASSUME ~Over', NEW k \in HeadsTaken .. K + 1
                   PROVE  HeadPos' <= U[k] + ((K + 1) - k) * HashHeads
      BY <1>9 DEF HeadsLag
    <3>2. HashHeads \in Nat /\ step <= HashHeads
      <4>1. HashHeads \in Nat /\ HashHeads > 0
        BY Constants
      <4> QED BY <1>6, <3>1, <4>1 DEF Made
    <3>3. CASE k = K + 1
      <4>1. ((K + 1) - k) * HashHeads = 0
        BY <1>8, <3>2, <3>3
      <4> QED BY <1>11, <1>13, <1>16, <3>3, <4>1
    <3>4. CASE k # K + 1
      <4>1. k \in HeadsTaken .. K /\ k \in Nat
        BY <1>8, <1>10, <3>4
      <4>2. HeadPos <= T[k] + (K - k) * HashHeads
        <5>1. ~Over
          BY <3>1, <1>15 DEF Grows
        <5> QED BY <1>8, <4>1, <5>1 DEF Places, Heads, HeadsLag
      <4>3. ((K + 1) - k) * HashHeads = (K - k) * HashHeads + HashHeads
        <5>1. (K + 1) - k = (K - k) + 1 /\ K - k \in Int
          BY <1>8, <4>1
        <5> QED BY <5>1, <3>2, OneMore
      <4>4. (K - k) * HashHeads \in Int /\ T[k] \in Nat /\ U[k] = T[k]
        BY <1>8, <1>11, <3>2, <3>4, <4>1 DEF Positions
      <4> QED BY <1>13, <1>16, <3>2, <4>2, <4>3, <4>4, SMTT(40)
    <3> QED BY <3>3, <3>4
  <2>5. \A k \in HeadsTaken .. (K + 1) - 1 : HeadBlock(U, k)'
    BY <2>2, <2>3, <1>8, <1>10
  <2> QED BY <2>1, <2>4, <2>5, <1>9 DEF Heads
<1>18. BtPlace(U)' /\ BtBlock(U)' /\ Reached(U)' = Reached(T)
  <2>1. U[HeadsTaken] = T[HeadsTaken]
    BY <1>8, <1>10, <1>11
  <2> QED BY <1>7, <1>9, <1>12, <1>15, <2>1, BtKept DEF Places
<1>19. ASSUME pc'.lz \in {"body", "wait"} PROVE Records(U, S)' /\ LzPlace(S)'
  <2>1. Records(T, S) /\ LzPlace(S) /\ RecordsTaken \in Nat
    BY <1>7, <1>19, RecordCounts DEF Places
  <2>2. Records(U, S)'
    BY <1>7, <1>9, <1>15, <1>18, <2>1, RecordsStay
  <2>3. LzPlace(S)'
    BY <1>7, <1>9, <1>15, <2>1, LzPlaceKept
  <2> QED BY <2>2, <2>3
<1> QED BY <1>11, <1>14, <1>17, <1>18, <1>19 DEF Places

\* What a step leaves alone that reads nothing and moves no block.
StreamSame ==
    /\ UNCHANGED <<data, fed, direct>> /\ (threadFailed => threadFailed')
    /\ DOMAIN h' = DOMAIN h /\ h'.pos = h.pos /\ h'.streamPos = h.streamPos
    /\ h'.ended = h.ended /\ h'.failed = h.failed /\ (h.err => h'.err)
    /\ h'.buffer \in Int /\ h'.buffer <= h.buffer

\* A step that reads nothing keeps the place of the hash thread.
LEMMA StreamGrows ==
    ASSUME HashPlace, StreamSame
    PROVE  Grows /\ HashPlace' /\ HAvail' = HAvail /\ HeadPos' = HeadPos /\ fed \in Nat
<1>1. HAvail' = HAvail /\ HAvail \in Int /\ fed \in Nat
  BY DEF HashPlace, StreamSame, HAvail
<1>2. ~direct' => h'.buffer + HAvail' <= WinLen
  BY <1>1, Room DEF HashPlace, StreamSame
<1>3. HashPlace'
  BY <1>1, <1>2 DEF HashPlace, StreamSame
<1>4. Grows
  BY <1>1 DEF Grows, StreamSame, Over
<1> QED BY <1>1, <1>3, <1>4 DEF StreamSame, HeadPos

\* The blocks of heads do not change while the hash thread makes none.
LEMMA HeadsStay ==
    ASSUME IInv, Streaming, Grows, HeadPos' = HeadPos, hashBuf' = hashBuf, NEW T \in Positions,
           HeadsMade' = HeadsMade, HeadsTaken' = HeadsTaken, Heads(T)
    PROVE  Heads(T)'
<1>1. ASSUME NEW k \in HeadsTaken .. HeadsMade - 1 PROVE HeadBlock(T, k)'
  <2>1. T[k] \in Nat
    BY HeadCounts DEF Positions
  <2> QED BY <2>1, HeadBlockKept DEF Heads
<1>2. HeadsLag(T)'
  BY DEF Heads, HeadsLag, Grows
<1> QED BY <1>1, <1>2 DEF Heads

\* The tree thread stays where it is.
BtSame ==
    /\ DOMAIN b' = DOMAIN b /\ b'.at = b.at /\ b'.avail = b.avail /\ b'.hpos = b.hpos /\ b'.hlim = b.hlim
    /\ b'.cycPos = b.cycPos

\* The tree thread does not move while it neither takes a block nor walks.
LEMMA BtPlaceKept ==
    ASSUME Grows, NEW T, BtSame, HeadsTaken' = HeadsTaken, BtPlace(T), fed \in Nat
    PROVE  BtPlace(T)' /\ Reached(T)' = Reached(T) /\ (Passed(T) => Passed(T)')
<1>1. Reached(T)' = Reached(T)
  BY DEF Reached, BtSame
<1>2. Passed(T) => Passed(T)'
  BY DEF Passed, Grows, BtSame
<1>3. b.at + b.avail <= fed'
  BY DEF BtPlace, Grows
<1> QED BY <1>1, <1>2, <1>3 DEF BtPlace, BtSame

\* A step that moves nobody and makes no block keeps all places.
LEMMA Quiet ==
    ASSUME IInv, Streaming, NEW T \in Positions, NEW S \in Positions, Places(T, S),
           StreamSame, hashBuf' = hashBuf, btBuf' = btBuf, BtSame, Len(b.recs)' = Len(b.recs), BtBlock(T)',
           HeadsMade' = HeadsMade, HeadsTaken' = HeadsTaken,
           pc'.lz \in {"body", "wait"} =>
              /\ pc.lz \in {"body", "wait"} /\ LzPlace(S)'
              /\ RecordsMade' = RecordsMade /\ RecordsTaken' = RecordsTaken
    PROVE  Places(T, S)'
<1>1. Grows /\ HashPlace' /\ HeadPos' = HeadPos /\ fed \in Nat
  BY StreamGrows DEF Places
<1>2. Heads(T)'
  BY <1>1, HeadsStay DEF Places
<1>3. BtPlace(T)' /\ Reached(T)' = Reached(T)
  BY <1>1, BtPlaceKept DEF Places
<1>4. ASSUME pc'.lz \in {"body", "wait"} PROVE Records(T, S)' /\ LzPlace(S)'
  <2>1. RecordsTaken \in Nat /\ Records(T, S)
    BY <1>4, RecordCounts DEF Places
  <2> QED BY <1>1, <1>3, <1>4, <2>1, RecordsStay
<1> QED BY <1>1, <1>2, <1>3, <1>4 DEF Places

\* The block the tree thread is writing.
LEMMA BlockStays ==
    ASSUME Grows, NEW T, BtSame, HeadsTaken' = HeadsTaken, BtPlace(T), BtBlock(T), fed \in Nat,
           UNCHANGED <<b.recs, b.words, b.done, b.sum>>, b.ok' = b.ok,
           pc'.bt = pc.bt \/ {pc.bt, pc'.bt} \cap {"run", "wait", "end"} = {}
    PROVE  BtBlock(T)'
<1>1. Reached(T)' = Reached(T) /\ (Passed(T) => Passed(T)')
  BY BtPlaceKept
<1>2. Reached(T) \in Int /\ Len(b.recs) \in Nat
  <2>1. Reached(T) \in Int
    BY DEF BtPlace, Passed, Reached
  <2>2. Len(b.recs) \in Nat
    BY SeqFacts DEF BtBlock
  <2> QED BY <2>1, <2>2
<1>3. ASSUME pc.bt = "end"
      PROVE  /\ Reached(T) - Len(b.recs) + b.sum <= fed'
             /\ b.ok => Passed(T)' /\ (b.sum = 0 => Len(b.recs) = 0)
             /\ Len(b.recs) <= BtLimit \/ Over'
  <2>1. /\ Reached(T) - Len(b.recs) + b.sum <= fed
        /\ b.ok => Passed(T) /\ (b.sum = 0 => Len(b.recs) = 0)
        /\ Len(b.recs) <= BtLimit \/ Over
    BY <1>3 DEF BtBlock
  <2>2. b.sum \in Nat
    BY DEF BtBlock
  <2> QED BY <1>1, <1>2, <2>1, <2>2 DEF Grows
<1>4. CASE pc'.bt = pc.bt
  BY <1>1, <1>3, <1>4 DEF BtBlock, BtSame
<1>5. CASE pc.bt \notin {"run", "wait", "end"} /\ pc'.bt \notin {"run", "wait", "end"}
  BY <1>5 DEF BtBlock
<1> QED BY <1>4, <1>5

\* What the positions of the hash thread and its consumer depend on.
LEMMA CountsSame ==
    ASSUME hs'.needStart = hs.needStart, hs'.processed = hs.processed, Hashed' = Hashed,
           pc.bt = "wait" <=> pc'.bt = "wait"
    PROVE  HeadsMade' = HeadsMade /\ HeadsTaken' = HeadsTaken
  BY DEF HeadsMade, HeadsTaken

\* What the positions of the tree thread and the encoder depend on.
LEMMA RecordCountsSame ==
    ASSUME bs'.needStart = bs.needStart, bs'.processed = bs.processed, Treed' = Treed,
           pc.lz = "wait" <=> pc'.lz = "wait"
    PROVE  RecordsMade' = RecordsMade /\ RecordsTaken' = RecordsTaken
  BY DEF RecordsMade, RecordsTaken

\* A step that leaves the hash thread alone reads nothing.
LEMMA StreamUnchanged ==
    ASSUME HashPlace, UNCHANGED <<data, fed, direct, h>>, threadFailed => threadFailed'
    PROVE  StreamSame
  BY DEF StreamSame, HashPlace

\* The hash thread starts, before any block is made.
LEMMA PlacesHashStart ==
    ASSUME IInv, HashStart, Streaming, NEW T \in Positions, NEW S \in Positions, Places(T, S)
    PROVE  Places(T, S)'
<1>1. /\ pc.hash = "start" /\ hs.canStart /\ hs' = [hs EXCEPT !.canStart = FALSE]
      /\ UNCHANGED <<bs, data, direct, fed, hashBuf, b, btBuf, l, at, threadFailed>>
      /\ (pc' = [pc EXCEPT !.hash = "gone"] /\ h' = h /\ hs.exit)
         \/ (pc' = [pc EXCEPT !.hash = "loop"] /\ h' = [h EXCEPT !.index = 0])
  BY DEF HashStart, inputVars, btVars, lzVars
<1>2. pc'.bt = pc.bt /\ pc'.lz = pc.lz /\ hs'.needStart = hs.needStart /\ hs'.processed = hs.processed /\ ~hs'.canStart
  BY <1>1 DEF IInv, Protocol, Control, Syncs
<1>3. ~hs.exit
  BY <1>1 DEF IInv, Protocol, HashInv, Handshake, Streaming, Active
<1>4. StreamSame /\ Hashed' = Hashed
  BY <1>1, <1>2, <1>3 DEF Places, StreamSame, HashPlace, Hashed
<1>5. HeadsMade' = HeadsMade /\ HeadsTaken' = HeadsTaken /\ RecordsMade' = RecordsMade /\ RecordsTaken' = RecordsTaken
  BY <1>1, <1>2, <1>4, CountsSame, RecordCountsSame DEF Treed
<1>6. Grows /\ fed \in Nat
  BY <1>4, StreamGrows DEF Places
<1>7. BtSame
  BY <1>1 DEF BtSame
<1>8. BtBlock(T)'
  BY <1>1, <1>2, <1>5, <1>6, <1>7, BlockStays DEF Places
<1>9. pc'.lz \in {"body", "wait"} => LzPlace(S)'
  BY <1>1, <1>2, <1>5, <1>6, LzPlaceKept DEF Places
<1> QED BY <1>1, <1>2, <1>4, <1>5, <1>7, <1>8, <1>9, Quiet

\* The hash thread keeps the encoder out of the window.
LEMMA PlacesHashEnter ==
    ASSUME IInv, HashEnter, Streaming, NEW T \in Positions, NEW S \in Positions, Places(T, S)
    PROVE  Places(T, S)'
<1>1. /\ bs' = [bs EXCEPT !.cs = "mover"] /\ pc' = [pc EXCEPT !.hash = "enter"]
      /\ UNCHANGED <<hs, data, direct, fed, h, hashBuf, b, btBuf, l, at, threadFailed>>
  BY DEF HashEnter, inputVars, hashVars, btVars, lzVars
<1>2. pc'.bt = pc.bt /\ pc'.lz = pc.lz /\ bs'.needStart = bs.needStart /\ bs'.processed = bs.processed
      /\ bs'.canStart = bs.canStart
  BY <1>1 DEF IInv, Protocol, Control, Syncs
<1>4. StreamSame
  BY <1>1, StreamUnchanged DEF Places
<1>5. HeadsMade' = HeadsMade /\ HeadsTaken' = HeadsTaken /\ RecordsMade' = RecordsMade /\ RecordsTaken' = RecordsTaken
  BY <1>1, <1>2, CountsSame, RecordCountsSame DEF Treed, Hashed
<1>6. Grows /\ fed \in Nat
  BY <1>4, StreamGrows DEF Places
<1>7. BtSame
  BY <1>1 DEF BtSame
<1>8. BtBlock(T)'
  BY <1>1, <1>2, <1>5, <1>6, <1>7, BlockStays DEF Places
<1>9. pc'.lz \in {"body", "wait"} => LzPlace(S)'
  BY <1>1, <1>2, <1>5, <1>6, LzPlaceKept DEF Places
<1> QED BY <1>1, <1>2, <1>4, <1>5, <1>7, <1>8, <1>9, Quiet

\* How far move_block slides the window: never before its beginning.
LEMMA Slid ==
    ASSUME HashMove, h.buffer \in Int, DOMAIN h = HFields
    PROVE  \E by \in Nat :
             /\ h' = [h EXCEPT !.err = ~(h.buffer >= KeepBefore), !.buffer = @ - by]
             /\ shift' = [bt |-> shift.bt + by, lz |-> shift.lz + by]
             /\ ~(h.buffer >= KeepBefore) => by = 0 /\ win' = win
             /\ h.buffer >= KeepBefore =>
                  /\ h.buffer - by >= KeepBefore
                  /\ win' = [i \in DOMAIN win |-> IF i < (h.buffer - by) + HAvail THEN win[by + i] ELSE win[i]]
<1> DEFINE fits   == h.buffer >= KeepBefore
           offset == h.buffer - KeepBefore
           keep   == (offset % MoveAlign) + KeepBefore
           from   == offset - (offset % MoveAlign)
           by     == IF fits THEN h.buffer - keep ELSE 0
<1>1. /\ win' = IF fits THEN [i \in DOMAIN win |-> IF i < keep + HAvail THEN win[from + i] ELSE win[i]] ELSE win
      /\ shift' = [bt |-> shift.bt + by, lz |-> shift.lz + by]
      /\ h' = [h EXCEPT !.err = ~fits, !.buffer = @ - by]
  BY Zenon DEF HashMove
<1>2. KeepBefore \in Int /\ MoveAlign \in Nat /\ MoveAlign > 0
  BY Room, Constants
<1>3. CASE ~fits
  BY <1>1, <1>3
<1>4. CASE fits
  <2>1. PICK r : r = offset % MoveAlign
    OBVIOUS
  <2>2. offset \in Nat
    BY <1>2, <1>4
  <2>3. r \in Nat /\ r <= offset
    <3>1. offset = MoveAlign * (offset \div MoveAlign) + r /\ r \in 0 .. MoveAlign - 1 /\ offset \div MoveAlign \in Int
      <4>1. MoveAlign \in Nat \ {0}
        BY <1>2
      <4> HIDE DEF offset
      <4> QED BY <2>1, <2>2, <4>1, DivMod
    <3>2. offset \div MoveAlign >= 0
      BY <1>2, <2>2
    <3> DEFINE d == offset \div MoveAlign
    <3>3. MoveAlign * d >= 0
      <4> HIDE DEF d
      <4>1. d \in Nat
        BY <3>1, <3>2 DEF d
      <4> QED BY <1>2, <4>1
    <3> QED BY <1>2, <2>2, <3>1, <3>3
  <2>4. by = from /\ by \in Nat /\ keep = h.buffer - by /\ keep >= KeepBefore
    BY <1>2, <1>4, <2>1, <2>2, <2>3
  <2> HIDE DEF by, from, keep
  <2> QED BY <1>1, <1>4, <2>4
<1> QED BY <1>3, <1>4

\* move_block moves nobody in the stream.
LEMMA PlacesHashMove ==
    ASSUME IInv, HashMove, ~h.err, Streaming, NEW T \in Positions, NEW S \in Positions, Places(T, S)
    PROVE  Places(T, S)'
<1>1. /\ bs' = UnlockBuffer(bs) /\ pc' = [pc EXCEPT !.hash = "loop"]
      /\ UNCHANGED <<hs, data, direct, fed, hashBuf, b, btBuf, l, at, threadFailed>>
  BY DEF HashMove, inputVars, btVars, lzVars
<1>2. pc'.bt = pc.bt /\ pc'.lz = pc.lz /\ bs'.needStart = bs.needStart /\ bs'.processed = bs.processed
      /\ bs'.canStart = bs.canStart
  BY <1>1 DEF IInv, Protocol, Control, Syncs, UnlockBuffer
<1>3. PICK by \in Nat : h' = [h EXCEPT !.err = ~(h.buffer >= KeepBefore), !.buffer = @ - by]
  BY Slid DEF Places, HashPlace, HFields
<1>4. StreamSame /\ h'.index = h.index
  BY <1>1, <1>3 DEF StreamSame, Places, HashPlace
<1>5. HeadsMade' = HeadsMade /\ HeadsTaken' = HeadsTaken /\ RecordsMade' = RecordsMade /\ RecordsTaken' = RecordsTaken
  BY <1>1, <1>2, <1>4, CountsSame, RecordCountsSame DEF Treed, Hashed
<1>6. Grows /\ fed \in Nat
  BY <1>4, StreamGrows DEF Places
<1>7. BtSame
  BY <1>1 DEF BtSame
<1>8. BtBlock(T)'
  BY <1>1, <1>2, <1>5, <1>6, <1>7, BlockStays DEF Places
<1>9. pc'.lz \in {"body", "wait"} => LzPlace(S)'
  BY <1>1, <1>2, <1>5, <1>6, LzPlaceKept DEF Places
<1> QED BY <1>1, <1>2, <1>4, <1>5, <1>7, <1>8, <1>9, Quiet

\* A block that is given up has no more records than bytes.
LEMMA BlockFails ==
    ASSUME Grows, NEW T, BtSame, Reached(T)' = Reached(T), BtPlace(T), BtBlock(T), fed \in Nat,
           UNCHANGED <<b.recs, b.words, b.done, b.sum>>, ~b'.ok, pc.bt \in {"run", "wait"}, pc'.bt = "end"
    PROVE  BtBlock(T)'
<1>1. Reached(T)' = Reached(T) /\ (Reached(T) = b.at \/ Passed(T)) /\ b.at + b.avail <= fed
      /\ b.avail \in Nat /\ b.at \in Nat
  BY DEF BtPlace
<1>2. Passed(T) => Reached(T) = fed /\ b.avail = 0
  BY DEF Passed, Reached, BtPlace
<1>3. /\ b.words \in Nat /\ b.done \in Nat /\ b.sum \in Nat /\ IsSeq(b.recs)
      /\ b.done = Len(b.recs) /\ b.done + b.avail = b.sum /\ b.done <= BtLimit
  BY DEF BtBlock
<1>4. Reached(T) - b.done + b.sum <= fed'
  <2> DEFINE r == Reached(T)
             d == b.done
             s == b.sum
             a == b.avail
  <2>1. r + a <= fed /\ r \in Nat
    BY <1>1, <1>2
  <2>2. d \in Nat /\ a \in Nat /\ d + a = s
    BY <1>1, <1>3
  <2>3. fed <= fed' /\ fed' \in Nat
    BY DEF Grows
  <2> HIDE DEF r, d, s, a
  <2>4. r - d + s <= fed'
    BY <2>1, <2>2, <2>3
  <2> QED BY <2>4 DEF r, d, s
<1> QED BY <1>1, <1>3, <1>4 DEF BtBlock

\* The tree thread starts, before any block is made.
LEMMA PlacesBtStart ==
    ASSUME IInv, BtStart, Streaming, NEW T \in Positions, NEW S \in Positions, Places(T, S)
    PROVE  Places(T, S)'
<1>1. /\ pc.bt = "start" /\ bs' = [bs EXCEPT !.canStart = FALSE] /\ bs.canStart
      /\ pc' = [pc EXCEPT !.bt = IF bs.exit THEN "gone" ELSE "loop"]
      /\ b' = [b EXCEPT !.index = 0]
      /\ UNCHANGED <<hs, data, direct, fed, h, hashBuf, btBuf, l, at, threadFailed>>
  BY DEF BtStart, BtGoes, inputVars, hashVars, lzVars
<1>2. pc'.bt \in {"loop", "gone"} /\ pc'.lz = pc.lz /\ bs'.needStart = bs.needStart /\ bs'.processed = bs.processed
      /\ ~bs'.canStart
  BY <1>1 DEF IInv, Protocol, Control, Syncs
<1>3. BtSame /\ b'.index = 0 /\ UNCHANGED <<b.recs, b.words, b.done, b.sum>> /\ b'.ok = b.ok
  BY <1>1 DEF BtSame, Places, BtPlace
<1>4. StreamSame
  BY <1>1, StreamUnchanged DEF Places
<1>5. HeadsMade' = HeadsMade /\ HeadsTaken' = HeadsTaken /\ RecordsMade' = RecordsMade /\ RecordsTaken' = RecordsTaken
  BY <1>1, <1>2, <1>3, CountsSame, RecordCountsSame DEF Treed, Hashed
<1>6. Grows /\ fed \in Nat
  BY <1>4, StreamGrows DEF Places
<1>8. BtBlock(T)'
  BY <1>1, <1>2, <1>3, <1>5, <1>6, BlockStays DEF Places
<1>9. pc'.lz \in {"body", "wait"} => LzPlace(S)'
  BY <1>1, <1>2, <1>5, <1>6, LzPlaceKept DEF Places
<1> QED BY <1>1, <1>2, <1>3, <1>4, <1>5, <1>8, <1>9, Quiet

\* The tree thread takes a free block.
LEMMA PlacesBtFree ==
    ASSUME IInv, BtFree, Streaming, NEW T \in Positions, NEW S \in Positions, Places(T, S)
    PROVE  Places(T, S)'
<1>1. /\ pc.bt = "loop" /\ bs' = [bs EXCEPT !.free = @ - 1]
      /\ pc' = [pc EXCEPT !.bt = IF bs.stop THEN "stop" ELSE IF Movable /\ ~hs.needStart THEN "lock" ELSE "begin"]
      /\ UNCHANGED <<hs, data, direct, fed, h, hashBuf, b, btBuf, l, at, threadFailed>>
  BY DEF BtFree, BtGoes, inputVars, hashVars, btVars, lzVars
<1>2. pc'.bt \in {"stop", "lock", "begin"} /\ pc'.lz = pc.lz /\ bs'.needStart = bs.needStart /\ bs'.processed = bs.processed
      /\ bs'.canStart = bs.canStart
  BY <1>1 DEF IInv, Protocol, Control, Syncs
<1>3. BtSame
  BY <1>1 DEF BtSame
<1>4. StreamSame
  BY <1>1, StreamUnchanged DEF Places
<1>5. HeadsMade' = HeadsMade /\ HeadsTaken' = HeadsTaken /\ RecordsMade' = RecordsMade /\ RecordsTaken' = RecordsTaken
  BY <1>1, <1>2, CountsSame, RecordCountsSame DEF Treed, Hashed
<1>6. Grows /\ fed \in Nat
  BY <1>4, StreamGrows DEF Places
<1>8. BtBlock(T)'
  BY <1>1, <1>2, <1>3, <1>5, <1>6, BlockStays DEF Places
<1>9. pc'.lz \in {"body", "wait"} => LzPlace(S)'
  BY <1>1, <1>2, <1>5, <1>6, LzPlaceKept DEF Places
<1> QED BY <1>1, <1>2, <1>3, <1>4, <1>5, <1>8, <1>9, Quiet

\* The tree thread locks the window and follows its shift.
LEMMA PlacesBtLock ==
    ASSUME IInv, BtLock, Streaming, NEW T \in Positions, NEW S \in Positions, Places(T, S)
    PROVE  Places(T, S)'
<1>1. /\ pc.bt = "lock" /\ hs' = LockBuffer(hs) /\ b' = ApplyBtShift(b)
      /\ pc' = [pc EXCEPT !.bt = "begin"]
      /\ UNCHANGED <<bs, data, direct, fed, h, hashBuf, btBuf, l, at, threadFailed>>
  BY DEF BtLock, BtGoes, inputVars, hashVars, lzVars
<1>2. pc'.bt = "begin" /\ pc'.lz = pc.lz /\ hs'.needStart = hs.needStart /\ hs'.processed = hs.processed
      /\ hs'.canStart = hs.canStart
  BY <1>1 DEF IInv, Protocol, Control, Syncs, LockBuffer
<1>3. BtSame /\ b'.index = b.index /\ UNCHANGED <<b.recs, b.words, b.done, b.sum>> /\ b'.ok = b.ok
  BY <1>1 DEF BtSame, ApplyBtShift, Places, BtPlace
<1>4. StreamSame
  BY <1>1, StreamUnchanged DEF Places
<1>5. HeadsMade' = HeadsMade /\ HeadsTaken' = HeadsTaken /\ RecordsMade' = RecordsMade /\ RecordsTaken' = RecordsTaken
  BY <1>1, <1>2, <1>3, CountsSame, RecordCountsSame DEF Treed, Hashed
<1>6. Grows /\ fed \in Nat
  BY <1>4, StreamGrows DEF Places
<1>8. BtBlock(T)'
  BY <1>1, <1>2, <1>3, <1>5, <1>6, BlockStays DEF Places
<1>9. pc'.lz \in {"body", "wait"} => LzPlace(S)'
  BY <1>1, <1>2, <1>5, <1>6, LzPlaceKept DEF Places
<1> QED BY <1>1, <1>2, <1>3, <1>4, <1>5, <1>8, <1>9, Quiet

\* bt_get_matches begins an empty block.
LEMMA PlacesBtBegin ==
    ASSUME IInv, BtBegin, Streaming, NEW T \in Positions, NEW S \in Positions, Places(T, S)
    PROVE  Places(T, S)'
<1>1. /\ pc.bt = "begin"
      /\ b' = [b EXCEPT !.recs = <<>>, !.words = 0, !.done = 0, !.sum = b.avail, !.ok = ~b.failure]
      /\ pc' = [pc EXCEPT !.bt = IF b.failure THEN "end" ELSE "run"]
      /\ UNCHANGED <<hs, bs, data, direct, fed, h, hashBuf, btBuf, l, at, threadFailed>>
  BY DEF BtBegin, BtGoes, inputVars, hashVars, lzVars
<1>2. pc'.bt = (IF b.failure THEN "end" ELSE "run") /\ pc'.lz = pc.lz
  BY <1>1 DEF IInv, Protocol, Control
<1>3. /\ BtSame /\ b'.index = b.index
      /\ b'.recs = <<>> /\ b'.words = 0 /\ b'.done = 0 /\ b'.sum = b.avail
  BY <1>1 DEF BtSame, Places, BtPlace
<1>10. b'.ok <=> ~b.failure
  <2>1. b'.ok = ~b.failure
    BY <1>1 DEF Places, BtPlace
  <2> QED BY <2>1, Zenon
<1>4. StreamSame
  BY <1>1, StreamUnchanged DEF Places
<1>5. HeadsMade' = HeadsMade /\ HeadsTaken' = HeadsTaken /\ RecordsMade' = RecordsMade /\ RecordsTaken' = RecordsTaken
  BY <1>1, <1>2, <1>3, CountsSame, RecordCountsSame DEF Treed, Hashed
<1>6. Grows /\ fed \in Nat
  BY <1>4, StreamGrows DEF Places
<1>7. Len(b.recs) = 0
  BY <1>1 DEF Places, BtBlock
<1>8. BtBlock(T)'
  <2>1. Reached(T)' = Reached(T) /\ (Reached(T) = b.at \/ Passed(T)) /\ b.at + b.avail <= fed
        /\ b.avail \in Nat /\ b.at \in Nat
    BY <1>3, <1>5, <1>6, BtPlaceKept DEF Places, BtPlace
  <2>2. Reached(T) - 0 + b.avail <= fed
    <3>1. Passed(T) => Reached(T) = fed /\ b.avail = 0
      BY <1>6 DEF Passed, Reached, Places, BtPlace
    <3> QED BY <2>1, <3>1, <1>6
  <2>3. IsSeq(b'.recs) /\ Len(b'.recs) = 0
    BY <1>3, EmptyIsSeq
  <2>4. BtLimit \in Nat
    BY Constants
  <2> QED BY <1>1, <1>2, <1>3, <1>10, <2>1, <2>2, <2>3, <2>4 DEF BtBlock
<1>9. pc'.lz \in {"body", "wait"} => LzPlace(S)'
  BY <1>1, <1>2, <1>5, <1>6, LzPlaceKept DEF Places
<1>11. Len(b.recs)' = Len(b.recs)
  BY <1>3, <1>7, EmptyIsSeq
<1> QED BY <1>1, <1>2, <1>3, <1>4, <1>5, <1>8, <1>9, <1>11, Quiet

\* The tree thread gives back its heads and asks for the next.
LEMMA PlacesBtAsk ==
    ASSUME IInv, BtAsk, Streaming, NEW T \in Positions, NEW S \in Positions, Places(T, S)
    PROVE  Places(T, S)'
<1>1. /\ pc.bt = "run" /\ BtNeedsHeads /\ hs' = AskBlock(hs)
      /\ b' = [b EXCEPT !.hblk = AskIndex(hs) % HashNumBlocks]
      /\ pc' = [pc EXCEPT !.bt = "wait"]
      /\ UNCHANGED <<bs, data, direct, fed, h, hashBuf, btBuf, l, at, threadFailed>>
  BY DEF BtAsk, BtGoes, inputVars, hashVars, lzVars
<1>2. pc'.bt = "wait" /\ pc'.lz = pc.lz
  BY <1>1 DEF IInv, Protocol, Control
<1>3. BtSame /\ b'.index = b.index /\ UNCHANGED <<b.recs, b.words, b.done, b.sum>>
  BY <1>1 DEF BtSame, Places, BtPlace
<1>4. StreamSame
  BY <1>1, StreamUnchanged DEF Places
<1>5. HeadsMade' = HeadsMade /\ HeadsTaken' = HeadsTaken
  <2>1. /\ ~hs'.needStart
        /\ hs.needStart => hs'.processed = 1 /\ hs'.canStart
        /\ ~hs.needStart => hs'.processed = hs.processed + 1 /\ hs'.canStart = hs.canStart
    BY <1>1, AskFacts DEF IInv, Protocol, Control
  <2>2. hs.processed \in Nat
    BY DEF IInv, Protocol, Control, Syncs
  <2> QED BY <1>1, <1>2, <2>1, <2>2 DEF HeadsMade, HeadsTaken, Hashed
<1>10. RecordsMade' = RecordsMade /\ RecordsTaken' = RecordsTaken
  BY <1>1, <1>2, <1>3, RecordCountsSame DEF Treed
<1>6. Grows /\ fed \in Nat
  BY <1>4, StreamGrows DEF Places
<1>8. BtBlock(T)'
  BY <1>1, <1>2, <1>3 DEF BtBlock, BtNeedsHeads, BtSame, Places
<1>9. pc'.lz \in {"body", "wait"} => LzPlace(S)'
  BY <1>1, <1>2, <1>6, <1>10, LzPlaceKept DEF Places
<1> QED BY <1>1, <1>2, <1>3, <1>4, <1>5, <1>8, <1>9, <1>10, Quiet

\* A panic of the tree thread ends its block.
LEMMA PlacesBtPanic ==
    ASSUME IInv, BtPanic, Streaming, NEW T \in Positions, NEW S \in Positions, Places(T, S)
    PROVE  Places(T, S)'
<1>1. /\ pc.bt = "run" /\ b' = BtFailed(b) /\ threadFailed' = TRUE
      /\ pc' = [pc EXCEPT !.bt = "end"]
      /\ UNCHANGED <<hs, bs, data, direct, fed, h, hashBuf, btBuf, l, at>>
  BY DEF BtPanic, BtGoes, inputVars, hashVars, lzVars
<1>2. pc'.bt = "end" /\ pc'.lz = pc.lz
  BY <1>1 DEF IInv, Protocol, Control
<1>3. BtSame /\ b'.index = b.index /\ UNCHANGED <<b.recs, b.words, b.done, b.sum>> /\ ~b'.ok
  BY <1>1 DEF BtSame, BtFailed, Places, BtPlace
<1>4. StreamSame
  BY <1>1, StreamUnchanged DEF Places
<1>5. HeadsMade' = HeadsMade /\ HeadsTaken' = HeadsTaken /\ RecordsMade' = RecordsMade /\ RecordsTaken' = RecordsTaken
  BY <1>1, <1>2, <1>3, CountsSame, RecordCountsSame DEF Treed, Hashed
<1>6. Grows /\ fed \in Nat
  BY <1>4, StreamGrows DEF Places
<1>8. BtBlock(T)'
  <2>1. Reached(T)' = Reached(T)
    BY <1>3, <1>5, <1>6, BtPlaceKept DEF Places
  <2> QED BY <1>1, <1>2, <1>3, <1>6, <2>1, BlockFails DEF Places
<1>9. pc'.lz \in {"body", "wait"} => LzPlace(S)'
  BY <1>1, <1>2, <1>5, <1>6, LzPlaceKept DEF Places
<1> QED BY <1>1, <1>2, <1>3, <1>4, <1>5, <1>8, <1>9, Quiet

\* The tree thread takes its next block of heads, or finds the end or a failure there.
LEMMA PlacesBtTake ==
    ASSUME IInv, BtTake, Streaming, NEW T \in Positions, NEW S \in Positions, Places(T, S)
    PROVE  Places(T, S)'
<1>1. PICK blk, k :
        /\ k = HeadsTaken /\ blk = hashBuf[b.hblk]
        /\ pc.bt = "wait" /\ hs.filled > 0 /\ hs' = TakeBlock(hs)
        /\ UNCHANGED <<bs, data, direct, fed, h, hashBuf, btBuf, l, at, threadFailed>>
        /\ \/ ~blk.ok /\ b' = BtFailed(ApplyBtShift(b)) /\ pc' = [pc EXCEPT !.bt = "end"]
           \/ /\ blk.ok /\ blk.avail >= NumHashBytes
              /\ b' = [ApplyBtShift(b) EXCEPT !.hpos = 0, !.hlim = Len(blk.heads), !.avail = blk.avail,
                                             !.sum = b.done + blk.avail]
              /\ pc' = [pc EXCEPT !.bt = "run"]
           \/ /\ blk.ok /\ blk.avail < NumHashBytes
              /\ b' = [ApplyBtShift(b) EXCEPT !.hpos = 0, !.hlim = 0, !.avail = 0, !.sum = b.done + blk.avail,
                                             !.recs = @ \o [i \in 1 .. blk.avail |-> <<>>]]
              /\ pc' = [pc EXCEPT !.bt = "end"]
  BY DEF BtTake, BtGoes, CanTake, inputVars, hashVars, lzVars
<1> DEFINE c == ApplyBtShift(b)
<1>2. /\ DOMAIN c = DOMAIN b /\ c.at = b.at /\ c.avail = b.avail /\ c.hpos = b.hpos /\ c.hlim = b.hlim
      /\ c.cycPos = b.cycPos /\ c.recs = b.recs /\ c.words = b.words /\ c.done = b.done /\ c.sum = b.sum
      /\ c.index = b.index /\ c.ok = b.ok
  BY DEF ApplyBtShift, Places, BtPlace
<1>3. DOMAIN c = {"hblk", "hpos", "hlim", "avail", "failure", "pos", "cycPos", "buffer", "at", "index",
                  "recs", "words", "done", "sum", "ok"}
  BY <1>2 DEF Places, BtPlace
<1> HIDE DEF c
<1>4. /\ ~hs.needStart /\ k \in Nat /\ k = hs.processed - 1 /\ k < HeadsMade /\ HeadsMade \in Nat
      /\ b.hblk = k % HashNumBlocks /\ hs.processed \in Nat
  BY <1>1, HeadCounts
<1>5. hs'.needStart = hs.needStart /\ hs'.processed = hs.processed /\ hs'.canStart = hs.canStart
  BY <1>1 DEF IInv, Protocol, Control, Syncs, TakeBlock, LockBuffer
<1>6. pc'.bt \in {"run", "end"} /\ pc'.lz = pc.lz
  BY <1>1 DEF IInv, Protocol, Control
<1>7. HeadsMade' = HeadsMade /\ HeadsTaken' = k + 1
  BY <1>1, <1>4, <1>5, <1>6 DEF HeadsMade, HeadsTaken, Hashed
<1>8. StreamSame
  BY <1>1, StreamUnchanged DEF Places
<1>9. Grows /\ fed \in Nat /\ HashPlace' /\ HeadPos' = HeadPos /\ HAvail' = HAvail
  BY <1>8, StreamGrows DEF Places
<1>10. Heads(T)'
  <2>1. ASSUME NEW i \in (k + 1) .. HeadsMade - 1 PROVE HeadBlock(T, i)'
    <3>1. i \in HeadsTaken .. HeadsMade - 1 /\ i \in Nat
      BY <1>1, <1>4
    <3>2. T[i] \in Nat /\ HeadBlock(T, i)
      BY <3>1 DEF Positions, Places, Heads
    <3> QED BY <1>1, <1>9, <3>2, HeadBlockKept
  <2>2. HeadsLag(T)'
    <3>1. \A i \in (k + 1) .. HeadsMade : i \in HeadsTaken .. HeadsMade
      BY <1>1, <1>4
    <3> QED BY <1>7, <1>9, <3>1 DEF Places, Heads, HeadsLag, Grows
  <2> QED BY <1>7, <1>9, <2>1, <2>2 DEF Places, Heads
<1>11. HeadBlock(T, k)
  BY <1>1, <1>4 DEF Places, Heads
<1>12. /\ ~blk.ok => T[k + 1] = T[k]
       /\ blk.ok => blk.avail \in Nat
       /\ blk.ok /\ blk.avail >= NumHashBytes =>
            /\ Len(blk.heads) \in 1 .. HashHeads /\ Len(blk.heads) < blk.avail
            /\ T[k + 1] = T[k] + Len(blk.heads) /\ T[k] + blk.avail <= fed
       /\ blk.ok /\ blk.avail < NumHashBytes =>
            T[k + 1] = T[k] + blk.avail /\ T[k + 1] = fed /\ HAvail = 0 /\ Over
  BY <1>1, <1>4, <1>11 DEF HeadBlock
<1>13. T[k] \in Nat /\ T[k + 1] \in Nat
  BY <1>4 DEF Positions
<1>14. /\ b.at \in Nat /\ b.avail \in Nat /\ b.hpos \in Nat /\ b.hlim = b.hpos /\ b.cycPos \in 0 .. Cyclic - 1
       /\ b.hlim <= HashHeads /\ b.at + b.avail <= fed /\ (Reached(T) = b.at \/ Passed(T))
       /\ b.words \in Nat /\ b.done \in Nat /\ b.sum \in Nat /\ IsSeq(b.recs)
       /\ b.done = Len(b.recs) /\ b.done + b.avail = b.sum
       /\ b.done <= b.words /\ b.done <= BtLimit /\ (b.words > 0 => b.done > 0)
  <2>1. BtPlace(T) /\ BtBlock(T)
    BY DEF Places
  <2>2. b.hlim = b.hpos
    BY <1>1, <2>1 DEF BtBlock
  <2>3. /\ b.words \in Nat /\ b.done \in Nat /\ b.sum \in Nat /\ IsSeq(b.recs)
       /\ b.done = Len(b.recs) /\ b.done + b.avail = b.sum
       /\ b.done <= b.words /\ b.done <= BtLimit /\ (b.words > 0 => b.done > 0)
    BY <1>1, <2>1 DEF BtBlock
  <2> QED BY <2>1, <2>2, <2>3 DEF BtPlace
<1>15. Reached(T) = T[k]
  BY <1>1, <1>13, <1>14 DEF Reached
<1>16. NumHashBytes \in Nat /\ NumHashBytes >= 2 /\ HashHeads \in Nat /\ BtLimit \in Nat
  BY Constants
<1> DEFINE Result == BtPlace(T)' /\ BtBlock(T)' /\ (S[RecordsMade] \in Nat /\ S[RecordsMade] + Len(b.recs) = Reached(T)
                         => S[RecordsMade] + Len(b'.recs) = Reached(T)')
<1>17. ASSUME ~blk.ok, b' = BtFailed(c), pc' = [pc EXCEPT !.bt = "end"]
       PROVE  Result
  <2>1. /\ DOMAIN b' = DOMAIN b /\ b'.at = b.at /\ b'.avail = b.avail /\ b'.hpos = b.hpos /\ b'.hlim = b.hlim
        /\ b'.cycPos = b.cycPos /\ UNCHANGED <<b.recs, b.words, b.done, b.sum>> /\ ~b'.ok
    BY <1>2, <1>3, <1>17 DEF BtFailed
  <2>2. Reached(T)' = Reached(T)
    BY <1>7, <1>12, <1>13, <1>14, <1>15, <1>17, <2>1 DEF Reached
  <2>3. Passed(T) => Passed(T)'
    BY <1>1, <1>7, <1>9, <1>12, <1>17, <2>1 DEF Passed, Grows
  <2>4. pc'.bt = "end"
    BY <1>17 DEF IInv, Protocol, Control
  <2>5. BtBlock(T)'
    BY <1>1, <1>9, <2>1, <2>2, <2>4, BlockFails DEF Places, BtSame
  <2>6. BtPlace(T)'
    <3>1. b.at + b.avail <= fed'
      BY <1>1, <1>14
    <3> QED BY <2>1, <2>2, <2>3, <3>1 DEF BtPlace, Places
  <2> QED BY <2>1, <2>2, <2>5, <2>6
<1>18. ASSUME blk.ok, blk.avail >= NumHashBytes, pc' = [pc EXCEPT !.bt = "run"],
              b' = [c EXCEPT !.hpos = 0, !.hlim = Len(blk.heads), !.avail = blk.avail, !.sum = b.done + blk.avail]
       PROVE  Result
  <2> DEFINE a == blk.avail
             n == Len(blk.heads)
  <2>1. /\ DOMAIN b' = DOMAIN b /\ b'.at = b.at /\ b'.avail = a /\ b'.hpos = 0 /\ b'.hlim = n
        /\ b'.cycPos = b.cycPos /\ b'.recs = b.recs /\ b'.words = b.words /\ b'.done = b.done /\ b'.sum = b.done + a
    BY <1>2, <1>3, <1>18
  <2>2. n \in 1 .. HashHeads /\ n < a /\ T[k + 1] = T[k] + n /\ T[k] + a <= fed /\ a \in Nat /\ a >= NumHashBytes
    BY <1>12, <1>18
  <2> HIDE DEF a, n
  <2>3. Reached(T)' = T[k]
    BY <1>7, <1>13, <2>1, <2>2 DEF Reached
  <2>4. ~Passed(T)
    <3>1. T[k] # fed
      BY <1>9, <1>13, <1>16, <2>2
    <3> QED BY <1>1, <3>1 DEF Passed
  <2>5. T[k] = b.at
    BY <1>14, <1>15, <2>4
  <2>6. BtPlace(T)'
    <3>1. b'.at + b'.avail <= fed' /\ b'.avail \in Nat /\ b'.hpos \in Nat /\ b'.hlim \in Nat /\ b'.hpos <= b'.hlim
          /\ b'.hlim <= HashHeads /\ b'.hlim - b'.hpos < b'.avail
      BY <1>1, <1>16, <2>1, <2>2, <2>5
    <3> QED BY <1>3, <1>2, <1>14, <2>1, <2>3, <2>5, <3>1 DEF BtPlace
  <2>7. BtBlock(T)'
    <3>1. pc'.bt = "run"
      BY <1>18 DEF IInv, Protocol, Control
    <3>2. b'.sum \in Nat /\ b'.done + b'.avail = b'.sum
      BY <1>14, <2>1, <2>2
    <3> QED BY <1>14, <2>1, <3>1, <3>2 DEF BtBlock
  <2> QED BY <1>15, <2>1, <2>3, <2>6, <2>7
<1>19. ASSUME blk.ok, blk.avail < NumHashBytes, pc' = [pc EXCEPT !.bt = "end"],
              b' = [c EXCEPT !.hpos = 0, !.hlim = 0, !.avail = 0, !.sum = b.done + blk.avail,
                             !.recs = @ \o [i \in 1 .. blk.avail |-> <<>>]]
       PROVE  Result
  <2> DEFINE a == blk.avail
             tail == [i \in 1 .. a |-> <<>>]
  <2>1. /\ DOMAIN b' = DOMAIN b /\ b'.at = b.at /\ b'.avail = 0 /\ b'.hpos = 0 /\ b'.hlim = 0
        /\ b'.cycPos = b.cycPos /\ b'.recs = b.recs \o tail /\ b'.words = b.words /\ b'.done = b.done
        /\ b'.sum = b.done + a
    BY <1>2, <1>3, <1>19
  <2>2. T[k + 1] = T[k] + a /\ T[k + 1] = fed /\ HAvail = 0 /\ Over /\ a \in Nat
    BY <1>12, <1>19
  <2>3. IsSeq(b'.recs) /\ Len(b'.recs) = b.done + a
    <3>1. tail \in Seq({<<>>}) /\ Len(tail) = a
      BY <2>2
    <3>2. IsSeq(tail)
      BY <3>1, Zenon DEF IsSeq
    <3> QED BY <1>14, <2>1, <3>1, <3>2, SeqFacts
  <2> HIDE DEF a, tail
  <2>4. Reached(T)' = fed /\ Passed(T)'
    BY <1>1, <1>7, <1>9, <2>1, <2>2 DEF Reached, Passed, Grows
  <2>5. BtPlace(T)'
    <3>1. b'.at + b'.avail <= fed' /\ b'.avail \in Nat /\ b'.hpos \in Nat /\ b'.hlim \in Nat /\ b'.hpos <= b'.hlim
          /\ b'.hlim <= HashHeads /\ ~(b'.hpos < b'.hlim)
      BY <1>1, <1>9, <1>14, <1>16, <2>1
    <3> QED BY <1>2, <1>3, <1>14, <2>1, <2>4, <3>1 DEF BtPlace
  <2>6. BtBlock(T)'
    <3>1. pc'.bt = "end"
      BY <1>19 DEF IInv, Protocol, Control
    <3>2. b'.sum \in Nat /\ b'.sum = Len(b'.recs) /\ Over'
      BY <1>9, <1>14, <2>1, <2>2, <2>3 DEF Grows
    <3>3. Reached(T)' - Len(b'.recs) + b'.sum <= fed'
      BY <1>1, <1>9, <2>4, <3>2
    <3> QED BY <1>14, <2>1, <2>3, <2>4, <3>1, <3>2, <3>3 DEF BtBlock
  <2>7. Reached(T)' = Reached(T) + a
    BY <1>15, <2>2, <2>4
  <2> QED BY <1>14, <2>2, <2>3, <2>5, <2>6, <2>7
<1>20. Result
  BY <1>1, <1>17, <1>18, <1>19 DEF c
<1>21. ASSUME pc'.lz \in {"body", "wait"} PROVE Records(T, S)' /\ LzPlace(S)'
  <2>1. /\ RecordsTaken \in Nat /\ RecordsMade \in Nat /\ Records(T, S) /\ LzPlace(S)
    BY <1>6, <1>21, RecordCounts DEF Places
  <2>2. RecordsMade' = RecordsMade /\ RecordsTaken' = RecordsTaken
    <3>1. b'.index = b.index
      BY <1>1, <1>2, <1>3 DEF c, BtFailed
    <3> QED BY <1>1, <1>6, <3>1, RecordCountsSame DEF Treed
  <2>3. S[RecordsMade] \in Nat
    BY <2>1 DEF Positions
  <2>4. Records(T, S)'
    <3>1. S[RecordsMade] + Len(b'.recs) = Reached(T)'
      BY <1>20, <2>1, <2>3 DEF Records
    <3>2. ASSUME NEW j \in RecordsTaken .. RecordsMade - 1 PROVE RecordBlock(S, j)'
      <4>1. j \in Nat /\ RecordBlock(S, j)
        BY <2>1 DEF Records
      <4> QED BY <1>1, <1>9, <4>1, RecordBlockKept
    <3>3. RecordsLag(S)'
      BY <1>9, <2>1, <2>2 DEF Records, RecordsLag, Grows
    <3> QED BY <2>2, <3>1, <3>2, <3>3 DEF Records
  <2>5. LzPlace(S)'
    BY <1>1, <1>6, <1>9, <2>1, <2>2, LzPlaceKept
  <2> QED BY <2>4, <2>5
<1> QED BY <1>9, <1>10, <1>20, <1>21 DEF Places

\* The least of three numbers.
LEMMA LeastOfThree ==
    ASSUME NEW x \in Int, NEW y \in Int, NEW z \in Int
    PROVE  /\ Min({x, y, z}) \in {x, y, z}
           /\ Min({x, y, z}) <= x /\ Min({x, y, z}) <= y /\ Min({x, y, z}) <= z
<1>1. \E m \in {x, y, z} : \A n \in {x, y, z} : m <= n
  <2>1. CASE x <= y /\ x <= z
    BY <2>1
  <2>2. CASE y <= x /\ y <= z
    BY <2>2
  <2>3. CASE z <= x /\ z <= y
    BY <2>3
  <2> QED BY <2>1, <2>2, <2>3
<1>2. Min({x, y, z}) = CHOOSE m \in {x, y, z} : \A n \in {x, y, z} : m <= n
  BY Zenon DEF Min
<1> QED BY <1>1, <1>2

\* A run of heads is no longer than what is left of the block, and there is one.
LEMMA RunSize ==
    ASSUME NEW T, BtPlace(T), b.hpos < b.hlim
    PROVE  BtRunSize \in Nat /\ BtRunSize > 0 /\ BtRunSize <= b.hlim - b.hpos
<1> DEFINE x == b.hlim - b.hpos
           y == b.avail - MinOf(MatchMaxLen, b.avail) + 1
           z == Cyclic - b.cycPos
<1>1. x \in Nat /\ x > 0
  BY DEF BtPlace
<1>2. y \in Nat /\ y > 0
  <2>1. b.avail \in Nat /\ MatchMaxLen \in Nat
    BY Constants DEF BtPlace
  <2> QED BY <2>1 DEF MinOf
<1>3. z \in Nat /\ z > 0
  BY Room DEF BtPlace
<1>4. BtRunSize = Min({x, y, z})
  BY Zenon DEF BtRunSize
<1> HIDE DEF x, y, z
<1>5. BtRunSize \in {x, y, z} /\ BtRunSize <= x
  <2>1. x \in Int /\ y \in Int /\ z \in Int
    BY <1>1, <1>2, <1>3
  <2>2. Min({x, y, z}) \in {x, y, z} /\ Min({x, y, z}) <= x
    BY <2>1, LeastOfThree, Zenon
  <2> QED BY <1>4, <2>2, Zenon
<1> QED BY <1>1, <1>2, <1>3, <1>5 DEF x

\* What a run of heads does to the tree thread.
Walked(n, words, recs) ==
    /\ n \in Nat /\ n <= b.hlim - b.hpos /\ words \in Nat /\ IsSeq(recs) /\ Len(recs) = n
    /\ b.words + n <= words /\ b.words + n <= BtLimit /\ (words > b.words => n > 0)
    /\ DOMAIN b' = DOMAIN b /\ b'.hlim = b.hlim /\ b'.hpos = b.hpos + n /\ b'.at = b.at + n /\ b'.buffer = b.buffer + n
    /\ b'.cycPos = (b.cycPos + n) % Cyclic /\ b'.avail = b.avail - n /\ b'.done = b.done + n
    /\ b'.words = words /\ b'.recs = b.recs \o recs /\ b'.index = b.index /\ b'.sum = b.sum

\* get_matches_spec_n_2 goes as far as its heads, its bytes and its block allow, or fails.
LEMMA Walks ==
    ASSUME BtWalk, NEW T, BtPlace(T), BtBlock(T)
    PROVE  \/ b' = BtFailed(b) /\ pc' = [pc EXCEPT !.bt = "end"]
           \/ pc' = [pc EXCEPT !.bt = "run"] /\ \E n, words, recs : Walked(n, words, recs)
<1>1. PICK sub, x :
        /\ x = TreeRun(hashBuf[b.hblk].heads, BtRunSize, b.pos - sub, Normalize3(sub, son))
        /\ b' = IF x.bad THEN BtFailed(b)
                ELSE [b EXCEPT !.pos = @ - sub + x.n, !.hpos = @ + x.n, !.buffer = @ + x.n, !.at = @ + x.n,
                                !.cycPos = (@ + x.n) % Cyclic, !.avail = @ - x.n, !.done = @ + x.n,
                                !.words = x.words, !.recs = @ \o x.recs]
        /\ pc' = [pc EXCEPT !.bt = IF x.bad THEN "end" ELSE "run"]
  BY Zenon DEF BtWalk, BtGoes
<1>2. b.words < BtLimit /\ b.hpos < b.hlim
  BY DEF BtWalk
<1>3. BtRunSize \in Nat /\ BtRunSize <= b.hlim - b.hpos
  BY <1>2, RunSize
<1>4. b.words \in Nat /\ BtLimit \in Nat /\ b.words <= BtLimit
  BY <1>2, Constants DEF BtBlock
<1>5. RunFacts(x) /\ x.n <= BtRunSize
  BY <1>1, <1>3, <1>4, RunEnds
<1>6. CASE x.bad
  BY <1>1, <1>6
<1>7. CASE ~x.bad
  <2>1. b' = [b EXCEPT !.pos = @ - sub + x.n, !.hpos = @ + x.n, !.buffer = @ + x.n, !.at = @ + x.n,
                       !.cycPos = (@ + x.n) % Cyclic, !.avail = @ - x.n, !.done = @ + x.n,
                       !.words = x.words, !.recs = @ \o x.recs]
    BY <1>1, <1>7
  <2>2. /\ x.n \in Nat /\ x.n <= b.hlim - b.hpos /\ x.words \in Nat /\ IsSeq(x.recs) /\ Len(x.recs) = x.n
        /\ b.words + x.n <= x.words /\ b.words + x.n <= BtLimit /\ (x.words > b.words => x.n > 0)
    <3>1. b.hlim - b.hpos \in Int
      BY DEF BtPlace
    <3> QED BY <1>3, <1>5, <3>1 DEF RunFacts
  <2>3. DOMAIN b = {"hblk", "hpos", "hlim", "avail", "failure", "pos", "cycPos", "buffer", "at", "index",
                    "recs", "words", "done", "sum", "ok"}
    BY DEF BtPlace
  <2> DEFINE n == x.n
             words == x.words
             recs == x.recs
             p == b.pos - sub + n
             q == (b.cycPos + n) % Cyclic
             r == b.recs \o recs
  <2>4. b' = [b EXCEPT !.pos = p, !.hpos = @ + n, !.buffer = @ + n, !.at = @ + n, !.cycPos = q,
                       !.avail = @ - n, !.done = @ + n, !.words = words, !.recs = r]
    BY <2>1
  <2> HIDE DEF n, words, recs, p, q, r
  <2>5. /\ DOMAIN b' = DOMAIN b /\ b'.hlim = b.hlim /\ b'.hpos = b.hpos + n /\ b'.at = b.at + n /\ b'.buffer = b.buffer + n
        /\ b'.cycPos = q /\ b'.avail = b.avail - n /\ b'.done = b.done + n
        /\ b'.words = words /\ b'.recs = r /\ b'.index = b.index /\ b'.sum = b.sum
    BY <2>3, <2>4
  <2>6. Walked(n, words, recs)
    BY <2>2, <2>5, Zenon DEF Walked, n, words, recs, q, r
  <2> QED BY <1>1, <1>7, <2>6
<1> QED BY <1>6, <1>7

\* A run of heads: as many records as positions.
LEMMA PlacesBtWalk ==
    ASSUME IInv, BtWalk, Streaming, NEW T \in Positions, NEW S \in Positions, Places(T, S)
    PROVE  Places(T, S)'
<1>1. /\ pc.bt = "run" /\ b.words < BtLimit /\ b.hpos < b.hlim
      /\ UNCHANGED <<hs, bs, data, direct, fed, h, hashBuf, btBuf, l, at, threadFailed>>
  BY DEF BtWalk, inputVars, hashVars, lzVars
<1>2. BtPlace(T) /\ BtBlock(T)
  BY DEF Places
<1>3. StreamSame
  BY <1>1, StreamUnchanged DEF Places
<1>4. Grows /\ fed \in Nat /\ HashPlace' /\ HeadPos' = HeadPos
  BY <1>3, StreamGrows DEF Places
<1>5. \/ b' = BtFailed(b) /\ pc' = [pc EXCEPT !.bt = "end"]
      \/ pc' = [pc EXCEPT !.bt = "run"] /\ \E n, words, recs : Walked(n, words, recs)
  BY <1>2, Walks
<1>6. pc'.bt \in {"run", "end"} /\ pc'.lz = pc.lz
  BY <1>5 DEF IInv, Protocol, Control
<1>7. HeadsMade' = HeadsMade /\ HeadsTaken' = HeadsTaken
  BY <1>1, <1>6, CountsSame DEF Hashed
<1>8. Heads(T)'
  BY <1>1, <1>4, <1>7, HeadsStay DEF Places
<1>9. CASE b' = BtFailed(b) /\ pc' = [pc EXCEPT !.bt = "end"]
  <2>1. pc'.bt = "end"
    BY <1>9 DEF IInv, Protocol, Control
  <2>2. BtSame /\ b'.index = b.index /\ UNCHANGED <<b.recs, b.words, b.done, b.sum>> /\ ~b'.ok
    BY <1>2, <1>9 DEF BtSame, BtFailed, BtPlace
  <2>3. Reached(T)' = Reached(T)
    BY <1>2, <1>4, <1>7, <2>2, BtPlaceKept
  <2>4. BtBlock(T)'
    BY <1>1, <1>2, <1>4, <2>1, <2>2, <2>3, BlockFails
  <2>5. RecordsMade' = RecordsMade /\ RecordsTaken' = RecordsTaken
    BY <1>1, <1>6, <2>2, RecordCountsSame DEF Treed
  <2>6. pc'.lz \in {"body", "wait"} => LzPlace(S)'
    BY <1>1, <1>4, <1>6, <2>5, LzPlaceKept DEF Places
  <2> QED BY <1>1, <1>3, <1>6, <1>7, <2>2, <2>4, <2>5, <2>6, Quiet
<1>10. ASSUME pc' = [pc EXCEPT !.bt = "run"], NEW n, NEW words, NEW recs, Walked(n, words, recs)
       PROVE  Places(T, S)'
  <2>1. pc'.bt = "run"
    BY <1>10 DEF IInv, Protocol, Control
  <2>2. /\ n \in Nat /\ n <= b.hlim - b.hpos /\ words \in Nat /\ IsSeq(recs) /\ Len(recs) = n
        /\ b.words + n <= words /\ b.words + n <= BtLimit /\ (words > b.words => n > 0)
        /\ DOMAIN b' = DOMAIN b /\ b'.hlim = b.hlim /\ b'.hpos = b.hpos + n /\ b'.at = b.at + n
        /\ b'.cycPos = (b.cycPos + n) % Cyclic /\ b'.avail = b.avail - n /\ b'.done = b.done + n
        /\ b'.words = words /\ b'.recs = b.recs \o recs /\ b'.index = b.index /\ b'.sum = b.sum
    BY <1>10 DEF Walked
  <2>3. /\ b.at \in Nat /\ b.avail \in Nat /\ b.hpos \in Nat /\ b.hlim \in Nat
        /\ b.hlim <= HashHeads /\ b.hlim - b.hpos < b.avail /\ b.at + b.avail <= fed
        /\ b.cycPos \in 0 .. Cyclic - 1
    BY <1>1, <1>2 DEF BtPlace
  <2>4. /\ b.words \in Nat /\ b.done \in Nat /\ b.sum \in Nat /\ IsSeq(b.recs)
        /\ b.done = Len(b.recs) /\ b.done + b.avail = b.sum
        /\ b.done <= b.words /\ b.done <= BtLimit /\ (b.words > 0 => b.done > 0)
    BY <1>1, <1>2 DEF BtBlock
  <2>5. Reached(T) = b.at
    <3>1. ~Passed(T)
      BY <1>1, <2>3 DEF Passed
    <3> QED BY <1>2, <3>1 DEF BtPlace
  <2>6. T[HeadsTaken] = b.at + (b.hlim - b.hpos)
    <3>1. T[HeadsTaken] \in Nat
      BY HeadCounts DEF Positions
    <3> QED BY <2>3, <2>5, <3>1 DEF Reached
  <2>7. Reached(T)' = b.at + n /\ b'.at = b.at + n
    BY <1>7, <2>2, <2>3, <2>6 DEF Reached
  <2>8. BtPlace(T)'
    <3>1. (b.cycPos + n) % Cyclic \in 0 .. Cyclic - 1
      <4>1. Cyclic \in Nat \ {0} /\ b.cycPos + n \in Nat
        <5> DEFINE c == b.cycPos
        <5>1. Cyclic \in Nat /\ Cyclic >= 2 /\ c \in 0 .. Cyclic - 1 /\ n \in Nat
          BY <2>2, <2>3, Room
        <5> HIDE DEF c
        <5>2. c + n \in Nat /\ Cyclic \in Nat \ {0}
          BY <5>1
        <5> QED BY <5>2 DEF c
      <4> QED BY <4>1, DivMod
    <3>2. /\ b'.at \in Nat /\ b'.avail \in Nat /\ b'.hpos \in Nat /\ b'.hlim \in Nat /\ b'.hpos <= b'.hlim
          /\ b'.hlim <= HashHeads /\ b'.hlim - b'.hpos < b'.avail /\ b'.at + b'.avail <= fed'
      <4> DEFINE p == b.hpos
                 m == b.hlim
                 a == b.avail
                 t == b.at
      <4>1. /\ t \in Nat /\ a \in Nat /\ p \in Nat /\ m \in Nat /\ m <= HashHeads /\ m - p < a /\ t + a <= fed
            /\ n \in Nat /\ n <= m - p
        BY <2>2, <2>3
      <4>2. b'.at = t + n /\ b'.avail = a - n /\ b'.hpos = p + n /\ b'.hlim = m
        BY <2>2
      <4>3. fed \in Nat /\ fed' = fed /\ HashHeads \in Nat
        BY <1>1, <1>4, Constants
      <4> HIDE DEF p, m, a, t
      <4> QED BY <4>1, <4>2, <4>3
    <3> QED BY <1>2, <2>2, <2>7, <3>1, <3>2 DEF BtPlace
  <2>9. IsSeq(b'.recs) /\ Len(b'.recs) = b.done + n
    BY <2>2, <2>4, SeqFacts
  <2>10. BtBlock(T)'
    <3>1. /\ b'.done = Len(b'.recs) /\ b'.done + b'.avail = b'.sum /\ b'.done \in Nat /\ b'.sum \in Nat /\ b'.words \in Nat
          /\ b'.done <= b'.words /\ b'.done <= BtLimit
      <4> DEFINE d == b.done
                 w == b.words
                 a == b.avail
                 s == b.sum
      <4>1. d \in Nat /\ w \in Nat /\ a \in Nat /\ s \in Nat /\ d + a = s /\ d <= w
        BY <2>3, <2>4
      <4>2. BtLimit \in Nat
        BY Constants
      <4>3. b'.done = d + n /\ b'.avail = a - n /\ b'.sum = s /\ b'.words = words
        BY <2>2
      <4> HIDE DEF d, w, a, s
      <4>4. w + n <= words /\ w + n <= BtLimit /\ Len(b'.recs) = d + n
        BY <2>2, <2>9 DEF w, d
      <4> QED BY <4>1, <4>2, <4>3, <4>4, <2>2
    <3>2. b'.words > 0 => b'.done > 0
      BY <2>2, <2>4
    <3> QED BY <2>1, <2>9, <3>1, <3>2 DEF BtBlock
  <2>11. ASSUME pc'.lz \in {"body", "wait"} PROVE Records(T, S)' /\ LzPlace(S)'
    <3>1. RecordsTaken \in Nat /\ RecordsMade \in Nat /\ Records(T, S) /\ LzPlace(S)
      BY <1>6, <2>11, RecordCounts DEF Places
    <3>2. RecordsMade' = RecordsMade /\ RecordsTaken' = RecordsTaken
      BY <1>1, <1>6, <2>2, RecordCountsSame DEF Treed
    <3>3. S[RecordsMade] + Len(b'.recs) = Reached(T)'
      <4>1. S[RecordsMade] \in Nat
        BY <3>1 DEF Positions
      <4>2. S[RecordsMade] + b.done = b.at
        BY <3>1, <2>4, <2>5 DEF Records
      <4> QED BY <2>2, <2>3, <2>4, <2>7, <2>9, <4>1, <4>2
    <3>4. ASSUME NEW j \in RecordsTaken .. RecordsMade - 1 PROVE RecordBlock(S, j)'
      <4>1. j \in Nat /\ RecordBlock(S, j)
        BY <3>1 DEF Records
      <4> QED BY <1>1, <1>4, <4>1, RecordBlockKept
    <3>5. RecordsLag(S)'
      BY <1>4, <3>1, <3>2 DEF Records, RecordsLag, Grows
    <3>6. Records(T, S)'
      BY <3>2, <3>3, <3>4, <3>5 DEF Records
    <3> QED BY <1>1, <1>4, <1>6, <3>1, <3>2, <3>6, LzPlaceKept
  <2> QED BY <1>4, <1>8, <2>8, <2>10, <2>11 DEF Places
<1> QED BY <1>5, <1>9, <1>10

\* What the block says that the tree thread hands over.
LEMMA BlockDone ==
    ASSUME HashPlace, NEW T, BtPlace(T), BtBlock(T), pc.bt = "end" \/ (pc.bt = "run" /\ b.words >= BtLimit),
           NEW s \in Nat, s + Len(b.recs) = Reached(T)
    PROVE  /\ b.sum \in Nat /\ Len(b.recs) \in Nat
           /\ s + b.sum <= fed
           /\ Len(b.recs) <= BtLimit \/ Over
           /\ b.ok /\ b.sum = 0 => Len(b.recs) = 0 /\ Ending(s)
<1>1. fed \in Nat /\ BtLimit \in Nat /\ BtLimit > 0
  BY Constants DEF HashPlace
<1>2. b.sum \in Nat /\ Len(b.recs) \in Nat
  BY SeqFacts DEF BtBlock
<1>3. CASE pc.bt = "end"
  <2>1. /\ Reached(T) - Len(b.recs) + b.sum <= fed
        /\ b.ok => Passed(T) /\ (b.sum = 0 => Len(b.recs) = 0)
        /\ Len(b.recs) <= BtLimit \/ Over
    BY <1>3 DEF BtBlock
  <2>2. Reached(T) - Len(b.recs) = s
    BY <1>2
  <2>3. ASSUME b.ok, b.sum = 0 PROVE Len(b.recs) = 0 /\ Ending(s)
    <3>1. Len(b.recs) = 0 /\ Passed(T)
      BY <2>1, <2>3
    <3>2. s = fed /\ Over
      BY <1>1, <3>1 DEF Passed, Reached, BtPlace
    <3> QED BY <3>1, <3>2 DEF Over, HashPlace, Ending
  <2> QED BY <1>2, <2>1, <2>2, <2>3
<1>4. CASE pc.bt = "run" /\ b.words >= BtLimit
  <2>1. /\ b.done = Len(b.recs) /\ b.done + b.avail = b.sum /\ b.done \in Nat /\ b.words \in Nat
        /\ b.done <= BtLimit /\ (b.words > 0 => b.done > 0)
    BY <1>4 DEF BtBlock
  <2>2. b.avail \in Nat /\ b.at \in Nat /\ b.at + b.avail <= fed /\ (Reached(T) = b.at \/ Passed(T))
    BY DEF BtPlace
  <2>3. Passed(T) => Reached(T) = fed /\ b.avail = 0
    BY <1>1 DEF Passed, Reached, BtPlace
  <2>4. Reached(T) + b.avail <= fed
    BY <1>1, <2>2, <2>3
  <2>5. s + b.sum <= fed
    <3> DEFINE d == b.done
               a == b.avail
               r == Reached(T)
               t == b.sum
    <3>1. d \in Nat /\ a \in Nat /\ d + a = t /\ s + d = r /\ r + a <= fed
      BY <2>1, <2>2, <2>4
    <3> HIDE DEF d, a, r, t
    <3>2. s + t <= fed
      BY <3>1, <1>1
    <3> QED BY <3>2 DEF t
  <2>6. b.done > 0 /\ b.sum > 0
    BY <1>1, <1>4, <2>1, <2>2
  <2> QED BY <1>2, <2>1, <2>5, <2>6
<1> QED BY <1>3, <1>4

\* The tree thread hands a block over: the next one begins behind its records.
LEMMA PlacesBtFinish ==
    ASSUME IInv, Buffers, BtFinish, Streaming, NEW T \in Positions, NEW S \in Positions, Places(T, S)
    PROVE  \E V \in Positions : Places(T, V)'
<1>1. /\ pc.bt = "end" \/ (pc.bt = "run" /\ b.words >= BtLimit)
      /\ btBuf' = [btBuf EXCEPT ![b.index % BtNumBlocks] = [ok |-> b.ok, avail |-> b.sum, recs |-> b.recs]]
      /\ hs' = (IF Movable THEN UnlockBuffer(hs) ELSE hs)
      /\ bs' = [bs EXCEPT !.filled = @ + 1]
      /\ b' = [b EXCEPT !.index = @ + 1, !.recs = <<>>, !.words = 0]
      /\ pc' = [pc EXCEPT !.bt = "loop"]
      /\ UNCHANGED <<data, direct, fed, h, hashBuf, l, at, threadFailed>>
  BY DEF BtFinish, BtGoes, inputVars, hashVars, lzVars
<1>2. pc'.bt = "loop" /\ pc'.lz = pc.lz /\ pc.bt # "wait"
  BY <1>1 DEF IInv, Protocol, Control
<1>3. /\ hs'.needStart = hs.needStart /\ hs'.processed = hs.processed /\ hs'.canStart = hs.canStart
      /\ bs'.needStart = bs.needStart /\ bs'.processed = bs.processed /\ bs'.canStart = bs.canStart
  BY <1>1 DEF IInv, Protocol, Control, Syncs, UnlockBuffer
<1>4. BtSame /\ b'.index = b.index + 1 /\ b'.recs = <<>> /\ b'.words = 0 /\ b'.done = b.done /\ b'.sum = b.sum
  BY <1>1 DEF BtSame, Places, BtPlace
<1>5. HeadsMade' = HeadsMade /\ HeadsTaken' = HeadsTaken
  BY <1>1, <1>2, <1>3, CountsSame DEF Hashed
<1>6. StreamSame
  BY <1>1, StreamUnchanged DEF Places
<1>7. Grows /\ fed \in Nat /\ HashPlace' /\ HeadPos' = HeadPos
  BY <1>6, StreamGrows DEF Places
<1>8. Heads(T)'
  BY <1>1, <1>5, <1>7, HeadsStay DEF Places
<1>9. BtPlace(T)' /\ Reached(T)' = Reached(T)
  BY <1>4, <1>5, <1>7, BtPlaceKept DEF Places
<1>10. BtBlock(T)'
  <2>1. b.done \in Nat /\ b.sum \in Nat
    BY DEF Places, BtBlock
  <2> QED BY <1>2, <1>4, <2>1, EmptyIsSeq DEF BtBlock
<1>11. CASE pc.lz \notin {"body", "wait"}
  <2>1. Places(T, S)'
    BY <1>2, <1>7, <1>8, <1>9, <1>10, <1>11 DEF Places
  <2> QED BY <2>1
<1>12. CASE pc.lz \in {"body", "wait"}
  <2>1. PICK m : m = b.index
    OBVIOUS
  <2>2. PICK n, r : r = b.recs /\ n = Len(b.recs)
    OBVIOUS
  <2>3. ~bs.needStart /\ ~bs.canStart
    BY <1>1 DEF IInv, Protocol, BtInv, Handshake, Control
  <2>4. m \in Nat /\ RecordsMade = m /\ RecordsMade' = m + 1 /\ RecordsTaken' = RecordsTaken
    BY <1>2, <1>3, <1>4, <2>1, <2>3 DEF RecordsMade, RecordsTaken, Treed, IInv, Protocol, Fields
  <2>5. /\ RecordsTaken \in Nat /\ RecordsTaken <= m /\ m - RecordsTaken < BtNumBlocks /\ BtNumBlocks \in Nat
    <3>1. AtWork
      BY <1>1 DEF AtWork
    <3>2. /\ bs.free = BtNumBlocks + bs.processed - 1 - RecordsMade - 1 /\ bs.processed \in Nat /\ bs.free >= 0
          /\ RecordsTaken \in Nat /\ RecordsTaken <= RecordsMade /\ RecordsTaken >= bs.processed - 1
      BY <1>12, <2>3, <3>1, RecordCounts
    <3>3. BtNumBlocks \in Nat
      BY Constants
    <3> QED BY <2>4, <3>2, <3>3
  <2>6. S[m] + n = Reached(T) /\ S[m] \in Nat
    BY <1>12, <2>2, <2>4 DEF Places, Records, Positions
  <2>7. /\ b.sum \in Nat /\ n \in Nat
        /\ S[m] + b.sum <= fed
        /\ n <= BtLimit \/ Over
        /\ b.ok /\ b.sum = 0 => n = 0 /\ Ending(S[m])
    BY <1>1, <2>2, <2>6, BlockDone DEF Places
  <2> DEFINE V == [S EXCEPT ![m + 1] = S[m] + n]
  <2>8. V \in Positions /\ V[m + 1] = S[m] + n /\ \A j \in Nat : j # m + 1 => V[j] = S[j]
    BY <2>4, <2>6, <2>7 DEF Positions
  <2> HIDE DEF V
  <2>9. Records(T, V)'
    <3>1. V[m + 1] + Len(b'.recs) = Reached(T)'
      BY <1>4, <1>9, <2>6, <2>7, <2>8, EmptyIsSeq
    <3>2. ASSUME NEW j \in RecordsTaken .. m - 1 PROVE RecordBlock(V, j)'
      <4>1. j \in Nat /\ j # m + 1 /\ j + 1 # m + 1 /\ j < m /\ m < j + BtNumBlocks
        BY <2>4, <2>5
      <4>2. j % BtNumBlocks # m % BtNumBlocks
        BY <4>1, <2>4, RingSlots, Sizes
      <4>3. btBuf'[j % BtNumBlocks] = btBuf[j % BtNumBlocks]
        BY <1>1, <2>1, <4>2
      <4>4. V[j] = S[j] /\ V[j + 1] = S[j + 1]
        BY <2>8, <4>1
      <4>5. RecordBlock(S, j)
        BY <1>12, <2>4 DEF Places, Records
      <4>6. RecordBlock(S, j)'
        BY <1>7, <4>1, <4>3, <4>5, RecordBlockKept
      <4> QED BY <4>4, <4>6 DEF RecordBlock
    <3>3. RecordBlock(V, m)'
      <4>1. btBuf'[m % BtNumBlocks] = [ok |-> b.ok, avail |-> b.sum, recs |-> b.recs]
        <5>1. m % BtNumBlocks \in 0 .. BtNumBlocks - 1
          BY <2>4, Sizes, DivMod
        <5> QED BY <1>1, <2>1, <5>1 DEF Buffers
      <4> DEFINE blk == btBuf'[m % BtNumBlocks]
      <4>2. blk.ok = b.ok /\ blk.avail = b.sum /\ Len(blk.recs) = n
        BY <2>2, <4>1
      <4>3. V[m] = S[m] /\ V[m + 1] = S[m] + n
        BY <2>4, <2>8
      <4> HIDE DEF blk
      <4>4. (Over => Over') /\ fed' = fed /\ (Ending(S[m]) => Ending(S[m])')
        BY <1>1, <1>7 DEF Grows, Ending
      <4>5. /\ blk.avail \in Nat /\ Len(blk.recs) \in Nat
            /\ V[m + 1] = V[m] + Len(blk.recs)
            /\ V[m] + blk.avail <= fed'
            /\ Len(blk.recs) <= BtLimit \/ Over'
            /\ blk.ok /\ blk.avail = 0 => Len(blk.recs) = 0 /\ Ending(V[m])'
        BY <2>7, <4>2, <4>3, <4>4
      <4> QED BY <4>5 DEF RecordBlock, blk
    <3>4. RecordsLag(V)'
      <4>1. SUFFICES ASSUME ~Over', NEW j \in RecordsTaken .. m + 1
                     PROVE  V[m + 1] <= V[j] + ((m + 1) - j) * BtLimit
        BY <2>4 DEF RecordsLag
      <4>2. BtLimit \in Nat /\ n <= BtLimit /\ ~Over
        BY <4>1, <1>7, <2>7, Constants DEF Grows
      <4>3. CASE j = m + 1
        <5>1. ((m + 1) - j) * BtLimit = 0
          BY <2>4, <4>2, <4>3
        <5> QED BY <2>6, <2>7, <2>8, <4>3, <5>1
      <4>4. CASE j # m + 1
        <5>1. j \in RecordsTaken .. m /\ j \in Nat
          BY <2>4, <2>5, <4>4
        <5>2. S[m] <= S[j] + (m - j) * BtLimit
          BY <1>12, <2>4, <4>2, <5>1 DEF Places, Records, RecordsLag
        <5>3. ((m + 1) - j) * BtLimit = (m - j) * BtLimit + BtLimit
          <6>1. (m + 1) - j = (m - j) + 1 /\ m - j \in Int
            BY <2>4, <5>1
          <6> QED BY <6>1, <4>2, OneMore
        <5>4. (m - j) * BtLimit \in Int /\ S[j] \in Nat /\ V[j] = S[j]
          BY <2>4, <2>8, <4>2, <4>4, <5>1 DEF Positions
        <5> QED BY <2>6, <2>7, <2>8, <4>2, <5>2, <5>3, <5>4
      <4> QED BY <4>3, <4>4
    <3>5. \A j \in RecordsTaken .. (m + 1) - 1 : RecordBlock(V, j)'
      BY <2>4, <2>5, <3>2, <3>3
    <3> QED BY <2>4, <3>1, <3>4, <3>5 DEF Records
  <2>10. LzPlace(V)'
    <3>1. LzPlace(S)'
      BY <1>1, <1>2, <1>7, <1>12, <2>4, LzPlaceKept DEF Places
    <3>2. V[RecordsTaken] = S[RecordsTaken]
      BY <2>4, <2>5, <2>8
    <3> QED BY <2>4, <3>1, <3>2 DEF LzPlace
  <2> QED BY <1>7, <1>8, <1>9, <1>10, <2>8, <2>9, <2>10 DEF Places
<1> QED BY <1>11, <1>12

LFields == {"blk", "pos", "lim", "pointer", "avail", "failed", "lzPos", "zero"}

\* The encoder moves in its block or leaves it, and nothing else happens.
LEMMA PlacesLz ==
    ASSUME IInv, Streaming, NEW T \in Positions, NEW S \in Positions, Places(T, S),
           UNCHANGED <<hs, data, direct, fed, h, hashBuf, b, btBuf, threadFailed>>, pc'.bt = pc.bt,
           pc'.lz \in {"body", "wait"} =>
              /\ pc.lz \in {"body", "wait"} /\ LzPlace(S)'
              /\ RecordsMade' = RecordsMade /\ RecordsTaken' = RecordsTaken
    PROVE  Places(T, S)'
<1>1. StreamSame /\ BtSame
  BY StreamUnchanged DEF Places, BtSame
<1>2. HeadsMade' = HeadsMade /\ HeadsTaken' = HeadsTaken
  BY CountsSame DEF Hashed
<1>3. Grows /\ fed \in Nat
  BY <1>1, StreamGrows DEF Places
<1>4. BtBlock(T)'
  BY <1>1, <1>2, <1>3, BlockStays DEF Places
<1> QED BY <1>1, <1>2, <1>4, Quiet

\* The encoder gives its block back and asks for the next, or is parked.
LEMMA PlacesLzAsk ==
    ASSUME IInv, LzAsk, Streaming, NEW T \in Positions, NEW S \in Positions, Places(T, S)
    PROVE  Places(T, S)'
<1>1. /\ pc.lz = "body" /\ l.pos = l.lim /\ ~l.zero
      /\ UNCHANGED <<hs, data, direct, fed, h, hashBuf, b, btBuf, at, threadFailed>>
      /\ \/ l.failed /\ l' = [l EXCEPT !.pos = 0] /\ UNCHANGED <<bs, pc>>
         \/ /\ ~l.failed /\ bs' = AskBlock(bs) /\ l' = [l EXCEPT !.blk = AskIndex(bs) % BtNumBlocks]
            /\ pc' = [pc EXCEPT !.lz = "wait"]
  BY DEF LzAsk, LzGoes, inputVars, hashVars, btVars
<1>2. LzPlace(S)
  BY <1>1 DEF Places
<1>3. CASE l.failed /\ l' = [l EXCEPT !.pos = 0] /\ UNCHANGED <<bs, pc>>
  <2>1. RecordsMade' = RecordsMade /\ RecordsTaken' = RecordsTaken
    BY <1>1, <1>3 DEF RecordsMade, RecordsTaken, Treed
  <2>2. /\ DOMAIN l' = DOMAIN l /\ l'.pos = 0 /\ l'.lim = l.lim /\ l'.avail = l.avail /\ l'.failed = l.failed
        /\ l'.zero = l.zero
    BY <1>2, <1>3 DEF LzPlace
  <2>3. LzPlace(S)'
    BY <1>1, <1>2, <1>3, <2>1, <2>2 DEF LzPlace
  <2> QED BY <1>1, <1>3, <2>1, <2>3, PlacesLz
<1>4. CASE /\ ~l.failed /\ bs' = AskBlock(bs) /\ l' = [l EXCEPT !.blk = AskIndex(bs) % BtNumBlocks]
           /\ pc' = [pc EXCEPT !.lz = "wait"]
  <2>1. pc'.bt = pc.bt /\ pc'.lz = "wait"
    BY <1>4 DEF IInv, Protocol, Control
  <2>2. RecordsMade' = RecordsMade /\ RecordsTaken' = RecordsTaken
    <3>1. /\ ~bs'.needStart
          /\ bs.needStart => bs'.processed = 1 /\ bs'.canStart
          /\ ~bs.needStart => bs'.processed = bs.processed + 1 /\ bs'.canStart = bs.canStart
      BY <1>4, AskFacts DEF IInv, Protocol, Control
    <3>2. bs.processed \in Nat
      BY DEF IInv, Protocol, Control, Syncs
    <3> QED BY <1>1, <2>1, <3>1, <3>2 DEF RecordsMade, RecordsTaken, Treed
  <2>3. /\ DOMAIN l' = DOMAIN l /\ l'.pos = l.pos /\ l'.lim = l.lim /\ l'.avail = l.avail /\ l'.failed = l.failed
        /\ l'.zero = l.zero
    BY <1>2, <1>4 DEF LzPlace
  <2>4. LzPlace(S)'
    <3>1. Ending(at)' <=> Ending(at)
      BY <1>1 DEF Ending
    <3>2. Over' <=> Over
      BY <1>1 DEF Over
    <3> QED BY <1>1, <1>2, <1>4, <2>2, <2>3, <3>1, <3>2 DEF LzPlace
  <2> QED BY <1>1, <2>1, <2>2, <2>4, PlacesLz
<1> QED BY <1>1, <1>3, <1>4

\* A position further (get_matches and skip).
LEMMA PlacesLzMoves ==
    ASSUME IInv, Streaming, NEW T \in Positions, NEW S \in Positions, Places(T, S),
           pc.lz = "body", l.pos < l.lim, l.avail > 0, l' = LzMoved, at' = at + 1,
           UNCHANGED <<pc, hs, bs, data, direct, fed, h, hashBuf, b, btBuf, threadFailed>>
    PROVE  Places(T, S)'
<1>1. LzPlace(S) /\ DOMAIN l = LFields
  BY DEF Places, LzPlace, LFields
<1>2. RecordsMade' = RecordsMade /\ RecordsTaken' = RecordsTaken
  BY DEF RecordsMade, RecordsTaken, Treed
<1>3. /\ DOMAIN l' = LFields /\ l'.pos = l.pos + 1 /\ l'.lim = l.lim /\ l'.avail = l.avail - 1 /\ l'.failed = l.failed
      /\ l'.zero = l.zero
  BY <1>1 DEF LzMoved, LFields
<1>4. ~l.zero
  BY <1>1 DEF LzPlace
<1>5. /\ at \in Nat /\ l.avail \in Nat /\ l.pos \in Nat /\ l.lim \in Nat /\ at + l.avail <= fed
      /\ ~l.failed => at + (l.lim - l.pos) = S[RecordsTaken] /\ (l.lim - l.pos <= BtLimit \/ Over)
  BY <1>1 DEF LzPlace
<1>6. BtLimit \in Nat /\ fed \in Nat
  BY Constants DEF Places, HashPlace
<1>7. /\ at' \in Nat /\ l'.avail \in Nat /\ l'.pos \in Nat /\ l'.pos <= l'.lim /\ at' + l'.avail <= fed'
      /\ at' + (l'.lim - l'.pos) = at + (l.lim - l.pos)
      /\ l.lim - l.pos <= BtLimit => l'.lim - l'.pos <= BtLimit
  <2> DEFINE p == l.pos
             m == l.lim
             a == l.avail
  <2>1. p \in Nat /\ m \in Nat /\ a \in Nat /\ p < m /\ a > 0 /\ at + a <= fed /\ at \in Nat
    BY <1>5
  <2>2. l'.pos = p + 1 /\ l'.lim = m /\ l'.avail = a - 1
    BY <1>3
  <2> HIDE DEF p, m, a
  <2>3. /\ at' \in Nat /\ l'.avail \in Nat /\ l'.pos \in Nat /\ l'.pos <= l'.lim /\ at' + l'.avail <= fed'
        /\ at' + (l'.lim - l'.pos) = at + (m - p)
        /\ m - p <= BtLimit => l'.lim - l'.pos <= BtLimit
    BY <1>6, <2>1, <2>2
  <2> QED BY <2>3 DEF p, m
<1>8. LzPlace(S)'
  BY <1>2, <1>3, <1>4, <1>5, <1>7 DEF LzPlace, LFields, Over
<1> QED BY <1>2, <1>8, PlacesLz

\* The encoder leaves a stream that never started its threads.
LEMMA PlacesLzStop ==
    ASSUME IInv, LzStop, Streaming, Streaming', NEW T \in Positions, NEW S \in Positions, Places(T, S)
    PROVE  Places(T, S)'
<1>1. /\ UNCHANGED <<hs, data, direct, fed, h, hashBuf, b, btBuf, threadFailed>>
      /\ pc' = [pc EXCEPT !.lz = "stopped"] \/ pc' = [pc EXCEPT !.lz = "stopping"]
  BY DEF LzStop, LzGoes, inputVars, hashVars, btVars
<1>2. pc'.lz \in {"stopped", "stopping"} /\ pc'.bt = pc.bt
  BY <1>1 DEF IInv, Protocol, Control
<1> QED BY <1>1, <1>2, PlacesLz

\* The encoder takes its next block of records.
LEMMA PlacesLzTake ==
    ASSUME IInv, LzTake, Streaming, NEW T \in Positions, NEW S \in Positions, Places(T, S)
    PROVE  Places(T, S)'
<1> DEFINE New(blk, sub) ==
      [l EXCEPT !.pointer = @ - shift.lz, !.avail = blk.avail, !.failed = ~blk.ok, !.pos = 0,
                !.lim = IF blk.ok THEN Len(blk.recs) ELSE 1, !.lzPos = @ - sub, !.zero = blk.avail = 0]
<1>a. /\ pc.lz = "wait" /\ bs.filled > 0 /\ bs' = TakeBlock(bs)
      /\ pc' = [pc EXCEPT !.lz = "body"]
      /\ UNCHANGED <<hs, data, direct, fed, h, hashBuf, b, btBuf, at, threadFailed>>
  BY DEF LzTake, LzGoes, CanTake, inputVars, hashVars, btVars
<1>b. \E blk \in {btBuf[l.blk]} : \E sub : l' = New(blk, sub)
  BY Zenon DEF LzTake
<1>c. PICK blk \in {btBuf[l.blk]} : \E sub : l' = New(blk, sub)
  BY <1>b
<1>d. PICK sub : l' = New(blk, sub)
  BY <1>c
<1>e. PICK j : j = RecordsTaken
  OBVIOUS
<1>1. /\ j = RecordsTaken /\ blk = btBuf[l.blk]
      /\ pc.lz = "wait" /\ bs.filled > 0 /\ bs' = TakeBlock(bs)
      /\ l' = [l EXCEPT !.pointer = @ - shift.lz, !.avail = blk.avail, !.failed = ~blk.ok, !.pos = 0,
                        !.lim = IF blk.ok THEN Len(blk.recs) ELSE 1, !.lzPos = @ - sub,
                        !.zero = blk.avail = 0]
      /\ pc' = [pc EXCEPT !.lz = "body"]
      /\ UNCHANGED <<hs, data, direct, fed, h, hashBuf, b, btBuf, at, threadFailed>>
  BY <1>a, <1>d, <1>e
<1> HIDE DEF New
<1>2. LzPlace(S) /\ Records(T, S) /\ DOMAIN l = LFields
  BY <1>1 DEF Places, LzPlace, LFields
<1>3. pc'.lz = "body" /\ pc'.bt = pc.bt
  BY <1>1 DEF IInv, Protocol, Control
<1>4. /\ ~bs.needStart /\ j \in Nat /\ j = bs.processed - 1 /\ j < RecordsMade /\ RecordsMade \in Nat
      /\ l.blk = j % BtNumBlocks /\ bs.processed \in Nat
  BY <1>1, RecordCounts
<1>5. bs'.needStart = bs.needStart /\ bs'.processed = bs.processed /\ bs'.canStart = bs.canStart
  BY <1>1 DEF IInv, Protocol, Control, Syncs, TakeBlock, LockBuffer
<1>6. RecordsMade' = RecordsMade /\ RecordsTaken' = j + 1
  BY <1>1, <1>3, <1>4, <1>5 DEF RecordsMade, RecordsTaken, Treed
<1>7. StreamSame /\ BtSame
  BY <1>1, StreamUnchanged DEF Places, BtSame
<1>8. Grows /\ fed \in Nat /\ HashPlace' /\ HeadPos' = HeadPos
  BY <1>7, StreamGrows DEF Places
<1>9. HeadsMade' = HeadsMade /\ HeadsTaken' = HeadsTaken
  BY <1>1, <1>3, CountsSame DEF Hashed
<1>10. Heads(T)'
  BY <1>1, <1>8, <1>9, HeadsStay DEF Places
<1>11. BtPlace(T)' /\ BtBlock(T)' /\ Reached(T)' = Reached(T)
  BY <1>1, <1>3, <1>8, <1>9, BtKept DEF Places
<1>12. RecordBlock(S, j)
  BY <1>1, <1>2, <1>4 DEF Records
<1>13. /\ blk.avail \in Nat /\ Len(blk.recs) \in Nat
       /\ S[j + 1] = S[j] + Len(blk.recs)
       /\ S[j] + blk.avail <= fed
       /\ Len(blk.recs) <= BtLimit \/ Over
       /\ blk.ok /\ blk.avail = 0 => Len(blk.recs) = 0 /\ Ending(S[j])
  BY <1>1, <1>4, <1>12 DEF RecordBlock
<1>14. at = S[j] /\ at \in Nat
  <2>1. ~l.failed /\ l.pos = l.lim /\ l.pos \in Nat
    BY <1>1, <1>2 DEF LzPlace
  <2>2. at \in Nat /\ S[j] \in Nat /\ at + (l.lim - l.pos) = S[j]
    BY <1>1, <1>2, <1>4, <2>1 DEF LzPlace, Positions
  <2> QED BY <2>1, <2>2
<1>15. LzPlace(S)'
  <2> DEFINE m == IF blk.ok THEN Len(blk.recs) ELSE 1
  <2>1. /\ DOMAIN l' = LFields /\ l'.pos = 0 /\ l'.lim = m /\ l'.avail = blk.avail
        /\ l'.failed = ~blk.ok /\ l'.zero = (blk.avail = 0)
    BY <1>1, <1>2 DEF LFields
  <2>2. (l'.failed <=> ~blk.ok) /\ (l'.zero <=> blk.avail = 0)
    BY <2>1, Zenon
  <2>3. m \in Nat /\ (blk.ok => m = Len(blk.recs))
    BY <1>13
  <2> HIDE DEF m
  <2>4. ~l'.failed => at' + (l'.lim - l'.pos) = S[j + 1] /\ (l'.lim - l'.pos <= BtLimit \/ Over')
    <3>1. ASSUME ~l'.failed PROVE at' + (l'.lim - l'.pos) = S[j + 1] /\ (l'.lim - l'.pos <= BtLimit \/ Over')
      <4>1. blk.ok /\ m = Len(blk.recs)
        BY <2>2, <2>3, <3>1
      <4>2. l'.lim - l'.pos = m
        BY <2>1, <2>3
      <4> QED BY <1>1, <1>8, <1>13, <1>14, <4>1, <4>2 DEF Grows
    <3> QED BY <3>1
  <2>5. at' + l'.avail <= fed'
    BY <1>1, <1>13, <1>14, <2>1
  <2>6. l'.zero => l'.avail = 0 /\ (l'.failed \/ Ending(at)')
    <3>1. Ending(at) => Ending(at)'
      BY <1>1 DEF Ending
    <3> QED BY <1>13, <1>14, <2>1, <2>2, <3>1
  <2>7. at' \in Nat /\ l'.avail \in Nat /\ l'.pos \in Nat /\ l'.lim \in Nat /\ l'.pos <= l'.lim
    BY <1>1, <1>13, <1>14, <2>1, <2>3
  <2> QED BY <1>3, <1>6, <2>1, <2>4, <2>5, <2>6, <2>7 DEF LzPlace, LFields
<1>16. Records(T, S)'
  <2>1. S[RecordsMade] + Len(b'.recs) = Reached(T)'
    BY <1>1, <1>2, <1>11 DEF Records
  <2>2. ASSUME NEW i \in (j + 1) .. RecordsMade - 1 PROVE RecordBlock(S, i)'
    <3>1. i \in RecordsTaken .. RecordsMade - 1 /\ i \in Nat
      BY <1>1, <1>4
    <3>2. RecordBlock(S, i)
      BY <1>2, <3>1 DEF Records
    <3> QED BY <1>1, <1>8, <3>1, <3>2, RecordBlockKept
  <2>3. RecordsLag(S)'
    <3>1. \A i \in (j + 1) .. RecordsMade : i \in RecordsTaken .. RecordsMade
      BY <1>1, <1>4
    <3> QED BY <1>2, <1>6, <1>8, <3>1 DEF Records, RecordsLag, Grows
  <2> QED BY <1>6, <2>1, <2>2, <2>3 DEF Records
<1> QED BY <1>8, <1>10, <1>11, <1>15, <1>16 DEF Places

\* The window slides only while there is more to read.
Sliding == pc.hash = "enter" => ~Over

\* The input of a stream is a list of bytes.
LEMMA StreamBegins ==
    ASSUME IInv, LzInit
    PROVE  data' \in Seq(Nat) /\ Len(data') \in Nat /\ direct' \in BOOLEAN
<1>1. \E in \in Inputs[stream'] : data' = in.data /\ direct' = in.direct
  BY Zenon DEF LzInit
<1>2. stream' = stream + 1 /\ stream + 1 \in 1 .. NumStreams
  BY MtInputsAssumption DEF IInv, StreamInv, LzInit
<1> QED BY <1>1, <1>2, MtInputsAssumption

\* A stream begins with everybody at its first byte.
LEMMA PlacesLzInit ==
    ASSUME IInv, LzInit
    PROVE  \E T, S \in Positions : Places(T, S)'
<1> DEFINE Z == [k \in Nat |-> 0]
<1>1. /\ pc.lz = "init" /\ hs' = SyncInit(hs, HashNumBlocks) /\ bs' = SyncInit(bs, BtNumBlocks)
      /\ stream' = stream + 1
      /\ fed' = 0 /\ h' = NewH /\ b' = NewB /\ l' = NewL /\ at' = 0 /\ pc' = [pc EXCEPT !.lz = "body"]
  BY DEF LzInit, LzGoes
<1>2. data' \in Seq(Nat) /\ Len(data') \in Nat /\ direct' \in BOOLEAN
  BY StreamBegins
<1>3. hs.needStart /\ bs.needStart /\ pc.bt \in {"start", "gone"}
  BY <1>1 DEF IInv, Protocol, HashInv, BtInv, Handshake, Active
<1>4. hs'.needStart /\ bs'.needStart /\ pc'.bt \in {"start", "gone"} /\ pc'.lz = "body"
  BY <1>1, <1>3 DEF SyncInit, IInv, Protocol, Control, Syncs
<1>5. Z \in Positions /\ \A k \in Nat : Z[k] = 0
  BY DEF Positions
<1> HIDE DEF Z
<1>6. HeadsMade' = 0 /\ HeadsTaken' = 0 /\ RecordsMade' = 0 /\ RecordsTaken' = 0
  BY <1>4 DEF HeadsMade, HeadsTaken, RecordsMade, RecordsTaken
<1>7. HAvail' = 0 /\ HeadPos' = 0
  BY <1>1 DEF HAvail, HeadPos, NewH
<1>8. HashPlace'
  BY <1>1, <1>2, <1>7, Room DEF HashPlace, NewH
<1>9. 0 * HashHeads = 0 /\ 0 * BtLimit = 0
  BY Constants
<1>10. Heads(Z)'
  BY <1>5, <1>6, <1>7, <1>9 DEF Heads, HeadsLag
<1>11. Reached(Z)' = 0
  BY <1>1, <1>5, <1>6 DEF Reached, NewB
<1>12. BtPlace(Z)'
  BY <1>1, <1>11, Room, Constants DEF BtPlace, NewB
<1>13. BtBlock(Z)'
  BY <1>1, <1>4, EmptyIsSeq DEF BtBlock, NewB
<1>14. Records(Z, Z)'
  BY <1>1, <1>5, <1>6, <1>9, <1>11 DEF Records, RecordsLag, NewB
<1>15. LzPlace(Z)'
  BY <1>1, <1>4, <1>5, <1>6, Constants DEF LzPlace, NewL
<1>16. Places(Z, Z)'
  BY <1>8, <1>10, <1>12, <1>13, <1>14, <1>15 DEF Places
<1> QED BY <1>5, <1>16

\* Where an encoder is that has started its threads, or has not.
LEMMA SpawnGoes ==
    ASSUME LzSpawn, pc \in [hash : HashPcs, bt : BtPcs, lz : LzPcs]
    PROVE  pc'.lz \in {"init", "done", "joinhash", "scope"} /\ pc'.hash \in {pc.hash, "start"}
<1>1. \/ pc' = [hash |-> "start", bt |-> "start", lz |-> "init"]
      \/ pc' = [pc EXCEPT !.lz = "done"]
      \/ pc' = [pc EXCEPT !.hash = "start", !.lz = "joinhash"]
      \/ pc' = [pc EXCEPT !.hash = "start", !.lz = "scope"]
  BY DEF LzSpawn, LzGoes
<1>2. CASE pc' = [hash |-> "start", bt |-> "start", lz |-> "init"]
  BY <1>2
<1>3. CASE pc' = [pc EXCEPT !.lz = "done"]
  BY <1>3
<1>4. CASE pc' = [pc EXCEPT !.hash = "start", !.lz = "joinhash"]
  BY <1>4
<1>5. CASE pc' = [pc EXCEPT !.hash = "start", !.lz = "scope"]
  BY <1>5
<1> QED BY <1>1, <1>2, <1>3, <1>4, <1>5

\* Only the encoder begins a stream, and once somebody is told to stop it does not go on.
LEMMA StillStreaming ==
    ASSUME IInv, [Next]_vars, Streaming', ~LzInit
    PROVE  Streaming
<1> USE DEF Streaming
<1>1. pc \in [hash : HashPcs, bt : BtPcs, lz : LzPcs] /\ bs \in Syncs
  BY DEF IInv, Protocol, Control
<1>2. CASE HashStart
  BY <1>1, <1>2 DEF HashStart
<1>3. CASE HashEnter
  BY <1>1, <1>3 DEF HashEnter, Syncs
<1>4. CASE HashMove
  <2>1. bs' = [bs EXCEPT !.cs = "none"] /\ pc' = [pc EXCEPT !.hash = "loop"]
    BY <1>4 DEF HashMove, UnlockBuffer
  <2> QED BY <1>1, <2>1 DEF Syncs
<1>5. CASE HashBlock
  <2>1. bs' = bs /\ (pc' = pc \/ pc' = [pc EXCEPT !.hash = "start"])
    BY <1>5 DEF HashBlock
  <2> QED BY <1>1, <2>1
<1>6. CASE BtStart \/ BtFree \/ BtLock \/ BtBegin \/ BtAsk \/ BtTake \/ BtWalk \/ BtPanic \/ BtFinish
  <2>1. pc'.lz = pc.lz /\ bs'.wasStopped = bs.wasStopped
    BY <1>1, <1>6 DEF BtStart, BtFree, BtLock, BtBegin, BtAsk, BtTake, BtWalk, BtPanic, BtFinish, BtGoes, Syncs
  <2>2. pc.bt # "stopping"
    BY <1>6 DEF BtStart, BtFree, BtLock, BtBegin, BtAsk, BtTake, BtWalk, BtPanic, BtFinish
  <2> QED BY <2>1, <2>2
<1>7. CASE BtStop
  BY <1>1, <1>7 DEF BtStop, BtGoes, Syncs
<1>8. CASE BtStopped
  BY <1>1, <1>8 DEF BtStopped, BtGoes, Syncs
<1>9. CASE LzSpawn
  <2>1. pc'.lz \in {"init", "done", "joinhash", "scope"}
    BY <1>9, SpawnGoes DEF IInv, Protocol, Control
  <2> QED BY <2>1 DEF Active
<1>10. CASE LzAsk
  <2>1. bs.needStart => ~bs.wasStopped
    BY DEF IInv, Protocol, BtInv, Handshake
  <2>2. pc.lz = "body" /\ (UNCHANGED <<bs, pc>> \/ (bs' = AskBlock(bs) /\ pc' = [pc EXCEPT !.lz = "wait"]))
    BY <1>10 DEF LzAsk, LzGoes
  <2>3. ~bs.needStart /\ bs' = AskBlock(bs) => bs'.wasStopped = bs.wasStopped
    BY <1>1, AskFacts DEF IInv, Protocol, Control
  <2> QED BY <1>1, <2>1, <2>2, <2>3 DEF Active
<1>11. CASE LzTake
  BY <1>1, <1>11 DEF LzTake, TakeBlock, LockBuffer, LzGoes, Syncs, Active
<1>12. CASE LzMatches \/ LzSkip
  BY <1>1, <1>12 DEF LzMatches, LzSkip
<1>13. CASE LzStop
  <2>1. pc.lz = "body" /\ (bs' = bs \/ bs' = AskStop(bs)) /\ pc'.bt = pc.bt
    BY <1>1, <1>13 DEF LzStop, LzGoes
  <2>2. bs'.wasStopped = bs.wasStopped
    BY <1>1, <2>1, StopFacts
  <2> QED BY <1>1, <2>1, <2>2 DEF Active
<1>14. CASE LzStopped \/ LzAgain \/ LzJoinBt \/ LzJoinHash
  <2>1. pc'.lz \notin Active
    BY <1>1, <1>14 DEF LzStopped, LzAgain, LzJoinBt, LzJoinHash, LzGoes, Active
  <2> QED BY <2>1
<1>15. CASE UNCHANGED vars
  BY <1>15 DEF vars
<1> QED
  BY <1>2, <1>3, <1>4, <1>5, <1>6, <1>7, <1>8, <1>9, <1>10, <1>11, <1>12, <1>13, <1>14, <1>15
  DEF Next, HashStep, BtStep, LzStep

\* The rings keep their slots, and the hash thread goes to slide the window only to read more.
LEMMA BuffersStep ==
    ASSUME IInv, Buffers, Sliding, [Next]_vars
    PROVE  Buffers' /\ Sliding'
<1> USE DEF Buffers
<1>1. pc \in [hash : HashPcs, bt : BtPcs, lz : LzPcs]
  BY DEF IInv, Protocol, Control
<1>2. CASE HashStart
  <2>1. pc'.hash # "enter" /\ UNCHANGED <<hashBuf, btBuf>>
    BY <1>1, <1>2 DEF HashStart, btVars
  <2> QED BY <2>1 DEF Sliding
<1>3. CASE HashEnter
  BY <1>1, <1>3 DEF HashEnter, NeedMove, hashVars, btVars, Sliding, Over
<1>4. CASE HashMove
  <2>1. pc'.hash # "enter" /\ UNCHANGED <<hashBuf, btBuf>>
    BY <1>1, <1>4 DEF HashMove, btVars
  <2> QED BY <2>1 DEF Sliding
<1>5. CASE HashBlock
  <2>1. pc.hash = "loop" /\ (pc' = pc \/ pc' = [pc EXCEPT !.hash = "start"]) /\ btBuf' = btBuf
    BY <1>5 DEF HashBlock, btVars
  <2>2. DOMAIN hashBuf' = DOMAIN hashBuf
    <3>1. hashBuf' = hashBuf \/ \E x : hashBuf' = [hashBuf EXCEPT ![h.index % HashNumBlocks] = x]
      BY <1>5, Zenon DEF HashBlock, hashVars
    <3> QED BY <3>1
  <2> QED BY <1>1, <2>1, <2>2 DEF Sliding
<1>6. CASE BtStep
  <2>1. pc'.hash = pc.hash /\ UNCHANGED <<h, hashBuf>>
    BY <1>1, <1>6 DEF BtStep, BtStart, BtFree, BtLock, BtBegin, BtAsk, BtTake, BtWalk, BtPanic, BtFinish, BtStop,
       BtStopped, BtGoes, hashVars
  <2>2. DOMAIN btBuf' = DOMAIN btBuf
    BY <1>6 DEF BtStep, BtStart, BtFree, BtLock, BtBegin, BtAsk, BtTake, BtWalk, BtPanic, BtFinish, BtStop,
       BtStopped, btVars
  <2> QED BY <2>1, <2>2 DEF Sliding, Over
<1>7. CASE LzStep
  <2>1. UNCHANGED <<hashBuf, btBuf>>
    BY <1>7 DEF LzStep, LzSpawn, LzInit, LzAsk, LzTake, LzMatches, LzSkip, LzStop, LzStopped, LzAgain, LzJoinBt,
       LzJoinHash, hashVars, btVars
  <2>2. h' = h \/ h' = NewH
    BY <1>7 DEF LzStep, LzSpawn, LzInit, LzAsk, LzTake, LzMatches, LzSkip, LzStop, LzStopped, LzAgain, LzJoinBt,
       LzJoinHash, hashVars
  <2>3. pc'.hash = pc.hash \/ pc'.hash = "start" \/ h' = NewH
    <3>1. CASE LzSpawn
      BY <3>1, SpawnGoes DEF IInv, Protocol, Control
    <3>2. CASE LzInit
      BY <3>2 DEF LzInit
    <3>3. CASE LzAsk \/ LzTake \/ LzMatches \/ LzSkip \/ LzStop \/ LzStopped \/ LzAgain \/ LzJoinBt \/ LzJoinHash
      BY <1>1, <3>3 DEF LzAsk, LzTake, LzMatches, LzSkip, LzStop, LzStopped, LzAgain, LzJoinBt, LzJoinHash, LzGoes
    <3> QED BY <1>7, <3>1, <3>2, <3>3 DEF LzStep
  <2> QED BY <2>3, <2>1, <2>2 DEF Sliding, Over, NewH
<1>8. CASE UNCHANGED vars
  BY <1>8 DEF vars, hashVars, btVars, Sliding, Over
<1> QED BY <1>2, <1>3, <1>4, <1>5, <1>6, <1>7, <1>8 DEF Next, HashStep
\* One step of the three threads, and where they are then.
LEMMA PlacesStep ==
    ASSUME IInv, Buffers, Sliding, PlacesInv, [Next]_vars
    PROVE  PlacesInv'
<1> SUFFICES ASSUME Streaming' PROVE (\E T, S \in Positions : Places(T, S))'
  BY DEF PlacesInv
<1>1. CASE LzInit
  BY <1>1, PlacesLzInit
<1>2. CASE ~LzInit
  <2>1. Streaming
    BY <1>2, StillStreaming
  <2>2. PICK T \in Positions, S \in Positions : Places(T, S)
    BY <2>1 DEF PlacesInv
  <2>3. CASE HashStart \/ HashEnter
    BY <2>1, <2>2, <2>3, PlacesHashStart, PlacesHashEnter
  <2>4. CASE HashMove
    <3>1. ~h.err
      BY <2>4 DEF Sliding, Over, HashMove
    <3> QED BY <2>1, <2>2, <2>4, <3>1, PlacesHashMove
  <2>5. CASE HashBlock
    BY <2>1, <2>2, <2>5, PlacesHashBlock
  <2>6. CASE BtStart \/ BtFree \/ BtLock
    BY <2>1, <2>2, <2>6, PlacesBtStart, PlacesBtFree, PlacesBtLock
  <2>7. CASE BtBegin \/ BtAsk \/ BtPanic
    BY <2>1, <2>2, <2>7, PlacesBtBegin, PlacesBtAsk, PlacesBtPanic
  <2>8. CASE BtTake \/ BtWalk
    BY <2>1, <2>2, <2>8, PlacesBtTake, PlacesBtWalk
  <2>9. CASE BtFinish
    BY <2>1, <2>2, <2>9, PlacesBtFinish
  <2>10. ~BtStop /\ ~BtStopped
    <3>1. pc.bt \notin {"stop", "stopping"} \/ pc.lz = "stopping"
      BY DEF IInv, Protocol, BtInv
    <3>2. pc.bt # "stopping" /\ (BtStop => ~Streaming')
      BY <2>1 DEF Streaming, BtStop, BtGoes, IInv, Protocol, Control, HashInv, Syncs
    <3> QED BY <3>2 DEF BtStopped
  <2>11. CASE LzAsk
    BY <2>1, <2>2, <2>11, PlacesLzAsk
  <2>12. CASE LzTake
    BY <2>1, <2>2, <2>12, PlacesLzTake
  <2>13. CASE LzMatches \/ LzSkip
    <3>1. /\ pc.lz = "body" /\ l.pos < l.lim /\ l.avail > 0 /\ l' = LzMoved /\ at' = at + 1
          /\ UNCHANGED <<pc, hs, bs, data, direct, fed, h, hashBuf, b, btBuf, threadFailed>>
      BY <2>13 DEF LzMatches, LzSkip, inputVars, hashVars, btVars
    <3> QED BY <2>1, <2>2, <3>1, PlacesLzMoves
  <2>14. CASE LzStop
    BY <2>1, <2>2, <2>14, PlacesLzStop
  <2>15. CASE LzSpawn \/ LzStopped \/ LzAgain \/ LzJoinBt \/ LzJoinHash
    <3>1. pc \in [hash : HashPcs, bt : BtPcs, lz : LzPcs]
      BY DEF IInv, Protocol, Control
    <3>2. pc'.lz \notin Active
      <4>1. CASE LzSpawn
        BY <3>1, <4>1, SpawnGoes DEF Active
      <4>2. CASE LzStopped \/ LzAgain \/ LzJoinBt \/ LzJoinHash
        BY <3>1, <4>2 DEF LzStopped, LzAgain, LzJoinBt, LzJoinHash, LzGoes, Active
      <4> QED BY <2>15, <4>1, <4>2
    <3> QED BY <3>2 DEF Streaming
  <2>16. CASE UNCHANGED vars
    <3>1. UNCHANGED <<pc, hs, bs, data, direct, fed, h, hashBuf, b, btBuf, l, at, threadFailed>>
      BY <2>16 DEF vars, inputVars, hashVars, btVars, lzVars
    <3>2. RecordsMade' = RecordsMade /\ RecordsTaken' = RecordsTaken
      BY <3>1 DEF RecordsMade, RecordsTaken, Treed
    <3>3. LzPlace(S) => LzPlace(S)'
      BY <3>1, <3>2 DEF LzPlace, Over, Ending
    <3>4. Places(T, S)'
      BY <2>1, <2>2, <3>1, <3>2, <3>3, PlacesLz DEF Places
    <3> QED BY <2>2, <3>4
  <2> QED
    BY <1>2, <2>3, <2>4, <2>5, <2>6, <2>7, <2>8, <2>9, <2>10, <2>11, <2>12, <2>13, <2>14, <2>15, <2>16
    DEF Next, HashStep, BtStep, LzStep
<1> QED BY <1>1, <1>2

Ghosts == Buffers /\ Sliding /\ PlacesInv

(***************************************************************************)
(* At every moment of a stream there is a reading of the two rings as      *)
(* consecutive pieces of it, between the places of the three threads.      *)
(***************************************************************************)
THEOREM PlacesInductive == Spec => []Ghosts
<1>1. Init => Ghosts
  BY DEF Init, Ghosts, Buffers, Sliding, PlacesInv, Streaming, Active
<1>2. IInv /\ Ghosts /\ [Next]_vars => Ghosts'
  BY BuffersStep, PlacesStep DEF Ghosts
<1> QED BY <1>1, <1>2, ProtocolInductive, PTL DEF Spec

(***************************************************************************)
(* The encoder never takes a failure for the end of the stream             *)
(* (get_num_available_bytes is 0).                                         *)
(***************************************************************************)
THEOREM NoEarlyEnd == Spec => []EndIsEnd
<1>1. IInv /\ Ghosts => EndIsEnd
  <2> SUFFICES ASSUME IInv, Ghosts, pc.lz = "body", l.zero
               PROVE  at = Len(data) \/ l.failed \/ threadFailed \/ h.err
    BY DEF EndIsEnd
  <2>1. Streaming
    BY DEF Streaming, Active, IInv, Protocol, BtInv, Handshake
  <2>2. PICK T \in Positions, S \in Positions : Places(T, S)
    BY <2>1 DEF Ghosts, PlacesInv
  <2> QED BY <2>2 DEF Places, LzPlace, Ending
<1> QED BY <1>1, ProtocolInductive, PlacesInductive, PTL

(***************************************************************************)
(* What the window holds.                                                  *)
(***************************************************************************)
\* The stream position of the window's first byte.
Base == HeadPos - h.buffer

Content ==
    /\ h.buffer \in Nat /\ Base \in Nat
    /\ shift \in [bt : Nat, lz : Nat]
    /\ direct => Base = 0 /\ shift.bt = 0 /\ shift.lz = 0
    /\ DOMAIN win = IF direct THEN 0 .. Len(data) - 1 ELSE 0 .. WinLen - 1
    /\ \A i \in DOMAIN win : Base + i < (IF direct THEN Len(data) ELSE fed) => win[i] = data[Base + i + 1]

\* The history of p has not been slid out of the window.
Behind(p) == Base = 0 \/ Base + HistorySize <= p

\* The tree thread and the encoder find themselves in it, once they follow the shift.
BtSees ==
    /\ hs.needStart \/ pc.bt \in {"begin", "run", "end"} => shift.bt = 0
    /\ b.buffer \in Int /\ b.buffer - shift.bt = b.at - Base /\ Behind(b.at)

LzSees ==
    /\ pc.lz \in {"body", "wait"} =>
         l.pointer \in Int /\ l.pointer - shift.lz = at - Base /\ Behind(at)
    /\ pc.lz = "body" => shift.lz = 0

Window == Content /\ BtSees /\ LzSees

\* The window is left alone.
LEMMA ContentStays ==
    ASSUME Content, UNCHANGED <<data, fed, direct, win, h.pos, h.streamPos, h.buffer>>,
           shift' \in [bt : Nat, lz : Nat], direct => shift'.bt = 0 /\ shift'.lz = 0
    PROVE  Content' /\ Base' = Base
<1>1. Base' = Base /\ h'.buffer = h.buffer
  BY DEF Base, HeadPos, HAvail
<1> QED BY <1>1 DEF Content

\* The tree thread moves on in it, or stays.
LEMMA BtSeesOn ==
    ASSUME Base' = Base, Base \in Nat, b.at \in Nat, BtSees, shift'.bt = shift.bt, shift.bt \in Nat,
           NEW n \in Nat, b'.buffer = b.buffer + n, b'.at = b.at + n,
           hs'.needStart \/ pc'.bt \in {"begin", "run", "end"} =>
              hs.needStart \/ pc.bt \in {"begin", "run", "end"} \/ shift.bt = 0
    PROVE  BtSees'
<1>1. b'.buffer \in Int /\ b'.buffer - shift'.bt = b'.at - Base'
  BY DEF BtSees
<1>2. Behind(b.at)'
  BY Constants DEF BtSees, Behind
<1> QED BY <1>1, <1>2 DEF BtSees

\* So does the encoder.
LEMMA LzSeesOn ==
    ASSUME Base' = Base, Base \in Nat, LzSees, shift'.lz = shift.lz, shift.lz \in Nat,
           pc.lz \in {"body", "wait"} => at \in Nat,
           NEW n \in Nat, pc.lz \in {"body", "wait"} => l'.pointer = l.pointer + n /\ at' = at + n,
           pc'.lz = pc.lz \/ pc'.lz \notin {"body", "wait"} \/ (pc.lz = "body" /\ pc'.lz = "wait")
    PROVE  LzSees'
<1>1. ASSUME pc'.lz \in {"body", "wait"}
      PROVE  l'.pointer \in Int /\ l'.pointer - shift'.lz = at' - Base' /\ Behind(at)' /\ (pc'.lz = "body" => shift'.lz = 0)
  <2>1. pc.lz \in {"body", "wait"} /\ (pc'.lz = "body" => pc.lz = "body") /\ at \in Nat
    BY <1>1
  <2>2. l.pointer \in Int /\ l.pointer - shift.lz = at - Base /\ Behind(at) /\ (pc.lz = "body" => shift.lz = 0)
    BY <2>1 DEF LzSees
  <2>3. l'.pointer \in Int /\ l'.pointer - shift'.lz = at' - Base'
    BY <2>1, <2>2
  <2>4. Behind(at)'
    BY <2>1, <2>2, Constants DEF Behind
  <2> QED BY <2>1, <2>2, <2>3, <2>4
<1> QED BY <1>1 DEF LzSees

\* Multiplication is monotonic.
LEMMA Times == ASSUME NEW m \in Nat, NEW n \in Nat, NEW k \in Nat, m <= n PROVE m * k <= n * k
<1>1. PICK d \in Nat : d = n - m
  OBVIOUS
<1>2. n = m + d /\ d * k >= 0
  BY <1>1
<1>3. (m + d) * k = m * k + d * k
  OBVIOUS
<1>4. m * k \in Int /\ d * k \in Int
  OBVIOUS
<1> QED BY <1>2, <1>3, <1>4

(***************************************************************************)
(* While the window may be slid, no thread lags further behind than what   *)
(* the two rings can hold.                                                 *)
(***************************************************************************)
LEMMA Lag ==
    ASSUME IInv, Streaming, NEW T \in Positions, NEW S \in Positions, Places(T, S), ~Over,
           pc.hash = "enter", hs.cs = "none", pc.lz # "body"
    PROVE  /\ HeadPos <= b.at + HashNumBlocks * HashHeads
           /\ pc.lz = "wait" => b.at <= at + BtNumBlocks * BtLimit
<1>1. ~direct /\ ~hs.needStart /\ pc.bt \notin {"begin", "run", "end", "start", "gone"}
  BY DEF IInv, Protocol, Control, HashInv, Handshake
<1>2. HashNumBlocks \in Nat /\ HashHeads \in Nat /\ BtNumBlocks \in Nat /\ BtLimit \in Nat
      /\ HashNumBlocks > 0 /\ BtNumBlocks > 0
  BY Constants
<1>3. /\ HeadsMade \in Nat /\ HeadsTaken \in Nat /\ HeadsTaken <= HeadsMade
      /\ HeadsMade - HeadsTaken <= HashNumBlocks
      /\ pc.bt # "wait" => HeadsMade - HeadsTaken <= HashNumBlocks - 1
  <2>1. /\ HeadsMade \in Nat /\ HeadsTaken \in Nat /\ HeadsTaken <= HeadsMade
        /\ HeadsMade - HeadsTaken <= HashNumBlocks
        /\ hs.free = HashNumBlocks + hs.processed - 1 - HeadsMade /\ hs.processed \in Nat /\ hs.free >= 0
        /\ pc.bt # "wait" => HeadsTaken = hs.processed
    BY <1>1, HeadCounts
  <2> QED BY <1>2, <2>1
<1>4. HeadPos \in Int /\ HeadPos <= T[HeadsTaken] + (HeadsMade - HeadsTaken) * HashHeads /\ T[HeadsTaken] \in Nat
  <2>1. HeadsTaken \in HeadsTaken .. HeadsMade
    BY <1>3
  <2>2. HeadPos = T[HeadsMade]
    BY DEF Places, Heads
  <2> QED BY <1>3, <2>1, <2>2 DEF Places, Heads, HeadsLag, Positions
<1>5. b.at = T[HeadsTaken] - (b.hlim - b.hpos) /\ b.hlim - b.hpos \in Nat /\ b.hlim - b.hpos <= HashHeads /\ b.at \in Nat
  BY <1>2 DEF Places, BtPlace, Reached, Passed
<1>6. HeadPos <= b.at + HashNumBlocks * HashHeads
  <2> DEFINE d == HeadsMade - HeadsTaken
             e == b.hlim - b.hpos
             t == T[HeadsTaken]
  <2>1. d \in Nat /\ e \in Nat /\ t \in Nat /\ t = b.at + e /\ e <= HashHeads /\ HeadPos <= t + d * HashHeads
        /\ d <= HashNumBlocks /\ (pc.bt # "wait" => d + 1 <= HashNumBlocks)
    BY <1>2, <1>3, <1>4, <1>5
  <2>2. pc.bt = "wait" => e = 0
    BY DEF Places, BtPlace, BtBlock
  <2> HIDE DEF d, e, t
  <2>3. CASE pc.bt = "wait"
    <3>1. d * HashHeads <= HashNumBlocks * HashHeads /\ d * HashHeads \in Int /\ HashNumBlocks * HashHeads \in Int
      BY <1>2, <2>1, Times
    <3> QED BY <1>4, <1>5, <2>1, <2>2, <2>3, <3>1
  <2>4. CASE pc.bt # "wait"
    <3>1. (d + 1) * HashHeads <= HashNumBlocks * HashHeads
      BY <1>2, <2>1, <2>4, Times
    <3>2. (d + 1) * HashHeads = d * HashHeads + HashHeads /\ d * HashHeads \in Int /\ HashNumBlocks * HashHeads \in Int
      BY <1>2, <2>1, OneMore
    <3> QED BY <1>2, <1>4, <1>5, <2>1, <3>1, <3>2
  <2> QED BY <2>3, <2>4
<1>7. ASSUME pc.lz = "wait" PROVE b.at <= at + BtNumBlocks * BtLimit
  <2>1. /\ RecordsMade \in Nat /\ RecordsTaken \in Nat /\ RecordsTaken <= RecordsMade
        /\ bs.free = BtNumBlocks + bs.processed - 1 - RecordsMade - (IF AtWork THEN 1 ELSE 0)
        /\ bs.processed \in Nat /\ bs.free >= 0 /\ RecordsTaken = bs.processed - 1
    BY <1>7, RecordCounts
  <2>2. Records(T, S) /\ LzPlace(S)
    BY <1>7 DEF Places
  <2>3. /\ at \in Nat /\ at + (l.lim - l.pos) = S[RecordsTaken] /\ l.pos = l.lim /\ l.pos \in Nat
    BY <1>7, <2>2 DEF LzPlace
  <2>4. S[RecordsTaken] = at
    BY <2>1, <2>3 DEF Positions
  <2>5. /\ b.at = S[RecordsMade] + Len(b.recs) /\ Len(b.recs) \in Nat
    <3>1. S[RecordsMade] + Len(b.recs) = b.at
      BY <1>5, <2>2 DEF Records, Reached
    <3>2. Len(b.recs) \in Nat
      BY SeqFacts DEF Places, BtBlock
    <3> QED BY <3>1, <3>2
  <2>6. S[RecordsMade] <= at + (RecordsMade - RecordsTaken) * BtLimit /\ S[RecordsMade] \in Nat
    <3>1. RecordsTaken \in RecordsTaken .. RecordsMade
      BY <2>1
    <3> QED BY <2>1, <2>2, <2>4, <3>1 DEF Records, RecordsLag, Positions
  <2> DEFINE d == RecordsMade - RecordsTaken
             e == Len(b.recs)
             s == S[RecordsMade]
  <2>7. /\ d \in Nat /\ e \in Nat /\ s \in Nat /\ b.at = s + e /\ s <= at + d * BtLimit
        /\ d <= BtNumBlocks /\ (AtWork => d + 1 <= BtNumBlocks)
    <3>1. d \in Nat /\ e \in Nat /\ s \in Nat /\ b.at = s + e /\ s <= at + d * BtLimit
      BY <2>1, <2>5, <2>6, SMTT(40)
    <3>2. CASE AtWork
      <4>1. bs.free = BtNumBlocks + bs.processed - 1 - RecordsMade - 1
        BY <2>1, <3>2, Zenon
      <4>2. d + 1 <= BtNumBlocks
        BY <1>2, <2>1, <4>1
      <4> QED BY <1>2, <3>1, <4>2
    <3>3. CASE ~AtWork
      <4>1. bs.free = BtNumBlocks + bs.processed - 1 - RecordsMade - 0
        BY <2>1, <3>3, Zenon
      <4>2. d <= BtNumBlocks
        BY <1>2, <2>1, <4>1
      <4> QED BY <3>1, <3>3, <4>2
    <3> QED BY <3>2, <3>3
  <2>8. pc.bt = "wait" => e <= BtLimit
    BY DEF Places, BtBlock
  <2>9. pc.bt # "wait" => e = 0
    BY <1>1 DEF Places, BtBlock
  <2> HIDE DEF d, e, s
  <2>10. CASE pc.bt # "wait"
    <3>1. d * BtLimit <= BtNumBlocks * BtLimit /\ d * BtLimit \in Int /\ BtNumBlocks * BtLimit \in Int
      BY <1>2, <2>7, Times
    <3> QED BY <1>5, <2>3, <2>7, <2>9, <2>10, <3>1
  <2>11. CASE pc.bt = "wait"
    <3>1. (d + 1) * BtLimit <= BtNumBlocks * BtLimit
      BY <1>2, <2>7, <2>11, Times DEF AtWork
    <3>2. (d + 1) * BtLimit = d * BtLimit + BtLimit /\ d * BtLimit \in Int /\ BtNumBlocks * BtLimit \in Int
      BY <1>2, <2>7, OneMore
    <3> QED BY <1>2, <1>5, <2>3, <2>7, <2>8, <2>11, <3>1, <3>2
  <2> QED BY <2>10, <2>11
<1> QED BY <1>6, <1>7

\* A window in place is full from the beginning; any other is empty.
LEMMA WindowLzInit ==
    ASSUME IInv, LzInit
    PROVE  Window'
<1>1. /\ fed' = 0 /\ h' = NewH /\ b' = NewB /\ l' = NewL /\ at' = 0
      /\ shift' = [bt |-> 0, lz |-> 0]
      /\ win' = IF direct' THEN [i \in 0 .. Len(data') - 1 |-> data'[i + 1]] ELSE [i \in 0 .. WinLen - 1 |-> 0]
  BY DEF LzInit
<1>2. data' \in Seq(Nat) /\ Len(data') \in Nat /\ direct' \in BOOLEAN
  BY StreamBegins
<1>3. Base' = 0 /\ h'.buffer = 0
  BY <1>1 DEF Base, HeadPos, HAvail, NewH
<1>4. shift' \in [bt : Nat, lz : Nat] /\ shift'.bt = 0 /\ shift'.lz = 0
  BY <1>1
<1>5. /\ DOMAIN win' = IF direct' THEN 0 .. Len(data') - 1 ELSE 0 .. WinLen - 1
      /\ \A i \in DOMAIN win' : Base' + i < (IF direct' THEN Len(data') ELSE fed') => win'[i] = data'[Base' + i + 1]
  <2>1. CASE direct'
    <3>1. DOMAIN win' = 0 .. Len(data') - 1 /\ \A i \in DOMAIN win' : win'[i] = data'[i + 1]
      BY <1>1, <2>1
    <3> QED BY <1>2, <1>3, <2>1, <3>1
  <2>2. CASE ~direct'
    <3>1. DOMAIN win' = 0 .. WinLen - 1 /\ \A i \in DOMAIN win' : ~(Base' + i < fed')
      BY <1>1, <1>3, <2>2, Room
    <3> QED BY <2>2, <3>1
  <2> QED BY <1>2, <2>1, <2>2
<1>6. Content'
  BY <1>3, <1>4, <1>5 DEF Content
<1>7. BtSees'
  BY <1>1, <1>3, <1>4 DEF BtSees, Behind, NewB
<1>8. LzSees'
  BY <1>1, <1>3, <1>4 DEF LzSees, Behind, NewL
<1> QED BY <1>6, <1>7, <1>8 DEF Window

\* A step that neither reads nor slides, and shifts nobody.
LEMMA WindowRests ==
    ASSUME IInv, Window, Streaming, NEW T \in Positions, NEW S \in Positions, Places(T, S),
           UNCHANGED <<data, fed, direct, win, shift, h.pos, h.streamPos, h.buffer>>,
           NEW n \in Nat, b'.buffer = b.buffer + n, b'.at = b.at + n,
           hs'.needStart \/ pc'.bt \in {"begin", "run", "end"} =>
              hs.needStart \/ pc.bt \in {"begin", "run", "end"} \/ shift.bt = 0,
           NEW m \in Nat, pc.lz \in {"body", "wait"} => l'.pointer = l.pointer + m /\ at' = at + m,
           pc'.lz = pc.lz \/ pc'.lz \notin {"body", "wait"} \/ (pc.lz = "body" /\ pc'.lz = "wait")
    PROVE  Window'
<1>1. Content' /\ Base' = Base /\ Base \in Nat
  BY ContentStays DEF Window, Content
<1>2. b.at \in Nat /\ (pc.lz \in {"body", "wait"} => at \in Nat)
  BY DEF Places, BtPlace, LzPlace
<1>3. shift.bt \in Nat /\ shift.lz \in Nat
  BY DEF Window, Content
<1>4. BtSees'
  BY <1>1, <1>2, <1>3, BtSeesOn DEF Window
<1>5. LzSees'
  BY <1>1, <1>2, <1>3, LzSeesOn DEF Window
<1> QED BY <1>1, <1>4, <1>5 DEF Window

\* The tree thread follows the shift (apply_bt_shift).
LEMMA WindowBtShifts ==
    ASSUME IInv, Window, Streaming, NEW T \in Positions, NEW S \in Positions, Places(T, S),
           UNCHANGED <<data, fed, direct, win, h, l, at>>, pc'.lz = pc.lz,
           shift' = [shift EXCEPT !.bt = 0], b'.at = b.at, b'.buffer = ApplyBtShift(b).buffer
    PROVE  Window'
<1>1. shift \in [bt : Nat, lz : Nat] /\ shift' \in [bt : Nat, lz : Nat] /\ shift'.bt = 0 /\ shift'.lz = shift.lz
  BY DEF Window, Content
<1>2. direct => shift.bt = 0 /\ shift.lz = 0
  BY DEF Window, Content
<1>3. Content' /\ Base' = Base /\ Base \in Nat
  BY <1>1, <1>2, ContentStays DEF Window, Content
<1>4. b'.buffer \in Int /\ b'.buffer = b.buffer - shift.bt /\ b.at \in Nat
  <2>1. "buffer" \in DOMAIN b /\ b.at \in Nat
    BY DEF Places, BtPlace
  <2>2. b.buffer \in Int
    BY DEF Window, BtSees
  <2>3. CASE direct
    BY <1>1, <1>2, <2>1, <2>2, <2>3 DEF ApplyBtShift
  <2>4. CASE ~direct
    BY <1>1, <2>1, <2>2, <2>4 DEF ApplyBtShift
  <2> QED BY <2>3, <2>4
<1>5. b'.buffer - shift'.bt = b'.at - Base' /\ Behind(b.at)'
  BY <1>1, <1>3, <1>4 DEF Window, BtSees, Behind
<1>6. BtSees'
  BY <1>1, <1>4, <1>5 DEF BtSees
<1>8. LzSees'
  BY <1>1, <1>3 DEF Window, LzSees, Behind
<1> QED BY <1>3, <1>6, <1>8 DEF Window

\* So does the encoder (apply_lz_shift).
LEMMA WindowLzTake ==
    ASSUME IInv, Window, Streaming, NEW T \in Positions, NEW S \in Positions, Places(T, S), LzTake
    PROVE  Window'
<1>1. /\ pc.lz = "wait" /\ pc' = [pc EXCEPT !.lz = "body"] /\ shift' = [shift EXCEPT !.lz = 0]
      /\ UNCHANGED <<hs, data, fed, direct, win, h, b, at>>
  BY DEF LzTake, LzGoes, inputVars, hashVars, btVars
<1>2. LzPlace(S)
  BY <1>1 DEF Places
<1>3. l'.pointer = l.pointer - shift.lz
  <2> DEFINE New(blk, sub) ==
        [l EXCEPT !.pointer = @ - shift.lz, !.avail = blk.avail, !.failed = ~blk.ok, !.pos = 0,
                  !.lim = IF blk.ok THEN Len(blk.recs) ELSE 1, !.lzPos = @ - sub, !.zero = blk.avail = 0]
  <2>1. \E blk \in {btBuf[l.blk]} : \E sub : l' = New(blk, sub)
    BY Zenon DEF LzTake
  <2>2. PICK blk \in {btBuf[l.blk]} : \E sub : l' = New(blk, sub)
    BY <2>1
  <2>3. PICK sub : l' = New(blk, sub)
    BY <2>2
  <2> QED BY <2>3, <1>2 DEF LzPlace
<1>4. shift \in [bt : Nat, lz : Nat] /\ shift' \in [bt : Nat, lz : Nat] /\ shift'.lz = 0 /\ shift'.bt = shift.bt
  BY <1>1 DEF Window, Content
<1>5. Content' /\ Base' = Base /\ Base \in Nat
  BY <1>1, <1>4, ContentStays DEF Window, Content
<1>6. pc'.lz = "body" /\ pc'.bt = pc.bt
  BY <1>1 DEF IInv, Protocol, Control
<1>7. BtSees'
  BY <1>1, <1>4, <1>5, <1>6 DEF Window, BtSees, Behind
<1>8. LzSees'
  <2>1. l.pointer \in Int /\ l.pointer - shift.lz = at - Base /\ Behind(at)
    BY <1>1 DEF Window, LzSees
  <2>2. l'.pointer \in Int /\ l'.pointer - shift'.lz = at' - Base' /\ Behind(at)'
    BY <1>1, <1>3, <1>4, <1>5, <2>1 DEF Behind
  <2> QED BY <1>4, <1>6, <2>2 DEF LzSees
<1> QED BY <1>5, <1>7, <1>8 DEF Window

\* What is kept suffices for whoever lags no more than lag behind.
LEMMA KeptSuffices ==
    ASSUME NEW x \in Int, NEW y \in Int, NEW keep \in Int, NEW hist \in Int, NEW lag \in Int, NEW p \in Int,
           keep = hist + lag + 1, x + keep <= y, y <= p + lag
    PROVE  x + hist <= p
  OBVIOUS

\* move_block keeps what the two threads may still look at, and shifts them with it.
LEMMA WindowHashMove ==
    ASSUME IInv, HashMove, ~Over, Streaming, NEW T \in Positions, NEW S \in Positions, Places(T, S), Window
    PROVE  Window'
<1>1. /\ pc.hash = "enter" /\ hs.cs = "none" /\ pc' = [pc EXCEPT !.hash = "loop"]
      /\ UNCHANGED <<hs, data, direct, fed, b, l, at>>
  BY DEF HashMove, inputVars, btVars, lzVars
<1>2. pc'.bt = pc.bt /\ pc'.lz = pc.lz
  BY <1>1 DEF IInv, Protocol, Control
<1>3. pc.lz # "body" /\ ~direct /\ ~hs.needStart /\ pc.bt \notin {"begin", "run", "end"}
  BY <1>1 DEF IInv, Protocol, Control, HashInv, BtInv, Handshake
<1>4. HashPlace /\ Content
  BY DEF Places, Window
<1>5. PICK off \in Nat :
        /\ h' = [h EXCEPT !.err = ~(h.buffer >= KeepBefore), !.buffer = @ - off]
        /\ shift' = [bt |-> shift.bt + off, lz |-> shift.lz + off]
        /\ ~(h.buffer >= KeepBefore) => off = 0 /\ win' = win
        /\ h.buffer >= KeepBefore =>
             /\ h.buffer - off >= KeepBefore
             /\ win' = [i \in DOMAIN win |-> IF i < (h.buffer - off) + HAvail THEN win[off + i] ELSE win[i]]
  <2>1. h.buffer \in Int /\ DOMAIN h = HFields
    BY <1>4 DEF HashPlace, HFields
  <2> QED BY <2>1, Slid
<1>6. /\ h'.buffer = h.buffer - off /\ h'.pos = h.pos /\ h'.streamPos = h.streamPos /\ off \in Nat
      /\ off > 0 => h.buffer - off >= KeepBefore
  BY <1>4, <1>5 DEF HashPlace
<1>7. /\ HAvail \in Int /\ HAvail >= 0 /\ fed \in Nat /\ fed <= Len(data) /\ Len(data) \in Nat
      /\ h.buffer \in Nat /\ Base \in Nat /\ Base + h.buffer + HAvail = fed /\ h.buffer + HAvail <= WinLen
  BY <1>3, <1>4, SMTT(40) DEF HashPlace, Content, Base, HeadPos, HAvail
<1>18. HeadPos \in Int /\ Base = HeadPos - h.buffer
  BY <1>4 DEF HashPlace, Base, HeadPos, HAvail
<1>8. HAvail' = HAvail /\ HeadPos' = HeadPos
  BY <1>1, <1>6 DEF HAvail, HeadPos
<1>9. Base' = Base + off
  <2>1. Base' = HeadPos - (h.buffer - off)
    BY <1>6, <1>8 DEF Base
  <2> QED BY <1>6, <1>7, <1>18, <2>1
<1>10. shift.bt \in Nat /\ shift.lz \in Nat /\ shift' \in [bt : Nat, lz : Nat]
       /\ shift'.bt = shift.bt + off /\ shift'.lz = shift.lz + off
  BY <1>4, <1>5 DEF Content
<1>11. KeepBefore \in Nat /\ WinLen \in Nat /\ KeepBefore = HistorySize + LagKept + 1 /\ HistorySize \in Nat
  BY Room, Constants
<1>12. DOMAIN win = 0 .. WinLen - 1 /\ \A i \in DOMAIN win : Base + i < fed => win[i] = data[Base + i + 1]
  BY <1>3, <1>4 DEF Content
<1>13. Content'
  <2>1. h'.buffer \in Nat
    BY <1>6, <1>7, <1>11, SMTT(40)
  <2>2. DOMAIN win' = 0 .. WinLen - 1 /\ \A i \in DOMAIN win' : Base' + i < fed => win'[i] = data[Base' + i + 1]
    <3>1. CASE ~(h.buffer >= KeepBefore)
      <4>1. off = 0 /\ win' = win /\ Base' = Base
        BY <1>5, <1>7, <1>9, <3>1
      <4> QED BY <1>12, <4>1
    <3>2. CASE h.buffer >= KeepBefore
      <4>1. win' = [i \in DOMAIN win |-> IF i < (h.buffer - off) + HAvail THEN win[off + i] ELSE win[i]]
        BY <1>5, <3>2
      <4>2. ASSUME NEW i \in 0 .. WinLen - 1, Base' + i < fed PROVE win'[i] = data[Base' + i + 1]
        <5>1. i < (h.buffer - off) + HAvail /\ off + i \in 0 .. WinLen - 1 /\ Base + (off + i) < fed
              /\ Base + (off + i) + 1 = Base' + i + 1
          BY <1>6, <1>7, <1>9, <1>11, <4>2, SMTT(40)
        <5>2. win'[i] = win[off + i]
          BY <1>12, <4>1, <5>1
        <5>3. win[off + i] = data[Base + (off + i) + 1]
          BY <1>12, <5>1
        <5> QED BY <5>1, <5>2, <5>3
      <4> QED BY <1>12, <4>1, <4>2
    <3> QED BY <3>1, <3>2
  <2>3. Base' \in Nat
    BY <1>6, <1>7, <1>9
  <2> QED BY <1>1, <1>3, <1>10, <2>1, <2>2, <2>3 DEF Content
<1>14. ASSUME NEW p \in Nat, Behind(p), HeadPos <= p + LagKept PROVE Base' = 0 \/ Base' + HistorySize <= p
  <2>1. CASE ~(h.buffer >= KeepBefore)
    BY <1>5, <1>7, <1>9, <1>14, <2>1 DEF Behind
  <2>2. CASE h.buffer >= KeepBefore
    <3>1. h.buffer - off >= KeepBefore /\ Base' = HeadPos - (h.buffer - off)
      BY <1>5, <1>6, <1>7, <1>9, <1>18, <2>2
    <3>2. LagKept \in Nat
      BY Constants
    <3>3. h.buffer \in Nat /\ off \in Nat /\ HeadPos \in Int /\ KeepBefore \in Nat /\ HistorySize \in Nat
          /\ KeepBefore = HistorySize + LagKept + 1
      BY <1>6, <1>7, <1>11, <1>18
    <3>4. Base' + KeepBefore <= HeadPos /\ Base' \in Int
      BY <3>1, <3>3
    <3>5. p \in Nat /\ HeadPos <= p + LagKept
      BY <1>14
    <3>6. Base' + HistorySize <= p
      <4>1. /\ Base' \in Int /\ HeadPos \in Int /\ KeepBefore \in Int /\ HistorySize \in Int /\ LagKept \in Int
            /\ p \in Int
        BY <3>2, <3>3, <3>4, <3>5
      <4>2. KeepBefore = HistorySize + LagKept + 1
        BY <3>3
      <4>3. Base' + KeepBefore <= HeadPos /\ HeadPos <= p + LagKept
        BY <3>4, <3>5
      <4> QED BY <4>1, <4>2, <4>3, KeptSuffices, Zenon
    <3> QED BY <3>6
  <2> QED BY <2>1, <2>2
<1>15. /\ HeadPos <= b.at + LagKept /\ b.at \in Nat
       /\ pc.lz = "wait" => HeadPos <= at + LagKept /\ at \in Nat
  <2>1. HeadPos <= b.at + HashNumBlocks * HashHeads /\ (pc.lz = "wait" => b.at <= at + BtNumBlocks * BtLimit)
    BY <1>1, <1>3, Lag
  <2>2. b.at \in Nat /\ (pc.lz = "wait" => at \in Nat)
    BY DEF Places, BtPlace, LzPlace
  <2>3. /\ HashNumBlocks * HashHeads \in Nat /\ BtNumBlocks * BtLimit \in Nat /\ LagKept \in Nat
        /\ LagKept >= HashNumBlocks * HashHeads + BtNumBlocks * BtLimit
    BY Constants
  <2> DEFINE X == HashNumBlocks * HashHeads
             Y == BtNumBlocks * BtLimit
  <2> HIDE DEF X, Y
  <2>4. /\ HeadPos <= b.at + X /\ (pc.lz = "wait" => b.at <= at + Y)
        /\ X \in Nat /\ Y \in Nat /\ LagKept >= X + Y /\ LagKept \in Nat
    BY <2>1, <2>3 DEF X, Y
  <2> QED BY <1>18, <2>2, <2>4
<1>16. BtSees'
  <2>1. b.buffer \in Int /\ b.buffer - shift.bt = b.at - Base /\ Behind(b.at)
    BY DEF Window, BtSees
  <2>2. b'.buffer - shift'.bt = b'.at - Base'
    <3>1. off \in Nat /\ Base \in Nat /\ b.at \in Nat /\ shift.bt \in Nat
      BY <1>6, <1>7, <1>10, <1>15
    <3>2. b' = b /\ Base' = Base + off /\ shift'.bt = shift.bt + off
      BY <1>1, <1>9, <1>10
    <3> QED BY <2>1, <3>1, <3>2
  <2>3. Behind(b.at)'
    BY <1>1, <1>14, <1>15, <2>1 DEF Behind
  <2> QED BY <1>1, <1>2, <1>3, <2>1, <2>2, <2>3 DEF BtSees
<1>17. LzSees'
  <2>1. ASSUME pc.lz = "wait" PROVE l'.pointer \in Int /\ l'.pointer - shift'.lz = at' - Base' /\ Behind(at)'
    <3>1. l.pointer \in Int /\ l.pointer - shift.lz = at - Base /\ Behind(at)
      BY <2>1 DEF Window, LzSees
    <3>2. l'.pointer - shift'.lz = at' - Base'
      <4>1. off \in Nat /\ Base \in Nat /\ at \in Nat /\ shift.lz \in Nat
        BY <1>6, <1>7, <1>10, <1>15, <2>1
      <4>2. l' = l /\ at' = at /\ Base' = Base + off /\ shift'.lz = shift.lz + off
        BY <1>1, <1>9, <1>10
      <4> QED BY <3>1, <4>1, <4>2
    <3>3. Behind(at)'
      BY <1>1, <1>14, <1>15, <2>1, <3>1 DEF Behind
    <3> QED BY <1>1, <3>1, <3>2, <3>3
  <2> QED BY <1>2, <1>3, <2>1 DEF LzSees
<1> QED BY <1>13, <1>16, <1>17 DEF Window

\* What is read goes behind what is there (read_block), and what is hashed stays.
LEMMA WindowHashBlock ==
    ASSUME IInv, HashBlock, Streaming, NEW T \in Positions, NEW S \in Positions, Places(T, S), Window
    PROVE  Window'
<1>1. pc.hash = "loop" /\ UNCHANGED <<bs, data, direct, shift, b, l, at>>
  BY DEF HashBlock, inputVars, btVars, lzVars
<1>2. ~hs.stop
  <2>1. ~hs.needStart
    BY <1>1 DEF IInv, Protocol, HashInv, Handshake
  <2> QED BY <2>1, HeadCounts
<1>3. HashPlace /\ Content
  BY DEF Places, Window
<1>4. PICK blk, n, step : Made(blk, n, step)
  BY <1>2, <1>3, BlockMade DEF IInv
<1>5. hs'.needStart = hs.needStart /\ pc' = pc
  <2>1. hs' = [hs EXCEPT !.free = @ - 1, !.filled = @ + 1] /\ pc' = pc
    BY <1>2, Zenon DEF HashBlock
  <2> QED BY <2>1 DEF IInv, Protocol, Control, Syncs
<1>6. /\ HAvail \in Int /\ HAvail >= 0 /\ fed \in Nat /\ h.buffer \in Nat /\ Base \in Nat
      /\ Base + h.buffer + HAvail = fed /\ n \in Nat /\ step \in Nat /\ fed' = fed + n
      /\ h'.buffer = h.buffer + step /\ HAvail' = HAvail + n - step
      /\ ~direct => h.buffer + HAvail + n <= WinLen
  <2>1. /\ HAvail \in Int /\ HAvail >= 0 /\ fed \in Nat /\ h.buffer \in Nat /\ Base \in Nat
        /\ Base + h.buffer + HAvail = fed
    BY <1>3 DEF HashPlace, Content, Base, HeadPos, HAvail
  <2>2. /\ n \in Nat /\ step \in Nat /\ fed' = fed + n
        /\ h'.buffer = h.buffer + step /\ HAvail' = HAvail + n - step
        /\ ~direct => h.buffer + HAvail + n <= WinLen
    BY <1>4 DEF Made, HAvail
  <2> QED BY <2>1, <2>2
<1>7. Base' = Base /\ h'.buffer \in Nat
  <2>1. Base' = fed' - HAvail' - h'.buffer
    BY DEF Base, HeadPos
  <2> QED BY <1>6, <2>1
<1>8. (win' = win /\ n = 0) \/ \E o : o.n = n /\ win' = Filled(o)
  BY <1>4 DEF Made
<1>9. Content'
  <2>1. CASE direct
    <3>1. win' = win
      BY <1>8, <2>1 DEF Filled
    <3> QED BY <1>1, <1>3, <1>7, <2>1, <3>1 DEF Content
  <2>2. CASE ~direct
    <3>1. DOMAIN win = 0 .. WinLen - 1 /\ \A i \in DOMAIN win : Base + i < fed => win[i] = data[Base + i + 1]
      BY <1>3, <2>2 DEF Content
    <3>2. DOMAIN win' = 0 .. WinLen - 1 /\ \A i \in DOMAIN win' : Base + i < fed + n => win'[i] = data[Base + i + 1]
      <4>1. CASE win' = win /\ n = 0
        BY <1>6, <3>1, <4>1
      <4>2. ASSUME NEW o, o.n = n, win' = Filled(o)
            PROVE  DOMAIN win' = 0 .. WinLen - 1
                   /\ \A i \in DOMAIN win' : Base + i < fed + n => win'[i] = data[Base + i + 1]
        <5>1. win' = [i \in 0 .. WinLen - 1 |-> IF i - h.buffer - HAvail \in 0 .. n - 1
                                               THEN data[fed + i - h.buffer - HAvail + 1] ELSE win[i]]
          BY <2>2, <3>1, <4>2 DEF Filled
        <5>2. ASSUME NEW i \in 0 .. WinLen - 1, Base + i < fed + n PROVE win'[i] = data[Base + i + 1]
          <6>1. WinLen \in Nat
            BY Room
          <6>2. CASE i - h.buffer - HAvail \in 0 .. n - 1
            <7>1. fed + i - h.buffer - HAvail + 1 = Base + i + 1
              BY <1>6, <6>1
            <7> QED BY <5>1, <6>2, <7>1
          <6>3. CASE ~(i - h.buffer - HAvail \in 0 .. n - 1)
            <7>1. Base + i < fed
              BY <1>6, <5>2, <6>1, <6>3
            <7> QED BY <3>1, <5>1, <6>3, <7>1
          <6> QED BY <6>2, <6>3
        <5> QED BY <5>1, <5>2
      <4> QED BY <1>8, <4>1, <4>2
    <3> QED BY <1>1, <1>3, <1>6, <1>7, <2>2, <3>2 DEF Content
  <2> QED BY <2>1, <2>2
<1>10. BtSees'
  BY <1>1, <1>5, <1>7 DEF Window, BtSees, Behind
<1>11. LzSees'
  BY <1>1, <1>5, <1>7 DEF Window, LzSees, Behind
<1> QED BY <1>9, <1>10, <1>11 DEF Window

\* A step of the tree thread that moves it by n positions.
LEMMA WindowBtMoves ==
    ASSUME IInv, Window, Streaming, NEW T \in Positions, NEW S \in Positions, Places(T, S),
           UNCHANGED <<data, fed, direct, win, shift, h, l, at>>, pc'.lz = pc.lz,
           \/ b'.buffer = b.buffer /\ b'.at = b.at
           \/ \E n \in Nat : b'.buffer = b.buffer + n /\ b'.at = b.at + n,
           hs'.needStart \/ pc'.bt \in {"begin", "run", "end"} =>
              hs.needStart \/ pc.bt \in {"begin", "run", "end"} \/ shift.bt = 0
    PROVE  Window'
<1>1. b.buffer \in Int /\ b.at \in Nat /\ (pc.lz \in {"body", "wait"} => l.pointer \in Int /\ at \in Nat)
  BY DEF Window, BtSees, LzSees, Places, BtPlace, LzPlace
<1>2. b.buffer = b.buffer + 0 /\ b.at = b.at + 0
      /\ (pc.lz \in {"body", "wait"} => l.pointer = l.pointer + 0 /\ at = at + 0)
  BY <1>1
<1>3. PICK n \in Nat : b'.buffer = b.buffer + n /\ b'.at = b.at + n
  BY <1>2
<1>4. 0 \in Nat /\ (pc.lz \in {"body", "wait"} => l'.pointer = l.pointer + 0 /\ at' = at + 0)
  BY <1>2
<1> QED BY <1>3, <1>4, WindowRests

\* A step of the encoder or the hash thread that leaves the tree thread and the window alone.
LEMMA WindowOthers ==
    ASSUME IInv, Window, Streaming, NEW T \in Positions, NEW S \in Positions, Places(T, S),
           UNCHANGED <<data, fed, direct, win, shift, b, at>>,
           h'.pos = h.pos, h'.streamPos = h.streamPos, h'.buffer = h.buffer, l'.pointer = l.pointer,
           pc'.bt = pc.bt, hs'.needStart = hs.needStart,
           pc'.lz = pc.lz \/ pc'.lz \notin {"body", "wait"} \/ (pc.lz = "body" /\ pc'.lz = "wait")
    PROVE  Window'
<1>1. b.buffer \in Int /\ b.at \in Nat /\ (pc.lz \in {"body", "wait"} => l.pointer \in Int /\ at \in Nat)
  BY DEF Window, BtSees, LzSees, Places, BtPlace, LzPlace
<1>2. b'.buffer = b.buffer + 0 /\ b'.at = b.at + 0 /\ 0 \in Nat
      /\ (pc.lz \in {"body", "wait"} => l'.pointer = l.pointer + 0 /\ at' = at + 0)
  BY <1>1
<1> QED BY <1>2, WindowRests

\* get_matches and skip move the encoder alone.
LEMMA WindowLzMoves ==
    ASSUME IInv, Window, Streaming, NEW T \in Positions, NEW S \in Positions, Places(T, S),
           UNCHANGED <<pc, hs, data, fed, direct, win, shift, h, b>>,
           l'.pointer = l.pointer + 1, at' = at + 1
    PROVE  Window'
<1>1. b.buffer \in Int /\ b.at \in Nat
  BY DEF Window, BtSees, Places, BtPlace
<1>2. b'.buffer = b.buffer + 0 /\ b'.at = b.at + 0 /\ 0 \in Nat /\ 1 \in Nat
  BY <1>1
<1> QED BY <1>2, WindowRests

\* The steps of the tree thread.
LEMMA WindowBtStep ==
    ASSUME IInv, Window, Streaming, NEW T \in Positions, NEW S \in Positions, Places(T, S),
           BtStart \/ BtFree \/ BtLock \/ BtBegin \/ BtAsk \/ BtTake \/ BtWalk \/ BtPanic \/ BtFinish
    PROVE  Window'
<1>1. pc \in [hash : HashPcs, bt : BtPcs, lz : LzPcs] /\ hs \in Syncs /\ direct \in BOOLEAN
  BY DEF IInv, Protocol, Control
<1>2. {"buffer", "at"} \subseteq DOMAIN b
  BY DEF Places, BtPlace
<1>3. CASE BtStart
  <2>1. /\ UNCHANGED <<hs, data, fed, direct, win, shift, h, l, at>> /\ b' = [b EXCEPT !.index = 0]
        /\ pc' = [pc EXCEPT !.bt = IF bs.exit THEN "gone" ELSE "loop"]
    BY <1>3 DEF BtStart, BtGoes, inputVars, hashVars, lzVars
  <2>2. pc'.lz = pc.lz /\ pc'.bt \notin {"begin", "run", "end"} /\ b'.buffer = b.buffer /\ b'.at = b.at
    BY <1>1, <1>2, <2>1
  <2> QED BY <2>1, <2>2, WindowBtMoves
<1>4. CASE BtFree
  <2>1. /\ UNCHANGED <<hs, data, fed, direct, win, shift, h, l, at, b>>
        /\ pc' = [pc EXCEPT !.bt = IF bs.stop THEN "stop" ELSE IF Movable /\ ~hs.needStart THEN "lock" ELSE "begin"]
    BY <1>4 DEF BtFree, BtGoes, inputVars, hashVars, btVars, lzVars
  <2>2. pc'.lz = pc.lz /\ (pc'.bt \in {"begin", "run", "end"} => direct \/ hs.needStart)
    BY <1>1, <2>1 DEF Movable
  <2>3. direct => shift.bt = 0
    BY DEF Window, Content
  <2> QED BY <2>1, <2>2, <2>3, WindowBtMoves
<1>5. CASE BtLock
  <2>1. /\ UNCHANGED <<data, fed, direct, win, h, l, at>> /\ b' = ApplyBtShift(b) /\ shift' = [shift EXCEPT !.bt = 0]
        /\ pc' = [pc EXCEPT !.bt = "begin"]
    BY <1>5 DEF BtLock, BtGoes, inputVars, hashVars, lzVars
  <2>2. pc'.lz = pc.lz /\ b'.at = b.at
    BY <1>1, <1>2, <2>1 DEF ApplyBtShift
  <2> QED BY <2>1, <2>2, WindowBtShifts
<1>6. CASE BtBegin
  <2>1. /\ UNCHANGED <<hs, data, fed, direct, win, shift, h, l, at>> /\ pc.bt = "begin"
        /\ b' = [b EXCEPT !.recs = <<>>, !.words = 0, !.done = 0, !.sum = b.avail, !.ok = ~b.failure]
        /\ pc' = [pc EXCEPT !.bt = IF b.failure THEN "end" ELSE "run"]
    BY <1>6 DEF BtBegin, BtGoes, inputVars, hashVars, lzVars
  <2>2. pc'.lz = pc.lz /\ b'.buffer = b.buffer /\ b'.at = b.at
    BY <1>1, <1>2, <2>1
  <2> QED BY <2>1, <2>2, WindowBtMoves
<1>7. CASE BtAsk
  <2>1. /\ UNCHANGED <<data, fed, direct, win, shift, h, l, at>> /\ pc.bt = "run" /\ hs' = AskBlock(hs)
        /\ b' = [b EXCEPT !.hblk = AskIndex(hs) % HashNumBlocks]
        /\ pc' = [pc EXCEPT !.bt = "wait"]
    BY <1>7 DEF BtAsk, BtGoes, inputVars, hashVars, lzVars
  <2>2. pc'.lz = pc.lz /\ b'.buffer = b.buffer /\ b'.at = b.at
    BY <1>1, <1>2, <2>1
  <2> QED BY <2>1, <2>2, WindowBtMoves
<1>8. CASE BtTake
  <2>1. /\ UNCHANGED <<data, fed, direct, win, h, l, at>> /\ shift' = [shift EXCEPT !.bt = 0]
    BY <1>8 DEF BtTake, inputVars, hashVars, lzVars
  <2>2. pc'.lz = pc.lz
    BY <1>1, <1>8 DEF BtTake, BtGoes
  <2>3. b'.at = b.at /\ b'.buffer = ApplyBtShift(b).buffer
    <3>1. {"buffer", "at"} \subseteq DOMAIN ApplyBtShift(b) /\ ApplyBtShift(b).at = b.at
      BY <1>2 DEF ApplyBtShift
    <3> DEFINE x == ApplyBtShift(b)
    <3>2. \E blk \in {hashBuf[b.hblk]} :
             \/ b' = BtFailed(x)
             \/ b' = [x EXCEPT !.hpos = 0, !.hlim = Len(blk.heads), !.avail = blk.avail, !.sum = b.done + blk.avail]
             \/ b' = [x EXCEPT !.hpos = 0, !.hlim = 0, !.avail = 0, !.sum = b.done + blk.avail,
                               !.recs = @ \o [i \in 1 .. blk.avail |-> <<>>]]
      BY <1>8, Zenon DEF BtTake
    <3> HIDE DEF x
    <3>3. {"buffer", "at"} \subseteq DOMAIN x
      BY <3>1 DEF x
    <3>4. b'.at = x.at /\ b'.buffer = x.buffer
      BY <3>2, <3>3 DEF BtFailed
    <3> QED BY <3>1, <3>4 DEF x
  <2> QED BY <2>1, <2>2, <2>3, WindowBtShifts
<1>9. CASE BtWalk
  <2>1. UNCHANGED <<hs, data, fed, direct, win, shift, h, l, at>> /\ pc.bt = "run"
    BY <1>9 DEF BtWalk, inputVars, hashVars, lzVars
  <2>2. \/ b' = BtFailed(b) /\ pc' = [pc EXCEPT !.bt = "end"]
        \/ pc' = [pc EXCEPT !.bt = "run"] /\ \E n, words, recs : Walked(n, words, recs)
    BY <1>9, Walks DEF Places
  <2>3. pc'.lz = pc.lz
    BY <1>1, <2>2
  <2>4. \/ b'.buffer = b.buffer /\ b'.at = b.at
        \/ \E n \in Nat : b'.buffer = b.buffer + n /\ b'.at = b.at + n
    <3>1. CASE b' = BtFailed(b)
      BY <1>2, <3>1 DEF BtFailed
    <3>2. CASE \E n, words, recs : Walked(n, words, recs)
      BY <3>2 DEF Walked
    <3> QED BY <2>2, <3>1, <3>2
  <2> QED BY <2>1, <2>3, <2>4, WindowBtMoves
<1>10. CASE BtPanic
  <2>1. /\ UNCHANGED <<hs, data, fed, direct, win, shift, h, l, at>> /\ pc.bt = "run" /\ b' = BtFailed(b)
        /\ pc' = [pc EXCEPT !.bt = "end"]
    BY <1>10 DEF BtPanic, BtGoes, inputVars, hashVars, lzVars
  <2>2. pc'.lz = pc.lz /\ b'.buffer = b.buffer /\ b'.at = b.at
    BY <1>1, <1>2, <2>1 DEF BtFailed
  <2> QED BY <2>1, <2>2, WindowBtMoves
<1>11. CASE BtFinish
  <2>1. /\ UNCHANGED <<data, fed, direct, win, shift, h, l, at>>
        /\ hs' = (IF Movable THEN UnlockBuffer(hs) ELSE hs)
        /\ b' = [b EXCEPT !.index = @ + 1, !.recs = <<>>, !.words = 0] /\ pc' = [pc EXCEPT !.bt = "loop"]
    BY <1>11 DEF BtFinish, BtGoes, inputVars, hashVars, lzVars
  <2>2. pc'.lz = pc.lz /\ b'.buffer = b.buffer /\ b'.at = b.at /\ hs'.needStart = hs.needStart /\ pc'.bt = "loop"
    BY <1>1, <1>2, <2>1 DEF UnlockBuffer, Syncs
  <2> QED BY <2>1, <2>2, WindowBtMoves
<1> QED BY <1>3, <1>4, <1>5, <1>6, <1>7, <1>8, <1>9, <1>10, <1>11

WindowInv == Streaming => Window

\* One step of the three threads, and what the window holds then.
LEMMA WindowStep ==
    ASSUME IInv, Ghosts, WindowInv, [Next]_vars
    PROVE  WindowInv'
<1> SUFFICES ASSUME Streaming' PROVE Window'
  BY DEF WindowInv
<1>1. CASE LzInit
  BY <1>1, WindowLzInit
<1>2. CASE ~LzInit
  <2>1. Streaming /\ Window
    BY <1>2, StillStreaming DEF WindowInv
  <2>2. PICK T \in Positions, S \in Positions : Places(T, S)
    BY <2>1 DEF Ghosts, PlacesInv
  <2>3. pc \in [hash : HashPcs, bt : BtPcs, lz : LzPcs] /\ hs \in Syncs /\ DOMAIN h = HFields
    BY <2>2 DEF IInv, Protocol, Control, Places, HashPlace, HFields
  <2>4. CASE HashStart
    <3>1. /\ UNCHANGED <<data, fed, direct, win, shift, b, l, at>> /\ hs' = [hs EXCEPT !.canStart = FALSE]
          /\ h' = h \/ h' = [h EXCEPT !.index = 0]
          /\ pc' = [pc EXCEPT !.hash = "gone"] \/ pc' = [pc EXCEPT !.hash = "loop"]
      BY <2>4 DEF HashStart, inputVars, btVars, lzVars
    <3>2. h'.pos = h.pos /\ h'.streamPos = h.streamPos /\ h'.buffer = h.buffer
          /\ pc'.bt = pc.bt /\ pc'.lz = pc.lz /\ hs'.needStart = hs.needStart
      BY <2>3, <3>1 DEF HFields, Syncs
    <3> QED BY <2>1, <2>2, <3>1, <3>2, WindowOthers
  <2>5. CASE HashEnter
    <3>1. /\ UNCHANGED <<hs, data, fed, direct, win, shift, h, b, l, at>> /\ pc' = [pc EXCEPT !.hash = "enter"]
      BY <2>5 DEF HashEnter, inputVars, hashVars, btVars, lzVars
    <3>2. pc'.bt = pc.bt /\ pc'.lz = pc.lz
      BY <2>3, <3>1
    <3> QED BY <2>1, <2>2, <3>1, <3>2, WindowOthers
  <2>6. CASE HashMove
    <3>1. ~Over
      BY <2>6 DEF Ghosts, Sliding, HashMove
    <3> QED BY <2>1, <2>2, <2>6, <3>1, WindowHashMove
  <2>7. CASE HashBlock
    BY <2>1, <2>2, <2>7, WindowHashBlock
  <2>8. CASE BtStart \/ BtFree \/ BtLock \/ BtBegin \/ BtAsk \/ BtTake \/ BtWalk \/ BtPanic \/ BtFinish
    BY <2>1, <2>2, <2>8, WindowBtStep
  <2>9. ~BtStop /\ ~BtStopped
    BY <2>1, <2>3 DEF Streaming, BtStop, BtStopped, BtGoes, IInv, Protocol, Control, HashInv, Syncs
  <2>10. CASE LzTake
    BY <2>1, <2>2, <2>10, WindowLzTake
  <2>11. CASE LzAsk \/ LzStop
    <3>1. UNCHANGED <<hs, data, fed, direct, win, shift, h, b, at>>
      BY <2>11 DEF LzAsk, LzStop, inputVars, hashVars, btVars, lzVars
    <3>2. pc.lz = "body" /\ pc'.bt = pc.bt /\ (pc'.lz = "body" \/ pc'.lz = "wait" \/ pc'.lz \notin {"body", "wait"})
      BY <2>3, <2>11 DEF LzAsk, LzStop, LzGoes
    <3>3. l'.pointer = l.pointer
      <4>1. DOMAIN l = LFields
        BY <2>2, <3>2 DEF Places, LzPlace, LFields
      <4> QED BY <2>11, <4>1 DEF LzAsk, LzStop, LFields
    <3> QED BY <2>1, <2>2, <3>1, <3>2, <3>3, WindowOthers
  <2>12. CASE LzMatches \/ LzSkip
    <3>1. UNCHANGED <<pc, hs, data, fed, direct, win, shift, h, b>> /\ pc.lz = "body" /\ l' = LzMoved /\ at' = at + 1
      BY <2>12 DEF LzMatches, LzSkip, inputVars, hashVars, btVars
    <3>2. l'.pointer = l.pointer + 1
      BY <2>2, <3>1 DEF LzMoved, Places, LzPlace
    <3> QED BY <2>1, <2>2, <3>1, <3>2, WindowLzMoves
  <2>13. CASE LzSpawn \/ LzStopped \/ LzAgain \/ LzJoinBt \/ LzJoinHash
    <3>1. pc'.lz \notin Active
      <4>1. CASE LzSpawn
        BY <2>3, <4>1, SpawnGoes DEF Active
      <4>2. CASE LzStopped \/ LzAgain \/ LzJoinBt \/ LzJoinHash
        BY <2>3, <4>2 DEF LzStopped, LzAgain, LzJoinBt, LzJoinHash, LzGoes, Active
      <4> QED BY <2>13, <4>1, <4>2
    <3> QED BY <3>1 DEF Streaming
  <2>14. CASE UNCHANGED vars
    <3>1. UNCHANGED <<pc, hs, data, fed, direct, win, shift, h, b, l, at>>
      BY <2>14 DEF vars, inputVars, hashVars, btVars, lzVars
    <3> QED BY <2>1, <2>2, <3>1, WindowOthers
  <2> QED
    BY <1>2, <2>4, <2>5, <2>6, <2>7, <2>8, <2>9, <2>10, <2>11, <2>12, <2>13, <2>14
    DEF Next, HashStep, BtStep, LzStep
<1> QED BY <1>1, <1>2

\* Whoever knows his place finds his bytes.
LEMMA Finds ==
    ASSUME HashPlace, Content, NEW u \in Int, NEW p \in Nat, NEW ahead \in Nat, u = p - Base, Behind(p),
           p + ahead <= fed
    PROVE  Holds(u, p, ahead)
<1>1. /\ HAvail \in Int /\ fed \in Nat /\ fed <= Len(data) /\ Len(data) \in Nat /\ Base \in Nat /\ WinLen \in Nat
      /\ h.buffer \in Nat /\ Base + h.buffer + HAvail = fed /\ HistorySize \in Nat
      /\ ~direct => h.buffer + HAvail <= WinLen
  <2>1. HAvail \in Int /\ fed \in Nat /\ fed <= Len(data) /\ Len(data) \in Nat
        /\ (~direct => h.buffer + HAvail <= WinLen)
    BY DEF HashPlace, HAvail
  <2>2. h.buffer \in Nat /\ Base \in Nat
    BY DEF Content
  <2>3. Base = fed - HAvail - h.buffer
    BY DEF Base, HeadPos
  <2>4. WinLen \in Nat /\ HistorySize \in Nat
    BY Room, Constants
  <2>5. Base + h.buffer + HAvail = fed
    BY <2>1, <2>2, <2>3
  <2> QED BY <2>1, <2>2, <2>4, <2>5
<1>2. MinOf(p, HistorySize) \in Nat /\ MinOf(p, HistorySize) <= p /\ MinOf(p, HistorySize) <= HistorySize
  BY <1>1 DEF MinOf
<1>3. PICK m \in Nat : m = MinOf(p, HistorySize)
  BY <1>2
<1>4. ASSUME NEW k \in -m .. ahead - 1
      PROVE  u + k \in DOMAIN win /\ win[u + k] = data[p + k + 1]
  <2>1. m <= p /\ m <= HistorySize
    BY <1>2, <1>3
  <2>2. p - m >= Base
    BY <1>1, <2>1 DEF Behind
  <2>3. u + k \in Int /\ u + k >= 0 /\ Base + (u + k) = p + k /\ p + k < fed
    BY <1>1, <1>3, <2>2
  <2>4. u + k \in DOMAIN win
    <3>1. CASE direct
      <4>1. Base = 0 /\ DOMAIN win = 0 .. Len(data) - 1
        BY <3>1 DEF Content
      <4>2. u + k < Len(data)
        BY <1>1, <2>3, <4>1
      <4> QED BY <1>1, <2>3, <4>1, <4>2
    <3>2. CASE ~direct
      <4>1. DOMAIN win = 0 .. WinLen - 1
        BY <3>2 DEF Content
      <4>2. u + k < h.buffer + HAvail
        BY <1>1, <2>3
      <4>3. u + k < WinLen
        BY <1>1, <2>3, <3>2, <4>2
      <4> QED BY <1>1, <2>3, <4>1, <4>3
    <3> QED BY <3>1, <3>2
  <2>5. Base + (u + k) < (IF direct THEN Len(data) ELSE fed)
    BY <1>1, <2>3
  <2>6. win[u + k] = data[Base + (u + k) + 1]
    BY <2>4, <2>5 DEF Content
  <2> QED BY <2>3, <2>4, <2>6
<1> QED BY <1>3, <1>4 DEF Holds

(***************************************************************************)
(* However far the window has slid, each thread that may look into it      *)
(* finds its own position there, with its history and the bytes ahead.     *)
(***************************************************************************)
THEOREM WindowFollows == Spec => []WindowFollowsThreads
<1>1. Init => WindowInv
  BY DEF Init, WindowInv, Streaming, Active
<1>2. IInv /\ Ghosts /\ WindowInv /\ [Next]_vars => WindowInv'
  BY WindowStep
<1>3. IInv /\ Ghosts /\ WindowInv => WindowFollowsThreads
  <2> SUFFICES ASSUME IInv, Ghosts, WindowInv PROVE WindowFollowsThreads
    OBVIOUS
  <2>1. ASSUME pc.lz = "body" PROVE Holds(l.pointer, at, MinOf(l.avail, fed - at))
    <3>1. Streaming
      BY <2>1 DEF Streaming, Active, IInv, Protocol, BtInv, Handshake
    <3>2. PICK T \in Positions, S \in Positions : Places(T, S)
      BY <3>1 DEF Ghosts, PlacesInv
    <3>3. LzPlace(S) /\ HashPlace /\ Content /\ LzSees
      BY <2>1, <3>1, <3>2 DEF Places, WindowInv, Window
    <3>4. l.pointer \in Int /\ l.pointer - shift.lz = at - Base /\ Behind(at) /\ shift.lz = 0
      BY <2>1, <3>3 DEF LzSees
    <3>5. l.pointer = at - Base
      BY <3>4
    <3>6. at \in Nat /\ l.avail \in Nat /\ at + l.avail <= fed /\ fed \in Nat
      BY <3>3 DEF LzPlace, HashPlace
    <3>7. MinOf(l.avail, fed - at) = l.avail
      BY <3>6 DEF MinOf
    <3> QED BY <3>3, <3>4, <3>5, <3>6, <3>7, Finds
  <2>2. ASSUME pc.bt = "run", b.hpos < b.hlim PROVE Holds(b.buffer, b.at, b.avail)
    <3>1. Streaming
      <4>1. ~bs.needStart /\ pc.lz \in Active /\ ~bs.wasStopped
        BY <2>2 DEF IInv, Protocol, BtInv, Handshake
      <4> QED BY <2>2, <4>1 DEF Streaming
    <3>2. PICK T \in Positions, S \in Positions : Places(T, S)
      BY <3>1 DEF Ghosts, PlacesInv
    <3>3. BtPlace(T) /\ HashPlace /\ Content /\ BtSees
      BY <3>1, <3>2 DEF Places, WindowInv, Window
    <3>4. b.buffer \in Int /\ b.buffer - shift.bt = b.at - Base /\ Behind(b.at) /\ shift.bt = 0
      BY <2>2, <3>3 DEF BtSees
    <3>5. b.buffer = b.at - Base
      BY <3>4
    <3>6. b.at \in Nat /\ b.avail \in Nat /\ b.at + b.avail <= fed
      BY <3>3 DEF BtPlace
    <3> QED BY <3>3, <3>4, <3>5, <3>6, Finds
  <2> QED BY <2>1, <2>2 DEF WindowFollowsThreads
<1> QED BY <1>1, <1>2, <1>3, ProtocolInductive, PlacesInductive, PTL DEF Spec
=============================================================================
