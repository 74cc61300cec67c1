------------------------------ MODULE LzFindMt ------------------------------
(***************************************************************************)
(* The threaded match finder of enc/lz_find_mt.rs.  The hash thread slides *)
(* and fills the window and turns it into blocks of hash heads; the tree   *)
(* ("bt") thread turns heads into blocks of match records; the caller's    *)
(* thread ("lz") consumes the records and adds the short matches of two    *)
(* small hashes.  Each pair of neighbours shares an MtSync: two semaphores *)
(* over a ring of blocks and a lock the consumer holds while it looks into *)
(* the window.  Streams follow each other, on kept or on new threads.      *)
(***************************************************************************)
EXTENDS LzTree, FiniteSets, TLC

CONSTANTS NumHashBytes, HistorySize, MatchMaxLen, CutValue,
          HashNumBlocks, HashHeads,  \* HASH_NUM_BLOCKS, heads in a hash block
          BtNumBlocks, BtLimit,      \* BT_NUM_BLOCKS, words after which a record block ends
          LagKept,      \* what `layout` adds to the history for threads that lag behind
          Reserve,      \* what get_block_size adds to the kept bytes
          MoveAlign,    \* K_BLOCK_MOVE_ALIGN
          MaxVal,       \* MT_MAX_VAL_FOR_NORMALIZE
          Inputs,       \* per stream the possible inputs: bytes, and whether they are read in place
          ReadSlack,    \* how far the length of a read may be from the least
          NumStreams,   \* how many are encoded after each other
          Panics,       \* may a thread panic?
          SpawnFaults   \* may a thread fail to start?

ASSUME MtFinderAssumption ==
  /\ NumHashBytes \in 2 .. 5 /\ NumHashBytes <= MatchMaxLen
  /\ \A c \in {HistorySize, MatchMaxLen, CutValue, HashNumBlocks, HashHeads, BtNumBlocks, BtLimit, LagKept,
               Reserve, MoveAlign, MaxVal} : c \in Nat \ {0}
  /\ LagKept >= HashNumBlocks * HashHeads + BtNumBlocks * BtLimit
  /\ Reserve > MoveAlign
  /\ MaxVal > HistorySize + 1 + BtLimit + 2 * MatchMaxLen + HashHeads
  /\ Panics \in BOOLEAN /\ SpawnFaults \in BOOLEAN

ASSUME MtInputsAssumption ==
  /\ NumStreams \in Nat \ {0} /\ ReadSlack \in Nat
  /\ \A k \in 1 .. NumStreams : \A in \in Inputs[k] : in.data \in Seq(Nat) /\ in.direct \in BOOLEAN

VARIABLES pc,        \* where the threads "hash", "bt" and "lz" are
          hs, bs,    \* hash_sync and bt_sync: MtSync
          data, fed, \* the current input, and the bytes of it that were read
          direct,    \* is the input read in place?
          win,       \* the window
          shift,     \* bt_shift and lz_shift
          h, high,   \* HashState and the big hash
          hashBuf,   \* the blocks of heads
          b, son,    \* BtState and the tree
          btBuf,     \* the blocks of records
          l, low,    \* LzState and the small hashes
          at,        \* stream position of the lz thread
          found,     \* what its last get_matches returned
          threadFailed, stream

hashVars == <<fed, win, h, high, hashBuf>>
btVars == <<b, son, btBuf>>
lzVars == <<l, low, at, found>>
inputVars == <<data, direct, stream>>
vars == <<pc, hs, bs, inputVars, shift, hashVars, btVars, lzVars, threadFailed>>

Cyclic == HistorySize + 1

\* Mutation of KeepBefore: nothing is kept for the threads that lag behind.
NoLagKept == HistorySize + 1

KeepBefore == HistorySize + LagKept + 1

KeepAfter == MatchMaxLen + HashHeads + 2

WinLen == KeepBefore + KeepAfter + Reserve

Movable == ~direct

NewSync == [processed |-> 0, needStart |-> TRUE, exit |-> TRUE, stop |-> FALSE,
            canStart |-> FALSE, wasStopped |-> FALSE, free |-> 0, filled |-> 0, cs |-> "none"]

(***************************************************************************)
(* MtSync.  cs is the lock: held by its "user", who looks into the window, *)
(* or by the "mover", the hash thread that slides it.                      *)
(***************************************************************************)
UnlockBuffer(s) == [s EXCEPT !.cs = "none"]

LockBuffer(s) == IF Movable THEN [s EXCEPT !.cs = "user"] ELSE s

CanLock(s) == Movable => s.cs = "none"

\* MtSync::init, which every stream begins with.
SyncInit(s, blocks) == [s EXCEPT !.free = blocks, !.filled = 0]

\* get_next_block up to its wait: the first call starts the producer, a later one
\* returns the block it has used.
AskBlock(s) ==
  IF s.needStart
  THEN [s EXCEPT !.processed = 1, !.needStart = FALSE, !.stop = FALSE, !.exit = FALSE,
                 !.wasStopped = FALSE, !.canStart = TRUE]
  ELSE [(IF Movable THEN UnlockBuffer(s) ELSE s) EXCEPT !.processed = @ + 1, !.free = @ + 1]

\* The index get_next_block returns.
AskIndex(s) == IF s.needStart THEN 0 ELSE s.processed

\* The rest of get_next_block: a filled block, then the lock.
TakeBlock(s) == LockBuffer([s EXCEPT !.filled = @ - 1])

CanTake(s) == s.filled > 0 /\ CanLock(s)

\* Mutations of AskStop: the lock is kept; the producer is not woken.
StopKeepsLock(s) == [s EXCEPT !.stop = TRUE, !.free = @ + 1]

StopWithoutToken(s) == [(IF s.cs = "user" THEN UnlockBuffer(s) ELSE s) EXCEPT !.stop = TRUE]

\* stop_writing up to its wait.
AskStop(s) == [(IF s.cs = "user" THEN UnlockBuffer(s) ELSE s) EXCEPT !.stop = TRUE, !.free = @ + 1]

Stopped(s) == [s EXCEPT !.wasStopped = FALSE, !.needStart = TRUE]

\* send_exit.
SendExit(s) == [s EXCEPT !.exit = TRUE, !.canStart = TRUE]

(***************************************************************************)
(* The hash thread.                                                        *)
(***************************************************************************)
HAvail == h.streamPos - h.pos

NeedMove == Movable /\ ~h.ended /\ ~h.err /\ WinLen - h.buffer <= KeepAfter

\* hash_thread_func, waiting for a stream.
HashStart ==
  /\ pc.hash = "start" /\ hs.canStart
  /\ hs' = [hs EXCEPT !.canStart = FALSE]
  /\ \/ hs.exit /\ pc' = [pc EXCEPT !.hash = "gone"] /\ UNCHANGED <<h, high>>
     \/ /\ ~hs.exit /\ pc' = [pc EXCEPT !.hash = "loop"]
        /\ h' = [h EXCEPT !.index = 0]
        /\ high' = [v \in DOMAIN high |-> Empty]
  /\ UNCHANGED <<bs, inputVars, fed, win, shift, hashBuf, btVars, lzVars, threadFailed>>

\* The window must slide: first the lz thread is kept out,
HashEnter ==
  /\ pc.hash = "loop" /\ NeedMove /\ bs.cs = "none"
  /\ bs' = [bs EXCEPT !.cs = "mover"]
  /\ pc' = [pc EXCEPT !.hash = "enter"]
  /\ UNCHANGED <<hs, inputVars, hashVars, shift, btVars, lzVars, threadFailed>>

\* then the tree thread; move_block, and both may look again.
HashMove ==
  /\ pc.hash = "enter" /\ hs.cs = "none"
  /\ LET fits   == h.buffer >= KeepBefore
         offset == h.buffer - KeepBefore
         keep   == (offset % MoveAlign) + KeepBefore
         from   == offset - (offset % MoveAlign)
         by     == IF fits THEN h.buffer - keep ELSE 0
     IN /\ win' = IF fits THEN [i \in DOMAIN win |-> IF i < keep + HAvail THEN win[from + i] ELSE win[i]]
                 ELSE win
        /\ shift' = [bt |-> shift.bt + by, lz |-> shift.lz + by]
        /\ h' = [h EXCEPT !.err = ~fits, !.buffer = @ - by]
  /\ bs' = UnlockBuffer(bs)
  /\ pc' = [pc EXCEPT !.hash = "loop"]
  /\ UNCHANGED <<hs, inputVars, fed, high, hashBuf, btVars, lzVars, threadFailed>>

\* Mutation of Reads: a read that fills the window is taken for the end.
ReadsEndEarly ==
  LET n == MinOf(WinLen - h.buffer - HAvail, Len(data) - fed)
  IN {[n |-> IF h.ended \/ direct THEN 0 ELSE n, end |-> TRUE, err |-> FALSE]}

\* The reads read_if_required may see: none, enough and ReadSlack more or everything,
\* the end, or an error behind ReadSlack bytes.
Reads ==
  LET room == WinLen - h.buffer - HAvail
      left == Len(data) - fed
      most == MinOf(room, left)
      Short(n) == HAvail + n <= KeepAfter
      Some(n, end, err) == [n |-> n, end |-> end, err |-> err]
  IN IF h.ended \/ h.err \/ ~Short(0) THEN {Some(0, FALSE, FALSE)}
     ELSE IF direct THEN {Some(left, TRUE, FALSE)}
     ELSE {Some(n, FALSE, FALSE) :
             n \in {m \in 0 .. most : m = room \/ (m > 0 /\ ~Short(m) /\ (m = most \/ Short(m - 1 - ReadSlack)))}}
          \cup {Some(n, TRUE, FALSE) : n \in {m \in {left} : Short(m) /\ m < room}}
          \cup {Some(n, FALSE, TRUE) : n \in {m \in 0 .. MinOf(most, ReadSlack) : Panics /\ Short(m) /\ m < room}}

\* read_block: the bytes that arrive go behind the ones available.
Filled(o) == IF direct THEN win
             ELSE [i \in DOMAIN win |-> IF i - h.buffer - HAvail \in 0 .. o.n - 1
                                        THEN data[fed + i - h.buffer - HAvail + 1] ELSE win[i]]

\* How many heads hash_fill_block makes of avail bytes; the last bytes of a stream
\* are too few for a hash and only counted.
HeadCount(avail) == IF avail >= NumHashBytes THEN MinOf(avail - NumHashBytes + 1, HashHeads) ELSE 0

\* get_heads: the distance from each position to the last with its hash.
NextHead(x, w, buffer, pos) ==
  LET v == HashCalc(w, buffer, NumHashBytes)
  IN [heads |-> Append(x.heads, pos - x.tab[v]), tab |-> [x.tab EXCEPT ![v] = pos]]

GetHeads(w, buffer, pos, num, tab) ==
  LET x[i \in 0 .. num] == IF i = 0 THEN [heads |-> <<>>, tab |-> tab]
                           ELSE NextHead(x[i - 1], w, buffer + i - 1, pos + i - 1)
  IN x[num]

\* hash_fill_block: positions are normalised before they are hashed.
HashFill(g, w, tab) ==
  LET avail == g.streamPos - g.pos
      num   == HeadCount(avail)
      sub   == IF num > 0 /\ g.pos > MaxVal - num THEN g.pos - HistorySize - 1 ELSE 0
      pos   == g.pos - sub
      x     == GetHeads(w, g.buffer, pos, num, Normalize3(sub, tab))
      step == IF avail >= NumHashBytes THEN num ELSE avail
  IN [block |-> [ok |-> TRUE, avail |-> avail, heads |-> x.heads], tab |-> x.tab,
      g |-> [g EXCEPT !.pos = pos + step, !.streamPos = @ - sub, !.buffer = @ + step]]

\* A panic of the reading or hashing (fail_hash): the block says so.
FailedBlock == [ok |-> FALSE, avail |-> 0, heads |-> <<>>]

\* One block of the inner loop of hash_thread_func, from its free block on.
HashBlock ==
  /\ pc.hash = "loop" /\ ~NeedMove /\ hs.free > 0
  /\ \/ /\ hs.stop
        /\ hs' = [hs EXCEPT !.free = @ - 1, !.wasStopped = TRUE]
        /\ pc' = [pc EXCEPT !.hash = "start"]
        /\ UNCHANGED <<hashVars, threadFailed>>
     \/ /\ ~hs.stop /\ ~h.failed
        /\ \E o \in Reads : \E w \in {Filled(o)} :
           \E f \in {HashFill([h EXCEPT !.streamPos = @ + o.n, !.ended = @ \/ o.end, !.err = @ \/ o.err], w, high)} :
              /\ win' = w /\ fed' = fed + o.n
              /\ h' = [f.g EXCEPT !.index = @ + 1]
              /\ high' = f.tab
              /\ hashBuf' = [hashBuf EXCEPT ![h.index % HashNumBlocks] = f.block]
        /\ hs' = [hs EXCEPT !.free = @ - 1, !.filled = @ + 1]
        /\ UNCHANGED <<pc, threadFailed>>
     \/ /\ ~hs.stop /\ (h.failed \/ (Panics /\ ~threadFailed))
        /\ h' = [h EXCEPT !.failed = TRUE, !.ended = TRUE, !.index = @ + 1]
        /\ threadFailed' = TRUE
        /\ hashBuf' = [hashBuf EXCEPT ![h.index % HashNumBlocks] = FailedBlock]
        /\ hs' = [hs EXCEPT !.free = @ - 1, !.filled = @ + 1]
        /\ UNCHANGED <<pc, win, fed, high>>
  /\ UNCHANGED <<bs, inputVars, shift, btVars, lzVars>>

(***************************************************************************)
(* The tree thread.  b.hblk, b.hpos and b.hlim locate the heads it is      *)
(* using, b.recs is the block of records it is writing, b.at the stream    *)
(* position of b.buffer.                                                   *)
(***************************************************************************)
BtGoes(to) == pc' = [pc EXCEPT !.bt = to]

ApplyBtShift(x) == IF direct THEN x ELSE [x EXCEPT !.buffer = @ - shift.bt]

BtStart ==
  /\ pc.bt = "start" /\ bs.canStart
  /\ bs' = [bs EXCEPT !.canStart = FALSE]
  /\ BtGoes(IF bs.exit THEN "gone" ELSE "loop")
  /\ b' = [b EXCEPT !.index = 0]
  /\ UNCHANGED <<hs, inputVars, hashVars, shift, son, btBuf, lzVars, threadFailed>>

\* bt_thread_func takes a free block, or is told to stop.
BtFree ==
  /\ pc.bt = "loop" /\ bs.free > 0
  /\ bs' = [bs EXCEPT !.free = @ - 1]
  /\ BtGoes(IF bs.stop THEN "stop" ELSE IF Movable /\ ~hs.needStart THEN "lock" ELSE "begin")
  /\ UNCHANGED <<hs, inputVars, hashVars, shift, btVars, lzVars, threadFailed>>

\* bt_fill_block locks the window before it goes on with old heads.
BtLock ==
  /\ pc.bt = "lock" /\ CanLock(hs)
  /\ hs' = LockBuffer(hs)
  /\ b' = ApplyBtShift(b) /\ shift' = [shift EXCEPT !.bt = 0]
  /\ BtGoes("begin")
  /\ UNCHANGED <<bs, inputVars, hashVars, son, btBuf, lzVars, threadFailed>>

\* The block a failed tree thread leaves.
BtFailed(x) == [x EXCEPT !.failure = TRUE, !.ok = FALSE]

\* bt_get_matches begins a block, or has failed before.
BtBegin ==
  /\ pc.bt = "begin"
  /\ b' = [b EXCEPT !.recs = <<>>, !.words = 0, !.done = 0, !.sum = b.avail, !.ok = ~b.failure]
  /\ BtGoes(IF b.failure THEN "end" ELSE "run")
  /\ UNCHANGED <<hs, bs, inputVars, hashVars, shift, son, btBuf, lzVars, threadFailed>>

BtNeedsHeads == b.words < BtLimit /\ b.hpos = b.hlim

\* The heads are used up: ask for the next block of them.
BtAsk ==
  /\ pc.bt = "run" /\ BtNeedsHeads
  /\ hs' = AskBlock(hs)
  /\ b' = [b EXCEPT !.hblk = AskIndex(hs) % HashNumBlocks]
  /\ BtGoes("wait")
  /\ UNCHANGED <<bs, inputVars, hashVars, shift, son, btBuf, lzVars, threadFailed>>

\* The header of a block of heads: a failed one ends everything, one with too few
\* bytes for a hash is the end of the stream.
BtTake ==
  /\ pc.bt = "wait" /\ CanTake(hs)
  /\ hs' = TakeBlock(hs) /\ shift' = [shift EXCEPT !.bt = 0]
  /\ \E blk \in {hashBuf[b.hblk]} :
        \/ ~blk.ok /\ b' = BtFailed(ApplyBtShift(b)) /\ BtGoes("end")
        \/ /\ blk.ok /\ blk.avail >= NumHashBytes
           /\ b' = [ApplyBtShift(b) EXCEPT !.hpos = 0, !.hlim = Len(blk.heads), !.avail = blk.avail,
                                          !.sum = b.done + blk.avail]
           /\ BtGoes("run")
        \/ /\ blk.ok /\ blk.avail < NumHashBytes
           /\ b' = [ApplyBtShift(b) EXCEPT !.hpos = 0, !.hlim = 0, !.avail = 0, !.sum = b.done + blk.avail,
                                          !.recs = @ \o [i \in 1 .. blk.avail |-> <<>>]]
           /\ BtGoes("end")
  /\ UNCHANGED <<bs, inputVars, hashVars, son, btBuf, lzVars, threadFailed>>

\* The run of heads bt_get_matches hands to the tree walk.
BtRunSize == Min({b.hlim - b.hpos, b.avail - MinOf(MatchMaxLen, b.avail) + 1, Cyclic - b.cycPos})

\* The nodes of a walk whose child is not an older position than their own.
Forward(w, p) ==
  {i \in 1 .. CutValue : ~w[i].full /\ InHistory(w[i - 1].cm, p, Cyclic) /\ w[i].cm >= w[i - 1].cm}

\* One head of get_matches_spec_n_2: its node and its record.  x.bad is the None of
\* a tree that contradicts itself, which is left as the walk had it.
TreeNode(x, delta, cur, p, cp) ==
  LET head == IF delta >= MinOf(p, Cyclic) THEN Empty ELSE p - delta
      w    == Descent(win, cur, p, cp, Cyclic, x.son, head,
                      MinOf(MatchMaxLen, b.avail), NumHashBytes - 1, CutValue)
      t    == WalkResult(w[CutValue])
  IN IF delta = 0 \/ (p < Cyclic /\ delta > p) THEN [x EXCEPT !.bad = TRUE]
     ELSE IF Forward(w, p) # {} THEN [x EXCEPT !.bad = TRUE, !.son = w[Min(Forward(w, p))].son]
     ELSE [x EXCEPT !.son = t.son, !.recs = Append(@, t.recs), !.n = @ + 1,
                    !.words = @ + 1 + 2 * Len(t.recs)]

\* get_matches_spec_n_2 over a run of heads, until the block has its words.
TreeStep(x, delta, cur, p, cp) ==
  IF x.bad \/ x.words >= BtLimit THEN x ELSE TreeNode(x, delta, cur, p, cp)

TreeRun(heads, size, pos, tree) ==
  LET x[i \in 0 .. size] ==
        IF i = 0 THEN [son |-> tree, recs |-> <<>>, words |-> b.words, n |-> 0, bad |-> FALSE]
        ELSE TreeStep(x[i - 1], heads[b.hpos + i], b.buffer + i - 1, pos + i - 1, b.cycPos + i - 1)
  IN x[size]

\* A run of positions in bt_get_matches, with the positions normalised first.
BtWalk ==
  /\ pc.bt = "run" /\ b.words < BtLimit /\ b.hpos < b.hlim
  /\ \E sub \in {IF b.pos > MaxVal - BtRunSize THEN b.pos - Cyclic ELSE 0} :
     \E x \in {TreeRun(hashBuf[b.hblk].heads, BtRunSize, b.pos - sub, Normalize3(sub, son))} :
        /\ son' = x.son
        /\ b' = IF x.bad THEN BtFailed(b)
                ELSE [b EXCEPT !.pos = @ - sub + x.n, !.hpos = @ + x.n, !.buffer = @ + x.n, !.at = @ + x.n,
                                !.cycPos = (@ + x.n) % Cyclic, !.avail = @ - x.n, !.done = @ + x.n,
                                !.words = x.words, !.recs = @ \o x.recs]
        /\ BtGoes(IF x.bad THEN "end" ELSE "run")
  /\ UNCHANGED <<hs, bs, inputVars, hashVars, shift, btBuf, lzVars, threadFailed>>

\* A panic while the tree is walked; bt_fill_block catches it.
BtPanic ==
  /\ pc.bt = "run" /\ Panics /\ ~threadFailed /\ ~hs.needStart
  /\ b' = BtFailed(b) /\ threadFailed' = TRUE
  /\ BtGoes("end")
  /\ UNCHANGED <<hs, bs, inputVars, hashVars, shift, son, btBuf, lzVars>>

\* bt_fill_block publishes the block, leaves the window and hands the block over.
BtFinish ==
  /\ \/ pc.bt = "end"
     \/ pc.bt = "run" /\ b.words >= BtLimit
  /\ btBuf' = [btBuf EXCEPT ![b.index % BtNumBlocks] = [ok |-> b.ok, avail |-> b.sum, recs |-> b.recs]]
  /\ hs' = IF Movable THEN UnlockBuffer(hs) ELSE hs
  /\ bs' = [bs EXCEPT !.filled = @ + 1]
  /\ b' = [b EXCEPT !.index = @ + 1, !.recs = <<>>, !.words = 0]
  /\ BtGoes("loop")
  /\ UNCHANGED <<inputVars, hashVars, shift, son, lzVars, threadFailed>>

\* Told to stop, bt_thread_func stops the hash thread first,
BtStop ==
  /\ pc.bt = "stop"
  /\ hs' = IF hs.needStart THEN hs ELSE AskStop(hs)
  /\ bs' = [bs EXCEPT !.wasStopped = @ \/ hs.needStart]
  /\ BtGoes(IF hs.needStart THEN "start" ELSE "stopping")
  /\ UNCHANGED <<inputVars, hashVars, shift, btVars, lzVars, threadFailed>>

\* and then says so.
BtStopped ==
  /\ pc.bt = "stopping" /\ hs.wasStopped
  /\ hs' = Stopped(hs)
  /\ bs' = [bs EXCEPT !.wasStopped = TRUE]
  /\ BtGoes("start")
  /\ UNCHANGED <<inputVars, hashVars, shift, btVars, lzVars, threadFailed>>

(***************************************************************************)
(* The lz thread, that is the encoder.  l.blk and l.pos locate the record  *)
(* it is at; a parked thread has one empty record of its own.  l.zero:     *)
(* get_num_available_bytes was 0, which is the end of the stream to it.    *)
(***************************************************************************)
LzGoes(to) == pc' = [pc EXCEPT !.lz = to]

NewH == [buffer |-> 0, pos |-> 1, streamPos |-> 1, ended |-> FALSE, err |-> FALSE, failed |-> FALSE, index |-> 0]

NewB == [hblk |-> 0, hpos |-> 0, hlim |-> 0, avail |-> 0, failure |-> FALSE, pos |-> 1, cycPos |-> 1,
         buffer |-> 0, at |-> 0, index |-> 0, recs |-> <<>>, words |-> 0, done |-> 0, sum |-> 0, ok |-> TRUE]

NewL == [blk |-> 0, pos |-> 0, lim |-> 0, pointer |-> 0, avail |-> 0, failed |-> FALSE, lzPos |-> 1, zero |-> FALSE]

EmptyLow == [h2 |-> [v \in [1 .. 1 -> {0, 1}] |-> Empty], h3 |-> [v \in [1 .. 2 -> {0, 1}] |-> Empty]]

\* with_threads and block_handle start the two threads, or fail to.  When the second
\* is refused, block_handle sends the first away and joins it; with_threads panics,
\* and its scope joins a hash thread that still waits for its stream.
LzSpawn ==
  /\ pc.lz = "idle" /\ pc.hash = "gone" /\ pc.bt = "gone"
  /\ \/ pc' = [hash |-> "start", bt |-> "start", lz |-> "init"] /\ hs' = hs
     \/ SpawnFaults /\ LzGoes("done") /\ hs' = hs
     \/ SpawnFaults /\ pc' = [pc EXCEPT !.hash = "start", !.lz = "joinhash"] /\ hs' = SendExit(hs)
     \/ SpawnFaults /\ pc' = [pc EXCEPT !.hash = "start", !.lz = "scope"] /\ hs' = hs
  /\ stream' = IF pc'.lz = "init" THEN stream ELSE NumStreams
  /\ UNCHANGED <<bs, data, hashVars, direct, shift, btVars, lzVars, threadFailed>>

\* init_mt and init, the beginning of a stream.
LzInit ==
  /\ pc.lz = "init"
  /\ hs' = SyncInit(hs, HashNumBlocks) /\ bs' = SyncInit(bs, BtNumBlocks)
  /\ stream' = stream + 1
  /\ \E in \in Inputs[stream'] : data' = in.data /\ direct' = in.direct
  /\ fed' = 0 /\ h' = NewH /\ b' = NewB /\ l' = NewL /\ low' = EmptyLow
  /\ win' = IF direct' THEN [i \in 0 .. Len(data') - 1 |-> data'[i + 1]]
            ELSE [i \in 0 .. WinLen - 1 |-> 0]
  /\ shift' = [bt |-> 0, lz |-> 0]
  /\ threadFailed' = FALSE
  /\ at' = 0 /\ found' = [at |-> -1, recs |-> <<>>]
  /\ LzGoes("body")
  /\ UNCHANGED <<high, hashBuf, son, btBuf>>

\* get_next_block_bt: a thread that has failed is parked, any other asks.
LzAsk ==
  /\ pc.lz = "body" /\ l.pos = l.lim /\ ~l.zero
  /\ \/ l.failed /\ l' = [l EXCEPT !.pos = 0] /\ UNCHANGED <<bs, pc>>
     \/ ~l.failed /\ bs' = AskBlock(bs) /\ l' = [l EXCEPT !.blk = AskIndex(bs) % BtNumBlocks] /\ LzGoes("wait")
  /\ UNCHANGED <<hs, inputVars, hashVars, shift, btVars, low, at, found, threadFailed>>

\* The header of a block of records; small positions are normalised here.
LzTake ==
  /\ pc.lz = "wait" /\ CanTake(bs)
  /\ bs' = TakeBlock(bs) /\ shift' = [shift EXCEPT !.lz = 0]
  /\ \E blk \in {btBuf[l.blk]} :
     \E sub \in {IF l.lzPos >= MaxVal - BtLimit - 2 * MatchMaxLen THEN l.lzPos - HistorySize - 1 ELSE 0} :
        /\ l' = [l EXCEPT !.pointer = @ - shift.lz, !.avail = blk.avail, !.failed = ~blk.ok, !.pos = 0,
                          !.lim = IF blk.ok THEN Len(blk.recs) ELSE 1, !.lzPos = @ - sub,
                          !.zero = blk.avail = 0]
        /\ low' = [h2 |-> Normalize3(sub, low.h2), h3 |-> Normalize3(sub, low.h3)]
  /\ LzGoes("body")
  /\ UNCHANGED <<hs, inputVars, hashVars, btVars, at, found, threadFailed>>

\* The record the lz thread is at.
Record == IF l.failed THEN <<>> ELSE btBuf[l.blk].recs[l.pos + 1]

\* Mutation of Nearer: the tree's own nearest match is reported again.
NearerOrSame(c, minPos) == c # Empty /\ c >= minPos - 1 /\ win[l.pointer - (l.lzPos - c)] = win[l.pointer]

\* A small hash's position is a match nearer than the tree's.
Nearer(c, minPos) == c >= minPos /\ win[l.pointer - (l.lzPos - c)] = win[l.pointer]

\* mix_matches: matches of two, three or four bytes, nearest first.
MixMatches(minPos) ==
  LET c2 == low.h2[H2(win, l.pointer)]
      c3 == low.h3[H3(win, l.pointer)]
      d2 == l.lzPos - c2
      d3 == l.lzPos - c3
      Same(d, k) == win[l.pointer - d + k] = win[l.pointer + k]
      two   == IF Nearer(c2, minPos) THEN << <<2, d2 - 1>> >> ELSE <<>>
      third == two # <<>> /\ Same(d2, 2)
      Four(d) == << <<IF NumHashBytes = 5 /\ Same(d, 3) THEN 4 ELSE 3, d - 1>> >>
  IN CASE NumHashBytes = 2 -> <<>>
       [] NumHashBytes = 3 -> two
       [] OTHER -> IF third THEN Four(d2)
                   ELSE two \o (IF Nearer(c3, minPos) THEN Four(d3) ELSE <<>>)

\* The small hashes learn the position.
LowEntered ==
  [h2 |-> IF NumHashBytes = 2 THEN low.h2 ELSE [low.h2 EXCEPT ![H2(win, l.pointer)] = l.lzPos],
   h3 |-> IF NumHashBytes < 4 THEN low.h3 ELSE [low.h3 EXCEPT ![H3(win, l.pointer)] = l.lzPos]]

LzMoved == [l EXCEPT !.avail = @ - 1, !.pos = @ + 1, !.pointer = @ + 1, !.lzPos = @ + 1]

\* consume_matches: the tree's records behind the nearer short matches; near the
\* end of the stream there are no bytes to look for short ones.
Mixes == Record # <<>> \/ l.avail - 1 >= 3

ConsumeMatches ==
  LET minPos == IF Record # <<>> THEN l.lzPos - Record[1][2] ELSE MaxOf(l.lzPos - HistorySize, 1)
  IN IF Mixes THEN MixMatches(minPos) \o Record ELSE Record

\* get_matches.
LzMatches ==
  /\ pc.lz = "body" /\ l.pos < l.lim /\ l.avail > 0
  /\ l' = LzMoved /\ at' = at + 1
  /\ low' = IF Mixes THEN LowEntered ELSE low
  /\ found' = [at |-> at, recs |-> ConsumeMatches]
  /\ UNCHANGED <<pc, hs, bs, inputVars, hashVars, shift, btVars, threadFailed>>

\* skip of one position.
LzSkip ==
  /\ pc.lz = "body" /\ l.pos < l.lim /\ l.avail > 0
  /\ l' = LzMoved /\ at' = at + 1
  /\ low' = IF l.avail >= (IF NumHashBytes > 3 THEN 3 ELSE 2) THEN LowEntered ELSE low
  /\ found' = [at |-> -1, recs |-> <<>>]
  /\ UNCHANGED <<pc, hs, bs, inputVars, hashVars, shift, btVars, threadFailed>>

\* The encoder is done with the stream, at its end or before: stop_writing.
LzStop ==
  /\ pc.lz = "body"
  /\ found' = [at |-> -1, recs |-> <<>>]
  /\ \/ bs.needStart /\ LzGoes("stopped") /\ bs' = bs
     \/ ~bs.needStart /\ bs' = AskStop(bs) /\ LzGoes("stopping")
  /\ UNCHANGED <<hs, inputVars, hashVars, shift, btVars, l, low, at, threadFailed>>

LzStopped ==
  /\ pc.lz = "stopping" /\ bs.wasStopped
  /\ bs' = Stopped(bs)
  /\ LzGoes("stopped")
  /\ UNCHANGED <<hs, inputVars, hashVars, shift, btVars, lzVars, threadFailed>>

\* Kept threads (run_block) take the next stream; MtRun::drop and retire_threads
\* send the tree thread away,
LzAgain ==
  /\ pc.lz = "stopped"
  /\ \/ stream < NumStreams /\ LzGoes("init") /\ bs' = bs
     \/ bs' = SendExit(bs) /\ LzGoes("joinbt")
  /\ UNCHANGED <<hs, inputVars, hashVars, shift, btVars, lzVars, threadFailed>>

\* and when it is gone the hash thread.
LzJoinBt ==
  /\ pc.lz = "joinbt" /\ pc.bt = "gone"
  /\ hs' = SendExit(hs)
  /\ LzGoes("joinhash")
  /\ UNCHANGED <<bs, inputVars, hashVars, shift, btVars, lzVars, threadFailed>>

LzJoinHash ==
  /\ pc.lz \in {"joinhash", "scope"} /\ pc.hash = "gone"
  /\ LzGoes(IF stream < NumStreams THEN "idle" ELSE "done")
  /\ UNCHANGED <<hs, bs, inputVars, hashVars, shift, btVars, lzVars, threadFailed>>

Init ==
  /\ pc = [hash |-> "gone", bt |-> "gone", lz |-> "idle"]
  /\ hs = NewSync /\ bs = NewSync
  /\ data = <<>> /\ fed = 0 /\ direct = FALSE
  /\ win = [i \in 0 .. WinLen - 1 |-> 0]
  /\ shift = [bt |-> 0, lz |-> 0]
  /\ h = NewH /\ high = [v \in HashValues(NumHashBytes) |-> Empty]
  /\ hashBuf = [i \in 0 .. HashNumBlocks - 1 |-> FailedBlock]
  /\ b = NewB /\ son = [i \in 0 .. 2 * Cyclic - 1 |-> Empty]
  /\ btBuf = [i \in 0 .. BtNumBlocks - 1 |-> [ok |-> FALSE, avail |-> 0, recs |-> <<>>]]
  /\ l = NewL /\ low = EmptyLow
  /\ at = 0 /\ found = [at |-> -1, recs |-> <<>>]
  /\ threadFailed = FALSE /\ stream = 0

HashStep == HashStart \/ HashEnter \/ HashMove \/ HashBlock

BtStep == BtStart \/ BtFree \/ BtLock \/ BtBegin \/ BtAsk \/ BtTake \/ BtWalk \/ BtPanic \/ BtFinish
          \/ BtStop \/ BtStopped

LzStep == LzSpawn \/ LzInit \/ LzAsk \/ LzTake \/ LzMatches \/ LzSkip \/ LzStop \/ LzStopped
          \/ LzAgain \/ LzJoinBt \/ LzJoinHash

Next == HashStep \/ BtStep \/ LzStep \/ (pc.lz \in {"done", "scope"} /\ UNCHANGED vars)

(***************************************************************************)
(* Each thread goes on as long as it can: when it is not waiting for an    *)
(* event, a semaphore, a lock or the end of another thread.  The fairness  *)
(* is weak fairness with its ENABLED written out.                          *)
(***************************************************************************)
HashReady ==
  \/ pc.hash = "start" /\ hs.canStart
  \/ pc.hash = "loop" /\ (IF NeedMove THEN bs.cs = "none" ELSE hs.free > 0)
  \/ pc.hash = "enter" /\ hs.cs = "none"

BtReady ==
  \/ pc.bt \in {"begin", "run", "end", "stop"}
  \/ pc.bt = "start" /\ bs.canStart
  \/ pc.bt = "loop" /\ bs.free > 0
  \/ pc.bt = "lock" /\ CanLock(hs)
  \/ pc.bt = "wait" /\ CanTake(hs)
  \/ pc.bt = "stopping" /\ hs.wasStopped

LzReady ==
  \/ pc.lz \in {"idle", "init", "body", "stopped"}
  \/ pc.lz = "wait" /\ CanTake(bs)
  \/ pc.lz = "stopping" /\ bs.wasStopped
  \/ pc.lz = "joinbt" /\ pc.bt = "gone"
  \/ pc.lz \in {"joinhash", "scope"} /\ pc.hash = "gone"

Fairness ==
  /\ []<>~HashReady \/ []<><<HashStep>>_vars
  /\ []<>~BtReady \/ []<><<BtStep>>_vars
  /\ []<>~LzReady \/ []<><<LzStep>>_vars

Spec == Init /\ [][Next]_vars /\ Fairness

(***************************************************************************)
(* Properties.                                                             *)
(***************************************************************************)
Holds(buffer, pos, ahead) ==
  \A k \in - MinOf(pos, HistorySize) .. ahead - 1 :
    buffer + k \in DOMAIN win /\ win[buffer + k] = data[pos + k + 1]

\* However far the window has slid, each thread that may look into it finds its own
\* position there, with the history behind it and the bytes it may compare ahead
\* (move_block, apply_bt_shift, apply_lz_shift, and what `layout` keeps for the lag).
WindowFollowsThreads ==
  /\ pc.lz = "body" => Holds(l.pointer, at, MinOf(l.avail, fed - at))
  /\ pc.bt = "run" /\ b.hpos < b.hlim => Holds(b.buffer, b.at, b.avail)

Agree(i, d) == Min({k \in 0 .. fed - i - 1 : data[i + k + 1] # data[i + k - d + 1]} \cup {fed - i, MatchMaxLen})

Best(i) == Max({0} \cup {Agree(i, d) : d \in 1 .. MinOf(i, HistorySize)})

\* The blocks that pass through the two rings are the right ones, in order: what
\* get_matches returns are matches of its position in the history, growing in length
\* and distance, and none longer is missed that the tree could know of.
FindsLongest ==
  found.at >= 0 /\ ~l.failed =>
    /\ \A j \in 1 .. Len(found.recs) :
          /\ found.recs[j][2] + 1 \in 1 .. MinOf(found.at, HistorySize)
          /\ Agree(found.at, found.recs[j][2] + 1) >= found.recs[j][1]
          /\ j > 1 => found.recs[j - 1][1] < found.recs[j][1] /\ found.recs[j - 1][2] < found.recs[j][2]
    /\ CutValue >= Cyclic /\ Best(found.at) >= NumHashBytes =>
          found.recs # <<>> /\ Last(found.recs)[1] = Best(found.at)

\* The encoder never takes a failure for the end of the stream: when it is told that
\* no bytes are available, all were found, or `failed` or `result` says otherwise.
EndIsEnd == pc.lz = "body" /\ l.zero => at = Len(data) \/ l.failed \/ threadFailed \/ h.err

\* A stream begins, and threads are sent away, only when both are back at their
\* start: no token of an older stream is left that would let one of them run early,
\* and nobody holds the window (MtSync::init's internal error never happens).
RestartReady ==
  /\ pc.lz \in {"init", "stopped"} =>
       /\ hs.needStart /\ bs.needStart /\ hs.cs = "none" /\ bs.cs = "none"
       /\ pc.hash = "start" /\ pc.bt = "start" /\ ~hs.canStart /\ ~bs.canStart
  /\ pc.lz = "joinhash" => hs.needStart /\ pc.bt = "gone"

\* The encoder returns from every stream and every stop, whatever its threads are
\* waiting for, and also when one of them has panicked or could not be started; but
\* not from with_threads when only the hash thread was started (see LzSpawn), which
\* nobody tells to return: that call waits in its scope for ever.
FinderReturns == <>(pc.lz \in {"done", "scope"})
=============================================================================
