------------------------- MODULE Lzma2Reader_proofs -------------------------
(***************************************************************************)
(* Proofs about the reader: what the caller was given, what it has in hand *)
(* and what is in the channel make up what decode delivered, and the       *)
(* result of decode is in one of three places on its way to the caller.    *)
(***************************************************************************)
EXTENDS Lzma2Reader, Lzma2Stream_proofs

Answers == {"none", "ok", "truncated", "corrupt", "read", "write"}

Types ==
    /\ input \in Streams
    /\ delivered \in Nat /\ delivered <= RefLen(input)
    /\ answer \in Answers
    /\ rx \in BOOLEAN /\ done \in BOOLEAN
    /\ coord \in {"decode", "report", "gone"}
    /\ got \in Nat /\ cur \in Nat \X Nat
    /\ pc \in {"idle", "recv", "join", "over"}

\* The output on its way: given out, in hand, in the channel.  A reader that
\* hung up lets go of what is in the channel.
Flow ==
    /\ cur[1] = got + 1 /\ got <= cur[2] /\ cur[2] <= delivered
    /\ rx <=> pc \in {"idle", "recv"}
    /\ ~rx => queue = <<>>
    /\ \/ queue = <<>> /\ (rx => cur[2] = delivered)
       \/ queue = <<<<cur[2] + 1, delivered>>>> /\ told = ""
       \/ queue = <<<<answer>>>> /\ cur[2] = delivered /\ told = ""
          /\ coord = "gone" /\ left = "ok" /\ answer \notin {"none", "ok"}

\* The result on its way: with the coordinator, in the channel or left for
\* join, and told.
News ==
    /\ coord = "decode" <=> answer = "none"
    /\ answer = "ok" => ValidStream(input) /\ delivered = RefLen(input)
    /\ coord = "gone" =>
         \/ left = answer
         \/ left = "ok" /\ (~rx \/ told = answer \/ queue = <<<<answer>>>>)
    /\ done <=> told # ""
    /\ pc = "recv" => ~done /\ got = cur[2]
    /\ done => coord = "gone" /\ queue = <<>> /\ got = delivered
    /\ told = "end" => answer = "ok"
    /\ told \notin {"", "end"} => told = answer

IInv == Types /\ Flow /\ News

-----------------------------------------------------------------------------

LEMMA InitIInv ==
    ASSUME Init
    PROVE  IInv
<1>1. input \in Seq(Unit) /\ input \in Streams
  BY StreamsAssumption DEF Init, PromiseInit
<1>2. RefLen(input) \in Nat
  BY <1>1, RefFacts
<1>3. /\ delivered = 0 /\ answer = "none" /\ queue = <<>> /\ rx = TRUE /\ coord = "decode"
      /\ cur = <<1, 0>> /\ done = FALSE /\ got = 0 /\ told = "" /\ pc = "idle"
  BY DEF Init, PromiseInit
<1>4. Types
  <2>1. delivered \in Nat /\ delivered <= RefLen(input) /\ got \in Nat
    <3>1. delivered = 0 /\ got = 0
      BY <1>3
    <3> QED
      BY <3>1, <1>2
  <2>2. cur \in Nat \X Nat
    BY <1>3
  <2>3. rx \in BOOLEAN /\ done \in BOOLEAN /\ answer \in Answers
    BY <1>3 DEF Answers
  <2> QED
    BY <1>1, <1>3, <2>1, <2>2, <2>3 DEF Types
<1>5. cur[1] = got + 1 /\ cur[2] = delivered /\ got <= cur[2] /\ cur[2] <= delivered
  <2>1. cur[1] = 1 /\ cur[2] = 0 /\ delivered = 0 /\ got = 0
    BY <1>3
  <2> QED
    BY <2>1
<1>6. Flow
  BY <1>3, <1>5 DEF Flow
<1>7. News
  BY <1>3 DEF News
<1> QED
  BY <1>4, <1>6, <1>7 DEF IInv

LEMMA StreamFacts ==
    ASSUME Types
    PROVE  /\ RefLen(input) \in Nat
           /\ RefResult(input) \in {"ok", "truncated", "corrupt"}
           /\ RefResult(input) = "ok" <=> ValidStream(input)
           /\ cur = <<cur[1], cur[2]>> /\ cur[1] \in Nat /\ cur[2] \in Nat
<1>1. input \in Seq(Unit)
  BY StreamsAssumption DEF Types
<1> QED
  BY <1>1, RefFacts DEF Types

LEMMA SinkWritesStep ==
    ASSUME IInv, SinkWrites
    PROVE  IInv'
<1>1. /\ coord = "decode" /\ rx /\ queue = <<>> /\ answer = "none"
      /\ delivered' \in delivered .. RefLen(input) /\ delivered' > delivered
      /\ queue' = <<<<delivered + 1, delivered'>>>>
      /\ UNCHANGED <<input, answer, coord, left, rx, cur, done, got, told, pc>>
  BY DEF SinkWrites, Proceed, readVars
<1>2. /\ RefLen(input) \in Nat /\ delivered \in Nat
      /\ cur[2] = delivered /\ cur[2] \in Nat /\ got \in Nat
  BY <1>1, StreamFacts DEF IInv, Types, Flow
<1>3. delivered' \in Nat /\ delivered' <= RefLen(input)
  BY <1>1, <1>2
<1>4. Types'
  BY <1>1, <1>3 DEF IInv, Types
<1>5. ~done /\ told = ""
  BY <1>1 DEF IInv, News, Types
<1>6. Flow'
  <2>1. /\ cur' = cur /\ got' = got /\ cur[1] = got + 1 /\ got <= cur[2]
        /\ cur[2] <= delivered' /\ rx' /\ pc' \in {"idle", "recv"}
    BY <1>1, <1>2, <1>3 DEF IInv, Flow
  <2>2. queue' = <<<<cur'[2] + 1, delivered'>>>> /\ told' = ""
    BY <1>1, <1>2, <1>5
  <2> QED
    BY <2>1, <2>2 DEF Flow
<1>7. News'
  BY <1>1, <1>5 DEF IInv, News
<1> QED
  BY <1>4, <1>6, <1>7 DEF IInv

LEMMA DecodeReturnsStep ==
    ASSUME IInv, DecodeReturns
    PROVE  IInv'
<1>1. /\ coord = "decode" /\ answer = "none" /\ answer' # "none"
      /\ answer' \in {RefResult(input), "read", "write"}
      /\ answer' = "ok" => ValidStream(input) /\ delivered' = RefLen(input)
      /\ coord' = "report"
      /\ UNCHANGED <<input, delivered, left, queue, rx, cur, done, got, told, pc>>
  BY DEF DecodeReturns, Return, readVars
<1>2. answer' \in Answers
  BY <1>1, StreamFacts DEF IInv, Answers
<1>3. Types'
  BY <1>1, <1>2 DEF IInv, Types
<1>4. ~done /\ told = "" /\ answer = "none"
  BY <1>1 DEF IInv, News, Types
<1>5. Flow'
  BY <1>1, <1>4 DEF IInv, Flow
<1>6. News'
  BY <1>1, <1>4 DEF IInv, News
<1> QED
  BY <1>3, <1>5, <1>6 DEF IInv

LEMMA CoordinatorEndsStep ==
    ASSUME IInv, CoordinatorEnds
    PROVE  IInv'
<1>1. /\ coord = "report" /\ coord' = "gone"
      /\ queue' = IF rx /\ queue = <<>> /\ answer # "ok" THEN <<<<answer>>>> ELSE queue
      /\ left' = IF queue' # queue THEN "ok" ELSE answer
      /\ UNCHANGED <<input, delivered, refused, answer, rx, cur, done, got, told, pc>>
  BY DEF CoordinatorEnds, Report, promiseVars, readVars
<1>2. Types'
  BY <1>1 DEF IInv, Types
<1>3. ~done /\ told = "" /\ answer # "none"
  BY <1>1 DEF IInv, News, Types
<1>4. CASE rx /\ queue = <<>> /\ answer # "ok"
  <2>1. queue' = <<<<answer>>>> /\ left' = "ok" /\ cur[2] = delivered
    BY <1>1, <1>4 DEF IInv, Flow
  <2>2. Flow'
    BY <1>1, <1>3, <1>4, <2>1 DEF IInv, Flow
  <2>3. News'
    BY <1>1, <1>3, <2>1 DEF IInv, News
  <2> QED
    BY <1>2, <2>2, <2>3 DEF IInv
<1>5. CASE ~(rx /\ queue = <<>> /\ answer # "ok")
  <2>1. queue' = queue /\ left' = answer
    BY <1>1, <1>5
  <2>2. Flow'
    BY <1>1, <1>3, <2>1 DEF IInv, Flow
  <2>3. News'
    BY <1>1, <1>3, <2>1 DEF IInv, News
  <2> QED
    BY <1>2, <2>2, <2>3 DEF IInv
<1> QED
  BY <1>4, <1>5

LEMMA ReadStep ==
    ASSUME IInv, NEW n \in Rooms, Read(n)
    PROVE  IInv'
<1>1. /\ pc = "idle"
      /\ UNCHANGED <<input, delivered, refused, answer, coord, left, rx, done, told, queue>>
  BY DEF Read, coordVars, promiseVars
<1>2. /\ cur[1] \in Nat /\ cur[2] \in Nat /\ cur[1] = got + 1 /\ got <= cur[2]
      /\ n \in Nat /\ got \in Nat /\ cur[2] <= delivered /\ delivered \in Nat
  BY StreamFacts, RoomsAssumption DEF IInv, Flow, Types
<1>3. CASE ~Empty(cur)
  <2>1. PICK k \in Nat : /\ k <= cur[2] - cur[1] + 1
                         /\ got' = got + k /\ cur' = <<cur[1] + k, cur[2]>> /\ pc' = pc
    <3>1. cur[2] - cur[1] + 1 \in Nat
      BY <1>2
    <3> QED
      BY <1>2, <1>3, <3>1 DEF Read
  <2>2. /\ cur'[1] = got' + 1 /\ cur'[2] = cur[2] /\ got' \in Nat /\ got' <= cur'[2]
        /\ cur' \in Nat \X Nat
    BY <1>2, <2>1
  <2>3. ~done
    <3>1. got < cur[2]
      BY <1>2, <1>3 DEF Empty
    <3>2. got # delivered
      BY <1>2, <3>1
    <3> QED
      BY <3>2 DEF IInv, News
  <2>4. Types'
    BY <1>1, <2>1, <2>2 DEF IInv, Types
  <2>5. Flow'
    BY <1>1, <2>1, <2>2 DEF IInv, Flow
  <2>6. News'
    BY <1>1, <2>1, <2>3 DEF IInv, News
  <2> QED
    BY <2>4, <2>5, <2>6 DEF IInv
<1>4. CASE Empty(cur)
  <2>1. pc' = (IF done THEN "idle" ELSE "recv") /\ UNCHANGED <<got, cur>>
    BY <1>4 DEF Read
  <2>2. got = cur[2]
    BY <1>2, <1>4 DEF Empty
  <2>3. pc' \in {"idle", "recv"} /\ (pc' = "recv" => ~done)
    BY <2>1
  <2>4. Types'
    BY <1>1, <2>1, <2>3 DEF IInv, Types
  <2>5. Flow'
    BY <1>1, <2>1, <2>3 DEF IInv, Flow
  <2>6. News'
    BY <1>1, <2>1, <2>2, <2>3 DEF IInv, News
  <2> QED
    BY <2>4, <2>5, <2>6 DEF IInv
<1> QED
  BY <1>3, <1>4

LEMMA ReceiveStep ==
    ASSUME IInv, Receive
    PROVE  IInv'
<1>1. /\ pc = "recv" /\ queue # <<>> /\ queue' = Tail(queue) /\ pc' = "idle"
      /\ IF Len(Head(queue)) = 2
         THEN cur' = Head(queue) /\ UNCHANGED <<done, told>>
         ELSE done' = TRUE /\ told' = Head(queue)[1] /\ UNCHANGED cur
      /\ UNCHANGED <<input, delivered, refused, answer, coord, left, rx, got>>
  BY DEF Receive, coordVars, promiseVars
<1>2. /\ cur[1] \in Nat /\ cur[2] \in Nat /\ cur[1] = got + 1 /\ got = cur[2]
      /\ got \in Nat /\ cur[2] <= delivered /\ delivered \in Nat /\ rx /\ ~done
      /\ told = ""
  BY <1>1, StreamFacts DEF IInv, Flow, Types, News
<1>3. CASE queue = <<<<cur[2] + 1, delivered>>>>
  <2>1. /\ Head(queue) = <<cur[2] + 1, delivered>> /\ Tail(queue) = <<>>
        /\ Len(Head(queue)) = 2
    BY <1>3
  <2>2. /\ cur' = <<cur[2] + 1, delivered>> /\ queue' = <<>>
        /\ UNCHANGED <<done, told>>
    BY <1>1, <2>1
  <2>3. /\ cur'[1] = got + 1 /\ cur'[2] = delivered /\ got <= cur'[2]
        /\ cur' \in Nat \X Nat
    BY <1>2, <2>2
  <2>4. Types'
    BY <1>1, <2>2, <2>3 DEF IInv, Types
  <2>5. Flow'
    <3>1. delivered' = delivered /\ got' = got /\ rx' = rx /\ pc' = "idle"
      BY <1>1
    <3>2. cur'[1] = got' + 1 /\ got' <= cur'[2] /\ cur'[2] = delivered'
      BY <2>3, <3>1
    <3>3. cur'[2] <= delivered'
      <4>1. delivered' \in Nat
        BY <1>2, <3>1
      <4> QED
        BY <4>1, <3>2
    <3> QED
      BY <3>1, <3>2, <3>3, <1>2, <2>2 DEF Flow
  <2>6. queue # <<<<answer>>>>
    <3>1. Len(<<cur[2] + 1, delivered>>) = 2 /\ Len(<<answer>>) = 1
      OBVIOUS
    <3>2. Head(<<<<answer>>>>) = <<answer>>
      OBVIOUS
    <3> QED
      BY <2>1, <3>1, <3>2
  <2>7. News'
    BY <1>1, <1>2, <2>2, <2>6 DEF IInv, News
  <2> QED
    BY <2>4, <2>5, <2>7 DEF IInv
<1>4. CASE /\ queue = <<<<answer>>>> /\ cur[2] = delivered
           /\ coord = "gone" /\ left = "ok" /\ answer \notin {"none", "ok"}
  <2>1. Head(queue) = <<answer>> /\ Tail(queue) = <<>> /\ Len(Head(queue)) # 2
        /\ Head(queue)[1] = answer
    BY <1>4
  <2>2. queue' = <<>> /\ done' = TRUE /\ told' = answer /\ UNCHANGED cur
    BY <1>1, <2>1
  <2>3. told' # "" /\ told' # "end"
    BY <1>4, <2>2 DEF IInv, Types, Answers
  <2>4. Types'
    BY <1>1, <2>2 DEF IInv, Types
  <2>5. Flow'
    BY <1>1, <1>2, <1>4, <2>2 DEF IInv, Flow
  <2>6. News'
    BY <1>1, <1>2, <1>4, <2>2, <2>3 DEF IInv, News
  <2> QED
    BY <2>4, <2>5, <2>6 DEF IInv
<1> QED
  BY <1>1, <1>3, <1>4 DEF IInv, Flow

LEMMA DisconnectedStep ==
    ASSUME IInv, Disconnected
    PROVE  IInv'
<1>1. /\ pc = "recv" /\ queue = <<>> /\ coord = "gone" /\ done' = TRUE
      /\ told' = IF left = "ok" THEN "end" ELSE left
      /\ pc' = "idle"
      /\ UNCHANGED <<input, delivered, refused, answer, coord, left, rx, cur, got, queue>>
  BY DEF Disconnected, coordVars, promiseVars
<1>2. /\ rx /\ ~done /\ told = "" /\ got = cur[2] /\ cur[2] = delivered
      /\ answer # "none" /\ answer \in Answers
  BY <1>1 DEF IInv, Flow, Types, News
<1>3. left = answer
  BY <1>1, <1>2 DEF IInv, News, Answers
<1>4. \/ answer = "ok" /\ told' = "end"
      \/ answer # "ok" /\ told' = answer /\ told' # "" /\ told' # "end"
  BY <1>1, <1>2, <1>3 DEF Answers
<1>5. Types'
  BY <1>1 DEF IInv, Types
<1>6. Flow'
  BY <1>1, <1>2 DEF IInv, Flow
<1>7. News'
  BY <1>1, <1>2, <1>3, <1>4 DEF IInv, News
<1> QED
  BY <1>5, <1>6, <1>7 DEF IInv

LEMMA DropStep ==
    ASSUME IInv, Drop
    PROVE  IInv'
<1>1. /\ pc = "idle" /\ rx' = FALSE /\ queue' = <<>> /\ pc' = "join"
      /\ UNCHANGED <<input, delivered, refused, answer, coord, left, cur, done, got, told>>
  BY DEF Drop, HangUp, coordVars, promiseVars
<1>2. Types'
  BY <1>1 DEF IInv, Types
<1>3. Flow'
  BY <1>1 DEF IInv, Flow
<1>4. News'
  BY <1>1 DEF IInv, News
<1> QED
  BY <1>2, <1>3, <1>4 DEF IInv

LEMMA JoinedStep ==
    ASSUME IInv, Joined
    PROVE  IInv'
<1>1. /\ pc = "join" /\ pc' = "over"
      /\ UNCHANGED <<input, delivered, refused, answer, coord, left, rx, cur, done, got,
                     told, queue>>
  BY DEF Joined, coordVars, promiseVars
<1>2. Types' /\ Flow' /\ News'
  BY <1>1 DEF IInv, Types, Flow, News
<1> QED
  BY <1>2 DEF IInv

\* Nothing happens.
LEMMA StutterStep ==
    ASSUME IInv, UNCHANGED vars
    PROVE  IInv'
<1>1. UNCHANGED <<input, delivered, answer, coord, left, rx, cur, done, got, told, pc, queue>>
  BY DEF vars, coordVars, promiseVars, readVars
<1>2. Types' /\ Flow' /\ News'
  BY <1>1 DEF IInv, Types, Flow, News
<1> QED
  BY <1>2 DEF IInv

(***************************************************************************)
(* Lzma2ParallelReader loses nothing on the way from the coordinator to    *)
(* the caller, whatever the caller reads and whenever it drops the reader. *)
(***************************************************************************)
THEOREM Inductive == Spec => []IInv
<1>1. Init => IInv
  BY InitIInv
<1>2. IInv /\ [Next]_vars => IInv'
  BY SinkWritesStep, DecodeReturnsStep, CoordinatorEndsStep, ReadStep, ReceiveStep,
     DisconnectedStep, DropStep, JoinedStep, StutterStep
     DEF Next, CallerStep, Coordinator, Idle
<1> QED
  BY <1>1, <1>2, PTL DEF Spec

(***************************************************************************)
(* read ends only after all of a valid stream, and an error reaches the    *)
(* caller after everything that was delivered before it, also when the     *)
(* channel was full as decode failed.                                      *)
(***************************************************************************)
THEOREM NothingLost == Spec => []ReadsThrough
<1>1. IInv => ReadsThrough
  <2> SUFFICES ASSUME IInv
               PROVE  ReadsThrough
    OBVIOUS
  <2>1. /\ RefLen(input) \in Nat /\ cur[2] \in Nat /\ got \in Nat /\ delivered \in Nat
        /\ got <= cur[2] /\ cur[2] <= delivered /\ delivered <= RefLen(input)
    BY StreamFacts DEF IInv, Types, Flow
  <2>2. got <= RefLen(input)
    BY <2>1
  <2>3. told = "end" => ValidStream(input) /\ got = RefLen(input)
    BY DEF IInv, News
  <2>4. told \notin {"", "end"} => answer = told /\ got = delivered
    BY DEF IInv, News
  <2> QED
    BY <2>2, <2>3, <2>4 DEF ReadsThrough
<1> QED
  BY <1>1, Inductive, PTL

=============================================================================
