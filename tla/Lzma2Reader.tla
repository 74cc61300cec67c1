----------------------------- MODULE Lzma2Reader ----------------------------
(***************************************************************************)
(* Lzma2ParallelReader of src/src/mt/mod.rs: a reader that runs decode on  *)
(* a thread of its own, the coordinator, and pulls the output through a    *)
(* channel of one block.                                                   *)
(*                                                                         *)
(* Decode is taken at its promise: the coordinator's steps are those of    *)
(* DecodePromise, which Lzma2MtDecode is shown to keep, with a sink that   *)
(* waits for room in the channel.                                          *)
(***************************************************************************)
EXTENDS DecodePromise

CONSTANTS
    Rooms,      \* the sizes of the buffers the caller reads into
    SourceFails \* may the source refuse to be read?

ASSUME RoomsAssumption == Rooms \subseteq Nat
ASSUME SourceFailsAssumption == SourceFails \in BOOLEAN

VARIABLES
    queue,      \* the channel: blocks <<first, last>> of output, or <<error>>
    rx,         \* the reader's end of it exists
    coord,      \* the coordinator: "decode", "report" or "gone"
    left,       \* the result it leaves for join
    cur,        \* the reader's block: first and last unit not handed out yet
    done,
    got,        \* how much the caller has been given
    told,       \* what the caller was told: "" (more may come), "end" or an error
    pc          \* the caller: "idle", "recv", "join" or "over"

coordVars == <<promiseVars, coord, left>>
readVars == <<rx, cur, done, got, told, pc>>
vars == <<coordVars, readVars, queue>>

Init ==
    /\ PromiseInit
    /\ queue = <<>>
    /\ rx = TRUE
    /\ coord = "decode"
    /\ left = "none"
    /\ cur = <<1, 0>>
    /\ done = FALSE
    /\ got = 0
    /\ told = ""
    /\ pc = "idle"

-----------------------------------------------------------------------------
(* The coordinator.                                                        *)

(* ChannelSink::write waits for room. *)
SinkWrites ==
    /\ coord = "decode"
    /\ rx /\ queue = <<>>
    /\ UNCHANGED refused
    /\ Proceed
    /\ delivered' > delivered
    /\ queue' = <<<<delivered + 1, delivered'>>>>
    /\ UNCHANGED <<coord, left, readVars>>

(* decode returns: because the reader went away, the source failed, or as  *)
(* it would have done anyway.                                              *)
Refuses ==
    {refused} \cup (IF rx THEN {} ELSE {refused \cup {"write"}})
              \cup (IF SourceFails THEN {refused \cup {"read"}} ELSE {})

DecodeReturns ==
    /\ coord = "decode"
    /\ answer' \in {RefResult(input), "read", "write"}
    /\ refused' \in Refuses
    /\ answer' \in {"read", "write"} => answer' \in refused'
    /\ answer' = RefResult(input) => refused' = refused /\ delivered = RefLen(input)
    /\ Return
    /\ UNCHANGED delivered
    /\ coord' = "report"
    /\ UNCHANGED <<left, queue, readVars>>

(* Mutation of Report: an error that does not fit is lost. *)
ReportOrLose ==
    /\ queue' = IF rx /\ queue = <<>> /\ answer # "ok" THEN <<<<answer>>>> ELSE queue
    /\ left' = "ok"

(* The error itself goes to the reader if there is room for it, and is     *)
(* left for join otherwise.                                                *)
Report ==
    /\ queue' = IF rx /\ queue = <<>> /\ answer # "ok" THEN <<<<answer>>>> ELSE queue
    /\ left' = IF queue' # queue THEN "ok" ELSE answer

CoordinatorEnds ==
    /\ coord = "report"
    /\ Report
    /\ coord' = "gone"
    /\ UNCHANGED <<promiseVars, readVars>>

Coordinator == SinkWrites \/ DecodeReturns \/ CoordinatorEnds

-----------------------------------------------------------------------------
(* The reader.                                                             *)

Empty(block) == block[1] > block[2]

(* read: from the block in hand, else the next one is waited for; a reader *)
(* that is done says the end again.                                        *)
Read(n) ==
    /\ pc = "idle"
    /\ IF ~Empty(cur)
         THEN LET k == IF n < cur[2] - cur[1] + 1 THEN n ELSE cur[2] - cur[1] + 1
              IN  /\ got' = got + k
                  /\ cur' = <<cur[1] + k, cur[2]>>
                  /\ UNCHANGED pc
         ELSE /\ pc' = IF done THEN "idle" ELSE "recv"
              /\ UNCHANGED <<got, cur>>
    /\ UNCHANGED <<coordVars, rx, done, told, queue>>

Receive ==
    /\ pc = "recv"
    /\ queue # <<>>
    /\ queue' = Tail(queue)
    /\ pc' = "idle"
    /\ IF Len(Head(queue)) = 2
         THEN cur' = Head(queue) /\ UNCHANGED <<done, told>>
         ELSE done' = TRUE /\ told' = Head(queue)[1] /\ UNCHANGED cur
    /\ UNCHANGED <<coordVars, rx, got>>

(* The coordinator's ends are gone: finish joins it for its result.        *)
Disconnected ==
    /\ pc = "recv"
    /\ queue = <<>> /\ coord = "gone"
    /\ done' = TRUE
    /\ told' = IF left = "ok" THEN "end" ELSE left
    /\ pc' = "idle"
    /\ UNCHANGED <<coordVars, rx, cur, got, queue>>

(* Mutation of HangUp: drop joins with the channel still open. *)
JoinFirst == UNCHANGED <<rx, queue>> /\ pc' = "join"

(* drop: hang up, then join. *)
HangUp == rx' = FALSE /\ queue' = <<>> /\ pc' = "join"

Drop ==
    /\ pc = "idle"
    /\ HangUp
    /\ UNCHANGED <<coordVars, cur, done, got, told>>

Joined ==
    /\ pc = "join"
    /\ coord = "gone"
    /\ pc' = "over"
    /\ UNCHANGED <<coordVars, rx, cur, done, got, told, queue>>

Idle == pc = "over" /\ UNCHANGED vars

CallerStep == Receive \/ Disconnected \/ Joined \/ \E n \in Rooms : Read(n)

Next == CallerStep \/ Drop \/ Coordinator \/ Idle

(* Both threads run.  The caller reads until it is told the end, or stops  *)
(* before; it drops the reader in the end.                                 *)
CallerReady ==
    \/ pc = "idle" /\ ~(done /\ Empty(cur))
    \/ pc = "recv" /\ (queue # <<>> \/ coord = "gone")
    \/ pc = "join" /\ coord = "gone"

CoordinatorReady == 
    \/ coord = "report"
    \/ coord = "decode" /\ (queue = <<>> \/ ~rx)

Fairness ==
    /\ []<>~CallerReady \/ []<><<CallerStep>>_vars
    /\ []<>~CoordinatorReady \/ []<><<Coordinator>>_vars
    /\ []<>(pc # "idle" \/ ~done) \/ []<><<Drop>>_vars

Spec == Init /\ [][Next]_vars /\ Fairness

-----------------------------------------------------------------------------
(* The caller gets the beginning of the output and is told what became of  *)
(* it: the end only after all of a valid stream, an error exactly when     *)
(* decode failed, even when the channel was full as it failed.             *)
ReadsThrough ==
    /\ got <= RefLen(input)
    /\ told = "end" => ValidStream(input) /\ got = RefLen(input)
    /\ told \notin {"", "end"} => answer = told /\ got = delivered

(* Whether it reads to the end or drops the reader before, the caller      *)
(* comes back and the coordinator is gone: read, drop and finish.          *)
ReaderStops == <>[](pc = "over" /\ coord = "gone")

=============================================================================
