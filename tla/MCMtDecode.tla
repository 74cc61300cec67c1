---------------------------- MODULE MCMtDecode ----------------------------
(***************************************************************************)
(* Model checking the threaded LZMA2 decoder on short streams.             *)
(***************************************************************************)
EXTENDS Lzma2MtDecode

R == "reset"
D == "data"
B == "bad"
X == "illegal"
E == "end"

\* One independent block each, and how a stream may end.
Blocks == {<<R, D>>, <<R, D, D>>, <<R, D, D, D>>, <<R, B>>, <<R, D, X>>}
Ends   == {<<E>>, <<>>, <<X>>}

\* Up to three blocks and an end, of every shape.
AllStreams ==
    {e : e \in Ends} \cup {a \o e : a \in Blocks, e \in Ends} \cup
    {a \o b \o e : a \in Blocks, b \in Blocks, e \in Ends} \cup
    {a \o b \o c \o e : a \in Blocks, b \in Blocks, c \in Blocks, e \in Ends}

\* Streams without an end marker, or whose end marker is in a buffer that
\* the read of it does not fill.
ShortEnd(s) == ValidStream(s) => Len(s) % 3 # 0

\* Four blocks and more, for which three threads go round the ring.
RoundStreams ==
    {<<R, D, R, D, R, D>> \o b \o e : b \in {<<R, D, D>>, <<R, B>>, <<R, D, R, D>>},
                                     e \in {<<E>>, <<>>}}

CleanStreams == {s \in AllStreams \cup RoundStreams : ShortEnd(s)}

\* Five blocks for the ring to go round, a small one among them, and streams
\* that the ring cannot decode to the end.
LongStreams ==
    {s \in {a \o <<R, D, R, D, D>> \o b \o <<R, D>> \o e :
                a \in {<<R, D>>, <<R, D, D, D, D>>}, b \in Blocks, e \in Ends} :
        ValidStream(s) => Len(s) % 2 # 0}

\* Valid streams whose end marker is the last unit of a full buffer.
FullBufferStreams == {s \in AllStreams : ValidStream(s) /\ ~ShortEnd(s)}

\* Short valid streams, and one with a body that does not decode.
FewStreams == {<<R, D, E>>, <<R, D, R, D, E>>, <<R, D, R, D, R, D, E>>, <<R, D, R, B, E>>}

NoFaults == {}
AllFaults == FaultKind
AllButCoder == FaultKind \ {"coder"}
CoderFault == {"coder"}
ReadFault == {"read"}

(***************************************************************************)
(* The segmenter on every plan with four split points at most, fed in      *)
(* three pieces: the segments are the ones promised, and update is its     *)
(* loop.                                                                   *)
(***************************************************************************)
Cutter == INSTANCE Segmenter

CutPlans == {Cutter!WithSplitPoints(kind, points) : kind \in Cutter!Kinds, points \in SUBSET (0 .. 4)}

Fed(plan, start, n, m, k) ==
    Cutter!Update(Cutter!Update(Cutter!Update(Cutter!NewSegmenter(plan, start), n), m), k)

ASSUME SegmentsAsPromised ==
    \A plan \in CutPlans, start \in 0 .. 2, n, m, k \in 0 .. 2 :
        LET g == Fed(plan, start, n, m, k)
        IN  /\ Cutter!Finish(g) = Cutter!Promised(plan, start, start + n + m + k)
            /\ plan.kind \in Cutter!Crcs =>
                 \A more \in 1 .. 2 :
                    Cutter!Update(g, more) =
                      IF Cutter!Cuts(g, more) = {} THEN Cutter!Pass(g, more)
                      ELSE Cutter!Update(Cutter!Pass(g, more), more - Cutter!Take(g, more))
=============================================================================
