----------------------------- MODULE MCAdaptive -----------------------------
EXTENDS AdaptiveDecoder

\* The run of n chunks, each of x units of output, of which chunk bad does
\* not decode.
R(n, x, bad) == [n |-> n, x |-> x, bad |-> bad]

Runs(shape) ==
    LET In(k)  == SumOf(1 .. k, LAMBDA j : 2 * shape[j].n)
        Out(k) == SumOf(1 .. k, LAMBDA j : shape[j].n * shape[j].x)
    IN  [k \in DOMAIN shape |->
            [lo |-> In(k - 1), hi |-> In(k), olo |-> Out(k - 1), ohi |-> Out(k),
             x |-> shape[k].x, bad |-> shape[k].bad]]

Whole(shape)   == LET r == Runs(shape)
                  IN  [runs |-> r, tail |-> "end", len |-> r[Len(r)].hi + 1]
Cut(shape, n)  == [runs |-> Runs(shape), tail |-> "none", len |-> n]
Illegal(shape) == LET r == Runs(shape)
                  IN  [runs |-> r, tail |-> "illegal", len |-> r[Len(r)].hi + 1]

\* How a caller feeds and drains, with how many threads and how much memory.
C(kind, piece, upTo, threads, memory) ==
    [kind |-> kind, piece |-> piece, upTo |-> upTo, threads |-> threads, memory |-> memory,
     readAhead |-> 0, handBack |-> FALSE, ordered |-> TRUE, chase |-> TRUE]
Patient(c)   == [c EXCEPT !.chase = FALSE]
Unordered(c) == [c EXCEPT !.ordered = FALSE]
Widening(c)  == [c EXCEPT !.readAhead = 3, !.handBack = TRUE]

\* Sound streams, with a run too large for the small limits among them, and
\* streams that do not decode, stop early or go on with an illegal header.
\* Every chunk decodes to the two units that a step of the chase has room for.
SomeStreams ==
    {Whole(<<R(1, 2, 0), R(4, 2, 0), R(1, 2, 0)>>),
     Whole(<<R(1, 2, 0), R(1, 2, 0), R(2, 2, 0), R(1, 2, 0)>>),
     Whole(<<R(4, 2, 3)>>),
     Whole(<<R(1, 2, 0), R(1, 2, 1), R(2, 2, 2), R(1, 2, 0)>>),
     Cut(<<R(1, 2, 0), R(1, 2, 0), R(2, 2, 0)>>, 7),
     Illegal(<<R(1, 2, 0), R(1, 2, 0)>>)}

\* Every way to feed, whole drains and drains of two units, and limits from
\* more than the stream needs to less than its largest run.
SomeCallers ==
    {C("copy", 3, Unbounded, 2, Unbounded), C("copy", 2, 2, 2, 6),
     Patient(C("copy", 4, Unbounded, 2, 6)),
     C("owned", 4, Unbounded, 2, 6), Patient(C("owned", 3, 2, 2, 9)),
     Unordered(C("shared", 3, Unbounded, 2, 9)), C("shared", 1, 2, 1, Unbounded),
     Widening(C("copy", 4, Unbounded, 2, 12)),
     Unordered(Widening(Patient(C("owned", 3, 2, 2, Unbounded))))}

ThreadCounts == {1, 2}
SmallLimit == {6}
FairLimit == {12}
AllFaults == {"spawn", "panic", "rebuild", "cancel"}
NoFaults == {}

\* A caller that has room for everything to begin with.
WideCallers == {Unordered(Widening(Patient(C("owned", 3, 2, 2, Unbounded))))}
LargeSecond == {Whole(<<R(1, 2, 0), R(4, 2, 0), R(1, 2, 0)>>)}

\* A chunk of more than a step of the chase has room for, before a run that
\* is there whole.
OwingStreams == {Whole(<<R(1, 3, 0), R(1, 2, 0), R(1, 2, 0)>>)}
OwingCallers == {Unordered(C("shared", 7, 2, 1, Unbounded))}

\* A run that does not decode, behind a block that a drain cuts.
BadSecond == {Whole(<<R(2, 2, 0), R(1, 2, 1), R(1, 2, 0)>>)}
CutCallers == {Patient(C("shared", 9, 2, 2, Unbounded))}
=============================================================================
