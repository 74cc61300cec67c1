---------------------------- MODULE MCLzmaCodec ----------------------------
(***************************************************************************)
(* Instances of LzmaCodec: short inputs for every packet kind, for stored  *)
(* and coded chunks, and for the push queue; the optimal parser is tried   *)
(* in every way on the shortest.                                           *)
(***************************************************************************)
EXTENDS LzmaCodec

Case(d, fmt, fast, via, mark, damage) ==
    [data |-> d, set |-> [fmt |-> fmt, fast |-> fast, via |-> via, mark |-> mark, damage |-> damage,
                          block |-> 0, limit |-> NoLimit, again |-> <<>>]]

\* The case x, in blocks of n bytes; with at most n bytes promised; and followed by the input d.
InBlocks(x, n) == [x EXCEPT !.set.block = n]
Promised(x, n) == [x EXCEPT !.set.limit = n]
Again(x, d)    == [x EXCEPT !.set.again = <<d>>]

Repeated(x, n) == [i \in 1..n |-> x[((i - 1) % Len(x)) + 1]]

\* Every packet kind: short repeats, the second and the fourth distance, one
\* beyond FullDistances, and a length of the high tree.
Few    == <<3, 3, 0, 3>>
Second == <<0, 3, 1, 2, 1, 2, 1, 1, 1, 0>>
Fourth == <<0, 3, 1, 2, 1, 2, 2, 1, 2, 2, 2, 1, 1, 1>>
FarOff == <<0, 3, 1, 2, 2, 2, 2, 2, 2, 2, 2, 1, 2, 2>>
Runs   == Repeated(<<2>>, 34) \o <<1, 0>> \o Repeated(<<1, 3>>, 20)
\* What does not compress, and is stored.
Noise  == <<0, 1, 2, 3, 0, 2, 1, 3, 3, 1, 0, 2, 2, 0, 3, 1, 3, 2, 1, 0, 0, 3, 2, 1, 1, 2>>

MCCases ==
    {Case(<<>>, f, TRUE, "stream", TRUE, FALSE) : f \in {"lzma", "lzma2"}}
    \cup {Case(Few, "lzma", FALSE, "stream", m, FALSE) : m \in BOOLEAN}
    \cup {Case(SubSeq(Noise, 1, 14), "lzma2", FALSE, "stream", FALSE, FALSE)}
    \cup {Case(x, "lzma", TRUE, "stream", m, FALSE) : x \in {Second, FarOff}, m \in BOOLEAN}
    \cup {Case(Fourth, "lzma", TRUE, "stream", m, TRUE) : m \in BOOLEAN}
    \cup {Case(Runs, "lzma2", TRUE, "stream", FALSE, FALSE)}
    \cup {Case(Repeated(<<1, 3>>, 18), "lzma2", TRUE, "stream", FALSE, TRUE)}
    \cup {Case(Runs \o Noise, f, TRUE, "push", FALSE, FALSE) : f \in {"lzma", "lzma2"}}
    \cup {Case(Noise \o Runs, "lzma2", TRUE, "push", FALSE, FALSE)}
    \cup {Again(Case(Runs \o Noise, f, TRUE, "push", FALSE, FALSE), Second) : f \in {"lzma", "lzma2"}}
    \cup {Again(Case(Fourth, "lzma", TRUE, "stream", TRUE, FALSE), Second)}
    \cup {Again(Promised(InBlocks(Case(SubSeq(Runs, 1, 31), "lzma2", TRUE, "stream", FALSE, FALSE), 13), n),
                Fourth) : n \in {26, 31}}
    \cup {InBlocks(Case(x, "lzma2", TRUE, "stream", FALSE, FALSE), 13) :
            x \in {Noise, SubSeq(Runs, 1, 45)}}
    \cup {Promised(InBlocks(Case(SubSeq(Runs, 1, 31), "lzma2", TRUE, "stream", FALSE, FALSE), b), n) :
            b \in {0, 13}, n \in {26, 30, 31}}
    \cup {Case(x, "lzma2", TRUE, "memory", FALSE, FALSE) : x \in {<<>>, Few, Runs, Noise \o Runs}}

MCPieces == {7, 100}
MCCuts   == {1, 4, 100}
MCRooms  == {1, 5}
=============================================================================
