---------------------------- MODULE MCXzAdaptive ----------------------------
(***************************************************************************)
(* The files and the callers with which TLC runs the adaptive decoder.     *)
(***************************************************************************)
EXTENDS XzAdaptive

Three == << Stream("crc", <<Plain(<<1, 2, 0>>, TRUE), Plain(<<3>>, TRUE),
                            Plain(<<2, 2>>, FALSE)>>, 2),
            Stream("crc", <<Plain(<<0>>, TRUE)>>, 0) >>

Usual == [verify |-> TRUE, allow |-> FALSE, concat |-> TRUE, maxBlock |-> 9,
          cap |-> 99, mem |-> 99, ceilings |-> {1}, piece |-> 5, limit |-> 99,
          starved |-> FALSE, cancels |-> FALSE]

Intact(streams) == <<streams, <<"none">> >>
Worse(streams, harms) == {streams} \X harms
SomeHarms == {<<"none">>, <<"spoil", 11>>, <<"spoil", 20>>, <<"flip", 10>>,
              <<"cut", 23>>, <<"cut", 40>>, <<"lie", "count">>, <<"lie", "short">>,
              <<"lie", "uncompressed">>}

MCLots ==
    {<<Every(TwoStreams) \cup Every(Filtered) \cup Every(Reserved) \cup Every(Empty),
       {Usual, [Usual EXCEPT !.piece = 99, !.verify = FALSE, !.concat = FALSE]}>>,
     <<{Intact(TwoStreams), Intact(Filtered), Intact(Three)},
       {[Usual EXCEPT !.piece = 1, !.limit = 2]}>>,
     <<Worse(TwoStreams, SomeHarms) \cup Worse(Three, SomeHarms),
       {[Usual EXCEPT !.ceilings = {2}, !.piece = 99, !.limit = 1, !.starved = TRUE],
        [Usual EXCEPT !.ceilings = {1, 3}, !.piece = 9, !.mem = 24, !.allow = TRUE],
        [Usual EXCEPT !.ceilings = {3}, !.piece = 17, !.cap = 5, !.cancels = TRUE]}>>,
     <<{Intact(Four), <<Four, <<"spoil", 16>> >>},
       {[Usual EXCEPT !.ceilings = {3}, !.piece = 33, !.limit = 1],
        [Usual EXCEPT !.ceilings = {1, 2}, !.piece = 21, !.mem = 30]}>>}

=============================================================================
