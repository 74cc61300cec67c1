---------------------------- MODULE MCXzReaders -----------------------------
(***************************************************************************)
(* The files and the options with which TLC reads .xz files.               *)
(***************************************************************************)
EXTENDS XzParallel

MCFiles == Every(TwoStreams) \cup Every(Filtered) \cup Every(Reserved)
             \cup Every(Empty) \cup {<<Four, <<"none">> >>, <<Four, <<"spoil", 16>> >>}

Usual == [verify |-> TRUE, allow |-> FALSE, concat |-> TRUE, maxBlock |-> 9,
          cap |-> 99, mem |-> 99, threads |-> 0, verified |-> FALSE, room |-> 2,
          io |-> 0, retry |-> FALSE, starved |-> FALSE]

MCOptions ==
    {Usual,
     [Usual EXCEPT !.room = 1, !.io = 1],
     [Usual EXCEPT !.room = 9, !.verify = FALSE],
     [Usual EXCEPT !.concat = FALSE, !.allow = TRUE],
     [Usual EXCEPT !.maxBlock = 3, !.room = 4],
     [Usual EXCEPT !.cap = 5, !.mem = 7],
     [Usual EXCEPT !.threads = 1, !.concat = FALSE],
     [Usual EXCEPT !.threads = 1, !.verified = TRUE, !.room = 9,
                   !.io = 2, !.retry = TRUE],
     [Usual EXCEPT !.threads = 2, !.allow = TRUE, !.io = 1, !.starved = TRUE],
     [Usual EXCEPT !.threads = 3, !.room = 9, !.verify = FALSE],
     [Usual EXCEPT !.threads = 3, !.room = 9],
     [Usual EXCEPT !.threads = 2, !.maxBlock = 3, !.room = 9],
     [Usual EXCEPT !.threads = 2, !.cap = 5, !.mem = 20, !.room = 9]}

(* A caller that reads on after the source has failed once. *)
RetryOptions == {[Usual EXCEPT !.threads = 2, !.io = 1, !.retry = TRUE, !.room = 9]}

=============================================================================
