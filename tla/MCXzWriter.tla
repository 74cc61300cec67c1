----------------------------- MODULE MCXzWriter -----------------------------
(***************************************************************************)
(* The callers with which TLC writes .xz files and LZMA2 streams.          *)
(***************************************************************************)
EXTENDS XzWriter

Usual == [kind |-> "xz", data |-> <<1, 2, 1, 3, 1, 1, 0>>, pieces |-> {3, 5},
          check |-> "crc", filters |-> <<>>, block |-> Solid, threads |-> 1,
          room |-> 2, stream |-> TRUE, spawns |-> {TRUE}, fails |-> FALSE,
          broken |-> 0, refusals |-> 0, change |-> "none", drops |-> FALSE]

Long == <<1, 2, 1, 3, 1, 1, 0, 1, 2, 3, 1, 0, 2, 1, 1, 3>>

MCOptions ==
    {[Usual EXCEPT !.data = Long, !.pieces = {6, 16}, !.room = 9],
     [Usual EXCEPT !.refusals = 2, !.pieces = {4}],
     [Usual EXCEPT !.filters = <<Delta, Bcj>>, !.spawns = BOOLEAN,
                   !.change = "early"],
     [Usual EXCEPT !.fails = TRUE, !.drops = TRUE],
     [Usual EXCEPT !.kind = "lzma2", !.refusals = 2, !.pieces = {4}],
     [Usual EXCEPT !.kind = "lzma2", !.data = Long, !.pieces = {7, 16}, !.room = 9,
                   !.spawns = BOOLEAN],
     [Usual EXCEPT !.block = 2, !.threads = 2, !.refusals = 2, !.drops = TRUE],
     [Usual EXCEPT !.block = 3, !.filters = <<Bcj>>, !.broken = 2,
                   !.change = "early"],
     [Usual EXCEPT !.kind = "enc", !.change = "block", !.threads = 2],
     [Usual EXCEPT !.kind = "enc", !.stream = FALSE, !.change = "early",
                   !.block = 2, !.threads = 2],
     [Usual EXCEPT !.kind = "enc", !.pieces = {3}, !.data = <<>>]}

(* A caller that changes the number of block threads between two writes.   *)
ThreadOptions == {[Usual EXCEPT !.block = 2, !.threads = 2, !.change = "threads"]}

(* A caller that sets the check when it has written no more than a block.  *)
CheckOptions == {[Usual EXCEPT !.block = 3, !.threads = 2, !.change = "check"]}

=============================================================================
