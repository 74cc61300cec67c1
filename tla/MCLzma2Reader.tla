---------------------------- MODULE MCLzma2Reader ---------------------------
(***************************************************************************)
(* Streams of up to four units of output for the reader.                   *)
(***************************************************************************)
EXTENDS Lzma2Reader

Body(n) == [i \in 1 .. n + 1 |-> IF i = 1 THEN "reset" ELSE "data"]
Few == UNION {{Body(n) \o <<"end">>, Body(n), Body(n) \o <<"bad", "end">>} : n \in 0 .. 4}
=============================================================================
