----------------------------- MODULE MCLzFindMt -----------------------------
(***************************************************************************)
(* The instance of LzFindMt that TLC checks.                               *)
(***************************************************************************)
EXTENDS LzFindMt

CONSTANTS FirstLen, LaterLen   \* bytes of the first and of a later input

Periodic(p, n) == [i \in 1 .. n |-> p[(i % Len(p)) + 1]]

MCInputs == [k \in 1 .. NumStreams |->
  IF k = 1
  THEN {[data |-> Periodic(<<0, 0, 0, 0, 1, 0, 1>>, FirstLen), direct |-> d] : d \in BOOLEAN}
  ELSE {[data |-> Periodic(<<0, 0, 1>>, LaterLen), direct |-> FALSE]}]
=============================================================================
