------------------------------ MODULE MCLzFind ------------------------------
(***************************************************************************)
(* The instance of LzFind that TLC checks: every kind of finder.           *)
(***************************************************************************)
EXTENDS LzFind

CONSTANTS ShortLen,          \* bytes of a short stream
          FixedLen, FreeLen  \* bytes of a long stream's beginning and end

Kind(n, bt) == [n |-> n, bt |-> bt]

MCKinds == {Kind(2, TRUE), Kind(3, TRUE), Kind(4, TRUE), Kind(5, TRUE), Kind(4, FALSE), Kind(5, FALSE)}

\* Short streams, and streams with a fixed beginning, which fills the window, and
\* a free end, where the positions wrap.
MCStreams ==
  {<<0>> \o s : s \in [1 .. ShortLen - 1 -> {0, 1}]} \cup
  {[i \in 1 .. FixedLen |-> p[(i % Len(p)) + 1]] \o s :
     p \in {<<0, 0, 1>>, <<0, 1, 1, 0>>}, s \in [1 .. FreeLen -> {0, 1}]}
=============================================================================
