----------------------------- MODULE MCMtCoder -----------------------------
(***************************************************************************)
(* Model checking the block-parallel coder.                                *)
(***************************************************************************)
EXTENDS MtCoder

\* Inputs of zero to four blocks, one more than there are slots, of which the
\* last may be short or, for a stream, empty; the size announced, or not; with
\* and without direct output.
Slices == {[kind |-> "data", len |-> n, expected |-> -1, direct |-> d] :
                n \in {0, 1, 4, 7}, d \in BOOLEAN}
Unannounced == {[kind |-> "stream", len |-> n, expected |-> -1, direct |-> FALSE] :
                n \in {0, 1, 4, 7}}
Announced == {[kind |-> "stream", len |-> n, expected |-> n, direct |-> d] :
                n \in {2, 6}, d \in BOOLEAN}
SomeInputs == Slices \cup Unannounced \cup Announced

AllFaults == FaultKind
=============================================================================
