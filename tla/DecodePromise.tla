--------------------------- MODULE DecodePromise ---------------------------
(***************************************************************************)
(* What Lzma2ParallelDecoder::decode promises its caller, with no threads: *)
(* the output grows along the output of the sequential decoder, and decode *)
(* returns once.  Success means that all of a valid stream was delivered.  *)
(* Any other answer than the sequential decoder's needs an operation that  *)
(* the environment refused.                                                *)
(***************************************************************************)
EXTENDS Lzma2Stream

VARIABLES
    input,      \* the stream given to decode
    delivered,  \* how many units of output reached the sink
    refused,    \* what the environment refused
    answer      \* what decode returned, "none" while it runs

promiseVars == <<input, delivered, refused, answer>>

PromiseInit ==
    /\ input \in Streams
    /\ delivered = 0
    /\ refused = {}
    /\ answer = "none"

\* More of the output arrives, or the environment refuses something.
Proceed ==
    /\ answer = "none"
    /\ delivered' \in delivered .. RefLen(input)
    /\ refused \subseteq refused'
    /\ UNCHANGED <<input, answer>>

\* decode returns, and nothing is delivered afterwards.
Return ==
    /\ answer = "none" /\ answer' # "none"
    /\ delivered' \in delivered .. RefLen(input)
    /\ refused \subseteq refused'
    /\ answer' = "ok" => ValidStream(input) /\ delivered' = RefLen(input)
    /\ answer' # RefResult(input) => refused' # {}
    /\ UNCHANGED input

Promise ==
    /\ PromiseInit
    /\ [][Proceed \/ Return]_promiseVars
    /\ <>(answer # "none")
=============================================================================
