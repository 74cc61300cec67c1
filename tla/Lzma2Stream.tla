---------------------------- MODULE Lzma2Stream ----------------------------
(***************************************************************************)
(* A raw LZMA2 stream, as the block parser of the threaded decoder and the *)
(* sequential decoder see it, and the two walks over it.                   *)
(*                                                                         *)
(* A stream is a sequence of units; an offset o stands for the bytes after *)
(* the first o units, so a buffer that holds the units lo+1 .. hi is the   *)
(* pair of offsets (lo, hi).  A unit is what the walks tell apart:         *)
(*   "reset"   the control byte of a chunk that resets the dictionary      *)
(*             (0x01 or >= 0xE0), where an independent block may start     *)
(*   "data"    a chunk body that decodes to one unit of output             *)
(*   "bad"     a chunk body that the entropy decoder refuses               *)
(*   "illegal" a control or property byte the format does not allow        *)
(*   "end"     the end marker, control byte 0x00                           *)
(***************************************************************************)
EXTENDS Integers, Sequences, FiniteSets

CONSTANTS
    Streams,        \* the streams a run is started on
    OutBlockMax,    \* props.out_block_max, in units of output
    SmallBlock      \* SMALL_BLOCK, in units of output

Unit    == {"reset", "data", "bad", "illegal", "end"}
Payload == {"data", "bad"}

ASSUME StreamsAssumption == Streams \subseteq Seq(Unit)
ASSUME OutBlockMaxAssumption == OutBlockMax \in Nat \ {0}
ASSUME SmallBlockAssumption == SmallBlock \in Nat \ {0}

(***************************************************************************)
(* The output, in units, of the input units lo+1 .. hi.                    *)
(***************************************************************************)
Produced(s, lo, hi) == Cardinality({i \in lo+1 .. hi : s[i] \in Payload})

(***************************************************************************)
(* Lzma2Frame::update_state, for a frame initialised at offset b: besides  *)
(* the bytes no frame allows, a chunk is refused while need_init_level     *)
(* still asks for a dictionary reset, that is, as the first one.           *)
(***************************************************************************)
Illegal(s, b, i) ==
    \/ s[i] = "illegal"
    \/ s[i] \in Payload /\ i = b + 1

-----------------------------------------------------------------------------
(***************************************************************************)
(* Lzma2Coder::parse over Lzma2Parser::parse.  The block began at offset b *)
(* and this call is given the units lo+1 .. hi.                            *)
(***************************************************************************)

\* The walk stops at unit i: the end marker, an illegal byte, a block
\* boundary once the block is no longer small, or a chunk that does not fit.
Stops(s, b, i) ==
    \/ s[i] = "end"
    \/ Illegal(s, b, i)
    \/ s[i] = "reset"   /\ Produced(s, b, i - 1) >= SmallBlock
    \/ s[i] \in Payload /\ Produced(s, b, i - 1) = OutBlockMax

\* i is the unit at which the walk over lo+1 .. hi stops, hi + 1 if none.
FirstStop(s, b, lo, hi, i) ==
    /\ i <= hi => Stops(s, b, i)
    /\ \A j \in lo+1 .. i-1 : ~Stops(s, b, j)

\* i is the last boundary of a small block this call passed before unit n
\* (src_size_point, dic_pos_point), n itself if it passed none.
LastPoint(s, b, lo, n, i) ==
    LET Point(j) == s[j] = "reset" /\ Produced(s, b, j - 1) > 0
    IN  /\ i < n => Point(i)
        /\ \A j \in lo+1 .. n-1 : j > i \/ i = n => ~Point(j)

ParseState  == {"continue", "overflow", "new", "end"}
ParseStatus == {"notspec", "notfin", "mark", "new", "more"}

Outcome(state, status, pos, failed) ==
    [state |-> state, status |-> status, pos |-> pos, failed |-> failed]

\* What the call reports when it stopped at unit n with the small-block
\* boundary p (p = n: none): the state, the status, the offset up to which
\* the block now reaches and whether the walk met an illegal byte.  At the
\* end of the input, and when the block does not fit, it reverts to the
\* boundary if there is one.
ParseAt(s, b, hi, n, p) ==
    LET failed == n <= hi /\ Illegal(s, b, n)
        full   == Produced(s, b, n - 1) = OutBlockMax
        marked == n <= hi /\ s[n] = "end"
        fresh  == n <= hi /\ s[n] = "reset"
    IN  IF failed /\ ~full THEN Outcome("end", "notspec", n, TRUE)
        ELSE IF marked     THEN Outcome("end", "mark", n, FALSE)
        ELSE IF fresh      THEN Outcome("new", "new", n - 1, FALSE)
        ELSE IF p < n      THEN Outcome("new", "new", p - 1, failed)
        ELSE IF n <= hi    THEN Outcome("overflow", "notfin", n, failed)
        ELSE Outcome("continue", "more", hi, FALSE)

Parse(s, b, lo, hi) ==
    {ParseAt(s, b, hi, q[1], q[2]) :
        q \in {q \in (lo+1 .. hi+1) \X (lo+1 .. hi+1) :
                  /\ q[2] <= q[1]
                  /\ FirstStop(s, b, lo, hi, q[1])
                  /\ LastPoint(s, b, lo, q[1], q[2])}}

-----------------------------------------------------------------------------
(***************************************************************************)
(* The reference: what the sequential decoder makes of the whole stream.   *)
(***************************************************************************)

\* The decoder gives up or is done at unit i.
Breaks(s, i) == s[i] \in {"end", "bad"} \/ Illegal(s, 0, i)

\* The offset before the first such unit: everything before it decodes.
GoodTo(s) ==
    CHOOSE n \in 0 .. Len(s) :
        /\ \A i \in 1 .. n : ~Breaks(s, i)
        /\ n < Len(s) => Breaks(s, n + 1)

RefLen(s)  == Produced(s, 0, GoodTo(s))
ValidStream(s) == GoodTo(s) < Len(s) /\ s[GoodTo(s) + 1] = "end"

\* What the sequential decoder returns for stream s.
RefResult(s) ==
    CASE ValidStream(s)      -> "ok"
      [] GoodTo(s) = Len(s)  -> "truncated"
      [] OTHER               -> "corrupt"
=============================================================================
