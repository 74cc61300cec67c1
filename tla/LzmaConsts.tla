----------------------------- MODULE LzmaConsts -----------------------------
(***************************************************************************)
(* The numbers of the LZMA format, for a narrower machine.                 *)
(*                                                                         *)
(* The range coder works on words of four bytes, and everything about it   *)
(* (the carry, the pending bytes, the moment of a normalisation, the bytes *)
(* one symbol can need) depends on the ratios between byte, word and       *)
(* probability, not on their size.  A byte has ByteBits bits here instead  *)
(* of 8, and a distance as many as the last slot spells instead of 32; the *)
(* formulas are those of the code.                                         *)
(***************************************************************************)
EXTENDS Integers, FiniteSets, TLC

CONSTANTS
    ByteBits,     \* 8 in the code
    ProbBits,     \* kNumBitModelTotalBits, 11
    MoveBits,     \* kNumMoveBits, 5
    HighBits,     \* kLenNumHighBits, 8
    SlotBits,     \* kNumPosSlotBits, 6
    EndPosModel,  \* kEndPosModelIndex, 14
    AlignBits,    \* kNumAlignBits, 4
    Lc, Lp, Pb,   \* the properties of the stream
    DictSize      \* the dictionary the stream declares

Byte == 2^ByteBits
Top  == 2^(3 * ByteBits)                  \* K_TOP_VALUE
Word == 2^(4 * ByteBits)

ProbTotal == 2^ProbBits
ProbInit  == ProbTotal \div 2

LowBits    == 3
LowSymbols == 2^LowBits
MatchMin   == 2
SpecLenStart == MatchMin + 2 * LowSymbols + 2^HighBits
MatchMax     == SpecLenStart - 1
ErrorData  == 512
ErrorFail  == ErrorData - 1

StartPosModel == 4
FullDistances == 2^(EndPosModel \div 2)
LenToPosStates == 4
NumStates    == 12
NumLitStates == 7

\* The distance of the end marker: all bits of the last slot set.
LastDistance == 2^((2^SlotBits - 1) \div 2 + 1) - 1

(***************************************************************************)
(* One normalisation after every bit must be enough: the least probability *)
(* the updates can reach leaves at least 1/2^ByteBits of the range.        *)
(***************************************************************************)
LeastProb == 2^MoveBits - 1
ASSUME WidthAssumption ==
    /\ {ByteBits, ProbBits, MoveBits, SlotBits, AlignBits} \subseteq Nat \ {0}
    /\ ProbBits < 3 * ByteBits
    /\ (Top \div ProbTotal) * LeastProb * Byte >= Top
    /\ EndPosModel % 2 = 0 /\ EndPosModel \div 2 - 1 > AlignBits
    /\ Lc \in 0..ByteBits /\ {Lp, Pb} \subseteq 0..4
    /\ DictSize \in 1..LastDistance

ProbOf(probs, i) == IF i \in DOMAIN probs THEN probs[i] ELSE ProbInit

Lesser(a, b) == IF a < b THEN a ELSE b

\* Which literal table: the low Lp bits of the position, then the top Lc of the
\* previous byte, times the three tables of a byte (lp_mask in the code).
LitTable(pos, prev) ==
    LET x == pos * Byte + prev
    IN  3 * ((x % 2^(ByteBits + Lp)) - (x % 2^(ByteBits - Lc))) * 2^Lc
=============================================================================
