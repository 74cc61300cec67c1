------------------------- MODULE Lzma2Stream_proofs -------------------------
(***************************************************************************)
(* Facts about a stream of units and the walk of the sequential decoder    *)
(* over it, which the proofs about the threaded decoder rest on.           *)
(***************************************************************************)
EXTENDS Lzma2Stream, TLAPS, FiniteSetTheorems, WellFoundedInduction

\* The output of a piece of input is a natural number of units.
LEMMA ProducedNat ==
    ASSUME NEW s, NEW lo \in Nat, NEW hi \in Nat
    PROVE  Produced(s, lo, hi) \in Nat
<1> DEFINE S == {i \in lo+1 .. hi : s[i] \in Payload}
<1>1. IsFiniteSet(lo+1 .. hi)  BY FS_Interval
<1>2. IsFiniteSet(S)  BY <1>1, FS_Subset
<1>3. QED  BY <1>2, FS_CardinalityType DEF Produced

\* Every nonempty set of natural numbers has a least element.
LEMMA Least ==
    ASSUME NEW T \in SUBSET Nat, T # {}
    PROVE  \E m \in T : \A n \in T : m <= n
<1>1. PICK m \in T : \A n \in T : <<n, m>> \notin OpToRel(<, Nat)
  BY WFMin, NatLessThanWellFounded, Zenon
<1>2. \A n \in T : ~(n < m)
  BY <1>1 DEF OpToRel
<1>3. \A n \in T : m \in Nat /\ n \in Nat /\ m <= n
  BY <1>2
<1> QED
  BY <1>3

(***************************************************************************)
(* The sequential decoder stops somewhere: all that lies before is good,   *)
(* and the unit after it, if there is one, is the end or an error.         *)
(***************************************************************************)
LEMMA GoodToFacts ==
    ASSUME NEW s \in Seq(Unit)
    PROVE  /\ GoodTo(s) \in 0 .. Len(s)
           /\ \A i \in 1 .. GoodTo(s) : ~Breaks(s, i)
           /\ GoodTo(s) < Len(s) => Breaks(s, GoodTo(s) + 1)
<1> DEFINE Good(n) == /\ \A i \in 1 .. n : ~Breaks(s, i)
                      /\ n < Len(s) => Breaks(s, n + 1)
           T == {i \in 1 .. Len(s) : Breaks(s, i)}
<1>1. Len(s) \in Nat
  OBVIOUS
<1>2. \E n \in 0 .. Len(s) : Good(n)
  <2>1. CASE T = {}
    <3>1. Good(Len(s))
      BY <2>1, <1>1
    <3> QED
      BY <3>1, <1>1
  <2>2. CASE T # {}
    <3>1. T \in SUBSET Nat
      BY <1>1
    <3>2. PICK m \in T : \A n \in T : m <= n
      BY <2>2, <3>1, Least
    <3>3. m \in 1 .. Len(s) /\ m - 1 \in 0 .. Len(s) /\ (m - 1) + 1 = m
      BY <1>1, <3>2
    <3>4. \A i \in 1 .. m - 1 : i \in 1 .. Len(s) /\ ~(m <= i)
      BY <1>1, <3>3
    <3>5. Good(m - 1)
      BY <3>2, <3>3, <3>4
    <3> QED
      BY <3>3, <3>5
  <2> QED
    BY <2>1, <2>2
<1>3. GoodTo(s) = CHOOSE n \in 0 .. Len(s) : Good(n)
  BY DEF GoodTo
<1> QED
  BY <1>2, <1>3

\* The output of the sequential decoder is a number of units, and its answer
\* one of three.
LEMMA RefFacts ==
    ASSUME NEW s \in Seq(Unit)
    PROVE  /\ RefLen(s) \in Nat
           /\ RefResult(s) \in {"ok", "truncated", "corrupt"}
           /\ RefResult(s) = "ok" <=> ValidStream(s)
<1>1. GoodTo(s) \in Nat
  BY GoodToFacts
<1>2. RefLen(s) \in Nat
  BY <1>1, ProducedNat DEF RefLen
<1>3. ValidStream(s) => GoodTo(s) # Len(s)
  BY <1>1 DEF ValidStream
<1>4. CASE ValidStream(s)
  BY <1>2, <1>3, <1>4 DEF RefResult
<1>5. CASE ~ValidStream(s) /\ GoodTo(s) = Len(s)
  BY <1>2, <1>5 DEF RefResult
<1>6. CASE ~ValidStream(s) /\ GoodTo(s) # Len(s)
  BY <1>2, <1>6 DEF RefResult
<1> QED
  BY <1>4, <1>5, <1>6
=============================================================================
