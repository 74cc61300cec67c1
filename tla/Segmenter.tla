----------------------------- MODULE Segmenter -----------------------------
(***************************************************************************)
(* How the checksums of the decoded output are cut (mt/checksum.rs).  The  *)
(* caller names split points; each run of output, a worker's block or the  *)
(* single-threaded tail, is fed to a segmenter, whole or piece by piece,   *)
(* which closes a segment at each split point that divides its bytes.      *)
(*                                                                         *)
(* A checksum is perfect: a segment stands for that of its bytes.  The     *)
(* sorted split points are a set, and next_split, an index into them, is   *)
(* the set `ahead` of those from there on.                                 *)
(***************************************************************************)
EXTENDS Integers, FiniteSetsExt, TLAPS, WellFoundedInduction

\* The kinds that are cut; a digest of the whole block is not, and "none" is nothing.
Crcs == {"crc32", "crc64"}

Kinds == Crcs \cup {"sha256", "none"}

\* ChecksumPlan::with_split_points.
WithSplitPoints(kind, points) == [kind |-> kind, splits |-> points \ {0}]

\* Segmenter::new, for a run that begins at offset start.
NewSegmenter(plan, start) ==
    [kind |-> plan.kind, ahead |-> {c \in plan.splits : c > start},
     start |-> start, segStart |-> start, pos |-> start, segments |-> {}]

\* The segments between the neighbours in S.
Neighbours(S) == {p \in S \X S : p[1] < p[2] /\ \A c \in S : c <= p[1] \/ c >= p[2]}

Segment(p) == [offset |-> p[1], len |-> p[2] - p[1]]

Segments(S) == {Segment(p) : p \in Neighbours(S)}

\* The split points that the next n bytes reach: one at their very end divides nothing yet.
Cuts(g, n) == {c \in g.ahead : c < g.pos + n}

\* One pass of the loop of update, with n bytes left: up to the next cut, or to the end.
Take(g, n) == IF Cuts(g, n) = {} THEN n ELSE Min(Cuts(g, n)) - g.pos

Pass(g, n) ==
    LET to == g.pos + Take(g, n)
    IN IF Cuts(g, n) = {} THEN [g EXCEPT !.pos = to]
       ELSE [g EXCEPT !.pos = to, !.segStart = to, !.ahead = @ \ {to},
                      !.segments = @ \cup Segments({g.segStart, to})]

\* All of update.  A kind without a running checksum only counts.
Update(g, n) ==
    IF g.kind \notin Crcs \/ Cuts(g, n) = {} THEN [g EXCEPT !.pos = @ + n]
    ELSE [g EXCEPT !.pos = @ + n, !.segStart = Max(Cuts(g, n)), !.ahead = @ \ Cuts(g, n),
                   !.segments = @ \cup Segments({g.segStart} \cup Cuts(g, n))]

\* finish closes the last segment if it is not empty.
Finish(g) ==
    [offset |-> g.start, len |-> g.pos - g.start, digest |-> g.kind = "sha256",
     segments |-> g.segments \cup (IF g.kind \in Crcs THEN Segments({g.segStart, g.pos}) ELSE {})]

\* What is promised of a run from start to end: the segments between the split points
\* that lie strictly inside it.
Promised(plan, start, end) ==
    [offset |-> start, len |-> end - start, digest |-> plan.kind = "sha256",
     segments |-> IF plan.kind \in Crcs
                  THEN Segments({start, end} \cup {c \in plan.splits : start < c /\ c < end}) ELSE {}]

-----------------------------------------------------------------------------
(***************************************************************************)
(* A segmenter of the plan that began at start: what it has closed lies    *)
(* between the split points behind it, the open segment began at the last  *)
(* of them, and those at its position or further on are still ahead.       *)
(***************************************************************************)
Behind(plan, start, pos) == {start} \cup {c \in plan.splits : start < c /\ c < pos}

Runs(g, plan, start) ==
    /\ g.kind = plan.kind /\ g.start = start
    /\ g.pos \in Nat /\ g.pos >= start
    /\ g = [kind |-> g.kind, ahead |-> g.ahead, start |-> g.start, segStart |-> g.segStart,
            pos |-> g.pos, segments |-> g.segments]
    /\ g.kind \in Crcs =>
          /\ g.ahead = {c \in plan.splits : c > start /\ c >= g.pos}
          /\ g.segStart \in Behind(plan, start, g.pos)
          /\ \A c \in Behind(plan, start, g.pos) : c <= g.segStart
          /\ g.segments = Segments(Behind(plan, start, g.pos))
    /\ g.kind \notin Crcs => g.segments = {}

\* A plan, and where a run of its begins.
IsPlan(plan) ==
    /\ plan = [kind |-> plan.kind, splits |-> plan.splits]
    /\ plan.kind \in Kinds /\ plan.splits \subseteq Nat \ {0}

\* Every nonempty set of natural numbers has a least element.
LEMMA HasLeast ==
    ASSUME NEW T \in SUBSET Nat, T # {}
    PROVE  Min(T) \in T /\ \A n \in T : Min(T) <= n
<1>1. PICK m \in T : \A n \in T : <<n, m>> \notin OpToRel(<, Nat)
  BY WFMin, NatLessThanWellFounded, Zenon
<1>2. \A n \in T : n \in Nat /\ m \in Nat /\ ~(n < m)
  BY <1>1 DEF OpToRel
<1>3. \A n \in T : m <= n
  BY <1>2
<1>4. \E x \in T : \A y \in T : x <= y
  BY <1>3
<1> QED
  BY <1>4 DEF Min

\* One with a bound has a greatest.
LEMMA HasGreatest ==
    ASSUME NEW T \in SUBSET Nat, T # {}, NEW k \in Nat, \A n \in T : n <= k
    PROVE  Max(T) \in T /\ \A n \in T : n <= Max(T)
<1> DEFINE D == {d \in Nat : \E n \in T : d = k - n}
<1>1. PICK n0 \in T : TRUE
  OBVIOUS
<1>2. k - n0 \in D
  BY <1>1
<1>3. Min(D) \in D /\ \A d \in D : Min(D) <= d
  BY <1>2, HasLeast
<1> HIDE DEF D
<1>4. PICK m \in T : Min(D) = k - m
  BY <1>3 DEF D
<1>5. ASSUME NEW n \in T PROVE n <= m
  <2>1. k - n \in D
    BY <1>5 DEF D
  <2>2. k - m <= k - n
    BY <2>1, <1>3, <1>4
  <2> QED
    BY <2>2
<1>6. \E x \in T : \A y \in T : x >= y
  BY <1>5
<1> QED
  BY <1>6 DEF Max

\* The neighbours in a set, and in more numbers behind its greatest.
LEMMA NeighboursJoin ==
    ASSUME NEW S \in SUBSET Nat, NEW T \in SUBSET Nat, NEW m \in S,
           \A c \in S : c <= m, \A c \in T : m < c
    PROVE  Segments(S \cup T) = Segments(S) \cup Segments({m} \cup T)
<1>1. ASSUME NEW p \in Neighbours(S \cup T) PROVE p \in Neighbours(S) \cup Neighbours({m} \cup T)
  <2>1. /\ p[1] \in S \cup T /\ p[2] \in S \cup T /\ p = <<p[1], p[2]>> /\ p[1] < p[2]
        /\ \A c \in S \cup T : c <= p[1] \/ c >= p[2]
    BY DEF Neighbours
  <2>2. CASE p[2] \in S
    <3>1. p[2] <= m
      BY <2>2
    <3>2. p[1] \notin T
      BY <3>1, <2>1
    <3> QED
      BY <3>2, <2>1, <2>2 DEF Neighbours
  <2>3. CASE p[2] \in T
    <3>1. p[1] \in {m} \cup T
      BY <2>1, <2>3
    <3> QED
      BY <3>1, <2>1, <2>3 DEF Neighbours
  <2> QED
    BY <2>1, <2>2, <2>3
<1>2. ASSUME NEW p \in Neighbours(S) PROVE p \in Neighbours(S \cup T)
  <2>1. /\ p[1] \in S /\ p[2] \in S /\ p = <<p[1], p[2]>> /\ p[1] < p[2]
        /\ \A c \in S : c <= p[1] \/ c >= p[2]
    BY DEF Neighbours
  <2>2. \A c \in T : c >= p[2]
    BY <2>1
  <2> QED
    BY <2>1, <2>2 DEF Neighbours
<1>3. ASSUME NEW p \in Neighbours({m} \cup T) PROVE p \in Neighbours(S \cup T)
  <2>1. /\ p[1] \in {m} \cup T /\ p[2] \in {m} \cup T /\ p = <<p[1], p[2]>> /\ p[1] < p[2]
        /\ \A c \in {m} \cup T : c <= p[1] \/ c >= p[2]
    BY DEF Neighbours
  <2>2. \A c \in S : c <= p[1]
    BY <2>1
  <2> QED
    BY <2>1, <2>2 DEF Neighbours
<1>4. Neighbours(S \cup T) = Neighbours(S) \cup Neighbours({m} \cup T)
  BY <1>1, <1>2, <1>3
<1> QED
  BY <1>4, Zenon DEF Segments

\* A single boundary has no segment.
LEMMA NoSegment ==
    ASSUME NEW m \in Nat
    PROVE  Segments({m}) = {}
  BY DEF Segments, Neighbours

(***************************************************************************)
(* Segmenter::new and update keep to the plan.                             *)
(***************************************************************************)
THEOREM SegmenterStarts ==
    ASSUME NEW plan, IsPlan(plan), NEW start \in Nat
    PROVE  Runs(NewSegmenter(plan, start), plan, start)
<1>1. Behind(plan, start, start) = {start}
  BY DEF Behind, IsPlan
<1>2. Segments({start}) = {}
  BY NoSegment
<1> QED
  BY <1>1, <1>2 DEF Runs, NewSegmenter, IsPlan

\* What n more bytes put behind the segmenter are the cuts they reach.
LEMMA BehindGrows ==
    ASSUME NEW plan, IsPlan(plan), NEW start \in Nat, NEW g, Runs(g, plan, start), NEW n \in Nat,
           g.kind \in Crcs
    PROVE  /\ Cuts(g, n) = {c \in plan.splits : c > start /\ c >= g.pos /\ c < g.pos + n}
           /\ Behind(plan, start, g.pos + n) = Behind(plan, start, g.pos) \cup Cuts(g, n)
           /\ Behind(plan, start, g.pos) \subseteq Nat
           /\ \A c \in Cuts(g, n) : c \in Nat /\ g.segStart < c
           /\ g.segStart \in Nat
           /\ Cuts(g, n) # {} => /\ Max(Cuts(g, n)) \in Cuts(g, n)
                                 /\ \A c \in Cuts(g, n) : c <= Max(Cuts(g, n))
<1>1. /\ g.pos \in Nat /\ g.pos >= start /\ plan.splits \subseteq Nat
      /\ g.ahead = {c \in plan.splits : c > start /\ c >= g.pos}
      /\ g.segStart \in Behind(plan, start, g.pos)
  BY DEF Runs, IsPlan
<1>2. Cuts(g, n) = {c \in plan.splits : c > start /\ c >= g.pos /\ c < g.pos + n}
  BY <1>1 DEF Cuts
<1>3. Behind(plan, start, g.pos + n) = Behind(plan, start, g.pos) \cup Cuts(g, n)
  BY <1>1, <1>2 DEF Behind
<1>4. Behind(plan, start, g.pos) \subseteq Nat
  BY <1>1 DEF Behind
<1>5. \A c \in Cuts(g, n) : c \in Nat /\ g.segStart < c
  BY <1>1, <1>2 DEF Behind
<1>6. ASSUME Cuts(g, n) # {}
      PROVE  Max(Cuts(g, n)) \in Cuts(g, n) /\ \A c \in Cuts(g, n) : c <= Max(Cuts(g, n))
  <2>1. Cuts(g, n) \in SUBSET Nat /\ g.pos + n \in Nat /\ \A c \in Cuts(g, n) : c <= g.pos + n
    BY <1>1, <1>2
  <2> QED
    BY <2>1, <1>6, HasGreatest
<1> QED
  BY <1>1, <1>2, <1>3, <1>4, <1>5, <1>6

\* update, fed any number of bytes, keeps what is promised of the segments (Segmenter::update).
THEOREM SegmenterKeeps ==
    ASSUME NEW plan, IsPlan(plan), NEW start \in Nat, NEW g, Runs(g, plan, start), NEW n \in Nat
    PROVE  Runs(Update(g, n), plan, start)
<1>1. /\ g.pos \in Nat /\ g.pos >= start /\ g.kind = plan.kind /\ g.start = start
      /\ g.pos + n \in Nat /\ g.pos + n >= start
      /\ g = [kind |-> g.kind, ahead |-> g.ahead, start |-> g.start, segStart |-> g.segStart,
              pos |-> g.pos, segments |-> g.segments]
  BY DEF Runs
<1>2. CASE g.kind \notin Crcs
  BY <1>1, <1>2 DEF Runs, Update
<1>3. ASSUME g.kind \in Crcs PROVE Runs(Update(g, n), plan, start)
  <2> DEFINE C == Cuts(g, n)
             B == Behind(plan, start, g.pos)
  <2>1. /\ C = {c \in plan.splits : c > start /\ c >= g.pos /\ c < g.pos + n}
        /\ Behind(plan, start, g.pos + n) = B \cup C
        /\ B \subseteq Nat /\ g.segStart \in Nat
        /\ \A c \in C : c \in Nat /\ g.segStart < c
        /\ C # {} => Max(C) \in C /\ \A c \in C : c <= Max(C)
    BY <1>3, BehindGrows
  <2>2. /\ g.ahead = {c \in plan.splits : c > start /\ c >= g.pos} /\ plan.splits \subseteq Nat
        /\ g.segStart \in B /\ \A c \in B : c <= g.segStart
        /\ g.segments = Segments(B)
    BY <1>3 DEF Runs, IsPlan
  <2>3. g.ahead \ C = {c \in plan.splits : c > start /\ c >= g.pos + n}
    BY <2>1, <2>2, <1>1
  <2>4. CASE C = {}
    <3>1. Update(g, n) = [g EXCEPT !.pos = @ + n]
      BY <2>4 DEF Update
    <3> QED
      BY <3>1, <2>4, <2>1, <2>2, <2>3, <1>1, <1>3 DEF Runs
  <2>5. CASE C # {}
    <3>1. Update(g, n) = [g EXCEPT !.pos = @ + n, !.segStart = Max(C), !.ahead = @ \ C,
                                   !.segments = @ \cup Segments({g.segStart} \cup C)]
      BY <2>5, <1>3 DEF Update
    <3>2. Segments(B) \cup Segments({g.segStart} \cup C) = Segments(B \cup C)
      <4>1. /\ B \in SUBSET Nat /\ C \in SUBSET Nat
            /\ \A c \in C : g.segStart < c
        BY <2>1
      <4>2. g.segStart \in B /\ \A c \in B : c <= g.segStart
        BY <2>2
      <4> HIDE DEF B, C
      <4>3. Segments(B \cup C) = Segments(B) \cup Segments({g.segStart} \cup C)
        BY <4>1, <4>2, NeighboursJoin
      <4> QED
        BY <4>3
    <3> DEFINE top == Max(C)
    <3>a. top \in C /\ top \in Nat /\ g.segStart < top /\ \A c \in C : c <= top
      BY <2>1, <2>5
    <3> HIDE DEF top
    <3>b. \A c \in B : c \in Nat /\ c <= top
      BY <3>a, <2>1, <2>2
    <3>3. Max(C) \in B \cup C /\ \A c \in B \cup C : c <= Max(C)
      BY <3>a, <3>b DEF top
    <3> HIDE DEF C, B
    <3>4. /\ Update(g, n).pos = g.pos + n /\ Update(g, n).segStart = Max(C)
          /\ Update(g, n).ahead = g.ahead \ C /\ Update(g, n).segments = Segments(B \cup C)
          /\ Update(g, n).kind = g.kind /\ Update(g, n).start = start
      BY <3>1, <3>2, <2>2, <1>1
    <3>5. LET u == Update(g, n)
          IN u = [kind |-> u.kind, ahead |-> u.ahead, start |-> u.start, segStart |-> u.segStart,
                  pos |-> u.pos, segments |-> u.segments]
      BY <3>1, <1>1
    <3> QED
      BY <3>3, <3>4, <3>5, <2>1, <2>3, <1>1, <1>3, ZenonT(40) DEF Runs
  <2> QED
    BY <2>4, <2>5
<1> QED
  BY <1>2, <1>3

\* What finish returns depends on where the run began and ended, and not on the pieces it was fed in:
\* the segments lie between the split points inside it (Segmenter::finish).
THEOREM SegmenterFinishes ==
    ASSUME NEW plan, IsPlan(plan), NEW start \in Nat, NEW g, Runs(g, plan, start)
    PROVE  Finish(g) = Promised(plan, start, g.pos)
<1>1. /\ g.pos \in Nat /\ g.pos >= start /\ g.kind = plan.kind /\ g.start = start
      /\ plan.splits \subseteq Nat
  BY DEF Runs, IsPlan
<1>2. CASE g.kind \notin Crcs
  <2>1. g.segments = {}
    BY <1>2 DEF Runs
  <2> QED
    BY <2>1, <1>1, <1>2 DEF Finish, Promised
<1>3. ASSUME g.kind \in Crcs PROVE Finish(g) = Promised(plan, start, g.pos)
  <2> DEFINE B == Behind(plan, start, g.pos)
  <2>1. /\ g.segStart \in B /\ \A c \in B : c <= g.segStart
        /\ g.segments = Segments(B)
    BY <1>3 DEF Runs
  <2>2. B \subseteq Nat /\ {start, g.pos} \cup {c \in plan.splits : start < c /\ c < g.pos} = B \cup {g.pos}
    BY <1>1 DEF Behind
  <2>3. g.segStart < g.pos \/ g.segStart = g.pos
    BY <2>1, <1>1 DEF Behind
  <2>4. Segments(B) \cup Segments({g.segStart, g.pos}) = Segments(B \cup {g.pos})
    <3>1. CASE g.segStart < g.pos
      <4>1. {g.segStart, g.pos} = {g.segStart} \cup {g.pos}
        OBVIOUS
      <4>2. \A c \in {g.pos} : g.segStart < c
        BY <3>1
      <4>3. {g.pos} \in SUBSET Nat /\ B \in SUBSET Nat
        BY <1>1, <2>2
      <4> HIDE DEF B
      <4>4. Segments(B \cup {g.pos}) = Segments(B) \cup Segments({g.segStart} \cup {g.pos})
        BY <4>2, <4>3, <2>1, NeighboursJoin
      <4> QED
        BY <4>1, <4>4
    <3>2. CASE g.segStart = g.pos
      <4>1. {g.segStart, g.pos} = {g.pos} /\ B \cup {g.pos} = B
        BY <3>2, <2>1
      <4> QED
        BY <4>1, <1>1, NoSegment
    <3> QED
      BY <2>3, <3>1, <3>2
  <2> HIDE DEF B
  <2> QED
    BY <2>1, <2>2, <2>4, <1>1, <1>3 DEF Finish, Promised
<1> QED
  BY <1>2, <1>3

\* Update is what the loop of update computes, a pass at a time: it ends when nothing is left to cut,
\* and before that one pass and the rest of the bytes give the same (the while loop of
\* Segmenter::update).
THEOREM UpdateIsItsLoop ==
    ASSUME NEW plan, IsPlan(plan), NEW start \in Nat, NEW g, Runs(g, plan, start), NEW n \in Nat,
           g.kind \in Crcs
    PROVE  /\ Take(g, n) \in 0 .. n
           /\ Update(g, n) = IF Cuts(g, n) = {} THEN Pass(g, n) ELSE Update(Pass(g, n), n - Take(g, n))
<1> DEFINE C == Cuts(g, n)
           first == Min(C)
           g2 == Pass(g, n)
           C2 == Cuts(g2, n - Take(g, n))
<1>1. /\ C = {c \in plan.splits : c > start /\ c >= g.pos /\ c < g.pos + n}
      /\ g.segStart \in Nat
      /\ \A c \in C : c \in Nat /\ g.segStart < c
      /\ C # {} => Max(C) \in C /\ \A c \in C : c <= Max(C)
  BY BehindGrows
<1>2. /\ g.pos \in Nat /\ g.ahead = {c \in plan.splits : c > start /\ c >= g.pos}
      /\ plan.splits \subseteq Nat
      /\ g = [kind |-> g.kind, ahead |-> g.ahead, start |-> g.start, segStart |-> g.segStart,
              pos |-> g.pos, segments |-> g.segments]
  BY DEF Runs, IsPlan
<1>3. CASE C = {}
  BY <1>3, <1>2 DEF Take, Pass, Update
<1>4. ASSUME C # {}
      PROVE  Take(g, n) \in 0 .. n /\ Update(g, n) = Update(g2, n - Take(g, n))
  <2>1. first \in C /\ \A c \in C : first <= c
    <3>1. C \in SUBSET Nat
      BY <1>1
    <3> QED
      BY <3>1, <1>4, HasLeast
  <2>2. Take(g, n) = first - g.pos
    BY <1>4 DEF Take
  <2>3. first \in Nat /\ g.pos <= first /\ first < g.pos + n /\ g.segStart < first
    BY <2>1, <1>1
  <2>4. Take(g, n) \in 0 .. n /\ g.pos + Take(g, n) = first
    BY <2>2, <2>3, <1>2
  <2>5. g2 = [g EXCEPT !.pos = first, !.segStart = first, !.ahead = @ \ {first},
                       !.segments = @ \cup Segments({g.segStart, first})]
    BY <2>4, <1>4 DEF Pass
  <2>6. /\ g2.pos = first /\ g2.segStart = first /\ g2.ahead = g.ahead \ {first} /\ g2.kind = g.kind
        /\ g2.segments = g.segments \cup Segments({g.segStart, first})
        /\ g2.pos + (n - Take(g, n)) = g.pos + n
    <3> HIDE DEF first, g2
    <3> QED
      BY <2>5, <2>4, <2>3, <1>2
  <2>7. C2 = C \ {first}
    <3> HIDE DEF first, g2
    <3> QED
      BY <2>6, <2>1, <1>1 DEF Cuts
  <2> DEFINE k == n - Take(g, n)
  <2>8. CASE C2 = {}
    <3>1. C = {first}
      BY <2>7, <2>8, <2>1
    <3>2. Max(C) = first
      BY <3>1, <1>1
    <3>3. Update(g, n) = [g EXCEPT !.pos = @ + n, !.segStart = first, !.ahead = @ \ {first},
                                   !.segments = @ \cup Segments({g.segStart} \cup {first})]
      BY <1>4, <3>1, <3>2 DEF Update
    <3>4. Update(g2, k) = [g2 EXCEPT !.pos = @ + k]
      BY <2>8 DEF Update
    <3>5. {g.segStart} \cup {first} = {g.segStart, first}
      OBVIOUS
    <3>6. g2.pos + k = g.pos + n
      BY <2>6
    <3> HIDE DEF first, g2, k
    <3>7. Update(g2, k) = [kind |-> g.kind, ahead |-> g.ahead \ {first}, start |-> g.start, segStart |-> first,
                   pos |-> g.pos + n, segments |-> g.segments \cup Segments({g.segStart, first})]
      BY <3>4, <3>6, <2>5, <1>2
    <3>8. Update(g, n) = [kind |-> g.kind, ahead |-> g.ahead \ {first}, start |-> g.start, segStart |-> first,
                   pos |-> g.pos + n, segments |-> g.segments \cup Segments({g.segStart, first})]
      BY <3>3, <3>5, <1>2
    <3> QED
      BY <3>7, <3>8, <2>4 DEF k
  <2>9. CASE C2 # {}
    <3>1. Max(C2) = Max(C)
      <4>1. Max(C) \in C2 /\ \A c \in C2 : c <= Max(C)
        <5>1. PICK c \in C2 : TRUE
          BY <2>9
        <5>2. c \in Nat /\ c # first /\ first <= c /\ c <= Max(C) /\ Max(C) \in Nat /\ Max(C) \in C
          BY <5>1, <2>7, <2>1, <1>1, <1>4
        <5> HIDE DEF first, C, C2
        <5>3. Max(C) # first
          BY <5>2, <2>3
        <5> QED
          BY <5>2, <5>3, <2>7, <1>1, <1>4
      <4>2. ASSUME NEW x \in C2, \A y \in C2 : x >= y PROVE x = Max(C)
        <5>1. x \in Nat /\ Max(C) \in Nat
          BY <1>1, <2>7, <4>1
        <5>2. x >= Max(C) /\ x <= Max(C)
          BY <4>1, <4>2
        <5> HIDE DEF first, C, C2
        <5> QED
          BY <5>1, <5>2
      <4>3. \A y \in C2 : Max(C) >= y
        BY <4>1, <1>1, <2>7
      <4> HIDE DEF first, C, C2
      <4> QED
        BY <4>1, <4>2, <4>3 DEF Max
    <3>2. Segments({g.segStart, first} \cup C2) = Segments({g.segStart, first}) \cup Segments({first} \cup C2)
      <4>1. /\ {g.segStart, first} \in SUBSET Nat /\ C2 \in SUBSET Nat /\ first \in {g.segStart, first}
            /\ \A c \in {g.segStart, first} : c <= first
        BY <2>1, <2>3, <2>7, <1>1
      <4>2. ASSUME NEW c \in C2 PROVE first < c
        <5>1. c \in Nat /\ c # first /\ first <= c
          BY <2>1, <2>7, <1>1
        <5> HIDE DEF first, C2
        <5> QED
          BY <5>1, <2>3
      <4> HIDE DEF first, C2
      <4> QED
        BY <4>1, <4>2, NeighboursJoin
    <3>3. {g.segStart, first} \cup C2 = {g.segStart} \cup C
      BY <2>1, <2>7
    <3>4. Update(g, n) = [g EXCEPT !.pos = @ + n, !.segStart = Max(C), !.ahead = @ \ C,
                                   !.segments = @ \cup Segments({g.segStart} \cup C)]
      BY <1>4 DEF Update
    <3>5. Update(g2, k) = [g2 EXCEPT !.pos = @ + k, !.segStart = Max(C2), !.ahead = @ \ C2,
                                     !.segments = @ \cup Segments({g2.segStart} \cup C2)]
      BY <2>9, <2>6 DEF Update
    <3>6. (g.ahead \ {first}) \ C2 = g.ahead \ C
      BY <2>1, <2>7
    <3>7. (g.segments \cup Segments({g.segStart, first})) \cup Segments({first} \cup C2)
             = g.segments \cup Segments({g.segStart} \cup C)
      BY <3>2, <3>3
    <3>8. g2.pos + k = g.pos + n
      BY <2>6
    <3> HIDE DEF first, g2, k, C, C2
    <3>9. /\ Update(g2, k).pos = g.pos + n /\ Update(g2, k).segStart = Max(C)
          /\ Update(g2, k).ahead = g.ahead \ C
          /\ Update(g2, k).segments = g.segments \cup Segments({g.segStart} \cup C)
          /\ Update(g2, k).kind = g.kind /\ Update(g2, k).start = g.start
      BY <3>1, <3>5, <3>6, <3>7, <3>8, <2>5, <2>6, <1>2
    <3>10. LET u == Update(g2, k)
           IN u = [kind |-> u.kind, ahead |-> u.ahead, start |-> u.start, segStart |-> u.segStart,
                   pos |-> u.pos, segments |-> u.segments]
      BY <3>5, <2>5, <1>2
    <3>11. Update(g, n) = [kind |-> g.kind, ahead |-> g.ahead \ C, start |-> g.start, segStart |-> Max(C),
                   pos |-> g.pos + n, segments |-> g.segments \cup Segments({g.segStart} \cup C)]
      BY <3>4, <1>2
    <3> QED
      BY <3>9, <3>10, <3>11, <2>4 DEF k
  <2> QED
    BY <2>4, <2>8, <2>9
<1> QED
  BY <1>3, <1>4

\* The segments of a run tile it: no byte is missed or counted twice, none is empty, and no split
\* point lies inside one.
THEOREM SegmentsTile ==
    ASSUME NEW plan, IsPlan(plan), plan.kind \in Crcs, NEW start \in Nat, NEW end \in Nat, start <= end
    PROVE  LET segs == Promised(plan, start, end).segments
           IN /\ \A i \in start .. end - 1 : \E s \in segs : s.offset <= i /\ i < s.offset + s.len
              /\ \A s, t \in segs : s = t \/ s.offset + s.len <= t.offset \/ t.offset + t.len <= s.offset
              /\ \A s \in segs : /\ s.len > 0 /\ start <= s.offset /\ s.offset + s.len <= end
                                 /\ \A c \in plan.splits : c <= s.offset \/ c >= s.offset + s.len
<1> DEFINE B == {start, end} \cup {c \in plan.splits : start < c /\ c < end}
           segs == Segments(B)
<1>1. Promised(plan, start, end).segments = segs
  BY DEF Promised
<1>2. plan.splits \subseteq Nat /\ B \subseteq Nat
  BY DEF IsPlan
<1>3. ASSUME NEW s \in segs
      PROVE  \E p \in Neighbours(B) : /\ s = Segment(p) /\ s.offset = p[1] /\ s.offset + s.len = p[2]
                                      /\ p[1] \in B /\ p[2] \in B /\ p = <<p[1], p[2]>>
                                      /\ p[1] < p[2] /\ \A c \in B : c <= p[1] \/ c >= p[2]
  <2> HIDE DEF B
  <2>1. PICK p \in Neighbours(B) : s = Segment(p)
    BY DEF Segments
  <2>2. /\ p[1] \in B /\ p[2] \in B /\ p = <<p[1], p[2]>>
        /\ p[1] < p[2] /\ \A c \in B : c <= p[1] \/ c >= p[2]
    BY <2>1 DEF Neighbours
  <2>3. p[1] + (p[2] - p[1]) = p[2]
    BY <2>2, <1>2
  <2> QED
    BY <2>1, <2>2, <2>3 DEF Segment
<1>4. ASSUME NEW i \in start .. end - 1 PROVE \E s \in segs : s.offset <= i /\ i < s.offset + s.len
  <2> DEFINE below == {c \in B : c <= i}
             above == {c \in B : i < c}
             lo == Max(below)
             hi == Min(above)
  <2>1. start \in below /\ end \in above /\ below \in SUBSET Nat /\ above \in SUBSET Nat /\ i \in Nat
    BY <1>2
  <2>2. lo \in below /\ \A c \in below : c <= lo
    BY <2>1, HasGreatest
  <2>3. hi \in above /\ \A c \in above : hi <= c
    BY <2>1, HasLeast
  <2>4. lo \in B /\ hi \in B /\ lo <= i /\ i < hi /\ lo \in Nat /\ hi \in Nat
    BY <2>1, <2>2, <2>3
  <2>5. \A c \in B : c <= lo \/ c >= hi
    BY <1>2, <2>1, <2>2, <2>3
  <2> HIDE DEF B, lo, hi
  <2>6. <<lo, hi>> \in Neighbours(B)
    BY <2>4, <2>5 DEF Neighbours
  <2>7. Segment(<<lo, hi>>) \in segs
    BY <2>6 DEF Segments
  <2>8. Segment(<<lo, hi>>).offset = lo /\ lo + Segment(<<lo, hi>>).len = hi
    BY <2>4 DEF Segment
  <2> QED
    BY <2>4, <2>7, <2>8
<1>5. ASSUME NEW s \in segs, NEW t \in segs
      PROVE  s = t \/ s.offset + s.len <= t.offset \/ t.offset + t.len <= s.offset
  <2>1. PICK p \in Neighbours(B) : /\ s = Segment(p) /\ s.offset = p[1] /\ s.offset + s.len = p[2]
                                   /\ p[1] \in B /\ p[2] \in B /\ p = <<p[1], p[2]>>
                                   /\ p[1] < p[2] /\ \A c \in B : c <= p[1] \/ c >= p[2]
    BY <1>3
  <2>2. PICK q \in Neighbours(B) : /\ t = Segment(q) /\ t.offset = q[1] /\ t.offset + t.len = q[2]
                                   /\ q[1] \in B /\ q[2] \in B /\ q = <<q[1], q[2]>>
                                   /\ q[1] < q[2] /\ \A c \in B : c <= q[1] \/ c >= q[2]
    BY <1>3
  <2> HIDE DEF B
  <2>3. p[1] \in Nat /\ p[2] \in Nat /\ q[1] \in Nat /\ q[2] \in Nat
    BY <2>1, <2>2, <1>2
  <2>4. (p[1] = q[1] /\ p[2] = q[2]) \/ p[2] <= q[1] \/ q[2] <= p[1]
    BY <2>1, <2>2, <2>3
  <2> QED
    BY <2>1, <2>2, <2>4
<1>6. ASSUME NEW s \in segs
      PROVE  /\ s.len > 0 /\ start <= s.offset /\ s.offset + s.len <= end
             /\ \A c \in plan.splits : c <= s.offset \/ c >= s.offset + s.len
  <2>1. PICK p \in Neighbours(B) : /\ s = Segment(p) /\ s.offset = p[1] /\ s.offset + s.len = p[2]
                                   /\ p[1] \in B /\ p[2] \in B /\ p = <<p[1], p[2]>>
                                   /\ p[1] < p[2] /\ \A c \in B : c <= p[1] \/ c >= p[2]
    BY <1>3
  <2>2. \A c \in B : c \in Nat /\ start <= c /\ c <= end
    BY <1>2
  <2>3. \A c \in plan.splits : c <= start \/ c >= end \/ c \in B
    BY <1>2
  <2>4. s.len = p[2] - p[1]
    BY <2>1 DEF Segment
  <2> HIDE DEF B
  <2>5. p[1] \in Nat /\ p[2] \in Nat /\ start <= p[1] /\ p[2] <= end
    BY <2>1, <2>2
  <2>6. \A c \in plan.splits : c <= p[1] \/ c >= p[2]
    BY <2>1, <2>3, <2>5, <1>2
  <2>7. s.len > 0
    BY <2>1, <2>4, <2>5
  <2> QED
    BY <2>1, <2>5, <2>6, <2>7
<1> HIDE DEF segs
<1> QED
  BY <1>1, <1>4, <1>5, <1>6

=============================================================================
