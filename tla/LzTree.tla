------------------------------- MODULE LzTree -------------------------------
(***************************************************************************)
(* What the match finders of enc/lz_find.rs and enc/lz_find_mt.rs compute  *)
(* with: the scan that extends a match, the hashes, the binary tree of the *)
(* history and the normalisation of positions.  A window is a function     *)
(* from indices to bytes; a tree is a function `son` with the two children *)
(* of the cyclic slot c at 2c and 2c + 1; 0 marks "no position".           *)
(***************************************************************************)
EXTENDS Integers, Sequences, SequencesExt, FiniteSetsExt

\* K_EMPTY_HASH_VALUE.
Empty == 0

MinOf(a, b) == IF a < b THEN a ELSE b

MaxOf(a, b) == IF a < b THEN b ELSE a

\* match_run: the first index from start on where the window differs from the
\* copy diff behind it, or limit.
MatchRun(buf, diff, start, limit) ==
  IF start >= limit THEN start
  ELSE Min({i \in start .. limit - 1 : buf[i - diff] # buf[i]} \cup {limit})

\* cyclic_back: the slot of the position delta before the one at cp.
CyclicBack(cp, delta, cyc) == IF cp < delta THEN cp + cyc - delta ELSE cp - delta

\* normalize3: positions below sub become "no position", the others keep their
\* distance from a position reduced by sub.
Normalize3(sub, tab) == [i \in DOMAIN tab |-> MaxOf(tab[i], sub) - sub]

(***************************************************************************)
(* The hashes.  A byte is 0 or 1 and crc[b] its own value, so that the     *)
(* exclusive or of the code is a sum mod 2.  As in the code, two strings   *)
(* with the same first byte and the same 2- or 3-byte hash are equal, and  *)
(* strings with different first bytes collide.                             *)
(***************************************************************************)
Crc(b) == b

Xor(a, b) == (a + b) % 2

\* hash2_calc, the exact hash of the bt2 finder.
Hash2Calc(buf, cur) == <<buf[cur], buf[cur + 1]>>

H2(buf, cur) == <<Xor(Crc(buf[cur]), buf[cur + 1])>>

H3(buf, cur) == Append(H2(buf, cur), buf[cur + 2])

\* hash3_calc, hash4_calc, hash5_calc: the value that indexes the big hash.
HashCalc(buf, cur, n) ==
  CASE n = 2 -> Hash2Calc(buf, cur)
    [] n = 3 -> H3(buf, cur)
    [] n = 4 -> Append(H2(buf, cur), Xor(buf[cur + 2], Crc(buf[cur + 3])))
    [] n = 5 -> <<H2(buf, cur)[1], Xor(buf[cur + 2], Crc(buf[cur + 3])), Crc(buf[cur + 4])>>

HashValues(n) == IF n <= 2 THEN {0, 1} \X {0, 1} ELSE [1 .. (IF n = 5 THEN 3 ELSE 2) -> {0, 1}]

(***************************************************************************)
(* The tree walk.  w.p0 and w.p1 are the two places that wait for a child, *)
(* w.len0 and w.len1 the bytes already known to agree on either side.      *)
(***************************************************************************)
\* cm_check < cur_match: the position is one of the history.
InHistory(cm, pos, cyc) == cm > (IF pos < cyc THEN 0 ELSE pos - cyc)

\* One node of get_matches_spec1: record a longer match, then descend.
WalkNode(w, buf, cur, pos, cp, cyc, lim) ==
  LET delta == pos - w.cm
      pair  == 2 * CyclicBack(cp, delta, cyc)
      len   == MatchRun(buf, delta, cur + MinOf(w.len0, w.len1), cur + lim) - cur
      longer == len > w.maxLen
      recs  == IF longer THEN Append(w.recs, <<len, delta - 1>>) ELSE w.recs
  IN IF len = lim
     THEN [w EXCEPT !.recs = recs, !.maxLen = len, !.full = TRUE,
                    !.son = [w.son EXCEPT ![w.p1] = w.son[pair], ![w.p0] = w.son[pair + 1]]]
     ELSE IF buf[cur - delta + len] < buf[cur + len]
     THEN [w EXCEPT !.recs = recs, !.maxLen = MaxOf(@, len), !.son = [w.son EXCEPT ![w.p1] = w.cm],
                    !.cm = w.son[pair + 1], !.p1 = pair + 1, !.len1 = len]
     ELSE [w EXCEPT !.recs = recs, !.maxLen = MaxOf(@, len), !.son = [w.son EXCEPT ![w.p0] = w.cm],
                    !.cm = w.son[pair], !.p0 = pair, !.len0 = len]

\* The loop's test: a node more, unless the walk has ended.
WalkStep(w, buf, cur, pos, cp, cyc, lim) ==
  IF w.full \/ ~InHistory(w.cm, pos, cyc) THEN w ELSE WalkNode(w, buf, cur, pos, cp, cyc, lim)

\* The walk after each of its nodes, at most cut of them from the root head.
Descent(buf, cur, pos, cp, cyc, son, head, lim, maxLen, cut) ==
  LET w[i \in 0 .. cut] ==
        IF i = 0
        THEN [son |-> son, p0 |-> 2 * cp + 1, p1 |-> 2 * cp, len0 |-> 0, len1 |-> 0,
              cm |-> head, maxLen |-> maxLen, recs |-> <<>>, full |-> FALSE]
        ELSE WalkStep(w[i - 1], buf, cur, pos, cp, cyc, lim)
  IN w

\* What a walk leaves: whatever still waits for a child gets none.
WalkResult(end) ==
  [recs |-> end.recs,
   son  |-> IF end.full THEN end.son ELSE [end.son EXCEPT ![end.p0] = Empty, ![end.p1] = Empty]]

\* get_matches_spec1: the position at cur becomes the root.
GetMatchesSpec1(buf, cur, pos, cp, cyc, son, head, lim, maxLen, cut) ==
  WalkResult(Descent(buf, cur, pos, cp, cyc, son, head, lim, maxLen, cut)[cut])

\* skip_matches_spec: the same walk without the records.
SkipMatchesSpec(buf, cur, pos, cp, cyc, son, head, lim, cut) ==
  GetMatchesSpec1(buf, cur, pos, cp, cyc, son, head, lim, lim, cut).son

\* One link of a chain: record a longer match, then go on to the position before.
HcLink(w, buf, cur, pos, cp, cyc, son, lim) ==
  LET delta == pos - w.cm
      len   == MatchRun(buf, delta, cur, cur + lim) - cur
      next  == son[CyclicBack(cp, delta, cyc)]
  IN IF w.maxLen = lim \/ w.cm = Empty \/ delta >= cyc THEN w
     ELSE IF len > w.maxLen THEN [w EXCEPT !.cm = next, !.maxLen = len, !.recs = Append(@, <<len, delta - 1>>)]
     ELSE [w EXCEPT !.cm = next]

\* hc_get_matches_spec: the chain of positions with this hash, nearest first.
HcGetMatchesSpec(buf, cur, pos, cp, cyc, son, head, lim, maxLen, cut) ==
  LET w[i \in 0 .. cut] ==
        IF i = 0 THEN [cm |-> head, maxLen |-> maxLen, recs |-> <<>>]
        ELSE HcLink(w[i - 1], buf, cur, pos, cp, cyc, son, lim)
  IN w[cut].recs
=============================================================================
