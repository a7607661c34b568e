---------------------------- MODULE RolloutProofs ----------------------------
(***************************************************************************)
(* Proofs about Rollout for every inventory, size of canary and waves, cap *)
(* and stage options: the batches cut the inventory into consecutive       *)
(* pieces, no target starts before the batches before its own have ended,  *)
(* the combined results are faithful, and a plain staging is one Run.      *)
(***************************************************************************)
EXTENDS Rollout, FiniteSetTheorems, SequenceTheorems, WellFoundedInduction, TLAPS

-----------------------------------------------------------------------------
(* The wave loop.                                                          *)

\* Where a wave may begin; the last place is past the end.
Positions == 1..(NTargets + 1)

WaveEnd(lo) ==
    IF opts.wave <= 0 \/ lo + opts.wave - 1 > NTargets
    THEN NTargets ELSE lo + opts.wave - 1

\* One turn of the loop, with g for the turns after it.
Unfold(g) ==
    [lo \in Positions |->
        IF lo > NTargets THEN <<>> ELSE <<lo..WaveEnd(lo)>> \o g[WaveEnd(lo) + 1]]

\* A non-empty set of naturals has a least one.
LEMMA Least ==
    ASSUME NEW T \in SUBSET Nat, T # {}
    PROVE  \E n \in T : \A m \in T : n <= m
<1>1. IsWellFoundedOn(OpToRel(<, Nat), Nat)
  BY NatLessThanWellFounded
<1>2. PICK x \in T : \A y \in T : ~ (<<y, x>> \in OpToRel(<, Nat))
  BY <1>1, WFMin
<1>3. \A y \in T : y < x => <<y, x>> \in OpToRel(<, Nat)
  BY Zenon DEF OpToRel
<1>4. \A y \in T : ~(y < x)
  BY <1>2, <1>3
<1> QED
  BY <1>4

\* A wave ends at or after its first target, within the inventory.
LEMMA WaveEnds ==
    ASSUME opts \in Options, NEW lo \in Positions, lo <= NTargets
    PROVE  /\ WaveEnd(lo) \in Nat /\ lo <= WaveEnd(lo) /\ WaveEnd(lo) <= NTargets
           /\ WaveEnd(lo) + 1 \in Positions
           /\ opts.wave > 0 => WaveEnd(lo) + 1 - lo <= opts.wave
           /\ opts.wave > 0 /\ WaveEnd(lo) < NTargets => WaveEnd(lo) + 1 - lo = opts.wave
<1>1. NTargets \in Nat /\ opts.wave \in Nat
  BY StageAssumption DEF Options
<1> QED
  BY <1>1 DEF WaveEnd, Positions

\* The loop can be unfolded k times from the end.
Unfolded(k) ==
    \E g : /\ DOMAIN g = Positions /\ g = [lo \in Positions |-> g[lo]]
           /\ \A lo \in Positions : lo + k > NTargets => g[lo] = Unfold(g)[lo]

LEMMA UnfoldedMore ==
    ASSUME opts \in Options, NEW k \in Nat, k < NTargets, Unfolded(k)
    PROVE  Unfolded(k + 1)
<1>1. NTargets \in Nat
  BY StageAssumption
<1>2. PICK g : /\ DOMAIN g = Positions /\ g = [lo \in Positions |-> g[lo]]
               /\ \A lo \in Positions : lo + k > NTargets => g[lo] = Unfold(g)[lo]
  BY DEF Unfolded
<1> DEFINE p == NTargets - k
           h == [lo \in Positions |-> IF lo = p THEN Unfold(g)[p] ELSE g[lo]]
<1>3. p \in Positions /\ p <= NTargets
  BY <1>1 DEF Positions
<1>4. ASSUME NEW lo \in Positions, lo + (k + 1) > NTargets
      PROVE  h[lo] = Unfold(h)[lo]
  <2>1. lo >= p /\ lo \in Int /\ p \in Int
    BY <1>1, <1>4 DEF Positions
  <2>2. Unfold(h)[lo] = Unfold(g)[lo]
    <3>1. CASE lo > NTargets
      BY <3>1 DEF Unfold
    <3>2. CASE lo <= NTargets
      <4>1. WaveEnd(lo) + 1 \in Positions /\ WaveEnd(lo) + 1 # p
        BY <2>1, <3>2, WaveEnds
      <4>2. h[WaveEnd(lo) + 1] = g[WaveEnd(lo) + 1]
        BY <4>1
      <4> HIDE DEF h
      <4> QED
        BY <4>2 DEF Unfold
    <3> QED
      BY <3>1, <3>2, <1>1, <2>1
  <2>3. h[lo] = Unfold(g)[lo]
    <3>1. CASE lo = p
      BY <3>1
    <3>2. CASE lo # p
      <4>1. lo + k > NTargets
        BY <1>1, <2>1, <3>2
      <4> QED
        BY <1>2, <3>2, <4>1
    <3> QED
      BY <3>1, <3>2
  <2> QED
    BY <2>2, <2>3
<1>5. DOMAIN h = Positions /\ h = [lo \in Positions |-> h[lo]]
  OBVIOUS
<1> QED
  BY <1>4, <1>5 DEF Unfolded

\* The loop is what its definition says.
LEMMA WavesUnfold ==
    ASSUME opts \in Options
    PROVE  WavesFrom = Unfold(WavesFrom)
<1>1. NTargets \in Nat
  BY StageAssumption
<1>2. Unfolded(0)
  <2> DEFINE g == [lo \in Positions |-> <<>>]
  <2>1. DOMAIN g = Positions /\ g = [lo \in Positions |-> g[lo]]
    OBVIOUS
  <2>2. \A lo \in Positions : lo + 0 > NTargets => g[lo] = Unfold(g)[lo]
    BY <1>1 DEF Unfold, Positions
  <2> QED
    BY <2>1, <2>2 DEF Unfolded
<1>3. Unfolded(NTargets)
  <2> DEFINE T == {k \in Nat : k <= NTargets /\ ~Unfolded(k)}
  <2>1. SUFFICES ASSUME T # {} PROVE FALSE
    BY <1>1
  <2>2. PICK n \in T : \A m \in T : n <= m
    BY <2>1, Least
  <2>3. n # 0 /\ n \in Nat
    BY <1>2, <2>2
  <2>4. n - 1 \in Nat /\ n - 1 < NTargets /\ ~(n - 1 \in T)
    BY <1>1, <2>2, <2>3
  <2>5. Unfolded(n - 1)
    BY <1>1, <2>4
  <2>6. Unfolded((n - 1) + 1)
    BY <2>4, <2>5, UnfoldedMore
  <2> QED
    BY <2>2, <2>3, <2>6
<1>4. PICK g : /\ DOMAIN g = Positions /\ g = [lo \in Positions |-> g[lo]]
               /\ \A lo \in Positions : lo + NTargets > NTargets => g[lo] = Unfold(g)[lo]
  BY <1>3 DEF Unfolded
<1>5. \A lo \in Positions : g[lo] = Unfold(g)[lo]
  BY <1>1, <1>4 DEF Positions
<1>6. g = Unfold(g)
  BY <1>4, <1>5 DEF Unfold
<1>7. WavesFrom = CHOOSE f : f = Unfold(f)
  BY DEF WavesFrom, Unfold, WaveEnd, Positions
<1> QED
  BY <1>6, <1>7

-----------------------------------------------------------------------------
(* The batches.                                                            *)

\* c cuts the places from lo on into the pieces of s: piece i begins at c[i]
\* and ends before c[i + 1].
CutAt(s, lo, c) ==
    /\ s \in Seq(SUBSET AllTargets)
    /\ c \in [1..(Len(s) + 1) -> Positions]
    /\ c[1] = lo /\ c[Len(s) + 1] = NTargets + 1
    /\ \A i, j \in 1..(Len(s) + 1) : i <= j => c[i] <= c[j]
    /\ \A i \in 1..Len(s) : s[i] = c[i]..(c[i + 1] - 1)
    /\ \A t \in lo..NTargets : \E i \in 1..Len(s) : t \in s[i]

\* Piece i of the cut c into n has the size of a wave, the last at most.
WaveSized(c, n, i) ==
    opts.wave > 0 =>
        IF i < n THEN c[i + 1] - c[i] = opts.wave ELSE c[i + 1] - c[i] <= opts.wave

\* A sequence with one element put before it.
LEMMA ConcatOne ==
    ASSUME NEW S, NEW x \in S, NEW s \in Seq(S)
    PROVE  /\ <<x>> \o s \in Seq(S) /\ Len(<<x>> \o s) = Len(s) + 1
           /\ (<<x>> \o s)[1] = x
           /\ \A i \in 1..Len(s) : (<<x>> \o s)[i + 1] = s[i]
<1> DEFINE one == <<x>>
           r == one \o s
<1>1. one \in Seq(S) /\ Len(one) = 1 /\ one[1] = x /\ Len(s) \in Nat
  OBVIOUS
<1> HIDE DEF one
<1>2. /\ r \in Seq(S) /\ Len(r) = 1 + Len(s)
      /\ \A i \in 1..(1 + Len(s)) : r[i] = IF i <= 1 THEN one[i] ELSE s[i - 1]
  <2>1. /\ r \in Seq(S) /\ Len(r) = Len(one) + Len(s)
        /\ \A i \in 1..(Len(one) + Len(s)) :
                r[i] = IF i <= Len(one) THEN one[i] ELSE s[i - Len(one)]
    BY <1>1, ConcatProperties, Zenon
  <2> HIDE DEF r
  <2> QED
    BY <1>1, <2>1
<1>3. \A i \in 1..Len(s) : i + 1 \in 1..(1 + Len(s)) /\ ~(i + 1 <= 1) /\ (i + 1) - 1 = i
  BY <1>1
<1> HIDE DEF r
<1>4. \A i \in 1..Len(s) : r[i + 1] = s[i]
  BY <1>2, <1>3
<1>5. r[1] = x
  BY <1>1, <1>2
<1>6. Len(r) = Len(s) + 1
  BY <1>1, <1>2
<1> QED
  BY <1>2, <1>4, <1>5, <1>6 DEF one, r

\* A piece put before a cut.
LEMMA CutMore ==
    ASSUME NEW s, NEW c, NEW lo \in Positions, NEW hi \in Positions,
           lo <= hi, hi < NTargets + 1, CutAt(s, hi + 1, c)
    PROVE  LET d == [i \in 1..(Len(s) + 2) |-> IF i = 1 THEN lo ELSE c[i - 1]]
               r == <<lo..hi>> \o s
           IN  /\ CutAt(r, lo, d)
               /\ Len(r) = Len(s) + 1 /\ r[1] = lo..hi
               /\ \A i \in 1..Len(s) : r[i + 1] = s[i]
<1> DEFINE d == [i \in 1..(Len(s) + 2) |-> IF i = 1 THEN lo ELSE c[i - 1]]
           r == <<lo..hi>> \o s
<1>1. NTargets \in Nat /\ lo \in Nat /\ hi \in Nat /\ lo >= 1
  BY StageAssumption DEF Positions
<1>2. /\ s \in Seq(SUBSET AllTargets) /\ Len(s) \in Nat
      /\ c \in [1..(Len(s) + 1) -> Positions]
      /\ c[1] = hi + 1 /\ c[Len(s) + 1] = NTargets + 1
      /\ \A i, j \in 1..(Len(s) + 1) : i <= j => c[i] <= c[j]
      /\ \A i \in 1..Len(s) : s[i] = c[i]..(c[i + 1] - 1)
      /\ \A t \in (hi + 1)..NTargets : \E i \in 1..Len(s) : t \in s[i]
  BY DEF CutAt
<1>3. lo..hi \in SUBSET AllTargets
  BY <1>1 DEF AllTargets
<1>4. /\ r \in Seq(SUBSET AllTargets)
      /\ Len(r) = Len(s) + 1 /\ r[1] = lo..hi
      /\ \A i \in 1..Len(s) : r[i + 1] = s[i]
  BY <1>2, <1>3, ConcatOne
<1> DEFINE L == Len(s)
<1>5. /\ d[1] = lo
      /\ \A i \in 2..(L + 2) : d[i] = c[i - 1] /\ i - 1 \in 1..(L + 1)
      /\ d \in [1..(L + 2) -> Positions]
  <2>1. \A i \in 2..(L + 2) : i - 1 \in 1..(L + 1)
    BY <1>2
  <2>2. \A i \in 1..(L + 2) : i = 1 \/ i \in 2..(L + 2)
    BY <1>2
  <2> QED
    BY <1>2, <2>1, <2>2
<1>6. \A i \in 1..(L + 1) : c[i] \in Int /\ lo <= c[i]
  <2>1. \A i \in 1..(L + 1) : c[1] <= c[i]
    BY <1>2
  <2> QED
    BY <1>1, <1>2, <2>1 DEF Positions
<1> HIDE DEF d, r, L
<1>7. \A i, j \in 1..(L + 2) : i <= j => d[i] <= d[j]
  <2> SUFFICES ASSUME NEW i \in 1..(L + 2), NEW j \in 1..(L + 2), i <= j
               PROVE  d[i] <= d[j]
    OBVIOUS
  <2>1. L \in Nat
    BY <1>2 DEF L
  <2>2. CASE i = 1 /\ j = 1
    BY <1>1, <1>5, <2>2
  <2>3. CASE i = 1 /\ j # 1
    BY <1>5, <1>6, <2>1, <2>3
  <2>4. CASE i # 1
    <3>1. i \in 2..(L + 2) /\ j \in 2..(L + 2) /\ i - 1 <= j - 1
      BY <2>1, <2>4
    <3>2. \A x, y \in 1..(L + 1) : x <= y => c[x] <= c[y]
      BY <1>2 DEF L
    <3> QED
      BY <1>5, <3>1, <3>2
  <2> QED
    BY <2>2, <2>3, <2>4
<1>8. \A i \in 1..(L + 1) : r[i] = d[i]..(d[i + 1] - 1)
  <2> SUFFICES ASSUME NEW i \in 1..(L + 1) PROVE r[i] = d[i]..(d[i + 1] - 1)
    OBVIOUS
  <2>1. L \in Nat
    BY <1>2 DEF L
  <2>2. CASE i = 1
    <3>1. d[2] = c[1] /\ d[1] = lo /\ c[1] - 1 = hi
      BY <1>1, <1>2, <1>5, <2>1
    <3> QED
      BY <1>4, <2>2, <3>1
  <2>3. CASE i # 1
    <3>1. i \in 2..(L + 2) /\ i + 1 \in 2..(L + 2) /\ i - 1 \in 1..L
      BY <2>1, <2>3
    <3>2. r[(i - 1) + 1] = s[i - 1] /\ s[i - 1] = c[i - 1]..(c[(i - 1) + 1] - 1)
      BY <1>2, <1>4, <3>1 DEF L
    <3>3. (i - 1) + 1 = i /\ (i + 1) - 1 = i
      OBVIOUS
    <3>4. d[i] = c[i - 1] /\ d[i + 1] = c[i]
      BY <1>5, <3>1, <3>3
    <3> QED
      BY <3>2, <3>3, <3>4
  <2> QED
    BY <2>2, <2>3
<1>9. \A t \in lo..NTargets : \E i \in 1..(L + 1) : t \in r[i]
  <2> SUFFICES ASSUME NEW t \in lo..NTargets PROVE \E i \in 1..(L + 1) : t \in r[i]
    OBVIOUS
  <2>1. L \in Nat /\ 1 \in 1..(L + 1)
    BY <1>2 DEF L
  <2>2. CASE t <= hi
    BY <1>1, <1>4, <2>1, <2>2
  <2>3. CASE t > hi
    <3>1. PICK i \in 1..L : t \in s[i]
      BY <1>1, <1>2, <2>3 DEF L
    <3>2. i + 1 \in 1..(L + 1) /\ r[i + 1] = s[i]
      BY <1>4, <2>1, <3>1 DEF L
    <3> QED
      BY <3>1, <3>2
  <2> QED
    BY <1>1, <2>2, <2>3
<1>10. d[L + 2] = NTargets + 1
  <2>1. L \in Nat
    BY <1>2 DEF L
  <2>2. L + 2 \in 2..(L + 2) /\ (L + 2) - 1 = L + 1
    BY <2>1
  <2> QED
    BY <1>2, <1>5, <2>2 DEF L
<1>11. Len(s) = L /\ Len(r) = L + 1 /\ Len(r) + 1 = L + 2
  BY <1>2, <1>4 DEF L
<1>12. CutAt(r, lo, d)
  BY <1>4, <1>5, <1>7, <1>8, <1>9, <1>10, <1>11 DEF CutAt
<1> QED
  BY <1>4, <1>12 DEF d, r

\* The waves from lo on: a cut of what is left, in pieces of the size asked for.
Waves(lo) ==
    \E c : /\ CutAt(WavesFrom[lo], lo, c)
           /\ \A i \in 1..Len(WavesFrom[lo]) : WaveSized(c, Len(WavesFrom[lo]), i)

LEMMA NoWavesLeft ==
    ASSUME opts \in Options
    PROVE  Waves(NTargets + 1) /\ WavesFrom[NTargets + 1] = <<>>
<1>1. NTargets \in Nat
  BY StageAssumption
<1>2. WavesFrom[NTargets + 1] = <<>>
  <2>1. Unfold(WavesFrom)[NTargets + 1] = <<>>
    BY <1>1 DEF Unfold, Positions
  <2> QED
    BY <2>1, WavesUnfold
<1> DEFINE c == [i \in 1..1 |-> NTargets + 1]
<1>3. CutAt(<<>>, NTargets + 1, c)
  BY <1>1 DEF CutAt, Positions
<1> QED
  BY <1>2, <1>3 DEF Waves

LEMMA OneWaveMore ==
    ASSUME opts \in Options, NEW lo \in Positions, lo <= NTargets,
           Waves(WaveEnd(lo) + 1)
    PROVE  Waves(lo) /\ Len(WavesFrom[lo]) > 0
<1> DEFINE hi == WaveEnd(lo)
           s == WavesFrom[hi + 1]
<1>1. NTargets \in Nat
  BY StageAssumption
<1>2. /\ hi \in Positions /\ lo <= hi /\ hi < NTargets + 1
      /\ opts.wave > 0 => hi + 1 - lo <= opts.wave
      /\ opts.wave > 0 /\ hi < NTargets => hi + 1 - lo = opts.wave
  BY <1>1, WaveEnds DEF Positions
<1>3. PICK c : CutAt(s, hi + 1, c) /\ \A i \in 1..Len(s) : WaveSized(c, Len(s), i)
  BY DEF Waves
<1>4. WavesFrom[lo] = <<lo..hi>> \o s
  <2>1. WavesFrom[lo] = Unfold(WavesFrom)[lo]
    BY WavesUnfold
  <2>2. ~(lo > NTargets)
    BY <1>1 DEF Positions
  <2> QED
    BY <2>1, <2>2 DEF Unfold
<1> DEFINE d == [i \in 1..(Len(s) + 2) |-> IF i = 1 THEN lo ELSE c[i - 1]]
           r == <<lo..hi>> \o s
<1>5. CutAt(r, lo, d) /\ Len(r) = Len(s) + 1
  BY <1>2, <1>3, CutMore
<1>6. /\ Len(s) \in Nat
      /\ c \in [1..(Len(s) + 1) -> Positions]
      /\ c[1] = hi + 1 /\ c[Len(s) + 1] = NTargets + 1
  BY <1>3 DEF CutAt
<1> DEFINE L == Len(s)
<1>7. /\ d[1] = lo /\ d[2] = hi + 1
      /\ \A i \in 2..(L + 1) : d[i] = c[i - 1] /\ d[i + 1] = c[i]
  <2>1. \A i \in 2..(L + 1) : i \in 1..(L + 2) /\ i + 1 \in 1..(L + 2) /\ i # 1 /\ i + 1 # 1
                              /\ (i + 1) - 1 = i
    BY <1>6
  <2>2. 1 \in 1..(L + 2) /\ 2 \in 1..(L + 2) /\ 2 - 1 = 1 /\ 2 # 1
    BY <1>6
  <2> QED
    BY <1>6, <2>1, <2>2
<1> HIDE DEF d, r, s, hi
<1>8. \A i \in 1..(L + 1) : WaveSized(d, L + 1, i)
  <2> SUFFICES ASSUME NEW i \in 1..(L + 1) PROVE WaveSized(d, L + 1, i)
    OBVIOUS
  <2>1. L \in Nat /\ lo \in Int /\ hi \in Int /\ opts.wave \in Int
    BY <1>2, <1>6 DEF Positions, Options
  <2>2. CASE i = 1
    <3>1. L = 0 \/ hi < NTargets
      <4>1. hi = NTargets => s = <<>>
        BY NoWavesLeft DEF s
      <4> QED
        BY <1>1, <1>2, <2>1, <4>1
    <3> QED
      BY <1>2, <1>7, <2>1, <2>2, <3>1 DEF WaveSized
  <2>3. CASE i # 1
    <3>1. i \in 2..(L + 1) /\ i - 1 \in 1..L /\ (i - 1) + 1 = i /\ (i - 1 < L <=> i < L + 1)
      BY <2>1, <2>3
    <3>2. WaveSized(c, L, i - 1)
      BY <1>3, <3>1
    <3> QED
      BY <1>7, <3>1, <3>2 DEF WaveSized
  <2> QED
    BY <2>2, <2>3
<1>9. WavesFrom[lo] = r /\ L + 1 > 0
  BY <1>4, <1>6 DEF r
<1> QED
  BY <1>5, <1>8, <1>9 DEF Waves

LEMMA AllWaves ==
    ASSUME opts \in Options
    PROVE  /\ \A lo \in Positions : Waves(lo)
           /\ NTargets > 0 => Len(WavesFrom[1]) > 0
<1>1. NTargets \in Nat /\ NTargets + 1 \in Positions /\ 1 \in Positions
  BY StageAssumption DEF Positions
<1>2. \A lo \in Positions : Waves(lo)
  <2> DEFINE T == {k \in Nat : k <= NTargets /\ ~Waves(NTargets + 1 - k)}
  <2>1. SUFFICES ASSUME T # {} PROVE FALSE
    <3> SUFFICES ASSUME T = {}, NEW lo \in Positions PROVE Waves(lo)
      OBVIOUS
    <3> DEFINE k == NTargets + 1 - lo
    <3>1. k \in Nat /\ k <= NTargets /\ NTargets + 1 - k = lo
      BY <1>1 DEF Positions
    <3> HIDE DEF k
    <3>2. ~(k \in T)
      OBVIOUS
    <3>3. Waves(NTargets + 1 - k)
      BY <3>1, <3>2
    <3> QED
      BY <3>1, <3>3
  <2>2. PICK n \in T : \A m \in T : n <= m
    BY <2>1, Least
  <2>3. n \in Nat /\ n <= NTargets /\ ~Waves(NTargets + 1 - n)
    BY <2>2
  <2>4. n # 0
    <3>1. NTargets + 1 - 0 = NTargets + 1
      BY <1>1
    <3> QED
      BY <2>3, <3>1, NoWavesLeft
  <2> DEFINE lo == NTargets + 1 - n
             k == NTargets - WaveEnd(lo)
  <2>5. lo \in Positions /\ lo <= NTargets /\ lo \in Nat
    BY <1>1, <2>3, <2>4 DEF Positions
  <2>6. WaveEnd(lo) \in Nat /\ lo <= WaveEnd(lo) /\ WaveEnd(lo) <= NTargets
    BY <2>5, WaveEnds
  <2>7. k \in Nat /\ k <= NTargets /\ NTargets + 1 - k = WaveEnd(lo) + 1
    BY <1>1, <2>6
  <2>8. k < n
    BY <1>1, <2>3, <2>6
  <2> HIDE DEF k
  <2>9. ~(k \in T)
    <3>1. k \in T => n <= k
      BY <2>2
    <3> QED
      BY <2>3, <2>7, <2>8, <3>1
  <2>10. Waves(NTargets + 1 - k)
    BY <2>7, <2>9
  <2>11. Waves(WaveEnd(lo) + 1)
    BY <2>7, <2>10
  <2> QED
    BY <2>3, <2>5, <2>11, OneWaveMore
<1>3. ASSUME NTargets > 0 PROVE Len(WavesFrom[1]) > 0
  <2>1. 1 <= NTargets
    BY <1>1, <1>3
  <2>2. WaveEnd(1) + 1 \in Positions
    BY <1>1, <2>1, WaveEnds
  <2> QED
    BY <1>1, <1>2, <2>1, <2>2, OneWaveMore
<1> QED
  BY <1>2, <1>3

\* c is where the batches begin.
CutsBatches(c) ==
    /\ CutAt(Batches, 1, c)
    /\ NBatches > 1 /\ opts.canary > 0 => c[2] - c[1] = opts.canary
    /\ \A i \in 1..NBatches : (i = 1 /\ opts.canary > 0) \/ WaveSized(c, NBatches, i)

LEMMA BatchesAreCut ==
    ASSUME opts \in Options
    PROVE  (\E c : CutsBatches(c)) /\ (NTargets > 0 => NBatches > 0)
<1>1. NTargets \in Nat /\ opts.canary \in Nat
  BY StageAssumption DEF Options
<1>2. CASE opts.canary > 0 /\ opts.canary < NTargets
  <2> DEFINE hi == opts.canary
             s == WavesFrom[hi + 1]
  <2>1. hi \in Positions /\ hi + 1 \in Positions /\ 1 \in Positions /\ 1 <= hi
    BY <1>1, <1>2 DEF Positions
  <2>2. PICK c : CutAt(s, hi + 1, c) /\ \A i \in 1..Len(s) : WaveSized(c, Len(s), i)
    BY <2>1, AllWaves DEF Waves
  <2>3. Batches = <<1..hi>> \o s
    BY <1>2 DEF Batches
  <2> DEFINE d == [i \in 1..(Len(s) + 2) |-> IF i = 1 THEN 1 ELSE c[i - 1]]
             L == Len(s)
  <2>4. CutAt(Batches, 1, d) /\ NBatches = L + 1
    <3>1. 1 \in Positions /\ hi \in Positions /\ 1 <= hi /\ hi < NTargets + 1
      BY <1>1, <1>2, <2>1
    <3>2. CutAt(<<1..hi>> \o s, 1, d) /\ Len(<<1..hi>> \o s) = Len(s) + 1
      BY <2>2, <3>1, CutMore
    <3> QED
      BY <2>3, <3>2 DEF NBatches
  <2>5. L \in Nat /\ c[1] = hi + 1
    BY <2>2 DEF CutAt
  <2>6. /\ d[1] = 1 /\ d[2] = hi + 1
        /\ \A i \in 2..(L + 1) : d[i] = c[i - 1] /\ d[i + 1] = c[i]
    <3>1. \A i \in 2..(L + 1) : i \in 1..(L + 2) /\ i + 1 \in 1..(L + 2) /\ i # 1 /\ i + 1 # 1
                                /\ (i + 1) - 1 = i
      BY <2>5
    <3>2. 1 \in 1..(L + 2) /\ 2 \in 1..(L + 2) /\ 2 - 1 = 1 /\ 2 # 1
      BY <2>5
    <3> QED
      BY <2>5, <3>1, <3>2
  <2> HIDE DEF d, s, L
  <2>7. d[2] - d[1] = hi
    BY <1>1, <2>6
  <2>8. \A i \in 1..(L + 1) : i = 1 \/ WaveSized(d, L + 1, i)
    <3> SUFFICES ASSUME NEW i \in 1..(L + 1), i # 1 PROVE WaveSized(d, L + 1, i)
      OBVIOUS
    <3>1. i \in 2..(L + 1) /\ i - 1 \in 1..L /\ (i - 1) + 1 = i /\ (i - 1 < L <=> i < L + 1)
      BY <2>5
    <3>2. WaveSized(c, L, i - 1)
      BY <2>2, <3>1 DEF L
    <3> QED
      BY <2>6, <3>1, <3>2 DEF WaveSized
  <2>9. CutsBatches(d)
    BY <1>2, <2>4, <2>7, <2>8 DEF CutsBatches
  <2> QED
    BY <2>4, <2>5, <2>9
<1>3. CASE opts.canary > 0 /\ ~(opts.canary < NTargets)
  <2> DEFINE c == [i \in 1..2 |-> IF i = 1 THEN 1 ELSE NTargets + 1]
             s == <<AllTargets>>
  <2>1. Batches = s
    BY <1>3 DEF Batches
  <2>2. /\ s \in Seq(SUBSET AllTargets) /\ Len(s) = 1 /\ s[1] = AllTargets
    OBVIOUS
  <2>3. /\ c \in [1..(1 + 1) -> Positions] /\ c[1] = 1 /\ c[2] = NTargets + 1
    BY <1>1 DEF Positions
  <2> HIDE DEF s, c
  <2>4. CutAt(s, 1, c)
    <3>1. \A i, j \in 1..(1 + 1) : i <= j => c[i] <= c[j]
      BY <1>1, <2>3
    <3>2. \A i \in 1..1 : s[i] = c[i]..(c[i + 1] - 1)
      BY <1>1, <2>2, <2>3 DEF AllTargets
    <3>3. \A t \in 1..NTargets : \E i \in 1..1 : t \in s[i]
      <4>1. 1 \in 1..1 /\ \A t \in 1..NTargets : t \in s[1]
        BY <2>2 DEF AllTargets
      <4> QED
        BY <4>1
    <3> QED
      BY <2>2, <2>3, <3>1, <3>2, <3>3 DEF CutAt
  <2>5. NBatches = 1
    BY <2>1, <2>2 DEF NBatches
  <2>6. CutsBatches(c)
    BY <1>3, <2>1, <2>4, <2>5 DEF CutsBatches
  <2> QED
    BY <2>5, <2>6
<1>4. CASE ~(opts.canary > 0)
  <2>1. Batches = WavesFrom[1] /\ NBatches = Len(WavesFrom[1])
    BY <1>4 DEF Batches, NBatches
  <2>2. 1 \in Positions
    BY <1>1 DEF Positions
  <2>3. PICK c : CutAt(Batches, 1, c) /\ \A i \in 1..NBatches : WaveSized(c, NBatches, i)
    BY <2>1, <2>2, AllWaves DEF Waves
  <2>4. CutsBatches(c)
    BY <1>4, <2>3 DEF CutsBatches
  <2> QED
    BY <2>1, <2>4, AllWaves
<1> QED
  BY <1>2, <1>3, <1>4

\* Where the batches begin, and the end of the last one.
Cut == CHOOSE c \in [1..(NBatches + 1) -> Positions] : CutsBatches(c)

LEMMA CutIsCut ==
    ASSUME opts \in Options
    PROVE  CutsBatches(Cut)
<1>1. PICK c : CutsBatches(c)
  BY BatchesAreCut
<1>2. c \in [1..(NBatches + 1) -> Positions]
  BY <1>1 DEF CutsBatches, CutAt, NBatches
<1> QED
  BY <1>1, <1>2 DEF Cut

LEMMA CutFacts ==
    ASSUME opts \in Options
    PROVE  /\ NTargets \in Nat /\ NBatches \in Nat
           /\ NTargets > 0 => NBatches > 0
           /\ Cut \in [1..(NBatches + 1) -> Positions]
           /\ Cut[1] = 1 /\ Cut[NBatches + 1] = NTargets + 1
           /\ \A i, j \in 1..(NBatches + 1) : i <= j => Cut[i] <= Cut[j]
           /\ \A b \in 1..NBatches :
                /\ Cut[b] \in Nat /\ Cut[b + 1] \in Nat
                /\ 1 <= Cut[b] /\ Cut[b] <= Cut[b + 1] /\ Cut[b + 1] <= NTargets + 1
                /\ Batches[b] = Cut[b]..(Cut[b + 1] - 1)
           /\ \A t \in AllTargets : \E b \in 1..NBatches : t \in Batches[b]
<1>1. NTargets \in Nat
  BY StageAssumption
<1>2. /\ Batches \in Seq(SUBSET AllTargets) /\ NBatches \in Nat
      /\ Cut \in [1..(NBatches + 1) -> Positions]
      /\ Cut[1] = 1 /\ Cut[NBatches + 1] = NTargets + 1
      /\ \A i, j \in 1..(NBatches + 1) : i <= j => Cut[i] <= Cut[j]
      /\ \A i \in 1..NBatches : Batches[i] = Cut[i]..(Cut[i + 1] - 1)
      /\ \A t \in 1..NTargets : \E i \in 1..NBatches : t \in Batches[i]
  BY CutIsCut DEF CutsBatches, CutAt, NBatches
<1>3. \A b \in 1..NBatches : b \in 1..(NBatches + 1) /\ b + 1 \in 1..(NBatches + 1) /\ b <= b + 1
  BY <1>2
<1>4. ASSUME NEW b \in 1..NBatches
      PROVE  /\ Cut[b] \in Nat /\ Cut[b + 1] \in Nat
             /\ 1 <= Cut[b] /\ Cut[b] <= Cut[b + 1] /\ Cut[b + 1] <= NTargets + 1
  <2>1. Cut[b] \in Positions /\ Cut[b + 1] \in Positions /\ Cut[b] <= Cut[b + 1]
    BY <1>2, <1>3
  <2> QED
    BY <1>1, <2>1 DEF Positions
<1> QED
  BY <1>1, <1>2, <1>4, BatchesAreCut DEF AllTargets

\* The batches of one Options are the same batches later.
LEMMA SameCut ==
    ASSUME opts' = opts
    PROVE  Batches' = Batches /\ NBatches' = NBatches /\ Cut' = Cut
<1>1. WavesFrom' = WavesFrom
  BY DEF WavesFrom
<1>2. Batches' = Batches /\ NBatches' = NBatches
  BY <1>1 DEF Batches, NBatches
<1>3. \A c : CutsBatches(c)' <=> CutsBatches(c)
  BY <1>2 DEF CutsBatches, CutAt, WaveSized
<1> QED
  BY <1>2, <1>3 DEF Cut

\* For any inventory and sizes: the batches cut the inventory into consecutive
\* pieces of the sizes asked for (stage.go:91).
THEOREM StagesPartition == Spec => []BatchesPartition
<1>1. Init => opts \in Options
  BY DEF Init
<1>2. opts \in Options /\ [Next]_vars => (opts \in Options)'
  BY DEF Next, Advance, BatchStep, Collect, Return, AfterGate, NextBatch, GateStart,
         HealthPasses, HealthFails, PauseEnds, PauseInterrupted, Interrupt, Terminated,
         vars, stageVars
<1>3. opts \in Options => BatchesPartition
  <2> SUFFICES ASSUME opts \in Options PROVE BatchesPartition
    OBVIOUS
  <2>1. UNION {Batches[b] : b \in 1..NBatches} = AllTargets
    <3>1. \A b \in 1..NBatches : Batches[b] \subseteq AllTargets
      BY CutFacts DEF AllTargets
    <3> QED
      BY <3>1, CutFacts
  <2>2. \A b, c \in 1..NBatches : b < c =>
            (\A t \in Batches[b], u \in Batches[c] : t < u)
    <3> SUFFICES ASSUME NEW b \in 1..NBatches, NEW c \in 1..NBatches, b < c,
                        NEW t \in Batches[b], NEW u \in Batches[c]
                 PROVE  t < u
      OBVIOUS
    <3>1. b + 1 \in 1..(NBatches + 1) /\ c \in 1..(NBatches + 1) /\ b + 1 <= c
      BY CutFacts
    <3>2. Cut[b + 1] <= Cut[c]
      BY <3>1, CutFacts
    <3>3. /\ Cut[b + 1] \in Nat /\ Cut[c] \in Nat
          /\ t \in Cut[b]..(Cut[b + 1] - 1) /\ u \in Cut[c]..(Cut[c + 1] - 1)
          /\ Cut[b] \in Nat /\ Cut[c + 1] \in Nat
      BY CutFacts
    <3> QED
      BY <3>2, <3>3
  <2>3. \A b \in 1..NBatches : Cardinality(Batches[b]) = Cut[b + 1] - Cut[b]
    <3> SUFFICES ASSUME NEW b \in 1..NBatches
                 PROVE  Cardinality(Batches[b]) = Cut[b + 1] - Cut[b]
      OBVIOUS
    <3> DEFINE lo == Cut[b]
               hi == Cut[b + 1] - 1
    <3>1. lo \in Int /\ hi \in Int /\ Batches[b] = lo..hi /\ lo <= hi + 1
      BY CutFacts
    <3> HIDE DEF lo, hi
    <3>2. Cardinality(lo..hi) = IF lo > hi THEN 0 ELSE hi - lo + 1
      BY <3>1, FS_Interval
    <3>3. Cardinality(Batches[b]) = hi - lo + 1
      BY <3>1, <3>2
    <3>4. hi - lo + 1 = Cut[b + 1] - Cut[b]
      BY CutFacts DEF lo, hi
    <3> QED
      BY <3>3, <3>4
  <2>4. NBatches > 1 /\ opts.canary > 0 => Cardinality(Batches[1]) = opts.canary
    <3>1. NBatches > 1 /\ opts.canary > 0 => Cut[2] - Cut[1] = opts.canary
      BY CutIsCut DEF CutsBatches
    <3> QED
      BY <2>3, <3>1, CutFacts
  <2>5. opts.wave > 0 => \A b \in 1..NBatches :
            \/ b = 1 /\ opts.canary > 0
            \/ b < NBatches /\ Cardinality(Batches[b]) = opts.wave
            \/ b = NBatches /\ Cardinality(Batches[b]) <= opts.wave
    <3> SUFFICES ASSUME opts.wave > 0, NEW b \in 1..NBatches, ~(b = 1 /\ opts.canary > 0)
                 PROVE  \/ b < NBatches /\ Cardinality(Batches[b]) = opts.wave
                        \/ b = NBatches /\ Cardinality(Batches[b]) <= opts.wave
      OBVIOUS
    <3>1. WaveSized(Cut, NBatches, b)
      BY CutIsCut DEF CutsBatches
    <3> QED
      BY <2>3, <3>1, CutFacts DEF WaveSized
  <2> QED
    BY <2>1, <2>2, <2>4, <2>5 DEF BatchesPartition
<1> QED
  BY <1>1, <1>2, <1>3, PTL DEF Spec

-----------------------------------------------------------------------------
(* The inductive invariant.                                                *)

Ended == {"ok", "fail", "skip"}
Results == Nat \X Ended

TypeOK ==
    /\ opts \in Options
    /\ status \in [AllTargets -> {"pending", "running"} \cup Ended]
    /\ phase \in {"batch", "gate", "health", "pause", "returned"}
    /\ err \in {"none", "health", "ctx"}
    /\ all \in Seq(Results)

\* The batch whose Run goes on, or has come back.  The last is followed by
\* nothing, and only an empty inventory has none.
Place ==
    /\ NBatches = 0 => phase = "returned" /\ scope = {} /\ batch = 1
    /\ NBatches > 0 => batch \in 1..NBatches /\ scope = Batches[batch]
    /\ phase \in {"gate", "health", "pause"} => batch < NBatches
    /\ phase \in {"gate", "health"} => opts.health

\* Before the current batch all targets have ended, past it none has started,
\* and its own have ended when its Run has come back.
Barrier ==
    /\ NBatches > 0 => \A t \in AllTargets :
        /\ t < Cut[batch] => status[t] \in Ended
        /\ t >= Cut[batch + 1] => status[t] = "pending"
    /\ over => \A t \in scope : status[t] \in Ended

\* Runs that have come back, and what ended one early.
Ways ==
    /\ phase # "batch" /\ NBatches > 0 => over
    /\ stopped => over \/ StopOnError

\* The result of the target at this position, if its rollout has ended.
Outcome(t) == <<t, IF status[t] = "pending" THEN "skip" ELSE status[t]>>

\* The combined results are those of the batches that have been collected, and
\* of all targets at the end, unless a pause was interrupted.
Combined ==
    /\ \A i \in DOMAIN all : all[i] = Outcome(i)
    /\ phase = "batch" => Len(all) = Cut[batch] - 1
    /\ phase \in {"gate", "health", "pause"} => Len(all) = Cut[batch + 1] - 1
    /\ phase = "returned" /\ err # "ctx" => Len(all) = NTargets
    /\ phase = "returned" => total = Summarize(all) /\ Len(all) <= NTargets

IInv == TypeOK /\ Place /\ Barrier /\ Ways /\ Combined

\* The current batch, as an interval.
LEMMA Here ==
    ASSUME TypeOK, Place, NBatches > 0
    PROVE  /\ batch \in 1..NBatches /\ NBatches \in Nat /\ NTargets \in Nat
           /\ Cut[batch] \in Nat /\ Cut[batch + 1] \in Nat
           /\ 1 <= Cut[batch] /\ Cut[batch] <= Cut[batch + 1]
           /\ Cut[batch + 1] <= NTargets + 1
           /\ scope = Cut[batch]..(Cut[batch + 1] - 1) /\ scope \subseteq AllTargets
<1>1. batch \in 1..NBatches /\ scope = Batches[batch] /\ opts \in Options
  BY DEF TypeOK, Place
<1>2. /\ Cut[batch] \in Nat /\ Cut[batch + 1] \in Nat /\ NTargets \in Nat
      /\ 1 <= Cut[batch] /\ Cut[batch] <= Cut[batch + 1]
      /\ Cut[batch + 1] <= NTargets + 1
      /\ scope = Cut[batch]..(Cut[batch + 1] - 1)
  BY <1>1, CutFacts
<1>3. scope \subseteq AllTargets
  BY <1>2 DEF AllTargets
<1> QED
  BY <1>1, <1>2, <1>3, CutFacts

LEMMA NotReturned ==
    ASSUME TypeOK, Place, phase # "returned"
    PROVE  NBatches > 0
BY CutFacts DEF TypeOK, Place

\* Results in order, of an interval.
LEMMA InOrderIs ==
    ASSUME NEW lo \in Nat, NEW hi \in Int, lo <= hi + 1, NEW f,
           \A t \in lo..hi : <<t, f[t]>> \in Results
    PROVE  /\ InOrder(lo..hi, f) \in Seq(Results)
           /\ Len(InOrder(lo..hi, f)) = hi + 1 - lo
           /\ \A i \in 1..(hi + 1 - lo) :
                InOrder(lo..hi, f)[i] = <<lo + i - 1, f[lo + i - 1]>>
<1>1. CASE lo = hi + 1
  <2>1. lo..hi = {}
    BY <1>1
  <2>2. InOrder(lo..hi, f) = <<>>
    BY <2>1 DEF InOrder
  <2>3. <<>> \in Seq(Results) /\ Len(<<>>) = 0 /\ hi + 1 - lo = 0
    BY <1>1
  <2> DEFINE q == InOrder(lo..hi, f)
  <2>4. q \in Seq(Results) /\ Len(q) = hi + 1 - lo
    <3> HIDE DEF q
    <3> QED
      BY <2>2, <2>3 DEF q
  <2>5. \A i \in 1..(hi + 1 - lo) : FALSE
    BY <2>3
  <2> QED
    BY <2>4, <2>5
<1>2. CASE lo <= hi
  <2> DEFINE S == lo..hi
             n == hi + 1 - lo
             r == [i \in 1..n |-> <<lo + i - 1, f[lo + i - 1]>>]
             m == CHOOSE t \in S : \A u \in S : t <= u
  <2>1. S # {} /\ m = lo
    <3>1. lo \in S /\ \A u \in S : lo <= u
      BY <1>2
    <3>2. \A t \in S : (\A u \in S : t <= u) => t = lo
      BY <3>1
    <3> HIDE DEF S
    <3> QED
      BY <3>1, <3>2
  <2>2. Cardinality(S) = n
    <3>1. Cardinality(S) = IF lo > hi THEN 0 ELSE hi - lo + 1
      BY FS_Interval
    <3> QED
      BY <1>2, <3>1
  <2>3. InOrder(S, f) = r
    <3>1. InOrder(S, f) = [i \in 1..Cardinality(S) |-> <<m + i - 1, f[m + i - 1]>>]
      BY <2>1, Zenon DEF InOrder
    <3> HIDE DEF S, n, m
    <3> QED
      BY <2>1, <2>2, <3>1
  <2>4. \A i \in 1..n : lo + i - 1 \in lo..hi
    OBVIOUS
  <2>5. n \in Nat /\ r \in [1..n -> Results]
    BY <1>2, <2>4
  <2>6. r \in Seq(Results) /\ Len(r) = n
    <3> HIDE DEF n, r
    <3> QED
      BY <2>5
  <2> QED
    BY <2>3, <2>6
<1> QED
  BY <1>1, <1>2

\* r is the results of the first n targets.
Good(r, n) ==
    /\ r \in Seq(Results) /\ Len(r) = n
    /\ \A i \in DOMAIN r : r[i] = Outcome(i)

\* Results of an interval after those of the targets before it.
LEMMA Appended ==
    ASSUME NEW lo \in Nat, NEW hi \in Int, 1 <= lo, lo <= hi + 1, NEW f, NEW r,
           Good(r, lo - 1),
           \A t \in lo..hi : <<t, f[t]>> = Outcome(t) /\ Outcome(t) \in Results
    PROVE  Good(r \o InOrder(lo..hi, f), hi)
<1> DEFINE q == InOrder(lo..hi, f)
           p == r \o q
<1>1. r \in Seq(Results) /\ Len(r) = lo - 1 /\ \A i \in 1..(lo - 1) : r[i] = Outcome(i)
  BY DEF Good
<1>2. /\ q \in Seq(Results) /\ Len(q) = hi + 1 - lo
      /\ \A i \in 1..(hi + 1 - lo) : q[i] = <<lo + i - 1, f[lo + i - 1]>>
  BY InOrderIs
<1> HIDE DEF q
<1>3. /\ p \in Seq(Results) /\ Len(p) = Len(r) + Len(q)
      /\ \A i \in 1..(Len(r) + Len(q)) :
            p[i] = IF i <= Len(r) THEN r[i] ELSE q[i - Len(r)]
  BY <1>1, <1>2, ConcatProperties, Zenon
<1> HIDE DEF p
<1>4. Len(p) = hi
  BY <1>1, <1>2, <1>3
<1>5. ASSUME NEW i \in 1..hi PROVE p[i] = Outcome(i)
  <2>1. CASE i < lo
    <3>1. i \in 1..(lo - 1) /\ i <= Len(r) /\ i \in 1..(Len(r) + Len(q))
      BY <1>1, <1>2, <2>1
    <3> QED
      BY <1>1, <1>3, <3>1
  <2>2. CASE i >= lo
    <3>1. i - (lo - 1) \in 1..(hi + 1 - lo) /\ lo + (i - (lo - 1)) - 1 = i /\ i \in lo..hi
      BY <2>2
    <3>2. p[i] = q[i - (lo - 1)]
      BY <1>1, <1>2, <1>3, <2>2
    <3>3. q[i - (lo - 1)] = <<i, f[i]>>
      BY <1>2, <3>1
    <3> QED
      BY <3>1, <3>2, <3>3
  <2> QED
    BY <2>1, <2>2
<1>6. DOMAIN p = 1..hi
  BY <1>3, <1>4
<1> QED
  BY <1>3, <1>4, <1>5, <1>6 DEF p, q, Good

\* What a Run's batch has brought is appended when it has come back.
LEMMA CollectedIsGood ==
    ASSUME IInv, phase = "batch", over
    PROVE  Good(Collected, Cut[batch + 1] - 1)
<1>1. NBatches > 0
  BY NotReturned DEF IInv
<1> DEFINE lo == Cut[batch]
           hi == Cut[batch + 1] - 1
<1>2. /\ lo \in Nat /\ hi \in Int /\ 1 <= lo /\ lo <= hi + 1 /\ hi <= NTargets
      /\ scope = lo..hi /\ scope \subseteq AllTargets
  BY <1>1, Here DEF IInv
<1>3. Good(all, lo - 1)
  BY DEF IInv, TypeOK, Combined, Good
<1>4. \A t \in scope : status[t] \in Ended /\ t \in Nat
  BY <1>2 DEF IInv, Barrier
<1>5. \A t \in lo..hi : <<t, status[t]>> = Outcome(t) /\ Outcome(t) \in Results
  BY <1>2, <1>4 DEF Outcome, Results, Ended
<1> HIDE DEF lo, hi
<1>6. Good(all \o InOrder(lo..hi, status), hi)
  BY <1>2, <1>3, <1>5, Appended
<1> QED
  BY <1>2, <1>6 DEF Collected, lo, hi

\* Nothing was started past a failed gate.
LEMMA UntouchedIs ==
    ASSUME TypeOK, Place, Barrier, NBatches > 0
    PROVE  /\ Untouched = Cut[batch + 1]..NTargets
           /\ \A t \in Untouched : status[t] = "pending"
<1>1. /\ batch \in 1..NBatches /\ NBatches \in Nat /\ NTargets \in Nat
      /\ Cut[batch + 1] \in Nat /\ 1 <= Cut[batch + 1] /\ opts \in Options
  BY Here DEF TypeOK
<1>2. ASSUME NEW t \in Untouched PROVE t \in Cut[batch + 1]..NTargets
  <2>1. PICK b \in (batch + 1)..NBatches : t \in Batches[b]
    BY DEF Untouched
  <2>2. b \in 1..NBatches /\ b \in 1..(NBatches + 1) /\ batch + 1 \in 1..(NBatches + 1)
        /\ batch + 1 <= b
    BY <1>1, <2>1
  <2>3. Cut[batch + 1] <= Cut[b] /\ t \in Cut[b]..(Cut[b + 1] - 1)
        /\ Cut[b] \in Nat /\ Cut[b + 1] \in Nat /\ Cut[b + 1] <= NTargets + 1
    BY <1>1, <2>1, <2>2, CutFacts
  <2> QED
    BY <1>1, <2>3
<1>3. ASSUME NEW t \in Cut[batch + 1]..NTargets PROVE t \in Untouched
  <2>1. t \in AllTargets
    BY <1>1 DEF AllTargets
  <2>2. PICK b \in 1..NBatches : t \in Batches[b]
    BY <1>1, <2>1, CutFacts
  <2>3. t \in Cut[b]..(Cut[b + 1] - 1) /\ Cut[b + 1] \in Nat /\ Cut[b] \in Nat
    BY <1>1, <2>2, CutFacts
  <2>4. b >= batch + 1
    <3>1. SUFFICES ASSUME b < batch + 1 PROVE FALSE
      BY <1>1
    <3>2. b + 1 \in 1..(NBatches + 1) /\ batch + 1 \in 1..(NBatches + 1) /\ b + 1 <= batch + 1
      BY <1>1, <3>1
    <3>3. Cut[b + 1] <= Cut[batch + 1]
      BY <1>1, <3>2, CutFacts
    <3> QED
      BY <1>1, <2>3, <3>3
  <2> QED
    BY <1>1, <2>2, <2>4 DEF Untouched
<1>4. \A t \in Cut[batch + 1]..NTargets : status[t] = "pending"
  BY <1>1 DEF Barrier, AllTargets
<1> QED
  BY <1>2, <1>3, <1>4

\* A rollout that ends at its gate calls the untouched targets skipped.
LEMMA SkippedIsGood ==
    ASSUME IInv, phase \in {"gate", "health"}
    PROVE  Good(all \o InOrder(Untouched, [t \in Untouched |-> "skip"]), NTargets)
<1>1. NBatches > 0
  BY NotReturned DEF IInv
<1> DEFINE lo == Cut[batch + 1]
           f == [t \in Untouched |-> "skip"]
<1>2. lo \in Nat /\ NTargets \in Nat /\ 1 <= lo /\ lo <= NTargets + 1
  BY <1>1, Here DEF IInv
<1>3. Good(all, lo - 1)
  BY DEF IInv, TypeOK, Combined, Good
<1>4. Untouched = lo..NTargets /\ \A t \in Untouched : status[t] = "pending"
  BY <1>1, UntouchedIs DEF IInv
<1>5. \A t \in lo..NTargets : <<t, f[t]>> = Outcome(t) /\ Outcome(t) \in Results
  BY <1>2, <1>4 DEF Outcome, Results, Ended
<1> HIDE DEF lo, f
<1>6. Good(all \o InOrder(lo..NTargets, f), NTargets)
  BY <1>2, <1>3, <1>5, Appended
<1> QED
  BY <1>4, <1>6 DEF f

-----------------------------------------------------------------------------
(* The steps keep it.                                                      *)

\* Before the first Run, or without one.
LEMMA InitHolds == Init => IInv
<1> SUFFICES ASSUME Init PROVE IInv
  OBVIOUS
<1>1. opts \in Options /\ TypeOK
  BY DEF Init, TypeOK
<1>2. Place
  BY <1>1, CutFacts DEF Init, Place
<1>3. NBatches > 0 => 1 \in 1..NBatches /\ Cut[1] = 1 /\ Cut[1] - 1 = 0
  BY <1>1, CutFacts
<1>4. \A t \in AllTargets : t \in Nat /\ 1 <= t /\ status[t] = "pending"
  BY DEF AllTargets, Init
<1>5. Barrier
  BY <1>3, <1>4 DEF Init, Barrier
<1>6. Ways
  BY DEF Init, Ways
<1>7. Combined
  <2>1. all = <<>> /\ Len(all) = 0 /\ DOMAIN all = {}
    BY DEF Init
  <2>2. total = Summarize(all)
    <3>1. \A s : {i \in DOMAIN all : all[i][2] = s} = {}
      BY <2>1
    <3> QED
      BY <3>1, FS_EmptySet DEF Init, NoCounts, Summarize
  <2>3. phase = "batch" => Len(all) = Cut[batch] - 1
    BY <1>1, <1>3, <2>1, CutFacts DEF Init
  <2>4. NTargets \in Nat /\ (phase = "returned" => NTargets = 0)
    BY <1>1, CutFacts DEF Init
  <2> QED
    BY <2>1, <2>2, <2>3, <2>4 DEF Init, Combined
<1> QED
  BY <1>1, <1>2, <1>5, <1>6, <1>7 DEF IInv

\* What a move of the current Run does.
LEMMA RunEffect ==
    ASSUME IInv, phase = "batch", Run!Progress
    PROVE  /\ status' \in [AllTargets -> {"pending", "running"} \cup Ended]
           /\ \A t \in AllTargets : t \notin scope \/ status[t] \in Ended =>
                status'[t] = status[t]
           /\ UNCHANGED <<scope, interrupted>>
           /\ over' => \A t \in scope : status'[t] \in Ended
           /\ stopped' => over' \/ StopOnError
<1>1. scope \subseteq AllTargets
  BY NotReturned, Here DEF IInv
<1>2. /\ status \in [AllTargets -> {"pending", "running"} \cup Ended]
      /\ stopped => over \/ StopOnError
  BY DEF IInv, TypeOK, Ways
<1>3. CASE \E t \in scope : Run!Start(t) \/ Run!SkipTarget(t)
  <2>1. PICK t \in scope : Run!Start(t) \/ Run!SkipTarget(t)
    BY <1>3
  <2>2. /\ t \in AllTargets /\ status[t] = "pending"
        /\ \E s \in {"running", "skip"} : status' = [status EXCEPT ![t] = s]
        /\ UNCHANGED <<scope, interrupted, stopped, over>> /\ ~over
    BY <1>1, <2>1 DEF Run!Start, Run!SkipTarget, Run!Frontier, Run!Having
  <2>3. over' <=> over
    BY <2>2
  <2>4. stopped' <=> stopped
    BY <2>2
  <2> QED
    BY <1>1, <1>2, <2>2, <2>3, <2>4 DEF Ended
<1>4. CASE \E t \in scope, o \in {"ok", "fail"} : Run!Finish(t, o)
  <2>1. PICK t \in scope, o \in {"ok", "fail"} : Run!Finish(t, o)
    BY <1>4
  <2>2. /\ t \in AllTargets /\ status[t] = "running"
        /\ status' = [status EXCEPT ![t] = o]
        /\ UNCHANGED <<scope, interrupted, over>> /\ ~over
        /\ stopped' => stopped \/ StopOnError
    BY <1>1, <2>1 DEF Run!Finish, Run!Having
  <2>3. over' <=> over
    BY <2>2
  <2> QED
    BY <1>1, <1>2, <2>2, <2>3 DEF Ended
<1>5. CASE Run!Return
  <2>1. /\ UNCHANGED <<scope, status, interrupted>> /\ over' = TRUE
        /\ \A t \in scope : status[t] # "pending" /\ status[t] # "running"
    BY <1>5 DEF Run!Return, Run!Having
  <2>2. \A t \in scope : status[t] \in Ended
    BY <1>1, <1>2, <2>1
  <2> QED
    BY <1>2, <2>1, <2>2
<1> QED
  BY <1>3, <1>4, <1>5 DEF Run!Progress

LEMMA BatchStepKeeps ==
    ASSUME IInv, BatchStep
    PROVE  IInv'
<1>1. /\ phase = "batch" /\ Run!Progress
      /\ UNCHANGED <<phase, batch, all, err, total, opts>>
  BY DEF BatchStep, stageVars
<1>2. Batches' = Batches /\ NBatches' = NBatches /\ Cut' = Cut
  BY <1>1, SameCut
<1>3. /\ status' \in [AllTargets -> {"pending", "running"} \cup Ended]
      /\ \A t \in AllTargets : t \notin scope \/ status[t] \in Ended =>
            status'[t] = status[t]
      /\ scope' = scope
      /\ over' => \A t \in scope : status'[t] \in Ended
      /\ stopped' => over' \/ StopOnError
  BY <1>1, RunEffect
<1>4. /\ NBatches > 0 /\ batch \in 1..NBatches /\ NTargets \in Nat
      /\ Cut[batch] \in Nat /\ Cut[batch + 1] \in Nat
      /\ 1 <= Cut[batch] /\ Cut[batch] <= Cut[batch + 1]
      /\ Cut[batch + 1] <= NTargets + 1
      /\ scope = Cut[batch]..(Cut[batch + 1] - 1) /\ scope \subseteq AllTargets
  BY <1>1, NotReturned, Here DEF IInv
<1>5. TypeOK' /\ Place'
  BY <1>1, <1>2, <1>3 DEF IInv, TypeOK, Place
<1>6. Barrier'
  <2>1. \A t \in AllTargets : t \in Nat
    BY DEF AllTargets
  <2>2. \A t \in AllTargets :
            /\ t < Cut[batch] => status'[t] \in Ended
            /\ t >= Cut[batch + 1] => status'[t] = "pending"
    BY <1>3, <1>4, <2>1 DEF IInv, Barrier
  <2> QED
    BY <1>1, <1>2, <1>3, <2>2 DEF Barrier
<1>7. Ways'
  BY <1>1, <1>3 DEF Ways
<1>8. Combined'
  <2>1. all \in Seq(Results) /\ Len(all) = Cut[batch] - 1 /\ DOMAIN all = 1..Len(all)
    BY <1>1 DEF IInv, TypeOK, Combined
  <2>2. \A i \in DOMAIN all : i \in AllTargets /\ i \notin scope
    BY <1>4, <2>1 DEF AllTargets
  <2>3. \A i \in DOMAIN all : all[i] = Outcome(i) /\ status'[i] = status[i]
    BY <1>3, <2>2 DEF IInv, Combined
  <2>4. \A i \in DOMAIN all : Outcome(i)' = Outcome(i)
    BY <2>3 DEF Outcome
  <2> QED
    BY <1>1, <1>2, <2>1, <2>3, <2>4 DEF Combined
<1> QED
  BY <1>5, <1>6, <1>7, <1>8 DEF IInv

\* The next batch begins.
LEMMA NextBatchKeeps ==
    ASSUME IInv, NBatches > 0, batch < NBatches, over, NextBatch,
           Good(all', Cut[batch + 1] - 1)
    PROVE  IInv'
<1>1. /\ phase' = "batch" /\ batch' = batch + 1 /\ scope' = Batches[batch + 1]
      /\ ~stopped' /\ ~over'
      /\ UNCHANGED <<status, err, opts>>
  BY DEF NextBatch
<1>2. Batches' = Batches /\ NBatches' = NBatches /\ Cut' = Cut
  BY <1>1, SameCut
<1>3. /\ batch \in 1..NBatches /\ NBatches \in Nat /\ NTargets \in Nat
      /\ Cut[batch] \in Nat /\ Cut[batch + 1] \in Nat
      /\ scope = Cut[batch]..(Cut[batch + 1] - 1)
      /\ opts \in Options
  BY Here DEF IInv, TypeOK
<1>4. batch + 1 \in 1..NBatches
  BY <1>3
<1>5. Cut[(batch + 1) + 1] \in Nat /\ Cut[batch + 1] <= Cut[(batch + 1) + 1]
  BY <1>3, <1>4, CutFacts
<1>6. TypeOK'
  BY <1>1 DEF IInv, TypeOK, Good
<1>7. Place'
  BY <1>1, <1>2, <1>3, <1>4 DEF Place
<1>8. Barrier'
  <2>1. \A t \in AllTargets : t \in Nat
    BY DEF AllTargets
  <2>2. \A t \in AllTargets :
            /\ t < Cut[batch + 1] => status[t] \in Ended
            /\ t >= Cut[(batch + 1) + 1] => status[t] = "pending"
    BY <1>3, <1>5, <2>1 DEF IInv, Barrier
  <2> QED
    BY <1>1, <1>2, <2>2 DEF Barrier
<1>9. Ways'
  BY <1>1 DEF Ways
<1>10. Combined'
  <2>1. \A i : Outcome(i)' = Outcome(i)
    BY <1>1 DEF Outcome
  <2>2. Len(all') = Cut[batch + 1] - 1 /\ \A i \in DOMAIN all' : all'[i] = Outcome(i)
    BY DEF Good
  <2> QED
    BY <1>1, <1>2, <2>1, <2>2 DEF Combined
<1> QED
  BY <1>6, <1>7, <1>8, <1>9, <1>10 DEF IInv

\* Nothing of the batch changes; its results are in, and RunWaves goes on to
\* its gate, its pause or its end.
LEMMA StayKeeps ==
    ASSUME IInv, NBatches > 0, over,
           UNCHANGED <<scope, status, stopped, over, batch, opts>>,
           phase' \in {"gate", "health", "pause", "returned"},
           err' \in {"none", "health", "ctx"},
           phase' # "returned" => batch < NBatches /\ Good(all', Cut[batch + 1] - 1),
           phase' \in {"gate", "health"} => opts.health,
           phase' = "returned" => total' = Summarize(all'),
           phase' = "returned" =>
                \/ Good(all', NTargets)
                \/ err' = "ctx" /\ Good(all', Cut[batch + 1] - 1)
    PROVE  IInv'
<1>1. Batches' = Batches /\ NBatches' = NBatches /\ Cut' = Cut
  BY SameCut
<1>2. Cut[batch + 1] - 1 <= NTargets /\ NTargets <= NTargets /\ Cut[batch + 1] \in Nat
  BY Here DEF IInv
<1>3. TypeOK'
  BY DEF IInv, TypeOK, Good
<1>4. Place'
  BY <1>1 DEF IInv, Place
<1>5. Barrier'
  BY <1>1 DEF IInv, Barrier
<1>6. Ways'
  BY DEF IInv, Ways
<1>7. Combined'
  <2>1. \A i : Outcome(i)' = Outcome(i)
    BY DEF Outcome
  <2>2. \A i \in DOMAIN all' : all'[i] = Outcome(i)
    BY DEF Good
  <2>3. \/ Len(all') = NTargets
        \/ Len(all') = Cut[batch + 1] - 1
    BY DEF Good
  <2>4. phase' # "returned" => Len(all') = Cut[batch + 1] - 1
    BY DEF Good
  <2>5. phase' = "returned" /\ err' # "ctx" => Len(all') = NTargets
    BY DEF Good
  <2> QED
    BY <1>1, <1>2, <2>1, <2>2, <2>3, <2>4, <2>5 DEF Combined
<1> QED
  BY <1>3, <1>4, <1>5, <1>6, <1>7 DEF IInv

\* Past the gate, with results r.
LEMMA AfterGateKeeps ==
    ASSUME IInv, NBatches > 0, batch < NBatches, over, NEW r, AfterGate(r),
           Good(r, Cut[batch + 1] - 1)
    PROVE  IInv'
<1>1. all' = r
  BY DEF AfterGate
<1>2. CASE opts.pause
  <2>1. phase' = "pause" /\ UNCHANGED <<scope, status, stopped, over, batch, opts, err>>
    BY <1>2 DEF AfterGate, runVars
  <2>2. err \in {"none", "health", "ctx"}
    BY DEF IInv, TypeOK
  <2> QED
    BY <1>1, <2>1, <2>2, StayKeeps
<1>3. CASE ~opts.pause
  BY <1>1, <1>3, NextBatchKeeps DEF AfterGate
<1> QED
  BY <1>2, <1>3

LEMMA CollectKeeps ==
    ASSUME IInv, Collect
    PROVE  IInv'
<1>1. phase = "batch" /\ over /\ NBatches > 0
  BY NotReturned DEF Collect, IInv
<1>2. Good(Collected, Cut[batch + 1] - 1) /\ opts \in Options
  BY <1>1, CollectedIsGood DEF IInv, TypeOK
<1>3. CASE batch = NBatches
  <2>1. /\ Return(Collected, "none")
        /\ UNCHANGED <<scope, status, stopped, over, batch>>
    BY <1>3 DEF Collect, runVars
  <2>2. Cut[batch + 1] - 1 = NTargets
    <3>1. Cut[NBatches + 1] = NTargets + 1 /\ NTargets \in Nat
      BY <1>2, CutFacts
    <3> QED
      BY <1>3, <3>1
  <2> QED
    BY <1>1, <1>2, <2>1, <2>2, StayKeeps DEF Return
<1>4. CASE batch # NBatches
  <2>1. batch < NBatches
    BY <1>1, <1>4, Here DEF IInv
  <2>2. CASE opts.health
    <3>1. /\ phase' = "gate" /\ all' = Collected
          /\ UNCHANGED <<scope, status, stopped, over, batch, err, opts>>
      BY <1>4, <2>2 DEF Collect, runVars
    <3>2. err \in {"none", "health", "ctx"}
      BY DEF IInv, TypeOK
    <3> QED
      BY <1>1, <1>2, <2>1, <2>2, <3>1, <3>2, StayKeeps
  <2>3. CASE ~opts.health
    BY <1>1, <1>2, <1>4, <2>1, <2>3, AfterGateKeeps DEF Collect
  <2> QED
    BY <2>2, <2>3
<1> QED
  BY <1>3, <1>4

\* The gate's command is started, passes or fails, and the pause ends or is
\* interrupted.
LEMMA GateKeeps ==
    ASSUME IInv, GateStart \/ HealthPasses \/ HealthFails \/ PauseEnds \/ PauseInterrupted
    PROVE  IInv'
<1>1. phase \in {"gate", "health", "pause"}
  BY DEF GateStart, HealthPasses, HealthFails, PauseEnds, PauseInterrupted
<1>2. /\ NBatches > 0 /\ batch < NBatches /\ over
      /\ phase \in {"gate", "health"} => opts.health
  BY <1>1, NotReturned DEF IInv, Place, Ways
<1>3. Good(all, Cut[batch + 1] - 1)
  BY <1>1 DEF IInv, TypeOK, Combined, Good
<1>4. err \in {"none", "health", "ctx"}
  BY DEF IInv, TypeOK
<1>5. CASE GateStart
  <2>1. /\ phase' = "health" /\ opts.health
        /\ UNCHANGED <<scope, status, stopped, over, batch, all, err, opts>>
    BY <1>2, <1>5 DEF GateStart, runVars
  <2> QED
    BY <1>2, <1>3, <1>4, <2>1, StayKeeps
<1>6. CASE HealthPasses
  BY <1>2, <1>3, <1>6, AfterGateKeeps DEF HealthPasses
<1>7. CASE HealthFails
  <2> DEFINE r == all \o InOrder(Untouched, [t \in Untouched |-> "skip"])
  <2>1. Good(r, NTargets)
    BY <1>7, SkippedIsGood DEF HealthFails
  <2>2. /\ Return(r, "health")
        /\ UNCHANGED <<scope, status, stopped, over, batch>>
    BY <1>7 DEF HealthFails, runVars
  <2> HIDE DEF r
  <2> QED
    BY <1>2, <2>1, <2>2, StayKeeps DEF Return
<1>8. CASE PauseEnds
  <2>1. NextBatch /\ all' = all
    BY <1>8 DEF PauseEnds
  <2> QED
    BY <1>2, <1>3, <2>1, NextBatchKeeps
<1>9. CASE PauseInterrupted
  <2>1. /\ Return(all, "ctx")
        /\ UNCHANGED <<scope, status, stopped, over, batch>>
    BY <1>9 DEF PauseInterrupted, runVars
  <2> QED
    BY <1>2, <1>3, <2>1, StayKeeps DEF Return
<1> QED
  BY <1>5, <1>6, <1>7, <1>8, <1>9

\* The caller's context is not looked at by the invariant.
LEMMA QuietKeeps ==
    ASSUME IInv, UNCHANGED <<scope, status, stopped, over, phase, batch, all, err, total, opts>>
    PROVE  IInv'
<1>1. Batches' = Batches /\ NBatches' = NBatches /\ Cut' = Cut
  BY SameCut
<1>2. TypeOK' /\ Place' /\ Ways'
  BY <1>1 DEF IInv, TypeOK, Place, Ways
<1>3. Barrier'
  BY <1>1 DEF IInv, Barrier
<1>4. Combined'
  <2>1. \A i : Outcome(i)' = Outcome(i)
    BY DEF Outcome
  <2> QED
    BY <1>1, <2>1 DEF IInv, Combined
<1> QED
  BY <1>2, <1>3, <1>4 DEF IInv

\* The invariant is inductive.
LEMMA StepKeeps == IInv /\ [Next]_vars => IInv'
<1> SUFFICES ASSUME IInv, [Next]_vars PROVE IInv'
  OBVIOUS
<1>1. Advance => IInv'
  BY BatchStepKeeps, CollectKeeps, GateKeeps DEF Advance
<1>2. Interrupt \/ Terminated \/ UNCHANGED vars => IInv'
  <2>1. Interrupt \/ Terminated \/ UNCHANGED vars =>
            UNCHANGED <<scope, status, stopped, over, phase, batch, all, err, total, opts>>
    BY DEF Interrupt, Run!Interrupt, Terminated, vars, runVars, stageVars
  <2> QED
    BY <2>1, QuietKeeps
<1> QED
  BY <1>1, <1>2 DEF Next

LEMMA Invariant == Spec => []IInv
BY InitHolds, StepKeeps, PTL DEF Spec

-----------------------------------------------------------------------------
\* For any inventory, sizes, gate, pause and cap: no target has been started
\* before every target of every earlier batch has ended (stage.go:50).
THEOREM BatchesDoNotOverlap == Spec => []BatchBarrier
<1>1. IInv => BatchBarrier
  <2> SUFFICES ASSUME IInv, NEW b \in 1..NBatches, NEW c \in 1..NBatches, b < c,
                      NEW u \in Batches[c], status[u] # "pending",
                      NEW t \in Batches[b]
               PROVE  status[t] \in Ended
    BY DEF BatchBarrier, Ended
  <2>1. opts \in Options /\ NBatches \in Nat /\ NBatches > 0
    BY CutFacts DEF IInv, TypeOK
  <2>2. batch \in 1..NBatches /\ Cut[batch] \in Nat /\ Cut[batch + 1] \in Nat /\ NTargets \in Nat
    BY <2>1, Here DEF IInv
  <2>3. /\ t \in Cut[b]..(Cut[b + 1] - 1) /\ u \in Cut[c]..(Cut[c + 1] - 1)
        /\ Cut[b] \in Nat /\ Cut[b + 1] \in Nat /\ Cut[c] \in Nat /\ Cut[c + 1] \in Nat
        /\ Cut[b + 1] <= NTargets + 1 /\ Cut[c + 1] <= NTargets + 1
        /\ 1 <= Cut[b] /\ 1 <= Cut[c]
    BY <2>1, CutFacts
  <2>4. t \in AllTargets /\ u \in AllTargets
    BY <2>2, <2>3 DEF AllTargets
  <2>5. u < Cut[batch + 1]
    BY <2>1, <2>2, <2>3, <2>4 DEF IInv, Barrier
  <2>6. c < batch + 1
    <3>1. SUFFICES ASSUME batch + 1 <= c PROVE FALSE
      BY <2>2
    <3>2. batch + 1 \in 1..(NBatches + 1) /\ c \in 1..(NBatches + 1)
      BY <2>1, <2>2
    <3>3. Cut[batch + 1] <= Cut[c]
      BY <2>1, <3>1, <3>2, CutFacts
    <3> QED
      BY <2>2, <2>3, <2>5, <3>3
  <2>7. Cut[b + 1] <= Cut[batch]
    <3>1. b + 1 \in 1..(NBatches + 1) /\ batch \in 1..(NBatches + 1) /\ b + 1 <= batch
      BY <2>1, <2>2, <2>6
    <3> QED
      BY <2>1, <3>1, CutFacts
  <2>8. t < Cut[batch]
    BY <2>2, <2>3, <2>7
  <2> QED
    BY <2>1, <2>4, <2>8 DEF IInv, Barrier
<1> QED
  BY <1>1, Invariant, PTL

\* For any inventory, sizes, gate, pause and cap: the combined results are in
\* order and true, and the rest of a rollout that its gate aborted is called
\* skipped and was never started (stage.go:22).
THEOREM CombinedResultsAreTrue == Spec => []ResultsFaithful
<1>1. IInv => ResultsFaithful
  <2> SUFFICES ASSUME IInv PROVE ResultsFaithful
    OBVIOUS
  <2>1. \A i \in DOMAIN all : all[i][1] = i
            /\ all[i][2] = (IF status[i] = "pending" THEN "skip" ELSE status[i])
    BY DEF IInv, Combined, Outcome
  <2>2. NBatches > 0 => \A t \in Untouched : status[t] = "pending"
    BY UntouchedIs DEF IInv
  <2>3. ~(NBatches > 0) => Untouched = {}
    <3> SUFFICES ASSUME ~(NBatches > 0) PROVE Untouched = {}
      OBVIOUS
    <3>1. NBatches = 0 /\ batch = 1
      BY CutFacts DEF IInv, TypeOK, Place
    <3>2. (batch + 1)..NBatches = {}
      BY <3>1
    <3> QED
      BY <3>2 DEF Untouched
  <2> QED
    BY <2>1, <2>2, <2>3 DEF IInv, Combined, ResultsFaithful
<1> QED
  BY <1>1, Invariant, PTL

-----------------------------------------------------------------------------
(* Staging is one Run.                                                     *)

\* The contract's count is the one of FiniteSets.
LEMMA SameCount ==
    ASSUME NEW S
    PROVE  Run!Cardinality(S) = Cardinality(S) /\ Plain!Cardinality(S) = Cardinality(S)
BY DEF Run!Cardinality, Plain!Cardinality, Cardinality

\* Only targets of the current batch can be running.
LEMMA RunningIsHere ==
    ASSUME IInv, phase = "batch", ~over
    PROVE  /\ {t \in AllTargets : status[t] = "running"} = Run!Having("running")
           /\ scope \subseteq AllTargets
           /\ \A t \in scope, u \in AllTargets \ scope : u < t => status[u] \in Ended
           /\ \A t \in scope : t \in Nat
<1>1. NBatches > 0
  BY NotReturned DEF IInv
<1>2. /\ Cut[batch] \in Nat /\ Cut[batch + 1] \in Nat
      /\ scope = Cut[batch]..(Cut[batch + 1] - 1) /\ scope \subseteq AllTargets
  BY <1>1, Here DEF IInv
<1>3. \A t \in AllTargets : t \in Nat
  BY DEF AllTargets
<1>4. ASSUME NEW u \in AllTargets \ scope
      PROVE  status[u] \in Ended \/ (status[u] = "pending" /\ u >= Cut[batch + 1])
  BY <1>1, <1>2, <1>3 DEF IInv, Barrier
<1>5. \A u \in AllTargets \ scope : status[u] # "running"
  BY <1>4 DEF Ended
<1>6. \A t \in scope, u \in AllTargets \ scope : u < t => status[u] \in Ended
  BY <1>2, <1>3, <1>4
<1> QED
  BY <1>2, <1>3, <1>5, <1>6 DEF Run!Having

\* A move of the current Run is one of the plain Run, but its return.
LEMMA BatchStepIsPlain ==
    ASSUME IInv, BatchStep, ~Staged
    PROVE  \/ Plain!Next
           \/ UNCHANGED <<status, interrupted, total, phase>>
<1>1. /\ UNCHANGED <<phase, total>> /\ StopOnError = FALSE
  BY StageAssumption DEF BatchStep, stageVars, Staged
<1>2. phase = "batch" /\ Run!Progress
  BY DEF BatchStep
<1>3. CASE \E t \in scope : Run!Start(t)
  <2>1. PICK t \in scope : Run!Start(t)
    BY <1>3
  <2>2. ~over
    BY <2>1 DEF Run!Start
  <2>3. /\ {u \in AllTargets : status[u] = "running"} = Run!Having("running")
        /\ t \in AllTargets
        /\ \A u \in AllTargets : u \notin scope /\ u < t => status[u] # "pending"
    BY <1>2, <2>2, RunningIsHere DEF Ended
  <2>4. Plain!Start(t)
    BY <1>1, <1>2, <2>1, <2>3, SameCount
       DEF Run!Start, Run!Frontier, Run!Having, Run!Cut,
           Plain!Start, Plain!Frontier, Plain!Having, Plain!Cut
  <2> QED
    BY <2>3, <2>4 DEF Plain!Next, Plain!Progress
<1>4. CASE \E t \in scope : Run!SkipTarget(t)
  <2>1. PICK t \in scope : Run!SkipTarget(t)
    BY <1>4
  <2>2. ~over
    BY <2>1 DEF Run!SkipTarget
  <2>3. /\ t \in AllTargets
        /\ \A u \in AllTargets : u \notin scope /\ u < t => status[u] # "pending"
    BY <1>2, <2>2, RunningIsHere DEF Ended
  <2>4. interrupted
    <3>1. ~stopped
      BY <1>1, <2>2 DEF IInv, Ways
    <3> QED
      BY <2>1, <3>1 DEF Run!SkipTarget, Run!Cut
  <2>5. Plain!SkipTarget(t)
    BY <1>1, <1>2, <2>1, <2>3, <2>4
       DEF Run!SkipTarget, Run!Frontier, Run!Having,
           Plain!SkipTarget, Plain!Frontier, Plain!Having, Plain!Cut
  <2> QED
    BY <2>3, <2>5 DEF Plain!Next, Plain!Progress
<1>5. CASE \E t \in scope, o \in {"ok", "fail"} : Run!Finish(t, o)
  <2>1. PICK t \in scope, o \in {"ok", "fail"} : Run!Finish(t, o)
    BY <1>5
  <2>2. ~over
    BY <2>1 DEF Run!Finish
  <2>3. t \in AllTargets
    BY <1>2, <2>2, RunningIsHere
  <2>4. Plain!Finish(t, o)
    BY <1>1, <1>2, <2>1, <2>3
       DEF Run!Finish, Run!Having, Plain!Finish, Plain!Having
  <2> QED
    BY <2>3, <2>4 DEF Plain!Next, Plain!Progress
<1>6. CASE Run!Return
  BY <1>1, <1>6 DEF Run!Return
<1> QED
  BY <1>2, <1>3, <1>4, <1>5, <1>6 DEF Run!Progress

\* The end of the last batch is the plain Run's return.
LEMMA LastCollectIsPlain ==
    ASSUME IInv, Collect, batch = NBatches
    PROVE  Plain!Next
<1>1. phase = "batch" /\ over /\ NBatches > 0 /\ opts \in Options
  BY NotReturned DEF Collect, IInv, TypeOK
<1>2. /\ phase' = "returned" /\ total' = Summarize(Collected)
      /\ UNCHANGED <<status, interrupted>>
  BY DEF Collect, Return, runVars
<1>3. \A t \in AllTargets : status[t] \in Ended
  <2>1. Cut[NBatches + 1] = NTargets + 1 /\ NTargets \in Nat
    BY <1>1, CutFacts
  <2>2. /\ Cut[batch] \in Nat /\ scope = Cut[batch]..NTargets
    <3>1. Cut[batch] \in Nat /\ scope = Cut[batch]..(Cut[batch + 1] - 1)
      BY <1>1, Here DEF IInv
    <3> QED
      BY <2>1, <3>1
  <2>3. \A t \in AllTargets : t \in Nat /\ t <= NTargets
    BY <2>1 DEF AllTargets
  <2> QED
    BY <1>1, <2>2, <2>3 DEF IInv, Barrier
<1>4. Good(Collected, NTargets)
  <2>1. Good(Collected, Cut[batch + 1] - 1)
    BY <1>1, CollectedIsGood
  <2>2. Cut[NBatches + 1] = NTargets + 1 /\ NTargets \in Nat
    BY <1>1, CutFacts
  <2>3. Cut[batch + 1] - 1 = NTargets
    BY <2>2
  <2> QED
    BY <2>1, <2>3
<1>5. DOMAIN Collected = AllTargets
  BY <1>4 DEF Good, AllTargets
<1>6. \A t \in AllTargets : Collected[t][2] = status[t]
  BY <1>3, <1>4, <1>5 DEF Good, Outcome, Ended
<1>7. \A s : {i \in DOMAIN Collected : Collected[i][2] = s} = Plain!Having(s)
  BY <1>5, <1>6 DEF Plain!Having
<1>8. Summarize(Collected) = [skipped   |-> Cardinality(Plain!Having("skip")),
                              succeeded |-> Cardinality(Plain!Having("ok")),
                              failed    |-> Cardinality(Plain!Having("fail"))]
  BY <1>7 DEF Summarize
<1>9. Plain!Having("pending") \cup Plain!Having("running") = {}
  BY <1>3 DEF Plain!Having, Ended
<1>10. Plain!Return
  BY <1>1, <1>2, <1>8, <1>9, SameCount DEF Plain!Return
<1> QED
  BY <1>10 DEF Plain!Next, Plain!Progress

\* What else RunWaves does is nothing to the plain Run.
LEMMA StepIsPlain ==
    ASSUME IInv, [Next]_vars, ~Staged, err' # "ctx"
    PROVE  \/ Plain!Next
           \/ UNCHANGED <<status, interrupted, total, phase = "returned">>
<1>1. \/ UNCHANGED <<status, interrupted, total, phase>>
      \/ UNCHANGED <<status, interrupted, total>> /\ phase # "returned" /\ phase' # "returned"
      => UNCHANGED <<status, interrupted, total, phase = "returned">>
  OBVIOUS
<1>2. CASE BatchStep
  BY <1>1, <1>2, BatchStepIsPlain
<1>3. CASE Collect /\ batch = NBatches
  BY <1>3, LastCollectIsPlain
<1>4. CASE Collect /\ batch # NBatches
  <2>1. AfterGate(Collected) /\ phase # "returned"
    BY <1>4 DEF Collect, Staged
  <2>2. UNCHANGED <<status, interrupted, total>> /\ phase' # "returned"
    BY <2>1 DEF AfterGate, NextBatch, runVars
  <2> QED
    BY <1>1, <2>1, <2>2
<1>5. CASE GateStart \/ HealthPasses \/ HealthFails
  <2>1. phase \in {"gate", "health"}
    BY <1>5 DEF GateStart, HealthPasses, HealthFails
  <2> QED
    BY <2>1 DEF IInv, Place, Staged
<1>6. CASE PauseEnds
  <2>1. UNCHANGED <<status, interrupted, total>> /\ phase # "returned" /\ phase' # "returned"
    BY <1>6 DEF PauseEnds, NextBatch
  <2> QED
    BY <1>1, <2>1
<1>7. CASE PauseInterrupted
  BY <1>7 DEF PauseInterrupted, Return
<1>8. CASE Interrupt
  <2>1. Plain!Interrupt
    BY <1>8 DEF Interrupt, Run!Interrupt, Plain!Interrupt, stageVars
  <2> QED
    BY <2>1 DEF Plain!Next
<1>9. CASE Terminated \/ UNCHANGED vars
  BY <1>1, <1>9 DEF Terminated, vars, runVars, stageVars
<1> QED
  BY <1>2, <1>3, <1>4, <1>5, <1>6, <1>7, <1>8, <1>9 DEF Next, Advance

\* For any inventory, sizes, pause and cap: staging without a gate and without
\* StopOnError is one Run over the whole inventory to its caller, unless an
\* interrupt ends a pause (stage.go:41).
THEOREM PlainStagingIsOneRun == Spec => PlainSpec
<1>1. Init => Staged \/ NTargets = 0 \/ Plain!Init
  <2> SUFFICES ASSUME Init, NTargets # 0 PROVE Plain!Init
    OBVIOUS
  <2>1. NTargets > 0 /\ opts \in Options
    BY StageAssumption DEF Init
  <2>2. phase = "batch"
    BY <2>1, CutFacts DEF Init
  <2> QED
    BY <2>2 DEF Init, Plain!Init, Plain!Begin, NoCounts
<1>2. IInv /\ [Next]_vars =>
        [Staged \/ err' = "ctx" \/ Plain!Next]_<<status, interrupted, total, phase = "returned">>
  BY StepIsPlain
<1> QED
  BY <1>1, <1>2, Invariant, PTL DEF Spec, PlainSpec
=============================================================================
