---------------------------- MODULE ConsoleProofs ----------------------------
(***************************************************************************)
(* The gather view and the run builder, for any form, library of queries,  *)
(* lists and output.  Of the view: the cursor is on a line in the window,  *)
(* the lines show the rows of the run, and a fold stays where it was made. *)
(* Of the builder: where a key goes, what a launched preview hits, and     *)
(* what may overwrite the gather command.                                  *)
(***************************************************************************)
EXTENDS Console, FiniteSetTheorems, SequenceTheorems, WellFoundedInduction, TLAPS

-----------------------------------------------------------------------------
(* Sequences put together.                                                 *)

\* A non-empty set of naturals has a least one.
LEMMA Least ==
    ASSUME NEW T \in SUBSET Nat, T # {}
    PROVE  \E n \in T : \A m \in T : n <= m
<1>1. IsWellFoundedOn(OpToRel(<, Nat), Nat)
  BY NatLessThanWellFounded
<1>2. PICK x \in T : \A y \in T : ~ (<<y, x>> \in OpToRel(<, Nat))
  BY <1>1, WFMin
<1>3. \A y \in T : y < x => <<y, x>> \in OpToRel(<, Nat)
  BY Zenon DEF OpToRel
<1>4. \A y \in T : ~(y < x)
  BY <1>2, <1>3
<1> QED
  BY <1>4

\* A bounded one has a greatest.
LEMMA Greatest ==
    ASSUME NEW T \in SUBSET Nat, T # {}, NEW bound \in Nat, \A n \in T : n <= bound
    PROVE  Max(T) \in T /\ \A n \in T : n <= Max(T)
<1> DEFINE U == {bound - n : n \in T}
<1>1. U \in SUBSET Nat /\ U # {}
  <2>1. \A n \in T : n \in Nat /\ n <= bound /\ bound - n \in Nat
    OBVIOUS
  <2> QED
    BY <2>1
<1>2. PICK u \in U : \A w \in U : u <= w
  BY <1>1, Least
<1>3. PICK m \in T : u = bound - m
  OBVIOUS
<1>4. \A n \in T : m >= n
  <2>1. ASSUME NEW n \in T PROVE m >= n
    <3>1. bound - n \in U
      OBVIOUS
    <3> QED
      BY <3>1, <1>2, <1>3
  <2> QED
    BY <2>1
<1> QED
  BY <1>4 DEF Max

\* g joins the first n of the sequences in ss, as FlattenSeq does.
Joining(ss, n, g) ==
    /\ g = [i \in 1..Len(ss) |-> g[i]]
    /\ \A i \in 1..n : g[i] = IF i = 1 THEN ss[1] ELSE g[i - 1] \o ss[i]

\* There is such a joining of any number of them.
LEMMA JoiningExists ==
    ASSUME NEW S, NEW ss \in Seq(Seq(S))
    PROVE  \E g : Joining(ss, Len(ss), g)
<1> DEFINE T == {n \in Nat : n <= Len(ss) /\ ~ \E g : Joining(ss, n, g)}
<1>0. Len(ss) \in Nat
  BY LenProperties
<1>1. SUFFICES ASSUME T # {} PROVE FALSE
  BY <1>0
<1>2. PICK n \in T : \A m \in T : n <= m
  BY <1>1, Least
<1>3. n # 0
  <2>1. Joining(ss, 0, [i \in 1..Len(ss) |-> <<>>])
    BY DEF Joining
  <2> QED
    BY <2>1
<1>4. n \in Nat /\ n - 1 \in Nat /\ n - 1 < n /\ n <= Len(ss)
  BY <1>3
<1>5. PICK g : Joining(ss, n - 1, g)
  <2>1. n - 1 \notin T
    <3> HIDE DEF T
    <3>1. SUFFICES ASSUME n - 1 \in T PROVE FALSE
      OBVIOUS
    <3>2. n <= n - 1
      BY <1>2, <3>1
    <3> QED
      BY <1>4, <3>2
  <2> QED
    BY <1>0, <1>4, <2>1
<1> DEFINE h == [i \in 1..Len(ss) |-> IF i = n THEN (IF n = 1 THEN ss[1] ELSE g[n - 1] \o ss[n])
                                      ELSE g[i]]
<1>6. Joining(ss, n, h)
  <2>1. h = [i \in 1..Len(ss) |-> h[i]]
    OBVIOUS
  <2>2. ASSUME NEW i \in 1..n
        PROVE  h[i] = IF i = 1 THEN ss[1] ELSE h[i - 1] \o ss[i]
    <3>1. i \in 1..Len(ss) /\ (i # 1 => i - 1 \in 1..Len(ss) /\ i - 1 # n /\ h[i - 1] = g[i - 1])
      BY <1>0, <1>4
    <3>2. CASE i = n
      BY <3>1, <3>2
    <3>3. CASE i # n
      <4>1. i \in 1..(n - 1)
        BY <1>4, <3>3
      <4>2. g[i] = IF i = 1 THEN ss[1] ELSE g[i - 1] \o ss[i]
        BY <4>1, <1>5 DEF Joining
      <4> QED
        BY <3>1, <3>3, <4>2
    <3> QED
      BY <3>2, <3>3
  <2> HIDE DEF h
  <2> QED
    BY <2>1, <2>2 DEF Joining
<1> QED
  BY <1>6, <1>2

\* FlattenSeq is the end of it.
LEMMA FlattenIsJoining ==
    ASSUME NEW S, NEW ss \in Seq(Seq(S)), ss # <<>>
    PROVE  \E g : Joining(ss, Len(ss), g) /\ FlattenSeq(ss) = g[Len(ss)]
<1> DEFINE Equation(f) ==
        f = [i \in 1..Len(ss) |-> IF i = 1 THEN ss[i] ELSE f[i - 1] \o ss[i]]
           h == CHOOSE f : Equation(f)
<1>1. PICK g : Joining(ss, Len(ss), g)
  BY JoiningExists
<1>2. Equation(g)
  BY <1>1 DEF Joining
<1>3. Equation(h)
  BY <1>2, Zenon
<1>4. FlattenSeq(ss) = h[Len(ss)]
  BY DEF FlattenSeq
<1>5. Joining(ss, Len(ss), h)
  <2> HIDE DEF h
  <2> QED
    BY <1>3 DEF Joining
<1> QED
  BY <1>4, <1>5

\* fl is the first n of the sequences in ss, one after the other: the i-th
\* begins after at[i].
Joins(ss, n, fl, at) ==
    /\ at \in [1..Len(ss) -> Nat]
    /\ \A i \in 1..n : at[i] + Len(ss[i]) <= Len(fl)
    /\ \A i \in 1..n : \A k \in 1..Len(ss[i]) : fl[at[i] + k] = ss[i][k]
    /\ \A i, j \in 1..n : i < j => at[i] + Len(ss[i]) <= at[j]
    /\ \A p \in 1..Len(fl) : \E i \in 1..n : \E k \in 1..Len(ss[i]) : p = at[i] + k

\* One more sequence goes to the end.
LEMMA JoinsOneMore ==
    ASSUME NEW S, NEW ss \in Seq(Seq(S)), NEW n \in Nat, n < Len(ss),
           NEW fl \in Seq(S), NEW at, Joins(ss, n, fl, at)
    PROVE  Joins(ss, n + 1, fl \o ss[n + 1], [at EXCEPT ![n + 1] = Len(fl)])
<1> DEFINE next == ss[n + 1]
           gl == fl \o next
           to == [at EXCEPT ![n + 1] = Len(fl)]
<1>1. next \in Seq(S) /\ Len(next) \in Nat /\ Len(fl) \in Nat /\ Len(ss) \in Nat
  BY LenProperties
<1>2. /\ gl \in Seq(S) /\ Len(gl) = Len(fl) + Len(next)
      /\ \A p \in 1..(Len(fl) + Len(next)) : gl[p] = IF p <= Len(fl) THEN fl[p] ELSE next[p - Len(fl)]
  BY <1>1, ConcatProperties
<1>3. at \in [1..Len(ss) -> Nat]
  BY DEF Joins
<1>4. to \in [1..Len(ss) -> Nat] /\ to[n + 1] = Len(fl) /\ \A i \in 1..n : to[i] = at[i]
  BY <1>1, <1>3
<1>5. \A i \in 1..Len(ss) : ss[i] \in Seq(S) /\ Len(ss[i]) \in Nat
  BY LenProperties
<1> HIDE DEF to, gl
<1>6. /\ \A i \in 1..(n + 1) : i \in 1..n \/ i = n + 1
      /\ \A i \in 1..n : at[i] \in Nat /\ Len(ss[i]) \in Nat
  <2>1. ASSUME NEW i \in 1..n PROVE at[i] \in Nat /\ Len(ss[i]) \in Nat
    <3>1. i \in 1..Len(ss)
      BY <1>1
    <3>2. at[i] \in Nat
      BY <3>1, <1>3
    <3> QED
      BY <3>1, <3>2, <1>5
  <2>2. \A i \in 1..(n + 1) : i \in 1..n \/ i = n + 1
    OBVIOUS
  <2> QED
    BY <2>1, <2>2
<1>7. ASSUME NEW i \in 1..(n + 1)
      PROVE  to[i] + Len(ss[i]) <= Len(gl)
  <2>1. CASE i \in 1..n
    <3>1. at[i] + Len(ss[i]) <= Len(fl) /\ to[i] = at[i]
      BY <2>1, <1>4 DEF Joins
    <3>2. at[i] \in Nat /\ Len(ss[i]) \in Nat
      BY <2>1, <1>6
    <3> QED
      BY <3>1, <3>2, <1>1, <1>2
  <2>2. CASE i = n + 1
    BY <2>2, <1>1, <1>2, <1>4
  <2> QED
    BY <2>1, <2>2, <1>6
<1>8. ASSUME NEW i \in 1..(n + 1), NEW k \in 1..Len(ss[i])
      PROVE  gl[to[i] + k] = ss[i][k]
  <2>1. CASE i \in 1..n
    <3>1. to[i] + k \in 1..Len(fl) /\ fl[to[i] + k] = ss[i][k]
      <4>1. at[i] + Len(ss[i]) <= Len(fl) /\ fl[at[i] + k] = ss[i][k]
        <5>1. \A m \in 1..Len(ss[i]) : fl[at[i] + m] = ss[i][m]
          BY <2>1 DEF Joins
        <5> QED
          BY <5>1, <2>1 DEF Joins
      <4>2. at[i] \in Nat /\ Len(ss[i]) \in Nat /\ to[i] = at[i]
        BY <2>1, <1>4, <1>6
      <4> QED
        BY <4>1, <4>2, <1>1
    <3> HIDE DEF next
    <3>2. to[i] + k \in 1..(Len(fl) + Len(next)) /\ to[i] + k <= Len(fl)
      BY <3>1, <1>1
    <3>3. gl[to[i] + k] = fl[to[i] + k]
      BY <3>2, <1>2
    <3> QED
      BY <3>1, <3>3
  <2>2. CASE i = n + 1
    <3>1. to[i] + k = Len(fl) + k /\ k \in 1..Len(next) /\ ss[i][k] = next[k]
      BY <2>2, <1>4
    <3>2. Len(fl) + k \in 1..(Len(fl) + Len(next)) /\ ~(Len(fl) + k <= Len(fl))
          /\ (Len(fl) + k) - Len(fl) = k
      BY <3>1, <1>1
    <3> HIDE DEF next
    <3> QED
      BY <3>1, <3>2, <1>2
  <2> QED
    BY <2>1, <2>2, <1>6
<1>9. ASSUME NEW i \in 1..(n + 1), NEW j \in 1..(n + 1), i < j
      PROVE  to[i] + Len(ss[i]) <= to[j]
  <2>1. i \in 1..n
    BY <1>9
  <2>2. CASE j \in 1..n
    BY <2>1, <2>2, <1>4, <1>9 DEF Joins
  <2>3. CASE j = n + 1
    BY <2>1, <2>3, <1>4 DEF Joins
  <2> QED
    BY <2>2, <2>3, <1>6
<1>10. ASSUME NEW p \in 1..Len(gl)
       PROVE  \E i \in 1..(n + 1) : \E k \in 1..Len(ss[i]) : p = to[i] + k
  <2>1. CASE p <= Len(fl)
    <3>1. PICK i \in 1..n : \E k \in 1..Len(ss[i]) : p = at[i] + k
      BY <2>1, <1>1, <1>2 DEF Joins
    <3> QED
      BY <3>1, <1>4
  <2>2. CASE p > Len(fl)
    <3>1. p - Len(fl) \in 1..Len(ss[n + 1]) /\ p = to[n + 1] + (p - Len(fl))
      BY <2>2, <1>1, <1>2, <1>4
    <3> QED
      BY <3>1
  <2> QED
    BY <2>1, <2>2, <1>1, <1>2
<1>11. Joins(ss, n + 1, gl, to)
  BY <1>4, <1>7, <1>8, <1>9, <1>10 DEF Joins
<1> QED
  BY <1>11 DEF gl, to

\* What FlattenSeq returns.
LEMMA FlattenJoins ==
    ASSUME NEW S, NEW ss \in Seq(Seq(S))
    PROVE  FlattenSeq(ss) \in Seq(S) /\ \E at : Joins(ss, Len(ss), FlattenSeq(ss), at)
<1>1. CASE ss = <<>>
  <2>1. FlattenSeq(ss) = <<>> /\ Len(ss) = 0
    BY <1>1 DEF FlattenSeq
  <2>2. Joins(ss, Len(ss), <<>>, [i \in 1..Len(ss) |-> 0])
    BY <2>1 DEF Joins
  <2> QED
    BY <2>1, <2>2
<1>2. CASE ss # <<>>
  <2>1. PICK g : Joining(ss, Len(ss), g) /\ FlattenSeq(ss) = g[Len(ss)]
    BY <1>2, FlattenIsJoining
  <2>2. Len(ss) \in Nat \ {0} /\ \A i \in 1..Len(ss) : ss[i] \in Seq(S)
    BY <1>2
  <2> DEFINE Good(n) == g[n] \in Seq(S) /\ \E at : Joins(ss, n, g[n], at)
             T == {n \in Nat : n \in 1..Len(ss) /\ ~Good(n)}
  <2>3. Good(1)
    <3>1. g[1] = ss[1] /\ ss[1] \in Seq(S) /\ Len(ss[1]) \in Nat
      <4>1. 1 \in 1..Len(ss)
        BY <2>2
      <4>2. g[1] = ss[1]
        BY <4>1, <2>1 DEF Joining
      <4> QED
        BY <4>1, <4>2, <2>2, LenProperties
    <3>2. Joins(ss, 1, ss[1], [i \in 1..Len(ss) |-> 0])
      BY <2>2, <3>1 DEF Joins
    <3> QED
      BY <3>1, <3>2
  <2>4. ASSUME NEW n \in 1..Len(ss), n < Len(ss), Good(n)
        PROVE  Good(n + 1)
    <3>1. g[n + 1] = g[n] \o ss[n + 1]
      <4>1. n + 1 \in 1..Len(ss) /\ n + 1 # 1 /\ (n + 1) - 1 = n
        BY <2>2, <2>4
      <4> QED
        BY <4>1, <2>1 DEF Joining
    <3>2. g[n] \o ss[n + 1] \in Seq(S)
      BY <2>2, <2>4, ConcatProperties
    <3>3. PICK at : Joins(ss, n, g[n], at)
      BY <2>4
    <3>4. Joins(ss, n + 1, g[n] \o ss[n + 1], [at EXCEPT ![n + 1] = Len(g[n])])
      <4>1. n \in Nat /\ g[n] \in Seq(S)
        BY <2>4
      <4> QED
        BY <4>1, <2>4, <3>3, JoinsOneMore
    <3> QED
      BY <3>1, <3>2, <3>4
  <2>5. T = {}
    <3>1. SUFFICES ASSUME T # {} PROVE FALSE
      OBVIOUS
    <3>2. PICK n \in T : \A m \in T : n <= m
      BY <3>1, Least
    <3>3. n \in 1..Len(ss) /\ ~Good(n) /\ n # 1
      BY <2>3, <3>2
    <3>4. n - 1 \in Nat /\ n - 1 \in 1..Len(ss) /\ n - 1 < Len(ss) /\ n - 1 < n
          /\ (n - 1) + 1 = n
      <4> HIDE DEF Good
      <4> QED
        BY <2>2, <3>3
    <3>5. Good(n - 1)
      <4> HIDE DEF Good
      <4>1. n - 1 \notin T
        BY <3>2, <3>4
      <4> QED
        BY <3>4, <4>1
    <3> HIDE DEF Good
    <3>6. Good((n - 1) + 1)
      BY <3>4, <3>5, <2>4
    <3> QED
      BY <3>3, <3>6
  <2>6. Good(Len(ss))
    BY <2>2, <2>5
  <2> QED
    BY <2>1, <2>6
<1> QED
  BY <1>1, <1>2

-----------------------------------------------------------------------------
(* Elements kept by position.                                              *)

\* kept is what s has at the positions in I; f[p] is where its p-th was.
Picks(s, I, kept, f) ==
    /\ f \in [1..Len(kept) -> I \cap (1..Len(s))]
    /\ \A p \in 1..Len(kept) : kept[p] = s[f[p]]
    /\ \A p, q \in 1..Len(kept) : p < q => f[p] < f[q]
    /\ \A i \in I \cap (1..Len(s)) : \E p \in 1..Len(kept) : f[p] = i

\* Keep keeps the elements at the positions, each once and in their order.
LEMMA KeepPicks ==
    ASSUME NEW S, NEW s \in Seq(S), NEW I
    PROVE  Keep(s, I) \in Seq(S) /\ \E f : Picks(s, I, Keep(s, I), f)
<1> DEFINE ss == [i \in DOMAIN s |-> IF i \in I THEN <<s[i]>> ELSE <<>>]
           kept == FlattenSeq(ss)
<1>1. Len(s) \in Nat /\ DOMAIN s = 1..Len(s)
  BY LenProperties
<1>2. ss \in Seq(Seq(S)) /\ Len(ss) = Len(s)
  <2>1. \A i \in 1..Len(s) : s[i] \in S /\ (IF i \in I THEN <<s[i]>> ELSE <<>>) \in Seq(S)
    BY <1>1, ElementOfSeq
  <2> QED
    BY <1>1, <2>1
<1>3. \A i \in 1..Len(s) : Len(ss[i]) = (IF i \in I THEN 1 ELSE 0) /\ (i \in I => ss[i][1] = s[i])
  BY <1>1
<1>4. Keep(s, I) = kept
  BY DEF Keep
<1> HIDE DEF ss
<1>5. kept \in Seq(S)
  BY <1>2, FlattenJoins
<1>6. PICK at : Joins(ss, Len(s), kept, at)
  BY <1>2, FlattenJoins
<1> HIDE DEF kept
<1>7. Len(kept) \in Nat /\ at \in [1..Len(s) -> Nat]
  BY <1>2, <1>5, <1>6, LenProperties DEF Joins
<1> DEFINE Places == I \cap (1..Len(s))
           f == [p \in 1..Len(kept) |-> CHOOSE i \in Places : p = at[i] + 1]
<1>8. ASSUME NEW p \in 1..Len(kept)
      PROVE  f[p] \in Places /\ p = at[f[p]] + 1
  <2>1. PICK i \in 1..Len(s) : \E k \in 1..Len(ss[i]) : p = at[i] + k
    BY <1>6 DEF Joins
  <2>2. i \in Places /\ p = at[i] + 1
    BY <2>1, <1>3
  <2> QED
    BY <2>2
<1> HIDE DEF f
<1>9. ASSUME NEW i \in Places
      PROVE  at[i] + 1 \in 1..Len(kept) /\ kept[at[i] + 1] = s[i]
  <2>1. i \in 1..Len(s) /\ Len(ss[i]) = 1 /\ ss[i][1] = s[i] /\ at[i] \in Nat
    BY <1>3, <1>7
  <2>2. at[i] + 1 <= Len(kept) /\ kept[at[i] + 1] = ss[i][1]
    <3>1. at[i] + Len(ss[i]) <= Len(kept) /\ \A k \in 1..Len(ss[i]) : kept[at[i] + k] = ss[i][k]
      BY <1>6, <2>1 DEF Joins
    <3> QED
      BY <3>1, <2>1
  <2> QED
    BY <2>1, <2>2, <1>7
<1>10. ASSUME NEW i \in Places, NEW j \in Places, i < j
       PROVE  at[i] + 1 <= at[j]
  BY <1>3, <1>6, <1>10 DEF Joins
<1>11. f \in [1..Len(kept) -> Places]
  <2>1. f = [p \in 1..Len(kept) |-> f[p]]
    BY DEF f
  <2> QED
    BY <2>1, <1>8
<1>12. \A p \in 1..Len(kept) : kept[p] = s[f[p]]
  BY <1>8, <1>9
<1>13. ASSUME NEW p \in 1..Len(kept), NEW q \in 1..Len(kept), p < q
       PROVE  f[p] < f[q]
  <2>1. f[p] \in Places /\ f[q] \in Places /\ p = at[f[p]] + 1 /\ q = at[f[q]] + 1
    BY <1>8
  <2>2. at[f[p]] \in Nat /\ at[f[q]] \in Nat
    BY <2>1, <1>7
  <2>3. f[p] # f[q]
    BY <2>1, <1>13
  <2>4. ~(f[q] < f[p])
    BY <2>1, <2>2, <1>10, <1>13
  <2> QED
    BY <2>1, <2>3, <2>4, <1>1
<1>14. ASSUME NEW i \in Places
       PROVE  \E p \in 1..Len(kept) : f[p] = i
  <2>1. at[i] + 1 \in 1..Len(kept)
    BY <1>9
  <2>2. f[at[i] + 1] \in Places /\ at[i] + 1 = at[f[at[i] + 1]] + 1
    BY <2>1, <1>8
  <2>3. at[i] \in Nat /\ at[f[at[i] + 1]] \in Nat
    BY <2>2, <1>7
  <2>4. ~(i < f[at[i] + 1]) /\ ~(f[at[i] + 1] < i)
    BY <2>2, <2>3, <1>10
  <2> QED
    BY <2>1, <2>2, <2>4, <1>1
<1>15. Picks(s, I, kept, f)
  BY <1>11, <1>12, <1>13, <1>14 DEF Picks
<1> QED
  BY <1>4, <1>5, <1>15

\* What Firsts returns.
LEMMA FirstsOnce ==
    ASSUME NEW S, NEW s \in Seq(S)
    PROVE  /\ Firsts(s) \in Seq(S)
           /\ \A p, q \in 1..Len(Firsts(s)) : Firsts(s)[p] = Firsts(s)[q] => p = q
           /\ \A p \in 1..Len(Firsts(s)) : \E i \in 1..Len(s) : Firsts(s)[p] = s[i]
           /\ \A i \in 1..Len(s) : \E p \in 1..Len(Firsts(s)) : Firsts(s)[p] = s[i]
<1> DEFINE I == {i \in DOMAIN s : \A j \in 1..(i - 1) : s[j] # s[i]}
           kept == Firsts(s)
<1>1. Len(s) \in Nat /\ DOMAIN s = 1..Len(s)
  BY LenProperties
<1>2. kept = Keep(s, I)
  BY DEF Firsts
<1>3. \A i \in I : i \in 1..Len(s) /\ \A j \in 1..(i - 1) : s[j] # s[i]
  BY <1>1
<1>4. ASSUME NEW i \in 1..Len(s) PROVE \E j \in I : s[j] = s[i]
  <2> DEFINE T == {j \in 1..Len(s) : s[j] = s[i]}
  <2>1. T \in SUBSET Nat /\ i \in T
    OBVIOUS
  <2>2. PICK j \in T : \A m \in T : j <= m
    BY <2>1, Least
  <2>3. \A m \in 1..(j - 1) : m \notin T /\ m \in 1..Len(s)
    BY <2>2, <1>1
  <2> QED
    BY <2>2, <2>3, <1>1
<1> HIDE DEF I, kept
<1>5. kept \in Seq(S)
  BY <1>2, KeepPicks
<1>6. PICK f : Picks(s, I, kept, f)
  BY <1>2, KeepPicks
<1>7. ASSUME NEW p \in 1..Len(kept), NEW q \in 1..Len(kept), kept[p] = kept[q], p < q
      PROVE  FALSE
  <2>1. f[p] < f[q] /\ s[f[p]] = s[f[q]] /\ f[p] \in I /\ f[q] \in I
    BY <1>6, <1>7 DEF Picks
  <2>2. f[p] \in 1..(f[q] - 1)
    BY <2>1, <1>3, <1>1
  <2> QED
    BY <2>1, <2>2, <1>3
<1>8. \A p, q \in 1..Len(kept) : kept[p] = kept[q] => p = q
  <2>1. ASSUME NEW p \in 1..Len(kept), NEW q \in 1..Len(kept), kept[p] = kept[q] PROVE p = q
    <3>1. ~(p < q) /\ ~(q < p)
      BY <2>1, <1>7
    <3> QED
      BY <3>1
  <2> QED
    BY <2>1
<1>9. \A p \in 1..Len(kept) : f[p] \in 1..Len(s) /\ kept[p] = s[f[p]]
  BY <1>6 DEF Picks
<1>10. ASSUME NEW i \in 1..Len(s) PROVE \E p \in 1..Len(kept) : kept[p] = s[i]
  <2>1. PICK j \in I : s[j] = s[i]
    BY <1>4
  <2>2. PICK p \in 1..Len(kept) : f[p] = j
    BY <1>3, <1>6, <2>1 DEF Picks
  <2> QED
    BY <2>1, <2>2, <1>9
<1>11. /\ kept \in Seq(S)
       /\ \A p, q \in 1..Len(kept) : kept[p] = kept[q] => p = q
       /\ \A p \in 1..Len(kept) : \E i \in 1..Len(s) : kept[p] = s[i]
       /\ \A i \in 1..Len(s) : \E p \in 1..Len(kept) : kept[p] = s[i]
  BY <1>5, <1>8, <1>9, <1>10
<1> QED
  BY <1>11 DEF kept

-----------------------------------------------------------------------------
(* The stable sort.                                                        *)

\* r is s with e put at place j.
Inserted(s, j, e, r) ==
    /\ Len(r) = Len(s) + 1
    /\ \A k \in 1..(Len(s) + 1) : r[k] = IF k < j THEN s[k] ELSE IF k = j THEN e ELSE s[k - 1]

\* What InsertAt puts where.
LEMMA InsertAtIs ==
    ASSUME NEW S, NEW s \in Seq(S), NEW j \in 1..(Len(s) + 1), NEW e \in S
    PROVE  InsertAt(s, j, e) \in Seq(S) /\ Inserted(s, j, e, InsertAt(s, j, e))
<1> DEFINE low == SubSeq(s, 1, j - 1)
           high == SubSeq(s, j, Len(s))
           front == low \o <<e>>
<1>1. Len(s) \in Nat /\ \A k \in 1..Len(s) : s[k] \in S
  BY LenProperties
<1>2. low \in Seq(S) /\ Len(low) = j - 1 /\ \A k \in 1..(j - 1) : low[k] = s[k]
  <2>1. \A k \in 1..(j - 1) : s[k] \in S
    BY <1>1
  <2>2. /\ low \in Seq(S) /\ Len(low) = (IF 1 <= j - 1 THEN (j - 1) - 1 + 1 ELSE 0)
        /\ \A k \in 1..((j - 1) - 1 + 1) : low[k] = s[1 + k - 1]
    BY <2>1, <1>1, SubSeqProperties
  <2> HIDE DEF low
  <2> QED
    BY <2>2
<1>3. /\ high \in Seq(S) /\ Len(high) = Len(s) + 1 - j
      /\ \A k \in 1..(Len(s) + 1 - j) : high[k] = s[k + (j - 1)]
  <2>1. \A k \in j..Len(s) : s[k] \in S
    BY <1>1
  <2>2. /\ high \in Seq(S) /\ Len(high) = (IF j <= Len(s) THEN Len(s) - j + 1 ELSE 0)
        /\ \A k \in 1..(Len(s) - j + 1) : high[k] = s[j + k - 1]
    BY <2>1, <1>1, SubSeqProperties
  <2> HIDE DEF high
  <2> QED
    BY <2>2, <1>1
<1> HIDE DEF low, high
<1>4. /\ front \in Seq(S) /\ Len(front) = j
      /\ \A k \in 1..j : front[k] = IF k < j THEN s[k] ELSE e
  <2>1. <<e>> \in Seq(S) /\ Len(<<e>>) = 1 /\ <<e>>[1] = e
    OBVIOUS
  <2>2. /\ front \in Seq(S) /\ Len(front) = (j - 1) + 1
        /\ \A k \in 1..((j - 1) + 1) : front[k] = IF k <= j - 1 THEN low[k] ELSE <<e>>[k - (j - 1)]
    BY <1>2, <2>1, ConcatProperties
  <2> HIDE DEF front
  <2>3. ASSUME NEW k \in 1..j PROVE front[k] = IF k < j THEN s[k] ELSE e
    <3>1. k \in 1..((j - 1) + 1) /\ (k < j => k <= j - 1 /\ k \in 1..(j - 1))
          /\ (~(k < j) => k - (j - 1) = 1 /\ ~(k <= j - 1))
      BY <1>1
    <3> QED
      BY <3>1, <2>1, <2>2, <1>2
  <2> QED
    BY <2>2, <2>3, <1>1
<1> HIDE DEF front
<1>5. InsertAt(s, j, e) = front \o high
  BY DEF InsertAt, front, low, high
<1>6. /\ front \o high \in Seq(S) /\ Len(front \o high) = j + (Len(s) + 1 - j)
      /\ \A k \in 1..(j + (Len(s) + 1 - j)) :
             (front \o high)[k] = IF k <= j THEN front[k] ELSE high[k - j]
  BY <1>3, <1>4, ConcatProperties
<1>7. ASSUME NEW k \in 1..(Len(s) + 1)
      PROVE  (front \o high)[k] = IF k < j THEN s[k] ELSE IF k = j THEN e ELSE s[k - 1]
  <2>1. k \in 1..(j + (Len(s) + 1 - j))
    BY <1>1
  <2>2. CASE k <= j
    <3>1. k \in 1..j
      BY <2>2
    <3> QED
      BY <3>1, <2>1, <2>2, <1>4, <1>6
  <2>3. CASE ~(k <= j)
    <3>1. k - j \in 1..(Len(s) + 1 - j) /\ (k - j) + (j - 1) = k - 1 /\ ~(k <= j) /\ ~(k < j) /\ k # j
      BY <2>3, <1>1
    <3>2. (front \o high)[k] = high[k - j] /\ high[k - j] = s[(k - j) + (j - 1)]
      BY <3>1, <2>1, <1>3, <1>6
    <3> QED
      BY <3>1, <3>2
  <2> QED
    BY <2>2, <2>3
<1>8. j + (Len(s) + 1 - j) = Len(s) + 1
  BY <1>1
<1> QED
  BY <1>5, <1>6, <1>7, <1>8 DEF Inserted

\* The function with which Order puts a position into those before it.
Insertion(cells, desc) ==
    [sofar \in Seq(DOMAIN cells) |->
        InsertAt(sofar,
                 Max({k \in DOMAIN sofar :
                          ~Before(cells[Len(sofar) + 1], cells[sofar[k]], desc)} \cup {0}) + 1,
                 Len(sofar) + 1)]

\* g has the orders of the first n positions and of fewer.
Sorting(cells, desc, n, g) ==
    /\ g = [i \in 0..Len(cells) |-> g[i]]
    /\ \A i \in 0..n : g[i] = IF i = 0 THEN <<>> ELSE Insertion(cells, desc)[g[i - 1]]

\* The two recursive functions of Order exist.
LEMMA SortingExists ==
    ASSUME NEW cells \in Seq(Cell), NEW desc
    PROVE  \E g : Sorting(cells, desc, Len(cells), g)
<1> DEFINE T == {n \in Nat : n <= Len(cells) /\ ~ \E g : Sorting(cells, desc, n, g)}
<1>0. Len(cells) \in Nat
  BY LenProperties
<1>1. SUFFICES ASSUME T # {} PROVE FALSE
  BY <1>0
<1>2. PICK n \in T : \A m \in T : n <= m
  BY <1>1, Least
<1>3. n # 0
  <2> DEFINE g == [i \in 0..Len(cells) |-> <<>>]
  <2>1. g = [i \in 0..Len(cells) |-> g[i]] /\ g[0] = <<>> /\ 0..0 = {0}
    BY <1>0
  <2> HIDE DEF g
  <2>2. Sorting(cells, desc, 0, g)
    BY <2>1 DEF Sorting
  <2> QED
    BY <2>2
<1>4. n \in Nat /\ n - 1 \in Nat /\ n - 1 < n /\ n <= Len(cells)
  BY <1>3
<1>5. PICK g : Sorting(cells, desc, n - 1, g)
  <2>1. n - 1 \notin T
    <3> HIDE DEF T
    <3>1. SUFFICES ASSUME n - 1 \in T PROVE FALSE
      OBVIOUS
    <3>2. n <= n - 1
      BY <1>2, <3>1
    <3> QED
      BY <1>4, <3>2
  <2> QED
    BY <1>0, <1>4, <2>1
<1> DEFINE h == [i \in 0..Len(cells) |-> IF i = n THEN Insertion(cells, desc)[g[n - 1]] ELSE g[i]]
<1>6. Sorting(cells, desc, n, h)
  <2>1. h = [i \in 0..Len(cells) |-> h[i]]
    OBVIOUS
  <2>2. ASSUME NEW i \in 0..n
        PROVE  h[i] = IF i = 0 THEN <<>> ELSE Insertion(cells, desc)[h[i - 1]]
    <3>1. i \in 0..Len(cells) /\ (i # 0 => i - 1 \in 0..Len(cells) /\ i - 1 # n /\ h[i - 1] = g[i - 1])
      BY <1>0, <1>4
    <3>2. CASE i = n
      BY <3>1, <3>2, <1>3
    <3>3. CASE i # n
      <4>1. i \in 0..(n - 1)
        BY <1>4, <3>3
      <4>2. g[i] = IF i = 0 THEN <<>> ELSE Insertion(cells, desc)[g[i - 1]]
        BY <4>1, <1>5 DEF Sorting
      <4> QED
        BY <3>1, <3>3, <4>2
    <3> QED
      BY <3>2, <3>3
  <2> HIDE DEF h
  <2> QED
    BY <2>1, <2>2 DEF Sorting
<1> QED
  BY <1>6, <1>2

\* Order is the last of the orders they go through.
LEMMA OrderIsSorting ==
    ASSUME NEW cells \in Seq(Cell), NEW desc
    PROVE  \E g : Sorting(cells, desc, Len(cells), g) /\ Order(cells, desc) = g[Len(cells)]
<1> DEFINE Equation(f) ==
        f = [n \in 0..Len(cells) |-> IF n = 0 THEN <<>> ELSE Insertion(cells, desc)[f[n - 1]]]
           h == CHOOSE f : Equation(f)
<1>1. PICK g : Sorting(cells, desc, Len(cells), g)
  BY SortingExists
<1>2. Equation(g)
  BY <1>1 DEF Sorting
<1>3. Equation(h)
  BY <1>2, Zenon
<1>4. Order(cells, desc) = h[Len(cells)]
  BY DEF Order, Insertion
<1>5. Sorting(cells, desc, Len(cells), h)
  <2> HIDE DEF h
  <2> QED
    BY <1>3 DEF Sorting
<1> QED
  BY <1>4, <1>5

\* Of two cells at most one is before the other.
LEMMA BeforeIsAsymmetric ==
    ASSUME NEW a \in Cell, NEW b \in Cell, NEW desc, Before(a, b, desc)
    PROVE  ~Before(b, a, desc)
<1>1. /\ Number[a].ok \in BOOLEAN /\ Number[b].ok \in BOOLEAN
      /\ Number[a].nan \in BOOLEAN /\ Number[b].nan \in BOOLEAN
      /\ Number[a].n \in Int /\ Number[b].n \in Int /\ Text[a] \in Nat /\ Text[b] \in Nat
  BY CellAssumption
<1>2. CellLess(a, b) => ~CellLess(b, a)
  BY <1>1 DEF CellLess, Differ
<1>3. CellLess(b, a) => ~CellLess(a, b)
  BY <1>1 DEF CellLess, Differ
<1> QED
  BY <1>2, <1>3 DEF Before

\* p puts the first n positions in an order in which none goes before its neighbour.
Ordered(cells, desc, n, p) ==
    /\ p \in Seq(1..Len(cells)) /\ Len(p) = n
    /\ \A k \in 1..n : p[k] \in 1..n
    /\ \A k, l \in 1..n : p[k] = p[l] => k = l
    /\ \A m \in 1..n : \E k \in 1..n : p[k] = m
    /\ \A k \in 1..(n - 1) : ~Before(cells[p[k + 1]], cells[p[k]], desc)

\* One more position is put where it belongs.
LEMMA InsertionIs ==
    ASSUME NEW cells \in Seq(Cell), NEW desc, NEW p \in Seq(1..Len(cells)), NEW n \in 1..Len(cells),
           n = Len(p) + 1
    PROVE  \E j \in 1..(Len(p) + 1) :
               /\ Insertion(cells, desc)[p] = InsertAt(p, j, n)
               /\ j > 1 => ~Before(cells[n], cells[p[j - 1]], desc)
               /\ \A k \in j..Len(p) : Before(cells[n], cells[p[k]], desc)
<1> DEFINE stay == {k \in DOMAIN p : ~Before(cells[n], cells[p[k]], desc)}
           j == Max(stay \cup {0}) + 1
<1>1. /\ Len(p) \in Nat /\ DOMAIN p = 1..Len(p) /\ DOMAIN cells = 1..Len(cells)
  BY LenProperties
<1>2. Insertion(cells, desc)[p] = InsertAt(p, j, n)
  <2>1. p \in Seq(DOMAIN cells)
    BY <1>1
  <2> QED
    BY <2>1 DEF Insertion
<1>3. stay \cup {0} \in SUBSET Nat /\ stay \cup {0} # {} /\ \A k \in stay \cup {0} : k <= Len(p)
  BY <1>1
<1>4. Max(stay \cup {0}) \in stay \cup {0} /\ \A k \in stay \cup {0} : k <= Max(stay \cup {0})
  <2> HIDE DEF stay
  <2> QED
    BY <1>1, <1>3, Greatest
<1> DEFINE m == Max(stay \cup {0})
<1> HIDE DEF m
<1>5. m \in stay \cup {0} /\ (\A k \in stay \cup {0} : k <= m) /\ j = m + 1
  BY <1>4 DEF m
<1> HIDE DEF j
<1>6. m \in Nat /\ m <= Len(p)
  BY <1>3, <1>5
<1>7. j \in 1..(Len(p) + 1) /\ j - 1 = m
  BY <1>1, <1>5, <1>6
<1>8. j > 1 => ~Before(cells[n], cells[p[j - 1]], desc)
  BY <1>5, <1>6, <1>7
<1>9. ASSUME NEW k \in j..Len(p) PROVE Before(cells[n], cells[p[k]], desc)
  <2>1. k \in 1..Len(p) /\ ~(k <= m)
    BY <1>5, <1>6, <1>7
  <2> QED
    BY <2>1, <1>1, <1>5
<1> QED
  BY <1>2, <1>7, <1>8, <1>9

\* An insertion keeps an order an order.
LEMMA OrderedOneMore ==
    ASSUME NEW cells \in Seq(Cell), NEW desc, NEW n \in Nat, n + 1 <= Len(cells),
           NEW p, Ordered(cells, desc, n, p)
    PROVE  Ordered(cells, desc, n + 1, Insertion(cells, desc)[p])
<1>1. Len(cells) \in Nat /\ n + 1 \in 1..Len(cells) /\ \A i \in 1..Len(cells) : cells[i] \in Cell
  BY LenProperties
<1>2. p \in Seq(1..Len(cells)) /\ Len(p) = n
  BY DEF Ordered
<1>3. PICK j \in 1..(n + 1) :
          /\ Insertion(cells, desc)[p] = InsertAt(p, j, n + 1)
          /\ j > 1 => ~Before(cells[n + 1], cells[p[j - 1]], desc)
          /\ \A k \in j..n : Before(cells[n + 1], cells[p[k]], desc)
  BY <1>1, <1>2, InsertionIs
<1> DEFINE q == InsertAt(p, j, n + 1)
<1>4. /\ q \in Seq(1..Len(cells)) /\ Len(q) = n + 1
      /\ \A k \in 1..(n + 1) : q[k] = IF k < j THEN p[k] ELSE IF k = j THEN n + 1 ELSE p[k - 1]
  <2>1. j \in 1..(Len(p) + 1)
    BY <1>2
  <2>2. n + 1 \in 1..Len(cells)
    BY <1>1
  <2>3. q \in Seq(1..Len(cells)) /\ Inserted(p, j, n + 1, q)
    BY <1>2, <2>1, <2>2, InsertAtIs
  <2> HIDE DEF q
  <2> QED
    BY <1>2, <2>3 DEF Inserted
<1> HIDE DEF q
<1>5. /\ \A k \in 1..n : p[k] \in 1..n
      /\ \A k, l \in 1..n : p[k] = p[l] => k = l
      /\ \A m \in 1..n : \E k \in 1..n : p[k] = m
      /\ \A k \in 1..(n - 1) : ~Before(cells[p[k + 1]], cells[p[k]], desc)
  BY DEF Ordered
\* Where the positions before the new one have gone.
<1>6. \A k \in 1..(n + 1) : \/ k < j /\ k \in 1..n /\ q[k] = p[k]
                            \/ k = j /\ q[k] = n + 1
                            \/ k > j /\ k - 1 \in 1..n /\ q[k] = p[k - 1]
  BY <1>4
<1>7. ASSUME NEW k \in 1..(n + 1) PROVE q[k] \in 1..(n + 1)
  <2>1. q[k] \in 1..n \/ q[k] = n + 1
    BY <1>5, <1>6
  <2> QED
    BY <2>1
<1>8. ASSUME NEW k \in 1..(n + 1), NEW l \in 1..(n + 1), q[k] = q[l]
      PROVE  k = l
  <2>1. CASE k = j
    <3>1. q[l] = n + 1
      BY <2>1, <1>6, <1>8
    <3>2. q[l] \in 1..n \/ l = j
      BY <1>5, <1>6
    <3> QED
      BY <3>1, <3>2, <2>1
  <2>2. CASE l = j
    <3>1. q[k] = n + 1
      BY <2>2, <1>6, <1>8
    <3>2. q[k] \in 1..n \/ k = j
      BY <1>5, <1>6
    <3> QED
      BY <3>1, <3>2, <2>2
  <2>3. CASE k # j /\ l # j
    <3>1. k < j /\ l < j => k = l
      BY <2>3, <1>5, <1>6, <1>8
    <3>2. k > j /\ l > j => k - 1 = l - 1
      BY <2>3, <1>5, <1>6, <1>8
    <3>3. k < j /\ l > j => k = l - 1
      BY <2>3, <1>5, <1>6, <1>8
    <3>4. k > j /\ l < j => k - 1 = l
      BY <2>3, <1>5, <1>6, <1>8
    <3> QED
      BY <2>3, <3>1, <3>2, <3>3, <3>4
  <2> QED
    BY <2>1, <2>2, <2>3
<1>9. ASSUME NEW m \in 1..(n + 1)
      PROVE  \E k \in 1..(n + 1) : q[k] = m
  <2>1. CASE m = n + 1
    <3>1. j \in 1..(n + 1) /\ q[j] = n + 1
      BY <1>4
    <3> QED
      BY <2>1, <3>1
  <2>2. CASE m # n + 1
    <3>1. m \in 1..n
      BY <2>2
    <3>2. PICK k \in 1..n : p[k] = m
      BY <3>1, <1>5
    <3>3. CASE k < j
      <4>1. k \in 1..(n + 1) /\ q[k] = p[k]
        BY <3>3, <1>4
      <4> QED
        BY <4>1, <3>2
    <3>4. CASE k >= j
      <4>1. k + 1 \in 1..(n + 1) /\ ~(k + 1 < j) /\ k + 1 # j /\ (k + 1) - 1 = k
        BY <3>4
      <4>2. q[k + 1] = p[k]
        BY <4>1, <1>4
      <4> QED
        BY <4>1, <4>2, <3>2
    <3> QED
      BY <3>3, <3>4
  <2> QED
    BY <2>1, <2>2
<1>10. ASSUME NEW k \in 1..n
       PROVE  ~Before(cells[q[k + 1]], cells[q[k]], desc)
  <2>1. k \in 1..(n + 1) /\ k + 1 \in 1..(n + 1) /\ (k + 1) - 1 = k
    OBVIOUS
  <2>2. CASE k + 1 < j
    <3>1. q[k] = p[k] /\ q[k + 1] = p[k + 1] /\ k \in 1..(n - 1)
      BY <2>1, <2>2, <1>4
    <3> QED
      BY <3>1, <1>5
  <2>3. CASE k + 1 = j
    <3>1. q[k] = p[j - 1] /\ q[k + 1] = n + 1 /\ j > 1
      BY <2>1, <2>3, <1>4
    <3> QED
      BY <3>1, <1>3
  <2>4. CASE k = j
    <3>1. q[k] = n + 1 /\ q[k + 1] = p[k] /\ k \in j..n
      BY <2>1, <2>4, <1>4
    <3>2. Before(cells[n + 1], cells[p[k]], desc)
      BY <3>1, <1>3
    <3>3. cells[n + 1] \in Cell /\ cells[p[k]] \in Cell
      <4>1. p[k] \in 1..n
        BY <1>5
      <4>2. p[k] \in 1..Len(cells)
        BY <4>1, <1>1
      <4> QED
        BY <4>2, <1>1
    <3> QED
      BY <3>1, <3>2, <3>3, BeforeIsAsymmetric
  <2>5. CASE k > j
    <3>1. q[k] = p[k - 1] /\ q[k + 1] = p[k] /\ k - 1 \in 1..(n - 1) /\ (k - 1) + 1 = k
      <4>1. j \in Int /\ ~(k < j) /\ k # j /\ ~(k + 1 < j) /\ k + 1 # j
        BY <2>5, <1>4
      <4>2. q[k] = p[k - 1]
        BY <4>1, <2>1, <1>4
      <4>3. q[k + 1] = p[k]
        BY <4>1, <2>1, <1>4
      <4>4. k - 1 \in 1..(n - 1) /\ (k - 1) + 1 = k
        BY <2>5, <1>4
      <4> QED
        BY <4>2, <4>3, <4>4
    <3> QED
      BY <3>1, <1>5
  <2> QED
    BY <2>2, <2>3, <2>4, <2>5
<1>11. (n + 1) - 1 = n
  OBVIOUS
<1>12. Ordered(cells, desc, n + 1, q)
  BY <1>4, <1>7, <1>8, <1>9, <1>10, <1>11 DEF Ordered
<1> QED
  BY <1>3, <1>12 DEF q

\* What Order returns; and what is in order stays as it is.
LEMMA OrderIsOrdered ==
    ASSUME NEW cells \in Seq(Cell), NEW desc
    PROVE  /\ Ordered(cells, desc, Len(cells), Order(cells, desc))
           /\ (\A k \in 1..(Len(cells) - 1) : ~Before(cells[k + 1], cells[k], desc))
                  => Order(cells, desc) = [k \in 1..Len(cells) |-> k]
<1>1. PICK g : Sorting(cells, desc, Len(cells), g) /\ Order(cells, desc) = g[Len(cells)]
  BY OrderIsSorting
<1>2. Len(cells) \in Nat
  BY LenProperties
<1> DEFINE Calm == \A k \in 1..(Len(cells) - 1) : ~Before(cells[k + 1], cells[k], desc)
           Good(n) == Ordered(cells, desc, n, g[n]) /\ (Calm => g[n] = [k \in 1..n |-> k])
           T == {n \in Nat : n <= Len(cells) /\ ~Good(n)}
<1>3. Good(0)
  <2>1. g[0] = <<>>
    BY <1>1, <1>2 DEF Sorting
  <2>2. <<>> \in Seq(1..Len(cells)) /\ Len(<<>>) = 0 /\ <<>> = [k \in 1..0 |-> k]
    OBVIOUS
  <2> QED
    BY <2>1, <2>2 DEF Ordered
<1>4. ASSUME NEW n \in Nat, n + 1 <= Len(cells), Good(n)
      PROVE  Good(n + 1)
  <2>1. g[n + 1] = Insertion(cells, desc)[g[n]]
    <3>1. n + 1 \in 0..Len(cells) /\ n + 1 # 0 /\ (n + 1) - 1 = n
      BY <1>4, <1>2
    <3> QED
      BY <3>1, <1>1 DEF Sorting
  <2>2. Ordered(cells, desc, n + 1, g[n + 1])
    BY <2>1, <1>4, OrderedOneMore
  <2>3. ASSUME Calm PROVE g[n + 1] = [k \in 1..(n + 1) |-> k]
    <3>1. g[n] = [k \in 1..n |-> k] /\ g[n] \in Seq(1..Len(cells)) /\ Len(g[n]) = n
      BY <1>4, <2>3 DEF Ordered
    <3>2. n + 1 \in 1..Len(cells)
      BY <1>4, <1>2
    <3> DEFINE p == g[n]
    <3>p. p \in Seq(1..Len(cells)) /\ Len(p) = n
      BY <3>1
    <3> HIDE DEF p
    <3>i. \E j \in 1..(n + 1) :
              /\ Insertion(cells, desc)[p] = InsertAt(p, j, n + 1)
              /\ \A k \in j..n : Before(cells[n + 1], cells[p[k]], desc)
      BY <3>p, <3>2, InsertionIs
    <3>3. PICK j \in 1..(n + 1) :
              /\ g[n + 1] = InsertAt(g[n], j, n + 1)
              /\ \A k \in j..n : Before(cells[n + 1], cells[g[n][k]], desc)
      BY <3>i, <2>1 DEF p
    <3>4. j = n + 1
      <4>1. SUFFICES ASSUME j <= n PROVE FALSE
        OBVIOUS
      <4>2. n \in j..n /\ n \in 1..n /\ n \in 1..(Len(cells) - 1)
        BY <4>1, <1>2, <1>4
      <4>3. g[n][n] = n
        BY <3>1, <4>2
      <4> QED
        BY <4>2, <4>3, <3>3, <2>3
    <3>5. \A k \in 1..(n + 1) : g[n + 1][k] = k
      <4>1. \A k \in 1..(n + 1) : g[n + 1][k] = IF k < n + 1 THEN g[n][k]
                                                ELSE IF k = n + 1 THEN n + 1 ELSE g[n][k - 1]
        <5>1. g[n] \in Seq(1..Len(cells)) /\ n + 1 \in 1..(Len(g[n]) + 1)
          BY <3>1
        <5>2. /\ Len(g[n]) = n /\ n + 1 \in 1..Len(cells)
              /\ g[n + 1] = InsertAt(g[n], n + 1, n + 1)
          BY <3>1, <3>2, <3>3, <3>4
        <5>3. Inserted(g[n], n + 1, n + 1, InsertAt(g[n], n + 1, n + 1))
          BY <5>1, <3>2, InsertAtIs
        <5> QED
          BY <5>2, <5>3 DEF Inserted
      <4>2. ASSUME NEW k \in 1..(n + 1) PROVE g[n + 1][k] = k
        <5>1. CASE k = n + 1
          <6>1. ~(n + 1 < n + 1)
            OBVIOUS
          <6> QED
            BY <5>1, <4>1, <6>1
        <5>2. CASE k # n + 1
          <6>1. k < n + 1 /\ k \in 1..n
            BY <5>2
          <6> QED
            BY <6>1, <4>1, <3>1
        <5> QED
          BY <5>1, <5>2
      <4> QED
        BY <4>2
    <3>6. g[n + 1] = [k \in 1..(n + 1) |-> g[n + 1][k]]
      <4>1. g[n + 1] \in Seq(1..Len(cells)) /\ Len(g[n + 1]) = n + 1
        BY <2>2 DEF Ordered
      <4> QED
        BY <4>1
    <3>7. [k \in 1..(n + 1) |-> g[n + 1][k]] = [k \in 1..(n + 1) |-> k]
      BY <3>5, Zenon
    <3> QED
      BY <3>6, <3>7
  <2> QED
    BY <2>2, <2>3
<1> HIDE DEF Good
<1>5. T = {}
  <2>1. SUFFICES ASSUME T # {} PROVE FALSE
    OBVIOUS
  <2>2. PICK n \in T : \A m \in T : n <= m
    BY <2>1, Least
  <2>3. n # 0 /\ n \in Nat /\ n <= Len(cells) /\ ~Good(n)
    BY <1>3, <2>2
  <2>4. n - 1 \in Nat /\ (n - 1) + 1 = n /\ n - 1 < n
    BY <2>3
  <2>5. n - 1 \notin T
    <3> HIDE DEF T
    <3>1. SUFFICES ASSUME n - 1 \in T PROVE FALSE
      OBVIOUS
    <3>2. n <= n - 1
      BY <2>2, <3>1
    <3> QED
      BY <2>4, <3>2
  <2>6. Good(n - 1)
    BY <2>3, <2>4, <2>5, <1>2
  <2>7. Good((n - 1) + 1)
    BY <2>3, <2>4, <2>6, <1>4
  <2> QED
    BY <2>3, <2>4, <2>7
<1>6. Good(Len(cells))
  BY <1>2, <1>5
<1> QED
  BY <1>1, <1>6 DEF Good

-----------------------------------------------------------------------------
(* The rows in order.                                                      *)

\* The columns a row may have cells for, and the rows.
AnyColumn == Column \cup {Target, Exit, OSCol, OutputCol}
AnyCells == UNION {[some -> Cell] : some \in SUBSET AnyColumn}
Row == [of : (DOMAIN NameCell) \X Nat, cells : AnyCells]

\* No element is there twice.
Distinct(s) == \A i, j \in 1..Len(s) : s[i] = s[j] => i = j

\* What a row has in a column is a cell.
LEMMA CellsOfRows ==
    ASSUME NEW row \in Row, NEW col
    PROVE  Get(row, col) \in Cell /\ KeyOf(row, col) \in Cell
<1>1. PICK some \in SUBSET AnyColumn : row.cells \in [some -> Cell]
  BY DEF Row, AnyCells
<1>2. Get(row, col) \in Cell
  BY <1>1, CellAssumption DEF Get
<1> QED
  BY <1>2, CellAssumption DEF KeyOf

\* s has the elements of r in another order.
Reorders(s, r, p) ==
    /\ p \in [1..Len(r) -> 1..Len(r)] /\ Len(s) = Len(r)
    /\ \A k, l \in 1..Len(r) : p[k] = p[l] => k = l
    /\ \A m \in 1..Len(r) : \E k \in 1..Len(r) : p[k] = m
    /\ \A k \in 1..Len(r) : s[k] = r[p[k]]

\* No row goes before its neighbour.
Sorted(rs, col, desc) ==
    \A k \in 1..(Len(rs) - 1) : ~Before(Get(rs[k + 1], col), Get(rs[k], col), desc)

\* SortBy puts things in the order of their cells and leaves what is in order alone.
LEMMA SortByIs ==
    ASSUME NEW S, NEW s \in Seq(S), NEW cells \in Seq(Cell), Len(cells) = Len(s), NEW desc
    PROVE  /\ SortBy(s, cells, desc) \in Seq(S)
           /\ \E p : /\ Reorders(SortBy(s, cells, desc), s, p)
                     /\ \A k \in 1..(Len(s) - 1) : ~Before(cells[p[k + 1]], cells[p[k]], desc)
           /\ (\A k \in 1..(Len(s) - 1) : ~Before(cells[k + 1], cells[k], desc))
                  => SortBy(s, cells, desc) = s
<1> DEFINE p == Order(cells, desc)
           t == SortBy(s, cells, desc)
<1>1. Len(s) \in Nat /\ DOMAIN s = 1..Len(s) /\ (\A i \in 1..Len(s) : s[i] \in S)
      /\ s = [k \in 1..Len(s) |-> s[k]]
  BY LenProperties
<1>2. Ordered(cells, desc, Len(s), p)
      /\ ((\A k \in 1..(Len(s) - 1) : ~Before(cells[k + 1], cells[k], desc))
              => p = [k \in 1..Len(s) |-> k])
  BY OrderIsOrdered
<1> HIDE DEF p
<1>3. /\ p \in Seq(1..Len(s)) /\ Len(p) = Len(s)
      /\ \A k \in 1..Len(s) : p[k] \in 1..Len(s)
      /\ \A k, l \in 1..Len(s) : p[k] = p[l] => k = l
      /\ \A m \in 1..Len(s) : \E k \in 1..Len(s) : p[k] = m
      /\ \A k \in 1..(Len(s) - 1) : ~Before(cells[p[k + 1]], cells[p[k]], desc)
  BY <1>2 DEF Ordered
<1>4. p \in [1..Len(s) -> 1..Len(s)] /\ DOMAIN p = 1..Len(s)
  BY <1>3, LenProperties
<1>5. t = [k \in 1..Len(s) |-> s[p[k]]]
  BY <1>4 DEF SortBy, p
<1>6. t \in Seq(S) /\ Len(t) = Len(s) /\ \A k \in 1..Len(s) : t[k] = s[p[k]]
  <2>1. \A k \in 1..Len(s) : s[p[k]] \in S
    BY <1>1, <1>3
  <2> HIDE DEF t
  <2>2. t \in [1..Len(s) -> S]
    BY <2>1, <1>5
  <2>3. t \in Seq(S)
    BY <1>1, <2>2, SeqDef
  <2> QED
    BY <1>1, <1>5, <2>3, LenProperties
<1>7. Reorders(t, s, p)
  BY <1>3, <1>4, <1>6 DEF Reorders
<1>8. ASSUME p = [k \in 1..Len(s) |-> k] PROVE t = s
  <2>1. \A k \in 1..Len(s) : s[p[k]] = s[k]
    BY <1>8
  <2>2. [k \in 1..Len(s) |-> s[p[k]]] = [k \in 1..Len(s) |-> s[k]]
    BY <2>1, Zenon
  <2> QED
    BY <1>1, <1>5, <2>2
<1> QED
  BY <1>2, <1>3, <1>6, <1>7, <1>8

\* SortRows puts the rows in another order, a sorted one.
LEMMA SortRowsIs ==
    ASSUME NEW rs \in Seq(Row), NEW col, NEW desc
    PROVE  /\ SortRows(rs, col, desc) \in Seq(Row)
           /\ \E p : Reorders(SortRows(rs, col, desc), rs, p)
           /\ Sorted(SortRows(rs, col, desc), col, desc)
           /\ Sorted(rs, col, desc) => SortRows(rs, col, desc) = rs
<1> DEFINE cells == [i \in DOMAIN rs |-> Get(rs[i], col)]
           t == SortRows(rs, col, desc)
<1>1. Len(rs) \in Nat /\ DOMAIN rs = 1..Len(rs) /\ \A i \in 1..Len(rs) : rs[i] \in Row
  BY LenProperties
<1>2. \A i \in 1..Len(rs) : Get(rs[i], col) \in Cell
  BY <1>1, CellsOfRows
<1>3. cells \in Seq(Cell) /\ Len(cells) = Len(rs) /\ \A i \in 1..Len(rs) : cells[i] = Get(rs[i], col)
  <2>1. cells \in [1..Len(rs) -> Cell]
    BY <1>1, <1>2
  <2>2. cells \in Seq(Cell)
    BY <1>1, <2>1, SeqDef
  <2> QED
    BY <1>1, <2>1, <2>2, LenProperties
<1>4. t = SortBy(rs, cells, desc)
  BY DEF SortRows
<1> HIDE DEF cells, t
<1>5. t \in Seq(Row)
  BY <1>3, <1>4, SortByIs
<1>6. PICK p : /\ Reorders(t, rs, p)
               /\ \A k \in 1..(Len(rs) - 1) : ~Before(cells[p[k + 1]], cells[p[k]], desc)
  BY <1>3, <1>4, SortByIs
<1>7. (\A k \in 1..(Len(rs) - 1) : ~Before(cells[k + 1], cells[k], desc)) => t = rs
  BY <1>3, <1>4, SortByIs
<1>8. Sorted(t, col, desc)
  <2>1. ASSUME NEW k \in 1..(Len(t) - 1)
        PROVE  ~Before(Get(t[k + 1], col), Get(t[k], col), desc)
    <3>1. k \in 1..(Len(rs) - 1) /\ k \in 1..Len(rs) /\ k + 1 \in 1..Len(rs)
      BY <1>1, <1>6 DEF Reorders
    <3>2. /\ t[k] = rs[p[k]] /\ t[k + 1] = rs[p[k + 1]]
          /\ p[k] \in 1..Len(rs) /\ p[k + 1] \in 1..Len(rs)
      BY <3>1, <1>6 DEF Reorders
    <3>3. cells[p[k]] = Get(t[k], col) /\ cells[p[k + 1]] = Get(t[k + 1], col)
      BY <3>2, <1>3
    <3> QED
      BY <3>1, <3>3, <1>6
  <2> QED
    BY <2>1 DEF Sorted
<1>9. Sorted(rs, col, desc) => t = rs
  <2>1. ASSUME Sorted(rs, col, desc), NEW k \in 1..(Len(rs) - 1)
        PROVE  ~Before(cells[k + 1], cells[k], desc)
    <3>1. k \in 1..Len(rs) /\ k + 1 \in 1..Len(rs)
      BY <1>1
    <3> QED
      BY <3>1, <2>1, <1>3 DEF Sorted
  <2> QED
    BY <2>1, <1>7
<1>10. t \in Seq(Row) /\ (\E p0 : Reorders(t, rs, p0)) /\ Sorted(t, col, desc)
       /\ (Sorted(rs, col, desc) => t = rs)
  BY <1>5, <1>6, <1>8, <1>9
<1> QED
  BY <1>10 DEF t

\* Among cells that are no nan, not going before is transitive, and is the order
\* that the title claims.
LEMMA NotBeforeIsTransitive ==
    ASSUME NEW a \in Cell, NEW b \in Cell, NEW d \in Cell, NEW desc,
           ~Number[a].nan, ~Number[b].nan, ~Number[d].nan,
           ~Before(b, a, desc), ~Before(d, b, desc)
    PROVE  ~Before(d, a, desc)
<1>1. /\ Number[a].ok \in BOOLEAN /\ Number[b].ok \in BOOLEAN /\ Number[d].ok \in BOOLEAN
      /\ Number[a].n \in Int /\ Number[b].n \in Int /\ Number[d].n \in Int
      /\ Text[a] \in Nat /\ Text[b] \in Nat /\ Text[d] \in Nat
  BY CellAssumption
<1>2. ~CellLess(b, a) /\ ~CellLess(d, b) => ~CellLess(d, a)
  BY <1>1 DEF CellLess, Differ
<1>3. ~CellLess(a, b) /\ ~CellLess(b, d) => ~CellLess(a, d)
  BY <1>1 DEF CellLess, Differ
<1> QED
  BY <1>2, <1>3 DEF Before

\* Where neither is a nan, what does not go before is in order.
LEMMA NotBeforeIsInOrder ==
    ASSUME NEW a \in Cell, NEW b \in Cell, NEW desc,
           ~Number[a].nan, ~Number[b].nan, ~Before(b, a, desc)
    PROVE  IF desc THEN InOrder(b, a) ELSE InOrder(a, b)
<1>1. /\ Number[a].ok \in BOOLEAN /\ Number[b].ok \in BOOLEAN
      /\ Number[a].n \in Int /\ Number[b].n \in Int /\ Text[a] \in Nat /\ Text[b] \in Nat
  BY CellAssumption
<1>2. ~CellLess(b, a) => InOrder(a, b)
  BY <1>1 DEF CellLess, Differ, InOrder
<1>3. ~CellLess(a, b) => InOrder(b, a)
  BY <1>1 DEF CellLess, Differ, InOrder
<1> QED
  BY <1>2, <1>3 DEF Before

\* So rows that are sorted neighbour by neighbour are sorted.
LEMMA SortedThroughout ==
    ASSUME NEW rs \in Seq(Row), NEW col, NEW desc, Sorted(rs, col, desc),
           \A i \in 1..Len(rs) : ~Number[Get(rs[i], col)].nan,
           NEW i \in 1..Len(rs), NEW j \in 1..Len(rs), i < j
    PROVE  ~Before(Get(rs[j], col), Get(rs[i], col), desc)
<1> DEFINE cell(k) == Get(rs[k], col)
           T == {k \in Nat : i < k /\ k <= Len(rs) /\ Before(cell(k), cell(i), desc)}
<1>1. Len(rs) \in Nat /\ \A k \in 1..Len(rs) : rs[k] \in Row
  BY LenProperties
<1>2. \A k \in 1..Len(rs) : cell(k) \in Cell /\ ~Number[cell(k)].nan
  BY <1>1, CellsOfRows
<1>3. \A k \in 1..(Len(rs) - 1) : ~Before(cell(k + 1), cell(k), desc)
  BY DEF Sorted
<1>4. SUFFICES ASSUME T # {} PROVE FALSE
  <2>1. j \in Nat /\ i < j /\ j <= Len(rs)
    OBVIOUS
  <2> QED
    BY <2>1
<1>5. PICK k \in T : \A m \in T : k <= m
  BY <1>4, Least
<1> HIDE DEF cell
<1>6. k \in Nat /\ i < k /\ k <= Len(rs) /\ Before(cell(k), cell(i), desc)
  OBVIOUS
<1>7. k - 1 \in 1..(Len(rs) - 1) /\ k - 1 \in 1..Len(rs) /\ k \in 1..Len(rs) /\ (k - 1) + 1 = k
  BY <1>1, <1>6
<1>8. ~Before(cell(k), cell(k - 1), desc)
  BY <1>3, <1>7
<1>9. CASE k - 1 = i
  BY <1>6, <1>8, <1>9
<1>10. CASE k - 1 # i
  <2>1. i < k - 1 /\ k - 1 \in Nat /\ k - 1 <= Len(rs)
    BY <1>6, <1>7, <1>10
  <2>2. ~Before(cell(k - 1), cell(i), desc)
    <3>1. k - 1 \notin T
      <4> HIDE DEF T
      <4>1. SUFFICES ASSUME k - 1 \in T PROVE FALSE
        OBVIOUS
      <4>2. k <= k - 1
        BY <1>5, <4>1
      <4> QED
        BY <1>6, <4>2
    <3> QED
      BY <2>1, <3>1
  <2>3. cell(i) \in Cell /\ cell(k - 1) \in Cell /\ cell(k) \in Cell
        /\ ~Number[cell(i)].nan /\ ~Number[cell(k - 1)].nan /\ ~Number[cell(k)].nan
    BY <1>2, <1>7
  <2> QED
    BY <1>6, <1>8, <2>2, <2>3, NotBeforeIsTransitive
<1> QED
  BY <1>9, <1>10

-----------------------------------------------------------------------------
(* The lines, group by group.                                              *)

\* The keys are the rows' own, each once.
LEMMA KeysIs ==
    ASSUME NEW rs \in Seq(Row), NEW col
    PROVE  /\ Keys(rs, col) \in Seq(Cell)
           /\ Distinct(Keys(rs, col))
           /\ \A i \in 1..Len(rs) : \E k \in 1..Len(Keys(rs, col)) : Keys(rs, col)[k] = KeyOf(rs[i], col)
<1> DEFINE all == [i \in DOMAIN rs |-> KeyOf(rs[i], col)]
           found == Firsts(all)
           keys == Keys(rs, col)
<1>1. Len(rs) \in Nat /\ DOMAIN rs = 1..Len(rs) /\ \A i \in 1..Len(rs) : rs[i] \in Row
  BY LenProperties
<1>2. all \in Seq(Cell) /\ Len(all) = Len(rs) /\ \A i \in 1..Len(rs) : all[i] = KeyOf(rs[i], col)
  <2>1. all \in [1..Len(rs) -> Cell]
    BY <1>1, CellsOfRows
  <2>2. all \in Seq(Cell)
    BY <1>1, <2>1, SeqDef
  <2> QED
    BY <1>1, <2>1, <2>2, LenProperties
<1>3. keys = SortBy(found, found, FALSE)
  BY DEF Keys
<1> HIDE DEF all
<1>4. /\ found \in Seq(Cell)
      /\ \A p, q \in 1..Len(found) : found[p] = found[q] => p = q
      /\ \A i \in 1..Len(all) : \E p \in 1..Len(found) : found[p] = all[i]
  BY <1>2, FirstsOnce
<1> HIDE DEF found, keys
<1>5. keys \in Seq(Cell)
  BY <1>3, <1>4, SortByIs
<1>6. PICK p : Reorders(keys, found, p)
  BY <1>3, <1>4, SortByIs
<1>7. /\ p \in [1..Len(found) -> 1..Len(found)] /\ Len(keys) = Len(found)
      /\ \A k, l \in 1..Len(found) : p[k] = p[l] => k = l
      /\ \A m \in 1..Len(found) : \E k \in 1..Len(found) : p[k] = m
      /\ \A k \in 1..Len(found) : keys[k] = found[p[k]]
  BY <1>6 DEF Reorders
<1>8. ASSUME NEW k \in 1..Len(keys), NEW l \in 1..Len(keys), keys[k] = keys[l] PROVE k = l
  <2>1. k \in 1..Len(found) /\ l \in 1..Len(found) /\ p[k] \in 1..Len(found) /\ p[l] \in 1..Len(found)
    BY <1>7
  <2>2. found[p[k]] = found[p[l]]
    BY <2>1, <1>7, <1>8
  <2>3. p[k] = p[l]
    BY <2>1, <2>2, <1>4
  <2> QED
    BY <2>1, <2>3, <1>7
<1>9. ASSUME NEW i \in 1..Len(rs) PROVE \E k \in 1..Len(keys) : keys[k] = KeyOf(rs[i], col)
  <2>1. PICK m \in 1..Len(found) : found[m] = KeyOf(rs[i], col)
    BY <1>2, <1>4
  <2>2. PICK k \in 1..Len(found) : p[k] = m
    BY <1>7
  <2> QED
    BY <2>1, <2>2, <1>7
<1>10. keys \in Seq(Cell) /\ Distinct(keys)
       /\ \A i \in 1..Len(rs) : \E k \in 1..Len(keys) : keys[k] = KeyOf(rs[i], col)
  BY <1>5, <1>8, <1>9 DEF Distinct
<1> QED
  BY <1>10 DEF keys

\* What a line may be.
AnyLine == {Header(key, n) : key \in Cell, n \in Nat} \cup {RowLine(row) : row \in Row}

\* RowLines makes a line of each row.
LEMMA RowLinesIs ==
    ASSUME NEW rs \in Seq(Row)
    PROVE  /\ RowLines(rs) \in Seq(AnyLine) /\ Len(RowLines(rs)) = Len(rs)
           /\ \A k \in 1..Len(rs) : RowLines(rs)[k] = RowLine(rs[k])
<1>1. Len(rs) \in Nat /\ DOMAIN rs = 1..Len(rs) /\ \A i \in 1..Len(rs) : rs[i] \in Row
  BY LenProperties
<1>2. RowLines(rs) \in [1..Len(rs) -> AnyLine] /\ \A k \in 1..Len(rs) : RowLines(rs)[k] = RowLine(rs[k])
  BY <1>1 DEF RowLines, AnyLine
<1>3. RowLines(rs) \in Seq(AnyLine)
  BY <1>1, <1>2, SeqDef
<1> QED
  BY <1>1, <1>2, <1>3, LenProperties

\* Where the lines of each group are: the header of the i-th after at[i], then its
\* rows, unless they are folded away.
Laid(ls, rs, col, folded, at) ==
    LET keys == Keys(rs, col)
        Group(i) == GroupOf(rs, col, keys[i])
        Spread(i) == IF keys[i] \in folded THEN 0 ELSE Len(Group(i))
    IN  /\ at \in [1..Len(keys) -> Nat]
        /\ \A i \in 1..Len(keys) :
               /\ at[i] + 1 + Spread(i) <= Len(ls)
               /\ ls[at[i] + 1] = Header(keys[i], Len(Group(i)))
               /\ \A k \in 1..Spread(i) : ls[at[i] + 1 + k] = RowLine(Group(i)[k])
        /\ \A i, j \in 1..Len(keys) : i < j => at[i] + 1 + Spread(i) <= at[j]
        /\ \A p \in 1..Len(ls) : \E i \in 1..Len(keys) : \E k \in 0..Spread(i) : p = at[i] + 1 + k

\* LinesOf lays the groups out.
LEMMA LinesOfIs ==
    ASSUME NEW rs \in Seq(Row), NEW col, NEW folded
    PROVE  /\ LinesOf(rs, col, folded) \in Seq(AnyLine)
           /\ \E at : Laid(LinesOf(rs, col, folded), rs, col, folded, at)
<1> DEFINE keys == Keys(rs, col)
           Group(i) == GroupOf(rs, col, keys[i])
           Spread(i) == IF keys[i] \in folded THEN 0 ELSE Len(Group(i))
           Shown(i) == IF keys[i] \in folded THEN <<>> ELSE RowLines(Group(i))
           ss == [i \in 1..Len(keys) |-> <<Header(keys[i], Len(Group(i)))>> \o Shown(i)]
           ls == LinesOf(rs, col, folded)
<1>1. keys \in Seq(Cell) /\ Len(keys) \in Nat /\ DOMAIN keys = 1..Len(keys)
      /\ \A i \in 1..Len(keys) : keys[i] \in Cell
  BY KeysIs, LenProperties
<1> HIDE DEF keys
<1>2. ASSUME NEW i \in 1..Len(keys)
      PROVE  Group(i) \in Seq(Row) /\ Len(Group(i)) \in Nat
  <2>1. Group(i) \in Seq(Row)
    BY KeepPicks DEF GroupOf
  <2> QED
    BY <2>1, LenProperties
<1> HIDE DEF Group
<1>3. ASSUME NEW i \in 1..Len(keys)
      PROVE  /\ Shown(i) \in Seq(AnyLine) /\ Len(Shown(i)) = Spread(i) /\ Spread(i) \in Nat
             /\ \A k \in 1..Spread(i) : Shown(i)[k] = RowLine(Group(i)[k])
  <2>1. CASE keys[i] \in folded
    <3>1. Shown(i) = <<>> /\ Spread(i) = 0 /\ 1..0 = {}
      BY <2>1
    <3> HIDE DEF Shown, Spread
    <3> QED
      BY <3>1
  <2>2. CASE keys[i] \notin folded
    BY <2>2, <1>2, RowLinesIs
  <2> QED
    BY <2>1, <2>2
<1> HIDE DEF Shown, Spread
<1>4. ASSUME NEW i \in 1..Len(keys)
      PROVE  /\ ss[i] \in Seq(AnyLine) /\ Len(ss[i]) = 1 + Spread(i)
             /\ ss[i][1] = Header(keys[i], Len(Group(i)))
             /\ \A k \in 1..Spread(i) : ss[i][1 + k] = RowLine(Group(i)[k])
  <2> DEFINE one == <<Header(keys[i], Len(Group(i)))>>
  <2>1. one \in Seq(AnyLine) /\ Len(one) = 1 /\ one[1] = Header(keys[i], Len(Group(i)))
    BY <1>1, <1>2 DEF AnyLine
  <2>2. ss[i] = one \o Shown(i)
    OBVIOUS
  <2> HIDE DEF one, ss
  <2>3. /\ one \o Shown(i) \in Seq(AnyLine) /\ Len(one \o Shown(i)) = 1 + Spread(i)
        /\ \A m \in 1..(1 + Spread(i)) :
               (one \o Shown(i))[m] = IF m <= 1 THEN one[m] ELSE Shown(i)[m - 1]
    <3>1. /\ one \o Shown(i) \in Seq(AnyLine) /\ Len(one \o Shown(i)) = Len(one) + Len(Shown(i))
          /\ \A m \in 1..(Len(one) + Len(Shown(i))) :
                 (one \o Shown(i))[m] = IF m <= Len(one) THEN one[m] ELSE Shown(i)[m - Len(one)]
      BY <1>3, <2>1, ConcatProperties
    <3> QED
      BY <3>1, <1>3, <2>1
  <2>4. ss[i][1] = Header(keys[i], Len(Group(i)))
    <3>1. 1 \in 1..(1 + Spread(i))
      BY <1>3
    <3> QED
      BY <3>1, <2>1, <2>2, <2>3
  <2>5. ASSUME NEW k \in 1..Spread(i) PROVE ss[i][1 + k] = RowLine(Group(i)[k])
    <3>1. 1 + k \in 1..(1 + Spread(i)) /\ ~(1 + k <= 1) /\ (1 + k) - 1 = k
      BY <1>3
    <3>2. (one \o Shown(i))[1 + k] = Shown(i)[k]
      BY <3>1, <2>3
    <3> QED
      BY <3>2, <2>2, <1>3
  <2> QED
    BY <2>2, <2>3, <2>4, <2>5
<1>5. ss \in Seq(Seq(AnyLine)) /\ Len(ss) = Len(keys)
  <2>1. ss \in [1..Len(keys) -> Seq(AnyLine)]
    <3>1. \A i \in 1..Len(keys) : ss[i] \in Seq(AnyLine)
      BY <1>4
    <3>2. ss = [i \in 1..Len(keys) |-> ss[i]]
      OBVIOUS
    <3> HIDE DEF ss
    <3> QED
      BY <3>1, <3>2
  <2>2. ss \in Seq(Seq(AnyLine))
    BY <1>1, <2>1, SeqDef
  <2> HIDE DEF ss
  <2> QED
    BY <1>1, <2>1, <2>2, LenProperties
<1>6. ls = FlattenSeq(ss)
  BY <1>1, Zenon DEF LinesOf, keys, Group, Shown
<1> HIDE DEF ss, ls
<1>7. ls \in Seq(AnyLine) /\ Len(ls) \in Nat
  BY <1>5, <1>6, FlattenJoins, LenProperties
<1>8. PICK at : Joins(ss, Len(ss), ls, at)
  BY <1>5, <1>6, FlattenJoins
<1>9. /\ at \in [1..Len(keys) -> Nat]
      /\ \A i \in 1..Len(keys) : at[i] + Len(ss[i]) <= Len(ls)
      /\ \A i \in 1..Len(keys) : \A k \in 1..Len(ss[i]) : ls[at[i] + k] = ss[i][k]
      /\ \A i, j \in 1..Len(keys) : i < j => at[i] + Len(ss[i]) <= at[j]
      /\ \A p \in 1..Len(ls) : \E i \in 1..Len(keys) : \E k \in 1..Len(ss[i]) : p = at[i] + k
  BY <1>5, <1>8 DEF Joins
<1>10. ASSUME NEW i \in 1..Len(keys)
       PROVE  /\ at[i] + 1 + Spread(i) <= Len(ls)
              /\ ls[at[i] + 1] = Header(keys[i], Len(Group(i)))
  <2>1. at[i] \in Nat /\ Spread(i) \in Nat /\ Len(ss[i]) = 1 + Spread(i)
    BY <1>3, <1>4, <1>9
  <2>2. 1 \in 1..Len(ss[i])
    BY <2>1
  <2>3. ls[at[i] + 1] = ss[i][1] /\ at[i] + Len(ss[i]) <= Len(ls)
    BY <2>2, <1>9
  <2>4. at[i] + 1 + Spread(i) = at[i] + Len(ss[i])
    BY <2>1
  <2>5. ss[i][1] = Header(keys[i], Len(Group(i)))
    BY <1>4
  <2> QED
    BY <2>3, <2>4, <2>5
<1>11. ASSUME NEW i \in 1..Len(keys), NEW k \in 1..Spread(i)
       PROVE  ls[at[i] + 1 + k] = RowLine(Group(i)[k])
  <2>1. at[i] \in Nat /\ Spread(i) \in Nat /\ Len(ss[i]) = 1 + Spread(i)
    BY <1>3, <1>4, <1>9
  <2>2. 1 + k \in 1..Len(ss[i]) /\ at[i] + (1 + k) = at[i] + 1 + k
    BY <2>1
  <2>3. ls[at[i] + (1 + k)] = ss[i][1 + k]
    BY <2>2, <1>9
  <2> QED
    BY <2>2, <2>3, <1>4
<1>12. ASSUME NEW i \in 1..Len(keys), NEW j \in 1..Len(keys), i < j
       PROVE  at[i] + 1 + Spread(i) <= at[j]
  <2>1. at[i] \in Nat /\ at[j] \in Nat /\ Spread(i) \in Nat /\ Len(ss[i]) = 1 + Spread(i)
    BY <1>3, <1>4, <1>9
  <2>2. at[i] + Len(ss[i]) <= at[j]
    BY <1>9, <1>12
  <2> QED
    BY <2>1, <2>2
<1>13. ASSUME NEW p \in 1..Len(ls)
       PROVE  \E i \in 1..Len(keys) : \E k \in 0..Spread(i) : p = at[i] + 1 + k
  <2>i. PICK i \in 1..Len(keys) : \E m \in 1..Len(ss[i]) : p = at[i] + m
    BY <1>9
  <2>1. PICK m \in 1..Len(ss[i]) : p = at[i] + m
    BY <2>i
  <2>2. at[i] \in Nat /\ Spread(i) \in Nat /\ Len(ss[i]) = 1 + Spread(i)
    BY <1>3, <1>4, <1>9
  <2>3. m - 1 \in 0..Spread(i) /\ p = at[i] + 1 + (m - 1)
    BY <2>1, <2>2
  <2> QED
    BY <2>3
<1>14. Laid(ls, rs, col, folded, at)
  <2>1. at \in [1..Len(keys) -> Nat]
    BY <1>9
  <2> QED
    BY <2>1, <1>10, <1>11, <1>12, <1>13 DEF Laid, keys, Group, Spread
<1> QED
  BY <1>7, <1>14 DEF ls

\* An increasing enumeration of 1..n is the identity.
LEMMA AtLeastItsPlace ==
    ASSUME NEW m \in Nat, NEW f \in [1..m -> Nat \ {0}], \A p, q \in 1..m : p < q => f[p] < f[q],
           NEW p \in 1..m
    PROVE  p <= f[p]
<1> DEFINE T == {q \in Nat : q \in 1..m /\ f[q] < q}
<1>1. SUFFICES ASSUME T # {} PROVE FALSE
  <2>1. p \in Nat /\ f[p] \in Nat
    OBVIOUS
  <2> QED
    BY <2>1
<1>2. PICK q \in T : \A r \in T : q <= r
  BY <1>1, Least
<1>3. q \in 1..m /\ f[q] < q /\ f[q] \in Nat \ {0}
  OBVIOUS
<1>4. q - 1 \in 1..m /\ q - 1 < q /\ q - 1 \in Nat
  BY <1>3
<1>5. f[q - 1] < f[q] /\ f[q - 1] \in Nat
  BY <1>3, <1>4
<1>6. f[q - 1] < q - 1
  BY <1>3, <1>4, <1>5
<1>7. q - 1 \in T
  BY <1>4, <1>6
<1>8. q <= q - 1
  BY <1>2, <1>7
<1> QED
  BY <1>4, <1>8

\* f lists the positions from 1 to m among those from 1 to n, in order.
Enumerates(f, m, n) ==
    /\ f \in [1..m -> 1..n]
    /\ \A p, q \in 1..m : p < q => f[p] < f[q]
    /\ \A i \in 1..n : \E p \in 1..m : f[p] = i

\* An increasing map of 1..n onto itself is the identity.
LEMMA IncreasingOnto ==
    ASSUME NEW m \in Nat, NEW n \in Nat, NEW f, Enumerates(f, m, n)
    PROVE  m = n /\ \A p \in 1..m : f[p] = p
<1>0. /\ f \in [1..m -> 1..n]
      /\ \A p, q \in 1..m : p < q => f[p] < f[q]
      /\ \A i \in 1..n : \E p \in 1..m : f[p] = i
  BY DEF Enumerates
<1> DEFINE g == [i \in 1..n |-> CHOOSE p \in 1..m : f[p] = i]
<1>1. \A i \in 1..n : g[i] \in 1..m /\ f[g[i]] = i
  BY <1>0
<1>2. g = [i \in 1..n |-> g[i]]
  OBVIOUS
<1> HIDE DEF g
<1>3. f \in [1..m -> Nat \ {0}] /\ g \in [1..n -> Nat \ {0}]
  BY <1>0, <1>1, <1>2
<1>4. ASSUME NEW i \in 1..n, NEW j \in 1..n, i < j PROVE g[i] < g[j]
  <2>1. g[i] \in 1..m /\ g[j] \in 1..m /\ f[g[i]] = i /\ f[g[j]] = j
    BY <1>1
  <2>2. ~(g[j] < g[i]) /\ g[i] # g[j]
    BY <2>1, <1>0, <1>4
  <2> QED
    BY <2>1, <2>2
<1>5. \A p \in 1..m : p <= f[p]
  BY <1>0, <1>3, AtLeastItsPlace
<1>6. \A i \in 1..n : i <= g[i]
  BY <1>3, <1>4, AtLeastItsPlace
<1>7. ASSUME NEW p \in 1..m PROVE f[p] = p
  <2>1. f[p] \in 1..n /\ g[f[p]] \in 1..m /\ f[g[f[p]]] = f[p]
    BY <1>0, <1>1
  <2>2. g[f[p]] = p
    <3>1. PICK q \in 1..m : q = g[f[p]]
      BY <2>1
    <3>2. f[q] = f[p] /\ (q < p => f[q] < f[p]) /\ (p < q => f[p] < f[q]) /\ f[p] \in Int
      BY <2>1, <3>1, <1>0
    <3>3. ~(q < p) /\ ~(p < q)
      BY <3>2
    <3> QED
      BY <3>1, <3>3
  <2>3. f[p] <= p /\ p <= f[p]
    BY <2>1, <2>2, <1>5, <1>6
  <2> QED
    BY <2>1, <2>3
<1>8. m <= n
  <2>1. m # 0 => m \in 1..m /\ f[m] \in 1..n
    BY <1>0
  <2> QED
    BY <2>1, <1>7
<1>9. n <= m
  <2>1. n # 0 => n \in 1..n /\ g[n] \in 1..m /\ n <= g[n]
    BY <1>1, <1>6
  <2> QED
    BY <2>1
<1> QED
  BY <1>7, <1>8, <1>9

\* Each line is the header of a group or one of its rows.
LEMMA LineIs ==
    ASSUME NEW rs \in Seq(Row), NEW col, NEW folded, NEW ls, NEW at, Laid(ls, rs, col, folded, at),
           NEW p \in 1..Len(ls)
    PROVE  \E i \in 1..Len(Keys(rs, col)) :
               LET Group == GroupOf(rs, col, Keys(rs, col)[i])
               IN  \/ p = at[i] + 1 /\ ls[p] = Header(Keys(rs, col)[i], Len(Group))
                   \/ /\ Keys(rs, col)[i] \notin folded
                      /\ \E k \in 1..Len(Group) : p = at[i] + 1 + k /\ ls[p] = RowLine(Group[k])
<1> DEFINE keys == Keys(rs, col)
           Group(i) == GroupOf(rs, col, keys[i])
           Spread(i) == IF keys[i] \in folded THEN 0 ELSE Len(Group(i))
<1>1. /\ at \in [1..Len(keys) -> Nat]
      /\ \A i \in 1..Len(keys) :
             /\ ls[at[i] + 1] = Header(keys[i], Len(Group(i)))
             /\ \A k \in 1..Spread(i) : ls[at[i] + 1 + k] = RowLine(Group(i)[k])
      /\ \A q \in 1..Len(ls) : \E i \in 1..Len(keys) : \E k \in 0..Spread(i) : q = at[i] + 1 + k
  BY DEF Laid
<1>2. PICK i \in 1..Len(keys) : \E k \in 0..Spread(i) : p = at[i] + 1 + k
  BY <1>1
<1>3. PICK k \in 0..Spread(i) : p = at[i] + 1 + k
  BY <1>2
<1>4. at[i] \in Nat
  BY <1>1
<1>5. CASE k = 0
  <2>1. p = at[i] + 1
    BY <1>3, <1>4, <1>5
  <2> QED
    BY <2>1, <1>1
<1>6. CASE k # 0
  <2>1. keys[i] \notin folded /\ Spread(i) = Len(Group(i)) /\ k \in 1..Spread(i)
    BY <1>6
  <2> HIDE DEF keys, Group, Spread
  <2>2. ls[at[i] + 1 + k] = RowLine(Group(i)[k]) /\ k \in 1..Len(Group(i))
    BY <2>1, <1>1
  <2> QED
    BY <2>1, <2>2, <1>3 DEF keys, Group
<1> QED
  BY <1>5, <1>6

\* The headers on the screen are the keys with the sizes of their groups, whatever
\* is folded.
LEMMA HeadersAreKeys ==
    ASSUME NEW rs \in Seq(Row), NEW col, NEW folded
    PROVE  HeadersIn(LinesOf(rs, col, folded)) =
               [i \in 1..Len(Keys(rs, col)) |->
                   Header(Keys(rs, col)[i], Len(GroupOf(rs, col, Keys(rs, col)[i])))]
<1> DEFINE keys == Keys(rs, col)
           head(i) == Header(keys[i], Len(GroupOf(rs, col, keys[i])))
           ls == LinesOf(rs, col, folded)
           I == {p \in DOMAIN ls : ls[p].header}
           kept == HeadersIn(ls)
<1>1. ls \in Seq(AnyLine)
  BY LinesOfIs
<1>2. PICK at : Laid(ls, rs, col, folded, at)
  BY LinesOfIs
<1>3. Len(keys) \in Nat
  BY KeysIs, LenProperties
<1> HIDE DEF ls
<1>4. kept = Keep(ls, I)
  BY DEF HeadersIn
<1>5. DOMAIN ls = 1..Len(ls) /\ Len(ls) \in Nat
  BY <1>1, LenProperties
<1>6. /\ at \in [1..Len(keys) -> Nat]
      /\ \A i \in 1..Len(keys) : at[i] + 1 \in 1..Len(ls) /\ ls[at[i] + 1] = head(i)
      /\ \A i, j \in 1..Len(keys) : i < j => at[i] + 1 <= at[j]
  <2> DEFINE Spread(i) == IF keys[i] \in folded THEN 0 ELSE Len(GroupOf(rs, col, keys[i]))
  <2>1. /\ at \in [1..Len(keys) -> Nat]
        /\ \A i \in 1..Len(keys) : at[i] + 1 + Spread(i) <= Len(ls) /\ ls[at[i] + 1] = head(i)
        /\ \A i, j \in 1..Len(keys) : i < j => at[i] + 1 + Spread(i) <= at[j]
    BY <1>2 DEF Laid
  <2>2. \A i \in 1..Len(keys) : Spread(i) \in Nat
    <3>1. \A key : GroupOf(rs, col, key) \in Seq(Row)
      BY KeepPicks DEF GroupOf
    <3> QED
      BY <3>1, LenProperties
  <2> HIDE DEF Spread, keys, head
  <2>3. ASSUME NEW i \in 1..Len(keys) PROVE at[i] + 1 \in 1..Len(ls)
    <3>1. at[i] \in Nat /\ Spread(i) \in Nat /\ at[i] + 1 + Spread(i) <= Len(ls)
      BY <2>1, <2>2
    <3> QED
      BY <3>1, <1>5
  <2>4. ASSUME NEW i \in 1..Len(keys), NEW j \in 1..Len(keys), i < j PROVE at[i] + 1 <= at[j]
    <3>1. at[i] \in Nat /\ at[j] \in Nat /\ Spread(i) \in Nat /\ at[i] + 1 + Spread(i) <= at[j]
      BY <2>1, <2>2, <2>4
    <3> QED
      BY <3>1
  <2> QED
    BY <2>1, <2>3, <2>4
<1>7. I = {p \in 1..Len(ls) : \E i \in 1..Len(keys) : p = at[i] + 1}
  <2>1. ASSUME NEW p \in 1..Len(ls), ls[p].header
        PROVE  \E i \in 1..Len(keys) : p = at[i] + 1
    <3>1. (\E i \in 1..Len(keys) : p = at[i] + 1) \/ \E row : ls[p] = RowLine(row)
      BY <1>2, LineIs
    <3>2. \A row : ~RowLine(row).header
      BY DEF RowLine
    <3> QED
      BY <2>1, <3>1, <3>2
  <2>2. \A i \in 1..Len(keys) : ls[at[i] + 1].header
    <3>1. \A key, n : Header(key, n).header
      BY DEF Header
    <3> QED
      BY <3>1, <1>6
  <2> QED
    BY <1>5, <2>1, <2>2
<1> HIDE DEF I, kept, keys, head
<1>8. kept \in Seq(AnyLine) /\ Len(kept) \in Nat
  BY <1>1, <1>4, KeepPicks, LenProperties
<1>9. PICK f : Picks(ls, I, kept, f)
  BY <1>1, <1>4, KeepPicks
<1>10. /\ f \in [1..Len(kept) -> I \cap (1..Len(ls))]
       /\ \A p \in 1..Len(kept) : kept[p] = ls[f[p]]
       /\ \A p, q \in 1..Len(kept) : p < q => f[p] < f[q]
       /\ \A i \in I \cap (1..Len(ls)) : \E p \in 1..Len(kept) : f[p] = i
  BY <1>9 DEF Picks
<1> DEFINE h == [p \in 1..Len(kept) |-> CHOOSE i \in 1..Len(keys) : f[p] = at[i] + 1]
<1>11. \A p \in 1..Len(kept) : h[p] \in 1..Len(keys) /\ f[p] = at[h[p]] + 1
  <2>1. \A p \in 1..Len(kept) : \E i \in 1..Len(keys) : f[p] = at[i] + 1
    BY <1>7, <1>10
  <2> QED
    BY <2>1
<1>12. h \in [1..Len(kept) -> 1..Len(keys)]
  BY <1>11
<1> HIDE DEF h
<1>13. ASSUME NEW p \in 1..Len(kept), NEW q \in 1..Len(kept), p < q PROVE h[p] < h[q]
  <2>1. h[p] \in 1..Len(keys) /\ h[q] \in 1..Len(keys) /\ f[p] = at[h[p]] + 1 /\ f[q] = at[h[q]] + 1
        /\ f[p] < f[q] /\ at[h[p]] \in Nat /\ at[h[q]] \in Nat
    BY <1>6, <1>10, <1>11, <1>13
  <2>2. h[p] # h[q]
    BY <2>1
  <2>3. ~(h[q] < h[p])
    <3>1. SUFFICES ASSUME h[q] < h[p] PROVE FALSE
      OBVIOUS
    <3>2. at[h[q]] + 1 <= at[h[p]]
      BY <2>1, <3>1, <1>6
    <3> QED
      BY <2>1, <3>2
  <2> QED
    BY <2>1, <2>2, <2>3
<1>14. ASSUME NEW i \in 1..Len(keys) PROVE \E p \in 1..Len(kept) : h[p] = i
  <2>1. at[i] + 1 \in I \cap (1..Len(ls))
    BY <1>6, <1>7
  <2>2. PICK p \in 1..Len(kept) : f[p] = at[i] + 1
    BY <2>1, <1>10
  <2>3. h[p] \in 1..Len(keys) /\ at[h[p]] + 1 = at[i] + 1 /\ at[h[p]] \in Nat /\ at[i] \in Nat
    BY <2>2, <1>6, <1>11
  <2>4. ~(h[p] < i) /\ ~(i < h[p])
    <3>1. (h[p] < i => at[h[p]] + 1 <= at[i]) /\ (i < h[p] => at[i] + 1 <= at[h[p]])
      BY <2>3, <1>6
    <3> QED
      BY <2>3, <3>1
  <2>5. h[p] = i
    BY <2>3, <2>4
  <2> QED
    BY <2>5
<1>15. Len(kept) = Len(keys) /\ \A p \in 1..Len(kept) : h[p] = p
  <2> DEFINE n == Len(keys)
             m == Len(kept)
  <2>1. \A p, q \in 1..m : p < q => h[p] < h[q]
    BY <1>13
  <2>2. \A i \in 1..n : \E p \in 1..m : h[p] = i
    BY <1>14
  <2>3. m \in Nat /\ n \in Nat /\ h \in [1..m -> 1..n]
    BY <1>3, <1>8, <1>12
  <2> HIDE DEF m, n
  <2>4. Enumerates(h, m, n)
    BY <2>1, <2>2, <2>3 DEF Enumerates
  <2>5. m = n /\ \A p \in 1..m : h[p] = p
    BY <2>3, <2>4, IncreasingOnto
  <2> QED
    BY <2>5 DEF m, n
<1>16. \A p \in 1..Len(keys) : kept[p] = head(p)
  <2>1. \A p \in 1..Len(keys) : kept[p] = ls[f[p]] /\ f[p] = at[p] + 1 /\ ls[at[p] + 1] = head(p)
    BY <1>6, <1>10, <1>11, <1>15
  <2> QED
    BY <2>1
<1>17. kept = [p \in 1..Len(keys) |-> head(p)]
  <2>1. kept = [p \in 1..Len(keys) |-> kept[p]]
    BY <1>8, <1>15, LenProperties
  <2>2. [p \in 1..Len(keys) |-> kept[p]] = [p \in 1..Len(keys) |-> head(p)]
    BY <1>16, Zenon
  <2> QED
    BY <2>1, <2>2
<1> QED
  BY <1>17 DEF kept, keys, head, ls

-----------------------------------------------------------------------------
(* What is kept, and what is shown of it.                                  *)

\* Keep in terms of elements.
LEMMA KeepIs ==
    ASSUME NEW S, NEW s \in Seq(S), NEW I
    PROVE  LET kept == Keep(s, I)
           IN  /\ kept \in Seq(S) /\ Len(kept) \in Nat
               /\ \A k \in 1..Len(kept) : \E i \in I \cap (1..Len(s)) : kept[k] = s[i]
               /\ \A i \in I \cap (1..Len(s)) : \E k \in 1..Len(kept) : kept[k] = s[i]
               /\ \A k, l \in 1..Len(kept) : k < l =>
                      \E i, j \in 1..Len(s) : i < j /\ kept[k] = s[i] /\ kept[l] = s[j]
               /\ Distinct(s) => Distinct(kept)
<1> DEFINE kept == Keep(s, I)
<1>1. kept \in Seq(S) /\ Len(kept) \in Nat
  BY KeepPicks, LenProperties
<1>2. PICK f : Picks(s, I, kept, f)
  BY KeepPicks
<1> HIDE DEF kept
<1>3. /\ f \in [1..Len(kept) -> I \cap (1..Len(s))]
      /\ \A p \in 1..Len(kept) : kept[p] = s[f[p]]
      /\ \A p, q \in 1..Len(kept) : p < q => f[p] < f[q]
      /\ \A i \in I \cap (1..Len(s)) : \E p \in 1..Len(kept) : f[p] = i
  BY <1>2 DEF Picks
<1>4. \A k \in 1..Len(kept) : f[k] \in I \cap (1..Len(s)) /\ kept[k] = s[f[k]]
  BY <1>3
<1>5. \A i \in I \cap (1..Len(s)) : \E k \in 1..Len(kept) : kept[k] = s[i]
  BY <1>3
<1>6. ASSUME NEW k \in 1..Len(kept), NEW l \in 1..Len(kept), k < l
      PROVE  \E i, j \in 1..Len(s) : i < j /\ kept[k] = s[i] /\ kept[l] = s[j]
  <2>1. f[k] \in 1..Len(s) /\ f[l] \in 1..Len(s) /\ f[k] < f[l]
    BY <1>3, <1>6
  <2> QED
    BY <2>1, <1>4
<1>7. ASSUME Distinct(s), NEW k \in 1..Len(kept), NEW l \in 1..Len(kept), kept[k] = kept[l]
      PROVE  k = l
  <2>1. f[k] \in 1..Len(s) /\ f[l] \in 1..Len(s) /\ s[f[k]] = s[f[l]]
    BY <1>4, <1>7
  <2>2. f[k] = f[l]
    BY <2>1, <1>7 DEF Distinct
  <2>3. ~(k < l) /\ ~(l < k)
    <3>1. f[k] \in Int
      BY <2>1
    <3>2. k < l => f[k] < f[l]
      BY <1>3
    <3>3. l < k => f[l] < f[k]
      BY <1>3
    <3> QED
      BY <2>2, <3>1, <3>2, <3>3
  <2> QED
    BY <2>3
<1>8. Distinct(s) => Distinct(kept)
  BY <1>7 DEF Distinct
<1> QED
  BY <1>1, <1>4, <1>5, <1>6, <1>8 DEF kept

\* A sequence without repetition is as long as its set is large.
LEMMA DistinctCount ==
    ASSUME NEW S, NEW s \in Seq(S), Distinct(s)
    PROVE  Cardinality(ToSet(s)) = Len(s)
<1>1. Len(s) \in Nat /\ s \in [1..Len(s) -> S] /\ DOMAIN s = 1..Len(s)
  BY LenProperties
<1>2. ToSet(s) = {s[i] : i \in 1..Len(s)}
  BY <1>1 DEF ToSet
<1>3. s \in Bijection(1..Len(s), ToSet(s))
  <2>1. s \in [1..Len(s) -> ToSet(s)]
    BY <1>1, <1>2
  <2>2. \A i, j \in 1..Len(s) : s[i] = s[j] => i = j
    BY DEF Distinct
  <2>3. \A x \in ToSet(s) : \E i \in 1..Len(s) : s[i] = x
    BY <1>2
  <2> QED
    BY <2>1, <2>2, <2>3 DEF Bijection, Injection, Surjection, IsInjective
<1>4. ExistsBijection(1..Len(s), ToSet(s))
  BY <1>3 DEF ExistsBijection
<1> QED
  BY <1>1, <1>4, FS_CountingElements

\* The rows of a group are those with its key.
LEMMA GroupIs ==
    ASSUME NEW rs \in Seq(Row), Distinct(rs), NEW col, NEW key
    PROVE  LET group == GroupOf(rs, col, key)
           IN  /\ group \in Seq(Row) /\ Len(group) \in Nat /\ Distinct(group)
               /\ \A k \in 1..Len(group) :
                      KeyOf(group[k], col) = key /\ \E i \in 1..Len(rs) : group[k] = rs[i]
               /\ \A i \in 1..Len(rs) : KeyOf(rs[i], col) = key =>
                      \E k \in 1..Len(group) : group[k] = rs[i]
               /\ \A k, l \in 1..Len(group) : k < l =>
                      \E i, j \in 1..Len(rs) : i < j /\ group[k] = rs[i] /\ group[l] = rs[j]
<1> DEFINE I == {i \in DOMAIN rs : KeyOf(rs[i], col) = key}
           kept == Keep(rs, I)
<1>1. DOMAIN rs = 1..Len(rs)
  BY LenProperties
<1>2. \A i : i \in I \cap (1..Len(rs)) <=> i \in 1..Len(rs) /\ KeyOf(rs[i], col) = key
  BY <1>1
<1>3. GroupOf(rs, col, key) = kept
  BY DEF GroupOf
<1> HIDE DEF I
<1>4. /\ kept \in Seq(Row) /\ Len(kept) \in Nat
      /\ \A k \in 1..Len(kept) : \E i \in I \cap (1..Len(rs)) : kept[k] = rs[i]
      /\ \A i \in I \cap (1..Len(rs)) : \E k \in 1..Len(kept) : kept[k] = rs[i]
      /\ \A k, l \in 1..Len(kept) : k < l =>
             \E i, j \in 1..Len(rs) : i < j /\ kept[k] = rs[i] /\ kept[l] = rs[j]
      /\ Distinct(kept)
  BY KeepIs
<1> HIDE DEF kept
<1>5. ASSUME NEW k \in 1..Len(kept)
      PROVE  KeyOf(kept[k], col) = key /\ \E i \in 1..Len(rs) : kept[k] = rs[i]
  <2>1. PICK i \in I \cap (1..Len(rs)) : kept[k] = rs[i]
    BY <1>4, Zenon
  <2>2. i \in 1..Len(rs) /\ KeyOf(rs[i], col) = key
    BY <1>2, Zenon
  <2> QED
    BY <2>1, <2>2
<1>6. ASSUME NEW i \in 1..Len(rs), KeyOf(rs[i], col) = key
      PROVE  \E k \in 1..Len(kept) : kept[k] = rs[i]
  <2>1. i \in I \cap (1..Len(rs))
    BY <1>2, <1>6, Zenon
  <2> QED
    BY <2>1, <1>4, Zenon
<1>7. /\ kept \in Seq(Row) /\ Len(kept) \in Nat /\ Distinct(kept)
      /\ \A k \in 1..Len(kept) :
             KeyOf(kept[k], col) = key /\ \E i \in 1..Len(rs) : kept[k] = rs[i]
      /\ \A i \in 1..Len(rs) : KeyOf(rs[i], col) = key => \E k \in 1..Len(kept) : kept[k] = rs[i]
      /\ \A k, l \in 1..Len(kept) : k < l =>
             \E i, j \in 1..Len(rs) : i < j /\ kept[k] = rs[i] /\ kept[l] = rs[j]
  BY <1>4, <1>5, <1>6
<1> QED
  BY <1>3, <1>7

\* The rows that rebuild turns into lines.
ShownOf(rs, q, col, desc) == SortRows(FilterRows(rs, q), col, desc)

\* Another order has the same elements.
LEMMA ReorderedIs ==
    ASSUME NEW S, NEW r \in Seq(S), NEW s \in Seq(S), NEW p, Reorders(s, r, p)
    PROVE  /\ Len(s) = Len(r)
           /\ Distinct(r) => Distinct(s)
           /\ \A k \in 1..Len(s) : \E i \in 1..Len(r) : s[k] = r[i]
           /\ \A i \in 1..Len(r) : \E k \in 1..Len(s) : s[k] = r[i]
<1>1. /\ p \in [1..Len(r) -> 1..Len(r)] /\ Len(s) = Len(r)
      /\ \A k, l \in 1..Len(r) : p[k] = p[l] => k = l
      /\ \A m \in 1..Len(r) : \E k \in 1..Len(r) : p[k] = m
      /\ \A k \in 1..Len(r) : s[k] = r[p[k]]
  BY DEF Reorders
<1>2. ASSUME Distinct(r), NEW k \in 1..Len(s), NEW l \in 1..Len(s), s[k] = s[l] PROVE k = l
  <2>1. p[k] \in 1..Len(r) /\ p[l] \in 1..Len(r) /\ r[p[k]] = r[p[l]]
    BY <1>1, <1>2
  <2>2. p[k] = p[l]
    BY <2>1, <1>2 DEF Distinct
  <2> QED
    BY <2>2, <1>1
<1>3. Distinct(r) => Distinct(s)
  BY <1>2 DEF Distinct
<1>4. \A k \in 1..Len(s) : \E i \in 1..Len(r) : s[k] = r[i]
  BY <1>1
<1>5. ASSUME NEW i \in 1..Len(r) PROVE \E k \in 1..Len(s) : s[k] = r[i]
  <2>1. PICK k \in 1..Len(r) : p[k] = i
    BY <1>1
  <2> QED
    BY <2>1, <1>1
<1> QED
  BY <1>1, <1>3, <1>4, <1>5

\* The rows shown are those that match, once each and sorted.
LEMMA ShownIs ==
    ASSUME NEW rs \in Seq(Row), Distinct(rs), NEW q, NEW col, NEW desc
    PROVE  LET shown == ShownOf(rs, q, col, desc)
           IN  /\ shown \in Seq(Row) /\ Distinct(shown) /\ Sorted(shown, col, desc)
               /\ \A k \in 1..Len(shown) :
                      Matches(shown[k], q) /\ \E i \in 1..Len(rs) : shown[k] = rs[i]
               /\ \A i \in 1..Len(rs) : Matches(rs[i], q) =>
                      \E k \in 1..Len(shown) : shown[k] = rs[i]
<1> DEFINE kept == FilterRows(rs, q)
           shown == SortRows(kept, col, desc)
<1>1. DOMAIN rs = 1..Len(rs)
  BY LenProperties
<1>2. /\ kept \in Seq(Row) /\ Distinct(kept)
      /\ \A k \in 1..Len(kept) : Matches(kept[k], q) /\ \E i \in 1..Len(rs) : kept[k] = rs[i]
      /\ \A i \in 1..Len(rs) : Matches(rs[i], q) => \E k \in 1..Len(kept) : kept[k] = rs[i]
  <2>1. CASE q = Blank
    <3>1. kept = rs /\ \A row : Matches(row, q)
      BY <2>1 DEF FilterRows, Matches
    <3> HIDE DEF kept
    <3> QED
      BY <3>1
  <2>2. CASE q # Blank
    <3> DEFINE I == {i \in DOMAIN rs : Matches(rs[i], q)}
    <3>1. kept = Keep(rs, I)
      BY <2>2 DEF FilterRows
    <3>2. \A i : i \in I \cap (1..Len(rs)) <=> i \in 1..Len(rs) /\ Matches(rs[i], q)
      BY <1>1
    <3> HIDE DEF I
    <3>3. /\ Keep(rs, I) \in Seq(Row)
          /\ \A k \in 1..Len(Keep(rs, I)) : \E i \in I \cap (1..Len(rs)) : Keep(rs, I)[k] = rs[i]
          /\ \A i \in I \cap (1..Len(rs)) : \E k \in 1..Len(Keep(rs, I)) : Keep(rs, I)[k] = rs[i]
          /\ Distinct(Keep(rs, I))
      BY KeepIs
    <3> HIDE DEF kept
    <3> QED
      BY <3>1, <3>2, <3>3
  <2> QED
    BY <2>1, <2>2
<1> HIDE DEF kept
<1>3. shown \in Seq(Row) /\ Sorted(shown, col, desc)
  BY <1>2, SortRowsIs
<1>4. PICK p : Reorders(shown, kept, p)
  BY <1>2, SortRowsIs
<1> HIDE DEF shown
<1>5. /\ Distinct(shown)
      /\ \A k \in 1..Len(shown) : \E i \in 1..Len(kept) : shown[k] = kept[i]
      /\ \A i \in 1..Len(kept) : \E k \in 1..Len(shown) : shown[k] = kept[i]
  BY <1>2, <1>3, <1>4, ReorderedIs
<1>6. \A k \in 1..Len(shown) : Matches(shown[k], q) /\ \E i \in 1..Len(rs) : shown[k] = rs[i]
  BY <1>2, <1>5
<1>7. \A i \in 1..Len(rs) : Matches(rs[i], q) => \E k \in 1..Len(shown) : shown[k] = rs[i]
  BY <1>2, <1>5
<1>8. ShownOf(rs, q, col, desc) = shown
  BY DEF ShownOf, shown, kept
<1> QED
  BY <1>3, <1>5, <1>6, <1>7, <1>8

-----------------------------------------------------------------------------
(* What the lines show.                                                    *)

\* The lines with a row, and the header above a line.
RowsAt(ls) == {p \in DOMAIN ls : ~ls[p].header}
HeaderAt(ls, p) == Max({h \in 1..p : ls[h].header})

\* The row on a line is one of its group's, and the header of the line is theirs.
LEMMA RowLineIs ==
    ASSUME NEW rs \in Seq(Row), NEW col, NEW folded,
           NEW ls \in Seq(AnyLine), NEW at, Laid(ls, rs, col, folded, at),
           NEW p \in RowsAt(ls)
    PROVE  \E i \in 1..Len(Keys(rs, col)) :
               LET Group == GroupOf(rs, col, Keys(rs, col)[i])
               IN  /\ Keys(rs, col)[i] \notin folded
                   /\ HeaderAt(ls, p) = at[i] + 1 /\ ls[at[i] + 1].key = Keys(rs, col)[i]
                   /\ \E k \in 1..Len(Group) :
                          p = at[i] + 1 + k /\ ls[p] = RowLine(Group[k]) /\ ls[p].row = Group[k]
<1> DEFINE keys == Keys(rs, col)
           Group(i) == GroupOf(rs, col, keys[i])
           Spread(i) == IF keys[i] \in folded THEN 0 ELSE Len(Group(i))
<1>1. /\ at \in [1..Len(keys) -> Nat]
      /\ \A i \in 1..Len(keys) : /\ at[i] + 1 + Spread(i) <= Len(ls)
                                 /\ ls[at[i] + 1] = Header(keys[i], Len(Group(i)))
      /\ \A i, j \in 1..Len(keys) : i < j => at[i] + 1 + Spread(i) <= at[j]
  BY DEF Laid
<1>2. p \in 1..Len(ls) /\ Len(ls) \in Nat /\ ~ls[p].header
  BY LenProperties DEF RowsAt
<1>3. /\ \A key, n : Header(key, n).header /\ Header(key, n).key = key
      /\ \A row : ~RowLine(row).header /\ RowLine(row).row = row
  BY DEF Header, RowLine
<1>4. PICK i \in 1..Len(keys) :
          \/ p = at[i] + 1 /\ ls[p] = Header(keys[i], Len(Group(i)))
          \/ /\ keys[i] \notin folded
             /\ \E k \in 1..Len(Group(i)) : p = at[i] + 1 + k /\ ls[p] = RowLine(Group(i)[k])
  BY <1>2, LineIs
<1> HIDE DEF keys, Group
<1>5. keys[i] \notin folded /\ \E k \in 1..Len(Group(i)) : p = at[i] + 1 + k /\ ls[p] = RowLine(Group(i)[k])
  BY <1>2, <1>3, <1>4
<1>6. PICK k \in 1..Len(Group(i)) : p = at[i] + 1 + k /\ ls[p] = RowLine(Group(i)[k])
  BY <1>5
<1>7. \A j \in 1..Len(keys) : Spread(j) \in Nat
  <2>1. \A j : Group(j) \in Seq(Row)
    BY KeepPicks DEF GroupOf, Group
  <2> QED
    BY <2>1, LenProperties
<1>8. Spread(i) = Len(Group(i))
  BY <1>5
<1> HIDE DEF Spread
<1>9. k \in 1..Spread(i) /\ at[i] \in Nat /\ Spread(i) \in Nat
  BY <1>1, <1>6, <1>7, <1>8
<1> DEFINE T == {h \in 1..p : ls[h].header}
<1>10. at[i] + 1 \in T
  <2>1. ls[at[i] + 1].header
    BY <1>1, <1>3
  <2>2. at[i] + 1 \in 1..p
    BY <1>2, <1>6, <1>9
  <2> QED
    BY <2>1, <2>2
<1>11. ASSUME NEW h \in T PROVE h <= at[i] + 1
  <2>1. h \in 1..Len(ls) /\ h <= p /\ ls[h].header
    BY <1>2
  <2>2. PICK j \in 1..Len(keys) :
          \/ h = at[j] + 1
          \/ \E m \in 1..Len(Group(j)) : ls[h] = RowLine(Group(j)[m])
    BY <2>1, LineIs DEF keys, Group
  <2>3. h = at[j] + 1 /\ at[j] \in Nat
    BY <2>1, <2>2, <1>1, <1>3
  <2>4. ~(i < j)
    <3>1. SUFFICES ASSUME i < j PROVE FALSE
      OBVIOUS
    <3>2. at[i] + 1 + Spread(i) <= at[j]
      BY <3>1, <1>1
    <3>3. p = at[i] + 1 + k /\ k <= Spread(i) /\ k \in Nat
      BY <1>6, <1>9
    <3>4. h <= p /\ h = at[j] + 1
      BY <2>1, <2>3
    <3>5. at[j] + 1 <= at[i] + 1 + Spread(i)
      BY <3>3, <3>4, <2>3, <1>9
    <3> QED
      BY <3>2, <3>5, <2>3, <1>9
  <2>5. CASE j < i
    <3>1. at[j] + 1 + Spread(j) <= at[i] /\ Spread(j) \in Nat
      BY <2>5, <1>1, <1>7
    <3> QED
      BY <3>1, <2>3, <1>9
  <2>6. CASE j = i
    <3>1. h = at[i] + 1
      BY <2>3, <2>6
    <3> QED
      BY <3>1, <1>9
  <2> QED
    BY <2>4, <2>5, <2>6
<1>12. HeaderAt(ls, p) = at[i] + 1
  <2>1. T \in SUBSET Nat /\ T # {} /\ \A h \in T : h <= p
    BY <1>2, <1>10
  <2>2. Max(T) \in T /\ \A h \in T : h <= Max(T)
    <3>1. p \in Nat
      BY <1>2
    <3> HIDE DEF T
    <3> QED
      BY <2>1, <3>1, Greatest
  <2>3. Max(T) <= at[i] + 1 /\ at[i] + 1 <= Max(T)
    BY <2>2, <1>10, <1>11
  <2>4. Max(T) \in Nat /\ at[i] + 1 \in Nat
    BY <2>1, <2>2, <1>9
  <2>5. Max(T) = at[i] + 1
    <3> HIDE DEF T
    <3> QED
      BY <2>3, <2>4
  <2> QED
    BY <2>5 DEF HeaderAt
<1>13. ls[at[i] + 1].key = keys[i] /\ ls[p].row = Group(i)[k]
  BY <1>1, <1>3, <1>6
<1> QED
  BY <1>5, <1>6, <1>12, <1>13 DEF keys, Group

\* Every row is on one line, unless its group is folded; nothing else is.
LEMMA RowsOnceInGroups ==
    ASSUME NEW rs \in Seq(Row), Distinct(rs), NEW col, NEW folded, NEW row
    PROVE  LET ls == LinesOf(rs, col, folded)
           IN  Cardinality({p \in RowsAt(ls) : ls[p].row = row})
                   = IF (\E i \in 1..Len(rs) : rs[i] = row) /\ KeyOf(row, col) \notin folded
                     THEN 1 ELSE 0
<1> DEFINE keys == Keys(rs, col)
           Group(i) == GroupOf(rs, col, keys[i])
           ls == LinesOf(rs, col, folded)
           places == {p \in RowsAt(ls) : ls[p].row = row}
<1>1. ls \in Seq(AnyLine) /\ DOMAIN ls = 1..Len(ls) /\ Len(ls) \in Nat
  BY LinesOfIs, LenProperties
<1>2. PICK at : Laid(ls, rs, col, folded, at)
  BY LinesOfIs
<1> HIDE DEF ls
<1>3. ASSUME NEW i \in 1..Len(keys)
      PROVE  /\ Group(i) \in Seq(Row) /\ Len(Group(i)) \in Nat /\ Distinct(Group(i))
             /\ \A k \in 1..Len(Group(i)) :
                    KeyOf(Group(i)[k], col) = keys[i] /\ \E m \in 1..Len(rs) : Group(i)[k] = rs[m]
             /\ \A m \in 1..Len(rs) : KeyOf(rs[m], col) = keys[i] =>
                    \E k \in 1..Len(Group(i)) : Group(i)[k] = rs[m]
  BY GroupIs
<1>4. Distinct(keys) /\ \A m \in 1..Len(rs) : \E i \in 1..Len(keys) : keys[i] = KeyOf(rs[m], col)
  BY KeysIs
<1>5. ASSUME NEW p \in places
      PROVE  \E i \in 1..Len(keys) :
                 /\ keys[i] \notin folded
                 /\ \E k \in 1..Len(Group(i)) : p = at[i] + 1 + k /\ row = Group(i)[k]
  <2>1. p \in RowsAt(ls) /\ ls[p].row = row
    OBVIOUS
  <2> HIDE DEF places
  <2>2. \E i \in 1..Len(keys) :
            /\ keys[i] \notin folded
            /\ \E k \in 1..Len(Group(i)) : p = at[i] + 1 + k /\ ls[p].row = Group(i)[k]
    <3>1. \E i \in 1..Len(keys) :
              /\ keys[i] \notin folded
              /\ HeaderAt(ls, p) = at[i] + 1 /\ ls[at[i] + 1].key = keys[i]
              /\ \E k \in 1..Len(Group(i)) :
                     p = at[i] + 1 + k /\ ls[p] = RowLine(Group(i)[k]) /\ ls[p].row = Group(i)[k]
      BY <2>1, <1>1, <1>2, RowLineIs
    <3> HIDE DEF keys, Group
    <3> QED
      BY <3>1, Zenon
  <2> QED
    BY <2>1, <2>2
<1>6. /\ at \in [1..Len(keys) -> Nat]
      /\ \A i \in 1..Len(keys) : keys[i] \notin folded =>
             /\ at[i] + 1 + Len(Group(i)) <= Len(ls)
             /\ \A k \in 1..Len(Group(i)) : ls[at[i] + 1 + k] = RowLine(Group(i)[k])
  BY <1>2 DEF Laid
<1>7. \A r : ~RowLine(r).header /\ RowLine(r).row = r
  BY DEF RowLine
<1> HIDE DEF keys, Group
<1>8. CASE (\E m \in 1..Len(rs) : rs[m] = row) /\ KeyOf(row, col) \notin folded
  <2>1. PICK m \in 1..Len(rs) : rs[m] = row
    BY <1>8
  <2>2. PICK i \in 1..Len(keys) : keys[i] = KeyOf(row, col)
    BY <2>1, <1>4
  <2>3. PICK k \in 1..Len(Group(i)) : Group(i)[k] = row
    BY <2>1, <2>2, <1>3
  <2> DEFINE p == at[i] + 1 + k
  <2>4. p \in places
    <3>1. at[i] \in Nat /\ Len(Group(i)) \in Nat /\ at[i] + 1 + Len(Group(i)) <= Len(ls)
      BY <2>2, <1>3, <1>6, <1>8
    <3>2. p \in 1..Len(ls)
      BY <3>1, <1>1
    <3>3. ls[p] = RowLine(row)
      BY <2>2, <2>3, <1>6, <1>8
    <3> HIDE DEF p
    <3> QED
      BY <3>2, <3>3, <1>1, <1>7 DEF RowsAt
  <2>5. ASSUME NEW q \in places PROVE q = p
    <3>1. PICK j \in 1..Len(keys) :
              \E l \in 1..Len(Group(j)) : q = at[j] + 1 + l /\ row = Group(j)[l]
      BY <1>5
    <3>2. PICK l \in 1..Len(Group(j)) : q = at[j] + 1 + l /\ row = Group(j)[l]
      BY <3>1
    <3>3. KeyOf(row, col) = keys[j]
      BY <3>2, <1>3
    <3>4. j = i
      BY <3>3, <2>2, <1>4 DEF Distinct
    <3>5. Distinct(Group(i)) /\ l \in 1..Len(Group(i)) /\ Group(i)[l] = Group(i)[k]
      BY <3>2, <3>4, <2>3, <1>3
    <3>6. l = k
      BY <3>5 DEF Distinct
    <3> QED
      BY <3>2, <3>4, <3>6
  <2> HIDE DEF places, p
  <2>6. places = {p}
    BY <2>4, <2>5
  <2>7. Cardinality(places) = 1
    BY <2>6, FS_Singleton
  <2> QED
    BY <2>7, <1>8 DEF places, ls
<1>9. CASE ~((\E m \in 1..Len(rs) : rs[m] = row) /\ KeyOf(row, col) \notin folded)
  <2>1. ASSUME NEW p \in places PROVE FALSE
    <3>1. PICK i \in 1..Len(keys) :
              /\ keys[i] \notin folded
              /\ \E k \in 1..Len(Group(i)) : p = at[i] + 1 + k /\ row = Group(i)[k]
      BY <1>5
    <3>2. PICK k \in 1..Len(Group(i)) : row = Group(i)[k]
      BY <3>1
    <3>3. KeyOf(row, col) = keys[i] /\ \E m \in 1..Len(rs) : row = rs[m]
      BY <3>2, <1>3
    <3> QED
      BY <3>1, <3>3, <1>9
  <2> HIDE DEF places
  <2>2. places = {}
    BY <2>1
  <2>3. Cardinality(places) = 0
    BY <2>2, FS_EmptySet
  <2> QED
    BY <2>3, <1>9 DEF places, ls
<1> QED
  BY <1>8, <1>9

\* A header counts the rows of its key.
LEMMA HeadersCount ==
    ASSUME NEW rs \in Seq(Row), Distinct(rs), NEW col, NEW folded,
           NEW h \in DOMAIN LinesOf(rs, col, folded) \ RowsAt(LinesOf(rs, col, folded))
    PROVE  LET ls == LinesOf(rs, col, folded)
           IN  ls[h].count = Cardinality({row \in ToSet(rs) : KeyOf(row, col) = ls[h].key})
<1> DEFINE keys == Keys(rs, col)
           Group(i) == GroupOf(rs, col, keys[i])
           ls == LinesOf(rs, col, folded)
<1>1. ls \in Seq(AnyLine) /\ DOMAIN ls = 1..Len(ls)
  BY LinesOfIs, LenProperties
<1>2. PICK at : Laid(ls, rs, col, folded, at)
  BY LinesOfIs
<1>3. h \in 1..Len(ls) /\ ls[h].header
  BY <1>1 DEF RowsAt
<1> HIDE DEF ls
<1>4. PICK i \in 1..Len(keys) :
          \/ ls[h] = Header(keys[i], Len(Group(i)))
          \/ \E k \in 1..Len(Group(i)) : ls[h] = RowLine(Group(i)[k])
  <2>1. \E i \in 1..Len(keys) :
            \/ h = at[i] + 1 /\ ls[h] = Header(keys[i], Len(Group(i)))
            \/ /\ keys[i] \notin folded
               /\ \E k \in 1..Len(Group(i)) : h = at[i] + 1 + k /\ ls[h] = RowLine(Group(i)[k])
    BY <1>2, <1>3, LineIs
  <2> HIDE DEF keys, Group
  <2> QED
    BY <2>1, Zenon
<1>5. /\ Group(i) \in Seq(Row) /\ Distinct(Group(i))
      /\ DOMAIN Group(i) = 1..Len(Group(i)) /\ DOMAIN rs = 1..Len(rs)
      /\ \A k \in 1..Len(Group(i)) :
             KeyOf(Group(i)[k], col) = keys[i] /\ \E m \in 1..Len(rs) : Group(i)[k] = rs[m]
      /\ \A m \in 1..Len(rs) : KeyOf(rs[m], col) = keys[i] =>
             \E k \in 1..Len(Group(i)) : Group(i)[k] = rs[m]
  BY GroupIs, LenProperties
<1> HIDE DEF keys, Group
<1>6. ls[h].key = keys[i] /\ ls[h].count = Len(Group(i))
  <2>1. \A row : ~RowLine(row).header
    BY DEF RowLine
  <2>2. ls[h] = Header(keys[i], Len(Group(i)))
    BY <1>3, <1>4, <2>1
  <2> QED
    BY <2>2 DEF Header
<1>7. ToSet(Group(i)) = {row \in ToSet(rs) : KeyOf(row, col) = keys[i]}
  <2>1. ASSUME NEW row \in ToSet(Group(i)) PROVE row \in ToSet(rs) /\ KeyOf(row, col) = keys[i]
    <3>1. PICK k \in 1..Len(Group(i)) : row = Group(i)[k]
      BY <1>5 DEF ToSet
    <3>2. KeyOf(row, col) = keys[i] /\ \E m \in 1..Len(rs) : row = rs[m]
      BY <3>1, <1>5
    <3> QED
      BY <3>2, <1>5 DEF ToSet
  <2>2. ASSUME NEW row \in ToSet(rs), KeyOf(row, col) = keys[i] PROVE row \in ToSet(Group(i))
    <3>1. PICK m \in 1..Len(rs) : row = rs[m]
      BY <1>5 DEF ToSet
    <3>2. \E k \in 1..Len(Group(i)) : Group(i)[k] = row
      BY <3>1, <2>2, <1>5
    <3> QED
      BY <3>2, <1>5 DEF ToSet
  <2> QED
    BY <2>1, <2>2
<1>8. Cardinality(ToSet(Group(i))) = Len(Group(i))
  BY <1>5, DistinctCount
<1>9. ls[h].count = Cardinality({row \in ToSet(rs) : KeyOf(row, col) = ls[h].key})
  BY <1>6, <1>7, <1>8
<1> QED
  BY <1>9 DEF ls

\* A row is under the header of its key, and two under the same header are in the
\* order they have in the table.
LEMMA RowsUnderTheirHeader ==
    ASSUME NEW rs \in Seq(Row), Distinct(rs), NEW col, NEW folded,
           NEW p \in RowsAt(LinesOf(rs, col, folded))
    PROVE  LET ls == LinesOf(rs, col, folded)
           IN  /\ ls[HeaderAt(ls, p)].key = KeyOf(ls[p].row, col)
               /\ \A q \in RowsAt(ls) : p < q /\ HeaderAt(ls, p) = HeaderAt(ls, q) =>
                      \E i, j \in 1..Len(rs) : i < j /\ ls[p].row = rs[i] /\ ls[q].row = rs[j]
<1> DEFINE keys == Keys(rs, col)
           Group(i) == GroupOf(rs, col, keys[i])
           ls == LinesOf(rs, col, folded)
<1>1. ls \in Seq(AnyLine)
  BY LinesOfIs
<1>2. PICK at : Laid(ls, rs, col, folded, at)
  BY LinesOfIs
<1> HIDE DEF ls
<1> DEFINE Under(x, i, k) == /\ HeaderAt(ls, x) = at[i] + 1 /\ ls[at[i] + 1].key = keys[i]
                             /\ x = at[i] + 1 + k /\ ls[x].row = Group(i)[k]
<1>3. ASSUME NEW x \in RowsAt(ls)
      PROVE  \E i \in 1..Len(keys) : \E k \in 1..Len(Group(i)) : Under(x, i, k)
  <2>1. PICK i \in 1..Len(keys) :
            /\ HeaderAt(ls, x) = at[i] + 1 /\ ls[at[i] + 1].key = keys[i]
            /\ \E k \in 1..Len(Group(i)) : x = at[i] + 1 + k /\ ls[x].row = Group(i)[k]
    BY <1>1, <1>2, RowLineIs
  <2> QED
    BY <2>1
<1>4. at \in [1..Len(keys) -> Nat] /\ Distinct(keys)
  BY <1>2, KeysIs DEF Laid
<1>5. ASSUME NEW i \in 1..Len(keys)
      PROVE  /\ \A k \in 1..Len(Group(i)) : KeyOf(Group(i)[k], col) = keys[i]
             /\ \A k, l \in 1..Len(Group(i)) : k < l =>
                    \E m, n \in 1..Len(rs) : m < n /\ Group(i)[k] = rs[m] /\ Group(i)[l] = rs[n]
  BY GroupIs
<1>6. p \in RowsAt(ls)
  BY DEF ls
<1> HIDE DEF keys, Group
<1>7. PICK i \in 1..Len(keys) : \E k \in 1..Len(Group(i)) : Under(p, i, k)
  BY <1>3, <1>6
<1>8. PICK k \in 1..Len(Group(i)) : Under(p, i, k)
  BY <1>7
<1>9. ls[HeaderAt(ls, p)].key = KeyOf(ls[p].row, col)
  BY <1>5, <1>8
<1>10. ASSUME NEW q \in RowsAt(ls), p < q, HeaderAt(ls, p) = HeaderAt(ls, q)
       PROVE  \E m, n \in 1..Len(rs) : m < n /\ ls[p].row = rs[m] /\ ls[q].row = rs[n]
  <2>1. PICK j \in 1..Len(keys) : \E l \in 1..Len(Group(j)) : Under(q, j, l)
    BY <1>3
  <2>2. PICK l \in 1..Len(Group(j)) : Under(q, j, l)
    BY <2>1
  <2>3. keys[i] = keys[j]
    BY <2>2, <1>8, <1>10
  <2>4. i = j
    BY <2>3, <1>4 DEF Distinct
  <2>5. at[i] \in Nat /\ p = at[i] + 1 + k /\ q = at[i] + 1 + l /\ l \in 1..Len(Group(i))
        /\ ls[p].row = Group(i)[k] /\ ls[q].row = Group(i)[l]
    BY <2>2, <2>4, <1>4, <1>8
  <2>6. k < l
    BY <2>5, <1>10
  <2>7. \E m, n \in 1..Len(rs) : m < n /\ Group(i)[k] = rs[m] /\ Group(i)[l] = rs[n]
    BY <2>5, <2>6, <1>5
  <2> QED
    BY <2>5, <2>7
<1> QED
  BY <1>9, <1>10 DEF ls

-----------------------------------------------------------------------------
(* The table of a run.                                                     *)

\* The rows of one result.
LEMMA RowsOfIs ==
    ASSUME NEW target \in DOMAIN NameCell, NEW dry \in BOOLEAN, NEW res \in OutputOf(target, dry),
           NEW parse, NEW os, os = <<>> \/ os \in [DOMAIN NameCell -> Cell]
    PROVE  /\ RowsOf(res, parse, os) \in Seq(Row)
           /\ \A k \in 1..Len(RowsOf(res, parse, os)) :
                  RowsOf(res, parse, os)[k].of = <<target, k>>
<1> DEFINE Rec == UNION {[some -> Cell] : some \in SUBSET (Column \cup {OutputCol})}
           recs == ParseRecords(res, parse).recs
           out == RowsOf(res, parse, os)
<1>1. /\ res.target = target /\ {res.exit, res.text} \subseteq Cell /\ NameCell[target] \in Cell
      /\ res.recs \in Seq(UNION {[some -> Cell] : some \in SUBSET Column})
  BY OutputAssumption
<1>2. recs \in Seq(Rec)
  <2>1. [col \in {OutputCol} |-> res.text] \in Rec
    <3>1. [col \in {OutputCol} |-> res.text] \in [{OutputCol} -> Cell]
      BY <1>1
    <3>2. {OutputCol} \in SUBSET (Column \cup {OutputCol})
      OBVIOUS
    <3> QED
      BY <3>1, <3>2
  <2>2. UNION {[some -> Cell] : some \in SUBSET Column} \subseteq Rec
    OBVIOUS
  <2> HIDE DEF Rec
  <2>3. <<[col \in {OutputCol} |-> res.text]>> \in Seq(Rec)
    BY <2>1
  <2>4. res.recs \in Seq(Rec)
    BY <1>1, <2>2, SeqMonotonic
  <2> QED
    BY <2>3, <2>4 DEF ParseRecords
<1> HIDE DEF recs
<1>3. Len(recs) \in Nat /\ DOMAIN recs = 1..Len(recs) /\ \A k \in 1..Len(recs) : recs[k] \in Rec
  BY <1>2, LenProperties
<1>4. out = [k \in 1..Len(recs) |-> [of |-> <<target, k>>, cells |-> CellsOf(res, recs[k], os)]]
  BY <1>1, <1>3 DEF RowsOf, recs
<1>5. ASSUME NEW rec \in Rec
      PROVE  CellsOf(res, rec, os) \in AnyCells
  <2> DEFINE some == {Target, Exit} \cup (IF os = <<>> THEN {} ELSE {OSCol}) \cup DOMAIN rec
  <2>1. PICK own \in SUBSET (Column \cup {OutputCol}) : rec \in [own -> Cell]
    OBVIOUS
  <2>2. some \in SUBSET AnyColumn
    BY <2>1 DEF AnyColumn
  <2>3. ASSUME NEW col \in some
        PROVE  (CASE col \in DOMAIN rec -> rec[col]
                  [] col \notin DOMAIN rec /\ col = Target -> NameCell[res.target]
                  [] col \notin DOMAIN rec /\ col = Exit -> res.exit
                  [] OTHER -> os[res.target]) \in Cell
    <3>1. CASE col \in DOMAIN rec
      BY <2>1, <3>1
    <3>2. CASE col \notin DOMAIN rec /\ col = Target
      BY <3>2, <1>1 DEF Target, Exit
    <3>3. CASE col \notin DOMAIN rec /\ col = Exit
      BY <3>3, <1>1 DEF Target, Exit
    <3>4. CASE col \notin DOMAIN rec /\ col # Target /\ col # Exit
      <4>1. os # <<>>
        BY <3>4
      <4>2. os[res.target] \in Cell
        BY <4>1, <1>1
      <4> QED
        BY <3>4, <4>2
    <3> QED
      BY <3>1, <3>2, <3>3, <3>4
  <2>4. CellsOf(res, rec, os) \in [some -> Cell]
    BY <2>3 DEF CellsOf
  <2> QED
    BY <2>2, <2>4 DEF AnyCells
<1>6. \A k \in 1..Len(recs) :
          [of |-> <<target, k>>, cells |-> CellsOf(res, recs[k], os)] \in Row
  <2>1. ASSUME NEW k \in 1..Len(recs)
        PROVE  <<target, k>> \in (DOMAIN NameCell) \X Nat /\ CellsOf(res, recs[k], os) \in AnyCells
    <3>1. recs[k] \in Rec /\ k \in Nat
      BY <1>3
    <3> HIDE DEF Rec
    <3>2. CellsOf(res, recs[k], os) \in AnyCells
      BY <3>1, <1>5, Zenon
    <3>3. <<target, k>> \in (DOMAIN NameCell) \X Nat
      BY <3>1
    <3> QED
      BY <3>2, <3>3
  <2> QED
    BY <2>1 DEF Row
<1> HIDE DEF Rec, out
<1>7. out \in [1..Len(recs) -> Row]
  BY <1>4, <1>6
<1>8. out \in Seq(Row) /\ Len(out) = Len(recs)
  <2>1. out \in Seq(Row)
    BY <1>3, <1>7, SeqDef
  <2> QED
    BY <1>3, <1>7, <2>1, LenProperties
<1>9. \A k \in 1..Len(out) : out[k].of = <<target, k>>
  BY <1>4, <1>8
<1> QED
  BY <1>8, <1>9 DEF out

\* No two rows of a run's table are the same, for no two targets are.
LEMMA TableRowsIs ==
    ASSUME NEW targets \in Seq(DOMAIN NameCell), Distinct(targets), NEW dry \in BOOLEAN,
           NEW rs \in Results(targets, dry),
           NEW parse, NEW os, os = <<>> \/ os \in [DOMAIN NameCell -> Cell]
    PROVE  TableRows(rs, parse, os) \in Seq(Row) /\ Distinct(TableRows(rs, parse, os))
<1> DEFINE ss == [i \in DOMAIN rs |-> RowsOf(rs[i], parse, os)]
           out == TableRows(rs, parse, os)
<1>1. Len(targets) \in Nat /\ DOMAIN targets = 1..Len(targets)
      /\ \A i \in 1..Len(targets) : targets[i] \in DOMAIN NameCell
  BY LenProperties
<1>2. DOMAIN rs = 1..Len(targets) /\ \A i \in 1..Len(targets) : rs[i] \in OutputOf(targets[i], dry)
  BY <1>1 DEF Results
<1>3. \A i \in 1..Len(targets) :
          /\ ss[i] \in Seq(Row)
          /\ \A k \in 1..Len(ss[i]) : ss[i][k].of = <<targets[i], k>>
  BY <1>1, <1>2, RowsOfIs
<1>4. ss \in Seq(Seq(Row)) /\ Len(ss) = Len(targets)
  <2>1. ss = [i \in 1..Len(targets) |-> ss[i]]
    BY <1>2
  <2> HIDE DEF ss
  <2>2. ss \in [1..Len(targets) -> Seq(Row)]
    BY <2>1, <1>3
  <2>3. ss \in Seq(Seq(Row))
    BY <1>1, <2>2, SeqDef
  <2> QED
    BY <1>1, <2>2, <2>3, LenProperties
<1>5. out = FlattenSeq(ss)
  BY DEF TableRows
<1> HIDE DEF ss, out
<1>6. out \in Seq(Row)
  BY <1>4, <1>5, FlattenJoins
<1>7. PICK at : Joins(ss, Len(ss), out, at)
  BY <1>4, <1>5, FlattenJoins
<1>8. ASSUME NEW p \in 1..Len(out)
      PROVE  \E i \in 1..Len(targets) : \E k \in 1..Len(ss[i]) :
                 p = at[i] + k /\ out[p].of = <<targets[i], k>>
  <2>1. PICK i \in 1..Len(targets) : \E k \in 1..Len(ss[i]) : p = at[i] + k
    BY <1>4, <1>7 DEF Joins
  <2>2. PICK k \in 1..Len(ss[i]) : p = at[i] + k
    BY <2>1
  <2>3. out[p] = ss[i][k]
    BY <2>2, <1>4, <1>7 DEF Joins
  <2>4. out[p].of = <<targets[i], k>>
    BY <2>3, <1>3
  <2> QED
    BY <2>2, <2>4
<1>9. ASSUME NEW p \in 1..Len(out), NEW q \in 1..Len(out), out[p] = out[q] PROVE p = q
  <2>1. PICK i \in 1..Len(targets) : \E k \in 1..Len(ss[i]) :
                 p = at[i] + k /\ out[p].of = <<targets[i], k>>
    BY <1>8
  <2>2. PICK k \in 1..Len(ss[i]) : p = at[i] + k /\ out[p].of = <<targets[i], k>>
    BY <2>1
  <2>3. PICK j \in 1..Len(targets) : \E l \in 1..Len(ss[j]) :
                 q = at[j] + l /\ out[q].of = <<targets[j], l>>
    BY <1>8
  <2>4. PICK l \in 1..Len(ss[j]) : q = at[j] + l /\ out[q].of = <<targets[j], l>>
    BY <2>3
  <2>5. targets[i] = targets[j] /\ k = l
    BY <2>2, <2>4, <1>9
  <2>6. i = j
    BY <2>5 DEF Distinct
  <2> QED
    BY <2>2, <2>4, <2>5, <2>6
<1>10. Distinct(out)
  BY <1>9 DEF Distinct
<1> QED
  BY <1>6, <1>10 DEF out

-----------------------------------------------------------------------------
(* The view.                                                               *)

\* Of two numbers.
LEMMA MaxOfTwo ==
    ASSUME NEW a \in Int, NEW b \in Int PROVE Max({a, b}) = IF a >= b THEN a ELSE b
BY DEF Max

LEMMA MinOfTwo ==
    ASSUME NEW a \in Int, NEW b \in Int PROVE Min({a, b}) = IF a <= b THEN a ELSE b
BY DEF Min

\* The window has three lines or more.
LEMMA BodyIs == ASSUME NEW h \in Nat PROVE BodyHeight(h) \in Nat /\ BodyHeight(h) >= 3
<1>1. Max({3, h - 4}) = IF 3 >= h - 4 THEN 3 ELSE h - 4
  BY MaxOfTwo
<1> QED
  BY <1>1 DEF BodyHeight

\* The window scrolls to the cursor.
LEMMA ScrollIs ==
    ASSUME NEW cur \in Nat, NEW off \in Nat, NEW h \in Nat
    PROVE  /\ ClampScroll(cur, off, h) \in Nat
           /\ cur - ClampScroll(cur, off, h) \in 0..(BodyHeight(h) - 1)
           /\ cur = 0 => ClampScroll(cur, off, h) = 0
<1> DEFINE body == BodyHeight(h)
<1>1. body \in Nat /\ body >= 3
  BY BodyIs
<1> HIDE DEF body
<1>2. ClampScroll(cur, off, h) =
          LET up == IF cur < off THEN cur ELSE off
          IN  IF cur >= up + body THEN cur - body + 1 ELSE up
  BY DEF ClampScroll, body
<1>3. /\ ClampScroll(cur, off, h) \in Nat
      /\ cur - ClampScroll(cur, off, h) \in 0..(body - 1)
      /\ cur = 0 => ClampScroll(cur, off, h) = 0
  BY <1>1, <1>2
<1> QED
  BY <1>3 DEF body

\* The cursor is put on one of n lines.
LEMMA ClampIs ==
    ASSUME NEW at \in Nat, NEW n \in Nat
    PROVE  Clamp(at, n) \in Nat /\ (n = 0 => Clamp(at, n) = 0) /\ (n # 0 => Clamp(at, n) <= n - 1)
<1>1. Max({0, n - 1}) = IF 0 >= n - 1 THEN 0 ELSE n - 1
  BY MaxOfTwo
<1> QED
  BY <1>1 DEF Clamp

\* A cursor put on a line is in view.
LEMMA PointIs ==
    ASSUME lines' \in Seq(AnyLine), height' \in Nat, NEW cur \in Nat, NEW off \in Nat,
           lines' = <<>> => cur = 0, lines' # <<>> => cur <= Len(lines') - 1,
           Point(cur, off)
    PROVE  cursor' \in Nat /\ offset' \in Nat /\ CursorInView'
<1>1. cursor' = cur /\ offset' = ClampScroll(cur, off, height')
  BY DEF Point
<1>2. /\ offset' \in Nat /\ cur - offset' \in 0..(BodyHeight(height') - 1)
      /\ cur = 0 => offset' = 0
  BY <1>1, ScrollIs
<1>3. Len(lines') \in Nat
  BY LenProperties
<1> QED
  BY <1>1, <1>2, <1>3 DEF CursorInView

\* What the lines are of the rows there are.
LinesFor(shown, group, col, folded) ==
    IF group = NoGroup THEN RowLines(shown) ELSE LinesOf(shown, col, folded)
\* The lines as the table, the order, the groups and the filter have them.
Current ==
    LinesFor(ShownOf(rows, query, cols[sortCol], sortDesc), groupCol, cols[groupCol], collapsed)

\* An order of an order is one.
LEMMA ReordersTwice ==
    ASSUME NEW r, NEW s, NEW t, NEW p, NEW q, Reorders(s, r, p), Reorders(t, s, q)
    PROVE  Reorders(t, r, [k \in 1..Len(r) |-> p[q[k]]])
<1> DEFINE n == Len(r)
           o == [k \in 1..n |-> p[q[k]]]
<1>1. /\ p \in [1..n -> 1..n] /\ q \in [1..n -> 1..n] /\ Len(s) = n /\ Len(t) = n
      /\ \A k, l \in 1..n : (p[k] = p[l] => k = l) /\ (q[k] = q[l] => k = l)
      /\ \A m \in 1..n : (\E k \in 1..n : p[k] = m) /\ \E k \in 1..n : q[k] = m
      /\ \A k \in 1..n : s[k] = r[p[k]] /\ t[k] = s[q[k]]
  BY DEF Reorders
<1> HIDE DEF n
<1>2. o \in [1..n -> 1..n] /\ \A k \in 1..n : o[k] = p[q[k]] /\ q[k] \in 1..n
  BY <1>1
<1> HIDE DEF o
<1>3. ASSUME NEW k \in 1..n, NEW l \in 1..n, o[k] = o[l] PROVE k = l
  <2>1. p[q[k]] = p[q[l]] /\ q[k] \in 1..n /\ q[l] \in 1..n
    BY <1>2, <1>3
  <2>2. q[k] = q[l]
    BY <2>1, <1>1
  <2> QED
    BY <2>2, <1>1
<1>4. ASSUME NEW m \in 1..n PROVE \E k \in 1..n : o[k] = m
  <2>1. PICK l \in 1..n : p[l] = m
    BY <1>1
  <2>2. PICK k \in 1..n : q[k] = l
    BY <1>1
  <2> QED
    BY <2>1, <2>2, <1>2
<1>5. ASSUME NEW k \in 1..n PROVE t[k] = r[o[k]]
  <2>1. q[k] \in 1..n /\ o[k] = p[q[k]]
    BY <1>2
  <2>2. t[k] = s[q[k]] /\ s[q[k]] = r[p[q[k]]]
    BY <2>1, <1>1
  <2> QED
    BY <2>1, <2>2
<1>6. Reorders(t, r, o)
  BY <1>1, <1>2, <1>3, <1>4, <1>5 DEF Reorders, n
<1> QED
  BY <1>6 DEF o, n

\* A sequence is one of its own.
LEMMA ReordersSelf ==
    ASSUME NEW S, NEW r \in Seq(S) PROVE Reorders(r, r, [k \in 1..Len(r) |-> k])
BY DEF Reorders

\* The first half of rebuild: the rows are those there were, and the lines are theirs.
LEMMA LinesForIs ==
    ASSUME NEW shown \in Seq(Row), NEW group, NEW col, NEW folded
    PROVE  LinesFor(shown, group, col, folded) \in Seq(AnyLine)
BY RowLinesIs, LinesOfIs DEF LinesFor

\* rebuild sorts what it is given, and shows it.
LEMMA RelineIs ==
    ASSUME NEW rs \in Seq(Row), Distinct(rs), Reline(rs)
    PROVE  /\ rows' \in Seq(Row) /\ \E p : Reorders(rows', rs, p)
           /\ lines' \in Seq(AnyLine) /\ lines' = Current'
<1> DEFINE q == query'
           col == cols'[sortCol']
           desc == sortDesc'
           group == groupCol'
           by == cols'[groupCol']
           folded == collapsed'
           shown == ShownOf(rs, q, col, desc)
<1>1. /\ rows' = IF q = Blank THEN shown ELSE rs
      /\ lines' = LinesFor(shown, group, by, folded)
  BY DEF Reline, ShownOf, LinesFor
<1>2. Current' = LinesFor(ShownOf(rows', q, col, desc), group, by, folded)
  BY DEF Current
<1> HIDE DEF q, col, desc, group, by, folded
<1>3. shown \in Seq(Row)
  BY ShownIs
<1>4. lines' \in Seq(AnyLine)
  BY <1>1, <1>3, LinesForIs
<1>5. CASE q = Blank
  <2>1. /\ \A r : FilterRows(r, q) = r
    BY <1>5 DEF FilterRows
  <2>2. shown = SortRows(rs, col, desc) /\ ShownOf(rows', q, col, desc) = SortRows(shown, col, desc)
    BY <1>1, <1>5, <2>1 DEF ShownOf
  <2>3. Sorted(shown, col, desc) /\ \E p : Reorders(shown, rs, p)
    BY <2>2, SortRowsIs
  <2> HIDE DEF shown
  <2>4. SortRows(shown, col, desc) = shown
    BY <1>3, <2>3, SortRowsIs
  <2> QED
    BY <1>1, <1>2, <1>3, <1>4, <1>5, <2>2, <2>3, <2>4
<1>6. CASE q # Blank
  <2>1. rows' = rs
    BY <1>1, <1>6
  <2>2. \E p : Reorders(rs, rs, p)
    BY ReordersSelf
  <2> QED
    BY <1>1, <1>2, <1>4, <2>1, <2>2
<1> QED
  BY <1>5, <1>6

\* The rows are those of the run in some order, each once, the lines are theirs, and
\* the cursor is on one of them.
Tabled ==
    /\ built \in Seq(Row) /\ Distinct(built) /\ rows \in Seq(Row)
    /\ \E p : Reorders(rows, built, p)
    /\ lines = Current
\* The view: the cursor is on a line and in the window, and once the results are in,
\* the rows are those of the run and the lines what they should be.
GatherInv ==
    /\ cursor \in Nat /\ offset \in Nat /\ height \in Nat
    /\ lines \in Seq(AnyLine) /\ CursorInView
    /\ loaded => Tabled

\* No row is there twice.
LEMMA RowsDistinct == ASSUME Tabled PROVE Distinct(rows)
BY ReorderedIs DEF Tabled

\* rebuild keeps that, from any rows that are those of the run.
LEMMA RebuildHolds ==
    ASSUME GatherInv, NEW rs \in Seq(Row), Distinct(rs), Rebuild(rs), height' \in Nat,
           built' \in Seq(Row), Distinct(built'), NEW p, Reorders(rs, built', p)
    PROVE  GatherInv'
<1>1. Reline(rs) /\ Point(Clamp(cursor, Len(lines')), offset)
  BY DEF Rebuild
<1>2. /\ rows' \in Seq(Row) /\ \E q : Reorders(rows', rs, q)
      /\ lines' \in Seq(AnyLine) /\ lines' = Current'
  BY <1>1, RelineIs
<1>3. PICK q : Reorders(rows', rs, q)
  BY <1>2
<1>4. \E o : Reorders(rows', built', o)
  BY <1>3, ReordersTwice
<1>5. Tabled'
  BY <1>2, <1>4 DEF Tabled
<1>6. cursor' \in Nat /\ offset' \in Nat /\ CursorInView'
  <2> DEFINE at == Clamp(cursor, Len(lines'))
  <2>1. Len(lines') \in Nat /\ (Len(lines') = 0 <=> lines' = <<>>)
    BY <1>2, EmptySeq, LenProperties
  <2>2. cursor \in Nat /\ offset \in Nat
    BY DEF GatherInv
  <2>3. at \in Nat /\ (lines' = <<>> => at = 0) /\ (lines' # <<>> => at <= Len(lines') - 1)
    BY <2>1, <2>2, ClampIs
  <2>4. Point(at, offset)
    BY <1>1
  <2> HIDE DEF at
  <2> QED
    BY <1>2, <2>2, <2>3, <2>4, PointIs
<1> QED
  BY <1>2, <1>5, <1>6 DEF GatherInv

\* A group that has a header has it whatever is folded.
LEMMA HeaderStays ==
    ASSUME NEW rs \in Seq(Row), NEW col, NEW folded, NEW other,
           NEW h \in DOMAIN LinesOf(rs, col, folded), LinesOf(rs, col, folded)[h].header
    PROVE  /\ LinesOf(rs, col, folded)[h].key \in Cell
           /\ \E i \in DOMAIN LinesOf(rs, col, other) :
                  /\ LinesOf(rs, col, other)[i].header
                  /\ LinesOf(rs, col, other)[i].key = LinesOf(rs, col, folded)[h].key
<1> DEFINE keys == Keys(rs, col)
           size(i) == Len(GroupOf(rs, col, keys[i]))
           ls == LinesOf(rs, col, folded)
           ms == LinesOf(rs, col, other)
<1>1. /\ DOMAIN ls = 1..Len(ls) /\ DOMAIN ms = 1..Len(ms) /\ Len(ms) \in Nat
      /\ \A i \in 1..Len(keys) : keys[i] \in Cell
  BY LinesOfIs, KeysIs, LenProperties
<1>2. PICK at : Laid(ls, rs, col, folded, at)
  BY LinesOfIs
<1>3. PICK to : Laid(ms, rs, col, other, to)
  BY LinesOfIs
<1>4. \A key, n : Header(key, n).header /\ Header(key, n).key = key
  BY DEF Header
<1>5. \A row : ~RowLine(row).header
  BY DEF RowLine
<1>6. h \in 1..Len(ls) /\ ls[h].header
  BY <1>1
<1> HIDE DEF ls, ms
<1>7. PICK i \in 1..Len(keys) :
          \/ h = at[i] + 1 /\ ls[h] = Header(keys[i], size(i))
          \/ \E row : ls[h] = RowLine(row)
  <2>1. PICK i \in 1..Len(keys) :
            \/ h = at[i] + 1 /\ ls[h] = Header(keys[i], size(i))
            \/ /\ keys[i] \notin folded
               /\ \E k \in 1..size(i) :
                      h = at[i] + 1 + k /\ ls[h] = RowLine(GroupOf(rs, col, keys[i])[k])
    BY <1>2, <1>6, LineIs
  <2> HIDE DEF keys, size
  <2> QED
    BY <2>1, Zenon
<1>8. ls[h].key = keys[i]
  BY <1>4, <1>5, <1>6, <1>7
<1>9. to[i] + 1 \in 1..Len(ms) /\ ms[to[i] + 1] = Header(keys[i], size(i))
  <2> DEFINE spread == IF keys[i] \in other THEN 0 ELSE size(i)
  <2>1. to[i] \in Nat /\ to[i] + 1 + spread <= Len(ms) /\ ms[to[i] + 1] = Header(keys[i], size(i))
    BY <1>3 DEF Laid
  <2>2. spread \in Nat
    <3>1. GroupOf(rs, col, keys[i]) \in Seq(Row)
      BY KeepPicks DEF GroupOf
    <3> QED
      BY <3>1, LenProperties
  <2> HIDE DEF spread, keys, size
  <2> QED
    BY <1>1, <2>1, <2>2
<1>10. ls[h].key \in Cell /\ \E m \in DOMAIN ms : ms[m].header /\ ms[m].key = ls[h].key
  BY <1>1, <1>4, <1>8, <1>9
<1> QED
  BY <1>10 DEF ls, ms

\* What ToggleAnchors says of a step.
Anchored ==
    \E key \in Cell :
        /\ collapsed' = Flip(key)
        /\ lines[Max(HeadersAbove)].key = key
        /\ lines'[cursor' + 1].header /\ lines'[cursor' + 1].key = key
        /\ HeadersIn(lines') = HeadersIn(lines)

\* A fold leaves the cursor on its header, and the other headers alone.
LEMMA ToggleHolds ==
    ASSUME GatherInv, ToggleGroup
    PROVE  GatherInv' /\ Anchored
<1> DEFINE shown == ShownOf(rows, query, cols[sortCol], sortDesc)
           by == cols[groupCol]
           at == Max(HeadersAbove)
           found == CHOOSE i \in DOMAIN lines' : lines'[i].header /\ lines'[i].key = lines[at].key
           off == ClampScroll(Clamp(at - 1, Len(lines')), offset, height)
<1>1. Tabled /\ groupCol # NoGroup /\ HeadersAbove # {}
  BY DEF GatherInv, ToggleGroup, Browsing, Listening
<1>2. /\ collapsed' = Flip(lines[at].key)
      /\ Reline(rows) /\ Point(found - 1, off)
      /\ UNCHANGED <<built, cols, loaded, height, sortCol, sortDesc, groupCol, query>>
  BY DEF ToggleGroup
<1>3. rows \in Seq(Row) /\ Distinct(rows)
  BY <1>1, RowsDistinct DEF Tabled
<1>4. shown \in Seq(Row)
  BY <1>3, ShownIs
<1>5. lines = LinesOf(shown, by, collapsed)
  BY <1>1 DEF Tabled, Current, LinesFor
<1>6. lines' = LinesOf(shown, by, collapsed')
  BY <1>1, <1>2 DEF Reline, ShownOf
<1> HIDE DEF shown, by
<1>7. /\ cursor \in Nat /\ offset \in Nat /\ height \in Nat
      /\ lines \in Seq(AnyLine) /\ DOMAIN lines = 1..Len(lines)
  BY LenProperties DEF GatherInv
<1>8. at \in HeadersAbove
  <2>1. HeadersAbove \in SUBSET Nat /\ cursor + 1 \in Nat /\ \A h \in HeadersAbove : h <= cursor + 1
    BY <1>7 DEF HeadersAbove
  <2> QED
    BY <1>1, <2>1, Greatest
<1>9. at \in 1..(cursor + 1) /\ at \in DOMAIN lines /\ lines[at].header
  BY <1>8 DEF HeadersAbove
<1> HIDE DEF at
<1>10. /\ lines[at].key \in Cell
       /\ \E i \in DOMAIN lines' : lines'[i].header /\ lines'[i].key = lines[at].key
  <2> DEFINE other == collapsed'
             ls == LinesOf(shown, by, collapsed)
             ms == LinesOf(shown, by, other)
  <2>1. lines = ls /\ lines' = ms
    BY <1>5, <1>6
  <2>2. at \in DOMAIN ls /\ ls[at].header
    BY <1>9, <2>1
  <2> HIDE DEF other
  <2>3. ls[at].key \in Cell /\ \E i \in DOMAIN ms : ms[i].header /\ ms[i].key = ls[at].key
    BY <1>4, <2>2, HeaderStays
  <2> HIDE DEF ls, ms
  <2> QED
    BY <2>1, <2>3
<1>11. found \in DOMAIN lines' /\ lines'[found].header /\ lines'[found].key = lines[at].key
  BY <1>10
<1> HIDE DEF found
<1>12. /\ rows' \in Seq(Row) /\ \E q : Reorders(rows', rows, q)
       /\ lines' \in Seq(AnyLine) /\ lines' = Current'
  BY <1>2, <1>3, RelineIs
<1>13. Tabled'
  <2>1. PICK p : Reorders(rows, built, p)
    BY <1>1 DEF Tabled
  <2>2. PICK q : Reorders(rows', rows, q)
    BY <1>12
  <2>3. \E o : Reorders(rows', built, o)
    BY <2>1, <2>2, ReordersTwice
  <2>4. built' = built /\ built \in Seq(Row) /\ Distinct(built)
    BY <1>1, <1>2 DEF Tabled
  <2> QED
    BY <1>12, <2>3, <2>4 DEF Tabled
<1>14. /\ Len(lines') \in Nat /\ DOMAIN lines' = 1..Len(lines') /\ found \in 1..Len(lines')
       /\ lines' # <<>>
  <2>1. Len(lines') \in Nat /\ DOMAIN lines' = 1..Len(lines')
    BY <1>12, LenProperties
  <2> QED
    BY <1>11, <1>12, <2>1, EmptySeq
<1>15. off \in Nat
  <2>1. at - 1 \in Nat
    BY <1>7, <1>9
  <2>2. Clamp(at - 1, Len(lines')) \in Nat
    BY <1>14, <2>1, ClampIs
  <2> QED
    BY <1>7, <2>2, ScrollIs
<1> HIDE DEF off
<1>16. found - 1 \in Nat /\ found - 1 <= Len(lines') - 1 /\ (found - 1) + 1 = found
  BY <1>14
<1>17. cursor' \in Nat /\ offset' \in Nat /\ CursorInView' /\ height' \in Nat
  <2>1. height' \in Nat
    BY <1>2, <1>7
  <2> DEFINE cur == found - 1
  <2>2. cur \in Nat /\ (lines' = <<>> => cur = 0) /\ (lines' # <<>> => cur <= Len(lines') - 1)
    BY <1>14, <1>16
  <2>3. Point(cur, off)
    BY <1>2
  <2> HIDE DEF cur
  <2> QED
    BY <1>12, <1>15, <2>1, <2>2, <2>3, PointIs
<1>18. GatherInv'
  BY <1>12, <1>13, <1>17 DEF GatherInv
<1>19. cursor' + 1 = found
  BY <1>2, <1>16 DEF Point
<1>20. HeadersIn(lines') = HeadersIn(lines)
  BY <1>4, <1>5, <1>6, HeadersAreKeys
<1>21. Anchored
  BY <1>2, <1>10, <1>11, <1>19, <1>20 DEF Anchored, at
<1> QED
  BY <1>18, <1>21

\* Steps that leave the lines alone, or there are none.
LEMMA PlaceHolds ==
    ASSUME GatherInv, Resize \/ Quit \/ FilterMode \/ Home
                      \/ \E delta \in {-1, 1, -BodyHeight(height), BodyHeight(height), Len(lines)} :
                             Move(delta)
    PROVE  GatherInv'
<1>1. /\ cursor \in Nat /\ offset \in Nat /\ height \in Nat /\ lines \in Seq(AnyLine)
      /\ CursorInView /\ (loaded => Tabled)
      /\ Len(lines) \in Nat /\ (Len(lines) = 0 <=> lines = <<>>)
  BY EmptySeq, LenProperties DEF GatherInv
<1>2. ASSUME UNCHANGED <<table, view, lines>> PROVE (loaded => Tabled)' /\ lines' \in Seq(AnyLine)
  BY <1>1, <1>2 DEF table, view, Tabled, Current
<1>3. lines # <<>> => cursor <= Len(lines) - 1
  BY <1>1 DEF CursorInView
<1>4. lines = <<>> => cursor = 0
  BY <1>1 DEF CursorInView
<1>5. CASE Resize
  <2>1. /\ UNCHANGED <<table, view, lines>> /\ height' \in Nat /\ Point(cursor, offset)
    BY <1>5, CellAssumption DEF Resize
  <2>2. lines' = lines
    BY <2>1
  <2>3. cursor' \in Nat /\ offset' \in Nat /\ CursorInView'
    BY <1>1, <1>3, <1>4, <2>1, <2>2, PointIs
  <2> QED
    BY <1>2, <2>1, <2>3 DEF GatherInv
<1>6. CASE Quit
  <2>1. cursor' = 0 /\ offset' = 0 /\ height' = 24 /\ lines' = <<>> /\ loaded' = FALSE
    BY <1>6 DEF Quit
  <2> QED
    BY <2>1 DEF GatherInv, CursorInView
<1>7. CASE FilterMode
  <2>1. UNCHANGED <<lines, cursor, offset, height, built, cols, rows, loaded,
                    sortCol, sortDesc, groupCol, collapsed, query>>
    BY <1>7 DEF FilterMode, table, place
  <2> QED
    BY <1>1, <2>1 DEF GatherInv, CursorInView, Tabled, Current
<1>8. CASE Home
  <2>1. UNCHANGED <<table, view, lines>> /\ cursor' = 0 /\ offset' = 0 /\ height' = height
    BY <1>8 DEF Home
  <2>2. BodyHeight(height) \in Nat /\ BodyHeight(height) >= 3
    BY <1>1, BodyIs
  <2>3. CursorInView'
    BY <1>1, <2>1, <2>2 DEF CursorInView
  <2> QED
    BY <1>1, <1>2, <2>1, <2>3 DEF GatherInv
<1>9. ASSUME NEW delta \in {-1, 1, -BodyHeight(height), BodyHeight(height), Len(lines)}, Move(delta)
      PROVE  GatherInv'
  <2> DEFINE cur == Min({Max({cursor + delta, 0}), Len(lines) - 1})
  <2>1. UNCHANGED <<table, view, lines>> /\ height' = height /\ lines # <<>> /\ Point(cur, offset)
    BY <1>9 DEF Move
  <2>2. delta \in Int
    BY <1>1, BodyIs
  <2>3. Max({cursor + delta, 0}) = IF cursor + delta >= 0 THEN cursor + delta ELSE 0
    BY <1>1, <2>2, MaxOfTwo
  <2>4. Max({cursor + delta, 0}) \in Nat
    BY <1>1, <2>2, <2>3
  <2>5. cur = IF Max({cursor + delta, 0}) <= Len(lines) - 1 THEN Max({cursor + delta, 0})
                                                            ELSE Len(lines) - 1
    <3> DEFINE m == Max({cursor + delta, 0})
               l == Len(lines) - 1
    <3>1. m \in Int /\ l \in Int
      BY <1>1, <2>4
    <3> HIDE DEF m, l
    <3>2. Min({m, l}) = IF m <= l THEN m ELSE l
      BY <3>1, MinOfTwo
    <3> QED
      BY <3>2 DEF m, l
  <2>6. cur \in Nat /\ cur <= Len(lines) - 1
    <3> HIDE DEF cur
    <3> QED
      BY <1>1, <2>1, <2>4, <2>5
  <2> HIDE DEF cur
  <2>7. lines' = lines /\ height' \in Nat
    BY <1>1, <2>1
  <2>8. cursor' \in Nat /\ offset' \in Nat /\ CursorInView'
    BY <1>1, <2>1, <2>6, <2>7, PointIs
  <2> QED
    BY <1>2, <2>1, <2>7, <2>8 DEF GatherInv
<1> QED
  BY <1>5, <1>6, <1>7, <1>8, <1>9

\* Every step of the view keeps the invariant, and folds as it should.
LEMMA ViewHolds ==
    ASSUME GatherInv, ViewStep
    PROVE  GatherInv' /\ (collapsed' # collapsed /\ screen' = "gather" => Anchored)
<1>1. CASE FilterKey \/ SortNext \/ SortFlip \/ GroupNext
  <2>1. /\ loaded /\ Rebuild(rows) /\ built' = built /\ height' = height /\ collapsed' = collapsed
    BY <1>1 DEF FilterKey, SortNext, SortFlip, GroupNext, Browsing, Listening
  <2>2. Tabled /\ height \in Nat
    BY <2>1 DEF GatherInv
  <2>3. rows \in Seq(Row) /\ Distinct(rows) /\ built' \in Seq(Row) /\ Distinct(built')
        /\ \E p : Reorders(rows, built', p)
    BY <2>1, <2>2, RowsDistinct DEF Tabled
  <2> QED
    BY <2>1, <2>2, <2>3, RebuildHolds
<1>2. CASE Resize \/ Quit \/ FilterMode \/ Home
           \/ \E delta \in {-1, 1, -BodyHeight(height), BodyHeight(height), Len(lines)} : Move(delta)
  <2>1. screen' = "gather" => collapsed' = collapsed
    BY <1>2 DEF Resize, Quit, FilterMode, Home, Move, view
  <2> QED
    BY <1>2, <2>1, PlaceHolds
<1>3. CASE ToggleGroup
  BY <1>3, ToggleHolds
<1> QED
  BY <1>1, <1>2, <1>3 DEF ViewStep

\* And so does the arrival of the results.
LEMMA LoadHolds ==
    ASSUME GatherInv, NEW targets \in Seq(DOMAIN NameCell), Distinct(targets), NEW dry \in BOOLEAN,
           NEW rs \in Results(targets, dry), NEW parse,
           NEW os, os = <<>> \/ os \in [DOMAIN NameCell -> Cell], Load(rs, parse, os)
    PROVE  GatherInv' /\ collapsed' = collapsed
<1>1. built' = TableRows(rs, parse, os) /\ Rebuild(built') /\ height' = height /\ collapsed' = collapsed
  BY DEF Load, view
<1>2. built' \in Seq(Row) /\ Distinct(built')
  BY <1>1, TableRowsIs
<1>3. \E p : Reorders(built', built', p)
  BY <1>2, ReordersSelf
<1>4. height' \in Nat
  BY <1>1 DEF GatherInv
<1> QED
  BY <1>1, <1>2, <1>3, <1>4, RebuildHolds

\* Without groups the lines are the rows.
LEMMA RowsAlone ==
    ASSUME NEW rs \in Seq(Row)
    PROVE  /\ RowsAt(RowLines(rs)) = 1..Len(rs)
           /\ \A p \in 1..Len(rs) : RowLines(rs)[p].row = rs[p]
<1> DEFINE ls == RowLines(rs)
<1>1. DOMAIN ls = 1..Len(rs) /\ DOMAIN rs = 1..Len(rs) /\ \A k \in 1..Len(rs) : ls[k] = RowLine(rs[k])
  BY RowLinesIs, LenProperties
<1> HIDE DEF ls
<1>2. RowsAt(ls) = 1..Len(rs) /\ \A k \in 1..Len(rs) : ls[k].row = rs[k]
  BY <1>1 DEF RowsAt, RowLine
<1> QED
  BY <1>2 DEF ls

\* Each of them once.
LEMMA RowsOnceAlone ==
    ASSUME NEW rs \in Seq(Row), Distinct(rs), NEW row
    PROVE  Cardinality({p \in RowsAt(RowLines(rs)) : RowLines(rs)[p].row = row})
               = IF \E i \in 1..Len(rs) : rs[i] = row THEN 1 ELSE 0
<1> DEFINE places == {p \in RowsAt(RowLines(rs)) : RowLines(rs)[p].row = row}
<1>1. CASE \E i \in 1..Len(rs) : rs[i] = row
  <2>1. PICK i \in 1..Len(rs) : rs[i] = row
    BY <1>1
  <2>2. places = {i}
    BY <2>1, RowsAlone DEF Distinct
  <2>3. Cardinality(places) = 1
    BY <2>2, FS_Singleton
  <2> QED
    BY <1>1, <2>3
<1>2. CASE ~\E i \in 1..Len(rs) : rs[i] = row
  <2>1. places = {}
    BY <1>2, RowsAlone
  <2>2. Cardinality(places) = 0
    BY <2>1, FS_EmptySet
  <2> QED
    BY <1>2, <2>2
<1> QED
  BY <1>1, <1>2

\* Under one header, rows are in the order they were in.
LEMMA RowsInTheirOrder ==
    ASSUME NEW rs \in Seq(Row), Distinct(rs), NEW col, NEW folded,
           NEW p \in RowsAt(LinesOf(rs, col, folded)), NEW q \in RowsAt(LinesOf(rs, col, folded)),
           p < q, HeaderAt(LinesOf(rs, col, folded), p) = HeaderAt(LinesOf(rs, col, folded), q)
    PROVE  \E m, n \in 1..Len(rs) :
               /\ m < n /\ LinesOf(rs, col, folded)[p].row = rs[m]
               /\ LinesOf(rs, col, folded)[q].row = rs[n]
<1> DEFINE ls == LinesOf(rs, col, folded)
<1>1. \A r \in RowsAt(ls) : p < r /\ HeaderAt(ls, p) = HeaderAt(ls, r) =>
          \E m, n \in 1..Len(rs) : m < n /\ ls[p].row = rs[m] /\ ls[r].row = rs[n]
  BY RowsUnderTheirHeader
<1> HIDE DEF ls
<1>2. \E m, n \in 1..Len(rs) : m < n /\ ls[p].row = rs[m] /\ ls[q].row = rs[n]
  BY <1>1 DEF ls
<1> QED
  BY <1>2 DEF ls

\* Rows in another order are the same rows.
LEMMA ReorderedSets ==
    ASSUME NEW S, NEW r \in Seq(S), NEW s \in Seq(S), NEW p, Reorders(s, r, p)
    PROVE  ToSet(s) = ToSet(r) /\ Len(s) = Len(r)
<1>1. /\ Len(s) = Len(r)
      /\ \A k \in 1..Len(s) : \E i \in 1..Len(r) : s[k] = r[i]
      /\ \A i \in 1..Len(r) : \E k \in 1..Len(s) : s[k] = r[i]
  BY ReorderedIs
<1>2. DOMAIN s = 1..Len(s) /\ DOMAIN r = 1..Len(r)
  BY LenProperties
<1>3. ASSUME NEW k \in DOMAIN s PROVE s[k] \in ToSet(r)
  BY <1>1, <1>2 DEF ToSet
<1>4. ASSUME NEW k \in DOMAIN r PROVE r[k] \in ToSet(s)
  BY <1>1, <1>2 DEF ToSet
<1> QED
  BY <1>1, <1>3, <1>4 DEF ToSet

\* What the invariant says the lines are is what LinesFaithful asks of them.
LEMMA LinesAreFaithful == ASSUME GatherInv PROVE LinesFaithful
<1> DEFINE col == cols[sortCol]
           by == cols[groupCol]
           shown == ShownOf(rows, query, col, sortDesc)
<1>1. SUFFICES ASSUME loaded PROVE LinesFaithful
  BY DEF LinesFaithful
<1>2. Tabled
  BY <1>1 DEF GatherInv
<1>3. rows \in Seq(Row) /\ Distinct(rows) /\ built \in Seq(Row)
      /\ DOMAIN rows = 1..Len(rows) /\ DOMAIN built = 1..Len(built)
  BY <1>2, RowsDistinct, LenProperties DEF Tabled
<1>4. ToSet(rows) = ToSet(built) /\ Len(rows) = Len(built)
  BY <1>2, <1>3, ReorderedSets DEF Tabled
<1> HIDE DEF col, by
<1>5. lines = LinesFor(shown, groupCol, by, collapsed)
  BY <1>2 DEF Tabled, Current, col, by
<1>6. /\ shown \in Seq(Row) /\ Distinct(shown) /\ Sorted(shown, col, sortDesc)
      /\ \A k \in 1..Len(shown) :
             Matches(shown[k], query) /\ \E i \in 1..Len(rows) : shown[k] = rows[i]
      /\ \A i \in 1..Len(rows) : Matches(rows[i], query) =>
             \E k \in 1..Len(shown) : shown[k] = rows[i]
  <2>1. ASSUME NEW rs, rs = rows, NEW q, q = query, NEW desc, desc = sortDesc
        PROVE  LET at == ShownOf(rs, q, col, desc)
               IN  /\ at \in Seq(Row) /\ Distinct(at) /\ Sorted(at, col, desc)
                   /\ \A k \in 1..Len(at) :
                          Matches(at[k], q) /\ \E i \in 1..Len(rs) : at[k] = rs[i]
                   /\ \A i \in 1..Len(rs) : Matches(rs[i], q) =>
                          \E k \in 1..Len(at) : at[k] = rs[i]
    <3>1. rs \in Seq(Row) /\ Distinct(rs)
      BY <1>3, <2>1
    <3> QED
      BY <3>1, ShownIs
  <2> QED
    BY <2>1
<1> HIDE DEF shown
<1>7. DOMAIN shown = 1..Len(shown) /\ \A k \in 1..Len(shown) : shown[k] \in Row
  BY <1>6, LenProperties
<1>8. ASSUME NEW row
      PROVE  row \in ToSet(rows) /\ Matches(row, query) <=> \E k \in 1..Len(shown) : shown[k] = row
  BY <1>3, <1>6 DEF ToSet
<1>9. RowAt = RowsAt(lines) /\ \A i : HeaderOf(i) = HeaderAt(lines, i)
  BY DEF RowAt, RowsAt, HeaderOf, HeaderAt
<1>10. ASSUME NEW row \in ToSet(rows)
       PROVE  Cardinality({i \in RowAt : lines[i].row = row})
                  = IF Matches(row, query) /\ ~Folded(row) THEN 1 ELSE 0
  <2>1. CASE groupCol = NoGroup
    <3>1. lines = RowLines(shown) /\ ~Folded(row)
      BY <2>1, <1>5 DEF LinesFor, Folded
    <3>2. Cardinality({p \in RowsAt(lines) : lines[p].row = row})
              = IF \E i \in 1..Len(shown) : shown[i] = row THEN 1 ELSE 0
      <4>1. Cardinality({p \in RowsAt(RowLines(shown)) : RowLines(shown)[p].row = row})
                = IF \E i \in 1..Len(shown) : shown[i] = row THEN 1 ELSE 0
        BY <1>6, RowsOnceAlone
      <4> QED
        BY <3>1, <4>1
    <3> QED
      BY <3>1, <3>2, <1>8, <1>9
  <2>2. CASE groupCol # NoGroup
    <3>1. lines = LinesOf(shown, by, collapsed) /\ (Folded(row) <=> KeyOf(row, by) \in collapsed)
      BY <2>2, <1>5 DEF LinesFor, Folded, by
    <3>2. Cardinality({p \in RowsAt(lines) : lines[p].row = row})
              = IF (\E i \in 1..Len(shown) : shown[i] = row) /\ KeyOf(row, by) \notin collapsed
                THEN 1 ELSE 0
      BY <3>1, <1>6, RowsOnceInGroups
    <3> QED
      BY <3>1, <3>2, <1>8, <1>9
  <2> QED
    BY <2>1, <2>2
<1>11. ASSUME groupCol # NoGroup
       PROVE  /\ \A i \in RowAt : lines[HeaderOf(i)].key = KeyOf(lines[i].row, by)
              /\ \A h \in DOMAIN lines \ RowAt :
                     lines[h].count = Cardinality({row \in ToSet(rows) :
                         Matches(row, query) /\ KeyOf(row, by) = lines[h].key})
  <2>1. lines = LinesOf(shown, by, collapsed)
    BY <1>5, <1>11 DEF LinesFor
  <2>2. \A i \in RowsAt(lines) : lines[HeaderAt(lines, i)].key = KeyOf(lines[i].row, by)
    BY <2>1, <1>6, RowsUnderTheirHeader
  <2>3. ASSUME NEW h \in DOMAIN lines \ RowsAt(lines)
        PROVE  lines[h].count = Cardinality({row \in ToSet(rows) :
                   Matches(row, query) /\ KeyOf(row, by) = lines[h].key})
    <3>1. lines[h].count = Cardinality({row \in ToSet(shown) : KeyOf(row, by) = lines[h].key})
      BY <2>1, <1>6, HeadersCount
    <3>2. \A row : row \in ToSet(shown) <=> row \in ToSet(rows) /\ Matches(row, query)
      BY <1>7, <1>8 DEF ToSet
    <3>3. {row \in ToSet(shown) : KeyOf(row, by) = lines[h].key}
              = {row \in ToSet(rows) : Matches(row, query) /\ KeyOf(row, by) = lines[h].key}
      BY <3>2
    <3> QED
      BY <3>1, <3>3
  <2> QED
    BY <2>2, <2>3, <1>9
<1>12. ASSUME NEW i \in RowAt, NEW j \in RowAt, i < j, SameGroup(i, j)
       PROVE  \E m, n \in 1..Len(shown) : m < n /\ lines[i].row = shown[m] /\ lines[j].row = shown[n]
  <2>1. CASE groupCol = NoGroup
    <3>1. lines = RowLines(shown)
      BY <2>1, <1>5 DEF LinesFor
    <3>2. \A p \in RowsAt(lines) : p \in 1..Len(shown) /\ lines[p].row = shown[p]
      BY <3>1, <1>6, RowsAlone
    <3> QED
      BY <3>2, <1>9, <1>12
  <2>2. CASE groupCol # NoGroup
    <3>1. lines = LinesOf(shown, by, collapsed)
      BY <2>2, <1>5 DEF LinesFor
    <3>2. HeaderAt(lines, i) = HeaderAt(lines, j) /\ i \in RowsAt(lines) /\ j \in RowsAt(lines)
      BY <2>2, <1>9, <1>12 DEF SameGroup
    <3> QED
      <4>1. /\ shown \in Seq(Row) /\ Distinct(shown)
            /\ i \in RowsAt(LinesOf(shown, by, collapsed)) /\ j \in RowsAt(LinesOf(shown, by, collapsed))
            /\ HeaderAt(LinesOf(shown, by, collapsed), i) = HeaderAt(LinesOf(shown, by, collapsed), j)
        BY <3>1, <3>2, <1>6
      <4>2. \E m, n \in 1..Len(shown) :
                /\ m < n /\ LinesOf(shown, by, collapsed)[i].row = shown[m]
                /\ LinesOf(shown, by, collapsed)[j].row = shown[n]
        BY <4>1, <1>12, RowsInTheirOrder
      <4> QED
        BY <3>1, <4>2
  <2> QED
    BY <2>1, <2>2
<1>13. ASSUME NanFree, NEW i \in RowAt, NEW j \in RowAt, i < j, SameGroup(i, j)
       PROVE  LET a == Get(lines[i].row, col)
                  b == Get(lines[j].row, col)
              IN  IF sortDesc THEN InOrder(b, a) ELSE InOrder(a, b)
  <2>1. PICK m, n \in 1..Len(shown) : m < n /\ lines[i].row = shown[m] /\ lines[j].row = shown[n]
    BY <1>12, <1>13
  <2>2. \A k \in 1..Len(shown) : ~Number[Get(shown[k], col)].nan
    <3>1. \A k \in 1..Len(shown) : shown[k] \in ToSet(rows) /\ Matches(shown[k], query)
      BY <1>8
    <3> QED
      BY <3>1, <1>13 DEF NanFree, col
  <2>3. ~Before(Get(shown[n], col), Get(shown[m], col), sortDesc)
    BY <2>1, <2>2, <1>6, SortedThroughout
  <2>4. Get(shown[m], col) \in Cell /\ Get(shown[n], col) \in Cell
    BY <1>7, CellsOfRows
  <2>5. IF sortDesc THEN InOrder(Get(shown[n], col), Get(shown[m], col))
                    ELSE InOrder(Get(shown[m], col), Get(shown[n], col))
    BY <2>2, <2>3, <2>4, NotBeforeIsInOrder
  <2> QED
    BY <2>1, <2>5
<1> QED
  BY <1>4, <1>10, <1>11, <1>13 DEF LinesFaithful, col, by

-----------------------------------------------------------------------------
(* The builder: its form and its screens.                                  *)

Overlays == {"browsing", "taskPicking", "previewing", "settingsMode"}
Library == Seq([cmd : STRING, parse : STRING])
ConsoleFields ==
    {"form", "focus", "queries", "overlays", "settings", "browseKey", "names", "fresh",
     "settingFocus", "taskFilter", "taskCursor"}

IsConsole(cn) == DOMAIN cn = ConsoleFields /\ DOMAIN cn.form = FormKey

\* dn is cn but for some fields of the form.
SameBut(keys, cn, dn) ==
    /\ IsConsole(dn)
    /\ dn.focus = cn.focus /\ dn.queries = cn.queries /\ dn.overlays = cn.overlays
    /\ dn.browseKey = cn.browseKey /\ dn.names = cn.names /\ dn.fresh = cn.fresh
    /\ \A key \in FormKey \ keys : dn.form[key] = cn.form[key]

\* dn is cn with another screen over the form.
SameForm(cn, dn) ==
    IsConsole(dn) /\ dn.focus = cn.focus /\ dn.queries = cn.queries /\ dn.form = cn.form

-----------------------------------------------------------------------------
(* Who gets a key.                                                         *)

\* The least of one number.
LEMMA MinOfOne == ASSUME NEW n \in Int PROVE Min({n}) = n
BY DEF Min

\* With one screen over the form both orders find it.
LEMMA OneScreen ==
    ASSUME NEW cn, NEW o \in Overlays, cn.overlays = {o}
    PROVE  Receiver(cn) = o /\ Drawn(cn) = o
<1> DEFINE R == <<"browsing", "taskPicking", "previewing", "settingsMode">>
           D == <<"browsing", "previewing", "settingsMode", "taskPicking">>
<1>1. PICK i \in DOMAIN R : {n \in DOMAIN R : R[n] \in cn.overlays} = {i} /\ R[i] = o
  BY DEF Overlays
<1>2. PICK j \in DOMAIN D : {n \in DOMAIN D : D[n] \in cn.overlays} = {j} /\ D[j] = o
  BY DEF Overlays
<1>3. DOMAIN R = 1..4 /\ DOMAIN D = 1..4
  OBVIOUS
<1> HIDE DEF R, D
<1>4. FirstOf(R, cn.overlays) = o
  BY <1>1, <1>3, MinOfOne DEF FirstOf
<1>5. FirstOf(D, cn.overlays) = o
  BY <1>2, <1>3, MinOfOne DEF FirstOf
<1> QED
  BY <1>4, <1>5 DEF Receiver, Drawn, R, D

\* With none it is the form.
LEMMA NoScreenOver ==
    ASSUME NEW cn, cn.overlays = {} PROVE Receiver(cn) = "form" /\ Drawn(cn) = "form"
BY DEF Receiver, Drawn, FirstOf

\* At most one screen is over the form.
Layered(cn) == cn.overlays = {} \/ \E o \in Overlays : cn.overlays = {o}

\* The form gets a key where nothing is over it, a screen where it alone is.
LEMMA Receives ==
    ASSUME NEW cn, Layered(cn)
    PROVE  /\ Receiver(cn) = "form" => cn.overlays = {}
           /\ \A o \in Overlays : Receiver(cn) = o => cn.overlays = {o}
           /\ Receiver(cn) = Drawn(cn)
<1>1. CASE cn.overlays = {}
  BY <1>1, NoScreenOver DEF Overlays
<1>2. ASSUME NEW o \in Overlays, cn.overlays = {o}
      PROVE  /\ Receiver(cn) = "form" => cn.overlays = {}
             /\ \A p \in Overlays : Receiver(cn) = p => cn.overlays = {p}
             /\ Receiver(cn) = Drawn(cn)
  BY <1>2, OneScreen DEF Overlays
<1> QED
  BY <1>1, <1>2 DEF Layered

-----------------------------------------------------------------------------
(* The table of fields.                                                    *)

\* The fields the code knows by name have the kind it takes them for.
LEMMA NamedFields ==
    /\ {"gather_cmd", "gather_query", "gather_parse", "transport", "inventory",
        "svc_name", "whatif"} \subseteq FormKey
    /\ \A i \in DOMAIN Fields :
           /\ Fields[i].key \in {"gather_cmd", "svc_name", "inventory"} => Fields[i].kind = "text"
           /\ Fields[i].key \in {"gather_query", "gather_parse", "transport"} => Fields[i].kind = "select"
           /\ Fields[i].key = "whatif" => Fields[i].kind = "toggle"
BY FormAssumption DEF TextKeys, SelectKeys, ToggleKeys

\* The first field is the task, a choice among the verbs; every task shows it.
LEMMA TaskField ==
    /\ 1 \in DOMAIN Fields /\ Fields[1].key = "tasktype" /\ Fields[1].kind = "select"
    /\ Fields[1].tasks = ToSet(Verbs) /\ "tasktype" \in FormKey
    /\ \A i \in DOMAIN Fields : Fields[i].key = "tasktype" => i = 1
    /\ Verbs \in Seq(STRING) /\ OptionsOf["tasktype"] = Verbs
    /\ DefaultForm["tasktype"] \in ToSet(Verbs)
<1>1. /\ 1 \in DOMAIN Fields /\ Fields[1].key = "tasktype" /\ Fields[1].kind = "select"
      /\ Fields[1].tasks = ToSet(Verbs)
  BY FormAssumption
<1>2. \A i \in DOMAIN Fields : Fields[i].key = "tasktype" => i = 1
  BY <1>1, FormAssumption
<1>3. "tasktype" \in FormKey
  BY <1>1 DEF FormKey
<1> QED
  BY <1>1, <1>2, <1>3, FormAssumption

-----------------------------------------------------------------------------
(* What the helpers write.                                                 *)

\* setText and setSelect write to their own field only.
LEMMA SetTextWrites ==
    ASSUME NEW cn, IsConsole(cn), NEW key, NEW value
    PROVE  /\ SameBut({key}, cn, SetText(cn, key, value))
           /\ key \in FormKey => SetText(cn, key, value).form[key] = value
BY DEF IsConsole, ConsoleFields, SameBut, SetText

LEMMA SetSelectWrites ==
    ASSUME NEW cn, IsConsole(cn), NEW key, NEW value
    PROVE  /\ SameBut({key}, cn, SetSelect(cn, key, value))
           /\ \/ SetSelect(cn, key, value) = cn
              \/ Contains(Options(cn, key), value)
                    /\ (key \in FormKey => SetSelect(cn, key, value).form[key] = value)
BY DEF IsConsole, ConsoleFields, SameBut, SetSelect

\* What two writes leave alone.
LEMMA SameButTwice ==
    ASSUME NEW cn, NEW dn, NEW en, NEW K, NEW L, SameBut(K, cn, dn), SameBut(L, dn, en)
    PROVE  SameBut(K \cup L, cn, en)
BY DEF SameBut

\* The query fills the command and its parser, if one is selected.
LEMMA ApplyQueryWrites ==
    ASSUME NEW cn, IsConsole(cn),
           cn.queries \in Library, cn.form["gather_query"] \in 1..(Len(cn.queries) + 1)
    PROVE  /\ SameBut({"gather_cmd", "gather_parse"}, cn, ApplyQuery(cn))
           /\ \/ ApplyQuery(cn).form["gather_cmd"] = cn.form["gather_cmd"]
              \/ /\ cn.form["gather_query"] \in DOMAIN cn.queries
                 /\ ApplyQuery(cn).form["gather_cmd"] = cn.queries[cn.form["gather_query"]].cmd
<1> DEFINE q == cn.queries[cn.form["gather_query"]]
           dn == SetText(cn, "gather_cmd", q.cmd)
<1>1. CASE cn.form["gather_query"] > Len(cn.queries)
  BY <1>1 DEF ApplyQuery, SameBut
<1>2. CASE ~(cn.form["gather_query"] > Len(cn.queries))
  <2>1. cn.form["gather_query"] \in DOMAIN cn.queries
    BY <1>2 DEF Library
  <2>2. ApplyQuery(cn) = SetSelect(dn, "gather_parse", q.parse)
    BY <1>2 DEF ApplyQuery
  <2>3. SameBut({"gather_cmd"}, cn, dn) /\ dn.form["gather_cmd"] = q.cmd
    BY SetTextWrites, NamedFields
  <2>6. IsConsole(dn) /\ dn.form["gather_cmd"] = q.cmd
    BY <2>3 DEF SameBut
  <2> HIDE DEF dn
  <2>4. SameBut({"gather_parse"}, dn, ApplyQuery(cn))
    BY <2>2, <2>6, SetSelectWrites
  <2>5. ApplyQuery(cn).form["gather_cmd"] = q.cmd
    BY <2>4, <2>6, NamedFields DEF SameBut
  <2> QED
    BY <2>1, <2>3, <2>4, <2>5, SameButTwice DEF SameBut
<1> QED
  BY <1>1, <1>2

\* The settings fill the transport and the list.
LEMMA ApplySettingsWrites ==
    ASSUME NEW cn, IsConsole(cn), NEW s
    PROVE  SameBut({"transport", "inventory"}, cn, ApplySettings(cn, s))
<1> DEFINE tr == IF s.transport = "" THEN cn ELSE SetSelect(cn, "transport", s.transport)
<1>1. SameBut({"transport"}, cn, tr) /\ IsConsole(tr)
  <2>1. SameBut({"transport"}, cn, cn)
    BY DEF SameBut
  <2>2. SameBut({"transport"}, cn, SetSelect(cn, "transport", s.transport))
    BY SetSelectWrites
  <2> QED
    BY <2>1, <2>2 DEF SameBut
<1>2. SameBut({"inventory"}, tr, SetText(tr, "inventory", s.hosts))
  BY <1>1, SetTextWrites
<1>3. \/ ApplySettings(cn, s) = tr
      \/ ApplySettings(cn, s) = SetText(tr, "inventory", s.hosts)
  BY DEF ApplySettings
<1> HIDE DEF tr
<1> QED
  BY <1>1, <1>2, <1>3 DEF SameBut
-----------------------------------------------------------------------------
(* The form and the screen over it.                                        *)

\* What the builder's other steps rely on: one screen at most is over the form,
\* the field with the focus is one of the task's, and a screen that will write to
\* the form was opened from a field of the right kind.
Sound(cn) ==
    /\ IsConsole(cn) /\ Layered(cn)
    /\ cn.queries \in Library /\ cn.form["gather_query"] \in 1..(Len(cn.queries) + 1)
    /\ cn.form["whatif"] \in BOOLEAN
    /\ cn.focus \in DOMAIN Fields /\ Task(cn.form) \in Fields[cn.focus].tasks
    /\ "taskPicking" \in cn.overlays => cn.focus = 1
    /\ "browsing" \in cn.overlays =>
           \E i \in DOMAIN Fields : Fields[i].key = cn.browseKey /\ Fields[i].kind = "text"

\* What CommandIsKept says of a step from cn to dn.
Kept(cn, dn) ==
    dn.form["gather_cmd"] # cn.form["gather_cmd"] =>
        \/ Receiver(cn) = "form" /\ Fields[cn.focus].key = "gather_cmd"
        \/ Receiver(cn) = "browsing" /\ cn.browseKey = "gather_cmd"
        \/ /\ dn.form["gather_query"] \in DOMAIN dn.queries
           /\ dn.form["gather_cmd"] = dn.queries[dn.form["gather_query"]].cmd

\* A new Console is sound.
LEMMA NewConsoleIsSound ==
    ASSUME NEW s, s.queries \in Library
    PROVE  Sound(NewConsole(s)) /\ NewConsole(s).overlays = {}
<1> DEFINE blank == [form |-> DefaultForm, focus |-> 1, queries |-> GatherLibrary(s), overlays |-> {},
                     settings |-> SettingsForm(s), browseKey |-> "", names |-> <<>>, fresh |-> TRUE,
                     settingFocus |-> 1, taskFilter |-> "", taskCursor |-> 0]
           set == ApplySettings(blank, s)
<1>1. DefaultQueries \in Library
  BY QueriesAssumption DEF Library
<1>2. GatherLibrary(s) \in Library /\ Len(GatherLibrary(s)) \in Nat
  BY <1>1 DEF GatherLibrary, Library
<1>3. IsConsole(blank)
  BY FormAssumption DEF IsConsole, ConsoleFields
<1>4. /\ blank.focus = 1 /\ blank.overlays = {} /\ blank.queries = GatherLibrary(s)
      /\ blank.form = DefaultForm
  OBVIOUS
<1> HIDE DEF blank
<1>5. SameBut({"transport", "inventory"}, blank, set)
  BY <1>3, ApplySettingsWrites
<1>6. DefaultForm["gather_query"] = 1 /\ DefaultForm["whatif"] \in BOOLEAN
  BY FormAssumption, ListsAssumption
<1>7. /\ set.form["gather_query"] = 1 /\ Task(set.form) = DefaultForm["tasktype"]
      /\ set.form["whatif"] \in BOOLEAN
  BY <1>4, <1>5, <1>6, NamedFields, TaskField DEF SameBut, Task
<1>8. IsConsole(set) /\ set.queries \in Library /\ set.form["gather_query"] \in 1..(Len(set.queries) + 1)
  BY <1>2, <1>4, <1>5, <1>7 DEF SameBut
<1> HIDE DEF set
<1>9. SameBut({"gather_cmd", "gather_parse"}, set, ApplyQuery(set))
  BY <1>8, ApplyQueryWrites
<1>10. NewConsole(s) = ApplyQuery(set)
  BY DEF NewConsole, set, blank
<1>11. /\ NewConsole(s).focus = 1 /\ NewConsole(s).overlays = {}
       /\ NewConsole(s).queries = set.queries /\ IsConsole(NewConsole(s))
  BY <1>4, <1>5, <1>9, <1>10 DEF SameBut
<1>12. /\ NewConsole(s).form["gather_query"] = set.form["gather_query"]
       /\ NewConsole(s).form["whatif"] \in BOOLEAN
       /\ Task(NewConsole(s).form) = DefaultForm["tasktype"]
  BY <1>7, <1>9, <1>10, NamedFields, TaskField DEF SameBut, Task
<1> QED
  BY <1>8, <1>11, <1>12, TaskField DEF Sound, Layered

\* Writes to fields other than the task and the query leave a Console sound.
LEMMA OtherFieldsWritten ==
    ASSUME NEW cn, NEW dn, NEW K, Sound(cn), SameBut(K, cn, dn),
           "tasktype" \notin K, "gather_query" \notin K,
           "whatif" \in K => dn.form["whatif"] \in BOOLEAN
    PROVE  Sound(dn)
<1>1. dn.form["gather_query"] = cn.form["gather_query"] /\ Task(dn.form) = Task(cn.form)
  BY NamedFields, TaskField DEF SameBut, Task
<1>2. dn.form["whatif"] \in BOOLEAN
  BY NamedFields DEF SameBut, Sound
<1> QED
  BY <1>1, <1>2 DEF Sound, SameBut, Layered

\* To open or to close a screen leaves the form alone.
LEMMA ScreenChanged ==
    ASSUME NEW cn, NEW dn, Sound(cn), SameForm(cn, dn), Layered(dn),
           "taskPicking" \in dn.overlays => dn.focus = 1,
           "browsing" \in dn.overlays =>
               \E i \in DOMAIN Fields : Fields[i].key = dn.browseKey /\ Fields[i].kind = "text"
    PROVE  Sound(dn) /\ Kept(cn, dn)
BY DEF Sound, SameForm, Kept

\* ApplyQuery leaves a Console sound, and the command to the query selected.
LEMMA QueryApplied ==
    ASSUME NEW cn, Sound(cn)
    PROVE  Sound(ApplyQuery(cn)) /\ Kept(cn, ApplyQuery(cn))
<1>1. IsConsole(cn) /\ cn.queries \in Library /\ cn.form["gather_query"] \in 1..(Len(cn.queries) + 1)
  BY DEF Sound
<1>2. SameBut({"gather_cmd", "gather_parse"}, cn, ApplyQuery(cn))
  BY <1>1, ApplyQueryWrites
<1>3. /\ ApplyQuery(cn).queries = cn.queries
      /\ ApplyQuery(cn).form["gather_query"] = cn.form["gather_query"]
  BY <1>2, NamedFields DEF SameBut
<1> QED
  BY <1>1, <1>2, <1>3, ApplyQueryWrites, OtherFieldsWritten DEF Kept

-----------------------------------------------------------------------------
(* Numbers that go round.                                                  *)

\* A remainder is below what it is a remainder by.
LEMMA Round ==
    ASSUME NEW n \in Nat, n > 0, NEW x \in Int
    PROVE  x % n \in 0..(n - 1)
OBVIOUS

\* A full turn changes nothing.
LEMMA FullTurn ==
    ASSUME NEW n \in Nat, n > 0, NEW x \in 0..(n - 1)
    PROVE  (x + n) % n = x /\ (x - n) % n = x
OBVIOUS

\* The least of a set of naturals is one of them.
LEMMA MinIsMember ==
    ASSUME NEW T \in SUBSET Nat, T # {}
    PROVE  Min(T) \in T
BY Least DEF Min

\* Left and right go from an option to an option.
LEMMA CycledStays ==
    ASSUME NEW opts, NEW n \in Nat, n > 0, DOMAIN opts = 1..n, Len(opts) = n,
           NEW value, \E i \in 1..n : opts[i] = value, NEW delta \in Int
    PROVE  \E i \in 1..n : Cycled(opts, value, delta) = opts[i]
<1> DEFINE i == CHOOSE m \in DOMAIN opts : opts[m] = value
<1>1. i \in 1..n
  OBVIOUS
<1>2. Cycled(opts, value, delta) = opts[((i - 1 + delta) % n) + 1]
  BY DEF Cycled
<1> HIDE DEF i
<1>3. (i - 1 + delta) % n \in 0..(n - 1)
  BY <1>1, Round
<1> QED
  BY <1>2, <1>3

\* The focus moves to a field of the task, or stays.
LEMMA FocusMoves ==
    ASSUME NEW cn, Sound(cn), cn.overlays = {}, NEW delta \in {-1, 1}
    PROVE  Sound(MoveFocus(cn, delta)) /\ Kept(cn, MoveFocus(cn, delta))
<1> DEFINE n == Len(Fields)
           Field(k) == ((cn.focus - 1 + k * delta) % n) + 1
           T == {k \in 1..n : Visible(cn.form, Field(k))} \cup {n}
<1>1. n \in Nat /\ n > 0 /\ DOMAIN Fields = 1..n
  BY FormAssumption
<1>2. cn.focus \in 1..n
  BY <1>1 DEF Sound
<1>3. MoveFocus(cn, delta) = [cn EXCEPT !.focus = Field(Min(T))]
  BY DEF MoveFocus
<1> HIDE DEF n
<1> HIDE DEF Field
<1>4. Min(T) \in T
  <2>1. T \in SUBSET Nat /\ T # {}
    BY <1>1
  <2> HIDE DEF T
  <2> QED
    BY <2>1, MinIsMember
<1>5. Min(T) \in 1..n
  BY <1>1, <1>4
<1>6. Field(n) = cn.focus
  <2>1. cn.focus - 1 \in 0..(n - 1)
    BY <1>1, <1>2
  <2>2. (cn.focus - 1 + n) % n = cn.focus - 1 /\ (cn.focus - 1 - n) % n = cn.focus - 1
    BY <1>1, <2>1, FullTurn
  <2>3. cn.focus - 1 + n * delta = cn.focus - 1 + n \/ cn.focus - 1 + n * delta = cn.focus - 1 - n
    BY <1>1, <2>1
  <2>4. (cn.focus - 1 + n * delta) % n = cn.focus - 1
    BY <2>2, <2>3
  <2> QED
    BY <1>2, <1>1, <2>4 DEF Field
<1>7. Field(Min(T)) \in 1..n
  <2>1. Min(T) * delta \in Int
    BY <1>1, <1>5
  <2>2. cn.focus - 1 + Min(T) * delta \in Int
    BY <1>1, <1>2, <2>1
  <2>3. (cn.focus - 1 + Min(T) * delta) % n \in 0..(n - 1)
    BY <1>1, <2>2, Round
  <2> QED
    BY <1>1, <2>3 DEF Field
<1>8. Task(cn.form) \in Fields[Field(Min(T))].tasks
  <2>1. CASE Min(T) = n
    BY <1>6, <2>1 DEF Sound
  <2>2. CASE Min(T) # n
    BY <1>4, <2>2 DEF Visible
  <2> QED
    BY <2>1, <2>2
<1> HIDE DEF Field, T
<1>9. /\ IsConsole(MoveFocus(cn, delta)) /\ MoveFocus(cn, delta).form = cn.form
      /\ MoveFocus(cn, delta).focus = Field(Min(T)) /\ MoveFocus(cn, delta).overlays = {}
      /\ MoveFocus(cn, delta).queries = cn.queries
  BY <1>3 DEF IsConsole, ConsoleFields, Sound
<1> QED
  BY <1>1, <1>7, <1>8, <1>9 DEF Sound, Kept, Layered
-----------------------------------------------------------------------------
(* The builder's steps, but for Preview.                                   *)

\* The step leaves the Console sound, the command to whom it belongs, and no
\* preview open.
Keeps == Sound(c') /\ Kept(c, c') /\ "previewing" \notin c'.overlays

\* Who gets the key has the screen to itself.
LEMMA AtAlone ==
    ASSUME Sound(c)
    PROVE  /\ At("form") => c.overlays = {}
           /\ \A o \in Overlays : At(o) => c.overlays = {o}
BY Receives DEF Sound, At

\* A step that writes to other fields of the form.
LEMMA FieldWritten ==
    ASSUME NEW dn, NEW K, Sound(c), SameBut(K, c, dn),
           "tasktype" \notin K, "gather_query" \notin K,
           "whatif" \in K => dn.form["whatif"] \in BOOLEAN,
           "gather_cmd" \in K => Kept(c, dn)
    PROVE  Sound(dn) /\ Kept(c, dn) /\ dn.overlays = c.overlays
<1>1. "gather_cmd" \notin K => dn.form["gather_cmd"] = c.form["gather_cmd"]
  BY NamedFields DEF SameBut
<1> QED
  BY <1>1, OtherFieldsWritten DEF Kept, SameBut

\* A text field is neither the task nor the query, nor the toggle of the dry run.
LEMMA TextFields ==
    ASSUME NEW i \in DOMAIN Fields, Fields[i].kind \in {"text", "toggle"}
    PROVE  /\ Fields[i].key # "tasktype" /\ Fields[i].key # "gather_query" /\ Fields[i].key \in FormKey
           /\ Fields[i].kind = "text" => Fields[i].key # "whatif"
BY TaskField, NamedFields DEF FormKey

\* The keys of the form, one lemma for each.
LEMMA TabKeeps == ASSUME Sound(c), NEW delta \in {-1, 1}, Tab(delta) PROVE Keeps
<1>1. c.overlays = {} /\ c' = MoveFocus(c, delta)
  BY AtAlone DEF Tab, Becomes
<1>2. Sound(MoveFocus(c, delta)) /\ Kept(c, MoveFocus(c, delta))
  BY <1>1, FocusMoves
<1>3. MoveFocus(c, delta).overlays = {}
  BY <1>1 DEF MoveFocus, Sound, IsConsole, ConsoleFields
<1> QED
  BY <1>1, <1>2, <1>3 DEF Keeps

LEMMA TypeKeeps == ASSUME Sound(c), Type PROVE Keeps
<1>1. PICK value : c' = SetText(c, Focused.key, value)
  BY DEF Type, Becomes
<1>2. c.overlays = {} /\ Receiver(c) = "form" /\ Focused.kind = "text" /\ IsConsole(c)
  BY AtAlone DEF Type, FormHas, At, Sound
<1>3. Focused.key # "tasktype" /\ Focused.key # "gather_query" /\ Focused.key # "whatif"
  BY <1>2, TextFields DEF Sound, Focused
<1>4. SameBut({Focused.key}, c, c')
  BY <1>1, <1>2, SetTextWrites
<1>5. Focused.key = "gather_cmd" => Kept(c, c')
  BY <1>2 DEF Kept, Focused
<1> HIDE DEF Focused
<1>6. Sound(c') /\ Kept(c, c') /\ c'.overlays = c.overlays
  BY <1>3, <1>4, <1>5, FieldWritten
<1> QED
  BY <1>2, <1>6 DEF Keeps

LEMMA FlickKeeps == ASSUME Sound(c), Flick PROVE Keeps
<1>1. c' = SetText(c, Focused.key, ~c.form[Focused.key])
  BY DEF Flick, Becomes, SetText
<1>2. c.overlays = {} /\ Focused.kind = "toggle" /\ IsConsole(c)
  BY AtAlone DEF Flick, FormHas, At, Sound
<1>3. Focused.key # "tasktype" /\ Focused.key # "gather_query" /\ Focused.key \in FormKey
  BY <1>2, TextFields DEF Sound, Focused
<1>4. Focused.key # "gather_cmd"
  BY <1>2, NamedFields DEF Sound, Focused
<1> HIDE DEF Focused
<1>5. SameBut({Focused.key}, c, c') /\ c'.form[Focused.key] = ~c.form[Focused.key]
  BY <1>1, <1>2, <1>3, SetTextWrites
<1>6. Focused.key = "whatif" => c'.form["whatif"] \in BOOLEAN
  BY <1>5
<1>7. Sound(c') /\ Kept(c, c') /\ c'.overlays = c.overlays
  BY <1>3, <1>4, <1>5, <1>6, FieldWritten
<1> QED
  BY <1>2, <1>7 DEF Keeps

LEMMA AcceptServiceKeeps == ASSUME Sound(c), AcceptService PROVE Keeps
<1>1. c' = SetText(c, "svc_name", TopMatch[c.form["svc_name"]])
  BY DEF AcceptService, Becomes
<1>2. c.overlays = {} /\ IsConsole(c)
  BY AtAlone DEF AcceptService, Sound
<1>3. SameBut({"svc_name"}, c, c')
  BY <1>1, <1>2, SetTextWrites
<1>4. Sound(c') /\ Kept(c, c') /\ c'.overlays = c.overlays
  BY <1>3, FieldWritten
<1> QED
  BY <1>2, <1>4 DEF Keeps

\* Another task: the focus stays on the field of the task.
LEMMA TaskSelected ==
    ASSUME NEW cn, Sound(cn), cn.focus = 1,
           NEW dn, SameBut({"tasktype"}, cn, dn), Task(dn.form) \in ToSet(Verbs)
    PROVE  Sound(dn) /\ Kept(cn, dn) /\ dn.overlays = cn.overlays
<1>1. /\ dn.form["gather_query"] = cn.form["gather_query"]
      /\ dn.form["gather_cmd"] = cn.form["gather_cmd"]
      /\ dn.form["whatif"] = cn.form["whatif"]
  BY NamedFields DEF SameBut
<1> QED
  BY <1>1, TaskField DEF Sound, SameBut, Layered, Kept

LEMMA SelectKeeps == ASSUME Sound(c), NEW delta \in {-1, 0, 1}, Select(delta) PROVE Keeps
<1> DEFINE key == Focused.key
           value == Cycled(Options(c, key), c.form[key], delta)
           cn == SetText(c, key, value)
<1>1. c' = IF key = "gather_query" THEN ApplyQuery(cn) ELSE cn
  BY DEF Select, Becomes, SetText
<1>2. c.overlays = {} /\ Focused.kind = "select" /\ IsConsole(c) /\ c.focus \in DOMAIN Fields
  BY AtAlone DEF Select, FormHas, At, Sound
<1>3. key # "gather_cmd" /\ key # "whatif" /\ key \in FormKey
  BY <1>2, NamedFields DEF Focused, FormKey
<1>4. SameBut({key}, c, cn) /\ cn.form[key] = value
  BY <1>2, <1>3, SetTextWrites
<1>5. key = "tasktype" => c.focus = 1
  BY <1>2, TaskField DEF Focused
<1> HIDE DEF value, cn
<1>6. CASE key = "tasktype"
  <2>1. Task(c.form) \in ToSet(Verbs)
    BY <1>5, <1>6, TaskField DEF Sound
  <2>2. Options(c, key) = Verbs /\ Len(Verbs) \in Nat /\ DOMAIN Verbs = 1..Len(Verbs)
    BY <1>6, TaskField DEF Options
  <2>3. PICK i \in 1..Len(Verbs) : Verbs[i] = c.form[key]
    BY <1>6, <2>1, <2>2 DEF ToSet, Task
  <2>4. value \in ToSet(Verbs)
    BY <2>2, <2>3, CycledStays DEF ToSet, value
  <2>5. Task(cn.form) \in ToSet(Verbs)
    BY <1>4, <1>6, <2>4 DEF Task
  <2>6. Sound(cn) /\ Kept(c, cn) /\ cn.overlays = c.overlays
    BY <1>4, <1>5, <1>6, <2>5, TaskSelected
  <2> QED
    BY <1>1, <1>2, <1>6, <2>6 DEF Keeps
<1>7. CASE key = "gather_query"
  <2> DEFINE n == Len(c.queries) + 1
             opts == [i \in 1..n |-> i]
  <2>1. Options(c, key) = opts /\ n \in Nat /\ n > 0 /\ c.form[key] \in 1..n
    BY <1>7 DEF Options, Sound, Library
  <2>2. DOMAIN opts = 1..n /\ Len(opts) = n /\ opts[c.form[key]] = c.form[key]
    BY <2>1
  <2>3. PICK i \in 1..n : Cycled(opts, c.form[key], delta) = opts[i]
    <3> HIDE DEF opts, n
    <3> QED
      BY <2>1, <2>2, CycledStays
  <2>4. value \in 1..n
    BY <2>1, <2>3 DEF value
  <2>5. cn.form["gather_query"] \in 1..(Len(cn.queries) + 1) /\ cn.queries = c.queries
    BY <1>4, <1>7, <2>4 DEF SameBut
  <2>6. /\ Task(cn.form) = Task(c.form) /\ cn.form["gather_cmd"] = c.form["gather_cmd"]
        /\ cn.form["whatif"] = c.form["whatif"]
    BY <1>4, <1>7, NamedFields, TaskField DEF SameBut, Task
  <2>7. Sound(cn)
    BY <1>4, <2>5, <2>6 DEF Sound, SameBut, Layered
  <2>8. Sound(ApplyQuery(cn)) /\ Kept(cn, ApplyQuery(cn))
    BY <2>7, QueryApplied
  <2>9. Kept(c, ApplyQuery(cn))
    BY <1>2, <1>4, <2>6, <2>7, <2>8, ApplyQueryWrites, NamedFields DEF Kept, SameBut, Sound
  <2>10. ApplyQuery(cn).overlays = {}
    BY <1>2, <1>4, <2>7, ApplyQueryWrites DEF Sound, SameBut
  <2> QED
    BY <1>1, <1>7, <2>8, <2>9, <2>10 DEF Keeps
<1>8. CASE key # "tasktype" /\ key # "gather_query"
  <2>1. Sound(cn) /\ Kept(c, cn) /\ cn.overlays = c.overlays
    BY <1>3, <1>4, <1>8, FieldWritten
  <2> QED
    BY <1>1, <1>2, <1>8, <2>1 DEF Keeps
<1> QED
  BY <1>6, <1>7, <1>8

\* A screen is opened over the form, and closed.
LEMMA Opens ==
    ASSUME Sound(c), c.overlays = {}, NEW o \in Overlays, NEW cn, Open(o, cn),
           SameForm(c, cn), cn.overlays = {}
    PROVE  /\ SameForm(c, c') /\ c'.overlays = {o} /\ Layered(c')
           /\ c'.browseKey = cn.browseKey /\ c'.names = cn.names /\ c'.fresh = cn.fresh
BY DEF Open, Becomes, SameForm, IsConsole, ConsoleFields, Layered

\* To close the only screen leaves the form alone, and bare.
LEMMA ScreenCloses ==
    ASSUME NEW o \in Overlays, NEW cn, IsConsole(cn), cn.overlays = {o}, Close(o, cn)
    PROVE  SameForm(cn, c') /\ c'.overlays = {}
<1> DEFINE dn == [cn EXCEPT !.overlays = @ \ {o}]
<1>1. SameForm(cn, dn) /\ dn.overlays = {}
  BY DEF SameForm, IsConsole, ConsoleFields
<1>2. c' = NoScreen(dn)
  BY DEF Close, Becomes
<1> HIDE DEF dn
<1>3. SameForm(dn, c') /\ c'.overlays = dn.overlays
  BY <1>1, <1>2 DEF NoScreen, SameForm, IsConsole, ConsoleFields
<1> QED
  BY <1>1, <1>3 DEF SameForm

\* The screens are opened, each from the form.
LEMMA BrowseKeeps == ASSUME Sound(c), Browse PROVE Keeps
<1> DEFINE cn == [c EXCEPT !.browseKey = Focused.key]
<1>1. c.overlays = {} /\ Focused.kind = "text" /\ Open("browsing", cn)
  BY AtAlone DEF Browse, FormHas, Sound
<1>2. SameForm(c, cn) /\ cn.overlays = {} /\ cn.browseKey = Focused.key
  BY <1>1 DEF SameForm, Sound, IsConsole, ConsoleFields
<1> HIDE DEF cn
<1>3. SameForm(c, c') /\ c'.overlays = {"browsing"} /\ Layered(c') /\ c'.browseKey = Focused.key
  BY <1>1, <1>2, Opens DEF Overlays
<1>4. c.focus \in DOMAIN Fields /\ Fields[c.focus].key = c'.browseKey /\ Fields[c.focus].kind = "text"
  BY <1>1, <1>3 DEF Sound, Focused
<1>5. Sound(c') /\ Kept(c, c')
  BY <1>3, <1>4, ScreenChanged
<1> QED
  BY <1>3, <1>5 DEF Keeps

LEMMA OpenTaskPickerKeeps == ASSUME Sound(c), OpenTaskPicker PROVE Keeps
<1> DEFINE cn == [c EXCEPT !.taskFilter = "", !.taskCursor = 0]
<1>1. c.overlays = {} /\ Focused.key = "tasktype" /\ Open("taskPicking", cn)
  BY AtAlone DEF OpenTaskPicker
<1>2. c.focus = 1
  BY <1>1, TaskField DEF Sound, Focused
<1>3. SameForm(c, cn) /\ cn.overlays = {}
  BY <1>1 DEF SameForm, Sound, IsConsole, ConsoleFields
<1> HIDE DEF cn
<1>4. SameForm(c, c') /\ c'.overlays = {"taskPicking"} /\ Layered(c')
  BY <1>1, <1>3, Opens DEF Overlays
<1>5. Sound(c') /\ Kept(c, c')
  BY <1>2, <1>4, ScreenChanged DEF SameForm
<1> QED
  BY <1>4, <1>5 DEF Keeps

LEMMA EnterSettingsKeeps == ASSUME Sound(c), EnterSettings PROVE Keeps
<1> DEFINE cn == [c EXCEPT !.settingFocus = 1]
<1>1. c.overlays = {} /\ Open("settingsMode", cn)
  BY AtAlone DEF EnterSettings
<1>2. SameForm(c, cn) /\ cn.overlays = {}
  BY <1>1 DEF SameForm, Sound, IsConsole, ConsoleFields
<1> HIDE DEF cn
<1>3. SameForm(c, c') /\ c'.overlays = {"settingsMode"} /\ Layered(c')
  BY <1>1, <1>2, Opens DEF Overlays
<1>4. Sound(c') /\ Kept(c, c')
  BY <1>3, ScreenChanged
<1> QED
  BY <1>3, <1>4 DEF Keeps

\* esc on any screen, and a launch that fails.
LEMMA ScreenLeft == ASSUME Sound(c), NEW o \in Overlays, At(o), Close(o, c) PROVE Keeps
<1>1. c.overlays = {o} /\ IsConsole(c)
  BY AtAlone DEF Sound
<1>2. SameForm(c, c') /\ c'.overlays = {}
  BY <1>1, ScreenCloses
<1>3. Sound(c') /\ Kept(c, c')
  BY <1>2, ScreenChanged DEF Layered
<1> QED
  BY <1>2, <1>3 DEF Keeps

\* The file browser writes its path to the text field it was opened from.
LEMMA BrowseSelectKeeps == ASSUME Sound(c), BrowseSelect PROVE Keeps
<1>1. PICK path : Close("browsing", SetText(c, c.browseKey, path))
  BY DEF BrowseSelect
<1> DEFINE cn == SetText(c, c.browseKey, path)
<1>2. c.overlays = {"browsing"} /\ Receiver(c) = "browsing" /\ IsConsole(c)
  BY AtAlone DEF BrowseSelect, Overlays, At, Sound
<1>3. c.browseKey # "tasktype" /\ c.browseKey # "gather_query" /\ c.browseKey # "whatif"
  BY <1>2, TextFields DEF Sound
<1>4. SameBut({c.browseKey}, c, cn)
  BY <1>2, SetTextWrites
<1>5. c.browseKey = "gather_cmd" => Kept(c, cn)
  BY <1>2 DEF Kept
<1> HIDE DEF cn
<1>6. Sound(cn) /\ Kept(c, cn) /\ cn.overlays = c.overlays
  BY <1>3, <1>4, <1>5, FieldWritten
<1>7. SameForm(cn, c') /\ c'.overlays = {}
  BY <1>1, <1>2, <1>6, ScreenCloses DEF Overlays, Sound, cn
<1>8. Sound(c')
  BY <1>6, <1>7, ScreenChanged DEF Layered
<1>9. Kept(c, c')
  BY <1>6, <1>7 DEF Kept, SameForm
<1> QED
  BY <1>7, <1>8, <1>9 DEF Keeps

\* The picker writes the task, and has the query applied again.
LEMMA PickerEnterKeeps == ASSUME Sound(c), PickerEnter PROVE Keeps
<1> DEFINE m == TaskMatches(c)
           at == Min({c.taskCursor, Len(m) - 1})
           cn == SetSelect(c, "tasktype", m[at + 1])
<1>1. c.overlays = {"taskPicking"} /\ c.focus = 1 /\ IsConsole(c)
  BY AtAlone DEF PickerEnter, Overlays, Sound
<1>2. CASE m = <<>>
  BY <1>2, ScreenLeft DEF PickerEnter, Overlays
<1>3. CASE m # <<>>
  <2>1. Close("taskPicking", ApplyQuery(cn))
    BY <1>3 DEF PickerEnter
  <2> HIDE DEF m, at
  <2>2. /\ SameBut({"tasktype"}, c, cn)
        /\ \/ cn = c
           \/ Contains(Options(c, "tasktype"), m[at + 1]) /\ cn.form["tasktype"] = m[at + 1]
    BY <1>1, SetSelectWrites, TaskField
  <2>3. Task(c.form) \in ToSet(Verbs)
    BY <1>1, TaskField DEF Sound
  <2>4. Task(cn.form) \in ToSet(Verbs)
    BY <2>2, <2>3, TaskField DEF Options, Contains, ToSet, Task
  <2> HIDE DEF cn
  <2>5. Sound(cn) /\ Kept(c, cn) /\ cn.overlays = c.overlays
    BY <1>1, <2>2, <2>4, TaskSelected
  <2> DEFINE dn == ApplyQuery(cn)
  <2>6. Sound(dn) /\ Kept(cn, dn)
    BY <2>5, QueryApplied
  <2>7. SameBut({"gather_cmd", "gather_parse"}, cn, dn)
    BY <2>5, ApplyQueryWrites DEF Sound
  <2>8. dn.overlays = {"taskPicking"} /\ IsConsole(dn)
    BY <1>1, <2>5, <2>7 DEF SameBut
  <2>9. cn.form["gather_cmd"] = c.form["gather_cmd"]
    BY <2>2, NamedFields DEF SameBut
  <2>10. Kept(c, dn)
    BY <2>5, <2>6, <2>9, ApplyQueryWrites, <2>7, NamedFields DEF Kept, SameBut, Sound
  <2> HIDE DEF dn
  <2>11. SameForm(dn, c') /\ c'.overlays = {}
    BY <2>1, <2>8, ScreenCloses DEF Overlays, dn
  <2>12. Sound(c')
    BY <2>6, <2>11, ScreenChanged DEF Layered
  <2>13. Kept(c, c')
    BY <2>10, <2>11 DEF Kept, SameForm
  <2> QED
    BY <2>11, <2>12, <2>13 DEF Keeps
<1> QED
  BY <1>2, <1>3

\* Keys of the task picker and of the settings that write to these screens only.
LEMMA OwnKeys ==
    ASSUME Sound(c), NEW o \in {"taskPicking", "settingsMode"}, At(o),
           SameForm(c, c'), c'.overlays = c.overlays
    PROVE  Keeps
<1>1. c.overlays = {o}
  BY AtAlone DEF Overlays
<1>2. Sound(c') /\ Kept(c, c')
  BY <1>1, ScreenChanged DEF Sound, Layered, SameForm
<1> QED
  BY <1>1, <1>2 DEF Keeps

LEMMA PickerKeysKeep ==
    ASSUME Sound(c), PickerType \/ \E delta \in {-1, 1} : PickerMove(delta)
    PROVE  Keeps
<1>1. SameForm(c, c') /\ c'.overlays = c.overlays
  <2>1. CASE PickerType
    <3>1. PICK q \in TaskQuery :
              c' = [[c EXCEPT !.taskFilter = q] EXCEPT
                       !.taskCursor = Clamp(@, Len(TaskMatches([c EXCEPT !.taskFilter = q])))]
      BY <2>1 DEF PickerType, Becomes
    <3> QED
      BY <3>1 DEF SameForm, Sound, IsConsole, ConsoleFields
  <2>2. CASE \E delta \in {-1, 1} : PickerMove(delta)
    BY <2>2 DEF PickerMove, Becomes, SameForm, Sound, IsConsole, ConsoleFields
  <2> QED
    BY <2>1, <2>2
<1>2. At("taskPicking")
  BY DEF PickerType, PickerMove
<1> QED
  BY <1>1, <1>2, OwnKeys

LEMMA SettingsKeysKeep ==
    ASSUME Sound(c), SettingsType \/ \E delta \in {-1, 1} : SettingsTab(delta) \/ SettingsSelect(delta)
    PROVE  Keeps
<1>1. SameForm(c, c') /\ c'.overlays = c.overlays
  BY DEF SettingsType, SettingsTab, SettingsSelect, Becomes, SameForm, Sound, IsConsole, ConsoleFields
<1>2. At("settingsMode")
  BY DEF SettingsType, SettingsTab, SettingsSelect, SettingHas
<1> QED
  BY <1>1, <1>2, OwnKeys

\* The settings write the transport and the list of the form.
LEMMA SavesKeep == ASSUME Sound(c), Save \/ SaveFails PROVE Keeps
<1>1. c.overlays = {"settingsMode"} /\ IsConsole(c)
  BY AtAlone DEF Save, SaveFails, SettingHas, Overlays, Sound
<1>2. CASE Save
  <2>1. SameBut({"transport", "inventory"}, c, c')
    BY <1>1, <1>2, ApplySettingsWrites DEF Save
  <2>2. Sound(c') /\ Kept(c, c') /\ c'.overlays = c.overlays
    BY <2>1, FieldWritten
  <2> QED
    BY <1>1, <2>2 DEF Keeps
<1>3. CASE SaveFails
  BY <1>1, <1>3 DEF SaveFails, Keeps, Kept
<1> QED
  BY <1>2, <1>3

-----------------------------------------------------------------------------
(* What is launched.                                                       *)

\* Who was to be hit, as long as nobody has changed the lists.
Previewed == "previewing" \in c.overlays /\ c.fresh => c.names = Resolved(c.form)

\* PreviewIsHit, wherever the program is.
Hit == run.asShown => ToSet(run.targets) = ToSet(run.shown) /\ Len(run.targets) = Len(run.shown)

IInv ==
    /\ Sound(c) /\ Hit
    /\ screen = "builder" => Previewed
    /\ saved.queries \in Library

\* A shuffled list has the same targets.
LEMMA ShufflesKeepAll ==
    ASSUME NEW inv, NEW s \in Shuffles(inv)
    PROVE  ToSet(s) = ToSet(inv) /\ Len(s) = Len(inv)
<1>1. PICK p \in Bijection(DOMAIN inv, DOMAIN inv) : s = [i \in DOMAIN inv |-> inv[p[i]]]
  BY DEF Shuffles
<1>2. p \in [DOMAIN inv -> DOMAIN inv] /\ \A j \in DOMAIN inv : \E i \in DOMAIN inv : p[i] = j
  BY DEF Bijection, Surjection
<1>3. DOMAIN s = DOMAIN inv
  BY <1>1
<1>4. ToSet(s) = ToSet(inv)
  BY <1>1, <1>2 DEF ToSet
<1> QED
  BY <1>3, <1>4

\* launch resolves the list as the preview did.
LEMMA LaunchResolves == ASSUME NEW form PROVE LaunchTargets(form) = Resolved(form)
BY DEF LaunchTargets, Resolved, Match

\* A hand-off leaves a new Console behind and a run that hits what was shown.
LEMMA HandOffHits ==
    ASSUME NEW shown, NEW asShown, HandOff(shown, asShown),
           asShown => shown = Resolved(c.form)
    PROVE  Sound(c') /\ Hit' /\ screen' # "builder"
<1>1. PICK targets \in IF c.form["shuffle"] THEN Shuffles(LaunchTargets(c.form))
                                            ELSE {LaunchTargets(c.form)} :
          run'.targets = targets /\ run'.shown = shown /\ run'.asShown = asShown
  BY DEF HandOff
<1>2. ToSet(targets) = ToSet(Resolved(c.form)) /\ Len(targets) = Len(Resolved(c.form))
  BY LaunchResolves, ShufflesKeepAll
<1>3. Hit'
  BY <1>1, <1>2 DEF Hit
<1>4. c' = NewConsole(Unset) /\ screen' # "builder"
  BY DEF HandOff, Gone
<1>5. Unset.queries \in Library
  BY DEF Unset, Library
<1> QED
  BY <1>3, <1>4, <1>5, NewConsoleIsSound

\* Every step of the builder but Preview and the launches leaves no preview open.
LEMMA BuilderKeeps ==
    ASSUME Sound(c), BuilderStep, ~Preview, ~Launch, ~PreviewLaunch
    PROVE  Keeps /\ run' = run /\ screen' = screen /\ saved'.queries \in {saved.queries, <<>>}
<1> USE DEF Becomes, Open, Close
<1>1. ASSUME NEW delta \in {-1, 1}, Tab(delta)
      PROVE  Keeps /\ UNCHANGED <<run, screen, saved>>
  BY <1>1, TabKeeps DEF Tab
<1>2. ASSUME NEW delta \in {-1, 1}, SettingsTab(delta) \/ SettingsSelect(delta)
      PROVE  Keeps /\ UNCHANGED <<run, screen, saved>>
  BY <1>2, SettingsKeysKeep DEF SettingsTab, SettingsSelect
<1>3. ASSUME NEW delta \in {-1, 1}, PickerMove(delta)
      PROVE  Keeps /\ UNCHANGED <<run, screen, saved>>
  BY <1>3, PickerKeysKeep DEF PickerMove
<1>4. ASSUME NEW delta \in {-1, 0, 1}, Select(delta)
      PROVE  Keeps /\ UNCHANGED <<run, screen, saved>>
  BY <1>4, SelectKeeps DEF Select
<1>5. CASE Type
  BY <1>5, TypeKeeps DEF Type
<1>6. CASE Flick
  BY <1>6, FlickKeeps DEF Flick
<1>7. CASE AcceptService
  BY <1>7, AcceptServiceKeeps DEF AcceptService
<1>8. CASE Browse
  BY <1>8, BrowseKeeps DEF Browse
<1>9. CASE BrowseCancel
  BY <1>9, ScreenLeft DEF BrowseCancel, Overlays
<1>10. CASE BrowseSelect
  BY <1>10, BrowseSelectKeeps DEF BrowseSelect
<1>11. CASE OpenTaskPicker
  BY <1>11, OpenTaskPickerKeeps DEF OpenTaskPicker
<1>12. CASE PickerCancel
  BY <1>12, ScreenLeft DEF PickerCancel, Overlays
<1>13. CASE PickerEnter
  BY <1>13, PickerEnterKeeps DEF PickerEnter
<1>14. CASE PickerType
  BY <1>14, PickerKeysKeep DEF PickerType
<1>15. CASE EnterSettings
  BY <1>15, EnterSettingsKeeps DEF EnterSettings
<1>16. CASE SettingsCancel
  BY <1>16, ScreenLeft DEF SettingsCancel, Overlays
<1>17. CASE SettingsType
  BY <1>17, SettingsKeysKeep DEF SettingsType
<1>18. CASE Save
  BY <1>18, SavesKeep DEF Save, Written
<1>19. CASE SaveFails
  BY <1>19, SavesKeep DEF SaveFails, Unset
<1>20. CASE PreviewCancel
  BY <1>20, ScreenLeft DEF PreviewCancel, Overlays
<1>21. CASE PreviewLaunchFails
  BY <1>21, ScreenLeft DEF PreviewLaunchFails, Overlays
<1> QED
  BY <1>1, <1>2, <1>3, <1>4, <1>5, <1>6, <1>7, <1>8, <1>9, <1>10, <1>11, <1>12, <1>13, <1>14,
     <1>15, <1>16, <1>17, <1>18, <1>19, <1>20, <1>21 DEF BuilderStep

\* The preview shows what the list resolves to.
LEMMA PreviewKeeps ==
    ASSUME Sound(c), Preview
    PROVE  Sound(c') /\ Kept(c, c') /\ Previewed'
<1> DEFINE cn == [c EXCEPT !.names = Resolved(c.form), !.fresh = TRUE]
<1>1. c.overlays = {} /\ Open("previewing", cn)
  BY AtAlone DEF Preview
<1>2. SameForm(c, cn) /\ cn.overlays = {} /\ cn.names = Resolved(c.form)
  BY <1>1 DEF SameForm, Sound, IsConsole, ConsoleFields
<1> HIDE DEF cn
<1>3. /\ SameForm(c, c') /\ c'.overlays = {"previewing"} /\ Layered(c')
      /\ c'.names = Resolved(c.form)
  BY <1>1, <1>2, Opens DEF Overlays
<1>4. Sound(c') /\ Kept(c, c')
  BY <1>3, ScreenChanged
<1>5. lists' = lists
  BY <1>1 DEF Open, Becomes
<1>6. Resolved(c.form)' = Resolved(c.form)
  BY <1>3, <1>5 DEF SameForm, Resolved
<1> QED
  BY <1>3, <1>4, <1>6 DEF Previewed


\* Every step of the builder keeps the invariant, and the command.
LEMMA BuilderHolds ==
    ASSUME IInv, BuilderStep
    PROVE  IInv' /\ (screen' = "builder" => Kept(c, c'))
<1>1. Sound(c) /\ Hit /\ saved.queries \in Library
  BY DEF IInv
<1>2. CASE Preview
  <2>1. Sound(c') /\ Kept(c, c') /\ Previewed'
    BY <1>1, <1>2, PreviewKeeps
  <2>2. run' = run /\ saved' = saved
    BY <1>2 DEF Preview, Open, Becomes
  <2>3. Hit'
    BY <1>1, <2>2 DEF Hit
  <2>4. IInv'
    BY <1>1, <2>1, <2>2, <2>3 DEF IInv
  <2> QED
    BY <2>1, <2>4
<1>3. CASE Launch \/ PreviewLaunch
  <2>1. CASE Launch
    BY <2>1, <1>1, HandOffHits DEF Launch, IInv, HandOff
  <2>2. CASE PreviewLaunch
    <3>1. c.overlays = {"previewing"} /\ HandOff(c.names, c.fresh) /\ screen = "builder"
      BY <1>1, <2>2, AtAlone DEF PreviewLaunch, Overlays, At
    <3>2. c.fresh => c.names = Resolved(c.form)
      BY <3>1 DEF IInv, Previewed
    <3> QED
      BY <1>1, <3>1, <3>2, HandOffHits DEF IInv, HandOff
  <2> QED
    BY <1>3, <2>1, <2>2
<1>4. CASE ~Preview /\ ~Launch /\ ~PreviewLaunch
  <2>1. Keeps /\ run' = run /\ saved'.queries \in {saved.queries, <<>>}
    BY <1>1, <1>4, BuilderKeeps
  <2>2. saved'.queries \in Library
    <3>1. <<>> \in Library
      BY DEF Library
    <3> QED
      BY <1>1, <2>1, <3>1
  <2>3. Hit'
    BY <1>1, <2>1 DEF Hit
  <2>4. Previewed'
    BY <2>1 DEF Keeps, Previewed
  <2> QED
    BY <2>1, <2>2, <2>3, <2>4 DEF Keeps, IInv
<1> QED
  BY <1>2, <1>3, <1>4

\* A step of anything else: a new Console, or the one there is with its lists
\* changed under it.
LEMMA OthersHold ==
    ASSUME IInv, GatherStep \/ EditLists \/ Leave \/ Start \/ UNCHANGED vars
    PROVE  IInv' /\ (screen = "builder" /\ screen' = "builder" => Kept(c, c'))
<1>1. Sound(c) /\ Hit /\ saved.queries \in Library
  BY DEF IInv
<1>2. CASE GatherStep
  <2>1. c' = c /\ lists' = lists /\ saved' = saved /\ run' \in {run, NoRun}
    BY <1>2 DEF GatherStep
  <2>2. screen' # "builder"
    <3>1. ASSUME NEW rs, Load(rs, run.parse, run.os) PROVE screen' = "gather"
      BY <3>1 DEF Load
    <3>2. CASE ViewStep
      BY <3>2 DEF ViewStep, Resize, Quit, FilterKey, FilterMode, SortNext, SortFlip, GroupNext,
                  Move, Home, ToggleGroup, Listening, Browsing
    <3>3. (\E rs : Load(rs, run.parse, run.os)) \/ ViewStep
      BY <1>2 DEF GatherStep
    <3> QED
      BY <3>1, <3>2, <3>3
  <2>3. Hit'
    <3>1. CASE run' = run
      BY <1>1, <3>1 DEF Hit
    <3>2. CASE run' = NoRun
      BY <3>2 DEF Hit, NoRun
    <3> QED
      BY <2>1, <3>1, <3>2
  <2> QED
    BY <1>1, <2>1, <2>2, <2>3 DEF IInv
<1>3. CASE EditLists
  <2>1. SameForm(c, c') /\ c'.overlays = c.overlays /\ c'.browseKey = c.browseKey
    BY <1>1, <1>3 DEF EditLists, SameForm, Sound, IsConsole, ConsoleFields
  <2>2. c'.fresh => "previewing" \notin c'.overlays
    BY <1>1, <1>3 DEF EditLists, Sound, IsConsole, ConsoleFields
  <2>3. Sound(c') /\ Kept(c, c')
    BY <1>1, <2>1, ScreenChanged DEF Sound, Layered, SameForm
  <2>4. Hit' /\ saved' = saved /\ Previewed'
    BY <1>1, <1>3, <2>2 DEF EditLists, Hit, Previewed
  <2> QED
    BY <1>1, <2>3, <2>4 DEF IInv
<1>4. CASE Leave
  <2>1. c' = NewConsole(Unset) /\ screen' = "closed" /\ run' = NoRun /\ saved' = saved
    BY <1>4 DEF Leave, Gone
  <2>2. Unset.queries \in Library
    BY DEF Unset, Library
  <2>3. Sound(c')
    BY <2>1, <2>2, NewConsoleIsSound
  <2> QED
    BY <1>1, <2>1, <2>3 DEF IInv, Hit, NoRun
<1>5. CASE Start
  <2>1. Unset.queries \in Library
    BY DEF Unset, Library
  <2>2. c' \in {NewConsole(saved), NewConsole(Unset)} /\ saved' = saved /\ screen = "closed"
    BY <1>5 DEF Start, Gone
  <2>3. Sound(c') /\ c'.overlays = {}
    <3>1. Sound(NewConsole(saved)) /\ NewConsole(saved).overlays = {}
      BY <1>1, NewConsoleIsSound
    <3>2. Sound(NewConsole(Unset)) /\ NewConsole(Unset).overlays = {}
      BY <2>1, NewConsoleIsSound
    <3>3. c' = NewConsole(saved) \/ c' = NewConsole(Unset)
      BY <2>2
    <3> QED
      BY <3>1, <3>2, <3>3
  <2>4. run'.asShown = FALSE
    <3>1. NoRun.asShown = FALSE /\ \A inv : [NoRun EXCEPT !.targets = inv, !.os = OsOf].asShown = FALSE
      BY DEF NoRun
    <3>2. run' = NoRun \/ \E inv : run' = [NoRun EXCEPT !.targets = inv, !.os = OsOf]
      BY <1>5 DEF Start
    <3> QED
      BY <3>1, <3>2
  <2> QED
    BY <1>1, <2>2, <2>3, <2>4 DEF IInv, Hit, Previewed
<1>6. CASE UNCHANGED vars
  BY <1>1, <1>6 DEF IInv, vars, consoleVars, Hit, Previewed, Resolved, Kept
<1> QED
  BY <1>2, <1>3, <1>4, <1>5, <1>6

\* A program starts with a new Console and nothing launched.
LEMMA ConsoleBegins == Init => IInv
<1> SUFFICES ASSUME Init PROVE IInv
  OBVIOUS
<1>1. c = NewConsole(saved) /\ run = NoRun /\ saved.queries \in Library
  BY QueriesAssumption DEF Init, Library
<1>2. Sound(c) /\ c.overlays = {}
  BY <1>1, NewConsoleIsSound
<1> QED
  BY <1>1, <1>2 DEF IInv, Hit, NoRun, Previewed

\* Every step keeps the invariant.
LEMMA ConsoleStep == IInv /\ [Next]_vars => IInv'
<1> SUFFICES ASSUME IInv, [Next]_vars PROVE IInv'
  OBVIOUS
<1> QED
  BY BuilderHolds, OthersHold DEF Next

\* It holds of every behaviour.
LEMMA ConsoleHolds == Spec => []IInv
BY ConsoleBegins, ConsoleStep, PTL DEF Spec

\* A key goes to the screen that is drawn, and to a field that is shown.
THEOREM KeysAreSeen == Spec => []KeysGoWhereShown
<1>1. IInv => KeysGoWhereShown
  BY Receives DEF IInv, Sound, KeysGoWhereShown, Visible, Focused
<1> QED
  BY <1>1, ConsoleHolds, PTL

\* A run launched from a preview hits whom the preview showed.
THEOREM PreviewNamesTargets == Spec => []PreviewIsHit
<1>1. IInv => PreviewIsHit
  BY DEF IInv, Hit, PreviewIsHit
<1> QED
  BY <1>1, ConsoleHolds, PTL

\* Only its own field and the query selected write to the gather command.
THEOREM OwnCommandIsKept == Spec => CommandIsKept
<1> DEFINE A ==
        screen = "builder" /\ screen' = "builder"
            /\ c'.form["gather_cmd"] # c.form["gather_cmd"] =>
        \/ Receiver(c) = "form" /\ Focused.key = "gather_cmd"
        \/ Receiver(c) = "browsing" /\ c.browseKey = "gather_cmd"
        \/ /\ c'.form["gather_query"] \in DOMAIN c'.queries
           /\ c'.form["gather_cmd"] = c'.queries[c'.form["gather_query"]].cmd
<1>1. IInv /\ [Next]_vars => [A]_vars
  <2> SUFFICES ASSUME IInv, [Next]_vars PROVE A
    OBVIOUS
  <2>1. screen = "builder" /\ screen' = "builder" => Kept(c, c')
    BY BuilderHolds, OthersHold DEF Next
  <2> QED
    BY <2>1 DEF Kept, Focused
<1> QED
  BY <1>1, ConsoleHolds, PTL DEF Spec, CommandIsKept
-----------------------------------------------------------------------------
(* What the view is given.                                                 *)

\* No two targets are the same machine, in whatever case they were written.
OnceEach(inv) == \A i, j \in 1..Len(inv) : Lower[inv[i]] = Lower[inv[j]] => i = j

LEMMA OnceEachIsDistinct == ASSUME NEW inv, OnceEach(inv) PROVE Distinct(inv)
BY DEF OnceEach, Distinct

\* A list file names a target once, however often it is written there, and no
\* line that does not count.
LEMMA LoadedOnce ==
    ASSUME NEW ls \in Seq(Line)
    PROVE  LoadInventory(ls) \in Seq(Line \ Ignored) /\ OnceEach(LoadInventory(ls))
<1> DEFINE I == {i \in DOMAIN ls :
                    /\ ls[i] \notin Ignored
                    /\ \A j \in 1..(i - 1) : ls[j] \in Ignored \/ Lower[ls[j]] # Lower[ls[i]]}
           inv == LoadInventory(ls)
<1>1. inv = Keep(ls, I)
  BY DEF LoadInventory
<1>2. Len(ls) \in Nat /\ DOMAIN ls = 1..Len(ls) /\ \A i \in 1..Len(ls) : ls[i] \in Line
  BY LenProperties
<1>3. \A i \in I : /\ i \in 1..Len(ls) /\ ls[i] \notin Ignored
                   /\ \A j \in 1..(i - 1) : ls[j] \in Ignored \/ Lower[ls[j]] # Lower[ls[i]]
  BY <1>2
<1> HIDE DEF I, inv
<1>4. inv \in Seq(Line) /\ \E f : Picks(ls, I, inv, f)
  BY <1>1, KeepPicks
<1>5. PICK f : Picks(ls, I, inv, f)
  BY <1>4
<1>6. /\ \A p \in 1..Len(inv) : f[p] \in I /\ f[p] \in 1..Len(ls) /\ inv[p] = ls[f[p]]
      /\ \A p, q \in 1..Len(inv) : p < q => f[p] < f[q]
  BY <1>5 DEF Picks
<1>7. Len(inv) \in Nat /\ DOMAIN inv = 1..Len(inv)
  BY <1>4, LenProperties
<1>8. inv \in Seq(Line \ Ignored)
  <2>1. \A p \in 1..Len(inv) : inv[p] \in Line \ Ignored
    BY <1>2, <1>3, <1>6
  <2> QED
    BY <1>4, <1>7, <2>1
<1>9. ASSUME NEW p \in 1..Len(inv), NEW q \in 1..Len(inv), p < q PROVE Lower[inv[p]] # Lower[inv[q]]
  <2>1. f[p] \in I /\ f[q] \in I /\ f[p] \in 1..(f[q] - 1)
    <3>1. f[p] \in I /\ f[q] \in I /\ f[p] < f[q]
      BY <1>6, <1>9
    <3>2. f[p] \in 1..Len(ls) /\ f[q] \in 1..Len(ls)
      BY <1>6
    <3> QED
      BY <1>2, <3>1, <3>2
  <2>2. ls[f[p]] \in Ignored \/ Lower[ls[f[p]]] # Lower[ls[f[q]]]
    BY <1>3, <2>1
  <2> QED
    BY <1>3, <1>6, <2>1, <2>2
<1>10. OnceEach(inv)
  BY <1>7, <1>9 DEF OnceEach
<1> QED
  BY <1>8, <1>10 DEF inv

\* Patterns keep some of them, a shuffle all of them.
LEMMA MatchedOnce ==
    ASSUME NEW S, NEW inv \in Seq(S), OnceEach(inv), NEW patterns
    PROVE  Match(inv, patterns) \in Seq(S) /\ OnceEach(Match(inv, patterns))
<1> DEFINE I == {i \in DOMAIN inv : \E p \in patterns : Lower[inv[i]] \in Covers[p]}
           kept == Keep(inv, I)
<1>1. kept \in Seq(S) /\ \E f : Picks(inv, I, kept, f)
  BY KeepPicks
<1>2. Match(inv, patterns) = inv \/ Match(inv, patterns) = kept
  BY DEF Match
<1> HIDE DEF I, kept
<1>3. PICK f : Picks(inv, I, kept, f)
  BY <1>1
<1>4. /\ \A p \in 1..Len(kept) : f[p] \in 1..Len(inv) /\ kept[p] = inv[f[p]]
      /\ \A p, q \in 1..Len(kept) : p < q => f[p] < f[q]
  BY <1>3 DEF Picks
<1>5. Len(kept) \in Nat /\ Len(inv) \in Nat
  BY <1>1, LenProperties
<1>6. \A p, q \in 1..Len(kept) : f[p] = f[q] => p = q
  <2>1. ASSUME NEW p \in 1..Len(kept), NEW q \in 1..Len(kept), p < q PROVE f[p] # f[q]
    <3>1. f[p] \in Int /\ f[q] \in Int /\ f[p] < f[q]
      BY <1>4, <1>5, <2>1
    <3> QED
      BY <3>1
  <2> QED
    BY <1>5, <2>1
<1>7. OnceEach(kept)
  BY <1>4, <1>6 DEF OnceEach
<1> QED
  BY <1>1, <1>2, <1>7

LEMMA ShuffledOnce ==
    ASSUME NEW S, NEW inv \in Seq(S), OnceEach(inv), NEW s \in Shuffles(inv)
    PROVE  s \in Seq(S) /\ OnceEach(s)
<1>1. Len(inv) \in Nat /\ DOMAIN inv = 1..Len(inv) /\ \A i \in 1..Len(inv) : inv[i] \in S
  BY LenProperties
<1>2. PICK p \in Bijection(DOMAIN inv, DOMAIN inv) : s = [i \in DOMAIN inv |-> inv[p[i]]]
  BY DEF Shuffles
<1>3. /\ p \in [1..Len(inv) -> 1..Len(inv)]
      /\ \A i, j \in 1..Len(inv) : p[i] = p[j] => i = j
  BY <1>1, <1>2 DEF Bijection, Injection, IsInjective
<1>4. s = [i \in 1..Len(inv) |-> inv[p[i]]] /\ \A i \in 1..Len(inv) : inv[p[i]] \in S
  BY <1>1, <1>2, <1>3
<1>5. s \in Seq(S) /\ Len(s) = Len(inv)
  BY <1>1, <1>4
<1> QED
  BY <1>1, <1>3, <1>4, <1>5 DEF OnceEach

\* So what launch resolves the list to names each target once.
LEMMA TargetsOnce ==
    ASSUME lists \in Lists, NEW form, Launchable(form)
    PROVE  /\ LaunchTargets(form) \in Seq(DOMAIN NameCell)
           /\ OnceEach(LaunchTargets(form))
<1>1. /\ "ldap" \in DOMAIN lists /\ \A path \in DOMAIN lists : lists[path] \in Seq(Line)
      /\ DOMAIN NameCell = Line \ Ignored
  BY ListsAssumption
<1>2. CASE Task(form) = "ldapset"
  <2>1. LaunchTargets(form) = LoadInventory(lists["ldap"])
    BY <1>2 DEF LaunchTargets
  <2> QED
    BY <1>1, <2>1, LoadedOnce
<1>3. CASE Task(form) # "ldapset"
  <2> DEFINE inv == LoadInventory(lists[form["inventory"]])
  <2>1. form["inventory"] \in DOMAIN lists
    BY <1>3 DEF Launchable
  <2>2. inv \in Seq(DOMAIN NameCell) /\ OnceEach(inv)
    BY <1>1, <2>1, LoadedOnce
  <2>3. LaunchTargets(form) = inv \/ LaunchTargets(form) = Match(inv, Globs(form))
    BY <1>3 DEF LaunchTargets
  <2> HIDE DEF inv
  <2> QED
    BY <2>2, <2>3, MatchedOnce
<1> QED
  BY <1>2, <1>3

\* A run names each machine once, and knows the system of all or none: what comes
\* back of it is a table without a row twice.
RunReady ==
    /\ run.targets \in Seq(DOMAIN NameCell) /\ OnceEach(run.targets)
    /\ run.os = <<>> \/ run.os \in [DOMAIN NameCell -> Cell]
    /\ run.dry \in BOOLEAN

\* No run at all does.
LEMMA NoRunReady == ASSUME run = NoRun PROVE RunReady
<1>1. run.targets = <<>> /\ run.os = <<>> /\ run.dry = FALSE
  BY DEF NoRun
<1>2. <<>> \in Seq(DOMAIN NameCell) /\ OnceEach(<<>>)
  BY DEF OnceEach
<1> QED
  BY <1>1, <1>2 DEF RunReady

\* A run handed over does.
LEMMA HandOffReady ==
    ASSUME Sound(c), lists \in Lists, NEW shown, NEW asShown, HandOff(shown, asShown)
    PROVE  RunReady' /\ lists' \in Lists
<1>1. PICK targets \in IF c.form["shuffle"] THEN Shuffles(LaunchTargets(c.form))
                                            ELSE {LaunchTargets(c.form)} :
          run'.targets = targets /\ run'.dry = c.form["whatif"] /\ run'.os = <<>>
  BY DEF HandOff
<1>2. LaunchTargets(c.form) \in Seq(DOMAIN NameCell) /\ OnceEach(LaunchTargets(c.form))
  BY TargetsOnce DEF HandOff
<1>3. targets \in Seq(DOMAIN NameCell) /\ OnceEach(targets)
  BY <1>2, ShuffledOnce
<1>4. c.form["whatif"] \in BOOLEAN
  BY DEF Sound
<1>5. lists' \in Lists
  BY DEF HandOff, Gone
<1> QED
  BY <1>1, <1>3, <1>4, <1>5 DEF RunReady

\* What the builder does short of a hand-off reads the lists and no more.
LEMMA BuilderReads ==
    ASSUME BuilderStep, ~Launch, ~PreviewLaunch
    PROVE  lists' = lists /\ run' = run
BY DEF BuilderStep, Tab, SettingsTab, SettingsSelect, PickerMove, Select, Type, Flick, AcceptService,
       Browse, BrowseCancel, BrowseSelect, OpenTaskPicker, PickerCancel, PickerEnter, PickerType,
       EnterSettings, SettingsCancel, SettingsType, Save, SaveFails, Preview, PreviewCancel,
       PreviewLaunchFails, Becomes, Open, Close

\* Nothing that the builder does touches the view.
LEMMA BuilderLeavesView == ASSUME BuilderStep PROVE UNCHANGED viewVars
BY DEF BuilderStep, Tab, SettingsTab, SettingsSelect, PickerMove, Select, Type, Flick, AcceptService,
       Browse, BrowseCancel, BrowseSelect, OpenTaskPicker, PickerCancel, PickerEnter, PickerType,
       EnterSettings, SettingsCancel, SettingsType, Save, SaveFails, Preview, PreviewCancel,
       PreviewLaunchFails, Launch, PreviewLaunch, HandOff, Becomes, Open, Close

\* Every step leaves such a run, or none.
LEMMA RunHolds ==
    ASSUME Sound(c), lists \in Lists, RunReady, [Next]_vars
    PROVE  RunReady' /\ lists' \in Lists
<1>1. CASE Launch \/ PreviewLaunch
  BY <1>1, HandOffReady DEF Launch, PreviewLaunch
<1>2. ASSUME run' = run, lists' \in Lists PROVE RunReady' /\ lists' \in Lists
  BY <1>2 DEF RunReady
<1>3. CASE BuilderStep /\ ~Launch /\ ~PreviewLaunch
  BY <1>2, <1>3, BuilderReads
<1>4. ASSUME run' = NoRun PROVE RunReady'
  <2>1. run'.targets = <<>> /\ run'.os = <<>> /\ run'.dry = FALSE
    BY <1>4 DEF NoRun
  <2>2. <<>> \in Seq(DOMAIN NameCell) /\ OnceEach(<<>>)
    BY DEF OnceEach
  <2> QED
    BY <2>1, <2>2 DEF RunReady
<1>5. CASE GatherStep
  <2>1. lists' = lists /\ (run' = run \/ run' = NoRun)
    BY <1>5 DEF GatherStep
  <2> QED
    BY <1>2, <1>4, <2>1
<1>6. CASE EditLists \/ UNCHANGED vars
  BY <1>2, <1>6 DEF EditLists, vars, consoleVars
<1>7. (CHOOSE ls \in Lists : TRUE) \in Lists
  OBVIOUS
<1>8. CASE Leave
  BY <1>4, <1>7, <1>8 DEF Leave, Gone
<1>9. CASE Start
  <2>1. lists' \in Lists
    BY <1>7, <1>9 DEF Start, Gone
  <2>2. CASE run' = NoRun
    BY <1>4, <2>1, <2>2
  <2>3. CASE \E ls \in Lists : \E path \in DOMAIN ls \ {"ldap"} :
                 run' = [NoRun EXCEPT !.targets = LoadInventory(ls[path]), !.os = OsOf]
    <3>1. PICK ls \in Lists : \E path \in DOMAIN ls \ {"ldap"} :
                 run' = [NoRun EXCEPT !.targets = LoadInventory(ls[path]), !.os = OsOf]
      BY <2>3
    <3>2. PICK path \in DOMAIN ls :
                 run' = [NoRun EXCEPT !.targets = LoadInventory(ls[path]), !.os = OsOf]
      BY <3>1
    <3>3. ls[path] \in Seq(Line) /\ DOMAIN NameCell = Line \ Ignored
      BY ListsAssumption
    <3>4. /\ LoadInventory(ls[path]) \in Seq(DOMAIN NameCell)
          /\ OnceEach(LoadInventory(ls[path]))
      BY <3>3, LoadedOnce
    <3>5. run'.targets = LoadInventory(ls[path]) /\ run'.os = OsOf /\ run'.dry = FALSE
      BY <3>2 DEF NoRun
    <3>6. OsOf \in [DOMAIN NameCell -> Cell]
      BY ListsAssumption
    <3> QED
      BY <2>1, <3>4, <3>5, <3>6 DEF RunReady
  <2> QED
    BY <1>9, <2>2, <2>3 DEF Start
<1> QED
  BY <1>1, <1>3, <1>5, <1>6, <1>8, <1>9 DEF Next

-----------------------------------------------------------------------------
(* The view in the program.                                                *)

\* The program, its view included.
ProgramInv == IInv /\ lists \in Lists /\ RunReady /\ GatherInv

\* A view left alone stays as it was.
LEMMA ViewLeftAlone ==
    ASSUME GatherInv, UNCHANGED viewVars PROVE GatherInv' /\ collapsed' = collapsed
BY DEF GatherInv, Tabled, Current, CursorInView, viewVars, table, view, place

\* Every step keeps the view sound, and a fold where it was made.
LEMMA ProgramStep ==
    ASSUME ProgramInv, [Next]_vars
    PROVE  ProgramInv' /\ (collapsed' # collapsed /\ screen' = "gather" => Anchored)
<1>1. IInv /\ Sound(c) /\ lists \in Lists /\ RunReady /\ GatherInv
  BY DEF ProgramInv, IInv
<1>2. IInv' /\ RunReady' /\ lists' \in Lists
  BY <1>1, ConsoleStep, RunHolds
<1>3. GatherInv' /\ (collapsed' # collapsed /\ screen' = "gather" => Anchored)
  <2>1. CASE GatherStep
    <3>1. CASE ViewStep
      BY <1>1, <3>1, ViewHolds
    <3>2. CASE \E rs \in Results(run.targets, run.dry) : Load(rs, run.parse, run.os)
      <4>1. PICK rs \in Results(run.targets, run.dry) : Load(rs, run.parse, run.os)
        BY <3>2
      <4> QED
        BY <1>1, <4>1, LoadHolds, OnceEachIsDistinct DEF RunReady
    <3> QED
      BY <2>1, <3>1, <3>2 DEF GatherStep
  <2>2. CASE BuilderStep
    BY <1>1, <2>2, BuilderLeavesView, ViewLeftAlone
  <2>3. CASE EditLists \/ Leave \/ Start \/ UNCHANGED vars
    <3>1. UNCHANGED viewVars
      BY <2>3 DEF EditLists, Leave, Start, vars
    <3> QED
      BY <1>1, <3>1, ViewLeftAlone
  <2> QED
    BY <2>1, <2>2, <2>3 DEF Next
<1> QED
  BY <1>2, <1>3 DEF ProgramInv

\* It holds at first.
LEMMA ProgramBegins == Init => ProgramInv
<1> SUFFICES ASSUME Init PROVE ProgramInv
  OBVIOUS
<1>1. IInv /\ lists \in Lists /\ RunReady
  BY ConsoleBegins, NoRunReady DEF Init
<1>2. GatherInv
  <2>1. lines = <<>> /\ cursor = 0 /\ offset = 0 /\ height = 24 /\ loaded = FALSE
    BY DEF Init, BlankView
  <2>2. <<>> \in Seq(AnyLine)
    OBVIOUS
  <2> QED
    BY <2>1, <2>2 DEF GatherInv, CursorInView
<1> QED
  BY <1>1, <1>2 DEF ProgramInv

\* And ever after.
LEMMA ProgramHolds == Spec => []ProgramInv
<1>1. ProgramInv /\ [Next]_vars => ProgramInv'
  BY ProgramStep
<1> QED
  BY <1>1, ProgramBegins, PTL DEF Spec

\* A run never names a machine twice, however its list or the directory spells it,
\* whatever patterns and shuffling were asked for, and nothing that is not a target.
THEOREM MachinesAreHitOnce == Spec => []RunReady
<1>1. ProgramInv => RunReady
  BY DEF ProgramInv
<1> QED
  BY <1>1, ProgramHolds, PTL

\* Whatever is filtered, folded, regrouped, sorted or resized, the cursor of the
\* gather view is on a line, and the line in the window.
THEOREM CursorStaysInView == Spec => []CursorInView
<1>1. ProgramInv => CursorInView
  BY DEF ProgramInv, GatherInv
<1> QED
  BY <1>1, ProgramHolds, PTL

\* The lines show the rows of the run that match, once each, under the header of
\* their group and in order; a header counts its rows.
THEOREM LinesShowTheRun == Spec => []LinesFaithful
<1>1. ProgramInv => LinesFaithful
  BY LinesAreFaithful DEF ProgramInv
<1> QED
  BY <1>1, ProgramHolds, PTL

\* A fold leaves the cursor on its header, and the other groups as they were.
THEOREM FoldsStayPut == Spec => ToggleAnchors
<1> DEFINE A == collapsed' # collapsed /\ screen' = "gather" =>
                    \E key \in Cell :
                        /\ collapsed' = Flip(key)
                        /\ lines[Max(HeadersAbove)].key = key
                        /\ lines'[cursor' + 1].header /\ lines'[cursor' + 1].key = key
                        /\ HeadersIn(lines') = HeadersIn(lines)
<1>1. ProgramInv /\ [Next]_vars => [A]_viewVars
  <2> SUFFICES ASSUME ProgramInv, [Next]_vars PROVE A
    OBVIOUS
  <2>1. collapsed' # collapsed /\ screen' = "gather" => Anchored
    BY ProgramStep
  <2> QED
    BY <2>1 DEF Anchored
<1> QED
  BY <1>1, ProgramHolds, PTL DEF Spec, ToggleAnchors
=============================================================================
