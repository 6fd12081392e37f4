---------------------------- MODULE RankingProofs ----------------------------
(***************************************************************************)
(* What rests on sorted data, for data of every size.  First the universe: *)
(* ranking, the active list and the packet cache, with the types, the      *)
(* ranks that readers of the cache see, the place of pins and focus, and   *)
(* the fairness of the selection.  Then the book: what is computed from    *)
(* its levels, nearest first.                                              *)
(***************************************************************************)
EXTENDS Universe, BookMath, SequenceTheorems, FiniteSetTheorems, NaturalsInduction,
        WellFoundedInduction, TLAPS

-----------------------------------------------------------------------------
(***************************************************************************)
(* Induction over numbers, for sets instead of predicates.                 *)
(***************************************************************************)
LEMMA NatLeast ==
  ASSUME NEW T \in SUBSET Nat, T # {}
  PROVE  \E n \in T : \A m \in T : n <= m
<1> DEFINE Before == {p \in Nat \X Nat : p[1] < p[2]}
<1>1. IsWellFoundedOn(Before, Nat)
  BY NatLessThanWellFounded DEF OpToRel
<1>2. \E n \in T : \A m \in T : <<m, n>> \notin Before
  <2> HIDE DEF Before
  <2> QED BY <1>1, WFMin
<1>3. PICK n \in T : \A m \in T : <<m, n>> \notin Before
  BY <1>2
<1>4. \A m \in T : ~(m < n)
  BY <1>3
<1> QED BY <1>4

\* What holds of 0 and passes from each number to the next.
LEMMA UpTo ==
  ASSUME NEW n \in Nat, NEW S, 0 \in S, \A i \in 0..(n - 1) : i \in S => i + 1 \in S
  PROVE  \A i \in 0..n : i \in S
<1> DEFINE T == {i \in 0..n : i \notin S}
<1>1. SUFFICES ASSUME T # {} PROVE FALSE
  OBVIOUS
<1>2. T \in SUBSET Nat
  OBVIOUS
<1>3. PICK k \in T : \A m \in T : k <= m
  <2> HIDE DEF T
  <2> QED BY <1>1, <1>2, NatLeast
<1>4. k # 0 /\ k \in 0..n /\ k - 1 \in 0..(n - 1) /\ k - 1 < k
  BY <1>3
<1>5. k - 1 \in S
  BY <1>3, <1>4
<1> QED BY <1>3, <1>4, <1>5

\* The values after each turn of a loop of n turns.
IsRun(g, start, turn, n, V) ==
  g \in [0..n -> V] /\ g[0] = start /\ \A i \in 1..n : g[i] = turn[<<i, g[i - 1]>>]

Turns(turn, n, V) == \A i \in 1..n, v \in V : turn[<<i, v>>] \in V

LEMMA LoopRuns ==
  ASSUME NEW V, NEW n \in Nat, NEW start \in V, NEW turn, Turns(turn, n, V)
  PROVE  \E g : IsRun(g, start, turn, n, V)
<1> USE DEF IsRun, Turns
<1> DEFINE Run(g, k) == IsRun(g, start, turn, k, V)
           S == {k \in 0..n : \E g : Run(g, k)}
<1>1. 0 \in S
  <2> DEFINE h == [i \in 0..0 |-> start]
  <2>1. h \in [0..0 -> V] /\ h[0] = start
    OBVIOUS
  <2> HIDE DEF h
  <2>2. Run(h, 0)
    BY <2>1
  <2> QED BY <2>2
<1>2. ASSUME NEW k \in 0..(n - 1), k \in S PROVE k + 1 \in S
  <2>1. PICK g : Run(g, k)
    BY <1>2
  <2>2. k \in 0..k /\ k + 1 \in 1..n /\ g[k] \in V /\ turn[<<k + 1, g[k]>>] \in V
    BY <1>2, <2>1
  <2> DEFINE h == [i \in 0..(k + 1) |-> IF i = k + 1 THEN turn[<<k + 1, g[k]>>] ELSE g[i]]
  <2>3. h \in [0..(k + 1) -> V]
    BY <2>1, <2>2
  <2>4. \A i \in 0..k : h[i] = g[i]
    BY <1>2
  <2>5. h[k + 1] = turn[<<k + 1, g[k]>>]
    BY <1>2
  <2> HIDE DEF h
  <2>6. ASSUME NEW i \in 1..(k + 1) PROVE h[i] = turn[<<i, h[i - 1]>>]
    <3>1. CASE i = k + 1
      BY <3>1, <2>2, <2>4, <2>5
    <3>2. CASE i # k + 1
      <4>1. i \in 1..k /\ i \in 0..k /\ i - 1 \in 0..k
        BY <1>2, <3>2
      <4> QED BY <4>1, <2>1, <2>4
    <3> QED BY <3>1, <3>2
  <2>7. h[0] = start
    BY <1>2, <2>1, <2>4
  <2>8. Run(h, k + 1)
    BY <2>3, <2>6, <2>7
  <2>9. k + 1 \in 0..n
    BY <1>2
  <2> QED BY <2>8, <2>9
<1>3. n \in S
  <2> HIDE DEF S
  <2> QED BY <1>1, <1>2, UpTo
<1> QED BY <1>3

\* A loop has one run only: h makes the turns as long as it stays in V.
Follows(h, turn, n, V) ==
  \A i \in 1..n : h[i - 1] \in V => h[i] = turn[<<i, h[i - 1]>>]

Agree(h, g, n) == \A i \in 0..n : h[i] = g[i]

LEMMA LoopIsRun ==
  ASSUME NEW V, NEW n \in Nat, NEW start, NEW turn, NEW g, NEW h,
         IsRun(g, start, turn, n, V), h[0] = start, Follows(h, turn, n, V)
  PROVE  Agree(h, g, n)
<1> DEFINE K == {i \in 0..n : h[i] = g[i]}
<1>1. 0 \in K
  BY DEF IsRun
<1>2. ASSUME NEW i \in 0..(n - 1), i \in K PROVE i + 1 \in K
  <2>1. i + 1 \in 1..n /\ (i + 1) - 1 = i /\ i + 1 \in 0..n /\ i \in 0..n
    OBVIOUS
  <2>2. h[i] = g[i] /\ g[i] \in V
    BY <1>2, <2>1 DEF IsRun
  <2>3. g[i + 1] = turn[<<i + 1, g[i]>>]
    BY <2>1 DEF IsRun
  <2>4. h[i + 1] = turn[<<i + 1, h[i]>>]
    BY <2>1, <2>2 DEF Follows
  <2> QED BY <2>1, <2>2, <2>3, <2>4
<1>3. \A i \in 0..n : i \in K
  <2> HIDE DEF K
  <2> QED BY <1>1, <1>2, UpTo
<1> QED BY <1>3 DEF Agree

-----------------------------------------------------------------------------
(***************************************************************************)
(* Sequences.                                                              *)
(***************************************************************************)
LEMMA ElementsOf ==
  ASSUME NEW S, NEW seq \in Seq(S)
  PROVE  /\ Elements(seq) \subseteq S
         /\ IsFiniteSet(Elements(seq)) /\ Cardinality(Elements(seq)) <= Len(seq)
<1>1. Elements(seq) \subseteq S
  BY ElementOfSeq DEF Elements
<1>2. Len(seq) \in Nat
  OBVIOUS
<1> DEFINE f == [i \in 1..Len(seq) |-> seq[i]]
<1>3. f \in Surjection(1..Len(seq), Elements(seq))
  BY DEF Surjection, Elements
<1>4. ExistsSurjection(1..Len(seq), Elements(seq))
  BY <1>3 DEF ExistsSurjection
<1>5. IsFiniteSet(Elements(seq))
  BY <1>2, <1>4, FS_NatSurjection
<1>6. Cardinality(Elements(seq)) <= Len(seq)
  BY <1>2, <1>4, FS_SurjCardinalityBound
<1> QED BY <1>1, <1>5, <1>6

LEMMA ElementsAppend ==
  ASSUME NEW S, NEW seq \in Seq(S), NEW e \in S
  PROVE  Elements(Append(seq, e)) = Elements(seq) \cup {e}
<1>1. /\ Len(Append(seq, e)) = Len(seq) + 1 /\ Len(seq) \in Nat
      /\ \A i \in 1..Len(seq) : Append(seq, e)[i] = seq[i]
      /\ Append(seq, e)[Len(seq) + 1] = e
  BY AppendProperties
<1>2. \A x \in Elements(Append(seq, e)) : x \in Elements(seq) \cup {e}
  <2> TAKE x \in Elements(Append(seq, e))
  <2>1. PICK i \in 1..(Len(seq) + 1) : x = Append(seq, e)[i]
    BY <1>1 DEF Elements
  <2>2. i \in 1..Len(seq) \/ i = Len(seq) + 1
    BY <1>1
  <2> QED BY <1>1, <2>1, <2>2 DEF Elements
<1>3. \A i \in 1..Len(seq) : i \in 1..(Len(seq) + 1)
  BY <1>1
<1>4. Len(seq) + 1 \in 1..(Len(seq) + 1)
  BY <1>1
<1> QED BY <1>1, <1>2, <1>3, <1>4 DEF Elements

LEMMA FirstNType ==
  ASSUME NEW S, NEW seq \in Seq(S), NEW n \in Nat
  PROVE  /\ FirstN(seq, n) \in Seq(S)
         /\ Len(FirstN(seq, n)) = IF Len(seq) < n THEN Len(seq) ELSE n
         /\ \A i \in 1..Len(FirstN(seq, n)) : i \in 1..Len(seq) /\ FirstN(seq, n)[i] = seq[i]
<1> DEFINE m == IF Len(seq) < n THEN Len(seq) ELSE n
<1>1. Len(seq) \in Nat /\ m \in Nat /\ m <= Len(seq) /\ m <= n
  OBVIOUS
<1>2. \A i \in 1..m : i \in 1..Len(seq) /\ seq[i] \in S
  BY <1>1
<1>3. FirstN(seq, n) = SubSeq(seq, 1, m)
  BY DEF FirstN
<1> HIDE DEF m
<1>4. /\ SubSeq(seq, 1, m) \in Seq(S)
      /\ Len(SubSeq(seq, 1, m)) = IF 1 <= m THEN m - 1 + 1 ELSE 0
      /\ \A i \in 1..(m - 1 + 1) : SubSeq(seq, 1, m)[i] = seq[1 + i - 1]
  BY <1>1, <1>2, SubSeqProperties
<1>5. Len(SubSeq(seq, 1, m)) = m
  BY <1>1, <1>4
<1>6. \A i \in 1..m : SubSeq(seq, 1, m)[i] = seq[i]
  BY <1>1, <1>4
<1> QED BY <1>2, <1>3, <1>4, <1>5, <1>6 DEF m

-----------------------------------------------------------------------------
(***************************************************************************)
(* The two loops of recompute_universe, turn by turn.                      *)
(***************************************************************************)
Pushes(g, start, seq, S) ==
  /\ g \in [0..Len(seq) -> Seq(S)] /\ g[0] = start
  /\ \A i \in 1..Len(seq) : g[i] = PushNew(g[i - 1], seq[i])
  /\ FillUp(start, seq) = g[Len(seq)]

LEMMA FillUpRuns ==
  ASSUME NEW S, NEW start \in Seq(S), NEW seq \in Seq(S)
  PROVE  \E g : Pushes(g, start, seq, S)
<1>1. PICK n \in Nat : n = Len(seq)
  OBVIOUS
<1> DEFINE Body(g) == [i \in 0..n |-> IF i = 0 THEN start ELSE PushNew(g[i - 1], seq[i])]
<1>2. \A i \in 1..n, acc \in Seq(S) : PushNew(acc, seq[i]) \in Seq(S)
  BY <1>1 DEF PushNew
<1>3. PICK turn : \A i \in 1..n, acc \in Seq(S) : turn[<<i, acc>>] = PushNew(acc, seq[i])
  <2> DEFINE t == [p \in (1..n) \X Seq(S) |-> PushNew(p[2], seq[p[1]])]
  <2>1. \A i \in 1..n, acc \in Seq(S) : t[<<i, acc>>] = PushNew(acc, seq[i])
    OBVIOUS
  <2> HIDE DEF t
  <2> QED BY <2>1
<1>4. Turns(turn, n, Seq(S))
  BY <1>2, <1>3 DEF Turns
<1>5. FillUp(start, seq) = (CHOOSE g : g = Body(g))[n]
  BY <1>1 DEF FillUp
<1>6. PICK g : IsRun(g, start, turn, n, Seq(S))
  BY <1>4, LoopRuns
<1>7. \A i \in 1..n : i - 1 \in 0..n /\ g[i - 1] \in Seq(S)
  <2>1. g \in [0..n -> Seq(S)]
    BY <1>6 DEF IsRun
  <2>2. \A i \in 1..n : i - 1 \in 0..n
    OBVIOUS
  <2> QED BY <2>1, <2>2
<1>8. \A i \in 1..n : g[i] = PushNew(g[i - 1], seq[i])
  BY <1>3, <1>6, <1>7 DEF IsRun
<1>9. ASSUME NEW h, h = Body(h)
      PROVE  h = g
  <2>1. h[0] = start /\ \A i \in 1..n : h[i] = PushNew(h[i - 1], seq[i])
    BY <1>1, <1>9
  <2>2. Follows(h, turn, n, Seq(S))
    BY <1>3, <2>1 DEF Follows
  <2>3. Agree(h, g, n)
    <3>1. h[0] = start
      BY <2>1
    <3> QED BY <1>1, <1>6, <2>2, <3>1, LoopIsRun
  <2>4. h = [i \in 0..n |-> h[i]]
    BY <1>9
  <2>5. g = [i \in 0..n |-> g[i]]
    BY <1>6 DEF IsRun
  <2> QED BY <2>3, <2>4, <2>5 DEF Agree
<1>10. g = Body(g)
  <2>1. \A i \in 0..n : g[i] = IF i = 0 THEN start ELSE PushNew(g[i - 1], seq[i])
    <3> TAKE i \in 0..n
    <3>1. i = 0 \/ i \in 1..n
      BY <1>1
    <3> QED BY <1>1, <1>6, <1>8, <3>1 DEF IsRun
  <2>2. g = [i \in 0..n |-> g[i]]
    BY <1>6 DEF IsRun
  <2> QED BY <2>1, <2>2
<1>11. (CHOOSE h : h = Body(h)) = g
  <2> HIDE DEF Body
  <2> QED BY <1>9, <1>10
<1>12. FillUp(start, seq) = g[n]
  <2> HIDE DEF Body
  <2> QED BY <1>5, <1>11
<1>13. g \in [0..n -> Seq(S)] /\ g[0] = start
  BY <1>6 DEF IsRun
<1> QED BY <1>1, <1>8, <1>12, <1>13 DEF Pushes

\* Refreshes of some of the symbols, each with its place in the list.
Refreshes(ops, actives, symbols) ==
  \A i \in 1..Len(ops) : \E s \in symbols : ops[i] = Upsert(s, RankOf(actives, s))

LEMMA RefreshActiveRuns ==
  ASSUME NEW batch \in Seq(Symbols), NEW actives,
         NEW V, \A s \in Symbols : Upsert(s, RankOf(actives, s)) \in V
  PROVE  /\ RefreshActive(actives, batch) \in Seq(V)
         /\ Refreshes(RefreshActive(actives, batch), actives, Elements(actives))
<1> DEFINE n == Len(batch)
           W == {ops \in Seq(V) : Refreshes(ops, actives, Elements(actives))}
           turn == [p \in (1..n) \X W |-> p[2] \o RefreshIfActive(actives, batch[p[1]])]
           Body(g) == [i \in 0..n |->
             IF i = 0 THEN <<>> ELSE g[i - 1] \o RefreshIfActive(actives, batch[i])]
<1>1. n \in Nat
  OBVIOUS
<1>2. \A i \in 1..n, ops \in W : ops \o RefreshIfActive(actives, batch[i]) \in W
  <2> TAKE i \in 1..n, ops \in W
  <2> DEFINE s == batch[i]
             op == Upsert(s, RankOf(actives, s))
  <2>1. CASE s \notin Elements(actives)
    <3>1. RefreshIfActive(actives, s) = <<>>
      BY <2>1 DEF RefreshIfActive
    <3>2. ops \o <<>> = ops
      BY ConcatEmptySeq
    <3> QED BY <3>1, <3>2
  <2>2. CASE s \in Elements(actives)
    <3>1. RefreshIfActive(actives, s) = <<op>> /\ op \in V
      BY <2>2 DEF RefreshIfActive, Refresh
    <3> HIDE DEF op
    <3>2. ops \o <<op>> = Append(ops, op)
      BY <3>1, AppendIsConcat
    <3>3. /\ Append(ops, op) \in Seq(V) /\ Len(Append(ops, op)) = Len(ops) + 1
          /\ \A j \in 1..Len(ops) : Append(ops, op)[j] = ops[j]
          /\ Append(ops, op)[Len(ops) + 1] = op
      BY <3>1, AppendProperties
    <3>4. ASSUME NEW j \in 1..Len(Append(ops, op))
          PROVE  \E r \in Elements(actives) : Append(ops, op)[j] = Upsert(r, RankOf(actives, r))
      <4>1. CASE j = Len(ops) + 1
        BY <2>2, <3>3, <4>1 DEF op
      <4>2. CASE j # Len(ops) + 1
        <5>1. j \in 1..Len(ops)
          BY <3>3, <4>2
        <5> QED BY <3>3, <5>1 DEF Refreshes
      <4> QED BY <4>1, <4>2
    <3>5. Refreshes(Append(ops, op), actives, Elements(actives))
      BY <3>4 DEF Refreshes
    <3> QED BY <3>1, <3>2, <3>3, <3>5
  <2> QED BY <2>1, <2>2
<1>3. <<>> \in W
  BY DEF Refreshes
<1> HIDE DEF W
<1>4. Turns(turn, n, W)
  BY <1>2 DEF Turns
<1>5. \A i \in 1..n, ops \in W :
        turn[<<i, ops>>] = ops \o RefreshIfActive(actives, batch[i])
  OBVIOUS
<1>6. RefreshActive(actives, batch) = (CHOOSE g : g = Body(g))[n]
  BY DEF RefreshActive
<1> HIDE DEF n, turn
<1>7. PICK g : IsRun(g, <<>>, turn, n, W)
  BY <1>1, <1>3, <1>3, <1>4, LoopRuns
<1>8. \A i \in 1..n : i - 1 \in 0..n /\ g[i - 1] \in W
  BY <1>1, <1>7 DEF IsRun
<1>9. \A i \in 1..n : g[i] = g[i - 1] \o RefreshIfActive(actives, batch[i])
  BY <1>5, <1>7, <1>8 DEF IsRun
<1>10. ASSUME NEW h, h = Body(h)
       PROVE  h = g
  <2>1. /\ h[0] = <<>>
        /\ \A i \in 1..n : h[i] = h[i - 1] \o RefreshIfActive(actives, batch[i])
    BY <1>1, <1>10
  <2>2. Follows(h, turn, n, W)
    BY <1>5, <2>1 DEF Follows
  <2>3. Agree(h, g, n)
    <3>1. h[0] = <<>>
      BY <2>1
    <3> QED BY <1>1, <1>7, <2>2, <3>1, LoopIsRun
  <2>4. h = [i \in 0..n |-> h[i]]
    BY <1>10
  <2>5. g = [i \in 0..n |-> g[i]]
    BY <1>7 DEF IsRun
  <2> QED BY <2>3, <2>4, <2>5 DEF Agree
<1>11. g = Body(g)
  <2>1. \A i \in 0..n :
          g[i] = IF i = 0 THEN <<>> ELSE g[i - 1] \o RefreshIfActive(actives, batch[i])
    <3> TAKE i \in 0..n
    <3>1. i = 0 \/ i \in 1..n
      BY <1>1
    <3> QED BY <1>1, <1>7, <1>9, <3>1 DEF IsRun
  <2>2. g = [i \in 0..n |-> g[i]]
    BY <1>7 DEF IsRun
  <2> QED BY <2>1, <2>2
<1>12. (CHOOSE h : h = Body(h)) = g
  <2> HIDE DEF Body
  <2> QED BY <1>10, <1>11
<1>13. RefreshActive(actives, batch) \in W
  <2> HIDE DEF Body
  <2>1. n \in 0..n /\ g[n] \in W
    BY <1>1, <1>7 DEF IsRun
  <2> QED BY <2>1, <1>6, <1>12
<1> QED BY <1>13 DEF W

-----------------------------------------------------------------------------
(***************************************************************************)
(* What the loops make: no symbol twice, no more than ActiveN, everything  *)
(* that was offered before the list was full.                              *)
(***************************************************************************)
Distinct(seq) == \A i, j \in 1..Len(seq) : seq[i] = seq[j] => i = j

UpToPlace(seq, i) == {seq[k] : k \in 1..i}

\* The list after i turns.
FilledSoFar(start, seq, i, acc) ==
  /\ Distinct(acc) /\ Len(acc) <= ActiveN /\ Len(acc) <= Len(start) + i
  /\ Elements(start) \subseteq Elements(acc)
  /\ Elements(acc) \subseteq Elements(start) \cup UpToPlace(seq, i)
  /\ \A k \in 1..i :
       \/ seq[k] \in Elements(acc)
       \/ /\ Len(acc) = ActiveN /\ Len(start) + k > ActiveN
          /\ Elements(acc) \subseteq Elements(start) \cup UpToPlace(seq, k - 1)

LEMMA DistinctAppend ==
  ASSUME NEW S, NEW seq \in Seq(S), Distinct(seq), NEW e \in S, e \notin Elements(seq)
  PROVE  Distinct(Append(seq, e))
<1> SUFFICES ASSUME NEW i \in 1..Len(Append(seq, e)), NEW j \in 1..Len(Append(seq, e)),
                    Append(seq, e)[i] = Append(seq, e)[j]
             PROVE  i = j
  BY DEF Distinct
<1>1. /\ Len(Append(seq, e)) = Len(seq) + 1 /\ Len(seq) \in Nat
      /\ \A k \in 1..Len(seq) : Append(seq, e)[k] = seq[k]
      /\ Append(seq, e)[Len(seq) + 1] = e
  BY AppendProperties
<1>2. \A k \in 1..Len(seq) : seq[k] # e
  BY DEF Elements
<1>3. \A k \in 1..Len(Append(seq, e)) : k \in 1..Len(seq) \/ k = Len(seq) + 1
  BY <1>1
<1> QED BY <1>1, <1>2, <1>3 DEF Distinct

LEMMA PushNewKeeps ==
  ASSUME NEW S, NEW start \in Seq(S), NEW seq \in Seq(S), NEW i \in 0..(Len(seq) - 1),
         NEW acc \in Seq(S), FilledSoFar(start, seq, i, acc)
  PROVE  FilledSoFar(start, seq, i + 1, PushNew(acc, seq[i + 1]))
<1> DEFINE e == seq[i + 1]
<1>1. /\ i \in Nat /\ i + 1 \in 1..Len(seq) /\ e \in S /\ Len(acc) \in Nat
      /\ Len(start) \in Nat /\ (i + 1) - 1 = i /\ ActiveN \in Nat
  BY SizeAssumption
<1>2. /\ UpToPlace(seq, i) \subseteq UpToPlace(seq, i + 1)
      /\ e \in UpToPlace(seq, i + 1)
  <2>1. \A k \in 1..i : k \in 1..(i + 1)
    BY <1>1
  <2>2. i + 1 \in 1..(i + 1)
    BY <1>1
  <2> QED BY <2>1, <2>2 DEF UpToPlace
<1>3. \A k \in 1..(i + 1) : k \in 1..i \/ k = i + 1
  BY <1>1
<1>4. CASE Len(acc) >= ActiveN \/ e \in Elements(acc)
  <2>1. PushNew(acc, e) = acc
    BY <1>4 DEF PushNew
  <2>2. /\ Distinct(acc) /\ Len(acc) <= ActiveN /\ Len(acc) <= Len(start) + (i + 1)
        /\ Elements(start) \subseteq Elements(acc)
        /\ Elements(acc) \subseteq Elements(start) \cup UpToPlace(seq, i + 1)
    BY <1>1, <1>2 DEF FilledSoFar
  <2>3. e \in Elements(acc) \/
          (/\ Len(acc) = ActiveN /\ Len(start) + (i + 1) > ActiveN
           /\ Elements(acc) \subseteq Elements(start) \cup UpToPlace(seq, (i + 1) - 1))
    BY <1>1, <1>4 DEF FilledSoFar
  <2> QED BY <1>3, <2>1, <2>2, <2>3 DEF FilledSoFar
<1>5. CASE Len(acc) < ActiveN /\ e \notin Elements(acc)
  <2> DEFINE new == Append(acc, e)
  <2>1. PushNew(acc, e) = new
    BY <1>1, <1>5 DEF PushNew
  <2>2. Len(new) = Len(acc) + 1 /\ Elements(new) = Elements(acc) \cup {e}
    BY <1>1, AppendProperties, ElementsAppend
  <2>3. Distinct(new)
    BY <1>1, <1>5, DistinctAppend DEF FilledSoFar
  <2> HIDE DEF new
  <2>4. Len(new) <= ActiveN /\ Len(new) <= Len(start) + (i + 1)
    BY <1>1, <1>5, <2>2 DEF FilledSoFar
  <2>5. /\ Elements(start) \subseteq Elements(new)
        /\ Elements(new) \subseteq Elements(start) \cup UpToPlace(seq, i + 1)
    BY <1>2, <2>2 DEF FilledSoFar
  <2>6. \A k \in 1..i : seq[k] \in Elements(acc)
    BY <1>1, <1>5 DEF FilledSoFar
  <2>7. \A k \in 1..(i + 1) : seq[k] \in Elements(new)
    BY <1>3, <2>2, <2>6
  <2> QED BY <2>1, <2>3, <2>4, <2>5, <2>7 DEF FilledSoFar
<1> QED BY <1>1, <1>4, <1>5

LEMMA FillUpFilled ==
  ASSUME NEW S, NEW start \in Seq(S), Distinct(start), Len(start) <= ActiveN, NEW seq \in Seq(S)
  PROVE  FillUp(start, seq) \in Seq(S) /\ FilledSoFar(start, seq, Len(seq), FillUp(start, seq))
<1>0. PICK g : Pushes(g, start, seq, S)
  BY FillUpRuns
<1>1. /\ g \in [0..Len(seq) -> Seq(S)] /\ g[0] = start
      /\ \A i \in 1..Len(seq) : g[i] = PushNew(g[i - 1], seq[i])
      /\ FillUp(start, seq) = g[Len(seq)]
  BY <1>0 DEF Pushes
<1>2. PICK n \in Nat : n = Len(seq)
  OBVIOUS
<1> DEFINE K == {i \in 0..n : FilledSoFar(start, seq, i, g[i])}
<1>3. 0 \in K
  <2>1. Len(start) \in Nat /\ Len(start) <= Len(start) + 0
    OBVIOUS
  <2>2. FilledSoFar(start, seq, 0, start)
    BY <2>1 DEF FilledSoFar
  <2> QED BY <1>1, <1>2, <2>2
<1>4. ASSUME NEW i \in 0..(n - 1), i \in K PROVE i + 1 \in K
  <2>1. i + 1 \in 1..n /\ i + 1 \in 0..n /\ (i + 1) - 1 = i /\ i \in 0..n
    BY <1>2
  <2>2. g[i + 1] = PushNew(g[i], seq[i + 1]) /\ g[i] \in Seq(S)
    BY <1>1, <1>2, <2>1
  <2>3. FilledSoFar(start, seq, i, g[i])
    BY <1>4
  <2>4. FilledSoFar(start, seq, i + 1, PushNew(g[i], seq[i + 1]))
    BY <1>2, <2>2, <2>3, PushNewKeeps
  <2> QED BY <2>1, <2>2, <2>4
<1>5. \A i \in 0..n : i \in K
  <2> HIDE DEF K
  <2> QED BY <1>2, <1>3, <1>4, UpTo
<1>6. n \in 0..n
  BY <1>2
<1> QED BY <1>1, <1>2, <1>5, <1>6

-----------------------------------------------------------------------------
(***************************************************************************)
(* The place of a symbol in a list.                                        *)
(***************************************************************************)
LEMMA RankOfPlace ==
  ASSUME NEW S, NEW actives \in Seq(S), NEW s \in Elements(actives)
  PROVE  RankOf(actives, s) \in 1..Len(actives) /\ actives[RankOf(actives, s)] = s
<1> DEFINE T == {i \in 1..Len(actives) : actives[i] = s}
<1>1. T \in SUBSET Nat /\ T # {}
  BY DEF Elements
<1>2. PICK k \in T : \A m \in T : k <= m
  <2> HIDE DEF T
  <2> QED BY <1>1, NatLeast
<1>3. k \in 1..Len(actives) /\ actives[k] = s /\ \A j \in 1..(k - 1) : actives[j] # s
  <2>1. Len(actives) \in Nat /\ k \in 1..Len(actives) /\ actives[k] = s
    BY <1>2
  <2>2. \A j \in 1..(k - 1) : j \in 1..Len(actives) /\ ~(k <= j)
    BY <2>1
  <2> QED BY <1>2, <2>1, <2>2
<1>4. RankOf(actives, s) = CHOOSE i \in 1..Len(actives) :
                             actives[i] = s /\ \A j \in 1..(i - 1) : actives[j] # s
  BY DEF RankOf
<1> QED BY <1>3, <1>4

LEMMA RankOfRange ==
  ASSUME NEW S, NEW actives \in Seq(S), Len(actives) <= ActiveN, NEW s
  PROVE  RankOf(actives, s) \in 1..ActiveN
<1>1. ActiveN \in Nat \ {0} /\ Len(actives) \in Nat
  BY SizeAssumption
<1>2. CASE s \in Elements(actives)
  <2>1. RankOf(actives, s) \in 1..Len(actives)
    BY <1>2, RankOfPlace
  <2> QED BY <1>1, <2>1
<1>3. CASE s \notin Elements(actives)
  BY <1>1, <1>3 DEF RankOf
<1> QED BY <1>2, <1>3

LEMMA RankOfDistinct ==
  ASSUME NEW S, NEW actives \in Seq(S), Distinct(actives), NEW i \in 1..Len(actives)
  PROVE  RankOf(actives, actives[i]) = i
<1>1. actives[i] \in Elements(actives)
  BY DEF Elements
<1>2. RankOf(actives, actives[i]) \in 1..Len(actives)
  BY <1>1, RankOfPlace
<1>3. actives[RankOf(actives, actives[i])] = actives[i]
  BY <1>1, RankOfPlace
<1> QED BY <1>2, <1>3 DEF Distinct

LEMMA DistinctLen ==
  ASSUME NEW S, NEW seq \in Seq(S), Distinct(seq)
  PROVE  Cardinality(Elements(seq)) = Len(seq)
<1> DEFINE f == [i \in 1..Len(seq) |-> seq[i]]
<1>1. f \in Injection(1..Len(seq), Elements(seq))
  BY DEF Injection, IsInjective, Elements, Distinct
<1>2. Len(seq) \in Nat /\ Cardinality(1..Len(seq)) = Len(seq) 
  <2>1. Len(seq) \in Nat
    OBVIOUS
  <2>2. Len(seq) \in Int /\ 1 \in Int
    BY <2>1
  <2>3. Cardinality(1..Len(seq)) = IF 1 > Len(seq) THEN 0 ELSE Len(seq) - 1 + 1
    BY <2>2, FS_Interval
  <2> QED BY <2>1, <2>3
<1>3. IsFiniteSet(Elements(seq)) /\ Cardinality(Elements(seq)) <= Len(seq)
  BY ElementsOf
<1>4. Len(seq) <= Cardinality(Elements(seq))
  <2>1. Cardinality(1..Len(seq)) <= Cardinality(Elements(seq))
    <3> HIDE DEF f
    <3> QED BY <1>1, <1>3, FS_Injection
  <2> QED BY <1>2, <2>1
<1>5. Cardinality(Elements(seq)) \in Nat
  BY <1>3, FS_CardinalityType
<1> QED BY <1>2, <1>3, <1>4, <1>5

-----------------------------------------------------------------------------
(***************************************************************************)
(* Places in the strict total order that scores and numbers make, and      *)
(* rank_u0_universe: the first ActiveN of it.                              *)
(***************************************************************************)
LEMMA RanksBeforeOrder ==
  ASSUME NEW X \in SUBSET Nat, NEW scores, \A s \in X : scores[s] \in Int
  PROVE  /\ \A a \in X : ~RanksBefore(scores, a, a)
         /\ \A a, b \in X :
              a # b => RanksBefore(scores, a, b) \/ RanksBefore(scores, b, a)
         /\ \A a, b, c \in X :
              RanksBefore(scores, a, b) /\ RanksBefore(scores, b, c) => RanksBefore(scores, a, c)
<1>1. \A a \in X : a \in Nat /\ scores[a] \in Int
  OBVIOUS
<1> QED BY <1>1 DEF RanksBefore

Place(X, scores, s) == 1 + Cardinality({r \in X : RanksBefore(scores, r, s)})

LEMMA PlaceOrder ==
  ASSUME NEW X \in SUBSET Nat, IsFiniteSet(X), NEW scores, \A s \in X : scores[s] \in Int
  PROVE  /\ \A s \in X : Place(X, scores, s) \in 1..Cardinality(X)
         /\ \A a, b \in X : RanksBefore(scores, a, b) => Place(X, scores, a) < Place(X, scores, b)
<1> DEFINE Above(s) == {r \in X : RanksBefore(scores, r, s)}
<1>1. IsFiniteSet(X)
  OBVIOUS
<1>2. ASSUME NEW A \in SUBSET X, NEW B \in SUBSET X, A \subseteq B, A # B
      PROVE  Cardinality(A) \in Nat /\ Cardinality(B) \in Nat /\ Cardinality(A) < Cardinality(B)
  <2>1. IsFiniteSet(A) /\ IsFiniteSet(B)
    BY <1>1, FS_Subset
  <2>2. Cardinality(A) \in Nat /\ Cardinality(B) \in Nat
    BY <2>1, FS_CardinalityType
  <2>3. Cardinality(A) <= Cardinality(B) /\ Cardinality(A) # Cardinality(B)
    BY <1>2, <2>1, FS_Subset
  <2> QED BY <2>2, <2>3
<1>3. \A s \in X : Above(s) \in SUBSET X /\ Above(s) # X
  BY RanksBeforeOrder
<1>4. ASSUME NEW s \in X PROVE Place(X, scores, s) \in 1..Cardinality(X)
  <2>1. /\ Cardinality(Above(s)) \in Nat /\ Cardinality(X) \in Nat
        /\ Cardinality(Above(s)) < Cardinality(X)
    <3> HIDE DEF Above
    <3> QED BY <1>2, <1>3
  <2>2. Place(X, scores, s) = 1 + Cardinality(Above(s))
    BY DEF Place
  <2> HIDE DEF Above
  <2> QED BY <2>1, <2>2
<1>5. ASSUME NEW a \in X, NEW b \in X, RanksBefore(scores, a, b)
      PROVE  Place(X, scores, a) < Place(X, scores, b)
  <2>1. Above(a) \subseteq Above(b) /\ a \in Above(b) /\ a \notin Above(a)
    BY <1>5, RanksBeforeOrder
  <2>2. /\ Cardinality(Above(a)) \in Nat /\ Cardinality(Above(b)) \in Nat
        /\ Cardinality(Above(a)) < Cardinality(Above(b))
    <3>1. Above(a) \in SUBSET X /\ Above(b) \in SUBSET X
      OBVIOUS
    <3> HIDE DEF Above
    <3> QED BY <1>2, <2>1, <3>1
  <2>3. Place(X, scores, a) = 1 + Cardinality(Above(a)) /\ Place(X, scores, b) = 1 + Cardinality(Above(b))
    BY DEF Place
  <2> HIDE DEF Above
  <2> QED BY <2>2, <2>3
<1> QED BY <1>1, <1>4, <1>5

\* Every place is taken.
LEMMA PlaceTaken ==
  ASSUME NEW X \in SUBSET Nat, IsFiniteSet(X), NEW scores, \A s \in X : scores[s] \in Int
  PROVE  \A i \in 1..Cardinality(X) : \E s \in X : Place(X, scores, s) = i
<1> DEFINE f == [s \in X |-> Place(X, scores, s)]
           n == Cardinality(X)
<1>1. IsFiniteSet(X) /\ n \in Nat
  BY PlaceOrder, FS_CardinalityType
<1>2. f \in [X -> 1..n]
  BY PlaceOrder
<1>3. \A a, b \in X : f[a] = f[b] => a = b
  <2> SUFFICES ASSUME NEW a \in X, NEW b \in X, a # b PROVE f[a] # f[b]
    OBVIOUS
  <2>1. RanksBefore(scores, a, b) \/ RanksBefore(scores, b, a)
    BY RanksBeforeOrder
  <2>2. f[a] < f[b] \/ f[b] < f[a]
    BY <2>1, PlaceOrder
  <2>3. f[a] \in Int /\ f[b] \in Int
    BY <1>1, <1>2
  <2> QED BY <2>2, <2>3
<1>4. f \in Injection(X, 1..n)
  BY <1>2, <1>3 DEF Injection, IsInjective
<1>5. IsFiniteSet(1..n) /\ Cardinality(1..n) = n
  <2>1. n \in Int /\ 1 \in Int
    BY <1>1
  <2> HIDE DEF n
  <2>2. IsFiniteSet(1..n) /\ Cardinality(1..n) = IF 1 > n THEN 0 ELSE n - 1 + 1
    BY <2>1, FS_Interval
  <2> QED BY <1>1, <2>2
<1>6. f \in Surjection(X, 1..n)
  <2> HIDE DEF f
  <2> QED BY <1>4, <1>5, FS_Injection
<1>7. \A i \in 1..n : \E s \in X : f[s] = i
  BY <1>6 DEF Surjection
<1> QED BY <1>7

\* What rank_u0_universe returns.
RankedWell(r, X, scores) ==
  /\ r \in Seq(Symbols) /\ Len(r) <= ActiveN /\ Elements(r) \subseteq X /\ Distinct(r)
  /\ \A a \in X, i \in 1..Len(r) :
       a \notin Elements(r) => RanksBefore(scores, r[i], a)
  /\ \A i, j \in 1..Len(r) : i < j => RanksBefore(scores, r[i], r[j])

LEMMA RankedIsWell ==
  ASSUME NEW scores \in [Symbols -> Int], NEW states \in SUBSET Symbols
  PROVE  RankedWell(Ranked(states, scores), Scored(states, scores), scores)
<1> DEFINE X == Scored(states, scores)
           n == Cardinality(X)
           all == [i \in 1..n |-> CHOOSE s \in X : Place(X, scores, s) = i]
           r == Ranked(states, scores)
<1>0. X \in SUBSET Symbols
  BY DEF Scored
<1>1. X \in SUBSET Nat /\ IsFiniteSet(X) /\ \A s \in X : scores[s] \in Int
  <2> HIDE DEF X
  <2>1. IsFiniteSet(X)
    BY <1>0, SymbolsAssumption, FS_Subset
  <2> QED BY <1>0, <2>1, SymbolsAssumption
<1>2. r = FirstN(all, ActiveN)
  BY DEF Ranked, Place
<1> HIDE DEF X
<1>3. n \in Nat
  BY <1>1, PlaceOrder, FS_CardinalityType
<1> HIDE DEF n
<1>4. \A i \in 1..n : all[i] \in X /\ Place(X, scores, all[i]) = i
  BY <1>1, PlaceTaken DEF n
<1>5. all \in Seq(Symbols) /\ Len(all) = n
  BY <1>0, <1>3, <1>4
<1> HIDE DEF r, all
<1>6. /\ r \in Seq(Symbols) /\ Len(r) = IF n < ActiveN THEN n ELSE ActiveN
      /\ \A i \in 1..Len(r) : i \in 1..n /\ r[i] = all[i]
  BY <1>2, <1>5, SizeAssumption, FirstNType
<1>7. Len(r) <= ActiveN /\ Len(r) \in Nat /\ Len(r) <= n
  BY <1>3, <1>6, SizeAssumption
<1>8. \A i \in 1..Len(r) : r[i] \in X /\ Place(X, scores, r[i]) = i
  BY <1>4, <1>6
<1>9. Elements(r) \subseteq X /\ Distinct(r)
  BY <1>8 DEF Elements, Distinct
<1>10. ASSUME NEW a \in X, NEW b \in X, Place(X, scores, a) < Place(X, scores, b)
       PROVE  RanksBefore(scores, a, b)
  <2>1. Place(X, scores, a) \in Int /\ Place(X, scores, b) \in Int
    BY <1>1, <1>3, PlaceOrder DEF n
  <2>2. a # b /\ ~RanksBefore(scores, b, a)
    BY <1>1, <1>10, <2>1, PlaceOrder
  <2> QED BY <1>1, <2>2, RanksBeforeOrder
<1>11. ASSUME NEW i \in 1..Len(r), NEW j \in 1..Len(r), i < j
       PROVE  RanksBefore(scores, r[i], r[j])
  BY <1>8, <1>10, <1>11
<1>12. ASSUME NEW a \in X, NEW i \in 1..Len(r), a \notin Elements(r)
       PROVE  RanksBefore(scores, r[i], a)
  <2>1. PICK k : k = Place(X, scores, a)
    OBVIOUS
  <2>2. k \in 1..n
    BY <1>1, <2>1, PlaceOrder DEF n
  <2>3. all[k] = a
    <3>1. all[k] \in X /\ Place(X, scores, all[k]) = k
      BY <1>4, <2>2
    <3>2. ~RanksBefore(scores, a, all[k]) /\ ~RanksBefore(scores, all[k], a)
      <4>1. k \in Int /\ ~(k < k)
        BY <1>3, <2>2
      <4>2. \A b, c \in X : RanksBefore(scores, b, c) => Place(X, scores, b) < Place(X, scores, c)
        BY <1>1, PlaceOrder
      <4> QED BY <2>1, <3>1, <4>1, <4>2
    <3> QED BY <1>1, <3>1, <3>2, RanksBeforeOrder
  <2>4. k \notin 1..Len(r)
    BY <1>6, <1>12, <2>3 DEF Elements
  <2>5. i < k
    BY <1>3, <1>7, <2>2, <2>4
  <2> QED BY <1>8, <1>10, <2>1, <2>5
<1> QED BY <1>6, <1>7, <1>9, <1>11, <1>12 DEF RankedWell, X, r

-----------------------------------------------------------------------------
(***************************************************************************)
(* The active list that recompute_universe makes.                          *)
(***************************************************************************)
ActiveWell(act, r) ==
  /\ act \in Seq(Symbols) /\ Distinct(act) /\ Len(act) <= ActiveN
  /\ Elements(Pinned) \subseteq Elements(act)
  /\ Elements(act) \subseteq Elements(Pinned) \cup Elements(r)
  /\ \A k \in 1..Len(r) :
       \/ r[k] \in Elements(act)
       \/ /\ Cardinality(Elements(Pinned)) + k > ActiveN
          /\ Elements(act) \subseteq Elements(Pinned) \cup UpToPlace(r, k - 1)

LEMMA CanonicalType ==
  ASSUME NEW limit \in Nat
  PROVE  /\ Canonical(limit) \in Seq(Symbols) /\ Len(Canonical(limit)) <= limit
         /\ Len(Canonical(limit)) \in Nat
         /\ \A i \in 1..Len(Canonical(limit)) :
              i \in 1..Len(AlwaysFocus) /\ Canonical(limit)[i] = AlwaysFocus[i]
<1>1. AlwaysFocus \in Seq(Symbols) /\ Len(AlwaysFocus) \in Nat
  BY SymbolsAssumption
<1>2. /\ Canonical(limit) \in Seq(Symbols)
      /\ Len(Canonical(limit)) = IF Len(AlwaysFocus) < limit THEN Len(AlwaysFocus) ELSE limit
      /\ \A i \in 1..Len(Canonical(limit)) :
           i \in 1..Len(AlwaysFocus) /\ Canonical(limit)[i] = AlwaysFocus[i]
  BY <1>1, FirstNType DEF Canonical
<1>3. Len(Canonical(limit)) \in Nat /\ Len(Canonical(limit)) <= limit
  BY <1>1, <1>2
<1> QED BY <1>2, <1>3

LEMMA UpToLast ==
  ASSUME NEW seq
  PROVE  UpToPlace(seq, Len(seq)) = Elements(seq)
BY DEF UpToPlace, Elements

LEMMA ActiveFromIsWell ==
  ASSUME NEW r \in Seq(Symbols)
  PROVE  ActiveWell(ActiveFrom(r), r)
<1> DEFINE p == FillUp(<<>>, Pinned)
           act == FillUp(p, r)
<1>0. ActiveFrom(r) = act
  BY DEF ActiveFrom
<1>1. ActiveN \in Nat /\ ActiveN > 0
  BY SizeAssumption
<1>2. Pinned \in Seq(Symbols) /\ Len(Pinned) <= ActiveN /\ Len(Pinned) \in Nat
  BY <1>1, CanonicalType DEF Pinned
<1>3. /\ <<>> \in Seq(Symbols) /\ Distinct(<<>>) /\ Len(<<>>) <= ActiveN
      /\ Elements(<<>>) = {} /\ Len(<<>>) = 0
  BY <1>1 DEF Distinct, Elements
<1>4. p \in Seq(Symbols) /\ FilledSoFar(<<>>, Pinned, Len(Pinned), p)
  BY <1>2, <1>3, FillUpFilled
<1>5. Distinct(p) /\ Len(p) <= ActiveN
  BY <1>4 DEF FilledSoFar
<1> HIDE DEF p
<1>6. Elements(p) = Elements(Pinned)
  <2>1. Elements(p) \subseteq Elements(Pinned)
    BY <1>3, <1>4, UpToLast DEF FilledSoFar
  <2>2. \A k \in 1..Len(Pinned) : ~(0 + k > ActiveN)
    BY <1>1, <1>2
  <2>3. \A k \in 1..Len(Pinned) : Pinned[k] \in Elements(p)
    BY <1>3, <1>4, <2>2 DEF FilledSoFar
  <2>4. Elements(Pinned) \subseteq Elements(p)
    BY <2>3 DEF Elements
  <2> QED BY <2>1, <2>4
<1>7. Len(p) = Cardinality(Elements(Pinned))
  BY <1>4, <1>5, <1>6, DistinctLen
<1>8. act \in Seq(Symbols) /\ FilledSoFar(p, r, Len(r), act)
  BY <1>4, <1>5, FillUpFilled
<1> HIDE DEF act
<1> QED BY <1>0, <1>6, <1>7, <1>8, UpToLast DEF ActiveWell, FilledSoFar

-----------------------------------------------------------------------------
(***************************************************************************)
(* The inductive invariant: between two handlers every packet has its      *)
(* place; in the middle of one, the operations still to come set right     *)
(* every packet that is not.                                               *)
(***************************************************************************)
Watched == Elements(active) \cup Elements(AlwaysFocus)

WatchedBefore == Elements(previous) \cup Elements(AlwaysFocus)

Settling ==
  /\ Refreshes(pending, active, Watched)
  /\ \A s \in DOMAIN cache :
       /\ s \in Watched
       /\ \/ cache[s] = RankOf(active, s)
          \/ /\ s \in WatchedBefore /\ cache[s] = RankOf(previous, s)
             /\ \E i \in 1..Len(pending) : pending[i] = Upsert(s, RankOf(active, s))

\* The retain operation is the k-th from here.
RetainAt(k) ==
  /\ \A i \in 1..(k - 1) :
       \E s \in Elements(previous) : pending[i] = Upsert(s, RankOf(previous, s))
  /\ pending[k] = Retain(Elements(active))
  /\ Len(pending) = k + Len(active)
  /\ \A i \in 1..Len(active) : pending[k + i] = Upsert(active[i], RankOf(active, active[i]))

Recomputing ==
  /\ \E k \in 1..Len(pending) : RetainAt(k)
  /\ \A s \in DOMAIN cache : s \in WatchedBefore /\ cache[s] = RankOf(previous, s)

IndInv ==
  /\ TypeOK
  /\ previous \in Seq(Symbols) /\ Len(previous) <= ActiveN
  /\ Settling \/ Recomputing

\* Between two handlers the cache is right.
LEMMA IdleSettled ==
  ASSUME IndInv, Idle
  PROVE  \A s \in DOMAIN cache : s \in Watched /\ cache[s] = RankOf(active, s)
<1>1. Len(pending) = 0
  BY DEF Idle
<1>2. ~Recomputing
  BY <1>1 DEF Recomputing
<1> QED BY <1>1, <1>2 DEF IndInv, Settling

LEMMA InitInd == Init => IndInv
<1> SUFFICES ASSUME Init PROVE IndInv
  OBVIOUS
<1>1. ActiveN \in Nat /\ FocusN \in Nat /\ MaxScore \in Nat
  BY SizeAssumption
<1>2. /\ active \in Seq(Symbols) /\ Len(active) <= ActiveN
      /\ previous \in Seq(Symbols) /\ Len(previous) <= ActiveN
      /\ focus \in Seq(Symbols) /\ Len(focus) <= FocusN
  BY <1>1, CanonicalType DEF Init
<1>3. known \subseteq Symbols
  BY SymbolsAssumption, ElementsOf DEF Init
<1>4. score \in [Symbols -> NoScore..MaxScore]
  BY <1>1 DEF Init, NoScore
<1>5. DOMAIN cache = {} /\ pending \in Seq(Op) /\ Len(pending) = 0
  BY DEF Init
<1>6. Settling
  BY <1>5 DEF Settling, Refreshes
<1> QED BY <1>2, <1>3, <1>4, <1>5, <1>6 DEF IndInv, TypeOK

\* A handler that refreshes packets and leaves the universe alone.
LEMMA RefreshKeeps ==
  ASSUME IndInv, Idle, known' \subseteq Symbols, score' \in [Symbols -> NoScore..MaxScore],
         UNCHANGED <<active, focus, cache, previous>>,
         pending' \in Seq(Op), Refreshes(pending', active, Watched)
  PROVE  IndInv'
<1>1. TypeOK'
  BY DEF IndInv, TypeOK
<1>2. Watched' = Watched
  BY DEF Watched
<1>3. \A s \in DOMAIN cache : s \in Watched /\ cache[s] = RankOf(active, s)
  BY IdleSettled
<1>4. Settling'
  BY <1>2, <1>3 DEF Settling
<1> QED BY <1>1, <1>4 DEF IndInv

\* The operations of such a handler: a, then e, then b.
IsJoin(q, a, e, b) ==
  /\ Len(q) = Len(a) + 1 + Len(b)
  /\ \A i \in 1..Len(a) : q[i] = a[i]
  /\ q[Len(a) + 1] = e
  /\ \A i \in 1..Len(b) : q[Len(a) + 1 + i] = b[i]

LEMMA ThreeParts ==
  ASSUME NEW V, NEW a \in Seq(V), NEW e \in V, NEW b \in Seq(V)
  PROVE  a \o <<e>> \o b \in Seq(V) /\ IsJoin(a \o <<e>> \o b, a, e, b)
BY DEF IsJoin

LEMMA OpTypes ==
  ASSUME NEW actives \in Seq(Symbols), Len(actives) <= ActiveN
  PROVE  /\ \A s \in Symbols : Upsert(s, RankOf(actives, s)) \in Op
         /\ Retain(Elements(actives)) \in Op
         /\ RefreshAll(actives) \in Seq(Op) /\ Len(RefreshAll(actives)) = Len(actives)
<1>1. ActiveN \in Nat \ {0} /\ Len(actives) \in Nat
  BY SizeAssumption
<1>2. \A s \in Symbols, i \in 1..ActiveN : Upsert(s, i) \in Op
  BY <1>1 DEF Upsert, Op
<1>3. Retain(Elements(actives)) \in Op
  BY <1>1, ElementsOf DEF Retain, Op
<1>4. \A s \in Symbols : Upsert(s, RankOf(actives, s)) \in Op
  BY <1>2, RankOfRange
<1>5. \A i \in 1..Len(actives) : i \in 1..ActiveN /\ actives[i] \in Symbols
  BY <1>1
<1>6. RefreshAll(actives) \in Seq(Op) /\ Len(RefreshAll(actives)) = Len(actives)
  BY <1>1, <1>2, <1>5 DEF RefreshAll
<1> QED BY <1>3, <1>4, <1>6

\* A handler that ranks the universe again.
LEMMA RecomputeKeeps ==
  ASSUME IndInv, Idle, known' \subseteq Symbols, score' \in [Symbols -> NoScore..MaxScore],
         UNCHANGED cache, NEW ops \in Seq(Op), Refreshes(ops, active, Elements(active)),
         Recompute(ops)
  PROVE  IndInv'
<1> DEFINE r == Ranked(known', score')
<1>1. r \in Seq(Symbols) /\ active' = ActiveFrom(r) /\ focus' = FirstN(r, FocusN)
  <2>1. known' \in SUBSET Symbols
    OBVIOUS
  <2>2. \A i \in NoScore..MaxScore : i \in Int
    BY SizeAssumption DEF NoScore
  <2>3. score' \in [Symbols -> Int]
    BY <2>2
  <2>4. RankedWell(r, Scored(known', score'), score')
    BY <2>1, <2>3, RankedIsWell
  <2> QED BY <2>4 DEF RankedWell, Recompute
<1> HIDE DEF r
<1>2. active' \in Seq(Symbols) /\ Len(active') <= ActiveN /\ Distinct(active')
  BY <1>1, ActiveFromIsWell DEF ActiveWell
<1>3. focus' \in Seq(Symbols) /\ Len(focus') <= FocusN
  <2>1. FocusN \in Nat /\ Len(r) \in Nat
    BY <1>1, SizeAssumption
  <2>2. FirstN(r, FocusN) \in Seq(Symbols) /\ Len(FirstN(r, FocusN)) = IF Len(r) < FocusN THEN Len(r) ELSE FocusN
    BY <1>1, <2>1, FirstNType
  <2> QED BY <1>1, <2>1, <2>2
<1>4. previous' = active /\ active \in Seq(Symbols) /\ Len(active) <= ActiveN
  BY DEF IndInv, TypeOK, Recompute
<1>5. PICK act : act = active'
  OBVIOUS
<1>6. PICK all : all = RefreshAll(act)
  OBVIOUS
<1>7. pending' = ops \o <<Retain(Elements(act))>> \o all
  BY <1>5, <1>6 DEF Recompute
<1>8. /\ Retain(Elements(act)) \in Op /\ all \in Seq(Op) /\ Len(all) = Len(act)
      /\ Len(ops) \in Nat /\ Len(act) \in Nat
  BY <1>2, <1>5, <1>6, OpTypes
<1>9. \A i \in 1..Len(act) : all[i] = Upsert(act[i], RankOf(act, act[i]))
  <2>1. \A i \in 1..Len(act) : all[i] = Upsert(act[i], i)
    BY <1>6 DEF RefreshAll
  <2> QED BY <1>2, <1>5, <2>1, RankOfDistinct
<1>10. /\ pending' \in Seq(Op)
       /\ Len(pending') = Len(ops) + 1 + Len(act)
       /\ \A i \in 1..Len(ops) : pending'[i] = ops[i]
       /\ pending'[Len(ops) + 1] = Retain(Elements(act))
       /\ \A i \in 1..Len(act) : pending'[Len(ops) + 1 + i] = all[i]
  <2>1. pending' \in Seq(Op) /\ IsJoin(pending', ops, Retain(Elements(act)), all)
    BY <1>7, <1>8, ThreeParts
  <2> QED BY <1>8, <2>1 DEF IsJoin
<1>11. PICK k \in Nat : k = Len(ops) + 1
  BY <1>8
<1>12. k \in 1..Len(pending') /\ k - 1 = Len(ops)
  BY <1>8, <1>10, <1>11
<1>13. RetainAt(k)'
  <2>1. \A i \in 1..(k - 1) : \E s \in Elements(active) : pending'[i] = Upsert(s, RankOf(active, s))
    BY <1>10, <1>12 DEF Refreshes
  <2>2. Len(pending') = k + Len(active')
    BY <1>5, <1>10, <1>11
  <2>3. \A i \in 1..Len(active') : pending'[k + i] = Upsert(active'[i], RankOf(active', active'[i]))
    BY <1>5, <1>9, <1>10, <1>11
  <2>4. pending'[k] = Retain(Elements(active'))
    BY <1>5, <1>10, <1>11
  <2> QED BY <1>4, <2>1, <2>2, <2>3, <2>4 DEF RetainAt
<1>14. Recomputing'
  <2>1. \A s \in DOMAIN cache' : s \in WatchedBefore' /\ cache'[s] = RankOf(previous', s)
    BY <1>4, IdleSettled DEF Watched, WatchedBefore
  <2>2. \E j \in 1..Len(pending') : RetainAt(j)'
    BY <1>12, <1>13
  <2> QED BY <2>1, <2>2 DEF Recomputing
<1>15. TypeOK'
  BY <1>2, <1>3, <1>10 DEF IndInv, TypeOK
<1> QED BY <1>2, <1>4, <1>14, <1>15 DEF IndInv

-----------------------------------------------------------------------------
(***************************************************************************)
(* The next operation on the cache.                                        *)
(***************************************************************************)
\* One upsert of a pending list.
LEMMA UpsertDone ==
  ASSUME NEW s, NEW rank, CacheOp, Head(pending) = Upsert(s, rank)
  PROVE  /\ DOMAIN cache' = DOMAIN cache \cup {s} /\ cache'[s] = rank
         /\ \A t \in DOMAIN cache : t # s => cache'[t] = cache[t]
<1>1. /\ Head(pending).op = "upsert" /\ Head(pending).symbols = {s}
      /\ Head(pending).rank = rank
  BY DEF Upsert
<1>2. cache' = [t \in DOMAIN cache \cup {s} |-> IF t \in {s} THEN rank ELSE cache[t]]
  BY <1>1 DEF CacheOp
<1> QED BY <1>2

LEMMA RetainDone ==
  ASSUME NEW symbols, CacheOp, Head(pending) = Retain(symbols)
  PROVE  /\ DOMAIN cache' = DOMAIN cache \cap symbols
         /\ \A t \in DOMAIN cache' : cache'[t] = cache[t]
<1>1. Head(pending).op = "retain" /\ Head(pending).symbols = symbols
  BY DEF Retain
<1>2. cache' = [t \in DOMAIN cache \cap symbols |-> cache[t]]
  BY <1>1 DEF CacheOp
<1> QED BY <1>2

LEMMA UpsertsDiffer ==
  ASSUME NEW s, NEW t, NEW i, NEW j, Upsert(s, i) = Upsert(t, j)
  PROVE  s = t
<1>1. Upsert(s, i).symbols = {s} /\ Upsert(t, j).symbols = {t}
  BY DEF Upsert
<1> QED BY <1>1

LEMMA TailOf ==
  ASSUME NEW V, NEW q \in Seq(V), q # <<>>
  PROVE  /\ Len(q) \in Nat /\ Len(q) > 0
         /\ Tail(q) \in Seq(V) /\ Len(Tail(q)) = Len(q) - 1 /\ Head(q) = q[1]
         /\ \A i \in 1..(Len(q) - 1) : Tail(q)[i] = q[i + 1]
OBVIOUS

LEMMA CacheOpSettles ==
  ASSUME IndInv, CacheOp, Settling
  PROVE  Settling'
<1>1. pending \in Seq(Op) /\ pending # <<>> /\ pending' = Tail(pending)
  BY DEF IndInv, TypeOK, CacheOp
<1>2. PICK n \in Nat : n = Len(pending)
  BY <1>1
<1>3. /\ n > 0 /\ Len(pending') = n - 1 /\ Head(pending) = pending[1]
      /\ \A i \in 1..(n - 1) : pending'[i] = pending[i + 1]
  BY <1>1, <1>2, TailOf
<1>4. /\ active' = active /\ previous' = previous
      /\ Watched' = Watched /\ WatchedBefore' = WatchedBefore
  BY DEF CacheOp, Watched, WatchedBefore
<1>5. PICK s \in Watched : pending[1] = Upsert(s, RankOf(active, s))
  <2>1. 1 \in 1..n
    BY <1>3
  <2> QED BY <1>2, <2>1 DEF Settling, Refreshes
<1>6. /\ DOMAIN cache' = DOMAIN cache \cup {s} /\ cache'[s] = RankOf(active, s)
      /\ \A t \in DOMAIN cache : t # s => cache'[t] = cache[t]
  <2>1. PICK rank : rank = RankOf(active, s)
    OBVIOUS
  <2>2. Head(pending) = Upsert(s, rank)
    BY <1>3, <1>5, <2>1
  <2> QED BY <2>1, <2>2, UpsertDone
<1>7. \A i \in 1..(n - 1) : i + 1 \in 1..n
  BY <1>2
<1>8. Refreshes(pending', active, Watched)
  <2> SUFFICES ASSUME NEW i \in 1..(n - 1)
               PROVE  \E t \in Watched : pending'[i] = Upsert(t, RankOf(active, t))
    BY <1>3 DEF Refreshes
  <2>1. i + 1 \in 1..Len(pending) /\ pending'[i] = pending[i + 1]
    BY <1>2, <1>3, <1>7
  <2>2. \E t \in Watched : pending[i + 1] = Upsert(t, RankOf(active, t))
    BY <2>1 DEF Settling, Refreshes
  <2> QED BY <2>1, <2>2
<1>9. ASSUME NEW t \in DOMAIN cache'
      PROVE  /\ t \in Watched
             /\ \/ cache'[t] = RankOf(active, t)
                \/ /\ t \in WatchedBefore /\ cache'[t] = RankOf(previous, t)
                   /\ \E i \in 1..Len(pending') : pending'[i] = Upsert(t, RankOf(active, t))
  <2>1. CASE t = s
    BY <1>5, <1>6, <2>1
  <2>2. CASE t # s
    <3>1. t \in DOMAIN cache /\ cache'[t] = cache[t] /\ t \in Watched
      BY <1>6, <2>2 DEF Settling
    <3>2. CASE cache[t] = RankOf(active, t)
      BY <3>1, <3>2
    <3>3. CASE cache[t] # RankOf(active, t)
      <4>1. t \in WatchedBefore /\ cache[t] = RankOf(previous, t)
        BY <3>1, <3>3 DEF Settling
      <4>2. PICK i \in 1..n : pending[i] = Upsert(t, RankOf(active, t))
        BY <1>2, <3>1, <3>3 DEF Settling
      <4>3. i # 1
        BY <1>5, <2>2, <4>2, UpsertsDiffer
      <4>4. i - 1 \in 1..(n - 1) /\ (i - 1) + 1 = i
        BY <4>3
      <4>5. pending'[i - 1] = Upsert(t, RankOf(active, t))
        BY <1>3, <4>2, <4>4
      <4> QED BY <1>3, <3>1, <4>1, <4>4, <4>5
    <3> QED BY <3>2, <3>3
  <2> QED BY <2>1, <2>2
<1> QED BY <1>4, <1>8, <1>9 DEF Settling

LEMMA CacheOpRecomputes ==
  ASSUME IndInv, CacheOp, Recomputing
  PROVE  Settling' \/ Recomputing'
<1>1. pending \in Seq(Op) /\ pending # <<>> /\ pending' = Tail(pending)
  BY DEF IndInv, TypeOK, CacheOp
<1>2. PICK n \in Nat : n = Len(pending)
  BY <1>1
<1>3. /\ n > 0 /\ Len(pending') = n - 1 /\ Head(pending) = pending[1]
      /\ \A i \in 1..(n - 1) : pending'[i] = pending[i + 1]
  BY <1>1, <1>2, TailOf
<1>4. /\ active' = active /\ previous' = previous
      /\ Watched' = Watched /\ WatchedBefore' = WatchedBefore
  BY DEF CacheOp, Watched, WatchedBefore
<1>5. PICK k \in 1..n : RetainAt(k)
  BY <1>2 DEF Recomputing
<1>6. \A t \in DOMAIN cache : t \in WatchedBefore /\ cache[t] = RankOf(previous, t)
  BY DEF Recomputing
<1>7. Len(active) \in Nat /\ n = k + Len(active)
  BY <1>2, <1>5 DEF RetainAt, IndInv, TypeOK
<1>8. CASE k = 1
  <2>1. /\ DOMAIN cache' = DOMAIN cache \cap Elements(active)
        /\ \A t \in DOMAIN cache' : cache'[t] = cache[t]
    <3>1. PICK symbols : symbols = Elements(active)
      OBVIOUS
    <3>2. Head(pending) = Retain(symbols)
      BY <1>3, <1>5, <1>8, <3>1 DEF RetainAt
    <3> QED BY <3>1, <3>2, RetainDone
  <2>2. Len(pending') = Len(active)
    BY <1>3, <1>7, <1>8
  <2>3. ASSUME NEW i \in 1..Len(active)
        PROVE  pending'[i] = Upsert(active[i], RankOf(active, active[i]))
    <3>1. i \in 1..(n - 1) /\ i + 1 = k + i
      BY <1>7, <1>8
    <3>2. pending'[i] = pending[k + i]
      BY <1>3, <3>1
    <3> QED BY <1>5, <3>2 DEF RetainAt
  <2>4. \A i \in 1..Len(active) : active[i] \in Watched
    BY DEF Watched, Elements
  <2>5. Refreshes(pending', active, Watched)
    BY <2>2, <2>3, <2>4 DEF Refreshes
  <2>6. ASSUME NEW t \in DOMAIN cache'
        PROVE  /\ t \in Watched /\ t \in WatchedBefore /\ cache'[t] = RankOf(previous, t)
               /\ \E i \in 1..Len(pending') : pending'[i] = Upsert(t, RankOf(active, t))
    <3>1. /\ t \in Elements(active) /\ t \in Watched /\ t \in WatchedBefore
          /\ cache'[t] = RankOf(previous, t)
      BY <1>6, <2>1 DEF Watched
    <3>2. PICK i \in 1..Len(active) : active[i] = t
      BY <3>1 DEF Elements
    <3> QED BY <2>2, <2>3, <3>1, <3>2
  <2>7. Settling'
    BY <1>4, <2>5, <2>6 DEF Settling
  <2> QED BY <2>7
<1>9. CASE k # 1
  <2>1. /\ k - 1 \in 1..(n - 1) /\ 1 \in 1..(k - 1) /\ (k - 1) + 1 = k
        /\ Len(pending') = (k - 1) + Len(active)
    BY <1>3, <1>7, <1>9
  <2>2. PICK s \in Elements(previous) : pending[1] = Upsert(s, RankOf(previous, s))
    BY <1>5, <2>1 DEF RetainAt
  <2>3. /\ DOMAIN cache' = DOMAIN cache \cup {s} /\ cache'[s] = RankOf(previous, s)
        /\ \A t \in DOMAIN cache : t # s => cache'[t] = cache[t]
    <3>1. PICK rank : rank = RankOf(previous, s)
      OBVIOUS
    <3>2. Head(pending) = Upsert(s, rank)
      BY <1>3, <2>2, <3>1
    <3> QED BY <3>1, <3>2, UpsertDone
  <2>4. \A t \in DOMAIN cache' : t \in WatchedBefore /\ cache'[t] = RankOf(previous, t)
    <3>1. s \in WatchedBefore
      BY DEF WatchedBefore
    <3> QED BY <1>6, <2>3, <3>1
  <2>5. ASSUME NEW i \in 1..((k - 1) - 1)
        PROVE  \E t \in Elements(previous) : pending'[i] = Upsert(t, RankOf(previous, t))
    <3>1. i \in 1..(n - 1) /\ i + 1 \in 1..(k - 1)
      OBVIOUS
    <3>2. pending'[i] = pending[i + 1]
      BY <1>3, <3>1
    <3> QED BY <1>5, <3>1, <3>2 DEF RetainAt
  <2>6. pending'[k - 1] = Retain(Elements(active))
    BY <1>3, <1>5, <2>1 DEF RetainAt
  <2>7. ASSUME NEW i \in 1..Len(active)
        PROVE  pending'[(k - 1) + i] = Upsert(active[i], RankOf(active, active[i]))
    <3>1. (k - 1) + i \in 1..(n - 1) /\ ((k - 1) + i) + 1 = k + i
      BY <1>7, <2>1
    <3>2. pending'[(k - 1) + i] = pending[k + i]
      BY <1>3, <3>1
    <3> QED BY <1>5, <3>2 DEF RetainAt
  <2>8. RetainAt(k - 1)'
    BY <1>4, <2>1, <2>5, <2>6, <2>7 DEF RetainAt
  <2>9. \E j \in 1..Len(pending') : RetainAt(j)'
    BY <1>3, <2>1, <2>8
  <2>10. Recomputing'
    BY <1>4, <2>4, <2>9 DEF Recomputing
  <2> QED BY <2>10
<1> QED BY <1>8, <1>9

LEMMA CacheOpTypes ==
  ASSUME IndInv, CacheOp, Settling' \/ Recomputing'
  PROVE  TypeOK'
<1>1. UNCHANGED <<known, score, active, focus, previous>>
  BY DEF CacheOp
<1>2. pending' \in Seq(Op) /\ Head(pending) \in Op
  <2>1. pending \in Seq(Op) /\ pending # <<>> /\ pending' = Tail(pending)
    BY DEF IndInv, TypeOK, CacheOp
  <2>2. Tail(pending) \in Seq(Op) /\ Head(pending) = pending[1] /\ 1 \in 1..Len(pending)
    BY <2>1, TailOf
  <2> QED BY <2>1, <2>2
<1>3. Head(pending).symbols \subseteq Symbols
  BY <1>2 DEF Op
<1>4. DOMAIN cache' \subseteq DOMAIN cache \cup Head(pending).symbols
  BY DEF CacheOp
<1>5. \A s \in DOMAIN cache' :
        cache'[s] = RankOf(active, s) \/ cache'[s] = RankOf(previous, s)
  BY <1>1 DEF Settling, Recomputing
<1>6. \A s : RankOf(active, s) \in 1..ActiveN /\ RankOf(previous, s) \in 1..ActiveN
  BY RankOfRange DEF IndInv, TypeOK
<1> QED BY <1>1, <1>2, <1>3, <1>4, <1>5, <1>6 DEF IndInv, TypeOK

-----------------------------------------------------------------------------
(***************************************************************************)
(* The handlers.                                                           *)
(***************************************************************************)
\* The refreshes that a batch of events queues.
LEMMA BatchRefreshes ==
  ASSUME IndInv, NEW batch \in Seq(Symbols)
  PROVE  /\ RefreshActive(active, batch) \in Seq(Op)
         /\ Refreshes(RefreshActive(active, batch), active, Elements(active))
<1>1. active \in Seq(Symbols) /\ Len(active) <= ActiveN
  BY DEF IndInv, TypeOK
<1>2. \A s \in Symbols : Upsert(s, RankOf(active, s)) \in Op
  BY <1>1, OpTypes
<1> QED BY <1>2, RefreshActiveRuns

LEMMA BatchTypes ==
  /\ \A s \in Symbols : <<s>> \in Seq(Symbols)
  /\ \A batch \in Batches : batch \in Seq(Symbols)
<1>1. \A s \in Symbols : <<s>> \in Seq(Symbols)
  OBVIOUS
<1>2. ASSUME NEW p \in Symbols \X Symbols PROVE p \in Seq(Symbols)
  <2>1. p = <<p[1], p[2]>> /\ p[1] \in Symbols /\ p[2] \in Symbols
    OBVIOUS
  <2>2. \A x, y \in Symbols : <<x, y>> \in Seq(Symbols)
    OBVIOUS
  <2> QED BY <2>1, <2>2
<1> QED BY <1>1, <1>2 DEF Batches

LEMMA MovesScoreType ==
  ASSUME IndInv, NEW s \in Symbols, MovesScore(s)
  PROVE  score' \in [Symbols -> NoScore..MaxScore]
<1>1. PICK v \in 0..MaxScore : score' = [score EXCEPT ![s] = IF @ = NoScore THEN @ ELSE v]
  BY DEF MovesScore
<1>2. v \in NoScore..MaxScore
  BY SizeAssumption DEF NoScore
<1> QED BY <1>1, <1>2 DEF IndInv, TypeOK

LEMMA TickersKeeps == ASSUME IndInv, Tickers PROVE IndInv'
<1>1. PICK batch \in Batches, v \in 0..MaxScore :
        /\ known' = known \cup Elements(batch)
        /\ score' = [s \in Symbols |-> IF s \in Elements(batch) THEN v ELSE score[s]]
        /\ Recompute(RefreshActive(active, batch))
  BY DEF Tickers
<1>2. batch \in Seq(Symbols)
  BY BatchTypes
<1>3. known' \subseteq Symbols
  BY <1>1, <1>2, ElementsOf DEF IndInv, TypeOK
<1>4. score' \in [Symbols -> NoScore..MaxScore]
  <2>1. v \in NoScore..MaxScore
    BY SizeAssumption DEF NoScore
  <2> QED BY <1>1, <2>1 DEF IndInv, TypeOK
<1>5. PICK ops : ops = RefreshActive(active, batch)
  OBVIOUS
<1>6. ops \in Seq(Op) /\ Refreshes(ops, active, Elements(active)) /\ Recompute(ops)
  BY <1>1, <1>2, <1>5, BatchRefreshes
<1>7. Idle /\ UNCHANGED cache
  BY DEF Tickers
<1> QED BY <1>3, <1>4, <1>6, <1>7, RecomputeKeeps

LEMMA ForceOrderKeeps == ASSUME IndInv, ForceOrder PROVE IndInv'
<1>1. PICK s \in Symbols : /\ known' = known \cup {s} /\ MovesScore(s)
                           /\ Recompute(RefreshActive(active, <<s>>))
  BY DEF ForceOrder
<1>2. known' \subseteq Symbols /\ score' \in [Symbols -> NoScore..MaxScore]
  BY <1>1, MovesScoreType DEF IndInv, TypeOK
<1>3. PICK ops : ops = RefreshActive(active, <<s>>)
  OBVIOUS
<1>4. ops \in Seq(Op) /\ Refreshes(ops, active, Elements(active)) /\ Recompute(ops)
  BY <1>1, <1>3, BatchTypes, BatchRefreshes
<1>5. Idle /\ UNCHANGED cache
  BY DEF ForceOrder
<1> QED BY <1>2, <1>4, <1>5, RecomputeKeeps

LEMMA MarkPricesKeeps == ASSUME IndInv, MarkPrices PROVE IndInv'
<1>1. PICK s \in Symbols : /\ known' = known \cup {s} /\ MovesScore(s)
                           /\ KeepUniverse(RefreshActive(active, <<s>>))
  BY DEF MarkPrices
<1>2. known' \subseteq Symbols /\ score' \in [Symbols -> NoScore..MaxScore]
  BY <1>1, MovesScoreType DEF IndInv, TypeOK
<1>3. /\ RefreshActive(active, <<s>>) \in Seq(Op)
      /\ Refreshes(RefreshActive(active, <<s>>), active, Elements(active))
  BY BatchTypes, BatchRefreshes
<1>4. pending' \in Seq(Op) /\ Refreshes(pending', active, Watched)
  BY <1>1, <1>3 DEF KeepUniverse, Refreshes, Watched
<1>5. Idle /\ UNCHANGED <<active, focus, cache, previous>>
  BY <1>1 DEF MarkPrices, KeepUniverse
<1> QED BY <1>2, <1>4, <1>5, RefreshKeeps

LEMMA FocusEventKeeps == ASSUME IndInv, FocusEvent PROVE IndInv'
<1>1. PICK s \in Elements(AlwaysFocus) : MovesScore(s) /\ KeepUniverse(Refresh(active, s))
  BY DEF FocusEvent
<1>2. s \in Symbols
  BY SymbolsAssumption, ElementsOf
<1>3. known' \subseteq Symbols /\ score' \in [Symbols -> NoScore..MaxScore]
  BY <1>1, <1>2, MovesScoreType DEF IndInv, TypeOK, FocusEvent
<1>4. PICK op : op = Upsert(s, RankOf(active, s))
  OBVIOUS
<1>5. pending' = <<op>> /\ op \in Op
  BY <1>1, <1>2, <1>4, OpTypes DEF KeepUniverse, Refresh, IndInv, TypeOK
<1>6. pending' \in Seq(Op) /\ Refreshes(pending', active, Watched)
  <2>1. Len(pending') = 1 /\ pending'[1] = op /\ pending' \in Seq(Op)
    BY <1>5
  <2>2. s \in Watched
    BY DEF Watched
  <2> QED BY <1>4, <2>1, <2>2 DEF Refreshes
<1>7. Idle /\ UNCHANGED <<active, focus, cache, previous>>
  BY <1>1 DEF FocusEvent, KeepUniverse
<1> QED BY <1>3, <1>6, <1>7, RefreshKeeps

LEMMA AgeAllKeeps == ASSUME IndInv, AgeAll PROVE IndInv'
<1>1. /\ Idle /\ UNCHANGED <<known, score, active, focus, cache, previous>>
      /\ pending' = [i \in 1..Len(active) |-> Upsert(active[i], RankOf(active, active[i]))]
  BY DEF AgeAll
<1>2. known' \subseteq Symbols /\ score' \in [Symbols -> NoScore..MaxScore]
  BY <1>1 DEF IndInv, TypeOK
<1>3. active \in Seq(Symbols) /\ Len(active) <= ActiveN /\ Len(active) \in Nat
  BY DEF IndInv, TypeOK
<1>4. \A i \in 1..Len(active) : Upsert(active[i], RankOf(active, active[i])) \in Op
  BY <1>3, OpTypes
<1>5. pending' \in Seq(Op) /\ Len(pending') = Len(active)
  BY <1>1, <1>3, <1>4
<1>6. \A i \in 1..Len(active) : active[i] \in Watched
  BY DEF Watched, Elements
<1>7. Refreshes(pending', active, Watched)
  BY <1>1, <1>5, <1>6 DEF Refreshes
<1> QED BY <1>1, <1>2, <1>5, <1>7, RefreshKeeps

LEMMA NextInd == ASSUME IndInv, [Next]_vars PROVE IndInv'
<1>1. CASE Tickers
  BY <1>1, TickersKeeps
<1>2. CASE ForceOrder
  BY <1>2, ForceOrderKeeps
<1>3. CASE MarkPrices
  BY <1>3, MarkPricesKeeps
<1>4. CASE FocusEvent
  BY <1>4, FocusEventKeeps
<1>5. CASE AgeAll
  BY <1>5, AgeAllKeeps
<1>6. CASE CacheOp
  <2>1. Settling' \/ Recomputing'
    BY <1>6, CacheOpSettles, CacheOpRecomputes DEF IndInv
  <2>2. TypeOK'
    BY <1>6, <2>1, CacheOpTypes
  <2>3. previous' = previous
    BY <1>6 DEF CacheOp
  <2> QED BY <2>1, <2>2, <2>3 DEF IndInv
<1>7. CASE UNCHANGED vars
  <2>1. TypeOK'
    BY <1>7 DEF vars, IndInv, TypeOK
  <2>2. Watched' = Watched /\ WatchedBefore' = WatchedBefore
    BY <1>7 DEF vars, Watched, WatchedBefore
  <2>3. Settling' \/ Recomputing'
    BY <1>7, <2>2 DEF vars, IndInv, Settling, Recomputing, RetainAt
  <2> QED BY <1>7, <2>1, <2>3 DEF vars, IndInv
<1> QED BY <1>1, <1>2, <1>3, <1>4, <1>5, <1>6, <1>7 DEF Next

\* The inductive invariant holds in every reachable state.
THEOREM IndInvHolds == Spec => []IndInv
BY InitInd, NextInd, PTL DEF Spec

\* The engine's lists and the ranks of the cache stay in their sizes, and
\* every queued operation is a well-formed one.
THEOREM TypeCorrect == Spec => []TypeOK
<1>1. IndInv => TypeOK
  BY DEF IndInv
<1> QED BY <1>1, IndInvHolds, PTL

-----------------------------------------------------------------------------
(***************************************************************************)
(* Pins in the first active_n places of always_focus stay in the list.     *)
(***************************************************************************)
\* The active list is full of what recompute_universe put there.
LEMMA ActiveAfter ==
  ASSUME IndInv, [Next]_vars
  PROVE  \/ active' = active /\ focus' = focus /\ previous' = previous
         \/ previous' = active /\ \E r \in Seq(Symbols) :
              /\ RankedWell(r, Scored(known', score'), score')
              /\ active' = ActiveFrom(r) /\ focus' = FirstN(r, FocusN)
<1>1. CASE \E ops : Recompute(ops)
  <2> DEFINE r == Ranked(known', score')
  <2>1. known' \in SUBSET Symbols /\ score' \in [Symbols -> NoScore..MaxScore]
    BY NextInd DEF IndInv, TypeOK
  <2>2. \A i \in NoScore..MaxScore : i \in Int
    BY SizeAssumption DEF NoScore
  <2>3. score' \in [Symbols -> Int]
    BY <2>1, <2>2
  <2>4. RankedWell(r, Scored(known', score'), score')
    BY <2>1, <2>3, RankedIsWell
  <2>5. active' = ActiveFrom(r) /\ focus' = FirstN(r, FocusN) /\ previous' = active
    BY <1>1 DEF Recompute
  <2> QED BY <2>4, <2>5 DEF RankedWell
<1>2. CASE UNCHANGED <<active, focus, previous>>
  BY <1>2
<1>3. (\E ops : Recompute(ops)) \/ UNCHANGED <<active, focus, previous>>
  <2>1. CASE Tickers
    BY <2>1 DEF Tickers
  <2>2. CASE ForceOrder
    BY <2>2 DEF ForceOrder
  <2>3. CASE MarkPrices
    BY <2>3 DEF MarkPrices, KeepUniverse
  <2>4. CASE FocusEvent
    BY <2>4 DEF FocusEvent, KeepUniverse
  <2>5. CASE AgeAll
    BY <2>5 DEF AgeAll
  <2>6. CASE CacheOp
    BY <2>6 DEF CacheOp
  <2>7. CASE UNCHANGED vars
    BY <2>7 DEF vars
  <2> QED BY <2>1, <2>2, <2>3, <2>4, <2>5, <2>6, <2>7 DEF Next
<1> QED BY <1>1, <1>2, <1>3

PinsActive ==
  /\ Elements(Pinned) \subseteq Elements(active)
  /\ Elements(Pinned) \subseteq Elements(previous)

\* The pins that active_n does not cut off are active in every reachable
\* state, and were before the last recompute.
THEOREM PinsStayActive == Spec => []PinsActive
<1>1. Init => PinsActive
  BY DEF Init, PinsActive, Pinned
<1>2. IndInv /\ PinsActive /\ [Next]_vars => PinsActive'
  <2> SUFFICES ASSUME IndInv, PinsActive, [Next]_vars PROVE PinsActive'
    OBVIOUS
  <2>1. CASE active' = active /\ previous' = previous
    BY <2>1 DEF PinsActive
  <2>2. CASE previous' = active /\ \E r \in Seq(Symbols) : active' = ActiveFrom(r)
    BY <2>2, ActiveFromIsWell DEF ActiveWell, PinsActive
  <2> QED BY <2>1, <2>2, ActiveAfter
<1> QED BY <1>1, <1>2, IndInvHolds, PTL DEF Spec

\* The rank that refresh_symbol_at gives is right for a list with the pins.
LEMMA WatchedPlaced ==
  ASSUME NEW list, Elements(Pinned) \subseteq Elements(list),
         NEW s \in Elements(list) \cup Elements(AlwaysFocus)
  PROVE  Placed(list, s, RankOf(list, s))
<1>1. CASE s \in Elements(list)
  BY <1>1 DEF Placed
<1>2. CASE s \notin Elements(list)
  <2>1. s \in CutPins \ Elements(list)
    BY <1>2 DEF CutPins
  <2>2. RankOf(list, s) = 1
    BY <1>2 DEF RankOf
  <2> QED BY <2>1, <2>2 DEF Placed
<1> QED BY <1>1, <1>2

\* Whatever operation of a handler a reader comes between, every packet it
\* sees has its place in the list before or in the list after; only a pin
\* that active_n cuts off is there without a place, at rank 1.
THEOREM RanksMixed == Spec => []MixedRanks
<1>1. IndInv /\ PinsActive => MixedRanks
  <2> SUFFICES ASSUME IndInv, PinsActive, NEW s \in DOMAIN cache
               PROVE  Placed(active, s, cache[s]) \/ Placed(previous, s, cache[s])
    BY DEF MixedRanks
  <2>1. \/ s \in Watched /\ cache[s] = RankOf(active, s)
        \/ s \in WatchedBefore /\ cache[s] = RankOf(previous, s)
    BY DEF IndInv, Settling, Recomputing
  <2>2. CASE s \in Watched /\ cache[s] = RankOf(active, s)
    BY <2>2, WatchedPlaced DEF PinsActive, Watched
  <2>3. CASE s \in WatchedBefore /\ cache[s] = RankOf(previous, s)
    BY <2>3, WatchedPlaced DEF PinsActive, WatchedBefore
  <2> QED BY <2>1, <2>2, <2>3
<1> QED BY <1>1, IndInvHolds, PinsStayActive, PTL

\* Between two handlers the cache holds packets of active symbols, each with
\* its place, and beside them only pins that active_n cuts off, at rank 1.
THEOREM RanksSettled == Spec => []SettledRanks
<1>1. IndInv /\ PinsActive => SettledRanks
  <2> SUFFICES ASSUME IndInv, PinsActive, Idle, NEW s \in DOMAIN cache
               PROVE  Placed(active, s, cache[s])
    BY DEF SettledRanks
  <2>1. s \in Watched /\ cache[s] = RankOf(active, s)
    BY IdleSettled
  <2> QED BY <2>1, WatchedPlaced DEF PinsActive, Watched
<1> QED BY <1>1, IndInvHolds, PinsStayActive, PTL

\* The pins are active up to active_n of them, and so is the k-th symbol of
\* the focus list while k places are left, whatever the pins.
THEOREM FocusStaysActive == Spec => []FocusIsActive
<1> DEFINE J == \A k \in 1..Len(focus) :
                  Cardinality(Elements(Pinned)) + k <= ActiveN => focus[k] \in Elements(active)
<1>1. ActiveN \in Nat /\ FocusN \in Nat /\ FocusN <= ActiveN
  BY SizeAssumption
<1>2. Init => J
  <2> SUFFICES ASSUME Init PROVE J
    OBVIOUS
  <2>1. active = Canonical(ActiveN) /\ focus = Canonical(FocusN)
    BY DEF Init
  <2>2. AlwaysFocus \in Seq(Symbols) /\ Len(AlwaysFocus) \in Nat
    BY SymbolsAssumption
  <2>3. Len(focus) <= Len(active) /\ Len(focus) \in Nat /\ Len(active) \in Nat
    <3>1. PICK n \in Nat : n = Len(AlwaysFocus)
      BY <2>2
    <3>2. Len(focus) = IF n < FocusN THEN n ELSE FocusN
      BY <1>1, <2>1, <2>2, <3>1, FirstNType DEF Canonical
    <3>3. Len(active) = IF n < ActiveN THEN n ELSE ActiveN
      BY <1>1, <2>1, <2>2, <3>1, FirstNType DEF Canonical
    <3> QED BY <1>1, <3>2, <3>3
  <2>4. \A i \in 1..Len(focus) : i \in 1..Len(active) /\ focus[i] = active[i]
    <3>1. \A i \in 1..Len(focus) : i \in 1..Len(active)
      BY <2>3
    <3>2. \A i \in 1..Len(focus) : focus[i] = AlwaysFocus[i]
      BY <1>1, <2>1, CanonicalType
    <3>3. \A i \in 1..Len(active) : active[i] = AlwaysFocus[i]
      BY <1>1, <2>1, CanonicalType
    <3> QED BY <3>1, <3>2, <3>3
  <2>5. \A i \in 1..Len(focus) : focus[i] \in Elements(active)
    BY <2>4 DEF Elements
  <2> QED BY <2>5
<1>3. IndInv /\ J /\ [Next]_vars => J'
  <2> SUFFICES ASSUME IndInv, J, [Next]_vars PROVE J'
    OBVIOUS
  <2>1. CASE active' = active /\ focus' = focus
    BY <2>1
  <2>2. CASE \E r \in Seq(Symbols) : active' = ActiveFrom(r) /\ focus' = FirstN(r, FocusN)
    <3>1. PICK r \in Seq(Symbols) : active' = ActiveFrom(r) /\ focus' = FirstN(r, FocusN)
      BY <2>2
    <3>2. ActiveWell(active', r)
      BY <3>1, ActiveFromIsWell
    <3>3. Cardinality(Elements(Pinned)) \in Nat
      <4>1. Pinned \in Seq(Symbols)
        BY <1>1, CanonicalType DEF Pinned
      <4>2. IsFiniteSet(Elements(Pinned))
        BY <4>1, ElementsOf
      <4> QED BY <4>2, FS_CardinalityType
    <3>4. /\ Len(focus') \in Nat /\ Len(focus') <= FocusN
          /\ \A k \in 1..Len(focus') : k \in 1..Len(r) /\ focus'[k] = r[k]
      <4>1. Len(r) \in Nat
        OBVIOUS
      <4>2. Len(focus') = IF Len(r) < FocusN THEN Len(r) ELSE FocusN
        BY <1>1, <3>1, FirstNType
      <4>3. \A k \in 1..Len(focus') : k \in 1..Len(r) /\ focus'[k] = r[k]
        BY <1>1, <3>1, FirstNType
      <4> QED BY <1>1, <4>1, <4>2, <4>3
    <3>5. ASSUME NEW k \in 1..Len(focus'), Cardinality(Elements(Pinned)) + k <= ActiveN
          PROVE  focus'[k] \in Elements(active')
      <4>1. k \in 1..Len(r) /\ focus'[k] = r[k] /\ k \in Nat
        BY <3>4
      <4>2. ~(Cardinality(Elements(Pinned)) + k > ActiveN)
        BY <1>1, <3>3, <3>5, <4>1
      <4> QED BY <3>2, <4>1, <4>2 DEF ActiveWell
    <3> QED BY <3>5
  <2> QED BY <2>1, <2>2, ActiveAfter
<1>4. J /\ PinsActive => FocusIsActive
  BY DEF PinsActive, FocusIsActive
<1> QED BY <1>2, <1>3, <1>4, IndInvHolds, PinsStayActive, PTL DEF Spec

\* A recompute never leaves a better-ranked symbol out for a worse-ranked one
\* that is not pinned, whatever the pins.
THEOREM EvictionIsFair == Spec => NoUnfairEviction
<1> DEFINE A == active' # active =>
       \A a \in known', b \in Elements(active') \ Elements(Pinned) :
         (a \notin Elements(active') /\ score'[a] # NoScore)
           => RanksBefore(score', b, a)
<1>1. IndInv /\ [Next]_vars => A
  <2> SUFFICES ASSUME IndInv, [Next]_vars, active' # active,
                      NEW a \in known', NEW b \in Elements(active') \ Elements(Pinned),
                      a \notin Elements(active'), score'[a] # NoScore
               PROVE  RanksBefore(score', b, a)
    OBVIOUS
  <2>1. PICK r \in Seq(Symbols) : /\ RankedWell(r, Scored(known', score'), score')
                                  /\ active' = ActiveFrom(r)
    BY ActiveAfter
  <2>2. ActiveWell(active', r)
    BY <2>1, ActiveFromIsWell
  <2>3. a \in Scored(known', score')
    BY DEF Scored
  <2>4. PICK j \in 1..Len(r) : b = r[j]
    BY <2>2 DEF ActiveWell, Elements
  <2>5. CASE a \notin Elements(r)
    BY <2>1, <2>3, <2>4, <2>5 DEF RankedWell
  <2>6. CASE a \in Elements(r)
    <3>1. PICK k \in 1..Len(r) : a = r[k]
      BY <2>6 DEF Elements
    <3>2. Elements(active') \subseteq Elements(Pinned) \cup UpToPlace(r, k - 1)
      BY <2>2, <3>1 DEF ActiveWell
    <3>3. PICK i \in 1..(k - 1) : b = r[i]
      BY <3>2 DEF UpToPlace
    <3>4. i \in 1..Len(r) /\ i < k
      OBVIOUS
    <3> QED BY <2>1, <3>1, <3>3, <3>4 DEF RankedWell
  <2> QED BY <2>5, <2>6
<1>2. Spec => [][A]_vars
  BY <1>1, IndInvHolds, PTL DEF Spec
<1> QED BY <1>2 DEF NoUnfairEviction
-----------------------------------------------------------------------------
(***************************************************************************)
(* Sums over sets of levels.                                               *)
(***************************************************************************)
\* Of a set of finite sets that is not empty, one of the smallest.
LEMMA SmallestSet ==
  ASSUME NEW D, IsFiniteSet(D), NEW T \in SUBSET (SUBSET D), T # {}
  PROVE  \E t \in T : \A u \in SUBSET t : u # t => u \notin T
<1> DEFINE sizes == {Cardinality(t) : t \in T}
<1>1. \A t \in T : IsFiniteSet(t) /\ Cardinality(t) \in Nat
  BY FS_Subset, FS_CardinalityType
<1>2. sizes \in SUBSET Nat /\ sizes # {}
  BY <1>1
<1>3. PICK n \in sizes : \A m \in sizes : n <= m
  <2> HIDE DEF sizes
  <2> QED BY <1>2, NatLeast
<1>4. PICK t \in T : Cardinality(t) = n
  BY <1>3
<1>5. ASSUME NEW u \in SUBSET t, u # t, u \in T PROVE FALSE
  <2>1. Cardinality(u) <= Cardinality(t) /\ Cardinality(u) # Cardinality(t)
    BY <1>1, <1>5, FS_Subset
  <2>2. Cardinality(u) \in Nat /\ Cardinality(t) \in Nat
    BY <1>1, <1>5
  <2>3. n <= Cardinality(u)
    BY <1>3, <1>5
  <2> QED BY <1>4, <2>1, <2>2, <2>3
<1> QED BY <1>5

\* What holds of the empty set and passes from each set to one with one
\* element more.
LEMMA UpToSet ==
  ASSUME NEW D, IsFiniteSet(D), NEW W, {} \in W,
         \A s \in SUBSET D, x \in D : x \notin s /\ s \in W => s \cup {x} \in W
  PROVE  D \in W
<1> DEFINE T == {s \in SUBSET D : s \notin W}
<1>1. SUFFICES ASSUME T # {} PROVE FALSE
  OBVIOUS
<1>2. T \in SUBSET (SUBSET D)
  OBVIOUS
<1>3. PICK t \in T : \A u \in SUBSET t : u # t => u \notin T
  <2> HIDE DEF T
  <2> QED BY <1>1, <1>2, SmallestSet
<1>4. t # {} /\ t \in SUBSET D
  BY <1>3
<1>5. PICK x \in t : TRUE
  BY <1>4
<1>6. t \ {x} \in W
  BY <1>3, <1>4, <1>5
<1>7. (t \ {x}) \cup {x} = t
  BY <1>5
<1>8. t \in W
  BY <1>4, <1>5, <1>6, <1>7
<1> QED BY <1>3, <1>8

Pick(s) == CHOOSE x \in s : TRUE

\* The sums of f over the subsets of S, one element after the other.
Adds(g, f, S) ==
  \A s \in SUBSET S : g[s] = IF s = {} THEN 0 ELSE f[Pick(s)] + g[s \ {Pick(s)}]

LEMMA AddsAgree ==
  ASSUME NEW S, NEW T, NEW R, IsFiniteSet(R), R \subseteq S, R \subseteq T,
         NEW f, NEW e, \A x \in R : f[x] = e[x],
         NEW g, NEW h, Adds(g, f, S), Adds(h, e, T)
  PROVE  g[R] = h[R]
<1> DEFINE W == {s \in SUBSET R : g[s] # h[s]}
<1>1. SUFFICES ASSUME W # {} PROVE FALSE
  OBVIOUS
<1>2. PICK t \in W : \A u \in SUBSET t : u # t => u \notin W
  <2>1. W \in SUBSET (SUBSET R)
    OBVIOUS
  <2> HIDE DEF W
  <2> QED BY <1>1, <2>1, SmallestSet
<1>3. t \in SUBSET S /\ t \in SUBSET T /\ t \in SUBSET R /\ g[t] # h[t]
  BY <1>2
<1>4. t # {}
  BY <1>3 DEF Adds
<1>5. Pick(t) \in t
  BY <1>4 DEF Pick
<1>6. g[t] = f[Pick(t)] + g[t \ {Pick(t)}] /\ h[t] = e[Pick(t)] + h[t \ {Pick(t)}]
  BY <1>3, <1>4 DEF Adds
<1>7. g[t \ {Pick(t)}] = h[t \ {Pick(t)}]
  BY <1>2, <1>5
<1>8. f[Pick(t)] = e[Pick(t)]
  BY <1>3, <1>5
<1> QED BY <1>3, <1>6, <1>7, <1>8

\* A function on a set, with integer values.
IntOn(f, S) == \A x \in S : f[x] \in Int

LEMMA AddsExists ==
  ASSUME NEW S, IsFiniteSet(S), NEW f, IntOn(f, S)
  PROVE  \E g \in [SUBSET S -> Int] : Adds(g, f, S)
<1> DEFINE n == Cardinality(S)
           Small(k) == {s \in SUBSET S : Cardinality(s) <= k}
           Until(g, k) ==
             \A s \in Small(k) : g[s] = IF s = {} THEN 0 ELSE f[Pick(s)] + g[s \ {Pick(s)}]
           K == {k \in Nat : \E g \in [SUBSET S -> Int] : Until(g, k)}
<1>1. n \in Nat
  BY FS_CardinalityType
<1>2. \A s \in SUBSET S : IsFiniteSet(s) /\ Cardinality(s) \in Nat /\ Cardinality(s) <= n
  BY FS_Subset, FS_CardinalityType
<1>3. \A s \in SUBSET S : s # {} =>
        /\ Pick(s) \in s /\ f[Pick(s)] \in Int /\ s \ {Pick(s)} \in SUBSET S
        /\ Cardinality(s \ {Pick(s)}) = Cardinality(s) - 1
  BY <1>2, FS_RemoveElement DEF IntOn, Pick
<1>4. 0 \in K
  <2> DEFINE g == [s \in SUBSET S |-> 0]
  <2>1. \A s \in Small(0) : s = {}
    BY <1>2, FS_EmptySet
  <2>2. g \in [SUBSET S -> Int] /\ g[{}] = 0
    OBVIOUS
  <2> HIDE DEF g
  <2>3. Until(g, 0)
    BY <2>1, <2>2
  <2> HIDE DEF Until
  <2> QED BY <2>2, <2>3
<1>5. ASSUME NEW k \in Nat, k \in K PROVE k + 1 \in K
  <2>1. PICK g \in [SUBSET S -> Int] : Until(g, k)
    BY <1>5
  <2> DEFINE h == [s \in SUBSET S |-> IF s = {} THEN 0 ELSE f[Pick(s)] + g[s \ {Pick(s)}]]
  <2>2. \A s \in SUBSET S : h[s] = IF s = {} THEN 0 ELSE f[Pick(s)] + g[s \ {Pick(s)}]
    OBVIOUS
  <2>a. ASSUME NEW s \in SUBSET S
        PROVE  (IF s = {} THEN 0 ELSE f[Pick(s)] + g[s \ {Pick(s)}]) \in Int
    <3>1. CASE s = {}
      BY <3>1
    <3>2. CASE s # {}
      <4>1. f[Pick(s)] \in Int /\ g[s \ {Pick(s)}] \in Int
        BY <1>3, <3>2
      <4> QED BY <3>2, <4>1
    <3> QED BY <3>1, <3>2
  <2>3. h \in [SUBSET S -> Int]
    BY <2>a
  <2> HIDE DEF h
  <2>4. \A s \in Small(k) : h[s] = g[s]
    BY <2>1, <2>2
  <2>5. ASSUME NEW s \in Small(k + 1)
        PROVE  h[s] = IF s = {} THEN 0 ELSE f[Pick(s)] + h[s \ {Pick(s)}]
    <3>1. CASE s = {}
      BY <2>2, <3>1
    <3>2. CASE s # {}
      <4>1. s \in SUBSET S /\ Cardinality(s) <= k + 1 /\ Cardinality(s) \in Nat
        BY <1>2
      <4>2. s \ {Pick(s)} \in Small(k)
        BY <1>3, <3>2, <4>1
      <4> QED BY <2>2, <2>4, <3>2, <4>1, <4>2
    <3> QED BY <3>1, <3>2
  <2>6. Until(h, k + 1)
    BY <2>5
  <2> HIDE DEF Until
  <2> QED BY <2>3, <2>6
<1>6. n \in K
  <2> HIDE DEF K
  <2>1. \A k \in 0..(n - 1) : k \in K => k + 1 \in K
    BY <1>5
  <2>2. n \in 0..n
    BY <1>1
  <2> HIDE DEF n
  <2> QED BY <1>1, <1>4, <2>1, <2>2, UpTo
<1>7. PICK g \in [SUBSET S -> Int] : Until(g, n)
  BY <1>6
<1>8. \A s \in SUBSET S : s \in Small(n)
  BY <1>2
<1>9. Adds(g, f, S)
  BY <1>7, <1>8 DEF Adds
<1> QED BY <1>9

\* What SumFunctionOnSet computes.
LEMMA SumIsLast ==
  ASSUME NEW S, IsFiniteSet(S), NEW f, NEW g \in [SUBSET S -> Int], Adds(g, f, S)
  PROVE  SumFunctionOnSet(f, S) = g[S]
<1> DEFINE Body(h) == [s \in SUBSET S |->
             IF s = {} THEN 0 ELSE f[CHOOSE x \in s : TRUE] + h[s \ {CHOOSE x \in s : TRUE}]]
<1>1. SumFunctionOnSet(f, S) = (CHOOSE h : h = Body(h))[S]
  BY DEF SumFunctionOnSet, FoldFunctionOnSet, MapThenFoldSet
<1>2. g = Body(g)
  BY DEF Adds, Pick
<1>3. ASSUME NEW h, h = Body(h) PROVE Adds(h, f, S)
  BY <1>3 DEF Adds, Pick
<1> HIDE DEF Body
<1>4. (CHOOSE h : h = Body(h)) = Body(CHOOSE h : h = Body(h))
  BY <1>2
<1>5. PICK h : h = (CHOOSE h0 : h0 = Body(h0))
  OBVIOUS
<1>6. Adds(h, f, S)
  BY <1>3, <1>4, <1>5
<1>7. h[S] = g[S]
  BY <1>6, AddsAgree
<1> QED BY <1>1, <1>5, <1>7

Totals(g, f, S) == \A R \in SUBSET S : SumFunctionOnSet(f, R) = g[R]

LEMMA SumsOf ==
  ASSUME NEW S, IsFiniteSet(S), NEW f, IntOn(f, S)
  PROVE  \E g \in [SUBSET S -> Int] : Adds(g, f, S) /\ Totals(g, f, S)
<1>1. PICK g \in [SUBSET S -> Int] : Adds(g, f, S)
  BY AddsExists
<1>2. ASSUME NEW R \in SUBSET S PROVE SumFunctionOnSet(f, R) = g[R]
  <2>1. IsFiniteSet(R) /\ IntOn(f, R)
    BY FS_Subset DEF IntOn
  <2>2. PICK h \in [SUBSET R -> Int] : Adds(h, f, R)
    BY <2>1, AddsExists
  <2>3. SumFunctionOnSet(f, R) = h[R]
    BY <2>1, <2>2, SumIsLast
  <2>4. h[R] = g[R]
    BY <1>1, <2>1, <2>2, AddsAgree
  <2> QED BY <2>3, <2>4
<1> QED BY <1>1, <1>2 DEF Totals

LEMMA SumType ==
  ASSUME NEW S, IsFiniteSet(S), NEW f, IntOn(f, S)
  PROVE  SumFunctionOnSet(f, S) \in Int /\ SumFunctionOnSet(f, {}) = 0
<1>1. PICK g \in [SUBSET S -> Int] : Adds(g, f, S) /\ Totals(g, f, S)
  BY SumsOf
<1>2. SumFunctionOnSet(f, {}) = g[{}] /\ g[{}] = 0
  BY <1>1 DEF Adds, Totals
<1> QED BY <1>1, <1>2 DEF Totals

LEMMA SumEqual ==
  ASSUME NEW S, IsFiniteSet(S), NEW f, NEW e, IntOn(f, S), \A x \in S : f[x] = e[x]
  PROVE  SumFunctionOnSet(f, S) = SumFunctionOnSet(e, S)
<1>1. PICK g \in [SUBSET S -> Int] : Adds(g, f, S) /\ Totals(g, f, S)
  BY SumsOf
<1>2. IntOn(e, S)
  BY DEF IntOn
<1>3. PICK h \in [SUBSET S -> Int] : Adds(h, e, S) /\ Totals(h, e, S)
  BY <1>2, SumsOf
<1>4. g[S] = h[S]
  BY <1>1, <1>3, AddsAgree
<1> QED BY <1>1, <1>3, <1>4 DEF Totals

\* The terms may be added in any order.
LEMMA SumTake ==
  ASSUME NEW S, IsFiniteSet(S), NEW f, IntOn(f, S), NEW x \in S
  PROVE  SumFunctionOnSet(f, S) = f[x] + SumFunctionOnSet(f, S \ {x})
<1>1. PICK g \in [SUBSET S -> Int] : Adds(g, f, S) /\ Totals(g, f, S)
  BY SumsOf
<1> DEFINE W == {s \in SUBSET S : \E y \in s : g[s] # f[y] + g[s \ {y}]}
<1>2. W = {}
  <2>1. SUFFICES ASSUME W # {} PROVE FALSE
    OBVIOUS
  <2>2. PICK t \in W : \A u \in SUBSET t : u # t => u \notin W
    <3>1. W \in SUBSET (SUBSET S)
      OBVIOUS
    <3> HIDE DEF W
    <3> QED BY <2>1, <3>1, SmallestSet
  <2>3. PICK y \in t : g[t] # f[y] + g[t \ {y}]
    BY <2>2
  <2> DEFINE z == Pick(t)
  <2>4. z \in t /\ t \in SUBSET S
    BY <2>2, <2>3 DEF Pick
  <2>5. g[t] = f[z] + g[t \ {z}]
    BY <1>1, <2>3, <2>4 DEF Adds
  <2> HIDE DEF z
  <2>6. y # z
    BY <2>3, <2>5
  <2>7. t \ {y} \notin W /\ t \ {z} \notin W
    BY <2>2, <2>3, <2>4
  <2>8. z \in t \ {y} /\ y \in t \ {z} /\ (t \ {y}) \ {z} = (t \ {z}) \ {y}
    BY <2>3, <2>4, <2>6
  <2>9. /\ g[t \ {y}] = f[z] + g[(t \ {y}) \ {z}]
        /\ g[t \ {z}] = f[y] + g[(t \ {z}) \ {y}]
    BY <2>4, <2>7, <2>8
  <2>10. f[y] \in Int /\ f[z] \in Int /\ g[(t \ {y}) \ {z}] \in Int
    BY <2>3, <2>4 DEF IntOn
  <2>11. PICK a \in Int, b \in Int, c \in Int :
           a = f[y] /\ b = f[z] /\ c = g[(t \ {y}) \ {z}]
    BY <2>10
  <2>12. g[t] = b + (a + c) /\ g[t \ {y}] = b + c
    BY <2>5, <2>8, <2>9, <2>11
  <2>13. g[t] = a + (b + c)
    BY <2>12
  <2> QED BY <2>3, <2>11, <2>12, <2>13
<1>3. g[S] = f[x] + g[S \ {x}]
  BY <1>2
<1>4. S \in SUBSET S /\ S \ {x} \in SUBSET S
  OBVIOUS
<1> QED BY <1>1, <1>3, <1>4 DEF Totals

LEMMA SumZero ==
  ASSUME NEW S, IsFiniteSet(S), NEW f, \A x \in S : f[x] = 0
  PROVE  SumFunctionOnSet(f, S) = 0
<1>1. IntOn(f, S)
  BY DEF IntOn
<1>2. PICK g \in [SUBSET S -> Int] : Adds(g, f, S) /\ Totals(g, f, S)
  BY <1>1, SumsOf
<1> DEFINE W == {s \in SUBSET S : g[s] = 0}
<1>3. {} \in W
  BY <1>2 DEF Adds
<1>4. ASSUME NEW s \in SUBSET S, NEW x \in S, x \notin s, s \in W PROVE s \cup {x} \in W
  <2>1. s \cup {x} \in SUBSET S /\ (s \cup {x}) \ {x} = s /\ x \in s \cup {x}
    BY <1>4
  <2>2. IsFiniteSet(s \cup {x}) /\ IntOn(f, s \cup {x})
    BY <1>1, <2>1, FS_Subset DEF IntOn
  <2>3. SumFunctionOnSet(f, s \cup {x}) = f[x] + SumFunctionOnSet(f, s)
    BY <2>1, <2>2, SumTake
  <2> QED BY <1>2, <1>4, <2>1, <2>3 DEF Totals
<1>5. S \in W
  <2> HIDE DEF W
  <2> QED BY <1>3, <1>4, UpToSet
<1> QED BY <1>2, <1>5 DEF Totals

\* Sums compare like their terms, up to a common factor.
LEMMA Distribute ==
  ASSUME NEW k \in Int, NEW a \in Int, NEW b \in Int, NEW c \in Int, NEW d \in Int
  PROVE  k * (a - b) + k * (c - d) = k * ((a + c) - (b + d))
OBVIOUS

LEMMA SumCompare ==
  ASSUME NEW S, IsFiniteSet(S), NEW k \in Int,
         NEW a, NEW b, NEW c, NEW d, IntOn(a, S), IntOn(b, S), IntOn(c, S), IntOn(d, S),
         \A x \in S : a[x] - b[x] >= k * (c[x] - d[x])
  PROVE  SumFunctionOnSet(a, S) - SumFunctionOnSet(b, S)
           >= k * (SumFunctionOnSet(c, S) - SumFunctionOnSet(d, S))
<1> DEFINE Sum(f, s) == SumFunctionOnSet(f, s)
           W == {s \in SUBSET S : Sum(a, s) - Sum(b, s) >= k * (Sum(c, s) - Sum(d, s))}
<1>1. \A s \in SUBSET S : IsFiniteSet(s) /\ IntOn(a, s) /\ IntOn(b, s) /\ IntOn(c, s) /\ IntOn(d, s)
  BY FS_Subset DEF IntOn
<1>2. {} \in W
  <2>1. Sum(a, {}) = 0 /\ Sum(b, {}) = 0 /\ Sum(c, {}) = 0 /\ Sum(d, {}) = 0
    BY SumType
  <2>2. k * (0 - 0) = 0
    OBVIOUS
  <2> QED BY <2>1, <2>2
<1>3. ASSUME NEW s \in SUBSET S, NEW x \in S, x \notin s, s \in W PROVE s \cup {x} \in W
  <2> DEFINE t == s \cup {x}
  <2>1. t \in SUBSET S /\ t \ {x} = s /\ x \in t
    BY <1>3
  <2>2. /\ Sum(a, t) = a[x] + Sum(a, s) /\ Sum(b, t) = b[x] + Sum(b, s)
        /\ Sum(c, t) = c[x] + Sum(c, s) /\ Sum(d, t) = d[x] + Sum(d, s)
    <3> HIDE DEF t
    <3> QED BY <1>1, <2>1, SumTake
  <2>3. Sum(a, s) \in Int /\ Sum(b, s) \in Int /\ Sum(c, s) \in Int /\ Sum(d, s) \in Int
    BY <1>1, SumType
  <2>4. a[x] \in Int /\ b[x] \in Int /\ c[x] \in Int /\ d[x] \in Int
    BY DEF IntOn
  <2>5. Sum(a, s) - Sum(b, s) >= k * (Sum(c, s) - Sum(d, s))
    BY <1>3
  <2>6. a[x] - b[x] >= k * (c[x] - d[x])
    OBVIOUS
  <2>7. k * (c[x] - d[x]) + k * (Sum(c, s) - Sum(d, s))
          = k * ((c[x] + Sum(c, s)) - (d[x] + Sum(d, s)))
    BY <2>3, <2>4, Distribute
  <2>8. PICK A \in Int, B \in Int, u \in Int, v \in Int :
          /\ A = k * (c[x] - d[x]) /\ B = k * (Sum(c, s) - Sum(d, s))
          /\ u = a[x] - b[x] /\ v = Sum(a, s) - Sum(b, s)
    BY <2>3, <2>4
  <2>9. u + v >= A + B
    BY <2>5, <2>6, <2>8
  <2>10. (a[x] + Sum(a, s)) - (b[x] + Sum(b, s)) = u + v
    BY <2>3, <2>4, <2>8
  <2>11. Sum(a, t) - Sum(b, t) >= k * (Sum(c, t) - Sum(d, t))
    <3> HIDE DEF t
    <3> QED BY <2>2, <2>7, <2>8, <2>9, <2>10
  <2> QED BY <2>1, <2>11
<1>4. S \in W
  <2> HIDE DEF W
  <2> QED BY <1>2, <1>3, UpToSet
<1> QED BY <1>4

-----------------------------------------------------------------------------
(***************************************************************************)
(* The levels of one side, nearest first.                                  *)
(***************************************************************************)
LEMMA BookFacts ==
  /\ Prices \subseteq Nat \ {0} /\ MaxQty \in Nat \ {0} /\ Notionals \subseteq Nat \ {0}
  /\ Bands \subseteq Nat /\ Unit \in Nat \ {0}
<1>1. Prices \subseteq Nat \ {0}
  BY BookAssumption
<1>2. MaxQty \in Nat \ {0}
  BY BookAssumption
<1>3. Notionals \subseteq Nat \ {0}
  BY BookAssumption
<1>4. Bands \subseteq Nat
  BY BookAssumption
<1>5. Unit \in Nat \ {0}
  BY UnitAssumption
<1> QED BY <1>1, <1>2, <1>3, <1>4, <1>5, Zenon

LEMMA UnitParts ==
  ASSUME NEW p \in Prices
  PROVE  p * (Unit \div p) = Unit
  BY UnitAssumption

SideOK(side) ==
  DOMAIN side \subseteq Prices /\ \A p \in DOMAIN side : side[p] \in Nat \ {0}

LEMMA FactorBounds ==
  ASSUME NEW p \in Nat \ {0}, NEW k \in Int, NEW u \in Nat \ {0}, p * k = u
  PROVE  k >= 1 /\ p <= u
<1>1. k >= 1
  <2> SUFFICES ASSUME k <= 0 PROVE FALSE
    OBVIOUS
  <2>1. p * k <= 0
    OBVIOUS
  <2> QED BY <2>1
<1>2. p * (k - 1) >= 0
  BY <1>1
<1>3. p * (k - 1) = p * k - p
  OBVIOUS
<1> QED BY <1>1, <1>2, <1>3

LEMMA SideFinite ==
  ASSUME NEW side, SideOK(side)
  PROVE  DOMAIN side \in SUBSET (Nat \ {0}) /\ IsFiniteSet(DOMAIN side)
<1>1. \A p \in Prices : p \in 1..Unit
  <2> TAKE p \in Prices
  <2>1. p \in Nat \ {0} /\ Unit \in Nat \ {0} /\ Unit \div p \in Int /\ p * (Unit \div p) = Unit
    <3>1. p \in Nat \ {0} /\ Unit \in Nat \ {0}
      BY BookFacts
    <3>2. Unit \div p \in Int
      BY <3>1
    <3> QED BY <3>1, <3>2, UnitParts
  <2>2. PICK k \in Int : p * k = Unit
    BY <2>1
  <2> QED BY <2>1, <2>2, FactorBounds
<1>2. 1 \in Int /\ Unit \in Int
  BY BookFacts
<1>3. IsFiniteSet(1..Unit)
  BY <1>2, FS_Interval
<1>4. DOMAIN side \subseteq 1..Unit
  BY <1>1 DEF SideOK
<1>5. IsFiniteSet(DOMAIN side)
  BY <1>3, <1>4, FS_Subset
<1>6. DOMAIN side \subseteq Nat \ {0}
  <2>1. DOMAIN side \subseteq Prices
    BY DEF SideOK
  <2>2. Prices \subseteq Nat \ {0}
    BY BookFacts
  <2> QED BY <2>1, <2>2
<1> QED BY <1>5, <1>6

InOrder(all, side, isBid) ==
  /\ all \in Seq(DOMAIN side)
  /\ Len(all) = Cardinality(DOMAIN side)
  /\ \A i, j \in 1..Len(all) : i < j => Nearer(isBid, all[i], all[j])
  /\ \A p \in DOMAIN side : \E i \in 1..Len(all) : all[i] = p

LEMMA BestFirstInOrder ==
  ASSUME NEW side, SideOK(side), NEW isBid
  PROVE  InOrder(BestFirst(side, isBid), side, isBid)
<1> DEFINE X == DOMAIN side
           n == Cardinality(X)
           scores == [p \in X |-> IF isBid THEN p ELSE 0]
           all == [i \in 1..n |-> CHOOSE p \in X : Place(X, scores, p) = i]
<1>1. X \in SUBSET Nat /\ IsFiniteSet(X) /\ n \in Nat
  BY SideFinite, FS_CardinalityType
<1>2. \A p \in X : scores[p] \in Int
  BY <1>1
<1>3. \A r, p \in X : RanksBefore(scores, r, p) <=> Nearer(isBid, r, p)
  BY <1>1 DEF RanksBefore, Nearer
<1> HIDE DEF scores
<1>4. \A p \in X : Place(X, scores, p) = 1 + Cardinality({r \in X : Nearer(isBid, r, p)})
  <2> TAKE p \in X
  <2>1. {r \in X : Nearer(isBid, r, p)} = {r \in X : RanksBefore(scores, r, p)}
    BY <1>3
  <2> QED BY <2>1 DEF Place
<1>5. BestFirst(side, isBid) = all
  BY <1>4 DEF BestFirst
<1> HIDE DEF X, n
<1>6. \A i \in 1..n : all[i] \in X /\ Place(X, scores, all[i]) = i
  BY <1>1, <1>2, PlaceTaken DEF n
<1>7. all \in Seq(X) /\ Len(all) = n
  BY <1>1, <1>6
<1>8. /\ \A p \in X : Place(X, scores, p) \in 1..n
      /\ \A a, b \in X : RanksBefore(scores, a, b) => Place(X, scores, a) < Place(X, scores, b)
      /\ \A a, b \in X : a # b => RanksBefore(scores, a, b) \/ RanksBefore(scores, b, a)
  BY <1>1, <1>2, PlaceOrder, RanksBeforeOrder DEF n
<1> HIDE DEF all
<1>9. ASSUME NEW i \in 1..n, NEW j \in 1..n, i < j PROVE Nearer(isBid, all[i], all[j])
  <2>1. all[i] \in X /\ all[j] \in X /\ Place(X, scores, all[i]) = i /\ Place(X, scores, all[j]) = j
    BY <1>6
  <2>2. all[i] # all[j] /\ ~(j < i)
    BY <1>1, <1>9, <2>1
  <2>3. RanksBefore(scores, all[i], all[j])
    BY <1>8, <2>1, <2>2
  <2> QED BY <1>3, <2>1, <2>3
<1>10. ASSUME NEW p \in X PROVE \E i \in 1..n : all[i] = p
  <2>1. PICK i \in 1..n : i = Place(X, scores, p)
    BY <1>8
  <2>2. all[i] \in X /\ Place(X, scores, all[i]) = i
    BY <1>6
  <2>3. ~(i < i)
    BY <1>1
  <2>4. all[i] = p
    BY <1>8, <2>1, <2>2, <2>3
  <2> QED BY <2>4
<1> QED BY <1>5, <1>7, <1>9, <1>10 DEF InOrder, X, n

LEMMA NearerOrder ==
  ASSUME NEW isBid, NEW p \in Nat, NEW r \in Nat
  PROVE  ~(Nearer(isBid, p, r) /\ Nearer(isBid, r, p))
BY DEF Nearer

LEMMA PrefixSet ==
  ASSUME NEW S, NEW seq \in Seq(S), NEW n \in 0..Len(seq)
  PROVE  ToSet(SubSeq(seq, 1, n)) = {seq[i] : i \in 1..n}
<1>1. Len(seq) \in Nat /\ n \in Nat /\ n <= Len(seq)
  OBVIOUS
<1>2. \A i \in 1..n : i \in 1..Len(seq) /\ seq[i] \in S
  BY <1>1
<1>3. /\ SubSeq(seq, 1, n) \in Seq(S)
      /\ Len(SubSeq(seq, 1, n)) = IF 1 <= n THEN n - 1 + 1 ELSE 0
      /\ \A i \in 1..(n - 1 + 1) : SubSeq(seq, 1, n)[i] = seq[1 + i - 1]
  BY <1>1, <1>2, SubSeqProperties
<1>4. Len(SubSeq(seq, 1, n)) = n
  BY <1>1, <1>3
<1>5. \A i \in 1..n : SubSeq(seq, 1, n)[i] = seq[i]
  BY <1>1, <1>3
<1>6. DOMAIN SubSeq(seq, 1, n) = 1..n
  BY <1>3, <1>4
<1> QED BY <1>5, <1>6 DEF ToSet

LEMMA InOrderDistinct ==
  ASSUME NEW side, SideOK(side), NEW isBid, NEW all, InOrder(all, side, isBid)
  PROVE  \A i, j \in 1..Len(all) : i # j => all[i] # all[j]
<1>1. Len(all) \in Nat /\ \A i \in 1..Len(all) : all[i] \in DOMAIN side /\ all[i] \in Nat
  BY SideFinite DEF InOrder
<1> SUFFICES ASSUME NEW i \in 1..Len(all), NEW j \in 1..Len(all), i # j PROVE all[i] # all[j]
  OBVIOUS
<1>2. i < j \/ j < i
  BY <1>1
<1>3. Nearer(isBid, all[i], all[j]) \/ Nearer(isBid, all[j], all[i])
  BY <1>2 DEF InOrder
<1> QED BY <1>1, <1>3, NearerOrder

-----------------------------------------------------------------------------
(***************************************************************************)
(* The fill, level by level.                                               *)
(***************************************************************************)
Worth(side) == [p \in DOMAIN side |-> p * side[p]]

LEMMA WorthType ==
  ASSUME NEW side, SideOK(side)
  PROVE  \A p \in DOMAIN side : Worth(side)[p] = p * side[p] /\ Worth(side)[p] \in Nat
<1> TAKE p \in DOMAIN side
<1>1. p \in Nat /\ side[p] \in Nat
  BY SideFinite DEF SideOK
<1>2. p * side[p] \in Nat
  BY <1>1
<1> QED BY <1>2 DEF Worth

FillState(side) == [remaining : Nat, used : [DOMAIN side -> Nat]]

FillStart(side, notional) ==
  [remaining |-> notional, used |-> [p \in DOMAIN side |-> 0]]

LEMMA FillLevelIs ==
  ASSUME NEW side, SideOK(side), NEW p \in DOMAIN side, NEW state \in FillState(side)
  PROVE  \E take \in Nat :
           /\ take <= Worth(side)[p] /\ take <= state.remaining
           /\ take = Worth(side)[p] \/ take = state.remaining
           /\ FillLevel(side, p, state) = [remaining |-> state.remaining - take,
                                          used |-> [state.used EXCEPT ![p] = take]]
           /\ FillLevel(side, p, state) \in FillState(side)
<1> DEFINE take == IF p * side[p] <= state.remaining THEN p * side[p] ELSE state.remaining
<1>1. p * side[p] = Worth(side)[p] /\ Worth(side)[p] \in Nat
  BY WorthType
<1>2. state.remaining \in Nat /\ state.used \in [DOMAIN side -> Nat]
  BY DEF FillState
<1>3. /\ take \in Nat /\ take <= Worth(side)[p] /\ take <= state.remaining
      /\ take = Worth(side)[p] \/ take = state.remaining
  BY <1>1, <1>2
<1>4. FillLevel(side, p, state) = [remaining |-> state.remaining - take,
                                   used |-> [state.used EXCEPT ![p] = take]]
  BY DEF FillLevel
<1> HIDE DEF take
<1>5. state.remaining - take \in Nat /\ [state.used EXCEPT ![p] = take] \in [DOMAIN side -> Nat]
  BY <1>2, <1>3
<1>6. [remaining |-> state.remaining - take, used |-> [state.used EXCEPT ![p] = take]]
        \in FillState(side)
  BY <1>5 DEF FillState
<1> QED BY <1>3, <1>4, <1>6

FillRuns(g, all, side, notional) ==
  /\ g \in [0..Len(all) -> FillState(side)]
  /\ g[0] = FillStart(side, notional)
  /\ \A i \in 1..Len(all) : g[i] = FillLevel(side, all[i], g[i - 1])

LEMMA FillIsRun ==
  ASSUME NEW side, SideOK(side), NEW isBid, NEW notional \in Nat
  PROVE  \E g : /\ FillRuns(g, BestFirst(side, isBid), side, notional)
                /\ Fill(side, isBid, notional) = g[Len(BestFirst(side, isBid))]
<1> DEFINE V == FillState(side)
           start == FillStart(side, notional)
<1>1. PICK all : all = BestFirst(side, isBid)
  OBVIOUS
<1>2. InOrder(all, side, isBid)
  BY <1>1, BestFirstInOrder
<1>3. PICK n \in Nat : n = Len(all)
  BY <1>2 DEF InOrder
<1> DEFINE Body(g) == [i \in 0..n |->
             IF i = 0 THEN start ELSE FillLevel(side, all[i], g[i - 1])]
<1>4. \A i \in 1..n : all[i] \in DOMAIN side
  BY <1>2, <1>3 DEF InOrder
<1>5. \A i \in 1..n, state \in V : FillLevel(side, all[i], state) \in V
  BY <1>4, FillLevelIs
<1>6. PICK turn : \A i \in 1..n, state \in V : turn[<<i, state>>] = FillLevel(side, all[i], state)
  <2> DEFINE t == [x \in (1..n) \X V |-> FillLevel(side, all[x[1]], x[2])]
  <2>1. \A i \in 1..n, state \in V : t[<<i, state>>] = FillLevel(side, all[i], state)
    OBVIOUS
  <2> HIDE DEF t
  <2> QED BY <2>1
<1>7. start \in V
  BY DEF FillState, FillStart
<1>8. Fill(side, isBid, notional) = (CHOOSE g : g = Body(g))[n]
  BY <1>1, <1>3 DEF Fill, FillStart
<1> HIDE DEF V, start
<1>9. Turns(turn, n, V)
  BY <1>5, <1>6 DEF Turns
<1>10. PICK g : IsRun(g, start, turn, n, V)
  BY <1>7, <1>9, LoopRuns
<1>11. g \in [0..n -> V] /\ g[0] = start
  BY <1>10 DEF IsRun
<1>12. \A i \in 1..n : g[i] = FillLevel(side, all[i], g[i - 1])
  <2> TAKE i \in 1..n
  <2>1. i - 1 \in 0..n
    BY <1>3
  <2> QED BY <1>6, <1>10, <1>11, <2>1 DEF IsRun
<1>13. ASSUME NEW h, h = Body(h) PROVE h = g
  <2>1. h[0] = start /\ \A i \in 1..n : h[i] = FillLevel(side, all[i], h[i - 1])
    BY <1>3, <1>13
  <2>2. Follows(h, turn, n, V)
    BY <1>6, <2>1 DEF Follows
  <2>3. Agree(h, g, n)
    <3>1. h[0] = start
      BY <2>1
    <3> QED BY <1>3, <1>10, <2>2, <3>1, LoopIsRun
  <2>4. h = [i \in 0..n |-> h[i]]
    BY <1>13
  <2>5. g = [i \in 0..n |-> g[i]]
    BY <1>11
  <2> QED BY <2>3, <2>4, <2>5 DEF Agree
<1>14. g = Body(g)
  <2>1. \A i \in 0..n : g[i] = IF i = 0 THEN start ELSE FillLevel(side, all[i], g[i - 1])
    <3> TAKE i \in 0..n
    <3>1. i = 0 \/ i \in 1..n
      BY <1>3
    <3> QED BY <1>3, <1>11, <1>12, <3>1
  <2>2. g = [i \in 0..n |-> g[i]]
    BY <1>11
  <2> QED BY <2>1, <2>2
<1>15. (CHOOSE h : h = Body(h)) = g
  <2> HIDE DEF Body
  <2> QED BY <1>13, <1>14
<1>16. Fill(side, isBid, notional) = g[n]
  <2> HIDE DEF Body
  <2> QED BY <1>8, <1>15
<1> QED BY <1>1, <1>3, <1>11, <1>12, <1>16 DEF FillRuns, V, start

\* After i levels: what was spent and what remains make the notional; the
\* levels before one that was touched are used up, and all of them are as
\* long as anything remains.
FilledBy(state, i, all, side, notional) ==
  /\ state \in FillState(side)
  /\ \A p \in DOMAIN side : state.used[p] <= Worth(side)[p]
  /\ SumFunctionOnSet(state.used, DOMAIN side) + state.remaining = notional
  /\ state.remaining > 0 => \A k \in 1..i : state.used[all[k]] = Worth(side)[all[k]]
  /\ \A k \in (i + 1)..Len(all) : state.used[all[k]] = 0
  /\ \A j, k \in 1..i :
       j < k /\ state.used[all[k]] > 0 => state.used[all[j]] = Worth(side)[all[j]]

LEMMA FillStartIs ==
  ASSUME NEW side, SideOK(side), NEW isBid, NEW all, InOrder(all, side, isBid),
         NEW notional \in Nat
  PROVE  FilledBy(FillStart(side, notional), 0, all, side, notional)
<1> DEFINE state == FillStart(side, notional)
<1>1. /\ state \in FillState(side) /\ state.remaining = notional
      /\ \A p \in DOMAIN side : state.used[p] = 0
  BY DEF FillStart, FillState
<1>2. \A k \in 1..Len(all) : all[k] \in DOMAIN side
  BY DEF InOrder
<1> HIDE DEF state
<1>3. SumFunctionOnSet(state.used, DOMAIN side) = 0
  BY <1>1, SideFinite, SumZero
<1>4. SumFunctionOnSet(state.used, DOMAIN side) + state.remaining = notional
  BY <1>1, <1>3
<1>5. \A p \in DOMAIN side : state.used[p] <= Worth(side)[p]
  BY <1>1, WorthType
<1> QED BY <1>1, <1>2, <1>4, <1>5 DEF FilledBy, state

LEMMA FillLevelKeeps ==
  ASSUME NEW side, SideOK(side), NEW isBid, NEW all, InOrder(all, side, isBid),
         NEW notional \in Nat, NEW i \in 0..(Len(all) - 1), NEW state,
         FilledBy(state, i, all, side, notional)
  PROVE  FilledBy(FillLevel(side, all[i + 1], state), i + 1, all, side, notional)
<1> DEFINE new == FillLevel(side, all[i + 1], state)
           D == DOMAIN side
<1>1. Len(all) \in Nat /\ i + 1 \in 1..Len(all) /\ i \in Nat
  BY DEF InOrder
<1>2. PICK p \in D : p = all[i + 1]
  BY <1>1 DEF InOrder
<1>3. \A k \in 1..Len(all) : all[k] \in D
  BY DEF InOrder
<1>4. \A k \in 1..Len(all) : k # i + 1 => all[k] # p
  BY <1>1, <1>2, InOrderDistinct
<1>5. state \in FillState(side) /\ state.used \in [D -> Nat] /\ state.remaining \in Nat
  BY DEF FilledBy, FillState
<1>6. PICK take \in Nat :
        /\ take <= Worth(side)[p] /\ take <= state.remaining
        /\ take = Worth(side)[p] \/ take = state.remaining
        /\ new = [remaining |-> state.remaining - take,
                  used |-> [state.used EXCEPT ![p] = take]]
        /\ new \in FillState(side)
  BY <1>2, <1>5, FillLevelIs
<1>7. /\ new.remaining = state.remaining - take /\ new.used[p] = take
      /\ \A r \in D : r # p => new.used[r] = state.used[r]
      /\ new.used \in [D -> Nat]
  BY <1>5, <1>6
<1> HIDE DEF new
<1>8. state.used[p] = 0
  BY <1>1, <1>2 DEF FilledBy
<1>9. \A r \in D : Worth(side)[r] \in Nat
  BY WorthType
<1>10. \A r \in D : new.used[r] <= Worth(side)[r]
  BY <1>6, <1>7 DEF FilledBy
<1>11. SumFunctionOnSet(new.used, D) + new.remaining = notional
  <2>1. IsFiniteSet(D) /\ IsFiniteSet(D \ {p})
    BY SideFinite, FS_Subset
  <2>2. IntOn(new.used, D) /\ IntOn(state.used, D) /\ IntOn(new.used, D \ {p})
        /\ IntOn(state.used, D \ {p})
    BY <1>5, <1>7 DEF IntOn
  <2>3. \A r \in D \ {p} : new.used[r] = state.used[r]
    BY <1>7
  <2> HIDE DEF D
  <2>4. SumFunctionOnSet(new.used, D) = new.used[p] + SumFunctionOnSet(new.used, D \ {p})
    BY <2>1, <2>2, SumTake
  <2>5. SumFunctionOnSet(state.used, D) = state.used[p] + SumFunctionOnSet(state.used, D \ {p})
    BY <2>1, <2>2, SumTake
  <2>6. SumFunctionOnSet(new.used, D \ {p}) = SumFunctionOnSet(state.used, D \ {p})
    BY <2>1, <2>2, <2>3, SumEqual
  <2>7. SumFunctionOnSet(state.used, D \ {p}) \in Int
    BY <2>1, <2>2, SumType
  <2>8. SumFunctionOnSet(state.used, D) + state.remaining = notional
    BY DEF FilledBy, D
  <2> QED BY <1>5, <1>7, <1>8, <2>4, <2>5, <2>6, <2>7, <2>8
<1>12. ASSUME new.remaining > 0, NEW k \in 1..(i + 1)
       PROVE  new.used[all[k]] = Worth(side)[all[k]]
  <2>1. state.remaining > 0 /\ take = Worth(side)[p]
    BY <1>5, <1>6, <1>7, <1>12
  <2>2. CASE k = i + 1
    BY <1>2, <1>7, <2>1, <2>2
  <2>3. CASE k # i + 1
    <3>1. k \in 1..i /\ k \in 1..Len(all)
      BY <1>1, <2>3
    <3>2. all[k] \in D /\ all[k] # p
      BY <1>3, <1>4, <2>3, <3>1
    <3>3. state.used[all[k]] = Worth(side)[all[k]]
      BY <2>1, <3>1 DEF FilledBy
    <3> QED BY <1>7, <3>2, <3>3
  <2> QED BY <2>2, <2>3
<1>13. ASSUME NEW k \in ((i + 1) + 1)..Len(all) PROVE new.used[all[k]] = 0
  <2>1. k \in (i + 1)..Len(all) /\ k \in 1..Len(all) /\ k # i + 1
    BY <1>1
  <2>2. all[k] \in D /\ all[k] # p
    BY <1>3, <1>4, <2>1
  <2>3. state.used[all[k]] = 0
    BY <2>1 DEF FilledBy
  <2> QED BY <1>7, <2>2, <2>3
<1>14. ASSUME NEW j \in 1..(i + 1), NEW k \in 1..(i + 1), j < k, new.used[all[k]] > 0
       PROVE  new.used[all[j]] = Worth(side)[all[j]]
  <2>1. j \in 1..i /\ j \in 1..Len(all) /\ j # i + 1
    BY <1>1, <1>14
  <2>2. all[j] \in D /\ new.used[all[j]] = state.used[all[j]]
    BY <1>3, <1>4, <1>7, <2>1
  <2>3. CASE k = i + 1
    <3>1. state.remaining > 0
      BY <1>2, <1>5, <1>6, <1>7, <1>14, <2>3
    <3>2. state.used[all[j]] = Worth(side)[all[j]]
      BY <2>1, <3>1 DEF FilledBy
    <3> QED BY <2>2, <3>2
  <2>4. CASE k # i + 1
    <3>1. k \in 1..i /\ k \in 1..Len(all)
      BY <1>1, <2>4
    <3>2. new.used[all[k]] = state.used[all[k]]
      BY <1>3, <1>4, <1>7, <2>4, <3>1
    <3>3. state.used[all[j]] = Worth(side)[all[j]]
      BY <1>14, <2>1, <3>1, <3>2 DEF FilledBy
    <3> QED BY <2>2, <3>3
  <2> QED BY <2>3, <2>4
<1> QED BY <1>6, <1>10, <1>11, <1>12, <1>13, <1>14 DEF FilledBy, new, D

LEMMA FillIsFilled ==
  ASSUME NEW side, SideOK(side), NEW isBid, NEW notional \in Nat
  PROVE  \E all : /\ InOrder(all, side, isBid)
                  /\ FilledBy(Fill(side, isBid, notional), Len(all), all, side, notional)
<1>1. PICK all : all = BestFirst(side, isBid)
  OBVIOUS
<1>2. InOrder(all, side, isBid)
  BY <1>1, BestFirstInOrder
<1>3. PICK g : FillRuns(g, all, side, notional) /\ Fill(side, isBid, notional) = g[Len(all)]
  BY <1>1, FillIsRun
<1>4. PICK n \in Nat : n = Len(all)
  BY <1>2 DEF InOrder
<1> DEFINE K == {i \in 0..n : FilledBy(g[i], i, all, side, notional)}
<1>5. 0 \in K
  BY <1>2, <1>3, <1>4, FillStartIs DEF FillRuns
<1>6. ASSUME NEW i \in 0..(n - 1), i \in K PROVE i + 1 \in K
  <2>1. i \in 0..(Len(all) - 1) /\ i + 1 \in 1..Len(all) /\ i + 1 \in 0..n /\ (i + 1) - 1 = i
    BY <1>4
  <2>2. g[i + 1] = FillLevel(side, all[i + 1], g[i])
    BY <1>3, <2>1 DEF FillRuns
  <2>3. FilledBy(FillLevel(side, all[i + 1], g[i]), i + 1, all, side, notional)
    BY <1>2, <1>6, <2>1, FillLevelKeeps
  <2> QED BY <2>1, <2>2, <2>3
<1>7. n \in K
  <2>1. n \in 0..n
    BY <1>4
  <2> HIDE DEF K
  <2> QED BY <1>4, <1>5, <1>6, <2>1, UpTo
<1> QED BY <1>2, <1>3, <1>4, <1>7

\* b is the last level that was touched: those nearer are used up, and
\* those farther away are not touched.
LastAt(b, used, side, isBid) ==
  \A p \in DOMAIN side :
    \/ p = b
    \/ Nearer(isBid, p, b) /\ used[p] = Worth(side)[p]
    \/ Nearer(isBid, b, p) /\ used[p] = 0

\* When nothing remains there is a last level.
LEMMA LastLevel ==
  ASSUME NEW side, SideOK(side), NEW isBid, NEW notional \in Nat \ {0}, NEW state, NEW all,
         InOrder(all, side, isBid), FilledBy(state, Len(all), all, side, notional),
         state.remaining <= 0
  PROVE  \E b \in DOMAIN side : LastAt(b, state.used, side, isBid)
<1> DEFINE D == DOMAIN side
<1>1. PICK n \in Nat : n = Len(all)
  BY DEF InOrder
<1>2. state.used \in [D -> Nat] /\ state.remaining \in Nat
  BY DEF FilledBy, FillState
<1>3. SumFunctionOnSet(state.used, D) = notional
  <2>1. IntOn(state.used, D) /\ IsFiniteSet(D)
    BY <1>2, SideFinite DEF IntOn
  <2>2. SumFunctionOnSet(state.used, D) \in Int
    BY <2>1, SumType
  <2>3. SumFunctionOnSet(state.used, D) + state.remaining = notional
    BY DEF FilledBy
  <2> QED BY <1>2, <2>2, <2>3
<1> DEFINE K == {m \in 0..n : m < n /\ state.used[all[n - m]] > 0}
<1>4. K # {}
  <2> SUFFICES ASSUME K = {} PROVE FALSE
    OBVIOUS
  <2>1. ASSUME NEW p \in D PROVE state.used[p] = 0
    <3>1. PICK i \in 1..n : all[i] = p
      BY <1>1 DEF InOrder
    <3>2. n - i \in 0..n /\ n - i < n /\ n - (n - i) = i
      BY <1>1
    <3>3. ~(state.used[p] > 0)
      BY <3>1, <3>2
    <3> QED BY <1>2, <3>3
  <2>2. SumFunctionOnSet(state.used, D) = 0
    BY <2>1, SideFinite, SumZero
  <2> QED BY <1>3, <2>2
<1>5. K \in SUBSET Nat
  OBVIOUS
<1>6. PICK m \in K : \A l \in K : m <= l
  <2> HIDE DEF K
  <2> QED BY <1>4, <1>5, NatLeast
<1>7. PICK last \in 1..n : last = n - m
  BY <1>1, <1>6
<1>8. state.used[all[last]] > 0
  BY <1>6, <1>7
<1>9. ASSUME NEW k \in 1..n, last < k PROVE state.used[all[k]] = 0
  <2>a. m \in Nat /\ last = n - m
    BY <1>5, <1>6, <1>7
  <2>b. k \in Nat /\ 1 <= k /\ k <= n /\ n - m < k
    BY <1>1, <1>9, <2>a
  <2>1. n - k \in 0..n /\ n - k < n /\ n - (n - k) = k /\ n - k < m
    BY <1>1, <2>a, <2>b
  <2>2. n - k \notin K
    <3> HIDE DEF K
    <3> SUFFICES ASSUME n - k \in K PROVE FALSE
      OBVIOUS
    <3>1. m <= n - k
      BY <1>6
    <3> QED BY <2>1, <2>a, <3>1
  <2>3. ~(state.used[all[k]] > 0)
    BY <2>1, <2>2
  <2>4. all[k] \in D
    BY <1>1 DEF InOrder
  <2> QED BY <1>2, <2>3, <2>4
<1>10. ASSUME NEW k \in 1..n, k < last PROVE state.used[all[k]] = Worth(side)[all[k]]
  BY <1>1, <1>8, <1>10 DEF FilledBy
<1>11. all[last] \in D
  BY <1>1 DEF InOrder
<1>12. ASSUME NEW p \in D
       PROVE  \/ p = all[last]
              \/ Nearer(isBid, p, all[last]) /\ state.used[p] = Worth(side)[p]
              \/ Nearer(isBid, all[last], p) /\ state.used[p] = 0
  <2>1. PICK k \in 1..n : all[k] = p
    BY <1>1 DEF InOrder
  <2>2. k = last \/ k < last \/ last < k
    BY <1>1
  <2>3. CASE k = last
    BY <2>1, <2>3
  <2>4. CASE k < last
    <3>1. Nearer(isBid, all[k], all[last])
      BY <1>1, <2>4 DEF InOrder
    <3> QED BY <1>10, <2>1, <2>4, <3>1
  <2>5. CASE last < k
    <3>1. Nearer(isBid, all[last], all[k])
      BY <1>1, <2>5 DEF InOrder
    <3> QED BY <1>9, <2>1, <2>5, <3>1
  <2> QED BY <2>2, <2>3, <2>4, <2>5
<1> QED BY <1>11, <1>12 DEF LastAt

-----------------------------------------------------------------------------
(***************************************************************************)
(* No other way to spend the notional is better.                           *)
(***************************************************************************)
LEMMA Cheaper ==
  ASSUME NEW p \in Nat \ {0}, NEW r \in Nat \ {0}, NEW v \in Int, NEW w \in Int,
         NEW u \in Nat \ {0}, p * v = u, r * w = u, p < r
  PROVE  w <= v
<1>1. v >= 1 /\ w >= 1
  BY FactorBounds
<1> SUFFICES ASSUME w >= v + 1 PROVE FALSE
  OBVIOUS
<1>2. PICK a \in Nat, c \in Nat : r = p + 1 + a /\ w = v + 1 + c
  <2>1. r - p - 1 \in Nat /\ w - v - 1 \in Nat
    OBVIOUS
  <2>2. r = p + 1 + (r - p - 1) /\ w = v + 1 + (w - v - 1)
    OBVIOUS
  <2> QED BY <2>1, <2>2
<1>3. (p + 1 + a) * (v + 1 + c) = p * v + p * (1 + c) + (1 + a) * (v + 1 + c)
  BY <1>1
<1>4. p * (1 + c) >= 0 /\ (1 + a) * (v + 1 + c) >= 1
  <2>1. p * (1 + c) >= 0
    OBVIOUS
  <2>2. (v + 1 + c) + a * (v + 1 + c) = (1 + a) * (v + 1 + c)
    BY <1>1
  <2>3. a * (v + 1 + c) >= 0 /\ v + 1 + c >= 1
    BY <1>1
  <2> QED BY <2>1, <2>2, <2>3, <1>1
<1>5. r * w >= p * v + 1
  BY <1>1, <1>2, <1>3, <1>4
<1> QED BY <1>5

LEMMA Exchange ==
  ASSUME NEW x \in Int, NEW y \in Int, NEW w \in Int, NEW c \in Int,
         (y <= x /\ c <= w) \/ (x <= y /\ w <= c)
  PROVE  x * w - y * w >= c * (x - y)
<1>1. PICK a \in Int, e \in Int : a = x - y /\ e = w - c /\ x = y + a /\ w = c + e
  OBVIOUS
<1>2. (a >= 0 /\ e >= 0) \/ (a <= 0 /\ e <= 0)
  BY <1>1
<1>3. a * e >= 0
  BY <1>2
<1>4. (y + a) * (c + e) - y * (c + e) = c * a + a * e
  OBVIOUS
<1>5. c * a \in Int /\ a * e \in Int
  OBVIOUS
<1> QED BY <1>1, <1>3, <1>4, <1>5

Affordable(used, side) == \A p \in DOMAIN side : used[p] <= Worth(side)[p]

\* Two ways to spend the same, one of them nearest first with the last
\* level b.
LEMMA NearestFirstIsBest ==
  ASSUME NEW side, SideOK(side), NEW isBid, NEW b \in DOMAIN side,
         NEW x \in [DOMAIN side -> Nat], NEW y \in [DOMAIN side -> Nat],
         SumFunctionOnSet(x, DOMAIN side) = SumFunctionOnSet(y, DOMAIN side),
         Affordable(y, side), LastAt(b, x, side, isBid)
  PROVE  IF isBid THEN Acquired(x) <= Acquired(y) ELSE Acquired(y) <= Acquired(x)
<1> DEFINE D == DOMAIN side
           w == [p \in D |-> Unit \div p]
           xs == [p \in D |-> x[p] * w[p]]
           ys == [p \in D |-> y[p] * w[p]]
           c == w[b]
<1>1. IsFiniteSet(D) /\ D \subseteq Nat \ {0}
  BY SideFinite
<1>0. Unit \in Nat \ {0} /\ \A p \in D : p * (Unit \div p) = Unit
  <2>1. D \subseteq Prices
    BY DEF SideOK
  <2>2. \A p \in D : p * (Unit \div p) = Unit
    BY <2>1, UnitParts
  <2> QED BY <2>2, BookFacts
<1>2. \A p \in D : w[p] \in Int /\ p * w[p] = Unit
  BY <1>0, <1>1
<1>3. Acquired(x) = SumFunctionOnSet(xs, D) /\ Acquired(y) = SumFunctionOnSet(ys, D)
  <2>1. DOMAIN x = D /\ DOMAIN y = D
    OBVIOUS
  <2>2. [p \in DOMAIN x |-> x[p] * (Unit \div p)] = xs
    BY <2>1
  <2>3. [p \in DOMAIN y |-> y[p] * (Unit \div p)] = ys
    BY <2>1
  <2>4. Acquired(x) = SumFunctionOnSet(xs, DOMAIN xs) /\ Acquired(y) = SumFunctionOnSet(ys, DOMAIN ys)
    BY <2>2, <2>3 DEF Acquired, SumFunction
  <2> QED BY <2>4
<1> HIDE DEF w
<1>4. ASSUME NEW p \in D, NEW r \in D, p < r PROVE w[r] <= w[p]
  <2>1. /\ p \in Nat \ {0} /\ r \in Nat \ {0} /\ w[p] \in Int /\ w[r] \in Int
        /\ p * w[p] = Unit /\ r * w[r] = Unit /\ Unit \in Nat \ {0}
    BY <1>0, <1>1, <1>2
  <2> QED BY <1>4, <2>1, Cheaper
<1>5. \A p \in D : xs[p] = x[p] * w[p] /\ ys[p] = y[p] * w[p] /\ xs[p] \in Int /\ ys[p] \in Int
  BY <1>2
<1>6. IntOn(xs, D) /\ IntOn(ys, D) /\ IntOn(x, D) /\ IntOn(y, D) /\ c \in Int
  <2>1. IntOn(xs, D) /\ IntOn(ys, D)
    BY <1>5 DEF IntOn
  <2>2. IntOn(x, D) /\ IntOn(y, D)
    BY DEF IntOn
  <2> QED BY <1>2, <2>1, <2>2
<1> HIDE DEF xs, ys
<1>7. \A p \in D : Worth(side)[p] \in Nat
  BY WorthType
<1>8. PICK t \in Int : t = SumFunctionOnSet(x, D) /\ t = SumFunctionOnSet(y, D)
  BY <1>1, <1>6, SumType
<1>9. PICK X \in Int, Y \in Int : X = SumFunctionOnSet(xs, D) /\ Y = SumFunctionOnSet(ys, D)
  BY <1>1, <1>6, SumType
<1>10. CASE isBid
  <2>1. ASSUME NEW p \in D PROVE ys[p] - xs[p] >= c * (y[p] - x[p])
    <3>1. CASE p = b
      BY <1>2, <1>5, <3>1, Exchange
    <3>2. CASE Nearer(isBid, p, b) /\ x[p] = Worth(side)[p]
      <4>1. b < p
        BY <1>10, <3>2 DEF Nearer
      <4>2. w[p] <= c /\ y[p] <= x[p]
        BY <1>4, <3>2, <4>1 DEF Affordable
      <4>3. x[p] \in Int /\ y[p] \in Int /\ w[p] \in Int /\ c \in Int
        BY <1>2, <1>6
      <4> HIDE DEF c
      <4> QED BY <1>5, <4>2, <4>3, Exchange
    <3>3. CASE Nearer(isBid, b, p) /\ x[p] = 0
      <4>1. p < b
        BY <1>10, <3>3 DEF Nearer
      <4>2. c <= w[p] /\ x[p] <= y[p]
        BY <1>4, <3>3, <4>1
      <4>3. x[p] \in Int /\ y[p] \in Int /\ w[p] \in Int /\ c \in Int
        BY <1>2, <1>6
      <4> HIDE DEF c
      <4> QED BY <1>5, <4>2, <4>3, Exchange
    <3> QED BY <3>1, <3>2, <3>3 DEF LastAt
  <2>2. SumFunctionOnSet(ys, D) - SumFunctionOnSet(xs, D)
          >= c * (SumFunctionOnSet(y, D) - SumFunctionOnSet(x, D))
    <3> HIDE DEF D, c
    <3> QED BY <1>1, <1>6, <2>1, SumCompare
  <2>3. Y - X >= c * (t - t)
    BY <1>8, <1>9, <2>2
  <2>4. c * (t - t) = 0
    BY <1>6
  <2>5. X <= Y
    BY <2>3, <2>4
  <2> QED BY <1>3, <1>9, <1>10, <2>5
<1>11. CASE ~isBid
  <2>1. ASSUME NEW p \in D PROVE xs[p] - ys[p] >= c * (x[p] - y[p])
    <3>1. CASE p = b
      BY <1>2, <1>5, <3>1, Exchange
    <3>2. CASE Nearer(isBid, p, b) /\ x[p] = Worth(side)[p]
      <4>1. p < b
        BY <1>11, <3>2 DEF Nearer
      <4>2. c <= w[p] /\ y[p] <= x[p]
        BY <1>4, <3>2, <4>1 DEF Affordable
      <4>3. x[p] \in Int /\ y[p] \in Int /\ w[p] \in Int /\ c \in Int
        BY <1>2, <1>6
      <4> HIDE DEF c
      <4> QED BY <1>5, <4>2, <4>3, Exchange
    <3>3. CASE Nearer(isBid, b, p) /\ x[p] = 0
      <4>1. b < p
        BY <1>11, <3>3 DEF Nearer
      <4>2. w[p] <= c /\ x[p] <= y[p]
        BY <1>4, <3>3, <4>1
      <4>3. x[p] \in Int /\ y[p] \in Int /\ w[p] \in Int /\ c \in Int
        BY <1>2, <1>6
      <4> HIDE DEF c
      <4> QED BY <1>5, <4>2, <4>3, Exchange
    <3> QED BY <3>1, <3>2, <3>3 DEF LastAt
  <2>2. SumFunctionOnSet(xs, D) - SumFunctionOnSet(ys, D)
          >= c * (SumFunctionOnSet(x, D) - SumFunctionOnSet(y, D))
    <3> HIDE DEF D, c
    <3> QED BY <1>1, <1>6, <2>1, SumCompare
  <2>3. X - Y >= c * (t - t)
    BY <1>8, <1>9, <2>2
  <2>4. c * (t - t) = 0
    BY <1>6
  <2>5. Y <= X
    BY <2>3, <2>4
  <2> QED BY <1>3, <1>9, <1>11, <2>5
<1> QED BY <1>10, <1>11

-----------------------------------------------------------------------------
(***************************************************************************)
(* The band and the top of the book.                                       *)
(***************************************************************************)
\* Stopping at the first level outside loses none, if a level nearer than
\* one inside is inside.
LEMMA TakeWhileIsAll ==
  ASSUME NEW side, SideOK(side), NEW isBid, NEW d,
         \A p, r \in DOMAIN side :
           Nearer(isBid, p, r) /\ Within(r, isBid, d) => Within(p, isBid, d)
  PROVE  TakeWhile(side, isBid, d) = {p \in DOMAIN side : Within(p, isBid, d)}
<1>1. PICK all : all = BestFirst(side, isBid)
  OBVIOUS
<1>2. InOrder(all, side, isBid)
  BY <1>1, BestFirstInOrder
<1>3. PICK n \in Nat : n = Len(all) /\ all \in Seq(DOMAIN side)
  BY <1>2 DEF InOrder
<1> DEFINE I == {i \in 1..Len(all) : ~Within(all[i], isBid, d)}
           stop == IF I # {} THEN Min(I) ELSE 0
           inside == {p \in DOMAIN side : Within(p, isBid, d)}
<1>4. TakeWhile(side, isBid, d) =
        ToSet(IF stop = 0 THEN all ELSE SubSeq(all, 1, stop - 1))
  BY <1>1 DEF TakeWhile, SelectInSeq
<1>5. \A p \in DOMAIN side : \E i \in 1..n : all[i] = p
  BY <1>2, <1>3 DEF InOrder
<1>6. \A i \in 1..n : all[i] \in DOMAIN side
  BY <1>3
<1>7. CASE I = {}
  <2>1. stop = 0
    BY <1>7
  <2>2. ToSet(all) = {all[i] : i \in 1..n}
    BY <1>3 DEF ToSet
  <2>3. \A i \in 1..n : Within(all[i], isBid, d)
    BY <1>3, <1>7
  <2>4. {all[i] : i \in 1..n} = inside
    BY <1>5, <1>6, <2>3
  <2> QED BY <1>4, <2>1, <2>2, <2>4
<1>8. CASE I # {}
  <2>1. I \in SUBSET Nat
    BY <1>3
  <2>2. PICK m \in I : \A i \in I : m <= i
    <3> HIDE DEF I
    <3> QED BY <1>8, <2>1, NatLeast
  <2>3. stop \in I /\ \A i \in I : stop <= i
    <3>1. stop = CHOOSE x \in I : \A y \in I : x <= y
      BY <1>8 DEF Min
    <3> HIDE DEF I, stop
    <3> QED BY <2>2, <3>1
  <2> HIDE DEF stop
  <2>4. stop \in 1..n /\ ~Within(all[stop], isBid, d)
    BY <1>3, <2>3
  <2>5. ASSUME NEW i \in 1..n, i < stop PROVE Within(all[i], isBid, d)
    BY <1>3, <2>3, <2>4, <2>5
  <2>6. ASSUME NEW i \in 1..n, stop <= i PROVE ~Within(all[i], isBid, d)
    <3>1. CASE stop = i
      BY <2>4, <3>1
    <3>2. CASE stop # i
      <4>1. stop < i
        BY <1>3, <2>4, <2>6, <3>2
      <4>2. Nearer(isBid, all[stop], all[i])
        BY <1>2, <1>3, <2>4, <4>1 DEF InOrder
      <4> QED BY <1>6, <2>4, <4>2
    <3> QED BY <3>1, <3>2
  <2>7. stop - 1 \in 0..n /\ stop # 0
    BY <1>3, <2>4
  <2>8. ToSet(SubSeq(all, 1, stop - 1)) = {all[i] : i \in 1..(stop - 1)}
    BY <1>3, <2>7, PrefixSet
  <2>9. {all[i] : i \in 1..(stop - 1)} \subseteq inside
    <3>1. \A i \in 1..(stop - 1) : i \in 1..n /\ i < stop
      BY <1>3, <2>4
    <3> QED BY <1>6, <2>5, <3>1
  <2>10. inside \subseteq {all[i] : i \in 1..(stop - 1)}
    <3> SUFFICES ASSUME NEW p \in DOMAIN side, Within(p, isBid, d)
                 PROVE  \E i \in 1..(stop - 1) : p = all[i]
      OBVIOUS
    <3>1. PICK i \in 1..n : all[i] = p
      BY <1>5
    <3>2. ~(stop <= i)
      BY <2>6, <3>1
    <3>3. i \in 1..(stop - 1)
      BY <1>3, <2>4, <3>2
    <3> QED BY <3>1, <3>3
  <2> QED BY <1>4, <2>7, <2>8, <2>9, <2>10
<1> QED BY <1>7, <1>8

\* Inside a band around half of m; e is the width of the band times m.
Inside(p, isBid, m, e) == IF isBid THEN 10000 * (m - 2 * p) <= e ELSE 10000 * (2 * p - m) <= e

Between(p, isBid, low, high) == IF isBid THEN 2 * p * 10000 >= low ELSE 2 * p * 10000 <= high

LEMMA BandIs ==
  ASSUME NEW d \in Nat, Mid2 \in Nat, NEW p \in Nat, NEW isBid \in BOOLEAN
  PROVE  Within(p, isBid, d) <=> Inside(p, isBid, Mid2, d * Mid2)
<1>1. PICK m \in Nat : m = Mid2
  OBVIOUS
<1>2. PICK e \in Int, low \in Int, high \in Int :
        e = d * m /\ low = m * (10000 - d) /\ high = m * (10000 + d)
  OBVIOUS
<1>3. low = 10000 * m - e /\ high = 10000 * m + e
  BY <1>2
<1>4. Within(p, isBid, d) = Between(p, isBid, Mid2 * (10000 - d), Mid2 * (10000 + d))
  BY DEF Within, Between
<1>5. Between(p, isBid, low, high) <=> Inside(p, isBid, m, e)
  BY <1>3 DEF Between, Inside
<1>6. Within(p, isBid, d) = Between(p, isBid, low, high)
  BY <1>1, <1>2, <1>4
<1>7. Inside(p, isBid, m, e) = Inside(p, isBid, Mid2, d * Mid2)
  BY <1>1, <1>2
<1> QED BY <1>5, <1>6, <1>7

LEMMA NearerInside ==
  ASSUME NEW m \in Nat, NEW e \in Int, NEW p \in Nat, NEW r \in Nat, NEW isBid,
         Nearer(isBid, p, r), Inside(r, isBid, m, e)
  PROVE  Inside(p, isBid, m, e)
BY DEF Nearer, Inside

LEMMA TopIsNearest ==
  ASSUME NEW side, SideOK(side), NEW isBid, NEW n \in Nat, n <= Cardinality(DOMAIN side)
  PROVE  Top(side, isBid, n) = Closest(side, isBid, n)
<1> DEFINE D == DOMAIN side
           Good(S) == /\ Cardinality(S) = n
                      /\ \A p \in S, r \in D \ S : Nearer(isBid, p, r)
<1>1. PICK all : all = BestFirst(side, isBid)
  OBVIOUS
<1>2. InOrder(all, side, isBid)
  BY <1>1, BestFirstInOrder
<1>3. n \in 0..Len(all) /\ all \in Seq(D) /\ Len(all) \in Nat
  BY <1>2 DEF InOrder
<1>4. PICK T : T = {all[i] : i \in 1..n}
  OBVIOUS
<1>5. Top(side, isBid, n) = T
  BY <1>1, <1>3, <1>4, PrefixSet DEF Top
<1>6. \A i \in 1..n : i \in 1..Len(all) /\ all[i] \in D
  BY <1>3
<1>7. T \in SUBSET D
  BY <1>4, <1>6
<1>8. Cardinality(T) = n
  <2> DEFINE f == [i \in 1..n |-> all[i]]
  <2>1. f \in Bijection(1..n, T)
    <3>1. \A i, j \in 1..n : i # j => all[i] # all[j]
      BY <1>2, <1>6, InOrderDistinct
    <3>2. f \in [1..n -> T] /\ \A i \in 1..n : f[i] = all[i]
      BY <1>4
    <3>3. \A t \in T : \E i \in 1..n : f[i] = t
      BY <1>4
    <3> HIDE DEF f
    <3> QED BY <3>1, <3>2, <3>3 DEF Bijection, Injection, Surjection, IsInjective
  <2>2. ExistsBijection(1..n, T)
    BY <2>1 DEF ExistsBijection
  <2>3. 1 \in Int /\ n \in Int
    OBVIOUS
  <2>4. IsFiniteSet(1..n) /\ Cardinality(1..n) = IF 1 > n THEN 0 ELSE n - 1 + 1
    BY <2>3, FS_Interval
  <2>5. Cardinality(1..n) = n
    BY <2>4
  <2> QED BY <2>2, <2>4, <2>5, FS_Bijection
<1>9. ASSUME NEW p \in T, NEW r \in D \ T PROVE Nearer(isBid, p, r)
  <2>1. PICK i \in 1..n : p = all[i]
    BY <1>4
  <2>2. PICK j \in 1..Len(all) : all[j] = r
    BY <1>2 DEF InOrder
  <2>3. j \notin 1..n
    BY <1>4, <2>2
  <2>4. i < j /\ i \in 1..Len(all)
    BY <1>3, <2>3
  <2> QED BY <1>2, <2>1, <2>2, <2>4 DEF InOrder
<1>10. Good(T)
  BY <1>8, <1>9
<1>11. IsFiniteSet(D) /\ D \subseteq Nat
  BY SideFinite
<1>12. ASSUME NEW S \in SUBSET D, Good(S) PROVE S = T
  <2>1. IsFiniteSet(S) /\ IsFiniteSet(T)
    BY <1>7, <1>11, FS_Subset
  <2>2. S \subseteq T => S = T
    BY <1>8, <1>12, <2>1, FS_Subset
  <2>3. T \subseteq S => S = T
    BY <1>8, <1>12, <2>1, FS_Subset
  <2>4. ASSUME ~(S \subseteq T), ~(T \subseteq S) PROVE FALSE
    <3>1. PICK p \in S : p \notin T
      BY <2>4
    <3>2. PICK r \in T : r \notin S
      BY <2>4
    <3>3. Nearer(isBid, p, r) /\ Nearer(isBid, r, p)
      BY <1>7, <1>9, <1>12, <3>1, <3>2
    <3>4. p \in Nat /\ r \in Nat
      BY <1>7, <1>11, <3>1, <3>2
    <3> QED BY <3>3, <3>4, NearerOrder
  <2> QED BY <2>2, <2>3, <2>4
<1>13. Closest(side, isBid, n) = CHOOSE S \in SUBSET D : Good(S)
  BY DEF Closest
<1> HIDE DEF Good
<1> QED BY <1>5, <1>7, <1>10, <1>12, <1>13

-----------------------------------------------------------------------------
(***************************************************************************)
(* The book.                                                               *)
(***************************************************************************)
LevelsOK == SideOK(bids) /\ SideOK(asks)

LEMMA ApplyKeeps ==
  ASSUME NEW side, SideOK(side), NEW p \in Prices, NEW q \in 0..MaxQty
  PROVE  SideOK(Apply(side, p, q))
<1>1. q \in Nat
  BY BookFacts
<1>2. CASE q = 0
  BY <1>2 DEF SideOK, Apply
<1>3. CASE q # 0
  BY <1>1, <1>3 DEF SideOK, Apply
<1> QED BY <1>2, <1>3

LEMMA LevelsHold == LevelsSpec => []LevelsOK
<1>1. NoLevels => LevelsOK
  BY DEF NoLevels, LevelsOK, SideOK
<1>2. LevelsOK /\ [SetLevel]_levels => LevelsOK'
  <2> SUFFICES ASSUME LevelsOK, [SetLevel]_levels PROVE LevelsOK'
    OBVIOUS
  <2>1. CASE SetLevel
    <3>1. PICK p \in Prices, q \in 0..MaxQty :
            \/ bids' = Apply(bids, p, q) /\ UNCHANGED asks
            \/ asks' = Apply(asks, p, q) /\ UNCHANGED bids
      BY <2>1 DEF SetLevel
    <3>2. SideOK(Apply(bids, p, q)) /\ SideOK(Apply(asks, p, q))
      BY ApplyKeeps DEF LevelsOK
    <3>3. SideOK(bids') /\ SideOK(asks')
      BY <3>1, <3>2 DEF LevelsOK
    <3> QED BY <3>3 DEF LevelsOK, SideOK
  <2>2. CASE UNCHANGED levels
    BY <2>2 DEF LevelsOK, SideOK, levels
  <2> QED BY <2>1, <2>2
<1> QED BY <1>1, <1>2, PTL DEF LevelsSpec

LEMMA MidType ==
  ASSUME LevelsOK, HasMid
  PROVE  Mid2 \in Nat
<1>1. ASSUME NEW side, SideOK(side), DOMAIN side # {}, NEW isBid
      PROVE  BestFirst(side, isBid)[1] \in Nat
  <2>1. PICK all : all = BestFirst(side, isBid)
    OBVIOUS
  <2>2. InOrder(all, side, isBid)
    BY <1>1, <2>1, BestFirstInOrder
  <2>3. PICK i : i \in 1..Len(all)
    BY <1>1, <2>2 DEF InOrder
  <2>4. 1 \in 1..Len(all) /\ \A k \in 1..Len(all) : all[k] \in DOMAIN side
    BY <2>2, <2>3 DEF InOrder
  <2>5. DOMAIN side \subseteq Nat
    BY <1>1, SideFinite
  <2> QED BY <2>1, <2>4, <2>5
<1>2. BestFirst(bids, TRUE)[1] \in Nat /\ BestFirst(asks, FALSE)[1] \in Nat
  BY <1>1 DEF LevelsOK, HasMid
<1>3. PICK b \in Nat, a \in Nat : b = BestFirst(bids, TRUE)[1] /\ a = BestFirst(asks, FALSE)[1]
  BY <1>2
<1>4. Mid2 = b + a
  BY <1>3 DEF Mid2
<1> QED BY <1>4

\* Stopping at the first level outside a band loses no liquidity
\* (visible_liquidity_usd), whatever the book.
THEOREM LiquidityIsExact == LevelsSpec => []LiquidityIsAllOfBand
<1>1. LevelsOK => LiquidityIsAllOfBand
  <2> SUFFICES ASSUME LevelsOK, HasMid, NEW d \in Bands
               PROVE  VisibleLiquidity(d) =
                        Notional(bids, {p \in DOMAIN bids : 10000 * (Mid2 - 2 * p) <= d * Mid2})
                        + Notional(asks, {p \in DOMAIN asks : 10000 * (2 * p - Mid2) <= d * Mid2})
    BY DEF LiquidityIsAllOfBand
  <2>1. Mid2 \in Nat /\ d \in Nat
    BY MidType, BookFacts
  <2>2. d * Mid2 \in Int
    BY <2>1
  <2>3. ASSUME NEW side, SideOK(side), NEW isBid \in BOOLEAN
        PROVE  TakeWhile(side, isBid, d) = {p \in DOMAIN side : Inside(p, isBid, Mid2, d * Mid2)}
    <3>1. DOMAIN side \subseteq Nat
      BY <2>3, SideFinite
    <3>2. \A p \in DOMAIN side : Within(p, isBid, d) <=> Inside(p, isBid, Mid2, d * Mid2)
      BY <2>1, <3>1, BandIs
    <3>3. ASSUME NEW p \in DOMAIN side, NEW r \in DOMAIN side,
                 Nearer(isBid, p, r), Within(r, isBid, d)
          PROVE  Within(p, isBid, d)
      <4>1. p \in Nat /\ r \in Nat /\ Inside(r, isBid, Mid2, d * Mid2)
        BY <3>1, <3>2, <3>3
      <4>2. Inside(p, isBid, Mid2, d * Mid2)
        BY <2>1, <2>2, <3>3, <4>1, NearerInside
      <4> QED BY <3>2, <4>2
    <3>4. TakeWhile(side, isBid, d) = {p \in DOMAIN side : Within(p, isBid, d)}
      BY <2>3, <3>3, TakeWhileIsAll
    <3> QED BY <3>2, <3>4
  <2>4. /\ TakeWhile(bids, TRUE, d) = {p \in DOMAIN bids : Inside(p, TRUE, Mid2, d * Mid2)}
        /\ TakeWhile(asks, FALSE, d) = {p \in DOMAIN asks : Inside(p, FALSE, Mid2, d * Mid2)}
    BY <2>3 DEF LevelsOK
  <2>5. PICK m \in Nat, e \in Int : m = Mid2 /\ e = d * Mid2
    BY <2>1, <2>2
  <2>7. /\ TakeWhile(bids, TRUE, d) = {p \in DOMAIN bids : Inside(p, TRUE, m, e)}
        /\ TakeWhile(asks, FALSE, d) = {p \in DOMAIN asks : Inside(p, FALSE, m, e)}
    BY <2>4, <2>5
  <2>8. PICK B, A : /\ B = {p \in DOMAIN bids : Inside(p, TRUE, m, e)}
                    /\ A = {p \in DOMAIN asks : Inside(p, FALSE, m, e)}
    OBVIOUS
  <2>9. VisibleLiquidity(d) = Notional(bids, B) + Notional(asks, A)
    BY <2>7, <2>8 DEF VisibleLiquidity
  <2>10. B = {p \in DOMAIN bids : 10000 * (m - 2 * p) <= e}
    BY <2>8 DEF Inside
  <2>11. A = {p \in DOMAIN asks : 10000 * (2 * p - m) <= e}
    BY <2>8 DEF Inside
  <2> QED BY <2>5, <2>9, <2>10, <2>11
<1> QED BY <1>1, LevelsHold, PTL

LEMMA FilledIffWorth ==
  ASSUME NEW side, SideOK(side), NEW isBid, NEW n \in Nat \ {0}
  PROVE  Filled(side, isBid, n) = (HasMid /\ Notional(side, DOMAIN side) >= n)
<1> DEFINE D == DOMAIN side
<1>1. PICK state, all : /\ state = Fill(side, isBid, n) /\ InOrder(all, side, isBid)
                        /\ FilledBy(state, Len(all), all, side, n)
  BY FillIsFilled
<1>2. state.used \in [D -> Nat] /\ state.remaining \in Nat
  BY <1>1 DEF FilledBy, FillState
<1>3. IsFiniteSet(D) /\ IntOn(state.used, D) /\ IntOn(Worth(side), D)
  BY <1>2, SideFinite, WorthType DEF IntOn
<1>4. PICK spent \in Int, worth \in Int :
        spent = SumFunctionOnSet(state.used, D) /\ worth = SumFunctionOnSet(Worth(side), D)
  BY <1>3, SumType
<1>5. spent + state.remaining = n
  BY <1>1, <1>4 DEF FilledBy
<1>6. Notional(side, D) = worth
  BY <1>4 DEF Notional, Worth
<1>7. spent <= worth
  <2>1. \A p \in D : Worth(side)[p] - state.used[p] >= 0 * (0 - 0)
    BY <1>1, <1>2, WorthType DEF FilledBy
  <2>2. PICK zero : zero = [p \in D |-> 0]
    OBVIOUS
  <2>3. IntOn(zero, D) /\ \A p \in D : zero[p] = 0
    BY <2>2 DEF IntOn
  <2>4. SumFunctionOnSet(zero, D) = 0
    BY <1>3, <2>3, SumZero
  <2>5. \A p \in D : Worth(side)[p] - state.used[p] >= 0 * (zero[p] - zero[p])
    BY <2>1, <2>3
  <2> HIDE DEF D
  <2>6. SumFunctionOnSet(Worth(side), D) - SumFunctionOnSet(state.used, D)
          >= 0 * (SumFunctionOnSet(zero, D) - SumFunctionOnSet(zero, D))
    BY <1>3, <2>3, <2>5, SumCompare
  <2>7. worth - spent >= 0
    BY <1>4, <2>4, <2>6
  <2> QED BY <2>7
<1>8. ASSUME state.remaining > 0 PROVE spent = worth
  <2>1. \A p \in D : state.used[p] = Worth(side)[p]
    <3> TAKE p \in D
    <3>1. PICK i \in 1..Len(all) : all[i] = p
      BY <1>1 DEF InOrder
    <3> QED BY <1>1, <1>8, <3>1 DEF FilledBy
  <2> HIDE DEF D
  <2>2. SumFunctionOnSet(state.used, D) = SumFunctionOnSet(Worth(side), D)
    BY <1>3, <2>1, SumEqual
  <2> QED BY <1>4, <2>2
<1>9. state.remaining <= 0 <=> worth >= n
  BY <1>2, <1>5, <1>7, <1>8
<1> QED BY <1>1, <1>6, <1>9 DEF Filled

\* A slippage is reported exactly when there is a mid price and the side holds
\* the notional (slippage_bp_for_notional).
THEOREM SlippageIsExact == LevelsSpec => []SlippageIffEnough
<1>1. LevelsOK => SlippageIffEnough
  <2>1. \A n \in Notionals : n \in Nat \ {0}
    BY BookFacts
  <2> QED BY <2>1, FilledIffWorth DEF LevelsOK, SlippageIffEnough
<1> QED BY <1>1, LevelsHold, PTL

LEMMA FillIsNearestFirst ==
  ASSUME NEW side, SideOK(side), NEW isBid, NEW n \in Nat \ {0}, Filled(side, isBid, n),
         NEW used \in Allocations(side, n)
  PROVE  IF isBid THEN Acquired(Fill(side, isBid, n).used) <= Acquired(used)
                  ELSE Acquired(used) <= Acquired(Fill(side, isBid, n).used)
<1> DEFINE D == DOMAIN side
<1>1. PICK state, all : /\ state = Fill(side, isBid, n) /\ InOrder(all, side, isBid)
                        /\ FilledBy(state, Len(all), all, side, n)
  BY FillIsFilled
<1>2. state.remaining <= 0
  BY <1>1 DEF Filled
<1>3. state.used \in [D -> Nat] /\ state.remaining \in Nat
  BY <1>1 DEF FilledBy, FillState
<1>4. PICK b \in D : LastAt(b, state.used, side, isBid)
  BY <1>1, <1>2, LastLevel
<1>5. SumFunctionOnSet(state.used, D) = n
  <2>1. IntOn(state.used, D) /\ IsFiniteSet(D)
    BY <1>3, SideFinite DEF IntOn
  <2>2. SumFunctionOnSet(state.used, D) \in Int
    BY <2>1, SumType
  <2> QED BY <1>1, <1>2, <1>3, <2>2 DEF FilledBy
<1>6. /\ used \in [D -> 0..n] /\ \A p \in D : used[p] <= p * side[p]
      /\ SumFunction(used) = n
  BY DEF Allocations
<1>7. used \in [D -> Nat] /\ SumFunctionOnSet(used, D) = n
  <2>1. DOMAIN used = D
    BY <1>6
  <2> QED BY <1>6, <2>1 DEF SumFunction
<1>8. Affordable(used, side)
  BY <1>6, WorthType DEF Affordable
<1> QED BY <1>1, <1>3, <1>4, <1>5, <1>7, <1>8, NearestFirstIsBest

\* The fill behind a slippage is the best execution there is, for every
\* book and every notional.
THEOREM FillIsOptimal == LevelsSpec => []FillIsBest
<1>1. LevelsOK => FillIsBest
  <2> SUFFICES ASSUME LevelsOK, NEW n \in Notionals
               PROVE  /\ Filled(asks, FALSE, n) =>
                           \A used \in Allocations(asks, n) :
                             Acquired(used) <= Acquired(Fill(asks, FALSE, n).used)
                      /\ Filled(bids, TRUE, n) =>
                           \A used \in Allocations(bids, n) :
                             Acquired(used) >= Acquired(Fill(bids, TRUE, n).used)
    BY DEF FillIsBest
  <2>1. n \in Nat \ {0} /\ SideOK(bids) /\ SideOK(asks)
    <3>1. n \in Nat \ {0}
      BY BookFacts
    <3> QED BY <3>1 DEF LevelsOK
  <2>2. ASSUME Filled(asks, FALSE, n), NEW used \in Allocations(asks, n)
        PROVE  Acquired(used) <= Acquired(Fill(asks, FALSE, n).used)
    BY <2>1, <2>2, FillIsNearestFirst
  <2>3. ASSUME Filled(bids, TRUE, n), NEW used \in Allocations(bids, n)
        PROVE  Acquired(Fill(bids, TRUE, n).used) <= Acquired(used)
    BY <2>1, <2>3, FillIsNearestFirst
  <2>4. ASSUME NEW used \in Allocations(bids, n), Filled(bids, TRUE, n)
        PROVE  Acquired(used) >= Acquired(Fill(bids, TRUE, n).used)
    BY <2>3, <2>4
  <2> QED BY <2>2, <2>4
<1> QED BY <1>1, LevelsHold, PTL

\* Imbalances are taken over the n levels closest to the other side.
THEOREM TopsAreClosest == LevelsSpec => []TopIsClosest
<1>1. LevelsOK => TopIsClosest
  <2> SUFFICES ASSUME LevelsOK, NEW n \in 1..Cardinality(Prices), HasTop(n)
               PROVE  /\ Top(bids, TRUE, n) = Closest(bids, TRUE, n)
                      /\ Top(asks, FALSE, n) = Closest(asks, FALSE, n)
    BY DEF TopIsClosest, QtyTop, NotionalTop
  <2>1. /\ IsFiniteSet(DOMAIN bids) /\ IsFiniteSet(DOMAIN asks)
        /\ SideOK(bids) /\ SideOK(asks)
    BY SideFinite DEF LevelsOK
  <2>2. Cardinality(DOMAIN bids) \in Nat /\ Cardinality(DOMAIN asks) \in Nat
    BY <2>1, FS_CardinalityType
  <2>3. n \in Nat /\ n <= Cardinality(DOMAIN bids) /\ n <= Cardinality(DOMAIN asks)
    BY <2>2 DEF HasTop
  <2> QED BY <2>1, <2>3, TopIsNearest
<1> QED BY <1>1, LevelsHold, PTL
=============================================================================
