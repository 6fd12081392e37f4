--------------------------- MODULE DepthSyncProofs ---------------------------
(***************************************************************************)
(* Type correctness and integrity of the local books, the agreement of the *)
(* trust flags, what gaps mean, and the refinement of the mirror, for      *)
(* every set of symbols and levels, every bound and every snapshot reach.  *)
(***************************************************************************)
EXTENDS DepthSync, WellFoundedInduction, SequenceTheorems, TLAPS

-----------------------------------------------------------------------------
(***************************************************************************)
(* Facts about the data of a book, for every set of levels and every       *)
(* history of updates.                                                     *)
(***************************************************************************)
\* The order of the natural numbers as a relation.
Below == {ss \in Nat \X Nat : ss[1] < ss[2]}

LEMMA BelowWellFounded == IsWellFoundedOn(Below, Nat)
  BY NatLessThanWellFounded DEF OpToRel, Below

\* A set of naturals with a bound has a maximum, which Max names.
LEMMA MaxInSet ==
  ASSUME NEW v \in Nat, NEW W \in SUBSET (1..v), W # {}
  PROVE  Max(W) \in W /\ \A w \in W : w <= Max(W)
<1> DEFINE Below_v == {n \in Nat : v - n \in W}
<1>1. PICK w0 \in W : TRUE
  OBVIOUS
<1>2. v - w0 \in Below_v
  OBVIOUS
<1>3. Below_v \subseteq Nat /\ Below_v # {}
  BY <1>2
<1> HIDE DEF Below_v
<1>4. PICK g \in Below_v : \A n \in Below_v : <<n, g>> \notin Below
  BY <1>3, BelowWellFounded, WFMin
<1>5. \A n \in Below_v : g <= n
  <2> TAKE n \in Below_v
  <2>1. g \in Nat /\ n \in Nat
    BY <1>3
  <2>2. ~(n < g)
    <3> SUFFICES ASSUME n < g PROVE FALSE
      OBVIOUS
    <3>1. <<n, g>> \in Below
      BY <2>1 DEF Below
    <3> QED BY <3>1, <1>4
  <2> QED BY <2>1, <2>2
<1>6. v - g \in W
  BY DEF Below_v
<1>7. \A w \in W : w <= v - g
  <2> TAKE w \in W
  <2>1. v - w \in Below_v
    BY DEF Below_v
  <2> QED BY <2>1, <1>5, <1>3
<1>8. Max(W) = CHOOSE x \in W : \A y \in W : x >= y
  BY DEF Max
<1>9. \E x \in W : \A y \in W : x >= y
  BY <1>6, <1>7, <1>3
<1> QED BY <1>8, <1>9

\* The last update that touches a level is one of the updates made.
LEMMA LastTouch ==
  ASSUME NEW updates, NEW v \in Nat, NEW l, Touches(updates, v, l) # {}
  PROVE  Max(Touches(updates, v, l)) \in 1..v
<1>1. Touches(updates, v, l) \in SUBSET (1..v)
  BY DEF Touches
<1> QED BY <1>1, MaxInSet

\* Quantities are well typed.
LEMMA QtyAtType ==
  ASSUME NEW updates \in Seq(Update), NEW v \in 0..Len(updates), NEW l \in Levels
  PROVE  QtyAt(updates, v, l) \in Qty
<1>1. CASE Touches(updates, v, l) = {}
  BY <1>1, QtyAssumption DEF QtyAt
<1>2. CASE Touches(updates, v, l) # {}
  <2>1. v \in Nat /\ Max(Touches(updates, v, l)) \in 1..Len(updates)
    BY <1>2, LastTouch
  <2>2. updates[Max(Touches(updates, v, l))] \in Update
    BY <2>1, ElementOfSeq
  <2> QED BY <1>2, <2>2 DEF QtyAt, Update
<1> QED BY <1>1, <1>2

LEMMA ViewType ==
  ASSUME NEW updates \in Seq(Update), NEW v \in 0..Len(updates),
         NEW covered \in SUBSET Levels
  PROVE  View(updates, v, covered) \in [Levels -> Held]
<1>1. \A l \in Levels : QtyAt(updates, v, l) \in Qty
  BY QtyAtType
<1>2. \A q \in Qty : Hold(q) \in Held
  BY DEF Hold, Held
<1>3. Absent \in Held
  BY DEF Held
<1> QED BY <1>1, <1>2, <1>3 DEF View

\* What the exchange does later does not change what the book was.
LEMMA QtyAtAppend ==
  ASSUME NEW updates \in Seq(Update), NEW u \in Update,
         NEW v \in 0..Len(updates), NEW l \in Levels
  PROVE  QtyAt(Append(updates, u), v, l) = QtyAt(updates, v, l)
<1>1. \A i \in 1..Len(updates) : Append(updates, u)[i] = updates[i]
  BY AppendProperties
<1>2. Touches(Append(updates, u), v, l) = Touches(updates, v, l)
  BY <1>1 DEF Touches
<1>3. CASE Touches(updates, v, l) = {}
  BY <1>2, <1>3 DEF QtyAt
<1>4. CASE Touches(updates, v, l) # {}
  <2>1. Max(Touches(updates, v, l)) \in 1..Len(updates)
    BY <1>4, LastTouch
  <2> QED BY <1>1, <1>2, <1>4, <2>1 DEF QtyAt
<1> QED BY <1>3, <1>4

LEMMA ViewAppend ==
  ASSUME NEW updates \in Seq(Update), NEW u \in Update,
         NEW v \in 0..Len(updates), NEW covered \in SUBSET Levels
  PROVE  View(Append(updates, u), v, covered) = View(updates, v, covered)
  BY QtyAtAppend DEF View

\* A level no update after v touches has at w the quantity it had at v.
LEMMA QtyAtFrame ==
  ASSUME NEW updates, NEW v \in Nat, NEW w \in Nat, v <= w,
         NEW l \in Levels, l \notin Touched(updates, v + 1, w)
  PROVE  QtyAt(updates, w, l) = QtyAt(updates, v, l)
<1>1. Touches(updates, w, l) = Touches(updates, v, l)
  BY DEF Touches, Touched
<1> QED BY <1>1 DEF QtyAt

\* A delta that overlaps or continues a view, and ends after it, advances
\* the view to its last update: absolute quantities may be applied twice.
LEMMA ApplyAdvancesView ==
  ASSUME NEW updates \in Seq(Update), NEW v \in 0..Len(updates),
         NEW delta, delta.first \in Nat, delta.final \in 1..Len(updates),
         delta.first <= v + 1, v < delta.final,
         NEW covered \in SUBSET Levels
  PROVE  ApplyLevels(View(updates, v, covered), updates, delta)
           = View(updates, delta.final,
                  covered \cup Touched(updates, delta.first, delta.final))
<1> DEFINE touched == Touched(updates, delta.first, delta.final)
           lhs == ApplyLevels(View(updates, v, covered), updates, delta)
           rhs == View(updates, delta.final, covered \cup touched)
<1>1. \A l \in Levels : lhs[l] = rhs[l]
  <2> TAKE l \in Levels
  <2>1. CASE l \in touched
    BY <2>1 DEF ApplyLevels, View
  <2>2. CASE l \notin touched
    <3>1. l \notin Touched(updates, v + 1, delta.final)
      BY <2>2 DEF Touched
    <3>2. QtyAt(updates, delta.final, l) = QtyAt(updates, v, l)
      BY <3>1, QtyAtFrame
    <3> QED BY <2>2, <3>2 DEF ApplyLevels, View
  <2> QED BY <2>1, <2>2
<1> QED BY <1>1 DEF ApplyLevels, View

\* The fields of a book built from parts of the right types.
LEMMA BookFields ==
  ASSUME NEW maxVersion, NEW last \in 0..maxVersion, NEW seqOk \in BOOLEAN,
         NEW boot \in BOOLEAN, NEW qty \in [Levels -> Held]
  PROVE  LET b == [present |-> TRUE, last |-> last, seqOk |-> seqOk,
                   boot |-> boot, qty |-> qty]
         IN  b \in BookType(maxVersion) /\ b.last = last /\ b.qty = qty
  BY DEF BookType

-----------------------------------------------------------------------------
(***************************************************************************)
(* The books and the stream.                                               *)
(***************************************************************************)
\* Every event on its way was published: it covers updates already made.
EventOK(m) ==
  /\ m.prev = m.first - 1
  /\ m.first <= m.final
  /\ m.final <= Len(log[m.sym])

StreamOK ==
  /\ \A s \in Symbols : sent[s] <= Len(log[s])
  /\ \A i \in 1..Len(queue) : EventOK(queue[i])

\* The inductive invariant: the types, what the stream guarantees about the
\* events it carries, and the integrity of the books.
IInv == TypeOK /\ StreamOK /\ BookIntegrity

USE BoundAssumption, FocusAssumption, ReachAssumption

LEMMA InitIInv == Init => IInv
<1> SUFFICES ASSUME Init PROVE IInv
  OBVIOUS
<1>1. Len(Focus) \in Nat /\ 1 \in 0..Len(Focus)
  BY EmptySeq, LenProperties
<1>2. NoBook \in BookType(MaxVersion)
  BY DEF NoBook, BookType, Held
<1>3. TypeOK
  <2>1. <<>> \in Seq(Update) /\ <<>> \in Seq(Event) /\ Len(<<>>) = 0
    OBVIOUS
  <2>2. /\ log \in [Symbols -> Seq(Update)]
        /\ \A s \in Symbols : Len(log[s]) <= MaxVersion
    BY <2>1 DEF Init
  <2>3. book \in [Symbols -> BookType(MaxVersion)]
    BY <1>2 DEF Init
  <2>4. /\ sent \in [Symbols -> 0..MaxVersion]
        /\ lost \in [Symbols -> SUBSET (1..MaxVersion)]
        /\ reach \in [Symbols -> SUBSET Levels]
        /\ trust \in [Symbols -> Trust]
        /\ fetching \in 0..Len(Focus)
        /\ asked \in 0..MaxVersion
    BY <1>1 DEF Init, Trust
  <2>5. connected \in BOOLEAN
    BY DEF Init
  <2> QED BY <2>1, <2>2, <2>3, <2>4, <2>5 DEF Init, TypeOK
<1>4. StreamOK
  BY DEF Init, StreamOK
<1>5. BookIntegrity
  BY DEF Init, BookIntegrity, NoBook
<1> QED BY <1>3, <1>4, <1>5 DEF IInv

-----------------------------------------------------------------------------
\* The exchange only appends: no view of an older version changes.
LEMMA ExchangeUpdatesStep ==
  ASSUME IInv, NEW s \in Symbols, ExchangeUpdates(s)
  PROVE  IInv'
<1>1. PICK u \in Update : log' = [log EXCEPT ![s] = Append(@, u)]
  BY DEF ExchangeUpdates
<1>2. /\ log \in [Symbols -> Seq(Update)]
      /\ \A t \in Symbols : log[t] \in Seq(Update) /\ Len(log[t]) \in Nat
  BY DEF IInv, TypeOK
<1>3. \A t \in Symbols :
        /\ log'[t] \in Seq(Update)
        /\ Len(log[t]) <= Len(log'[t])
        /\ Len(log'[t]) <= MaxVersion
        /\ \A v \in 0..Len(log[t]), r \in SUBSET Levels :
             View(log'[t], v, r) = View(log[t], v, r)
  <2> TAKE t \in Symbols
  <2>1. CASE t = s
    <3>1. log'[t] = Append(log[s], u)
      BY <1>1, <1>2, <2>1
    <3>2. Append(log[s], u) \in Seq(Update) /\ Len(Append(log[s], u)) = Len(log[s]) + 1
      BY <1>2, AppendProperties
    <3>3. Len(log[s]) < MaxVersion
      BY DEF ExchangeUpdates
    <3> QED BY <1>2, <2>1, <3>1, <3>2, <3>3, ViewAppend
  <2>2. CASE t # s
    BY <1>1, <1>2, <2>2 DEF IInv, TypeOK
  <2> QED BY <2>1, <2>2
<1>4. UNCHANGED <<sent, lost, connected, queue, book, reach, trust, fetching, asked>>
  BY DEF ExchangeUpdates, engineVars
<1>5. TypeOK'
  <2>1. log' \in [Symbols -> Seq(Update)]
    BY <1>1, <1>2, <1>3
  <2> QED BY <1>3, <1>4, <2>1 DEF IInv, TypeOK
<1>6. StreamOK'
  <2>1. \A t \in Symbols : sent'[t] <= Len(log'[t])
    BY <1>2, <1>3, <1>4 DEF IInv, TypeOK, StreamOK
  <2>2. ASSUME NEW i \in 1..Len(queue')
        PROVE  EventOK(queue[i])'
    <3>1. queue[i] \in Event /\ EventOK(queue[i])
      BY <1>4 DEF IInv, TypeOK, StreamOK
    <3> QED BY <1>2, <1>3, <1>4, <3>1 DEF EventOK, Event
  <2> QED BY <2>1, <2>2, <1>4 DEF StreamOK
<1>7. BookIntegrity'
  <2> SUFFICES ASSUME NEW t \in Symbols, book'[t].present
               PROVE  /\ book'[t].last <= Len(log'[t])
                      /\ book'[t].qty = View(log'[t], book'[t].last, reach'[t])
    BY DEF BookIntegrity
  <2>1. book[t].last \in 0..Len(log[t]) /\ reach[t] \in SUBSET Levels
    BY <1>2, <1>4 DEF IInv, TypeOK, BookIntegrity, BookType
  <2> QED BY <1>2, <1>3, <1>4, <2>1 DEF IInv, BookIntegrity
<1> QED BY <1>5, <1>6, <1>7 DEF IInv

LEMMA PublishDeliveredStep ==
  ASSUME IInv, NEW s \in Symbols, PublishDelivered(s)
  PROVE  IInv'
<1>1. /\ sent[s] \in 0..MaxVersion /\ Len(log[s]) \in 0..MaxVersion
      /\ sent[s] < Len(log[s])
  BY DEF IInv, TypeOK, PublishDelivered
<1>2. NextEvent(s) \in Event /\ EventOK(NextEvent(s))
  BY <1>1 DEF NextEvent, Event, EventOK
<1>3. /\ queue' = Append(queue, NextEvent(s)) /\ sent' = [sent EXCEPT ![s] = Len(log[s])]
      /\ UNCHANGED <<log, lost, connected, book, reach, trust, fetching, asked>>
  BY DEF PublishDelivered, engineVars
<1>4. queue \in Seq(Event)
  BY DEF IInv, TypeOK
<1>5. /\ queue' \in Seq(Event) /\ Len(queue') = Len(queue) + 1
      /\ \A i \in 1..Len(queue) : queue'[i] = queue[i]
      /\ queue'[Len(queue) + 1] = NextEvent(s)
  BY <1>2, <1>3, <1>4, AppendProperties
<1>6. TypeOK'
  BY <1>1, <1>3, <1>5 DEF IInv, TypeOK
<1>7. StreamOK'
  <2>1. \A t \in Symbols : sent'[t] <= Len(log'[t])
    BY <1>1, <1>3 DEF IInv, TypeOK, StreamOK
  <2>2. ASSUME NEW i \in 1..Len(queue')
        PROVE  EventOK(queue[i])'
    <3>1. CASE i \in 1..Len(queue)
      BY <1>3, <1>5, <3>1 DEF IInv, StreamOK, EventOK
    <3>2. CASE i = Len(queue) + 1
      BY <1>2, <1>3, <1>5, <3>2 DEF EventOK
    <3> QED BY <1>4, <1>5, <3>1, <3>2
  <2> QED BY <2>1, <2>2 DEF StreamOK
<1>8. BookIntegrity'
  BY <1>3 DEF IInv, BookIntegrity
<1> QED BY <1>6, <1>7, <1>8 DEF IInv

LEMMA PublishLostStep ==
  ASSUME IInv, NEW s \in Symbols, PublishLost(s)
  PROVE  IInv'
<1>1. /\ sent[s] \in 0..MaxVersion /\ Len(log[s]) \in 0..MaxVersion
      /\ sent[s] < Len(log[s])
  BY DEF IInv, TypeOK, PublishLost
<1>2. /\ lost' = [lost EXCEPT ![s] = @ \cup {Len(log[s])}]
      /\ sent' = [sent EXCEPT ![s] = Len(log[s])]
      /\ UNCHANGED <<log, connected, queue, book, reach, trust, fetching, asked>>
  BY DEF PublishLost, engineVars
<1>3. TypeOK'
  <2>1. lost[s] \cup {Len(log[s])} \in SUBSET (1..MaxVersion)
    BY <1>1 DEF IInv, TypeOK
  <2> QED BY <1>1, <1>2, <2>1 DEF IInv, TypeOK
<1>4. StreamOK'
  <2>1. \A t \in Symbols : sent'[t] <= Len(log'[t])
    BY <1>1, <1>2 DEF IInv, TypeOK, StreamOK
  <2> QED BY <1>2, <2>1 DEF IInv, StreamOK, EventOK
<1>5. BookIntegrity'
  BY <1>2 DEF IInv, BookIntegrity
<1> QED BY <1>3, <1>4, <1>5 DEF IInv

-----------------------------------------------------------------------------
\* Requesting a snapshot records how many updates its symbol has.
LEMMA FetchType ==
  ASSUME IInv, NEW i \in 0..Len(Focus), Fetch(i), UNCHANGED log
  PROVE  fetching' \in 0..Len(Focus) /\ asked' \in 0..MaxVersion
<1>1. CASE i = 0
  BY <1>1 DEF Fetch
<1>2. CASE i # 0
  <2>1. Focus[i] \in Symbols
    BY <1>2, ElementOfSeq
  <2>2. Len(log[Focus[i]]) \in 0..MaxVersion
    BY <2>1 DEF IInv, TypeOK
  <2> QED BY <2>2 DEF Fetch
<1> QED BY <1>1, <1>2

LEMMA ResyncCheckType ==
  ASSUME IInv, NEW trusts, ResyncCheck(trusts), UNCHANGED log
  PROVE  fetching' \in 0..Len(Focus) /\ asked' \in 0..MaxVersion
<1>1. 0 \in 0..Len(Focus) /\ 1 \in 0..Len(Focus)
  BY EmptySeq, LenProperties
<1>2. Fetch(0) \/ Fetch(1)
  BY DEF ResyncCheck
<1> QED BY <1>1, <1>2, FetchType

\* What a delta that is not stale leaves in reach.
ReachAfter(s, m) ==
  IF IsStale(book[s], m) \/ Gaps(book[s], m) THEN reach[s]
  ELSE reach[s] \cup Touched(log[s], m.first, m.final)

\* apply_delta keeps a book that mirrors the exchange a mirror, and moves it
\* only to an update the exchange has made.
LEMMA ApplyDeltaMirrors ==
  ASSUME IInv, NEW m \in Event, EventOK(m), book[m.sym].present
  PROVE  LET s == m.sym
             b == ApplyDelta(book[s], log[s], m)
             r == ReachAfter(s, m)
         IN  /\ b \in BookType(MaxVersion)
             /\ r \in SUBSET Levels
             /\ b.last <= Len(log[s])
             /\ b.qty = View(log[s], b.last, r)
<1> DEFINE s == m.sym
           b == ApplyDelta(book[s], log[s], m)
           r == ReachAfter(s, m)
           old == book[s]
<1>1. /\ s \in Symbols /\ log[s] \in Seq(Update)
      /\ Len(log[s]) \in 0..MaxVersion
      /\ reach[s] \in SUBSET Levels
      /\ old \in BookType(MaxVersion)
  BY DEF IInv, TypeOK, Event
<1>2. /\ old.last \in 0..Len(log[s]) /\ old.last \in 0..MaxVersion
      /\ old.qty = View(log[s], old.last, reach[s])
      /\ old.qty \in [Levels -> Held] /\ old.boot \in BOOLEAN
  BY <1>1 DEF IInv, BookIntegrity, BookType
<1>3. /\ m.first \in 1..MaxVersion /\ m.final \in 1..Len(log[s])
      /\ m.prev = m.first - 1 /\ m.final \in 0..MaxVersion
      /\ m.first <= m.final
  BY <1>1 DEF Event, EventOK
<1>4. CASE IsStale(old, m)
  <2>1. b = old /\ r = reach[s]
    BY <1>4 DEF ApplyDelta, ReachAfter
  <2> QED BY <1>1, <1>2, <2>1
<1>5. CASE ~IsStale(old, m) /\ ~SequenceOk(old, m)
  <2>1. b = [present |-> TRUE, last |-> old.last, seqOk |-> FALSE,
             boot |-> old.boot, qty |-> old.qty]
    BY <1>5 DEF ApplyDelta
  <2>2. r = reach[s]
    BY <1>5 DEF ReachAfter, Gaps
  <2> HIDE DEF b, r, old
  <2>3. b \in BookType(MaxVersion) /\ b.last = old.last /\ b.qty = old.qty
    <3>1. FALSE \in BOOLEAN /\ old.boot \in BOOLEAN /\ old.last \in 0..MaxVersion
          /\ old.qty \in [Levels -> Held]
      BY <1>2
    <3> QED BY <2>1, <3>1, BookFields, Zenon
  <2> QED BY <1>1, <1>2, <2>2, <2>3 DEF b, r, old
<1>6. CASE ~IsStale(old, m) /\ SequenceOk(old, m)
  <2> DEFINE qty == ApplyLevels(old.qty, log[s], m)
  <2>1. m.first <= old.last + 1 /\ old.last < m.final
    BY <1>2, <1>3, <1>6 DEF IsStale, SequenceOk
  <2>2. b = [present |-> TRUE, last |-> m.final, seqOk |-> TRUE, boot |-> TRUE,
             qty |-> qty]
    BY <1>6 DEF ApplyDelta
  <2>3. r = reach[s] \cup Touched(log[s], m.first, m.final)
    BY <1>6 DEF ReachAfter, Gaps
  <2>4. Touched(log[s], m.first, m.final) \subseteq Levels
    <3> SUFFICES ASSUME NEW w \in m.first..m.final
                 PROVE  log[s][w].level \in Levels
      BY DEF Touched
    <3>1. w \in 1..Len(log[s])
      BY <1>1, <1>3
    <3>2. log[s][w] \in Update
      BY <1>1, <3>1, ElementOfSeq
    <3> QED BY <3>2 DEF Update
  <2>5. r \in SUBSET Levels
    BY <1>1, <2>3, <2>4
  <2>6. qty = View(log[s], m.final, r)
    <3>1. ApplyLevels(View(log[s], old.last, reach[s]), log[s], m)
            = View(log[s], m.final, reach[s] \cup Touched(log[s], m.first, m.final))
      <4>1. old.last \in 0..Len(log[s]) /\ m.first \in Nat
        BY <1>2, <1>3
      <4>2. m.first <= old.last + 1 /\ old.last < m.final
        BY <2>1
      <4> QED BY <1>1, <1>3, <4>1, <4>2, ApplyAdvancesView, Zenon
    <3> QED BY <1>2, <2>3, <3>1
  <2>7. View(log[s], m.final, r) \in [Levels -> Held]
    BY <1>1, <1>3, <2>5, ViewType
  <2> HIDE DEF b, r, old, qty
  <2>8. b \in BookType(MaxVersion) /\ b.last = m.final /\ b.qty = qty
    BY <1>3, <2>2, <2>6, <2>7, BookFields
  <2> QED BY <1>3, <2>5, <2>6, <2>8 DEF b, r, qty
<1> QED BY <1>4, <1>5, <1>6

\* Consuming the head of the queue keeps what the stream guarantees.
LEMMA TailStreamOK ==
  ASSUME IInv, queue # <<>>, queue' = Tail(queue), UNCHANGED <<log, sent>>
  PROVE  queue' \in Seq(Event) /\ StreamOK'
<1>1. /\ queue \in Seq(Event) /\ Tail(queue) \in Seq(Event)
      /\ Len(Tail(queue)) = Len(queue) - 1
      /\ \A i \in 1..Len(Tail(queue)) : Tail(queue)[i] = queue[i + 1]
  BY HeadTailProperties DEF IInv, TypeOK
<1>2. ASSUME NEW i \in 1..Len(queue') PROVE EventOK(queue[i])'
  <2>1. i + 1 \in 1..Len(queue) /\ queue'[i] = queue[i + 1]
    BY <1>1
  <2> QED BY <2>1 DEF IInv, StreamOK, EventOK
<1> QED BY <1>1, <1>2 DEF StreamOK, IInv

LEMMA HandleDepthStep ==
  ASSUME IInv, HandleDepth
  PROVE  IInv'
<1> DEFINE m == Head(queue)
           s == m.sym
<1>1. UNCHANGED <<log, sent, lost, connected>>
  BY DEF HandleDepth, exchangeVars
<1>2. queue' \in Seq(Event) /\ StreamOK'
  BY <1>1, TailStreamOK DEF HandleDepth
<1>3. m \in Event /\ EventOK(m)
  <2>1. queue \in Seq(Event) /\ queue # <<>>
    BY DEF HandleDepth, IInv, TypeOK
  <2>2. 1 \in 1..Len(queue) /\ m = queue[1] /\ m \in Event
    BY <2>1, EmptySeq, HeadTailProperties, LenProperties
  <2> QED BY <2>2 DEF IInv, StreamOK
<1>4. CASE ~book[s].present
  <2>1. UNCHANGED <<book, reach, trust>> /\ ResyncCheck(trust)
    BY <1>4 DEF HandleDepth
  <2>2. fetching' \in 0..Len(Focus) /\ asked' \in 0..MaxVersion
    BY <1>1, <2>1, ResyncCheckType
  <2>3. TypeOK'
    BY <1>1, <1>2, <2>1, <2>2 DEF IInv, TypeOK
  <2> QED BY <1>1, <1>2, <2>1, <2>3 DEF IInv, BookIntegrity
<1>5. CASE book[s].present
  <2> DEFINE b == ApplyDelta(book[s], log[s], m)
             r == ReachAfter(s, m)
  <2>1. /\ book' = [book EXCEPT ![s] = b]
        /\ reach' = [reach EXCEPT ![s] = r]
        /\ trust' = [trust EXCEPT ![s] = IF Gaps(book[s], m) THEN "gap" ELSE "ok"]
        /\ ResyncCheck(trust')
    BY <1>5 DEF HandleDepth, ReachAfter
  <2>2. /\ b \in BookType(MaxVersion) /\ r \in SUBSET Levels
        /\ b.last <= Len(log[s]) /\ b.qty = View(log[s], b.last, r)
    BY <1>3, <1>5, ApplyDeltaMirrors
  <2> HIDE DEF b, r
  <2>3. fetching' \in 0..Len(Focus) /\ asked' \in 0..MaxVersion
    BY <1>1, <2>1, ResyncCheckType
  <2>4. TypeOK'
    BY <1>1, <1>2, <2>1, <2>2, <2>3 DEF IInv, TypeOK, Trust
  <2>5. BookIntegrity'
    <3> SUFFICES ASSUME NEW t \in Symbols, book'[t].present
                 PROVE  /\ book'[t].last <= Len(log'[t])
                        /\ book'[t].qty = View(log'[t], book'[t].last, reach'[t])
      BY DEF BookIntegrity
    <3>1. CASE t = s
      BY <1>1, <2>1, <2>2, <3>1 DEF IInv, TypeOK
    <3>2. CASE t # s
      BY <1>1, <2>1, <3>2 DEF IInv, TypeOK, BookIntegrity
    <3> QED BY <3>1, <3>2
  <2> QED BY <1>2, <2>4, <2>5 DEF IInv
<1> QED BY <1>4, <1>5

\* Whatever version the snapshot holds, the book becomes its view.
LEMMA SnapshotArrivesStep ==
  ASSUME IInv, NEW i \in 1..Len(Focus), SnapshotArrives(i)
  PROVE  IInv'
<1> DEFINE s == Focus[i]
<1>1. /\ s \in Symbols /\ log[s] \in Seq(Update)
      /\ Len(log[s]) \in 0..MaxVersion
  BY ElementOfSeq DEF IInv, TypeOK
<1>2. PICK v \in Max({0, asked - SnapshotLag})..Len(log[s]), levels \in SnapshotReach :
        /\ book' = [book EXCEPT ![s] = FromSnapshot(v, View(log[s], v, levels))]
        /\ reach' = [reach EXCEPT ![s] = levels]
        /\ trust' = [trust EXCEPT ![s] = "ok"]
  BY DEF SnapshotArrives
<1>3. UNCHANGED <<log, sent, lost, connected, queue>>
  BY DEF SnapshotArrives, exchangeVars
<1>4. v \in 0..Len(log[s]) /\ v \in 0..MaxVersion
  <2>1. asked - SnapshotLag \in Int /\ asked - SnapshotLag <= MaxVersion
    BY DEF IInv, TypeOK
  <2>2. Max({0, asked - SnapshotLag}) \in Nat
    <3>1. \E x \in {0, asked - SnapshotLag} :
            \A y \in {0, asked - SnapshotLag} : x >= y
      BY <2>1
    <3>2. /\ Max({0, asked - SnapshotLag}) \in {0, asked - SnapshotLag}
          /\ Max({0, asked - SnapshotLag}) >= 0
      BY <3>1 DEF Max
    <3> QED BY <2>1, <3>2
  <2> QED BY <1>1, <2>2
<1>5. levels \in SUBSET Levels
  OBVIOUS
<1> DEFINE b == FromSnapshot(v, View(log[s], v, levels))
<1>6. b \in BookType(MaxVersion) /\ b.last = v /\ b.qty = View(log[s], v, levels)
  BY <1>1, <1>4, <1>5, ViewType DEF FromSnapshot, BookType
<1> HIDE DEF b
<1>7. fetching' \in 0..Len(Focus) /\ asked' \in 0..MaxVersion
  <2>1. Fetch(IF i = Len(Focus) THEN 0 ELSE i + 1)
    BY DEF SnapshotArrives
  <2>2. (IF i = Len(Focus) THEN 0 ELSE i + 1) \in 0..Len(Focus)
    BY LenProperties
  <2> QED BY <1>3, <2>1, <2>2, FetchType
<1>8. TypeOK'
  BY <1>2, <1>3, <1>5, <1>6, <1>7 DEF IInv, TypeOK, Trust, b
<1>9. StreamOK'
  BY <1>3 DEF IInv, StreamOK, EventOK
<1>10. BookIntegrity'
  <2> SUFFICES ASSUME NEW t \in Symbols, book'[t].present
               PROVE  /\ book'[t].last <= Len(log'[t])
                      /\ book'[t].qty = View(log'[t], book'[t].last, reach'[t])
    BY DEF BookIntegrity
  <2>1. CASE t = s
    <3>1. book'[t] = b /\ reach'[t] = levels /\ log'[t] = log[s]
      BY <1>1, <1>2, <1>3, <2>1 DEF IInv, TypeOK, b
    <3> QED BY <1>4, <1>6, <2>1, <3>1
  <2>2. CASE t # s
    BY <1>2, <1>3, <2>2 DEF IInv, TypeOK, BookIntegrity
  <2> QED BY <2>1, <2>2
<1> QED BY <1>8, <1>9, <1>10 DEF IInv

\* The steps that touch neither a book nor the stream's guarantees.
LEMMA OtherSteps ==
  ASSUME IInv, Disconnect \/ Reconnect \/ HandleOther \/ SnapshotFails \/ UNCHANGED vars
  PROVE  IInv'
<1>1. /\ UNCHANGED <<log, sent, lost, queue, book, reach, trust>>
      /\ connected' \in BOOLEAN
  BY DEF IInv, TypeOK, Disconnect, Reconnect, HandleOther, SnapshotFails, vars,
         exchangeVars, engineVars
<1>2. fetching' \in 0..Len(Focus) /\ asked' \in 0..MaxVersion
  <2>1. CASE Fetch(0) \/ Fetch(1)
    <3>1. 0 \in 0..Len(Focus) /\ 1 \in 0..Len(Focus)
      BY EmptySeq, LenProperties
    <3> QED BY <1>1, <2>1, <3>1, FetchType
  <2>2. CASE UNCHANGED <<fetching, asked>>
    BY <2>2 DEF IInv, TypeOK
  <2> QED
    BY <2>1, <2>2 DEF Disconnect, Reconnect, HandleOther, SnapshotFails, vars, engineVars
<1>3. TypeOK'
  BY <1>1, <1>2 DEF IInv, TypeOK
<1> QED BY <1>1, <1>3 DEF IInv, StreamOK, EventOK, BookIntegrity

-----------------------------------------------------------------------------
\* Every variable keeps its type, and everything the books and the stream
\* rely on holds in every reachable state.
THEOREM Invariance == Spec => []IInv
<1>1. IInv /\ [Next]_vars => IInv'
  <2> SUFFICES ASSUME IInv, [Next]_vars PROVE IInv'
    OBVIOUS
  <2>1. CASE Exchange
    BY <2>1, ExchangeUpdatesStep, PublishDeliveredStep, PublishLostStep DEF Exchange
  <2>2. CASE HandleDepth
    BY <2>2, HandleDepthStep
  <2>3. CASE \E i \in 1..Len(Focus) : SnapshotArrives(i)
    BY <2>3, SnapshotArrivesStep
  <2>4. CASE Disconnect \/ Reconnect \/ HandleOther \/ SnapshotFails \/ UNCHANGED vars
    BY <2>4, OtherSteps
  <2> QED BY <2>1, <2>2, <2>3, <2>4 DEF Next, Engine
<1> QED BY InitIInv, <1>1, PTL DEF Spec

\* TypeOK of the runs, for every instance.
THEOREM TypeCorrect == Spec => []TypeOK
<1>1. IInv => TypeOK
  BY DEF IInv
<1> QED BY Invariance, <1>1, PTL

\* The books of FullBook are exact copies of some version of the exchange's
\* book, whatever is lost, delayed, rejected or fetched again.
THEOREM Integrity == Spec => []BookIntegrity
<1>1. IInv => BookIntegrity
  BY DEF IInv
<1> QED BY Invariance, <1>1, PTL
-----------------------------------------------------------------------------
(***************************************************************************)
(* Trust.  Whether a delta is taken for a gap depends on the chain of      *)
(* events: the prev of an event is where the one before it ended, and that *)
(* one is in the queue before it, or was lost, or was seen already.        *)
(***************************************************************************)
\* Does an event of s lie between the places i and j of the queue?
Between(s, i, j) == \E k \in (i + 1)..(j - 1) : queue[k].sym = s

\* The stream of s reaches id b, at place j, from what is known up to id a, at
\* place i: b is known, or its event was lost, or one is in between.
Reaches(s, a, b, i, j) == b <= a \/ b \in lost[s] \/ Between(s, i, j)

\* From id a, at place i, the stream of s goes on with id b, at place j.
Follows(s, a, b, i, j) == a <= b /\ Reaches(s, a, b, i, j)

QueueLinked ==
  \A i, j \in 1..Len(queue) :
    i < j /\ queue[i].sym = queue[j].sym =>
      Follows(queue[i].sym, queue[i].final, queue[j].prev, i, j)

StreamLinked ==
  \A i \in 1..Len(queue) :
    Follows(queue[i].sym, queue[i].final, sent[queue[i].sym], i, Len(queue) + 1)

\* Whoever knows the book of s up to id a can take the first event to come,
\* unless the one before it was lost.
Awaits(s, a) ==
  /\ Reaches(s, a, sent[s], 0, Len(queue) + 1)
  /\ \A j \in 1..Len(queue) :
       queue[j].sym = s => Reaches(s, a, queue[j].prev, 0, j)

\* A book knows its updates; before the bridge, the stream may be ahead of it
\* by what a snapshot lags behind.
Horizon(b) == IF b.boot THEN b.last ELSE b.last + SnapshotLag

BookLinked ==
  \A s \in Symbols : book[s].present /\ book[s].seqOk => Awaits(s, Horizon(book[s]))

\* A bridged book in sequence has seen nothing of what is still to come.
BookBehind ==
  \A s \in Symbols : book[s].present /\ book[s].seqOk /\ book[s].boot =>
    /\ book[s].last <= sent[s]
    /\ \A j \in 1..Len(queue) : queue[j].sym = s => book[s].last <= queue[j].prev

\* A book out of sequence is behind whatever is still to come.
GapAhead ==
  \A s \in Symbols : book[s].present /\ ~book[s].seqOk =>
    /\ book[s].last < sent[s]
    /\ \A j \in 1..Len(queue) : queue[j].sym = s => book[s].last < queue[j].prev

\* No event is taken while a snapshot is awaited.
RequestLinked == fetching # 0 => Awaits(Focus[fetching], asked)

\* The inductive invariant of the trust flags, on top of IInv.
TrustInv ==
  /\ QueueLinked /\ StreamLinked
  /\ BookLinked /\ BookBehind /\ GapAhead
  /\ RequestLinked
  /\ TrustAgreement

\* The numbers that the links are about.
LEMMA Numbers ==
  ASSUME IInv
  PROVE  /\ Len(queue) \in Nat
         /\ \A s \in Symbols :
              sent[s] \in Nat /\ book[s].last \in Nat /\ Horizon(book[s]) \in Nat
         /\ asked \in Nat /\ (fetching # 0 => Focus[fetching] \in Symbols)
         /\ \A i \in 1..Len(queue) :
              /\ queue[i] \in Event /\ queue[i].sym \in Symbols
              /\ queue[i].prev \in Nat /\ queue[i].final \in Nat
              /\ queue[i].prev < queue[i].final
<1>1. queue \in Seq(Event)
  BY DEF IInv, TypeOK
<1>2. ASSUME NEW s \in Symbols
      PROVE  sent[s] \in Nat /\ book[s].last \in Nat /\ Horizon(book[s]) \in Nat
  BY DEF IInv, TypeOK, BookType, Horizon
<1>3. ASSUME NEW i \in 1..Len(queue)
      PROVE  /\ queue[i] \in Event /\ queue[i].sym \in Symbols
             /\ queue[i].prev \in Nat /\ queue[i].final \in Nat
             /\ queue[i].prev < queue[i].final
  <2>1. queue[i] \in Event
    BY <1>1, ElementOfSeq
  <2> QED BY <2>1 DEF IInv, StreamOK, EventOK, Event
<1>4. asked \in Nat /\ (fetching # 0 => Focus[fetching] \in Symbols)
  <2>1. fetching # 0 => fetching \in 1..Len(Focus)
    BY LenProperties DEF IInv, TypeOK
  <2> QED BY <2>1, ElementOfSeq DEF IInv, TypeOK
<1> QED BY <1>1, <1>2, <1>3, <1>4, LenProperties

\* Who knows the exchange's book as it is can take whatever comes.
LEMMA PresentAwaits == IInv => \A s \in Symbols : Awaits(s, Len(log[s]))
<1> SUFFICES ASSUME IInv, NEW s \in Symbols PROVE Awaits(s, Len(log[s]))
  OBVIOUS
<1>1. sent[s] <= Len(log[s])
  BY DEF IInv, StreamOK
<1>2. ASSUME NEW j \in 1..Len(queue), queue[j].sym = s
      PROVE  queue[j].prev <= Len(log[s])
  <2>1. queue[j].final <= Len(log[s])
    BY <1>2 DEF IInv, StreamOK, EventOK
  <2>2. log[s] \in Seq(Update) /\ Len(log[s]) \in Nat
    BY LenProperties DEF IInv, TypeOK
  <2> QED BY <2>1, <2>2, Numbers
<1> QED BY <1>1, <1>2 DEF Awaits, Reaches

\* A request asks for the exchange's book as it is.
LEMMA FetchLinked ==
  ASSUME IInv, IInv', NEW i \in 0..Len(Focus), Fetch(i), UNCHANGED log
  PROVE  RequestLinked'
<1>1. CASE i = 0
  BY <1>1 DEF Fetch, RequestLinked
<1>2. CASE i # 0
  <2>1. fetching' = i /\ asked' = Len(log'[Focus[i]])
    BY <1>2 DEF Fetch
  <2>2. Focus[i] \in Symbols
    BY <1>2, ElementOfSeq
  <2>3. (IInv => \A s \in Symbols : Awaits(s, Len(log[s])))'
    BY PresentAwaits, PTL
  <2> QED BY <2>1, <2>2, <2>3 DEF RequestLinked
<1> QED BY <1>1, <1>2

LEMMA ResyncCheckLinked ==
  ASSUME IInv, IInv', NEW trusts, ResyncCheck(trusts), UNCHANGED log
  PROVE  RequestLinked'
<1>1. 0 \in 0..Len(Focus) /\ 1 \in 0..Len(Focus)
  BY EmptySeq, LenProperties
<1>2. Fetch(0) \/ Fetch(1)
  BY DEF ResyncCheck
<1> QED BY <1>1, <1>2, FetchLinked

LEMMA InitTrustInv == Init => TrustInv
<1> SUFFICES ASSUME Init PROVE TrustInv
  OBVIOUS
<1>1. RequestLinked
  <2>1. Focus[1] \in Symbols
    BY EmptySeq, LenProperties, ElementOfSeq
  <2>2. Awaits(Focus[1], 0)
    BY <2>1 DEF Init, Awaits, Reaches
  <2> QED BY <2>2 DEF Init, RequestLinked
<1> QED BY <1>1 DEF Init, TrustInv, QueueLinked, StreamLinked, BookLinked, BookBehind,
                    GapAhead, TrustAgreement, NoBook

LEMMA PublishDeliveredTrust ==
  ASSUME IInv, TrustInv, NEW s \in Symbols, PublishDelivered(s)
  PROVE  TrustInv'
<1> DEFINE e == NextEvent(s)
           n == Len(queue)
<1>1. /\ queue' = Append(queue, e) /\ sent' = [sent EXCEPT ![s] = Len(log[s])]
      /\ sent[s] < Len(log[s])
      /\ UNCHANGED <<lost, book, trust, fetching, asked>>
  BY DEF PublishDelivered, engineVars
<1>2. /\ n \in Nat /\ Len(queue') = n + 1 /\ queue'[n + 1] = e
      /\ \A i \in 1..n : queue'[i] = queue[i]
  <2>1. /\ sent[s] \in 0..MaxVersion /\ Len(log[s]) \in 0..MaxVersion
    BY DEF IInv, TypeOK
  <2>2. e \in Event
    BY <1>1, <2>1 DEF NextEvent, Event
  <2> QED BY <1>1, <2>2, AppendProperties DEF IInv, TypeOK
<1>3. /\ e.sym = s /\ e.prev = sent[s] /\ e.final = Len(log[s])
      /\ Len(log[s]) \in Nat
  BY DEF NextEvent, IInv, TypeOK
<1>4. /\ sent'[s] = Len(log[s])
      /\ \A t \in Symbols : t # s => sent'[t] = sent[t]
  BY <1>1 DEF IInv, TypeOK
<1> HIDE DEF e
<1>5. QueueLinked'
  <2> SUFFICES ASSUME NEW i \in 1..(n + 1), NEW j \in 1..(n + 1), i < j,
                      queue'[i].sym = queue'[j].sym
               PROVE  Follows(queue[i].sym, queue[i].final, queue[j].prev, i, j)'
    BY <1>2 DEF QueueLinked
  <2>1. i \in 1..n /\ queue'[i] = queue[i]
    BY <1>2
  <2>2. CASE j \in 1..n
    <3>1. Follows(queue[i].sym, queue[i].final, queue[j].prev, i, j)
      BY <1>2, <2>1, <2>2 DEF TrustInv, QueueLinked
    <3> QED BY <1>1, <1>2, <2>1, <2>2, <3>1 DEF Follows, Reaches, Between
  <2>3. CASE j = n + 1
    <3>1. Follows(queue[i].sym, queue[i].final, sent[queue[i].sym], i, n + 1)
      BY <2>1 DEF TrustInv, StreamLinked
    <3> QED BY <1>1, <1>2, <1>3, <2>1, <2>3, <3>1 DEF Follows, Reaches, Between
  <2> QED BY <1>2, <2>2, <2>3
<1>6. StreamLinked'
  <2> SUFFICES ASSUME NEW i \in 1..(n + 1)
               PROVE  Follows(queue[i].sym, queue[i].final, sent[queue[i].sym], i,
                              Len(queue) + 1)'
    BY <1>2 DEF StreamLinked
  <2>1. CASE i = n + 1
    BY <1>2, <1>3, <1>4, <2>1 DEF Follows, Reaches
  <2>2. CASE i \in 1..n
    <3>1. /\ Follows(queue[i].sym, queue[i].final, sent[queue[i].sym], i, n + 1)
          /\ queue[i].sym \in Symbols /\ queue[i].final \in Nat
          /\ sent[queue[i].sym] \in Nat
      BY <2>2, Numbers DEF TrustInv, StreamLinked
    <3>2. CASE queue[i].sym = s
      <4>1. Between(s, i, Len(queue) + 1)'
        BY <1>2, <1>3, <2>2 DEF Between
      <4> QED BY <1>1, <1>2, <1>3, <1>4, <2>2, <3>1, <3>2, <4>1 DEF Follows, Reaches
    <3>3. CASE queue[i].sym # s
      BY <1>1, <1>2, <1>3, <1>4, <2>2, <3>1, <3>3 DEF Follows, Reaches, Between
    <3> QED BY <3>2, <3>3
  <2> QED BY <1>2, <2>1, <2>2
<1>7. ASSUME NEW t \in Symbols, NEW a \in Nat, Awaits(t, a)
      PROVE  Awaits(t, a)'
  <2>1. /\ Reaches(t, a, sent[t], 0, n + 1)
        /\ \A j \in 1..n : queue[j].sym = t => Reaches(t, a, queue[j].prev, 0, j)
    BY <1>7 DEF Awaits
  <2>2. Reaches(t, a, sent[t], 0, Len(queue) + 1)'
    <3>1. CASE t = s
      <4>1. Between(s, 0, Len(queue) + 1)'
        BY <1>2, <1>3 DEF Between
      <4> QED BY <3>1, <4>1 DEF Reaches
    <3>2. CASE t # s
      BY <1>1, <1>2, <1>4, <2>1, <3>2 DEF Reaches, Between
    <3> QED BY <3>1, <3>2
  <2>3. ASSUME NEW j \in 1..(n + 1), queue'[j].sym = t
        PROVE  Reaches(t, a, queue[j].prev, 0, j)'
    <3>1. CASE j \in 1..n
      BY <1>1, <1>2, <2>1, <2>3, <3>1 DEF Reaches, Between
    <3>2. CASE j = n + 1
      BY <1>1, <1>2, <1>3, <2>1, <2>3, <3>2 DEF Reaches, Between
    <3> QED BY <1>2, <3>1, <3>2
  <2> QED BY <1>2, <2>2, <2>3 DEF Awaits
<1>8. BookLinked' /\ RequestLinked'
  BY <1>1, <1>7, Numbers DEF TrustInv, BookLinked, RequestLinked
<1>9. ASSUME NEW t \in Symbols
      PROVE  /\ sent[t] <= sent'[t]
             /\ \A j \in 1..(n + 1) : queue'[j].sym = t =>
                  \/ j \in 1..n /\ queue[j].sym = t /\ queue'[j].prev = queue[j].prev
                  \/ queue'[j].prev = sent[t]
  BY <1>1, <1>2, <1>3, <1>4, Numbers
<1>10. BookBehind'
  <2> SUFFICES ASSUME NEW t \in Symbols, book[t].present, book[t].seqOk, book[t].boot
               PROVE  /\ book[t].last <= sent'[t]
                      /\ \A j \in 1..(n + 1) : queue'[j].sym = t =>
                           book[t].last <= queue'[j].prev
    BY <1>1, <1>2 DEF BookBehind
  <2>1. /\ book[t].last <= sent[t] /\ book[t].last \in Nat /\ sent[t] \in Nat
        /\ \A j \in 1..n : queue[j].sym = t => book[t].last <= queue[j].prev
    BY Numbers DEF TrustInv, BookBehind
  <2>2. sent'[t] \in Nat
    BY <1>3, <1>4, <2>1
  <2> QED BY <1>9, <2>1, <2>2
<1>11. GapAhead'
  <2> SUFFICES ASSUME NEW t \in Symbols, book[t].present, ~book[t].seqOk
               PROVE  /\ book[t].last < sent'[t]
                      /\ \A j \in 1..(n + 1) : queue'[j].sym = t =>
                           book[t].last < queue'[j].prev
    BY <1>1, <1>2 DEF GapAhead
  <2>1. /\ book[t].last < sent[t] /\ book[t].last \in Nat /\ sent[t] \in Nat
        /\ \A j \in 1..n : queue[j].sym = t => book[t].last < queue[j].prev
    BY Numbers DEF TrustInv, GapAhead
  <2>2. sent'[t] \in Nat
    BY <1>3, <1>4, <2>1
  <2> QED BY <1>9, <2>1, <2>2
<1>12. TrustAgreement'
  BY <1>1 DEF TrustInv, TrustAgreement
<1> QED BY <1>5, <1>6, <1>8, <1>10, <1>11, <1>12 DEF TrustInv

\* A lost event is a link of its own.
LEMMA PublishLostTrust ==
  ASSUME IInv, TrustInv, NEW s \in Symbols, PublishLost(s)
  PROVE  TrustInv'
<1>1. /\ lost' = [lost EXCEPT ![s] = @ \cup {Len(log[s])}]
      /\ sent' = [sent EXCEPT ![s] = Len(log[s])]
      /\ sent[s] < Len(log[s])
      /\ UNCHANGED <<queue, book, trust, fetching, asked>>
  BY DEF PublishLost, engineVars
<1>2. /\ Len(log[s]) \in Nat /\ sent'[s] \in lost'[s] /\ sent'[s] = Len(log[s])
      /\ \A t \in Symbols : lost[t] \subseteq lost'[t] /\ (t # s => sent'[t] = sent[t])
  BY <1>1 DEF IInv, TypeOK
<1>3. ASSUME NEW t \in Symbols, NEW a, NEW b, NEW i, NEW j, Reaches(t, a, b, i, j)
      PROVE  Reaches(t, a, b, i, j)'
  BY <1>1, <1>2, <1>3 DEF Reaches, Between
<1>4. ASSUME NEW t \in Symbols, NEW a, NEW i, NEW j, Reaches(t, a, sent[t], i, j)
      PROVE  Reaches(t, a, sent[t], i, j)'
  <2>1. CASE t = s
    BY <1>2, <2>1 DEF Reaches
  <2>2. CASE t # s
    BY <1>1, <1>2, <1>4, <2>2 DEF Reaches, Between
  <2> QED BY <2>1, <2>2
<1>5. \A t \in Symbols : sent[t] <= sent'[t] /\ sent[t] \in Nat /\ sent'[t] \in Nat
  BY <1>1, <1>2, Numbers
<1>6. QueueLinked'
  BY <1>1, <1>3, Numbers DEF TrustInv, QueueLinked, Follows
<1>7. StreamLinked'
  <2> SUFFICES ASSUME NEW i \in 1..Len(queue)
               PROVE  Follows(queue[i].sym, queue[i].final, sent[queue[i].sym], i,
                              Len(queue) + 1)'
    BY <1>1 DEF StreamLinked
  <2>1. /\ queue[i].sym \in Symbols /\ queue[i].final \in Nat
        /\ Follows(queue[i].sym, queue[i].final, sent[queue[i].sym], i, Len(queue) + 1)
    BY Numbers DEF TrustInv, StreamLinked
  <2>2. Reaches(queue[i].sym, queue[i].final, sent[queue[i].sym], i, Len(queue) + 1)'
    BY <1>1, <1>4, <2>1 DEF Follows
  <2> QED BY <1>1, <1>5, <2>1, <2>2 DEF Follows
<1>8. ASSUME NEW t \in Symbols, NEW a, Awaits(t, a)
      PROVE  Awaits(t, a)'
  BY <1>1, <1>3, <1>4, <1>8 DEF Awaits
<1>9. BookLinked' /\ RequestLinked'
  BY <1>1, <1>8, Numbers DEF TrustInv, BookLinked, RequestLinked
<1>10. BookBehind' /\ GapAhead'
  BY <1>1, <1>5, Numbers DEF TrustInv, BookBehind, GapAhead
<1>11. TrustAgreement'
  BY <1>1 DEF TrustInv, TrustAgreement
<1> QED BY <1>6, <1>7, <1>9, <1>10, <1>11 DEF TrustInv

\* The places move up when the head of the queue is taken.
LEMMA ReachesTail ==
  ASSUME IInv, queue # <<>>, queue' = Tail(queue), UNCHANGED lost,
         NEW s, NEW a, NEW b, NEW i \in Nat, NEW j \in 0..Len(queue),
         Reaches(s, a, b, i + 1, j + 1)
  PROVE  Reaches(s, a, b, i, j)'
<1>1. /\ Len(queue) \in Nat /\ Len(queue') = Len(queue) - 1
      /\ \A k \in 1..Len(queue') : queue'[k] = queue[k + 1]
  BY HeadTailProperties, LenProperties DEF IInv, TypeOK
<1>2. ASSUME Between(s, i + 1, j + 1) PROVE Between(s, i, j)'
  <2>1. PICK k \in (i + 2)..j : queue[k].sym = s
    BY <1>2 DEF Between
  <2>2. k - 1 \in (i + 1)..(j - 1) /\ k - 1 \in 1..Len(queue')
    BY <1>1, <2>1
  <2>3. queue'[k - 1] = queue[k]
    BY <1>1, <2>1, <2>2
  <2> QED BY <2>1, <2>2, <2>3 DEF Between
<1> QED BY <1>2 DEF Reaches

\* An event of another symbol at the head is no link.
LEMMA ReachesOther ==
  ASSUME IInv, queue # <<>>, NEW s, Head(queue).sym # s, NEW a, NEW b,
         NEW j \in Nat, Reaches(s, a, b, 0, j)
  PROVE  Reaches(s, a, b, 1, j)
<1>1. queue[1] = Head(queue)
  BY HeadTailProperties DEF IInv, TypeOK
<1> QED BY <1>1 DEF Reaches, Between

\* What the head of the queue is to a book: a book in sequence that it does
\* not continue has lost something or waits for its bridge, and a book out of
\* sequence takes it for another gap.
LEMMA HeadOfQueue ==
  ASSUME IInv, TrustInv, queue # <<>>,
         NEW s \in Symbols, s = Head(queue).sym, book[s].present
  PROVE  LET prev == Head(queue).prev IN
         /\ ~book[s].seqOk => Gaps(book[s], Head(queue))
         /\ book[s].seqOk /\ book[s].boot => ~IsStale(book[s], Head(queue))
         /\ book[s].seqOk /\ Gaps(book[s], Head(queue)) =>
              \/ prev \in lost[s] /\ book[s].last < prev
              \/ ~book[s].boot /\ prev \in book[s].last..(book[s].last + SnapshotLag)
<1> DEFINE m == Head(queue)
<1>1. Len(queue) \in Nat /\ 1 \in 1..Len(queue) /\ queue[1] = m
  BY EmptySeq, LenProperties, HeadTailProperties DEF IInv, TypeOK
<1>2. /\ m.prev \in Nat /\ m.final \in Nat /\ m.prev < m.final /\ book[s].last \in Nat
      /\ m.first = m.prev + 1
  <2>1. m.prev = m.first - 1 /\ m.first \in Nat
    BY <1>1, Numbers DEF IInv, StreamOK, EventOK, Event
  <2> QED BY <1>1, <2>1, Numbers
<1>3. ASSUME ~book[s].seqOk PROVE Gaps(book[s], m)
  <2>1. book[s].last < m.prev
    BY <1>1, <1>3 DEF TrustInv, GapAhead
  <2> QED BY <1>2, <2>1 DEF Gaps, IsStale, SequenceOk
<1>4. ASSUME book[s].seqOk, book[s].boot
      PROVE  ~IsStale(book[s], m) /\ book[s].last <= m.prev
  <2>1. book[s].last <= m.prev
    BY <1>1, <1>4 DEF TrustInv, BookBehind
  <2> QED BY <1>2, <2>1 DEF IsStale
<1>5. ASSUME book[s].seqOk, Gaps(book[s], m)
      PROVE  \/ m.prev \in lost[s] /\ book[s].last < m.prev
             \/ ~book[s].boot /\ m.prev \in book[s].last..(book[s].last + SnapshotLag)
  <2>1. Reaches(s, Horizon(book[s]), m.prev, 0, 1)
    BY <1>1, <1>5 DEF TrustInv, BookLinked, Awaits
  <2>2. ~Between(s, 0, 1)
    BY DEF Between
  <2>3. m.prev <= Horizon(book[s]) \/ m.prev \in lost[s]
    BY <2>1, <2>2 DEF Reaches
  <2>4. CASE book[s].boot
    <3>1. m.prev # book[s].last /\ book[s].last <= m.prev
      BY <1>4, <1>5, <2>4 DEF Gaps, SequenceOk
    <3> QED BY <1>2, <2>3, <2>4, <3>1 DEF Horizon
  <2>5. CASE ~book[s].boot
    <3>1. book[s].last <= m.prev
      BY <1>2, <1>5, <2>5 DEF Gaps, SequenceOk, IsStale
    <3> QED BY <1>2, <2>3, <2>5, <3>1 DEF Horizon
  <2> QED BY <2>4, <2>5
<1> QED BY <1>3, <1>4, <1>5

LEMMA HandleDepthTrust ==
  ASSUME IInv, IInv', TrustInv, HandleDepth
  PROVE  TrustInv'
<1> SUFFICES ASSUME NEW m, m = Head(queue), NEW s, s = m.sym, NEW n, n = Len(queue)
             PROVE  TrustInv'
  OBVIOUS
<1>1. /\ queue # <<>> /\ queue' = Tail(queue)
      /\ UNCHANGED <<log, sent, lost>>
  BY DEF HandleDepth, exchangeVars
<1>2. /\ n \in Nat /\ 1 \in 1..n /\ queue[1] = m /\ Len(queue') = n - 1
      /\ \A k \in 1..Len(queue') : queue'[k] = queue[k + 1] /\ k + 1 \in 1..n
  BY <1>1, EmptySeq, LenProperties, HeadTailProperties DEF IInv, TypeOK
<1>3. /\ s \in Symbols /\ m.prev \in Nat /\ m.final \in Nat /\ m.prev < m.final
      /\ book[s].last \in Nat /\ sent[s] \in Nat
  BY <1>2, Numbers
<1>4. /\ Follows(s, m.final, sent[s], 1, n + 1)
      /\ \A j \in 2..n : queue[j].sym = s => Follows(s, m.final, queue[j].prev, 1, j)
  BY <1>2 DEF TrustInv, QueueLinked, StreamLinked
<1>5. QueueLinked'
  <2> SUFFICES ASSUME NEW i \in 1..Len(queue'), NEW j \in 1..Len(queue'), i < j,
                      queue'[i].sym = queue'[j].sym
               PROVE  Follows(queue[i].sym, queue[i].final, queue[j].prev, i, j)'
    BY DEF QueueLinked
  <2>1. Follows(queue[i + 1].sym, queue[i + 1].final, queue[j + 1].prev, i + 1, j + 1)
    <3>1. /\ (i + 1) \in 1..n /\ (j + 1) \in 1..n /\ i + 1 < j + 1
          /\ queue[i + 1].sym = queue[j + 1].sym
      BY <1>2
    <3> QED BY <3>1 DEF TrustInv, QueueLinked
  <2>2. i \in Nat /\ j \in 0..Len(queue)
    BY <1>2
  <2>3. \A t, a, b : Reaches(t, a, b, i + 1, j + 1) => Reaches(t, a, b, i, j)'
    BY <1>1, <2>2, ReachesTail
  <2> QED BY <1>2, <2>1, <2>3 DEF Follows
<1>6. StreamLinked'
  <2> SUFFICES ASSUME NEW i \in 1..Len(queue')
               PROVE  Follows(queue[i].sym, queue[i].final, sent[queue[i].sym], i,
                              Len(queue) + 1)'
    BY DEF StreamLinked
  <2>1. Follows(queue[i + 1].sym, queue[i + 1].final, sent[queue[i + 1].sym], i + 1, n + 1)
    BY <1>2 DEF TrustInv, StreamLinked
  <2>2. i \in Nat /\ n \in 0..Len(queue) /\ n = Len(queue') + 1
    BY <1>2
  <2>3. \A t, a, b : Reaches(t, a, b, i + 1, n + 1) => Reaches(t, a, b, i, n)'
    BY <1>1, <2>2, ReachesTail
  <2> QED BY <1>1, <1>2, <2>1, <2>2, <2>3 DEF Follows
<1>7. ASSUME NEW t, NEW a,
             Reaches(t, a, sent[t], 1, n + 1),
             \A j \in 2..n : queue[j].sym = t => Reaches(t, a, queue[j].prev, 1, j)
      PROVE  Awaits(t, a)'
  <2>1. \A b : \A j \in 0..n : Reaches(t, a, b, 1, j + 1) => Reaches(t, a, b, 0, j)'
    <3> SUFFICES ASSUME NEW b, NEW j \in 0..n, Reaches(t, a, b, 1, j + 1)
                 PROVE  Reaches(t, a, b, 0, j)'
      OBVIOUS
    <3>1. j \in 0..Len(queue) /\ 0 \in Nat /\ Reaches(t, a, b, 0 + 1, j + 1)
      OBVIOUS
    <3> QED BY <1>1, <3>1, ReachesTail
  <2>2. Reaches(t, a, sent[t], 0, Len(queue) + 1)'
    <3>1. n \in 0..n /\ Len(queue') + 1 = n
      BY <1>2
    <3> QED BY <1>1, <1>7, <2>1, <3>1
  <2>3. ASSUME NEW j \in 1..Len(queue'), queue'[j].sym = t
        PROVE  Reaches(t, a, queue[j].prev, 0, j)'
    <3>1. j \in 0..n /\ j + 1 \in 2..n /\ queue'[j] = queue[j + 1]
      BY <1>2
    <3> QED BY <1>7, <2>1, <2>3, <3>1
  <2> QED BY <2>2, <2>3 DEF Awaits
<1>8. ASSUME NEW t \in Symbols, t # s, NEW a, Awaits(t, a)
      PROVE  Awaits(t, a)'
  <2>1. \A b : \A j \in Nat : Reaches(t, a, b, 0, j) => Reaches(t, a, b, 1, j)
    BY <1>1, <1>8, ReachesOther
  <2>2. Reaches(t, a, sent[t], 1, n + 1)
    BY <1>2, <1>8, <2>1 DEF Awaits
  <2>3. \A j \in 2..n : queue[j].sym = t => Reaches(t, a, queue[j].prev, 1, j)
    BY <1>2, <1>8, <2>1 DEF Awaits
  <2> QED BY <1>7, <2>2, <2>3
<1>9. ASSUME NEW a \in Nat, m.final <= a
      PROVE  Awaits(s, a)'
  <2>1. \A b \in Nat : \A i, j : Reaches(s, m.final, b, i, j) => Reaches(s, a, b, i, j)
    BY <1>3, <1>9 DEF Reaches
  <2>2. Reaches(s, a, sent[s], 1, n + 1)
    BY <1>3, <1>4, <2>1 DEF Follows
  <2>3. \A j \in 2..n : queue[j].sym = s => Reaches(s, a, queue[j].prev, 1, j)
    BY <1>2, <1>4, <2>1, Numbers DEF Follows
  <2> QED BY <1>7, <2>2, <2>3
<1>10. ASSUME NEW t \in Symbols, t # s, UNCHANGED <<book[t], trust[t]>>
       PROVE  /\ book[t].present /\ book[t].seqOk => Awaits(t, Horizon(book[t]))'
              /\ book[t].present /\ book[t].seqOk /\ book[t].boot =>
                   /\ book[t].last <= sent[t]
                   /\ \A j \in 1..Len(queue') : queue'[j].sym = t =>
                        book[t].last <= queue'[j].prev
              /\ book[t].present /\ ~book[t].seqOk =>
                   /\ book[t].last < sent[t]
                   /\ \A j \in 1..Len(queue') : queue'[j].sym = t =>
                        book[t].last < queue'[j].prev
  <2>1. ASSUME book[t].present, book[t].seqOk
        PROVE  Awaits(t, Horizon(book[t]))'
    <3>1. Awaits(t, Horizon(book[t]))
      BY <2>1 DEF TrustInv, BookLinked
    <3>2. Horizon(book'[t]) = Horizon(book[t])
      BY <1>10
    <3>3. \A a : Awaits(t, a) => Awaits(t, a)'
      BY <1>8, <1>10
    <3> QED BY <3>1, <3>2, <3>3
  <2>2. ASSUME book[t].present, book[t].seqOk, book[t].boot
        PROVE  /\ book[t].last <= sent[t]
               /\ \A j \in 1..Len(queue') : queue'[j].sym = t =>
                    book[t].last <= queue'[j].prev
    BY <1>2, <2>2 DEF TrustInv, BookBehind
  <2>3. ASSUME book[t].present, ~book[t].seqOk
        PROVE  /\ book[t].last < sent[t]
               /\ \A j \in 1..Len(queue') : queue'[j].sym = t =>
                    book[t].last < queue'[j].prev
    BY <1>2, <2>3 DEF TrustInv, GapAhead
  <2> QED BY <2>1, <2>2, <2>3
<1>11. CASE ~book[s].present
  <2>1. UNCHANGED <<book, trust>> /\ ResyncCheck(trust)
    BY <1>11 DEF HandleDepth
  <2>2. BookLinked'
    BY <1>10, <1>11, <2>1 DEF BookLinked
  <2>3. BookBehind'
    BY <1>1, <1>10, <1>11, <2>1 DEF BookBehind
  <2>4. GapAhead'
    BY <1>1, <1>10, <1>11, <2>1 DEF GapAhead
  <2>5. TrustAgreement'
    BY <2>1 DEF TrustInv, TrustAgreement
  <2>6. RequestLinked'
    BY <1>1, <2>1, ResyncCheckLinked
  <2> QED BY <1>5, <1>6, <2>2, <2>3, <2>4, <2>5, <2>6 DEF TrustInv
<1>12. CASE book[s].present
  <2> DEFINE b == ApplyDelta(book[s], log[s], m)
  <2>1. /\ book' = [book EXCEPT ![s] = b]
        /\ trust' = [trust EXCEPT ![s] = IF Gaps(book[s], m) THEN "gap" ELSE "ok"]
        /\ ResyncCheck(trust')
    BY <1>12 DEF HandleDepth
  <2>2. /\ book'[s] = b /\ trust'[s] = IF Gaps(book[s], m) THEN "gap" ELSE "ok"
        /\ \A t \in Symbols : t # s => book'[t] = book[t] /\ trust'[t] = trust[t]
    BY <1>3, <2>1 DEF IInv, TypeOK
  <2>3. /\ ~book[s].seqOk => Gaps(book[s], m)
        /\ book[s].seqOk /\ book[s].boot => ~IsStale(book[s], m)
    BY <1>1, <1>3, <1>12, HeadOfQueue
  <2>4. \/ /\ b = book[s] /\ ~Gaps(book[s], m) /\ book[s].seqOk /\ ~book[s].boot
           /\ m.final <= book[s].last
        \/ /\ Gaps(book[s], m) /\ b.present /\ ~b.seqOk /\ b.last = book[s].last
           /\ book[s].last < m.final
        \/ ~Gaps(book[s], m) /\ b.present /\ b.seqOk /\ b.boot /\ b.last = m.final
    <3>1. CASE IsStale(book[s], m)
      <4>1. b = book[s] /\ ~Gaps(book[s], m)
        BY <3>1 DEF ApplyDelta, Gaps
      <4> QED BY <2>3, <3>1, <4>1 DEF IsStale
    <3>2. CASE ~IsStale(book[s], m) /\ SequenceOk(book[s], m)
      BY <3>2 DEF ApplyDelta, Gaps
    <3>3. CASE ~IsStale(book[s], m) /\ ~SequenceOk(book[s], m)
      <4>1. book[s].last < m.final
        BY <1>3, <3>3 DEF IsStale
      <4> QED BY <3>3, <4>1 DEF ApplyDelta, Gaps
    <3> QED BY <3>1, <3>2, <3>3
  <2> HIDE DEF b
  <2>5. ASSUME book'[s].seqOk
        PROVE  Awaits(s, Horizon(book[s]))'
    <3>1. m.final <= Horizon(book'[s]) /\ Horizon(book'[s]) \in Nat
      <4>1. Horizon(book'[s]) \in Nat
        <5>1. book'[s] \in BookType(MaxVersion)
          BY <1>3 DEF IInv, TypeOK
        <5> QED BY <5>1 DEF BookType, Horizon
      <4>2. book'[s].last \in Nat /\ m.final <= book'[s].last
        BY <1>3, <2>2, <2>4, <2>5
      <4> QED BY <1>3, <4>1, <4>2 DEF Horizon
    <3>2. \A a \in Nat : m.final <= a => Awaits(s, a)'
      BY <1>9
    <3> QED BY <3>1, <3>2
  <2>6. ASSUME book'[s].seqOk, book'[s].boot
        PROVE  /\ book'[s].last <= sent'[s]
               /\ \A j \in 1..Len(queue') : queue'[j].sym = s =>
                    book'[s].last <= queue'[j].prev
    <3>1. book'[s].last = m.final
      BY <2>2, <2>4, <2>6
    <3>2. ASSUME NEW j \in 1..Len(queue'), queue'[j].sym = s
          PROVE  m.final <= queue'[j].prev
      <4>1. j + 1 \in 2..n /\ queue'[j] = queue[j + 1]
        BY <1>2
      <4> QED BY <1>4, <3>2, <4>1 DEF Follows
    <3> QED BY <1>1, <1>4, <3>1, <3>2 DEF Follows
  <2>7. ASSUME ~b.seqOk
        PROVE  /\ b.last < sent'[s]
               /\ \A j \in 1..Len(queue') : queue'[j].sym = s => b.last < queue'[j].prev
    <3>1. b.last = book[s].last /\ b.last < m.final
      BY <2>4, <2>7
    <3>2. m.final <= sent[s]
      BY <1>4 DEF Follows
    <3>3. b.last < sent'[s]
      BY <1>1, <1>3, <3>1, <3>2
    <3>4. ASSUME NEW j \in 1..Len(queue'), queue'[j].sym = s
          PROVE  b.last < queue'[j].prev
      <4>1. j + 1 \in 2..n /\ j + 1 \in 1..n /\ queue'[j] = queue[j + 1]
        BY <1>2
      <4>2. m.final <= queue[j + 1].prev /\ queue[j + 1].prev \in Nat
        BY <1>4, <3>4, <4>1, Numbers DEF Follows
      <4> QED BY <1>3, <3>1, <4>1, <4>2
    <3> QED BY <3>3, <3>4
  <2>8. BookLinked'
    <3> SUFFICES ASSUME NEW t \in Symbols, book'[t].present, book'[t].seqOk
                 PROVE  Awaits(t, Horizon(book[t]))'
      BY DEF BookLinked
    <3>1. CASE t = s
      BY <2>5, <3>1
    <3>2. CASE t # s
      BY <1>10, <2>2, <3>2
    <3> QED BY <3>1, <3>2
  <2>9. BookBehind'
    <3> SUFFICES ASSUME NEW t \in Symbols, book'[t].present, book'[t].seqOk, book'[t].boot
                 PROVE  /\ book'[t].last <= sent'[t]
                        /\ \A j \in 1..Len(queue') : queue'[j].sym = t =>
                             book'[t].last <= queue'[j].prev
      BY DEF BookBehind
    <3>1. CASE t = s
      BY <2>6, <3>1
    <3>2. CASE t # s
      BY <1>1, <1>10, <2>2, <3>2
    <3> QED BY <3>1, <3>2
  <2>10. GapAhead'
    <3> SUFFICES ASSUME NEW t \in Symbols, book'[t].present, ~book'[t].seqOk
                 PROVE  /\ book'[t].last < sent'[t]
                        /\ \A j \in 1..Len(queue') : queue'[j].sym = t =>
                             book'[t].last < queue'[j].prev
      BY DEF GapAhead
    <3>1. CASE t = s
      BY <2>2, <2>7, <3>1
    <3>2. CASE t # s
      BY <1>1, <1>10, <2>2, <3>2
    <3> QED BY <3>1, <3>2
  <2>11. TrustAgreement'
    <3> SUFFICES ASSUME NEW t \in Symbols
                 PROVE  /\ book'[t].present => (trust'[t] = "ok" <=> book'[t].seqOk)
                        /\ trust'[t] = "none" <=> ~book'[t].present
      BY DEF TrustAgreement
    <3>1. CASE t = s
      BY <1>12, <2>2, <2>4, <3>1
    <3>2. CASE t # s
      BY <2>2, <3>2 DEF TrustInv, TrustAgreement
    <3> QED BY <3>1, <3>2
  <2>12. RequestLinked'
    BY <1>1, <2>1, ResyncCheckLinked
  <2> QED BY <1>5, <1>6, <2>8, <2>9, <2>10, <2>11, <2>12 DEF TrustInv
<1> QED BY <1>11, <1>12

\* A snapshot is as old as its request allows.
LEMMA SnapshotVersion ==
  ASSUME IInv, NEW l \in Nat, l <= MaxVersion, NEW v \in Max({0, asked - SnapshotLag})..l
  PROVE  v \in Nat /\ v <= l /\ asked <= v + SnapshotLag
<1>1. asked \in Nat /\ asked - SnapshotLag \in Int
  BY DEF IInv, TypeOK
<1>2. \E x \in {0, asked - SnapshotLag} : \A y \in {0, asked - SnapshotLag} : x >= y
  BY <1>1
<1>3. /\ Max({0, asked - SnapshotLag}) \in {0, asked - SnapshotLag}
      /\ \A y \in {0, asked - SnapshotLag} : Max({0, asked - SnapshotLag}) >= y
  BY <1>2 DEF Max
<1> QED BY <1>1, <1>3

\* A snapshot is trusted and waits for a bridge.
LEMMA SnapshotArrivesTrust ==
  ASSUME IInv, IInv', TrustInv, NEW i \in 1..Len(Focus), SnapshotArrives(i)
  PROVE  /\ TrustInv'
         /\ Focus[i] \in Symbols /\ ~book'[Focus[i]].boot
         /\ \A t \in Symbols : t # Focus[i] => UNCHANGED <<book[t], trust[t]>>
<1> DEFINE s == Focus[i]
<1>1. s \in Symbols /\ Len(log[s]) \in Nat /\ Len(log[s]) <= MaxVersion
  <2>1. s \in Symbols
    BY ElementOfSeq
  <2> QED BY <2>1, LenProperties DEF IInv, TypeOK
<1>2. PICK v \in Max({0, asked - SnapshotLag})..Len(log[s]), levels \in SnapshotReach :
        book' = [book EXCEPT ![s] = FromSnapshot(v, View(log[s], v, levels))]
  BY DEF SnapshotArrives
<1>3. /\ UNCHANGED <<log, sent, lost, queue>>
      /\ book'[s].present /\ book'[s].seqOk /\ ~book'[s].boot /\ book'[s].last = v
      /\ trust'[s] = "ok"
      /\ \A t \in Symbols : t # s => book'[t] = book[t] /\ trust'[t] = trust[t]
  BY <1>1, <1>2 DEF SnapshotArrives, exchangeVars, FromSnapshot, IInv, TypeOK
<1>4. asked \in Nat /\ v \in Nat /\ asked <= v + SnapshotLag
  BY <1>1, SnapshotVersion, Numbers
<1>5. fetching = i /\ fetching # 0
  BY DEF SnapshotArrives
<1>6. Awaits(s, asked)
  BY <1>5 DEF TrustInv, RequestLinked
<1> HIDE DEF s
<1>7. QueueLinked' /\ StreamLinked'
  BY <1>3 DEF TrustInv, QueueLinked, StreamLinked, Follows, Reaches, Between
<1>8. \A t, a : Awaits(t, a) => Awaits(t, a)'
  BY <1>3 DEF Awaits, Reaches, Between
<1>9. BookLinked'
  <2> SUFFICES ASSUME NEW t \in Symbols, book'[t].present, book'[t].seqOk
               PROVE  Awaits(t, Horizon(book[t]))'
    BY DEF BookLinked
  <2>1. CASE t = s
    <3>1. Horizon(book'[s]) = v + SnapshotLag
      BY <1>3 DEF Horizon
    <3>2. Awaits(s, v + SnapshotLag)
      BY <1>1, <1>4, <1>6, Numbers DEF Awaits, Reaches
    <3> QED BY <1>8, <2>1, <3>1, <3>2
  <2>2. CASE t # s
    BY <1>3, <1>8, <2>2 DEF TrustInv, BookLinked
  <2> QED BY <2>1, <2>2
<1>10. BookBehind'
  BY <1>3 DEF TrustInv, BookBehind
<1>11. GapAhead'
  BY <1>3 DEF TrustInv, GapAhead
<1>12. TrustAgreement'
  BY <1>3 DEF TrustInv, TrustAgreement
<1>13. RequestLinked'
  <2>1. Fetch(IF i = Len(Focus) THEN 0 ELSE i + 1)
    BY DEF SnapshotArrives
  <2>2. (IF i = Len(Focus) THEN 0 ELSE i + 1) \in 0..Len(Focus)
    BY LenProperties
  <2> QED BY <1>3, <2>1, <2>2, FetchLinked
<1> QED BY <1>1, <1>3, <1>7, <1>9, <1>10, <1>11, <1>12, <1>13 DEF TrustInv, s

\* The steps that change no book and no stream.
LEMMA OtherTrust ==
  ASSUME IInv, IInv', TrustInv,
         \/ \E s \in Symbols : ExchangeUpdates(s)
         \/ Disconnect \/ Reconnect \/ HandleOther \/ SnapshotFails \/ UNCHANGED vars
  PROVE  TrustInv' /\ UNCHANGED <<book, trust>>
<1>1. UNCHANGED <<sent, lost, queue, book, trust>>
  BY DEF ExchangeUpdates, Disconnect, Reconnect, HandleOther, SnapshotFails, vars,
         exchangeVars, engineVars
<1>2. RequestLinked'
  <2>1. CASE \/ \E s \in Symbols : ExchangeUpdates(s)
             \/ Disconnect \/ Reconnect \/ UNCHANGED vars
    <3>1. UNCHANGED <<fetching, asked>>
      BY <2>1 DEF ExchangeUpdates, Disconnect, Reconnect, vars, engineVars
    <3> QED BY <1>1, <3>1 DEF TrustInv, RequestLinked, Awaits, Reaches, Between
  <2>2. CASE HandleOther
    <3>1. 1 \in 0..Len(Focus)
      BY EmptySeq, LenProperties
    <3> QED BY <2>2, <3>1, FetchLinked DEF HandleOther, exchangeVars
  <2>3. CASE SnapshotFails
    <3>1. 0 \in 0..Len(Focus)
      BY LenProperties
    <3> QED BY <2>3, <3>1, FetchLinked DEF SnapshotFails, exchangeVars
  <2> QED BY <2>1, <2>2, <2>3
<1> QED BY <1>1, <1>2 DEF TrustInv, QueueLinked, StreamLinked, BookLinked, BookBehind,
           GapAhead, TrustAgreement, Awaits, Follows, Reaches, Between

THEOREM TrustInvariance == Spec => []TrustInv
<1>1. IInv /\ IInv' /\ TrustInv /\ [Next]_vars => TrustInv'
  <2> SUFFICES ASSUME IInv, IInv', TrustInv, [Next]_vars PROVE TrustInv'
    OBVIOUS
  <2>1. CASE \E s \in Symbols : PublishDelivered(s)
    BY <2>1, PublishDeliveredTrust
  <2>2. CASE \E s \in Symbols : PublishLost(s)
    BY <2>2, PublishLostTrust
  <2>3. CASE HandleDepth
    BY <2>3, HandleDepthTrust
  <2>4. CASE \E i \in 1..Len(Focus) : SnapshotArrives(i)
    BY <2>4, SnapshotArrivesTrust
  <2>5. CASE \/ \E s \in Symbols : ExchangeUpdates(s)
             \/ Disconnect \/ Reconnect \/ HandleOther \/ SnapshotFails \/ UNCHANGED vars
    BY <2>5, OtherTrust
  <2> QED BY <2>1, <2>2, <2>3, <2>4, <2>5 DEF Next, Exchange, Engine
<1> QED BY InitTrustInv, Invariance, <1>1, PTL DEF Spec

\* The flags that QualityState and FullBook keep of one fact never disagree.
THEOREM TrustsAgree == Spec => []TrustAgreement
<1>1. TrustInv => TrustAgreement
  BY DEF TrustInv
<1> QED BY TrustInvariance, <1>1, PTL

\* A step that changes the trust of a symbol is a delta of that symbol or its
\* snapshot.
LEMMA TrustChanges ==
  ASSUME IInv, IInv', TrustInv, [Next]_vars, NEW s \in Symbols, trust'[s] # trust[s]
  PROVE  \/ /\ HandleDepth /\ queue # <<>> /\ Head(queue).sym = s /\ book[s].present
            /\ trust'[s] = IF Gaps(book[s], Head(queue)) THEN "gap" ELSE "ok"
         \/ \E i \in 1..Len(Focus) :
              SnapshotArrives(i) /\ fetching = i /\ Focus[i] = s /\ trust'[s] = "ok"
<1>1. CASE \/ \E t \in Symbols : ExchangeUpdates(t)
           \/ Disconnect \/ Reconnect \/ HandleOther \/ SnapshotFails \/ UNCHANGED vars
  BY <1>1, OtherTrust
<1>2. CASE \E t \in Symbols : PublishDelivered(t) \/ PublishLost(t)
  BY <1>2 DEF PublishDelivered, PublishLost, engineVars
<1>3. CASE HandleDepth
  <2>1. Head(queue).sym = s /\ book[s].present /\ queue # <<>>
    BY <1>3 DEF HandleDepth, IInv, TypeOK
  <2> QED BY <1>3, <2>1 DEF HandleDepth, IInv, TypeOK
<1>4. CASE \E i \in 1..Len(Focus) : SnapshotArrives(i)
  <2>1. PICK i \in 1..Len(Focus) : SnapshotArrives(i)
    BY <1>4
  <2>2. Focus[i] = s
    BY <2>1, SnapshotArrivesTrust
  <2>3. fetching = i /\ trust'[s] = "ok"
    BY <2>1, <2>2 DEF SnapshotArrives, IInv, TypeOK
  <2> QED BY <2>1, <2>2, <2>3
<1> QED BY <1>1, <1>2, <1>3, <1>4 DEF Next, Exchange, Engine

\* The pu = u check of FullBook has no false alarm, whatever is lost, queued or
\* fetched again: a gap is a loss, or the wait of a snapshot for its bridge.
THEOREM GapsAreLosses == Spec => GapMeansLoss
<1> DEFINE Justified ==
      \A s \in Symbols : (trust[s] = "ok" /\ trust'[s] = "gap") =>
        LET prev == Head(queue).prev IN
          \/ prev \in lost[s] /\ book[s].last < prev
          \/ ~book[s].boot /\ prev \in book[s].last..(book[s].last + SnapshotLag)
<1>1. ASSUME IInv, IInv', TrustInv, [Next]_vars PROVE [Justified]_vars
  <2> SUFFICES ASSUME NEW s \in Symbols, trust[s] = "ok", trust'[s] = "gap"
               PROVE  LET prev == Head(queue).prev IN
                        \/ prev \in lost[s] /\ book[s].last < prev
                        \/ /\ ~book[s].boot
                           /\ prev \in book[s].last..(book[s].last + SnapshotLag)
    OBVIOUS
  <2>1. /\ queue # <<>> /\ Head(queue).sym = s /\ book[s].present
        /\ Gaps(book[s], Head(queue))
    BY <1>1, TrustChanges
  <2>2. book[s].seqOk
    BY <1>1, <2>1 DEF TrustInv, TrustAgreement
  <2> QED BY <1>1, <2>1, <2>2, HeadOfQueue
<1>2. [][Justified]_vars => GapMeansLoss
  BY PTL DEF GapMeansLoss
<1> QED BY Invariance, TrustInvariance, <1>1, <1>2, PTL DEF Spec

\* Only a snapshot ends a gap: a delta that comes late finds the book behind.
THEOREM GapsAreHeld == Spec => GapHeldUntilSnapshot
<1> DEFINE Kept ==
      \A s \in Symbols :
        (trust[s] = "gap" /\ trust'[s] # "gap") =>
          \E i \in 1..Len(Focus) : fetching = i /\ Focus[i] = s /\ ~book'[s].boot
<1>1. ASSUME IInv, IInv', TrustInv, [Next]_vars PROVE [Kept]_vars
  <2> SUFFICES ASSUME NEW s \in Symbols, trust[s] = "gap", trust'[s] # "gap"
               PROVE  \E i \in 1..Len(Focus) :
                        fetching = i /\ Focus[i] = s /\ ~book'[s].boot
    OBVIOUS
  <2>1. book[s].present /\ ~book[s].seqOk
    BY <1>1 DEF TrustInv, TrustAgreement
  <2>2. CASE /\ queue # <<>> /\ Head(queue).sym = s
             /\ trust'[s] = IF Gaps(book[s], Head(queue)) THEN "gap" ELSE "ok"
    BY <1>1, <2>1, <2>2, HeadOfQueue
  <2>3. CASE \E i \in 1..Len(Focus) : SnapshotArrives(i) /\ fetching = i /\ Focus[i] = s
    BY <1>1, <2>3, SnapshotArrivesTrust
  <2> QED BY <1>1, <2>2, <2>3, TrustChanges
<1>2. [][Kept]_vars => GapHeldUntilSnapshot
  BY PTL DEF GapHeldUntilSnapshot
<1> QED BY Invariance, TrustInvariance, <1>1, <1>2, PTL DEF Spec

-----------------------------------------------------------------------------
(***************************************************************************)
(* The refinement of BookMirror.                                           *)
(***************************************************************************)
\* The mirror's operators are those of the books.
LEMMA MirrorView ==
  ASSUME NEW updates, NEW v, NEW levels
  PROVE  Mirror!View(updates, v, levels) = View(updates, v, levels)
  BY DEF Mirror!View, View, Mirror!Hold, Hold, Mirror!QtyAt, QtyAt,
         Mirror!Touches, Touches, Mirror!Max, Max

\* A move of one book is a move of its copy.
LEMMA MoveMapped ==
  ASSUME IInv, NEW s \in Symbols, NEW b, book' = [book EXCEPT ![s] = b],
         NEW levels, reach' = [reach EXCEPT ![s] = levels], UNCHANGED log,
         b.qty = View(log[s], b.last, levels)
  PROVE  Mirror!MoveTo(s, b.last, levels)
<1>1. book \in [Symbols -> BookType(MaxVersion)]
  BY DEF IInv, TypeOK
<1>2. [t \in Symbols |-> book[t].last]' = [[t \in Symbols |-> book[t].last] EXCEPT ![s] = b.last]
  BY <1>1
<1>3. [t \in Symbols |-> book[t].qty]' = [[t \in Symbols |-> book[t].qty] EXCEPT ![s] = b.qty]
  BY <1>1
<1> QED BY <1>2, <1>3, MirrorView DEF Mirror!MoveTo

\* Awaiting a snapshot is an open request, the select loop none.
LEMMA FetchMapped ==
  ASSUME IInv, NEW i \in 0..Len(Focus), Fetch(i), UNCHANGED log
  PROVE  IF i = 0 THEN Mirror!Rest ELSE Mirror!Ask
<1>1. CASE i = 0
  BY <1>1 DEF Fetch, Mirror!Rest
<1>2. CASE i # 0
  <2>1. fetching' = i /\ asked' = Len(log[Focus[i]])
    BY <1>2 DEF Fetch
  <2>2. Focus[i] \in Symbols
    BY <1>2, ElementOfSeq
  <2>3. Mirror!AskFor(Focus[i])
    BY <1>2, <2>1 DEF Mirror!AskFor
  <2> QED BY <1>2, <2>2, <2>3 DEF Mirror!Ask
<1> QED BY <1>1, <1>2

LEMMA ResyncCheckMapped ==
  ASSUME IInv, NEW trusts, ResyncCheck(trusts), UNCHANGED log
  PROVE  IF Mirror!Broken(trusts) THEN Mirror!Ask ELSE Mirror!Rest
<1>1. 0 \in 0..Len(Focus) /\ 1 \in 0..Len(Focus)
  BY EmptySeq, LenProperties
<1>2. CASE Mirror!Broken(trusts)
  <2>1. Fetch(1)
    BY <1>2 DEF ResyncCheck, Mirror!Broken
  <2> QED BY <1>1, <1>2, <2>1, FetchMapped
<1>3. CASE ~Mirror!Broken(trusts)
  <2>1. Fetch(0)
    BY <1>3 DEF ResyncCheck, Mirror!Broken
  <2> QED BY <1>1, <1>3, <2>1, FetchMapped
<1> QED BY <1>2, <1>3

LEMMA InitMapped == Init => Mirror!Init
<1> SUFFICES ASSUME Init PROVE Mirror!Init
  OBVIOUS
<1>1. Focus[1] \in Symbols
  BY EmptySeq, LenProperties, ElementOfSeq
<1> QED BY <1>1 DEF Init, Mirror!Init, NoBook

\* A payload that changes no book and no trust retries the resync if one is
\* needed.
LEMMA IdleMapped ==
  ASSUME IInv, fetching = 0, ResyncCheck(trust), UNCHANGED <<log, book, reach, trust>>
  PROVE  [Mirror!Next]_Mirror!vars
<1>1. CASE Mirror!Broken(trust)
  <2>1. Mirror!Ask
    BY <1>1, ResyncCheckMapped
  <2>2. Mirror!Retry
    BY <1>1, <2>1 DEF Mirror!Retry, Mirror!copyVars
  <2> QED BY <2>2 DEF Mirror!Next
<1>2. CASE ~Mirror!Broken(trust)
  <2>1. fetching' = 0
    BY <1>2 DEF ResyncCheck, Fetch, Mirror!Broken
  <2> QED BY <2>1 DEF Mirror!vars
<1> QED BY <1>1, <1>2

\* A delta moves a copy that keeps track forward, or finds it has lost track.
LEMMA HandleDepthMapped ==
  ASSUME IInv, TrustInv, HandleDepth
  PROVE  [Mirror!Next]_Mirror!vars
<1> SUFFICES ASSUME NEW m, m = Head(queue), NEW s, s = m.sym
             PROVE  [Mirror!Next]_Mirror!vars
  OBVIOUS
<1> DEFINE b == ApplyDelta(book[s], log[s], m)
           r == ReachAfter(s, m)
<1>1. fetching = 0 /\ queue # <<>> /\ UNCHANGED log
  BY DEF HandleDepth, exchangeVars
<1>2. m \in Event /\ EventOK(m) /\ s \in Symbols
  <2>1. queue \in Seq(Event)
    BY DEF IInv, TypeOK
  <2>2. 1 \in 1..Len(queue) /\ m = queue[1] /\ m \in Event
    BY <1>1, <2>1, EmptySeq, HeadTailProperties, LenProperties
  <2> QED BY <2>2 DEF IInv, StreamOK, Event
<1>3. CASE ~book[s].present
  <2>1. UNCHANGED <<log, book, reach, trust>> /\ ResyncCheck(trust)
    BY <1>1, <1>3 DEF HandleDepth
  <2> QED BY <1>1, <2>1, IdleMapped
<1>4. CASE book[s].present
  <2>1. /\ book' = [book EXCEPT ![s] = b]
        /\ reach' = [reach EXCEPT ![s] = r]
        /\ trust' = [trust EXCEPT ![s] = IF Gaps(book[s], m) THEN "gap" ELSE "ok"]
        /\ ResyncCheck(trust')
    BY <1>1, <1>4 DEF HandleDepth, ReachAfter
  <2>2. IF Mirror!Broken(trust') THEN Mirror!Ask ELSE Mirror!Rest
    BY <1>1, <2>1, ResyncCheckMapped
  <2>3. ~Gaps(book[s], m) => trust[s] = "ok"
    BY <1>1, <1>2, <1>4, HeadOfQueue DEF TrustInv, TrustAgreement
  <2>4. /\ book \in [Symbols -> BookType(MaxVersion)] /\ reach \in [Symbols -> SUBSET Levels]
        /\ trust \in [Symbols -> Trust]
    BY DEF IInv, TypeOK
  <2>5. m.final \in Nat /\ book[s].last \in Nat /\ Len(log[s]) \in Nat /\ m.final <= Len(log[s])
    <3>1. m.final \in Nat /\ m.final <= Len(log[s])
      BY <1>2 DEF Event, EventOK
    <3>2. log[s] \in Seq(Update)
      BY <1>2 DEF IInv, TypeOK
    <3> QED BY <1>2, <3>1, <3>2, LenProperties, Numbers
  <2>6. CASE IsStale(book[s], m)
    <3>1. ~Gaps(book[s], m) /\ b = book[s] /\ r = reach[s]
      BY <2>6 DEF ApplyDelta, Gaps, ReachAfter
    <3> HIDE DEF b, r
    <3>2. UNCHANGED <<book, reach, trust>>
      BY <1>2, <2>1, <2>3, <2>4, <3>1
    <3> QED BY <1>1, <2>1, <3>2, IdleMapped
  <2>7. CASE Gaps(book[s], m)
    <3>1. /\ b.last = book[s].last /\ b.qty = book[s].qty /\ r = reach[s]
          /\ book[s].last < m.final
      BY <2>5, <2>7 DEF ApplyDelta, Gaps, IsStale, ReachAfter
    <3> HIDE DEF b, r
    <3>2. /\ [t \in Symbols |-> book[t].last]' = [t \in Symbols |-> book[t].last]
          /\ [t \in Symbols |-> book[t].qty]' = [t \in Symbols |-> book[t].qty]
          /\ reach' = reach
      BY <1>2, <2>1, <2>4, <3>1
    <3>3. trust' = [trust EXCEPT ![s] = "gap"] /\ trust'[s] = "gap"
      BY <1>2, <2>1, <2>4, <2>7
    <3>4. Mirror!Ask
      BY <1>2, <2>2, <3>3 DEF Mirror!Broken
    <3>5. CASE trust[s] = "ok"
      <4>1. [t \in Symbols |-> book[t].last][s] < Len(log[s])
        BY <1>2, <2>5, <3>1
      <4>2. Mirror!LoseTrack(s)
        BY <1>1, <3>2, <3>3, <3>4, <3>5, <4>1 DEF Mirror!LoseTrack, Mirror!copyVars
      <4> QED BY <1>2, <4>2 DEF Mirror!Next
    <3>6. CASE trust[s] # "ok"
      <4>1. trust[s] = "gap"
        BY <1>2, <1>4, <2>4, <3>6 DEF Trust, TrustInv, TrustAgreement
      <4>2. trust' = trust /\ Mirror!Broken(trust)
        BY <1>2, <2>4, <3>3, <4>1 DEF Mirror!Broken
      <4>3. Mirror!Retry
        BY <1>1, <3>2, <3>4, <4>2 DEF Mirror!Retry, Mirror!copyVars
      <4> QED BY <4>3 DEF Mirror!Next
    <3> QED BY <3>5, <3>6
  <2>8. CASE ~IsStale(book[s], m) /\ ~Gaps(book[s], m)
    <3>1. b.last <= Len(log[s]) /\ b.qty = View(log[s], b.last, r) /\ r \in SUBSET Levels
      BY <1>2, <1>4, ApplyDeltaMirrors
    <3>2. b.last = m.final /\ reach[s] \subseteq r /\ book[s].last < m.final
      BY <2>5, <2>8 DEF ApplyDelta, Gaps, IsStale, ReachAfter
    <3> HIDE DEF b, r
    <3>3. PICK c, q : c = b /\ q = r
      OBVIOUS
    <3>4. Mirror!MoveTo(s, c.last, q)
      <4>1. /\ book' = [book EXCEPT ![s] = c] /\ reach' = [reach EXCEPT ![s] = q]
            /\ c.qty = View(log[s], c.last, q)
        BY <2>1, <3>1, <3>3
      <4> QED BY <1>1, <1>2, <4>1, MoveMapped
    <3>5. /\ c.last \in ([u \in Symbols |-> book[u].last][s] + 1)..Len(log[s])
          /\ reach[s] \subseteq q /\ q \in SUBSET Levels
      BY <1>2, <2>5, <3>1, <3>2, <3>3
    <3>6. trust[s] = "ok" /\ trust' = trust
      BY <1>2, <2>1, <2>3, <2>4, <2>8
    <3>7. Mirror!Advance(s)
      BY <1>1, <2>2, <3>4, <3>5, <3>6 DEF Mirror!Advance
    <3> QED BY <1>2, <3>7 DEF Mirror!Next
  <2> QED BY <2>6, <2>7, <2>8
<1> QED BY <1>3, <1>4

\* The answer to a request is adopted.
LEMMA SnapshotArrivesMapped ==
  ASSUME IInv, NEW i \in 1..Len(Focus), SnapshotArrives(i)
  PROVE  Mirror!Next
<1> DEFINE s == Focus[i]
<1>1. s \in Symbols /\ Len(log[s]) \in Nat /\ Len(log[s]) <= MaxVersion
  <2>1. s \in Symbols
    BY ElementOfSeq
  <2> QED BY <2>1, LenProperties DEF IInv, TypeOK
<1>2. PICK v \in Max({0, asked - SnapshotLag})..Len(log[s]), levels \in SnapshotReach :
        /\ book' = [book EXCEPT ![s] = FromSnapshot(v, View(log[s], v, levels))]
        /\ reach' = [reach EXCEPT ![s] = levels]
        /\ trust' = [trust EXCEPT ![s] = "ok"]
  BY DEF SnapshotArrives
<1>3. /\ UNCHANGED log /\ fetching = i /\ fetching # 0
      /\ Fetch(IF i = Len(Focus) THEN 0 ELSE i + 1)
  BY DEF SnapshotArrives, exchangeVars
<1>4. levels \in SUBSET Levels
  OBVIOUS
<1> DEFINE b == FromSnapshot(v, View(log[s], v, levels))
           req == [sym |-> s, asked |-> asked]
<1>5. b.last = v /\ b.qty = View(log[s], v, levels)
  BY DEF FromSnapshot
<1>6. v \in Nat /\ v <= Len(log[s]) /\ asked \in Nat /\ asked <= v + SnapshotLag
  BY <1>1, SnapshotVersion, Numbers
<1>7. Mirror!Ask \/ Mirror!Rest
  <2>1. (IF i = Len(Focus) THEN 0 ELSE i + 1) \in 0..Len(Focus)
    BY LenProperties
  <2> QED BY <1>3, <2>1, FetchMapped
<1>8. req \in (IF fetching = 0 THEN {} ELSE {[sym |-> Focus[fetching], asked |-> asked]})
  BY <1>3
<1>9. req.sym = s /\ req.asked = asked
  OBVIOUS
<1> HIDE DEF b, s, req
<1>10. Mirror!MoveTo(s, v, levels)
  <2>1. Mirror!MoveTo(s, b.last, levels)
    BY <1>1, <1>2, <1>3, <1>5, MoveMapped DEF b
  <2> QED BY <1>5, <2>1
<1>11. v \in {w \in 0..Len(log[req.sym]) : req.asked - SnapshotLag <= w}
  BY <1>1, <1>6, <1>9
<1>12. Mirror!AdoptSnapshot
  BY <1>2, <1>4, <1>7, <1>8, <1>9, <1>10, <1>11 DEF Mirror!AdoptSnapshot
<1> QED BY <1>12 DEF Mirror!Next

LEMMA StepMapped ==
  ASSUME IInv, TrustInv, [Next]_vars
  PROVE  [Mirror!Next]_Mirror!vars
<1>1. CASE \E s \in Symbols : ExchangeUpdates(s)
  <2>1. PICK s \in Symbols : ExchangeUpdates(s)
    BY <1>1
  <2>2. /\ \E u \in Update : log' = [log EXCEPT ![s] = Append(@, u)]
        /\ UNCHANGED <<book, reach, trust, fetching, asked>>
    BY <2>1 DEF ExchangeUpdates, engineVars
  <2>3. Mirror!Update = Update
    BY DEF Mirror!Update, Update
  <2>4. Mirror!ExchangeUpdates(s)
    BY <2>2, <2>3 DEF Mirror!ExchangeUpdates, Mirror!copyVars
  <2> QED BY <2>4 DEF Mirror!Next
<1>2. CASE \/ \E s \in Symbols : PublishDelivered(s) \/ PublishLost(s)
           \/ Disconnect \/ Reconnect \/ UNCHANGED vars
  <2>1. UNCHANGED <<log, book, reach, trust, fetching, asked>>
    BY <1>2 DEF PublishDelivered, PublishLost, Disconnect, Reconnect, vars,
                exchangeVars, engineVars
  <2> QED BY <2>1 DEF Mirror!vars
<1>3. CASE HandleDepth
  BY <1>3, HandleDepthMapped
<1>4. CASE HandleOther
  <2>1. ResyncCheck(trust)
    BY <1>4 DEF HandleOther, ResyncCheck
  <2> QED BY <1>4, <2>1, IdleMapped DEF HandleOther, exchangeVars
<1>5. CASE \E i \in 1..Len(Focus) : SnapshotArrives(i)
  BY <1>5, SnapshotArrivesMapped
<1>6. CASE SnapshotFails
  <2>1. 0 \in 0..Len(Focus)
    BY LenProperties
  <2>2. Mirror!Rest
    BY <1>6, <2>1, FetchMapped DEF SnapshotFails, exchangeVars
  <2>3. Mirror!GiveUp
    BY <1>6, <2>2 DEF SnapshotFails, exchangeVars, Mirror!GiveUp, Mirror!copyVars
  <2> QED BY <2>3 DEF Mirror!Next
<1> QED BY <1>1, <1>2, <1>3, <1>4, <1>5, <1>6 DEF Next, Exchange, Engine

\* The books of the runtime are mirrors: a trusted book only moves forward, one
\* with a gap stands still, and a snapshot replaces a book only when one was
\* asked for, at start or because of a gap, and is no older than it may be.
THEOREM Mirrors == Spec => BooksAreMirrors
<1>1. IInv /\ TrustInv /\ [Next]_vars => [Mirror!Next]_Mirror!vars
  BY StepMapped
<1> QED BY Invariance, TrustInvariance, InitMapped, <1>1, PTL
        DEF Spec, BooksAreMirrors, Mirror!Spec
=============================================================================
