---------------------------- MODULE StorageProofs ----------------------------
(***************************************************************************)
(* Nothing is lost silently between the sink and ClickHouse, and a process *)
(* stores one row of features_1m per symbol and minute, for any number of  *)
(* symbols, any capacity, batch size and number of restarts.               *)
(***************************************************************************)
EXTENDS Storage, SequenceTheorems, TLAPS

\* The packets of the present process leave the channel in the order in which
\* they were built.
QueueOrdered ==
  \A i, j \in 1..Len(queue) : i < j => queue[i].ts < queue[j].ts

\* Where a packet can be.
Places == <<Elements(queue), Elements(pending.latest), Elements(batch.latest),
            table.latest, untold>>

Kept == Elements(queue) \cup Elements(pending.latest) \cup Elements(batch.latest)
          \cup table.latest \cup untold

\* The packets that passed the filter's question and are not lost.
Received == Elements(pending.latest) \cup Elements(batch.latest) \cup table.latest

\* The packets a process holds in memory.
Carried == Elements(queue) \cup Elements(pending.latest) \cup Elements(batch.latest)
             \cup Elements(pending.features) \cup Elements(batch.features)

\* No packet is newer than the clock or the process.
Dated ==
  /\ \A p \in Kept \cup FeatureRows : p.ts <= now /\ p.life <= life
  /\ \A p \in Carried : p.life = life

\* The filter remembers a minute of which there is a row, no row of this
\* process is later than, and no packet still queued is earlier than.
FilterOK ==
  /\ \A p \in FeatureRows : p.life = life => Minute(p) <= seen[p.sym]
  /\ \A p \in Elements(queue) : seen[p.sym] <= Minute(p)
  /\ \A s \in Symbols : seen[s] <= now \div PerMinute
  /\ \A s \in Symbols : seen[s] # -1 =>
       \E q \in FeatureRows : q.sym = s /\ q.life = life /\ Minute(q) = seen[s]
  /\ \A p, q \in FeatureRows : p # q => ~SameRow(p, q)
  /\ \A p \in Received : p.life = life => \E q \in FeatureRows : SameRow(p, q)

\* A batch exists while it is inserted, its latest packets first.
BatchOK ==
  /\ phase \in {"select", "done"} => batch = NoRows
  /\ phase = "features" => batch.latest = <<>>

IInv == TypeOK /\ QueueOrdered /\ Accounted /\ Dated /\ FilterOK /\ BatchOK

-----------------------------------------------------------------------------
(***************************************************************************)
(* Sequences as sets, and minutes.                                         *)
(***************************************************************************)
LEMMA ElementsAppend ==
  ASSUME NEW S, NEW s \in Seq(S), NEW e \in S
  PROVE  Elements(Append(s, e)) = Elements(s) \cup {e}
BY DEF Elements

LEMMA ElementsEmpty == Elements(<<>>) = {}
BY DEF Elements

LEMMA ElementsIn ==
  ASSUME NEW S, NEW s \in Seq(S)
  PROVE  Elements(s) \subseteq S
BY DEF Elements

LEMMA PacketFacts ==
  ASSUME NEW p \in Packet
  PROVE  p.ts \in Nat /\ p.life \in Nat /\ p.sym \in Symbols
BY SizeAssumption DEF Packet

LEMMA ElementsTail ==
  ASSUME NEW s \in Seq(Packet), s # <<>>,
         \A i, j \in 1..Len(s) : i < j => s[i].ts < s[j].ts
  PROVE  /\ Elements(s) = Elements(Tail(s)) \cup {Head(s)}
         /\ Head(s) \notin Elements(Tail(s))
         /\ \A i, j \in 1..Len(Tail(s)) : i < j => Tail(s)[i].ts < Tail(s)[j].ts
         /\ \A p \in Elements(Tail(s)) : Head(s).ts < p.ts
<1>1. /\ Len(s) \in Nat /\ Len(s) >= 1
      /\ Tail(s) \in Seq(Packet) /\ Len(Tail(s)) = Len(s) - 1
      /\ Head(s) = s[1]
      /\ \A i \in 1..Len(Tail(s)) : Tail(s)[i] = s[i + 1]
  OBVIOUS
<1>2. \A i \in 1..Len(s) : s[i] \in Packet /\ s[i].ts \in Int
  <2>1. \A i \in 1..Len(s) : s[i] \in Packet
    OBVIOUS
  <2> QED
    BY <2>1, PacketFacts
<1>3. \A p \in Elements(Tail(s)) : \E i \in 2..Len(s) : p = s[i]
  <2>1. TAKE p \in Elements(Tail(s))
  <2>2. PICK i \in 1..Len(Tail(s)) : p = Tail(s)[i]
    BY <2>1 DEF Elements
  <2>3. i + 1 \in 2..Len(s) /\ p = s[i + 1]
    BY <1>1, <2>2
  <2> QED
    BY <2>3
<1>4. \A p \in Elements(Tail(s)) : Head(s).ts < p.ts
  <2>1. TAKE p \in Elements(Tail(s))
  <2>2. PICK i \in 2..Len(s) : p = s[i]
    BY <1>3, <2>1
  <2>3. 1 \in 1..Len(s) /\ i \in 1..Len(s) /\ 1 < i
    BY <1>1, <2>2
  <2>4. s[1].ts < s[i].ts
    BY <2>3
  <2> QED
    BY <1>1, <2>2, <2>4
<1>5. Head(s) \notin Elements(Tail(s))
  BY <1>1, <1>2, <1>4
<1>6. Elements(s) \subseteq Elements(Tail(s)) \cup {Head(s)}
  <2>1. SUFFICES ASSUME NEW i \in 1..Len(s), i # 1
                 PROVE  s[i] \in Elements(Tail(s))
    BY <1>1 DEF Elements
  <2>2. i - 1 \in 1..Len(Tail(s)) /\ s[i] = Tail(s)[i - 1]
    BY <1>1, <2>1
  <2> QED
    BY <2>2 DEF Elements
<1>7. Elements(Tail(s)) \cup {Head(s)} \subseteq Elements(s)
  BY <1>1, <1>3 DEF Elements
<1>8. \A i, j \in 1..Len(Tail(s)) : i < j => Tail(s)[i].ts < Tail(s)[j].ts
  <2>1. TAKE i, j \in 1..Len(Tail(s))
  <2>2. /\ i + 1 \in 1..Len(s) /\ j + 1 \in 1..Len(s)
        /\ Tail(s)[i] = s[i + 1] /\ Tail(s)[j] = s[j + 1]
        /\ i < j => i + 1 < j + 1
    BY <1>1, <2>1
  <2> QED
    BY <2>2
<1> QED
  BY <1>4, <1>5, <1>6, <1>7, <1>8

LEMMA MinuteNat ==
  ASSUME NEW t \in Nat
  PROVE  t \div PerMinute \in Nat /\ t \div PerMinute <= t
BY SizeAssumption

LEMMA MinuteMonotone ==
  ASSUME NEW t \in Nat, NEW u \in Nat, t <= u
  PROVE  t \div PerMinute <= u \div PerMinute
BY SizeAssumption

\* Accounted without the tuple.
Apart(q, p, b, t, u) ==
  /\ q \cap p = {} /\ q \cap b = {} /\ q \cap t = {} /\ q \cap u = {}
  /\ p \cap b = {} /\ p \cap t = {} /\ p \cap u = {}
  /\ b \cap t = {} /\ b \cap u = {} /\ t \cap u = {}

Times(kept, of) == {p.ts : p \in {q \in kept : q.life = of}}

LEMMA AccountedParts ==
  Accounted <=>
    /\ Apart(Elements(queue), Elements(pending.latest), Elements(batch.latest),
             table.latest, untold)
    /\ Times(Kept, life) = (born + 1)..now
<1> DEFINE places == <<Elements(queue), Elements(pending.latest),
                       Elements(batch.latest), table.latest, untold>>
<1>1. UNION Elements(places) = Kept
  BY DEF Elements, Kept
<1>2. (\A i, j \in 1..5 : i < j => places[i] \cap places[j] = {})
        <=> Apart(Elements(queue), Elements(pending.latest), Elements(batch.latest),
                  table.latest, untold)
  <2> DEFINE q == Elements(queue)
             p == Elements(pending.latest)
             b == Elements(batch.latest)
  <2> HIDE DEF q, p, b
  <2>1. (\A i, j \in 1..5 : i < j =>
           <<q, p, b, table.latest, untold>>[i] \cap <<q, p, b, table.latest, untold>>[j] = {})
          <=> Apart(q, p, b, table.latest, untold)
    BY DEF Apart
  <2> QED
    BY <2>1 DEF q, p, b
<1> HIDE DEF places
<1>3. Accounted <=>
        /\ \A i, j \in 1..5 : i < j => places[i] \cap places[j] = {}
        /\ {p.ts : p \in {q \in UNION Elements(places) : q.life = life}} = (born + 1)..now
  BY DEF Accounted, places
<1> QED
  BY <1>1, <1>2, <1>3 DEF Times

LEMMA NoRowsFacts == NoRows \in Rows /\ NoRows.latest = <<>> /\ NoRows.features = <<>>
<1>1. <<>> \in Seq(Packet)
  OBVIOUS
<1> QED
  BY <1>1 DEF NoRows, Rows

-----------------------------------------------------------------------------
LEMMA InitInvariant == Init => IInv
<1> SUFFICES ASSUME Init PROVE IInv
  OBVIOUS
<1>1. /\ pending.latest = <<>> /\ pending.features = <<>>
      /\ batch = NoRows /\ batch.latest = <<>> /\ batch.features = <<>>
      /\ table.latest = {} /\ table.features = {}
      /\ queue = <<>> /\ untold = {} /\ unsaved = {}
  BY DEF Init, NoRows
<1>2. Kept = {} /\ FeatureRows = {} /\ Received = {}
  BY <1>1, ElementsEmpty DEF Kept, FeatureRows, Received
<1>3. TypeOK
  <2>1. <<>> \in Seq(Packet) /\ Len(<<>>) = 0
    OBVIOUS
  <2>2. queue \in Seq(Packet) /\ Len(queue) <= QueueCap
    BY <1>1, <2>1, SizeAssumption
  <2>a. RowCount(pending) = 0
    BY <1>1, <2>1 DEF RowCount
  <2>b. RowCount(pending) < BatchRows
    BY <2>a, SizeAssumption
  <2>3. seen \in [Symbols -> -1..MaxTime]
    BY SizeAssumption DEF Init
  <2>4. now \in 0..MaxTime /\ born \in 0..now /\ life \in 0..MaxRestarts
    <3>1. now = 0 /\ born = 0 /\ life = 0
      BY DEF Init
    <3> QED
      BY <3>1, SizeAssumption
  <2>5. closed \in BOOLEAN
    BY Zenon DEF Init
  <2>6. phase \in {"select", "latest", "features", "done"}
    BY DEF Init
  <2>7. /\ pending \in Rows /\ batch \in Rows
        /\ table \in [latest : SUBSET Packet, features : SUBSET Packet]
    BY NoRowsFacts DEF Init
  <2> QED
    BY <1>1, <2>2, <2>b, <2>3, <2>4, <2>5, <2>6, <2>7 DEF TypeOK
<1>4. Accounted
  <2>1. Times(Kept, life) = {}
    BY <1>2 DEF Times
  <2>2. (born + 1)..now = {}
    BY DEF Init
  <2>3. Apart(Elements(queue), Elements(pending.latest), Elements(batch.latest),
              table.latest, untold)
    BY <1>1, ElementsEmpty DEF Apart
  <2> QED
    BY <2>1, <2>2, <2>3, AccountedParts
<1>5. QueueOrdered /\ Dated /\ BatchOK
  BY <1>1, <1>2, ElementsEmpty DEF QueueOrdered, Dated, Carried, BatchOK, Init
<1>6. FilterOK
  <2>1. now \div PerMinute \in Nat
    BY <1>3, MinuteNat DEF TypeOK, Rows
  <2> QED
    BY <1>1, <1>2, <2>1, ElementsEmpty DEF FilterOK, Init
<1> QED
  BY <1>3, <1>4, <1>5, <1>6 DEF IInv

\* What the invariant says of the sets of packets.
LEMMA SetFacts ==
  ASSUME IInv
  PROVE  /\ Elements(queue) \subseteq Packet
         /\ Elements(pending.latest) \subseteq Packet /\ Elements(pending.features) \subseteq Packet
         /\ Elements(batch.latest) \subseteq Packet /\ Elements(batch.features) \subseteq Packet
         /\ Kept \subseteq Packet /\ FeatureRows \subseteq Packet
         /\ now \in Nat /\ born \in Nat /\ born <= now /\ life \in Nat
<1>1. /\ Elements(queue) \subseteq Packet
      /\ Elements(pending.latest) \subseteq Packet /\ Elements(pending.features) \subseteq Packet
      /\ Elements(batch.latest) \subseteq Packet /\ Elements(batch.features) \subseteq Packet
  BY ElementsIn DEF IInv, TypeOK, Rows
<1>2. Kept \subseteq Packet /\ FeatureRows \subseteq Packet
  BY <1>1 DEF IInv, TypeOK, Rows, Kept, FeatureRows
<1>3. now \in Nat /\ born \in Nat /\ born <= now /\ life \in Nat
  BY SizeAssumption DEF IInv, TypeOK, Rows
<1> QED
  BY <1>1, <1>2, <1>3

LEMMA EmitStep ==
  ASSUME IInv, NEW s \in Symbols, Emit(s)
  PROVE  IInv'
<1> DEFINE p == [sym |-> s, ts |-> now + 1, life |-> life]
<1>1. /\ p \in Packet /\ p.ts = now + 1 /\ p.life = life /\ p.sym = s
      /\ now' = now + 1 /\ now' \in 0..MaxTime
  BY SizeAssumption DEF Emit, IInv, TypeOK, Rows, Packet
<1>2. UNCHANGED <<born, life, closed, pending, seen, phase, batch, table, unsaved>>
  BY DEF Emit
<1>3. \/ queue' = Append(queue, p) /\ untold' = untold /\ Len(queue) < QueueCap
      \/ queue' = queue /\ untold' = untold \cup {p}
  BY DEF Emit
<1>a. /\ queue \in Seq(Packet) /\ Len(queue) \in Nat /\ Len(queue) <= QueueCap
      /\ untold \subseteq Packet
  BY DEF IInv, TypeOK, Rows
<1> HIDE DEF p
<1>b. /\ Append(queue, p) \in Seq(Packet) /\ Len(Append(queue, p)) = Len(queue) + 1
      /\ Elements(Append(queue, p)) = Elements(queue) \cup {p}
      /\ \A i \in 1..Len(queue) : Append(queue, p)[i] = queue[i]
      /\ Append(queue, p)[Len(queue) + 1] = p
  BY <1>1, <1>a, ElementsAppend
<1>4. p \notin Kept
  BY <1>1, SetFacts DEF IInv, Dated
<1>5. /\ Kept' = Kept \cup {p} /\ FeatureRows' = FeatureRows /\ Received' = Received
      /\ Elements(queue') \in {Elements(queue), Elements(queue) \cup {p}}
  BY <1>2, <1>3, <1>b DEF Kept, FeatureRows, Received
<1>6. TypeOK'
  <2>1. queue' \in Seq(Packet) /\ Len(queue') <= QueueCap /\ untold' \subseteq Packet
    <3>1. CASE queue' = Append(queue, p) /\ untold' = untold /\ Len(queue) < QueueCap
      <4>1. Len(queue) + 1 <= QueueCap
        BY <1>a, <3>1, SizeAssumption
      <4> QED
        BY <1>a, <1>b, <3>1, <4>1
    <3>2. CASE queue' = queue /\ untold' = untold \cup {p}
      BY <1>1, <1>a, <3>2
    <3> QED
      BY <1>3, <3>1, <3>2
  <2>2. born \in 0..now'
    BY <1>1, SetFacts
  <2> QED
    BY <1>1, <1>2, <2>1, <2>2 DEF IInv, TypeOK, Rows, RowCount
<1>7. QueueOrdered'
  <2>1. CASE queue' = queue
    BY <2>1 DEF IInv, QueueOrdered
  <2>2. CASE queue' = Append(queue, p)
    <3>1. \A i \in 1..Len(queue) : queue[i].ts <= now /\ queue[i].ts \in Nat
      BY SetFacts, PacketFacts DEF IInv, Dated, Kept, Elements
    <3>2. \A i, j \in 1..Len(queue) : i < j => queue[i].ts < queue[j].ts
      BY DEF IInv, QueueOrdered
    <3>3. now \in Nat
      BY SetFacts
    <3>4. ASSUME NEW i \in 1..(Len(queue) + 1), NEW j \in 1..(Len(queue) + 1), i < j
          PROVE  Append(queue, p)[i].ts < Append(queue, p)[j].ts
      <4>1. CASE j = Len(queue) + 1
        BY <1>1, <1>a, <1>b, <3>1, <3>3, <3>4, <4>1
      <4>2. CASE j \in 1..Len(queue)
        BY <1>a, <1>b, <3>2, <3>4, <4>2
      <4> QED
        BY <1>a, <4>1, <4>2
    <3> QED
      BY <1>b, <2>2, <3>4 DEF QueueOrdered
  <2> QED
    BY <1>3, <2>1, <2>2
<1>8. Accounted'
  <2>1. /\ Apart(Elements(queue), Elements(pending.latest), Elements(batch.latest),
                 table.latest, untold)
        /\ Times(Kept, life) = (born + 1)..now
    BY AccountedParts DEF IInv
  <2>2. Apart(Elements(queue), Elements(pending.latest), Elements(batch.latest),
              table.latest, untold)'
    BY <1>2, <1>3, <1>4, <1>b, <2>1 DEF Apart, Kept
  <2>3. Times(Kept', life) = Times(Kept, life) \cup {now + 1}
    BY <1>1, <1>5 DEF Times
  <2>4. (born + 1)..(now + 1) = ((born + 1)..now) \cup {now + 1}
    BY SetFacts
  <2>5. (Times(Kept, life) = (born + 1)..now)'
    BY <1>1, <1>2, <2>1, <2>3, <2>4 DEF Times
  <2> QED
    BY <2>2, <2>5, AccountedParts, PTL
<1>9. Dated'
  <2>1. Carried' \subseteq Carried \cup {p}
    BY <1>2, <1>5 DEF Carried
  <2>2. \A q \in Kept \cup FeatureRows : q.ts <= now /\ q.life <= life /\ q.ts \in Nat
    BY SetFacts, PacketFacts DEF IInv, Dated
  <2>3. \A q \in Kept \cup FeatureRows : q.ts <= now + 1
    BY <2>2, SetFacts
  <2>4. \A q \in (Kept \cup FeatureRows)' : q.ts <= now' /\ q.life <= life'
    BY <1>1, <1>2, <1>5, <2>2, <2>3, SetFacts
  <2>5. \A q \in Carried' : q.life = life'
    BY <1>1, <1>2, <2>1 DEF IInv, Dated
  <2> QED
    BY <2>4, <2>5 DEF Dated
<1>10. FilterOK'
  <2>1. now \div PerMinute \in Nat /\ now' \div PerMinute \in Nat
        /\ now \div PerMinute <= now' \div PerMinute
    BY <1>1, SetFacts, MinuteNat, MinuteMonotone
  <2>2. \A r \in Symbols : seen[r] \in Int /\ seen[r] <= now' \div PerMinute
    BY <2>1 DEF IInv, TypeOK, Rows, FilterOK
  <2>3. seen[p.sym] <= Minute(p)
    BY <1>1, <2>2 DEF Minute
  <2>4. \A q \in Elements(queue') : seen[q.sym] <= Minute(q)
    BY <1>5, <2>3 DEF IInv, FilterOK
  <2> QED
    BY <1>2, <1>5, <2>2, <2>4 DEF IInv, FilterOK, SameRow, Minute
<1>11. BatchOK'
  BY <1>2 DEF IInv, BatchOK
<1> QED
  BY <1>6, <1>7, <1>8, <1>9, <1>10, <1>11 DEF IInv

\* A step that takes rows from memory to a table, or gives them up.
LEMMA StoreStep ==
  ASSUME IInv, UNCHANGED <<now, born, life, seen, queue>>,
         Kept' = Kept, FeatureRows' = FeatureRows, Received' \subseteq Received,
         Carried' \subseteq Carried,
         Apart(Elements(queue), Elements(pending.latest), Elements(batch.latest),
               table.latest, untold)'
  PROVE  QueueOrdered' /\ Accounted' /\ Dated' /\ FilterOK'
<1>1. QueueOrdered'
  BY DEF IInv, QueueOrdered
<1>2. Accounted'
  <2>1. Times(Kept, life) = (born + 1)..now
    BY AccountedParts DEF IInv
  <2>2. (Times(Kept, life) = (born + 1)..now)'
    BY <2>1 DEF Times
  <2> QED
    BY <2>2, AccountedParts, PTL
<1>3. Dated'
  BY DEF IInv, Dated
<1>4. FilterOK'
  BY DEF IInv, FilterOK, SameRow, Minute
<1> QED
  BY <1>1, <1>2, <1>3, <1>4

\* Flushing rows makes them the batch.
LEMMA FlushFacts ==
  ASSUME NEW rows, RowCount(rows) \in Int, RowCount(rows) > 0, Flush(rows)
  PROVE  /\ pending' = NoRows /\ batch' = rows /\ phase' = "latest"
         /\ Elements(pending'.latest) = {} /\ Elements(pending'.features) = {}
         /\ pending' \in Rows /\ RowCount(pending') < BatchRows
<1>1. pending' = NoRows /\ batch' = rows /\ phase' = "latest"
  BY DEF Flush
<1>2. pending'.latest = <<>> /\ pending'.features = <<>>
  BY <1>1 DEF NoRows
<1>3. Len(<<>>) = 0 /\ <<>> \in Seq(Packet)
  OBVIOUS
<1>4. RowCount(pending') = 0
  BY <1>2, <1>3 DEF RowCount
<1> QED
  BY <1>1, <1>2, <1>3, <1>4, ElementsEmpty, NoRowsFacts, SizeAssumption

LEMMA FlushStep ==
  ASSUME IInv, phase = "select", RowCount(pending) > 0, Flush(pending),
         UNCHANGED <<now, born, life, closed, queue, seen, table, untold, unsaved>>
  PROVE  IInv'
<1>1. RowCount(pending) \in Int
  BY DEF IInv, TypeOK, Rows, RowCount
<1>2. /\ pending' = NoRows /\ batch' = pending /\ phase' = "latest"
      /\ Elements(pending'.latest) = {} /\ Elements(pending'.features) = {}
      /\ pending' \in Rows /\ RowCount(pending') < BatchRows
  BY <1>1, FlushFacts
<1>3. Elements(batch.latest) = {} /\ Elements(batch.features) = {}
  BY ElementsEmpty DEF IInv, BatchOK, NoRows
<1>4. /\ Elements(batch'.latest) = Elements(pending.latest)
      /\ Elements(batch'.features) = Elements(pending.features)
  BY <1>2
<1>5. TypeOK'
  BY <1>2 DEF IInv, TypeOK
<1>6. /\ Kept' = Kept /\ FeatureRows' = FeatureRows
      /\ Received' = Received /\ Carried' = Carried
  BY <1>2, <1>3, <1>4 DEF Kept, FeatureRows, Received, Carried
<1>7. Apart(Elements(queue), Elements(pending.latest), Elements(batch.latest),
            table.latest, untold)'
  BY <1>2, <1>3, <1>4, AccountedParts DEF IInv, Apart
<1>8. BatchOK'
  BY <1>2 DEF BatchOK
<1>9. QueueOrdered' /\ Accounted' /\ Dated' /\ FilterOK'
  BY <1>6, <1>7, StoreStep
<1> QED
  BY <1>5, <1>8, <1>9 DEF IInv

LEMMA InsertLatestStep ==
  ASSUME IInv, InsertLatest
  PROVE  IInv'
<1>1. PICK stored \in Inserted(batch.latest) :
        /\ table' = [table EXCEPT !.latest = @ \cup stored]
        /\ untold' = untold \cup (Elements(batch.latest) \ stored)
  BY DEF InsertLatest
<1>2. /\ batch' = [batch EXCEPT !.latest = <<>>] /\ phase' = "features"
      /\ UNCHANGED <<now, born, life, closed, queue, pending, seen, unsaved>>
  BY DEF InsertLatest
<1>3. stored \subseteq Elements(batch.latest)
  BY <1>1 DEF Inserted
<1>4. /\ batch \in [latest : Seq(Packet), features : Seq(Packet)]
      /\ table \in [latest : SUBSET Packet, features : SUBSET Packet]
      /\ Elements(batch.latest) \subseteq Packet
  BY SetFacts DEF IInv, TypeOK, Rows
<1>5. /\ batch'.latest = <<>> /\ batch'.features = batch.features
      /\ table'.latest = table.latest \cup stored /\ table'.features = table.features
  BY <1>1, <1>2, <1>4
<1>6. TypeOK'
  <2>1. batch' \in Rows
    <3>1. <<>> \in Seq(Packet)
      OBVIOUS
    <3> QED
      BY <1>2, <1>4, <3>1 DEF Rows
  <2>2. untold' \subseteq Packet
    BY <1>1, <1>3, <1>4, <1>5 DEF IInv, TypeOK
  <2>3. table' \in [latest : SUBSET Packet, features : SUBSET Packet]
    BY <1>1, <1>3, <1>4
  <2> QED
    BY <1>2, <2>1, <2>2, <2>3 DEF IInv, TypeOK, RowCount
<1>7. Elements(batch'.latest) = {} /\ Elements(batch'.features) = Elements(batch.features)
  BY <1>5, ElementsEmpty
<1>8. /\ Kept' = Kept /\ FeatureRows' = FeatureRows
      /\ Received' \subseteq Received /\ Carried' \subseteq Carried
  BY <1>1, <1>2, <1>3, <1>5, <1>7 DEF Kept, FeatureRows, Received, Carried
<1>9. Apart(Elements(queue), Elements(pending.latest), Elements(batch.latest),
            table.latest, untold)'
  BY <1>1, <1>2, <1>3, <1>5, <1>7, AccountedParts DEF IInv, Apart
<1>10. BatchOK'
  BY <1>2, <1>5 DEF BatchOK
<1>11. QueueOrdered' /\ Accounted' /\ Dated' /\ FilterOK'
  BY <1>2, <1>8, <1>9, StoreStep
<1> QED
  BY <1>6, <1>10, <1>11 DEF IInv

LEMMA InsertFeaturesStep ==
  ASSUME IInv, InsertFeatures
  PROVE  IInv'
<1>1. PICK stored \in Inserted(batch.features) :
        /\ table' = [table EXCEPT !.features = @ \cup stored]
        /\ unsaved' = unsaved \cup (Elements(batch.features) \ stored)
  BY DEF InsertFeatures
<1>2. /\ phase = "features" /\ batch' = NoRows /\ phase' = "select"
      /\ UNCHANGED <<now, born, life, closed, queue, pending, seen, untold>>
  BY DEF InsertFeatures
<1>3. stored \subseteq Elements(batch.features)
  BY <1>1 DEF Inserted
<1>4. /\ table \in [latest : SUBSET Packet, features : SUBSET Packet]
      /\ Elements(batch.features) \subseteq Packet
  BY SetFacts DEF IInv, TypeOK, Rows
<1>5. /\ batch'.latest = <<>> /\ batch'.features = <<>> /\ batch.latest = <<>>
      /\ table'.latest = table.latest /\ table'.features = table.features \cup stored
  BY <1>1, <1>2, <1>4 DEF IInv, BatchOK, NoRows
<1>6. TypeOK'
  <2>1. table' \in [latest : SUBSET Packet, features : SUBSET Packet]
    BY <1>1, <1>3, <1>4
  <2>2. unsaved' \subseteq Packet
    BY <1>1, <1>4 DEF IInv, TypeOK
  <2> QED
    BY <1>2, <2>1, <2>2, NoRowsFacts DEF IInv, TypeOK, RowCount
<1>7. /\ Elements(batch'.latest) = {} /\ Elements(batch'.features) = {}
      /\ Elements(batch.latest) = {}
  BY <1>5, ElementsEmpty
<1>8. /\ Kept' = Kept /\ FeatureRows' = FeatureRows
      /\ Received' = Received /\ Carried' \subseteq Carried
  BY <1>1, <1>2, <1>3, <1>5, <1>7 DEF Kept, FeatureRows, Received, Carried
<1>9. Apart(Elements(queue), Elements(pending.latest), Elements(batch.latest),
            table.latest, untold)'
  BY <1>2, <1>5, <1>7, AccountedParts DEF IInv, Apart
<1>10. BatchOK'
  BY <1>2 DEF BatchOK
<1>11. QueueOrdered' /\ Accounted' /\ Dated' /\ FilterOK'
  BY <1>2, <1>8, <1>9, StoreStep
<1> QED
  BY <1>6, <1>10, <1>11 DEF IInv

\* A killed process takes what it held in memory with it.
LEMMA RestartStep ==
  ASSUME IInv, Restart
  PROVE  IInv'
<1>1. /\ life < MaxRestarts /\ life' = life + 1 /\ born' = now /\ closed' = FALSE
      /\ queue' = <<>> /\ pending' = NoRows /\ seen' = [r \in Symbols |-> -1]
      /\ phase' = "select" /\ batch' = NoRows
      /\ UNCHANGED <<now, table, untold, unsaved>>
  BY DEF Restart
<1>2. /\ pending'.latest = <<>> /\ pending'.features = <<>>
      /\ batch'.latest = <<>> /\ batch'.features = <<>>
  BY <1>1 DEF NoRows
<1>3. /\ Elements(queue') = {}
      /\ Elements(pending'.latest) = {} /\ Elements(pending'.features) = {}
      /\ Elements(batch'.latest) = {} /\ Elements(batch'.features) = {}
  BY <1>1, <1>2, ElementsEmpty
<1>4. /\ Kept' \subseteq Kept /\ FeatureRows' \subseteq FeatureRows
      /\ Received' \subseteq Kept /\ Carried' = {}
  BY <1>1, <1>3 DEF Kept, FeatureRows, Received, Carried
<1>5. /\ now \in Nat /\ life \in Nat /\ Kept \subseteq Packet /\ FeatureRows \subseteq Packet
      /\ \A q \in Kept \cup FeatureRows : q.ts <= now /\ q.life <= life /\ q.life \in Nat
  BY SetFacts, PacketFacts DEF IInv, Dated
<1>6. TypeOK'
  <2>1. <<>> \in Seq(Packet) /\ Len(<<>>) = 0
    OBVIOUS
  <2>2. queue' \in Seq(Packet) /\ Len(queue') <= QueueCap
    BY <1>1, <2>1, SizeAssumption
  <2>3. RowCount(pending') = 0
    BY <1>2, <2>1 DEF RowCount
  <2>4. RowCount(pending') < BatchRows
    BY <2>3, SizeAssumption
  <2>5. life' \in 0..MaxRestarts /\ born' \in 0..now'
    BY <1>1, <1>5, SizeAssumption
  <2>6. seen' \in [Symbols -> -1..MaxTime]
    BY <1>1, SizeAssumption
  <2>7. closed' \in BOOLEAN
    BY <1>1, Zenon
  <2> QED
    BY <1>1, <2>2, <2>4, <2>5, <2>6, <2>7, NoRowsFacts DEF IInv, TypeOK
<1>7. QueueOrdered'
  BY <1>1 DEF QueueOrdered
<1>8. Accounted'
  <2>1. Times(Kept', life') = {}
    BY <1>1, <1>4, <1>5 DEF Times
  <2>2. (born' + 1)..now' = {}
    <3>1. (now + 1)..now = {}
      BY <1>5
    <3> QED
      BY <1>1, <3>1
  <2>3. Apart(Elements(queue), Elements(pending.latest), Elements(batch.latest),
              table.latest, untold)'
    BY <1>1, <1>3, AccountedParts DEF IInv, Apart
  <2>4. (Times(Kept, life) = (born + 1)..now)'
    BY <2>1, <2>2 DEF Times
  <2> QED
    BY <2>3, <2>4, AccountedParts, PTL
<1>9. Dated'
  <2>1. \A q \in (Kept \cup FeatureRows)' : q.ts <= now' /\ q.life <= life'
    BY <1>1, <1>4, <1>5
  <2> QED
    BY <1>4, <2>1 DEF Dated
<1>10. FilterOK'
  <2>1. \A q \in FeatureRows' \cup Received' : q.life # life'
    BY <1>1, <1>4, <1>5
  <2>2. now' \div PerMinute \in Nat
    BY <1>1, <1>5, MinuteNat
  <2>3. \A r \in Symbols : seen'[r] <= now' \div PerMinute
    BY <1>1, <2>2
  <2> QED
    BY <1>1, <1>3, <1>4, <2>1, <2>3 DEF IInv, FilterOK, SameRow, Minute
<1>11. BatchOK'
  BY <1>1 DEF BatchOK
<1> QED
  BY <1>6, <1>7, <1>8, <1>9, <1>10, <1>11 DEF IInv

\* Steps that leave every packet where it is.
LEMMA QuietStep ==
  ASSUME IInv, closed' \in BOOLEAN, phase' \in {phase, "done"},
         phase' = "done" => phase \in {"select", "done"},
         UNCHANGED <<now, born, life, queue, pending, seen, batch, table, untold, unsaved>>
  PROVE  IInv'
<1>1. TypeOK'
  BY DEF IInv, TypeOK, Rows, RowCount
<1>2. BatchOK'
  BY DEF IInv, BatchOK, NoRows
<1>3. /\ Kept' = Kept /\ FeatureRows' = FeatureRows
      /\ Received' = Received /\ Carried' = Carried
  BY DEF Kept, FeatureRows, Received, Carried
<1>4. Apart(Elements(queue), Elements(pending.latest), Elements(batch.latest),
            table.latest, untold)'
  BY AccountedParts DEF IInv, Apart
<1>5. QueueOrdered' /\ Accounted' /\ Dated' /\ FilterOK'
  BY <1>3, <1>4, StoreStep
<1> QED
  BY <1>1, <1>2, <1>5 DEF IInv

\* The oldest packet leaves the channel and passes the filter: what follows
\* does not depend on whether the rows are flushed.
LEMMA ReceiveStep ==
  ASSUME IInv, Receive
  PROVE  IInv'
<1> DEFINE p == Head(queue)
           rest == Tail(queue)
           rows == Pushed(p)
<1>1. /\ phase = "select" /\ queue # <<>> /\ queue' = rest
      /\ seen' = [seen EXCEPT ![p.sym] = Minute(p)]
      /\ \/ ShouldFlush(rows) /\ Flush(rows)
         \/ ~ShouldFlush(rows) /\ pending' = rows /\ UNCHANGED <<phase, batch>>
      /\ UNCHANGED <<now, born, life, closed, table, untold, unsaved>>
  BY DEF Receive
<1>2. /\ queue \in Seq(Packet) /\ Len(queue) \in Nat /\ Len(queue) <= QueueCap
      /\ seen \in [Symbols -> -1..MaxTime]
      /\ pending.latest \in Seq(Packet) /\ pending.features \in Seq(Packet)
  BY DEF IInv, TypeOK, Rows
<1>3. /\ p \in Packet /\ rest \in Seq(Packet) /\ Len(rest) = Len(queue) - 1
  BY <1>1, <1>2
<1>4. /\ Elements(queue) = Elements(rest) \cup {p} /\ p \notin Elements(rest)
      /\ \A i, j \in 1..Len(rest) : i < j => rest[i].ts < rest[j].ts
      /\ \A q \in Elements(rest) : p.ts < q.ts
  BY <1>1, <1>2, ElementsTail DEF IInv, QueueOrdered
<1>5. p.ts \in Nat /\ p.life = life /\ p.sym \in Symbols /\ p.ts <= now
  BY <1>3, <1>4, PacketFacts DEF IInv, Dated, Carried, Kept
<1> HIDE DEF p, rest
<1>6. /\ rows \in Rows
      /\ Elements(rows.latest) = Elements(pending.latest) \cup {p}
      /\ \/ /\ ~ShouldWrite(p)
            /\ Elements(rows.features) = Elements(pending.features)
         \/ /\ ShouldWrite(p)
            /\ Elements(rows.features) = Elements(pending.features) \cup {p}
  <2>1. /\ Append(pending.latest, p) \in Seq(Packet)
        /\ Append(pending.features, p) \in Seq(Packet)
    BY <1>2, <1>3
  <2>2. /\ Elements(Append(pending.latest, p)) = Elements(pending.latest) \cup {p}
        /\ Elements(Append(pending.features, p)) = Elements(pending.features) \cup {p}
    BY <1>2, <1>3, ElementsAppend
  <2> QED
    BY <1>2, <2>1, <2>2 DEF Pushed, Rows
<1>7. RowCount(rows) \in Int /\ (ShouldFlush(rows) <=> RowCount(rows) >= BatchRows)
  BY <1>6 DEF ShouldFlush, RowCount, Rows
<1> HIDE DEF rows
<1>8. Elements(batch.latest) = {} /\ Elements(batch.features) = {}
  BY <1>1, ElementsEmpty, NoRowsFacts DEF IInv, BatchOK
<1>9. /\ pending' \in Rows /\ batch' \in Rows /\ RowCount(pending') < BatchRows
      /\ phase' \in {"select", "latest"}
      /\ phase' = "select" => batch' = NoRows
      /\ \/ /\ Elements(pending'.latest) = {} /\ Elements(pending'.features) = {}
            /\ batch' = rows
         \/ /\ pending' = rows
            /\ Elements(batch'.latest) = {} /\ Elements(batch'.features) = {}
  <2>1. CASE ShouldFlush(rows) /\ Flush(rows)
    <3>1. RowCount(rows) > 0
      BY <1>7, <2>1, SizeAssumption
    <3> QED
      BY <1>6, <1>7, <2>1, <3>1, FlushFacts
  <2>2. CASE ~ShouldFlush(rows) /\ pending' = rows /\ UNCHANGED <<phase, batch>>
    <3>1. RowCount(rows) < BatchRows
      BY <1>7, <2>2, SizeAssumption
    <3> QED
      BY <1>1, <1>6, <1>8, <2>2, <3>1 DEF IInv, TypeOK, BatchOK
  <2> QED
    BY <1>1, <2>1, <2>2
<1>10. /\ Elements(pending'.latest) \cup Elements(batch'.latest)
            = Elements(pending.latest) \cup {p}
       /\ Elements(pending'.latest) \cap Elements(batch'.latest) = {}
       /\ Elements(pending'.features) \cup Elements(batch'.features)
            = Elements(rows.features)
  BY <1>6, <1>9
<1>11. /\ Kept' = Kept
       /\ FeatureRows' = FeatureRows \cup (IF ShouldWrite(p) THEN {p} ELSE {})
       /\ Received' = Received \cup {p}
       /\ Carried' \subseteq Carried
       /\ p \in Kept
  BY <1>1, <1>4, <1>6, <1>8, <1>10 DEF Kept, FeatureRows, Received, Carried
<1>12. TypeOK'
  <2>1. Minute(p) \in Nat /\ Minute(p) <= MaxTime
    <3>1. p.ts <= MaxTime
      BY <1>3, <1>5 DEF Packet
    <3>2. p.ts \div PerMinute \in Nat /\ p.ts \div PerMinute <= p.ts
      BY <1>5, MinuteNat
    <3> QED
      BY <1>5, <3>1, <3>2, SizeAssumption DEF Minute
  <2>2. seen' \in [Symbols -> -1..MaxTime]
    <3>1. Minute(p) \in -1..MaxTime
      BY <2>1, SizeAssumption
    <3> QED
      BY <1>1, <1>2, <3>1
  <2>3. queue' \in Seq(Packet) /\ Len(queue') <= QueueCap
    BY <1>1, <1>2, <1>3, SizeAssumption
  <2> QED
    BY <1>1, <1>9, <2>2, <2>3 DEF IInv, TypeOK
<1>13. QueueOrdered'
  BY <1>1, <1>4 DEF QueueOrdered
<1>14. Accounted'
  <2>1. /\ Apart(Elements(queue), Elements(pending.latest), Elements(batch.latest),
                 table.latest, untold)
        /\ Times(Kept, life) = (born + 1)..now
    BY AccountedParts DEF IInv
  <2>2. Apart(Elements(queue), Elements(pending.latest), Elements(batch.latest),
              table.latest, untold)'
    BY <1>1, <1>4, <1>8, <1>10, <2>1 DEF Apart
  <2>3. (Times(Kept, life) = (born + 1)..now)'
    BY <1>1, <1>11, <2>1 DEF Times
  <2> QED
    BY <2>2, <2>3, AccountedParts, PTL
<1>15. Dated'
  BY <1>1, <1>11 DEF IInv, Dated
<1>16. BatchOK'
  BY <1>9 DEF BatchOK
<1>17. FilterOK'
  <2>1. /\ Elements(queue) \subseteq Packet /\ FeatureRows \subseteq Packet /\ now \in Nat
        /\ \A q \in Packet : q.ts \in Nat /\ q.sym \in Symbols /\ Minute(q) \in Int
    BY SetFacts, PacketFacts, MinuteNat DEF Minute
  <2>2. /\ \A q \in FeatureRows : q.life = life => Minute(q) <= seen[q.sym]
        /\ \A q \in Elements(queue) : seen[q.sym] <= Minute(q)
        /\ \A r \in Symbols : seen[r] <= now \div PerMinute
        /\ \A r \in Symbols : seen[r] # -1 =>
             \E q \in FeatureRows : q.sym = r /\ q.life = life /\ Minute(q) = seen[r]
        /\ \A q, r \in FeatureRows : q # r => ~SameRow(q, r)
        /\ \A q \in Received : q.life = life => \E r \in FeatureRows : SameRow(q, r)
    BY DEF IInv, FilterOK
  <2>3. /\ \A r \in Symbols : seen[r] \in Int /\ seen'[r] = IF r = p.sym THEN Minute(p) ELSE seen[r]
        /\ seen[p.sym] <= Minute(p) /\ Minute(p) \in Int
    BY <1>1, <1>2, <1>3, <1>4, <1>5, <2>1, <2>2
  <2>4. \A q \in FeatureRows : q.life = life => Minute(q) <= seen'[q.sym]
    BY <1>5, <2>1, <2>2, <2>3
  <2>5. \A q \in FeatureRows' : q.life = life => Minute(q) <= seen'[q.sym]
    BY <1>5, <1>11, <2>3, <2>4
  <2>6. \A q \in Elements(rest) : Minute(p) <= Minute(q)
    BY <1>4, <1>5, <2>1, MinuteMonotone DEF Minute
  <2>7. \A q \in Elements(queue') : seen'[q.sym] <= Minute(q)
    BY <1>1, <1>4, <2>1, <2>2, <2>3, <2>6
  <2>8. Minute(p) <= now \div PerMinute
    BY <1>5, <2>1, MinuteMonotone DEF Minute
  <2>9. \A r \in Symbols : seen'[r] <= now' \div PerMinute
    BY <1>1, <2>2, <2>3, <2>8
  <2>10. \A q \in FeatureRows : ShouldWrite(p) => ~SameRow(q, p) /\ ~SameRow(p, q)
    <3>1. ShouldWrite(p) => seen[p.sym] # Minute(p)
      BY DEF ShouldWrite
    <3> QED
      BY <1>5, <2>1, <2>2, <2>3, <3>1 DEF SameRow
  <2>11. \A q, r \in FeatureRows' : q # r => ~SameRow(q, r)
    BY <1>11, <2>2, <2>10
  <2>12. \A q : Minute(q)' = Minute(q)
    BY DEF Minute
  <2>13. \E q \in FeatureRows' : q.sym = p.sym /\ q.life = life /\ Minute(q) = Minute(p)
    <3>1. CASE ShouldWrite(p)
      BY <1>5, <1>11, <3>1
    <3>2. CASE ~ShouldWrite(p)
      <4>1. seen[p.sym] = Minute(p) /\ Minute(p) # -1
        BY <1>3, <1>5, <3>2, MinuteNat DEF ShouldWrite, Minute
      <4> QED
        BY <1>5, <1>11, <2>2, <4>1
    <3> QED
      BY <3>1, <3>2
  <2>14. \A r \in Symbols : seen'[r] # -1 =>
           \E q \in FeatureRows' : q.sym = r /\ q.life = life /\ Minute(q) = seen'[r]
    <3> TAKE r \in Symbols
    <3>1. CASE r = p.sym
      BY <2>3, <2>13, <3>1
    <3>2. CASE r # p.sym
      BY <1>11, <2>2, <2>3, <3>2
    <3> QED
      BY <3>1, <3>2
  <2>15. \A q \in Received' : q.life = life => \E r \in FeatureRows' : SameRow(q, r)
    <3>1. \E r \in FeatureRows' : SameRow(p, r)
      BY <1>5, <2>13 DEF SameRow
    <3> QED
      BY <1>11, <2>2, <3>1
  <2>16. \A q, r : SameRow(q, r)' = SameRow(q, r)
    BY <2>12 DEF SameRow
  <2> QED
    BY <1>1, <2>5, <2>7, <2>9, <2>11, <2>12, <2>14, <2>15, <2>16 DEF FilterOK
<1> QED
  BY <1>12, <1>13, <1>14, <1>15, <1>16, <1>17 DEF IInv

-----------------------------------------------------------------------------
THEOREM Invariant == Spec => []IInv
<1>1. Init => IInv
  BY InitInvariant
<1>2. IInv /\ [Next]_vars => IInv'
  <2> SUFFICES ASSUME IInv, [Next]_vars PROVE IInv'
    OBVIOUS
  <2>1. CASE \E s \in Symbols : Emit(s)
    BY <2>1, EmitStep
  <2>2. CASE EngineEnds
    <3>1. /\ closed' \in BOOLEAN /\ phase' = phase
          /\ UNCHANGED <<now, born, life, queue, pending, seen, batch, table, untold, unsaved>>
      BY <2>2, Zenon DEF EngineEnds
    <3>2. phase' = "done" => phase \in {"select", "done"}
      BY <3>1
    <3> QED
      BY <3>1, <3>2, QuietStep
  <2>3. CASE Receive
    BY <2>3, ReceiveStep
  <2>4. CASE FlushTick
    BY <2>4, FlushStep DEF FlushTick
  <2>5. CASE ReceiveClosed
    <3>1. CASE RowCount(pending) > 0
      BY <2>5, <3>1, FlushStep DEF ReceiveClosed
    <3>2. CASE ~(RowCount(pending) > 0)
      <4>1. /\ phase = "select" /\ phase' = "done"
            /\ UNCHANGED <<now, born, life, closed, queue, pending, seen, batch, table, untold, unsaved>>
        BY <2>5, <3>2 DEF ReceiveClosed
      <4>2. closed' \in BOOLEAN
        BY <4>1 DEF IInv, TypeOK
      <4> QED
        BY <4>1, <4>2, QuietStep
    <3> QED
      BY <3>1, <3>2
  <2>6. CASE InsertLatest
    BY <2>6, InsertLatestStep
  <2>7. CASE InsertFeatures
    BY <2>7, InsertFeaturesStep
  <2>8. CASE Restart
    BY <2>8, RestartStep
  <2>9. CASE UNCHANGED vars
    <3>1. closed' \in BOOLEAN
      BY <2>9 DEF IInv, TypeOK, vars
    <3>2. /\ phase' = phase
          /\ UNCHANGED <<now, born, life, queue, pending, seen, batch, table, untold, unsaved>>
      BY <2>9 DEF vars
    <3>3. phase' = "done" => phase \in {"select", "done"}
      BY <3>2
    <3> QED
      BY <3>1, <3>2, <3>3, QuietStep
  <2> QED
    BY <2>1, <2>2, <2>3, <2>4, <2>5, <2>6, <2>7, <2>8, <2>9 DEF Next, Writer
<1> QED
  BY <1>1, <1>2, PTL DEF Spec

\* Every reachable state is well typed; in particular the channel and the rows
\* waiting for a flush stay bounded.
THEOREM TypeCorrect == Spec => []TypeOK
<1>1. IInv => TypeOK
  BY DEF IInv
<1> QED
  BY <1>1, Invariant, PTL

\* Every packet of the running process is queued, pending, being inserted,
\* stored or reported lost, and nowhere twice.
THEOREM NothingLost == Spec => []Accounted
<1>1. IInv => Accounted
  BY DEF IInv
<1> QED
  BY <1>1, Invariant, PTL

\* One process makes one row of features_1m per symbol and minute of which it
\* stores a packet, and only its failed insert can keep it from the table.
THEOREM OneRow == Spec => []OneRowPerProcess
<1>1. IInv => OneRowPerProcess
  BY DEF IInv, FilterOK, Received, OneRowPerProcess
<1> QED
  BY <1>1, Invariant, PTL
=============================================================================
