-------------------------- MODULE IngestLoopProofs --------------------------
(***************************************************************************)
(* Frames reach the engine in order, and a gap the loop lives with means a *)
(* failed snapshot pass: for any symbols, connections and capacity.        *)
(***************************************************************************)
EXTENDS IngestLoop, TLAPS

\* A task that is sending holds a frame.
Holding == \A c \in Conns : conn[c] = "sending" => read[c] > 0

\* A depth pass has mended the symbols before the one it waits for; outside
\* of it a gap is there because the last one failed.
GapsOK ==
  /\ call = "loop" => at = 1
  /\ call = "depth" => gaps \subseteq {Focus[i] : i \in at..Len(Focus)}
  /\ (call # "depth" /\ gaps # {}) => failed

IInv == TypeOK /\ Holding /\ FramesInOrder /\ GapsOK

Frame == Conns \X (1..MaxFrames)

\* The frames of c in a channel q, by place and by number.
PlacesIn(q, c) == {i \in 1..Len(q) : q[i][1] = c}
FramesIn(q, c) == {q[i][2] : i \in PlacesIn(q, c)}
SortedIn(q, c) == \A i, j \in PlacesIn(q, c) : i < j => q[i][2] < q[j][2]

\* FramesInOrder in these words.
QueueInOrder ==
  \A c \in Conns : /\ applied[c] <= Sent(c)
                   /\ FramesIn(queue, c) = (applied[c] + 1)..Sent(c)
                   /\ SortedIn(queue, c)

LEMMA InOrder == FramesInOrder <=> QueueInOrder
BY DEF FramesInOrder, QueueInOrder, FramesIn, SortedIn, PlacesIn, Queued

-----------------------------------------------------------------------------
(***************************************************************************)
(* Adding to the end of a channel and taking from its front.               *)
(***************************************************************************)
LEMMA AppendFrame ==
  ASSUME NEW q \in Seq(Frame), NEW f \in Frame, NEW c \in Conns,
         SortedIn(q, c),
         f[1] = c => \A n \in FramesIn(q, c) : n < f[2]
  PROVE  /\ FramesIn(Append(q, f), c) = FramesIn(q, c) \cup (IF f[1] = c THEN {f[2]} ELSE {})
         /\ SortedIn(Append(q, f), c)
<1> DEFINE r == Append(q, f)
<1>1. /\ Len(q) \in Nat /\ Len(r) = Len(q) + 1
      /\ \A i \in 1..Len(q) : r[i] = q[i]
      /\ r[Len(q) + 1] = f
  OBVIOUS
<1> HIDE DEF r
<1>2. PlacesIn(r, c) = PlacesIn(q, c) \cup (IF f[1] = c THEN {Len(q) + 1} ELSE {})
  BY <1>1 DEF PlacesIn
<1>3. FramesIn(r, c) = FramesIn(q, c) \cup (IF f[1] = c THEN {f[2]} ELSE {})
  <2>1. \A i \in PlacesIn(q, c) : r[i] = q[i]
    BY <1>1 DEF PlacesIn
  <2> QED
    BY <1>1, <1>2, <2>1 DEF FramesIn
<1>4. SortedIn(r, c)
  <2> SUFFICES ASSUME NEW i \in PlacesIn(r, c), NEW j \in PlacesIn(r, c), i < j
               PROVE  r[i][2] < r[j][2]
    BY DEF SortedIn
  <2>1. i \in 1..(Len(q) + 1) /\ j \in 1..(Len(q) + 1)
    BY <1>1 DEF PlacesIn
  <2>2. i \in PlacesIn(q, c) /\ r[i] = q[i]
    BY <1>1, <1>2, <2>1 DEF PlacesIn
  <2>3. CASE j \in PlacesIn(q, c)
    BY <1>1, <2>2, <2>3 DEF SortedIn, PlacesIn
  <2>4. CASE j = Len(q) + 1 /\ f[1] = c
    BY <1>1, <2>2, <2>4 DEF FramesIn
  <2> QED
    BY <1>2, <2>3, <2>4
<1> QED
  BY <1>3, <1>4 DEF r

LEMMA TakeFrame ==
  ASSUME NEW q \in Seq(Frame), q # <<>>, NEW c \in Conns, SortedIn(q, c)
  PROVE  /\ FramesIn(q, c) = FramesIn(Tail(q), c)
                               \cup (IF Head(q)[1] = c THEN {Head(q)[2]} ELSE {})
         /\ SortedIn(Tail(q), c)
         /\ Head(q)[1] = c => \A n \in FramesIn(Tail(q), c) : Head(q)[2] < n
<1> DEFINE r == Tail(q)
<1>1. /\ Len(q) \in Nat /\ Len(q) >= 1 /\ Len(r) = Len(q) - 1
      /\ \A i \in 1..Len(r) : r[i] = q[i + 1]
      /\ Head(q) = q[1]
  OBVIOUS
<1> HIDE DEF r
<1>2. \A i \in PlacesIn(r, c) : i + 1 \in PlacesIn(q, c) /\ r[i] = q[i + 1] /\ i \in Nat /\ i >= 1
  BY <1>1 DEF PlacesIn
<1>3. \A i \in PlacesIn(q, c) : i \in Nat /\ (i # 1 => i - 1 \in PlacesIn(r, c) /\ r[i - 1] = q[i])
  <2> SUFFICES ASSUME NEW i \in PlacesIn(q, c), i # 1
               PROVE  i - 1 \in PlacesIn(r, c) /\ r[i - 1] = q[i]
    BY DEF PlacesIn
  <2>1. i \in 1..Len(q) /\ q[i][1] = c
    BY DEF PlacesIn
  <2>2. i - 1 \in 1..Len(r) /\ (i - 1) + 1 = i
    BY <1>1, <2>1
  <2>3. r[i - 1] = q[i]
    BY <1>1, <2>2
  <2> QED
    BY <2>1, <2>2, <2>3 DEF PlacesIn
<1>4. 1 \in PlacesIn(q, c) <=> Head(q)[1] = c
  BY <1>1 DEF PlacesIn
<1>5. FramesIn(q, c) = FramesIn(r, c) \cup (IF Head(q)[1] = c THEN {Head(q)[2]} ELSE {})
  <2>1. FramesIn(r, c) \subseteq FramesIn(q, c)
    BY <1>2 DEF FramesIn
  <2>2. Head(q)[1] = c => Head(q)[2] \in FramesIn(q, c)
    BY <1>1, <1>4 DEF FramesIn
  <2>3. \A i \in PlacesIn(q, c) : \/ q[i][2] \in FramesIn(r, c)
                                  \/ Head(q)[1] = c /\ q[i][2] = Head(q)[2]
    BY <1>1, <1>3, <1>4 DEF FramesIn
  <2> QED
    BY <2>1, <2>2, <2>3 DEF FramesIn
<1>6. SortedIn(r, c)
  <2> SUFFICES ASSUME NEW i \in PlacesIn(r, c), NEW j \in PlacesIn(r, c), i < j
               PROVE  r[i][2] < r[j][2]
    BY DEF SortedIn
  <2> QED
    BY <1>2 DEF SortedIn
<1>7. ASSUME Head(q)[1] = c, NEW n \in FramesIn(r, c)
      PROVE  Head(q)[2] < n
  <2>1. PICK i \in PlacesIn(r, c) : n = r[i][2]
    BY <1>7 DEF FramesIn
  <2> QED
    BY <1>1, <1>2, <1>4, <1>7, <2>1 DEF SortedIn
<1> QED
  BY <1>5, <1>6, <1>7 DEF r

-----------------------------------------------------------------------------
LEMMA FocusFacts == Len(Focus) \in Nat /\ Len(Focus) >= 1
BY IngestAssumption

LEMMA InitInvariant == Init => IInv
<1> SUFFICES ASSUME Init PROVE IInv
  OBVIOUS
<1>1. TypeOK
  <2>1. <<>> \in Seq(Conns \X (1..MaxFrames)) /\ Len(<<>>) = 0
    OBVIOUS
  <2>2. queue \in Seq(Conns \X (1..MaxFrames)) /\ Len(queue) <= QueueCap
    BY <2>1, IngestAssumption DEF Init
  <2>3. read \in [Conns -> 0..MaxFrames] /\ applied \in [Conns -> 0..MaxFrames]
    BY IngestAssumption DEF Init
  <2>4. at \in 1..Len(Focus)
    BY FocusFacts DEF Init
  <2>5. booted \in BOOLEAN /\ failed \in BOOLEAN
    BY Zenon DEF Init
  <2> QED
    BY <2>2, <2>3, <2>4, <2>5 DEF Init, TypeOK, Passes
<1>2. FramesInOrder
  <2>1. \A c \in Conns : applied[c] = 0 /\ Sent(c) = 0
    BY DEF Init, Sent
  <2>2. \A c \in Conns : PlacesIn(queue, c) = {}
    BY DEF Init, PlacesIn
  <2>3. \A c \in Conns : FramesIn(queue, c) = {} /\ SortedIn(queue, c)
    BY <2>2 DEF FramesIn, SortedIn
  <2> QED
    BY <2>1, <2>3, InOrder DEF QueueInOrder
<1>3. Holding /\ GapsOK
  BY DEF Init, Holding, GapsOK
<1> QED
  BY <1>1, <1>2, <1>3 DEF IInv

\* A reader that neither reads nor sends.
LEMMA ConnStep ==
  ASSUME IInv, NEW c \in Conns, NEW state \in {"connecting", "reading", "sleeping"},
         conn[c] # "sending", conn' = [conn EXCEPT ![c] = state],
         UNCHANGED <<read, queue, engine>>
  PROVE  IInv'
<1>1. UNCHANGED <<read, queue, applied, call, at, booted, booked, gaps, failed>>
  BY DEF engine
<1>2. conn \in [Conns -> {"connecting", "reading", "sending", "sleeping"}]
  BY DEF IInv, TypeOK
<1>3. \A d \in Conns : conn'[d] = "sending" <=> conn[d] = "sending"
  BY <1>2
<1>4. TypeOK'
  BY <1>1, <1>2 DEF IInv, TypeOK
<1>5. Holding'
  BY <1>1, <1>3 DEF IInv, Holding
<1>6. FramesInOrder'
  <2>1. \A d \in Conns : Sent(d)' = Sent(d)
    BY <1>1, <1>3 DEF Sent
  <2> QED
    BY <1>1, <2>1 DEF IInv, FramesInOrder, Queued
<1>7. GapsOK'
  BY <1>1 DEF IInv, GapsOK
<1> QED
  BY <1>4, <1>5, <1>6, <1>7 DEF IInv

LEMMA ReadFrameStep ==
  ASSUME IInv, NEW c \in Conns, ReadFrame(c)
  PROVE  IInv'
<1>1. /\ conn[c] = "reading" /\ read[c] < MaxFrames
      /\ read' = [read EXCEPT ![c] = @ + 1] /\ conn' = [conn EXCEPT ![c] = "sending"]
      /\ UNCHANGED <<queue, applied, call, at, booted, booked, gaps, failed>>
  BY DEF ReadFrame, engine
<1>2. /\ conn \in [Conns -> {"connecting", "reading", "sending", "sleeping"}]
      /\ read \in [Conns -> 0..MaxFrames] /\ MaxFrames \in Nat
  BY IngestAssumption DEF IInv, TypeOK
<1>3. /\ conn'[c] = "sending" /\ read'[c] = read[c] + 1
      /\ \A d \in Conns : d # c => conn'[d] = conn[d] /\ read'[d] = read[d]
  BY <1>1, <1>2
<1>4. TypeOK'
  <2>1. read' \in [Conns -> 0..MaxFrames]
    BY <1>1, <1>2
  <2>2. conn' \in [Conns -> {"connecting", "reading", "sending", "sleeping"}]
    BY <1>1, <1>2
  <2> QED
    BY <1>1, <2>1, <2>2 DEF IInv, TypeOK
<1>5. Holding'
  BY <1>2, <1>3 DEF IInv, Holding
<1>6. FramesInOrder'
  <2>1. \A d \in Conns : Sent(d)' = Sent(d)
    BY <1>1, <1>2, <1>3 DEF Sent
  <2> QED
    BY <1>1, <2>1 DEF IInv, FramesInOrder, Queued
<1>7. GapsOK'
  BY <1>1 DEF IInv, GapsOK
<1> QED
  BY <1>4, <1>5, <1>6, <1>7 DEF IInv

LEMMA SendStep ==
  ASSUME IInv, NEW c \in Conns, Send(c)
  PROVE  IInv'
<1> DEFINE f == <<c, read[c]>>
<1>1. /\ conn[c] = "sending" /\ Len(queue) < QueueCap
      /\ queue' = Append(queue, f) /\ conn' = [conn EXCEPT ![c] = "reading"]
      /\ UNCHANGED <<read, applied, call, at, booted, booked, gaps, failed>>
  BY DEF Send, engine
<1>2. /\ conn \in [Conns -> {"connecting", "reading", "sending", "sleeping"}]
      /\ read \in [Conns -> 0..MaxFrames] /\ applied \in [Conns -> 0..MaxFrames]
      /\ queue \in Seq(Frame) /\ MaxFrames \in Nat /\ QueueCap \in Nat
  BY IngestAssumption DEF IInv, TypeOK, Frame
<1>3. f \in Frame /\ f[1] = c /\ f[2] = read[c]
  BY <1>1, <1>2 DEF IInv, Holding, Frame
<1> HIDE DEF f
<1>4. /\ conn'[c] = "reading" /\ \A d \in Conns : d # c => conn'[d] = conn[d]
  BY <1>1, <1>2
<1>5. /\ Sent(c) = read[c] - 1 /\ Sent(c)' = read[c]
      /\ \A d \in Conns : d # c => Sent(d)' = Sent(d)
  BY <1>1, <1>4 DEF Sent
<1>6. \A d \in Conns : /\ applied[d] <= Sent(d) /\ SortedIn(queue, d)
                       /\ FramesIn(queue, d) = (applied[d] + 1)..Sent(d)
  BY InOrder DEF IInv, QueueInOrder
<1>7. TypeOK'
  <2>1. queue' \in Seq(Frame) /\ Len(queue') <= QueueCap
    BY <1>1, <1>2, <1>3
  <2>2. conn' \in [Conns -> {"connecting", "reading", "sending", "sleeping"}]
    BY <1>1, <1>2
  <2> QED
    BY <1>1, <2>1, <2>2 DEF IInv, TypeOK, Frame
<1>8. Holding'
  BY <1>1, <1>4 DEF IInv, Holding
<1>9. \A d \in Conns : /\ FramesIn(queue', d) = FramesIn(queue, d)
                                              \cup (IF f[1] = d THEN {f[2]} ELSE {})
                       /\ SortedIn(queue', d)
  <2> TAKE d \in Conns
  <2>1. f[1] = d => \A n \in FramesIn(queue, d) : n < f[2]
    BY <1>2, <1>3, <1>5, <1>6
  <2> QED
    BY <1>1, <1>2, <1>3, <1>6, <2>1, AppendFrame
<1>10. \A d \in Conns : /\ applied'[d] <= Sent(d)' /\ SortedIn(queue', d)
                        /\ FramesIn(queue', d) = (applied'[d] + 1)..Sent(d)'
  <2> TAKE d \in Conns
  <2>1. CASE d = c
    <3>1. FramesIn(queue', c) = ((applied[c] + 1)..(read[c] - 1)) \cup {read[c]}
      BY <1>3, <1>5, <1>6, <1>9
    <3>2. applied[c] <= read[c] - 1 /\ applied[c] \in Int /\ read[c] \in Int
      BY <1>2, <1>5, <1>6
    <3>3. ((applied[c] + 1)..(read[c] - 1)) \cup {read[c]} = (applied[c] + 1)..read[c]
      BY <3>2
    <3> QED
      BY <1>1, <1>5, <1>9, <2>1, <3>1, <3>2, <3>3
  <2>2. CASE d # c
    BY <1>1, <1>3, <1>5, <1>6, <1>9, <2>2
  <2> QED
    BY <2>1, <2>2
<1>11. FramesInOrder'
  <2>1. QueueInOrder'
    BY <1>10 DEF QueueInOrder, FramesIn, SortedIn, PlacesIn
  <2> QED
    BY <2>1, InOrder, PTL
<1>12. GapsOK'
  BY <1>1 DEF IInv, GapsOK
<1> QED
  BY <1>7, <1>8, <1>11, <1>12 DEF IInv

LEMMA PayloadStep ==
  ASSUME IInv, Payload
  PROVE  IInv'
<1> DEFINE f == Head(queue)
           rest == Tail(queue)
<1>1. /\ call = "loop" /\ queue # <<>> /\ queue' = rest
      /\ applied' = [applied EXCEPT ![f[1]] = f[2]]
      /\ gaps' \in {gaps} \cup {gaps \cup {s} : s \in booked}
      /\ call' = IF gaps' # {} THEN "depth" ELSE "loop"
      /\ UNCHANGED <<conn, read, at, booted, booked, failed>>
  BY DEF Payload, readers
<1>2. /\ read \in [Conns -> 0..MaxFrames] /\ applied \in [Conns -> 0..MaxFrames]
      /\ conn \in [Conns -> {"connecting", "reading", "sending", "sleeping"}]
      /\ queue \in Seq(Frame) /\ Len(queue) \in Nat /\ Len(queue) <= QueueCap
      /\ MaxFrames \in Nat /\ QueueCap \in Nat
  BY IngestAssumption DEF IInv, TypeOK, Frame
<1>3. /\ f \in Frame /\ rest \in Seq(Frame) /\ Len(rest) = Len(queue) - 1
  BY <1>1, <1>2
<1>4. f[1] \in Conns /\ f[2] \in 1..MaxFrames
  BY <1>3 DEF Frame
<1>5. \A c \in Conns : /\ FramesIn(queue, c) = FramesIn(rest, c)
                                              \cup (IF f[1] = c THEN {f[2]} ELSE {})
                       /\ SortedIn(rest, c)
                       /\ f[1] = c => \A n \in FramesIn(rest, c) : f[2] < n
  BY <1>1, <1>2, TakeFrame, InOrder DEF IInv, QueueInOrder
<1> HIDE DEF f, rest
<1>6. \A c \in Conns : /\ applied[c] <= Sent(c) /\ Sent(c)' = Sent(c) /\ Sent(c) \in Int
                       /\ FramesIn(queue, c) = (applied[c] + 1)..Sent(c)
                       /\ applied[c] \in Int
  BY <1>1, <1>2, InOrder DEF IInv, QueueInOrder, Sent
<1>7. TypeOK'
  <2>1. applied' \in [Conns -> 0..MaxFrames]
    BY <1>1, <1>2, <1>4
  <2>2. queue' \in Seq(Frame) /\ Len(queue') <= QueueCap
    BY <1>1, <1>2, <1>3
  <2>3. gaps' \subseteq booked'
    BY <1>1 DEF IInv, TypeOK
  <2>4. call' \in Passes \cup {"loop"}
    BY <1>1 DEF Passes
  <2> QED
    BY <1>1, <2>1, <2>2, <2>3, <2>4 DEF IInv, TypeOK, Frame
<1>8. Holding'
  BY <1>1 DEF IInv, Holding
<1>9. \A c \in Conns : /\ applied'[c] <= Sent(c)' /\ SortedIn(queue', c)
                       /\ FramesIn(queue', c) = (applied'[c] + 1)..Sent(c)'
  <2> TAKE c \in Conns
  <2>1. CASE f[1] = c
    <3>1. (applied[c] + 1)..Sent(c) = FramesIn(rest, c) \cup {f[2]}
      BY <1>5, <1>6, <2>1
    <3>2. \A n \in FramesIn(rest, c) : f[2] < n
      BY <1>5, <2>1
    <3>3. /\ f[2] = applied[c] + 1 /\ applied[c] + 1 <= Sent(c)
          /\ FramesIn(rest, c) = ((applied[c] + 1) + 1)..Sent(c)
      <4> DEFINE lo == applied[c] + 1
                 hi == Sent(c)
                 h == f[2]
                 R == FramesIn(rest, c)
      <4>1. lo \in Int /\ hi \in Int /\ h \in Int
        BY <1>2, <1>4, <1>6
      <4>2. (\A n : n \in lo..hi <=> (n \in R \/ n = h)) /\ \A n \in R : h < n
        BY <3>1, <3>2
      <4> HIDE DEF lo, hi, h, R
      <4>3. h \in lo..hi /\ \A n \in R : n \in lo..hi
        BY <4>2
      <4>4. h = lo
        <5>1. lo \in lo..hi
          BY <4>1, <4>3
        <5>2. lo = h \/ lo \in R
          BY <4>2, <5>1
        <5> QED
          BY <4>1, <4>2, <4>3, <5>2
      <4>5. \A n \in R : n \in (lo + 1)..hi
        BY <4>1, <4>2, <4>3, <4>4
      <4>6. \A n \in (lo + 1)..hi : n \in R
        BY <4>1, <4>2, <4>4
      <4>7. R = (lo + 1)..hi
        BY <4>5, <4>6, Zenon
      <4>8. lo <= hi
        BY <4>1, <4>3
      <4> QED
        BY <4>4, <4>7, <4>8 DEF lo, hi, h, R
    <3>4. applied'[c] = f[2]
      BY <1>1, <1>2, <1>4, <2>1
    <3> QED
      BY <1>1, <1>5, <1>6, <3>3, <3>4
  <2>2. CASE f[1] # c
    <3>1. applied'[c] = applied[c]
      BY <1>1, <1>2, <1>4, <2>2
    <3> QED
      BY <1>1, <1>5, <1>6, <2>2, <3>1
  <2> QED
    BY <2>1, <2>2
<1>10. FramesInOrder'
  <2>1. QueueInOrder'
    BY <1>9 DEF QueueInOrder, FramesIn, SortedIn, PlacesIn
  <2> QED
    BY <2>1, InOrder, PTL
<1>11. GapsOK'
  <2>1. at' = 1
    BY <1>1 DEF IInv, GapsOK
  <2>2. gaps' \subseteq {Focus[i] : i \in 1..Len(Focus)}
    <3>1. Symbols = {Focus[i] : i \in 1..Len(Focus)}
      BY IngestAssumption DEF Symbols, ToSet
    <3> QED
      BY <1>1, <3>1 DEF IInv, TypeOK
  <2> QED
    BY <1>1, <2>1, <2>2 DEF GapsOK
<1> QED
  BY <1>7, <1>8, <1>10, <1>11 DEF IInv

-----------------------------------------------------------------------------
(***************************************************************************)
(* REST passes: the readers and the channel go on as they are.             *)
(***************************************************************************)
LEMMA EngineStep ==
  ASSUME IInv, UNCHANGED <<readers, queue, applied>>, TypeOK', GapsOK'
  PROVE  IInv'
<1>1. UNCHANGED <<conn, read, queue, applied>>
  BY DEF readers
<1>2. Holding'
  BY <1>1 DEF IInv, Holding
<1>3. FramesInOrder'
  BY <1>1 DEF IInv, FramesInOrder, Queued, Sent
<1> QED
  BY <1>2, <1>3 DEF IInv

\* Where a pass leads is a pass or the loop, never the depth pass again.
LEMMA AfterPassFacts ==
  ASSUME IInv, call # "loop"
  PROVE  /\ AfterPass \in Passes \cup {"loop"}
         /\ call # "klines" => AfterPass # "depth"
         /\ AfterPass = "depth" => ~booted
<1> DEFINE next == [klines |-> "depth", depth |-> "funding", funding |-> "premium",
                    premium |-> "oi", oi |-> "loop"]
<1>1. call \in {"klines", "depth", "funding", "premium", "oi"}
  BY DEF IInv, TypeOK, Passes
<1>2. /\ next["klines"] = "depth" /\ next["depth"] = "funding"
      /\ next["funding"] = "premium" /\ next["premium"] = "oi" /\ next["oi"] = "loop"
  OBVIOUS
<1> QED
  BY <1>1, <1>2 DEF AfterPass, Passes

LEMMA RestFailsStep ==
  ASSUME IInv, RestFails
  PROVE  IInv'
<1>1. /\ call # "loop" /\ call' = AfterPass /\ at' = 1
      /\ booted' = (booted \/ AfterPass = "loop")
      /\ failed' = (call = "depth" \/ failed)
      /\ UNCHANGED <<readers, queue, applied, booked, gaps>>
  BY DEF RestFails, PassEnds
<1>2. AfterPass \in Passes \cup {"loop"}
  BY <1>1, AfterPassFacts
<1>3. TypeOK'
  <2>1. booted' \in BOOLEAN /\ failed' \in BOOLEAN
    BY <1>1, Zenon DEF IInv, TypeOK
  <2>2. at' \in 1..Len(Focus)
    BY <1>1, FocusFacts
  <2> QED
    BY <1>1, <1>2, <2>1, <2>2 DEF IInv, TypeOK, readers
<1>4. GapsOK'
  <2>1. gaps' \subseteq {Focus[i] : i \in 1..Len(Focus)}
    BY <1>1, IngestAssumption DEF IInv, TypeOK, Symbols, ToSet
  <2>2. gaps' # {} => failed'
    BY <1>1 DEF IInv, GapsOK
  <2> QED
    BY <1>1, <2>1, <2>2 DEF GapsOK
<1> QED
  BY <1>1, <1>3, <1>4, EngineStep

LEMMA RestOkStep ==
  ASSUME IInv, RestOk
  PROVE  IInv'
<1>1. /\ call # "loop"
      /\ booked' = IF call = "depth" THEN booked \cup {Focus[at]} ELSE booked
      /\ gaps' = IF call = "depth" THEN gaps \ {Focus[at]} ELSE gaps
      /\ UNCHANGED <<readers, queue, applied>>
      /\ \/ at < Len(Focus) /\ at' = at + 1 /\ UNCHANGED <<call, booted, failed>>
         \/ /\ ~(at < Len(Focus)) /\ PassEnds
            /\ failed' = (call # "depth" /\ failed)
  BY DEF RestOk
<1>2. /\ at \in 1..Len(Focus) /\ Len(Focus) \in Nat /\ Len(Focus) >= 1
      /\ booked \subseteq Symbols /\ gaps \subseteq booked
      /\ Symbols = {Focus[i] : i \in 1..Len(Focus)}
  BY FocusFacts, IngestAssumption DEF IInv, TypeOK, Symbols, ToSet
<1>3. booked' \subseteq Symbols /\ gaps' \subseteq booked'
  BY <1>1, <1>2
<1>4. call = "depth" => gaps \subseteq {Focus[i] : i \in at..Len(Focus)}
  BY DEF IInv, GapsOK
<1>5. CASE at < Len(Focus) /\ at' = at + 1 /\ UNCHANGED <<call, booted, failed>>
  <2>1. TypeOK'
    <3>1. at' \in 1..Len(Focus)
      BY <1>2, <1>5
    <3> QED
      BY <1>1, <1>3, <1>5, <3>1 DEF IInv, TypeOK, readers
  <2>2. GapsOK'
    <3>1. ASSUME call = "depth", NEW s \in gaps, s # Focus[at]
          PROVE  \E i \in (at + 1)..Len(Focus) : s = Focus[i]
      <4>1. PICK i \in at..Len(Focus) : s = Focus[i]
        BY <1>4, <3>1
      <4>2. i \in (at + 1)..Len(Focus)
        BY <1>2, <3>1, <4>1
      <4> QED
        BY <4>1, <4>2
    <3>2. call = "depth" => gaps' \subseteq {Focus[i] : i \in (at + 1)..Len(Focus)}
      BY <1>1, <3>1
    <3> QED
      BY <1>1, <1>5, <3>2 DEF IInv, GapsOK
  <2> QED
    BY <1>1, <2>1, <2>2, EngineStep
<1>6. CASE ~(at < Len(Focus)) /\ PassEnds /\ failed' = (call # "depth" /\ failed)
  <2>1. /\ call' = AfterPass /\ at' = 1 /\ booted' = (booted \/ AfterPass = "loop")
        /\ AfterPass \in Passes \cup {"loop"}
    BY <1>1, <1>6, AfterPassFacts DEF PassEnds
  <2>2. TypeOK'
    <3>1. booted' \in BOOLEAN /\ failed' \in BOOLEAN
      BY <1>6, <2>1, Zenon DEF IInv, TypeOK
    <3>2. at' \in 1..Len(Focus)
      BY <1>2, <2>1
    <3> QED
      BY <1>1, <1>3, <2>1, <3>1, <3>2 DEF IInv, TypeOK, readers
  <2>3. call = "depth" => gaps' = {}
    <3>1. at..Len(Focus) = {at}
      BY <1>2, <1>6
    <3> QED
      BY <1>1, <1>4, <3>1
  <2>4. gaps' # {} => failed'
    <3>1. CASE call = "depth"
      BY <2>3, <3>1
    <3>2. CASE call # "depth"
      BY <1>1, <1>6, <3>2 DEF IInv, GapsOK
    <3> QED
      BY <3>1, <3>2
  <2>5. gaps' \subseteq {Focus[i] : i \in 1..Len(Focus)}
    BY <1>2, <1>3
  <2>6. GapsOK'
    BY <2>1, <2>4, <2>5 DEF GapsOK
  <2> QED
    BY <1>1, <2>2, <2>6, EngineStep
<1> QED
  BY <1>1, <1>5, <1>6

LEMMA OiTickStep ==
  ASSUME IInv, OiTick
  PROVE  IInv'
<1>1. /\ call = "loop" /\ call' = "oi"
      /\ UNCHANGED <<readers, queue, applied, at, booted, booked, gaps, failed>>
  BY DEF OiTick
<1>2. TypeOK'
  BY <1>1 DEF IInv, TypeOK, readers, Passes
<1>3. GapsOK'
  BY <1>1 DEF IInv, GapsOK
<1> QED
  BY <1>1, <1>2, <1>3, EngineStep

-----------------------------------------------------------------------------
THEOREM Invariant == Spec => []IInv
<1>1. Init => IInv
  BY InitInvariant
<1>2. IInv /\ [Next]_vars => IInv'
  <2> SUFFICES ASSUME IInv, [Next]_vars PROVE IInv'
    OBVIOUS
  <2>1. ASSUME NEW c \in Conns,
               Open(c) \/ OpenFails(c) \/ ConnectionEnds(c) \/ WakeUp(c)
        PROVE  IInv'
    <3>1. CASE Open(c)
      BY <3>1, ConnStep DEF Open
    <3>2. CASE OpenFails(c)
      BY <3>2, ConnStep DEF OpenFails
    <3>3. CASE ConnectionEnds(c)
      BY <3>3, ConnStep DEF ConnectionEnds
    <3>4. CASE WakeUp(c)
      BY <3>4, ConnStep DEF WakeUp
    <3> QED
      BY <2>1, <3>1, <3>2, <3>3, <3>4
  <2>2. ASSUME NEW c \in Conns, ReadFrame(c) PROVE IInv'
    BY <2>2, ReadFrameStep
  <2>3. ASSUME NEW c \in Conns, Send(c) PROVE IInv'
    BY <2>3, SendStep
  <2>4. CASE RestOk
    BY <2>4, RestOkStep
  <2>5. CASE RestFails
    BY <2>5, RestFailsStep
  <2>6. CASE Payload
    BY <2>6, PayloadStep
  <2>7. CASE OiTick
    BY <2>7, OiTickStep
  <2>8. CASE UNCHANGED vars
    <3>1. UNCHANGED <<readers, queue, applied, call, at, booted, booked, gaps, failed>>
      BY <2>8 DEF vars, engine
    <3>2. TypeOK'
      BY <3>1 DEF IInv, TypeOK, readers
    <3>3. GapsOK'
      BY <3>1 DEF IInv, GapsOK
    <3> QED
      BY <3>1, <3>2, <3>3, EngineStep
  <2> QED
    BY <2>1, <2>2, <2>3, <2>4, <2>5, <2>6, <2>7, <2>8 DEF Next, Rest
<1> QED
  BY <1>1, <1>2, PTL DEF Spec

\* Every variable keeps its type; the channel never holds more than its
\* capacity.
THEOREM TypeCorrect == Spec => []TypeOK
<1>1. IInv => TypeOK
  BY DEF IInv
<1> QED
  BY <1>1, Invariant, PTL

\* From socket to engine no frame is dropped, doubled or overtaken.
THEOREM NoFrameLost == Spec => []FramesInOrder
<1>1. IInv => FramesInOrder
  BY DEF IInv
<1> QED
  BY <1>1, Invariant, PTL

\* The loop leaves a gap open only after a failed snapshot pass.
THEOREM GapsAreFailures == Spec => []OpenGapMeansFailure
<1>1. IInv => OpenGapMeansFailure
  BY DEF IInv, GapsOK, OpenGapMeansFailure
<1> QED
  BY <1>1, Invariant, PTL
=============================================================================
