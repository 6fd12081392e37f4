-------------------------- MODULE KlineIntakeProofs --------------------------
(***************************************************************************)
(* Whatever the order of REST rows and stream payloads, lost or not, the   *)
(* window of a symbol is exact: first one candle, then the runs.  What the *)
(* window lacks was lost by the stream, and the ATR chain follows the      *)
(* window.                                                                 *)
(***************************************************************************)
EXTENDS KlineIntake, SequenceTheorems, FiniteSetTheorems, TLAPS
-----------------------------------------------------------------------------
(***************************************************************************)
(* One candle keeps the window ordered, bounded and its gaps counted, for  *)
(* every capacity and every candle.                                        *)
(***************************************************************************)
WindowOK(w) == w \in Window /\ Ordered(w) /\ GapsCounted(w)

LEMMA NewWindowOK == WindowOK(NewWindow)
<1>1. NewWindow \in Window
  BY DEF NewWindow, Window
<1>2. Ordered(NewWindow)
  BY CapacityAssumption DEF NewWindow, Ordered
<1>3. GapsCounted(NewWindow)
  BY DEF NewWindow, GapsCounted
<1> QED BY <1>1, <1>2, <1>3 DEF WindowOK

\* Pushing a newer candle on an ordered ring.
LEMMA PushOrdered ==
  ASSUME NEW ring \in Seq(Candle), NEW c \in Candle,
         Len(ring) <= Capacity,
         \A i \in 1..(Len(ring) - 1) : ring[i].open < ring[i + 1].open,
         ring # <<>> => LastOpen(ring) < c.open
  PROVE  /\ Push(ring, c) \in Seq(Candle)
         /\ Push(ring, c) # <<>>
         /\ LastOpen(Push(ring, c)) = c.open
         /\ Len(Push(ring, c)) = IF Len(ring) = Capacity THEN Capacity
                                 ELSE Len(ring) + 1
         /\ \A i \in 1..(Len(Push(ring, c)) - 1) :
              Push(ring, c)[i].open < Push(ring, c)[i + 1].open
<1> DEFINE kept == IF Len(ring) = Capacity THEN Tail(ring) ELSE ring
<1>1. Push(ring, c) = Append(kept, c)
  BY DEF Push
<1>2. /\ kept \in Seq(Candle)
      /\ Len(kept) = IF Len(ring) = Capacity THEN Capacity - 1 ELSE Len(ring)
      /\ \A i \in 1..(Len(kept) - 1) : kept[i].open < kept[i + 1].open
      /\ Len(kept) > 0 => kept[Len(kept)] = ring[Len(ring)]
  <2>1. CASE Len(ring) = Capacity
    <3>1. ring # <<>> /\ kept = Tail(ring)
      BY <2>1, CapacityAssumption
    <3>2. /\ kept \in Seq(Candle) /\ Len(kept) = Len(ring) - 1
          /\ \A i \in 1..Len(kept) : kept[i] = ring[i + 1]
      BY <3>1, HeadTailProperties
    <3> QED BY <2>1, <3>2, CapacityAssumption
  <2>2. CASE Len(ring) # Capacity
    BY <2>2
  <2> QED BY <2>1, <2>2
<1> HIDE DEF kept
<1>3. /\ Append(kept, c) \in Seq(Candle) /\ Append(kept, c) # <<>>
      /\ Len(Append(kept, c)) = Len(kept) + 1
      /\ \A i \in 1..Len(kept) : Append(kept, c)[i] = kept[i]
      /\ Append(kept, c)[Len(kept) + 1] = c
  BY <1>2, AppendProperties
<1>4. Len(kept) > 0 => kept[Len(kept)].open < c.open
  <2>1. ASSUME Len(kept) > 0 PROVE ring # <<>>
    BY <1>2, <2>1, CapacityAssumption
  <2> QED BY <1>2, <2>1 DEF LastOpen
<1>5. ASSUME NEW i \in 1..(Len(Append(kept, c)) - 1)
      PROVE  Append(kept, c)[i].open < Append(kept, c)[i + 1].open
  <2>1. CASE i < Len(kept)
    BY <1>2, <1>3, <2>1
  <2>2. CASE i = Len(kept)
    BY <1>2, <1>3, <1>4, <2>2
  <2> QED BY <1>2, <1>3, <2>1, <2>2
<1>6. Len(Append(kept, c)) = IF Len(ring) = Capacity THEN Capacity ELSE Len(ring) + 1
  BY <1>2, <1>3, CapacityAssumption
<1> QED BY <1>1, <1>2, <1>3, <1>5, <1>6 DEF LastOpen

\* The minutes skipped make up the distance to the new candle.
LEMMA SkippedMinutes ==
  ASSUME NEW first \in Nat, NEW pushes \in Nat, NEW gap \in Nat,
         NEW last \in Nat, NEW open \in Nat, last < open,
         first + (pushes - 1) + gap = last
  PROVE  /\ gap + (open - (last + 1)) \in Nat
         /\ first + pushes + (gap + (open - (last + 1))) = open
  OBVIOUS

\* apply_kline keeps the window ordered and within its capacity, and
\* kline_gap_1m equal to the minutes that were skipped, whatever the candle.
THEOREM ApplyKlineKeepsWindow ==
  ASSUME NEW w, WindowOK(w), NEW c \in Candle
  PROVE  WindowOK(ApplyKline(w, c))
<1> DEFINE ring == w.ring
<1>1. /\ ring \in Seq(Candle) /\ w.gap \in Nat /\ w.first \in Nat /\ w.pushes \in Nat
      /\ Len(ring) \in Nat
      /\ Len(ring) = IF w.pushes < Capacity THEN w.pushes ELSE Capacity
      /\ \A i \in 1..(Len(ring) - 1) : ring[i].open < ring[i + 1].open
      /\ ring # <<>> => w.first + (w.pushes - 1) + w.gap = LastOpen(ring)
      /\ ring = <<>> => w.gap = 0
  BY LenProperties DEF WindowOK, Window, Ordered, GapsCounted
<1> HIDE DEF ring
<1>2. /\ \A i \in 1..Len(ring) : ring[i].open \in Nat
      /\ ring # <<>> => Len(ring) \in 1..Len(ring) /\ LastOpen(ring) \in Nat
  <2>1. ASSUME NEW i \in 1..Len(ring) PROVE ring[i].open \in Nat
    <3>1. ring[i] \in Candle
      BY <1>1, ElementOfSeq
    <3> QED BY <3>1 DEF Candle
  <2>2. ring # <<>> => Len(ring) \in 1..Len(ring)
    BY <1>1, EmptySeq
  <2> QED BY <2>1, <2>2 DEF LastOpen
<1>3. c.open \in Nat
  BY DEF Candle
<1>4. CASE ~Accepts(w, c)
  BY <1>4 DEF ApplyKline
<1>5. CASE Accepts(w, c) /\ ring # <<>> /\ c.open = LastOpen(ring)
  <2> DEFINE new == [ring EXCEPT ![Len(ring)] = c]
  <2>1. ApplyKline(w, c) = [ring |-> new, gap |-> w.gap, first |-> w.first,
                            pushes |-> w.pushes]
    BY <1>5 DEF ApplyKline, ReplaceLast, ring
  <2>2. /\ new \in Seq(Candle) /\ Len(new) = Len(ring)
        /\ new[Len(ring)] = c
        /\ \A i \in 1..Len(ring) : i # Len(ring) => new[i] = ring[i]
    BY <1>1, <1>2, <1>5
  <2> HIDE DEF new
  <2>3. ASSUME NEW i \in 1..(Len(new) - 1)
        PROVE  new[i].open < new[i + 1].open
    <3>1. i \in 1..(Len(ring) - 1) /\ i \in 1..Len(ring) /\ i # Len(ring)
          /\ i + 1 \in 1..Len(ring)
      BY <1>1, <2>2
    <3>2. new[i] = ring[i] /\ ring[i].open < ring[i + 1].open
      BY <1>1, <2>2, <3>1
    <3>3. new[i + 1].open = ring[i + 1].open
      BY <1>5, <2>2, <3>1 DEF LastOpen
    <3> QED BY <3>2, <3>3
  <2>4. new # <<>> /\ LastOpen(new) = LastOpen(ring)
    BY <1>2, <1>5, <2>2 DEF LastOpen
  <2>5. [ring |-> new, gap |-> w.gap, first |-> w.first, pushes |-> w.pushes] \in Window
    BY <1>1, <2>2 DEF Window
  <2> QED BY <1>1, <1>5, <2>1, <2>2, <2>3, <2>4, <2>5
          DEF WindowOK, Ordered, GapsCounted
<1>6. CASE Accepts(w, c) /\ ~(ring # <<>> /\ c.open = LastOpen(ring))
  <2> DEFINE new == Push(ring, c)
             gap == w.gap + Missed(ring, c.open)
             first == IF ring = <<>> THEN c.open ELSE w.first
  <2>1. ApplyKline(w, c) = [ring |-> new, gap |-> gap, first |-> first,
                            pushes |-> w.pushes + 1]
    BY <1>6 DEF ApplyKline, ring
  <2>2. ring # <<>> => LastOpen(ring) < c.open
    BY <1>2, <1>3, <1>6 DEF Accepts, ring
  <2>3. Len(ring) <= Capacity
    BY <1>1, CapacityAssumption
  <2>4. /\ new \in Seq(Candle) /\ new # <<>> /\ LastOpen(new) = c.open
        /\ Len(new) = IF Len(ring) = Capacity THEN Capacity ELSE Len(ring) + 1
        /\ \A i \in 1..(Len(new) - 1) : new[i].open < new[i + 1].open
    BY <1>1, <2>2, <2>3, PushOrdered
  <2> HIDE DEF new
  <2>5. Len(new) = IF w.pushes + 1 < Capacity THEN w.pushes + 1 ELSE Capacity
    BY <1>1, <2>4, CapacityAssumption
  <2>6. gap \in Nat /\ first \in Nat /\ first + w.pushes + gap = c.open
    <3>1. CASE ring = <<>>
      <4>1. w.pushes = 0 /\ Missed(ring, c.open) = 0
        BY <1>1, <3>1, CapacityAssumption DEF Missed
      <4>2. w.gap = 0
        BY <3>1, <4>1, <1>1
      <4> QED BY <1>1, <1>3, <3>1, <4>1, <4>2
    <3>2. CASE ring # <<>>
      <4>1. Missed(ring, c.open) = c.open - (LastOpen(ring) + 1)
        BY <1>2, <1>3, <2>2, <3>2 DEF Missed
      <4>2. /\ LastOpen(ring) \in Nat /\ LastOpen(ring) < c.open
            /\ w.first + (w.pushes - 1) + w.gap = LastOpen(ring)
        BY <1>1, <1>2, <2>2, <3>2
      <4>3. first = w.first
        BY <3>2
      <4>4. gap = w.gap + (c.open - (LastOpen(ring) + 1))
        BY <4>1
      <4> HIDE DEF gap, first
      <4>5. w.first \in Nat /\ w.pushes \in Nat /\ w.gap \in Nat
        BY <1>1
      <4> QED BY <1>3, <4>2, <4>3, <4>4, <4>5, SkippedMinutes
    <3> QED BY <3>1, <3>2
  <2> HIDE DEF gap, first
  <2>7. [ring |-> new, gap |-> gap, first |-> first, pushes |-> w.pushes + 1] \in Window
    BY <1>1, <2>4, <2>6 DEF Window
  <2> DEFINE w2 == [ring |-> new, gap |-> gap, first |-> first, pushes |-> w.pushes + 1]
  <2>8. Ordered(w2)
    BY <1>1, <2>4, <2>5 DEF Ordered
  <2>9. GapsCounted(w2)
    BY <1>1, <2>4, <2>6 DEF GapsCounted
  <2> QED BY <2>1, <2>7, <2>8, <2>9 DEF WindowOK
<1> QED BY <1>4, <1>5, <1>6
-----------------------------------------------------------------------------
\* What becomes of a ring r when a candle c is accepted: it replaces the last
\* one, or it is added, and the oldest one makes room for it or does not.
Replaced(r, r2, c) ==
  /\ r # <<>> /\ c.open = r[Len(r)].open
  /\ Len(r2) = Len(r)
  /\ \A i \in 1..(Len(r) - 1) : r2[i] = r[i]

Grown(r, r2, c) ==
  /\ r # <<>> => r[Len(r)].open < c.open
  /\ Len(r2) = Len(r) + 1
  /\ \A i \in 1..Len(r) : r2[i] = r[i]

Shifted(r, r2, c) ==
  /\ r # <<>> /\ r[Len(r)].open < c.open
  /\ Len(r2) = Len(r)
  /\ \A i \in 1..(Len(r) - 1) : r2[i] = r[i + 1]

LEMMA PushPlaces ==
  ASSUME NEW r \in Seq(Candle), NEW c \in Candle, r # <<>> => r[Len(r)].open < c.open
  PROVE  /\ Push(r, c)[Len(Push(r, c))] = c
         /\ Grown(r, Push(r, c), c) \/ Shifted(r, Push(r, c), c)
<1>1. CASE Len(r) = Capacity
  <2>1. r # <<>> /\ Push(r, c) = Append(Tail(r), c)
    BY <1>1, CapacityAssumption DEF Push
  <2>2. /\ Tail(r) \in Seq(Candle) /\ Len(Tail(r)) = Len(r) - 1
        /\ \A i \in 1..Len(Tail(r)) : Tail(r)[i] = r[i + 1]
    BY <2>1, HeadTailProperties
  <2>3. /\ Len(Append(Tail(r), c)) = Len(Tail(r)) + 1
        /\ \A i \in 1..Len(Tail(r)) : Append(Tail(r), c)[i] = Tail(r)[i]
        /\ Append(Tail(r), c)[Len(Tail(r)) + 1] = c
    BY <2>2, AppendProperties
  <2> QED BY <2>1, <2>2, <2>3 DEF Shifted
<1>2. CASE Len(r) # Capacity
  <2>1. Push(r, c) = Append(r, c)
    BY <1>2 DEF Push
  <2> QED BY <2>1, AppendProperties DEF Grown
<1> QED BY <1>1, <1>2

LEMMA AppliedPlaces ==
  ASSUME NEW w, WindowOK(w), NEW c \in Candle, Accepts(w, c)
  PROVE  LET r  == w.ring
             r2 == ApplyKline(w, c).ring
         IN  /\ r2 \in Seq(Candle) /\ r2 # <<>> /\ r2[Len(r2)] = c
             /\ Replaced(r, r2, c) \/ Grown(r, r2, c) \/ Shifted(r, r2, c)
<1> DEFINE r == w.ring
           r2 == ApplyKline(w, c).ring
<1>1. /\ r \in Seq(Candle) /\ Len(r) \in Nat
      /\ r # <<>> => Len(r) \in 1..Len(r) /\ r[Len(r)].open \in Nat
  <2>1. r \in Seq(Candle)
    BY DEF WindowOK, Window
  <2>2. r # <<>> => Len(r) \in 1..Len(r) /\ r[Len(r)] \in Candle
    BY <2>1, EmptySeq, ElementOfSeq, LenProperties
  <2> QED BY <2>1, <2>2 DEF Candle
<1>2. c.open \in Nat
  BY DEF Candle
<1>3. CASE r # <<>> /\ c.open = LastOpen(r)
  <2>1. r2 = [r EXCEPT ![Len(r)] = c]
    BY <1>3 DEF ApplyKline, ReplaceLast
  <2> HIDE DEF r2, r
  <2>2. /\ r2 \in Seq(Candle) /\ Len(r2) = Len(r) /\ r2[Len(r)] = c
        /\ \A i \in 1..(Len(r) - 1) : r2[i] = r[i]
    BY <1>1, <1>3, <2>1
  <2>3. r2 # <<>>
    BY <1>1, <1>3, <2>2
  <2> QED BY <1>3, <2>2, <2>3 DEF Replaced, LastOpen, r, r2
<1>4. CASE ~(r # <<>> /\ c.open = LastOpen(r))
  <2>1. r2 = Push(r, c)
    BY <1>4 DEF ApplyKline
  <2>2. r # <<>> => r[Len(r)].open < c.open
    BY <1>1, <1>2, <1>4 DEF Accepts, LastOpen
  <2>3. r2[Len(r2)] = c /\ (Grown(r, r2, c) \/ Shifted(r, r2, c))
    BY <1>1, <2>1, <2>2, PushPlaces
  <2>4. r2 \in Seq(Candle)
    BY ApplyKlineKeepsWindow DEF WindowOK, Window
  <2> HIDE DEF r2, r
  <2>5. r2 # <<>>
    BY <1>1, <2>3, <2>4, EmptySeq DEF Grown, Shifted
  <2> QED BY <2>3, <2>4, <2>5 DEF r, r2
<1> QED BY <1>3, <1>4
-----------------------------------------------------------------------------
(***************************************************************************)
(* The window in every run of the intake.                                  *)
(***************************************************************************)

IInv == TypeOK /\ WindowExact

\* The candle that an accepted payload leaves last in the window.
LEMMA LastIsCandle ==
  ASSUME NEW w \in Window, w.ring # <<>>
  PROVE  w.ring[Len(w.ring)] \in Candle
BY DEF Window

\* A REST response is a sequence of candles of minutes that have begun.
LEMMA RestRowsAreCandles ==
  ASSUME minute \in 0..MaxMinute
  PROVE  RestRows \in Seq(Candle)
<1> DEFINE from == IF minute < RestLimit THEN 0 ELSE minute - RestLimit + 1
<1>1. from \in Nat /\ minute - from + 1 \in Nat
  BY BoundAssumption
<1> HIDE DEF from
<1>2. \A i \in 1..(minute - from + 1) :
        [open |-> from + i - 1, closed |-> TRUE, final |-> from + i - 1 < minute] \in Candle
  BY <1>1, BoundAssumption DEF Candle
<1>3. RestRows = [i \in 1..(minute - from + 1) |->
        [open |-> from + i - 1, closed |-> TRUE, final |-> from + i - 1 < minute]]
  BY DEF RestRows, from
<1>4. RestRows \in [1..(minute - from + 1) -> Candle]
  BY <1>2, <1>3
<1> QED
  BY <1>1, <1>4, SeqDef

\* What accepting or refusing one candle does, whichever handler offers it.
LEMMA ApplyKeeps ==
  ASSUME IInv, NEW c \in Candle, Apply(c)
  PROVE  /\ window' \in Window /\ WindowExact'
         /\ atr'.latest \in Candle /\ atr'.prev \in Candle
         /\ seams' \subseteq Nat
<1>1. WindowOK(window)
  BY DEF IInv, TypeOK, WindowExact, WindowOK
<1>2. WindowOK(window')
  BY <1>1, ApplyKlineKeepsWindow DEF Apply
<1>3. window' \in Window /\ WindowExact'
  BY <1>2 DEF WindowOK, WindowExact
<1>4. CASE UNCHANGED <<atr, seams>>
  BY <1>3, <1>4 DEF IInv, TypeOK
<1>5. CASE Accepts(window, c) /\ Len(window'.ring) >= AtrCandles
  <2> DEFINE candle == window'.ring[Len(window'.ring)]
  <2>1. candle \in Candle
    BY <1>3, <1>5, BoundAssumption DEF Window
  <2> HIDE DEF candle
  <2>2. /\ atr' = [latest |-> candle, prev |-> atr.latest]
        /\ seams' = IF atr.latest # NoCandle /\ atr.latest.open = candle.open
                    THEN seams \cup {candle.open} ELSE seams
    BY <1>3, <1>5, BoundAssumption DEF Apply, Record, candle, Window
  <2>3. candle.open \in Nat
    BY <2>1 DEF Candle
  <2>4. atr.latest \in Candle /\ seams \subseteq Nat
    BY DEF IInv, TypeOK
  <2> QED
    BY <1>3, <2>1, <2>2, <2>3, <2>4
<1> QED
  BY <1>3, <1>4, <1>5, BoundAssumption DEF Apply, Record, Window

-----------------------------------------------------------------------------
LEMMA InitInvariant == Init => IInv
<1> SUFFICES ASSUME Init PROVE IInv
  OBVIOUS
<1>1. WindowOK(window)
  BY NewWindowOK DEF Init
<1>2. NoCandle \in Candle
  BY DEF NoCandle, Candle
<1>3. minute \in 0..MaxMinute
  BY BoundAssumption DEF Init
<1>4. queue \in Seq(Candle) /\ rows \in Seq(Candle)
  BY DEF Init
<1>5. atr.latest \in Candle /\ atr.prev \in Candle
  BY <1>2 DEF Init
<1>6. window \in Window /\ WindowExact
  BY <1>1 DEF WindowOK, WindowExact
<1>7. TypeOK
  BY <1>3, <1>4, <1>5, <1>6 DEF Init, TypeOK
<1> QED
  BY <1>6, <1>7 DEF IInv

\* The steps outside the engine append a candle to the channel or leave it.
LEMMA StreamStep ==
  ASSUME IInv, OpenKline \/ MinuteCloses \/ Disconnect \/ Reconnect
  PROVE  IInv'
<1>1. /\ [open |-> minute, closed |-> FALSE, final |-> FALSE] \in Candle
      /\ [open |-> minute, closed |-> TRUE, final |-> TRUE] \in Candle
  BY DEF IInv, TypeOK, Candle
<1>2. /\ minute \in 0..MaxMinute /\ connected \in BOOLEAN
      /\ queue \in Seq(Candle) /\ lost \subseteq 0..MaxMinute
  BY DEF IInv, TypeOK
<1>3. /\ queue' \in Seq(Candle) /\ minute' \in 0..MaxMinute
      /\ lost' \subseteq 0..MaxMinute /\ connected' \in BOOLEAN
  <2>1. CASE OpenKline
    BY <1>1, <1>2, <2>1 DEF OpenKline
  <2>2. CASE MinuteCloses
    <3>1. queue' \in Seq(Candle) /\ connected' \in BOOLEAN
      BY <1>1, <1>2, <2>2 DEF MinuteCloses
    <3>2. minute' \in 0..MaxMinute
      BY <1>2, <2>2, BoundAssumption DEF MinuteCloses
    <3>3. lost' \subseteq 0..MaxMinute
      BY <1>2, <2>2 DEF MinuteCloses
    <3> QED
      BY <3>1, <3>2, <3>3
  <2>3. CASE Disconnect \/ Reconnect
    BY <1>2, <2>3 DEF Disconnect, Reconnect
  <2> QED
    BY <2>1, <2>2, <2>3
<1>4. UNCHANGED engineVars
  BY DEF OpenKline, MinuteCloses, Disconnect, Reconnect
<1> QED
  BY <1>3, <1>4 DEF IInv, TypeOK, WindowExact, engineVars

LEMMA KlinesArriveStep ==
  ASSUME IInv, KlinesArrive
  PROVE  IInv'
<1>1. rows' \in Seq(Candle)
  BY RestRowsAreCandles DEF IInv, TypeOK, KlinesArrive
<1>2. UNCHANGED <<minute, connected, queue, lost, window, atr, seams>> /\ phase' = "rows"
  BY DEF KlinesArrive
<1> QED
  BY <1>1, <1>2 DEF IInv, TypeOK, WindowExact

LEMMA BootstrapStep ==
  ASSUME IInv, BootstrapKlines \/ BootstrapFails \/ HandleKline
  PROVE  IInv'
<1>1. CASE BootstrapKlines
  <2>1. Head(rows) \in Candle /\ Tail(rows) \in Seq(Candle)
    BY <1>1 DEF IInv, TypeOK, BootstrapKlines
  <2>2. Apply(Head(rows)) /\ rows' = Tail(rows) /\ phase' \in {"rows", "loop"}
        /\ UNCHANGED <<minute, connected, queue, lost>>
    BY <1>1 DEF BootstrapKlines
  <2>3. /\ window' \in Window /\ WindowExact'
        /\ atr'.latest \in Candle /\ atr'.prev \in Candle /\ seams' \subseteq Nat
    BY <2>1, <2>2, ApplyKeeps
  <2> QED
    BY <2>1, <2>2, <2>3 DEF IInv, TypeOK
<1>2. CASE BootstrapFails
  BY <1>2 DEF IInv, TypeOK, WindowExact, BootstrapFails
<1>3. CASE HandleKline
  <2>1. Head(queue) \in Candle /\ Tail(queue) \in Seq(Candle)
    BY <1>3 DEF IInv, TypeOK, HandleKline
  <2>2. Apply(Head(queue)) /\ queue' = Tail(queue)
        /\ UNCHANGED <<minute, connected, lost, phase, rows>>
    BY <1>3 DEF HandleKline
  <2>3. /\ window' \in Window /\ WindowExact'
        /\ atr'.latest \in Candle /\ atr'.prev \in Candle /\ seams' \subseteq Nat
    BY <2>1, <2>2, ApplyKeeps
  <2> QED
    BY <2>1, <2>2, <2>3 DEF IInv, TypeOK
<1> QED
  BY <1>1, <1>2, <1>3

THEOREM Invariant == Spec => []IInv
<1>1. IInv /\ [Next]_vars => IInv'
  <2>1. ASSUME IInv, UNCHANGED vars PROVE IInv'
    BY <2>1 DEF IInv, TypeOK, WindowExact, vars
  <2> QED
    BY <2>1, StreamStep, KlinesArriveStep, BootstrapStep DEF Next
<1> QED
  BY <1>1, InitInvariant, PTL DEF Spec

\* Every reachable state of the intake is well typed: rows and payloads are
\* candles of minutes that have begun, and the window one that apply_kline
\* can produce.
THEOREM TypeCorrect == Spec => []TypeOK
<1>1. IInv => TypeOK
  BY DEF IInv
<1> QED
  BY <1>1, Invariant, PTL

\* At every moment the window holds one candle per minute, in order, the
\* newest Capacity of them, and kline_gap_1m is the number of minutes missed:
\* apply_kline under every interleaving of bootstrap and stream.
THEOREM WindowIsExact == Spec => []WindowExact
<1>1. IInv => WindowExact
  BY DEF IInv
<1> QED
  BY <1>1, Invariant, PTL
-----------------------------------------------------------------------------
(***************************************************************************)
(* What the window lacks.  Every minute that is over was reported by a     *)
(* closing payload that waits in the queue, is lost, or has been handled;  *)
(* the invariant says where the handled ones end.                          *)
(***************************************************************************)
InQueue(m) == \E i \in 1..Len(queue) : queue[i].closed /\ queue[i].open = m

Reported(m) == m \in lost \/ InQueue(m)

\* Every minute from or after a, as far as it is over, is reported.
ReportedFrom(a) == \A m \in Nat : a <= m /\ m < minute => Reported(m)
ReportedAfter(a) == \A m \in Nat : a < m /\ m < minute => Reported(m)

\* Closing payloads wait in the order of their minutes, with no hole between
\* them that is not a loss.
QueueOK ==
  /\ \A i \in 1..Len(queue) : queue[i].closed =>
       /\ queue[i].final /\ queue[i].open < minute
       /\ ReportedAfter(queue[i].open)
  /\ \A i, j \in 1..Len(queue) :
       i < j /\ queue[i].closed /\ queue[j].closed => queue[i].open < queue[j].open

Last == window.ring[Len(window.ring)]

\* The rows of a response follow each other; only the last one is not final.
RowsOK ==
  /\ phase = "bootstrap" => window.ring = <<>>
  /\ phase = "rows" =>
       /\ rows # <<>> /\ ~rows[Len(rows)].final
       /\ \A i \in 1..Len(rows) :
            /\ rows[i].closed /\ rows[i].open = rows[1].open + (i - 1)
            /\ i < Len(rows) => rows[i].final
       /\ window.ring # <<>> => rows[1].open = Last.open + 1
       /\ \A i \in 1..Len(window.ring) : window.ring[i].final
       /\ ReportedFrom(rows[Len(rows)].open)

\* In the loop the stream goes on where the window ends: with the last minute
\* itself as long as its candle is not final.
LoopOK ==
  phase = "loop" /\ window.ring # <<>> =>
    /\ ReportedAfter(Last.open)
    /\ ~Last.final => ReportedFrom(Last.open)
    /\ Last.final => /\ Last.open < minute
                     /\ \A i \in 1..Len(queue) :
                          queue[i].closed => Last.open < queue[i].open

\* HolesAreLosses, minute by minute.
HolesIn(ring, missing) ==
  ring # <<>> =>
    \A m \in Nat : ring[1].open <= m /\ m <= ring[Len(ring)].open =>
      m \in missing \/ \E i \in 1..Len(ring) : ring[i].open = m

PartialIn(ring, missing) ==
  \A i \in 1..(Len(ring) - 1) : ~ring[i].final => ring[i].open \in missing

HolesLost == HolesIn(window.ring, lost)

LossInv == QueueOK /\ RowsOK /\ LoopOK /\ HolesLost /\ PartialOnlyIfLost

\* The numbers that the invariant is about.
LEMMA KlineNumbers ==
  ASSUME IInv
  PROVE  /\ minute \in Nat /\ Len(queue) \in Nat /\ Len(rows) \in Nat
         /\ Len(window.ring) \in Nat /\ window.ring \in Seq(Candle)
         /\ \A i \in 1..Len(queue) :
              /\ queue[i] \in Candle /\ queue[i].open \in Nat
              /\ queue[i].closed \in BOOLEAN /\ queue[i].final \in BOOLEAN
         /\ \A i \in 1..Len(rows) :
              /\ rows[i] \in Candle /\ rows[i].open \in Nat
              /\ rows[i].closed \in BOOLEAN /\ rows[i].final \in BOOLEAN
         /\ \A i \in 1..Len(window.ring) :
              /\ window.ring[i] \in Candle /\ window.ring[i].open \in Nat
              /\ window.ring[i].closed \in BOOLEAN /\ window.ring[i].final \in BOOLEAN
         /\ window.ring # <<>> => Len(window.ring) \in 1..Len(window.ring)
<1>1. /\ queue \in Seq(Candle) /\ rows \in Seq(Candle) /\ window.ring \in Seq(Candle)
      /\ minute \in Nat
  BY BoundAssumption DEF IInv, TypeOK, Window
<1>2. ASSUME NEW s \in Seq(Candle), NEW i \in 1..Len(s)
      PROVE  /\ s[i] \in Candle /\ s[i].open \in Nat
             /\ s[i].closed \in BOOLEAN /\ s[i].final \in BOOLEAN
  <2>1. s[i] \in Candle
    BY <1>2, ElementOfSeq
  <2> QED
    BY <2>1 DEF Candle
<1>3. /\ Len(queue) \in Nat /\ Len(rows) \in Nat /\ Len(window.ring) \in Nat
      /\ window.ring # <<>> => Len(window.ring) \in 1..Len(window.ring)
  BY <1>1, LenProperties, EmptySeq
<1> QED
  BY <1>1, <1>2, <1>3

LEMMA InitLossInv == Init => LossInv
  BY DEF Init, LossInv, QueueOK, RowsOK, LoopOK, HolesLost, HolesIn, PartialOnlyIfLost, NewWindow

\* A payload of the stream comes last, is that of the minute in progress, and
\* ends it or not; a minute that ends without is lost.
LEMMA StreamLoss ==
  ASSUME IInv, LossInv, OpenKline \/ MinuteCloses \/ Disconnect \/ Reconnect
  PROVE  LossInv'
<1> SUFFICES ASSUME NEW n, n = Len(queue)
             PROVE  LossInv'
  OBVIOUS
<1>1. UNCHANGED <<phase, rows, window>>
  BY DEF OpenKline, MinuteCloses, Disconnect, Reconnect, engineVars
<1>2. /\ n \in Nat /\ minute \in Nat /\ minute' \in Nat /\ minute <= minute'
      /\ lost \subseteq lost'
      /\ \A i \in 1..n : queue'[i] = queue[i]
      /\ \/ Len(queue') = n /\ minute' = minute
         \/ Len(queue') = n /\ minute' = minute + 1 /\ minute \in lost'
         \/ Len(queue') = n + 1 /\ minute' = minute /\ ~queue'[n + 1].closed
         \/ /\ Len(queue') = n + 1 /\ minute' = minute + 1
            /\ queue'[n + 1].closed /\ queue'[n + 1].final /\ queue'[n + 1].open = minute
  <2>1. n \in Nat /\ minute \in Nat /\ queue \in Seq(Candle)
    BY KlineNumbers DEF IInv, TypeOK
  <2>2. ASSUME NEW c \in Candle, queue' = Append(queue, c)
        PROVE  /\ Len(queue') = n + 1 /\ queue'[n + 1] = c
               /\ \A i \in 1..n : queue'[i] = queue[i]
    BY <2>1, <2>2, AppendProperties
  <2>3. CASE OpenKline
    <3>1. [open |-> minute, closed |-> FALSE, final |-> FALSE] \in Candle
      BY <2>1 DEF Candle
    <3> QED
      BY <2>1, <2>2, <2>3, <3>1 DEF OpenKline
  <2>4. CASE MinuteCloses
    <3>1. [open |-> minute, closed |-> TRUE, final |-> TRUE] \in Candle
      BY <2>1 DEF Candle
    <3> QED
      BY <2>1, <2>2, <2>4, <3>1 DEF MinuteCloses
  <2>5. CASE Disconnect \/ Reconnect
    BY <2>1, <2>5 DEF Disconnect, Reconnect
  <2> QED
    BY <2>3, <2>4, <2>5
<1>3. ASSUME NEW m \in Nat, Reported(m) \/ (m = minute /\ minute < minute')
      PROVE  Reported(m)'
  <2>1. CASE m \in lost
    BY <1>2, <2>1 DEF Reported
  <2>2. CASE InQueue(m)
    BY <1>2, <2>2 DEF Reported, InQueue
  <2>3. CASE m = minute /\ minute < minute'
    BY <1>2, <2>3 DEF Reported, InQueue
  <2> QED
    BY <1>3, <2>1, <2>2, <2>3 DEF Reported
<1>4. ASSUME NEW a \in Nat
      PROVE  /\ ReportedFrom(a) => ReportedFrom(a)'
             /\ ReportedAfter(a) => ReportedAfter(a)'
  <2>1. \A m \in Nat : m < minute' => m < minute \/ (m = minute /\ minute < minute')
    BY <1>2
  <2> QED
    BY <1>3, <2>1 DEF ReportedFrom, ReportedAfter
<1>5. QueueOK'
  <2>1. ASSUME NEW i \in 1..n, queue[i].closed
        PROVE  /\ queue'[i].final /\ queue'[i].open < minute'
               /\ ReportedAfter(queue[i].open)'
    <3>1. queue[i].open \in Nat /\ queue[i].open < minute /\ queue[i].final
          /\ ReportedAfter(queue[i].open)
      BY <2>1, KlineNumbers DEF LossInv, QueueOK
    <3>2. \A a \in Nat : ReportedAfter(a) => ReportedAfter(a)'
      BY <1>4
    <3>3. PICK a \in Nat : a = queue[i].open
      BY <3>1
    <3>4. queue'[i] = queue[i]
      BY <1>2
    <3>5. ReportedAfter(a)
      BY <3>1, <3>3 DEF ReportedAfter
    <3>6. ReportedAfter(a)'
      BY <3>2, <3>5
    <3>7. ReportedAfter(queue[i].open)'
      BY <3>3, <3>4, <3>6 DEF ReportedAfter
    <3> QED
      BY <1>2, <3>1, <3>4, <3>7
  <2>2. ASSUME NEW i \in 1..Len(queue'), queue'[i].closed
        PROVE  /\ queue'[i].final /\ queue'[i].open < minute'
               /\ ReportedAfter(queue[i].open)'
    <3>1. CASE i \in 1..n
      BY <1>2, <2>1, <2>2, <3>1
    <3>2. CASE i \notin 1..n
      <4>1. /\ i = n + 1 /\ minute' = minute + 1
            /\ queue'[i].final /\ queue'[i].open = minute
        BY <1>2, <2>2, <3>2
      <4>2. queue'[i].open < minute' /\ \A m \in Nat : ~(minute < m /\ m < minute')
        BY <1>2, <4>1
      <4>3. ReportedAfter(queue[i].open)'
        BY <4>1, <4>2 DEF ReportedAfter
      <4> QED
        BY <4>1, <4>2, <4>3 DEF ReportedAfter
    <3> QED
      BY <3>1, <3>2
  <2>3. ASSUME NEW i \in 1..Len(queue'), NEW j \in 1..Len(queue'), i < j,
               queue'[i].closed, queue'[j].closed
        PROVE  queue'[i].open < queue'[j].open
    <3>1. i \in 1..n
      BY <1>2, <2>3
    <3>2. CASE j \in 1..n
      BY <1>2, <2>3, <3>1, <3>2 DEF LossInv, QueueOK
    <3>3. CASE j \notin 1..n
      BY <1>2, <2>3, <3>1, <3>3 DEF LossInv, QueueOK
    <3> QED
      BY <3>2, <3>3
  <2> QED
    BY <2>2, <2>3 DEF QueueOK
<1>6. RowsOK'
  <2>1. ASSUME phase = "rows" PROVE ReportedFrom(rows[Len(rows)].open)'
    <3>1. rows # <<>> /\ ReportedFrom(rows[Len(rows)].open)
      BY <2>1 DEF LossInv, RowsOK
    <3>2. Len(rows) \in 1..Len(rows)
      BY <3>1, KlineNumbers, EmptySeq DEF IInv, TypeOK
    <3>3. PICK a \in Nat : a = rows[Len(rows)].open
      BY <3>2, KlineNumbers
    <3> QED
      BY <1>1, <1>4, <3>1, <3>3 DEF ReportedFrom
  <2> QED
    BY <1>1, <2>1 DEF LossInv, RowsOK, Last
<1>7. LoopOK'
  <2> SUFFICES ASSUME phase = "loop", window.ring # <<>>
               PROVE  /\ ReportedAfter(Last.open)'
                      /\ ~Last.final => ReportedFrom(Last.open)'
                      /\ Last.final => /\ Last.open < minute'
                                       /\ \A i \in 1..Len(queue') :
                                            queue'[i].closed => Last.open < queue'[i].open
    BY <1>1 DEF LoopOK, Last
  <2>1. PICK a \in Nat : a = Last.open
    BY KlineNumbers DEF Last
  <2>2. /\ ReportedAfter(a)
        /\ ~Last.final => ReportedFrom(a)
        /\ Last.final => a < minute /\ \A i \in 1..n : queue[i].closed => a < queue[i].open
    BY <2>1 DEF LossInv, LoopOK, ReportedAfter, ReportedFrom
  <2>3. Last'.open = a
    BY <1>1, <2>1 DEF Last
  <2>4. ReportedAfter(Last.open)' /\ (~Last.final => ReportedFrom(Last.open)')
    BY <1>4, <2>2, <2>3 DEF ReportedAfter, ReportedFrom
  <2>5. Last.final => /\ a < minute'
                      /\ \A i \in 1..Len(queue') : queue'[i].closed => a < queue'[i].open
    BY <1>2, <2>2
  <2> QED
    BY <2>1, <2>4, <2>5
<1>8. HolesLost' /\ PartialOnlyIfLost'
  BY <1>1, <1>2 DEF LossInv, HolesLost, HolesIn, PartialOnlyIfLost
<1> QED
  BY <1>5, <1>6, <1>7, <1>8 DEF LossInv

-----------------------------------------------------------------------------
\* What an accepted candle does to the holes of a ring.
LEMMA HolesStay ==
  ASSUME NEW r \in Seq(Candle), NEW r2 \in Seq(Candle), NEW c \in Candle, NEW L,
         r2 # <<>>, r2[Len(r2)] = c,
         Replaced(r, r2, c) \/ Grown(r, r2, c) \/ Shifted(r, r2, c),
         \A i \in 1..(Len(r) - 1) : r[i].open < r[i + 1].open,
         HolesIn(r, L),
         r # <<>> => \A m \in Nat : r[Len(r)].open < m /\ m < c.open => m \in L
  PROVE  HolesIn(r2, L)
<1>1. /\ Len(r) \in Nat /\ Len(r2) \in Nat /\ Len(r2) >= 1 /\ c.open \in Nat
      /\ \A i \in 1..Len(r) : r[i].open \in Nat
      /\ r # <<>> <=> Len(r) >= 1
  <2>1. Len(r) \in Nat /\ Len(r2) \in Nat /\ (r # <<>> <=> Len(r) >= 1) /\ Len(r2) >= 1
    BY EmptySeq, LenProperties
  <2>2. \A i \in 1..Len(r) : r[i] \in Candle
    BY ElementOfSeq
  <2> QED BY <2>1, <2>2 DEF Candle
<1> SUFFICES ASSUME NEW m \in Nat, r2[1].open <= m, m <= c.open, m \notin L
             PROVE  \E i \in 1..Len(r2) : r2[i].open = m
  BY DEF HolesIn
<1>2. CASE m = c.open
  BY <1>1, <1>2
<1>3. CASE m # c.open /\ Replaced(r, r2, c)
  <2>1. r # <<>> /\ r[1].open <= m /\ m <= r[Len(r)].open /\ m # r[Len(r)].open
    BY <1>1, <1>3 DEF Replaced
  <2>2. PICK i \in 1..Len(r) : r[i].open = m
    BY <2>1 DEF HolesIn
  <2>3. i \in 1..(Len(r) - 1) /\ i \in 1..Len(r2) /\ r2[i] = r[i]
    BY <1>1, <1>3, <2>1, <2>2 DEF Replaced
  <2> QED BY <2>2, <2>3
<1>4. CASE m # c.open /\ Grown(r, r2, c)
  <2>1. r # <<>>
    BY <1>1, <1>4 DEF Grown
  <2>2. r[1].open <= m /\ m <= r[Len(r)].open
    BY <1>1, <1>4, <2>1 DEF Grown
  <2>3. PICK i \in 1..Len(r) : r[i].open = m
    BY <2>1, <2>2 DEF HolesIn
  <2> QED BY <1>1, <1>4, <2>3 DEF Grown
<1>5. CASE m # c.open /\ Shifted(r, r2, c)
  <2>1. r # <<>> /\ Len(r) # 1
    BY <1>1, <1>5 DEF Shifted
  <2>2. r2[1] = r[2] /\ r[1].open < r[2].open
    BY <1>1, <1>5, <2>1 DEF Shifted
  <2>3. r[1].open < m /\ m <= r[Len(r)].open
    <3>1. r[1].open \in Nat /\ r[2].open \in Nat /\ r[Len(r)].open \in Nat
      <4>1. PICK n \in Nat : n = Len(r)
        BY <1>1
      <4>2. n >= 1 /\ n # 1
        BY <1>1, <2>1, <4>1
      <4>3. 1 \in 1..n /\ 2 \in 1..n /\ n \in 1..n
        BY <4>2
      <4> QED BY <1>1, <4>1, <4>3
    <3>2. r[2].open <= m
      BY <2>2
    <3>3. r[1].open < m
      BY <2>2, <3>1, <3>2
    <3>4. ~(r[Len(r)].open < m)
      BY <1>1, <1>5, <2>1
    <3> QED BY <3>1, <3>3, <3>4
  <2>4. PICK i \in 1..Len(r) : r[i].open = m
    BY <1>1, <2>1, <2>3 DEF HolesIn
  <2>5. i # 1 /\ (i - 1) \in 1..(Len(r) - 1)
    BY <1>1, <2>3, <2>4
  <2>6. r2[i - 1] = r[i] /\ (i - 1) \in 1..Len(r2)
    BY <1>1, <1>5, <2>5 DEF Shifted
  <2> QED BY <2>4, <2>6
<1> QED BY <1>2, <1>3, <1>4, <1>5

LEMMA PartialStays ==
  ASSUME NEW r \in Seq(Candle), NEW r2 \in Seq(Candle), NEW c \in Candle, NEW L,
         Replaced(r, r2, c) \/ Grown(r, r2, c) \/ Shifted(r, r2, c),
         PartialIn(r, L),
         r # <<>> /\ r[Len(r)].open < c.open =>
           r[Len(r)].final \/ r[Len(r)].open \in L
  PROVE  PartialIn(r2, L)
<1>1. Len(r) \in Nat /\ Len(r2) \in Nat /\ (r # <<>> <=> Len(r) >= 1)
  BY EmptySeq, LenProperties
<1>2. CASE Replaced(r, r2, c)
  BY <1>1, <1>2 DEF Replaced, PartialIn
<1>3. CASE Grown(r, r2, c)
  BY <1>1, <1>3 DEF Grown, PartialIn
<1>4. CASE Shifted(r, r2, c)
  BY <1>1, <1>4 DEF Shifted, PartialIn
<1> QED BY <1>2, <1>3, <1>4

\* An accepted candle keeps the window free of holes and partial candles that
\* are not losses, if the minutes it skips are lost, and the last candle, when
\* it is overtaken, is final or lost.
LEMMA AcceptedLoss ==
  ASSUME IInv, HolesLost, PartialOnlyIfLost, NEW c \in Candle, Accepts(window, c), Apply(c),
         window.ring # <<>> =>
           /\ \A m \in Nat : Last.open < m /\ m < c.open => m \in lost
           /\ Last.open < c.open => Last.final \/ Last.open \in lost,
         lost' = lost
  PROVE  /\ HolesLost' /\ PartialOnlyIfLost' /\ window'.ring # <<>> /\ Last' = c
         /\ \/ Replaced(window.ring, window'.ring, c)
            \/ Grown(window.ring, window'.ring, c)
            \/ Shifted(window.ring, window'.ring, c)
<1> SUFFICES ASSUME NEW r, r = window.ring, NEW r2, r2 = window'.ring
             PROVE  /\ HolesIn(r2, lost) /\ PartialIn(r2, lost) /\ r2 # <<>>
                    /\ r2[Len(r2)] = c
                    /\ Replaced(r, r2, c) \/ Grown(r, r2, c) \/ Shifted(r, r2, c)
  BY DEF HolesLost, PartialOnlyIfLost, PartialIn, Last
<1>1. WindowOK(window) /\ window' = ApplyKline(window, c)
  BY DEF IInv, TypeOK, WindowExact, WindowOK, Apply
<1>2. /\ r2 \in Seq(Candle) /\ r2 # <<>> /\ r2[Len(r2)] = c
      /\ Replaced(r, r2, c) \/ Grown(r, r2, c) \/ Shifted(r, r2, c)
  BY <1>1, AppliedPlaces
<1>3. r \in Seq(Candle) /\ \A i \in 1..(Len(r) - 1) : r[i].open < r[i + 1].open
  BY <1>1 DEF WindowOK, Window, Ordered
<1>4. HolesIn(r2, lost)
  BY <1>2, <1>3, HolesStay DEF HolesLost, Last
<1>5. PartialIn(r2, lost)
  BY <1>2, <1>3, PartialStays DEF PartialOnlyIfLost, PartialIn, Last
<1> QED BY <1>2, <1>4, <1>5

-----------------------------------------------------------------------------
\* The runtime handles the first payload of the channel.
LEMMA HandleLoss ==
  ASSUME IInv, LossInv, HandleKline
  PROVE  LossInv'
<1> SUFFICES ASSUME NEW n, n = Len(queue), NEW h, h = Head(queue)
             PROVE  LossInv'
  OBVIOUS
<1>1. /\ n \in Nat /\ n >= 1 /\ h = queue[1] /\ Len(queue') = n - 1
      /\ \A i \in 1..(n - 1) : queue'[i] = queue[i + 1]
      /\ phase = "loop" /\ phase' = "loop" /\ Apply(h)
      /\ UNCHANGED <<minute, lost, rows>>
  <2>1. queue \in Seq(Candle) /\ queue # <<>>
    BY DEF IInv, TypeOK, HandleKline
  <2> QED
    BY <2>1, HeadTailProperties, EmptySeq, LenProperties DEF HandleKline
<1>2. /\ minute \in Nat /\ h \in Candle /\ h.open \in Nat
      /\ \A i \in 1..n : queue[i].open \in Nat
      /\ window.ring # <<>> => Last.open \in Nat
  BY <1>1, KlineNumbers DEF Last
<1>3. ASSUME NEW m \in Nat, Reported(m), ~(h.closed /\ h.open = m)
      PROVE  Reported(m)'
  <2>1. CASE InQueue(m)
    <3>1. PICK i \in 1..n : queue[i].closed /\ queue[i].open = m
      BY <2>1 DEF InQueue
    <3>2. (i - 1) \in 1..(n - 1) /\ queue'[i - 1] = queue[i]
      BY <1>1, <1>3, <3>1
    <3> QED BY <1>1, <3>1, <3>2 DEF Reported, InQueue
  <2> QED BY <1>1, <1>3, <2>1 DEF Reported
<1>4. /\ \A i \in 1..n : queue[i].closed =>
           /\ queue[i].final /\ queue[i].open < minute
           /\ \A m \in Nat : queue[i].open < m /\ m < minute => Reported(m)
      /\ \A i, j \in 1..n :
           i < j /\ queue[i].closed /\ queue[j].closed => queue[i].open < queue[j].open
  BY DEF LossInv, QueueOK, ReportedAfter
<1>5. h.closed => \A i \in 1..n : queue[i].closed => h.open <= queue[i].open
  BY <1>1, <1>2, <1>4
<1>6. QueueOK'
  <2>1. ASSUME NEW i \in 1..(n - 1), queue'[i].closed
        PROVE  /\ queue'[i].final /\ queue'[i].open < minute'
               /\ \A m \in Nat : queue'[i].open < m /\ m < minute' => Reported(m)'
    <3>1. (i + 1) \in 1..n /\ queue'[i] = queue[i + 1] /\ 1 < i + 1
      BY <1>1
    <3>2. h.closed => h.open < queue'[i].open
      BY <1>1, <1>4, <2>1, <3>1
    <3> QED BY <1>1, <1>2, <1>3, <1>4, <2>1, <3>1, <3>2
  <2>2. ASSUME NEW i \in 1..(n - 1), NEW j \in 1..(n - 1), i < j,
               queue'[i].closed, queue'[j].closed
        PROVE  queue'[i].open < queue'[j].open
    BY <1>1, <1>4, <2>2
  <2> QED BY <1>1, <2>1, <2>2 DEF QueueOK, ReportedAfter
<1>7. RowsOK'
  BY <1>1 DEF RowsOK
<1>8. CASE ~Accepts(window, h)
  <2>1. window' = window
    BY <1>1, <1>8 DEF Apply, ApplyKline
  <2>2. ASSUME window.ring # <<>>
        PROVE  /\ \A m \in Nat : Last.open < m /\ m < minute => Reported(m)'
               /\ ~Last.final => \A m \in Nat : Last.open <= m /\ m < minute => Reported(m)'
               /\ Last.final => /\ Last.open < minute
                                /\ \A i \in 1..(n - 1) :
                                     queue'[i].closed => Last.open < queue'[i].open
    <3>1. h.closed => h.open < Last.open
      BY <1>2, <1>8, <2>2 DEF Accepts, LastOpen, Last
    <3>2. /\ \A m \in Nat : Last.open < m /\ m < minute => Reported(m)
          /\ ~Last.final => \A m \in Nat : Last.open <= m /\ m < minute => Reported(m)
          /\ Last.final => /\ Last.open < minute
                           /\ \A i \in 1..n : queue[i].closed => Last.open < queue[i].open
      BY <1>1, <2>2 DEF LossInv, LoopOK, ReportedAfter, ReportedFrom
    <3>3. \A m \in Nat : Last.open <= m => ~(h.closed /\ h.open = m)
      BY <1>2, <2>2, <3>1
    <3>4. \A m \in Nat : Last.open < m => Last.open <= m
      BY <1>2, <2>2
    <3>5. \A i \in 1..(n - 1) : (i + 1) \in 1..n
      BY <1>1
    <3>6. \A m \in Nat : Last.open < m /\ m < minute => Reported(m)'
      BY <1>3, <3>2, <3>3, <3>4
    <3>7. ~Last.final => \A m \in Nat : Last.open <= m /\ m < minute => Reported(m)'
      BY <1>3, <3>2, <3>3
    <3> QED BY <1>1, <3>2, <3>5, <3>6, <3>7
  <2>3. LoopOK'
    BY <1>1, <2>1, <2>2 DEF LoopOK, Last, ReportedAfter, ReportedFrom
  <2>4. HolesLost' /\ PartialOnlyIfLost'
    BY <1>1, <2>1 DEF LossInv, HolesLost, PartialOnlyIfLost
  <2> QED BY <1>6, <1>7, <2>3, <2>4 DEF LossInv
<1>9. CASE Accepts(window, h)
  <2>1. h.closed /\ h.final /\ h.open < minute
    BY <1>1, <1>4, <1>9 DEF Accepts
  <2>2. \A m \in Nat : m < h.open => ~InQueue(m)
    BY <1>2, <1>5, <2>1 DEF InQueue
  <2>3. ASSUME window.ring # <<>>
        PROVE  /\ \A m \in Nat : Last.open < m /\ m < h.open => m \in lost
               /\ Last.open < h.open => Last.final \/ Last.open \in lost
    <3>1. /\ \A m \in Nat : Last.open < m /\ m < minute => Reported(m)
          /\ ~Last.final => \A m \in Nat : Last.open <= m /\ m < minute => Reported(m)
      BY <1>1, <2>3 DEF LossInv, LoopOK, ReportedAfter, ReportedFrom
    <3>2. \A m \in Nat : m < h.open => m < minute
      BY <1>2, <2>1
    <3>3. \A m \in Nat : Last.open < m /\ m < h.open => m \in lost
      BY <2>2, <3>1, <3>2 DEF Reported
    <3>4. PICK a \in Nat : a = Last.open
      BY <1>2, <2>3
    <3>5. ~Last.final /\ a < h.open => a \in lost
      BY <2>2, <3>1, <3>2, <3>4 DEF Reported
    <3> QED BY <3>3, <3>4, <3>5
  <2>4. HolesLost' /\ PartialOnlyIfLost' /\ window'.ring # <<>> /\ Last' = h
    BY <1>1, <1>2, <1>9, <2>3, AcceptedLoss DEF LossInv
  <2>5. \A i \in 1..(n - 1) : queue'[i].closed => h.open < queue'[i].open
    <3>1. \A i \in 1..(n - 1) : (i + 1) \in 1..n /\ 1 < i + 1 /\ 1 \in 1..n
      BY <1>1
    <3> QED BY <1>1, <1>4, <2>1, <3>1
  <2>6. \A m \in Nat : h.open < m /\ m < minute => Reported(m)'
    <3>1. \A m \in Nat : h.open < m /\ m < minute => Reported(m)
      BY <1>1, <1>4, <2>1
    <3>2. \A m \in Nat : h.open < m => h.open # m
      BY <1>2
    <3> QED BY <1>3, <3>1, <3>2
  <2>7. LoopOK'
    BY <1>1, <2>1, <2>4, <2>5, <2>6 DEF LoopOK, ReportedAfter
  <2> QED BY <1>6, <1>7, <2>4, <2>7 DEF LossInv
<1> QED BY <1>8, <1>9

-----------------------------------------------------------------------------
\* A response ends with the minute in progress; its rows follow each other.
LEMMA RestRowsFollow ==
  ASSUME NEW R, R = RestRows, minute \in Nat
  PROVE  /\ R # <<>> /\ R[Len(R)].open = minute /\ ~R[Len(R)].final
         /\ \A i \in 1..Len(R) :
              /\ R[i].closed /\ R[i].open = R[1].open + (i - 1)
              /\ i < Len(R) => R[i].final
<1> DEFINE from == IF minute < RestLimit THEN 0 ELSE minute - RestLimit + 1
<1>1. /\ from \in Nat /\ from <= minute
      /\ R = [i \in 1..(minute - from + 1) |->
                [open |-> from + i - 1, closed |-> TRUE, final |-> from + i - 1 < minute]]
  BY BoundAssumption DEF RestRows
<1> HIDE DEF from
<1>2. PICK n \in Nat : n = minute - from + 1 /\ n >= 1
  BY <1>1
<1>3. R = [i \in 1..n |->
             [open |-> from + i - 1, closed |-> TRUE, final |-> from + i - 1 < minute]]
  BY <1>1, <1>2
<1>4. Len(R) = n /\ R # <<>>
  BY <1>2, <1>3
<1>5. \A i \in 1..n : /\ R[i].closed /\ R[i].open = from + i - 1
                      /\ R[i].final <=> from + i - 1 < minute
  <2> SUFFICES ASSUME NEW i \in 1..n
               PROVE  /\ R[i].closed /\ R[i].open = from + i - 1
                      /\ R[i].final <=> from + i - 1 < minute
    OBVIOUS
  <2>1. R[i] = [open |-> from + i - 1, closed |-> TRUE, final |-> from + i - 1 < minute]
    BY <1>3
  <2>2. R[i].closed /\ R[i].open = from + i - 1
    BY <2>1
  <2>3. R[i].final = (from + i - 1 < minute)
    <3>1. PICK late : late = (from + i - 1 < minute)
      OBVIOUS
    <3>2. R[i] = [open |-> from + i - 1, closed |-> TRUE, final |-> late]
      BY <2>1, <3>1
    <3>3. R[i].final = late
      BY <3>2
    <3> QED BY <3>1, <3>3
  <2> QED BY <2>2, <2>3
<1>6. 1 \in 1..n /\ n \in 1..n /\ from + n - 1 = minute
  BY <1>1, <1>2
<1>7. R[1].open = from /\ R[n].open = minute /\ ~R[n].final
  <2>1. R[1].open = from + 1 - 1 /\ R[n].open = from + n - 1
        /\ (R[n].final <=> from + n - 1 < minute)
    BY <1>5, <1>6
  <2>2. from + 1 - 1 = from /\ ~(from + n - 1 < minute)
    BY <1>1, <1>2
  <2> QED BY <1>6, <2>1, <2>2
<1>8. \A i \in 1..n : R[i].closed /\ R[i].open = R[1].open + (i - 1)
  BY <1>1, <1>5, <1>7
<1>9. \A i \in 1..n : i < n => R[i].final
  <2>1. \A i \in 1..n : i < n => from + i - 1 < minute
    BY <1>1, <1>2
  <2> QED BY <1>5, <2>1
<1> QED BY <1>4, <1>7, <1>8, <1>9

\* The request of the bootstrap is answered, or fails.
LEMMA RequestLoss ==
  ASSUME IInv, LossInv, KlinesArrive \/ BootstrapFails
  PROVE  LossInv'
<1>1. /\ UNCHANGED <<minute, queue, lost, window>>
      /\ window.ring = <<>> /\ minute \in Nat
  BY KlineNumbers DEF KlinesArrive, BootstrapFails, LossInv, RowsOK
<1>2. QueueOK' /\ HolesLost' /\ PartialOnlyIfLost' /\ LoopOK'
  BY <1>1 DEF LossInv, QueueOK, ReportedAfter, Reported, InQueue, HolesLost,
              PartialOnlyIfLost, LoopOK
<1>3. RowsOK'
  <2>1. CASE KlinesArrive
    <3>1. PICK R : R = RestRows
      OBVIOUS
    <3>2. rows' = R /\ phase' = "rows"
      BY <2>1, <3>1 DEF KlinesArrive
    <3>3. /\ R # <<>> /\ R[Len(R)].open = minute /\ ~R[Len(R)].final
          /\ \A i \in 1..Len(R) :
               /\ R[i].closed /\ R[i].open = R[1].open + (i - 1)
               /\ i < Len(R) => R[i].final
      BY <1>1, <3>1, RestRowsFollow
    <3>4. ReportedFrom(rows[Len(rows)].open)'
      BY <1>1, <3>2, <3>3 DEF ReportedFrom
    <3>5. Len(window.ring) = 0
      BY <1>1
    <3> QED BY <1>1, <3>2, <3>3, <3>4, <3>5 DEF RowsOK
  <2>2. CASE BootstrapFails
    BY <2>2 DEF RowsOK, BootstrapFails
  <2> QED BY <2>1, <2>2
<1> QED BY <1>2, <1>3 DEF LossInv

\* A row of the response is applied.
LEMMA RowLoss ==
  ASSUME IInv, LossInv, BootstrapKlines
  PROVE  LossInv'
<1> SUFFICES ASSUME NEW n, n = Len(rows), NEW h, h = Head(rows),
                    NEW r, r = window.ring, NEW r2, r2 = window'.ring
             PROVE  LossInv'
  OBVIOUS
<1>1. /\ n \in Nat /\ n >= 1 /\ h = rows[1] /\ Len(rows') = n - 1
      /\ \A i \in 1..(n - 1) : rows'[i] = rows[i + 1]
      /\ phase = "rows" /\ Apply(h)
      /\ phase' = IF n = 1 THEN "loop" ELSE "rows"
      /\ UNCHANGED <<minute, lost, queue>>
      /\ rows' \in Seq(Candle)
  <2>1. rows \in Seq(Candle) /\ rows # <<>>
    BY DEF IInv, TypeOK, BootstrapKlines
  <2> QED
    BY <2>1, HeadTailProperties, EmptySeq, LenProperties DEF BootstrapKlines
<1>2. /\ h \in Candle /\ h.open \in Nat /\ h.closed
      /\ \A i \in 1..n : rows[i].open \in Nat /\ rows[i].closed
                         /\ rows[i].open = rows[1].open + (i - 1)
                         /\ (i < n => rows[i].final)
      /\ ~rows[n].final /\ ReportedFrom(rows[n].open)
      /\ r # <<>> => Last.open \in Nat /\ h.open = Last.open + 1
      /\ \A i \in 1..Len(r) : r[i].final
      /\ Len(r) \in Nat /\ (r # <<>> => Len(r) \in 1..Len(r))
  <2>1. /\ \A i \in 1..n : rows[i] \in Candle /\ rows[i].open \in Nat
        /\ Len(r) \in Nat /\ (r # <<>> => Len(r) \in 1..Len(r))
        /\ \A i \in 1..Len(r) : r[i].open \in Nat
    BY KlineNumbers
  <2>2. 1 \in 1..n
    BY <1>1
  <2>3. /\ \A i \in 1..n : rows[i].closed /\ rows[i].open = rows[1].open + (i - 1)
                           /\ (i < n => rows[i].final)
        /\ ~rows[n].final /\ ReportedFrom(rows[n].open)
        /\ r # <<>> => rows[1].open = Last.open + 1
        /\ \A i \in 1..Len(r) : r[i].final
    BY <1>1 DEF LossInv, RowsOK, ReportedFrom
  <2>4. r # <<>> => Last.open \in Nat
    BY <2>1 DEF Last
  <2> QED BY <1>1, <2>1, <2>2, <2>3, <2>4
<1>3. Accepts(window, h)
  BY <1>2 DEF Accepts, LastOpen, Last
<1>4. r # <<>> => /\ \A m \in Nat : Last.open < m /\ m < h.open => m \in lost
                  /\ Last.open < h.open => Last.final \/ Last.open \in lost
  BY <1>2 DEF Last
<1>5. /\ HolesLost' /\ PartialOnlyIfLost' /\ r2 # <<>> /\ Last' = h
      /\ Replaced(r, r2, h) \/ Grown(r, r2, h) \/ Shifted(r, r2, h)
  BY <1>1, <1>2, <1>3, <1>4, AcceptedLoss DEF LossInv
<1>6. QueueOK'
  BY <1>1 DEF LossInv, QueueOK, ReportedAfter, Reported, InQueue
<1>7. \A a \in Nat : ReportedFrom(a) => ReportedFrom(a)' /\ ReportedAfter(a)'
  BY <1>1 DEF ReportedFrom, ReportedAfter, Reported, InQueue
<1>8. CASE n = 1
  <2>1. ReportedFrom(h.open)
    BY <1>1, <1>2, <1>8 DEF ReportedFrom
  <2>2. ReportedFrom(h.open)' /\ ReportedAfter(h.open)'
    BY <1>2, <1>7, <2>1 DEF ReportedFrom, ReportedAfter
  <2>3. ~h.final
    BY <1>1, <1>2, <1>8
  <2>4. LoopOK'
    BY <1>5, <2>2, <2>3 DEF LoopOK, ReportedFrom, ReportedAfter
  <2>5. RowsOK'
    BY <1>1, <1>8 DEF RowsOK
  <2> QED BY <1>5, <1>6, <2>4, <2>5 DEF LossInv
<1>9. CASE n # 1
  <2>1. phase' = "rows" /\ h.final
    <3>1. 1 \in 1..n /\ 1 < n
      BY <1>1, <1>9
    <3>2. rows[1].final
      BY <1>2, <3>1
    <3> QED BY <1>1, <1>9, <3>2
  <2>2. \A i \in 1..Len(r2) : r2[i].final
    <3>1. r2[Len(r2)] = h
      BY <1>5 DEF Last
    <3>2. Len(r2) \in Nat
      BY <1>2, <1>5 DEF Replaced, Grown, Shifted
    <3>3. \A i \in 1..(Len(r2) - 1) : r2[i].final
      <4> SUFFICES ASSUME NEW i \in 1..(Len(r2) - 1) PROVE r2[i].final
        OBVIOUS
      <4>1. CASE Replaced(r, r2, h)
        <5>1. i \in 1..Len(r) /\ r2[i] = r[i]
          BY <1>2, <4>1 DEF Replaced
        <5> QED BY <1>2, <5>1
      <4>2. CASE Grown(r, r2, h)
        <5>1. i \in 1..Len(r) /\ r2[i] = r[i]
          BY <1>2, <4>2 DEF Grown
        <5> QED BY <1>2, <5>1
      <4>3. CASE Shifted(r, r2, h)
        <5>1. (i + 1) \in 1..Len(r) /\ r2[i] = r[i + 1]
          BY <1>2, <4>3 DEF Shifted
        <5> QED BY <1>2, <5>1
      <4> QED BY <1>5, <4>1, <4>2, <4>3
    <3> QED BY <2>1, <3>1, <3>2, <3>3
  <2>3. /\ rows' # <<>> /\ (n - 1) \in 1..(n - 1) /\ rows'[n - 1] = rows[n]
        /\ rows'[1] = rows[2] /\ rows[2].open = h.open + 1
    <3>1. (n - 1) \in 1..(n - 1) /\ 1 \in 1..(n - 1) /\ 2 \in 1..n /\ 1 + 1 = 2
          /\ (n - 1) + 1 = n
      BY <1>1, <1>9
    <3>2. rows' # <<>>
      BY <1>1, <3>1, EmptySeq
    <3>3. rows'[n - 1] = rows[n] /\ rows'[1] = rows[2]
      BY <1>1, <3>1
    <3>4. rows[2].open = rows[1].open + (2 - 1)
      BY <1>2, <3>1
    <3>5. rows[2].open = h.open + 1
      BY <1>1, <3>4
    <3> QED BY <3>1, <3>2, <3>3, <3>5
  <2>4. ASSUME NEW i \in 1..(n - 1)
        PROVE  /\ rows'[i].closed /\ rows'[i].open = rows'[1].open + (i - 1)
               /\ i < n - 1 => rows'[i].final
    <3>1. (i + 1) \in 1..n /\ rows'[i] = rows[i + 1] /\ (i < n - 1 => i + 1 < n)
      BY <1>1
    <3>2. rows[i + 1].open = rows[1].open + i /\ rows[1].open \in Nat /\ i \in Nat
      BY <1>1, <1>2, <3>1
    <3>3. rows[1].open + i = (rows[1].open + 1) + (i - 1)
      BY <3>2
    <3> QED BY <1>1, <1>2, <2>3, <3>1, <3>2, <3>3
  <2>5. ReportedFrom(rows[Len(rows)].open)'
    <3>1. PICK a \in Nat : a = rows[n].open
      BY <1>1, <1>2
    <3>2. ReportedFrom(a)'
      BY <1>2, <1>7, <3>1 DEF ReportedFrom
    <3> QED BY <1>1, <2>3, <3>1, <3>2 DEF ReportedFrom
  <2>6. RowsOK'
    <3>1. ~rows'[Len(rows')].final /\ rows'[1].open = Last'.open + 1
      BY <1>1, <1>2, <1>5, <2>3
    <3> QED BY <1>1, <2>1, <2>2, <2>3, <2>4, <2>5, <3>1 DEF RowsOK
  <2>7. LoopOK'
    BY <2>1 DEF LoopOK
  <2> QED BY <1>5, <1>6, <2>6, <2>7 DEF LossInv
<1> QED BY <1>8, <1>9

THEOREM LossInvariance == Spec => [](IInv /\ LossInv)
<1>1. Init => LossInv
  BY InitLossInv
<1>2. IInv /\ LossInv /\ [Next]_vars => LossInv'
  <2>1. ASSUME IInv, LossInv, UNCHANGED vars PROVE LossInv'
    BY <2>1 DEF LossInv, QueueOK, RowsOK, LoopOK, HolesLost, PartialOnlyIfLost, Last,
                ReportedFrom, ReportedAfter, Reported, InQueue, vars
  <2> QED
    BY <2>1, StreamLoss, RequestLoss, RowLoss, HandleLoss DEF Next
<1> QED
  BY <1>1, <1>2, Invariant, PTL DEF Spec

\* A partial row of the bootstrap stays in the window only if the stream lost
\* the payload that closes its minute, for every length of response and ring.
THEOREM PartialsAreLosses == Spec => []PartialOnlyIfLost
<1>1. LossInv => PartialOnlyIfLost
  BY DEF LossInv
<1> QED
  BY <1>1, LossInvariance, PTL

\* A minute is missing from the window only if its closing payload was lost.
THEOREM HolesAreLost == Spec => []HolesAreLosses
<1>1. ASSUME IInv, LossInv PROVE HolesAreLosses
  <2> SUFFICES ASSUME window.ring # <<>>,
                      NEW m \in window.ring[1].open..LastOpen(window.ring), m \notin Opens
               PROVE  m \in lost
    BY DEF HolesAreLosses
  <2>1. window.ring[1].open \in Nat /\ LastOpen(window.ring) \in Nat
    <3>1. Len(window.ring) \in Nat /\ Len(window.ring) \in 1..Len(window.ring)
          /\ \A i \in 1..Len(window.ring) : window.ring[i].open \in Nat
      BY <1>1, KlineNumbers
    <3>2. 1 \in 1..Len(window.ring)
      BY <3>1
    <3> QED BY <3>1, <3>2 DEF LastOpen
  <2>2. m \in Nat /\ window.ring[1].open <= m /\ m <= LastOpen(window.ring)
    BY <2>1
  <2> QED
    BY <1>1, <2>2 DEF LossInv, HolesLost, HolesIn, Opens, LastOpen
<1> QED
  BY <1>1, LossInvariance, PTL

-----------------------------------------------------------------------------
(***************************************************************************)
(* The ATR chain.  A candle is only ever replaced once, when the stream    *)
(* completes the last row of the bootstrap.                                *)
(***************************************************************************)
\* The recorded ATRs are those of the end of the window.
ChainOK ==
  LET n == Len(window.ring) IN
  /\ \A i \in 1..n : window.ring[i].closed
  /\ n < AtrCandles => atr.latest = NoCandle /\ seams = {}
  /\ n >= AtrCandles => atr.latest = window.ring[n]
  /\ n > AtrCandles => \/ atr.prev = window.ring[n - 1]
                       \/ ~atr.prev.final /\ seams = {window.ring[n].open}

\* There is no seam before the bootstrap's last row is replaced.
SeamsOK ==
  /\ seams = {} \/ \E m \in Nat : seams = {m}
  /\ phase # "loop" => seams = {}
  /\ phase = "loop" /\ window.ring # <<>> /\ ~Last.final => seams = {}

AtrInv == ChainOK /\ SeamsOK

\* Recording an accepted candle.  It replaces the last one only if that one is
\* not final and nothing was replaced before.
LEMMA RecordChains ==
  ASSUME IInv, AtrInv, NEW c \in Candle, Accepts(window, c), Apply(c),
         window.ring # <<>> /\ c.open = Last.open => ~Last.final /\ seams = {}
  PROVE  /\ ChainOK' /\ Last' = c
         /\ seams' = {} \/ \E m \in Nat : seams' = {m}
         /\ seams' = seams \/ (window.ring # <<>> /\ c.open = Last.open)
<1>0. PICK r, r2, n, n2 : /\ r = window.ring /\ r2 = window'.ring
                          /\ n = Len(r) /\ n2 = Len(r2)
  OBVIOUS
<1> USE <1>0
<1> DEFINE Chained ==
             /\ \A i \in 1..n2 : r2[i].closed
             /\ n2 < AtrCandles => atr'.latest = NoCandle /\ seams' = {}
             /\ n2 >= AtrCandles => atr'.latest = r2[n2]
             /\ n2 > AtrCandles => \/ atr'.prev = r2[n2 - 1]
                                   \/ ~atr'.prev.final /\ seams' = {r2[n2].open}
           Kept ==
             /\ r2[n2] = c
             /\ seams' = {} \/ \E m \in Nat : seams' = {m}
             /\ seams' = seams \/ (r # <<>> /\ c.open = r[n].open)
<1>1. WindowOK(window) /\ window' = ApplyKline(window, c) /\ Record
  BY DEF IInv, TypeOK, WindowExact, WindowOK, Apply
<1>2. /\ r2 \in Seq(Candle) /\ r2 # <<>> /\ r2[n2] = c
      /\ Replaced(r, r2, c) \/ Grown(r, r2, c) \/ Shifted(r, r2, c)
  BY <1>1, AppliedPlaces
<1>3. /\ n \in Nat /\ n2 \in Nat /\ n2 >= 1 /\ r \in Seq(Candle) /\ (r # <<>> <=> n >= 1)
      /\ c.open \in Nat /\ \A i \in 1..n : r[i].open \in Nat
      /\ AtrCandles \in Nat /\ AtrCandles >= 1
  <2>1. r \in Seq(Candle) /\ \A i \in 1..n : r[i].open \in Nat
    BY KlineNumbers
  <2>2. n \in Nat /\ n2 \in Nat /\ n2 >= 1 /\ (r # <<>> <=> n >= 1)
    BY <1>2, <2>1, EmptySeq, LenProperties
  <2> QED BY <2>1, <2>2, BoundAssumption DEF Candle
<1>4. /\ \A i \in 1..n : r[i].closed
      /\ n < AtrCandles => atr.latest = NoCandle /\ seams = {}
      /\ n >= AtrCandles => atr.latest = r[n]
      /\ n > AtrCandles => \/ atr.prev = r[n - 1]
                           \/ ~atr.prev.final /\ seams = {r[n].open}
      /\ seams = {} \/ \E m \in Nat : seams = {m}
  BY DEF AtrInv, ChainOK, SeamsOK
<1>5. c.closed /\ \A i \in 1..n2 : r2[i].closed
  <2>1. c.closed
    BY DEF Accepts
  <2>2. ASSUME NEW i \in 1..n2, i # n2 PROVE r2[i].closed
    <3>1. i \in 1..(n2 - 1)
      BY <1>3, <2>2
    <3>2. CASE Replaced(r, r2, c)
      <4>1. i \in 1..n /\ r2[i] = r[i]
        BY <1>3, <3>1, <3>2 DEF Replaced
      <4> QED BY <1>4, <4>1
    <3>3. CASE Grown(r, r2, c)
      <4>1. i \in 1..n /\ r2[i] = r[i]
        BY <1>3, <3>1, <3>3 DEF Grown
      <4> QED BY <1>4, <4>1
    <3>4. CASE Shifted(r, r2, c)
      <4>1. (i + 1) \in 1..n /\ r2[i] = r[i + 1]
        BY <1>3, <3>1, <3>4 DEF Shifted
      <4> QED BY <1>4, <4>1
    <3> QED BY <1>2, <3>2, <3>3, <3>4
  <2> QED BY <1>2, <2>1, <2>2
<1>6. ASSUME n2 < AtrCandles PROVE Chained /\ Kept
  <2>1. UNCHANGED <<atr, seams>>
    BY <1>1, <1>6 DEF Record
  <2>2. n < AtrCandles
    BY <1>2, <1>3, <1>6 DEF Replaced, Grown, Shifted
  <2>3. atr'.latest = NoCandle /\ seams' = {} /\ seams' = seams
    BY <1>4, <2>1, <2>2
  <2>4. ~(n2 >= AtrCandles) /\ ~(n2 > AtrCandles)
    BY <1>3, <1>6
  <2> QED BY <1>2, <1>5, <2>3, <2>4
<1>7. ASSUME ~(n2 < AtrCandles) PROVE Chained /\ Kept
  <2>1. /\ atr' = [latest |-> c, prev |-> atr.latest]
        /\ seams' = IF atr.latest # NoCandle /\ atr.latest.open = c.open
                     THEN seams \cup {c.open} ELSE seams
    BY <1>1, <1>2, <1>7 DEF Record
  <2>2. atr'.latest = c /\ atr'.prev = atr.latest
    BY <2>1
  <2>3. CASE Replaced(r, r2, c)
    <3>1. /\ n2 = n /\ n >= AtrCandles /\ r # <<>> /\ c.open = r[n].open /\ n \in 1..n
          /\ atr.latest = r[n]
      BY <1>3, <1>4, <1>7, <2>3 DEF Replaced
    <3>2. ~r[n].final /\ seams = {}
      BY <3>1 DEF Last
    <3>3. r[n].closed
      BY <1>4, <3>1
    <3>4. atr.latest # NoCandle
      BY <3>1, <3>3 DEF NoCandle
    <3>5. seams' = {c.open}
      BY <2>1, <3>1, <3>2, <3>4
    <3>6. ~atr'.prev.final
      BY <2>2, <3>1, <3>2
    <3> QED BY <1>2, <1>3, <1>5, <1>7, <2>2, <3>1, <3>5, <3>6
  <2>4. CASE Grown(r, r2, c) \/ Shifted(r, r2, c)
    <3>1. seams' = seams
      <4>1. CASE n < AtrCandles
        BY <1>4, <2>1, <4>1
      <4>2. CASE ~(n < AtrCandles)
        <5>1. r # <<>> /\ n \in 1..n /\ atr.latest = r[n]
          BY <1>3, <1>4, <4>2
        <5>2. r[n].open < c.open /\ r[n].open \in Nat
          BY <1>3, <2>4, <5>1 DEF Grown, Shifted
        <5>3. atr.latest.open # c.open
          BY <1>3, <5>1, <5>2
        <5> QED BY <2>1, <5>3
      <4> QED BY <4>1, <4>2
    <3>2. n2 > AtrCandles => atr'.prev = r2[n2 - 1]
      <4> SUFFICES ASSUME n2 > AtrCandles PROVE atr.latest = r2[n2 - 1]
        BY <2>2
      <4>1. CASE Grown(r, r2, c)
        <5>1. n2 - 1 = n /\ n >= AtrCandles /\ n \in 1..n
          BY <1>3, <4>1 DEF Grown
        <5> QED BY <1>4, <4>1, <5>1 DEF Grown
      <4>2. CASE Shifted(r, r2, c)
        <5>1. n2 = n /\ n >= AtrCandles /\ (n - 1) \in 1..(n - 1) /\ (n - 1) + 1 = n
          BY <1>3, <4>2 DEF Shifted
        <5> QED BY <1>4, <4>2, <5>1 DEF Shifted
      <4> QED BY <2>4, <4>1, <4>2
    <3> QED BY <1>2, <1>3, <1>4, <1>5, <1>7, <2>2, <3>1, <3>2
  <2> QED BY <1>2, <2>3, <2>4
<1>8. Chained /\ Kept
  BY <1>6, <1>7
<1>9. ChainOK'
  BY <1>8, Zenon DEF ChainOK
<1>10. Last' = c
  BY <1>8 DEF Last
<1> QED BY <1>8, <1>9, <1>10 DEF Last

LEMMA AtrStep ==
  ASSUME IInv, LossInv, AtrInv, [Next]_vars
  PROVE  AtrInv'
<1>1. CASE UNCHANGED vars \/ OpenKline \/ MinuteCloses \/ Disconnect \/ Reconnect
  <2>1. UNCHANGED <<phase, window, atr, seams>>
    BY <1>1 DEF vars, OpenKline, MinuteCloses, Disconnect, Reconnect, engineVars
  <2> QED BY <2>1 DEF AtrInv, ChainOK, SeamsOK, Last
<1>2. CASE KlinesArrive \/ BootstrapFails
  <2>1. UNCHANGED <<window, atr, seams>> /\ phase = "bootstrap"
    BY <1>2 DEF KlinesArrive, BootstrapFails
  <2> QED BY <2>1 DEF AtrInv, ChainOK, SeamsOK, Last
<1>3. CASE BootstrapKlines
  <2> SUFFICES ASSUME NEW h, h = Head(rows) PROVE AtrInv'
    OBVIOUS
  <2>1. /\ h = rows[1] /\ h \in Candle /\ 1 \in 1..Len(rows) /\ phase = "rows" /\ Apply(h)
        /\ phase' \in {"rows", "loop"}
    <3>1. rows \in Seq(Candle) /\ rows # <<>>
      BY <1>3 DEF IInv, TypeOK, BootstrapKlines
    <3> QED BY <1>3, <3>1, EmptySeq, LenProperties DEF BootstrapKlines
  <2>2. h.closed /\ (window.ring # <<>> => h.open = Last.open + 1 /\ Last.open \in Nat)
    BY <2>1, KlineNumbers DEF LossInv, RowsOK, Last
  <2>3. Accepts(window, h) /\ ~(window.ring # <<>> /\ h.open = Last.open)
    BY <2>2 DEF Accepts, LastOpen, Last
  <2>4. ChainOK' /\ seams' = seams
    BY <2>1, <2>3, RecordChains
  <2>5. seams = {}
    BY <2>1 DEF AtrInv, SeamsOK
  <2> QED BY <2>4, <2>5 DEF AtrInv, SeamsOK
<1>4. CASE HandleKline
  <2> SUFFICES ASSUME NEW h, h = Head(queue) PROVE AtrInv'
    OBVIOUS
  <2>1. /\ h = queue[1] /\ h \in Candle /\ 1 \in 1..Len(queue) /\ phase = "loop" /\ Apply(h)
        /\ phase' = "loop"
    <3>1. queue \in Seq(Candle) /\ queue # <<>>
      BY <1>4 DEF IInv, TypeOK, HandleKline
    <3> QED BY <1>4, <3>1, EmptySeq, LenProperties DEF HandleKline
  <2>2. CASE ~Accepts(window, h)
    <3>1. UNCHANGED <<window, atr, seams>>
      BY <2>1, <2>2 DEF Apply, ApplyKline
    <3> QED BY <2>1, <3>1 DEF AtrInv, ChainOK, SeamsOK, Last
  <2>3. CASE Accepts(window, h)
    <3>1. h.closed /\ h.final /\ h.open \in Nat
      BY <2>1, <2>3 DEF LossInv, QueueOK, Accepts, Candle
    <3>2. window.ring # <<>> /\ h.open = Last.open => ~Last.final /\ seams = {}
      <4> SUFFICES ASSUME window.ring # <<>>, h.open = Last.open
                   PROVE  ~Last.final /\ seams = {}
        OBVIOUS
      <4>1. Last.final => Last.open < queue[1].open
        BY <2>1, <3>1 DEF LossInv, LoopOK
      <4>2. ~Last.final
        BY <2>1, <3>1, <4>1
      <4> QED BY <2>1, <4>2 DEF AtrInv, SeamsOK
    <3>3. ChainOK' /\ Last' = h /\ (seams' = {} \/ \E m \in Nat : seams' = {m})
      BY <2>1, <2>3, <3>2, RecordChains
    <3> QED BY <2>1, <3>1, <3>3 DEF AtrInv, SeamsOK
  <2> QED BY <2>2, <2>3
<1> QED BY <1>1, <1>2, <1>3, <1>4 DEF Next

\* The two ATRs that latest_atr_delta_ratio divides are those of neighbouring
\* candles, except once in the life of a symbol: record_chart_components under
\* every order of rows and payloads.
THEOREM AtrsAreChained == Spec => []AtrsAreNeighbours
<1>1. Init => AtrInv
  <2>1. ASSUME Init PROVE window.ring = <<>> /\ Len(window.ring) = 0
    BY <2>1 DEF Init, NewWindow
  <2> QED
    <3> SUFFICES ASSUME Init PROVE AtrInv
      OBVIOUS
    <3>1. SeamsOK
      BY DEF Init, SeamsOK
    <3>2. /\ Len(window.ring) = 0 /\ atr.latest = NoCandle /\ seams = {}
          /\ 0 < AtrCandles /\ ~(0 >= AtrCandles) /\ ~(0 > AtrCandles) /\ 1..0 = {}
      <4>1. 0 < AtrCandles /\ ~(0 >= AtrCandles) /\ ~(0 > AtrCandles) /\ 1..0 = {}
        BY BoundAssumption
      <4>2. atr.latest = NoCandle /\ seams = {}
        BY DEF Init
      <4> QED BY <2>1, <4>1, <4>2
    <3>3. ChainOK
      BY <3>2 DEF ChainOK
    <3> QED BY <3>1, <3>3 DEF AtrInv
<1>2. ASSUME IInv, AtrInv PROVE AtrsAreNeighbours
  <2>1. Cardinality(seams) <= 1
    <3>1. CASE seams = {}
      BY <3>1, FS_EmptySet
    <3>2. CASE seams # {}
      <4>1. PICK m \in Nat : seams = {m}
        BY <1>2, <3>2 DEF AtrInv, SeamsOK
      <4> QED BY <4>1, FS_Singleton
    <3> QED BY <3>1, <3>2
  <2>2. Len(window.ring) > AtrCandles => Len(window.ring) >= AtrCandles
    BY <1>2, KlineNumbers, BoundAssumption
  <2> QED
    BY <1>2, <2>1, <2>2 DEF AtrInv, ChainOK, AtrsAreNeighbours
<1> QED
  BY <1>1, <1>2, AtrStep, LossInvariance, Invariant, PTL DEF Spec
=============================================================================
