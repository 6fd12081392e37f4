----------------------------- MODULE CandleRing -----------------------------
(***************************************************************************)
(* The window of closed one-minute candles a symbol keeps:                 *)
(* crates/state/src/candle_ring.rs and SymbolState::apply_kline.           *)
(*                                                                         *)
(* Open times are counted in minutes.  Of a candle's prices only one thing *)
(* matters here: whether they are the minute's final ones.                 *)
(***************************************************************************)
EXTENDS Integers, Sequences

CONSTANT Capacity   \* RuntimeEngineConfig.candle_capacity

ASSUME CapacityAssumption == Capacity \in Nat \ {0}

\* closed is the payload's is_closed flag; final says the minute was over
\* when the prices were taken.
Candle == [open : Nat, closed : BOOLEAN, final : BOOLEAN]

\* The kline part of a SymbolState.  first and pushes are history: the first
\* candle ever accepted, and how many were pushed.
Window == [ring : Seq(Candle), gap : Nat, first : Nat, pushes : Nat]

NewWindow == [ring |-> <<>>, gap |-> 0, first |-> 0, pushes |-> 0]

LastOpen(ring) == ring[Len(ring)].open

\* Mutant: the oldest candle is dropped one push too late.
PushLate(ring, candle) ==
  Append(IF Len(ring) > Capacity THEN Tail(ring) ELSE ring, candle)

Push(ring, candle) ==
  Append(IF Len(ring) = Capacity THEN Tail(ring) ELSE ring, candle)

ReplaceLast(ring, candle) == [ring EXCEPT ![Len(ring)] = candle]

\* Minutes skipped between the last candle and one that opens at open.
Missed(ring, open) ==
  IF ring = <<>> \/ open <= LastOpen(ring) + 1 THEN 0
  ELSE open - (LastOpen(ring) + 1)

\* Mutant: a repeated open time is taken for an older candle.
AcceptsNewer(w, candle) ==
  candle.closed /\ (w.ring # <<>> => candle.open > LastOpen(w.ring))

\* apply_kline refuses open candles and those older than the last one.
Accepts(w, candle) ==
  candle.closed /\ (w.ring # <<>> => candle.open >= LastOpen(w.ring))

ApplyKline(w, candle) ==
  IF ~Accepts(w, candle) THEN w
  ELSE IF w.ring # <<>> /\ candle.open = LastOpen(w.ring)
    THEN [ring |-> ReplaceLast(w.ring, candle), gap |-> w.gap,
          first |-> w.first, pushes |-> w.pushes]
    ELSE [ring |-> Push(w.ring, candle),
          gap |-> w.gap + Missed(w.ring, candle.open),
          first |-> IF w.ring = <<>> THEN candle.open ELSE w.first,
          pushes |-> w.pushes + 1]

-----------------------------------------------------------------------------
\* A window holds the most recent candles, one per minute, in order, and
\* never more than the capacity.
Ordered(w) ==
  /\ \A i \in 1..(Len(w.ring) - 1) : w.ring[i].open < w.ring[i + 1].open
  /\ Len(w.ring) = IF w.pushes < Capacity THEN w.pushes ELSE Capacity

\* kline_gap_1m is exactly the number of minutes between the first and the
\* last candle that were never received, replaced candles and evictions
\* notwithstanding.
GapsCounted(w) ==
  IF w.ring = <<>> THEN w.gap = 0
  ELSE w.first + (w.pushes - 1) + w.gap = LastOpen(w.ring)
=============================================================================
