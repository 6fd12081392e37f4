---------------------------- MODULE Liquidations ----------------------------
(***************************************************************************)
(* The liquidation events a symbol remembers (apply_force_order in         *)
(* crates/state/src/symbol_state.rs) and the totals made of them, in the   *)
(* packet (crates/features/src/packet_builder.rs) and in the ranking of    *)
(* the universe (crates/app/src/runtime.rs).  The totals look back from    *)
(* the latest event remembered, whatever the time is.  Every event counts  *)
(* one unit of notional.                                                   *)
(***************************************************************************)
EXTENDS Integers, Sequences, FiniteSetsExt

CONSTANTS
  Cap,        \* events kept (512)
  WindowMs,   \* the windows asked for
  MaxLate,    \* bound: how far an event may lie behind the latest one
  MaxTime,    \* bound: time of the latest event
  MaxEvents   \* bound: events that arrive

ASSUME LiquidationAssumption ==
  /\ Cap \in Nat \ {0} /\ WindowMs \subseteq Nat
  /\ MaxLate \in Nat /\ MaxTime \in Nat /\ MaxEvents \in Nat

VARIABLES
  liquidations,  \* SymbolState.liquidations
  arrived        \* every event that arrived, in that order (history)

Sides == {"SELL", "BUY"}

LiqInit == liquidations = <<>> /\ arrived = <<>>

\* latest; 0 when there is none.
Latest(events) == Max({0} \cup {events[i].time : i \in DOMAIN events})

\* Mutant: the newest events are drained.
DrainNewest(events) == SubSeq(events, 1, IF Len(events) > Cap THEN Cap ELSE Len(events))

\* drain(0..overflow).
Drain(events) ==
  IF Len(events) > Cap THEN SubSeq(events, Len(events) - Cap + 1, Len(events)) ELSE events

ApplyForceOrder ==
  /\ Len(arrived) < MaxEvents
  /\ \E time \in 1..MaxTime, side \in Sides :
       LET event == [time |-> time, side |-> side] IN
       /\ time >= Latest(arrived) - MaxLate
       /\ arrived' = Append(arrived, event)
       /\ liquidations' = Drain(Append(liquidations, event))

\* The indices of the events that a total over ms counts.
Counted(events, ms) == {i \in DOMAIN events : Latest(events) - events[i].time <= ms}

\* liquidation_total and liquidation_total_for_universe.
LiquidationTotal(events, ms) == Cardinality(Counted(events, ms))

\* dominant_liquidation_side, of one window: whichever side has more.
DominantSide(events, ms) ==
  LET Of(side) == Cardinality({i \in Counted(events, ms) : events[i].side = side})
  IN IF Of("SELL") > Of("BUY") THEN "long"
     ELSE IF Of("BUY") > Of("SELL") THEN "short" ELSE "none"

\* The cap and late events alter the totals only when Cap events follow one
\* that belongs to the window: otherwise totals and side are those of
\* everything that arrived.
TotalsExact ==
  \A ms \in WindowMs :
    (\A i \in Counted(arrived, ms) : i > Len(arrived) - Cap) =>
      /\ LiquidationTotal(liquidations, ms) = LiquidationTotal(arrived, ms)
      /\ DominantSide(liquidations, ms) = DominantSide(arrived, ms)
=============================================================================
