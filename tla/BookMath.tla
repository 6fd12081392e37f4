------------------------------ MODULE BookMath ------------------------------
(***************************************************************************)
(* What FullBook computes from its levels (crates/state/src/book_full.rs): *)
(* visible liquidity, slippage, and depth imbalances, from which the LRI,  *)
(* DPI and RPI scores are made.  Prices and quantities are integers and    *)
(* quotients are compared by cross multiplication: rounding is left out.   *)
(***************************************************************************)
EXTENDS Integers, Sequences, SequencesExt, FiniteSets, FiniteSetsExt

CONSTANTS
  Prices,     \* prices of levels
  MaxQty,     \* bound: quantity of a level
  Notionals,  \* notional_usd asked of slippage_bp_for_notional
  Bands,      \* max_distance_bp asked of visible_liquidity_usd
  Unit        \* quantities bought are counted in parts of 1/Unit

ASSUME BookAssumption ==
  /\ Prices \subseteq Nat \ {0}
  /\ MaxQty \in Nat \ {0}
  /\ Notionals \subseteq Nat \ {0}
  /\ Bands \subseteq 0..10000
ASSUME UnitAssumption ==
  Unit \in Nat \ {0} /\ \A p \in Prices : p * (Unit \div p) = Unit

VARIABLES bids, asks   \* price -> quantity

levels == <<bids, asks>>

NoLevels == bids = <<>> /\ asks = <<>>

\* apply_levels with one level.
Apply(side, p, q) ==
  IF q = 0 THEN [x \in DOMAIN side \ {p} |-> side[x]]
  ELSE [x \in DOMAIN side \cup {p} |-> IF x = p THEN q ELSE side[x]]

\* The exchange does not let a bid reach an ask.
Uncrossed(b, a) == \A p \in DOMAIN b, r \in DOMAIN a : p < r

SetLevel ==
  /\ \E p \in Prices, q \in 0..MaxQty :
       \/ bids' = Apply(bids, p, q) /\ UNCHANGED asks
       \/ asks' = Apply(asks, p, q) /\ UNCHANGED bids
  /\ Uncrossed(bids', asks')

LevelsSpec == NoLevels /\ [][SetLevel]_levels

-----------------------------------------------------------------------------
\* Mutant: the bids are read in the order of the map.
BestFirstAscending(side, isBid) ==
  LET place(p) == 1 + Cardinality({r \in DOMAIN side : r < p})
  IN [i \in 1..Cardinality(DOMAIN side) |-> CHOOSE p \in DOMAIN side : place(p) = i]

\* Nearer to the other side of the book.
Nearer(isBid, p, r) == IF isBid THEN p > r ELSE p < r

\* Prices in the order of the iterators: bids reversed, asks as they are.
BestFirst(side, isBid) ==
  LET place(p) == 1 + Cardinality({r \in DOMAIN side : Nearer(isBid, r, p)})
  IN [i \in 1..Cardinality(DOMAIN side) |-> CHOOSE p \in DOMAIN side : place(p) = i]

HasMid == DOMAIN bids # {} /\ DOMAIN asks # {}

\* Twice the mid price.
Mid2 == BestFirst(bids, TRUE)[1] + BestFirst(asks, FALSE)[1]

Notional(side, prices) == SumFunctionOnSet([p \in DOMAIN side |-> p * side[p]], prices)
Quantity(side, prices) == SumFunctionOnSet(side, prices)

\* Mutant: the edge of the band is left out.
WithinOpen(p, isBid, d) ==
  IF isBid THEN 2 * p * 10000 > Mid2 * (10000 - d) ELSE 2 * p * 10000 < Mid2 * (10000 + d)

\* Not below bid_floor, or not above ask_ceiling.
Within(p, isBid, d) ==
  IF isBid THEN 2 * p * 10000 >= Mid2 * (10000 - d) ELSE 2 * p * 10000 <= Mid2 * (10000 + d)

\* take_while: the levels before the first one outside the band.
TakeWhile(side, isBid, d) ==
  LET all == BestFirst(side, isBid)
      stop == SelectInSeq(all, LAMBDA p : ~Within(p, isBid, d))
  IN ToSet(IF stop = 0 THEN all ELSE SubSeq(all, 1, stop - 1))

\* visible_liquidity_usd, where there is a mid price.
VisibleLiquidity(d) ==
  Notional(bids, TakeWhile(bids, TRUE, d)) + Notional(asks, TakeWhile(asks, FALSE, d))

\* Imbalances are given only where both sides have n levels.
HasTop(n) == Cardinality(DOMAIN bids) >= n /\ Cardinality(DOMAIN asks) >= n

Top(side, isBid, n) == ToSet(SubSeq(BestFirst(side, isBid), 1, n))

\* qty_imbalance_top_n and notional_imbalance_top_n are quotients of the
\* difference and the sum of these two.
QtyTop(n) == <<Quantity(bids, Top(bids, TRUE, n)), Quantity(asks, Top(asks, FALSE, n))>>
NotionalTop(n) == <<Notional(bids, Top(bids, TRUE, n)), Notional(asks, Top(asks, FALSE, n))>>

\* Mutant: a level is always used in full.
FillLevelWhole(side, p, state) ==
  IF state.remaining <= 0 THEN state
  ELSE [remaining |-> state.remaining - p * side[p],
        used |-> [state.used EXCEPT ![p] = p * side[p]]]

\* fill_level: notional taken from a level, at most what remains.
FillLevel(side, p, state) ==
  LET take == IF p * side[p] <= state.remaining THEN p * side[p] ELSE state.remaining
  IN [remaining |-> state.remaining - take,
      used |-> [state.used EXCEPT ![p] = take]]

\* The loop of slippage_bp_for_notional; acquired_qty is the sum of
\* used[p] / p, and the fill is dropped when something remains.  The break
\* leaves out turns in which fill_level returns at once.
Fill(side, isBid, notional) ==
  LET all == BestFirst(side, isBid)
      fill[i \in 0..Len(all)] ==
        IF i = 0 THEN [remaining |-> notional, used |-> [p \in DOMAIN side |-> 0]]
        ELSE FillLevel(side, all[i], fill[i - 1])
  IN fill[Len(all)]

\* Mutant: a fill that stops at the last level counts.
FilledPartly(side, isBid, notional) ==
  HasMid /\ Fill(side, isBid, notional).remaining < notional

\* slippage_bp_for_notional is Some: there is a mid price to compare with, and
\* nothing of the notional remains.
Filled(side, isBid, notional) ==
  HasMid /\ Fill(side, isBid, notional).remaining <= 0

\* A quantity sum(used[p] / p) in parts of 1/Unit.
Acquired(used) == SumFunction([p \in DOMAIN used |-> used[p] * (Unit \div p)])

-----------------------------------------------------------------------------
(***************************************************************************)
(* Properties.                                                             *)
(***************************************************************************)
\* Visible liquidity counts every level of the band: stopping at the first
\* level outside loses nothing.
LiquidityIsAllOfBand ==
  HasMid =>
    \A d \in Bands :
      VisibleLiquidity(d) =
        Notional(bids, {p \in DOMAIN bids : 10000 * (Mid2 - 2 * p) <= d * Mid2})
          + Notional(asks, {p \in DOMAIN asks : 10000 * (2 * p - Mid2) <= d * Mid2})

\* Other ways to trade the notional with the levels of a side.
Allocations(side, notional) ==
  {used \in [DOMAIN side -> 0..notional] :
     /\ \A p \in DOMAIN side : used[p] <= p * side[p]
     /\ SumFunction(used) = notional}

\* The fill behind a slippage is the best execution there is: no other way
\* to spend the notional buys more, none sells less for it.
FillIsBest ==
  \A n \in Notionals :
    /\ Filled(asks, FALSE, n) =>
         \A used \in Allocations(asks, n) :
           Acquired(used) <= Acquired(Fill(asks, FALSE, n).used)
    /\ Filled(bids, TRUE, n) =>
         \A used \in Allocations(bids, n) :
           Acquired(used) >= Acquired(Fill(bids, TRUE, n).used)

\* Slippage is reported exactly when the book has a mid price and the side
\* taken from holds the notional; a one-sided book reports none, however deep.
SlippageIffEnough ==
  \A n \in Notionals :
    /\ Filled(asks, FALSE, n) = (HasMid /\ Notional(asks, DOMAIN asks) >= n)
    /\ Filled(bids, TRUE, n) = (HasMid /\ Notional(bids, DOMAIN bids) >= n)

\* n levels, each nearer to the other side than every level left out.
Closest(side, isBid, n) ==
  CHOOSE T \in SUBSET DOMAIN side :
    /\ Cardinality(T) = n
    /\ \A p \in T, r \in DOMAIN side \ T : Nearer(isBid, p, r)

\* Imbalances are taken over the n levels closest to the other side.
TopIsClosest ==
  \A n \in 1..Cardinality(Prices) :
    HasTop(n) =>
      LET topBids == Closest(bids, TRUE, n)
          topAsks == Closest(asks, FALSE, n)
      IN /\ QtyTop(n) = <<Quantity(bids, topBids), Quantity(asks, topAsks)>>
         /\ NotionalTop(n) = <<Notional(bids, topBids), Notional(asks, topAsks)>>
=============================================================================
