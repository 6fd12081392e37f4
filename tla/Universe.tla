------------------------------ MODULE Universe ------------------------------
(***************************************************************************)
(* Which symbols are active and in focus, and the packet cache that the    *)
(* HTTP routes read while the engine task rewrites it                      *)
(* (RuntimeEngine in crates/app/src/runtime.rs, crates/api/src/cache.rs,   *)
(* crates/features/src/ranking.rs).                                        *)
(*                                                                         *)
(* The engine task handles one event at a time, but every cache operation  *)
(* takes the cache's lock for itself: a handler is the change of the       *)
(* engine's own state followed by the cache operations it queues in        *)
(* "pending", and a reader may come between any two of them.               *)
(*                                                                         *)
(* Symbols are numbers in alphabetical order; U0 scores are small          *)
(* integers, NoScore while the ticker fields are missing.                  *)
(***************************************************************************)
EXTENDS Integers, Sequences, FiniteSets

CONSTANTS
  Symbols,       \* all symbols of the market streams, a set of numbers
  AlwaysFocus,   \* universe.always_focus
  ActiveN,       \* universe.active_n
  FocusN,        \* universe.focus_n
  MaxScore       \* bound: U0 scores are 0..MaxScore

NoScore == -1

\* validate_config checks these and nothing about the length of always_focus.
ASSUME SymbolsAssumption ==
  /\ Symbols \subseteq Nat /\ IsFiniteSet(Symbols)
  /\ AlwaysFocus \in Seq(Symbols)
ASSUME SizeAssumption ==
  /\ ActiveN \in Nat \ {0}
  /\ FocusN \in Nat \ {0}
  /\ FocusN <= ActiveN
  /\ MaxScore \in Nat

VARIABLES
  known,      \* the keys of RuntimeEngine.states
  score,      \* score[s]: u0_score of the state of s
  active,     \* active_symbols
  focus,      \* focus_symbols
  cache,      \* the packet cache: symbol -> rank of its packet
  pending,    \* cache operations of the current handler, not yet done
  previous    \* active_symbols before the last recompute (history)

vars == <<known, score, active, focus, cache, pending, previous>>

Elements(seq) == {seq[i] : i \in 1..Len(seq)}

FirstN(seq, n) == SubSeq(seq, 1, IF Len(seq) < n THEN Len(seq) ELSE n)

\* canonical_symbols: upper case, cut to the limit, not deduplicated.
Canonical(limit) == FirstN(AlwaysFocus, limit)

Pinned == Canonical(ActiveN)

Init ==
  /\ known = Elements(AlwaysFocus)
  /\ score = [s \in Symbols |-> NoScore]
  /\ active = Canonical(ActiveN)
  /\ focus = Canonical(FocusN)
  /\ cache = <<>>
  /\ pending = <<>>
  /\ previous = Canonical(ActiveN)

-----------------------------------------------------------------------------
(***************************************************************************)
(* Ranking and recompute_universe.                                         *)
(***************************************************************************)
\* rank_candidates: score descending, then symbol ascending.
RanksBefore(scores, a, b) ==
  scores[a] > scores[b] \/ (scores[a] = scores[b] /\ a < b)

Scored(states, scores) == {s \in states : scores[s] # NoScore}

\* Mutant: the states are sorted by name.
RankedByName(states, scores) ==
  LET scored == Scored(states, scores)
      place(s) == 1 + Cardinality({r \in scored : r < s})
  IN FirstN([i \in 1..Cardinality(scored) |-> CHOOSE s \in scored : place(s) = i], ActiveN)

\* rank_u0_universe drops the states without a score, sorts and truncates.
Ranked(states, scores) ==
  LET scored == Scored(states, scores)
      place(s) == 1 + Cardinality({r \in scored : RanksBefore(scores, r, s)})
  IN FirstN([i \in 1..Cardinality(scored) |-> CHOOSE s \in scored : place(s) = i], ActiveN)

\* Mutant: the list is full one symbol too late.
FillUpOneMore(start, seq) ==
  LET fill[i \in 0..Len(seq)] ==
        IF i = 0 THEN start
        ELSE LET acc == fill[i - 1] IN
          IF Len(acc) > ActiveN \/ seq[i] \in Elements(acc) THEN acc
          ELSE Append(acc, seq[i])
  IN fill[Len(seq)]

\* One turn of the two loops: push the symbol unless it is there already or
\* the list is full.
PushNew(acc, s) ==
  IF Len(acc) >= ActiveN \/ s \in Elements(acc) THEN acc ELSE Append(acc, s)

\* Append the symbols of seq that are not there yet, up to ActiveN.
FillUp(start, seq) ==
  LET fill[i \in 0..Len(seq)] == IF i = 0 THEN start ELSE PushNew(fill[i - 1], seq[i])
  IN fill[Len(seq)]

ActiveFrom(ranked) == FillUp(FillUp(<<>>, Pinned), ranked)

\* refresh_symbol_at: the position in active_symbols, or 1.
RankOf(actives, s) ==
  IF s \in Elements(actives)
    THEN CHOOSE i \in 1..Len(actives) :
           actives[i] = s /\ \A j \in 1..(i - 1) : actives[j] # s
    ELSE 1

Upsert(s, rank) == [op |-> "upsert", symbols |-> {s}, rank |-> rank]
Retain(symbols) == [op |-> "retain", symbols |-> symbols, rank |-> 0]

Refresh(actives, s) == <<Upsert(s, RankOf(actives, s))>>

\* Mutant: every packet of the recompute gets the default rank.
RefreshAllDefault(actives) ==
  [i \in 1..Len(actives) |-> Upsert(actives[i], 1)]

RefreshAll(actives) ==
  [i \in 1..Len(actives) |-> Upsert(actives[i], i)]

RefreshIfActive(actives, s) ==
  IF s \in Elements(actives) THEN Refresh(actives, s) ELSE <<>>

\* Refreshes of a batch of events, of active symbols only.
RefreshActive(actives, batch) ==
  LET done[i \in 0..Len(batch)] ==
        IF i = 0 THEN <<>> ELSE done[i - 1] \o RefreshIfActive(actives, batch[i])
  IN done[Len(batch)]

\* Mutant: packets of symbols that left the universe stay cached.
RecomputeKeepsAll(refreshes) ==
  /\ active' = ActiveFrom(Ranked(known', score'))
  /\ focus' = FirstN(Ranked(known', score'), FocusN)
  /\ previous' = active
  /\ pending' = refreshes \o RefreshAll(active')

\* Mutant: the focus list is taken from the scores before the event.
RecomputeStaleFocus(refreshes) ==
  /\ active' = ActiveFrom(Ranked(known', score'))
  /\ focus' = FirstN(Ranked(known, score), FocusN)
  /\ previous' = active
  /\ pending' = refreshes \o <<Retain(Elements(active'))>> \o RefreshAll(active')

\* The engine's own changes of recompute_universe, after the refreshes the
\* event queued.
Recompute(refreshes) ==
  /\ active' = ActiveFrom(Ranked(known', score'))
  /\ focus' = FirstN(Ranked(known', score'), FocusN)
  /\ previous' = active
  /\ pending' = refreshes \o <<Retain(Elements(active'))>> \o RefreshAll(active')

KeepUniverse(refreshes) ==
  /\ pending' = refreshes
  /\ UNCHANGED <<active, focus, previous>>

-----------------------------------------------------------------------------
(***************************************************************************)
(* The handlers of the engine task.                                        *)
(***************************************************************************)
Idle == pending = <<>>

Batches == {<<s>> : s \in Symbols} \cup
           {p \in Symbols \X Symbols : p[1] # p[2]}

\* !ticker@arr fills in volume and price change, then the universe is ranked.
Tickers ==
  /\ Idle
  /\ \E batch \in Batches, v \in 0..MaxScore :
       /\ known' = known \cup Elements(batch)
       /\ score' = [s \in Symbols |-> IF s \in Elements(batch) THEN v ELSE score[s]]
       /\ Recompute(RefreshActive(active, batch))
  /\ UNCHANGED cache

\* Funding or liquidation totals move the score of a symbol that has one.
MovesScore(s) ==
  \E v \in 0..MaxScore :
    score' = [score EXCEPT ![s] = IF @ = NoScore THEN @ ELSE v]

\* !forceOrder@arr, one order per event; the universe is ranked again.
ForceOrder ==
  /\ Idle
  /\ \E s \in Symbols :
       /\ known' = known \cup {s}
       /\ MovesScore(s)
       /\ Recompute(RefreshActive(active, <<s>>))
  /\ UNCHANGED cache

\* !markPrice@arr: the state is created or updated, active symbols refreshed.
MarkPrices ==
  /\ Idle
  /\ \E s \in Symbols :
       /\ known' = known \cup {s}
       /\ MovesScore(s)
       /\ KeepUniverse(RefreshActive(active, <<s>>))
  /\ UNCHANGED cache

\* Klines, partial depth, and everything fetched over REST concern the
\* always_focus symbols and refresh them whether they are active or not.
FocusEvent ==
  /\ Idle
  /\ \E s \in Elements(AlwaysFocus) :
       /\ MovesScore(s)
       /\ KeepUniverse(Refresh(active, s))
  /\ UNCHANGED <<known, cache>>

\* age_all, once a second.
AgeAll ==
  /\ Idle
  /\ pending' = [i \in 1..Len(active) |-> Upsert(active[i], RankOf(active, active[i]))]
  /\ UNCHANGED <<known, score, active, focus, cache, previous>>

\* The next operation takes the cache's write lock.
CacheOp ==
  /\ pending # <<>>
  /\ LET op == Head(pending) IN
       cache' = IF op.op = "upsert"
         THEN [s \in DOMAIN cache \cup op.symbols |->
                 IF s \in op.symbols THEN op.rank ELSE cache[s]]
         ELSE [s \in DOMAIN cache \cap op.symbols |-> cache[s]]
  /\ pending' = Tail(pending)
  /\ UNCHANGED <<known, score, active, focus, previous>>

Next == Tickers \/ ForceOrder \/ MarkPrices \/ FocusEvent \/ AgeAll \/ CacheOp

Spec == Init /\ [][Next]_vars

-----------------------------------------------------------------------------
Op == [op : {"upsert", "retain"}, symbols : SUBSET Symbols, rank : 0..ActiveN]

TypeOK ==
  /\ known \subseteq Symbols
  /\ score \in [Symbols -> NoScore..MaxScore]
  /\ active \in Seq(Symbols) /\ Len(active) <= ActiveN
  /\ focus \in Seq(Symbols) /\ Len(focus) <= FocusN
  /\ DOMAIN cache \subseteq Symbols
  /\ \A s \in DOMAIN cache : cache[s] \in 1..ActiveN
  /\ pending \in Seq(Op)

\* The pins that active_n cuts off: nothing compares the length of
\* always_focus with active_n, yet their events refresh their packets.
CutPins == Elements(AlwaysFocus) \ Elements(Pinned)

\* A packet of s with this rank is right for the list: it has the symbol's
\* first place there, or s is a cut pin that has no place and the rank is the
\* default of refresh_symbol_at.
Placed(list, s, rank) ==
  \/ s \in Elements(list) /\ rank = RankOf(list, s)
  \/ s \in CutPins \ Elements(list) /\ rank = 1

\* What a reader of /v1/packets/top sees between two handlers: packets of
\* active symbols only, each ranked by its place in active_symbols, and of cut
\* pins, ranked 1 beside the symbol that really is the first.
SettledRanks == Idle => \A s \in DOMAIN cache : Placed(active, s, cache[s])

\* What it sees in the middle of recompute_universe, between the retain and
\* the last upsert: a mixture, but every packet is right for the list before
\* or for the list after.  No symbol but a cut pin is there without a place.
MixedRanks ==
  \A s \in DOMAIN cache : Placed(active, s, cache[s]) \/ Placed(previous, s, cache[s])

\* docs/OPERATIONS.md:39: "always_focus symbols stay pinned in the active
\* pool even when U0 ranking is volatile": the first active_n of them do.  And
\* the k-th symbol of the focus list is one the cache is refreshed for, as
\* long as k places are left beside the pins.
FocusIsActive ==
  /\ Elements(Pinned) \subseteq Elements(active)
  /\ \A k \in 1..Len(focus) :
       Cardinality(Elements(Pinned)) + k <= ActiveN => focus[k] \in Elements(active)

\* A better-ranked symbol is never left out for a worse-ranked one that is
\* not pinned.
NoUnfairEviction ==
  [][active' # active =>
       \A a \in known', b \in Elements(active') \ Elements(Pinned) :
         (a \notin Elements(active') /\ score'[a] # NoScore)
           => RanksBefore(score', b, a)]_vars
=============================================================================
