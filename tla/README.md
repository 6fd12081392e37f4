# PerpRadar in TLA+

PerpRadar turns Binance futures streams into one quality-stamped "packet" per
symbol, serves the packets over HTTP and stores them in ClickHouse. This
directory specifies the parts of the program where order, failure and time
matter: TLA+ modules translated from the Rust sources, TLC configurations that
check them on small instances, and theorems that TLAPS proves for every value
of the constants.

`PROJECT.json` lists the components, the runs, one mutant of the code per
checked property, the source lines behind every definition, the hazards and
the theorems. Paths below are relative to `src/`.

```
tlasany M.tla                              parse a module
tlc -workers 2 -config X_run.cfg MCX       check a run
tlapm XProofs.tla                          check the proofs of a module
```

## 1. The system

### Tasks and what they share

| task | code | keeps | talks to |
|---|---|---|---|
| one reader per websocket URL | `start_ingestion_tasks_with_storage` (`crates/app/src/runtime.rs`), `stream_text_messages` (`crates/binance/src/ws_client.rs`) | the connection | sends text frames into a channel of 4096; waits when it is full; sleeps two seconds and reconnects when the connection ends |
| the engine | the same function and `RuntimeEngine` | every `SymbolState`, the active and focus lists | five REST bootstrap passes, then `select!` over the channel, `age_tick` (1 s) and `oi_tick`; awaits REST calls *inside* the loop; writes the packet cache; `try_send`s packets to the writer |
| the storage writer | `spawn_clickhouse_writer` (`crates/storage/src/writer.rs`) | pending rows, the minute filter | awaits ClickHouse inserts |
| the HTTP server | `crates/api/src/routes.rs` | nothing | reads the packet cache under its lock, at any moment |

The engine is the only writer of market state, so its handlers do not
interleave with each other. What interleaves are: its REST calls with the
stream (frames pile up while it waits), its cache operations with readers (one
lock acquisition each), the sink with the writer, connections with everything,
and time with all of them.

### Components, their state and operations, what makes them correct

| component | state | operations | correct when | hard because |
|---|---|---|---|---|
| full books | levels, `last_update_id`, `seq_ok`, `bootstrapped` per focus symbol; `quality.book_seq_ok` | snapshot, delta, gap, resync | the levels are exactly the exchange's at `last_update_id`; a gap is not missed, not invented but while a snapshot waits for its bridge, and repaired; a book goes back only by a snapshot that was asked for | events are lost, queued behind REST calls and older than the snapshots that overtake them; resync is driven by *later* payloads and stops at the first failing symbol |
| full-book measures | none | liquidity in a band, slippage, imbalances, mid | early stops lose nothing; a slippage is that of the best execution and exists exactly when the book has a mid price and the side is deep enough | inclusive edges, the order of a map's iterator, the last level of a fill |
| candle window | 1m ring, `kline_gap_1m` | closed kline, repeated kline, eviction | one candle per minute, in order, the newest N; the gap count is exact | REST rows and stream candles overlap in every order; the REST row of the running minute is not final |
| universe and packet cache | active list, focus list, map of packets with ranks | ranking after tickers and force orders, refresh, `age_all` | the pins in the first `active_n` places stay, nobody is evicted by a worse symbol, readers see places of the old or the new list only | a recompute is a retain followed by upserts that readers can come between |
| symbol quality and packet | `QualityState`, `last_event_time_ms`, LRI measurements | every handler sets a part of it | flags, reason codes and books agree; silence shows | a dozen handlers each maintain a few fields; the packet is a copy made at some of them; event times may lie in the future |
| ingestion | reader tasks, channel, bootstrap passes | open, read, send, end, REST pass | no frame dropped, doubled or overtaken; the loop is reached | backpressure while the engine awaits REST; passes abandon the rest at the first error |
| persistence | channel, pending rows, minute filter, tables | `try_send`, flush by size or tick, two inserts | each packet in one place; one feature row for each minute that has packets; bounded memory | a full channel drops, inserts fail after the filter has let the row pass, crashes forget the filter |
| rate limiter | one atomic | `try_take`, `refill` | behaves as an atomic bucket | compare-and-exchange loops of several threads |
| score histories | thirteen rolling windows, `latest_*` | recording by kline, mark price, funding answer, partial and full depth | an available score standardises values that its windows have sampled | values and samples are computed by two crates at different moments; a handler records what it believes has changed; a candle is recorded again when it is sent again |
| liquidations | at most 512 events | force order, totals, dominant side | totals lose nothing but what the cap drops | events arrive out of order and in bursts; the window has no clock |
| parsers, REST client, config, routes, migrations, formulas | none or start-up only | conversions | - | no protocol state; see "Not modelled" |

## 2. Modules

### Depth: `OrderBook`, `BookMirror`, `DepthSync`

`OrderBook` is `crates/state/src/book_full.rs` over an explicit history of the
exchange: `log[s]` is the sequence of updates to the book of `s`, an update id
is a position in it, and `View(log, v, reach)` is the exchange's book after `v`
updates. `IsStale`, `SequenceOk`, `ApplyLevels` and `ApplyDelta` follow the
method of the same name branch by branch; `FromSnapshot` is both constructors.
Binance's ids are renumbered 1, 2, 3, ...: the code only compares them.

`DepthSync` composes it with the tasks. `ExchangeUpdates`,
`PublishDelivered`, `PublishLost` are the exchange and its diff stream (an
event carries the updates since the last one, and is never sent again);
`Disconnect`/`Reconnect` the reader; `HandleDepth` is
`apply_full_depth_delta` plus the resync check of the loop; `HandleOther` any
other payload, which triggers the same check; `SnapshotArrives(i)` and
`SnapshotFails` the REST answer for the i-th focus symbol, with a snapshot
that may lag and may reach only some levels (`limit=`). Frames in flight on a
broken connection count as lost before they were published.

`BookMirror` is the abstract promise. A copy equals at every moment some
version of the exchange's book. One that is in track moves forward (`Advance`)
and forgets no level; one that has lost track (`LoseTrack`, possible only when
the exchange is ahead) stands still. Only the answer to a request takes a copy
back or out of a lost track (`AdoptSnapshot`), with a version no older than
the request by more than `SnapshotLag`; requests exist one at a time, at start
and while some copy is broken, and may fail (`GiveUp`). `DepthSync` refines it
(`BooksAreMirrors`, with the update id for `at`, the levels for `copy`, the
published flag for `trust` and the awaited REST call for `requests`); its
mutant resyncs books that nothing is wrong with.

### Book measures: `BookMath`

The pure functions of `FullBook`: the take-while loops of
`visible_liquidity_usd`, the fill loop of `slippage_bp_for_notional`, the top-n
imbalances and the mid, each against a definition that says *what* it
computes (all levels of the band, the best of all allocations, the closest
levels). Quotients are compared by cross multiplication; floating-point
rounding is left out. `Filled`, "a slippage is reported", asks for a mid price
as the code does (`book_full.rs:227`): a one-sided book reports none.

### Candles: `CandleRing`, `KlineIntake`

`CandleRing` is `crates/state/src/candle_ring.rs` and the kline part of
`apply_kline`. `KlineIntake` adds the exchange's minutes, the connection, the
channel, and the REST bootstrap whose rows `parse_kline_row` all marks closed,
applied one row at a time before the loop starts. `final` says whether the
minute was over when the prices were taken. Every accepted candle is recorded
in the score histories; `atr` keeps of which two candles the ATRs are that the
VoV divides, `seams` the minutes whose ATR was divided by one of their own.

### Scores: `FormalScores`, `Liquidations`

`FormalScores` is the rest of the score histories: for each of the windows
that the packet builder standardises, how many samples it has (up to
`min_samples`) and whether the newest one is the present value. `Record` is
the one way a window changes; each handler names what it pushes
(`record_*_components`) and what it has changed. `SourcesKnown` and
`Available` are `evaluate_formal_scores`, with the conditions of the packet
builder, which are not literally those of the recording. Candle counts are
abstracted to the six counts at which something more can be computed, books to
what their levels allow to compute: the full book has an imbalance with both
sides only, the partial one (`book_partial.rs:40`) with a level on either.

`Liquidations` is the buffer of `apply_force_order` with the totals and the
dominant side that packets and ranking take from it, against the same totals
over everything that arrived. `MCFormalScores` explores the two in one run;
they share no variable, and a behaviour is about one of them.

### Universe: `Universe`

`RuntimeEngine`'s active and focus lists with the cache. A handler changes the
engine's state at once and queues its cache operations in `pending`; `CacheOp`
performs them one lock acquisition at a time, so that readers' views between
them are states of the model. Ranking, pins, fill-up and truncation follow
`rank_u0_universe` and `recompute_universe`; the U0 formula is abstracted to
the small integers it may take, or `NoScore`. `CutPins` are the entries of
`always_focus` that `active_n` cuts off: in no list, yet refreshed by their
events, and published at the default rank 1 (`runtime.rs:504`). `Placed` says
when a rank is right for a list and names them as the only exception.

### Symbol quality: `SymbolState`

One focus symbol: the quality record with its reason codes, which books exist
and what can be computed from them (`Depths`), from which book the LRI was
last measured, the cached packet, and where the engine task is suspended. Time
passes by `Tick`; a tick is served before the next one *only while the task is
in the loop*. The outcome of a delta (accepted or a gap) is left open: which
it is belongs to `DepthSync`.

### Ingestion: `IngestLoop`

Reader tasks in front of the bounded channel, the five bootstrap passes over
the focus symbols, resync and open-interest passes that stop at the first
failure. A payload is anything; it may open a gap. A frame carries its
connection and its number, so that `FramesInOrder` can compare what the engine
has handled, what waits and what a reader holds with what was read.

### Persistence: `Storage`

`Emit` is `persist_packet` (`try_send`, dropped when full); `Receive`,
`FlushTick`, `ReceiveClosed`, `InsertLatest`, `InsertFeatures` are the writer's
`select!` arms and `flush_pending`, with the minute filter updated when a row
is *queued*. An insert stores everything or nothing, and may store and still
report failure. `Restart` is a crash at any step.

### Rate limiter: `Bucket`, `TokenBucket`

`TokenBucket` runs `fetch_update` as the standard library does: a load, then
compare-and-exchange attempts that may fail spuriously. `Bucket` is an atomic
counter with calls and returns, each tied to the kind and amount of its call.
The implementation is *proved* to refine it.
No production path calls the limiter yet.

## 3. Runs

Beside the type invariants, the passing runs check properties that take
several steps to break; each property has a mutant of the code that breaks it.
`MC` modules define the constants that a configuration cannot write down.

| run | instance | shows |
|---|---|---|
| `DepthSync_one` | 1 symbol, 2 levels, 4 updates, channel 2, snapshots lag by up to 1 and may reach one level | `BookIntegrity`, `TrustAgreement` (the two trust flags), `GapMeansLoss` (a gap is the loss of the event before, or the wait of a snapshot for its bridge), `GapHeldUntilSnapshot`, `BooksAreMirrors` (refinement of the mirror) |
| `DepthSync_two` | 2 focus symbols, 2 updates each, fairness | `GapHeals`: repairs come although every request may fail and stops the pass |
| `DepthSync_first` | as the first, prompt snapshots | violation: see Findings |
| `KlineIntake_window` | 7 minutes, ring of 3, REST limit 2, channel 2, ATR of 2 candles | `WindowExact` (order, size and gap count through evictions and replacements), `PartialOnlyIfLost`, `HolesAreLosses`, `AtrsAreNeighbours` |
| `FormalScores_windows` | windows of 2 samples; buffer of 3, windows of 1 and 2, events up to 2 late, 5 events | `SampledValues` (available scores standardise present samples), `RpiCatchesUp` (the book part of the RPI, sampled by the next event that records the RPI), `TotalsExact` (liquidations) |
| `Universe_ranks` | 4 symbols, 3 active, 2 in focus, 2 scores; 4 pins, one listed twice and one cut off | `SettledRanks` (places in the list, cut pins at rank 1), `MixedRanks` (what a reader sees in mid-recompute), `FocusIsActive` (pins stay active, focus symbols while places are left), `NoUnfairEviction` |
| `SymbolState_packet` | threshold 3 ticks, events up to 1 late or 2 ahead | `ModeAgreement`, `PacketReasons`, `LriFromPresentBook`, `StaleInTime`, `SilenceShows` |
| `SymbolState_stalled` | the same | violation: see Findings |
| `Storage_rows` | 2 symbols, 4 packets, 3 a minute, channel 2, batch 3, 1 crash, fairness | `TypeOK` (which bounds channel and pending rows), `Accounted`, `OneRowPerProcess`, `AcceptedIsTried` |
| `IngestLoop_frames` | 2 connections, 3 frames each, channel 2, 2 symbols, fairness | `FramesInOrder`, `OpenGapMeansFailure`, `FramesApplied`, `BootEnds` |
| `TokenBucket_threads` | 3 threads, capacity 4, amounts 1 and 3 | `AtomicBucket` (refinement) |
| `BookMath_levels` | all uncrossed books over 5 prices, one-sided ones included, quantities up to 2 | `LiquidityIsAllOfBand`, `FillIsBest`, `SlippageIffEnough`, `TopIsClosest` |

Deadlock is checked everywhere except in `Storage_rows`, where the writer
ends with its channel and the run ends with its bounded clock.

### Why the bounds are enough

- *Depth.* A false bridge needs a snapshot, an event lost, one delivered and
  one more: three updates. The fourth leaves room for a second loss. Two
  levels tell a touched level from an untouched one; a second symbol shares
  nothing but the pass, which is what `DepthSync_two` is about.
- *Candles.* A ring of three evicts twice within seven minutes, and a REST
  answer of two rows is shorter than the window, longer than a young history,
  and overlaps the queue. The ATR takes two candles of the three, so that it
  is missing, recorded for the first time, and moved along by evictions.
- *Scores.* With two samples a window is empty, has one sample too few, and is
  full; nothing depends on how full it is beyond that (proved for any number).
  A buffer of three overflows twice within five events; events two units late
  fall behind the latest one, behind a window and behind its edge.
- *Universe.* Pins take two of three places, so that two symbols compete for
  the last one; the second symbol of the focus list has no place, the first
  must have one. The list of pins repeats a symbol and is too long, the cases
  that `validate_config` lets pass: the cut pin is now ranked, now only
  refreshed. Two scores give ties, which the name breaks.
- *Packet.* One state of age beyond every threshold is kept (`MaxAge`);
  older is not told apart by any comparison of the code.
- *Storage.* A batch of three is filled by a packet with two rows on top of
  one or two, so that a push steps over the threshold; four packets cross a
  minute boundary.
- *Ingestion.* A channel of two is smaller than what two connections hold, so
  that a reader waits while the other one's frames are in front of it.
- *Limiter.* Two threads race and a third one changes the counter back, the
  value a compare-and-exchange cannot tell from the old one.
- *Book measures.* Bands of 0, 1000, 2000 and 5000 bp put levels exactly on
  an edge (mid 5, levels at 4 and 6) and on both sides of it; the notionals
  end inside a level, at its end, and beyond the book.

### Fairness

- `DepthSync!FairSpec`: the engine task is scheduled (`WF` on its handlers);
  other streams (mark prices arrive every second) keep delivering payloads,
  after each of which the loop looks for gaps; a snapshot asked for again and
  again is answered in the end (`SF`). Nothing is assumed of the connection or
  of the order of failures.
- `IngestLoop!FairSpec`: a REST call ends (`WF`; it may always fail);
  `select!` draws among the ready branches at random, so a payload is not shut
  out by other branches for ever (`SF`); tokio's channel hands out places in
  the order of waiting (`SF` on `Send`). That a call ends is an assumption: the
  client sets no timeout (see Findings).
- `Storage!FairSpec`: the writer task is scheduled, its interval ticks, its
  inserts return.

Safety properties assume no fairness.

## 4. Proofs

| module | theorem | statement |
|---|---|---|
| `DepthSyncProofs` | `TypeCorrect`, `Integrity` | `Spec => []TypeOK`, `Spec => []BookIntegrity`, for any symbols, levels, focus list, lag and bounds |
| | `TrustsAgree`, `GapsAreLosses`, `GapsAreHeld` | `Spec => []TrustAgreement`, `Spec => GapMeansLoss`, `Spec => GapHeldUntilSnapshot` |
| | `Mirrors` | `Spec => BooksAreMirrors`: the runtime's books and requests refine `BookMirror` |
| `KlineIntakeProofs` | `ApplyKlineKeepsWindow` | any candle applied to an ordered window with an exact gap count leaves such a window, for any capacity |
| | `TypeCorrect`, `WindowIsExact` | `Spec => []TypeOK`, `Spec => []WindowExact`, for any capacity, REST limit, channel and number of minutes |
| | `PartialsAreLosses`, `HolesAreLost` | `Spec => []PartialOnlyIfLost`, `Spec => []HolesAreLosses` |
| | `AtrsAreChained` | `Spec => []AtrsAreNeighbours`, for any number of candles an ATR takes |
| `FormalScoresProofs` | `SamplesArePresent`, `RpiIsCaughtUp` | `Spec => []SampledValues`, `Spec => RpiCatchesUp`, for any `min_samples` |
| | `TotalsAreExact` | `MCSpec => []TotalsExact` (liquidations), for any capacity, windows and delay |
| `RankingProofs` | `TypeCorrect`, `RanksMixed`, `PinsStayActive`, `EvictionIsFair` | `Spec => []TypeOK`, `[]MixedRanks`, `[]PinsActive`, `Spec => NoUnfairEviction`, for any symbols, list sizes, pins (too many, repeated) and scores |
| | `RanksSettled`, `FocusStaysActive` | `Spec => []SettledRanks`, `Spec => []FocusIsActive`, as generally |
| | `LiquidityIsExact`, `SlippageIsExact`, `FillIsOptimal`, `TopsAreClosest` | `LevelsSpec => []LiquidityIsAllOfBand`, `[]SlippageIffEnough`, `[]FillIsBest`, `[]TopIsClosest`, for any prices, quantities, notionals and bands |
| `SymbolStateProofs` | `TypeCorrect`, `ModesAgree`, `PacketsAgree`, `LriIsPresent` | `Spec => []TypeOK`, `[]ModeAgreement`, `[]PacketReasons`, `[]LriFromPresentBook`, for any threshold, delay and candle length |
| | `FreshInTime`, `SilenceIsShown` | `Spec => []StaleInTime`, `Spec => []SilenceShows`, if `MaxDelay <= StaleAfter` |
| `StorageProofs` | `TypeCorrect`, `NothingLost`, `OneRow` | `Spec => []TypeOK`, `[]Accounted`, `[]OneRowPerProcess`, for any symbols, capacity, batch size and number of restarts |
| `IngestLoopProofs` | `TypeCorrect`, `NoFrameLost`, `GapsAreFailures` | `Spec => []TypeOK`, `[]FramesInOrder`, `[]OpenGapMeansFailure`, for any connections, focus list and capacity |
| `TokenBucketProofs` | `TypeCorrect`, `Refinement` | `Spec => []TypeOK` and `Spec => AtomicBucket`, for any threads, capacity and amounts |

`DepthSyncProofs` begins with lemmas about the operators of `OrderBook`: the
last update that touches a level, the type of a view, that later updates do not change an old
view, and that a delta which overlaps or continues a view and ends after it
advances the view to its last update (`ApplyAdvancesView`).

*Assumptions.* Only the named `ASSUME`s of the modules: sizes are naturals
(positive where `validate_config` or the channel demands it), `Focus` is a
non-empty sequence of symbols, a deletion is a quantity of zero.

*Books.* `BookIntegrity` alone is not inductive: that a delta extends the
book without a hole depends on what waits in the channel. The invariant is
`TypeOK /\ StreamOK /\ BookIntegrity`; `StreamOK` says that every queued event
covers updates the exchange has made and starts right after its `prev`. Of
the accepted delta the code has checked `prev = last` (or
`first <= last <= final` when bridging), so its updates reach from at most
`last + 1` to `final`; levels it does not touch are equal in both versions,
levels it touches hold the exchange's quantity. Stale and rejected deltas
leave `last` and the levels alone; a snapshot is a view by definition of the
exchange.

*Trust and gaps.* That a gap means a loss is a statement about one step, but
which delta may come next depends on everything in flight. `TrustInv` says it
for a symbol's events in their order: between the end of one and the `prev` of
a later one there is nothing, a lost event, or another event in between
(`Follows`); the same holds from a bridged book in sequence to the first event
that waits, and from the last event to what has been sent. A book out of
sequence is behind everything still to come (`GapAhead`), so no waiting delta
can be stale for it, and none brings the trust back. The refinement then goes
handler by handler: `HandleDepth` leaves a copy alone, advances it or loses
track of it, and asks for a snapshot exactly when some copy is broken;
`SnapshotArrives` adopts the answer and `SnapshotFails` gives up; the stream's
steps stutter.

*Candles.* `WindowExact` is inductive with the types, by
`ApplyKlineKeepsWindow`. What the window lacks is not: `LossInv` says that
closing payloads wait in the order of their minutes with no hole between them
that is not a loss, that the rows of a response follow each other and only the
last is not final, and that in the loop every minute after the last candle of
the window is lost or waits, that last minute itself included as long as its
candle is not final. So an accepted payload skips lost minutes only, and
overtakes a partial candle only if its minute is lost. For the ATR chain,
`AtrInv` adds that the recorded ATRs are those of the end of the window, and
that nothing has been replaced while the last candle is still partial; by
`LossInv` the replacement happens once.

*Scores.* `SampledValues` speaks of available scores, the invariant
(`Sampled`) of every value that can be computed, whether a score uses it yet
or not; the raw LRI has samples only after the windows of its components are
full, so that it is recorded from the moment it can be computed.

*Liquidations.* What the buffer remembers is the last `Cap` of what arrived
(`Remembered`), and an event evicted is one with `Cap` later arrivals. The
totals over both are sums over the positions of a sequence, so the proof maps
the counted positions of the buffer one to one to those of the history by a
shift. `MCFormalScores` composes the two modules without shared variables;
`ComposedIsSpec` shows that a behaviour of the composition is one of
`FormalScores`.

*Universe.* Cached ranks are right only when nothing is pending, so the
invariant is about the queue of cache operations: either every packet is right
or the operation that rights it is still to come (`Settling`), or a recompute
is under way and the queue is the refreshes of the old list, then `retain`,
then the upserts of the new one (`Recomputing`). `MixedRanks`, what a reader
may see in between, follows. The loops of `recompute_universe` are functions
over the numbers of rounds; their values after `n` rounds are an invariant
(`LoopRuns`, `LoopIsRun`) proved by the least counterexample, which needs no
induction scheme. That `FillUp` lists no symbol twice, and that truncation
keeps the pins, is what the ranks stand on. Every cached symbol is in the list
its rank is of or in `always_focus`; the pins in the first `active_n` places
are in both lists (`PinsStayActive`), so a symbol without a place is a cut pin
(`WatchedPlaced`). Nothing is assumed of the sizes: `validate_config` does not
compare the pins with `active_n`, and neither do the theorems.

*Book measures.* These are statements about one book, so the invariant is only
that prices and quantities are positive; the work is in what the loops
compute. `BestFirstInOrder` says that the iterators visit every level once,
nearest first. `FilledBy` is the invariant of the fill loop: what was spent
and what remains make the notional, levels before a touched one are used up,
and all are as long as anything remains. Hence nothing remains exactly if the
side is worth the notional (and with a mid price the slippage is reported); and against any other way of spending it, trading
one unit from a farther level for one from a nearer one never loses
(`NearestFirstIsBest`, by comparing both sums with the price of the last level
touched). Sums over sets are recursive functions; `UpToSet` and `SmallestSet`
are induction over finite sets in the form of a least counterexample. The
assumption on `Unit`, a common multiple of the prices, is a matter of
counting: quantities are rational numbers.

*Packets.* `PacketReasons` and `LriFromPresentBook` are about a copy, so the
invariant adds the same facts about the original: `GapReason` (the state's gap
flag agrees with its reason) and `Measured` (a trusted book that can be
measured has been). The proof splits the state into clock, engine, data and
packet; each action preserves the parts it touches, and `PublishOK` derives
the packet's part from the data's part wherever a handler publishes.
For the time properties `TimeInv` states staleness for the whole life of the
symbol after start-up (`Shown`) and relates the two clocks: silence is never
longer than the age plus what an event may lie ahead. The assumption is
needed: an event that is older than the threshold when it is handled is
published as fresh as its age says, and shows at the next age tick.

*Persistence.* That one process stores a minute once rests on the filter, so
its value must bound the minutes of everything behind it from above, and those
of the packets still in the channel from below; that no row is missing, that
the minute it remembers has one (`FilterOK`, with `Dated` and
`QueueOrdered`). `Accounted` needs that the batch in flight is what the writer
is inserting (`BatchOK`).

*Ingestion.* A task that is sending holds a frame; the frames handled, waiting
and held of one connection are exactly those it has read, in order. A depth
pass has mended the symbols before the one it waits for (`GapsOK`).

*Limiter.* The invariant adds to the types that a pending call goes by a value
its closure allows (`Engaged`). A successful exchange is then an abstract
`Take` or `Refill` of that call's amount at its moment, a refusal an abstract `Refuse` at the moment
the value was read; every other step stutters.

*Only model-checked.* Liveness (`GapHeals`, `FramesApplied`, `BootEnds`,
`AcceptedIsTried`) and everything under fairness: the prover has no `ENABLED`.

## 5. Findings

Each is a run that TLC ends with a counterexample to a sentence of the
repository's documents.

- **`DepthSync_first`.** A first delta whose final id equals the snapshot's is
  returned as stale (`book_full.rs:77`) before it counts as the bridge; the
  next delta in sequence then starts after `last_update_id` and is reported as
  a gap. `docs/AI_AUDIT_HANDOFF.md:216` describes the bridge with `>=`. The
  book stays correct (`BookIntegrity`), at the price of a needless resync.
- **`SymbolState_stalled`.** The loop awaits REST inside `select!` and the
  client has no timeout: while a request hangs no age tick runs and an old
  packet is served as fresh. Inside the loop the promise holds
  (`StaleInTime`).

### Disagreements without a run

Met while modelling and evident from a single place of the code; the models
above contain the behaviour, and none of the checked properties contradicts
it.

- `parse_kline_row` (`rest_client.rs:171`) marks the minute in progress
  closed, the design (`2026-05-01-perp-radar-v1-design.md:193`) admits only
  `x=true`. `PartialOnlyIfLost` says how far it goes: the stream's candle
  replaces it unless it is lost.
- `liquidity_block` takes every `liq_*` and `slip_*` from the full book without
  asking whether it is trusted (`packet_builder.rs:234`; design line 398: "Mark
  U2 full-book liquidity unavailable when sequence validation fails."). The
  LRI does ask (`LriFromPresentBook`).
- Missing minutes are counted and never fetched (`symbol_state.rs:149`; design
  line 512 says "repair via REST klines").
- A recompute takes the focus list from the ranking alone
  (`runtime.rs:446`; `docs/HANDOFF.md:133` calls the pins focus symbols). Pins
  stay active all the same (`FocusIsActive`), but for those after the first
  `active_n`, which `validate_config` does not compare with the list; these are
  published at rank 1 when an event refreshes them (`SettledRanks`).
- `hysteresis_rank_buffer`, `refresh_sec` and `topk_refresh_ms` are read from
  the configuration (`config.rs:28`) and used by nothing: the universe is
  ranked again at every ticker and force order.
- `latest_atr_1h_pct` is the ATR of fourteen one-minute candles
  (`symbol_state.rs:404`); the indicators design, line 553, asks for a
  one-hour ATR derived from one-minute candles.
- `RingWindow::stats` answers z = 0 when all samples and the present value are
  equal (`robust.rs:64`); the indicators design, line 176, says null.
- When a trusted full book has an empty side, packets show the imbalance of
  the partial book (`packet_builder.rs:211`) and the RPI windows sample
  nothing (`symbol_state.rs:425`). `RpiCatchesUp` names the case.
- RPI windows sample at every event rather than at every candle
  (`symbol_state.rs:160` and after), so that a window of 120 samples may span
  seconds.
- Liquidation totals look back from the latest event, not from the present
  (`runtime.rs:537`): without new liquidations a total never expires.
- A depth event refreshes no packet, so a gap shows an age tick later, not
  "immediately" (`runtime.rs:300`; design line 197).
- Snapshots and deltas of the full book never look at
  `depth_coverage_lt_5bp` (`symbol_state.rs:292`;
  `docs/AI_AUDIT_HANDOFF.md:663`).
- The minute filter is marked when a row is queued (`writer.rs:26`): after a
  failed insert the minute has no row and the rest of it is skipped; after a
  restart it has two (`2026-05-02-packet-feature-persistence-design.md:107`
  and 115). `OneRowPerProcess` is what does hold: of one process never two, and
  none missing but for a failed insert.
- A failed funding bootstrap is not retried (`runtime.rs:594`; design line
  520), and reconnects wait two seconds whatever failed before
  (`runtime.rs:656`; design line 497): `ReconnectPolicy` has no caller.

## 6. Not modelled

- Indicators, funding and liquidity formulas (`ta.rs`, `funding.rs`,
  `liquidity.rs`): floating-point functions of a slice, without state.
- JSON parsing, stream names, URLs, HTTP routes, export formats, migrations:
  conversions and I/O without protocol state. Where their outcome matters
  (every REST row closed, a request that never returns, an array payload as
  several events) it is part of a model.
- The packet's price, carry, event and structure blocks, the legacy scores
  and the DPI: copies and formulas of the present state. Of the standardised
  scores, the arithmetic of medians, deviations, clipping and weights.
- Floating-point rounding everywhere; a wall clock that steps back.
- The mock exchange and the watchdog scripts, which are development tools.

## 7. State of the plan

Modelled and checked: depth, candles with their ATR chain, packet quality,
score histories and liquidations, universe and cache, ingestion, persistence,
limiter, book measures. Proved: every safety property the runs check, in all
of them.

What would come next:

1. `PacketService`: an abstract cache (each reader sees packets of one or two
   consecutive rankings) that `Universe` is shown to implement, and an
   at-most-once log with known losses for `Storage`.
2. `Config`: which configurations `validate_config` accepts; one that compared
   `always_focus` with `active_n` would leave no cut pins.
