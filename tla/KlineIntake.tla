----------------------------- MODULE KlineIntake -----------------------------
(***************************************************************************)
(* How the candles of one focus symbol reach its window: the REST          *)
(* bootstrap of start-up, whose last row is the minute still in progress,  *)
(* and the kline websocket stream, whose payloads wait in the runtime's    *)
(* channel until the bootstrap is over (crates/app/src/runtime.rs,         *)
(* crates/binance/src/rest_client.rs, crates/binance/src/parser.rs).       *)
(* Every candle the window accepts, a new one or a new version of the      *)
(* last, is also recorded in the score histories, of which the ATR chain   *)
(* is kept here (crates/state/src/score_history.rs).                       *)
(***************************************************************************)
EXTENDS CandleRing, FiniteSets

CONSTANTS
  MaxMinute,   \* bound: minutes of the run
  RestLimit,   \* rows of a REST klines response
  QueueCap,    \* bound: kline payloads waiting in the channel
  AtrCandles   \* candles an ATR takes (15)

ASSUME BoundAssumption ==
  /\ MaxMinute \in Nat \ {0} /\ RestLimit \in Nat \ {0} /\ QueueCap \in Nat
  /\ AtrCandles \in Nat \ {0}

VARIABLES
  minute,      \* the minute in progress at the exchange
  connected,   \* the kline websocket is up
  queue,       \* kline payloads in the channel
  lost,        \* minutes whose closing payload no connection carried (history)
  phase,       \* the engine task awaits REST, applies its rows, then loops
  rows,        \* rows of the response that are not applied yet
  window,      \* SymbolState.candles_1m with quality.kline_gap_1m
  atr,         \* the candles of latest_atr_1h_pct and latest_atr_1h_pct_prev
  seams        \* minutes whose ATR was divided by one of their own (history)

vars == <<minute, connected, queue, lost, phase, rows, window, atr, seams>>

engineVars == <<phase, rows, window, atr, seams>>

NoCandle == [open |-> 0, closed |-> FALSE, final |-> FALSE]

Init ==
  /\ minute \in 0..1
  /\ connected = FALSE
  /\ queue = <<>>
  /\ lost = {}
  /\ phase = "bootstrap"
  /\ rows = <<>>
  /\ window = NewWindow
  /\ atr = [latest |-> NoCandle, prev |-> NoCandle]
  /\ seams = {}

\* The stream reports a candle while it forms, x = false.
OpenKline ==
  /\ connected
  /\ Len(queue) < QueueCap
  /\ queue' = Append(queue, [open |-> minute, closed |-> FALSE, final |-> FALSE])
  /\ UNCHANGED <<minute, connected, lost, engineVars>>

\* The minute ends; the stream reports its candle once with x = true.
MinuteCloses ==
  /\ minute < MaxMinute
  /\ minute' = minute + 1
  /\ \/ /\ connected
        /\ Len(queue) < QueueCap
        /\ queue' = Append(queue, [open |-> minute, closed |-> TRUE, final |-> TRUE])
        /\ lost' = lost
     \/ /\ ~connected
        /\ queue' = queue
        /\ lost' = lost \cup {minute}
  /\ UNCHANGED <<connected, engineVars>>

Disconnect ==
  /\ connected
  /\ connected' = FALSE
  /\ UNCHANGED <<minute, queue, lost, engineVars>>

Reconnect ==
  /\ ~connected
  /\ connected' = TRUE
  /\ UNCHANGED <<minute, queue, lost, engineVars>>

\* Mutant: a young market is asked for minutes before its first one.
RestRowsUnclamped ==
  LET from == minute - RestLimit + 1 IN
  [i \in 1..RestLimit |->
     [open |-> from + i - 1, closed |-> TRUE, final |-> from + i - 1 < minute]]

\* parse_klines_json: the last RestLimit minutes, the one in progress
\* included; parse_kline_row marks every row closed.
RestRows ==
  LET from == IF minute < RestLimit THEN 0 ELSE minute - RestLimit + 1 IN
  [i \in 1..(minute - from + 1) |->
     [open |-> from + i - 1, closed |-> TRUE, final |-> from + i - 1 < minute]]

-----------------------------------------------------------------------------
(***************************************************************************)
(* The engine task.                                                        *)
(***************************************************************************)
\* record_chart_components, of the ATR: its predecessor is the ATR recorded
\* before, whichever candle that was of.
Record ==
  IF Len(window'.ring) < AtrCandles
    THEN UNCHANGED <<atr, seams>>
    ELSE LET candle == window'.ring[Len(window'.ring)] IN
         /\ atr' = [latest |-> candle, prev |-> atr.latest]
         /\ seams' = IF atr.latest # NoCandle /\ atr.latest.open = candle.open
                      THEN seams \cup {candle.open} ELSE seams

\* Mutant: refused candles are recorded too.
ApplyRecordsAlways(candle) ==
  /\ window' = ApplyKline(window, candle)
  /\ Record

\* apply_kline; nothing is recorded of a candle that is not accepted.
Apply(candle) ==
  /\ window' = ApplyKline(window, candle)
  /\ IF Accepts(window, candle) THEN Record ELSE UNCHANGED <<atr, seams>>

KlinesArrive ==
  /\ phase = "bootstrap"
  /\ rows' = RestRows
  /\ phase' = "rows"
  /\ UNCHANGED <<minute, connected, queue, lost, window, atr, seams>>

\* bootstrap_klines applies every row, oldest first, before anything else of
\* the engine runs.
BootstrapKlines ==
  /\ phase = "rows"
  /\ rows # <<>>
  /\ Apply(Head(rows))
  /\ rows' = Tail(rows)
  /\ phase' = IF Len(rows) = 1 THEN "loop" ELSE "rows"
  /\ UNCHANGED <<minute, connected, queue, lost>>

\* The request or its parsing fails; the runtime goes on without.
BootstrapFails ==
  /\ phase = "bootstrap"
  /\ phase' = "loop"
  /\ UNCHANGED <<minute, connected, queue, lost, rows, window, atr, seams>>

\* Mutant: payloads that piled up are coalesced to the newest.
HandleKlineCoalesced ==
  /\ phase = "loop"
  /\ queue # <<>>
  /\ Apply(queue[Len(queue)])
  /\ queue' = <<>>
  /\ UNCHANGED <<minute, connected, lost, phase, rows>>

HandleKline ==
  /\ phase = "loop"
  /\ queue # <<>>
  /\ Apply(Head(queue))
  /\ queue' = Tail(queue)
  /\ UNCHANGED <<minute, connected, lost, phase, rows>>

Next ==
  \/ OpenKline \/ MinuteCloses \/ Disconnect \/ Reconnect
  \/ KlinesArrive \/ BootstrapKlines \/ BootstrapFails \/ HandleKline

Spec == Init /\ [][Next]_vars

-----------------------------------------------------------------------------
TypeOK ==
  /\ minute \in 0..MaxMinute
  /\ connected \in BOOLEAN
  /\ queue \in Seq(Candle)
  /\ lost \subseteq 0..MaxMinute
  /\ phase \in {"bootstrap", "rows", "loop"}
  /\ rows \in Seq(Candle)
  /\ window \in Window
  /\ atr.latest \in Candle /\ atr.prev \in Candle
  /\ seams \subseteq Nat

\* CandleRing::push, replace_last and the gap count, over REST rows and
\* stream payloads that overlap: one candle per minute, in order, the newest
\* Capacity of them, and as many counted gaps as minutes are missing.
WindowExact == Ordered(window) /\ GapsCounted(window)

\* A candle that is no longer the last of the window carries final prices,
\* unless the payload that would have completed it was lost: the partial row
\* of the bootstrap is always overtaken by the stream.
PartialOnlyIfLost ==
  \A i \in 1..(Len(window.ring) - 1) :
    ~window.ring[i].final => window.ring[i].open \in lost

Opens == {window.ring[i].open : i \in 1..Len(window.ring)}

\* A minute is missing inside the window only if its closing payload was lost.
HolesAreLosses ==
  window.ring # <<>> =>
    (window.ring[1].open..LastOpen(window.ring)) \ Opens \subseteq lost

\* The ATRs that the VoV compares are those of the last two candles of the
\* window, with one exception in the life of a symbol: the minute in progress
\* of the bootstrap is compared with its own unfinished version.
AtrsAreNeighbours ==
  LET n == Len(window.ring) IN
  n > AtrCandles =>
    /\ atr.latest = window.ring[n]
    /\ \/ atr.prev = window.ring[n - 1]
       \/ ~atr.prev.final /\ seams = {window.ring[n].open}
    /\ Cardinality(seams) <= 1
=============================================================================
