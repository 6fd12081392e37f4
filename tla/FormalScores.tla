---------------------------- MODULE FormalScores ----------------------------
(***************************************************************************)
(* The formal scores of one focus symbol: the robust-z windows that the    *)
(* handlers of SymbolState fill (crates/state/src/symbol_state.rs and      *)
(* score_history.rs) and the scores the packet builder computes from them  *)
(* (crates/features/src/packet_builder.rs).                                *)
(*                                                                         *)
(* A score standardises the present value of each component against a      *)
(* window of its samples.  Values and samples are computed by two copies   *)
(* of the same formulas, one in each crate, and at different moments: the  *)
(* handlers record what they believe has changed.  The module keeps which  *)
(* values can be computed, how many samples a window has, and whether its  *)
(* newest sample is the present value.                                     *)
(***************************************************************************)
EXTENDS Integers

CONSTANT MinSamples   \* ScoreConfig.min_samples; a window holds more

ASSUME MinSamplesAssumption == MinSamples \in Nat \ {0}

VARIABLES
  bars,     \* length of the candle window, in the steps below
  atr,      \* latest_atr_1h_pct
  prevAtr,  \* latest_atr_1h_pct_prev
  rate,     \* have mark_price, index_price and funding_rate a value?
  history,  \* has funding_history a standard deviation?
  partial,  \* has partial_book an imbalance?  (a level on either side)
  book,     \* full_book: what can be computed from its levels
  trusted,  \* book_mode "full" and book_seq_ok
  window    \* the windows of ScoreHistoryState

vars == <<bars, atr, prevAtr, rate, history, partial, book, trusted, window>>

carryVars == <<rate, history>>
bookVars == <<book, trusted>>
chartVars == <<bars, atr, prevAtr>>

\* The candle counts at which something more can be computed: 15 candles
\* (RSI, ATR), 20 (Bollinger width), 29 (ADX), 60 (slope of the EMA50), 61
\* (ret_1h), 200 (EMA200).  technical_snapshot publishes RSI and ADX from 50
\* candles on, before the scores that use them have their other sources.
Rsi == 1
Width == 2
Adx == 3
Slope == 4
Ret1h == 5
Ema200 == 6

\* neg_spread_bp, liq_5bp_usd and neg_slip_bp are always recorded together.
LriBook == {"lri_book"}
ChartWindows == {"adx14", "ema50_slope", "bb_width_pctile", "atr_delta_ratio"}
CarryWindows == {"abs_fundz_7d", "abs_basis_bp"}
RpiWindows == {"rsi_extreme", "funding_same_side", "book_against_move"}
Windows == LriBook \cup {"lri_raw"} \cup ChartWindows \cup CarryWindows \cup RpiWindows

\* n: samples, as far as they matter.  sampled: the newest one is the value
\* that a score would standardise now.
Window == [n : 0..MinSamples, sampled : BOOLEAN]

\* What the levels of a book allow to compute: nothing (one side is empty),
\* the imbalance of the top, or every LRI component as well.
FullBooks == {"blank", "top", "deep"}

TypeOK ==
  /\ bars \in 0..Ema200
  /\ atr \in {"none", "zero", "positive"} /\ prevAtr \in {"none", "zero", "positive"}
  /\ rate \in BOOLEAN /\ history \in BOOLEAN
  /\ partial \in BOOLEAN
  /\ book \in FullBooks \cup {"none"}
  /\ trusted \in BOOLEAN
  /\ window \in [Windows -> Window]

Init ==
  /\ bars = 0 /\ atr = "none" /\ prevAtr = "none"
  /\ rate = FALSE /\ history = FALSE
  /\ partial = FALSE /\ book = "none" /\ trusted = FALSE
  /\ window = [x \in Windows |-> [n |-> 0, sampled |-> FALSE]]

-----------------------------------------------------------------------------
(***************************************************************************)
(* Recording.                                                              *)
(***************************************************************************)
Full(x) == window[x].n = MinSamples

\* Pushes the present values of the windows in pushed, after those of the
\* windows in changed have changed.
Record(pushed, changed) ==
  window' = [x \in Windows |->
    IF x \in pushed
      THEN [n |-> IF Full(x) THEN MinSamples ELSE window[x].n + 1, sampled |-> TRUE]
      ELSE [window[x] EXCEPT !.sampled = @ /\ x \notin changed]]

\* funding_z_7d: of the present rate in the present history.
FundingZ == rate /\ history

\* Is there the i1 that record_rpi_score_components takes?  A full book needs
\* both sides for it; a partial one shows 1 or -1 with one side empty.
RecordedI1 == IF trusted THEN book # "blank" ELSE partial

\* record_rpi_components: nothing without an RSI.
RpiPushed ==
  IF bars < Rsi THEN {}
  ELSE {"rsi_extreme"}
    \cup (IF FundingZ THEN {"funding_same_side"} ELSE {})
    \cup (IF bars >= Ret1h /\ RecordedI1 THEN {"book_against_move"} ELSE {})

\* record_carry_components.
CarryPushed ==
  (IF FundingZ THEN {"abs_fundz_7d"} ELSE {}) \cup (IF rate THEN {"abs_basis_bp"} ELSE {})

\* record_chart_components.  The ADX is None exactly when the fourteen ranges
\* of the ATR are all zero.
ChartPushed ==
  (IF bars >= Adx /\ atr = "positive" THEN {"adx14"} ELSE {})
    \cup (IF bars >= Slope THEN {"ema50_slope"} ELSE {})
    \cup (IF bars >= Width THEN {"bb_width_pctile"} ELSE {})
    \cup (IF prevAtr = "positive" THEN {"atr_delta_ratio"} ELSE {})

\* record_lri_book_components on a trusted book; the raw score needs the full
\* windows of its components.
LriPushed(depth) ==
  IF depth # "deep" THEN {}
  ELSE LriBook \cup (IF window["lri_book"].n + 1 >= MinSamples THEN {"lri_raw"} ELSE {})

-----------------------------------------------------------------------------
(***************************************************************************)
(* The handlers, in the part that concerns the scores.  Tickers, open      *)
(* interest and liquidations touch nothing here.                           *)
(***************************************************************************)
\* Mutant: a new candle records the chart but not the RPI.
ApplyKlineChartOnly ==
  /\ bars' \in {bars} \cup (IF bars < Ema200 THEN {bars + 1} ELSE {})
  /\ atr' \in (IF bars' < Rsi THEN {"none"} ELSE {"zero", "positive"})
  /\ prevAtr' = IF bars' < Rsi THEN "none" ELSE atr
  /\ UNCHANGED <<carryVars, partial, bookVars>>
  /\ Record(ChartPushed', ChartWindows \cup RpiWindows)

\* apply_kline and mark_kline_accepted, for a new candle and for a new
\* version of the last one.  The window holds at least 200 candles.
ApplyKline ==
  /\ bars' \in {bars} \cup (IF bars < Ema200 THEN {bars + 1} ELSE {})
  /\ atr' \in (IF bars' < Rsi THEN {"none"} ELSE {"zero", "positive"})
  /\ prevAtr' = IF bars' < Rsi THEN "none" ELSE atr
  /\ UNCHANGED <<carryVars, partial, bookVars>>
  /\ Record(ChartPushed' \cup RpiPushed', ChartWindows \cup RpiWindows)

\* apply_mark_price, of the stream and of the premium index.  No contract has
\* an index price of zero.
ApplyMarkPrice ==
  /\ rate' = TRUE
  /\ UNCHANGED <<chartVars, history, partial, bookVars>>
  /\ Record(CarryPushed' \cup RpiPushed', CarryWindows \cup {"funding_same_side"})

\* apply_funding_history: the answer replaces the history; a constant or
\* short one has no deviation.
ApplyFundingHistory ==
  /\ history' \in BOOLEAN
  /\ UNCHANGED <<chartVars, rate, partial, bookVars>>
  /\ Record(CarryPushed' \cup RpiPushed', {"abs_fundz_7d", "funding_same_side"})

\* apply_partial_depth.
ApplyPartialDepth ==
  /\ partial' \in BOOLEAN
  /\ UNCHANGED <<chartVars, carryVars, bookVars>>
  /\ Record(RpiPushed', {"book_against_move"})

\* apply_full_depth_snapshot, and apply_full_depth_delta when the book takes
\* the delta: the RPI is not recorded, although i1 changes.
ApplyFullDepth ==
  /\ book' \in FullBooks
  /\ trusted' = TRUE
  /\ UNCHANGED <<chartVars, carryVars, partial>>
  /\ Record(LriPushed(book'), LriBook \cup {"lri_raw", "book_against_move"})

\* apply_full_depth_delta, Err: i1 falls back to the partial book.
FullDepthGap ==
  /\ book # "none"
  /\ trusted' = FALSE
  /\ UNCHANGED <<chartVars, carryVars, partial, book>>
  /\ Record({}, {"book_against_move"})

Next ==
  \/ ApplyKline \/ ApplyMarkPrice \/ ApplyFundingHistory
  \/ ApplyPartialDepth \/ ApplyFullDepth \/ FullDepthGap

Spec == Init /\ [][Next]_vars

-----------------------------------------------------------------------------
(***************************************************************************)
(* evaluate_formal_scores: a score needs values for its sources and full   *)
(* windows.  (robust_component also gives up on samples that are all equal *)
(* and differ from the value, which a sampled value cannot do.)            *)
(***************************************************************************)
\* Is there a liquidity.i1?  Unlike RecordedI1 it also falls back to the
\* partial book when the trusted full book has an empty side.
PublishedI1 == (trusted /\ book # "blank") \/ partial

\* The values each score needs: no "..._missing" or "..._non_positive"
\* reason.
LriSources == trusted /\ book = "deep"
TcsSources == bars >= Ema200 /\ atr = "positive"
CsiSources == FundingZ
RpiSources == bars >= Ret1h /\ FundingZ /\ PublishedI1

\* Mutant: an ATR of zero counts as a predecessor.
VovSourcesZeroAtr == prevAtr # "none"

VovSources == prevAtr = "positive"

SourcesKnown ==
  [LRI |-> LriSources, TCS |-> TcsSources, CSI |-> CsiSources,
   RPI |-> RpiSources, VoV |-> VovSources]

Standardised ==
  [LRI |-> LriBook \cup {"lri_raw"},
   TCS |-> {"adx14", "ema50_slope", "bb_width_pctile"},
   CSI |-> CarryWindows,
   RPI |-> RpiWindows,
   VoV |-> {"atr_delta_ratio"}]

\* score_meta.available.
Available(score) ==
  SourcesKnown[score] /\ \A x \in Standardised[score] : Full(x)

-----------------------------------------------------------------------------
(***************************************************************************)
(* Properties.                                                             *)
(***************************************************************************)
\* Whatever the handlers that ran since, an available score standardises
\* values that its windows hold as their newest samples: no handler changes
\* a component and leaves its recording to another.  The book part of the
\* RPI is the exception: a full-depth event changes i1 and records no RPI.
SampledValues ==
  \A score \in DOMAIN Standardised : Available(score) =>
    \A x \in Standardised[score] \ {"book_against_move"} : window[x].sampled

\* The events that record the RPI.  Full-depth events, tickers, open interest
\* and force orders do not, and any number of them may come before the next
\* one that does.
RpiEvent == ApplyKline \/ ApplyMarkPrice \/ ApplyFundingHistory \/ ApplyPartialDepth

\* The next event that records the RPI samples its book part again, unless the
\* trusted book has an empty side: then the RPI shows the imbalance of the
\* partial book and samples nothing.
RpiCatchesUp ==
  [][RpiEvent /\ Available("RPI")' =>
       window["book_against_move"].sampled' \/ (trusted /\ book = "blank")]_vars
=============================================================================
