----------------------------- MODULE SymbolState -----------------------------
(***************************************************************************)
(* What the cached packet of a focus symbol says about its own data: the   *)
(* quality record that every handler of SymbolState maintains piecemeal    *)
(* (crates/state/src/symbol_state.rs), the packet built from it            *)
(* (crates/features/src/packet_builder.rs) and the moments at which the    *)
(* engine task publishes one (crates/app/src/runtime.rs).                  *)
(*                                                                         *)
(* Time passes in units of the age tick.  The age of the state is the wall *)
(* clock minus last_event_time_ms; a symbol that never had an event is as  *)
(* old as ages get.  Whether a delta is stale, applied or a gap is decided *)
(* in DepthSync; here only its outcome matters.                            *)
(***************************************************************************)
EXTENDS Integers

CONSTANTS
  StaleAfter,   \* stale_after_ms
  MaxDelay,     \* bound: how old an event may be when it is handled
  Ahead         \* how far the close time of a candle in progress lies ahead

ASSUME TimeAssumption ==
  StaleAfter \in Nat /\ MaxDelay \in Nat /\ Ahead \in Nat

MaxAge == StaleAfter + MaxDelay + Ahead + 2

Older(a) == IF a < MaxAge THEN a + 1 ELSE MaxAge

VARIABLES
  age,       \* now - last_event_time_ms
  quiet,     \* time since an event was last handled (history)
  partial,   \* partial_book: "none" or its depth coverage
  book,      \* full_book: "none" or what its levels allow to compute
  measured,  \* is score_history.latest_* taken from the present book?
  quality,   \* SymbolState.quality
  packet,    \* the packet in the cache
  awaiting,  \* the REST call the engine task is suspended in, or "loop"
  booted,    \* the bootstrap calls are over
  due        \* age_tick has fired and is not handled yet

vars == <<age, quiet, partial, book, measured, quality, packet, awaiting, booted, due>>

engineVars == <<awaiting, booted, due>>

\* Coverage in bp of a book: not computable, below 5, or 5 and more.
Coverage == {"unknown", "narrow", "wide"}

\* blank: no spread; narrow: its levels end within 5 bp; thin: wider, but not
\* enough to trade 10000 USD; deep: every LRI component can be computed.
Depths == {"blank", "narrow", "thin", "deep"}

Reasons == {"StaleMarketData", "FullBookSequenceGap", "DepthCoverageLt5Bp"}

Quality == [mode : {"none", "partial20", "full"}, seqOk : {"none", "ok", "gap"},
            coverage : Coverage, stale : BOOLEAN, reasons : SUBSET Reasons]

\* lri: where the components of an LRI without missing reasons come from.
Packet == [quality : Quality, lri : {"none", "missing", "current", "old"}]

NoPacket == [quality |-> "none"]

TypeOK ==
  /\ age \in -Ahead..MaxAge
  /\ quiet \in 0..MaxAge
  /\ partial \in {"none"} \cup Coverage
  /\ book \in {"none"} \cup Depths
  /\ measured \in {"none", "current", "old"}
  /\ quality \in Quality
  /\ packet \in Packet \cup {NoPacket}
  /\ awaiting \in {"loop", "klines", "depth", "funding", "premium", "oi"}
  /\ booted \in BOOLEAN /\ due \in BOOLEAN

Init ==
  /\ age = MaxAge
  /\ quiet = MaxAge
  /\ partial = "none"
  /\ book = "none"
  /\ measured = "none"
  /\ quality = [mode |-> "none", seqOk |-> "none", coverage |-> "unknown",
                stale |-> TRUE, reasons |-> {}]
  /\ packet = NoPacket
  /\ awaiting = "klines"
  /\ booted = FALSE
  /\ due = FALSE

-----------------------------------------------------------------------------
(***************************************************************************)
(* Quality and the packet.                                                 *)
(***************************************************************************)
With(reasons, reason, holds) ==
  IF holds THEN reasons \cup {reason} ELSE reasons \ {reason}

SetStale(q, stale) ==
  [q EXCEPT !.stale = stale, !.reasons = With(@, "StaleMarketData", stale)]

\* Mutant: one unit is forgiven.
AgedLate(q, a) == SetStale(q, a > StaleAfter + 1)

\* quality_with_freshness; age_quality stores the result in the state.
Aged(q, a) == SetStale(q, a > StaleAfter)

\* A snapshot, or a delta in sequence, makes the full book trusted.
Trusting(q) ==
  [q EXCEPT !.mode = "full", !.seqOk = "ok", !.reasons = @ \ {"FullBookSequenceGap"}]

Trusted(q) == q.mode = "full" /\ q.seqOk = "ok"

\* record_lri_book_components: nothing is recorded unless every component of
\* a trusted book can be computed.
Record(q, depth, changed) ==
  IF Trusted(q) /\ depth = "deep" THEN "current"
  ELSE IF changed /\ measured = "current" THEN "old"
  ELSE measured

\* evaluate_lri shows latest_* when the present book has no missing reason.
Lri(q, depth, m) ==
  IF Trusted(q) /\ depth = "deep"
    THEN IF m = "none" THEN "missing" ELSE m
    ELSE "none"

\* build_standard_packet, then quality_with_freshness, then the cache.
Built(q, depth, m, a) ==
  [quality |-> Aged(q, a),
   lri |-> Lri(q, depth, m)]

\* refresh_symbol_with_rank_at.
Publish == packet' = Built(quality', book', measured', age')

\* An event sets last_event_time_ms to its own time, whatever it was before.
Heard(a) == age' = a /\ quiet' = 0

Delays == 0..MaxDelay

\* full_book_resync_needed is looked at after every payload.
ResyncCheck ==
  /\ awaiting' = IF quality'.seqOk = "gap" THEN "depth" ELSE "loop"
  /\ UNCHANGED <<booted, due>>

-----------------------------------------------------------------------------
(***************************************************************************)
(* Payloads handled by the select loop.                                    *)
(***************************************************************************)
\* Mark prices, tickers, liquidations and closed klines of the stream: the
\* fields they fill in are not modelled, the freshness is.
HandleTimed ==
  /\ awaiting = "loop"
  /\ \E a \in Delays : Heard(a)
  /\ quality' = SetStale(quality, FALSE)
  /\ UNCHANGED <<partial, book, measured>>
  /\ Publish
  /\ ResyncCheck

\* apply_partial_depth leaves mode and coverage alone when there is a full
\* book, unless its coverage is unknown.
Covered(q, isFull, shown) ==
  LET coverage == IF isFull /\ q.coverage # "unknown" THEN q.coverage ELSE shown
  IN [mode |-> IF isFull THEN q.mode ELSE "partial20",
      seqOk |-> IF isFull THEN q.seqOk ELSE "none",
      coverage |-> coverage,
      stale |-> FALSE,
      reasons |-> With(With(q.reasons, "DepthCoverageLt5Bp", coverage # "wide"),
                       "StaleMarketData", FALSE)]

HandlePartial ==
  /\ awaiting = "loop"
  /\ partial' \in Coverage
  /\ quality' = Covered(quality, book # "none", partial')
  /\ \E a \in Delays : Heard(a)
  /\ UNCHANGED <<book, measured>>
  /\ Publish
  /\ ResyncCheck

\* Mutant: an accepted delta is not measured for the LRI.
DepthAcceptedUnmeasured ==
  \E depth \in Depths, a \in Delays :
    /\ book' = depth
    /\ Heard(a)
    /\ quality' = SetStale(Trusting(quality), FALSE)
    /\ measured' = IF measured = "current" THEN "old" ELSE measured

\* apply_full_depth_delta, Ok: a stale delta changes no level but counts as
\* an event and is measured again.
DepthAccepted ==
  \E depth \in Depths, a \in Delays :
    /\ book' = depth
    /\ Heard(a)
    /\ quality' = SetStale(Trusting(quality), FALSE)
    /\ measured' = Record(quality', depth, depth # book)

\* Mutant: the rejected delta leaves its reason out.
DepthGapSilent ==
  /\ quality' = [quality EXCEPT !.seqOk = "gap"]
  /\ UNCHANGED <<book, measured, age, quiet>>

\* apply_full_depth_delta, Err.
DepthGap ==
  /\ quality' = [quality EXCEPT !.seqOk = "gap",
                   !.reasons = @ \cup {"FullBookSequenceGap"}]
  /\ UNCHANGED <<book, measured, age, quiet>>

\* The depth event refreshes no packet.  After a gap every delta is one,
\* until a snapshot (DepthSync!GapHeldUntilSnapshot); without a book it is
\* ignored.
HandleDepth ==
  /\ awaiting = "loop"
  /\ \/ book # "none" /\ quality.seqOk = "ok" /\ DepthAccepted
     \/ book # "none" /\ DepthGap
     \/ book = "none" /\ UNCHANGED <<book, measured, age, quiet, quality>>
  /\ UNCHANGED <<partial, packet>>
  /\ ResyncCheck

\* Mutant: the aged quality is stored and not published.
AgeAllStateOnly ==
  /\ awaiting = "loop"
  /\ due
  /\ due' = FALSE
  /\ quality' = Aged(quality, age)
  /\ UNCHANGED <<age, quiet, partial, book, measured, awaiting, booted, packet>>

\* age_all: store the aged quality and publish.
AgeAll ==
  /\ awaiting = "loop"
  /\ due
  /\ due' = FALSE
  /\ quality' = Aged(quality, age)
  /\ UNCHANGED <<age, quiet, partial, book, measured, awaiting, booted>>
  /\ Publish

\* oi_tick: the loop suspends itself in the request.
OiTick ==
  /\ awaiting = "loop"
  /\ awaiting' = "oi"
  /\ UNCHANGED <<age, quiet, partial, book, measured, quality, packet, booted, due>>

-----------------------------------------------------------------------------
(***************************************************************************)
(* REST calls.  The bootstrap calls follow each other; age_tick exists     *)
(* from the loop on and fires at once.                                     *)
(***************************************************************************)
NextCall ==
  IF booted \/ awaiting = "oi" THEN "loop"
  ELSE [klines |-> "depth", depth |-> "funding", funding |-> "premium",
        premium |-> "oi"][awaiting]

Resume ==
  /\ awaiting' = NextCall
  /\ booted' = (NextCall = "loop")
  /\ due' = (due \/ (~booted /\ NextCall = "loop"))

\* Mutant: the close time is taken one unit too late.
KlinesArriveLate ==
  /\ awaiting = "klines"
  /\ \E a \in (-Ahead - 1)..0 : Heard(a)
  /\ quality' = SetStale(quality, FALSE)
  /\ UNCHANGED <<partial, book, measured>>
  /\ Publish
  /\ Resume

\* A candle in progress closes in the future, and that is its event time.
KlinesArrive ==
  /\ awaiting = "klines"
  /\ \E a \in -Ahead..0 : Heard(a)
  /\ quality' = SetStale(quality, FALSE)
  /\ UNCHANGED <<partial, book, measured>>
  /\ Publish
  /\ Resume

\* Mutant: only the first snapshot sets the mode.
SnapshotArrivesModeless ==
  /\ awaiting = "depth"
  /\ book' \in Depths
  /\ quality' = SetStale([Trusting(quality) EXCEPT !.mode = quality.mode,
       !.coverage = IF book' = "blank" THEN "unknown" ELSE "wide"], FALSE)
  /\ measured' = Record(quality', book', TRUE)
  /\ UNCHANGED <<age, quiet, partial>>
  /\ Publish
  /\ Resume

\* apply_full_depth_snapshot: no event time, and no look at the coverage
\* reason.
SnapshotArrives ==
  /\ awaiting = "depth"
  /\ book' \in Depths
  /\ quality' = SetStale([Trusting(quality) EXCEPT
       !.coverage = IF book' = "blank" THEN "unknown" ELSE "wide"], FALSE)
  /\ measured' = Record(quality', book', TRUE)
  /\ UNCHANGED <<age, quiet, partial>>
  /\ Publish
  /\ Resume

\* apply_funding_history touches neither event time nor freshness.
FundingArrives ==
  /\ awaiting = "funding"
  /\ UNCHANGED <<age, quiet, partial, book, measured, quality>>
  /\ Publish
  /\ Resume

\* Premium index and open interest carry an event time.
MetricsArrive ==
  /\ awaiting \in {"premium", "oi"}
  /\ \E a \in Delays : Heard(a)
  /\ quality' = SetStale(quality, FALSE)
  /\ UNCHANGED <<partial, book, measured>>
  /\ Publish
  /\ Resume

RestFails ==
  /\ awaiting # "loop"
  /\ UNCHANGED <<age, quiet, partial, book, measured, quality, packet>>
  /\ Resume

-----------------------------------------------------------------------------
\* One unit of time passes and age_tick fires.  In the loop an age tick is
\* served before the next one; a REST call takes as long as it takes.
Tick ==
  /\ due => awaiting # "loop"
  /\ age' = Older(age)
  /\ quiet' = Older(quiet)
  /\ due' = booted
  /\ UNCHANGED <<partial, book, measured, quality, packet, awaiting, booted>>

Next ==
  \/ HandleTimed \/ HandlePartial \/ HandleDepth \/ AgeAll \/ OiTick
  \/ KlinesArrive \/ SnapshotArrives \/ FundingArrives \/ MetricsArrive
  \/ RestFails \/ Tick

Spec == Init /\ [][Next]_vars

-----------------------------------------------------------------------------
(***************************************************************************)
(* Properties.                                                             *)
(***************************************************************************)
Published == packet # NoPacket

\* book_mode and book_seq_ok are written by three handlers, each looking at
\* the others' work: together they always tell which books there are.
ModeAgreement ==
  /\ quality.mode = "full" <=> book # "none"
  /\ quality.seqOk = "none" <=> book = "none"
  /\ quality.mode = "none" <=> book = "none" /\ partial = "none"

\* A packet never contradicts itself: its flags and its reason codes agree,
\* although they are set and cleared by different handlers, and its reason
\* codes outlive the handler that added them.
PacketReasons ==
  Published =>
    /\ packet.quality.stale <=> "StaleMarketData" \in packet.quality.reasons
    /\ packet.quality.seqOk = "gap" <=> "FullBookSequenceGap" \in packet.quality.reasons

\* The LRI of a packet is measured on the book the packet describes, not on
\* one replaced since (latest_neg_spread_bp and its siblings are stored at
\* the last measurement, the missing reasons computed at publication).
LriFromPresentBook == Published => packet.lri \notin {"missing", "old"}

\* What makes the two hold: the state's own gap flag and reason agree, and a
\* trusted book that can be measured has been.
GapReason == quality.seqOk = "gap" <=> "FullBookSequenceGap" \in quality.reasons

Measured == (Trusted(quality) /\ book = "deep") => measured = "current"

\* The inductive invariant.
IInv ==
  /\ TypeOK /\ ModeAgreement /\ GapReason /\ Measured
  /\ PacketReasons /\ LriFromPresentBook

\* While the loop turns, the cached packet is stale as soon as the threshold
\* is passed, and an age tick later at most.
StaleInTime ==
  (Published /\ awaiting = "loop" /\ ~due /\ age > StaleAfter) => packet.quality.stale

\* A symbol whose streams are silent is marked stale although a candle in
\* progress dates its last event into the future: one candle later at most.
SilenceShows ==
  (Published /\ awaiting = "loop" /\ ~due /\ quiet > StaleAfter + Ahead)
    => packet.quality.stale

\* docs/superpowers/specs/2026-05-01-perp-radar-v1-design.md:397: "Mark packet
\* stale when event freshness exceeds configured thresholds", an age tick
\* later at most.
StaleIsMarked == (Published /\ age > StaleAfter + 1) => packet.quality.stale
=============================================================================
