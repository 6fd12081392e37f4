-------------------------- MODULE SymbolStateProofs --------------------------
(***************************************************************************)
(* The quality record and the packets published from it never contradict   *)
(* the books, for any threshold, delay and candle length.                  *)
(***************************************************************************)
EXTENDS SymbolState, TLAPS

-----------------------------------------------------------------------------
(***************************************************************************)
(* What the helpers do to the fields of a quality record.                  *)
(***************************************************************************)
\* The gap flag and the gap reason of a record agree.
Consistent(q) == q.seqOk = "gap" <=> "FullBookSequenceGap" \in q.reasons

\* Freshness touches neither the mode nor the gap flag nor its reason.
LEMMA SetStaleFacts ==
  ASSUME NEW q \in Quality, NEW stale \in BOOLEAN
  PROVE  /\ SetStale(q, stale) \in Quality
         /\ SetStale(q, stale).mode = q.mode
         /\ SetStale(q, stale).seqOk = q.seqOk
         /\ SetStale(q, stale).stale <=> "StaleMarketData" \in SetStale(q, stale).reasons
         /\ Consistent(q) => Consistent(SetStale(q, stale))
<1>1. q.reasons \in SUBSET Reasons
  BY DEF Quality
<1>2. /\ With(q.reasons, "StaleMarketData", stale) \in SUBSET Reasons
      /\ stale <=> "StaleMarketData" \in With(q.reasons, "StaleMarketData", stale)
      /\ "FullBookSequenceGap" \in q.reasons
           <=> "FullBookSequenceGap" \in With(q.reasons, "StaleMarketData", stale)
  BY <1>1 DEF With, Reasons
<1>4. /\ SetStale(q, stale) \in Quality
      /\ SetStale(q, stale).mode = q.mode
      /\ SetStale(q, stale).seqOk = q.seqOk
      /\ SetStale(q, stale).stale = stale
      /\ SetStale(q, stale).reasons = With(q.reasons, "StaleMarketData", stale)
  BY <1>2 DEF SetStale, Quality
<1> QED
  BY <1>2, <1>4, Zenon DEF Consistent

LEMMA TrustingFacts ==
  ASSUME NEW q \in Quality
  PROVE  /\ Trusting(q) \in Quality
         /\ Trusting(q).mode = "full" /\ Trusting(q).seqOk = "ok"
         /\ Consistent(Trusting(q))
<1>1. /\ Trusting(q) \in Quality
      /\ Trusting(q).mode = "full" /\ Trusting(q).seqOk = "ok"
      /\ Trusting(q).reasons = q.reasons \ {"FullBookSequenceGap"}
  BY DEF Trusting, Quality
<1> QED
  BY <1>1 DEF Consistent

LEMMA CoveredFacts ==
  ASSUME NEW q \in Quality, NEW isFull \in BOOLEAN, NEW shown \in Coverage,
         Consistent(q), ~isFull => q.seqOk = "none"
  PROVE  /\ Covered(q, isFull, shown) \in Quality
         /\ Covered(q, isFull, shown).mode = (IF isFull THEN q.mode ELSE "partial20")
         /\ Covered(q, isFull, shown).seqOk = q.seqOk
         /\ Consistent(Covered(q, isFull, shown))
<1> DEFINE coverage == IF isFull /\ q.coverage # "unknown" THEN q.coverage ELSE shown
           first == With(q.reasons, "DepthCoverageLt5Bp", coverage # "wide")
           second == With(first, "StaleMarketData", FALSE)
<1>1. q.reasons \in SUBSET Reasons /\ coverage \in Coverage
  BY DEF Quality
<1>2. /\ first \in SUBSET Reasons
      /\ "FullBookSequenceGap" \in first <=> "FullBookSequenceGap" \in q.reasons
  BY <1>1 DEF Reasons, With
<1>3. /\ second \in SUBSET Reasons
      /\ "FullBookSequenceGap" \in second <=> "FullBookSequenceGap" \in q.reasons
  <2> HIDE DEF first
  <2> QED
    BY <1>2 DEF Reasons, With
<1>4. Covered(q, isFull, shown) =
        [mode |-> IF isFull THEN q.mode ELSE "partial20",
         seqOk |-> IF isFull THEN q.seqOk ELSE "none",
         coverage |-> coverage, stale |-> FALSE, reasons |-> second]
  BY DEF Covered
<1>5. /\ q.mode \in {"none", "partial20", "full"}
      /\ q.seqOk \in {"none", "ok", "gap"}
  BY DEF Quality
<1> HIDE DEF coverage, first, second
<1>6. Covered(q, isFull, shown) \in Quality
  BY <1>1, <1>3, <1>4, <1>5 DEF Quality
<1>7. /\ Covered(q, isFull, shown).mode = (IF isFull THEN q.mode ELSE "partial20")
      /\ Covered(q, isFull, shown).seqOk = q.seqOk
      /\ Covered(q, isFull, shown).reasons = second
  BY <1>4
<1> QED
  BY <1>3, <1>6, <1>7 DEF Consistent

LEMMA BuiltFacts ==
  ASSUME NEW q \in Quality, NEW depth \in {"none"} \cup Depths,
         NEW m \in {"none", "current", "old"}, NEW a,
         Consistent(q), Trusted(q) /\ depth = "deep" => m = "current"
  PROVE  /\ Built(q, depth, m, a) \in Packet
         /\ Consistent(Built(q, depth, m, a).quality)
         /\ Built(q, depth, m, a).quality.stale
              <=> "StaleMarketData" \in Built(q, depth, m, a).quality.reasons
         /\ Built(q, depth, m, a).lri \notin {"missing", "old"}
<1> DEFINE aged == Aged(q, a)
           lri == Lri(q, depth, m)
<1>1. /\ aged \in Quality
      /\ Consistent(aged)
      /\ aged.stale <=> "StaleMarketData" \in aged.reasons
  <2>1. (a > StaleAfter) \in BOOLEAN
    OBVIOUS
  <2> QED
    BY <2>1, SetStaleFacts, Zenon DEF Aged
<1>2. lri \in {"none", "current"}
  BY DEF Lri
<1>3. Built(q, depth, m, a) = [quality |-> aged, lri |-> lri]
  BY DEF Built
<1> HIDE DEF aged, lri
<1>4. /\ Built(q, depth, m, a).quality = aged
      /\ Built(q, depth, m, a).lri = lri
      /\ Built(q, depth, m, a) \in Packet
  BY <1>1, <1>2, <1>3 DEF Packet
<1> QED
  BY <1>1, <1>2, <1>4

-----------------------------------------------------------------------------
(***************************************************************************)
(* The inductive invariant by the parts the actions touch separately.      *)
(***************************************************************************)
ClockOK == age \in -Ahead..MaxAge /\ quiet \in 0..MaxAge

EngineOK ==
  /\ awaiting \in {"loop", "klines", "depth", "funding", "premium", "oi"}
  /\ booted \in BOOLEAN /\ due \in BOOLEAN

DataOK ==
  /\ quality \in Quality
  /\ partial \in {"none"} \cup Coverage
  /\ book \in {"none"} \cup Depths
  /\ measured \in {"none", "current", "old"}
  /\ ModeAgreement /\ GapReason /\ Measured

PacketOK ==
  /\ packet \in Packet \cup {NoPacket}
  /\ PacketReasons /\ LriFromPresentBook

LEMMA IInvParts == IInv <=> ClockOK /\ EngineOK /\ DataOK /\ PacketOK
BY Zenon DEF IInv, TypeOK, ClockOK, EngineOK, DataOK, PacketOK

LEMMA InitIInv == Init => IInv
<1> SUFFICES ASSUME Init PROVE ClockOK /\ EngineOK /\ DataOK /\ PacketOK
  BY IInvParts
<1>1. MaxAge \in Nat
  BY TimeAssumption DEF MaxAge
<1>2. ClockOK
  BY <1>1, TimeAssumption DEF Init, ClockOK
<1>3. EngineOK
  BY DEF Init, EngineOK
<1>4. DataOK
  <2>1. quality \in Quality
    BY DEF Init, Quality, Coverage
  <2> QED
    BY <2>1 DEF Init, DataOK, ModeAgreement, GapReason, Measured, Trusted, Depths
<1>5. PacketOK
  BY DEF Init, PacketOK, PacketReasons, LriFromPresentBook, Published
<1> QED
  BY <1>2, <1>3, <1>4, <1>5

\* Every handler that publishes leaves a packet that does not contradict
\* itself, because the data it is built from are in order.
LEMMA PublishOK == ASSUME DataOK', Publish PROVE PacketOK'
<1>1. packet' = Built(quality', book', measured', age')
  BY DEF Publish
<1>2. /\ packet' \in Packet
      /\ Consistent(packet'.quality)
      /\ packet'.quality.stale <=> "StaleMarketData" \in packet'.quality.reasons
      /\ packet'.lri \notin {"missing", "old"}
  BY <1>1, BuiltFacts DEF DataOK, GapReason, Measured, Consistent, Trusted
<1> QED
  BY <1>2 DEF PacketOK, PacketReasons, LriFromPresentBook, Consistent

LEMMA HeardOK ==
  ASSUME NEW a \in -Ahead..MaxDelay, Heard(a)
  PROVE  ClockOK'
BY TimeAssumption DEF Heard, ClockOK, MaxAge

LEMMA DelaysHeard == Delays \subseteq -Ahead..MaxDelay
BY TimeAssumption DEF Delays

LEMMA ResyncCheckOK == ASSUME EngineOK, ResyncCheck PROVE EngineOK'
BY DEF EngineOK, ResyncCheck

LEMMA ResumeOK == ASSUME EngineOK, awaiting # "loop", Resume PROVE EngineOK'
<1>1. NextCall \in {"loop", "depth", "funding", "premium", "oi"}
  BY DEF NextCall, EngineOK
<1> QED
  BY <1>1 DEF EngineOK, Resume

\* A handler that only sets the freshness leaves the books' record in order.
LEMMA FreshnessOK ==
  ASSUME DataOK, NEW stale \in BOOLEAN, quality' = SetStale(quality, stale),
         UNCHANGED <<partial, book, measured>>
  PROVE  DataOK'
<1>1. /\ quality' \in Quality
      /\ quality'.mode = quality.mode
      /\ quality'.seqOk = quality.seqOk
      /\ Consistent(quality')
  BY SetStaleFacts, Zenon DEF DataOK, GapReason, Consistent
<1> QED
  BY <1>1 DEF DataOK, ModeAgreement, GapReason, Measured, Trusted, Consistent

-----------------------------------------------------------------------------
(***************************************************************************)
(* One lemma per action that changes more than the freshness.              *)
(***************************************************************************)
LEMMA HandlePartialData == ASSUME DataOK, HandlePartial PROVE DataOK'
<1>1. /\ quality' = Covered(quality, book # "none", partial')
      /\ partial' \in Coverage /\ book' = book /\ measured' = measured
  BY DEF HandlePartial
<1>2. /\ Consistent(quality) /\ quality \in Quality
      /\ (book # "none") \in BOOLEAN
      /\ ~(book # "none") => quality.seqOk = "none"
  BY DEF DataOK, GapReason, Consistent, ModeAgreement
<1>3. /\ quality' \in Quality
      /\ quality'.mode = (IF book # "none" THEN quality.mode ELSE "partial20")
      /\ quality'.seqOk = quality.seqOk
      /\ Consistent(quality')
  BY <1>1, <1>2, CoveredFacts, Zenon
<1>4. partial' # "none"
  BY <1>1 DEF Coverage
<1> QED
  BY <1>1, <1>3, <1>4
  DEF DataOK, ModeAgreement, GapReason, Measured, Trusted, Consistent, Depths

LEMMA RecordFacts ==
  ASSUME NEW q, NEW depth, NEW changed \in BOOLEAN,
         measured \in {"none", "current", "old"}
  PROVE  /\ Record(q, depth, changed) \in {"none", "current", "old"}
         /\ Trusted(q) /\ depth = "deep" => Record(q, depth, changed) = "current"
BY DEF Record

\* A book the state trusts, measured as it came.
LEMMA TrustedBookOK ==
  ASSUME DataOK, quality' \in Quality, Consistent(quality'),
         quality'.mode = "full", quality'.seqOk = "ok",
         book' \in Depths, partial' = partial,
         NEW changed \in BOOLEAN, measured' = Record(quality', book', changed)
  PROVE  DataOK'
<1>1. /\ measured' \in {"none", "current", "old"}
      /\ Trusted(quality') /\ book' = "deep" => measured' = "current"
  BY RecordFacts, Zenon DEF DataOK
<1>2. book' # "none"
  BY DEF Depths
<1> QED
  BY <1>1, <1>2
  DEF DataOK, ModeAgreement, GapReason, Measured, Trusted, Consistent

LEMMA DepthAcceptedOK ==
  ASSUME DataOK, DepthAccepted, partial' = partial
  PROVE  DataOK' /\ ClockOK'
<1>1. PICK depth \in Depths, a \in Delays :
        /\ book' = depth
        /\ Heard(a)
        /\ quality' = SetStale(Trusting(quality), FALSE)
        /\ measured' = Record(quality', depth, depth # book)
  BY Zenon DEF DepthAccepted
<1>2. /\ quality' \in Quality /\ Consistent(quality')
      /\ quality'.mode = "full" /\ quality'.seqOk = "ok"
  BY <1>1, TrustingFacts, SetStaleFacts, Zenon DEF DataOK
<1>3. (depth # book) \in BOOLEAN
  OBVIOUS
<1>4. DataOK'
  BY <1>1, <1>2, <1>3, TrustedBookOK, Zenon
<1>5. ClockOK'
  BY <1>1, HeardOK, DelaysHeard
<1> QED
  BY <1>4, <1>5

LEMMA DepthGapData ==
  ASSUME DataOK, book # "none", DepthGap, partial' = partial
  PROVE  DataOK'
<1>1. /\ quality' = [quality EXCEPT !.seqOk = "gap",
                       !.reasons = @ \cup {"FullBookSequenceGap"}]
      /\ book' = book /\ measured' = measured
  BY DEF DepthGap
<1>2. /\ quality' \in Quality
      /\ quality'.mode = quality.mode
      /\ quality'.seqOk = "gap"
      /\ quality'.reasons = quality.reasons \cup {"FullBookSequenceGap"}
  BY <1>1 DEF DataOK, Quality, Reasons
<1> QED
  BY <1>1, <1>2 DEF DataOK, ModeAgreement, GapReason, Measured, Trusted

LEMMA SnapshotData == ASSUME DataOK, SnapshotArrives PROVE DataOK'
<1> DEFINE covered == [Trusting(quality) EXCEPT
                         !.coverage = IF book' = "blank" THEN "unknown" ELSE "wide"]
<1>1. /\ book' \in Depths /\ partial' = partial
      /\ quality' = SetStale(covered, FALSE)
      /\ measured' = Record(quality', book', TRUE)
  BY DEF SnapshotArrives
<1>2. /\ Trusting(quality) \in Quality
      /\ Trusting(quality).mode = "full" /\ Trusting(quality).seqOk = "ok"
      /\ Consistent(Trusting(quality))
  BY TrustingFacts DEF DataOK
<1>3. /\ covered \in Quality
      /\ covered.mode = "full" /\ covered.seqOk = "ok"
      /\ covered.reasons = Trusting(quality).reasons
  BY <1>2 DEF Quality, Coverage
<1>4. Consistent(covered)
  BY <1>2, <1>3 DEF Consistent
<1> HIDE DEF covered
<1>5. /\ quality' \in Quality /\ Consistent(quality')
      /\ quality'.mode = "full" /\ quality'.seqOk = "ok"
  BY <1>1, <1>3, <1>4, SetStaleFacts, Zenon
<1> QED
  BY <1>1, <1>5, TrustedBookOK, Zenon

-----------------------------------------------------------------------------
LEMMA NextIInv == ASSUME IInv, [Next]_vars PROVE IInv'
<1> USE DEF vars
<1>0. ClockOK /\ EngineOK /\ DataOK /\ PacketOK
  BY IInvParts
<1> SUFFICES ClockOK' /\ EngineOK' /\ DataOK' /\ PacketOK'
  BY Zenon DEF IInv, TypeOK, ClockOK, EngineOK, DataOK, PacketOK
<1>1. CASE HandleTimed
  <2>1. ClockOK' /\ EngineOK'
    BY <1>0, <1>1, HeardOK, DelaysHeard, ResyncCheckOK DEF HandleTimed
  <2>2. DataOK'
    BY <1>0, <1>1, FreshnessOK DEF HandleTimed
  <2> QED
    BY <1>1, <2>1, <2>2, PublishOK DEF HandleTimed
<1>2. CASE HandlePartial
  <2>1. ClockOK' /\ EngineOK'
    BY <1>0, <1>2, HeardOK, DelaysHeard, ResyncCheckOK DEF HandlePartial
  <2>2. DataOK'
    BY <1>0, <1>2, HandlePartialData
  <2> QED
    BY <1>2, <2>1, <2>2, PublishOK DEF HandlePartial
<1>3. CASE HandleDepth
  <2>1. EngineOK'
    BY <1>0, <1>3, ResyncCheckOK DEF HandleDepth
  <2>2. PacketOK'
    BY <1>0, <1>3 DEF HandleDepth, PacketOK, PacketReasons, LriFromPresentBook, Published
  <2>3. ClockOK' /\ DataOK'
    <3>1. CASE DepthAccepted
      BY <1>0, <1>3, <3>1, DepthAcceptedOK DEF HandleDepth
    <3>2. CASE book # "none" /\ DepthGap
      BY <1>0, <1>3, <3>2, DepthGapData DEF HandleDepth, DepthGap, ClockOK
    <3>3. CASE UNCHANGED <<book, measured, age, quiet, quality>>
      BY <1>0, <1>3, <3>3
      DEF HandleDepth, ClockOK, DataOK, ModeAgreement, GapReason, Measured, Trusted
    <3> QED
      BY <1>3, <3>1, <3>2, <3>3 DEF HandleDepth
  <2> QED
    BY <2>1, <2>2, <2>3
<1>4. CASE AgeAll
  <2>1. ClockOK' /\ EngineOK'
    BY <1>0, <1>4 DEF AgeAll, ClockOK, EngineOK
  <2>2. DataOK'
    <3>1. (age > StaleAfter) \in BOOLEAN
      OBVIOUS
    <3> QED
      BY <1>0, <1>4, <3>1, FreshnessOK, Zenon DEF AgeAll, Aged
  <2> QED
    BY <1>4, <2>1, <2>2, PublishOK DEF AgeAll
<1>5. CASE OiTick
  BY <1>0, <1>5 DEF OiTick, ClockOK, EngineOK, DataOK, PacketOK, ModeAgreement,
    GapReason, Measured, Trusted, PacketReasons, LriFromPresentBook, Published
<1>6. CASE KlinesArrive
  <2>1. ClockOK' /\ EngineOK'
    <3>1. -Ahead..0 \subseteq -Ahead..MaxDelay
      BY TimeAssumption
    <3> QED
      BY <1>0, <1>6, <3>1, HeardOK, ResumeOK DEF KlinesArrive
  <2>2. DataOK'
    BY <1>0, <1>6, FreshnessOK DEF KlinesArrive
  <2> QED
    BY <1>6, <2>1, <2>2, PublishOK DEF KlinesArrive
<1>7. CASE SnapshotArrives
  <2>1. ClockOK' /\ EngineOK'
    BY <1>0, <1>7, ResumeOK DEF SnapshotArrives, ClockOK
  <2>2. DataOK'
    BY <1>0, <1>7, SnapshotData
  <2> QED
    BY <1>7, <2>1, <2>2, PublishOK DEF SnapshotArrives
<1>8. CASE FundingArrives
  <2>1. ClockOK' /\ EngineOK'
    BY <1>0, <1>8, ResumeOK DEF FundingArrives, ClockOK
  <2>2. DataOK'
    BY <1>0, <1>8
    DEF FundingArrives, DataOK, ModeAgreement, GapReason, Measured, Trusted
  <2> QED
    BY <1>8, <2>1, <2>2, PublishOK DEF FundingArrives
<1>9. CASE MetricsArrive
  <2>1. ClockOK' /\ EngineOK'
    BY <1>0, <1>9, HeardOK, DelaysHeard, ResumeOK DEF MetricsArrive
  <2>2. DataOK'
    BY <1>0, <1>9, FreshnessOK DEF MetricsArrive
  <2> QED
    BY <1>9, <2>1, <2>2, PublishOK DEF MetricsArrive
<1>10. CASE RestFails
  <2>1. ClockOK' /\ EngineOK'
    BY <1>0, <1>10, ResumeOK DEF RestFails, ClockOK
  <2> QED
    BY <1>0, <1>10, <2>1 DEF RestFails, DataOK, PacketOK, ModeAgreement,
      GapReason, Measured, Trusted, PacketReasons, LriFromPresentBook, Published
<1>11. CASE Tick
  <2>1. ClockOK'
    <3>1. MaxAge \in Nat
      BY TimeAssumption DEF MaxAge
    <3> QED
      BY <1>0, <1>11, <3>1, TimeAssumption DEF Tick, ClockOK, Older
  <2> QED
    BY <1>0, <1>11, <2>1 DEF Tick, EngineOK, DataOK, PacketOK, ModeAgreement,
      GapReason, Measured, Trusted, PacketReasons, LriFromPresentBook, Published
<1>12. CASE UNCHANGED vars
  BY <1>0, <1>12 DEF ClockOK, EngineOK, DataOK, PacketOK, ModeAgreement,
    GapReason, Measured, Trusted, PacketReasons, LriFromPresentBook, Published
<1> QED
  BY <1>1, <1>2, <1>3, <1>4, <1>5, <1>6, <1>7, <1>8, <1>9, <1>10, <1>11, <1>12
  DEF Next

\* Every reachable state satisfies the inductive invariant.
THEOREM Invariance == Spec => []IInv
BY InitIInv, NextIInv, PTL DEF Spec

\* Every variable keeps its type, the age of an event dated ahead of the
\* clock included.
THEOREM TypeCorrect == Spec => []TypeOK
<1>1. IInv => TypeOK
  BY DEF IInv
<1> QED
  BY <1>1, Invariance, PTL

\* book_mode and book_seq_ok tell which books there are, whichever of the
\* three handlers wrote them last.
THEOREM ModesAgree == Spec => []ModeAgreement
<1>1. IInv => ModeAgreement
  BY DEF IInv
<1> QED
  BY <1>1, Invariance, PTL

\* The flags and the reason codes of a published packet agree.
THEOREM PacketsAgree == Spec => []PacketReasons
<1>1. IInv => PacketReasons
  BY DEF IInv
<1> QED
  BY <1>1, Invariance, PTL

\* A published LRI is measured on the book the packet describes.
THEOREM LriIsPresent == Spec => []LriFromPresentBook
<1>1. IInv => LriFromPresentBook
  BY DEF IInv
<1> QED
  BY <1>1, Invariance, PTL
-----------------------------------------------------------------------------
(***************************************************************************)
(* Freshness in time.  An event that is older than the threshold when it   *)
(* is handled makes the symbol stale before the next age tick, hence the   *)
(* assumption on MaxDelay.                                                 *)
(***************************************************************************)
\* Once age ticks exist, a packet that should be stale is, or a tick is due.
Shown == (Published /\ booted /\ ~due /\ age > StaleAfter) => packet.quality.stale

LoopBooted == awaiting = "loop" => booted

\* The last event is dated Ahead into the future at most.
QuietAge == quiet - Ahead <= age

TimeInv == Shown /\ LoopBooted /\ QuietAge

\* A published packet is stale if and only if the state is at that moment.
LEMMA PublishStale ==
  ASSUME quality' \in Quality, Publish, age' > StaleAfter
  PROVE  packet'.quality.stale
<1>1. packet' = Built(quality', book', measured', age')
  BY DEF Publish
<1>2. packet'.quality = Aged(quality', age')
  BY <1>1 DEF Built
<1>3. SetStale(quality', TRUE).stale
  BY DEF SetStale, Quality
<1>4. Aged(quality', age') = SetStale(quality', TRUE)
  BY DEF Aged
<1> QED
  BY <1>2, <1>3, <1>4

LEMMA HeardQuiet ==
  ASSUME NEW a \in -Ahead..MaxDelay, Heard(a)
  PROVE  QuietAge' /\ age' <= MaxDelay
BY TimeAssumption DEF Heard, QuietAge

\* The loop is entered with the bootstrap over, and then with a tick due.
LEMMA ResumeBooted ==
  ASSUME EngineOK, awaiting # "loop", LoopBooted, Resume
  PROVE  /\ LoopBooted'
         /\ booted' /\ ~due' => booted /\ ~due
BY DEF EngineOK, LoopBooted, Resume, NextCall

LEMMA NextTimeInv ==
  ASSUME MaxDelay <= StaleAfter, IInv, IInv', TimeInv, [Next]_vars
  PROVE  TimeInv'
<1>0. /\ EngineOK /\ quality' \in Quality
      /\ age \in Int /\ quiet \in Int /\ age' \in Int /\ quiet' \in Int
  BY DEF IInv, TypeOK, EngineOK
<1>1. ASSUME UNCHANGED <<age, quiet>> PROVE QuietAge'
  BY <1>1 DEF TimeInv, QuietAge
<1>2. ASSUME NEW a \in -Ahead..MaxDelay, Heard(a) PROVE QuietAge' /\ age' <= StaleAfter
  BY <1>2, HeardQuiet, TimeAssumption DEF Heard
<1>3. ASSUME Publish PROVE Shown'
  BY <1>0, <1>3, PublishStale DEF Shown
<1>4. ASSUME ResyncCheck, awaiting = "loop" PROVE LoopBooted' /\ booted' = booted /\ due' = due
  BY <1>4 DEF TimeInv, LoopBooted, ResyncCheck
<1>5. ASSUME age' <= StaleAfter PROVE Shown'
  BY <1>0, <1>5, TimeAssumption DEF Shown
<1>6. CASE HandleTimed \/ HandlePartial
  BY <1>2, <1>3, <1>4, <1>6, DelaysHeard DEF TimeInv, HandleTimed, HandlePartial
<1>7. CASE HandleDepth
  <2>1. CASE DepthAccepted
    <3>1. \E a \in -Ahead..MaxDelay : Heard(a)
      BY <2>1, DelaysHeard DEF DepthAccepted
    <3> QED
      BY <1>2, <1>4, <1>5, <1>7, <3>1 DEF TimeInv, HandleDepth
  <2>2. CASE UNCHANGED <<age, quiet>>
    BY <1>1, <1>4, <1>7, <2>2 DEF TimeInv, Shown, Published, HandleDepth
  <2> QED
    BY <1>7, <2>1, <2>2 DEF HandleDepth, DepthGap
<1>8. CASE AgeAll
  BY <1>1, <1>3, <1>8 DEF AgeAll, TimeInv, LoopBooted
<1>9. CASE OiTick
  BY <1>1, <1>9 DEF OiTick, TimeInv, LoopBooted, Shown, Published
<1>10. CASE KlinesArrive \/ MetricsArrive
  <2>1. /\ \E a \in -Ahead..MaxDelay : Heard(a)
        /\ Publish /\ Resume /\ awaiting # "loop"
    <3>1. -Ahead..0 \subseteq -Ahead..MaxDelay
      BY TimeAssumption
    <3>2. CASE KlinesArrive
      BY <3>1, <3>2 DEF KlinesArrive
    <3>3. CASE MetricsArrive
      BY <3>3, DelaysHeard DEF MetricsArrive
    <3> QED
      BY <1>10, <3>2, <3>3
  <2> QED
    BY <1>0, <1>2, <1>3, <2>1, ResumeBooted DEF TimeInv
<1>11. CASE SnapshotArrives \/ FundingArrives
  <2>1. UNCHANGED <<age, quiet>> /\ Publish /\ Resume /\ awaiting # "loop"
    BY <1>11 DEF SnapshotArrives, FundingArrives
  <2> QED
    BY <1>0, <1>1, <1>3, <2>1, ResumeBooted DEF TimeInv
<1>12. CASE RestFails
  <2>1. UNCHANGED <<age, quiet, packet>> /\ Resume /\ awaiting # "loop"
    BY <1>12 DEF RestFails
  <2> QED
    BY <1>0, <1>1, <2>1, ResumeBooted DEF TimeInv, Shown, Published
<1>13. CASE Tick
  <2>1. QuietAge'
    <3>1. MaxAge \in Nat
      BY TimeAssumption DEF MaxAge
    <3>2. quiet \in 0..MaxAge
      BY DEF IInv, TypeOK
    <3> QED
      BY <1>0, <1>13, <3>1, <3>2, TimeAssumption DEF TimeInv, QuietAge, Tick, Older
  <2>2. Shown' /\ LoopBooted'
    BY <1>13 DEF TimeInv, Tick, Shown, LoopBooted
  <2> QED
    BY <2>1, <2>2 DEF TimeInv
<1>14. CASE UNCHANGED vars
  BY <1>1, <1>14 DEF vars, TimeInv, Shown, LoopBooted, Published
<1> QED
  BY <1>6, <1>7, <1>8, <1>9, <1>10, <1>11, <1>12, <1>13, <1>14 DEF Next

LEMMA TimeInvariance ==
  ASSUME MaxDelay <= StaleAfter
  PROVE  Spec => []TimeInv
<1>1. Init => TimeInv
  <2>1. MaxAge \in Nat
    BY TimeAssumption DEF MaxAge
  <2> QED
    BY <2>1, TimeAssumption DEF Init, TimeInv, Shown, LoopBooted, QuietAge, Published
<1>2. IInv /\ IInv' /\ TimeInv /\ [Next]_vars => TimeInv'
  BY NextTimeInv
<1> QED
  BY <1>1, <1>2, Invariance, PTL DEF Spec

\* In the loop, no packet is fresh past the threshold unless its age tick is
\* due.
THEOREM FreshInTime ==
  ASSUME MaxDelay <= StaleAfter
  PROVE  Spec => []StaleInTime
<1>1. TimeInv => StaleInTime
  BY DEF TimeInv, Shown, LoopBooted, StaleInTime
<1> QED
  BY <1>1, TimeInvariance, PTL

\* A candle in progress, dated into the future, hides a silent symbol for
\* its own length at most.
THEOREM SilenceIsShown ==
  ASSUME MaxDelay <= StaleAfter
  PROVE  Spec => []SilenceShows
<1>1. IInv /\ TimeInv => SilenceShows
  <2> SUFFICES ASSUME IInv, TimeInv, Published, awaiting = "loop", ~due,
                      quiet > StaleAfter + Ahead
               PROVE  packet.quality.stale
    BY DEF SilenceShows
  <2>1. age > StaleAfter
    BY TimeAssumption DEF IInv, TypeOK, TimeInv, QuietAge
  <2> QED
    BY <2>1 DEF TimeInv, Shown, LoopBooted
<1> QED
  BY <1>1, Invariance, TimeInvariance, PTL
=============================================================================
