-------------------------- MODULE FormalScoresProofs --------------------------
(***************************************************************************)
(* Every handler records what it changes: the samples behind an available  *)
(* score are those of the present, for every size of the windows.  The     *)
(* liquidations remembered are the last to arrive: the totals are exact as *)
(* long as the cap has cut nothing of the window, for every cap.           *)
(***************************************************************************)
EXTENDS MCFormalScores, SequenceTheorems, FiniteSetTheorems, WellFoundedInduction,
        NaturalsInduction, TLAPS

\* What a handler leaves in each window.
LEMMA Recorded ==
  ASSUME TypeOK, NEW pushed, NEW changed, Record(pushed, changed)
  PROVE  /\ window' \in [Windows -> Window]
         /\ \A x \in Windows :
              /\ window[x].n \in Nat /\ window'[x].n \in Nat
              /\ x \in pushed =>
                   /\ window'[x].sampled
                   /\ window'[x].n = IF Full(x) THEN MinSamples ELSE window[x].n + 1
              /\ x \notin pushed =>
                   /\ window'[x].n = window[x].n
                   /\ window[x].sampled /\ x \notin changed => window'[x].sampled
<1>1. window \in [Windows -> Window] /\ MinSamples \in Nat \ {0}
  BY MinSamplesAssumption DEF TypeOK
<1>2. ASSUME NEW x \in Windows
      PROVE  /\ window'[x] \in Window /\ window[x].n \in Nat
             /\ x \in pushed =>
                  /\ window'[x].sampled
                  /\ window'[x].n = IF Full(x) THEN MinSamples ELSE window[x].n + 1
             /\ x \notin pushed =>
                  /\ window'[x].n = window[x].n
                  /\ window[x].sampled /\ x \notin changed => window'[x].sampled
  <2>1. window[x] \in [n : 0..MinSamples, sampled : BOOLEAN]
    BY <1>1 DEF Window
  <2>2. CASE x \in pushed
    <3>1. window'[x] = [n |-> IF Full(x) THEN MinSamples ELSE window[x].n + 1, sampled |-> TRUE]
      BY <2>2 DEF Record
    <3>2. (IF Full(x) THEN MinSamples ELSE window[x].n + 1) \in 0..MinSamples
      BY <1>1, <2>1 DEF Full
    <3> QED BY <2>1, <2>2, <3>1, <3>2 DEF Window
  <2>3. CASE x \notin pushed
    <3>1. window'[x] = [window[x] EXCEPT !.sampled = @ /\ x \notin changed]
      BY <2>3 DEF Record
    <3>2. window'[x] \in [n : 0..MinSamples, sampled : BOOLEAN] /\ window'[x].n = window[x].n
      BY <2>1, <3>1
    <3>3. window[x].sampled /\ x \notin changed => window'[x].sampled
      BY <2>1, <3>1
    <3> QED BY <2>1, <2>3, <3>2, <3>3 DEF Window
  <2> QED BY <2>2, <2>3
<1>3. window' = [x \in Windows |-> window'[x]]
  BY DEF Record
<1>4. window' \in [Windows -> Window]
  BY <1>2, <1>3
<1>5. \A x \in Windows : window'[x].n \in Nat
  BY <1>1, <1>2 DEF Window
<1> QED BY <1>2, <1>4, <1>5

-----------------------------------------------------------------------------
(***************************************************************************)
(* The invariant: a value that can be computed is the newest sample of its *)
(* window, whether a score uses it yet or not.                             *)
(***************************************************************************)
CarrySampled ==
  /\ rate => window["abs_basis_bp"].sampled
  /\ FundingZ => window["abs_fundz_7d"].sampled

ChartSampled ==
  /\ bars >= Adx /\ atr = "positive" => window["adx14"].sampled
  /\ bars >= Slope => window["ema50_slope"].sampled
  /\ bars >= Width => window["bb_width_pctile"].sampled
  /\ prevAtr = "positive" => window["atr_delta_ratio"].sampled

RpiSampled ==
  bars >= Rsi =>
    /\ window["rsi_extreme"].sampled
    /\ FundingZ => window["funding_same_side"].sampled

\* The raw score is recorded from the moment its components have full windows.
LriSampled ==
  /\ trusted /\ book = "deep" =>
       /\ window["lri_book"].sampled
       /\ Full("lri_raw") => window["lri_raw"].sampled
  /\ window["lri_raw"].n > 0 => Full("lri_book")

Sampled == CarrySampled /\ ChartSampled /\ RpiSampled /\ LriSampled

\* What no handler but those of the full book touches.
LriKept ==
  /\ UNCHANGED bookVars
  /\ \A x \in LriBook \cup {"lri_raw"} :
       /\ window'[x].n = window[x].n
       /\ window[x].sampled => window'[x].sampled

LEMMA LriStays == LriSampled /\ LriKept => LriSampled'
BY DEF LriSampled, LriKept, LriBook, Full, bookVars

LEMMA KlineStep ==
  ASSUME TypeOK, Sampled, ApplyKline
  PROVE  TypeOK' /\ Sampled'
<1> DEFINE pushed == ChartPushed' \cup RpiPushed'
           changed == ChartWindows \cup RpiWindows
<1>1. /\ UNCHANGED <<carryVars, partial, bookVars>>
      /\ bars' \in 0..Ema200 /\ atr' \in {"none", "zero", "positive"}
      /\ prevAtr' \in {"none", "zero", "positive"}
  BY DEF ApplyKline, TypeOK, Ema200, Rsi
<1>2. Record(pushed, changed)
  BY DEF ApplyKline
<1> HIDE DEF pushed, changed
<1>3. /\ window' \in [Windows -> Window]
      /\ \A x \in pushed \cap Windows : window'[x].sampled
      /\ \A x \in Windows \ pushed : window[x].sampled /\ x \notin changed => window'[x].sampled
      /\ \A x \in Windows \ pushed : window'[x].n = window[x].n
  BY <1>2, Recorded
<1>4. TypeOK'
  BY <1>1, <1>3 DEF TypeOK, carryVars, bookVars
<1>5. LriKept
  <2>1. ("lri_book" \notin pushed /\ "lri_book" \notin changed)
        /\ ("lri_raw" \notin pushed /\ "lri_raw" \notin changed)
    BY DEF pushed, changed, ChartPushed, RpiPushed, ChartWindows, RpiWindows
  <2> QED BY <1>1, <1>3, <2>1 DEF LriKept, LriBook, Windows, bookVars
<1>6. CarrySampled'
  <2>1. ("abs_basis_bp" \notin pushed /\ "abs_basis_bp" \notin changed)
        /\ ("abs_fundz_7d" \notin pushed /\ "abs_fundz_7d" \notin changed)
    BY DEF pushed, changed, ChartPushed, RpiPushed, ChartWindows, RpiWindows
  <2> QED BY <1>1, <1>3, <2>1 DEF Sampled, CarrySampled, FundingZ, Windows, CarryWindows, carryVars
<1>7. ChartSampled'
  <2>1. /\ bars' >= Adx /\ atr' = "positive" => "adx14" \in pushed
        /\ bars' >= Slope => "ema50_slope" \in pushed
        /\ bars' >= Width => "bb_width_pctile" \in pushed
        /\ prevAtr' = "positive" => "atr_delta_ratio" \in pushed
    BY DEF pushed, ChartPushed
  <2> QED BY <1>3, <2>1 DEF ChartSampled, Windows, ChartWindows
<1>8. RpiSampled'
  <2>1. bars' >= Rsi => /\ "rsi_extreme" \in pushed
                        /\ FundingZ' => "funding_same_side" \in pushed
    BY <1>1 DEF pushed, RpiPushed, Rsi
  <2> QED BY <1>3, <2>1 DEF RpiSampled, Windows, RpiWindows
<1> QED BY <1>4, <1>5, <1>6, <1>7, <1>8, LriStays DEF Sampled

\* Prices and answers of the funding history record carry and RPI.
LEMMA CarryStep ==
  ASSUME TypeOK, Sampled, ApplyMarkPrice \/ ApplyFundingHistory
  PROVE  TypeOK' /\ Sampled'
<1> DEFINE pushed == CarryPushed' \cup RpiPushed'
<1>1. PICK changed :
        /\ Record(pushed, changed)
        /\ changed \subseteq CarryWindows \cup {"funding_same_side"}
        /\ rate' # rate => changed = CarryWindows \cup {"funding_same_side"}
  <2>1. CASE ApplyMarkPrice
    BY <2>1 DEF ApplyMarkPrice
  <2>2. CASE ApplyFundingHistory
    BY <2>2 DEF ApplyFundingHistory, CarryWindows
  <2> QED BY <2>1, <2>2
<1>2. /\ UNCHANGED <<chartVars, partial, bookVars>>
      /\ rate' \in BOOLEAN /\ history' \in BOOLEAN
  BY DEF ApplyMarkPrice, ApplyFundingHistory, TypeOK
<1> HIDE DEF pushed
<1>3. /\ window' \in [Windows -> Window]
      /\ \A x \in pushed \cap Windows : window'[x].sampled
      /\ \A x \in Windows \ pushed : window[x].sampled /\ x \notin changed => window'[x].sampled
      /\ \A x \in Windows \ pushed : window'[x].n = window[x].n
  BY <1>1, Recorded
<1>4. TypeOK'
  BY <1>2, <1>3 DEF TypeOK, chartVars, bookVars
<1>5. LriKept
  <2>1. ("lri_book" \notin pushed /\ "lri_book" \notin changed)
        /\ ("lri_raw" \notin pushed /\ "lri_raw" \notin changed)
    BY <1>1 DEF pushed, CarryPushed, RpiPushed, CarryWindows
  <2> QED BY <1>2, <1>3, <2>1 DEF LriKept, LriBook, Windows, bookVars
<1>6. CarrySampled'
  <2>1. /\ rate' => "abs_basis_bp" \in pushed
        /\ FundingZ' => "abs_fundz_7d" \in pushed
    BY DEF pushed, CarryPushed
  <2> QED BY <1>3, <2>1 DEF CarrySampled, Windows, CarryWindows
<1>7. ChartSampled'
  <2>1. \A x \in ChartWindows : x \notin pushed /\ x \notin changed
    BY <1>1 DEF pushed, CarryPushed, RpiPushed, CarryWindows, ChartWindows
  <2>2. \A x \in ChartWindows : window[x].sampled => window'[x].sampled
    BY <1>3, <2>1 DEF Windows
  <2> QED BY <1>2, <2>2 DEF Sampled, ChartSampled, ChartWindows, chartVars
<1>8. RpiSampled'
  <2>1. bars' >= Rsi => /\ "rsi_extreme" \in pushed
                        /\ FundingZ' => "funding_same_side" \in pushed
    BY <1>2 DEF pushed, RpiPushed, Rsi, TypeOK, chartVars, Ema200
  <2> QED BY <1>3, <2>1 DEF RpiSampled, Windows, RpiWindows
<1> QED BY <1>4, <1>5, <1>6, <1>7, <1>8, LriStays DEF Sampled

\* The partial book is a component of the RPI only.
LEMMA PartialStep ==
  ASSUME TypeOK, Sampled, ApplyPartialDepth
  PROVE  TypeOK' /\ Sampled'
<1> DEFINE pushed == RpiPushed'
<1>1. /\ Record(pushed, {"book_against_move"}) /\ partial' \in BOOLEAN
      /\ UNCHANGED <<chartVars, carryVars, bookVars>>
  BY DEF ApplyPartialDepth
<1>2. /\ window' \in [Windows -> Window]
      /\ \A x \in pushed \cap Windows : window'[x].sampled
      /\ \A x \in Windows \ pushed :
           /\ window[x].sampled /\ x # "book_against_move" => window'[x].sampled
           /\ window'[x].n = window[x].n
  BY <1>1, Recorded
<1>3. TypeOK'
  BY <1>1, <1>2 DEF TypeOK, chartVars, bookVars, carryVars
<1>4. \A x \in LriBook \cup {"lri_raw"} \cup ChartWindows \cup CarryWindows :
        x \notin pushed /\ x # "book_against_move"
  BY DEF RpiPushed, LriBook, ChartWindows, CarryWindows
<1> HIDE DEF pushed
<1>5. \A x \in LriBook \cup {"lri_raw"} \cup ChartWindows \cup CarryWindows :
        /\ window[x].sampled => window'[x].sampled
        /\ window'[x].n = window[x].n
  BY <1>2, <1>4 DEF Windows
<1>6. LriKept
  BY <1>1, <1>5 DEF LriKept, bookVars
<1>7. CarrySampled' /\ ChartSampled'
  BY <1>1, <1>5 DEF Sampled, CarrySampled, ChartSampled, FundingZ, CarryWindows, ChartWindows,
                    carryVars, chartVars
<1>8. \A x \in {"rsi_extreme", "funding_same_side"} : window[x].sampled => window'[x].sampled
  BY <1>2 DEF Windows, RpiWindows
<1>9. RpiSampled'
  BY <1>1, <1>8 DEF Sampled, RpiSampled, FundingZ, carryVars, chartVars
<1> QED BY <1>3, <1>6, <1>7, <1>9, LriStays DEF Sampled

\* The full book: snapshots and deltas, and the gaps that take its trust.
LEMMA DepthStep ==
  ASSUME TypeOK, Sampled, ApplyFullDepth \/ FullDepthGap
  PROVE  TypeOK' /\ Sampled'
<1>1. PICK pushed, changed :
        /\ Record(pushed, changed)
        /\ pushed \subseteq LriBook \cup {"lri_raw"}
        /\ changed \subseteq LriBook \cup {"lri_raw", "book_against_move"}
        /\ trusted' /\ book' = "deep" => pushed = LriPushed("deep")
        /\ pushed = {} \/ pushed = LriPushed("deep")
  <2>1. CASE ApplyFullDepth
    <3>1. /\ Record(LriPushed(book'), LriBook \cup {"lri_raw", "book_against_move"})
          /\ book' \in FullBooks
      BY <2>1 DEF ApplyFullDepth
    <3>2. /\ book' # "deep" => LriPushed(book') = {}
          /\ LriPushed("deep") \subseteq LriBook \cup {"lri_raw"}
      BY DEF LriPushed
    <3> QED BY <3>1, <3>2
  <2>2. CASE FullDepthGap
    BY <2>2 DEF FullDepthGap
  <2> QED BY <2>1, <2>2
<1>2. /\ UNCHANGED <<chartVars, carryVars, partial>>
      /\ book' \in FullBooks \cup {"none"} /\ trusted' \in BOOLEAN
  BY DEF ApplyFullDepth, FullDepthGap, TypeOK
<1>3. /\ window' \in [Windows -> Window]
      /\ \A x \in Windows :
           /\ window[x].n \in Nat /\ window'[x].n \in Nat
           /\ x \in pushed => window'[x].sampled /\
                window'[x].n = IF Full(x) THEN MinSamples ELSE window[x].n + 1
           /\ x \notin pushed =>
                /\ window'[x].n = window[x].n
                /\ window[x].sampled /\ x \notin changed => window'[x].sampled
  BY <1>1, Recorded
<1>4. TypeOK'
  BY <1>2, <1>3 DEF TypeOK, chartVars, carryVars
<1>5. \A x \in ChartWindows \cup CarryWindows \cup {"rsi_extreme", "funding_same_side"} :
        window[x].sampled => window'[x].sampled
  <2>1. \A x \in ChartWindows \cup CarryWindows \cup {"rsi_extreme", "funding_same_side"} :
          x \notin pushed /\ x \notin changed /\ x \in Windows
    BY <1>1 DEF ChartWindows, CarryWindows, LriBook, Windows, RpiWindows
  <2> QED BY <1>3, <2>1
<1>6. CarrySampled' /\ ChartSampled' /\ RpiSampled'
  BY <1>2, <1>5 DEF Sampled, CarrySampled, ChartSampled, RpiSampled, FundingZ, CarryWindows,
                    ChartWindows, carryVars, chartVars
<1>7. LriSampled'
  <2> DEFINE b == window["lri_book"].n
             r == window["lri_raw"].n
             b2 == window'["lri_book"].n
             r2 == window'["lri_raw"].n
  <2>1. /\ "lri_book" \in Windows /\ "lri_raw" \in Windows
        /\ MinSamples \in Nat \ {0} /\ b \in Nat /\ r \in Nat /\ b <= MinSamples
    BY <1>3, MinSamplesAssumption DEF Windows, LriBook, TypeOK, Window
  <2>2. r > 0 => b = MinSamples
    BY DEF Sampled, LriSampled, Full
  <2>3. CASE pushed = {}
    <3>1. b2 = b /\ r2 = r
      BY <1>3, <2>1, <2>3
    <3>2. "lri_book" \in LriPushed("deep")
      BY DEF LriPushed, LriBook
    <3>3. ~(trusted' /\ book' = "deep")
      BY <1>1, <2>3, <3>2
    <3> QED BY <2>2, <3>1, <3>3 DEF LriSampled, Full
  <2>4. CASE pushed = LriPushed("deep")
    <3>1. /\ "lri_book" \in pushed
          /\ "lri_raw" \in pushed <=> b + 1 >= MinSamples
      BY <2>4 DEF LriPushed, LriBook
    <3>2. /\ window'["lri_book"].sampled
          /\ b2 = IF b = MinSamples THEN MinSamples ELSE b + 1
      BY <1>3, <2>1, <3>1 DEF Full
    <3>3. CASE b + 1 >= MinSamples
      <4>1. window'["lri_raw"].sampled
        BY <1>3, <2>1, <3>1, <3>3
      <4>2. b2 = MinSamples
        BY <2>1, <3>2, <3>3
      <4> QED BY <3>2, <4>1, <4>2 DEF LriSampled, Full
    <3>4. CASE ~(b + 1 >= MinSamples)
      <4>1. r2 = r
        BY <1>3, <2>1, <3>1, <3>4
      <4>2. b # MinSamples
        BY <2>1, <3>4
      <4>3. ~(r > 0) /\ r # MinSamples
        BY <2>1, <2>2, <4>2
      <4> QED BY <3>2, <4>1, <4>3 DEF LriSampled, Full
    <3> QED BY <3>3, <3>4
  <2> QED BY <1>1, <2>3, <2>4
<1> QED BY <1>4, <1>6, <1>7 DEF Sampled

THEOREM Invariant == Spec => [](TypeOK /\ Sampled)
<1>1. Init => TypeOK /\ Sampled
  <2> SUFFICES ASSUME Init PROVE TypeOK /\ Sampled
    OBVIOUS
  <2>1. \A x \in Windows : window[x] = [n |-> 0, sampled |-> FALSE]
    BY DEF Init
  <2>2. [n |-> 0, sampled |-> FALSE] \in Window
    BY MinSamplesAssumption DEF Window
  <2>3. TypeOK
    <3>1. window = [x \in Windows |-> [n |-> 0, sampled |-> FALSE]]
      BY DEF Init
    <3>2. window \in [Windows -> Window]
      BY <2>2, <3>1
    <3>3. 0 \in 0..Ema200
      BY DEF Ema200
    <3> QED BY <3>2, <3>3 DEF Init, TypeOK
  <2>4. window["lri_raw"].n = 0
    BY <2>1 DEF Windows
  <2>5. CarrySampled /\ ChartSampled /\ RpiSampled
    BY DEF Init, CarrySampled, FundingZ, ChartSampled, RpiSampled, Adx, Slope, Width, Rsi
  <2>6. LriSampled
    BY <2>4 DEF Init, LriSampled
  <2> QED BY <2>3, <2>5, <2>6 DEF Sampled
<1>2. TypeOK /\ Sampled /\ [Next]_vars => (TypeOK /\ Sampled)'
  <2>1. ASSUME TypeOK, Sampled, UNCHANGED vars PROVE (TypeOK /\ Sampled)'
    BY <2>1 DEF TypeOK, Sampled, CarrySampled, ChartSampled, RpiSampled, LriSampled, FundingZ,
                Full, vars, chartVars, carryVars, bookVars
  <2> QED BY <2>1, KlineStep, CarryStep, PartialStep, DepthStep DEF Next
<1> QED BY <1>1, <1>2, PTL DEF Spec

\* The windows hold at most MinSamples samples that matter, and every
\* variable stays in its type.
THEOREM TypeCorrect == Spec => []TypeOK
BY Invariant, PTL

\* An available score standardises the newest samples of its windows, for
\* every min_samples: no handler leaves the recording of what it changed to
\* another one, the RPI's book part aside.
THEOREM SamplesArePresent == Spec => []SampledValues
<1>1. ASSUME TypeOK, Sampled PROVE SampledValues
  <2> SUFFICES ASSUME NEW score \in {"LRI", "TCS", "CSI", "RPI", "VoV"}, Available(score),
                      NEW x \in Standardised[score] \ {"book_against_move"}
               PROVE  window[x].sampled
    BY DEF SampledValues, Standardised
  <2>0. bars \in 0..6
    BY <1>1 DEF TypeOK, Ema200
  <2>1. CASE score = "LRI"
    <3>1. trusted /\ book = "deep" /\ Full("lri_raw")
      BY <2>1 DEF Available, SourcesKnown, LriSources, Standardised
    <3>2. x \in {"lri_book", "lri_raw"}
      BY <2>1 DEF Standardised, LriBook
    <3> QED BY <1>1, <3>1, <3>2 DEF Sampled, LriSampled
  <2>2. CASE score = "TCS"
    <3>1. bars >= Ema200 /\ atr = "positive"
      BY <2>2 DEF Available, SourcesKnown, TcsSources
    <3>2. bars >= Adx /\ bars >= Slope /\ bars >= Width
      BY <2>0, <3>1 DEF Ema200, Adx, Slope, Width
    <3>3. x \in {"adx14", "ema50_slope", "bb_width_pctile"}
      BY <2>2 DEF Standardised
    <3> QED BY <1>1, <3>1, <3>2, <3>3 DEF Sampled, ChartSampled
  <2>3. CASE score = "CSI"
    <3>1. FundingZ /\ rate
      BY <2>3 DEF Available, SourcesKnown, CsiSources, FundingZ
    <3>2. x \in {"abs_fundz_7d", "abs_basis_bp"}
      BY <2>3 DEF Standardised, CarryWindows
    <3> QED BY <1>1, <3>1, <3>2 DEF Sampled, CarrySampled
  <2>4. CASE score = "RPI"
    <3>1. bars >= Ret1h /\ FundingZ
      BY <2>4 DEF Available, SourcesKnown, RpiSources
    <3>2. bars >= Rsi
      BY <2>0, <3>1 DEF Ret1h, Rsi
    <3>3. x \in {"rsi_extreme", "funding_same_side"}
      BY <2>4 DEF Standardised, RpiWindows
    <3> QED BY <1>1, <3>1, <3>2, <3>3 DEF Sampled, RpiSampled
  <2>5. CASE score = "VoV"
    <3>1. prevAtr = "positive"
      BY <2>5 DEF Available, SourcesKnown, VovSources
    <3>2. x = "atr_delta_ratio"
      BY <2>5 DEF Standardised
    <3> QED BY <1>1, <3>1, <3>2 DEF Sampled, ChartSampled
  <2> QED BY <2>1, <2>2, <2>3, <2>4, <2>5
<1> QED BY <1>1, Invariant, PTL

\* The RPI's book part is sampled by the next event that records the RPI,
\* unless the trusted book has an empty side.
THEOREM RpiIsCaughtUp == Spec => RpiCatchesUp
<1>1. ASSUME TypeOK, Next, RpiEvent, Available("RPI")', ~(trusted /\ book = "blank")
      PROVE  window["book_against_move"].sampled'
  <2>1. bars' >= Ret1h /\ FundingZ' /\ PublishedI1'
    BY <1>1 DEF Available, SourcesKnown, RpiSources
  <2>2. /\ UNCHANGED bookVars
        /\ \E changed, others : Record(others \cup RpiPushed', changed)
    <3>1. CASE ApplyKline
      BY <3>1 DEF ApplyKline, bookVars
    <3>2. CASE ApplyMarkPrice
      BY <3>2 DEF ApplyMarkPrice, bookVars
    <3>3. CASE ApplyFundingHistory
      BY <3>3 DEF ApplyFundingHistory, bookVars
    <3>4. CASE ApplyPartialDepth
      <4>1. RpiPushed' = {} \cup RpiPushed'
        OBVIOUS
      <4> QED BY <3>4, <4>1 DEF ApplyPartialDepth, bookVars
    <3> QED BY <1>1, <3>1, <3>2, <3>3, <3>4 DEF RpiEvent
  <2>3. RecordedI1'
    BY <1>1, <2>1, <2>2 DEF RecordedI1, PublishedI1, bookVars
  <2>4. "book_against_move" \in RpiPushed'
    <3>1. bars' \in 0..6
      BY <1>1 DEF TypeOK, RpiEvent, ApplyKline, ApplyMarkPrice, ApplyFundingHistory,
                  ApplyPartialDepth, chartVars, Ema200
    <3>2. ~(bars' < Rsi)
      BY <2>1, <3>1 DEF Ret1h, Rsi
    <3> QED BY <2>1, <2>3, <3>2 DEF RpiPushed
  <2>5. PICK changed, others : Record(others \cup RpiPushed', changed)
    BY <2>2
  <2>6. "book_against_move" \in Windows
    BY DEF Windows, RpiWindows
  <2> QED BY <1>1, <2>4, <2>5, <2>6, Recorded
<1>2. TypeOK /\ [Next]_vars =>
        [RpiEvent /\ Available("RPI")' =>
           window["book_against_move"].sampled' \/ (trusted /\ book = "blank")]_vars
  BY <1>1
<1> QED BY <1>2, TypeCorrect, PTL DEF Spec, RpiCatchesUp

\* The composed runs do what the scores' own specification allows.
LEMMA ComposedIsSpec == MCSpec => Spec
<1>1. MCInit => Init
  BY DEF MCInit
<1>2. [MCNext]_<<vars, liquidations, arrived>> => [Next]_vars
  BY DEF MCNext, vars
<1> QED BY <1>1, <1>2, PTL DEF MCSpec, Spec

-----------------------------------------------------------------------------
(***************************************************************************)
(* The liquidations remembered are the last of those that arrived.         *)
(***************************************************************************)
Event == [time : 1..MaxTime, side : Sides]

\* The last Cap events, or all of them.
AreLast(kept, events) ==
  /\ Len(kept) = IF Len(events) > Cap THEN Cap ELSE Len(events)
  /\ \A i \in 1..Len(kept) : kept[i] = events[i + (Len(events) - Len(kept))]

LEMMA DrainLast ==
  ASSUME NEW V, NEW events \in Seq(V)
  PROVE  Drain(events) \in Seq(V) /\ AreLast(Drain(events), events)
<1>1. Cap \in Nat \ {0} /\ Len(events) \in Nat
  BY LiquidationAssumption
<1>2. CASE Len(events) <= Cap
  <2>1. Drain(events) = events
    BY <1>1, <1>2 DEF Drain
  <2>2. \A i \in 1..Len(events) : i + (Len(events) - Len(events)) = i
    BY <1>1
  <2> QED BY <1>1, <1>2, <2>1, <2>2 DEF AreLast
<1>3. CASE Len(events) > Cap
  <2> DEFINE m == Len(events) - Cap + 1
  <2>1. Drain(events) = SubSeq(events, m, Len(events))
    BY <1>3 DEF Drain
  <2>2. m \in 1..(Len(events) + 1) /\ m <= Len(events)
    BY <1>1, <1>3
  <2>3. \A i \in m..Len(events) : events[i] \in V
    BY <1>1, <2>2
  <2> HIDE DEF m
  <2>4. /\ SubSeq(events, m, Len(events)) \in Seq(V)
        /\ Len(SubSeq(events, m, Len(events))) = Len(events) - m + 1
        /\ \A i \in 1..(Len(events) - m + 1) : SubSeq(events, m, Len(events))[i] = events[m + i - 1]
    <3>1. m \in Int /\ Len(events) \in Int /\ m <= Len(events)
      BY <1>1, <2>2
    <3> QED BY <2>3, <3>1, SubSeqProperties
  <2>5. Len(events) - m + 1 = Cap
    BY <1>1 DEF m
  <2>6. \A i \in 1..Cap : m + i - 1 = i + (Len(events) - Cap)
    BY <1>1 DEF m
  <2> QED BY <1>3, <2>1, <2>4, <2>5, <2>6 DEF AreLast
<1> QED BY <1>1, <1>2, <1>3

LEMMA DrainAgain ==
  ASSUME NEW V, NEW events \in Seq(V), NEW e \in V
  PROVE  Drain(Append(Drain(events), e)) = Drain(Append(events, e))
<1> DEFINE kept == Drain(events)
           a == Drain(Append(kept, e))
           b == Drain(Append(events, e))
<1>1. Cap \in Nat \ {0} /\ Len(events) \in Nat
  BY LiquidationAssumption
<1>2. PICK n \in Nat : n = Len(events)
  BY <1>1
<1>3. PICK c \in Nat \ {0} : c = Cap
  BY <1>1
<1>4. PICK k \in Nat : k = IF n > c THEN c ELSE n
  OBVIOUS
<1>5. PICK l \in Nat : l = IF n + 1 > c THEN c ELSE n + 1
  OBVIOUS
<1>6. /\ kept \in Seq(V) /\ Len(kept) = k
      /\ \A i \in 1..k : kept[i] = events[i + (n - k)]
  BY <1>2, <1>3, <1>4, DrainLast DEF AreLast
<1> HIDE DEF kept
<1>7. /\ Append(kept, e) \in Seq(V) /\ Len(Append(kept, e)) = k + 1
      /\ \A i \in 1..k : Append(kept, e)[i] = kept[i]
      /\ Append(kept, e)[k + 1] = e
  BY <1>6, AppendProperties
<1>8. /\ Append(events, e) \in Seq(V) /\ Len(Append(events, e)) = n + 1
      /\ \A i \in 1..n : Append(events, e)[i] = events[i]
      /\ Append(events, e)[n + 1] = e
  BY <1>2, AppendProperties
<1>9. l = IF k + 1 > c THEN c ELSE k + 1
  BY <1>4, <1>5
<1>10. /\ a \in Seq(V) /\ Len(a) = l
       /\ \A i \in 1..l : a[i] = Append(kept, e)[i + ((k + 1) - l)]
  <2>1. a \in Seq(V) /\ AreLast(a, Append(kept, e))
    BY <1>7, DrainLast
  <2> HIDE DEF a
  <2>2. Len(a) = l
    BY <1>3, <1>7, <1>9, <2>1 DEF AreLast
  <2> QED BY <1>7, <2>1, <2>2 DEF AreLast
<1>11. /\ b \in Seq(V) /\ Len(b) = l
       /\ \A i \in 1..l : b[i] = Append(events, e)[i + ((n + 1) - l)]
  <2>1. b \in Seq(V) /\ AreLast(b, Append(events, e))
    BY <1>8, DrainLast
  <2> HIDE DEF b
  <2>2. Len(b) = l
    BY <1>3, <1>5, <1>8, <2>1 DEF AreLast
  <2> QED BY <1>8, <2>1, <2>2 DEF AreLast
<1> HIDE DEF a, b
<1>12. ASSUME NEW i \in 1..l PROVE a[i] = b[i]
  <2>1. CASE i = l
    <3>1. i + ((k + 1) - l) = k + 1 /\ i + ((n + 1) - l) = n + 1
      BY <2>1
    <3> QED BY <1>7, <1>8, <1>10, <1>11, <3>1
  <2>2. CASE i # l
    <3>1. PICK j : j = i + ((k + 1) - l)
      OBVIOUS
    <3>2. PICK h : h = i + ((n + 1) - l)
      OBVIOUS
    <3>3. j \in 1..k /\ h \in 1..n /\ j + (n - k) = h
      BY <1>4, <1>5, <2>2, <3>1, <3>2
    <3>4. a[i] = kept[j] /\ b[i] = events[h]
      BY <1>7, <1>8, <1>10, <1>11, <3>1, <3>2, <3>3
    <3> QED BY <1>6, <3>3, <3>4
  <2> QED BY <2>1, <2>2
<1> QED BY <1>10, <1>11, <1>12, SeqEqual DEF a, b, kept

-----------------------------------------------------------------------------
(***************************************************************************)
(* The totals.                                                             *)
(***************************************************************************)
\* A non-empty set of numbers up to v has a maximum, which Max names.
LEMMA MaxOfTimes ==
  ASSUME NEW v \in Nat, NEW W \in SUBSET (0..v), W # {}
  PROVE  Max(W) \in W /\ \A w \in W : w <= Max(W)
<1> DEFINE Gaps == {n \in Nat : v - n \in W}
           Before == {p \in Nat \X Nat : p[1] < p[2]}
<1>1. IsWellFoundedOn(Before, Nat)
  BY NatLessThanWellFounded DEF OpToRel
<1>2. Gaps \subseteq Nat /\ Gaps # {}
  <2>1. PICK w \in W : TRUE
    OBVIOUS
  <2>2. v - w \in Nat /\ v - (v - w) = w
    OBVIOUS
  <2> QED BY <2>2
<1>3. PICK g \in Gaps : \A n \in Gaps : <<n, g>> \notin Before
  <2> HIDE DEF Gaps, Before
  <2> QED BY <1>1, <1>2, WFMin
<1>4. \A n \in Gaps : ~(n < g)
  <2> TAKE n \in Gaps
  <2>1. n \in Nat /\ g \in Nat
    BY <1>2
  <2> QED BY <1>3, <2>1
<1>5. PICK m \in W : m = v - g
  OBVIOUS
<1>6. ASSUME NEW w \in W PROVE w \in Int /\ w <= m
  <2>1. v - w \in Nat /\ v - (v - w) = w
    OBVIOUS
  <2>2. ~(v - w < g)
    BY <1>4, <2>1
  <2> QED BY <1>5, <2>2
<1>7. m \in Int /\ \A w \in W : m >= w
  BY <1>6
<1>8. \E x \in W : \A y \in W : x >= y
  BY <1>7
<1>9. Max(W) \in W /\ \A y \in W : Max(W) >= y
  BY <1>8 DEF Max
<1> QED BY <1>6, <1>9

\* The latest time is that of an event, if there is one.
LEMMA LatestTime ==
  ASSUME NEW events \in Seq(Event)
  PROVE  /\ Latest(events) \in Nat
         /\ \A i \in 1..Len(events) : events[i].time <= Latest(events)
         /\ events # <<>> => \E i \in 1..Len(events) : events[i].time = Latest(events)
<1> DEFINE W == {0} \cup {events[i].time : i \in DOMAIN events}
           L == Latest(events)
<1>1. MaxTime \in Nat /\ DOMAIN events = 1..Len(events) /\ Len(events) \in Nat
  BY LiquidationAssumption
<1>2. \A i \in 1..Len(events) : events[i].time \in 1..MaxTime
  <2>1. \A i \in 1..Len(events) : events[i] \in Event
    OBVIOUS
  <2> QED BY <2>1 DEF Event
<1>3. W \in SUBSET (0..MaxTime) /\ 0 \in W /\ \A i \in 1..Len(events) : events[i].time \in W
  BY <1>1, <1>2
<1>4. L = Max(W)
  BY DEF Latest
<1>5. L \in W /\ \A w \in W : w <= L
  <2> HIDE DEF W, L
  <2> QED BY <1>1, <1>3, <1>4, MaxOfTimes
<1> HIDE DEF L
<1>6. L \in Nat /\ \A i \in 1..Len(events) : events[i].time <= L
  <2> HIDE DEF W
  <2>1. L \in 0..MaxTime
    BY <1>3, <1>5
  <2>2. L \in Nat
    BY <1>1, <2>1
  <2> QED BY <1>3, <1>5, <2>2
<1>7. ASSUME events # <<>> PROVE \E i \in 1..Len(events) : events[i].time = L
  <2>1. 1 \in 1..Len(events)
    BY <1>1, <1>7
  <2>2. L # 0
    BY <1>2, <1>6, <2>1
  <2> QED BY <1>1, <1>5, <2>2
<1> QED BY <1>6, <1>7 DEF L

LEMMA LatestIs ==
  ASSUME NEW events \in Seq(Event), NEW t \in Nat,
         \A i \in 1..Len(events) : events[i].time <= t,
         NEW k \in 1..Len(events), events[k].time = t
  PROVE  Latest(events) = t
<1>1. events # <<>>
  <2>1. Len(<<>>) = 0
    OBVIOUS
  <2> QED BY <2>1
<1>2. PICK i \in 1..Len(events) : events[i].time = Latest(events)
  BY <1>1, LatestTime
<1>3. Latest(events) \in Nat /\ t <= Latest(events) /\ Latest(events) <= t
  BY <1>2, LatestTime
<1> QED BY <1>3

\* Sets of places that differ by a shift have the same size.
LEMMA ShiftedSets ==
  ASSUME NEW d \in Nat, NEW A \in SUBSET Nat, NEW B \in SUBSET Nat, IsFiniteSet(A),
         \A i \in A : i + d \in B, \A j \in B : j - d \in A
  PROVE  Cardinality(A) = Cardinality(B)
<1> DEFINE f == [i \in A |-> i + d]
<1>1. f \in [A -> B]
  OBVIOUS
<1>2. \A i, j \in A : f[i] = f[j] => i = j
  OBVIOUS
<1>3. \A j \in B : \E i \in A : f[i] = j
  <2> TAKE j \in B
  <2>1. j - d \in A /\ (j - d) + d = j
    OBVIOUS
  <2> QED BY <2>1
<1>4. f \in Bijection(A, B)
  BY <1>1, <1>2, <1>3 DEF Bijection, Injection, Surjection, IsInjective
<1>5. ExistsBijection(A, B)
  BY <1>4 DEF ExistsBijection
<1> QED BY <1>5, FS_Bijection

LiqInv ==
  /\ arrived \in Seq(Event)
  /\ liquidations = Drain(arrived)

LEMMA LiqInvInit == MCInit => LiqInv
<1> SUFFICES ASSUME MCInit PROVE LiqInv
  OBVIOUS
<1>1. arrived = <<>> /\ liquidations = <<>>
  BY DEF MCInit, LiqInit
<1>2. Cap \in Nat /\ Len(<<>>) = 0 /\ <<>> \in Seq(Event)
  BY LiquidationAssumption
<1>3. Drain(<<>>) = <<>>
  BY <1>2 DEF Drain
<1> QED BY <1>1, <1>2, <1>3 DEF LiqInv

LEMMA LiqInvNext == ASSUME LiqInv, [MCNext]_<<vars, liquidations, arrived>> PROVE LiqInv'
<1>1. CASE UNCHANGED <<liquidations, arrived>>
  BY <1>1 DEF LiqInv
<1>2. CASE ApplyForceOrder
  <2>1. PICK time \in 1..MaxTime, side \in Sides :
          /\ arrived' = Append(arrived, [time |-> time, side |-> side])
          /\ liquidations' = Drain(Append(liquidations, [time |-> time, side |-> side]))
    BY <1>2 DEF ApplyForceOrder
  <2>2. PICK event \in Event : event = [time |-> time, side |-> side]
    BY DEF Event
  <2>3. arrived' = Append(arrived, event) /\ liquidations' = Drain(Append(liquidations, event))
    BY <2>1, <2>2
  <2>4. arrived \in Seq(Event) /\ liquidations = Drain(arrived)
    BY DEF LiqInv
  <2>5. liquidations' = Drain(Append(arrived, event))
    BY <2>3, <2>4, DrainAgain
  <2>6. arrived' \in Seq(Event)
    BY <2>3, <2>4, AppendProperties
  <2> QED BY <2>3, <2>5, <2>6 DEF LiqInv
<1> QED BY <1>1, <1>2 DEF MCNext

\* Everything that arrived and belongs to the window is still remembered.
AllKept(ms) == \A i \in Counted(arrived, ms) : i > Len(arrived) - Cap

LEMMA SameCounted ==
  ASSUME LiqInv, NEW ms \in Nat, AllKept(ms)
  PROVE  \E d \in Nat :
           /\ \A i \in Counted(liquidations, ms) :
                /\ i + d \in Counted(arrived, ms)
                /\ liquidations[i] = arrived[i + d]
           /\ \A j \in Counted(arrived, ms) :
                j - d \in Counted(liquidations, ms)
<1>1. arrived \in Seq(Event) /\ liquidations \in Seq(Event) /\ AreLast(liquidations, arrived)
  BY DrainLast DEF LiqInv
<1>2. PICK c \in Nat \ {0} : c = Cap
  BY LiquidationAssumption
<1>3. PICK n \in Nat : n = Len(arrived)
  BY <1>1
<1>4. PICK k \in Nat : k = IF n > c THEN c ELSE n
  OBVIOUS
<1>5. PICK d \in Nat : d = n - k
  <2>1. k <= n
    BY <1>4
  <2>2. n - k \in Nat
    BY <2>1
  <2> QED BY <2>2
<1>6. Len(liquidations) = k /\ \A i \in 1..k : liquidations[i] = arrived[i + d]
  BY <1>1, <1>2, <1>3, <1>4, <1>5 DEF AreLast
<1>7. /\ DOMAIN arrived = 1..n /\ DOMAIN liquidations = 1..k
      /\ \A i \in 1..k : i + d \in 1..n
      /\ \A j \in 1..n : j > n - c => j - d \in 1..k /\ (j - d) + d = j
  BY <1>1, <1>3, <1>4, <1>5, <1>6
<1>8. \A j \in Counted(arrived, ms) : j \in 1..n /\ j - d \in 1..k /\ (j - d) + d = j
  BY <1>2, <1>3, <1>7 DEF AllKept, Counted
<1>9. Latest(liquidations) = Latest(arrived) \/ n = 0
  <2> SUFFICES ASSUME n # 0 PROVE Latest(liquidations) = Latest(arrived)
    OBVIOUS
  <2>1. arrived # <<>>
    BY <1>3
  <2>2. PICK t \in Nat : t = Latest(arrived)
    BY <1>1, LatestTime
  <2>3. PICK j \in 1..n : arrived[j].time = t
    BY <1>1, <1>3, <2>1, <2>2, LatestTime
  <2>4. j \in Counted(arrived, ms)
    <3>1. t - t <= ms
      OBVIOUS
    <3> QED BY <1>7, <2>2, <2>3, <3>1 DEF Counted
  <2>5. j - d \in 1..k /\ liquidations[j - d].time = t
    BY <1>6, <1>8, <2>3, <2>4
  <2>6. \A i \in 1..k : liquidations[i].time <= t
    BY <1>1, <1>3, <1>6, <1>7, <2>2, LatestTime
  <2> QED BY <1>1, <1>6, <2>2, <2>5, <2>6, LatestIs
<1>10. ASSUME NEW i \in Counted(liquidations, ms)
       PROVE  i + d \in Counted(arrived, ms) /\ liquidations[i] = arrived[i + d]
  <2>1. i \in 1..k /\ i + d \in 1..n /\ liquidations[i] = arrived[i + d]
    BY <1>6, <1>7 DEF Counted
  <2>2. n # 0
    BY <2>1
  <2> QED BY <1>7, <1>9, <2>1, <2>2 DEF Counted
<1>11. ASSUME NEW j \in Counted(arrived, ms)
       PROVE  j - d \in Counted(liquidations, ms)
  <2>1. j \in 1..n /\ j - d \in 1..k /\ liquidations[j - d] = arrived[j]
    BY <1>6, <1>8
  <2>2. n # 0
    BY <2>1
  <2> QED BY <1>7, <1>9, <2>1, <2>2 DEF Counted
<1> QED BY <1>10, <1>11

LEMMA TotalsFollow == LiqInv => TotalsExact
<1> SUFFICES ASSUME LiqInv, NEW ms \in WindowMs, AllKept(ms)
             PROVE  /\ LiquidationTotal(liquidations, ms) = LiquidationTotal(arrived, ms)
                    /\ DominantSide(liquidations, ms) = DominantSide(arrived, ms)
  BY DEF TotalsExact, TotalsExact, AllKept
<1> DEFINE A == Counted(liquidations, ms)
           B == Counted(arrived, ms)
           Of(side, C, events) == {i \in C : events[i].side = side}
<1>1. ms \in Nat
  BY LiquidationAssumption
<1>2. PICK d \in Nat :
        /\ \A i \in A : i + d \in B /\ liquidations[i] = arrived[i + d]
        /\ \A j \in B : j - d \in A
  BY <1>1, SameCounted
<1>3. A \in SUBSET Nat /\ IsFiniteSet(A) /\ B \in SUBSET Nat
  <2>1. liquidations \in Seq(Event) /\ arrived \in Seq(Event)
    BY DrainLast DEF LiqInv
  <2>2. Len(liquidations) \in Nat /\ DOMAIN liquidations = 1..Len(liquidations)
    BY <2>1
  <2>3. Len(arrived) \in Nat /\ DOMAIN arrived = 1..Len(arrived)
    BY <2>1
  <2>4. A \in SUBSET (1..Len(liquidations))
    BY <2>2 DEF Counted
  <2>5. IsFiniteSet(1..Len(liquidations))
    BY <2>2, FS_Interval
  <2> QED BY <2>2, <2>3, <2>4, <2>5, FS_Subset DEF Counted
<1> HIDE DEF A, B
<1>4. Cardinality(A) = Cardinality(B)
  BY <1>2, <1>3, ShiftedSets
<1>5. \A side : Cardinality(Of(side, A, liquidations)) = Cardinality(Of(side, B, arrived))
  <2> TAKE side
  <2> DEFINE C == Of(side, A, liquidations)
             D == Of(side, B, arrived)
  <2>1. C \in SUBSET Nat /\ D \in SUBSET Nat
    BY <1>3
  <2>2. IsFiniteSet(C)
    BY <1>3, FS_Subset
  <2>3. \A i \in C : i + d \in D
    BY <1>2
  <2>4. \A j \in D : j - d \in C
    <3> TAKE j \in D
    <3>1. j \in B /\ j - d \in A /\ (j - d) + d = j
      BY <1>2, <1>3
    <3> QED BY <1>2, <3>1
  <2>5. Cardinality(C) = Cardinality(D)
    <3> HIDE DEF C, D
    <3> QED BY <2>1, <2>2, <2>3, <2>4, ShiftedSets
  <2> QED BY <2>5
<1>6. LiquidationTotal(liquidations, ms) = LiquidationTotal(arrived, ms)
  BY <1>4 DEF LiquidationTotal, A, B
<1>7. DominantSide(liquidations, ms) = DominantSide(arrived, ms)
  BY <1>5 DEF DominantSide, A, B
<1> QED BY <1>6, <1>7

\* Totals and dominant side are those of everything that arrived, however
\* late, as long as the cap of apply_force_order has not cut the window: for
\* every cap, window and history.
THEOREM TotalsAreExact == MCSpec => []TotalsExact
<1>1. LiqInv /\ [MCNext]_<<vars, liquidations, arrived>> => LiqInv'
  BY LiqInvNext
<1> QED BY <1>1, LiqInvInit, TotalsFollow, PTL DEF MCSpec
=============================================================================
