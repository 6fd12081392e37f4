SPECIFICATION MCSpec
CONSTANTS
  MinSamples = 2
  Cap = 3
  WindowMs = {1, 2}
  MaxLate = 2
  MaxTime = 4
  MaxEvents = 5
INVARIANTS SampledValues TotalsExact
PROPERTIES RpiCatchesUp
