SPECIFICATION FairSpec
CONSTANTS
  MaxBatch = 2
  MaxSteps = 3
  MaxIdle = 2
  MaxLooks = 3
  MaxUnchanged = 2
  MaxFailures = 2
  MaxFallbacks = 2
  MaxQueries = 1
  MaxCloses = 1
  MaxRefusals = 2
  KeepFrames = 1
INVARIANTS
  RequestsAreWhole
  OneAsk
  LossIsMetOnce
PROPERTIES
  NothingAfterAsking
  EveryLegEnds
\* A leg that has ended takes no further step.
CHECK_DEADLOCK FALSE
