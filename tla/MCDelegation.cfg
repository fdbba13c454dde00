SPECIFICATION FairSpec
CONSTANTS
  l1 = l1
  l2 = l2
  Legs = {l1, l2}
  MaxDepth = 2
  MaxTotal = 2
  MaxRefusals = 1
  MaxChains = 1
  MaxRuns = 4
  Faults = {"turn_raises", "leg_dies", "deadline"}
INVARIANTS
  DepthBounded
  AllowanceSurvivesParking
  TotalUnlessResumed
  OneStack
PROPERTY
  ChainEnds
\* Rows are never reused, so a behaviour ends when they are used up.
CHECK_DEADLOCK FALSE
