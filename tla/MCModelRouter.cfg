SPECIFICATION RouterFairSpec
CONSTANTS
  None = None
  Wires = {"openai", "anthropic", "google"}
  Turns = {t1}
  Attempts = 2
  Parts = 2
  MaxAsks = 2
  MaxKeys = 1
INVARIANTS
  ResultIsItsOwn
  MovesDown
PROPERTIES
  CallsReturn
\* Calls and keys are bounded, so a behaviour ends when they are used up.
CHECK_DEADLOCK FALSE
