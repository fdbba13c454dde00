SPECIFICATION FairSpec
CONSTANTS
  None = None
  Execs = {e1, e2}
  NSteps = 2
  Gated = {1}
  Holds = {h1, h2, h3}
  Attempts = 2
  MaxFaults = 1
  Faults = {"unreachable", "error", "answer_lost", "worker_dies", "api_dies",
            "start_unheard", "temporal_down"}
INVARIANTS
  StepDoneOnce
  NothingPastTheGate
PROPERTY
  EveryRunEnds
\* Executions are bounded, so a behaviour ends when they are used up.
CHECK_DEADLOCK FALSE
