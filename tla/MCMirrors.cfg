SPECIFICATION MirrorsSpec
CONSTANTS
  None = None
  ByName = ByName
  Modes = {"docker", "aci", "k8s"}
  Requests = {q1, q2}
  Ids = {c1, c2, c3}
  MaxCalls = 6
  MaxFaults = 2
  Nothing = Nothing
  Firings = {e1, e2}
  Editors = {r1, r2}
  MaxEdits = 3
  MaxBoots = 1
  MaxSyncFaults = 1
SYMMETRY Symmetry
INVARIANTS
  RunningIsServed
  NothingLeftBehind
  ScheduleFollowsRow
  OverlapNeedsReplacement
\* Calls and edits are bounded, so a behaviour ends when they are used up.
CHECK_DEADLOCK FALSE
