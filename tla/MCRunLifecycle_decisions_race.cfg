SPECIFICATION Spec
CONSTANTS
  None = None
  r1 = r1
  a1 = a1
  q1 = q1
  q2 = q2
  l1 = l1
  Runs = {r1}
  Approvals = {a1}
  Requests = {q1, q2}
  Loops = {l1}
  HoldKinds = {"connector_action"}
  Operations = {"decide"}
  Faults = {}
PROPERTIES
  HeldActionsAreAnswered
\* Rows are never reused, so a behaviour ends when they are used up.
CHECK_DEADLOCK FALSE
