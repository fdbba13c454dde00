SPECIFICATION Spec
CONSTANTS
  None = None
  r1 = r1
  a1 = a1
  a2 = a2
  q1 = q1
  q2 = q2
  l1 = l1
  l2 = l2
  Runs = {r1}
  Approvals = {a1, a2}
  Requests = {q1, q2}
  Loops = {l1, l2}
  HoldKinds = {"desktop_steps", "message_only"}
  Operations = {"decide", "resume", "expire", "delete", "cancel"}
  Faults = {"request_dies", "loop_dies", "leg_raises", "commit_fails", "sweep_fails"}
SYMMETRY Symmetry
INVARIANTS
  TypeOK
  OneDriver
PROPERTIES
  UndoubtedAnswersStand
  ContinuedByItsOwnDecision
  NeverReapParked
  FinishedStaysFinished
\* Rows are never reused, so a behaviour ends when they are used up.
CHECK_DEADLOCK FALSE
