SPECIFICATION FairSpec
CONSTANTS
  None = None
  r1 = r1
  a1 = a1
  a2 = a2
  q1 = q1
  l1 = l1
  Runs = {r1}
  Approvals = {a1, a2}
  Requests = {q1}
  Loops = {l1}
  HoldKinds = {"desktop_steps", "message_only"}
  Operations = {"decide", "expire", "resume", "delete", "cancel", "file"}
  Faults = {"request_dies", "loop_dies", "leg_raises", "sweep_fails"}
PROPERTIES
  RunsSettle
\* Rows are never reused, so a behaviour ends when they are used up.
CHECK_DEADLOCK FALSE
