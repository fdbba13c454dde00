SPECIFICATION Spec
CONSTANTS
  draft = draft
  send = send
  p1 = p1
  e1 = e1
  e2 = e2
  u1 = u1
  u2 = u2
  NoPlan = NoPlan
  Gone = Gone
  Steps = {draft, send}
  Sends = {send}
  Reversibles = {draft}
  Bodies <- MCBodies
  Plans = {p1}
  Executors = {e1, e2}
  Undoers = {u1, u2}
  MaxEntries = 2
  MaxTries = 1
  Faults = {"dies", "commit_fails", "flush_fails", "answer_lost"}
SYMMETRY Symmetry
INVARIANTS
  PlanRunsOnce
  ExecutedIsLogged
  TakenBackOnce
\* Effects and undo requests are bounded, so a behaviour ends when they are used up.
CHECK_DEADLOCK FALSE
