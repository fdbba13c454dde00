SPECIFICATION FairSpec
CONSTANTS
  None = None
  w1 = w1
  b1 = b1
  b2 = b2
  d1 = d1
  d2 = d2
  q1 = q1
  Items = {w1}
  Bots = {b1, b2}
  Dispatchers = {d1, d2}
  Requests = {q1}
  Batch = 2
  MaxHandovers = 2
  Operations = {"patch", "transfer", "tools", "delete_item", "delete_bot"}
  Edits = {"open", "closed"}
  Faults = {"turn_fails", "pass_dies"}
INVARIANT
  LedgerNamesOwner
PROPERTIES
  OwnersAreAssigned
  QueueDrains
\* Rows are never reused, so a behaviour ends when they are used up.
CHECK_DEADLOCK FALSE
