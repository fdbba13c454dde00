SPECIFICATION Spec
CONSTANTS
  a1 = a1
  a2 = a2
  b1 = b1
  b2 = b2
  ma = ma
  mb = mb
  i1 = i1
  i2 = i2
  x = x
  y = y
  NoBot = NoBot
  Gone = Gone
  Deliveries = {a1, a2, b1, b2}
  Messages = {ma, mb}
  Unnamed = {mb}
  Items = {i1, i2}
  Bots = {x, y}
  Rooms = {r1, r2, r3}
  Roster = {}
  Tasks = {t1, t2}
  Batches <- MCBatches
  Carries <- MCCarries
  Matches <- MCMatches
  Owner <- MCOwner
  MaxRequests = 2
  MaxEdits = 1
  Faults = {"dies", "turn_fails"}
INVARIANTS
  OneTurnPerReply
  
PROPERTY
  AnsweredIsSettled
\* Deliveries are bounded, so a behaviour ends when they are used up.
CHECK_DEADLOCK FALSE
