SPECIFICATION Spec
CONSTANTS
  Nodes <- MCNodes
  Frames <- MCFrames
  MaxEvents = 2
  MaxSnaps = 2
  KeepSnaps = 1
  Memory = 2
INVARIANTS
  OneInputPerStep
PROPERTIES
  AimedAsJudged
  OnlyOneOfItsKind
