\* Two threads, two subprocesses a call; three directory numbers, of which a call tries two.
CONSTANTS
  Call = {c1, c2}
  Attempts = 2
  Stages = 2
  MaxSequence = 3
  Cap = 1
  PipeSize = 1
SPECIFICATION Spec
INVARIANTS
  OwnContainer
  LeavesNothing
  WholeOutput
PROPERTIES
  OnlyLeftoversRefuse
  CallsEnd
