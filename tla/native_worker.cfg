\* Two callers; three requests can be numbered.
CONSTANTS
  Caller = {c1, c2}
  NoCaller = NoCaller
  Junk = Junk
  MaxChunks = 2
  MaxSequence = 3
  PipeSize = 2
SPECIFICATION Spec
INVARIANTS
  NoStaleReply
  KillsOwnGroup
  LeavesNothing
PROPERTIES
  StopEnds
  HolderReleases
  OrphanDies
  ImplementsFailStop
