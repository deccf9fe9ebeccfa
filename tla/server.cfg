\* Two connections, one permit, two threads, one model besides the pinned one.
CONSTANTS
  Slot = {r1, r2}
  File <- MCFile
  Flags <- MCFlags
  PoolSize = 2
  Name <- MCName
  Main = main
  Unlocked = unlocked
  NoKey = nokey
  MaxLoads = 3
  Features <- MCFeatures
  CaseFold <- MCCaseFold
SPECIFICATION ServerSpec
CHECK_DEADLOCK FALSE
INVARIANTS
  PermitConservation
  WorkBounded
  RightEngine
  ResidentBounded
  ListedLoads
PROPERTIES
  WaitersAnswered
  SaturationPasses
