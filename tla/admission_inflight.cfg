\* One permit, and a pool with room for two closures.
CONSTANTS
  Slot = {r1, r2}
  Flags <- MCFlags
  File <- MCFile
  PoolSize = 2
SPECIFICATION Spec
INVARIANT
  InflightBounded
SYMMETRY SlotSymmetry
