\* Two warm models and three others that compete for two places.
CONSTANTS
  a = a
  b = b
  c = c
  d = d
  e = e
  Key = {a, b, c, d, e}
  Request = {r1, r2}
  Main = main
  Unlocked = Unlocked
  NoKey = NoKey
  Preload <- MCPreload
  MaxLoaded = 4
  MaxLoads = 6
SPECIFICATION Spec
INVARIANTS
  LruMatchesModels
  WithinCapacity
  WarmStayLoaded
PROPERTIES
  LoadsBlockNobody
  ImplementsLruCache
\* The process stops when a preload fails.
CHECK_DEADLOCK FALSE
