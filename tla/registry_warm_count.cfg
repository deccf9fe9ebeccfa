\* One warm model, and room for one model in all.
CONSTANTS
  a = a
  b = b
  c = c
  d = d
  e = e
  Key = {a, b, c}
  Request = {r1}
  Main = main
  Unlocked = Unlocked
  NoKey = NoKey
  Preload <- MCPreloadOne
  MaxLoaded = 1
  MaxLoads = 4
SPECIFICATION Spec
PROPERTY
  WarmDoNotCount
CHECK_DEADLOCK FALSE
