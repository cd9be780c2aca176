SPECIFICATION Spec
CONSTANTS
  Ops = {o1, o2}
  NoOp = NoOp
  INTERVAL = 3
  COOLDOWN = 1
  HasThreshold = TRUE
  LateSaves = TRUE
  MaxTime = 3
SYMMETRY Symmetry
INVARIANTS GuardCoversUncertain
