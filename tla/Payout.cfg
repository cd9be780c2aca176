SPECIFICATION Spec
CONSTANTS
  Ops = {o1, o2, o3}
  NoOp = NoOp
  INTERVAL = 3
  COOLDOWN = 2
  HasThreshold = FALSE
  LateSaves = FALSE
  MaxTime = 6
SYMMETRY Symmetry
INVARIANTS GuardCoversUncertain CooldownHolds
PROPERTIES NoPaymentOverUncertain PayoutsSpaced
