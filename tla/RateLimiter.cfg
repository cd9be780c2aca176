SPECIFICATION LimiterSpec
CONSTANTS
  ClientKeys = {c1, c2, c3}
  TOKEN = 3
  burst = 2
  per_second = 2
  IDLE = 2
  CLIENTS_PER_SHARD = 2
  MaxTime = 6
SYMMETRY Symmetry
INVARIANTS AllowanceBound
PROPERTY PromiseKept
