SPECIFICATION Spec
CONSTANTS
  Requests = {r1, r2, r3, r4}
  Clients = {k1, k2}
  Receivers = {e1, e2}
  Generations = {g1, g2, g3, g4}
  Global = Global
  None = None
  GlobalMax = 4
  GlobalPerClient = 3
  ReceiverMax = 2
  ReceiverPerClient = 1
SYMMETRY Symmetry
INVARIANTS PermitsExact EndpointBudget
