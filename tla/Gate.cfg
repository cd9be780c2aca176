SPECIFICATION Spec
CONSTANTS
  q1 = q1
  q2 = q2
  c1 = c1
  t1 = t1
  ldk = ldk
  a = a
  b = b
  Requests <- MCRequests
  Clients <- MCClients
  Sites <- MCSites
  NoSite = NoSite
  Shapes <- MCShapes
  Tokens <- MCTokens
  Worth <- MCWorth
  Junk = Junk
  None = None
  MAX_BODY = 2
  Backends = 2
  MaxReloads = 2
  MaxSales = 1
  MaxReplays = 1
SYMMETRY MCSymmetry
INVARIANTS LimitsSurviveReload ServedIsEntitled CredentialsStayHere
PROPERTIES PaidIsNotRefused
CHECK_DEADLOCK FALSE
