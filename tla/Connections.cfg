SPECIFICATION ConnectionSpec
CONSTANTS
  c1 = c1
  c2 = c2
  c3 = c3
  s1 = s1
  k1 = k1
  k2 = k2
  Connections <- MCConnections
  Streams <- MCStreams
  First = s1
  Clients <- MCClients
  ClientOf <- MCClientOf
  MAX = 2
  PER_CLIENT = 1
INVARIANTS OneSlotEach
PROPERTIES SilentIsClosed TimedRequestsEnd
