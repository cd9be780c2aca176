SPECIFICATION Spec
CONSTANTS
  Pieces <- MCPieces
  MaxPieces <- MCMaxPieces
  Initial <- MCInitial
  Before <- MCBefore
  After <- MCAfter
  Number <- MCNumber
  Rate <- MCRate
  Interval <- MCInterval
  Address <- MCAddress
  Origin <- MCOrigin
  Upstreams <- MCUpstreams
  Mints <- MCMints
  Endpoints <- MCEndpoints
  Names <- MCNames
  Paths <- MCPaths
  NodeKeys <- MCNodeKeys
  Header <- MCHeader
  Request <- MCRequest
  MAX_PAYOUTS = 2
INVARIANTS
  LinesCompose
  QuotingKeepsText
  OrderIsFree
  NothingIsDropped
PROPERTIES
  ReloadsSettle
CHECK_DEADLOCK FALSE
