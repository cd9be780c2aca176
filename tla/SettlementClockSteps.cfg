SPECIFICATION FairSpec
CONSTANTS
  ldk = ldk
  mint = mint
  plain = plain
  r1 = r1
  r2 = r2
  NoKey = NoKey
  Keys <- MCOneKey
  MintKeys <- MCNoMint
  Offers <- MCOneOffer
  Requests <- MCRequests
  SKEW = 1
  HOUR = 3
  EXPIRY = 1
  DEADLINE = 1
  DRIFT = 1
  MAX_CHALLENGE_RECORDS = 1
  LastIssue = 1
  MaxTime = 9
INVARIANTS LiveRootsKept
PROPERTIES RecordsExpire ImplementsOneAttempt
