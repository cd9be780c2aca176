SPECIFICATION Spec
CONSTANTS
  ldk = ldk
  mint = mint
  plain = plain
  r1 = r1
  r2 = r2
  NoKey = NoKey
  Keys <- MCKeys
  MintKeys <- MCMintKeys
  Offers <- MCOffers
  Requests <- MCRequests
  SKEW = 1
  HOUR = 2
  EXPIRY = 1
  DEADLINE = 7
  DRIFT = 0
  MAX_CHALLENGE_RECORDS = 2
  LastIssue = 0
  MaxTime = 5
SYMMETRY MCSymmetry
INVARIANTS SingleUse BarrierOutlivesCredential CapacityRespected
