SPECIFICATION RetrySpec
CONSTANTS
  p1 = p1
  p2 = p2
  p3 = p3
  t1 = t1
  t2 = t2
  cheap = cheap
  dear = dear
  r1 = r1
  r2 = r2
  NoToken = NoToken
  NoTerm = NoTerm
  Free = Free
  Proofs <- MCProofs
  Tokens <- MCTokens
  ProofsOf <- MCProofsOf
  Net <- MCNet
  Shortfall = 1
  Terms <- MCTerms
  Price <- MCPrice
  Requests <- MCRequests
INVARIANTS ProofsPayOnce ClaimedIsPaid WinnerKeepsTerms
PROPERTIES ImplementsOneAttempt RetrySucceeds
