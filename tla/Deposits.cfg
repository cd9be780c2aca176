SPECIFICATION FairSpec
CONSTANTS
  Quotes = {1, 2, 3}
  Failing = {1}
  Batch = 1
  Expiry = 1
  GRACE = 1
  RETAIN = 1
  MaxQuotes = 2
  MaxRecords = 2
  MaxTime = 3
  MaxFaults = 2
INVARIANTS DepositsKept LiveIsResolvable
PROPERTIES PaidIsClaimed SlotsReturned
