SPECIFICATION FairSpec
CONSTANTS
  Domains = {a, b}
  Failing = {b}
  Account = account_key
  LIFE = 4
  TIMEOUT = 2
  Delays <- MCDelays
  Pauses <- MCPauses
  SAVE = 1
  MaxWorkers = 2
  MaxFaults = 3
INVARIANTS
  SavedBeforeInstalled
  ChallengeServed
PROPERTIES
  NoDuplicateOrders
  PauseHonoured
  EventuallyServed
