SPECIFICATION FairSpec
CONSTANTS
  h1 = h1
  h2 = h2
  h3 = h3
  Holders <- MCHolders
  Renewing <- MCRenewing
  Free = Free
  ExpireTime = 3
  RenewalInterval = 2
  MaxAttempts = 2
INVARIANTS MutualExclusion
PROPERTIES KeepsPromise KeyIsFreed
CHECK_DEADLOCK FALSE
