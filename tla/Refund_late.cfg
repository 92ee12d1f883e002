SPECIFICATION LateSpec
CONSTANTS
  r1 = r1
  r2 = r2
  p1 = p1
  p2 = p2
  alice = alice
  bob = bob
  Refunds = {r1, r2}
  Pays = {p1, p2}
  PaidAmount <- MCAmounts
  Holder <- MCTwoHolders
  Quota <- MCSameQuota
  Notices <- MCNotices
  Patience = 2
  ApplyLag = 1
  ClockLag = 1
  LogComplete = TRUE
  MaxTime = 5
  MaxDebits = 2
INVARIANT
  DebitedOnce
CHECK_DEADLOCK FALSE
