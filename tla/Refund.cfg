SPECIFICATION RefundFairSpec
CONSTANTS
  r1 = r1
  r2 = r2
  p1 = p1
  p2 = p2
  alice = alice
  bob = bob
  Refunds = {r1, r2}
  Pays = {p1, p2}
  PaidAmount <- MCAmounts
  Holder <- MCOneHolder
  Quota <- MCTwoQuotas
  Notices <- MCNotices
  Patience = 1
  ApplyLag = 0
  ClockLag = 1
  LogComplete = TRUE
  MaxTime = 3
  MaxDebits = 2
INVARIANTS
  RefundTypeOK
  DebitedOnce
  DoneIsDebited
PROPERTY
  PendingIsSettled
CHECK_DEADLOCK FALSE
