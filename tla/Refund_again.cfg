SPECIFICATION RefundSpec
CONSTANTS
  r1 = r1
  r2 = r2
  p1 = p1
  p2 = p2
  alice = alice
  bob = bob
  Refunds = {r1, r2}
  Pays = {p1}
  PaidAmount <- MCAmounts
  Holder <- MCOneHolder
  Quota <- MCSameQuota
  Notices <- MCNoticesOneOrder
  Patience = 2
  ApplyLag = 0
  ClockLag = 1
  LogComplete = TRUE
  MaxTime = 5
  MaxDebits = 2
PROPERTY
  DoneStopsDebits
CHECK_DEADLOCK FALSE
