SPECIFICATION ClosingSpec
CONSTANTS
  Orders = {o1}
  Amounts = {1, 2}
  LegacyTTL = 2
  CloseLead = 1
  ChannelGrace = 2
  MissedGrace = 3
  SettleLag = 1
  Skew = 1
  Deadlines = {0, 3}
  FirstStates = {"no order", "init", "ing"}
  FirstWallet = {"pending", "missing", "not_epay"}
  StartTime = 1
  MaxTime = 8
  MaxRestarts = 1
  CloseBatch = 1
  SlowCalls = FALSE
INVARIANTS
  ClosingTypeOK
  NoExpireOfPaid
  FailedOnlyAfterWallet
  CreditBacked
PROPERTIES
  PromiseKept
  ExpireIsDue
  GraceAfterClose
CHECK_DEADLOCK FALSE
