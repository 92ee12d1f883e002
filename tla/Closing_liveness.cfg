SPECIFICATION ClosingFairSpec
CONSTANTS
  Orders = {o1}
  Amounts = {1}
  LegacyTTL = 2
  CloseLead = 1
  ChannelGrace = 2
  MissedGrace = 3
  SettleLag = 1
  Skew = 1
  Deadlines = {3}
  FirstStates = {"no order", "init", "ing"}
  FirstWallet = {"pending", "missing", "not_epay"}
  StartTime = 1
  MaxTime = 6
  MaxRestarts = 1
  CloseBatch = 1
  SlowCalls = TRUE
PROPERTIES
  PaidIsFinal
  DueIsResolved
CHECK_DEADLOCK FALSE
