SPECIFICATION CheckoutSpec
CONSTANTS
  Orders = {o1}
  Amounts = {1, 2}
  LegacyTTL = 2
  CloseLead = 1
  ChannelGrace = 1
  MissedGrace = 1
  SettleLag = 1
  Skew = 0
  Deadlines = {}
  FirstStates = {}
  FirstWallet = {}
  StartTime = 1
  MaxTime = 3
  MaxRestarts = 1
  Submitters = {s1, s2}
  OrderTTL = 2
INVARIANTS
  CheckoutTypeOK
  AmountAgreement
  DeadlineBeforeOrder
  PaidIsCaptured
PROPERTY
  DeadlineIsFixed
SYMMETRY Interchangeable
CHECK_DEADLOCK FALSE
