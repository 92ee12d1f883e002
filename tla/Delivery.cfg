SPECIFICATION DeliveryFairSpec
CONSTANTS
  Orders = {o1}
  Amounts = {1, 2}
  LegacyTTL = 1
  CloseLead = 0
  ChannelGrace = 1
  MissedGrace = 1
  SettleLag = 1
  Skew = 0
  Deadlines = {2}
  FirstStates = {"ing"}
  FirstWallet = {"pending", "missing"}
  StartTime = 1
  MaxTime = 4
  MaxRestarts = 1
  Worker = worker
  Pollers = {p1}
  MaxTry = 2
  PollTry = 2
  NotifyBatch = 2
  BackoffStep = 1
  BackoffCap = 2
  AttemptCap = 3
INVARIANTS
  DeliveryTypeOK
  NoSilentLoss
  CreditBacked
PROPERTIES
  PaidIsAnswered
  PaidIsFinal
  PromiseKept
CHECK_DEADLOCK FALSE
