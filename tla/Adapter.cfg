SPECIFICATION RetriesSpec
CONSTANTS
  Orders = {o1}
  Queued = {}
  Silent = {}
  Amounts = {1}
  LegacyTTL = 2
  CloseLead = 1
  ChannelGrace = 1
  MissedGrace = 2
  SettleLag = 0
  Skew = 0
  Deadlines = {}
  FirstStates = {}
  FirstWallet = {}
  StartTime = 1
  MaxTime = 6
  MaxRestarts = 1
  CloseBatch = 1
  SlowCalls = FALSE
  Worker = worker
  Pollers = {}
  MaxTry = 3
  PollTry = 3
  NotifyBatch = 2
  BackoffStep = 2
  BackoffCap = 3
  AttemptCap = 4
  Submitters = {s1}
  OrderTTL = 2
  SubmitFor = 1
  OrdersBy = 1
INVARIANT
  AdapterTypeOK
PROPERTIES
  PromiseKept
  NoOrderForExpired
  RetriesWait
  
CHECK_DEADLOCK FALSE
