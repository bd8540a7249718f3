CONSTANTS
  Tasks = 3
  Agents = 2
  Mailboxes = {m1, m2}
  Receiver = {r1, r2}
  MaxSent = 2
  MaxQueues = 2
  Tool = {"a", "b"}
  AreaOf <- MCAreaOf
  RiskOf <- MCRiskOf
  Retries = 1
  AllowInvoke = TRUE
  Limit = 9
  KeepRecent = 3
  KeepFull = 1
  Long = 4
  MaxMessages = 8
  Conversation = {"c"}
  Trace = {"r", "s"}
  Turn = {"t", "u"}
  HistoryLimit = 2
  MaxRows = 5
SPECIFICATION AgentsSpec
SYMMETRY MCSymmetry
INVARIANTS
  DepsSucceedFirst
  NothingPassedOver
  DeliveredOnce
  ExecutedWithinPolicy
  TruncationSound
  TraceIsChain
  TreeIsSound
CHECK_DEADLOCK FALSE
