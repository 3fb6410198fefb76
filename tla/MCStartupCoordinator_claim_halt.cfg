SPECIFICATION BootedSpec
CONSTANTS
  None = None
  b1 = b1
  s1 = s1
  Balances <- MCBalances
  AuthorityStatuses <- MCStatuses
  ReadinessKeys <- MCKeys
  Callers = {c1}
  TradingStates <- LiveStates
  Intents = {TRUE}
  BootstrapReports = {}
  CapitalReports = {}
  ReadinessReports = {}
  AuthorityReports = {}
  NonceReports = {}
  HealthReports = {}
  GateReports = {}
  KillReports = {}
  Requests = {}
  ThreadCounts = {}
  Tiers = {"HALT"}
  Transactions <- HealthyOnly
  MaxEpoch = 1
PROPERTIES
  FailSafeHolds
