SPECIFICATION BootedSpec
CONSTANTS
  None = None
  b1 = b1
  s1 = s1
  Balances <- MCBalances
  AuthorityStatuses <- MCStatuses
  ReadinessKeys <- MCKeys
  Callers = {c1}
  TradingStates <- LiveStates
  Intents = {TRUE}
  BootstrapReports = {}
  CapitalReports = {}
  ReadinessReports = {}
  AuthorityReports = {}
  NonceReports = {TRUE, FALSE}
  HealthReports = {}
  GateReports = {}
  KillReports = {}
  Requests = {}
  ThreadCounts = {1}
  Tiers = {}
  Transactions <- HealthyOnly
  MaxEpoch = 1
PROPERTIES
  SignalChangeRevokes
