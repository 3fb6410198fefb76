SPECIFICATION BootedSpec
CONSTANTS
  None = None
  b1 = b1
  s1 = s1
  Balances <- MCBalances
  AuthorityStatuses <- MCStatuses
  ReadinessKeys <- MCKeys
  Callers = {c1}
  TradingStates <- LiveStates
  Intents = {TRUE}
  BootstrapReports = {"BOOT_FAILED_RETRY"}
  CapitalReports <- StaleOnly
  ReadinessReports <- RevokeOnly
  AuthorityReports = {}
  NonceReports = {}
  HealthReports = {}
  GateReports = {FALSE}
  KillReports = {TRUE}
  Requests = {}
  ThreadCounts <- ClampedCounts
  Tiers = {"HALT"}
  Transactions <- HealthyOnly
  MaxEpoch = 1
INVARIANTS
  TypeOK
  DispatchSafe
  EvaluationKeepsDegraded
PROPERTIES
  RegressionRevokes
CONSTRAINT
  FewFaults
