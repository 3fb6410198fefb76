SPECIFICATION BootedPubSpec
CONSTANTS
  None = None
  b1 = b1
  s1 = s1
  Balances <- MCBalances
  AuthorityStatuses <- MCStatuses
  ReadinessKeys <- MCKeys
  KEYS <- MCKeys
  Publishers = {p1}
  Revocations <- MCRevocations
  ResetAllowed = FALSE
  LossAllowed = FALSE
  Callers = {c1}
  TradingStates = {"LIVE_ACTIVE"}
  Intents = {TRUE}
  BootstrapReports = {}
  CapitalReports = {}
  ReadinessReports = {}
  AuthorityReports = {}
  NonceReports = {}
  HealthReports = {}
  GateReports = {}
  KillReports = {}
  Requests = {}
  ThreadCounts = {}
  Tiers = {}
  Transactions <- HealthyOnly
  MaxEpoch = 2
INVARIANTS
  DispatchHonoursTable
