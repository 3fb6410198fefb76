SPECIFICATION FairPubSpec
CONSTANTS
  None = None
  b1 = b1
  s1 = s1
  Balances <- MCBalances
  AuthorityStatuses <- MCStatuses
  ReadinessKeys <- ThreeKeys
  KEYS <- MCKeys
  Publishers = {p1}
  Revocations <- MCRevocations
  ResetAllowed = FALSE
  LossAllowed = FALSE
  Callers = {}
  TradingStates = {"LIVE_ACTIVE"}
  Intents = {TRUE}
  BootstrapReports = {}
  CapitalReports = {}
  ReadinessReports = {}
  AuthorityReports = {}
  NonceReports = {}
  HealthReports = {}
  GateReports = {}
  KillReports = {}
  Requests = {}
  ThreadCounts = {}
  Tiers = {}
  Transactions <- HealthyOnly
  MaxEpoch = 0
PROPERTIES
  RevocationDelivered
