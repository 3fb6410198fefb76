SPECIFICATION BootedPubSpec
CONSTANTS
  None = None
  b1 = b1
  s1 = s1
  Balances <- MCBalances
  AuthorityStatuses <- MCStatuses
  ReadinessKeys <- ThreeKeys
  KEYS <- MCKeys
  Publishers = {p1, p2}
  Revocations <- MCRevocations
  ResetAllowed = TRUE
  LossAllowed = TRUE
  Callers = {c1}
  TradingStates = {"LIVE_ACTIVE"}
  Intents = {TRUE}
  BootstrapReports = {}
  CapitalReports = {}
  ReadinessReports = {}
  AuthorityReports = {}
  NonceReports = {}
  HealthReports = {}
  GateReports = {}
  KillReports = {}
  Requests = {}
  ThreadCounts = {}
  Tiers = {}
  Transactions <- HealthyOnly
  MaxEpoch = 1
CONSTRAINT FewTables
INVARIANTS
  PubTypeOK
  MirrorWasInForce
  MirrorCatchesUp
  DispatchHonoursKeys
PROPERTY PublicationIsEvidence
