SPECIFICATION BootedSpec
CONSTANTS
  None = None
  b1 = b1
  s1 = s1
  Balances <- MCBalances
  AuthorityStatuses <- MCStatuses
  ReadinessKeys <- MCKeys
  Callers = {c1, c2}
  TradingStates <- LiveStates
  Intents = {TRUE}
  BootstrapReports = {}
  CapitalReports = {}
  ReadinessReports = {}
  AuthorityReports <- AuthorityOff
  NonceReports = {TRUE, FALSE}
  HealthReports = {FALSE}
  GateReports = {}
  KillReports = {}
  Requests = {FALSE}
  ThreadCounts = {}
  Tiers = {}
  Transactions <- HealthyOnly
  MaxEpoch = 1
INVARIANTS
  AuthorizedMeansProven
PROPERTIES
  EpochRevokesLatch
  InvalidationFenced
  FinalizeLeavesLatch
CONSTRAINT
  FewFaults
