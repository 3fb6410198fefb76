SPECIFICATION Spec
CONSTANTS
  kernel = kernel
  callback = callback
  supervisor = supervisor
  none = none
  NoThread <- none
  Drivers <- Kernel
  Callbacks <- Callback
  Observers <- Supervisor
  RetryBound = 3
INVARIANTS
  TypeOK
  AuthorityIsSupervision
  LatchMatchesState
  CountOnlyWhileFailing
  ArmedAfterPreparation
  LoanIsReturned
PROPERTY
  TerminalStays
CHECK_DEADLOCK FALSE
