SPECIFICATION Spec
CONSTANTS
  t1 = t1
  t2 = t2
  t3 = t3
  NoThread = NoThread
  Threads = {t1, t2, t3}
  Requests = {"OFF", "DRY_RUN", "EMERGENCY_STOP"}
INVARIANTS
  TypeOK
  LiveHasAuthority
  StopStands
  OnlyDeactivateHangs
PROPERTY SwitchSeenClear
SYMMETRY Interchangeable
