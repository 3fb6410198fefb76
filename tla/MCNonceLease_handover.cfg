SPECIFICATION ElectedFairSpec
CONSTANTS
  p1 = p1
  p2 = p2
  k1 = k1
  Procs = {p1, p2}
  None = None
  MaxBoots = 1
  MaxFence = 2
  Keys = {k1}
  Calls <- OneBeat
  Floors = {0}
  MaxGen = 2
  MaxNonce = 0
  MaxLosses = 1
INVARIANT LeaseIsKept
PROPERTY SupersededLetGo
