SPECIFICATION SupersededSpec
CONSTANTS
  p1 = p1
  p2 = p2
  k1 = k1
  Procs = {p1, p2}
  None = None
  MaxBoots = 1
  MaxFence = 3
  Keys = {k1}
  Calls <- TwoContainers
  Floors = {1}
  MaxGen = 2
  MaxNonce = 2
  MaxLosses = 1
CONSTRAINT FewLosses
INVARIANTS
  TypeOK
  LockIsNewest
  VersionsAdvance
PROPERTY NonceIsFenced
