SPECIFICATION FairSpec
CONSTANTS
  t1 = t1
  t2 = t2
  Exiters = {t1, t2}
  Size = 3
  DustLimit = 2
  MaxEntries = 2
  MaxLate = 1
  MaxBought = 6
  max_retries <- OneRetry
CONSTRAINT CalmWhenCrossed
INVARIANTS
  TypeOK
  OneExitAtATime
  MarksHaveOwner
  Accounted
  ClosesWhatItSold
  LostBounded
PROPERTIES
  MarkCleared
CHECK_DEADLOCK FALSE
