CONSTANTS
  Last = 3
  Client = {c1, c2}
  Request = {r1, r2}
  Settings <- Deployments
  Period = 3
  Drain = 2
  Second = 3
  Hour = 2
  Word = 256
  MaxHits = 3
SPECIFICATION FairSpec
INVARIANTS
  TypeOK
  AppliedInOrder
  ServesWhenReady
  SlidingMinute
PROPERTY ShutdownEnds
