CONSTANTS
  Session = {s1}
  Endpoint = {e1, e2}
  MaxRetries = 2
  Timeout = 1
  TokenTTL = 4
  Drain = 2
  HasAudit = TRUE
  NotYet = NotYet
SPECIFICATION FairSpec
INVARIANTS
  TypeOK
  OutcomesAreEarned
  ReturnCapturesAll
  TokenFreshWhenPosted
  WaitIsBounded
  NoDeliveryCutShort
PROPERTIES
  NotificationSpec
  CallEnds
CHECK_DEADLOCK FALSE
