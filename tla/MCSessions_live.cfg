CONSTANTS
  User = {u1}
  Session = {s1, s2}
  Request = {r1, r2}
  None = None
  MaxAge = 1
  DbSkew <- Behind
  MaxTime = 1
  MaxFaults = 1
SPECIFICATION FairSpec
PROPERTIES
  RequestsReturn
  ListedAreDispatched
