CONSTANTS
  User = {u1}
  Session = {s1}
  Request = {r1, r2}
  None = None
  MaxAge = 1
  DbSkew = 0
  MaxTime = 1
  MaxFaults = 0
SPECIFICATION Spec
INVARIANT GoneSessionLogoutSucceeds
