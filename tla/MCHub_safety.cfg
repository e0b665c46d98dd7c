CONSTANTS
  Person = {p1}
  UserId = {u1, u2}
  Session = {s1, s2}
  Token = {t1}
  Request = {r1}
  LoginRequest = {l1}
  None = None
  MaxAge = 2
  DbSkew = 1
  MaxTime = 2
  MaxFaults = 1
SPECIFICATION Spec
SYMMETRY Symmetry
INVARIANT ForcedLogoutLocksOut
PROPERTIES
  BarredStaysOut
  LoginSpec
