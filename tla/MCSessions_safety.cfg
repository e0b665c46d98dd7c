CONSTANTS
  User = {u1, u2}
  Session = {s1, s2}
  Request = {r1, r2}
  None = None
  MaxAge = 2
  DbSkew = 1
  MaxTime = 3
  MaxFaults = 1
SPECIFICATION Spec
SYMMETRY Symmetry
INVARIANTS
  TypeOK
  IInv
  DispatchedIsDead
  SuccessfulLogoutTerminates
  FanOutNamesOneUser
PROPERTIES
  EndedAreCarried
  LifecycleSpec
