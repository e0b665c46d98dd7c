CONSTANTS
  Person = {p1, p2}
  UserId = {u1, u2, u3}
  Session = {s1, s2}
  Token = {t1}
  Request = {r1, r2}
  None = None
  MaxFaults = 1
SPECIFICATION Spec
SYMMETRY Symmetry
INVARIANTS
  TypeOK
  SessionForThePerson
PROPERTIES
  LockoutIsPermanent
  ShutOutStaysOut
