CONSTANTS
  Person = {p1}
  UserId = {u1, u2}
  Session = {s1, s2}
  Token = {t1}
  Request = {r1}
  None = None
  MaxFaults = 0
SPECIFICATION Spec
PROPERTY SuspensionSticks
