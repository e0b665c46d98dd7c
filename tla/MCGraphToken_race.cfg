CONSTANTS
  Request = {r1, r2}
  Token = {t1, t2, t3, t4}
  Empty = Empty
  Torn = Torn
  Lifetime = {4, 10}
  Margin = 4
  Timeout = 1
SPECIFICATION Spec
SYMMETRY Symmetry
VIEW View
INVARIANT ReturnsValidToken
