SPECIFICATION Spec
CONSTANTS
  Sockets = {s1, s2}
  Keep = 4
  Limit = 1
  MaxResults = 3
  Bad = {2}
INVARIANT NoGap
