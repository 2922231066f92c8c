SPECIFICATION Spec
CONSTANTS
  s1 = s1
  c1 = c1
  c2 = c2
  a1 = a1
  a2 = a2
  Sessions = {s1}
  Callers = {c1, c2}
  Agents = {a1, a2}
  MaxThreads = 1
  None = None
SYMMETRY Symmetry
INVARIANT LimitHolds
