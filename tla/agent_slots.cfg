SPECIFICATION Spec
CONSTANTS
  s1 = s1
  s2 = s2
  c1 = c1
  c2 = c2
  a1 = a1
  a2 = a2
  Sessions = {s1, s2}
  Callers = {c1, c2}
  Agents = {a1, a2}
  MaxThreads = 1
  None = None
SYMMETRY Symmetry
INVARIANTS
  SlotsAccounted
  LiveThreadListed
  LimitUnlessOverlapped
