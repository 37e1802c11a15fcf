SPECIFICATION LossySpec
CONSTANTS
  p1 = p1  p2 = p2
  a1 = a1  a2 = a2
  r1 = r1  r2 = r2
  s1 = s1  s2 = s2  s3 = s3
  f1 = f1  f2 = f2
  k1 = k1
  None = None
  Processes = {p1}
  Agents = {a1}
  Requests = {r1, r2}
  Subs = {s1, s2}
  Flows = {f1}
  Sockets = {k1}
  MaxRestarts = 0
SYMMETRY Symmetry
PROPERTIES
  KilledStreamIsSilent
