SPECIFICATION FairCarefulSpec
CONSTANTS
  i1 = i1  i2 = i2  t1 = t1
  c1 = c1  c2 = c2
  r1 = r1  r2 = r2
  k1 = k1  k2 = k2  o1 = o1
  None = None
  Sensors = {i1, i2}
  Topics = {t1}
  Permanent = {i1}
  Confs = {c1, c2}
  Requests = {r1}
  Sockets = {k1, k2}
  Others = {o1}
  ChannelSize = 1
  MaxQueue = 1
INVARIANTS
  AgentAgrees
PROPERTIES
  SavedIsCovered
