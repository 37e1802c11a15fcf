SPECIFICATION FairSpec
CONSTANTS
  s1 = s1  s2 = s2
  None = None
  Sensors = {s1}
  ChannelSize = 1
  MaxConnections = 2
CHECK_DEADLOCK FALSE
INVARIANTS
  AgentInv
PROPERTIES
  NewListSurvives
  LoopsGoOn
  PausedFallsSilent
