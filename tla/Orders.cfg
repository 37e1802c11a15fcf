SPECIFICATION FairSpec
CONSTANTS
  p1 = p1  p2 = p2
  k1 = k1  k2 = k2
  None = None
  Orders = {p1, p2}
  Settings <- MCSettings
  Buttons <- MCButtons
  Values = {5, 70000}
  Sockets = {k1, k2}
  Others = {}
  ChannelSize = 1
INVARIANTS
  TriggerFollowsData
  PathInv
  OrdersInTurn
PROPERTIES
  WritesStayPut
  OrdersArrive
