SPECIFICATION DesktopSpec
SYMMETRY Symmetry
CONSTRAINT OneHazard
CHECK_DEADLOCK FALSE
CONSTANTS
  p1 = p1 p2 = p2 s1 = s1 k1 = k1 k2 = k2
  None = None Undef = Undef Gap = Gap
  Processes = {p1, p2} Sensors = {s1} Values = {0, 1}
  Kit = {"tank", "valve", "rack"}
  Palette = {"valve"} MaxNodes = 1 MaxActs = 2 MaxWire = 1 MaxAwaited = 1
  Keys = {k1, k2} Readings = {0, 1}
  MaxPoints = 1 Second = 2 MaxClock = 4 MaxSamples = 2 MaxAir = 1
INVARIANTS
  FlowIsItsOwn RunningIsShown NodesTellTheirStream
  LiveShowsWhatCame LastValueIsDrawn HistoryIsTheLog
