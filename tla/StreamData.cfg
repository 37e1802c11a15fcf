SPECIFICATION FairSpec
CONSTANTS
  Sensors = {x1}
  Clients = {c1, c2}
  Starts = {st1, st2}
  BatchSize = 2
  MaxSamples = 3
  None = None
INVARIANTS CountedOnce OnlyBatchesAreLate ViewsCatchUp
PROPERTIES PausedGoesQuiet SampleIsTaken
