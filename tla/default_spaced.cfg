SPECIFICATION DefaultSpec
CONSTANTS
  g1 = g1  g2 = g2  b1 = b1
  Generates <- TwoGen
  Batches <- OneBatch
  BatchSize = 2
  MayRestart = TRUE
  Workers = 2
  Step = 3
  Gaps <- NoGaps
  SwitchPct = 40
  MaxLoads = 2
  PerSecond = 2
  Span = 3
  MaxSeconds = 3
INVARIANTS SpacedUnique
