SPECIFICATION FairSpec
CONSTANTS
  g1 = g1  g2 = g2  b1 = b1
  Generates <- TwoGen
  Batches <- OneBatch
  BatchSize = 2
  MayRestart = TRUE
  Workers = 2
  Step = 3
  Gaps <- OneGap
  SwitchPct = 40
  MaxLoads = 3
INVARIANTS TypeOK UniqueIds LoadExclusive LoadingReset AllOrNothing ExhaustedOnlyIfDisturbed
PROPERTIES FreshInstall IssuesIds Termination
