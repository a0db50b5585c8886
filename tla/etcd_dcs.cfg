SPECIFICATION FairSpec
CONSTANTS
  r1 = r1  r2 = r2  r3 = r3  r4 = r4  Free = Free
  Requests <- Three
  DcOf <- TwoDcs
  StepOf <- Steps3
  DcSpan = 20
  MaxRetries = 3
  MayFail = TRUE
INVARIANTS EtcdTypeOK HolderOwns OneRow
PROPERTIES NeverBack TakesAtOnce IssuesRanges KeyFreed Termination
