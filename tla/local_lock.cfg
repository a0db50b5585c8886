SPECIFICATION LocalSpec
CONSTANTS
  r1 = r1  r2 = r2  r3 = r3  r4 = r4
  Requests <- Four
  DcOf <- TwoDcs4
  StepOf <- Steps
  DcSpan = 20
  Threads = 2
  MayFail = TRUE
INVARIANTS UniqueRanges MarksOwned
