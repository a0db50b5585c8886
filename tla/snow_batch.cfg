SPECIFICATION Spec
CONSTANTS
  c1 = c1  c2 = c2  c3 = c3
  Calls <- ThreeCalls
  Singles <- TwoSingles
  SizeOf <- Batch3
  Sequences = 2
  Threshold = 1
  MaxRetries = 2
  MaxClock = 4
  MaxBacks = 1
SYMMETRY SameKind
INVARIANTS UniqueIds Ascending NoneAhead
