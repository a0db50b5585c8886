SPECIFICATION Spec
CONSTANTS
  segment = segment  snowflake = snowflake  uuid_v7 = uuid_v7
  w1 = w1  check = check
  Algorithms <- AllAlgorithms
  Registered <- Built
  Primary = segment
  Chain <- Fallbacks
  Workers <- OneWorker
  Checker = check
  Wrap = 3
  failure_threshold = 2
  recovery_threshold = 2
  half_open_success_threshold = 1
INVARIANTS TypeOK Agreement
PROPERTIES CircuitRecovers
