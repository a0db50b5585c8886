SPECIFICATION Spec
CONSTANTS
  c1 = c1  c2 = c2
  Callers <- TwoCallers
  MaxCalls = 5
  failure_threshold = 1
  success_threshold = 2
  min_requests = 2
  Timeout = 1
  Window = 1
  MaxClock = 3
SYMMETRY Alike
INVARIANTS OpenHasDeadline
PROPERTIES TimeoutRespected ClosesOnProbes
