SPECIFICATION Spec
CONSTANTS
  p1 = p1  p2 = p2  d1 = d1  d2 = d2
  Loads <- TwoLoads
  Dcs <- TwoDcs
  Local = d1
  DegradeAt = 1
  FailAt = 2
  Pace = 3
PROPERTIES Recovers FailsOver
