SPECIFICATION Spec
CONSTANTS
  s1 = s1  s2 = s2
  Servers <- TwoServers
  MaxWorkerId = 2
  MaxGrants = 2
  MaxFaults = 2
INVARIANTS Exclusive
PROPERTIES NoShortage KeyLapses
