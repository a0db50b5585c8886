SPECIFICATION Spec
CONSTANTS
  c1 = c1  c2 = c2  w1 = w1
  Clients <- TwoClients
  Workspaces <- OneWorkspace
  MaxKeys = 4
  MaxRotations = 1
SYMMETRY AnyClients
INVARIANTS OneKey HasKey
PROPERTIES RevokedStays
