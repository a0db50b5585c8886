SPECIFICATION Spec
CONSTANTS
  c1 = c1  c2 = c2
  Clients <- TwoClients
  Values <- TwoValues
  Contents <- OneContent
  Start <- StartConfig
  MaxEdits = 2
  MaxUpdates = 2
INVARIANTS Serial OverrideFollows
PROPERTIES EditTakesEffect
