\* Reservations, settlements, plan changes and rebuilds over two months.
SPECIFICATION Spec
CONSTANTS
  k1 = k1
  k2 = k2
  k3 = k3
  k4 = k4
  fahes = fahes
  sada = sada
  free = free
  paid = paid
  Keys = {k1, k2, k3, k4}
  Characters = {fahes, sada}
  CharacterOf <- MCCharacterOf
  Plans = {free, paid}
  FreePlan = free
  GeneralLimit <- MCGeneralLimit
  CharacterLimit <- MCCharacterLimit
  Features <- MCFeatures
  NoLimit = NoLimit
  MaxMonth = 2
INVARIANTS
  ProjectionIsReplayUnlessLate
  WithinPlanUnlessLate
