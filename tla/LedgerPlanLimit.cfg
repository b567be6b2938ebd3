\* One plan and a refund after the month's end: more requests than the plan allows.
SPECIFICATION Spec
CONSTANTS
  k1 = k1
  k2 = k2
  k3 = k3
  k4 = k4
  fahes = fahes
  sada = sada
  free = free
  paid = paid
  Keys = {k1, k2, k3, k4}
  Characters = {fahes, sada}
  CharacterOf <- MCCharacterOf
  Plans = {free}
  FreePlan = free
  GeneralLimit <- MCFreeGeneral
  CharacterLimit <- MCFreeCharacter
  Features <- MCFreeFeatures
  NoLimit = NoLimit
  MaxMonth = 2
INVARIANT WithinPlan
