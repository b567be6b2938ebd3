\* Three requests, plan changes and rebuilds over two months.
SPECIFICATION JobSpec
CONSTANTS
  k1 = k1
  k2 = k2
  k3 = k3
  fahes = fahes
  sada = sada
  free = free
  paid = paid
  Keys = {k1, k2, k3}
  Characters = {fahes, sada}
  CharacterOf <- MCCharacterOf
  Plans = {free, paid}
  FreePlan = free
  GeneralLimit <- MCGeneralLimit
  CharacterLimit <- MCCharacterLimit
  Features <- MCFeatures
  NoLimit = NoLimit
  MaxMonth = 2
INVARIANTS
  CreditFollowsStatus
  OutcomeIsTold
  CounterCountsJobs
PROPERTIES
  TerminalIsFinal
  LedgerProtocol
  KeepsPromise
