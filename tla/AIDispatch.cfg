\* Workers that may outlive their lock, a service that does not deduplicate, a fault.
SPECIFICATION Spec
CONSTANTS
  k1 = k1
  fahes = fahes
  free = free
  w1 = w1
  w2 = w2
  Keys = {k1}
  Characters = {fahes}
  CharacterOf <- MCCharacterOf
  Plans = {free}
  FreePlan = free
  GeneralLimit <- MCGeneralLimit
  CharacterLimit <- MCCharacterLimit
  Features <- MCFeatures
  NoLimit = NoLimit
  MaxMonth = 1
  Workers = {w1, w2}
  MaxRetries = 1
  MaxAttempts = 2
  SlowWorkers = TRUE
  Deduplicates = FALSE
  Refusals = {}
  MaxCalls = 2
  MaxFaults = 1
CHECK_DEADLOCK FALSE
SYMMETRY Symmetric
INVARIANTS
  NoAcceptedJobLost
PROPERTIES
  SettledIsNotSent
  JobProtocol
