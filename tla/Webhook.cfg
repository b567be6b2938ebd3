\* Two events and two handlers; the service stops when all is processed.
SPECIFICATION FairSpec
CONSTANTS
  Events = {e1, e2}
  Handlers = {h1, h2}
  MaxFaults = 1
CHECK_DEADLOCK FALSE
INVARIANT ProcessedHasReachedJob
INVARIANT ChangesOnce
PROPERTY EventIsProcessed
