SPECIFICATION FairSpec
CONSTANTS
  Addresses = {a1}
  MaxQueues = 2
  Polls = 2
  Prompt = TRUE
INVARIANTS TypeOK HeldUsable NothingRunsAfter Watched
PROPERTIES  DestroyReturns
