SPECIFICATION FairSpec
CONSTANTS
  Senders = {"s1", "s2"}
  Attempts = 2
  Evaluations = 2
  Packets = 1
  Failures = 2
  Restarts = 2
CHECK_DEADLOCK FALSE
INVARIANTS OwnAnswer
PROPERTIES CallsReturn Reconnects
