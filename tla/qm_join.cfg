SPECIFICATION Spec
CONSTANTS
  Addresses = {a1}
  MaxQueues = 3
  Polls = 2
  Prompt = FALSE
INVARIANT NoMutualJoin
