SPECIFICATION Spec
CONSTANTS
  ParamOf <- OneCall
  Retries = 3
  MaxAcks = 1
  Prompt = FALSE
  Timely = FALSE
CHECK_DEADLOCK FALSE
INVARIANTS DisposedQuiescent
