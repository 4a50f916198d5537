SPECIFICATION Spec
CONSTANTS
  ParamOf <- TwoCalls
  Retries = 3
  MaxAcks = 3
  Prompt = TRUE
  Timely = FALSE
INVARIANT NoLeak
