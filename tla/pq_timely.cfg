SPECIFICATION FairSpec
CONSTANTS
  ParamOf <- SupersedingCall
  Retries = 3
  MaxAcks = 4
  Prompt = TRUE
  Timely = TRUE
INVARIANTS TypeOK NoLeak NoCrash AtMostRetries
PROPERTIES SentInOrder GivenUpOnlyAfterRetries EventuallyServed CallersReturn Promise
