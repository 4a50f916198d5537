SPECIFICATION Spec
CONSTANTS
  Sendable <- TheSendable
  Stealthy = {"stealthy"}
  Heard = {"report"}
  Delay = 2
  Repeat = 3
  Keep = 4
  Events = 4
  MaxInfos = 6
CHECK_DEADLOCK FALSE
INVARIANTS Remembered
PROPERTIES Spaced Answered
