SPECIFICATION ConfigurationSpec
CONSTANTS
  Number <- TheNumber
  Frames <- TheFrames
  Layout <- TheLayout
  Elements <- TheElements
  Values <- TheValues
  Clients = {a, b}
  Calls = 2
CHECK_DEADLOCK FALSE
INVARIANTS NothingInvented InSync
SYMMETRY ClientSymmetry
