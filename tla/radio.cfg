CONSTANTS
    Senders = {s1, s2}
    Calls = 2
    Events = 1
    Stops = 3
SPECIFICATION FairSpec
INVARIANTS OneTransmission MainUnlocks Listens
PROPERTIES CallsReturn
CHECK_DEADLOCK FALSE
