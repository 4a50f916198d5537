CONSTANTS
    temperature = temperature
    time = time
    Params = {temperature, time}
    Values = {v1, v2}
    Frame <- OneFrame
    Reported = {time}
    Clients = {c1, c2}
    Calls = 2
    Events = 1
    Counter0 = 2
    AirLimit = 2
SPECIFICATION SpecAlike
SYMMETRY Alike
INVARIANTS CacheFollowsDevice LastPacketWins
PROPERTY SuccessMeansDelivered
CHECK_DEADLOCK FALSE
