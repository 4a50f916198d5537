SPECIFICATION Spec
CONSTANTS
    d3 = d3
    d1 = d1
    d2 = d2
    Devices = {d1, d2, d3}
    Always = {d2}
    Calls = 2
    Linkable <- MCLinkable
    Troubles = 1
INVARIANTS TypeOK LinksMutual DevicesFollow PendingNotForgotten
SYMMETRY Symmetry
CHECK_DEADLOCK FALSE
