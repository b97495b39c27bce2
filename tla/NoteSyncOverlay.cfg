SPECIFICATION Spec
CONSTANTS
    Devices = {d1, d2}
    Author = d1
    Titles = {x, y}
    NoTitle = NoTitle
    MaxWrites = 3
    MaxFaults = 1
CHECK_DEADLOCK FALSE
INVARIANTS OverlayIsLocalView
