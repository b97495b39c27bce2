SPECIFICATION Spec
CONSTANTS
    d1 = d1
    d2 = d2
    Posts = {p1}
    Devices <- TwoDevices
    MaxPending <- QueueBounds
    MaxCalls = 2
CONSTRAINT CallsBounded
INVARIANTS
    TypeOK
    ListedHasPicture
    ListedURLResolves
    DeletedStaysUnlisted
PROPERTIES
    NoLostFields
