SPECIFICATION FairSpec
CONSTANTS
    Users = {ann}
    kMaxPendingWrites = 3
    WriteRace = FALSE
    MaxWrites = 4
    MaxFaults = 2
CHECK_DEADLOCK FALSE
PROPERTIES QueueDrains
