SPECIFICATION Spec
CONSTANTS
    Users = {ann}
    kMaxPendingWrites = 4
    WriteRace = TRUE
    MaxWrites = 4
    MaxFaults = 1
CHECK_DEADLOCK FALSE
INVARIANTS RejectionHitsRefused
