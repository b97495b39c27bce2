SPECIFICATION Spec
CONSTANTS
    Users = {ann, bob}
    kMaxPendingWrites = 4
    WriteRace = TRUE
    MaxWrites = 5
    MaxFaults = 3
SYMMETRY UserSymmetry
CHECK_DEADLOCK FALSE
INVARIANTS TypeOK NoHardAssert StreamCarriesPipeline CompletionsTrackQueue RejectionFollowsRefusal AckedNotOverwritten
PROPERTIES KeepsPromise
