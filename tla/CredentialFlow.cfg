SPECIFICATION FairSpec
CONSTANTS
    Users = {ann, bob}
    None = None
    MaxChanges = 2
    MaxStarts = 2
    MaxWrites = 1
CHECK_DEADLOCK FALSE
INVARIANTS TypeOK CallMatchesQueue ResumeFindsStarting WriteJoinsItsQueue
PROPERTIES StartLeadsOn
