SPECIFICATION Spec
CONSTANTS
    Length = 3
    CharsetCount = 2
    ByteCount = 4
    BatchSize = 2
    MaxBatches = 4
INVARIANTS
    TypeOK
    LengthAccounting
    ResultIsAcceptedPrefix
\* The function returns, and the bound on batches may stop the loop.
CHECK_DEADLOCK FALSE
