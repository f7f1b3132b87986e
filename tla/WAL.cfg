SPECIFICATION Spec
CONSTANTS
    WAL_BUFFER_SIZE = 2
    MaxRecords = 5
    PowerLoss = TRUE
    Tearing = TRUE
    Torn = Torn
INVARIANTS
    TypeOK
    AckedKept
    ReplayInOrder
    OffsetsRight
