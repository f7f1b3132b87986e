SPECIFICATION Spec
CONSTANTS
    WAL_BUFFER_SIZE = 2
    MaxRecords = 6
    PowerLoss = TRUE
    Tearing = TRUE
    Torn = Torn
INVARIANTS
    AckedReplayable
