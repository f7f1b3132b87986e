SPECIFICATION Spec
CONSTANTS
    small = small
    big = big
    Ids = {r1, r2}
    Vals = {small, big}
    NoVal = NoVal
    NoEntry = NoEntry
    NoCall = NoCall
    NoIndex = NoIndex
    MAX_ROWS_PER_PAGE = 2
    PAGE_SIZE = 3
    RowSize <- MCRowSize
    WAL_BUFFER_SIZE = 4
    MaxLog = 4
    MaxPages = 3
    Modes <- CrashModes
SYMMETRY IdSymmetry
INVARIANTS
    TypeOK
    GetMatchesDurable
    ScanMatchesIndex
    EntriesLeadToRows
PROPERTIES
    ImplementsTable
