CONSTANTS
    BYTE = 8
    Width <- MCWidth
    U16 = 1
    U32 = 2
    PAGE_SIZE = 23
    MAX_ROWS_PER_PAGE = 3
    MAX_FIELDS = 2
    Ids = {1, 2, 9}
    Vals <- MCVals
    Schemas <- MCSchemas
    Migrations <- MCMigrations
    NoTree = NoTree
SPECIFICATION Spec
INVARIANTS TypeOK RowsRoundTrip OffsetsRebuilt FilterAgrees RangeScanExact FindExact MigrationFits SchemaRoundTrip
