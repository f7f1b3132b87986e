CONSTANTS
    NIBBLE = 3
    BYTE = 15
    HASHTABLESIZE = 5
    SKIP = 3
    PAGE_SIZE = 12
    MAX_FIELDS = 1
    MAX_SCHEMA_LEN = 2
    Schemas <- MCSchemas
    DefaultSchema <- C
    NoSchema = NoSchema
    Contents <- AnyContents
    Compressions = {1}
    LZ4_compress <- LZ4_compress_default
    LZ4_decompress <- LZ4_decompress_safe
    CorruptBlock <- Failed
    MaxPages = 2
    MaxOpens = 3
    MaxChanges = 3
SPECIFICATION Spec
INVARIANTS ReadsBack
CHECK_DEADLOCK FALSE
