SPECIFICATION Spec
CONSTANTS
    Ids = {r1, r2, r3}
    Pages = {0, 1}
    Offsets = {0, 1}
    Slots = {0, 1}
    NoEntry = NoEntry
    MERGE_THRESHOLD = 2
SYMMETRY IdSymmetry
INVARIANTS
    UniqueIds
    BufIdsExact
    ReverseMapExact
PROPERTIES
    ImplementsMap
