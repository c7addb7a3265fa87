SPECIFICATION ServeSpec
CONSTANTS
    None = None
    NPages = 3
    Writer = {w1}
    i1 = i1
    i2 = i2
    i3 = i3
    i4 = i4
    Inode <- TwoInodes
    Faults = {"write_error", "rename_error", "stat_error", "drop", "kill"}
    S3Faults = {"head_error", "put_error", "drop", "kill"}
    Deletes = TRUE
    Reader = {r1}
    ReadFaults = {"rot", "read_error"}
    U64 = 8
    NoRange = NoRange
INVARIANTS
    ServeTypeOK
    RangeReplyExact
PROPERTIES
    ImplementsBlobStore
    CalmRangeIsServed
    ScrubVerdict
