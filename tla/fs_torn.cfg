SPECIFICATION ServeSpec
CONSTANTS
    None = None
    NPages = 2
    Writer = {w1, w2}
    i1 = i1
    i2 = i2
    i3 = i3
    i4 = i4
    Inode <- FourInodes
    Faults = {}
    S3Faults = {}
    Deletes = FALSE
    Reader = {}
    ReadFaults = {}
    U64 = 8
    NoRange = NoRange
INVARIANT
    PublishedComplete
