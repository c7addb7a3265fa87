SPECIFICATION ReaderSpec
CONSTANTS
    a = a
    b = b
    None = None
    Chunk = {a, b}
    Size <- MCSize
    MaxXorbChunks = 3
    MaxXorbBytes = 3
    Path = {p1}
    Contents <- MCContents
    Client = {c1}
    Reader = {r1}
    Packed <- MCPacked
    U64 = 16
    NoRange = NoRange
    Collector = {}
    Faults = {}
INVARIANT
    ReadExact
