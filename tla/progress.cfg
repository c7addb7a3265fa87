SPECIFICATION CollectSpec
CONSTANTS
    a = a
    b = b
    None = None
    Chunk = {a, b}
    Size <- MCSize
    MaxXorbChunks = 2
    MaxXorbBytes = 1
    Path = {p1}
    Contents <- OverCap
    Client = {c1, c2}
    Collector = {g1}
    Faults = {"request_lost", "late_write", "check_error", "delete_error"}
INVARIANT
    IndexedIsStored
PROPERTIES
    IngestReturns
    IndexedOrphansSwept
