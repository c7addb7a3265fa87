SPECIFICATION Spec
CONSTANTS
    a = a
    b = b
    None = None
    Chunk = {a, b}
    Size <- MCSize
    MaxXorbChunks = 2
    MaxXorbBytes = 3
    Path = {p1}
    Contents <- TwoContents
    Client = {c1, c2}
    Collector = {g1}
    Faults = {}
INVARIANT
    FilesIntact
