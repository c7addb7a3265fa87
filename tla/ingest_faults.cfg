SPECIFICATION Spec
CONSTANTS
    a = a
    b = b
    None = None
    Chunk = {a, b}
    Size <- MCSize
    MaxXorbChunks = 2
    MaxXorbBytes = 3
    Path = {p1}
    Contents <- RichContents
    Client = {c1, c2}
    Collector = {}
    Faults = {"request_lost", "restart"}
SYMMETRY Symmetry
INVARIANTS
    TypeOK
    FilesDenote
    FilesIntact
    CloneIsFree
PROPERTY
    ImplementsFileStore
