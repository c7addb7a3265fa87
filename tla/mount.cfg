SPECIFICATION ClosingSpec
CONSTANTS
    None = None
    Mount = {m1}
    Path = {p1}
    Byte <- MCByte
    Zero = 0
    MaxSize = 2
    MaxHandles = 2
    Faults = {"ingest", "ingest_reply", "reconstruct", "misread", "restart", "kill"}
INVARIANTS
    TypeOK
    ReadsCurrent
    SizeIsServed
    CleanIsPersisted
    CacheCoherent
PROPERTY
    EditReachesCatalog
