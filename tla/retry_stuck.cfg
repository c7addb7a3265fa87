SPECIFICATION RetrySpec
CONSTANTS
    a = a
    b = b
    None = None
    Chunk = {a, b}
    Size <- MCSize
    MaxXorbChunks = 2
    MaxXorbBytes = 3
    Path = {p1}
    Contents <- OneContent
    Client = {c1}
    Collector = {}
    Faults = {"request_lost"}
PROPERTY
    RetrySucceeds
