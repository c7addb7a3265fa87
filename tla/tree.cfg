SPECIFICATION Spec
CONSTANTS
    x = x
    y = y
    None = None
    Key <- MCKey
    Hash = {h1, h2}
    MaxEntries = 3
    MaxNodes = 6
INVARIANTS
    TreeTypeOK
    ResolvesHome
    ServesItsEntries
    ListedOnce
PROPERTY
    MountStaysPlain
