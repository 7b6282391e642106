SPECIFICATION Spec
CONSTANTS
    Ids = {i1, i2}
    Contents = {c, huge}
    Identities = {alice, unbound}
    None = None
    Queries = {{}, {c}, {huge}, {c, huge}}
    Oversized = {huge}
    MaxCrashes = 2
INVARIANTS NeverTorn DeletedBytesGone
PROPERTIES ImplementsStore
CHECK_DEADLOCK FALSE
