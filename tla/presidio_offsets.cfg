CONSTANTS
    Chars = {a, b, w, n}
    Wide = {w}
    NativePII = {n}
    Labels = {PERSON, LOCATION}
    Unlisted = Unlisted
    MaxLen = 2
    MaxEntities = 1
SPECIFICATION Spec
CHECK_DEADLOCK FALSE
INVARIANT FoundIsRedacted
