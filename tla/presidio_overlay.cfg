CONSTANTS
    Chars = {"a", "w", "n", "u"}
    Wide = {"w"}
    NativePII = {"n"}
    Labels = {"PERSON", "LOCATION"}
    Unlisted = Unlisted
    MaxLen = 4
    MaxEntities = 2
    Letters <- MCLetters
SPECIFICATION SpelledSpec
CHECK_DEADLOCK FALSE
INVARIANTS NoValueLeft NestedValuesCovered SpelledOutAlike
