SPECIFICATION Spec
CONSTANTS
    Writers = {w1, w2}
    Keys = {k1, k2}
    Contents <- MCContents
    Writes <- MCWrites
    SizeOf <- MCSizeOf
    ConfigWindow = 2
    ConfigSigma = 1
    ConfigMinSamples = 2
    Similarity = 85
    Cooldown = 1
    MaxSelfWrites = 2
    MaxHistory = 2
    MaxTime = 1
    MaxWrites = 4
    None = None
SYMMETRY Symmetry
INVARIANTS TypeOK FlagIsDeserved RepetitionIsNoticed OutlierOfItsWindow
