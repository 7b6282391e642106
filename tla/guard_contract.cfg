SPECIFICATION Spec
CONSTANTS
    Subjects = {"alice", "bob"}
    Texts <- MCTexts
    Contents <- MCContents
    Redact <- MCRedact
    Injected <- MCInjected
    Borderline <- MCBorderline
    PII <- MCPII
    Residual <- MCResidual
    Keys <- MCKeys
    ReservedKeys <- MCReservedKeys
    ProtectedKeys <- MCConfiguredKeys
    ImmutableKeys <- MCConfiguredKeys
    Ids = {i1, i2, i3}
    BogusIds = {"guess"}
    WriteRequests <- MixedWrites
    ReadRequests <- MixedReads
    None = None
    Handlers = {h1, h2}
    Free = Free
    MaxRequests = 3
    MaxCrashes = 1
    AuditCap = 0
    InspectorFlags = {"behavioral"}
    Durable = TRUE
SYMMETRY Symmetry
INVARIANTS TypeOK ReadIsolation
PROPERTY ImplementsContract
