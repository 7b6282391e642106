SPECIFICATION FairSpec
CONSTANTS
    Subjects = {"alice", "bob"}
    Texts <- MCTexts
    Contents <- MCContents
    Redact <- MCRedact
    Injected <- MCInjected
    Borderline <- MCBorderline
    PII <- MCPII
    Residual <- MCResidual
    Keys <- MCKeys
    ReservedKeys <- MCReservedKeys
    ProtectedKeys <- MCConfiguredKeys
    ImmutableKeys <- MCConfiguredKeys
    Ids = {i1, i2, i3}
    BogusIds = {}
    WriteRequests <- SlotWrites
    ReadRequests <- SlotReads
    None = None
    Handlers = {h1, h2}
    Free = Free
    MaxRequests = 3
    MaxCrashes = 1
    AuditCap = 1
    InspectorFlags = {}
    Durable = TRUE
INVARIANTS ReservedSlotAgrees BaselineIsBacked
PROPERTIES EveryRequestEnds
