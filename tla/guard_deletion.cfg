SPECIFICATION Spec
CONSTANTS
    Subjects = {"alice", "bob"}
    Texts <- MCTexts
    Contents <- MCContents
    Redact <- MCRedact
    Injected <- MCInjected
    Borderline <- MCBorderline
    PII <- MCPII
    Residual <- MCResidual
    Keys <- MCKeys
    ReservedKeys <- MCReservedKeys
    ProtectedKeys <- MCConfiguredKeys
    ImmutableKeys <- MCConfiguredKeys
    Ids = {i1, i2, i3, i4}
    BogusIds = {"guess"}
    WriteRequests <- DeletionWrites
    ReadRequests <- DeletionReads
    None = None
    Handlers = {h1, h2}
    Free = Free
    MaxRequests = 4
    MaxCrashes = 1
    AuditCap = 2
    InspectorFlags = {}
    Durable = TRUE
SYMMETRY Symmetry
INVARIANTS DeletionIsFinal ResidueIsReported OneProofPerEntry OfferOrder
