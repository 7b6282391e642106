SPECIFICATION GateSpec
CONSTANTS
    Ids = {"a", "b"}
    Identities = {"alice", "unbound"}
    None = None
    StopWords <- MCStop
    ShortWords <- MCShort
    LongWords <- MCLong
    HeadsOf <- MCHeads
    TailsOf <- MCTails
    InnerOf <- MCInner
    NumberWordUnits <- MCUnits
    NumberWordScales <- MCScales
    Contents <- MCContents
    Text <- MCText
    Offers <- MCOffers
    Queries <- MCQueries
    Copies <- MCCopies
INVARIANTS IndexesAgree SpelledAmountFolds RespelledCopyIsReported NamedElsewhereIsStale OneCommonWordIsNotResidue
PROPERTIES ImplementsStore
