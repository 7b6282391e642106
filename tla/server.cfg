SPECIFICATION FairSpec
CONSTANTS
    Servers = {s1, s2, bad}
    OneShots = {w}
    Misconfigured = {bad}
    Conns = {c1, c2}
    None = None
    FileLimit = 2
    OtherFiles = 1
    MaxKills = 1
INVARIANTS ServedPathIsPrivate RacingStartsLeaveAServer LostUpdatesNeedTwoProcesses
PROPERTIES SentRequestEnds
CHECK_DEADLOCK FALSE
