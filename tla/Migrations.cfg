SPECIFICATION MigFairSpec
CONSTANTS
    old = old
    new = new
    next = next
    Processes = {old, next}
    Files <- Releases
    Conns = {c1, c2, c3}
    NoConn = NoConn
INVARIANTS
    LedgerExact
    NeverAppliedTwice
PROPERTIES
    SchemaHistoryImplemented
    StartupEnds
