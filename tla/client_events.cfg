SPECIFICATION Spec
CHECK_DEADLOCK FALSE
CONSTANTS
    Clients = {c1, c2}
    Ids = {i1, i2}
    Setups <- MCSetups
    Singles = {i1}
    Bulks <- MCBulks
    MaxCalls = 2
    Observed = {c1}
    Txs = {t1, t2}
    Absent = Absent
    NoProposal = NoProposal
    NoCall = NoCall
    NoEvent = NoEvent
INVARIANTS
    TypeOK
    SuccessIsCommitted
    ReturnsOwnOrLater
    RefusalIsHonest
    ToldIsCommitted
    HeardIsWhole
    ToldOnce
PROPERTIES
    DeleteAnswersDeleted
    CallsReturn
    OwnCallsAreTold
    ChangesAreHeard
