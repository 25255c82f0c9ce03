SPECIFICATION Spec
CHECK_DEADLOCK FALSE
CONSTANTS
    Ids = {i1}
    Orgs = {orgA, orgB, orgM}
    Values = {v1, v2}
    Public = Public
    Shared = Shared
    Mirror = Mirror
    MirrorMsp = orgM
    MixedOwners = FALSE
    Txs = {t1, t2}
    Absent = Absent
    NoProposal = NoProposal
SYMMETRY Symmetry
INVARIANTS
    TypeOK
    RecordIsWhole
    PrivateAtOwner
    MirrorIsCopy
    WholeStaysPrivate
PROPERTIES
    CreateOverwritesNothing
    UpdateKeepsTheRest
