SPECIFICATION Spec
CHECK_DEADLOCK FALSE
CONSTANTS
    Ids = {i1, i2}
    Orgs = {orgA, orgB, orgM}
    Values = {v1}
    Public = Public
    Shared = Shared
    Mirror = Mirror
    MirrorMsp = orgM
    MixedOwners = TRUE
    Txs = {t1}
    Absent = Absent
    NoProposal = NoProposal
SYMMETRY Symmetry
INVARIANT
    PrivateValuesAtOwner
