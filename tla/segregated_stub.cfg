SPECIFICATION Spec
CHECK_DEADLOCK FALSE
CONSTANTS
    Ids = {i1}
    Orgs = {orgA, orgB, orgM}
    Values = {v1}
    Public = Public
    Shared = Shared
    Mirror = Mirror
    MirrorMsp = orgM
    MixedOwners = FALSE
    Txs = {t1}
    Absent = Absent
    NoProposal = NoProposal
SYMMETRY Symmetry
INVARIANT
    PublicStaysEmpty
