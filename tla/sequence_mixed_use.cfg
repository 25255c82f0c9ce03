SPECIFICATION Spec
CONSTANTS
    Public = Public
    collection1 = collection1
    collection2 = collection2
    Collections <- MCCollections
    StartWith = 1
    IncrementBy = 2
    Counts = {2, 3, 4}
    Floors = {1, 5}
    MaxValue = 11
    MixedUse = TRUE
    Failing = {}
    Txs = {t1, t2}
    Absent = Absent
    NoProposal = NoProposal
    NoSession = NoSession
SYMMETRY TxSymmetry
PROPERTIES
    EnsuredLasts
