SPECIFICATION Spec
CONSTANTS
    Clients = {alice, bob}
    Names = {token}
    Amounts <- MCAmounts
    Representable <- MCRepresentable
    Txs = {t1, t2}
    Absent = Absent
    NoProposal = NoProposal
SYMMETRY TxSymmetry
INVARIANTS
    TypeOK
    NonNegativeBalances
    EndorsedStillValid
PROPERTIES
    DebitAuthorised
    SupplyMovesWithOwner
    ImplementsToken
