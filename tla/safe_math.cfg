SPECIFICATION Spec
CONSTANTS
    Precision = 5
    MaxExponent = 5
INVARIANTS
    BalanceExact
    RefusedOnlyIfInexact
