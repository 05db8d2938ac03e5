SPECIFICATION MCFairSpec
CONSTANTS
    HalfCent = 5
    r1 = r1
    r2 = r2
    r3 = r3
    r4 = r4
    a1 = a1
    red = red
    None = None
    Accounts = {a1}
    Labels = {red}
    Adjusters = {r1, r4}
    Sweepers = {r2}
    Customizers = {r3}
    Spellings <- MCSpellings
    CodeOf <- MCCodeOf
    Supported <- MCSupported
    Deltas <- MCDeltas
    Thresholds <- MCThresholds
    Parts = {"wallets", "cache"}
    Askers = {k1, k2}
    LastVersion = 2
INVARIANTS
    BalanceNonNegative
PROPERTIES
    EveryCallReturns
    EventuallyCurrent
CHECK_DEADLOCK FALSE
