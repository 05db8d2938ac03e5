SPECIFICATION MCSpec
CONSTANTS
    HalfCent = 5
    r1 = r1
    r2 = r2
    r3 = r3
    r4 = r4
    a1 = a1
    red = red
    None = None
    Accounts = {a1}
    Labels = {red}
    Adjusters = {r1, r2, r3}
    Sweepers = {}
    Customizers = {}
    Spellings <- MCSpellings
    CodeOf <- MCCodeOf
    Supported <- MCSupported
    Deltas <- MCDeltas
    Thresholds <- MCThresholds
    Parts = {"wallets"}
    Askers = {}
    LastVersion = 0
SYMMETRY Symmetry
INVARIANTS
    DriftBounded
PROPERTIES
    NoLostUpdate
    AtomicSpec
CHECK_DEADLOCK FALSE
