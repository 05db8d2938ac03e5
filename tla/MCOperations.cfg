SPECIFICATION Spec
CONSTANTS
    s1 = s1
    Trades = {t1, t2}
    Reversals = {v1, v2}
    HalfCent = 2
    FromAmounts = {6}
    RateUnit = 4
    Rates = {3, 8}
    InitialFunds = 2
    NoTrade = NoTrade
    Admins = {a1, a2}
    TxIds = {x1, x2, x3}
    FirstTx = x1
    NoTx = NoTx
    Instances = {i1, i2}
    PendingTxs = {p1, p2}
    NoOne = NoOne
    Subs = {u1, u2, u3}
    Dispatches = {e1}
    NoSub = NoSub
    Savers = {s1, s2}
    ApiKeys = {k1, k2}
    RotatedWallets = {w1, w2}
    MaxWalletCredits = 2
    Approvals = {ap1}
    Devices = {d1, d2}
    DeviceOwners = {o1, o2}
    MAX_TOKENS_PER_USER = 1
    NoKey = NoKey
    MaxRows = 3
    MAX_LIMIT = 2
    MaxAsked = 3
    BATCH_SIZE = 1
    ArchiveBatch = 1
    MaxChanges = 1
    Moves = {m1, m2}
    Amounts = {6}
    Fee = 1
    DayLength = 2
    LastInstant = 2
    Integral = {0, 1000, 5000, 10000, 1000000, 6001000, 65535000, 65536000}
    Fractional = {5, 100, 101, 500, 2500}
    Top = 2000000000
    Operators = {op1, op2}
CONSTRAINT FailuresBound
INVARIANTS
    TypeOK
    UndoneOnce
    OneRunUntilExpiry
    EveryTargetIsServed
    SavesUndoOnlyOverlaps
    PagesLoseOnlyToDepartures
    ReportsAreFounded
    ConfiguredAsValidated
    ExecutedSchemaIsWhole
CHECK_DEADLOCK FALSE
