SPECIFICATION FairSpec
CONSTANTS
    HalfCent <- MCHalfCent
    FeeDivisor = 1000
    MAX_RETRIES = 3
    None = None
    u1 = u1
    u2 = u2
    usd = usd
    eur = eur
    ref1 = ref1
    ref2 = ref2
    t2 = t2
    x1 = x1
    d1 = d1
    v1 = v1
    v2 = v2
    Users = {u1}
    Currencies = {usd, eur}
    References = {ref1, ref2}
    Amounts <- MCAmounts
    Opening <- MCOpening
    Transfers = {}
    Deposits = {}
    Withdrawals = {w1}
    Swaps = {s1}
    Cancellers = {}
    Taggers = {g1}
    Reversers = {}
INVARIANTS
    FailedMeansRefunded
    SuccessMeansSettled
    LegsBounded
PROPERTIES
    EveryHandlerReturns
CHECK_DEADLOCK FALSE
