SPECIFICATION Spec
CONSTANTS
    HalfCent <- MCHalfCent
    FeeDivisor = 1000
    MAX_RETRIES = 3
    None = None
    u1 = u1
    u2 = u2
    usd = usd
    eur = eur
    ref1 = ref1
    ref2 = ref2
    t2 = t2
    x1 = x1
    d1 = d1
    v1 = v1
    v2 = v2
    Users = {u1, u2}
    Currencies = {usd}
    References = {ref1}
    Amounts <- MCAmounts
    Opening <- MCOpening
    Transfers = {t1}
    Deposits = {}
    Withdrawals = {}
    Swaps = {}
    Cancellers = {}
    Taggers = {}
    Reversers = {v1, v2}
INVARIANTS
    RepaidOnce
CHECK_DEADLOCK FALSE
