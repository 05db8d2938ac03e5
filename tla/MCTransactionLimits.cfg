\* A day or a month admits 2 and 3 and not 3 and 3; an amount of 3 converted
\* at rate 2 is over the single limit.  The second midnight ends the first month.
CONSTANTS
    Parts = {"limits", "limiters", "cache", "feed", "table"}
    Users = {u1}
    Requests = {r1, r2, r3}
    Currencies = {eur}
    USD = usd
    Amounts = {2, 3}
    Rates = {1, 2}
    SINGLE_TX_LIMIT_USD = 5
    DAILY_LIMIT_USD = 5
    MONTHLY_LIMIT_USD = 5
    DaysPerMonth = 2
    LastDay = 2
    None = None
    Hits = {1, 2, 3, 4, 5}
    Limiters <- AllLimiters
    DEFAULT_LIMITS <- MCDefaultLimits
    IpLimit = 2
    EmailLimit = 1
    maxRequestsSet = {1, 2}
    WindowMs = 2
    EmailWindowMs = 3
    LastTick = 3
    Pairs = {p1, p2, p3, p4}
    maxSize = 2
    ttlMs = 1
    LastMs = 3
    maxBufferSize = 2
    replayWindowMs = 2
    MaxUpdates = 4
    LastInstant = 4
    RateReaders = {a1, a2}
    PairCount = 2
    TtlTicks = 1
    LastRateTick = 3
SPECIFICATION MCSpec
CONSTRAINT HitsBound
INVARIANTS MCTypeOK WithinLimits AccumulatorsAgree WindowsHold RatesAreServed
CHECK_DEADLOCK FALSE
