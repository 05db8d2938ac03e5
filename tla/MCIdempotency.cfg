CONSTANTS
    Parts = {"keys", "users", "closure", "codes"}
    Requests = {r1, r2, r3}
    Keys = {k1, k2}
    Hashes = {h1, h2}
    None = None
    Visitors = {v1, v2, v3}
    Passwords = {p1, p2, p3}
    MAX_FAILED_ATTEMPTS = 2
    LastSecond = 2
    NoUser = NoUser
    Clients = {c1, c2}
    Closers = {x1, x2}
    TokenIds = {t1, t2, t3}
    MaxBalance = 1
    NoRow = NoRow
    Issuers = {i1, i2}
    Checkers = {j1, j2}
    Stores <- AllStores
    MAX_ATTEMPTS = 2
    MaxCodes = 2
    MaxJudged = 3
    Absent = Absent
SPECIFICATION MCSpec
INVARIANTS
    MCTypeOK
    NoReexecution
    AnswersAreReal
    AcceptedTokensPostdatePassword
    ClosureIsFinal
    CodesAreOneTime
CHECK_DEADLOCK FALSE
