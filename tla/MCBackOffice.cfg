SPECIFICATION Spec
CONSTANTS
    h1 = h1
    h2 = h2
    c1 = c1
    c2 = c2
    u1 = u1
    k1 = k1
    k2 = k2
    r1 = r1
    r2 = r2
    m1 = m1
    m2 = m2
    Handlers = {h1, h2}
    Ids = {c1, c2}
    Owners = {u1}
    Tables <- AllTables
    MaxLevel = 2
    Nobody = Nobody
    Items = {1, 2, 3}
    Callers = {k1, k2}
    Codes = {r1, r2}
    Members = {m1, m2}
    maxReferrals = 2
    MaxCredits = 2
    Missing = Missing
SYMMETRY Symmetry
INVARIANTS
    TypeOK
    CasesAreSound
    PayoutsAreHonest
PROPERTIES
    SettledStaysSettled
CHECK_DEADLOCK FALSE
