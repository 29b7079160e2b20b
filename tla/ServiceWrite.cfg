CONSTANTS
    Requests = {r1, r2}
    r1 = r1
    r2 = r2
    d1 = d1
    d2 = d2
    a = a
    b = b
    Ids = {d1, d2}
    Names = {a, b}
    None = None
    Listings <- MCListings
    Asks <- MCAsks
    Enabled = TRUE
    WriteAuthOpen = TRUE
    CacheTTL = 1
    Timeout = 1
    MaxChanges = 2
    t1 = t1
    Tokens = {t1}
    OtherToken = OtherToken
    AdminToken = AdminToken
    NoRow = NoRow
SPECIFICATION Spec
INVARIANTS TypeOK ResolvedWasListed
PROPERTIES UnknownIsRecent UncheckedHasCause WriteWasAllowed
