SPECIFICATION Spec

CONSTANTS
    c1 = c1
    c2 = c2
    k1 = k1
    k2 = k2
    p1 = p1
    p2 = p2
    r1 = r1
    r2 = r2
    r3 = r3
    u1 = u1
    Products = {p1, p2}
    Carts = {c1, c2}
    Coupons = {}
    Keys = {k1, k2}
    LongKeys = {}
    Requests = {r1, r2}
    Buyers = {r1, r2}
    None = None
    Stock <- TwoStock
    Price <- TwoPrice
    Name <- SameName
    Baskets <- TwoBaskets
    Percent = 50
    Int4Max = 10

INVARIANTS
    NoWaitCycle

\* Every request has been answered: the system stops there.
CHECK_DEADLOCK FALSE
