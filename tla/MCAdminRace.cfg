SPECIFICATION FairSpec

CONSTANTS
    c1 = c1
    c2 = c2
    c3 = c3
    c4 = c4
    k1 = k1
    k2 = k2
    k3 = k3
    k4 = k4
    p1 = p1
    u1 = u1
    u2 = u2
    u3 = u3
    s1 = s1
    s2 = s2
    s3 = s3
    s4 = s4
    g1 = g1
    g2 = g2
    g3 = g3
    q1 = q1
    Products = {p1}
    Carts = {c1, c2, c3, c4}
    Coupons = {u1, u2}
    Keys = {k1, k2, k3, k4}
    Requests = {s1, s2, s3, s4, g1, g2, q1}
    Sellers = {s1, s2, s3, s4}
    CartOf <- MCCartOf
    KeyOf <- MCKeyOf
    Generators = {g1, g2}
    Reporters = {q1}
    Every = 2
    None = None
    Stock <- MCStock
    Price <- MCPrice
    Name <- MCName
    Baskets <- MCBaskets
    Percent = 50
    Int4Max = 10

INVARIANTS
    TypeOK
    CouponsEarned
    OutcomesTrue
    SectionsInOrder

PROPERTIES
    GenerateAnswered

\* Every request has been answered: the system stops there.
CHECK_DEADLOCK FALSE
