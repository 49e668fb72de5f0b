SPECIFICATION FairShop

CONSTANTS
    c1 = c1
    c2 = c2
    k1 = k1
    p1 = p1
    r1 = r1
    r2 = r2
    e1 = e1
    Products = {p1}
    Carts = {c1, c2}
    Coupons = {}
    Keys = {k1}
    LongKeys = {}
    Requests = {r1, r2, e1}
    Buyers = {r1, r2}
    Editors = {e1}
    Quantities = {1}
    None = None
    Stock <- MCStock
    Price <- MCPrice
    Name <- MCName
    Baskets <- MCBaskets
    Percent = 50
    Int4Max = 10

INVARIANTS
    TypeOK
    EditsReserved
    IInv
    OrdersMatchCarts
    ErrorsExplained

PROPERTIES
    EditsApplied
    AllAnswered
    ImplementsLedger

\* Every request has been answered: the system stops there.
CHECK_DEADLOCK FALSE
