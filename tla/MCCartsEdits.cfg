SPECIFICATION Spec

CONSTANTS
    c1 = c1
    c2 = c2
    p1 = p1
    p2 = p2
    e1 = e1
    e2 = e2
    e3 = e3
    Products = {p1, p2}
    Carts = {c1}
    Coupons = {}
    Keys = {}
    Requests = {e1, e2, e3}
    Editors = {e1, e2, e3}
    Quantities = {0, 1, 2}
    None = None
    Stock <- MCStock
    Price <- MCPrice
    Name <- MCName
    Baskets <- MCBaskets
    Percent = 50
    Int4Max = 10

INVARIANTS
    TypeOK
    LinesWithinStock
    IdsNameLines
    LocksReleased

PROPERTIES
    EditsApplied

SYMMETRY EditorSymmetry

\* Every request has been answered: the system stops there.
CHECK_DEADLOCK FALSE
