SPECIFICATION Spec

CONSTANTS
    x1 = x1
    x2 = x2
    x3 = x3
    x4 = x4
    x5 = x5
    c1 = c1
    c2 = c2
    k1 = k1
    k2 = k2
    k3 = k3
    p1 = p1
    Calls = {x1, x2, x3, x4, x5}
    Carts = {c1, c2}
    Products = {p1}
    Quantities = {1}
    Keys = {k1, k2, k3}
    MaxLosses = 1
    None = None

INVARIANTS
    RetryReturnsOrder

SYMMETRY PageSymmetry

\* Every call has been made and answered: the page rests there.
CHECK_DEADLOCK FALSE
