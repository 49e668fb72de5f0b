SPECIFICATION FairSpec

CONSTANTS
    a1 = a1
    a2 = a2
    a3 = a3
    n1 = n1
    n2 = n2
    Commands = {a1, a2, a3}
    Names = {n1, n2}
    Stock <- MCStock
    Targets = {0, 1, 2, 3}
    None = None

INVARIANTS
    TypeOK
    SchemaOfVersion
    FailedForLatest
    ServesCatalogue

PROPERTIES
    SeedKeepsRows
    Settles

\* Every command has ended: the system stops there.
CHECK_DEADLOCK FALSE
