SPECIFICATION CatalogSpec
CONSTANTS
    Callers = {g1, g2}
    Refreshers = {r1, r2}
    MaxBegins = 2
    MaxClients = 2
    MaxNews = 2
SYMMETRY Symmetry
INVARIANTS
    NoOrphan
    CatalogSettles
    CallHasClient
CHECK_DEADLOCK FALSE
