CONSTANTS
    Objs = {r1, r2, r3, r4}
    Clients = {c1}
    Topics = {t1}
    Vals = {v1}
    NULL = NULL
    ROUTE_PRIORITY_MAX = 2
    RaisedDeletes = {t1}
    MaxId = 3
SPECIFICATION Spec
INVARIANTS PublishedIsFound
