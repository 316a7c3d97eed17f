CONSTANTS
    Objs = {r1, r2}
    Clients = {c1}
    Topics = {t1}
    Vals = {v1}
    NULL = NULL
    ROUTE_PRIORITY_MAX = 2
    RaisedDeletes = {}
    MaxId = 3
SPECIFICATION Spec
PROPERTIES ComesBackAtItsPriority
