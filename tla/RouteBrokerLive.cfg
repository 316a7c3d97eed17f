CONSTANTS
    Objs = {r1, r2, r3}
    Clients = {c1}
    Topics = {t1, t2}
    Vals = {v1}
    NULL = NULL
    ROUTE_PRIORITY_MAX = 2
    RaisedDeletes = {t2}
    MaxId = 3
SPECIFICATION FairSpec
PROPERTIES CatchesUp ImplementsFairFeed
