CONSTANTS
    Objs = {r1, r2, r3, r4}
    Clients = {c1, c2}
    Topics = {t1, t2}
    Vals = {v1, v2}
    NULL = NULL
    ROUTE_PRIORITY_MAX = 2
    RaisedDeletes = {t2}
    MaxId = 3
SPECIFICATION Spec
SYMMETRY Symmetry
INVARIANTS BrokersInOrder RoutesFiled HashIsLive CursorAtEveryLevel
           HoldsTable PendingOrInSync AsleepIsInSync
           WalkCompleteWithClients
PROPERTIES UrgentFirst ImplementsFeed
