CONSTANTS
    Uuids = {u1}
    Threads = {t1}
    NULL = NULL
    MaxInbox = 1
    ROUTE_PRIORITY_MAX = 1
    MaxBehind = 1
SPECIFICATION LSpec
INVARIANT EndsOnlyStarted
CHECK_DEADLOCK FALSE
