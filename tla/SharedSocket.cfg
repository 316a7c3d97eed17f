CONSTANTS
    Uuids = {u1, u2}
    Threads = {t1, t2}
    NULL = NULL
    MaxInbox = 1
SPECIFICATION Spec
INVARIANTS PublishesOnItsEndpoint
CHECK_DEADLOCK FALSE
