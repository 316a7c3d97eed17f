CONSTANTS
    Uuids = {u1}
    Threads = {t1, t2}
    NULL = NULL
    MaxInbox = 2
    ROUTE_PRIORITY_MAX = 3
    MaxBehind = 2
SPECIFICATION LFairSpec
INVARIANTS NoOrphanThread AcceptedIsServed PublishesOnItsEndpoint DoneMeansStopped FreedIsUnused
PROPERTIES CtrlNeverStuck ForgottenFindsOut ShutdownReturns
CHECK_DEADLOCK FALSE
