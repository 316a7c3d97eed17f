CONSTANTS
    Clients = {kernel, dp}
    Leavers = {dp}
    HEAD = HEAD
    MaxId = 3
SPECIFICATION FairSpec
INVARIANTS TypeOK ListIsRing WalksTouchLive NoLostWakeup
PROPERTIES CatchesUp
