CONSTANTS
    Clients = {kernel, dp}
    Leavers = {dp}
    HEAD = HEAD
    MaxId = 2
SPECIFICATION FairSpec
INVARIANTS WalkTouchesLive
