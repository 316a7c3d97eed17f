CONSTANTS
    Frames <- MCFrames
    MaxFrames = 2
    FPM_MAX_MSG_LEN = 64
    SizeT = 256
SPECIFICATION FairSpec
INVARIANTS TypeOK FramesKept PublishedInOrder WalkInside
PROPERTIES AllPublished
CHECK_DEADLOCK FALSE
