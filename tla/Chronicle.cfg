SPECIFICATION FeedSpec
CONSTANTS
    Writers = {w1, w2}
    Refreshers = {r1, r2}
    StreamBatch = 1
    MaxEvents = 2
    MaxFaults = 1
    Nobody = Nobody
INVARIANT FeedInvariant
INVARIANT InvalidOnlyWhenOvertaken
INVARIANT StreamMissesNothing
PROPERTY KeepsLog
PROPERTY FeedCatchesUp
CHECK_DEADLOCK FALSE
