\* Two devices that pull from each other; one that pulls from the other, alone or while connections break and a body expires; two that pull the same from a third.
CONSTANTS
    None = None
    Device = {1, 2, 3}
    Id = {1, 2, 3, 4}
    Chunks = 2
    Room = 2
    CacheItems = 3
    HeadDepth = 2
    Limits <- PullLimits
SPECIFICATION FairPullSpec
INVARIANTS
    PullTypeOK
    HeadsServable
    WholeUnlessCrossed
PROPERTY PullsAnswered
CHECK_DEADLOCK FALSE
