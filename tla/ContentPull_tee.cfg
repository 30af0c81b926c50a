\* Three devices, one body, no breaks: two ask for it at once.
CONSTANTS
    None = None
    Device = {1, 2, 3}
    Id = {1}
    Chunks = 2
    Room = 2
    CacheItems = 1
    HeadDepth = 1
    Limits <- TeeLimits
SPECIFICATION PullSpec
INVARIANT ManyRequestersServed
CHECK_DEADLOCK FALSE
