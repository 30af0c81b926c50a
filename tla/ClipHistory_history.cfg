\* Clips added, pinned, deleted and evicted; thumbnails; images in one or two folders that are cleaned up.
CONSTANTS
    None = None
    p = p
    q = q
    r = r
    t = t
    f = f
    g = g
    Clip = {p, q, r, t}
    Image = {p, q}
    Size <- SizeOfClip
    Bytes = {2, 3}
    Maximum = {1, 2}
    Folder = {f, g}
    Limits <- HistoryLimits
SPECIFICATION HistSpec
INVARIANTS
    HistTypeOK
    BodyAccounting
    BodiesBelong
    NewestKeepBodies
    ThumbsFollowBodies
    LinksAreFiles
PROPERTIES
    PinnedStay
    PinnedFilesStay
CHECK_DEADLOCK FALSE
