\* Two other programs, and two writers of our own.
CONSTANTS
    None = None
    App = {a, b}
    Us = Us
    f1 = f1
    f2 = f2
    dir = dir
    large = large
    web = web
    Header = Header
    File = {f1, f2, dir, large}
    Folder = {dir}
    TooLarge = {large}
    Junk = {web, Header}
    AppClip <- Clips
    PathList <- Lists
    Writer = {"session", "command"}
    MaxAppCopies = 2
    MaxOwnWrites = 2
    MaxTimeouts = 1
    MaxReads = 2
SPECIFICATION X11Spec
INVARIANTS
    X11TypeOK
    NothingOfferedAfterLoss
    PastableUnlessRaced
    NoEchoOfFiles
CHECK_DEADLOCK FALSE
