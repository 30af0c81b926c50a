\* Peace; restarts, breaks and the switch; pulled clips and key rotation; three devices, a write that fails;
\* images and files that come back otherwise.
CONSTANTS
    None = None
    a = a
    b = b
    c = c
    l = l
    i = i
    j = j
    f = f
    g = g
    Device = {1, 2, 3}
    Wall = {1, 2}
    MaxLamport = 4
    Inline = {a, b, l}
    Fetched = {c, i, j, f, g}
    LocalOnly = {l}
    MaxEpoch = 1
    Images = {i, j}
    Files = {f, g}
    HeadDepth = 2
    Limits <- SyncLimits
SPECIFICATION FairSpec
INVARIANTS
    TypeOK
    LamportDominates
    PendingUnderCurrentKey
    NoEcho
    RelayCatchUp
    AgreeAtRest
PROPERTIES
    ImplementsRegister
    EventuallyAgree
CHECK_DEADLOCK FALSE
