\* A body that arrives after a newer clip was applied.
CONSTANTS
    None = None
    a = a
    b = b
    c = c
    l = l
    i = i
    j = j
    f = f
    g = g
    Device = {1, 2}
    Wall = {1}
    MaxLamport = 3
    Inline = {a}
    Fetched = {b}
    LocalOnly = {}
    MaxEpoch = 0
    Images = {}
    Files = {}
    HeadDepth = 2
    Limits <- CalmLimits
SPECIFICATION Spec
PROPERTY AppliesOnlyWinners
CHECK_DEADLOCK FALSE
