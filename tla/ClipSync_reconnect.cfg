\* A device reconnects before the relay has noticed the break.
CONSTANTS
    None = None
    a = a
    b = b
    c = c
    l = l
    i = i
    j = j
    f = f
    g = g
    Device = {1, 2}
    Wall = {1}
    MaxLamport = 2
    Inline = {a}
    Fetched = {}
    LocalOnly = {}
    MaxEpoch = 0
    Images = {}
    Files = {}
    HeadDepth = 4
    Limits <- DropLimits
SPECIFICATION Spec
INVARIANT NewSessionReplacesOld
CHECK_DEADLOCK FALSE
