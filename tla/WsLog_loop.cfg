\* Every log of up to five entries over the offered bodies.
CONSTANTS
    g = g
    h = h
    Device = {1, 2, 3}
    Grant = {g, h}
    MaxLength = 5
    Offered <- SomeBodies
SPECIFICATION Spec
INVARIANT LoopObeysRules
CHECK_DEADLOCK FALSE
