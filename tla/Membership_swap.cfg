\* Two members revoke the third at once.
CONSTANTS
    None = None
    g = g
    h = h
    k = k
    Device = {1, 2, 3}
    Grant = {h, k}
    Limits <- SwapLimits
SPECIFICATION Spec
INVARIANT OneKeyPerEpoch
CHECK_DEADLOCK FALSE
