\* A member is away while another revokes the third.
CONSTANTS
    None = None
    g = g
    h = h
    k = k
    Device = {1, 2, 3}
    Grant = {h, k}
    Limits <- TailLimits
SPECIFICATION Spec
INVARIANT MembersCatchUp
CHECK_DEADLOCK FALSE
