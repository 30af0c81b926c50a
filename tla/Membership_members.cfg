\* Revocations; joins beside revocations; admissions beside breaks and a restart of the relay.
CONSTANTS
    None = None
    g = g
    h = h
    k = k
    Device = {1, 2, 3}
    Grant = {g, h, k}
    Limits <- MembersLimits
SPECIFICATION Spec
INVARIANTS
    TypeOK
    RelayLogValid
    OnlyOwnForks
    KeysOnlyToMembers
    AgreeUndisturbed
PROPERTY KeyEpochsGrow
CHECK_DEADLOCK FALSE
