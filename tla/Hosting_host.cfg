\* An app that hosts, creates a workspace elsewhere, joins one, and goes from one to the other.
CONSTANTS
    None = None
    Limits <- HostLimits
SPECIFICATION HostSpec
INVARIANTS
    HostTypeOK
    OnlineWhereSettingsSay
    PortFollowsHosting
    NoGhostWorkspace
    KeptOnDisk
    IdentityStays
    OwnKeyKept
PROPERTIES
    RelayKeepsWorkspace
    OnboardingEnds
CHECK_DEADLOCK FALSE
