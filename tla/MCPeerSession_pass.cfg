CONSTANTS
    Period = 1
    AuthTimeout = 2
    PeerTimeout = 3
    StragglerTimeout = 4
    SendModeIdleTimeout = 4
    MaxQueue = 2
SPECIFICATION Spec
INVARIANTS
    TypeOK
    SilenceBounded
PROPERTIES
    DeadPeerEventuallyDropped
