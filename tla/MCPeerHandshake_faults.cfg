\* Every rejection of recvHello/recvAuth, overlay drops and up to two faults:
\* a corrupted frame, an injected ERROR_MSG or a message sent before AUTH
CONSTANTS
    A = A
    B = B
    Initiator <- MCInitiator
    Responder <- MCResponder
    HelloVerdicts <- MCAllVerdicts
    AcceptOutcomes = {TRUE, FALSE}
    ConnectOutcomes = {TRUE, FALSE}
    OverlayMayDrop = TRUE
    MaxAppMsgs = 1
    EarlySenders = {A, B}
    MaxTamper = 2
SPECIFICATION Spec
INVARIANTS
    TypeOK
    MacSequenceInSync
    NoSpuriousProtocolDrop
    NoForgedMessageProcessed
PROPERTIES
    NoHalfOpenConnection
\* A finished connection (both closed, or both authenticated with their
\* bounded traffic sent) has nothing left to do.
CHECK_DEADLOCK FALSE
