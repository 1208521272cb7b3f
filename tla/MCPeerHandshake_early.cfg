\* A responder that sends one authenticated message before its AUTH; no
\* other fault, every check of recvHello/recvAuth passes
CONSTANTS
    A = A
    B = B
    Initiator <- MCInitiator
    Responder <- MCResponder
    HelloVerdicts = {"Ok"}
    AcceptOutcomes = {TRUE}
    ConnectOutcomes = {TRUE}
    OverlayMayDrop = FALSE
    MaxAppMsgs = 1
    EarlySenders = {B}
    MaxTamper = 1
SPECIFICATION Spec
PROPERTIES
    PreHandshakeMessageDropped
CHECK_DEADLOCK FALSE
