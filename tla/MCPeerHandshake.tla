-------------------------- MODULE MCPeerHandshake --------------------------
(* Model-checking instance of PeerHandshake: the two ends are model values *)
EXTENDS PeerHandshake

CONSTANTS A, B

MCInitiator == A
MCResponder == B

\* every outcome of recvHello's checks, and acceptAuthenticatedPeer may refuse
MCAllVerdicts == Verdicts
=============================================================================
