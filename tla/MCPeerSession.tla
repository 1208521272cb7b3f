---------------------------- MODULE MCPeerSession ----------------------------
EXTENDS PeerSession
=============================================================================
