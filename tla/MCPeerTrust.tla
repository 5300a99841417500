---------------------------- MODULE MCPeerTrust ----------------------------
(* PeerTrust with a peer of two devices. *)
EXTENDS PeerTrust
CONSTANTS k1, k2
MCDevices == 1 .. 2
MCKeys == {k1, k2}
=============================================================================
