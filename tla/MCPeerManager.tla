--------------------------- MODULE MCPeerManager ---------------------------
(***************************************************************************)
(* Two other hubs that can both be reached, one of them a seed.            *)
(***************************************************************************)
EXTENDS PeerManager, TLC

CONSTANTS h1, h2

TwoHubs == {h1, h2}
OneSeed == {h1}
=============================================================================
