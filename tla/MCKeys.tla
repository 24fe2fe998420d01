-------------------------------- MODULE MCKeys --------------------------------
(* A small instance of NodeKeys: two peers, which are interchangeable. *)
EXTENDS NodeKeys, TLC

CONSTANTS p1, p2

MCPeers == {p1, p2}
MCSymmetry == Permutations(MCPeers)
=============================================================================
