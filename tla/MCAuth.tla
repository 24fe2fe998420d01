------------------------------- MODULE MCAuth -------------------------------
(* AuthPipeline on a small network.                                        *)
EXTENDS AuthPipeline, TLC

CONSTANTS p1, p2

MCPeers == {p1, p2}
MCSkews == {0, 2}
MCSymmetry == Permutations(MCPeers)
=============================================================================
