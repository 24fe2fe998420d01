------------------------------ MODULE MCServer ------------------------------
(***************************************************************************)
(* ServerState with two addresses that are interchangeable.                *)
(***************************************************************************)
EXTENDS ServerState, TLC

CONSTANTS a1, a2

MCAddresses == {a1, a2}
MCSymmetry == Permutations(MCAddresses)
=============================================================================
