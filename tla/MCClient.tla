------------------------------ MODULE MCClient ------------------------------
(* A client with two other users and two standbys.                         *)
EXTENDS Client, TLC

CONSTANTS alice, bob, me

MCPeer == {alice, bob}
MCSymmetry == Permutations(MCPeer)
=============================================================================
