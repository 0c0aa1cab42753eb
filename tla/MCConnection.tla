---------------------------- MODULE MCConnection ----------------------------
(***************************************************************************)
(* Three connections of two users, with the timeouts of the code in ticks  *)
(* of five seconds.                                                        *)
(***************************************************************************)
EXTENDS Connection, TLC

CONSTANTS a1, a2

MCAddresses == {a1, a2}

\* Client IDs are ordered, addresses are not.
MCSymmetry == Permutations(Address)

=============================================================================
