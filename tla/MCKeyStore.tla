----------------------------- MODULE MCKeyStore -----------------------------
(***************************************************************************)
(* Three starts of the client, with either of two passphrases or none, and *)
(* one nostr key.                                                          *)
(***************************************************************************)
EXTENDS KeyStore, TLC

CONSTANTS w1, w2, n1

MCPassphrases == {w1, w2}
MCSymmetry == Permutations(MCPassphrases)

=============================================================================
