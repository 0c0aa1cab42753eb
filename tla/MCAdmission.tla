---------------------------- MODULE MCAdmission ----------------------------
(***************************************************************************)
(* Two requests at a time from one address, whose bucket is dropped when   *)
(* it is idle.  Two offers and a list request are signed, with timestamps  *)
(* that are early, in time and late; a signature does not verify on the    *)
(* routes it was not made for.  The cache has room for two.                *)
(***************************************************************************)
EXTENDS Admission, TLC

CONSTANTS s1, k1, k2, g1, g2, g3,
    MaxAccepted     \* bound: a signature accepted so often is not sent again

MCSources == {s1}
MCHandlers == {k1, k2}
MCSignatures == {g1, g2, g3}
MCStamp == (g1 :> 1) @@ (g2 :> 2) @@ (g3 :> 2)
MCSigns == (g1 :> "offer") @@ (g2 :> "offer") @@ (g3 :> "empty")
MCConfigs == {[allow_anonymous |-> b, peer_secret |-> ~b] : b \in BOOLEAN}
MCSymmetry == Permutations(MCHandlers)

AcceptedBound == \A sig \in Signature : accepted[sig] <= MaxAccepted
=============================================================================
