------------------------------- MODULE MCMesh -------------------------------
(***************************************************************************)
(* Three daemons in a ring: the first dials both others and the second the *)
(* third.  One user talks to another at the first daemon, and the other is *)
(* also connected to the third.                                            *)
(***************************************************************************)
EXTENDS Mesh

CONSTANTS n1, n2, n3, u1, u2

MCNodes == {n1, n2, n3}

MCRing == {<<n1, n2>>, <<n1, n3>>, <<n2, n3>>}

Speaker == [node |-> n1, id |-> 1, user |-> u2, codec |-> "pcm"]
Listener == [node |-> n1, id |-> 0, user |-> u1, codec |-> "opus"]

MCSessions == {Speaker, Listener, [node |-> n3, id |-> 0, user |-> u1, codec |-> "pcm"]}

MCTalks == {<<Speaker, Listener>>}

=============================================================================
