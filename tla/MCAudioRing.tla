---------------------------- MODULE MCAudioRing ----------------------------
(* One receiving task and one output callback on a buffer of four slots; a *)
(* packet may be larger than the buffer.                                   *)
EXTENDS AudioRing

CONSTANTS w1, r1

MCWriter == {w1}
MCReader == {r1}
MCFrames == {2, 5}
MCNeeds == {1, 3}
=============================================================================
