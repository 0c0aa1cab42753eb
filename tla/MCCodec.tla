------------------------------ MODULE MCCodec ------------------------------
(***************************************************************************)
(* Binary digits and four-valued bytes, addresses of six digits and short  *)
(* IDs of at least three.  A type byte keeps its value.  Every key up to   *)
(* the length of an address is typed; payloads end on both sides of the    *)
(* limits; raw packets have every type, every length up to one too many,   *)
(* and one of two contents.                                                *)
(***************************************************************************)
EXTENDS Codec

CONSTANT TypedDigits        \* digits of a typed key, HexBase for no digit

MCRegistered == {<<1, 0, 1, 1, 0, 1>>, <<1, 0, 1, 1, 1, 0>>, <<1, 0, 1, 0, 0, 0>>}
MCFresh == <<0, 1, 1, 0, 0, 1>>

MCTyped == UNION {[1 .. n -> TypedDigits] : n \in MinShortId - 1 .. Digits}
MCWhole == {<<1, 0, 1, 1, 0, 1>>, <<0, 0, 0, 0, 0, 0>>, <<1, 1, 0, 1, 0, 0>>}

MCPayloads ==
    {[i \in 1 .. n |-> i % 4] :
       n \in {0, 1, LEN_USER_ADDR - 1, LEN_USER_ADDR,
              MAX_AUDIO_PAYLOAD_SIZE, MAX_AUDIO_PAYLOAD_SIZE + 1}}

MCSample ==
    [ id |-> {0, 7, 15}, time |-> {0, 6}, count |-> {0, 3}, byte |-> {0, 1, 3},
      address |-> MCWhole, rest |-> MCPayloads,
      addresses |-> {[i \in 1 .. n |-> <<1, 0, 1, 1, 0, 1>>] :
                       n \in 0 .. MAX_SPEAKER_ADDRESSES + 1} ]

MCRaw ==
    {SubSeq(<<tag>> \o [i \in 1 .. MAX_PACKET_SIZE |-> IF alike THEN 3 ELSE (i * i) % 4], 1, n) :
       tag \in 0 .. 22 \cup {255}, alike \in BOOLEAN, n \in 0 .. MAX_PACKET_SIZE + 1}
=============================================================================
