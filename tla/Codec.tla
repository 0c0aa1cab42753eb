------------------------------- MODULE Codec -------------------------------
(***************************************************************************)
(* The bytes of a packet (protocol/encoder.rs, decoder.rs, packet.rs) and  *)
(* of an address (address/user.rs), and a data channel that carries them   *)
(* to a receiver.                                                          *)
(*                                                                         *)
(* A packet is its kind and the values of its fields.  Field widths,       *)
(* limits and the base of a digit are constants: the code's 32-byte        *)
(* addresses of 64 hexadecimal digits are small in an instance.  A         *)
(* decoder's cursor is what is left of its buffer, and taking more than    *)
(* is left is the panic that it is in the bytes library.                   *)
(***************************************************************************)
EXTENDS Naturals, FiniteSets, SequencesExt

CONSTANTS
    HexBase,                \* digits are 0 .. HexBase - 1; HexBase is no digit
    LEN_USER_ADDR, LEN_CLIENT_ID, LEN_PARTICIPANT_COUNT, LEN_TIMESTAMP,
    MAX_PACKET_SIZE, MAX_AUDIO_PAYLOAD_SIZE, MAX_SPEAKER_ADDRESSES,
    MinShortId,             \* least number of digits of a short ID (12)
    Sample,                 \* values to send in a field of each type
    Typed,                  \* keys a user types to call someone
    Raw,                    \* other byte strings to receive
    Registered,             \* addresses of the users online
    Fresh,                  \* the address generate_from_time makes
    None

Digits == 2 * LEN_USER_ADDR
Byte == 0 .. HexBase * HexBase - 1
CODEC_OPUS == 1

\* As in the code no packet within the other limits is too large.
ASSUME CodecAssumption ==
    /\ MinShortId < Digits
    /\ 3 + 2 * LEN_CLIENT_ID + 2 * LEN_USER_ADDR + MAX_AUDIO_PAYLOAD_SIZE <= MAX_PACKET_SIZE
    /\ LEN_CLIENT_ID + LEN_USER_ADDR < MAX_AUDIO_PAYLOAD_SIZE
    /\ 1 + (1 + MAX_SPEAKER_ADDRESSES) * LEN_USER_ADDR <= MAX_PACKET_SIZE
    /\ \A a \in Registered \cup {Fresh} : a \in [1 .. Digits -> 0 .. HexBase - 1]

-----------------------------------------------------------------------------
\* Addresses: sequences of digits, and arrays of LEN_USER_ADDR bytes.

IsHex(id) == Len(id) % 2 = 0 /\ \A i \in DOMAIN id : id[i] < HexBase

\* Mutant: digits are decoded from the end of the array.
ToBytesRight(id) ==
    LET n == Len(id) \div 2
    IN  [i \in 1 .. LEN_USER_ADDR |->
           LET j == i - (LEN_USER_ADDR - n)
           IN  IF IsHex(id) /\ j \in 1 .. n
                 THEN id[2 * j - 1] * HexBase + id[2 * j] ELSE 0]

\* What does not decode becomes an array of zeros.
ToBytes(id) ==
    [i \in 1 .. LEN_USER_ADDR |->
       IF IsHex(id) /\ 2 * i <= Len(id) THEN id[2 * i - 1] * HexBase + id[2 * i] ELSE 0]

FromBytes(bytes) ==
    [i \in 1 .. Digits |->
       LET b == bytes[(i + 1) \div 2]
       IN  IF i % 2 = 1 THEN b \div HexBase ELSE b % HexBase]

TrimEnd(id) ==
    SubSeq(id, 1, Max({0} \cup {i \in DOMAIN id : id[i] # 0}))

MatchesShortIdPrefix(self, key) ==
    LET clean == TrimEnd(key)
    IN  \/ self = key
        \/ Len(key) \in MinShortId .. Digits - 1 /\ IsPrefix(key, self)
        \/ /\ Len(key) = Digits /\ Len(self) = Digits
           /\ Len(clean) \in MinShortId .. Digits - 1 /\ IsPrefix(clean, self)

\* The users find_client_by_address finds for a key: none is NotFound, more
\* than one Ambiguous.
Resolve(key) ==
    {a \in Registered : /\ Len(TrimEnd(key)) >= MinShortId \/ Len(key) >= MinShortId
                        /\ MatchesShortIdPrefix(a, key)}

-----------------------------------------------------------------------------
\* Packets.

Layout ==
    [ ClientAssignment         |-> <<"id", "address">>,
      ClientTargetedAudio      |-> <<"address", "byte", "rest">>,
      ServerTargetedAudio      |-> <<"address", "id", "address", "byte", "rest">>,
      PeerTargetedAudio        |-> <<"id", "id", "address", "address", "byte", "byte", "rest">>,
      CallRequest              |-> <<"id", "address">>,
      CallAcceptResponse       |-> <<"address">>,
      CallRejectResponse       |-> <<"address">>,
      CallAcceptedNotification |-> <<"address">>,
      CallRejectedNotification |-> <<"address">>,
      ConnectionError          |-> <<"address">>,
      CallHangup               |-> <<"address">>,
      CallEndedNotification    |-> <<"address">>,
      RoomJoinRequest          |-> <<"address">>,
      RoomStateNotification    |-> <<"address", "count">>,
      RoomLeaveRequest         |-> <<"address">>,
      RoomGroupAudio           |-> <<"address", "byte", "rest">>,
      ActiveSpeakerNotice      |-> <<"address", "addresses">>,
      Ping                     |-> <<"time">>,
      Pong                     |-> <<"time">>,
      VideoFrameData           |-> <<"address", "byte", "rest">>,
      RoomGroupAudioE2EE       |-> <<"address", "byte", "byte", "rest">>,
      BroadcastAudio           |-> <<"id", "rest">> ]

Kind == DOMAIN Layout

Tag ==
    [ ClientAssignment |-> 1, ClientTargetedAudio |-> 2, ServerTargetedAudio |-> 3,
      PeerTargetedAudio |-> 4, CallRequest |-> 5, CallAcceptResponse |-> 6,
      CallRejectResponse |-> 7, CallAcceptedNotification |-> 8,
      CallRejectedNotification |-> 9, ConnectionError |-> 10, CallHangup |-> 11,
      CallEndedNotification |-> 12, RoomJoinRequest |-> 13,
      RoomStateNotification |-> 14, RoomLeaveRequest |-> 15, RoomGroupAudio |-> 16,
      ActiveSpeakerNotice |-> 17, Ping |-> 18, Pong |-> 19, VideoFrameData |-> 20,
      RoomGroupAudioE2EE |-> 21, BroadcastAudio |-> 0 ]

Width ==
    [ id |-> LEN_CLIENT_ID, time |-> LEN_TIMESTAMP, count |-> LEN_PARTICIPANT_COUNT,
      address |-> LEN_USER_ADDR, byte |-> 1 ]

\* Mutant: the number is written with put_u64.
BigEndian(n, width) ==
    [i \in 1 .. width |-> (n \div Cardinality(Byte) ^ (width - i)) % Cardinality(Byte)]

\* put_u64_le, put_u32_le, and back.
LittleEndian(n, width) ==
    [i \in 1 .. width |-> (n \div Cardinality(Byte) ^ (i - 1)) % Cardinality(Byte)]

FromLittleEndian(bytes) ==
    FoldLeftDomain(LAMBDA sum, i : sum + bytes[i] * Cardinality(Byte) ^ (i - 1), 0, bytes)

EncodeField(type, v) ==
    CASE type \in {"id", "time", "count"} -> LittleEndian(v, Width[type])
      [] type = "address"   -> ToBytes(v)
      [] type = "byte"      -> <<v>>
      [] type = "rest"      -> v
      [] type = "addresses" -> FlattenSeq([i \in DOMAIN v |-> ToBytes(v[i])])

Encode(p) ==
    <<Tag[p.kind]>>
      \o FlattenSeq([i \in DOMAIN p.vals |-> EncodeField(Layout[p.kind][i], p.vals[i])])

-----------------------------------------------------------------------------
\* Decoding.

Error(e) == [kind |-> "Error", vals |-> <<e>>]
Panic == [kind |-> "Panic", vals |-> << >>]
Packet(kind, vals) == [kind |-> kind, vals |-> vals]

DecodeField(type, bytes) ==
    CASE type \in {"id", "time", "count"} -> FromLittleEndian(bytes)
      [] type = "address" -> FromBytes(bytes)
      [] type = "byte"    -> bytes[1]

\* while buf.remaining() >= LEN_USER_ADDR: a remainder is dropped.
ReadAddresses(buf) ==
    [i \in 1 .. Len(buf) \div LEN_USER_ADDR |->
       FromBytes(SubSeq(buf, (i - 1) * LEN_USER_ADDR + 1, i * LEN_USER_ADDR))]

ReadField(acc, type) ==
    CASE type = "rest" ->
           [acc EXCEPT !.buf = << >>, !.vals = Append(@, acc.buf)]
      [] type = "addresses" ->
           [acc EXCEPT !.buf = << >>, !.vals = Append(@, ReadAddresses(acc.buf))]
      [] type \in DOMAIN Width /\ Len(acc.buf) < Width[type] ->
           [acc EXCEPT !.panic = TRUE]
      [] OTHER ->
           [acc EXCEPT !.buf  = SubSeq(@, Width[type] + 1, Len(@)),
                       !.vals = Append(@, DecodeField(type, SubSeq(acc.buf, 1, Width[type])))]

\* The fields of data after its type byte.
Read(data, types) ==
    FoldLeft(ReadField, [buf |-> Tail(data), vals |-> << >>, panic |-> FALSE], types)

\* Mutant: the hop count is left out.
MinLenWithoutTtl == 1 + 2 * LEN_CLIENT_ID + 2 * LEN_USER_ADDR + 1

MIN_LEN_PEER_TARGETED_AUDIO == 1 + 2 * LEN_CLIENT_ID + 2 * LEN_USER_ADDR + 1 + 1

\* The MIN_LEN_ constants; a packet of addresses needs one.
MinLen ==
    LET a == LEN_USER_ADDR
        c == LEN_CLIENT_ID
    IN  [k \in Kind |->
           CASE k \in {"ClientAssignment", "BroadcastAudio"} -> 1 + c
             [] k \in {"ClientTargetedAudio", "RoomGroupAudio", "VideoFrameData"} -> 1 + a + 1
             [] k = "ServerTargetedAudio"   -> 1 + a + c + a + 1
             [] k = "PeerTargetedAudio"     -> MIN_LEN_PEER_TARGETED_AUDIO
             [] k = "CallRequest"           -> 1 + c + a
             [] k = "RoomStateNotification" -> 1 + a + LEN_PARTICIPANT_COUNT
             [] k \in {"Ping", "Pong"}      -> 1 + LEN_TIMESTAMP
             [] k = "RoomGroupAudioE2EE"    -> 1 + a + 1 + 1
             [] OTHER                       -> 1 + a]

FULL_LEN_CLIENT_ASSIGNMENT == 1 + LEN_CLIENT_ID + LEN_USER_ADDR

\* Kinds whose payload is limited when it is decoded.
Limited == {"ClientTargetedAudio", "ServerTargetedAudio", "PeerTargetedAudio",
            "RoomGroupAudio", "RoomGroupAudioE2EE"}

\* What the fields read from data make of it.
Result(kind, r) ==
    CASE r.panic -> Panic
      [] ~r.panic /\ kind \in Limited /\ Len(Last(r.vals)) > MAX_AUDIO_PAYLOAD_SIZE ->
           Error("AudioPayloadTooLarge")
      [] ~r.panic /\ kind = "ActiveSpeakerNotice"
            /\ Len(Last(r.vals)) > MAX_SPEAKER_ADDRESSES ->
           Error("TooManySpeakers")
      [] OTHER -> Packet(kind, r.vals)

\* Every decode_ function but the two below: a length check, then the fields.
DecodeAs(kind, data) ==
    IF Len(data) < MinLen[kind] THEN Error("InsufficientLength")
                                ELSE Result(kind, Read(data, Layout[kind]))

\* decode_client_assignment: the length tells the legacy packets apart.
DecodeClientAssignment(data) ==
    LET short == Read(data, <<"id">>)
    IN  CASE Len(data) < MinLen.ClientAssignment -> Error("InsufficientLength")
          [] Len(data) >= FULL_LEN_CLIENT_ASSIGNMENT -> DecodeAs("ClientAssignment", data)
          [] OTHER -> IF data[1] = 0
                        THEN DecodeAs("BroadcastAudio", data)
                        ELSE Result("ClientAssignment",
                                    [short EXCEPT !.vals = Append(@, Fresh)])

\* Mutant: an audio packet of the least length counts as a short one.
ServerAudioLonger(data) ==
    LET short == Read(data, <<"address", "rest">>)
    IN  CASE Len(data) < MinLen.ClientTargetedAudio -> Error("InsufficientLength")
          [] Len(data) > MinLen.ServerTargetedAudio -> DecodeAs("ServerTargetedAudio", data)
          [] OTHER -> Result("ClientTargetedAudio",
                             [short EXCEPT !.vals = <<@[1], CODEC_OPUS, @[2]>>])

\* decode_server_targeted_audio: a short one has neither sender nor codec.
DecodeServerTargetedAudio(data) ==
    LET short == Read(data, <<"address", "rest">>)
    IN  CASE Len(data) < MinLen.ClientTargetedAudio -> Error("InsufficientLength")
          [] Len(data) >= MinLen.ServerTargetedAudio -> DecodeAs("ServerTargetedAudio", data)
          [] OTHER -> Result("ClientTargetedAudio",
                             [short EXCEPT !.vals = <<@[1], CODEC_OPUS, @[2]>>])

Decode(data) ==
    IF data = << >> THEN Error("EmptyPacket")
    ELSE LET tag == data[1]
         IN  CASE Len(data) > MAX_PACKET_SIZE -> Error("PacketTooLarge")
               [] Len(data) <= MAX_PACKET_SIZE /\ tag \in {0, 1} -> DecodeClientAssignment(data)
               [] Len(data) <= MAX_PACKET_SIZE /\ tag = 3 -> DecodeServerTargetedAudio(data)
               [] Len(data) <= MAX_PACKET_SIZE /\ tag = 255 -> DecodeAs("ConnectionError", data)
               [] Len(data) <= MAX_PACKET_SIZE /\ tag \in 4 .. 21 \cup {2} ->
                    DecodeAs(CHOOSE k \in Kind : Tag[k] = tag, data)
               [] OTHER -> Error("UnknownPacketType")

-----------------------------------------------------------------------------
\* The channel.

VARIABLES
    sent,       \* the packet that was sent, None if it came from elsewhere
    wire,       \* its bytes, None if there are none
    got         \* what the receiver made of them

codecVars == <<sent, wire, got>>

CodecInit == sent = None /\ wire = None /\ got = None

Send(p) ==
    /\ wire = None
    /\ sent' = p /\ wire' = Encode(p)
    /\ UNCHANGED got

\* start_call puts the typed key into the packet as it is.
StartCall(key) ==
    /\ Len(key) >= MinShortId
    /\ Send(Packet("ClientTargetedAudio", <<key, CODEC_OPUS, << >>>>))

\* Bytes from another version of the program.
SendRaw(data) ==
    /\ wire = None
    /\ wire' = data
    /\ UNCHANGED <<sent, got>>

Receive ==
    /\ wire # None /\ got = None
    /\ got' = Decode(wire)
    /\ UNCHANGED <<sent, wire>>

\* The packets of a kind with fields from the samples.
Packets(kind) ==
    LET Extend(some, type) == {Append(v, x) : v \in some, x \in Sample[type]}
    IN  {Packet(kind, v) : v \in FoldLeft(Extend, {<< >>}, Layout[kind])}

CodecNext ==
    \/ \E data \in Raw : SendRaw(data)
    \/ \E key \in Typed : StartCall(key)
    \/ \E kind \in Kind : \E p \in Packets(kind) : Send(p)
    \/ Receive

CodecSpec == CodecInit /\ [][CodecNext]_codecVars

-----------------------------------------------------------------------------
\* Properties.

\* Whatever arrives, no decode_ function takes more from its buffer than its
\* length check has made sure of: decode returns and never panics.
NeverPanics == got # None => got # Panic

\* All addresses of a packet are whole ones, and its lists within the limits.
Regular(p) ==
    LET t == Layout[p.kind]
        Whole(a) == Len(a) = Digits /\ IsHex(a)
        n == IF t[Len(t)] \in {"rest", "addresses"} THEN Len(Last(p.vals)) ELSE 0
    IN  /\ \A i \in DOMAIN t : t[i] = "address" => Whole(p.vals[i])
        /\ t[Len(t)] = "addresses" => \A i \in 1 .. n : Whole(Last(p.vals)[i])
        /\ p.kind \in Limited => n <= MAX_AUDIO_PAYLOAD_SIZE
        /\ p.kind = "ActiveSpeakerNotice" => n <= MAX_SPEAKER_ADDRESSES
        /\ p.kind = "BroadcastAudio" => n < LEN_USER_ADDR
        /\ Len(Encode(p)) <= MAX_PACKET_SIZE

\* decode is the inverse of encode: a packet of whole addresses within the
\* limits arrives as it was sent.  Broadcast audio as long as an address is
\* left out: decode takes it for a client assignment.
RoundTrip ==
    sent # None /\ got # None =>
        (Regular(sent) => got.kind = sent.kind /\ got.vals = sent.vals)

\* Every packet that decode returns, from whatever bytes, legacy forms
\* included, is one that encode can write: its bytes decode to it again.
DecodedIsStable ==
    got # None /\ got.kind \in Kind =>
        LET again == Decode(Encode(got))
        IN  again.kind = got.kind /\ again.vals = got.vals

\* A short ID of whole bytes whose last digit is not zero is found on the other
\* side of the wire, where it is padded with zeros, as it would be in its typed
\* form: to_bytes, from_bytes and matches_short_id_prefix together lose nothing.
ShortIdFinds ==
    sent # None /\ got # None /\ sent.kind = "ClientTargetedAudio" /\ got.kind = sent.kind =>
        LET key == sent.vals[1]
        IN  IsHex(key) /\ Len(key) \in MinShortId .. Digits - 1 /\ Last(key) # 0 =>
                Resolve(got.vals[1]) = Resolve(key)
=============================================================================
