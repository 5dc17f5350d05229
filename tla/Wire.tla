--------------------------------- MODULE Wire ---------------------------------
(***************************************************************************)
(* The wire protocol (common/src/protocol.rs).  A datagram is a sequence   *)
(* of bytes: the type, the fields of its kind of packet in big-endian      *)
(* order, and a body for the two kinds that have one.  A number that does  *)
(* not fit its field loses its high digits, as the `as` casts do.          *)
(*                                                                         *)
(* ByteBase is 256 in the code.  The JSON text of a StatsPacket is opaque: *)
(* Jsons are the texts serde_json accepts.                                 *)
(***************************************************************************)
EXTENDS Integers, SequencesExt

CONSTANTS ByteBase, Jsons, NoPacket      \* NoPacket: the None of Option<Packet>

ASSUME WireAssumption == ByteBase \in Nat /\ ByteBase > 6

Byte == 0 .. ByteBase - 1

ASSUME NoPacketAssumption == NoPacket \notin Seq(Byte)

\* The message types, MSG_DATA to MSG_PROBE.
MessageType == [Data |-> 1, Announce |-> 2, Ack |-> 3, Stats |-> 4, Keepalive |-> 5, Probe |-> 6]

Kind == DOMAIN MessageType

\* Mutant of LengthWidth: the length of a body is written in one byte.
OneByte == 1

\* payload_len, and the length of a JSON text, are u16.
LengthWidth == 2

\* The fields of a kind of packet with their widths in bytes, in the order of the wire.
Layout(kind) ==
    CASE kind = "Data" -> <<<<"chunk_id", 8>>, <<"link_id", 1>>, <<"total_size", 4>>,
                            <<"offset", 4>>, <<"payload_len", LengthWidth>>>>
      [] kind = "Announce" -> <<<<"chunk_id", 8>>, <<"link_id", 1>>, <<"expected_size", 4>>,
                                <<"timestamp_us", 8>>>>
      [] kind = "Ack" -> <<<<"chunk_id", 8>>, <<"link_id", 1>>, <<"echo_timestamp_us", 8>>,
                           <<"recv_timestamp_us", 8>>>>
      [] kind = "Stats" -> <<<<"json_len", LengthWidth>>>>
      [] kind = "Keepalive" -> <<<<"link_id", 1>>, <<"timestamp_us", 8>>>>
      [] kind = "Probe" -> <<<<"link_id", 1>>, <<"seq", 4>>, <<"timestamp_us", 8>>,
                             <<"echo_timestamp_us", 8>>, <<"tx_bytes", 8>>, <<"tx_packets", 4>>,
                             <<"rx_bytes", 8>>, <<"rx_packets", 4>>, <<"loss_ratio", 1>>,
                             <<"path_state", 1>>, <<"reserved", 3>>>>

WidthOf(fields) == SumFunction([i \in DOMAIN fields |-> fields[i][2]])

\* CHUNK_HEADER_SIZE, ANNOUNCE_HEADER_SIZE and the packets' SIZE
HeaderSize(kind) == 1 + WidthOf(Layout(kind))

\* The value of the digit with k digits behind it
Place[k \in Nat] == IF k = 0 THEN 1 ELSE ByteBase * Place[k - 1]

\* u8, u32 and u64, by their widths in bytes
Unsigned(width) == 0 .. Place[width] - 1

\* to_be_bytes of a number cast to its field's width, and from_be_bytes
ToBytes(n, width) == [i \in 1 .. width |-> (n \div Place[width - i]) % ByteBase]
FromBytes(bytes) == SumFunction([i \in DOMAIN bytes |-> bytes[i] * Place[Len(bytes) - i]])

States == <<"Running", "Lossy", "Down", "Probing">>

\* PathState as u8, and from_u8: an unknown state is taken for Running.
StateCode(state) == (CHOOSE i \in DOMAIN States : States[i] = state) - 1
StateOf(code) == IF code < Len(States) THEN States[code + 1] ELSE "Running"

ProbePacket ==
    [kind : {"Probe"}, link_id : Byte, seq : Unsigned(4),
     timestamp_us : Unsigned(8), echo_timestamp_us : Unsigned(8),
     tx_bytes : Unsigned(8), tx_packets : Unsigned(4),
     rx_bytes : Unsigned(8), rx_packets : Unsigned(4),
     loss_ratio : Byte, path_state : Range(States)]

\* The body of a packet, and the number an encoder writes into a field.
Body(p) ==
    CASE p.kind = "Data" -> p.payload [] p.kind = "Stats" -> p.json [] OTHER -> <<>>

Number(p, field) ==
    CASE field \in {"payload_len", "json_len"} -> Len(Body(p))
      [] field = "path_state" -> StateCode(p.path_state)
      [] field = "reserved" -> 0
      [] OTHER -> p[field]

\* The encoders
Encode(p) ==
    LET fields == [i \in DOMAIN Layout(p.kind) |->
                      ToBytes(Number(p, Layout(p.kind)[i][1]), Layout(p.kind)[i][2])]
    IN <<MessageType[p.kind]>> \o FlattenSeq(fields) \o Body(p)

\* The i-th field of a datagram of the given kind
FieldAt(buf, kind, i) ==
    LET from == 1 + WidthOf(SubSeq(Layout(kind), 1, i - 1))
    IN FromBytes(SubSeq(buf, from + 1, from + Layout(kind)[i][2]))

FieldOf(buf, kind, field) ==
    FieldAt(buf, kind, CHOOSE i \in DOMAIN Layout(kind) : Layout(kind)[i][1] = field)

\* What is behind the header of a datagram with a body: as many bytes as its
\* length field says, if there are so many.
BodyOf(buf, kind) ==
    LET length == FieldOf(buf, kind, IF kind = "Data" THEN "payload_len" ELSE "json_len")
    IN IF Len(buf) < HeaderSize(kind) + length THEN NoPacket
       ELSE SubSeq(buf, HeaderSize(kind) + 1, HeaderSize(kind) + length)

\* The fields a decoded packet keeps
Fields(kind) ==
    ({Layout(kind)[i][1] : i \in DOMAIN Layout(kind)} \ {"payload_len", "json_len", "reserved"})
        \cup (CASE kind = "Data" -> {"payload"} [] kind = "Stats" -> {"json"} [] OTHER -> {})

\* The decoders of the kinds of packets, for a datagram of that type
DecodeAs(buf, kind) ==
    LET value(f) ==
            CASE f = "kind" -> kind
              [] f \in {"payload", "json"} -> BodyOf(buf, kind)
              [] f = "path_state" -> StateOf(FieldOf(buf, kind, f))
              [] OTHER -> FieldOf(buf, kind, f)
        accepted ==
            CASE kind = "Data" -> BodyOf(buf, kind) # NoPacket
              [] kind = "Stats" -> Len(buf) >= 4 /\ BodyOf(buf, kind) \in Jsons
              [] OTHER -> TRUE
    IN IF Len(buf) >= HeaderSize(kind) /\ accepted
         THEN [f \in Fields(kind) \cup {"kind"} |-> value(f)] ELSE NoPacket

\* Packet::decode
Decode(buf) ==
    IF buf = <<>> \/ Head(buf) \notin {MessageType[k] : k \in Kind} THEN NoPacket
    ELSE DecodeAs(buf, CHOOSE k \in Kind : MessageType[k] = Head(buf))
===============================================================================
