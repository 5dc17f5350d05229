------------------------------- MODULE Telemetry -------------------------------
(***************************************************************************)
(* What one endpoint sends, receives and counts (client/src/main.rs and    *)
(* server/src/main.rs): the datagrams of Wire, the statistics of LinkStats *)
(* and the metrics of Metrics, and the tasks that record in both.  A task  *)
(* does something, such as handing a datagram to its socket, and records it*)
(* afterwards, in one collector after the other; the statistics task closes*)
(* windows and takes snapshots in between.                                 *)
(*                                                                         *)
(* Which link the scheduler picks is any link, and the packets of a chunk  *)
(* are what Tunnel is about: here chunks and packets are lengths.  The     *)
(* probes' fields are the rate controller's business.                      *)
(***************************************************************************)
EXTENDS Wire, LinkStats, Metrics

CONSTANTS
    MaxDatagram,      \* the longest datagram UDP takes, 65,507 over IPv4
    NothingSent,
    Payloads,         \* of the chunks to send
    PacketSizes,      \* of the packets of the TUN interface
    Datagrams,        \* what may arrive on a link
    Probes,           \* what the rate controller builds
    Times             \* the clock's microseconds

\* No datagram UDP takes carries a payload whose length does not fit in two bytes.
ASSUME DatagramAssumption ==
    /\ MaxDatagram \in Nat /\ MaxDatagram < 20 + Place[2]
    /\ Links \subseteq Byte
    /\ Payloads \cup Datagrams \subseteq Seq(Byte)
    /\ Probes \subseteq ProbePacket
    /\ PacketSizes \subseteq Nat /\ Times \subseteq Unsigned(8)
    /\ NoSnapshot \notin RawCounters

VARIABLES
    todo,             \* what each task still has to do about its last datagram or packet
    round,            \* what the statistics task does next
    sent              \* the packet and the datagram of this step, or NothingSent

telemetryVars == <<statsVars, metricsVars, todo, round, sent>>

\* One receiver task per link; the aggregation timer records nothing.
TunReader == <<"tun_reader">>
TunWriter == <<"tun_writer">>
ChunkSender == <<"chunk_sender">>
Receiver(l) == <<"receiver", l>>

Task == {TunReader, TunWriter, ChunkSender} \cup {Receiver(l) : l \in Links}

RoundSteps == {"tick", "take", "store"}

TelemetryInit ==
    /\ StatsInit /\ MetricsInit
    /\ todo = [t \in Task |-> <<>>]
    /\ round = "tick"
    /\ sent = NothingSent

Idle(t) == todo[t] = <<>>

\* socket.send: the datagram is taken if it is not too long.
Sends(p) ==
    /\ Len(Encode(p)) <= MaxDatagram
    /\ sent' = [packet |-> p, datagram |-> Encode(p)]

-----------------------------------------------------------------------------
(* The tasks that record *)

\* What a task is about to do
Todo(t, steps) == todo' = [todo EXCEPT ![t] = steps]

\* The TUN reader has read a packet and given it to the aggregator.
ForwardPacket(bytes) ==
    /\ Idle(TunReader)
    /\ Todo(TunReader, <<[do |-> "record_packet_tx", bytes |-> bytes]>>)
    /\ sent' = NothingSent
    /\ UNCHANGED <<statsVars, metricsVars, round>>

\* The TUN writer has written a packet of a received chunk.
WritePacket(bytes) ==
    /\ Idle(TunWriter)
    /\ Todo(TunWriter, <<[do |-> "record_packet_rx", bytes |-> bytes]>>)
    /\ sent' = NothingSent
    /\ UNCHANGED <<statsVars, metricsVars, round>>

\* The packet that carries a chunk
DataOf(l, id, payload) ==
    [kind |-> "Data", chunk_id |-> id, link_id |-> l, total_size |-> Len(payload),
     offset |-> 0, payload |-> payload]

\* The chunk sender sends a chunk on link l.  A send that fails, or for which the
\* server knows no address, is not recorded and changes nothing here.
SendChunk(l, id, payload) ==
    LET p == DataOf(l, id, payload)
    IN /\ Idle(ChunkSender)
       /\ Sends(p)
       /\ Todo(ChunkSender, <<[do |-> "record_tx", link |-> l, bytes |-> Len(Encode(p))],
                              [do |-> "record_chunk_tx", bytes |-> Len(payload)]>>)
       /\ UNCHANGED <<statsVars, metricsVars, round>>

\* The acknowledgement of a chunk
AckOf(l, id, now) ==
    [kind |-> "Ack", chunk_id |-> id, link_id |-> l,
     echo_timestamp_us |-> 0, recv_timestamp_us |-> now]

\* What Packet::decode makes of the datagrams that may arrive
Decoded == [buf \in Datagrams |-> Decode(buf)]

\* The receiver of link l gets a datagram at time now.  Announcements and probes go
\* to other components, and what does not decode is ignored.
ReceiveData(l, buf) ==
    LET p == Decoded[buf]
    IN /\ Idle(Receiver(l))
       /\ p # NoPacket /\ p.kind = "Data"
       /\ Todo(Receiver(l), <<[do |-> "record_rx", link |-> l, bytes |-> Len(buf)],
                              [do |-> "record_chunk_rx", bytes |-> Len(p.payload)],
                              [do |-> "acknowledge", chunk_id |-> p.chunk_id]>>)
       /\ sent' = NothingSent
       /\ UNCHANGED <<statsVars, metricsVars, round>>

ReceiveAck(l, buf, now) ==
    LET p == Decoded[buf]
    IN /\ Idle(Receiver(l))
       /\ p # NoPacket /\ p.kind = "Ack"
       /\ p.echo_timestamp_us > 0 /\ now > p.echo_timestamp_us
       /\ RecordRtt(l, now - p.echo_timestamp_us)
       /\ sent' = NothingSent
       /\ UNCHANGED <<metricsVars, todo, round>>

-----------------------------------------------------------------------------
(* Recording *)

Due(t) == Head(todo[t])
Finish(t) == todo' = [todo EXCEPT ![t] = Tail(@)]

RecordStats(t) ==
    /\ ~Idle(t)
    /\ \/ Due(t).do = "record_tx" /\ RecordTx(Due(t).link, Due(t).bytes)
       \/ Due(t).do = "record_rx" /\ RecordRx(Due(t).link, Due(t).bytes)
    /\ Finish(t)
    /\ sent' = NothingSent
    /\ UNCHANGED <<metricsVars, round>>

RecordMetrics(t) ==
    /\ ~Idle(t)
    /\ Due(t).do \in Recorder
    /\ Record(Due(t).do, Due(t).bytes)
    /\ Finish(t)
    /\ sent' = NothingSent
    /\ UNCHANGED <<statsVars, round>>

\* The receiver has given the chunk to the TUN writer and sends the acknowledgement;
\* whether that succeeds is ignored.
Acknowledge(l, now) ==
    /\ ~Idle(Receiver(l))
    /\ Due(Receiver(l)).do = "acknowledge"
    /\ Sends(AckOf(l, Due(Receiver(l)).chunk_id, now)) \/ sent' = NothingSent
    /\ Finish(Receiver(l))
    /\ UNCHANGED <<statsVars, metricsVars, round>>

\* The keepalive task and the probe sender, which record nothing.
SendKeepalive(l, now) ==
    /\ Sends([kind |-> "Keepalive", link_id |-> l, timestamp_us |-> now])
    /\ UNCHANGED <<statsVars, metricsVars, todo, round>>

SendProbe(probe) ==
    /\ Sends(probe)
    /\ UNCHANGED <<statsVars, metricsVars, todo, round>>

-----------------------------------------------------------------------------
(* The statistics task *)

Continue(from, to) == round = from /\ round' = to

CloseWindows ==
    /\ Continue("tick", "take")
    /\ StatsTick
    /\ sent' = NothingSent
    /\ UNCHANGED <<metricsVars, todo>>

\* The collector's lock is taken again to read bandwidths and RTTs for the scheduler and
\* the aggregator, which Endpoint and Tunnel model.
TakeMetrics ==
    /\ Continue("take", "store")
    /\ TakeCounters
    /\ sent' = NothingSent
    /\ UNCHANGED <<statsVars, todo>>

StoreMetrics ==
    /\ Continue("store", "tick")
    /\ StoreSnapshot
    /\ sent' = NothingSent
    /\ UNCHANGED <<statsVars, todo>>

ClockTicks ==
    /\ TimePasses
    /\ sent' = NothingSent
    /\ UNCHANGED <<metricsVars, todo, round>>

TelemetryNext ==
    \/ \E bytes \in PacketSizes : ForwardPacket(bytes) \/ WritePacket(bytes)
    \/ \E l \in Links, id \in Unsigned(8), payload \in Payloads : SendChunk(l, id, payload)
    \/ \E l \in Links, buf \in Datagrams : ReceiveData(l, buf)
    \/ \E l \in Links, buf \in Datagrams, now \in Times : ReceiveAck(l, buf, now)
    \/ \E t \in Task : RecordStats(t) \/ RecordMetrics(t)
    \/ \E l \in Links, now \in Times : Acknowledge(l, now) \/ SendKeepalive(l, now)
    \/ \E probe \in Probes : SendProbe(probe)
    \/ CloseWindows \/ TakeMetrics \/ StoreMetrics
    \/ ClockTicks

TelemetrySpec == TelemetryInit /\ [][TelemetryNext]_telemetryVars

-----------------------------------------------------------------------------
(* Properties *)

Todos ==
    [do : {"record_tx", "record_rx"}, link : Links, bytes : Nat]
        \cup [do : Recorder, bytes : Nat] \cup [do : {"acknowledge"}, chunk_id : Unsigned(8)]

TelemetryTypeOK ==
    /\ stats \in [Links -> StatsOfLink] /\ elapsed \in Nat
    /\ counters \in RawCounters /\ taken \in RawCounters \cup {NoSnapshot}
    /\ history \in Seq(RawCounters) /\ Len(history) <= MaxHistory
    /\ todo \in [Task -> Seq(Todos)]
    /\ \A t \in Task : Len(todo[t]) <= 3
    /\ round \in RoundSteps /\ (round = "store" <=> taken # NoSnapshot)
    /\ sent = NothingSent \/ sent.datagram \in Seq(Byte)

\* The remote decodes every datagram a socket takes to the packet it was made from,
\* although the length of a payload is written in two bytes and a chunk may be longer:
\* a chunk whose length does not fit is not sent.
WhatIsSentDecodes == sent # NothingSent => Decode(sent.datagram) = sent.packet
===============================================================================
