----------------------------- MODULE TelemetryMC -----------------------------
(***************************************************************************)
(* Telemetry with a few events: packets of the TUN interface, datagrams    *)
(* sent and datagrams received.  The history variables hold what happened, *)
(* which the collectors know only when it has been recorded, and what they *)
(* have reported and no longer hold.                                       *)
(***************************************************************************)
EXTENDS Telemetry

CONSTANTS MaxEvents, MaxAge      \* bounds

\* Chunks are numbered by a u64.
ASSUME EventsAssumption == MaxEvents \in Unsigned(8)

VARIABLES
    happened,         \* the counters as they were if events counted at once
    forgotten,        \* the snapshots the history no longer holds, summed up
    handed,           \* per link, the bytes of chunks the socket took
    reported,         \* per link, the bytes that the bandwidths of closed windows stand for
    rounded,          \* per link, the bytes that are lost in rounding them
    samples           \* per link, the RTT samples

ghosts == <<happened, forgotten, handed, reported, rounded, samples>>
mcvars == <<telemetryVars, ghosts>>

MCLinks == {0, 1}
Payload(n) == [i \in 1 .. n |-> i % ByteBase]

\* The longest chunk that fits into a datagram, and one whose length does not fit into
\* two bytes.  The ages of windows, 2 and 3, leave a remainder of the datagram's length.
MCPayloads == {Payload(59), Payload(Place[2])}

\* An acknowledgement as protocol.rs describes it, which the endpoints do not send:
\* theirs echo no time.
EchoingAck(echo) == [AckOf(0, 3, 5) EXCEPT !.echo_timestamp_us = echo]

\* Datagrams of a remote endpoint of this program, two that were cut short, and
\* one that is none of its packets
MCDatagrams ==
    LET data == Encode(DataOf(0, 3, Payload(2)))
        ack(echo) == Encode(EchoingAck(echo))
    IN {data, ack(0), ack(2), ack(5), ack(7), SubSeq(data, 1, 21), SubSeq(ack(2), 1, 9), <<0>>}

MCProbe(state) ==
    [kind |-> "Probe", link_id |-> 1, seq |-> 9, timestamp_us |-> 70, echo_timestamp_us |-> 0,
     tx_bytes |-> 600, tx_packets |-> 10, rx_bytes |-> 500, rx_packets |-> 9,
     loss_ratio |-> 7, path_state |-> state]

MCProbes == {MCProbe(state) : state \in {"Running", "Lossy", "Down", "Probing"}}

MCTimes == {6}

NoBytes == [l \in Links |-> 0]

MCInit ==
    /\ TelemetryInit
    /\ happened = ZeroCounters /\ forgotten = ZeroCounters
    /\ handed = NoBytes /\ reported = NoBytes /\ rounded = NoBytes
    /\ samples = [l \in Links |-> {}]

Plus(cs, ds) == [c \in Counter |-> cs[c] + ds[c]]
Events == happened["packets_sent"] + happened["packets_received"] + happened["chunks_sent"]
              + happened["chunks_received"]

Happens(recorder, bytes) ==
    /\ Events < MaxEvents
    /\ happened' = Advanced(happened, recorder, bytes)

MCForwardPacket(bytes) ==
    /\ ForwardPacket(bytes)
    /\ Happens("record_packet_tx", bytes)
    /\ UNCHANGED <<forgotten, handed, reported, rounded, samples>>

MCWritePacket(bytes) ==
    /\ WritePacket(bytes)
    /\ Happens("record_packet_rx", bytes)
    /\ UNCHANGED <<forgotten, handed, reported, rounded, samples>>

MCSendChunk(l, payload) ==
    /\ Happens("record_chunk_tx", Len(payload))
    /\ SendChunk(l, Events, payload)
    /\ handed' = [handed EXCEPT ![l] = @ + Len(sent'.datagram)]
    /\ UNCHANGED <<forgotten, reported, rounded, samples>>

\* Chunks arrive on one link and acknowledgements on the other.
MCReceiveData(l, buf) ==
    /\ l = 1
    /\ ReceiveData(l, buf)
    /\ Happens("record_chunk_rx", Len(Decoded[buf].payload))
    /\ UNCHANGED <<forgotten, handed, reported, rounded, samples>>

MCReceiveAck(l, buf, now) ==
    /\ l = 0
    /\ ReceiveAck(l, buf, now)
    /\ samples' = [samples EXCEPT ![l] = @ \cup {now - Decoded[buf].echo_timestamp_us}]
    /\ UNCHANGED <<happened, forgotten, handed, reported, rounded>>

MCCloseWindows ==
    /\ CloseWindows
    /\ IF elapsed < Window THEN UNCHANGED <<reported, rounded>>
       ELSE /\ reported' = [l \in Links |-> reported[l] + stats'[l].bandwidth_bps * elapsed]
            /\ rounded' = [l \in Links |-> rounded[l] + (stats[l].tx_bytes % elapsed)]
    /\ UNCHANGED <<happened, forgotten, handed, samples>>

MCStoreMetrics ==
    /\ StoreMetrics
    /\ forgotten' = IF Len(history) < MaxHistory THEN forgotten
                    ELSE Plus(forgotten, Head(history))
    /\ UNCHANGED <<happened, handed, reported, rounded, samples>>

MCClockTicks == elapsed < MaxAge /\ ClockTicks /\ UNCHANGED ghosts

\* Keepalives and probes, which neither read nor change what is recorded, are sent
\* before anything else happens.
Unobserved ==
    \/ \E t \in Task : RecordStats(t) \/ RecordMetrics(t)
    \/ \E l \in Links, now \in Times : Acknowledge(l, now)
    \/ /\ happened = ZeroCounters
       /\ \/ \E l \in Links, now \in Times : SendKeepalive(l, now)
          \/ \E probe \in Probes : SendProbe(probe)
    \/ TakeMetrics

MCNext ==
    \/ \E bytes \in PacketSizes : MCForwardPacket(bytes) \/ MCWritePacket(bytes)
    \/ \E l \in Links, payload \in Payloads : MCSendChunk(l, payload)
    \/ \E l \in Links, buf \in Datagrams : MCReceiveData(l, buf)
    \/ \E l \in Links, buf \in Datagrams, now \in Times : MCReceiveAck(l, buf, now)
    \/ MCCloseWindows \/ MCStoreMetrics \/ MCClockTicks
    \/ Unobserved /\ UNCHANGED ghosts

\* Every task that has something to record goes on, the statistics task runs every
\* second, and time passes.
FairSpec ==
    /\ MCInit /\ [][MCNext]_mcvars
    /\ \A t \in Task : WF_mcvars((RecordStats(t) \/ RecordMetrics(t)) /\ UNCHANGED ghosts)
    /\ WF_mcvars(MCCloseWindows)
    /\ WF_mcvars(TakeMetrics /\ UNCHANGED ghosts) /\ WF_mcvars(MCStoreMetrics)
    /\ WF_mcvars(MCClockTicks)

-----------------------------------------------------------------------------
(* Properties *)

\* The bytes of a link's chunks that the chunk sender has sent and not recorded
Unrecorded(l) ==
    SumFunction([i \in DOMAIN todo[ChunkSender] |->
        LET step == todo[ChunkSender][i]
        IN IF step.do = "record_tx" /\ step.link = l THEN step.bytes ELSE 0])

\* Every byte a socket took for a chunk is in exactly one window of its link, whenever
\* the statistics task closes the windows: sent is what closed windows reported and
\* lost by rounding, what the open one holds, and what the sender is about to record.
WindowsAddUp ==
    \A l \in Links :
        handed[l] = reported[l] + rounded[l] + stats[l].tx_bytes + Unrecorded(l)

\* The counters that a step advances, and those that the tasks are about to advance
Advances(step) ==
    IF step.do \in Recorder THEN Advanced(ZeroCounters, step.do, step.bytes) ELSE ZeroCounters

UnrecordedCounters ==
    [c \in Counter |->
        SumFunction([t \in Task |->
            SumFunction([i \in DOMAIN todo[t] |-> Advances(todo[t][i])[c]])])]

\* The snapshots that the history holds, summed up
Remembered == [c \in Counter |-> SumFunction([i \in DOMAIN history |-> history[i][c]])]

\* Every packet and chunk is counted in exactly one snapshot, although recorders run
\* between the two locks of snapshot: what happened is what snapshots report, what the
\* counters hold, and what the tasks are about to record.
MetricsAddUp ==
    LET between == IF taken = NoSnapshot THEN ZeroCounters ELSE taken
    IN \A c \in Counter :
          happened[c] = UnrecordedCounters[c] + counters[c] + between[c]
                            + Remembered[c] + forgotten[c]

\* A smoothed RTT lies between the least and the greatest sample of its link, from the
\* first sample on.
RttWithinSamples ==
    \A l \in Links : samples[l] # {} =>
        /\ \E s \in samples[l] : s <= stats[l].smoothed_rtt_us
        /\ \E s \in samples[l] : s >= stats[l].smoothed_rtt_us

\* What a socket took for a chunk is reported by windows in the end, up to what they lose
\* by rounding, however the ticks of the statistics task and the windows' age interleave.
SentIsReported ==
    \A l \in Links : handed[l] >= MaxDatagram ~> reported[l] + rounded[l] >= MaxDatagram
===============================================================================
