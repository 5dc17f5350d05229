-------------------------------- MODULE Tunnel --------------------------------
(***************************************************************************)
(* The data path from one endpoint's TUN interface to the other's          *)
(* (client/src/main.rs; server/src/main.rs is the same but for the         *)
(* addresses it has to learn).  On the sending side the TUN reader and the *)
(* timer of the aggregator both take chunks out of the aggregator, give up *)
(* its lock and then wait for room in the channel of the chunk sender.  On *)
(* the receiving side one receiver per link waits for room in the channel  *)
(* of the TUN writer.  The links lose, repeat and reorder datagrams.       *)
(*                                                                         *)
(* Which link the scheduler picks is LinkScheduler's business; here it is  *)
(* any link.  The reassembly buffer is not on this path: the link receivers*)
(* hand their chunks to the TUN writer directly.                           *)
(***************************************************************************)
EXTENDS ChunkAggregator

CONSTANTS ChannelCapacity      \* 1000 in the code

ASSUME ChannelAssumption == ChannelCapacity \in Nat \ {0}

VARIABLES
    read,           \* packets read from the TUN interface so far
    reader,         \* the chunk the TUN reader waits to send, or NoChunk
    flusher,        \* the chunk the aggregation timer waits to send, or NoChunk
    to_links,       \* the channel to the chunk sender
    known,          \* links whose remote address is known
    wire,           \* datagrams in flight: a link and a chunk
    receiver,       \* the chunk each link receiver waits to send, or NoChunk
    from_links,     \* the channel to the TUN writer
    written         \* packets written to the remote TUN interface

sendSide == <<read, reader, flusher, to_links>>
receiveSide == <<receiver, from_links, written>>
tunnelVars == <<aggregatorVars, sendSide, known, wire, receiveSide>>

TunnelInit ==
    /\ AggregatorInit
    /\ read = 0 /\ reader = NoChunk /\ flusher = NoChunk /\ to_links = <<>>
    /\ known \in {{}, Links}       \* a server, or a client's connected sockets
    /\ wire = {}
    /\ receiver = [l \in Links |-> NoChunk]
    /\ from_links = <<>> /\ written = <<>>

\* Mutant of Room: off by one.
RoomForOneMore(channel) == Len(channel) <= ChannelCapacity

Room(channel) == Len(channel) < ChannelCapacity

-----------------------------------------------------------------------------
(* The sending side *)

\* The TUN reader reads a packet and adds it to the aggregator.
ReadPacket(size) ==
    /\ reader = NoChunk
    /\ read' = read + 1
    /\ AddPacket(read', size)
    /\ reader' = ChunkOfAdd(read', size)
    /\ UNCHANGED <<flusher, to_links, known, wire, receiveSide>>

ReaderSends ==
    /\ reader # NoChunk /\ Room(to_links)
    /\ to_links' = Append(to_links, reader)
    /\ reader' = NoChunk
    /\ UNCHANGED <<aggregatorVars, read, flusher, known, wire, receiveSide>>

\* The aggregation timer fires.
TimerFires ==
    /\ flusher = NoChunk
    /\ CheckTimeout
    /\ flusher' = ChunkOfTimeout
    /\ UNCHANGED <<read, reader, to_links, known, wire, receiveSide>>

\* Mutant of FlusherSends: it does not wait for room.
FlusherTriesToSend ==
    /\ flusher # NoChunk
    /\ to_links' = IF Room(to_links) THEN Append(to_links, flusher) ELSE to_links
    /\ flusher' = NoChunk
    /\ UNCHANGED <<aggregatorVars, read, reader, known, wire, receiveSide>>

FlusherSends ==
    /\ flusher # NoChunk /\ Room(to_links)
    /\ to_links' = Append(to_links, flusher)
    /\ flusher' = NoChunk
    /\ UNCHANGED <<aggregatorVars, read, reader, known, wire, receiveSide>>

\* The chunk sender sends the next chunk on link l, or fails to: the socket
\* refuses, or the server has not learned the link's address.  Then the chunk is gone.
SendChunk(l) ==
    /\ to_links # <<>>
    /\ to_links' = Tail(to_links)
    /\ \/ l \in known /\ wire' = wire \cup {[link |-> l, chunk |-> Head(to_links)]}
       \/ UNCHANGED wire
    /\ UNCHANGED <<aggregatorVars, read, reader, flusher, known, receiveSide>>

\* The statistics task.
UpdateChunkSize(l, bdp) ==
    /\ UpdateLinkStats(l, bdp)
    /\ UNCHANGED <<sendSide, known, wire, receiveSide>>

TimePasses ==
    /\ Expire
    /\ UNCHANGED <<sendSide, known, wire, receiveSide>>

\* The server receives a datagram of the client on link l.
LearnAddress(l) ==
    /\ known' = known \cup {l}
    /\ UNCHANGED <<aggregatorVars, sendSide, wire, receiveSide>>

-----------------------------------------------------------------------------
(* The links and the receiving side *)

Lose(m) ==
    /\ wire' = wire \ {m}
    /\ UNCHANGED <<aggregatorVars, sendSide, known, receiveSide>>

\* The receiver of a link takes a datagram; the network may hold another copy.
Receive(m) ==
    /\ receiver[m.link] = NoChunk
    /\ wire' \in {wire, wire \ {m}}
    /\ receiver' = [receiver EXCEPT ![m.link] = m.chunk]
    /\ UNCHANGED <<aggregatorVars, sendSide, known, from_links, written>>

ReceiverSends(l) ==
    /\ receiver[l] # NoChunk /\ Room(from_links)
    /\ from_links' = Append(from_links, receiver[l])
    /\ receiver' = [receiver EXCEPT ![l] = NoChunk]
    /\ UNCHANGED <<aggregatorVars, sendSide, known, wire, written>>

\* The TUN writer extracts the packets of a chunk and writes them.
WriteChunk ==
    /\ from_links # <<>>
    /\ written' = written \o Head(from_links).packets
    /\ from_links' = Tail(from_links)
    /\ UNCHANGED <<aggregatorVars, sendSide, known, wire, receiver>>

-----------------------------------------------------------------------------

TunnelNext ==
    \/ \E size \in Nat : ReadPacket(size)
    \/ ReaderSends \/ TimerFires \/ FlusherSends
    \/ \E l \in Links : SendChunk(l)
    \/ \E l \in Links, bdp \in Nat : UpdateChunkSize(l, bdp)
    \/ TimePasses
    \/ \E l \in Links : LearnAddress(l)
    \/ \E m \in wire : Lose(m) \/ Receive(m)
    \/ \E l \in Links : ReceiverSends(l)
    \/ WriteChunk

TunnelSpec == TunnelInit /\ [][TunnelNext]_tunnelVars

-----------------------------------------------------------------------------
(* Properties *)

\* Finished chunks that have not reached the chunk sender.
Waiting == ({reader, flusher} \ {NoChunk}) \cup Range(to_links)

\* The chunks of the sending side.
Held == Waiting \cup {current_chunk}

Chunk == [id : Nat, packets : Seq(Nat), size : Nat]

TunnelTypeOK ==
    /\ current_chunk \in Chunk /\ next_chunk_id \in Nat \ {0}
    /\ optimal_chunk_size \in MinChunkSize .. MaxChunkSize
    /\ link_bdp \in [Links -> Nat] /\ expired \in BOOLEAN
    /\ read \in Nat
    /\ {reader, flusher} \subseteq Chunk \cup {NoChunk}
    /\ to_links \in Seq(Chunk) /\ Len(to_links) <= ChannelCapacity
    /\ known \subseteq Links
    /\ wire \subseteq [link : Links, chunk : Chunk]
    /\ receiver \in [Links -> Chunk \cup {NoChunk}]
    /\ from_links \in Seq(Chunk) /\ Len(from_links) <= ChannelCapacity
    /\ written \in Seq(Nat)

\* Chunk ids follow the order of reading: of two chunks on the sending side, the
\* packets of the one with the smaller id were all read first, and no two have the
\* same id, whichever task took them out of the aggregator.
IdsFollowReading ==
    \A a, b \in Held : a # b =>
        /\ a.id # b.id
        /\ a.id < b.id => \A p \in Range(a.packets), q \in Range(b.packets) : p < q

\* A chunk is no larger than the maximum unless it is a single packet, although the
\* optimal size may shrink below what the current chunk already holds.
ChunkSizeBounded ==
    \A c \in Held : c.size <= MaxChunkSize \/ Len(c.packets) = 1
=============================================================================
