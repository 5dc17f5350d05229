------------------------------- MODULE TunnelMC -------------------------------
(***************************************************************************)
(* Tunnel with a few packets; attempted are the packets whose chunk the    *)
(* sender has taken, gone those it could not send or the network lost.     *)
(***************************************************************************)
EXTENDS Tunnel

CONSTANTS
    MaxPackets,                 \* bound
    Sizes, Bdps                 \* packet sizes, bandwidth-delay products

ASSUME PathAssumption ==
    /\ Sizes \subseteq Nat /\ Bdps \subseteq Nat
    /\ NoChunk \notin Chunk

VARIABLES attempted, gone

mcvars == <<tunnelVars, attempted, gone>>

\* The steps that take no chunk from the sender's channel and lose none.
Steps(A) == A /\ UNCHANGED <<attempted, gone>>

MCInit == TunnelInit /\ attempted = {} /\ gone = {}

MCReadPacket(size) ==
    /\ read < MaxPackets
    /\ ReadPacket(size)
    /\ UNCHANGED <<attempted, gone>>

MCSendChunk(l) ==
    /\ SendChunk(l)
    /\ attempted' = attempted \cup Range(Head(to_links).packets)
    /\ gone' = IF wire' = wire THEN gone \cup Range(Head(to_links).packets) ELSE gone

MCUpdateChunkSize(l, bdp) == UpdateChunkSize(l, bdp) /\ UNCHANGED <<attempted, gone>>

MCLose(m) ==
    /\ Lose(m)
    /\ gone' = gone \cup Range(m.chunk.packets)
    /\ UNCHANGED attempted

\* The network repeats the first chunk only, and not for ever.
MCReceive(m) ==
    /\ Receive(m)
    /\ wire' = wire => m.chunk.id = 0 /\ written = <<>>
    /\ UNCHANGED <<attempted, gone>>

Internal ==
    \/ ReaderSends \/ TimerFires \/ FlusherSends
    \/ TimePasses
    \/ \E l \in Links : LearnAddress(l)
    \/ \E l \in Links : ReceiverSends(l)
    \/ WriteChunk

MCNext ==
    \/ \E size \in Sizes : MCReadPacket(size)
    \/ \E l \in Links : MCSendChunk(l)
    \/ \E l \in Links, bdp \in Bdps : MCUpdateChunkSize(l, bdp)
    \/ \E m \in wire : MCLose(m)
    \/ \E m \in wire : MCReceive(m)
    \/ Steps(Internal)

MCSpec == MCInit /\ [][MCNext]_mcvars

\* Every task is scheduled again and again and time passes; a datagram does not
\* stay in flight for ever.
FairSpec ==
    /\ MCSpec
    /\ WF_mcvars(Steps(ReaderSends)) /\ WF_mcvars(Steps(FlusherSends))
    /\ WF_mcvars(Steps(TimerFires)) /\ WF_mcvars(Steps(TimePasses))
    /\ WF_mcvars(\E l \in Links : MCSendChunk(l))
    /\ WF_mcvars(\E m \in wire : MCLose(m) \/ (MCReceive(m) /\ wire' # wire))
    /\ \A l \in Links : WF_mcvars(Steps(ReceiverSends(l)))
    /\ WF_mcvars(Steps(WriteChunk))

-----------------------------------------------------------------------------

Lengths(S) == MapThenSumSet(LAMBDA c : Len(c.packets), S)

\* Between the TUN interface and the chunk sender no packet is lost or repeated:
\* every packet read is in exactly one chunk of the sending side, or the sender has
\* taken it.  Full channels make the tasks wait, they drop nothing.
NoneLostInside ==
    /\ 1 .. read = attempted \cup UNION {Range(c.packets) : c \in Held}
    /\ Cardinality(attempted) + Lengths(Held) = read

\* Every packet read is written to the remote TUN interface, or its chunk could not
\* be sent or was lost on its link: the timer empties the aggregator when no
\* further packet comes, and two full channels do not block each other.
PacketsArriveOrAreLost ==
    \A p \in 1 .. MaxPackets : read >= p ~> (p \in Range(written) \/ p \in gone)
=============================================================================
