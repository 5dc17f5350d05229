--------------------------- MODULE ChunkAggregator ---------------------------
(***************************************************************************)
(* The chunk aggregator of one endpoint (core/src/chunk_aggregator.rs):    *)
(* packets read from the TUN interface are collected in the current chunk  *)
(* until it is full or too old.  A packet is the number of the read that   *)
(* delivered it and its size; a chunk is its id, its packets in order and  *)
(* the size of its data.  The flow id a chunk carries decides nothing.     *)
(***************************************************************************)
EXTENDS Integers, Sequences, FiniteSetsExt

CONSTANTS
    Links,
    MinChunkSize, MaxChunkSize,
    BdpMultiplier,        \* a percentage
    NoChunk               \* the None of Option<Chunk>

ASSUME AggregatorAssumption ==
    /\ IsFiniteSet(Links) /\ Links # {}
    /\ MinChunkSize \in Nat /\ MaxChunkSize \in Nat
    /\ MinChunkSize <= MaxChunkSize          \* ChainLightningConfig::validate
    /\ BdpMultiplier \in Nat

VARIABLES
    current_chunk,
    next_chunk_id,
    optimal_chunk_size,
    link_bdp,             \* bandwidth times RTT of every link, 0 while unmeasured
    expired               \* created_at of the current chunk is a timeout ago

aggregatorVars == <<current_chunk, next_chunk_id, optimal_chunk_size, link_bdp, expired>>

Prefix == 2               \* bytes of a packet's length prefix

EmptyChunk(id) == [id |-> id, packets |-> <<>>, size |-> 0]

\* Chunk::add_packet
With(c, n, size) ==
    [c EXCEPT !.packets = Append(@, n), !.size = @ + Prefix + size]

Empty == current_chunk.size = 0

AggregatorInit ==
    /\ current_chunk = EmptyChunk(0)
    /\ next_chunk_id = 1
    /\ optimal_chunk_size = MinChunkSize
    /\ link_bdp = [l \in Links |-> 0]
    /\ expired = FALSE

\* finalize_current_chunk: what it returns for a current chunk c, and the
\* aggregator it leaves with n packets already put into the new chunk.
Finalized(c) == [c EXCEPT !.id = next_chunk_id - 1]

\* Mutant of Finalize: the next chunk gets the same id.
FinalizeSameId(c) ==
    /\ current_chunk' = c /\ expired' = FALSE
    /\ UNCHANGED <<next_chunk_id, optimal_chunk_size, link_bdp>>

Finalize(c) ==
    /\ current_chunk' = c
    /\ next_chunk_id' = next_chunk_id + 1
    /\ expired' = FALSE
    /\ UNCHANGED <<optimal_chunk_size, link_bdp>>

\* Mutant of Overflows: the length prefix is forgotten.
OverflowsUnprefixed(size) ==
    ~Empty /\ current_chunk.size + size > optimal_chunk_size

\* The packet does not fit any more.
Overflows(size) ==
    ~Empty /\ current_chunk.size + Prefix + size > optimal_chunk_size

\* The packet fills the chunk.
Fills(size) ==
    ~Overflows(size) /\ current_chunk.size + Prefix + size >= optimal_chunk_size

\* add_packet
AddPacket(n, size) ==
    \/ Overflows(size) /\ Finalize(With(EmptyChunk(next_chunk_id), n, size))
    \/ Fills(size) /\ Finalize(EmptyChunk(next_chunk_id))
    \/ /\ ~Overflows(size) /\ ~Fills(size)
       /\ current_chunk' = With(current_chunk, n, size)
       /\ UNCHANGED <<next_chunk_id, optimal_chunk_size, link_bdp, expired>>

\* The chunk add_packet returns.
ChunkOfAdd(n, size) ==
    CASE Overflows(size) -> Finalized(current_chunk)
      [] Fills(size) -> Finalized(With(current_chunk, n, size))
      [] OTHER -> NoChunk

\* Mutant of Due: a chunk that is not full is left alone.
DueWhenFull == expired /\ current_chunk.size >= optimal_chunk_size

\* check_timeout, and flush
Due == ~Empty /\ expired

CheckTimeout ==
    IF Due THEN Finalize(EmptyChunk(next_chunk_id)) ELSE UNCHANGED aggregatorVars

ChunkOfTimeout == IF Due THEN Finalized(current_chunk) ELSE NoChunk

\* recalculate_chunk_size for the given products.
OptimalFor(bdp) ==
    LET largest == Max({bdp[l] : l \in Links})
        target == (BdpMultiplier * largest) \div 100
        atLeast == Max({target, MinChunkSize})
    IN IF largest > 0 THEN Min({atLeast, MaxChunkSize}) ELSE optimal_chunk_size

\* update_link_stats
UpdateLinkStats(l, bdp) ==
    /\ link_bdp' = [link_bdp EXCEPT ![l] = bdp]
    /\ optimal_chunk_size' = OptimalFor(link_bdp')
    /\ UNCHANGED <<current_chunk, next_chunk_id, expired>>

\* aggregation_timeout_ms have passed since the current chunk was made.
Expire ==
    /\ expired' = TRUE
    /\ UNCHANGED <<current_chunk, next_chunk_id, optimal_chunk_size, link_bdp>>
=============================================================================
