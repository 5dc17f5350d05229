-------------------------- MODULE ReassemblyBufferMC --------------------------
(***************************************************************************)
(* ReassemblyBuffer with a few chunk ids, each announced at most once, and *)
(* a bounded number of receptions.                                         *)
(***************************************************************************)
EXTENDS ReassemblyBuffer

CONSTANTS MaxId, MaxReceptions    \* bounds

VARIABLES
    seen,           \* the ids received so far
    disturbed       \* a chunk came late or twice, or the buffer overflowed

mcvars == <<bufferVars, seen, disturbed>>

Ids == 0 .. MaxId

MCInit == BufferInit /\ seen = {} /\ disturbed = FALSE

MCHandleAnnouncement(id) ==
    /\ id \notin announcement_link
    /\ HandleAnnouncement(id)
    /\ disturbed' = (disturbed \/ id < next_expected)
    /\ UNCHANGED seen

MCHandleChunk(id) ==
    /\ chunks_received < MaxReceptions
    /\ HandleChunk(id)
    /\ seen' = seen \cup {id}
    /\ disturbed' = (disturbed \/ id \in seen \/ id < next_expected)

MCDrain ==
    /\ Drain
    /\ disturbed' = (disturbed \/ Cardinality(Buffered) > MaxBufferChunks)
    /\ UNCHANGED seen

MCAge == Age /\ UNCHANGED <<seen, disturbed>>

MCNext ==
    \/ \E id \in Ids : MCHandleAnnouncement(id)
    \/ \E id \in Ids : MCHandleChunk(id)
    \/ MCDrain
    \/ MCAge

MCSpec == MCInit /\ [][MCNext]_mcvars

-----------------------------------------------------------------------------

\* While no chunk has come late or twice and the buffer has not overflowed, the
\* statistics of the ordered mode account for every id below next_expected: it was
\* forwarded or counted as timed out, once.
StatisticsAddUp ==
    ~immediate_forward /\ ~disturbed =>
        chunks_forwarded + chunks_timeout = next_expected
=============================================================================
