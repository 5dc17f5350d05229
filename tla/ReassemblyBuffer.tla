--------------------------- MODULE ReassemblyBuffer ---------------------------
(***************************************************************************)
(* The chunk receiver and its reassembly buffer (core/src/receiver.rs).    *)
(* Announcements and chunks of several links arrive in any order, some     *)
(* twice, some never; whoever owns the buffer drains it from time to time. *)
(*                                                                         *)
(* A slot is whether its chunk has arrived and its age in ticks; which     *)
(* link an announcement named, and the chunk's bytes, decide nothing.  The *)
(* loop of drain_ready is given in closed form: it walks the slots in the  *)
(* order of their ids up to the first one that blocks it.                  *)
(***************************************************************************)
EXTENDS Integers, FiniteSets, FiniteSetsExt

CONSTANTS
    ReorderTimeout,       \* reorder_timeout_ms, in ticks
    PruneFactor,          \* 10 in the code
    MaxBufferChunks

ASSUME ReceiverAssumption ==
    /\ ReorderTimeout \in Nat
    /\ PruneFactor \in Nat \ {0}
    /\ MaxBufferChunks \in Nat

VARIABLES
    immediate_forward,    \* the mode, fixed by the configuration
    slots,                \* BTreeMap of the buffered chunk ids
    next_expected,
    chunks_received, chunks_forwarded, chunks_timeout,
    announcement_link,    \* the ids of the HashMap; nothing removes one
    drained               \* the ids drain_ready last returned, which are ascending

bufferVars == <<immediate_forward, slots, next_expected, chunks_received,
                chunks_forwarded, chunks_timeout, announcement_link, drained>>

PruneAge == ReorderTimeout * PruneFactor

\* Beyond the pruning age its value makes no difference.
Slot == [chunk : BOOLEAN, age : 0 .. PruneAge + 1]

NewSlot == [chunk |-> FALSE, age |-> 0]

Buffered == DOMAIN slots

\* slots.entry(id).or_insert_with(BufferSlot::new)
Entry(id) == IF id \in Buffered THEN slots[id] ELSE NewSlot

WithSlot(id, s) == [k \in Buffered \cup {id} |-> IF k = id THEN s ELSE slots[k]]

\* Mutant of Restricted: the slots are not removed.
RestrictedNot(S) == slots

Restricted(S) == [k \in S |-> slots[k]]

Ready(id) == slots[id].chunk

TimedOut(id) == slots[id].age > ReorderTimeout

-----------------------------------------------------------------------------

BufferInit ==
    /\ immediate_forward \in BOOLEAN
    /\ slots = [k \in {} |-> NewSlot]
    /\ next_expected = 0
    /\ chunks_received = 0 /\ chunks_forwarded = 0 /\ chunks_timeout = 0
    /\ announcement_link = {}
    /\ drained = {}

\* handle_announcement
HandleAnnouncement(id) ==
    /\ announcement_link' = announcement_link \cup {id}
    /\ slots' = WithSlot(id, Entry(id))
    /\ UNCHANGED <<immediate_forward, next_expected, chunks_received,
                   chunks_forwarded, chunks_timeout, drained>>

\* handle_chunk
HandleChunk(id) ==
    /\ chunks_received' = chunks_received + 1
    /\ slots' = WithSlot(id, [Entry(id) EXCEPT !.chunk = TRUE])
    /\ UNCHANGED <<immediate_forward, next_expected, chunks_forwarded,
                   chunks_timeout, announcement_link, drained>>

\* next_expected when the loop comes to a slot: one more than the slot before it.
ExpectedAt(id) ==
    LET before == {k \in Buffered : k < id}
    IN IF before = {} THEN next_expected ELSE Max(before) + 1

\* Mutant of Blocks: a slot does not wait for the chunks before it.
BlocksUnreceived(id) == ~TimedOut(id) /\ ~Ready(id)

\* A slot is waited for while a chunk before it is missing, or its own is.
Blocks(id) == ~TimedOut(id) /\ (id > ExpectedAt(id) \/ ~Ready(id))

\* The slots the ordered loop forwards or gives up.
InOrder == {id \in Buffered : \A k \in Buffered : k <= id => ~Blocks(k)}

Taken == IF immediate_forward THEN {id \in Buffered : Ready(id)} ELSE InOrder

\* Mutant of Skipped: a first slot below next_expected is not told apart.
SkippedUnguarded ==
    IF immediate_forward \/ InOrder = {} THEN 0
    ELSE Max(InOrder) + 1 - next_expected - Cardinality(InOrder)

\* Mutant of Skipped: the missing chunks are not counted.
SkippedUncounted == 0

\* Ids the ordered loop steps over because they have no slot.
Skipped ==
    IF immediate_forward \/ InOrder = {} THEN 0
    ELSE Max(InOrder) + 1 - Min({next_expected} \cup InOrder) - Cardinality(InOrder)

\* Mutant of Excess: the greatest ids go first.
ExcessFromTheEnd(S) ==
    {id \in S : Cardinality({k \in S : k <= id}) > MaxBufferChunks}

\* prune_old_slots: the smallest ids in excess of the capacity, and then the old slots.
Excess(S) ==
    {id \in S : Cardinality({k \in S : k >= id}) > MaxBufferChunks}

\* Mutant of Old: the pruning age is the reorder timeout.
OldTooSoon(S) == {id \in S : slots[id].age > ReorderTimeout}

Old(S) == {id \in S : slots[id].age > PruneAge}

\* drain_ready
Drain ==
    LET left == Buffered \ Taken
        kept == left \ Excess(left)
        forwarded == {id \in Taken : Ready(id)}
    IN /\ drained' = forwarded
       /\ chunks_forwarded' = chunks_forwarded + Cardinality(forwarded)
       /\ chunks_timeout' = chunks_timeout + Skipped
              + Cardinality(Taken \ forwarded) + Cardinality(Excess(left))
       /\ next_expected' = IF immediate_forward \/ InOrder = {} THEN next_expected
                           ELSE Max(InOrder) + 1
       /\ slots' = Restricted(kept \ Old(kept))
       /\ UNCHANGED <<immediate_forward, chunks_received, announcement_link>>

\* created_at.elapsed() grows.
Age ==
    /\ slots' = [id \in Buffered |->
                    [slots[id] EXCEPT !.age = IF @ > PruneAge THEN @ ELSE @ + 1]]
    /\ UNCHANGED <<immediate_forward, next_expected, chunks_received,
                   chunks_forwarded, chunks_timeout, announcement_link, drained>>

BufferNext ==
    \/ \E id \in Nat : HandleAnnouncement(id) \/ HandleChunk(id)
    \/ Drain
    \/ Age

BufferSpec == BufferInit /\ [][BufferNext]_bufferVars

-----------------------------------------------------------------------------
(* Properties *)

BufferTypeOK ==
    /\ immediate_forward \in BOOLEAN
    /\ Buffered \subseteq Nat /\ slots \in [Buffered -> Slot]
    /\ next_expected \in Nat
    /\ chunks_received \in Nat /\ chunks_forwarded \in Nat /\ chunks_timeout \in Nat
    /\ announcement_link \subseteq Nat /\ drained \subseteq Nat

\* Every reception is forwarded at most once: what has been forwarded and what
\* still waits in a slot never exceeds what was received.  (A chunk received again
\* after it was forwarded is a reception of its own, and is forwarded again.)
NothingForwardedTwice ==
    chunks_forwarded + Cardinality({id \in Buffered : Ready(id)}) <= chunks_received

\* In ordered mode a drain gives up a missing chunk only when the slot that waits
\* for it is overdue: every id from next_expected to the new one was either
\* forwarded, or overdue itself, or is followed by an overdue slot before the next
\* slot that is not (receiver.rs:132-167).
SkipsOnlyAfterTimeout ==
    [][~immediate_forward /\ Drain =>
          \A id \in next_expected .. next_expected' - 1 :
              \/ id \in drained'
              \/ \E k \in Buffered : /\ k >= id /\ TimedOut(k)
                                     /\ \A j \in Buffered : id <= j => k <= j]_bufferVars

\* A chunk that has arrived leaves the buffer only by being forwarded, unless it has
\* waited for the pruning age or is the victim of an overflow: from it on, and without
\* what is forwarded, there are more slots than the buffer holds (prune_old_slots).
ReceivedChunksAreForwarded ==
    [][Drain =>
          \A id \in Buffered : Ready(id) =>
              \/ id \in drained' \/ id \in DOMAIN slots'
              \/ Cardinality({k \in Buffered \ drained' : k >= id}) > MaxBufferChunks
              \/ slots[id].age > PruneAge]_bufferVars

\* A drain forwards no chunk while one with a smaller id that has arrived stays behind
\* or is dropped (receiver.rs:128 "Forward in order with brief wait"): chunks leave
\* out of order only when the one with the smaller id arrives after the other has left.
NoneOvertaken ==
    [][Drain =>
          \A id \in drained', k \in Buffered : Ready(k) /\ k < id => k \in drained']_bufferVars
=============================================================================
