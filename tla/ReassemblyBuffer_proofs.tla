------------------------ MODULE ReassemblyBuffer_proofs ------------------------
(***************************************************************************)
(* What the reassembly buffer does for every number of chunks, every       *)
(* timeout and every capacity.                                             *)
(***************************************************************************)
EXTENDS ReassemblyBufferMC, Aggregates

ReadySlots == {id \in Buffered : Ready(id)}

\* The buffer is a finite map, and forwards nothing twice.
BufferInv == BufferTypeOK /\ IsFiniteSet(Buffered) /\ NothingForwardedTwice

-----------------------------------------------------------------------------
(* Finite sets of ids *)

\* Between the smaller of two ids and the largest there is room for all that are left.
LEMMA CountsFit ==
    ASSUME NEW S \in SUBSET Nat, S # {}, IsFiniteSet(S)
    PROVE  Cardinality(S) \in Nat /\ Cardinality(S) <= Max(S) + 1 - Min(S)
<1>1. Max(S) \in Nat /\ Min(S) \in Nat /\ Min(S) <= Max(S)
  BY MinExists, MaxExists
<1> DEFINE low == Min(S)
           high == Max(S)
<1>2. \A y \in S : y \in Nat /\ low <= y /\ y <= high
  BY MinExists, MaxExists
<1>3. low \in Int /\ high \in Int /\ low <= high
  BY <1>1
<1> HIDE DEF low, high
<1>4. S \subseteq low .. high
  BY <1>2, <1>3
<1>5. IsFiniteSet(low .. high) /\ Cardinality(low .. high) = high - low + 1
  BY <1>3, FS_Interval
<1>6. Cardinality(S) <= Cardinality(low .. high)
  BY <1>4, <1>5, FS_Subset
<1>7. Cardinality(S) \in Nat
  BY FS_CardinalityType
<1> QED
  BY <1>3, <1>5, <1>6, <1>7 DEF low, high

\* A finite set and what is left of another after taking it.
LEMMA SplitCount ==
    ASSUME NEW S, IsFiniteSet(S), NEW T \in SUBSET S, NEW U \in SUBSET S, T \cap U = {}
    PROVE  /\ Cardinality(T) \in Nat /\ Cardinality(U) \in Nat /\ Cardinality(S) \in Nat
           /\ Cardinality(T) + Cardinality(U) <= Cardinality(S)
           /\ T \cup U = S => Cardinality(T) + Cardinality(U) = Cardinality(S)
<1>1. IsFiniteSet(T) /\ IsFiniteSet(U)
  BY FS_Subset
<1>2. Cardinality(T \cup U) = Cardinality(T) + Cardinality(U) - Cardinality({})
  BY <1>1, FS_Union
<1>3. Cardinality(T) \in Nat /\ Cardinality(U) \in Nat /\ Cardinality(S) \in Nat
  BY <1>1, FS_CardinalityType
<1>4. Cardinality(T \cup U) = Cardinality(T) + Cardinality(U)
  BY <1>2, <1>3, FS_EmptySet
<1>5. Cardinality(T \cup U) <= Cardinality(S)
  BY FS_Subset
<1> QED
  BY <1>3, <1>4, <1>5

-----------------------------------------------------------------------------
(* drain_ready *)

\* The pruning age bounds the age of a slot.
LEMMA PruneAgeIsNat == PruneAge \in Nat
  BY ReceiverAssumption DEF PruneAge

\* What the loop takes are buffered slots, and what it steps over is not negative.
LEMMA TakenTyped ==
    ASSUME BufferInv
    PROVE  /\ Taken \subseteq Buffered /\ InOrder \subseteq Buffered
           /\ Skipped \in Nat
           /\ InOrder # {} => Max(InOrder) \in InOrder /\ \A k \in InOrder : k <= Max(InOrder)
<1>1. Taken \subseteq Buffered /\ InOrder \subseteq Buffered
  BY DEF Taken, InOrder
<1>2. InOrder \subseteq Nat /\ IsFiniteSet(InOrder)
  BY <1>1, FS_Subset DEF BufferInv, BufferTypeOK
<1>3. ASSUME InOrder # {} PROVE Max(InOrder) \in InOrder /\ \A k \in InOrder : k <= Max(InOrder)
  BY <1>2, <1>3, MaxExists
<1>4. ASSUME InOrder # {}
      PROVE  Max(InOrder) + 1 - Min({next_expected} \cup InOrder) - Cardinality(InOrder) \in Nat
  <2>1. {next_expected} \cup InOrder \subseteq Nat
    BY <1>2 DEF BufferInv, BufferTypeOK
  <2>2. /\ Min({next_expected} \cup InOrder) \in Nat
        /\ \A k \in InOrder : Min({next_expected} \cup InOrder) <= k
    BY <2>1, MinExists
  <2>3. Min(InOrder) \in InOrder
    BY <1>2, <1>4, MinExists
  <2>4. Cardinality(InOrder) \in Nat /\ Cardinality(InOrder) <= Max(InOrder) + 1 - Min(InOrder)
    BY <1>2, <1>4, CountsFit
  <2> DEFINE high == Max(InOrder)
             from == Min({next_expected} \cup InOrder)
             first == Min(InOrder)
             n == Cardinality(InOrder)
  <2>5. high \in Nat /\ from \in Nat /\ first \in Nat /\ n \in Nat
    BY <1>2, <1>3, <1>4, <2>2, <2>3, <2>4
  <2>6. from <= first /\ n <= high + 1 - first
    BY <2>2, <2>3, <2>4
  <2> HIDE DEF high, from, first, n
  <2>7. high + 1 - from - n \in Nat
    BY <2>5, <2>6
  <2> QED
    BY <2>7 DEF high, from, n
<1>5. Skipped \in Nat
  BY <1>4 DEF Skipped
<1> QED
  BY <1>1, <1>3, <1>5

\* No more chunks leave the buffer as forwarded than were ready in it.
LEMMA DrainOK == ASSUME BufferInv, Drain PROVE BufferInv'
<1> DEFINE left == Buffered \ Taken
           kept == left \ Excess(left)
           rest == kept \ Old(kept)
           forwarded == {id \in Taken : Ready(id)}
<1>1. /\ Taken \subseteq Buffered /\ Skipped \in Nat
      /\ InOrder # {} => Max(InOrder) \in Nat
  BY TakenTyped DEF BufferInv, BufferTypeOK
<1>2. rest \subseteq left /\ left \subseteq Buffered
  OBVIOUS
<1>3. slots' = [k \in rest |-> slots[k]] /\ DOMAIN slots' = rest
  BY DEF Drain, Restricted
<1>4. /\ drained' = forwarded
      /\ chunks_forwarded' = chunks_forwarded + Cardinality(forwarded)
      /\ chunks_timeout' = chunks_timeout + Skipped + Cardinality(Taken \ forwarded)
                               + Cardinality(Excess(left))
      /\ next_expected' = IF immediate_forward \/ InOrder = {} THEN next_expected
                          ELSE Max(InOrder) + 1
      /\ UNCHANGED <<immediate_forward, chunks_received, announcement_link>>
  BY DEF Drain
<1>5. Excess(left) \subseteq left
  BY DEF Excess
<1> HIDE DEF left, kept, rest, forwarded
<1>6. /\ IsFiniteSet(Taken \ forwarded) /\ IsFiniteSet(Excess(left)) /\ IsFiniteSet(forwarded)
      /\ IsFiniteSet(rest)
  BY <1>1, <1>2, <1>5, FS_Subset DEF BufferInv, forwarded
<1>7. /\ Cardinality(Taken \ forwarded) \in Nat /\ Cardinality(Excess(left)) \in Nat
      /\ Cardinality(forwarded) \in Nat
  BY <1>6, FS_CardinalityType
<1>8. BufferTypeOK'
  <2>1. /\ next_expected' \in Nat /\ chunks_forwarded' \in Nat /\ chunks_timeout' \in Nat
        /\ chunks_received' \in Nat
    BY <1>1, <1>4, <1>7 DEF BufferInv, BufferTypeOK
  <2>2. DOMAIN slots' \subseteq Nat /\ slots' \in [DOMAIN slots' -> Slot]
    BY <1>2, <1>3 DEF BufferInv, BufferTypeOK, Buffered
  <2>3. drained' \subseteq Nat /\ announcement_link' \subseteq Nat /\ immediate_forward' \in BOOLEAN
    BY <1>1, <1>4 DEF BufferInv, BufferTypeOK, forwarded
  <2> QED
    BY <2>1, <2>2, <2>3 DEF BufferTypeOK, Buffered
<1>9. IsFiniteSet(Buffered)'
  BY <1>3, <1>6 DEF Buffered
<1>10. NothingForwardedTwice'
  <2> DEFINE ready == {id \in rest : slots[id].chunk}
  <2>1. {id \in Buffered : Ready(id)}' = ready
    BY <1>3 DEF Buffered, Ready
  <2>2. /\ ready \in SUBSET ReadySlots /\ forwarded \in SUBSET ReadySlots
        /\ ready \cap forwarded = {}
    BY <1>1, <1>2 DEF ReadySlots, Ready, forwarded, left
  <2> HIDE DEF ready
  <2>3. IsFiniteSet(ReadySlots)
    BY FS_Subset DEF BufferInv, ReadySlots
  <2>4. /\ Cardinality(ready) \in Nat /\ Cardinality(ReadySlots) \in Nat
        /\ Cardinality(ready) + Cardinality(forwarded) <= Cardinality(ReadySlots)
    BY <2>2, <2>3, SplitCount
  <2>5. chunks_forwarded + Cardinality(ReadySlots) <= chunks_received
    BY DEF BufferInv, NothingForwardedTwice, ReadySlots
  <2>6. chunks_forwarded' + Cardinality(ready) <= chunks_received'
    BY <1>4, <1>7, <2>4, <2>5 DEF BufferInv, BufferTypeOK
  <2> QED
    BY <2>1, <2>6 DEF NothingForwardedTwice
<1> QED
  BY <1>8, <1>9, <1>10 DEF BufferInv

-----------------------------------------------------------------------------
(* The other operations *)

\* A slot put into the buffer leaves it a finite map from ids to slots.
LEMMA WithSlotOK ==
    ASSUME BufferInv, NEW id \in Nat, NEW s \in Slot, slots' = WithSlot(id, s)
    PROVE  /\ Buffered' = Buffered \cup {id} /\ Buffered' \subseteq Nat
           /\ slots' \in [Buffered' -> Slot] /\ IsFiniteSet(Buffered')
           /\ slots'[id] = s /\ \A k \in Buffered : k # id => slots'[k] = slots[k]
<1>1. /\ Buffered' = Buffered \cup {id}
      /\ slots' = [k \in Buffered \cup {id} |-> IF k = id THEN s ELSE slots[k]]
  BY DEF WithSlot, Buffered
<1>2. Buffered \subseteq Nat /\ \A k \in Buffered : slots[k] \in Slot
  BY DEF BufferInv, BufferTypeOK
<1>3. IsFiniteSet(Buffered')
  BY <1>1, FS_AddElement DEF BufferInv
<1> QED
  BY <1>1, <1>2, <1>3

\* The entry of an id is a slot, a new one if the id is not buffered.
LEMMA EntryTyped ==
    ASSUME BufferInv, NEW id \in Nat
    PROVE  /\ Entry(id) \in Slot /\ [Entry(id) EXCEPT !.chunk = TRUE] \in Slot
           /\ Entry(id).chunk => id \in Buffered /\ Ready(id)
<1>1. NewSlot \in Slot
  BY PruneAgeIsNat DEF NewSlot, Slot
<1>2. \A k \in Buffered : slots[k] \in Slot
  BY DEF BufferInv, BufferTypeOK
<1>3. Entry(id) \in Slot
  BY <1>1, <1>2 DEF Entry
<1>4. [Entry(id) EXCEPT !.chunk = TRUE] \in Slot
  BY <1>3 DEF Slot
<1>5. Entry(id).chunk => id \in Buffered /\ Ready(id)
  BY DEF Entry, NewSlot, Ready
<1> QED
  BY <1>3, <1>4, <1>5

LEMMA HandleAnnouncementOK ==
    ASSUME BufferInv, NEW id \in Nat, HandleAnnouncement(id) PROVE BufferInv'
<1>1. slots' = WithSlot(id, Entry(id)) /\ Entry(id) \in Slot
  BY EntryTyped DEF HandleAnnouncement
<1>2. BufferTypeOK' /\ IsFiniteSet(Buffered)'
  BY <1>1, WithSlotOK DEF HandleAnnouncement, BufferInv, BufferTypeOK
<1>3. ReadySlots' = ReadySlots
  <2>1. /\ Buffered' = Buffered \cup {id} /\ slots'[id] = Entry(id)
        /\ \A k \in Buffered : k # id => slots'[k] = slots[k]
    BY <1>1, WithSlotOK
  <2>2. id \in Buffered => Entry(id) = slots[id]
    BY DEF Entry
  <2>3. id \notin Buffered => ~Entry(id).chunk
    BY EntryTyped
  <2> QED
    BY <2>1, <2>2, <2>3 DEF ReadySlots, Ready
<1>4. NothingForwardedTwice'
  BY <1>3 DEF HandleAnnouncement, BufferInv, NothingForwardedTwice, ReadySlots
<1> QED
  BY <1>2, <1>4 DEF BufferInv

LEMMA HandleChunkOK ==
    ASSUME BufferInv, NEW id \in Nat, HandleChunk(id) PROVE BufferInv'
<1> DEFINE s == [Entry(id) EXCEPT !.chunk = TRUE]
<1>1. slots' = WithSlot(id, s) /\ s \in Slot
  BY EntryTyped DEF HandleChunk
<1> HIDE DEF s
<1>2. BufferTypeOK' /\ IsFiniteSet(Buffered)'
  <2>1. /\ Buffered' \subseteq Nat /\ IsFiniteSet(Buffered') /\ slots' \in [Buffered' -> Slot]
    BY <1>1, WithSlotOK
  <2>2. chunks_received' \in Nat
    BY DEF HandleChunk, BufferInv, BufferTypeOK
  <2> QED
    BY <2>1, <2>2 DEF HandleChunk, BufferInv, BufferTypeOK
<1>3. ReadySlots' \subseteq ReadySlots \cup {id}
  BY <1>1, WithSlotOK DEF ReadySlots, Ready
<1>4. IsFiniteSet(ReadySlots)
  BY FS_Subset DEF BufferInv, ReadySlots
<1>5. /\ Cardinality(ReadySlots') \in Nat /\ Cardinality(ReadySlots) \in Nat
      /\ Cardinality(ReadySlots') <= Cardinality(ReadySlots) + 1
  <2>1. /\ IsFiniteSet(ReadySlots \cup {id}) /\ Cardinality(ReadySlots) \in Nat
        /\ Cardinality(ReadySlots \cup {id}) <= Cardinality(ReadySlots) + 1
    BY <1>4, FS_AddElement, FS_CardinalityType
  <2>2. IsFiniteSet(ReadySlots') /\ Cardinality(ReadySlots') <= Cardinality(ReadySlots \cup {id})
    BY <1>3, <2>1, FS_Subset
  <2>3. Cardinality(ReadySlots \cup {id}) \in Nat /\ Cardinality(ReadySlots') \in Nat
    BY <2>1, <2>2, FS_CardinalityType
  <2> QED
    BY <2>1, <2>2, <2>3
<1>6. NothingForwardedTwice'
  BY <1>5 DEF HandleChunk, BufferInv, BufferTypeOK, NothingForwardedTwice, ReadySlots
<1> QED
  BY <1>2, <1>6 DEF BufferInv

LEMMA AgeOK == ASSUME BufferInv, Age PROVE BufferInv'
<1> DEFINE Older(id) == [slots[id] EXCEPT !.age = IF @ > PruneAge THEN @ ELSE @ + 1]
<1>1. slots' = [id \in Buffered |-> Older(id)] /\ Buffered' = Buffered
  BY DEF Age, Buffered
<1>2. ASSUME NEW id \in Buffered PROVE Older(id) \in Slot /\ Older(id).chunk = slots[id].chunk
  <2>1. slots[id] \in Slot
    BY DEF BufferInv, BufferTypeOK
  <2> QED
    BY <2>1, PruneAgeIsNat DEF Slot
<1>3. ReadySlots' = ReadySlots
  BY <1>1, <1>2 DEF ReadySlots, Ready
<1>4. BufferTypeOK'
  BY <1>1, <1>2 DEF Age, BufferInv, BufferTypeOK
<1>5. NothingForwardedTwice' /\ IsFiniteSet(Buffered)'
  BY <1>1, <1>3 DEF Age, BufferInv, NothingForwardedTwice, ReadySlots
<1> QED
  BY <1>4, <1>5 DEF BufferInv

\* The buffer starts empty.
LEMMA BufferInitOK == BufferInit => BufferInv
<1> SUFFICES ASSUME BufferInit PROVE BufferInv
  OBVIOUS
<1>1. Buffered = {} /\ {id \in Buffered : Ready(id)} = {}
  BY DEF BufferInit, Buffered
<1>2. IsFiniteSet({}) /\ Cardinality({}) = 0
  BY FS_EmptySet
<1> QED
  BY <1>1, <1>2 DEF BufferInit, BufferInv, BufferTypeOK, NothingForwardedTwice

\* Every operation keeps the invariant.
LEMMA BufferStepOK == BufferInv /\ [BufferNext]_bufferVars => BufferInv'
<1> SUFFICES ASSUME BufferInv, [BufferNext]_bufferVars PROVE BufferInv'
  OBVIOUS
<1>1. CASE UNCHANGED bufferVars
  BY <1>1 DEF bufferVars, BufferInv, BufferTypeOK, NothingForwardedTwice, Buffered, Ready
<1> QED
  BY <1>1, HandleAnnouncementOK, HandleChunkOK, DrainOK, AgeOK DEF BufferNext

-----------------------------------------------------------------------------

\* The inductive invariant holds throughout.
LEMMA BufferInvariance == BufferSpec => []BufferInv
BY BufferInitOK, BufferStepOK, PTL DEF BufferSpec

\* Type correctness of the receiver; its counters never turn negative.
THEOREM BufferTypeCorrect == BufferSpec => []BufferTypeOK
<1>1. BufferInv => BufferTypeOK
  BY DEF BufferInv
<1> QED
  BY <1>1, BufferInvariance, PTL

\* However chunks are lost, repeated or reordered, no reception is forwarded twice.
THEOREM ForwardedAtMostOnce == BufferSpec => []NothingForwardedTwice
<1>1. BufferInv => NothingForwardedTwice
  BY DEF BufferInv
<1> QED
  BY <1>1, BufferInvariance, PTL

\* Up to the last slot taken nothing blocks, and a slot is taken if it is at most as far.
LEMMA TakenInOrder ==
    ASSUME BufferInv, InOrder # {}, NEW k \in Buffered, k <= Max(InOrder)
    PROVE  ~Blocks(k) /\ k \in InOrder
<1>1. Max(InOrder) \in InOrder /\ InOrder \subseteq Buffered /\ Buffered \subseteq Nat
  BY TakenTyped DEF BufferInv, BufferTypeOK
<1>2. \A j \in Buffered : j <= Max(InOrder) => ~Blocks(j)
  BY <1>1 DEF InOrder
<1>3. ASSUME NEW j \in Buffered, j <= k PROVE j <= Max(InOrder)
  <2>1. j \in Nat /\ k \in Nat /\ Max(InOrder) \in Nat
    BY <1>1
  <2> QED
    BY <1>3, <2>1
<1> QED
  BY <1>2, <1>3 DEF InOrder

\* A missing chunk is given up only for an overdue slot behind it.
THEOREM GivesUpOnlyOverdue == BufferSpec => SkipsOnlyAfterTimeout
<1> DEFINE Covered(id) == \/ id \in drained'
                          \/ \E k \in Buffered : /\ k >= id /\ TimedOut(k)
                                                 /\ \A j \in Buffered : id <= j => k <= j
           Step == ~immediate_forward /\ Drain =>
                       \A id \in next_expected .. next_expected' - 1 : Covered(id)
<1>1. BufferInv /\ [BufferNext]_bufferVars => [Step]_bufferVars
  <2> SUFFICES ASSUME BufferInv, ~immediate_forward, Drain,
                      NEW id \in next_expected .. next_expected' - 1
               PROVE  Covered(id)
    OBVIOUS
  <2>1. InOrder # {} /\ next_expected' = Max(InOrder) + 1
    BY DEF Drain, BufferInv, BufferTypeOK
  <2>2. /\ Max(InOrder) \in InOrder /\ InOrder \subseteq Buffered /\ Buffered \subseteq Nat
        /\ next_expected \in Nat
    BY <2>1, TakenTyped DEF BufferInv, BufferTypeOK
  <2>3. id \in Nat /\ next_expected <= id /\ id <= Max(InOrder)
    <3>1. Max(InOrder) \in Nat
      BY <2>2
    <3> QED
      BY <2>1, <2>2, <3>1
  <2> DEFINE after == {k \in Buffered : k >= id}
             k == Min(after)
  <2>4. k \in after /\ \A j \in after : k <= j
    BY <2>2, <2>3, MinExists
  <2> HIDE DEF k
  <2>5. k \in Buffered /\ k >= id /\ k <= Max(InOrder) /\ \A j \in Buffered : id <= j => k <= j
    BY <2>2, <2>3, <2>4
  <2>6. ~Blocks(k) /\ k \in InOrder
    BY <2>1, <2>5, TakenInOrder
  <2>7. CASE TimedOut(k)
    BY <2>5, <2>7
  <2>8. CASE ~TimedOut(k)
    <3>1. ~(k > ExpectedAt(k)) /\ Ready(k)
      BY <2>6, <2>8 DEF Blocks
    <3> DEFINE before == {j \in Buffered : j < k}
    <3>2. k = id
      <4>1. CASE before = {}
        BY <2>2, <2>3, <2>5, <3>1, <4>1 DEF ExpectedAt
      <4>2. CASE before # {}
        <5>1. IsFiniteSet(before) /\ before \subseteq Nat
          BY <2>2, FS_Subset DEF BufferInv
        <5>2. Max(before) \in before
          BY <4>2, <5>1, MaxExists
        <5>3. ~(k > Max(before) + 1)
          BY <3>1, <4>2 DEF ExpectedAt
        <5>4. Max(before) \in Buffered /\ Max(before) < k /\ Max(before) \in Nat
          BY <2>2, <5>2
        <5>5. ~(id <= Max(before))
          BY <2>2, <2>5, <5>4
        <5> QED
          BY <2>2, <2>3, <2>5, <5>3, <5>4, <5>5
      <4> QED BY <4>1, <4>2
    <3>3. k \in drained'
      BY <2>6, <3>1 DEF Drain, Taken
    <3> QED BY <3>2, <3>3
  <2> QED BY <2>7, <2>8
<1> QED
  BY <1>1, BufferInvariance, PTL DEF BufferSpec, SkipsOnlyAfterTimeout

\* A buffer that does not overflow has nothing in excess.
LEMMA NoExcess ==
    ASSUME BufferInv, ~(Cardinality(Buffered) > MaxBufferChunks), NEW left \in SUBSET Buffered
    PROVE  Excess(left) = {}
<1> SUFFICES ASSUME NEW id \in left, Cardinality({k \in left : k >= id}) > MaxBufferChunks
             PROVE  FALSE
  BY DEF Excess
<1> DEFINE later == {k \in left : k >= id}
<1>1. later \in SUBSET Buffered
  OBVIOUS
<1>2. /\ Cardinality(later) <= Cardinality(Buffered)
      /\ Cardinality(later) \in Nat /\ Cardinality(Buffered) \in Nat
  BY <1>1, FS_Subset, FS_CardinalityType DEF BufferInv
<1> QED
  BY <1>2, ReceiverAssumption

\* A chunk that has arrived is forwarded, kept, or lost to overflow or age.
THEOREM ArrivedAreForwarded == BufferSpec => ReceivedChunksAreForwarded
<1> DEFINE From(id) == {k \in Buffered \ drained' : k >= id}
           Kept(id) == \/ id \in drained' \/ id \in DOMAIN slots'
                       \/ Cardinality(From(id)) > MaxBufferChunks
                       \/ slots[id].age > PruneAge
           Step == Drain => \A id \in Buffered : Ready(id) => Kept(id)
<1>1. BufferInv /\ [BufferNext]_bufferVars => [Step]_bufferVars
  <2> SUFFICES ASSUME BufferInv, Drain, NEW id \in Buffered, Ready(id),
                      ~(Cardinality(From(id)) > MaxBufferChunks), id \notin drained',
                      id \notin DOMAIN slots'
               PROVE  slots[id].age > PruneAge
    OBVIOUS
  <2> DEFINE left == Buffered \ Taken
             kept == left \ Excess(left)
  <2>1. id \notin Taken
    BY DEF Drain
  <2>2. DOMAIN slots' = kept \ Old(kept)
    BY DEF Drain, Restricted
  <2>3. id \notin Excess(left)
    <3> DEFINE later == {k \in left : k >= id}
    <3>1. left \subseteq Buffered \ drained'
      BY DEF Drain
    <3>2. later \in SUBSET From(id) /\ From(id) \in SUBSET Buffered
      BY <3>1
    <3>3. IsFiniteSet(Buffered)
      BY DEF BufferInv
    <3> HIDE DEF later, From
    <3>4. IsFiniteSet(From(id)) /\ IsFiniteSet(later)
      BY <3>2, <3>3, FS_Subset
    <3>5. /\ Cardinality(later) \in Nat /\ Cardinality(From(id)) \in Nat
          /\ Cardinality(later) <= Cardinality(From(id))
      BY <3>2, <3>4, FS_CardinalityType, FS_Subset
    <3>6. ~(Cardinality(later) > MaxBufferChunks)
      BY <3>5, ReceiverAssumption
    <3> QED
      BY <3>6 DEF Excess, later
  <2>4. id \in Old(kept)
    BY <2>1, <2>2, <2>3
  <2> QED
    BY <2>4 DEF Old
<1> QED
  BY <1>1, BufferInvariance, PTL DEF BufferSpec, ReceivedChunksAreForwarded

\* A drain leaves no arrived chunk behind the ones it forwards.
THEOREM ArrivedAreNotOvertaken == BufferSpec => NoneOvertaken
<1> DEFINE Step == Drain => \A id \in drained', k \in Buffered :
                                Ready(k) /\ k < id => k \in drained'
<1>1. BufferInv /\ [BufferNext]_bufferVars => [Step]_bufferVars
  <2> SUFFICES ASSUME BufferInv, Drain, NEW id \in drained', NEW k \in Buffered,
                      Ready(k), k < id
               PROVE  k \in drained'
    OBVIOUS
  <2>1. drained' = {i \in Taken : Ready(i)}
    BY DEF Drain
  <2>2. CASE immediate_forward
    BY <2>1, <2>2 DEF Taken
  <2>3. CASE ~immediate_forward
    <3>1. id \in InOrder
      BY <2>1, <2>3 DEF Taken
    <3>2. id \in Nat /\ \A j \in Buffered : j \in Nat
      BY <3>1 DEF InOrder, BufferInv, BufferTypeOK
    <3>3. \A j \in Buffered : j <= k => j <= id
      BY <3>2
    <3>4. k \in InOrder
      BY <3>1, <3>3 DEF InOrder
    <3> QED
      BY <2>1, <2>3, <3>4 DEF Taken
  <2> QED
    BY <2>2, <2>3
<1> QED
  BY <1>1, BufferInvariance, PTL DEF BufferSpec, NoneOvertaken

-----------------------------------------------------------------------------
(* The statistics of the ordered mode *)

Orderly == ~immediate_forward /\ ~disturbed

\* While nothing has come late, no slot is behind next_expected.
StatisticsInv ==
    BufferInv /\ (Orderly => StatisticsAddUp /\ \A id \in Buffered : next_expected <= id)

\* An orderly drain accounts for every id it passes and leaves none behind.
LEMMA OrderlyDrain ==
    ASSUME StatisticsInv, Orderly, Drain, ~(Cardinality(Buffered) > MaxBufferChunks)
    PROVE  /\ chunks_forwarded' + chunks_timeout' = next_expected'
           /\ \A id \in Buffered' : next_expected' <= id
<1> DEFINE left == Buffered \ InOrder
           forwarded == {id \in InOrder : Ready(id)}
           given_up == InOrder \ forwarded
<1>1. Taken = InOrder
  BY DEF Taken, Orderly
<1>2. Excess(left) = {}
  BY NoExcess DEF StatisticsInv
<1>3. /\ chunks_forwarded' = chunks_forwarded + Cardinality(forwarded)
      /\ chunks_timeout' = chunks_timeout + Skipped + Cardinality(given_up) + Cardinality({})
      /\ next_expected' = IF InOrder = {} THEN next_expected ELSE Max(InOrder) + 1
      /\ Buffered' \subseteq left
  BY <1>1, <1>2 DEF Drain, Orderly, Restricted, Buffered
<1>4. /\ InOrder \in SUBSET Nat /\ IsFiniteSet(InOrder) /\ InOrder \subseteq Buffered
      /\ Buffered \subseteq Nat
      /\ next_expected \in Nat /\ chunks_forwarded \in Nat /\ chunks_timeout \in Nat
  BY TakenTyped, FS_Subset DEF StatisticsInv, BufferInv, BufferTypeOK
<1>5. /\ Cardinality(forwarded) \in Nat /\ Cardinality(given_up) \in Nat
      /\ Cardinality(InOrder) \in Nat
      /\ Cardinality(forwarded) + Cardinality(given_up) = Cardinality(InOrder)
  <2>1. forwarded \in SUBSET InOrder /\ given_up \in SUBSET InOrder
        /\ forwarded \cap given_up = {} /\ forwarded \cup given_up = InOrder
    OBVIOUS
  <2> HIDE DEF forwarded, given_up
  <2> QED
    BY <1>4, <2>1, SplitCount
<1>6. /\ chunks_forwarded + chunks_timeout = next_expected
      /\ \A id \in Buffered : next_expected <= id
  BY DEF StatisticsInv, Orderly, StatisticsAddUp
<1>7. Cardinality({}) = 0
  BY FS_EmptySet
<1> HIDE DEF forwarded, given_up
<1>8. CASE InOrder = {}
  <2>1. Skipped = 0 /\ Cardinality(InOrder) = 0
    BY <1>7, <1>8 DEF Skipped
  <2> QED
    BY <1>3, <1>4, <1>5, <1>6, <1>7, <1>8, <2>1
<1>9. CASE InOrder # {}
  <2> DEFINE high == Max(InOrder)
             ids == {next_expected} \cup InOrder
             n == Cardinality(InOrder)
  <2>1. high \in Nat /\ high \in InOrder /\ \A k \in InOrder : k <= high
    BY <1>4, <1>9, TakenTyped DEF StatisticsInv
  <2>2. Min(ids) = next_expected
    <3>1. Min(ids) \in ids /\ \A k \in ids : Min(ids) <= k
      BY <1>4, MinExists
    <3>2. Min(ids) <= next_expected /\ Min(ids) \in Nat
      BY <1>4, <3>1
    <3>3. next_expected <= Min(ids)
      BY <1>4, <1>6, <3>1
    <3> QED
      BY <1>4, <3>2, <3>3
  <2>3. Skipped = high + 1 - next_expected - n
    BY <1>9, <2>2 DEF Skipped, Orderly
  <2>4. ASSUME NEW id \in left PROVE high + 1 <= id
    <3>1. ~(id <= high)
      BY <1>9, TakenInOrder DEF StatisticsInv
    <3>2. id \in Nat
      BY <1>4
    <3> QED
      BY <2>1, <3>1, <3>2
  <2>5. next_expected' = high + 1
    BY <1>3, <1>9
  <2> HIDE DEF high, ids, n
  <2>6. chunks_forwarded' + chunks_timeout' = high + 1
    BY <1>3, <1>4, <1>5, <1>6, <1>7, <2>1, <2>3 DEF n
  <2> QED
    BY <1>3, <2>4, <2>5, <2>6
<1> QED
  BY <1>8, <1>9

\* Every step of the bounded buffer keeps the statistics.
LEMMA StatisticsStepOK == StatisticsInv /\ [MCNext]_mcvars => StatisticsInv'
<1> SUFFICES ASSUME StatisticsInv, [MCNext]_mcvars PROVE StatisticsInv'
  OBVIOUS
<1>1. BufferInv'
  <2>1. [BufferNext]_bufferVars
    BY DEF MCNext, mcvars, BufferNext, MCHandleAnnouncement, MCHandleChunk, MCDrain, MCAge, Ids
  <2> QED
    BY <2>1, BufferStepOK DEF StatisticsInv
<1>2. SUFFICES ASSUME Orderly'
               PROVE  /\ chunks_forwarded' + chunks_timeout' = next_expected'
                      /\ \A id \in Buffered' : next_expected' <= id
  BY <1>1 DEF StatisticsInv, StatisticsAddUp
<1>3. ASSUME NEW id \in Ids, NEW s, slots' = WithSlot(id, s), Orderly, next_expected <= id,
             UNCHANGED <<next_expected, chunks_forwarded, chunks_timeout>>
      PROVE  /\ chunks_forwarded' + chunks_timeout' = next_expected'
             /\ \A k \in Buffered' : next_expected' <= k
  <2>1. Buffered' = Buffered \cup {id}
    BY <1>3 DEF WithSlot, Buffered
  <2> QED
    BY <1>3, <2>1 DEF StatisticsInv, StatisticsAddUp, Orderly
<1>4. ASSUME NEW id \in Ids, ~(id < next_expected) PROVE next_expected <= id
  BY <1>4 DEF Ids, StatisticsInv, BufferInv, BufferTypeOK
<1>5. ASSUME NEW id \in Ids, MCHandleAnnouncement(id)
      PROVE  /\ chunks_forwarded' + chunks_timeout' = next_expected'
             /\ \A k \in Buffered' : next_expected' <= k
  <2>1. Orderly /\ ~(id < next_expected)
    BY <1>2, <1>5 DEF Orderly, MCHandleAnnouncement, HandleAnnouncement
  <2> QED
    BY <1>3, <1>4, <1>5, <2>1 DEF MCHandleAnnouncement, HandleAnnouncement
<1>6. ASSUME NEW id \in Ids, MCHandleChunk(id)
      PROVE  /\ chunks_forwarded' + chunks_timeout' = next_expected'
             /\ \A k \in Buffered' : next_expected' <= k
  <2>1. Orderly /\ ~(id < next_expected)
    BY <1>2, <1>6 DEF Orderly, MCHandleChunk, HandleChunk
  <2> QED
    BY <1>3, <1>4, <1>6, <2>1 DEF MCHandleChunk, HandleChunk
<1>7. CASE MCDrain
  <2>1. Orderly /\ ~(Cardinality(Buffered) > MaxBufferChunks)
    BY <1>2, <1>7 DEF Orderly, MCDrain, Drain
  <2> QED
    BY <1>7, <2>1, OrderlyDrain DEF MCDrain
<1>8. CASE MCAge \/ UNCHANGED mcvars
  <2>1. Buffered' = Buffered /\ Orderly
    BY <1>2, <1>8 DEF MCAge, Age, Buffered, mcvars, bufferVars, Orderly
  <2> QED
    BY <1>8, <2>1 DEF MCAge, Age, mcvars, bufferVars, StatisticsInv, StatisticsAddUp, Orderly
<1> QED
  BY <1>5, <1>6, <1>7, <1>8 DEF MCNext

\* Without late, repeated or overflowing chunks every id below next_expected was
\* forwarded or counted as timed out, exactly once.
THEOREM StatisticsAreComplete == MCSpec => []StatisticsAddUp
<1>1. MCInit => StatisticsInv
  <2> SUFFICES ASSUME MCInit PROVE StatisticsInv
    OBVIOUS
  <2>1. BufferInv
    BY BufferInitOK DEF MCInit
  <2> QED
    BY <2>1 DEF MCInit, BufferInit, StatisticsInv, StatisticsAddUp, Buffered
<1>2. StatisticsInv => StatisticsAddUp
  BY DEF StatisticsInv, StatisticsAddUp, Orderly
<1> QED
  BY <1>1, <1>2, StatisticsStepOK, PTL DEF MCSpec
=============================================================================
