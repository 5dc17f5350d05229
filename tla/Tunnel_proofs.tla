----------------------------- MODULE Tunnel_proofs -----------------------------
(***************************************************************************)
(* The sending side of the data path for any number of links, any packets, *)
(* any capacity of the channels and any bandwidth-delay products.          *)
(***************************************************************************)
EXTENDS TunnelMC, SequenceTheorems, Aggregates

\* Chunks of set S have different ids, which follow the reading of their packets.
Following(S) ==
    \A a, b \in S : a # b =>
        /\ a.id # b.id
        /\ a.id < b.id => \A p \in Range(a.packets), q \in Range(b.packets) : p < q

Bounded(c) == c.size <= MaxChunkSize \/ Len(c.packets) = 1

\* With n packets read, the chunks of W are finished and c collects what comes.
InOrder(W, c, n) ==
    /\ W \subseteq Chunk /\ c \in Chunk /\ n \in Nat
    /\ \A a \in W : a.id < c.id /\ Bounded(a)
    /\ Bounded(c) /\ (c.size = 0 => c.packets = <<>>)
    /\ \A a \in W \cup {c} : \A p \in Range(a.packets) : p <= n
    /\ Following(W \cup {c})

\* The types of the sending side, on which alone the invariant depends, and the others.
SendTypeOK ==
    /\ current_chunk \in Chunk /\ next_chunk_id \in Nat \ {0}
    /\ optimal_chunk_size \in MinChunkSize .. MaxChunkSize
    /\ link_bdp \in [Links -> Nat] /\ expired \in BOOLEAN
    /\ read \in Nat
    /\ {reader, flusher} \subseteq Chunk \cup {NoChunk}
    /\ to_links \in Seq(Chunk) /\ Len(to_links) <= ChannelCapacity

OtherTypeOK ==
    /\ known \subseteq Links
    /\ wire \subseteq [link : Links, chunk : Chunk]
    /\ receiver \in [Links -> Chunk \cup {NoChunk}]
    /\ from_links \in Seq(Chunk) /\ Len(from_links) <= ChannelCapacity
    /\ written \in Seq(Nat)

SendInv ==
    /\ SendTypeOK
    /\ InOrder(Waiting, current_chunk, read)
    /\ next_chunk_id = current_chunk.id + 1

PathInv == SendInv /\ OtherTypeOK

\* Of n packets each was taken by the sender, as those of A, or is once in one chunk of H.
Accounted(A, H, n) ==
    /\ 1 .. n = A \cup UNION {Range(c.packets) : c \in H}
    /\ \A c \in H : A \cap Range(c.packets) = {} /\ IsInjective(c.packets)
    /\ Cardinality(A) + Lengths(H) = n

\* A finished chunk waits in one place.
OwnPlaces ==
    /\ reader # NoChunk => reader # flusher /\ reader \notin Range(to_links)
    /\ flusher # NoChunk => flusher \notin Range(to_links)
    /\ IsInjective(to_links)

AccountInv == Accounted(attempted, Held, read) /\ OwnPlaces

-----------------------------------------------------------------------------
(* Chunks *)

\* The elements of a sequence with one more at its end, and with one fewer at its start.
LEMMA RangeOfAppend ==
    ASSUME NEW S, NEW s \in Seq(S), NEW e \in S
    PROVE  Append(s, e) \in Seq(S) /\ Len(Append(s, e)) = Len(s) + 1
           /\ Range(Append(s, e)) = Range(s) \cup {e}
<1>1. /\ Append(s, e) \in Seq(S) /\ Len(Append(s, e)) = Len(s) + 1
      /\ \A i \in 1 .. Len(s) : Append(s, e)[i] = s[i]
      /\ Append(s, e)[Len(s) + 1] = e
  BY AppendProperties
<1>2. /\ Len(s) \in Nat /\ DOMAIN s = 1 .. Len(s)
      /\ DOMAIN Append(s, e) = 1 .. Len(s) + 1
  BY <1>1, LenProperties
<1>3. \A i \in 1 .. Len(s) + 1 : i \in 1 .. Len(s) \/ i = Len(s) + 1
  BY <1>2
<1>4. Len(s) + 1 \in 1 .. Len(s) + 1 /\ \A i \in 1 .. Len(s) : i \in 1 .. Len(s) + 1
  BY <1>2
<1>5. Range(Append(s, e)) = Range(s) \cup {e}
  BY <1>1, <1>2, <1>3, <1>4 DEF Range
<1> QED
  BY <1>1, <1>5

LEMMA RangeOfTail ==
    ASSUME NEW S, NEW s \in Seq(S), s # <<>>
    PROVE  /\ Tail(s) \in Seq(S) /\ Len(Tail(s)) = Len(s) - 1 /\ Len(s) \in Nat
           /\ Range(Tail(s)) \subseteq Range(s)
           /\ Head(s) \in S /\ Head(s) \in Range(s)
<1>1. /\ Tail(s) \in Seq(S) /\ Len(Tail(s)) = Len(s) - 1 /\ Head(s) \in S
      /\ \A i \in 1 .. Len(Tail(s)) : Tail(s)[i] = s[i + 1]
      /\ Head(s) = s[1]
  BY HeadTailProperties
<1>2. /\ Len(s) \in Nat /\ Len(s) # 0 /\ DOMAIN s = 1 .. Len(s)
      /\ DOMAIN Tail(s) = 1 .. Len(s) - 1
  BY <1>1, LenProperties, EmptySeq
<1>3. 1 \in 1 .. Len(s) /\ \A i \in 1 .. Len(s) - 1 : i + 1 \in 1 .. Len(s)
  BY <1>2
<1> QED
  BY <1>1, <1>2, <1>3 DEF Range

LEMMA EmptyChunkTyped ==
    ASSUME NEW id \in Nat
    PROVE  /\ EmptyChunk(id) \in Chunk /\ EmptyChunk(id).id = id
           /\ EmptyChunk(id).size = 0 /\ EmptyChunk(id).packets = <<>>
           /\ Range(<<>>) = {}
<1>1. <<>> \in Seq(Nat) /\ Range(<<>>) = {}
  BY EmptySeq DEF Range
<1> QED
  BY <1>1 DEF EmptyChunk, Chunk

LEMMA WithTyped ==
    ASSUME NEW c \in Chunk, NEW n \in Nat, NEW size \in Nat
    PROVE  /\ With(c, n, size) \in Chunk /\ With(c, n, size).id = c.id
           /\ With(c, n, size).size = c.size + Prefix + size
           /\ With(c, n, size).packets = Append(c.packets, n)
           /\ Len(Append(c.packets, n)) = Len(c.packets) + 1
           /\ Range(Append(c.packets, n)) = Range(c.packets) \cup {n}
<1> DEFINE more == Append(c.packets, n)
           total == c.size + Prefix + size
<1>1. /\ c.packets \in Seq(Nat) /\ c.size \in Nat /\ c.id \in Nat
  BY DEF Chunk
<1>2. /\ more \in Seq(Nat) /\ Len(more) = Len(c.packets) + 1
      /\ Range(more) = Range(c.packets) \cup {n} /\ total \in Nat
  BY <1>1, RangeOfAppend DEF Prefix
<1>3. With(c, n, size) = [c EXCEPT !.packets = more, !.size = total]
  BY DEF With
<1> HIDE DEF more, total
<1>4. LET w == [c EXCEPT !.packets = more, !.size = total]
      IN w \in Chunk /\ w.id = c.id /\ w.size = total /\ w.packets = more
  BY <1>1, <1>2 DEF Chunk
<1> QED
  BY <1>2, <1>3, <1>4 DEF more, total

\* Fewer finished chunks are as good.
LEMMA FewerInOrder ==
    ASSUME NEW W, NEW V \in SUBSET W, NEW c, NEW n, InOrder(W, c, n)
    PROVE  InOrder(V, c, n)
<1>1. V \cup {c} \subseteq W \cup {c}
  OBVIOUS
<1> QED
  BY <1>1 DEF InOrder, Following

\* The chunk that collects is finished and the next one starts (finalize_current_chunk).
LEMMA FinishInOrder ==
    ASSUME NEW W, NEW c, NEW n, InOrder(W, c, n)
    PROVE  InOrder(W \cup {c}, EmptyChunk(c.id + 1), n)
<1> DEFINE e == EmptyChunk(c.id + 1)
<1>1. c.id \in Nat /\ c.id + 1 \in Nat /\ \A a \in W : a.id \in Nat
  BY DEF InOrder, Chunk
<1>2. e \in Chunk /\ e.id = c.id + 1 /\ e.size = 0 /\ e.packets = <<>> /\ Range(<<>>) = {}
  BY <1>1, EmptyChunkTyped
<1> HIDE DEF e
<1>3. \A a \in W \cup {c} : a.id < e.id /\ a.id # e.id /\ ~(e.id < a.id)
  BY <1>1, <1>2 DEF InOrder
<1>4. Bounded(e)
  <2>1. MaxChunkSize \in Nat
    BY AggregatorAssumption
  <2> QED BY <1>2, <2>1 DEF Bounded
<1>5. Following((W \cup {c}) \cup {e})
  <2>1. Following(W \cup {c})
    BY DEF InOrder
  <2>2. ASSUME NEW a \in (W \cup {c}) \cup {e}, NEW b \in (W \cup {c}) \cup {e}, a # b
        PROVE  /\ a.id # b.id
               /\ a.id < b.id => \A p \in Range(a.packets), q \in Range(b.packets) : p < q
    <3>1. CASE a \in W \cup {c} /\ b \in W \cup {c}
      BY <2>1, <2>2, <3>1 DEF Following
    <3>2. CASE a = e
      BY <1>2, <1>3, <2>2, <3>2
    <3>3. CASE b = e
      BY <1>2, <1>3, <2>2, <3>3
    <3> QED
      BY <3>1, <3>2, <3>3
  <2> QED
    BY <2>2 DEF Following
<1>6. \A a \in (W \cup {c}) \cup {e} : \A p \in Range(a.packets) : p <= n
  BY <1>2 DEF InOrder
<1> QED
  BY <1>2, <1>3, <1>4, <1>5, <1>6 DEF InOrder, e

\* The chunk that collects takes the packet read next, which fits or is the first.
LEMMA AddInOrder ==
    ASSUME NEW W, NEW c, NEW n, InOrder(W, c, n), NEW size \in Nat,
           c.size = 0 \/ c.size + Prefix + size <= MaxChunkSize
    PROVE  InOrder(W, With(c, n + 1, size), n + 1)
<1> DEFINE m == n + 1
           w == With(c, m, size)
<1>1. /\ c \in Chunk /\ W \subseteq Chunk /\ n \in Nat /\ n + 1 \in Nat
      /\ c.packets \in Seq(Nat) /\ c.size \in Nat /\ c.id \in Nat
      /\ \A a \in W : a.id \in Nat /\ a.packets \in Seq(Nat)
  BY DEF InOrder, Chunk
<1>2. /\ w \in Chunk /\ w.id = c.id /\ w.size = c.size + Prefix + size
      /\ w.packets = Append(c.packets, m)
      /\ Len(w.packets) = Len(c.packets) + 1
      /\ Range(w.packets) = Range(c.packets) \cup {m}
  <2>1. m \in Nat
    BY <1>1
  <2> HIDE DEF m
  <2>2. /\ w \in Chunk /\ w.id = c.id /\ w.size = c.size + Prefix + size
        /\ w.packets = Append(c.packets, m)
        /\ Len(Append(c.packets, m)) = Len(c.packets) + 1
        /\ Range(Append(c.packets, m)) = Range(c.packets) \cup {m}
    BY <1>1, <2>1, WithTyped, ZenonT(30)
  <2> QED
    BY <2>2
<1> HIDE DEF w
<1>3. Bounded(w) /\ w.size # 0
  <2>1. CASE c.size = 0
    <3>1. c.packets = <<>> /\ Len(<<>>) = 0
      BY <2>1, EmptySeq DEF InOrder
    <3> QED
      BY <1>1, <1>2, <3>1 DEF Bounded, Prefix
  <2>2. CASE c.size # 0
    BY <1>1, <1>2, <2>2 DEF Bounded, Prefix
  <2> QED BY <2>1, <2>2
<1>4. \A a \in W : a.id < w.id /\ a.id # w.id /\ ~(w.id < a.id) /\ Bounded(a) /\ a # c
  BY <1>1, <1>2 DEF InOrder
<1>5. \A a \in W \cup {c} : \A p \in Range(a.packets) : p \in Nat /\ p <= n
  <2>1. \A a \in W \cup {c} : Range(a.packets) \subseteq Nat
    BY <1>1, SeqDef DEF Range
  <2> QED BY <2>1 DEF InOrder
<1>6. ASSUME NEW a \in W \cup {w}, NEW p \in Range(a.packets)
      PROVE  p <= m
  <2>1. p = m \/ (p \in Nat /\ p <= n)
    BY <1>2, <1>5
  <2> QED BY <1>1, <2>1
<1>7. Following(W \cup {w})
  <2>1. Following(W \cup {c})
    BY DEF InOrder
  <2>2. ASSUME NEW a \in W
        PROVE  \A p \in Range(a.packets), q \in Range(w.packets) : p < q
    <3>1. a.id < c.id /\ a # c
      BY <1>2, <1>4
    <3>2. \A p \in Range(a.packets), q \in Range(c.packets) : p < q
      BY <2>1, <3>1 DEF Following
    <3>3. ASSUME NEW p \in Range(a.packets) PROVE p < m
      <4>1. p \in Nat /\ p <= n
        BY <1>5
      <4> QED BY <1>1, <4>1
    <3> QED
      BY <1>2, <3>2, <3>3
  <2>3. ASSUME NEW a \in W \cup {w}, NEW b \in W \cup {w}, a # b
        PROVE  /\ a.id # b.id
               /\ a.id < b.id => \A p \in Range(a.packets), q \in Range(b.packets) : p < q
    <3>1. CASE a \in W /\ b \in W
      BY <2>1, <2>3, <3>1 DEF Following
    <3>2. CASE a \in W /\ b = w
      BY <1>4, <2>2, <3>2
    <3>3. CASE a = w /\ b \in W
      BY <1>4, <3>3
    <3> QED
      BY <2>3, <3>1, <3>2, <3>3
  <2> QED
    BY <2>3 DEF Following
<1>8. \A a \in W : a.id < w.id /\ Bounded(a)
  BY <1>4
<1>9. m \in Nat
  BY <1>1
<1> QED
  BY <1>1, <1>2, <1>3, <1>6, <1>7, <1>8, <1>9 DEF InOrder, w

-----------------------------------------------------------------------------
(* The aggregator *)

\* recalculate_chunk_size stays between the configured sizes.
LEMMA OptimalInBounds ==
    ASSUME NEW bdp \in [Links -> Nat], optimal_chunk_size \in MinChunkSize .. MaxChunkSize
    PROVE  OptimalFor(bdp) \in MinChunkSize .. MaxChunkSize
<1> DEFINE products == {bdp[l] : l \in Links}
           largest == Max(products)
           target == (BdpMultiplier * largest) \div 100
           atLeast == Max({target, MinChunkSize})
<1>1. largest \in Nat
  <2>1. products \subseteq Nat /\ products # {}
    BY AggregatorAssumption
  <2>2. IsFiniteSet(products)
    <3>1. bdp \in Surjection(Links, products)
      BY DEF Surjection
    <3> QED
      BY <3>1, FS_Surjection, AggregatorAssumption
  <2> HIDE DEF products
  <2>3. Max(products) \in products
    BY <2>1, <2>2, MaxExists
  <2> QED
    BY <2>1, <2>3
<1>2. OptimalFor(bdp) = IF largest > 0 THEN Min({atLeast, MaxChunkSize})
                                       ELSE optimal_chunk_size
  BY DEF OptimalFor
<1>3. /\ MinChunkSize \in Nat /\ MaxChunkSize \in Nat /\ MinChunkSize <= MaxChunkSize
      /\ BdpMultiplier \in Nat
  BY AggregatorAssumption
<1> HIDE DEF largest
<1>4. target \in Nat
  <2>1. BdpMultiplier * largest \in Nat
    BY <1>1, <1>3
  <2> DEFINE product == BdpMultiplier * largest
  <2> HIDE DEF product
  <2>2. product \div 100 \in Nat
    BY <2>1 DEF product
  <2> QED BY <2>2 DEF product
<1> HIDE DEF target
<1>5. atLeast \in Nat /\ atLeast >= MinChunkSize
  BY <1>3, <1>4, MaxOfTwo
<1> HIDE DEF atLeast
<1>6. Min({atLeast, MaxChunkSize}) \in MinChunkSize .. MaxChunkSize
  BY <1>3, <1>5, MinOfTwo
<1> QED
  BY <1>2, <1>6

\* Waiting chunks of the path, when the reader or the timer took one more or none.
LEMMA TakenIsWaiting ==
    ASSUME NEW c, NEW W,
           W = ({reader, flusher} \ {NoChunk}) \cup Range(to_links), to_links' = to_links,
           \/ reader = NoChunk /\ reader' = c /\ flusher' = flusher
           \/ flusher = NoChunk /\ flusher' = c /\ reader' = reader
    PROVE  Waiting' \subseteq W \cup ({c} \ {NoChunk})
BY DEF Waiting

\* An aggregator that has finalized its chunk c, with its new chunk d.
LEMMA FinalizedOK ==
    ASSUME NEW d, Finalize(d), next_chunk_id = current_chunk.id + 1
    PROVE  /\ current_chunk' = d /\ next_chunk_id' = next_chunk_id + 1
           /\ expired' = FALSE /\ UNCHANGED <<optimal_chunk_size, link_bdp>>
BY DEF Finalize

\* The chunk that is handed over has the id it was made with.
LEMMA FinalizedKeepsId ==
    ASSUME NEW c \in Chunk, next_chunk_id = c.id + 1
    PROVE  Finalized(c) = c
<1>1. c.id \in Nat /\ next_chunk_id - 1 = c.id
  BY DEF Chunk
<1>2. Finalized(c) = [c EXCEPT !.id = c.id]
  BY <1>1 DEF Finalized
<1> QED
  BY <1>2 DEF Chunk

\* The chunk that collects has been finished, and another begun.
LEMMA HandOver ==
    ASSUME NEW W, NEW V, NEW c, NEW n, InOrder(W, c, n), V \subseteq W \cup {c}
    PROVE  InOrder(V, EmptyChunk(c.id + 1), n)
BY FinishInOrder, FewerInOrder

-----------------------------------------------------------------------------
(* The steps *)

\* Steps of the links and the receiving side keep it, steps of the sending side the others.
LEMMA SendInvUnchanged ==
    ASSUME SendInv, UNCHANGED <<aggregatorVars, sendSide>>
    PROVE  SendInv'
BY DEF SendInv, SendTypeOK, InOrder, Waiting, aggregatorVars, sendSide, Following

LEMMA OtherUnchanged ==
    ASSUME OtherTypeOK, UNCHANGED <<known, wire, receiveSide>>
    PROVE  OtherTypeOK'
BY DEF OtherTypeOK, receiveSide

\* The aggregator after add_packet, and what the reader has in hand.
LEMMA ReadPacketOK ==
    ASSUME SendInv, NEW size \in Nat, ReadPacket(size)
    PROVE  SendInv'
<1> DEFINE c == current_chunk
           n == read + 1
           W == Waiting
<1>1. /\ reader = NoChunk /\ read' = n /\ AddPacket(n, size)
      /\ reader' = ChunkOfAdd(n, size) /\ UNCHANGED <<flusher, to_links>>
  BY DEF ReadPacket
<1>2. /\ c \in Chunk /\ c.id \in Nat /\ c.size \in Nat /\ read \in Nat /\ n \in Nat
      /\ next_chunk_id = c.id + 1 /\ InOrder(W, c, read)
      /\ optimal_chunk_size \in MinChunkSize .. MaxChunkSize
      /\ MinChunkSize \in Nat /\ MaxChunkSize \in Nat
      /\ {reader, flusher} \subseteq Chunk \cup {NoChunk}
      /\ to_links \in Seq(Chunk) /\ Len(to_links) <= ChannelCapacity
      /\ link_bdp \in [Links -> Nat] /\ expired \in BOOLEAN
  BY AggregatorAssumption DEF SendInv, SendTypeOK, Chunk
<1>3. Empty <=> c.size = 0
  BY DEF Empty
<1>4. W = ({reader, flusher} \ {NoChunk}) \cup Range(to_links)
  BY DEF Waiting
<1>5. UNCHANGED <<optimal_chunk_size, link_bdp>> /\ (expired' = FALSE \/ expired' = expired)
  BY <1>1 DEF AddPacket, Finalize
<1>6. CASE Overflows(size)
  <2>1. /\ current_chunk' = With(EmptyChunk(c.id + 1), n, size)
        /\ next_chunk_id' = next_chunk_id + 1 /\ reader' = Finalized(c)
    BY <1>1, <1>2, <1>6 DEF AddPacket, Finalize, ChunkOfAdd, Fills
  <2>2. reader' = c
    BY <1>2, <2>1, FinalizedKeepsId
  <2>3. Waiting' \subseteq W \cup {c}
    BY <1>1, <1>4, <2>2, TakenIsWaiting
  <2>4. InOrder(Waiting', EmptyChunk(c.id + 1), read)
    BY <1>2, <2>3, HandOver
  <2>5. /\ EmptyChunk(c.id + 1).size = 0 /\ EmptyChunk(c.id + 1).id = c.id + 1
        /\ EmptyChunk(c.id + 1) \in Chunk
    BY <1>2, EmptyChunkTyped
  <2>6. InOrder(Waiting', current_chunk', read')
    BY <1>1, <2>1, <2>4, <2>5, AddInOrder
  <2>7. current_chunk' \in Chunk /\ current_chunk'.id = c.id + 1
    BY <1>2, <2>1, <2>5, WithTyped, ZenonT(30)
  <2>8. next_chunk_id' = current_chunk'.id + 1 /\ next_chunk_id' \in Nat \ {0}
    BY <1>2, <2>1, <2>7
  <2>9. SendTypeOK'
    BY <1>1, <1>2, <1>5, <2>2, <2>7, <2>8 DEF SendTypeOK
  <2> QED
    BY <2>6, <2>8, <2>9 DEF SendInv
<1>7. CASE ~Overflows(size)
  <2> DEFINE w == With(c, n, size)
  <2>1. c.size = 0 \/ c.size + Prefix + size <= MaxChunkSize
    BY <1>2, <1>3, <1>7 DEF Overflows, Prefix
  <2>2. InOrder(W, w, n)
    BY <1>2, <2>1, AddInOrder
  <2>3. w \in Chunk /\ w.id = c.id
    BY <1>2, WithTyped, ZenonT(30)
  <2> HIDE DEF w
  <2>4. CASE Fills(size)
    <3>1. /\ current_chunk' = EmptyChunk(w.id + 1)
          /\ next_chunk_id' = next_chunk_id + 1 /\ reader' = Finalized(w)
      BY <1>1, <1>2, <1>7, <2>3, <2>4 DEF AddPacket, Finalize, ChunkOfAdd, w
    <3>2. reader' = w
      BY <1>2, <2>3, <3>1, FinalizedKeepsId
    <3>3. Waiting' \subseteq W \cup {w}
      BY <1>1, <1>4, <3>2, TakenIsWaiting
    <3>4. InOrder(Waiting', current_chunk', read')
      BY <1>1, <2>2, <3>1, <3>3, HandOver
    <3>5. current_chunk' \in Chunk /\ current_chunk'.id = c.id + 1
      BY <1>2, <2>3, <3>1, EmptyChunkTyped
    <3>6. next_chunk_id' = current_chunk'.id + 1 /\ next_chunk_id' \in Nat \ {0}
      BY <1>2, <3>1, <3>5
    <3>7. SendTypeOK'
      BY <1>1, <1>2, <1>5, <2>3, <3>2, <3>5, <3>6 DEF SendTypeOK
    <3> QED
      BY <3>4, <3>6, <3>7 DEF SendInv
  <2>5. CASE ~Fills(size)
    <3>1. /\ current_chunk' = w /\ next_chunk_id' = next_chunk_id /\ reader' = NoChunk
      BY <1>1, <1>7, <2>5 DEF AddPacket, ChunkOfAdd, w
    <3>2. Waiting' \subseteq W
      BY <1>1, <1>4, <3>1, TakenIsWaiting
    <3>3. InOrder(Waiting', current_chunk', read')
      BY <1>1, <2>2, <3>1, <3>2, FewerInOrder
    <3>4. SendTypeOK'
      <4>1. next_chunk_id' \in Nat \ {0} /\ read' \in Nat
        BY <1>1, <1>2, <3>1
      <4>2. current_chunk' \in Chunk /\ {reader', flusher'} \subseteq Chunk \cup {NoChunk}
        BY <1>1, <1>2, <2>3, <3>1
      <4>3. to_links' \in Seq(Chunk) /\ Len(to_links') <= ChannelCapacity
        BY <1>1, <1>2
      <4> QED
        BY <1>2, <1>5, <4>1, <4>2, <4>3 DEF SendTypeOK
    <3>5. next_chunk_id' = current_chunk'.id + 1
      BY <1>2, <2>3, <3>1
    <3> QED
      BY <3>3, <3>4, <3>5 DEF SendInv
  <2> QED
    BY <2>4, <2>5
<1> QED
  BY <1>6, <1>7

\* check_timeout hands over a chunk that is due.
LEMMA TimerFiresOK ==
    ASSUME SendInv, TimerFires
    PROVE  SendInv'
<1> DEFINE c == current_chunk
<1>1. /\ flusher = NoChunk /\ CheckTimeout /\ flusher' = ChunkOfTimeout
      /\ UNCHANGED <<read, reader, to_links>>
  BY DEF TimerFires
<1>2. /\ c \in Chunk /\ c.id \in Nat /\ next_chunk_id = c.id + 1
      /\ InOrder(Waiting, c, read) /\ SendTypeOK
  BY DEF SendInv, SendTypeOK, Chunk
<1>3. Waiting = ({reader, flusher} \ {NoChunk}) \cup Range(to_links)
  BY DEF Waiting
<1>4. CASE Due
  <2>1. /\ Finalize(EmptyChunk(c.id + 1)) /\ flusher' = c
    BY <1>1, <1>2, <1>4, FinalizedKeepsId DEF CheckTimeout, ChunkOfTimeout
  <2>2. Waiting' \subseteq Waiting \cup {c}
    BY <1>1, <1>3, <2>1, TakenIsWaiting
  <2>3. InOrder(Waiting', current_chunk', read')
    BY <1>1, <1>2, <2>1, <2>2, HandOver DEF Finalize
  <2>4. current_chunk' \in Chunk /\ current_chunk'.id = c.id + 1
    BY <1>2, <2>1, EmptyChunkTyped DEF Finalize
  <2>5. next_chunk_id' = current_chunk'.id + 1 /\ next_chunk_id' \in Nat \ {0}
    BY <1>2, <2>1, <2>4 DEF Finalize
  <2>6. SendTypeOK'
    BY <1>1, <1>2, <2>1, <2>4, <2>5 DEF SendTypeOK, Finalize
  <2> QED
    BY <2>3, <2>5, <2>6 DEF SendInv
<1>5. CASE ~Due
  <2>1. UNCHANGED <<aggregatorVars, sendSide>>
    BY <1>1, <1>5 DEF CheckTimeout, ChunkOfTimeout, sendSide
  <2> QED
    BY <2>1, SendInvUnchanged
<1> QED
  BY <1>4, <1>5

\* A chunk goes into the channel, or leaves it.
LEMMA ChannelOK ==
    ASSUME SendInv, UNCHANGED <<aggregatorVars, read>>,
           \/ /\ reader # NoChunk /\ Room(to_links) /\ reader' = NoChunk
              /\ to_links' = Append(to_links, reader) /\ flusher' = flusher
           \/ /\ flusher # NoChunk /\ Room(to_links) /\ flusher' = NoChunk
              /\ to_links' = Append(to_links, flusher) /\ reader' = reader
           \/ /\ to_links # <<>> /\ to_links' = Tail(to_links)
              /\ reader' = reader /\ flusher' = flusher
    PROVE  SendInv'
<1>1. /\ to_links \in Seq(Chunk) /\ {reader, flusher} \subseteq Chunk \cup {NoChunk}
      /\ Len(to_links) <= ChannelCapacity /\ ChannelCapacity \in Nat
      /\ Len(to_links) \in Nat
  BY ChannelAssumption, LenProperties DEF SendInv, SendTypeOK
<1>2. /\ to_links' \in Seq(Chunk) /\ Len(to_links') <= ChannelCapacity
      /\ {reader', flusher'} \subseteq Chunk \cup {NoChunk}
      /\ Waiting' \subseteq Waiting
  <2>1. ASSUME NEW c \in Chunk, Room(to_links), to_links' = Append(to_links, c)
        PROVE  /\ to_links' \in Seq(Chunk) /\ Len(to_links') <= ChannelCapacity
               /\ Range(to_links') = Range(to_links) \cup {c}
    BY <1>1, <2>1, RangeOfAppend DEF Room
  <2>2. CASE /\ reader # NoChunk /\ Room(to_links) /\ reader' = NoChunk
             /\ to_links' = Append(to_links, reader) /\ flusher' = flusher
    BY <1>1, <2>1, <2>2 DEF Waiting
  <2>3. CASE /\ flusher # NoChunk /\ Room(to_links) /\ flusher' = NoChunk
             /\ to_links' = Append(to_links, flusher) /\ reader' = reader
    BY <1>1, <2>1, <2>3 DEF Waiting
  <2>4. CASE /\ to_links # <<>> /\ to_links' = Tail(to_links)
             /\ reader' = reader /\ flusher' = flusher
    <3>1. /\ Tail(to_links) \in Seq(Chunk) /\ Len(Tail(to_links)) = Len(to_links) - 1
          /\ Range(Tail(to_links)) \subseteq Range(to_links)
      BY <1>1, <2>4, RangeOfTail
    <3>2. Len(to_links') <= ChannelCapacity
      <4> DEFINE before == Len(to_links)
                 after == Len(to_links')
      <4>1. after = before - 1
        BY <2>4, <3>1, Zenon
      <4>2. before \in Nat /\ before <= ChannelCapacity /\ ChannelCapacity \in Nat
        BY <1>1
      <4> HIDE DEF before, after
      <4>3. after <= ChannelCapacity
        BY <4>1, <4>2
      <4> QED
        BY <4>3 DEF after
    <3>3. Waiting' \subseteq Waiting
      BY <2>4, <3>1 DEF Waiting
    <3> QED
      BY <1>1, <2>4, <3>1, <3>2, <3>3
  <2> QED
    BY <2>2, <2>3, <2>4
<1>3. InOrder(Waiting', current_chunk, read)
  BY <1>2, FewerInOrder DEF SendInv
<1>4. SendTypeOK'
  BY <1>2 DEF SendInv, SendTypeOK, aggregatorVars
<1>5. current_chunk' = current_chunk /\ read' = read /\ next_chunk_id' = next_chunk_id
  BY DEF aggregatorVars
<1> QED
  BY <1>3, <1>4, <1>5 DEF SendInv

\* The statistics task and the clock touch no chunk.
LEMMA SizesOK ==
    ASSUME SendInv, UNCHANGED sendSide,
           UNCHANGED <<current_chunk, next_chunk_id>>,
           \/ \E l \in Links, bdp \in Nat : UpdateLinkStats(l, bdp)
           \/ Expire
    PROVE  SendInv'
<1>1. /\ link_bdp' \in [Links -> Nat] /\ expired' \in BOOLEAN
      /\ optimal_chunk_size' \in MinChunkSize .. MaxChunkSize
  <2>1. ASSUME NEW l \in Links, NEW bdp \in Nat, UpdateLinkStats(l, bdp)
        PROVE  /\ link_bdp' \in [Links -> Nat] /\ expired' \in BOOLEAN
               /\ optimal_chunk_size' \in MinChunkSize .. MaxChunkSize
    <3>1. link_bdp' \in [Links -> Nat]
      BY <2>1 DEF UpdateLinkStats, SendInv, SendTypeOK
    <3> QED
      BY <2>1, <3>1, OptimalInBounds DEF UpdateLinkStats, SendInv, SendTypeOK
  <2>2. CASE Expire
    BY <2>2 DEF Expire, SendInv, SendTypeOK
  <2> QED
    BY <2>1, <2>2
<1>2. SendTypeOK'
  BY <1>1 DEF SendInv, SendTypeOK, sendSide
<1>3. Waiting' = Waiting /\ read' = read
  BY DEF Waiting, sendSide
<1> QED
  BY <1>2, <1>3 DEF SendInv

\* The chunk sender puts a chunk on a wire, or drops it.
LEMMA SendChunkOK ==
    ASSUME PathInv, NEW l \in Links, SendChunk(l)
    PROVE  PathInv'
<1>1. /\ to_links # <<>> /\ to_links' = Tail(to_links)
      /\ \/ wire' = wire \cup {[link |-> l, chunk |-> Head(to_links)]}
         \/ wire' = wire
      /\ UNCHANGED <<aggregatorVars, read, reader, flusher, known, receiveSide>>
  BY DEF SendChunk
<1>2. SendInv'
  BY <1>1, ChannelOK DEF PathInv
<1>3. Head(to_links) \in Chunk
  BY <1>1, RangeOfTail DEF PathInv, SendInv, SendTypeOK
<1>4. OtherTypeOK'
  BY <1>1, <1>3 DEF PathInv, OtherTypeOK, receiveSide
<1> QED
  BY <1>2, <1>4 DEF PathInv

\* A link receiver takes a datagram.
LEMMA ReceiveOK ==
    ASSUME PathInv, NEW m \in wire, Receive(m)
    PROVE  PathInv'
<1>1. /\ wire' \subseteq wire /\ receiver' = [receiver EXCEPT ![m.link] = m.chunk]
      /\ UNCHANGED <<aggregatorVars, sendSide, known, from_links, written>>
  BY DEF Receive
<1>2. m.link \in Links /\ m.chunk \in Chunk
  BY DEF PathInv, OtherTypeOK
<1>3. receiver' \in [Links -> Chunk \cup {NoChunk}]
  BY <1>1, <1>2 DEF PathInv, OtherTypeOK
<1>4. OtherTypeOK'
  BY <1>1, <1>3 DEF PathInv, OtherTypeOK
<1> QED
  BY <1>1, <1>4, SendInvUnchanged DEF PathInv

\* A link receiver hands its chunk to the TUN writer.
LEMMA ReceiverSendsOK ==
    ASSUME PathInv, NEW l \in Links, ReceiverSends(l)
    PROVE  PathInv'
<1>1. /\ receiver[l] # NoChunk /\ Room(from_links)
      /\ from_links' = Append(from_links, receiver[l])
      /\ receiver' = [receiver EXCEPT ![l] = NoChunk]
      /\ UNCHANGED <<aggregatorVars, sendSide, known, wire, written>>
  BY DEF ReceiverSends
<1>2. /\ receiver[l] \in Chunk /\ from_links \in Seq(Chunk)
      /\ receiver' \in [Links -> Chunk \cup {NoChunk}]
  BY <1>1 DEF PathInv, OtherTypeOK
<1>3. from_links' \in Seq(Chunk) /\ Len(from_links') = Len(from_links) + 1
  BY <1>1, <1>2, RangeOfAppend
<1>4. Len(from_links') <= ChannelCapacity
  <2>1. Len(from_links) \in Nat /\ Len(from_links) < ChannelCapacity
    BY <1>1, <1>2, LenProperties DEF Room
  <2> QED BY <1>3, <2>1, ChannelAssumption
<1>5. OtherTypeOK'
  BY <1>1, <1>2, <1>3, <1>4 DEF PathInv, OtherTypeOK
<1> QED
  BY <1>1, <1>5, SendInvUnchanged DEF PathInv

\* The TUN writer writes the packets of a chunk.
LEMMA WriteChunkOK ==
    ASSUME PathInv, WriteChunk
    PROVE  PathInv'
<1>1. /\ from_links # <<>> /\ from_links' = Tail(from_links)
      /\ written' = written \o Head(from_links).packets
      /\ UNCHANGED <<aggregatorVars, sendSide, known, wire, receiver>>
  BY DEF WriteChunk
<1>2. from_links \in Seq(Chunk) /\ written \in Seq(Nat)
  BY DEF PathInv, OtherTypeOK
<1>3. /\ from_links' \in Seq(Chunk) /\ Len(from_links') = Len(from_links) - 1
      /\ Head(from_links) \in Chunk
  <2>1. /\ Tail(from_links) \in Seq(Chunk) /\ Len(Tail(from_links)) = Len(from_links) - 1
        /\ Head(from_links) \in Chunk
    BY <1>1, <1>2, RangeOfTail
  <2> QED
    BY <1>1, <2>1, Zenon
<1>4. Len(from_links') <= ChannelCapacity
  <2> DEFINE before == Len(from_links)
             after == Len(from_links')
  <2>1. after = before - 1
    BY <1>3
  <2>2. before \in Nat /\ before <= ChannelCapacity /\ ChannelCapacity \in Nat
    BY <1>2, LenProperties, ChannelAssumption DEF PathInv, OtherTypeOK
  <2> HIDE DEF before, after
  <2>3. after <= ChannelCapacity
    BY <2>1, <2>2
  <2> QED
    BY <2>3 DEF after
<1>5. written' \in Seq(Nat)
  <2>1. Head(from_links).packets \in Seq(Nat)
    BY <1>3 DEF Chunk
  <2> QED
    BY <1>1, <1>2, <2>1, ConcatProperties
<1>6. OtherTypeOK'
  BY <1>1, <1>3, <1>4, <1>5 DEF PathInv, OtherTypeOK
<1> QED
  BY <1>1, <1>6, SendInvUnchanged DEF PathInv

\* Nothing has been read, and nothing is under way.
LEMMA TunnelInitOK == TunnelInit => PathInv
<1> SUFFICES ASSUME TunnelInit PROVE PathInv
  OBVIOUS
<1>1. /\ current_chunk = EmptyChunk(0) /\ next_chunk_id = 1
      /\ optimal_chunk_size = MinChunkSize /\ link_bdp = [l \in Links |-> 0]
      /\ expired = FALSE /\ read = 0 /\ reader = NoChunk /\ flusher = NoChunk
      /\ to_links = <<>> /\ known \in {{}, Links} /\ wire = {}
      /\ receiver = [l \in Links |-> NoChunk] /\ from_links = <<>> /\ written = <<>>
  BY DEF TunnelInit, AggregatorInit
<1>2. /\ EmptyChunk(0) \in Chunk /\ EmptyChunk(0).id = 0 /\ EmptyChunk(0).size = 0
      /\ EmptyChunk(0).packets = <<>> /\ Range(<<>>) = {}
  BY EmptyChunkTyped
<1>3. /\ <<>> \in Seq(Chunk) /\ <<>> \in Seq(Nat) /\ Len(<<>>) = 0
  BY EmptySeq
<1>4. /\ MinChunkSize \in Nat /\ MaxChunkSize \in Nat /\ MinChunkSize <= MaxChunkSize
      /\ ChannelCapacity \in Nat
  BY AggregatorAssumption, ChannelAssumption
<1>5. optimal_chunk_size \in MinChunkSize .. MaxChunkSize
  BY <1>1, <1>4
<1>6. SendTypeOK
  <2>1. current_chunk \in Chunk /\ next_chunk_id \in Nat \ {0} /\ read \in Nat
    BY <1>1, <1>2
  <2>2. link_bdp \in [Links -> Nat] /\ expired \in BOOLEAN
    BY <1>1
  <2>3. {reader, flusher} \subseteq Chunk \cup {NoChunk} /\ to_links \in Seq(Chunk)
    BY <1>1, <1>3
  <2>4. Len(to_links) <= ChannelCapacity
    BY <1>1, <1>3, <1>4
  <2> QED
    BY <1>5, <2>1, <2>2, <2>3, <2>4 DEF SendTypeOK
<1>7. OtherTypeOK
  BY <1>1, <1>3, <1>4 DEF OtherTypeOK
<1>8. Waiting = {}
  BY <1>1, <1>2 DEF Waiting
<1>9. InOrder(Waiting, current_chunk, read)
  BY <1>1, <1>2, <1>4, <1>8 DEF InOrder, Bounded, Following
<1>10. next_chunk_id = current_chunk.id + 1
  BY <1>1, <1>2
<1> QED
  BY <1>6, <1>7, <1>9, <1>10 DEF PathInv, SendInv

-----------------------------------------------------------------------------
(* Every packet is accounted for *)

\* The lengths of finitely many chunks, and of one more.
LEMMA LengthsAdd ==
    ASSUME NEW S \in SUBSET Chunk, IsFiniteSet(S), NEW c \in Chunk, c \notin S
    PROVE  /\ Lengths(S) \in Int /\ Len(c.packets) \in Nat
           /\ Lengths(S \cup {c}) = Len(c.packets) + Lengths(S)
<1> DEFINE of(U) == [d \in U |-> Len(d.packets)]
           T == S \cup {c}
<1>1. \A U : Lengths(U) = SumFunctionOnSet(of(U), U)
  BY ZenonT(30) DEF Lengths, SumFunctionOnSet, FoldFunctionOnSet, MapThenFoldSet, MapThenSumSet
<1>2. \A d \in T : Len(d.packets) \in Nat
  <2>1. \A d \in T : d.packets \in Seq(Nat)
    BY DEF Chunk
  <2> QED
    BY <2>1, LenProperties
<1>3. \A d \in T : of(T)[d] = Len(d.packets) /\ of(T)[d] \in Int
  BY <1>2
<1>4. \A d \in S : of(S)[d] = of(T)[d]
  OBVIOUS
<1>5. of(T)[c] = Len(c.packets)
  BY <1>3
<1> HIDE DEF of
<1>6. SumFunctionOnSet(of(S), S) = SumFunctionOnSet(of(T), S)
  BY <1>4, SumSame
<1>7. SumFunctionOnSet(of(T), S) \in Int
  BY <1>3, SumIsInt
<1>8. SumFunctionOnSet(of(T), T) = of(T)[c] + SumFunctionOnSet(of(T), S)
  BY <1>3, SumWithOneMore
<1> QED
  BY <1>1, <1>2, <1>5, <1>6, <1>7, <1>8

\* A sequence without repetitions has as many elements as it is long.
LEMMA PacketsOnce ==
    ASSUME NEW s \in Seq(Nat), IsInjective(s)
    PROVE  IsFiniteSet(Range(s)) /\ Cardinality(Range(s)) = Len(s)
<1>1. Len(s) \in Nat /\ DOMAIN s = 1 .. Len(s)
  BY LenProperties
<1>2. IsFiniteSet(1 .. Len(s)) /\ Cardinality(1 .. Len(s)) = Len(s)
  BY <1>1, FS_Interval, SMTT(30)
<1>3. s \in [1 .. Len(s) -> Range(s)]
  BY <1>1, LenProperties DEF Range
<1>4. s \in Surjection(1 .. Len(s), Range(s)) /\ s \in Injection(1 .. Len(s), Range(s))
  BY <1>1, <1>3 DEF Surjection, Injection, IsInjective, Range
<1> QED
  BY <1>2, <1>4, FS_Surjection

\* A new chunk without packets
LEMMA EmptyAccounted ==
    ASSUME NEW A, NEW H \in SUBSET Chunk, IsFiniteSet(H), NEW n \in Nat, Accounted(A, H, n),
           NEW e \in Chunk, e \notin H, e.packets = <<>>
    PROVE  Accounted(A, H \cup {e}, n)
<1>1. Range(<<>>) = {} /\ IsInjective(<<>>) /\ Len(<<>>) = 0
  BY EmptySeq DEF Range, IsInjective
<1>2. UNION {Range(c.packets) : c \in H \cup {e}} = UNION {Range(c.packets) : c \in H}
  BY <1>1
<1>3. Lengths(H \cup {e}) = Lengths(H)
  BY <1>1, LengthsAdd
<1>4. \A c \in H \cup {e} : A \cap Range(c.packets) = {} /\ IsInjective(c.packets)
  BY <1>1 DEF Accounted
<1> QED
  BY <1>2, <1>3, <1>4 DEF Accounted

\* and the next packet, in one of the chunks, keep the account;
LEMMA PacketAccounted ==
    ASSUME NEW A, NEW H \in SUBSET Chunk, IsFiniteSet(H), NEW n \in Nat,
           NEW c \in Chunk, c \notin H, NEW size \in Nat, Accounted(A, H \cup {c}, n),
           With(c, n + 1, size) \notin H
    PROVE  Accounted(A, H \cup {With(c, n + 1, size)}, n + 1)
<1> DEFINE m == n + 1
           w == With(c, m, size)
           old == UNION {Range(d.packets) : d \in H}
<1>1. m \in Nat /\ m \notin 1 .. n /\ 1 .. m = (1 .. n) \cup {m}
  OBVIOUS
<1>2. /\ w \in Chunk /\ w.packets = Append(c.packets, m)
      /\ Len(w.packets) = Len(c.packets) + 1
      /\ Range(w.packets) = Range(c.packets) \cup {m}
  <2> HIDE DEF m
  <2>1. /\ w \in Chunk /\ w.packets = Append(c.packets, m)
        /\ Len(Append(c.packets, m)) = Len(c.packets) + 1
        /\ Range(Append(c.packets, m)) = Range(c.packets) \cup {m}
    BY <1>1, WithTyped
  <2> QED
    BY <2>1
<1>3. w \notin H
  OBVIOUS
<1>4. /\ 1 .. n = A \cup (old \cup Range(c.packets))
      /\ \A d \in H \cup {c} : A \cap Range(d.packets) = {} /\ IsInjective(d.packets)
      /\ Cardinality(A) + Lengths(H \cup {c}) = n
  <2>1. UNION {Range(d.packets) : d \in H \cup {c}} = old \cup Range(c.packets)
    OBVIOUS
  <2> QED
    BY <2>1 DEF Accounted
<1> HIDE DEF w, m, old
<1>5. m \notin A /\ m \notin Range(c.packets)
  BY <1>1, <1>4
<1>6. IsInjective(w.packets)
  <2>1. c.packets \in Seq(Nat)
    BY DEF Chunk
  <2>2. /\ Len(c.packets) \in Nat /\ DOMAIN c.packets = 1 .. Len(c.packets)
        /\ DOMAIN w.packets = 1 .. Len(c.packets) + 1
        /\ w.packets[Len(c.packets) + 1] = m
        /\ \A i \in 1 .. Len(c.packets) : w.packets[i] = c.packets[i]
    BY <1>1, <1>2, <2>1, AppendProperties, LenProperties
  <2>3. \A i \in 1 .. Len(c.packets) : c.packets[i] # m
    BY <1>5, <2>2 DEF Range
  <2>4. \A i, j \in 1 .. Len(c.packets) : c.packets[i] = c.packets[j] => i = j
    BY <1>4, <2>2 DEF IsInjective
  <2>5. \A i \in 1 .. Len(c.packets) + 1 : i \in 1 .. Len(c.packets) \/ i = Len(c.packets) + 1
    BY <2>2
  <2>6. \A i, j \in 1 .. Len(c.packets) + 1 : w.packets[i] = w.packets[j] => i = j
    BY <2>2, <2>3, <2>4, <2>5
  <2> QED
    BY <2>2, <2>6 DEF IsInjective
<1>7. 1 .. m = A \cup UNION {Range(d.packets) : d \in H \cup {w}}
  <2>1. UNION {Range(d.packets) : d \in H \cup {w}} = old \cup Range(w.packets)
    BY DEF old
  <2> QED
    BY <1>1, <1>2, <1>4, <2>1
<1>8. \A d \in H \cup {w} : A \cap Range(d.packets) = {} /\ IsInjective(d.packets)
  BY <1>2, <1>4, <1>5, <1>6, ZenonT(30)
<1>9. Cardinality(A) + Lengths(H \cup {w}) = m
  <2>1. /\ Lengths(H) \in Int /\ Len(c.packets) \in Nat
        /\ Lengths(H \cup {c}) = Len(c.packets) + Lengths(H)
    BY LengthsAdd
  <2>2. Lengths(H \cup {w}) = Len(w.packets) + Lengths(H)
    BY <1>2, <1>3, LengthsAdd
  <2>3. Cardinality(A) \in Nat
    <3>1. A \subseteq 1 .. n /\ IsFiniteSet(1 .. n)
      BY <1>4, FS_Interval
    <3> QED
      BY <3>1, FS_Subset, FS_CardinalityType
  <2>4. Lengths(H \cup {w}) = (Len(c.packets) + 1) + Lengths(H)
    BY <1>2, <2>2
  <2>5. Cardinality(A) + (Len(c.packets) + Lengths(H)) = n
    BY <1>4, <2>1
  <2> DEFINE a == Cardinality(A)
             x == Lengths(H)
             y == Len(c.packets)
  <2> HIDE DEF a, x, y
  <2>6. a + ((y + 1) + x) = n + 1
    BY <2>1, <2>3, <2>5 DEF a, x, y
  <2> QED
    BY <2>4, <2>6 DEF a, x, y, m
<1> QED
  BY <1>7, <1>8, <1>9 DEF Accounted, w, m

\* and the sender may take a chunk that shares no packet with another.
LEMMA ChunkAccounted ==
    ASSUME NEW A, NEW H \in SUBSET Chunk, IsFiniteSet(H), NEW n \in Nat,
           NEW h \in Chunk, h \notin H, Accounted(A, H \cup {h}, n),
           \A c \in H : Range(c.packets) \cap Range(h.packets) = {}
    PROVE  Accounted(A \cup Range(h.packets), H, n)
<1> DEFINE B == A \cup Range(h.packets)
           old == UNION {Range(d.packets) : d \in H}
<1>1. /\ 1 .. n = A \cup (old \cup Range(h.packets))
      /\ \A d \in H \cup {h} : A \cap Range(d.packets) = {} /\ IsInjective(d.packets)
      /\ Cardinality(A) + Lengths(H \cup {h}) = n
  <2>1. UNION {Range(d.packets) : d \in H \cup {h}} = old \cup Range(h.packets)
    OBVIOUS
  <2> QED
    BY <2>1 DEF Accounted
<1>2. 1 .. n = B \cup old
  BY <1>1
<1>3. \A d \in H : B \cap Range(d.packets) = {} /\ IsInjective(d.packets)
  BY <1>1
<1>4. /\ Lengths(H) \in Int /\ Lengths(H \cup {h}) = Len(h.packets) + Lengths(H)
      /\ Len(h.packets) \in Nat
  BY LengthsAdd
<1>5. Cardinality(B) = Cardinality(A) + Len(h.packets) /\ Cardinality(A) \in Nat
  <2>1. IsFiniteSet(A)
    <3>1. A \subseteq 1 .. n /\ IsFiniteSet(1 .. n)
      BY <1>1, FS_Interval
    <3> QED
      BY <3>1, FS_Subset
  <2>2. IsFiniteSet(Range(h.packets)) /\ Cardinality(Range(h.packets)) = Len(h.packets)
    <3>1. h.packets \in Seq(Nat) /\ IsInjective(h.packets)
      BY <1>1 DEF Chunk
    <3> QED
      BY <3>1, PacketsOnce
  <2>3. A \cap Range(h.packets) = {}
    BY <1>1
  <2>4. Cardinality(B) = Cardinality(A) + Cardinality(Range(h.packets)) - Cardinality({})
    BY <2>1, <2>2, <2>3, FS_Union
  <2> QED
    BY <1>4, <2>1, <2>2, <2>4, FS_CardinalityType, FS_EmptySet
<1>6. Cardinality(B) + Lengths(H) = n
  BY <1>1, <1>4, <1>5
<1> QED
  BY <1>2, <1>3, <1>6 DEF Accounted

\* The chunks of the sending side are finitely many, and share no packet.
LEMMA HeldChunks ==
    ASSUME SendInv
    PROVE  /\ Waiting \subseteq Chunk /\ IsFiniteSet(Waiting)
           /\ Held \subseteq Chunk /\ IsFiniteSet(Held)
           /\ \A a \in Waiting : a.id < current_chunk.id
           /\ current_chunk \in Chunk /\ current_chunk \notin Waiting
           /\ \A a, b \in Held : a # b => Range(a.packets) \cap Range(b.packets) = {}
<1>1. /\ InOrder(Waiting, current_chunk, read) /\ current_chunk \in Chunk
      /\ to_links \in Seq(Chunk) /\ {reader, flusher} \subseteq Chunk \cup {NoChunk}
  BY DEF SendInv, SendTypeOK
<1>2. /\ Waiting \subseteq Chunk /\ \A a \in Waiting : a.id < current_chunk.id
      /\ Following(Waiting \cup {current_chunk})
  BY <1>1 DEF InOrder
<1>3. current_chunk \notin Waiting
  <2>1. current_chunk.id \in Nat
    BY <1>1 DEF Chunk
  <2> QED
    BY <1>2, <2>1
<1>4. IsFiniteSet(Waiting)
  <2>1. to_links \in [1 .. Len(to_links) -> Chunk] /\ Len(to_links) \in Nat
    BY <1>1, LenProperties
  <2>2. IsFiniteSet(1 .. Len(to_links))
    BY <2>1, FS_Interval
  <2>3. IsFiniteSet(Range(to_links))
    BY <2>1, <2>2, FiniteRange
  <2>4. IsFiniteSet({reader, flusher} \ {NoChunk})
    <3>1. IsFiniteSet({}) /\ IsFiniteSet({} \cup {reader})
      BY FS_EmptySet, FS_AddElement
    <3>2. IsFiniteSet({reader} \cup {flusher})
      BY <3>1, FS_AddElement
    <3>3. {reader, flusher} \ {NoChunk} \subseteq {reader} \cup {flusher}
      OBVIOUS
    <3> QED
      BY <3>2, <3>3, FS_Subset
  <2> QED
    BY <2>3, <2>4, FS_Union DEF Waiting
<1>5. IsFiniteSet(Held)
  BY <1>4, FS_AddElement DEF Held
<1>6. ASSUME NEW a \in Held, NEW b \in Held, a # b
      PROVE  Range(a.packets) \cap Range(b.packets) = {}
  <2>1. a \in Chunk /\ b \in Chunk
    BY <1>1, <1>2 DEF Held
  <2>2. /\ a.id \in Nat /\ b.id \in Nat
        /\ Range(a.packets) \subseteq Nat /\ Range(b.packets) \subseteq Nat
    <3>1. a.packets \in Seq(Nat) /\ b.packets \in Seq(Nat)
      BY <2>1 DEF Chunk
    <3>2. Range(a.packets) \subseteq Nat /\ Range(b.packets) \subseteq Nat
      BY <3>1, LenProperties, ElementOfSeq DEF Range
    <3> QED
      BY <2>1, <3>2 DEF Chunk
  <2>3. /\ a.id # b.id
        /\ a.id < b.id => \A p \in Range(a.packets), q \in Range(b.packets) : p < q
        /\ b.id < a.id => \A p \in Range(b.packets), q \in Range(a.packets) : p < q
    BY <1>2, <1>6 DEF Following, Held
  <2>4. \A p \in Nat : ~(p < p)
    OBVIOUS
  <2>5. a.id < b.id \/ b.id < a.id
    BY <2>2, <2>3
  <2> QED
    BY <2>2, <2>3, <2>4, <2>5
<1> QED
  BY <1>1, <1>2, <1>3, <1>4, <1>5, <1>6 DEF Held

\* A sequence without repetitions: one more element, and one fewer.
LEMMA InjectiveAppend ==
    ASSUME NEW S, NEW s \in Seq(S), NEW e \in S, IsInjective(s), e \notin Range(s)
    PROVE  IsInjective(Append(s, e))
<1>1. /\ Len(s) \in Nat /\ DOMAIN s = 1 .. Len(s)
      /\ DOMAIN Append(s, e) = 1 .. Len(s) + 1
      /\ \A i \in 1 .. Len(s) : Append(s, e)[i] = s[i]
      /\ Append(s, e)[Len(s) + 1] = e
  BY AppendProperties, LenProperties
<1>2. \A i \in 1 .. Len(s) + 1 : i \in 1 .. Len(s) \/ i = Len(s) + 1
  BY <1>1
<1>3. \A i \in 1 .. Len(s) : s[i] # e
  BY <1>1 DEF Range
<1>4. \A i, j \in 1 .. Len(s) : s[i] = s[j] => i = j
  BY <1>1 DEF IsInjective
<1>5. \A i, j \in 1 .. Len(s) + 1 : Append(s, e)[i] = Append(s, e)[j] => i = j
  BY <1>1, <1>2, <1>3, <1>4
<1> QED
  BY <1>1, <1>5 DEF IsInjective

LEMMA InjectiveTail ==
    ASSUME NEW S, NEW s \in Seq(S), s # <<>>, IsInjective(s)
    PROVE  /\ IsInjective(Tail(s)) /\ Range(s) = Range(Tail(s)) \cup {Head(s)}
           /\ Head(s) \notin Range(Tail(s))
<1>1. /\ Tail(s) \in Seq(S) /\ Len(Tail(s)) = Len(s) - 1 /\ Head(s) = s[1]
      /\ \A i \in 1 .. Len(Tail(s)) : Tail(s)[i] = s[i + 1]
  BY HeadTailProperties
<1>2. /\ Len(s) \in Nat /\ Len(s) # 0 /\ DOMAIN s = 1 .. Len(s)
      /\ DOMAIN Tail(s) = 1 .. Len(s) - 1
  BY <1>1, LenProperties, EmptySeq
<1>3. \A i, j \in 1 .. Len(s) : s[i] = s[j] => i = j
  BY <1>2 DEF IsInjective
<1>4. \A i \in 1 .. Len(s) - 1 : Tail(s)[i] = s[i + 1] /\ i + 1 \in 1 .. Len(s) /\ i + 1 # 1
  BY <1>1, <1>2
<1>5. 1 \in 1 .. Len(s) /\ \A i \in 1 .. Len(s) : i = 1 \/ i - 1 \in 1 .. Len(s) - 1
  BY <1>2
<1>6. IsInjective(Tail(s))
  <2>1. ASSUME NEW i \in 1 .. Len(s) - 1, NEW j \in 1 .. Len(s) - 1, Tail(s)[i] = Tail(s)[j]
        PROVE  i = j
    <3>1. i + 1 = j + 1
      BY <1>3, <1>4, <2>1
    <3> QED
      BY <3>1
  <2> QED
    BY <1>2, <2>1 DEF IsInjective
<1>7. Head(s) \notin Range(Tail(s))
  BY <1>1, <1>2, <1>3, <1>4, <1>5 DEF Range
<1>8. Range(s) = Range(Tail(s)) \cup {Head(s)}
  <2>1. ASSUME NEW i \in 1 .. Len(s), i # 1 PROVE Tail(s)[i - 1] = s[i]
    <3>1. i - 1 \in 1 .. Len(Tail(s)) /\ (i - 1) + 1 = i
      BY <1>1, <1>2, <2>1
    <3> QED
      BY <1>1, <3>1
  <2>2. ASSUME NEW i \in 1 .. Len(s) PROVE s[i] \in Range(Tail(s)) \cup {Head(s)}
    BY <1>1, <1>2, <1>5, <2>1 DEF Range
  <2>3. Range(Tail(s)) \cup {Head(s)} \subseteq Range(s)
    BY <1>1, <1>2, <1>4, <1>5 DEF Range
  <2> QED
    BY <1>2, <2>2, <2>3 DEF Range
<1> QED
  BY <1>6, <1>7, <1>8

\* A task takes a chunk out of the aggregator that is nowhere else, or nothing.
LEMMA TakenAlone ==
    ASSUME OwnPlaces, NEW c, c = NoChunk \/ c \notin Waiting, to_links' = to_links,
           \/ reader = NoChunk /\ reader' = c /\ flusher' = flusher
           \/ flusher = NoChunk /\ flusher' = c /\ reader' = reader
    PROVE  OwnPlaces' /\ Waiting' = Waiting \cup ({c} \ {NoChunk})
BY DEF OwnPlaces, Waiting

\* add_packet: the packet read is in the chunk that collects or in the one handed over.
LEMMA ReadPacketAccounted ==
    ASSUME SendInv, AccountInv, NEW size \in Nat, ReadPacket(size), UNCHANGED attempted
    PROVE  AccountInv'
<1> DEFINE c == current_chunk
           n == read + 1
           W == Waiting
           e == EmptyChunk(c.id + 1)
           A == attempted
<1>1. /\ reader = NoChunk /\ read' = n /\ AddPacket(n, size)
      /\ reader' = ChunkOfAdd(n, size) /\ UNCHANGED <<flusher, to_links>>
  BY DEF ReadPacket
<1>2. /\ c \in Chunk /\ c.id \in Nat /\ read \in Nat /\ n \in Nat
      /\ next_chunk_id = c.id + 1
  BY DEF SendInv, SendTypeOK, Chunk
<1>3. /\ W \subseteq Chunk /\ IsFiniteSet(W) /\ c \notin W
      /\ \A a \in W : a.id \in Nat /\ a.id < c.id
      /\ Accounted(A, W \cup {c}, read) /\ OwnPlaces
      /\ W \cup {c} \subseteq Chunk /\ IsFiniteSet(W \cup {c})
  BY HeldChunks DEF AccountInv, Held, Chunk
<1>4. e \in Chunk /\ e.id = c.id + 1 /\ e.packets = <<>>
  BY <1>2, EmptyChunkTyped
<1>5. \A d \in Chunk : With(d, n, size) \in Chunk /\ With(d, n, size).id = d.id
  BY <1>2, WithTyped, ZenonT(30)
<1>6. Held' = Waiting' \cup {current_chunk'}
  BY DEF Held
<1> HIDE DEF e, n, c
<1>7. e \notin W \cup {c} /\ With(e, n, size) \notin W \cup {c} /\ With(c, n, size) \notin W
  BY <1>2, <1>3, <1>4, <1>5
<1>8. CASE Overflows(size)
  <2>1. current_chunk' = With(e, n, size) /\ reader' = c
    BY <1>1, <1>2, <1>8, FinalizedKeepsId
    DEF AddPacket, Finalize, ChunkOfAdd, Fills, e, c
  <2>2. OwnPlaces' /\ Held' = (W \cup {c}) \cup {With(e, n, size)}
    <3>1. OwnPlaces' /\ Waiting' = W \cup ({c} \ {NoChunk}) /\ c # NoChunk
      BY <1>1, <1>2, <1>3, <2>1, TakenAlone, PathAssumption
    <3> QED
      BY <1>6, <2>1, <3>1
  <2>3. Accounted(A, (W \cup {c}) \cup {e}, read)
    BY <1>2, <1>3, <1>4, <1>7, EmptyAccounted
  <2>4. Accounted(A, (W \cup {c}) \cup {With(e, n, size)}, n)
    BY <1>2, <1>3, <1>4, <1>7, <2>3, PacketAccounted DEF n
  <2> QED
    BY <1>1, <2>2, <2>4 DEF AccountInv
<1>9. CASE ~Overflows(size)
  <2> DEFINE w == With(c, n, size)
  <2>1. Accounted(A, W \cup {w}, n)
    BY <1>2, <1>3, <1>7, PacketAccounted DEF n
  <2>2. w \in Chunk /\ w.id = c.id /\ w \notin W
    BY <1>2, <1>5, <1>7
  <2> HIDE DEF w
  <2>3. CASE Fills(size)
    <3>1. current_chunk' = e /\ reader' = w
      BY <1>1, <1>2, <1>9, <2>2, <2>3, FinalizedKeepsId
      DEF AddPacket, Finalize, ChunkOfAdd, w, e, c
    <3>2. OwnPlaces' /\ Held' = (W \cup {w}) \cup {e}
      <4>1. OwnPlaces' /\ Waiting' = W \cup ({w} \ {NoChunk}) /\ w # NoChunk
        BY <1>1, <1>3, <2>2, <3>1, TakenAlone, PathAssumption
      <4> QED
        BY <1>6, <3>1, <4>1
    <3>3. W \cup {w} \subseteq Chunk /\ IsFiniteSet(W \cup {w}) /\ e \notin W \cup {w}
      BY <1>2, <1>3, <1>4, <1>7, <2>2, FS_AddElement
    <3>4. Accounted(A, (W \cup {w}) \cup {e}, n)
      BY <1>2, <1>4, <2>1, <3>3, EmptyAccounted
    <3> QED
      BY <1>1, <3>2, <3>4 DEF AccountInv
  <2>4. CASE ~Fills(size)
    <3>1. current_chunk' = w /\ reader' = NoChunk
      BY <1>1, <1>9, <2>4 DEF AddPacket, ChunkOfAdd, w, c
    <3>2. OwnPlaces' /\ Held' = W \cup {w}
      <4>1. OwnPlaces' /\ Waiting' = W
        BY <1>1, <1>3, <3>1, TakenAlone
      <4> QED
        BY <1>6, <3>1, <4>1
    <3> QED
      BY <1>1, <2>1, <3>2 DEF AccountInv
  <2> QED
    BY <2>3, <2>4
<1> QED
  BY <1>8, <1>9

\* check_timeout: the chunk that collected waits with the timer.
LEMMA TimerFiresAccounted ==
    ASSUME SendInv, AccountInv, TimerFires, UNCHANGED attempted
    PROVE  AccountInv'
<1> DEFINE c == current_chunk
           W == Waiting
           e == EmptyChunk(c.id + 1)
<1>1. /\ flusher = NoChunk /\ CheckTimeout /\ flusher' = ChunkOfTimeout
      /\ UNCHANGED <<read, reader, to_links>>
  BY DEF TimerFires
<1>2. /\ c \in Chunk /\ c.id \in Nat /\ next_chunk_id = c.id + 1 /\ read \in Nat
  BY DEF SendInv, SendTypeOK, Chunk
<1>3. /\ W \cup {c} \subseteq Chunk /\ IsFiniteSet(W \cup {c}) /\ c \notin W
      /\ \A a \in W : a.id \in Nat /\ a.id < c.id
      /\ Accounted(attempted, W \cup {c}, read) /\ OwnPlaces
  BY HeldChunks DEF AccountInv, Held, Chunk
<1>4. CASE Due
  <2>1. current_chunk' = e /\ flusher' = c
    BY <1>1, <1>2, <1>4, FinalizedKeepsId DEF CheckTimeout, ChunkOfTimeout, Finalize
  <2>2. e \in Chunk /\ e.id = c.id + 1 /\ e.packets = <<>>
    BY <1>2, EmptyChunkTyped
  <2>3. OwnPlaces' /\ Waiting' = W \cup ({c} \ {NoChunk}) /\ c # NoChunk
    BY <1>1, <1>2, <1>3, <2>1, TakenAlone, PathAssumption
  <2>4. Held' = (W \cup {c}) \cup {e}
    BY <2>1, <2>3 DEF Held
  <2> HIDE DEF e, c
  <2>5. e \notin W \cup {c}
    BY <1>2, <1>3, <2>2
  <2>6. Accounted(attempted, (W \cup {c}) \cup {e}, read)
    BY <1>2, <1>3, <2>2, <2>5, EmptyAccounted
  <2> QED
    BY <1>1, <2>3, <2>4, <2>6 DEF AccountInv
<1>5. CASE ~Due
  <2>1. UNCHANGED <<current_chunk, flusher>>
    BY <1>1, <1>5 DEF CheckTimeout, ChunkOfTimeout, aggregatorVars
  <2> QED
    BY <1>1, <2>1 DEF AccountInv, OwnPlaces, Held, Waiting
<1> QED
  BY <1>4, <1>5

\* A full channel makes the reader and the timer wait: they drop nothing.
LEMMA SendsAccounted ==
    ASSUME SendInv, AccountInv, ReaderSends \/ FlusherSends, UNCHANGED attempted
    PROVE  AccountInv'
<1>1. to_links \in Seq(Chunk) /\ {reader, flusher} \subseteq Chunk \cup {NoChunk} /\ OwnPlaces
  BY DEF SendInv, SendTypeOK, AccountInv
<1>2. current_chunk' = current_chunk /\ read' = read
  BY DEF ReaderSends, FlusherSends, aggregatorVars
<1>3. ASSUME NEW d \in Chunk, d \notin Range(to_links), to_links' = Append(to_links, d)
      PROVE  Range(to_links') = Range(to_links) \cup {d} /\ IsInjective(to_links')
  BY <1>1, <1>3, RangeOfAppend, InjectiveAppend DEF OwnPlaces
<1>4. OwnPlaces' /\ Waiting' = Waiting
  <2>1. CASE ReaderSends
    <3>1. /\ reader # NoChunk /\ reader' = NoChunk /\ flusher' = flusher
          /\ to_links' = Append(to_links, reader)
      BY <2>1 DEF ReaderSends
    <3>2. Range(to_links') = Range(to_links) \cup {reader} /\ IsInjective(to_links')
      BY <1>1, <1>3, <3>1 DEF OwnPlaces
    <3> QED
      BY <1>1, <3>1, <3>2 DEF OwnPlaces, Waiting
  <2>2. CASE FlusherSends
    <3>1. /\ flusher # NoChunk /\ flusher' = NoChunk /\ reader' = reader
          /\ to_links' = Append(to_links, flusher)
      BY <2>2 DEF FlusherSends
    <3>2. Range(to_links') = Range(to_links) \cup {flusher} /\ IsInjective(to_links')
      BY <1>1, <1>3, <3>1 DEF OwnPlaces
    <3> QED
      BY <1>1, <3>1, <3>2 DEF OwnPlaces, Waiting
  <2> QED
    BY <2>1, <2>2
<1> QED
  BY <1>2, <1>4 DEF AccountInv, Held

\* The chunk sender takes the packets of one chunk, which no other chunk holds.
LEMMA SendChunkAccounted ==
    ASSUME SendInv, AccountInv, NEW l \in Links, SendChunk(l),
           attempted' = attempted \cup Range(Head(to_links).packets)
    PROVE  AccountInv'
<1> DEFINE h == Head(to_links)
           H == Held \ {h}
<1>1. /\ to_links # <<>> /\ to_links' = Tail(to_links)
      /\ UNCHANGED <<current_chunk, read, reader, flusher>>
  BY DEF SendChunk, aggregatorVars
<1>2. to_links \in Seq(Chunk) /\ OwnPlaces /\ read \in Nat /\ Accounted(attempted, Held, read)
  BY DEF SendInv, SendTypeOK, AccountInv
<1>3. /\ IsInjective(Tail(to_links)) /\ Range(to_links) = Range(Tail(to_links)) \cup {h}
      /\ h \notin Range(Tail(to_links)) /\ h \in Chunk
  BY <1>1, <1>2, InjectiveTail, RangeOfTail DEF OwnPlaces
<1> HIDE DEF h
<1>4. h \in Waiting /\ h \in Held /\ h # current_chunk
  BY <1>3, HeldChunks DEF Waiting, Held
<1>5. OwnPlaces' /\ Held' = H
  <2>1. ~(reader # NoChunk /\ reader = h) /\ ~(flusher # NoChunk /\ flusher = h)
    BY <1>2, <1>3 DEF OwnPlaces
  <2>2. Waiting' = Waiting \ {h}
    BY <1>1, <1>3, <2>1, PathAssumption DEF Waiting
  <2>3. OwnPlaces'
    BY <1>1, <1>2, <1>3 DEF OwnPlaces
  <2> QED
    BY <1>1, <1>4, <2>2, <2>3 DEF Held
<1>6. /\ H \in SUBSET Chunk /\ IsFiniteSet(H) /\ h \notin H /\ H \cup {h} = Held
      /\ \A c \in H : Range(c.packets) \cap Range(h.packets) = {}
  BY <1>4, HeldChunks, FS_Subset
<1> HIDE DEF H
<1>7. Accounted(attempted \cup Range(h.packets), H, read)
  BY <1>2, <1>3, <1>6, ChunkAccounted
<1> QED
  BY <1>1, <1>5, <1>7 DEF AccountInv, h

\* Nothing has been read, and nothing is owed.
LEMMA AccountInitOK ==
    ASSUME TunnelInit, attempted = {}
    PROVE  AccountInv
<1>1. /\ current_chunk = EmptyChunk(0) /\ read = 0 /\ reader = NoChunk /\ flusher = NoChunk
      /\ to_links = <<>>
  BY DEF TunnelInit, AggregatorInit
<1>2. EmptyChunk(0) \in Chunk /\ EmptyChunk(0).packets = <<>> /\ Range(<<>>) = {}
  BY EmptyChunkTyped
<1>3. IsInjective(<<>>)
  BY EmptySeq DEF IsInjective
<1>4. OwnPlaces
  BY <1>1, <1>3 DEF OwnPlaces
<1>5. Held = {} \cup {EmptyChunk(0)}
  BY <1>1, <1>2 DEF Held, Waiting
<1>6. Accounted({}, {}, 0)
  <2>1. Lengths({}) = SumFunctionOnSet([d \in {} |-> Len(d.packets)], {})
    BY ZenonT(30) DEF Lengths, SumFunctionOnSet, FoldFunctionOnSet, MapThenFoldSet, MapThenSumSet
  <2>2. Lengths({}) = 0
    BY <2>1, SumEmpty
  <2>3. Cardinality({}) = 0
    BY FS_EmptySet
  <2> QED
    BY <2>2, <2>3 DEF Accounted
<1>7. Accounted({}, {} \cup {EmptyChunk(0)}, 0)
  BY <1>2, <1>6, FS_EmptySet, EmptyAccounted
<1> QED
  BY <1>1, <1>4, <1>5, <1>7 DEF AccountInv

-----------------------------------------------------------------------------
(* The theorems *)

\* In every behaviour of the data path: finished chunks, the one that collects and what
\* has been read stay in order (chunk_aggregator.rs, client/src/main.rs).
THEOREM PathInvariance == TunnelSpec => []PathInv
<1>1. ASSUME PathInv, [TunnelNext]_tunnelVars
      PROVE  PathInv'
  <2>1. ASSUME NEW size \in Nat, ReadPacket(size) PROVE PathInv'
    <3>1. UNCHANGED <<known, wire, receiveSide>>
      BY <2>1 DEF ReadPacket
    <3> QED BY <1>1, <2>1, <3>1, ReadPacketOK, OtherUnchanged DEF PathInv
  <2>2. CASE ReaderSends \/ FlusherSends
    <3>1. UNCHANGED <<known, wire, receiveSide>>
      BY <2>2 DEF ReaderSends, FlusherSends
    <3>2. SendInv'
      BY <1>1, <2>2, ChannelOK DEF PathInv, ReaderSends, FlusherSends
    <3> QED BY <1>1, <3>1, <3>2, OtherUnchanged DEF PathInv
  <2>3. CASE TimerFires
    <3>1. UNCHANGED <<known, wire, receiveSide>>
      BY <2>3 DEF TimerFires
    <3> QED BY <1>1, <2>3, <3>1, TimerFiresOK, OtherUnchanged DEF PathInv
  <2>4. ASSUME NEW l \in Links, SendChunk(l) PROVE PathInv'
    BY <1>1, <2>4, SendChunkOK
  <2>5. ASSUME NEW l \in Links, NEW bdp \in Nat, UpdateChunkSize(l, bdp) PROVE PathInv'
    <3>1. UpdateLinkStats(l, bdp) /\ UNCHANGED <<sendSide, known, wire, receiveSide>>
      BY <2>5 DEF UpdateChunkSize
    <3>2. UNCHANGED <<current_chunk, next_chunk_id>>
      BY <3>1 DEF UpdateLinkStats
    <3> QED BY <1>1, <3>1, <3>2, SizesOK, OtherUnchanged DEF PathInv
  <2>6. CASE TimePasses
    <3>1. Expire /\ UNCHANGED <<sendSide, known, wire, receiveSide>>
      BY <2>6 DEF TimePasses
    <3>2. UNCHANGED <<current_chunk, next_chunk_id>>
      BY <3>1 DEF Expire
    <3> QED BY <1>1, <3>1, <3>2, SizesOK, OtherUnchanged DEF PathInv
  <2>7. ASSUME NEW l \in Links, LearnAddress(l) PROVE PathInv'
    <3>1. OtherTypeOK'
      BY <1>1, <2>7 DEF LearnAddress, PathInv, OtherTypeOK, receiveSide
    <3> QED BY <1>1, <2>7, <3>1, SendInvUnchanged DEF PathInv, LearnAddress
  <2>8. ASSUME NEW m \in wire, Lose(m) PROVE PathInv'
    <3>1. OtherTypeOK'
      BY <1>1, <2>8 DEF Lose, PathInv, OtherTypeOK, receiveSide
    <3> QED BY <1>1, <2>8, <3>1, SendInvUnchanged DEF PathInv, Lose
  <2>9. ASSUME NEW m \in wire, Receive(m) PROVE PathInv'
    BY <1>1, <2>9, ReceiveOK
  <2>10. ASSUME NEW l \in Links, ReceiverSends(l) PROVE PathInv'
    BY <1>1, <2>10, ReceiverSendsOK
  <2>11. CASE WriteChunk
    BY <1>1, <2>11, WriteChunkOK
  <2>12. CASE UNCHANGED tunnelVars
    <3>1. UNCHANGED <<aggregatorVars, sendSide, known, wire, receiveSide>>
      BY <2>12 DEF tunnelVars
    <3> QED BY <1>1, <3>1, SendInvUnchanged, OtherUnchanged DEF PathInv
  <2> QED
    BY <1>1, <2>1, <2>2, <2>3, <2>4, <2>5, <2>6, <2>7, <2>8, <2>9, <2>10, <2>11, <2>12
    DEF TunnelNext
<1> QED
  BY TunnelInitOK, <1>1, PTL DEF TunnelSpec

\* The channels keep to their capacity and the optimal size to its bounds, whatever the
\* tasks of the data path do (client/src/main.rs:197).
THEOREM TunnelTypeCorrect == TunnelSpec => []TunnelTypeOK
<1>1. PathInv => TunnelTypeOK
  BY DEF PathInv, SendInv, SendTypeOK, OtherTypeOK, TunnelTypeOK
<1> QED
  BY <1>1, PathInvariance, PTL

\* Chunk ids follow the order of reading, whichever task took the chunks out of the
\* aggregator (chunk_aggregator.rs, client/src/main.rs:194 and :408).
THEOREM ReadingOrderIsKept == TunnelSpec => []IdsFollowReading
<1>1. PathInv => IdsFollowReading
  BY DEF PathInv, SendInv, InOrder, Following, IdsFollowReading, Held
<1> QED
  BY <1>1, PathInvariance, PTL

\* No chunk of several packets is larger than the maximum, although the optimal size
\* changes while it is filled (chunk_aggregator.rs, add_packet and update_link_stats).
THEOREM ChunksStayBounded == TunnelSpec => []ChunkSizeBounded
<1>1. PathInv => ChunkSizeBounded
  BY DEF PathInv, SendInv, InOrder, Bounded, ChunkSizeBounded, Held
<1> QED
  BY <1>1, PathInvariance, PTL

\* Full channels make the reader and the timer wait and lose nothing: each packet read
\* from the TUN interface is in exactly one chunk that has not reached the chunk sender,
\* or the sender has taken it (client/src/main.rs:197 and :408).
THEOREM NothingIsLostInside == MCSpec => []NoneLostInside
<1>1. MCInit => TunnelInit /\ AccountInv
  BY AccountInitOK DEF MCInit
<1>2. [MCNext]_mcvars => [TunnelNext]_tunnelVars
  BY PathAssumption
  DEF MCNext, mcvars, TunnelNext, Steps, Internal, MCReadPacket, MCSendChunk,
      MCUpdateChunkSize, MCLose, MCReceive
<1>3. ASSUME PathInv, AccountInv, [MCNext]_mcvars
      PROVE  AccountInv'
  <2>1. SendInv
    BY <1>3 DEF PathInv
  <2>2. ASSUME NEW size \in Sizes, MCReadPacket(size) PROVE AccountInv'
    <3>1. size \in Nat /\ ReadPacket(size) /\ UNCHANGED attempted
      BY <2>2, PathAssumption DEF MCReadPacket
    <3> QED BY <1>3, <2>1, <3>1, ReadPacketAccounted
  <2>3. ASSUME NEW l \in Links, MCSendChunk(l) PROVE AccountInv'
    <3>1. SendChunk(l) /\ attempted' = attempted \cup Range(Head(to_links).packets)
      BY <2>3 DEF MCSendChunk
    <3> QED BY <1>3, <2>1, <3>1, SendChunkAccounted
  <2>4. CASE Steps(TimerFires)
    <3>1. TimerFires /\ UNCHANGED attempted
      BY <2>4 DEF Steps
    <3> QED BY <1>3, <2>1, <3>1, TimerFiresAccounted
  <2>5. CASE Steps(ReaderSends) \/ Steps(FlusherSends)
    <3>1. (ReaderSends \/ FlusherSends) /\ UNCHANGED attempted
      BY <2>5 DEF Steps
    <3> QED BY <1>3, <2>1, <3>1, SendsAccounted
  <2>6. CASE UNCHANGED <<current_chunk, sendSide, attempted>>
    BY <1>3, <2>6 DEF AccountInv, OwnPlaces, Held, Waiting, sendSide
  <2>7. ASSUME NEW l \in Links, NEW bdp \in Bdps, MCUpdateChunkSize(l, bdp)
        PROVE  UNCHANGED <<current_chunk, sendSide, attempted>>
    BY <2>7 DEF MCUpdateChunkSize, UpdateChunkSize, UpdateLinkStats
  <2>8. ASSUME NEW m \in wire, MCLose(m) \/ MCReceive(m)
        PROVE  UNCHANGED <<current_chunk, sendSide, attempted>>
    BY <2>8 DEF MCLose, Lose, MCReceive, Receive, aggregatorVars
  <2>9. ASSUME Steps(TimePasses \/ WriteChunk \/ \E l \in Links : LearnAddress(l) \/ ReceiverSends(l))
        PROVE  UNCHANGED <<current_chunk, sendSide, attempted>>
    BY <2>9 DEF Steps, TimePasses, Expire, WriteChunk, LearnAddress, ReceiverSends, aggregatorVars
  <2>10. ASSUME UNCHANGED mcvars
         PROVE  UNCHANGED <<current_chunk, sendSide, attempted>>
    BY <2>10 DEF mcvars, tunnelVars, aggregatorVars
  <2> QED
    BY <1>3, <2>2, <2>3, <2>4, <2>5, <2>6, <2>7, <2>8, <2>9, <2>10 DEF MCNext, Internal, Steps
<1>4. AccountInv => NoneLostInside
  BY DEF AccountInv, Accounted, NoneLostInside
<1>5. TunnelSpec => []PathInv
  BY PathInvariance
<1> QED
  BY <1>1, <1>2, <1>3, <1>4, <1>5, PTL DEF MCSpec, TunnelSpec
=============================================================================
