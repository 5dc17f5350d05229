-------------------------------- MODULE Metrics --------------------------------
(***************************************************************************)
(* The metrics collector of one endpoint (common/src/metrics.rs).  Every   *)
(* recorder adds to the raw counters under their lock.  A snapshot takes   *)
(* the counters and leaves zeros under that lock, computes rates from what *)
(* it took, and under a second lock appends the result to a bounded        *)
(* history.                                                                *)
(*                                                                         *)
(* A snapshot is the counters it took: rates and ratios are quotients of   *)
(* them.  The counters of latency samples, flows and single links, which   *)
(* no task of client or server records, are left out.                      *)
(***************************************************************************)
EXTENDS Integers, Sequences

CONSTANTS MaxHistory, NoSnapshot

ASSUME MetricsAssumption == MaxHistory \in Nat \ {0}

VARIABLES
    counters,
    taken,            \* the snapshot between the two locks, or NoSnapshot
    history

metricsVars == <<counters, taken, history>>

Counter == {"bytes_up", "bytes_down", "packets_sent", "packets_received",
            "chunks_sent", "chunks_received"}

RawCounters == [Counter -> Nat]

ZeroCounters == [c \in Counter |-> 0]

\* The counters that a recorder advances: its count by one, and its bytes.
Counts ==
    [record_packet_tx |-> "packets_sent", record_packet_rx |-> "packets_received",
     record_chunk_tx |-> "chunks_sent", record_chunk_rx |-> "chunks_received"]

Volumes ==
    [record_packet_tx |-> "bytes_up", record_packet_rx |-> "bytes_down",
     record_chunk_tx |-> "bytes_up", record_chunk_rx |-> "bytes_down"]

Recorder == DOMAIN Counts

Advanced(cs, recorder, bytes) ==
    [cs EXCEPT ![Counts[recorder]] = @ + 1, ![Volumes[recorder]] = @ + bytes]

MetricsInit == counters = ZeroCounters /\ taken = NoSnapshot /\ history = <<>>

Record(recorder, bytes) ==
    /\ counters' = Advanced(counters, recorder, bytes)
    /\ UNCHANGED <<taken, history>>

\* Mutant of TakeCounters: the counters are reset with the second lock.
TakeCountersLeavingThem ==
    /\ taken = NoSnapshot
    /\ taken' = counters
    /\ UNCHANGED <<counters, history>>

\* snapshot, up to the end of its first lock
TakeCounters ==
    /\ taken = NoSnapshot
    /\ taken' = counters
    /\ counters' = ZeroCounters
    /\ UNCHANGED history

\* Mutant of StoreSnapshot: one snapshot too many is kept.
StoreSnapshotLate ==
    /\ taken # NoSnapshot
    /\ history' = Append(IF Len(history) > MaxHistory THEN Tail(history) ELSE history, taken)
    /\ taken' = NoSnapshot
    /\ UNCHANGED counters

\* snapshot, its second lock
StoreSnapshot ==
    /\ taken # NoSnapshot
    /\ history' = Append(IF Len(history) >= MaxHistory THEN Tail(history) ELSE history, taken)
    /\ taken' = NoSnapshot
    /\ UNCHANGED counters
===============================================================================
