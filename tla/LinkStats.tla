------------------------------- MODULE LinkStats -------------------------------
(***************************************************************************)
(* The statistics collector of one endpoint (core/src/stats.rs): for every *)
(* link the traffic of the current window, the bandwidth of the last one,  *)
(* and a smoothed round-trip time.                                         *)
(*                                                                         *)
(* Time is in ticks, a window lasts at least Window of them; elapsed is the*)
(* age of the windows, which are all reset together.  Left out: the last   *)
(* hundred RTT samples, which nothing reads, the loss ratio, which nothing *)
(* sets, and the sums over links for the log.                              *)
(***************************************************************************)
EXTENDS Integers

CONSTANTS
    Links,
    Alpha,            \* ewma_alpha, a percentage
    Window,           \* bandwidth_window
    HighRtt           \* the RTT above which a link is unhealthy, 500 ms

ASSUME StatsAssumption ==
    /\ Alpha \in 1 .. 99                     \* Config::validate
    /\ Window \in Nat \ {0} /\ HighRtt \in Nat

VARIABLES
    stats,            \* of every link
    elapsed

statsVars == <<stats, elapsed>>

StatsOfLink ==
    [tx_bytes : Nat, tx_packets : Nat, rx_bytes : Nat, rx_packets : Nat,
     smoothed_rtt_us : Nat, bandwidth_bps : Nat, healthy : BOOLEAN, pending_bytes : Nat]

NewStats ==
    [tx_bytes |-> 0, tx_packets |-> 0, rx_bytes |-> 0, rx_packets |-> 0,
     smoothed_rtt_us |-> 0, bandwidth_bps |-> 0, healthy |-> TRUE, pending_bytes |-> 0]

StatsInit == stats = [l \in Links |-> NewStats] /\ elapsed = 0

RecordTx(l, bytes) ==
    /\ stats' = [stats EXCEPT ![l].tx_bytes = @ + bytes, ![l].tx_packets = @ + 1,
                              ![l].pending_bytes = @ + bytes]
    /\ UNCHANGED elapsed

RecordRx(l, bytes) ==
    /\ stats' = [stats EXCEPT ![l].rx_bytes = @ + bytes, ![l].rx_packets = @ + 1]
    /\ UNCHANGED elapsed

\* Mutant of Smoothed: the first sample is averaged with the initial zero.
SmoothedFromZero(rtt, sample) == ((100 - Alpha) * rtt + Alpha * sample) \div 100

\* The first sample counts in full; a smoothed RTT of zero is none.
Smoothed(rtt, sample) ==
    IF rtt = 0 THEN sample ELSE ((100 - Alpha) * rtt + Alpha * sample) \div 100

RecordRtt(l, sample) ==
    /\ stats' = [stats EXCEPT ![l].smoothed_rtt_us = Smoothed(@, sample)]
    /\ UNCHANGED elapsed

\* Mutant of Reopened: the bytes stay in the next window.
ReopenedKeepingBytes(s) == [s EXCEPT !.tx_packets = 0, !.rx_packets = 0]

\* The window of a link starts again.
Reopened(s) ==
    [s EXCEPT !.tx_bytes = 0, !.tx_packets = 0, !.rx_bytes = 0, !.rx_packets = 0]

\* update_bandwidth and update_health
WindowClosed(s) == [Reopened(s) EXCEPT !.bandwidth_bps = s.tx_bytes \div elapsed]
Judged(s) == [s EXCEPT !.healthy = s.smoothed_rtt_us <= HighRtt]

\* Mutant of StatsTick: it starts the windows again whether or not they were closed.
StatsTickRestarting ==
    /\ stats' = [l \in Links |-> Judged(IF elapsed >= Window THEN WindowClosed(stats[l])
                                                             ELSE stats[l])]
    /\ elapsed' = 0

\* tick
StatsTick ==
    IF elapsed >= Window
      THEN stats' = [l \in Links |-> Judged(WindowClosed(stats[l]))] /\ elapsed' = 0
      ELSE stats' = [l \in Links |-> Judged(stats[l])] /\ UNCHANGED elapsed

\* std::time::Instant
TimePasses == elapsed' = elapsed + 1 /\ UNCHANGED stats
===============================================================================
