-------------------------- MODULE RateControllerMC --------------------------
(***************************************************************************)
(* RateController on small instances.  Traffic, probe contents and the     *)
(* accumulators are bounded; every other guard is the module's own.        *)
(***************************************************************************)
EXTENDS RateController, TLC

CONSTANTS
    Ceiling,          \* tx_max_rate, the same for every link
    MaxTx, MaxRx,     \* packets recorded between two probes
    MaxReported,      \* packets of each kind a received probe reports
    MaxReportedTx,
    MaxAcc            \* bound on every loss accumulator

VARIABLE inflight   \* packets sent on a link, not yet reported received by the remote

mcvars == <<links, inflight>>

MCMaxRate == [l \in Links |-> Ceiling]

MCProbe == [tx_packets : 0 .. MaxReportedTx, rx_packets : 0 .. MaxReported]

Symmetry == Permutations(Links)

MCInit == Init /\ inflight = [l \in Links |-> 0]

MCRecordTx(l) ==
    /\ links[l].probe_tx < MaxTx /\ links[l].loss_tx < MaxTx
    /\ RecordTx(l)
    /\ inflight' = [inflight EXCEPT ![l] = MinOf(@ + 1, MaxTx)]

MCRecordRx(l) ==
    /\ links[l].probe_rx < MaxRx /\ links[l].loss_rx < MaxRx
    /\ links[l].recv.rx + links[l].loss_rx < MaxAcc
    /\ RecordRx(l)
    /\ UNCHANGED inflight

\* The remote reports only packets that were sent; what it does not report now
\* it may report later or never.
MCProcessProbe(l, probe) ==
    /\ probe.rx_packets <= inflight[l]
    /\ ProcessProbe(l, probe)
    /\ inflight' = [inflight EXCEPT ![l] = @ - probe.rx_packets]
    /\ \A d \in {links'[l].send, links'[l].recv} : d.tx <= MaxAcc /\ d.rx <= MaxAcc

MCNext ==
    \/ \E l \in Links : MCRecordTx(l)
    \/ \E l \in Links : MCRecordRx(l)
    \/ BuildProbes /\ UNCHANGED inflight
    \/ \E l \in Links, probe \in MCProbe : MCProcessProbe(l, probe)
    \/ CheckTimeouts /\ UNCHANGED inflight
    \/ Tick /\ UNCHANGED inflight

MCSpec == MCInit /\ [][MCNext]_mcvars

\* The remote's probes keep arriving, whatever they report: its probe sender
\* runs every probe interval, for Down links too.
FairSpec ==
    MCSpec /\ \A l \in Links :
                  WF_mcvars(\E probe \in MCProbe : MCProcessProbe(l, probe))

-----------------------------------------------------------------------------
(* Properties of the fair and of the idle behaviours *)

InService(l) == links[l].state \in {"Running", "Lossy"}

HeardFrom(l) == <>[](links[l].silence <= DownTimeout)

\* README.md:25 "recovers automatically": a link that is heard from is in service
\* again and again, whatever its probes report and however it went Down.
RecoversAgainAndAgain ==
    \A l \in Links : HeardFrom(l) => []<>InService(l)

NoTraffic == [tx_packets |-> 0, rx_packets |-> 0]

\* A step of an endpoint that carries no data in either direction.
IdleStep ==
    \/ BuildProbes \/ CheckTimeouts \/ Tick
    \/ \E l \in Links : ProcessProbe(l, NoTraffic)

\* README.md:25 and :178 "old problems fade": a link that is heard from, on an
\* endpoint that has become idle, ends in Running and stays there.
OldProblemsFade ==
    (<>[][IdleStep]_links /\ \A l \in Links : HeardFrom(l))
        => \A l \in Links : <>[](links[l].state = "Running")
=============================================================================
