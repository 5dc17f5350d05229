----------------------------- MODULE EndpointMC -----------------------------
(***************************************************************************)
(* Endpoint on two links, with the traffic bounds of RateControllerMC.     *)
(***************************************************************************)
EXTENDS Endpoint

CONSTANTS
    Ceiling, MaxTx, MaxRx, MaxAcc,    \* bounds
    Receivers                         \* the links on which chunks arrive

MCMaxRate == [l \in Links |-> Ceiling]

MCConfiguredWeight == [l \in Links |-> Ceiling \div WeightUnit]

\* An idle remote's probe, or one that reports a packet received.
MCProbe == [tx_packets : {0}, rx_packets : {0, 1}]

Unreported(s) == {s.probe_tx, s.loss_tx, s.probe_rx, s.loss_rx} # {0}

\* At most one link at a time has packets that no probe has counted yet.
Bounded(ls) ==
    /\ \A l \in Links :
          LET s == ls[l]
          IN /\ s.probe_tx <= MaxTx /\ s.loss_tx <= MaxTx
             /\ s.probe_rx <= MaxRx /\ s.loss_rx <= MaxRx
             /\ \A d \in {s.send, s.recv} : d.tx <= MaxAcc /\ d.rx <= MaxAcc
    /\ \A k, l \in Links : Unreported(ls[k]) /\ Unreported(ls[l]) => k = l

MCSendChunk == SendChunk /\ Bounded(links')

\* What has been received stays within the bound when the next probe adds it up.
MCReceiveChunk(l) ==
    /\ l \in Receivers
    /\ links[l].recv.rx + links[l].loss_rx < MaxAcc
    /\ ReceiveChunk(l)
    /\ Bounded(links')

\* The remote counts no packet that was not sent.
MCReceiveProbe(l, probe) ==
    /\ links[l].send.rx + probe.rx_packets <= links[l].send.tx + links[l].loss_tx
    /\ ReceiveProbe(l, probe)
    /\ Bounded(links')

MCNext ==
    \/ Second \/ StatsTask
    \/ ScheduleChunk \/ MCSendChunk
    \/ SendProbes
    \/ \E l \in Links : MCReceiveChunk(l)
    \/ \E l \in Links, probe \in MCProbe : MCReceiveProbe(l, probe)

MCSpec == EndpointInit /\ [][MCNext]_endpointVars

\* The clock ticks and the statistics task takes its steps.
FairSpec ==
    /\ MCSpec
    /\ WF_endpointVars(Second) /\ WF_endpointVars(StatsTask)

\* Failover and recovery complete: a link that stays Down is without weight again
\* and again, one that stays in service has weight from some point on.
WeightsFollowHealth ==
    \A l \in Links :
        /\ <>[](links[l].state = "Down") => []<>(weight[l] = 0)
        /\ <>[](links[l].state \in {"Running", "Lossy"}) => <>[](weight[l] > 0)
=============================================================================
