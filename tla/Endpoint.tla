------------------------------ MODULE Endpoint ------------------------------
(***************************************************************************)
(* The tasks of one endpoint that share its rate controller and its link   *)
(* scheduler, each behind a lock of its own (client/src/main.rs; the tasks *)
(* of server/src/main.rs are the same): the statistics task, once a second;*)
(* the chunk sender; the probe sender; and the link receivers.  A step is  *)
(* what a task does under one lock, so another task may act between any    *)
(* two of them.                                                            *)
(*                                                                         *)
(* One clock tick is the period of the statistics task.                    *)
(***************************************************************************)
EXTENDS RateController

CONSTANTS
    ConfiguredWeight, CursorModulus, NoLink,   \* as in LinkScheduler
    WeightUnit                                 \* the rate of one unit of weight

ASSUME WeightsAssumption ==
    /\ Links \subseteq Nat /\ 0 \in Links
    /\ ConfiguredWeight \in [Links -> Nat]
    /\ WeightUnit \in Nat \ {0}

VARIABLES
    weight, total_weight, cursor,   \* as in LinkScheduler
    chosen,         \* the chunk sender's decision, until the chunk is sent
    task,           \* what the statistics task does next
    weights         \* the statistics task's local copy of the controller's weights

Sched == INSTANCE LinkScheduler

schedVars == <<weight, total_weight, cursor>>
endpointVars == <<links, schedVars, chosen, task, weights>>

EndpointInit ==
    /\ Init
    /\ Sched!SchedInit
    /\ task = "idle"
    /\ weights = ConfiguredWeight

-----------------------------------------------------------------------------
(* The statistics task *)

\* A second passes and the interval fires.  The task's round takes less than a
\* second, so the clock does not tick while it is under way.  A silence that passes
\* the timeout between two rounds, or during one, passes it here when the next begins.
Second ==
    /\ task = "idle"
    /\ Tick
    /\ task' = "update"
    /\ UNCHANGED <<schedVars, chosen, weights>>

\* update_link for every link.  The first call resets all weights if, by the
\* clock, a whole second has passed since the last reset; the interval is a
\* second too, so with its jitter either may be the case.
UpdateLinks ==
    /\ task = "update"
    /\ \/ Sched!AdjustWeights
       \/ UNCHANGED <<schedVars, chosen>>
    /\ task' = "check"
    /\ UNCHANGED <<links, weights>>

\* Mutant of ReadWeights: the weights are read before the timeouts are checked.
ReadWeightsFirst ==
    /\ task = "check"
    /\ CheckTimeouts
    /\ weights' = [l \in Links |-> Weight(links[l], WeightUnit)]
    /\ task' = "push"
    /\ UNCHANGED <<schedVars, chosen>>

\* check_timeouts and weights, under the controller's lock.
ReadWeights ==
    /\ task = "check"
    /\ CheckTimeouts
    /\ weights' = [l \in Links |-> Weight(links'[l], WeightUnit)]
    /\ task' = "push"
    /\ UNCHANGED <<schedVars, chosen>>

\* Mutant of PushWeights: weights with a zero among them are taken for missing ones.
PushNonzeroWeights ==
    /\ task = "push"
    /\ IF \A l \in Links : weights[l] > 0
         THEN Sched!SetRateControlledWeights(weights)
         ELSE UNCHANGED <<schedVars, chosen>>
    /\ task' = "idle"
    /\ UNCHANGED <<links, weights>>

\* The weights, read before the controller's lock was dropped, reach the scheduler.
PushWeights ==
    /\ task = "push"
    /\ Sched!SetRateControlledWeights(weights)
    /\ task' = "idle"
    /\ UNCHANGED <<links, weights>>

-----------------------------------------------------------------------------
(* The chunk sender *)

ScheduleChunk ==
    /\ chosen = NoLink
    /\ Sched!Schedule
    /\ UNCHANGED <<links, task, weights>>

\* The socket takes the chunk and the packet is recorded, or the send fails and
\* the chunk is gone.
SendChunk ==
    /\ chosen # NoLink
    /\ RecordTx(chosen) \/ UNCHANGED links
    /\ chosen' = NoLink
    /\ UNCHANGED <<schedVars, task, weights>>

-----------------------------------------------------------------------------
(* The probe sender and the link receivers *)

SendProbes ==
    /\ BuildProbes
    /\ UNCHANGED <<schedVars, chosen, task, weights>>

ReceiveChunk(l) ==
    /\ RecordRx(l)
    /\ UNCHANGED <<schedVars, chosen, task, weights>>

ReceiveProbe(l, probe) ==
    /\ ProcessProbe(l, probe)
    /\ UNCHANGED <<schedVars, chosen, task, weights>>

-----------------------------------------------------------------------------

StatsTask == UpdateLinks \/ ReadWeights \/ PushWeights

EndpointNext ==
    \/ Second \/ StatsTask
    \/ ScheduleChunk \/ SendChunk
    \/ SendProbes
    \/ \E l \in Links : ReceiveChunk(l)
    \/ \E l \in Links, probe \in Probe : ReceiveProbe(l, probe)

EndpointSpec == EndpointInit /\ [][EndpointNext]_endpointVars

-----------------------------------------------------------------------------
(* Properties *)

EndpointTypeOK ==
    /\ TypeOK
    /\ weight \in [Links -> Nat] /\ weights \in [Links -> Nat]
    /\ chosen \in Links \cup {NoLink}
    /\ task \in {"idle", "update", "check", "push"}

\* Failover: after a round of the statistics task, a link whose last probe was older
\* than the timeout when the round began is Down and carries no weight, whichever
\* probes, chunks and weight resets came in between.  (One that becomes silent later
\* keeps its weight until the next round has ended, a second or a little more.)
SilentLinkHasNoWeight ==
    task = "idle" =>
        \A l \in Links :
            links[l].silence > DownTimeout => links[l].state = "Down" /\ weight[l] = 0

\* core/tests/download_simulation.rs:493 "DOWN link should get 0 chunks", for a
\* link to which the controller's last weights already gave none, while another
\* link has some.
DownLinkGetsNoChunk ==
    [][\A l \in Links :
          /\ chosen = NoLink /\ chosen' = l
          /\ links[l].state = "Down"
          /\ task # "push" /\ weights[l] = 0
          => \A k \in Links : weights[k] = 0]_endpointVars
=============================================================================
