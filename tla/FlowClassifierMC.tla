--------------------------- MODULE FlowClassifierMC ---------------------------
(***************************************************************************)
(* FlowClassifier with a bounded number of bytes per flow and tick.  For   *)
(* every tracked flow, held is the time since it was created or last       *)
(* changed its mode; hot and cold are the times since the first of the     *)
(* unbroken run of its latest packets that found it above the multi-link   *)
(* threshold, and below the single-link threshold.                         *)
(***************************************************************************)
EXTENDS FlowClassifier, TLC

CONSTANTS
    Sizes, MaxBytes           \* sizes of packets, bytes of a flow in one tick

ASSUME SizesAssumption == Sizes \subseteq Nat

VARIABLES held, hot, cold

mcvars == <<classifierVars, held, hot, cold>>

\* Link 0 is faster, or both are as fast.
MCBandwidths == {[l \in Links |-> IF l = 0 THEN b ELSE 2] : b \in {2, 4}}

Symmetry == Permutations(Flows)

MCInit ==
    /\ ClassifierInit
    /\ held = [f \in Flows |-> 0]
    /\ hot = [f \in Flows |-> Stopped] /\ cold = hot

\* What a run that is at r becomes when the flow is found in its range, or not.
Run(r, found) == IF ~found THEN Stopped ELSE IF r = Stopped THEN 0 ELSE r

MCClassify(f, bytes) ==
    /\ Entry(f).samples[0] + bytes <= MaxBytes
    /\ Classify(f, bytes)
    /\ held' = IF Entry(f).mode = flows'[f].mode THEN held ELSE [held EXCEPT ![f] = 0]
    /\ hot' = [hot EXCEPT ![f] = Run(@, Above(flows'[f], MultiLinkThreshold))]
    /\ cold' = [cold EXCEPT ![f] = Run(@, Below(flows'[f], SingleLinkThreshold))]

MCUpdateBandwidths(b) == UpdateBandwidths(b) /\ UNCHANGED <<held, hot, cold>>

\* A flow that is forgotten starts again.
MCExpireFlows ==
    /\ ExpireFlows
    /\ LET Kept(age, new) == [f \in Flows |-> IF f \in DOMAIN flows' THEN age[f] ELSE new]
       IN held' = Kept(held, 0) /\ hot' = Kept(hot, Stopped) /\ cold' = Kept(cold, Stopped)

MCTick ==
    /\ Tick
    /\ LET Older(age) == [f \in Flows |-> IF f \in DOMAIN flows
                                            THEN Later(age[f], MonitorDuration) ELSE age[f]]
       IN held' = Older(held) /\ hot' = Older(hot) /\ cold' = Older(cold)

MCNext ==
    \/ \E f \in Flows, bytes \in Sizes : MCClassify(f, bytes)
    \/ \E b \in Bandwidths : MCUpdateBandwidths(b)
    \/ MCExpireFlows
    \/ MCTick

MCSpec == MCInit /\ [][MCNext]_mcvars

-----------------------------------------------------------------------------

\* Flows do not flap: a tracked flow keeps its mode for the monitoring duration
\* after it was created or last changed it, although one timer serves both modes
\* (flow_classifier.rs:164 and :195).
ModeHolds ==
    [][\A f \in DOMAIN flows \cap DOMAIN flows' :
          flows[f].mode # flows'[f].mode => held[f] >= MonitorDuration]_mcvars

\* Sustained demand decides the mode: a packet that finds its flow above the
\* multi-link threshold, as all its packets of the last monitoring duration did,
\* leaves the flow on all links, whatever mode it had before; one that finds it
\* below the single-link threshold as long leaves it on one link.
DemandDecides ==
    [][\A f \in Flows, bytes \in Sizes : MCClassify(f, bytes) =>
          /\ hot'[f] >= MonitorDuration => flows'[f].mode = MultiLink
          /\ cold'[f] >= MonitorDuration => flows'[f].mode # MultiLink]_mcvars
=============================================================================
