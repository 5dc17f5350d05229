---------------------------- MODULE FlowClassifier ----------------------------
(***************************************************************************)
(* The flow classifier of one endpoint (core/src/flow_classifier.rs): the  *)
(* TUN reader classifies every packet, which moves the packet's flow       *)
(* between one link and all of them as its bandwidth crosses the           *)
(* thresholds.  A packet without a flow id is MultiLink and changes        *)
(* nothing.                                                                *)
(*                                                                         *)
(* Time is in ticks; a sample is kept under its age, so the samples of one *)
(* age are added up.  Thresholds are percentages.                          *)
(***************************************************************************)
EXTENDS Integers, FiniteSetsExt

CONSTANTS
    Flows,                \* the FlowIds
    Links,                \* indices 0 .. n-1
    Bandwidths,           \* what update_bandwidths may be given
    SingleLinkThreshold, MultiLinkThreshold,
    MonitorDuration, FlowWindow, FlowExpiry,
    SampleLife,           \* 5 seconds in the code
    MultiLink             \* the mode that is no link

ASSUME ClassifierAssumption ==
    /\ IsFiniteSet(Links) /\ Links # {} /\ Links \subseteq Nat /\ MultiLink \notin Links
    /\ Bandwidths # {} /\ Bandwidths \subseteq [Links -> Nat]
    /\ SingleLinkThreshold \in Nat /\ MultiLinkThreshold \in Nat
    /\ SingleLinkThreshold < MultiLinkThreshold     \* ChainLightningConfig::validate
    /\ MonitorDuration \in Nat \ {0} /\ FlowExpiry \in Nat \ {0}
    /\ SampleLife \in Nat /\ FlowWindow \in 1 .. SampleLife

VARIABLES
    flows,                \* the tracked flows
    link_bandwidths,
    fastest_link

classifierVars == <<flows, link_bandwidths, fastest_link>>

FlowMode == Links \cup {MultiLink}

Stopped == -1             \* the None of exceeded_threshold_at

Ages == 0 .. SampleLife - 1

\* Beyond the monitoring duration and the expiry, ages make no difference.
FlowState ==
    [mode : FlowMode,
     samples : [Ages -> Nat],                          \* bytes by age
     exceeded : {Stopped} \cup 0 .. MonitorDuration,   \* age of exceeded_threshold_at
     last_seen : 0 .. FlowExpiry]

NewFlow == [mode |-> fastest_link, samples |-> [a \in Ages |-> 0],
            exceeded |-> Stopped, last_seen |-> 0]

Entry(f) == IF f \in DOMAIN flows THEN flows[f] ELSE NewFlow

\* Mutant of Fastest: the position is counted from one.
FastestFromOne(b) == 1 + Max({l \in Links : \A k \in Links : b[k] <= b[l]})

\* max_by_key: of equally fast links the last one.
Fastest(b) == Max({l \in Links : \A k \in Links : b[k] <= b[l]})

\* record_bytes
Recorded(s, bytes) == [s EXCEPT !.samples[0] = @ + bytes, !.last_seen = 0]

EstimatedBandwidth(s) ==
    MapThenSumSet(LAMBDA a : s.samples[a], {a \in Ages : a < FlowWindow}) \div FlowWindow

\* The flow's bandwidth is more, or less, than p percent of the fastest link's.
Capacity(p) == p * Max({link_bandwidths[fastest_link], 1})

Above(s, p) == 100 * EstimatedBandwidth(s) > Capacity(p)

Below(s, p) == 100 * EstimatedBandwidth(s) < Capacity(p)

\* Mutant of Started: the timer starts anew with every packet.
StartedAnew(s) == 0

\* The age of the timer, which starts now unless it runs already.
Started(s) == IF s.exceeded = Stopped THEN 0 ELSE s.exceeded

\* Mutant of Switched: the timer of the old mode keeps running.
SwitchedRunning(s, mode) == [s EXCEPT !.mode = mode, !.exceeded = Started(s)]

Switched(s, mode) == [s EXCEPT !.mode = mode, !.exceeded = Stopped]

\* The decision for a flow whose packet has been recorded.
Decided(s) ==
    LET single == s.mode # MultiLink
        watched == IF single THEN Above(s, SingleLinkThreshold)
                             ELSE Below(s, SingleLinkThreshold)
        due == watched /\ Started(s) >= MonitorDuration
    IN CASE ~watched -> [s EXCEPT !.exceeded = Stopped]
         [] due /\ single /\ Above(s, MultiLinkThreshold) -> Switched(s, MultiLink)
         [] due /\ ~single -> Switched(s, fastest_link)
         [] OTHER -> [s EXCEPT !.exceeded = Started(s)]

-----------------------------------------------------------------------------

ClassifierInit ==
    /\ flows = [f \in {} |-> NewFlow]
    /\ link_bandwidths \in Bandwidths
    /\ fastest_link = Fastest(link_bandwidths)

\* classify, for a packet of flow f
Classify(f, bytes) ==
    /\ flows' = [g \in DOMAIN flows \cup {f} |->
                    IF g = f THEN Decided(Recorded(Entry(f), bytes)) ELSE flows[g]]
    /\ UNCHANGED <<link_bandwidths, fastest_link>>

\* update_bandwidths
UpdateBandwidths(b) ==
    /\ link_bandwidths' = b
    /\ fastest_link' = Fastest(b)
    /\ UNCHANGED flows

\* expire_flows
ExpireFlows ==
    /\ flows' = Restrict(flows, {f \in DOMAIN flows : flows[f].last_seen < FlowExpiry})
    /\ UNCHANGED <<link_bandwidths, fastest_link>>

\* The age of a running timer after a tick.
Later(age, limit) == IF age = Stopped THEN Stopped ELSE Min({age + 1, limit})

\* The clock moves on.
Aged(s) ==
    [s EXCEPT !.samples = [a \in Ages |-> IF a = 0 THEN 0 ELSE s.samples[a - 1]],
              !.exceeded = Later(@, MonitorDuration),
              !.last_seen = Later(@, FlowExpiry)]

Tick ==
    /\ flows' = [f \in DOMAIN flows |-> Aged(flows[f])]
    /\ UNCHANGED <<link_bandwidths, fastest_link>>

ClassifierNext ==
    \/ \E f \in Flows, bytes \in Nat : Classify(f, bytes)
    \/ \E b \in Bandwidths : UpdateBandwidths(b)
    \/ ExpireFlows
    \/ Tick

ClassifierSpec == ClassifierInit /\ [][ClassifierNext]_classifierVars

-----------------------------------------------------------------------------
(* Properties *)

ClassifierTypeOK ==
    /\ DOMAIN flows \subseteq Flows
    /\ flows \in [DOMAIN flows -> FlowState]
    /\ link_bandwidths \in Bandwidths
    /\ fastest_link \in Links
=============================================================================
