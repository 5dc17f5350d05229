--------------------------- MODULE RateController ---------------------------
(***************************************************************************)
(* The adaptive rate controller of one endpoint                            *)
(* (core/src/rate_controller.rs): for every link a rate, the loss of each  *)
(* direction, a confidence in its probes (TAPA) and a path state, updated  *)
(* when a probe of the other endpoint arrives and by a periodic timeout    *)
(* check.                                                                  *)
(*                                                                         *)
(* Fractions and the confidence are percentages, rounded down as the code  *)
(* rounds them down when it casts back to u64.  Rates are in bytes per     *)
(* probe interval, so the interval drops out of every formula.  Every data *)
(* packet carries PacketBytes bytes.  The four never-reset counters of the *)
(* code and their two pairs of snapshots are kept as their differences:    *)
(* the packets since the last build_probe and since the last               *)
(* process_probe.  The RTT estimate feeds no decision and is left out.     *)
(***************************************************************************)
EXTENDS Integers, FiniteSets

CONSTANTS
    Links,                    \* the links of the endpoint
    MaxRate,                  \* tx_max_rate of every link
    MinStep,                  \* the 12,500 bytes/s floor of rates and rate steps
    PacketBytes,              \* bytes of a data packet
    MinRateFraction,          \* RateControlConfig, as percentages
    MaxRateChange,
    CongestionThreshold,
    CongestionReduction,
    GrowthFactor,
    LossMinPackets,           \* packets before loss is computed
    LossDecay,                \* accumulators lose 1/LossDecay (16 in the code)
    LossThreshold,            \* loss values are in 0..255
    LossDownThreshold,
    LossThresholdMultiplier,
    DownTimeout,              \* silence, in clock ticks, that takes a link down
    ProbeRecoveryCount,
    TapaEnabled, CrossLinkCheck, AcceleratedRecovery,
    IdleThreshold, HeavyThreshold, MinConfidence, RecoveryDecay

MaxOf(a, b) == IF a >= b THEN a ELSE b
MinOf(a, b) == IF a <= b THEN a ELSE b

\* p percent of x, rounded down like a cast of the f64 product to u64.
Percent(p, x) == (p * x) \div 100

MinRate(l) == MaxOf(Percent(MinRateFraction, MaxRate[l]), MinStep)

Percentage == 0 .. 100

ASSUME RatesAssumption ==
    /\ MinStep \in Nat
    /\ PacketBytes \in Nat \ {0}
    /\ MaxRate \in [Links -> Nat]
    /\ MinRateFraction \in Percentage
    \* clamp panics when the floor is above the ceiling, and fast recovery
    \* assigns half of the ceiling without clamping.
    /\ \A l \in Links : 0 < MaxRate[l] /\ MinRate(l) <= MaxRate[l] \div 2

ASSUME ConfigAssumption ==
    /\ MaxRateChange \in Nat /\ CongestionThreshold \in Nat
    /\ CongestionReduction \in Nat /\ GrowthFactor \in Nat
    /\ LossMinPackets \in Nat /\ LossDecay \in Nat \ {0}
    /\ LossThreshold \in 0 .. 255 /\ LossDownThreshold \in 0 .. 255
    /\ LossThresholdMultiplier \in Nat
    /\ DownTimeout \in Nat
    /\ ProbeRecoveryCount \in Nat

ASSUME TapaAssumption ==
    /\ TapaEnabled \in BOOLEAN /\ CrossLinkCheck \in BOOLEAN
    /\ AcceleratedRecovery \in BOOLEAN
    /\ IdleThreshold \in Nat /\ HeavyThreshold \in Nat
    /\ IdleThreshold < HeavyThreshold
    /\ MinConfidence \in Percentage /\ RecoveryDecay \in Percentage

-----------------------------------------------------------------------------

PathState == {"Running", "Lossy", "Down", "Probing"}

\* The accumulators of one direction: what its sender sent, what its receiver
\* received, and the loss last computed from the two.
Direction == [tx : Nat, rx : Nat, loss : 0 .. 255]

RateState ==
    [state            : PathState,
     tx_rate          : Nat,
     send             : Direction,    \* this endpoint to the remote
     recv             : Direction,    \* the remote to this endpoint
     probe_tx         : Nat,          \* packets since the last build_probe
     probe_rx         : Nat,
     loss_tx          : Nat,          \* packets since the last process_probe
     loss_rx          : Nat,
     probe_confidence        : Percentage,
     entered_down_confidence : Percentage,
     recovery_count   : Nat,
     silence          : 0 .. DownTimeout + 1]  \* ticks since last_probe_recv

\* What process_probe reads of a received ProbePacket.
Probe == [tx_packets : Nat, rx_packets : Nat]

VARIABLE links                        \* the state of every link

NewDirection == [tx |-> 0, rx |-> 0, loss |-> 0]

\* RateState::new
NewRateState(l) ==
    [state |-> "Running", tx_rate |-> MaxRate[l],
     send |-> NewDirection, recv |-> NewDirection,
     probe_tx |-> 0, probe_rx |-> 0, loss_tx |-> 0, loss_rx |-> 0,
     probe_confidence |-> 100, entered_down_confidence |-> 100,
     recovery_count |-> 0, silence |-> 0]

Loss(s) == MaxOf(s.send.loss, s.recv.loss)

\* A link that is Down or Probing gets no share of the traffic.  WeightUnit is
\* one Mbps in the code.
Weight(s, WeightUnit) ==
    IF s.state \in {"Down", "Probing"} THEN 0
    ELSE MaxOf(s.tx_rate \div WeightUnit, 1)

BuiltProbe(s) == [tx_packets |-> s.probe_tx, rx_packets |-> s.probe_rx]

AfterBuildProbe(s) == [s EXCEPT !.probe_tx = 0, !.probe_rx = 0]

AfterRecordTx(s) == [s EXCEPT !.probe_tx = @ + 1, !.loss_tx = @ + 1]
AfterRecordRx(s) == [s EXCEPT !.probe_rx = @ + 1, !.loss_rx = @ + 1]

\* last_probe_recv.elapsed() grows; beyond the timeout its value makes no difference.
AfterTick(s) == [s EXCEPT !.silence = MinOf(@ + 1, DownTimeout + 1)]

-----------------------------------------------------------------------------
(* TAPA *)

TrafficLoad(l, s) ==
    (100 * PacketBytes * MaxOf(s.probe_tx, s.probe_rx)) \div MaxRate[l]

ProbeConfidence(l, s) ==
    LET load == TrafficLoad(l, s)
        slope == ((load - IdleThreshold) * (100 - MinConfidence))
                     \div (HeavyThreshold - IdleThreshold)
    IN CASE ~TapaEnabled \/ load <= IdleThreshold -> 100
         [] TapaEnabled /\ load >= HeavyThreshold -> MinConfidence
         [] OTHER -> 100 - slope

\* More than 80% of the links show loss and more than 80% of them are loaded.
AllLinksPhantomLoss(ls) ==
    /\ TapaEnabled /\ CrossLinkCheck
    /\ Cardinality(Links) >= 2
    /\ Cardinality({l \in Links : Loss(ls[l]) > LossThreshold}) * 5
           > Cardinality(Links) * 4
    /\ Cardinality({l \in Links : ls[l].probe_confidence < 30}) * 5
           > Cardinality(Links) * 4

-----------------------------------------------------------------------------
(* Congestion *)

\* Mutant of ApplyRateChange: the desired rate is adopted in one step.
ApplyRateChangeAtOnce(l, current, desired) == MaxOf(MinRate(l), MinOf(desired, MaxRate[l]))

\* apply_rate_change: a bounded step towards the desired rate, then the clamp.
ApplyRateChange(l, current, desired) ==
    LET max_change == MaxOf(Percent(MaxRateChange, current), MinStep)
        stepped == IF desired > current
                     THEN current + MinOf(desired - current, max_change)
                     ELSE current - MinOf(current - desired, max_change)
    IN MaxOf(MinRate(l), MinOf(stepped, MaxRate[l]))

Trusted(c) == c > 50 \/ ~TapaEnabled

\* The rate after a probe: this endpoint's rate against the remote's while the
\* probe is trusted, slow growth while data flows when it is not.
RateAfterProbe(l, s, c, probe) ==
    LET our_rate == IF s.probe_tx > 0 THEN PacketBytes * s.probe_tx ELSE s.tx_rate
        remote_rate == PacketBytes * probe.rx_packets
        congested == remote_rate + Percent(CongestionThreshold, our_rate) < our_rate
        grown(half) == s.tx_rate + (GrowthFactor * s.tx_rate) \div (100 * half)
    IN CASE Trusted(c) /\ our_rate > 0 /\ remote_rate > 0 /\ congested ->
                ApplyRateChange(l, s.tx_rate, Percent(CongestionReduction, remote_rate))
         [] Trusted(c) /\ our_rate > 0 /\ remote_rate > 0 /\ ~congested ->
                ApplyRateChange(l, s.tx_rate, grown(1))
         [] Trusted(c) /\ our_rate = 0 /\ remote_rate = 0 ->
                ApplyRateChange(l, s.tx_rate, grown(1))
         [] ~Trusted(c) /\ (s.loss_tx > 0 \/ s.loss_rx > 0) ->
                ApplyRateChange(l, s.tx_rate, grown(2))
         [] OTHER -> s.tx_rate

-----------------------------------------------------------------------------
(* Directional loss *)

LossRatio(tx, rx) == IF tx > rx THEN ((tx - rx) * 255) \div tx ELSE 0

\* Mutant of Decayed: the part that decays is rounded up, once too often.
DecayedTooFar(acc) == acc - (acc \div LossDecay + 1)

Decayed(acc) == acc - acc \div LossDecay

Accumulate(d, tx, rx) ==
    LET t == d.tx + tx
        r == d.rx + rx
    IN IF t > LossMinPackets
         THEN [tx |-> Decayed(t), rx |-> Decayed(r), loss |-> LossRatio(t, r)]
         ELSE [d EXCEPT !.tx = t, !.rx = r]

\* Keep p percent of what a direction has accumulated.
Scale(d, p) == [d EXCEPT !.tx = Percent(p, d.tx), !.rx = Percent(p, d.rx)]

\* The state after steps 1 to 4 of process_probe: confidence, rate, both
\* directions' loss gated by the confidence, accelerated decay when the load
\* has just gone.
Measured(l, s, c, probe) ==
    LET gate == IF TapaEnabled THEN c ELSE 100
        keep == IF /\ TapaEnabled /\ AcceleratedRecovery
                   /\ s.probe_confidence < 30 /\ c > 70
                  THEN RecoveryDecay ELSE 100
        send == Accumulate(s.send, Percent(gate, s.loss_tx), Percent(gate, probe.rx_packets))
        recv == Accumulate(s.recv, Percent(gate, probe.tx_packets), Percent(gate, s.loss_rx))
    IN [s EXCEPT !.probe_confidence = c,
                 !.silence = 0,
                 !.tx_rate = RateAfterProbe(l, s, c, probe),
                 !.loss_tx = 0, !.loss_rx = 0,
                 !.send = Scale(send, keep), !.recv = Scale(recv, keep)]

-----------------------------------------------------------------------------
(* Path state *)

Damped(c) == TapaEnabled /\ c < 50

LossyAbove(c) ==
    IF Damped(c) THEN MinOf(MinOf(LossThreshold * LossThresholdMultiplier, 255), 200)
                 ELSE LossThreshold
DownAbove(c) ==
    IF Damped(c) THEN LossDownThreshold + (255 - LossDownThreshold) \div 2
                 ELSE LossDownThreshold

EnterDown(s, c) ==
    [s EXCEPT !.state = "Down", !.recovery_count = 0, !.entered_down_confidence = c]

\* Running and Lossy follow the loss, unless all links report phantom loss.
JudgeLoss(s, c, suppress) ==
    CASE ~suppress /\ Loss(s) > DownAbove(c) -> EnterDown(s, c)
      [] ~suppress /\ Loss(s) <= DownAbove(c) /\ Loss(s) > LossyAbove(c) ->
             [s EXCEPT !.state = "Lossy"]
      [] ~suppress /\ Loss(s) <= DownAbove(c) /\ Loss(s) <= LossyAbove(c) ->
             [s EXCEPT !.state = "Running"]
      [] suppress /\ Loss(s) <= LossThreshold -> [s EXCEPT !.state = "Running"]
      [] OTHER -> s

\* The link was loaded when it went Down: take the loss for phantom loss.
DownWhileLoaded(s) == s.entered_down_confidence < 30 /\ TapaEnabled

\* Mutant of StartRecovery: the first answer puts the link back in service if one is enough.
StartRecoveryIfOwing(l, s) ==
    [s EXCEPT !.state = IF ProbeRecoveryCount <= 1 THEN "Running" ELSE "Probing",
              !.recovery_count = 1, !.tx_rate = MinRate(l)]

\* Mutant of StartRecovery: the fast track halves the link's rate instead of its ceiling.
StartRecoveryHalvingRate(l, s) ==
    [s EXCEPT !.state = "Probing",
              !.recovery_count = IF DownWhileLoaded(s) THEN MaxOf(ProbeRecoveryCount - 1, 0)
                                                       ELSE 1,
              !.tx_rate = IF DownWhileLoaded(s) THEN @ \div 2 ELSE MinRate(l)]

\* Mutant of StartRecovery: the fast track goes by the load of now, not of the failure.
StartRecoveryByPresentLoad(l, s) ==
    [s EXCEPT !.state = "Probing",
              !.recovery_count = IF s.probe_confidence < 30 /\ TapaEnabled
                                   THEN MaxOf(ProbeRecoveryCount - 1, 0) ELSE 1]

StartRecovery(l, s) ==
    IF DownWhileLoaded(s)
      THEN [s EXCEPT !.state = "Probing",
                     !.recovery_count = MaxOf(ProbeRecoveryCount - 1, 0),
                     !.tx_rate = MaxRate[l] \div 2,
                     !.send = Scale(@, 50), !.recv = Scale(@, 50)]
      ELSE [s EXCEPT !.state = "Probing", !.recovery_count = 1, !.tx_rate = MinRate(l)]

\* Mutant of ContinueRecovery: the answer is not counted.
ContinueRecoveryUncounted(l, s) ==
    IF s.recovery_count < ProbeRecoveryCount THEN s
    ELSE [s EXCEPT !.state = "Running", !.tx_rate = MinRate(l)]

ContinueRecovery(l, s) ==
    LET counted == [s EXCEPT !.recovery_count = @ + 1]
    IN CASE counted.recovery_count < ProbeRecoveryCount -> counted
         [] counted.recovery_count >= ProbeRecoveryCount
                /\ s.entered_down_confidence < 30 -> [counted EXCEPT !.state = "Running"]
         [] OTHER -> [counted EXCEPT !.state = "Running", !.tx_rate = MinRate(l)]

\* Step 5 of process_probe: s is the link before the probe, m what the probe
\* made of its measurements, c the confidence it is trusted with.
Judged(l, s, c, m, suppress) ==
    CASE s.state \in {"Running", "Lossy"} -> JudgeLoss(m, c, suppress)
      [] s.state = "Down" -> StartRecovery(l, m)
      [] s.state = "Probing" -> ContinueRecovery(l, m)

TimedOut(s) == s.state # "Down" /\ s.silence > DownTimeout

-----------------------------------------------------------------------------
(* The operations *)

Init == links = [l \in Links |-> NewRateState(l)]

RecordTx(l) == links' = [links EXCEPT ![l] = AfterRecordTx(@)]

RecordRx(l) == links' = [links EXCEPT ![l] = AfterRecordRx(@)]

BuildProbes == links' = [l \in Links |-> AfterBuildProbe(links[l])]

\* Mutant of ProcessProbe: the links are correlated after this one is measured.
ProcessProbeLateCheck(l, probe) ==
    \E c \in {ProbeConfidence(l, links[l])} :
    \E m \in {Measured(l, links[l], c, probe)} :
        links' = [links EXCEPT
            ![l] = Judged(l, @, c, m, AllLinksPhantomLoss([links EXCEPT ![l] = m]))]

\* The confidence and the correlation of the links are read before any change.
ProcessProbe(l, probe) ==
    \E c \in {ProbeConfidence(l, links[l])} :
    \E m \in {Measured(l, links[l], c, probe)} :
        links' = [links EXCEPT ![l] = Judged(l, @, c, m, AllLinksPhantomLoss(links))]

CheckTimeouts ==
    links' = [l \in Links |->
                 IF TimedOut(links[l])
                   THEN EnterDown(links[l], links[l].probe_confidence)
                   ELSE links[l]]

\* The passing of time.
Tick == links' = [l \in Links |-> AfterTick(links[l])]

Next ==
    \/ \E l \in Links : RecordTx(l) \/ RecordRx(l)
    \/ BuildProbes
    \/ \E l \in Links, probe \in Probe : ProcessProbe(l, probe)
    \/ CheckTimeouts
    \/ Tick

Spec == Init /\ [][Next]_links

-----------------------------------------------------------------------------
(* Properties *)

TypeOK == links \in [Links -> RateState]

\* The rate of a link stays between the floor and the ceiling of its
\* configuration, although recovery assigns it without apply_rate_change's clamp
\* (rate_controller.rs:505 and :515): the floor is what prevents the death spiral.
RateInBounds ==
    \A l \in Links : MinRate(l) <= links[l].tx_rate /\ links[l].tx_rate <= MaxRate[l]

\* The recovery counter and the path state agree: a Down link has answered no
\* probe, and a Probing link has at most the answers that leave it one to give, so
\* neither a timeout during recovery nor a second failure leaves a head start behind,
\* and the fast track's start value does not underflow (rate_controller.rs:503).
RecoveryCountAgrees ==
    \A l \in Links :
        /\ links[l].state = "Down" => links[l].recovery_count = 0
        /\ links[l].state = "Probing" =>
               links[l].recovery_count <= MaxOf(ProbeRecoveryCount - 1, 1)

IInv == TypeOK /\ RateInBounds /\ RecoveryCountAgrees

\* A link that stays in service never changes its rate by more than one capped
\* step (rate_controller.rs:589-603), clamp included.
RateStepCapped ==
    [][\A l \in Links :
          {links[l].state, links'[l].state} \subseteq {"Running", "Lossy"} =>
              LET cap == MaxOf(Percent(MaxRateChange, links[l].tx_rate), MinStep)
              IN /\ links'[l].tx_rate <= links[l].tx_rate + cap
                 /\ links'[l].tx_rate >= links[l].tx_rate - cap]_links

\* Cross-link correlation (TAPA): while every link reports loss under load, no
\* probe takes a link Down; only silence does.  The check reads all links before
\* the probe changes its own (rate_controller.rs:302).
CrossLinkVeto ==
    [][\A l \in Links :
          links[l].state \in {"Running", "Lossy"} /\ links'[l].state = "Down"
              => links[l].silence > DownTimeout \/ ~AllLinksPhantomLoss(links)]_links

\* The abstract specification of the path states, and what its variables are
\* here: a Probing link owes what is missing in its recovery count, and always
\* at least the next probe.
PathOf(s) == CASE s.state = "Down" -> "Down"
               [] s.state = "Probing" -> "Proving"
               [] OTHER -> "Up"

OwedBy(s) == IF s.state = "Probing"
               THEN MaxOf(ProbeRecoveryCount - s.recovery_count, 1) ELSE 0

Health == INSTANCE PathHealth WITH
    path <- [l \in Links |-> PathOf(links[l])],
    owed <- [l \in Links |-> OwedBy(links[l])],
    doubted <- [l \in Links |-> DownWhileLoaded(links[l])],
    FullCount <- MaxOf(ProbeRecoveryCount - 1, 1),
    ShortCount <- 1

\* The rate controller implements PathHealth: no measurement, timeout or
\* interleaving brings a failed link back into service before it has answered
\* the probes it owes, and no two links return in one step.
ImplementsPathHealth == Health!Spec
=============================================================================
