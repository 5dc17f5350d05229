---------------------------- MODULE Endpoint_proofs ----------------------------
(***************************************************************************)
(* Theorems about RateController, for every set of links, every            *)
(* configuration that satisfies the module's assumptions and every probe,  *)
(* and about Endpoint, which runs it: the tasks of an endpoint leave no    *)
(* silent link with a weight, whichever of their steps come in between.    *)
(***************************************************************************)
EXTENDS Endpoint, Aggregates

-----------------------------------------------------------------------------
(* Lemmas on the operators *)

\* Percentages of naturals are naturals.
LEMMA PercentNat ==
    ASSUME NEW p \in Nat, NEW x \in Nat
    PROVE  Percent(p, x) \in Nat
BY DEF Percent

\* The floor is a natural number and at most half of the ceiling.
LEMMA FloorBelowCeiling ==
    ASSUME NEW l \in Links
    PROVE  /\ MaxRate[l] \in Nat
           /\ MinRate(l) \in Nat
           /\ MaxRate[l] \div 2 \in Nat
           /\ MinRate(l) <= MaxRate[l] \div 2
           /\ MaxRate[l] \div 2 <= MaxRate[l]
<1>1. MaxRate[l] \in Nat /\ MinRate(l) <= MaxRate[l] \div 2
  BY RatesAssumption
<1>2. Percent(MinRateFraction, MaxRate[l]) \in Nat
  <2>1. MinRateFraction \in Nat
    BY RatesAssumption DEF Percentage
  <2> QED
    BY <1>1, <2>1, PercentNat
<1>3. MinRate(l) \in Nat
  BY <1>2, RatesAssumption DEF MinRate, MaxOf
<1> QED
  BY <1>1, <1>3

\* apply_rate_change ends between the floor and the ceiling, and from a rate
\* between them it moves by at most one capped step: the clamp never jumps.
LEMMA RateChangeBounded ==
    ASSUME NEW l \in Links, NEW current \in Nat, NEW desired \in Nat
    PROVE  LET new == ApplyRateChange(l, current, desired)
               cap == MaxOf(Percent(MaxRateChange, current), MinStep)
           IN /\ new \in Nat
              /\ MinRate(l) <= new /\ new <= MaxRate[l]
              /\ (MinRate(l) <= current /\ current <= MaxRate[l]) =>
                     new <= current + cap /\ new >= current - cap
<1> DEFINE cap == MaxOf(Percent(MaxRateChange, current), MinStep)
<1>1. Percent(MaxRateChange, current) \in Nat /\ MinStep \in Nat
  BY PercentNat, ConfigAssumption, RatesAssumption
<1>2. cap \in Nat
  BY <1>1 DEF MaxOf
<1> HIDE DEF cap
<1>3. /\ MaxRate[l] \in Nat /\ MinRate(l) \in Nat /\ MinRate(l) <= MaxRate[l]
  BY FloorBelowCeiling
<1>4. ApplyRateChange(l, current, desired) =
          MaxOf(MinRate(l),
                MinOf(IF desired > current THEN current + MinOf(desired - current, cap)
                                           ELSE current - MinOf(current - desired, cap),
                      MaxRate[l]))
  BY DEF ApplyRateChange, cap
<1> QED
  BY <1>2, <1>3, <1>4 DEF MaxOf, MinOf, cap

\* Every probe leaves the rate in bounds and moves it by at most one step.
LEMMA ProbeRateBounded ==
    ASSUME NEW l \in Links, NEW s \in RateState, NEW c \in Int, NEW probe \in Probe,
           MinRate(l) <= s.tx_rate, s.tx_rate <= MaxRate[l]
    PROVE  LET new == RateAfterProbe(l, s, c, probe)
               cap == MaxOf(Percent(MaxRateChange, s.tx_rate), MinStep)
           IN /\ new \in Nat
              /\ MinRate(l) <= new /\ new <= MaxRate[l]
              /\ new <= s.tx_rate + cap /\ new >= s.tx_rate - cap
<1> DEFINE cap == MaxOf(Percent(MaxRateChange, s.tx_rate), MinStep)
           Good(new) == /\ new \in Nat
                        /\ MinRate(l) <= new /\ new <= MaxRate[l]
                        /\ new <= s.tx_rate + cap /\ new >= s.tx_rate - cap
<1>1. s.tx_rate \in Nat /\ probe.rx_packets \in Nat
  BY DEF RateState, Probe
<1>2. /\ PacketBytes * probe.rx_packets \in Nat
      /\ Percent(CongestionReduction, PacketBytes * probe.rx_packets) \in Nat
  <2>1. PacketBytes \in Nat /\ CongestionReduction \in Nat
    BY RatesAssumption, ConfigAssumption
  <2>2. PacketBytes * probe.rx_packets \in Nat
    BY <1>1, <2>1
  <2> QED
    BY <2>1, <2>2, PercentNat
<1>3. /\ GrowthFactor * s.tx_rate \in Nat
      /\ s.tx_rate + (GrowthFactor * s.tx_rate) \div (100 * 1) \in Nat
      /\ s.tx_rate + (GrowthFactor * s.tx_rate) \div (100 * 2) \in Nat
  <2>1. GrowthFactor * s.tx_rate \in Nat
    BY <1>1, ConfigAssumption
  <2> QED
    BY <1>1, <2>1
<1>4. ASSUME NEW desired \in Nat PROVE Good(ApplyRateChange(l, s.tx_rate, desired))
  BY <1>1, <1>4, RateChangeBounded
<1>5. Good(s.tx_rate)
  <2>1. Percent(MaxRateChange, s.tx_rate) \in Nat /\ MinStep \in Nat
    BY <1>1, PercentNat, ConfigAssumption, RatesAssumption
  <2>2. cap \in Nat
    BY <2>1 DEF MaxOf
  <2> QED
    BY <1>1, <2>2
<1> HIDE DEF Good
<1>6. Good(RateAfterProbe(l, s, c, probe))
  BY <1>2, <1>3, <1>4, <1>5 DEF RateAfterProbe
<1> QED
  BY <1>6 DEF Good

\* The loss ratio fits the u8 it is cast to.
LEMMA LossFitsByte ==
    ASSUME NEW tx \in Nat, NEW rx \in Nat
    PROVE  LossRatio(tx, rx) \in 0 .. 255
<1>1. CASE tx > rx
  <2> DEFINE n == (tx - rx) * 255
             q == n \div tx
  <2>1. n \in Nat /\ n <= 255 * tx /\ tx > 0
    BY <1>1
  <2> HIDE DEF n
  <2>2. q \in Int /\ tx * q <= n /\ n < tx * q + tx
    BY <2>1
  <2> HIDE DEF q
  <2>3. q >= 0
    <3>1. SUFFICES ASSUME q <= -1 PROVE FALSE
      BY <2>2
    <3>2. tx * q <= -tx
      BY <2>1, <2>2, <3>1
    <3> QED
      BY <2>1, <2>2, <3>2
  <2>4. q <= 255
    <3>1. SUFFICES ASSUME q >= 256 PROVE FALSE
      BY <2>2
    <3>2. tx * q >= tx * 256
      BY <2>1, <2>2, <3>1
    <3> QED
      BY <2>1, <2>2, <3>2
  <2> QED
    BY <1>1, <2>2, <2>3, <2>4 DEF LossRatio, q, n
<1>2. CASE ~(tx > rx)
  BY <1>2 DEF LossRatio
<1> QED
  BY <1>1, <1>2

\* An accumulator decays to a natural number: it never underflows.
LEMMA DecayedNat ==
    ASSUME NEW acc \in Nat
    PROVE  Decayed(acc) \in Nat
<1> DEFINE q == acc \div LossDecay
<1>1. LossDecay \in Nat /\ LossDecay >= 1
  BY ConfigAssumption
<1>2. q \in Int /\ LossDecay * q <= acc
  BY <1>1
<1> HIDE DEF q
<1>3. q <= acc
  <2>1. SUFFICES ASSUME q >= acc + 1 PROVE FALSE
    BY <1>2
  <2>2. LossDecay * q >= q
    BY <1>1, <1>2, <2>1
  <2> QED
    BY <1>1, <1>2, <2>1, <2>2
<1> QED
  BY <1>2, <1>3 DEF Decayed, q

\* The accumulators stay natural and the loss fits a byte (rate_controller.rs:407-438).
LEMMA AccumulateTyped ==
    ASSUME NEW d \in Direction, NEW tx \in Nat, NEW rx \in Nat
    PROVE  Accumulate(d, tx, rx) \in Direction
<1>1. d.tx + tx \in Nat /\ d.rx + rx \in Nat
  BY DEF Direction
<1>2. /\ Decayed(d.tx + tx) \in Nat
      /\ Decayed(d.rx + rx) \in Nat
      /\ LossRatio(d.tx + tx, d.rx + rx) \in 0 .. 255
  BY <1>1, DecayedNat, LossFitsByte
<1> QED
  BY <1>1, <1>2 DEF Accumulate, Direction

\* Accelerated decay (rate_controller.rs:448-451, :507-510) keeps a direction well-formed.
LEMMA ScaleTyped ==
    ASSUME NEW d \in Direction, NEW p \in Nat
    PROVE  Scale(d, p) \in Direction
<1>1. Percent(p, d.tx) \in Nat /\ Percent(p, d.rx) \in Nat
  BY PercentNat DEF Direction
<1> QED
  BY <1>1 DEF Scale, Direction

\* The confidence of a probe is a percentage: the interpolation between the two
\* load thresholds leaves neither end.
LEMMA ConfidenceIsPercentage ==
    ASSUME NEW l \in Links, NEW s \in RateState
    PROVE  ProbeConfidence(l, s) \in Percentage
<1> DEFINE load == TrafficLoad(l, s)
           width == HeavyThreshold - IdleThreshold
           over == load - IdleThreshold
           fall == 100 - MinConfidence
           q == (over * fall) \div width
<1>1. MinConfidence \in 0 .. 100 /\ width \in Nat /\ width > 0 /\ fall \in 0 .. 100
  BY TapaAssumption DEF Percentage
<1>2. load \in Int
  <2>1. MaxOf(s.probe_tx, s.probe_rx) \in Nat
    BY DEF MaxOf, RateState
  <2>2. 100 * PacketBytes * MaxOf(s.probe_tx, s.probe_rx) \in Int
    BY <2>1, RatesAssumption
  <2>3. MaxRate[l] \in Nat /\ MaxRate[l] > 0
    BY RatesAssumption
  <2> QED
    BY <2>2, <2>3 DEF TrafficLoad
<1>3. CASE TapaEnabled /\ ~(load <= IdleThreshold) /\ ~(load >= HeavyThreshold)
  <2>1. over \in Nat /\ over < width
    BY <1>2, <1>3, TapaAssumption
  <2>2. ProbeConfidence(l, s) = 100 - q
    BY <1>3 DEF ProbeConfidence
  <2> HIDE DEF over, fall, width
  <2>3. over * fall \in Nat /\ over * fall <= width * fall
    BY <1>1, <2>1
  <2>4. q \in Int /\ width * q <= over * fall /\ over * fall < width * q + width
    BY <1>1, <2>3
  <2> HIDE DEF q
  <2>5. q >= 0
    <3>1. SUFFICES ASSUME q <= -1 PROVE FALSE
      BY <2>4
    <3>2. width * q <= -width
      BY <1>1, <2>4, <3>1
    <3> QED
      BY <1>1, <2>3, <2>4, <3>2
  <2>6. q <= fall
    <3>1. SUFFICES ASSUME q >= fall + 1 PROVE FALSE
      BY <1>1, <2>4
    <3>2. width * q >= width * (fall + 1)
      BY <1>1, <2>4, <3>1
    <3>3. width * (fall + 1) = width * fall + width
      BY <1>1
    <3> QED
      BY <1>1, <2>3, <2>4, <3>2, <3>3
  <2> QED
    BY <1>1, <2>2, <2>4, <2>5, <2>6 DEF Percentage
<1>4. CASE ~(TapaEnabled /\ ~(load <= IdleThreshold) /\ ~(load >= HeavyThreshold))
  <2>1. ProbeConfidence(l, s) \in {100, MinConfidence}
    BY <1>2, <1>4, TapaAssumption DEF ProbeConfidence
  <2> QED
    BY <1>1, <2>1 DEF Percentage
<1> QED
  BY <1>3, <1>4

-----------------------------------------------------------------------------
(* The operations on one link *)

\* The part of the inductive invariant that speaks of one link.
LinkOK(l, s) ==
    /\ s \in RateState
    /\ MinRate(l) <= s.tx_rate /\ s.tx_rate <= MaxRate[l]
    /\ s.state = "Down" => s.recovery_count = 0
    /\ s.state = "Probing" => s.recovery_count <= MaxOf(ProbeRecoveryCount - 1, 1)

\* The inductive invariant speaks of one link at a time.
LEMMA InvariantByLink ==
    IInv <=> /\ links = [l \in Links |-> links[l]]
             /\ \A l \in Links : LinkOK(l, links[l])
BY DEF IInv, TypeOK, RateInBounds, RecoveryCountAgrees, LinkOK

\* A link as RateState::new makes it (rate_controller.rs:94-131) satisfies it.
LEMMA NewLinkOK ==
    ASSUME NEW l \in Links
    PROVE  LinkOK(l, NewRateState(l))
<1>1. NewDirection \in Direction
  BY DEF NewDirection, Direction
<1>2. /\ MaxRate[l] \in Nat /\ MinRate(l) \in Nat /\ MinRate(l) <= MaxRate[l]
  BY FloorBelowCeiling
<1>3. 0 \in 0 .. DownTimeout + 1
  BY ConfigAssumption
<1> QED
  BY <1>1, <1>2, <1>3 DEF LinkOK, NewRateState, RateState, PathState, Percentage

\* Steps 1 to 4 of process_probe keep the path state, the recovery count and the
\* rate bounds, and move the rate by at most one capped step.
LEMMA MeasuredOK ==
    ASSUME NEW l \in Links, NEW s \in RateState, NEW probe \in Probe,
           NEW c \in Percentage,
           MinRate(l) <= s.tx_rate, s.tx_rate <= MaxRate[l]
    PROVE  LET m == Measured(l, s, c, probe)
               cap == MaxOf(Percent(MaxRateChange, s.tx_rate), MinStep)
           IN /\ m \in RateState
              /\ MinRate(l) <= m.tx_rate /\ m.tx_rate <= MaxRate[l]
              /\ m.tx_rate <= s.tx_rate + cap /\ m.tx_rate >= s.tx_rate - cap
              /\ m.state = s.state /\ m.recovery_count = s.recovery_count
              /\ m.entered_down_confidence = s.entered_down_confidence
<1> DEFINE gate == IF TapaEnabled THEN c ELSE 100
           keep == IF /\ TapaEnabled /\ AcceleratedRecovery
                      /\ s.probe_confidence < 30 /\ c > 70
                     THEN RecoveryDecay ELSE 100
           send == Accumulate(s.send, Percent(gate, s.loss_tx), Percent(gate, probe.rx_packets))
           recv == Accumulate(s.recv, Percent(gate, probe.tx_packets), Percent(gate, s.loss_rx))
           rate == RateAfterProbe(l, s, c, probe)
           cap  == MaxOf(Percent(MaxRateChange, s.tx_rate), MinStep)
<1>1. gate \in Nat /\ keep \in Nat
  BY TapaAssumption DEF Percentage
<1>2. /\ rate \in Nat
      /\ MinRate(l) <= rate /\ rate <= MaxRate[l]
      /\ rate <= s.tx_rate + cap /\ rate >= s.tx_rate - cap
  <2>1. c \in Int
    BY DEF Percentage
  <2> QED
    BY <2>1, ProbeRateBounded
<1> HIDE DEF gate, keep
<1>3. send \in Direction /\ recv \in Direction
  <2>1. /\ Percent(gate, s.loss_tx) \in Nat /\ Percent(gate, probe.rx_packets) \in Nat
        /\ Percent(gate, probe.tx_packets) \in Nat /\ Percent(gate, s.loss_rx) \in Nat
    BY <1>1, PercentNat DEF RateState, Probe
  <2>2. s.send \in Direction /\ s.recv \in Direction
    BY DEF RateState
  <2> QED
    BY <2>1, <2>2, AccumulateTyped
<1> HIDE DEF send, recv
<1>4. Scale(send, keep) \in Direction /\ Scale(recv, keep) \in Direction
  BY <1>1, <1>3, ScaleTyped
<1>5. 0 \in 0 .. DownTimeout + 1
  BY ConfigAssumption
<1> DEFINE a == Scale(send, keep)
           b == Scale(recv, keep)
           m == [s EXCEPT !.probe_confidence = c, !.silence = 0, !.tx_rate = rate,
                          !.loss_tx = 0, !.loss_rx = 0, !.send = a, !.recv = b]
<1>6. Measured(l, s, c, probe) = m
  BY DEF Measured, gate, keep, send, recv
<1>7. rate \in Nat /\ a \in Direction /\ b \in Direction
  BY <1>2, <1>4
<1> HIDE DEF rate, a, b
<1>8. /\ m \in RateState
      /\ m.tx_rate = rate
      /\ m.state = s.state /\ m.recovery_count = s.recovery_count
      /\ m.entered_down_confidence = s.entered_down_confidence
  BY <1>5, <1>7 DEF RateState
<1> HIDE DEF m
<1> QED
  BY <1>2, <1>6, <1>8 DEF rate

\* Judging the loss of a link in service.
LEMMA JudgeLossOK ==
    ASSUME NEW l \in Links, NEW m, LinkOK(l, m), m.state \in {"Running", "Lossy"},
           NEW c \in Percentage, NEW suppress
    PROVE  LET j == JudgeLoss(m, c, suppress)
           IN /\ LinkOK(l, j)
              /\ j.state \in {"Running", "Lossy", "Down"}
              /\ j.tx_rate = m.tx_rate
              /\ j.state # "Down" =>
                     j.entered_down_confidence = m.entered_down_confidence
              /\ j.state = "Down" => ~suppress
<1>1. m \in RateState
  BY DEF LinkOK
<1>2. JudgeLoss(m, c, suppress) \in
          {EnterDown(m, c), [m EXCEPT !.state = "Lossy"], [m EXCEPT !.state = "Running"], m}
  BY DEF JudgeLoss
<1>3. suppress => JudgeLoss(m, c, suppress) \in {[m EXCEPT !.state = "Running"], m}
  BY DEF JudgeLoss
<1>4. ASSUME NEW st \in {"Running", "Lossy"}
      PROVE  LET j == [m EXCEPT !.state = st]
             IN /\ LinkOK(l, j) /\ j.state = st /\ j.tx_rate = m.tx_rate
                /\ j.entered_down_confidence = m.entered_down_confidence
  BY <1>1 DEF LinkOK, RateState, PathState
<1>5. LET j == EnterDown(m, c)
      IN LinkOK(l, j) /\ j.state = "Down" /\ j.tx_rate = m.tx_rate
  BY <1>1 DEF EnterDown, LinkOK, RateState, PathState
<1>6. ~suppress \/ JudgeLoss(m, c, suppress) # EnterDown(m, c)
  BY <1>1, <1>3, <1>4, <1>5
<1> QED
  BY <1>1, <1>2, <1>4, <1>5, <1>6

\* The first probe of a Down link.
LEMMA StartRecoveryOK ==
    ASSUME NEW l \in Links, NEW m, LinkOK(l, m)
    PROVE  LET r == StartRecovery(l, m)
           IN /\ LinkOK(l, r)
              /\ r.state = "Probing"
              /\ r.entered_down_confidence = m.entered_down_confidence
              /\ r.recovery_count = IF DownWhileLoaded(m)
                                      THEN MaxOf(ProbeRecoveryCount - 1, 0) ELSE 1
<1>1. m \in RateState /\ m.send \in Direction /\ m.recv \in Direction
  BY DEF LinkOK, RateState
<1>2. Scale(m.send, 50) \in Direction /\ Scale(m.recv, 50) \in Direction
  BY <1>1, ScaleTyped
<1>3. /\ MaxRate[l] \in Nat /\ MinRate(l) \in Nat /\ MaxRate[l] \div 2 \in Nat
      /\ MinRate(l) <= MaxRate[l] \div 2 /\ MaxRate[l] \div 2 <= MaxRate[l]
  BY FloorBelowCeiling
<1>4. /\ MaxOf(ProbeRecoveryCount - 1, 0) \in Nat
      /\ MaxOf(ProbeRecoveryCount - 1, 0) <= MaxOf(ProbeRecoveryCount - 1, 1)
      /\ 1 <= MaxOf(ProbeRecoveryCount - 1, 1)
  BY ConfigAssumption DEF MaxOf
<1> DEFINE R(n, rate, a, b) ==
               [m EXCEPT !.state = "Probing", !.recovery_count = n,
                         !.tx_rate = rate, !.send = a, !.recv = b]
<1>5. ASSUME NEW n \in Nat, NEW rate \in Nat, NEW a \in Direction, NEW b \in Direction,
             n <= MaxOf(ProbeRecoveryCount - 1, 1),
             MinRate(l) <= rate, rate <= MaxRate[l]
      PROVE  /\ LinkOK(l, R(n, rate, a, b))
             /\ R(n, rate, a, b).state = "Probing" /\ R(n, rate, a, b).recovery_count = n
             /\ R(n, rate, a, b).entered_down_confidence = m.entered_down_confidence
  <2> DEFINE r == R(n, rate, a, b)
  <2>1. /\ r \in RateState
        /\ r.state = "Probing" /\ r.recovery_count = n /\ r.tx_rate = rate
        /\ r.entered_down_confidence = m.entered_down_confidence
    BY <1>1 DEF RateState, PathState
  <2> HIDE DEF r
  <2>2. LinkOK(l, r)
    BY <1>5, <2>1 DEF LinkOK
  <2> QED
    BY <2>1, <2>2 DEF r
<1>6. DownWhileLoaded(m) =>
          StartRecovery(l, m) = R(MaxOf(ProbeRecoveryCount - 1, 0), MaxRate[l] \div 2,
                                  Scale(m.send, 50), Scale(m.recv, 50))
  BY <1>1 DEF StartRecovery, RateState
<1>7. ~DownWhileLoaded(m) =>
          StartRecovery(l, m) = R(1, MinRate(l), m.send, m.recv)
  BY <1>1 DEF StartRecovery, RateState
<1> HIDE DEF R
<1>8. CASE DownWhileLoaded(m)
  BY <1>2, <1>3, <1>4, <1>5, <1>6, <1>8
<1>9. CASE ~DownWhileLoaded(m)
  <2>1. MinRate(l) <= MaxRate[l]
    BY <1>3
  <2> QED
    BY <1>1, <1>3, <1>4, <1>5, <1>7, <1>9, <2>1
<1> QED
  BY <1>8, <1>9

\* A further probe of a Probing link.
LEMMA ContinueRecoveryOK ==
    ASSUME NEW l \in Links, NEW m, LinkOK(l, m), m.state = "Probing"
    PROVE  LET r == ContinueRecovery(l, m)
           IN /\ LinkOK(l, r)
              /\ r.recovery_count = m.recovery_count + 1
              /\ r.entered_down_confidence = m.entered_down_confidence
              /\ r.state = IF m.recovery_count + 1 < ProbeRecoveryCount
                             THEN "Probing" ELSE "Running"
<1>1. m \in RateState /\ m.recovery_count \in Nat /\ m.entered_down_confidence \in Nat
  BY DEF LinkOK, RateState, Percentage
<1>2. /\ MaxRate[l] \in Nat /\ MinRate(l) \in Nat /\ MinRate(l) <= MaxRate[l]
  BY FloorBelowCeiling
<1> DEFINE n == m.recovery_count + 1
           counted == [m EXCEPT !.recovery_count = n]
           running == [counted EXCEPT !.state = "Running"]
           floored == [counted EXCEPT !.state = "Running", !.tx_rate = MinRate(l)]
<1>3. n \in Nat
  BY <1>1
<1> HIDE DEF n
<1>4. /\ counted \in RateState /\ counted.recovery_count = n
      /\ counted.state = "Probing" /\ counted.tx_rate = m.tx_rate
      /\ counted.entered_down_confidence = m.entered_down_confidence
  BY <1>1, <1>3 DEF RateState
<1>5. /\ ContinueRecovery(l, m) \in {counted, running, floored}
      /\ ContinueRecovery(l, m) = counted <=> n < ProbeRecoveryCount
  <2>1. counted # running /\ counted # floored
    BY <1>1, <1>3 DEF RateState
  <2>2. ContinueRecovery(l, m) =
            CASE counted.recovery_count < ProbeRecoveryCount -> counted
              [] counted.recovery_count >= ProbeRecoveryCount
                     /\ m.entered_down_confidence < 30 -> running
              [] OTHER -> floored
    BY DEF ContinueRecovery, n
  <2> HIDE DEF counted, running, floored
  <2> QED
    BY <1>3, <1>4, <2>1, <2>2, ConfigAssumption
<1>6. CASE n < ProbeRecoveryCount
  <2>1. n <= MaxOf(ProbeRecoveryCount - 1, 1)
    BY <1>3, <1>6, ConfigAssumption DEF MaxOf
  <2>2. LinkOK(l, counted)
    BY <1>4, <2>1 DEF LinkOK
  <2> QED
    BY <1>4, <1>5, <1>6, <2>2 DEF n
<1>7. CASE ~(n < ProbeRecoveryCount)
  <2>1. ContinueRecovery(l, m) \in {running, floored}
    BY <1>5, <1>7
  <2>2. /\ running \in RateState /\ running.state = "Running"
        /\ running.recovery_count = n /\ running.tx_rate = m.tx_rate
        /\ running.entered_down_confidence = m.entered_down_confidence
    BY <1>1, <1>3 DEF RateState, PathState
  <2>3. /\ floored \in RateState /\ floored.state = "Running"
        /\ floored.recovery_count = n /\ floored.tx_rate = MinRate(l)
        /\ floored.entered_down_confidence = m.entered_down_confidence
    BY <1>1, <1>2, <1>3 DEF RateState, PathState
  <2> HIDE DEF running, floored
  <2>4. LinkOK(l, running) /\ LinkOK(l, floored)
    BY <1>2, <2>2, <2>3 DEF LinkOK
  <2> QED
    BY <1>7, <2>1, <2>2, <2>3, <2>4 DEF n
<1> QED
  BY <1>6, <1>7

\* process_probe on one link, from its three steps.
AfterProcessProbe(l, s, probe, suppress) ==
    LET c == ProbeConfidence(l, s)
    IN Judged(l, s, c, Measured(l, s, c, probe), suppress)

LEMMA ProbeChangesOneLink ==
    ASSUME NEW l \in Links, NEW probe \in Probe, ProcessProbe(l, probe)
    PROVE  links' = [links EXCEPT
               ![l] = AfterProcessProbe(l, @, probe, AllLinksPhantomLoss(links))]
BY DEF ProcessProbe, AfterProcessProbe

\* process_probe on one link: what it does to the path state, to the recovery
\* count and to the confidence the link went Down with.
LEMMA ProcessProbeOK ==
    ASSUME NEW l \in Links, NEW s, LinkOK(l, s), NEW probe \in Probe, NEW suppress
    PROVE  LET r == AfterProcessProbe(l, s, probe, suppress)
               cap == MaxOf(Percent(MaxRateChange, s.tx_rate), MinStep)
           IN /\ LinkOK(l, r)
              /\ s.state \in {"Running", "Lossy"} =>
                     /\ r.state \in {"Running", "Lossy", "Down"}
                     /\ r.tx_rate <= s.tx_rate + cap /\ r.tx_rate >= s.tx_rate - cap
                     /\ r.state # "Down" =>
                            r.entered_down_confidence = s.entered_down_confidence
                     /\ r.state = "Down" => ~suppress
              /\ s.state = "Down" =>
                     /\ r.state = "Probing"
                     /\ r.entered_down_confidence = s.entered_down_confidence
                     /\ r.recovery_count = IF DownWhileLoaded(s)
                                             THEN MaxOf(ProbeRecoveryCount - 1, 0) ELSE 1
              /\ s.state = "Probing" =>
                     /\ r.recovery_count = s.recovery_count + 1
                     /\ r.entered_down_confidence = s.entered_down_confidence
                     /\ r.state = IF s.recovery_count + 1 < ProbeRecoveryCount
                                    THEN "Probing" ELSE "Running"
<1> DEFINE c == ProbeConfidence(l, s)
           m == Measured(l, s, c, probe)
           r == AfterProcessProbe(l, s, probe, suppress)
           cap == MaxOf(Percent(MaxRateChange, s.tx_rate), MinStep)
<1>1. s \in RateState /\ MinRate(l) <= s.tx_rate /\ s.tx_rate <= MaxRate[l]
  BY DEF LinkOK
<1>2. c \in Percentage
  BY <1>1, ConfidenceIsPercentage
<1> HIDE DEF c
<1>3. /\ m \in RateState
      /\ MinRate(l) <= m.tx_rate /\ m.tx_rate <= MaxRate[l]
      /\ m.tx_rate <= s.tx_rate + cap /\ m.tx_rate >= s.tx_rate - cap
      /\ m.state = s.state /\ m.recovery_count = s.recovery_count
      /\ m.entered_down_confidence = s.entered_down_confidence
  BY <1>1, <1>2, MeasuredOK
<1>4. r = CASE s.state \in {"Running", "Lossy"} -> JudgeLoss(m, c, suppress)
            [] s.state = "Down" -> StartRecovery(l, m)
            [] s.state = "Probing" -> ContinueRecovery(l, m)
  BY DEF AfterProcessProbe, Judged, c
<1> HIDE DEF m, r, cap
<1>5. LinkOK(l, m)
  BY <1>3 DEF LinkOK
<1>6. s.state \in {"Running", "Lossy", "Down", "Probing"}
  BY <1>1 DEF RateState, PathState
<1>7. CASE s.state \in {"Running", "Lossy"}
  <2>1. r = JudgeLoss(m, c, suppress)
    BY <1>4, <1>7
  <2> QED
    BY <1>2, <1>3, <1>5, <1>7, <2>1, JudgeLossOK DEF r, cap
<1>8. CASE s.state = "Down"
  <2>1. r = StartRecovery(l, m)
    BY <1>4, <1>8
  <2>2. DownWhileLoaded(m) <=> DownWhileLoaded(s)
    BY <1>3 DEF DownWhileLoaded
  <2> QED
    BY <1>3, <1>5, <1>8, <2>1, <2>2, StartRecoveryOK DEF r
<1>9. CASE s.state = "Probing"
  <2>1. r = ContinueRecovery(l, m)
    BY <1>4, <1>9
  <2> QED
    BY <1>3, <1>5, <1>9, <2>1, ContinueRecoveryOK DEF r
<1> QED
  BY <1>6, <1>7, <1>8, <1>9

-----------------------------------------------------------------------------
(* The inductive invariant *)

\* A new rate controller satisfies the inductive invariant.
THEOREM InitIInv == Init => IInv
<1> SUFFICES ASSUME Init PROVE IInv
  OBVIOUS
<1>1. \A l \in Links : links[l] = NewRateState(l)
  BY DEF Init
<1> QED
  BY <1>1, NewLinkOK, InvariantByLink DEF Init

\* Recording a packet, building a probe and the passing of time touch neither
\* the rate, nor the path state, nor the recovery count.
Kept(l, s, r) ==
    /\ LinkOK(l, r)
    /\ r.state = s.state /\ r.tx_rate = s.tx_rate
    /\ r.recovery_count = s.recovery_count
    /\ r.entered_down_confidence = s.entered_down_confidence

\* The four operations that only count or let time pass keep every link well-formed.
LEMMA CountersOK ==
    ASSUME NEW l \in Links, NEW s, LinkOK(l, s)
    PROVE  /\ Kept(l, s, AfterRecordTx(s))
           /\ Kept(l, s, AfterRecordRx(s))
           /\ Kept(l, s, AfterBuildProbe(s))
           /\ Kept(l, s, AfterTick(s))
<1>1. s \in RateState
  BY DEF LinkOK
<1>2. ASSUME NEW a \in Nat, NEW b \in Nat
      PROVE  /\ Kept(l, s, [s EXCEPT !.probe_tx = a, !.loss_tx = b])
             /\ Kept(l, s, [s EXCEPT !.probe_rx = a, !.loss_rx = b])
             /\ Kept(l, s, [s EXCEPT !.probe_tx = a, !.probe_rx = b])
  BY <1>1 DEF Kept, LinkOK, RateState
<1>3. /\ s.probe_tx + 1 \in Nat /\ s.loss_tx + 1 \in Nat
      /\ s.probe_rx + 1 \in Nat /\ s.loss_rx + 1 \in Nat
  BY <1>1 DEF RateState
<1>4. Kept(l, s, AfterRecordTx(s))
  <2>1. AfterRecordTx(s) = [s EXCEPT !.probe_tx = s.probe_tx + 1, !.loss_tx = s.loss_tx + 1]
    BY DEF AfterRecordTx
  <2> QED
    BY <1>2, <1>3, <2>1, Zenon
<1>5. Kept(l, s, AfterRecordRx(s))
  <2>1. AfterRecordRx(s) = [s EXCEPT !.probe_rx = s.probe_rx + 1, !.loss_rx = s.loss_rx + 1]
    BY DEF AfterRecordRx
  <2> QED
    BY <1>2, <1>3, <2>1, Zenon
<1>6. Kept(l, s, AfterBuildProbe(s))
  BY <1>1 DEF Kept, LinkOK, RateState, AfterBuildProbe
<1>7. Kept(l, s, AfterTick(s))
  <2> DEFINE z == MinOf(s.silence + 1, DownTimeout + 1)
  <2>1. z \in 0 .. DownTimeout + 1
    BY <1>1, ConfigAssumption DEF RateState, MinOf
  <2>2. AfterTick(s) = [s EXCEPT !.silence = z]
    BY DEF AfterTick
  <2> HIDE DEF z
  <2> QED
    BY <1>1, <2>1, <2>2 DEF Kept, LinkOK, RateState
<1> QED
  BY <1>4, <1>5, <1>6, <1>7

\* Entering Down by a timeout (rate_controller.rs:536-540) preserves it.
LEMMA EnterDownOK ==
    ASSUME NEW l \in Links, NEW s, LinkOK(l, s)
    PROVE  LET r == EnterDown(s, s.probe_confidence)
           IN LinkOK(l, r) /\ r.state = "Down" /\ r.tx_rate = s.tx_rate
BY DEF LinkOK, EnterDown, RateState, PathState

\* Every step of the specification keeps the invariant.
THEOREM StepIInv == IInv /\ [Next]_links => IInv'
<1> SUFFICES ASSUME IInv, [Next]_links PROVE IInv'
  OBVIOUS
<1> DEFINE Fun == links' = [l \in Links |-> links'[l]]
           All == \A l \in Links : LinkOK(l, links'[l])
<1>1. /\ links = [l \in Links |-> links[l]]
      /\ \A l \in Links : LinkOK(l, links[l])
  BY InvariantByLink
<1>2. SUFFICES Fun /\ All
  BY DEF IInv, TypeOK, RateInBounds, RecoveryCountAgrees, LinkOK
<1>3. ASSUME NEW l \in Links, RecordTx(l) PROVE Fun /\ All
  BY <1>1, <1>3, CountersOK DEF RecordTx, Kept
<1>4. ASSUME NEW l \in Links, RecordRx(l) PROVE Fun /\ All
  BY <1>1, <1>4, CountersOK DEF RecordRx, Kept
<1>5. CASE BuildProbes
  BY <1>1, <1>5, CountersOK DEF BuildProbes, Kept
<1>6. ASSUME NEW l \in Links, NEW probe \in Probe, ProcessProbe(l, probe)
      PROVE  Fun /\ All
  BY <1>1, <1>6, ProbeChangesOneLink, ProcessProbeOK
<1>7. CASE CheckTimeouts
  BY <1>1, <1>7, EnterDownOK DEF CheckTimeouts
<1>8. CASE Tick
  BY <1>1, <1>8, CountersOK DEF Tick, Kept
<1>9. CASE UNCHANGED links
  BY <1>1, <1>9
<1> QED
  BY <1>3, <1>4, <1>5, <1>6, <1>7, <1>8, <1>9 DEF Next

\* The inductive invariant holds in every behaviour of the rate controller: every
\* operation, at any time, with any probe (rate_controller.rs:225-542).
THEOREM Invariance == Spec => []IInv
BY InitIInv, StepIInv, PTL DEF Spec

\* Every link always has a well-typed state.
THEOREM TypeCorrect == Spec => []TypeOK
BY Invariance, PTL DEF IInv

\* The rate never leaves the interval from the floor to the ceiling.
THEOREM RatesStayInBounds == Spec => []RateInBounds
BY Invariance, PTL DEF IInv

\* A Down link has answered nothing, a Probing link still owes an answer.
THEOREM RecoveryIsCounted == Spec => []RecoveryCountAgrees
BY Invariance, PTL DEF IInv

-----------------------------------------------------------------------------
(* Action properties *)

InService(s) == s.state \in {"Running", "Lossy"}

\* While a link stays in service no step moves its rate by more than one capped
\* step, the clamp to floor and ceiling included.
THEOREM RateStepsAreCapped == Spec => RateStepCapped
<1> DEFINE Cap(l) == MaxOf(Percent(MaxRateChange, links[l].tx_rate), MinStep)
           Capped(l) == /\ links'[l].tx_rate <= links[l].tx_rate + Cap(l)
                        /\ links'[l].tx_rate >= links[l].tx_rate - Cap(l)
           Step == \A l \in Links :
                       {links[l].state, links'[l].state} \subseteq {"Running", "Lossy"}
                           => Capped(l)
<1>1. IInv /\ [Next]_links => [Step]_links
  <2> SUFFICES ASSUME IInv, Next,
                      NEW k \in Links,
                      {links[k].state, links'[k].state} \subseteq {"Running", "Lossy"}
               PROVE  Capped(k)
    OBVIOUS
  <2>1. /\ links = [l \in Links |-> links[l]]
        /\ \A l \in Links : LinkOK(l, links[l])
    BY InvariantByLink
  <2>2. links'[k].tx_rate = links[k].tx_rate => Capped(k)
    <3>1. links[k].tx_rate \in Nat
      BY <2>1 DEF LinkOK, RateState
    <3>2. Percent(MaxRateChange, links[k].tx_rate) \in Nat /\ MinStep \in Nat
      BY <3>1, PercentNat, ConfigAssumption, RatesAssumption
    <3>3. Cap(k) \in Nat
      BY <3>2 DEF MaxOf
    <3> HIDE DEF Cap
    <3> QED
      BY <3>1, <3>3
  <2> HIDE DEF Cap
  <2>3. ASSUME NEW l \in Links, RecordTx(l) PROVE Capped(k)
    BY <2>1, <2>2, <2>3, CountersOK DEF RecordTx, Kept
  <2>4. ASSUME NEW l \in Links, RecordRx(l) PROVE Capped(k)
    BY <2>1, <2>2, <2>4, CountersOK DEF RecordRx, Kept
  <2>5. CASE BuildProbes
    BY <2>1, <2>2, <2>5, CountersOK DEF BuildProbes, Kept
  <2>6. ASSUME NEW l \in Links, NEW probe \in Probe, ProcessProbe(l, probe)
        PROVE  Capped(k)
    <3>1. CASE l = k
      <4>1. links'[k] = AfterProcessProbe(k, links[k], probe, AllLinksPhantomLoss(links))
        BY <2>1, <2>6, <3>1, ProbeChangesOneLink
      <4> QED
        BY <2>1, <4>1, ProcessProbeOK DEF Cap
    <3>2. CASE l # k
      BY <2>1, <2>2, <2>6, <3>2, ProbeChangesOneLink
    <3> QED
      BY <3>1, <3>2
  <2>7. CASE CheckTimeouts
    BY <2>1, <2>2, <2>7, EnterDownOK DEF CheckTimeouts
  <2>8. CASE Tick
    BY <2>1, <2>2, <2>8, CountersOK DEF Tick, Kept
  <2> QED
    BY <2>3, <2>4, <2>5, <2>6, <2>7, <2>8 DEF Next
<1> QED
  BY <1>1, Invariance, PTL DEF Spec, RateStepCapped

\* A link that is heard from is not taken Down while all links report phantom
\* loss.
THEOREM PhantomLossVetoesDown == Spec => CrossLinkVeto
<1> DEFINE Goes(l) == links[l].state \in {"Running", "Lossy"} /\ links'[l].state = "Down"
           Allowed(l) == links[l].silence > DownTimeout \/ ~AllLinksPhantomLoss(links)
           Step == \A l \in Links : Goes(l) => Allowed(l)
<1>1. IInv /\ [Next]_links => [Step]_links
  <2> SUFFICES ASSUME IInv, Next, NEW k \in Links, Goes(k) PROVE Allowed(k)
    OBVIOUS
  <2>1. /\ links = [l \in Links |-> links[l]]
        /\ \A l \in Links : LinkOK(l, links[l])
    BY InvariantByLink
  <2>2. links'[k].state # links[k].state
    OBVIOUS
  <2>3. ASSUME NEW l \in Links, RecordTx(l) PROVE FALSE
    BY <2>1, <2>2, <2>3, CountersOK DEF RecordTx, Kept
  <2>4. ASSUME NEW l \in Links, RecordRx(l) PROVE FALSE
    BY <2>1, <2>2, <2>4, CountersOK DEF RecordRx, Kept
  <2>5. CASE BuildProbes
    BY <2>1, <2>2, <2>5, CountersOK DEF BuildProbes, Kept
  <2>6. ASSUME NEW l \in Links, NEW probe \in Probe, ProcessProbe(l, probe)
        PROVE  Allowed(k)
    <3>1. l = k
      BY <2>1, <2>2, <2>6, ProbeChangesOneLink
    <3>2. links'[k] = AfterProcessProbe(k, links[k], probe, AllLinksPhantomLoss(links))
      BY <2>1, <2>6, <3>1, ProbeChangesOneLink
    <3> QED
      BY <2>1, <3>2, ProcessProbeOK
  <2>7. CASE CheckTimeouts
    BY <2>1, <2>2, <2>7 DEF CheckTimeouts, TimedOut
  <2>8. CASE Tick
    BY <2>1, <2>2, <2>8, CountersOK DEF Tick, Kept
  <2> QED
    BY <2>3, <2>4, <2>5, <2>6, <2>7, <2>8 DEF Next
<1> QED
  BY <1>1, Invariance, PTL DEF Spec, CrossLinkVeto

-----------------------------------------------------------------------------
(* The rate controller implements PathHealth *)

\* What the abstraction sees of a link.
SameHealth(s, r) ==
    /\ PathOf(r) = PathOf(s) /\ OwedBy(r) = OwedBy(s)
    /\ DownWhileLoaded(r) = DownWhileLoaded(s)

\* A link whose state, recovery count and confidence on entering Down are
\* unchanged looks the same to PathHealth.
LEMMA KeptHealth ==
    ASSUME NEW l \in Links, NEW s, NEW r, Kept(l, s, r)
    PROVE  SameHealth(s, r)
BY DEF Kept, SameHealth, PathOf, OwedBy, DownWhileLoaded

\* The abstract step of a probe, read on the abstraction of one link.
LEMMA ProbeHealth ==
    ASSUME NEW l \in Links, NEW s, LinkOK(l, s), NEW probe \in Probe, NEW suppress
    PROVE  LET r == AfterProcessProbe(l, s, probe, suppress)
               full == MaxOf(ProbeRecoveryCount - 1, 1)
           IN \/ SameHealth(s, r)
              \/ /\ PathOf(s) # "Down" /\ PathOf(r) = "Down" /\ OwedBy(r) = 0
              \/ /\ PathOf(s) = "Down" /\ PathOf(r) = "Proving"
                 /\ DownWhileLoaded(r) = DownWhileLoaded(s)
                 /\ OwedBy(r) = IF DownWhileLoaded(s) THEN 1 ELSE full
              \/ /\ PathOf(s) = "Proving" /\ PathOf(r) = "Proving"
                 /\ DownWhileLoaded(r) = DownWhileLoaded(s)
                 /\ OwedBy(s) > 1 /\ OwedBy(r) = OwedBy(s) - 1
              \/ /\ PathOf(s) = "Proving" /\ PathOf(r) = "Up"
                 /\ DownWhileLoaded(r) = DownWhileLoaded(s)
                 /\ OwedBy(s) = 1 /\ OwedBy(r) = 0
<1> DEFINE r == AfterProcessProbe(l, s, probe, suppress)
<1>1. /\ s.state \in {"Running", "Lossy", "Down", "Probing"}
      /\ s.recovery_count \in Nat
  BY DEF LinkOK, RateState, PathState
<1>2. /\ s.state \in {"Running", "Lossy"} =>
             /\ r.state \in {"Running", "Lossy", "Down"}
             /\ r.state # "Down" => r.entered_down_confidence = s.entered_down_confidence
      /\ s.state = "Down" =>
             /\ r.state = "Probing"
             /\ r.entered_down_confidence = s.entered_down_confidence
             /\ r.recovery_count = IF DownWhileLoaded(s)
                                     THEN MaxOf(ProbeRecoveryCount - 1, 0) ELSE 1
      /\ s.state = "Probing" =>
             /\ r.recovery_count = s.recovery_count + 1
             /\ r.entered_down_confidence = s.entered_down_confidence
             /\ r.state = IF s.recovery_count + 1 < ProbeRecoveryCount
                            THEN "Probing" ELSE "Running"
  BY ProcessProbeOK
<1> HIDE DEF r
<1>3. CASE s.state \in {"Running", "Lossy"}
  BY <1>2, <1>3 DEF SameHealth, PathOf, OwedBy, DownWhileLoaded, r
<1>4. CASE s.state = "Down"
  <2>1. PathOf(s) = "Down" /\ PathOf(r) = "Proving"
    BY <1>2, <1>4 DEF PathOf
  <2>2. DownWhileLoaded(r) = DownWhileLoaded(s)
    BY <1>2, <1>4 DEF DownWhileLoaded
  <2>3. OwedBy(r) = IF DownWhileLoaded(s) THEN 1 ELSE MaxOf(ProbeRecoveryCount - 1, 1)
    BY <1>2, <1>4, ConfigAssumption DEF OwedBy, MaxOf
  <2> QED
    BY <2>1, <2>2, <2>3 DEF r
<1>5. CASE s.state = "Probing"
  <2>1. DownWhileLoaded(r) = DownWhileLoaded(s)
    BY <1>2, <1>5 DEF DownWhileLoaded
  <2>2. CASE s.recovery_count + 1 < ProbeRecoveryCount
    <3>1. PathOf(s) = "Proving" /\ PathOf(r) = "Proving"
      BY <1>2, <1>5, <2>2 DEF PathOf
    <3>2. OwedBy(s) > 1 /\ OwedBy(r) = OwedBy(s) - 1
      BY <1>1, <1>2, <1>5, <2>2, ConfigAssumption DEF OwedBy, MaxOf
    <3> QED
      BY <2>1, <3>1, <3>2 DEF r
  <2>3. CASE ~(s.recovery_count + 1 < ProbeRecoveryCount)
    <3>1. PathOf(s) = "Proving" /\ PathOf(r) = "Up"
      BY <1>2, <1>5, <2>3 DEF PathOf
    <3>2. OwedBy(s) = 1 /\ OwedBy(r) = 0
      BY <1>1, <1>2, <1>5, <2>3, ConfigAssumption DEF OwedBy, MaxOf
    <3> QED
      BY <2>1, <3>1, <3>2 DEF r
  <2> QED
    BY <2>2, <2>3
<1> QED
  BY <1>1, <1>3, <1>4, <1>5

\* When nothing the abstraction sees changes, the abstract step is a stutter.
LEMMA StutterHealth ==
    ASSUME \A l \in Links : SameHealth(links[l], links'[l])
    PROVE  UNCHANGED Health!vars
BY DEF Health!vars, SameHealth

\* The links of a new rate controller are Up in PathHealth.
LEMMA InitHealth == Init => Health!Init
<1> SUFFICES ASSUME Init PROVE Health!Init
  OBVIOUS
<1>1. \A l \in Links : /\ PathOf(links[l]) = "Up" /\ OwedBy(links[l]) = 0
                       /\ DownWhileLoaded(links[l]) = FALSE
  BY DEF Init, NewRateState, PathOf, OwedBy, DownWhileLoaded
<1> QED
  BY <1>1 DEF Health!Init

\* A probe of link k is a stutter, a failure of k alone, or an answer of k.
LEMMA ProbeStepHealth ==
    ASSUME IInv, NEW k \in Links, NEW probe \in Probe, ProcessProbe(k, probe)
    PROVE  Health!Next \/ UNCHANGED Health!vars
<1> DEFINE s == links[k]
           r == links'[k]
           full == MaxOf(ProbeRecoveryCount - 1, 1)
<1>1. LinkOK(k, s)
  BY InvariantByLink
<1>2. /\ r = AfterProcessProbe(k, s, probe, AllLinksPhantomLoss(links))
      /\ \A l \in Links : l # k => links'[l] = links[l]
  BY InvariantByLink, ProbeChangesOneLink
<1>3. \A l \in Links : l # k => SameHealth(links[l], links'[l])
  BY <1>2 DEF SameHealth
<1>4. CASE SameHealth(s, r)
  <2>1. \A l \in Links : SameHealth(links[l], links'[l])
    BY <1>3, <1>4
  <2> QED
    BY <2>1, StutterHealth
<1>5. CASE PathOf(s) # "Down" /\ PathOf(r) = "Down" /\ OwedBy(r) = 0
  <2> DEFINE loaded == {l \in {k} : DownWhileLoaded(links'[l])}
  <2>1. Health!Fail({k}, loaded)
    BY <1>3, <1>5 DEF Health!Fail, SameHealth, DownWhileLoaded
  <2> QED
    BY <2>1 DEF Health!Next
<1>6. CASE /\ PathOf(s) = "Down" /\ PathOf(r) = "Proving"
           /\ DownWhileLoaded(r) = DownWhileLoaded(s)
           /\ OwedBy(r) = IF DownWhileLoaded(s) THEN 1 ELSE full
  <2>1. Health!FirstAnswer(k)
    BY <1>3, <1>6 DEF Health!FirstAnswer, SameHealth
  <2> QED
    BY <2>1 DEF Health!Next
<1>7. CASE /\ PathOf(s) = "Proving" /\ PathOf(r) = "Proving"
           /\ DownWhileLoaded(r) = DownWhileLoaded(s)
           /\ OwedBy(s) > 1 /\ OwedBy(r) = OwedBy(s) - 1
  <2>1. Health!Answer(k)
    BY <1>3, <1>7 DEF Health!Answer, SameHealth
  <2> QED
    BY <2>1 DEF Health!Next
<1>8. CASE /\ PathOf(s) = "Proving" /\ PathOf(r) = "Up"
           /\ DownWhileLoaded(r) = DownWhileLoaded(s)
           /\ OwedBy(s) = 1 /\ OwedBy(r) = 0
  <2>1. Health!LastAnswer(k)
    BY <1>3, <1>8 DEF Health!LastAnswer, SameHealth
  <2> QED
    BY <2>1 DEF Health!Next
<1>9. \/ SameHealth(s, r)
      \/ PathOf(s) # "Down" /\ PathOf(r) = "Down" /\ OwedBy(r) = 0
      \/ /\ PathOf(s) = "Down" /\ PathOf(r) = "Proving"
         /\ DownWhileLoaded(r) = DownWhileLoaded(s)
         /\ OwedBy(r) = IF DownWhileLoaded(s) THEN 1 ELSE full
      \/ /\ PathOf(s) = "Proving" /\ PathOf(r) = "Proving"
         /\ DownWhileLoaded(r) = DownWhileLoaded(s)
         /\ OwedBy(s) > 1 /\ OwedBy(r) = OwedBy(s) - 1
      \/ /\ PathOf(s) = "Proving" /\ PathOf(r) = "Up"
         /\ DownWhileLoaded(r) = DownWhileLoaded(s)
         /\ OwedBy(s) = 1 /\ OwedBy(r) = 0
  BY <1>1, <1>2, ProbeHealth
<1> QED
  BY <1>4, <1>5, <1>6, <1>7, <1>8, <1>9

\* The links whose timeout a check finds fail together.
LEMMA TimeoutStepHealth ==
    ASSUME IInv, CheckTimeouts
    PROVE  Health!Next
<1> DEFINE S == {l \in Links : TimedOut(links[l])}
           loaded == {l \in S : DownWhileLoaded(links'[l])}
<1>1. \A l \in S : /\ PathOf(links[l]) # "Down"
                   /\ PathOf(links'[l]) = "Down" /\ OwedBy(links'[l]) = 0
                   /\ DownWhileLoaded(links'[l]) = (l \in loaded)
  <2> SUFFICES ASSUME NEW l \in S
               PROVE  /\ PathOf(links[l]) # "Down"
                      /\ PathOf(links'[l]) = "Down" /\ OwedBy(links'[l]) = 0
                      /\ DownWhileLoaded(links'[l]) = (l \in loaded)
    OBVIOUS
  <2>1. links[l].state # "Down"
    BY DEF TimedOut
  <2>2. links'[l].state = "Down"
    BY InvariantByLink, EnterDownOK DEF CheckTimeouts
  <2>3. DownWhileLoaded(links'[l]) \in BOOLEAN
    BY DEF DownWhileLoaded
  <2> QED
    BY <2>1, <2>2, <2>3 DEF PathOf, OwedBy
<1>2. \A l \in Links : l \notin S => SameHealth(links[l], links'[l])
  BY DEF CheckTimeouts, SameHealth
<1> HIDE DEF S, loaded
<1>3. S \subseteq Links /\ loaded \subseteq Links
  BY DEF S, loaded
<1>4. Health!Fail(S, loaded)
  BY <1>1, <1>2, <1>3 DEF Health!Fail, SameHealth
<1> QED
  BY <1>3, <1>4 DEF Health!Next

\* Every behaviour of the rate controller is one of PathHealth: a failed link
\* returns only through the answers it owes, one link at a time.
THEOREM Refinement == Spec => ImplementsPathHealth
<1>1. IInv /\ [Next]_links => [Health!Next]_(Health!vars)
  <2> SUFFICES ASSUME IInv, [Next]_links
               PROVE  Health!Next \/ UNCHANGED Health!vars
    OBVIOUS
  <2>1. /\ links = [l \in Links |-> links[l]]
        /\ \A l \in Links : LinkOK(l, links[l])
    BY InvariantByLink
  <2> DEFINE Still == \A l \in Links : SameHealth(links[l], links'[l])
  <2>2. Still => UNCHANGED Health!vars
    BY StutterHealth
  <2>3. ASSUME NEW k \in Links PROVE SameHealth(links[k], links[k])
    BY DEF SameHealth
  <2>4. ASSUME NEW k \in Links, RecordTx(k) PROVE Still
    BY <2>1, <2>3, <2>4, CountersOK, KeptHealth DEF RecordTx
  <2>5. ASSUME NEW k \in Links, RecordRx(k) PROVE Still
    BY <2>1, <2>3, <2>5, CountersOK, KeptHealth DEF RecordRx
  <2>6. CASE BuildProbes
    BY <2>1, <2>2, <2>6, CountersOK, KeptHealth DEF BuildProbes
  <2>7. CASE Tick
    BY <2>1, <2>2, <2>7, CountersOK, KeptHealth DEF Tick
  <2>8. CASE UNCHANGED links
    BY <2>2, <2>3, <2>8
  <2> QED
    BY <2>2, <2>4, <2>5, <2>6, <2>7, <2>8, ProbeStepHealth, TimeoutStepHealth DEF Next
<1> QED
  BY <1>1, InitHealth, Invariance, PTL DEF Spec, ImplementsPathHealth, Health!Spec

-----------------------------------------------------------------------------
(* Failover *)

Silent(l) == links[l].silence > DownTimeout

\* A silent link is Down, and w gives it nothing.
Failed(w) == \A l \in Links : Silent(l) => links[l].state = "Down" /\ w[l] = 0

\* The statistics task has the weights of failed links in hand before it pushes them,
\* and only a tick, which waits for the next round, makes another link silent.
StageInv ==
    /\ task = "push" => Failed(weights)
    /\ task = "idle" => Failed(weight)

EndpointInv == IInv /\ EndpointTypeOK /\ StageInv

-----------------------------------------------------------------------------
(* Lemmas on single links and on the scheduler *)

\* Every link's state is a record of the rate controller's type.
LEMMA LinksTyped ==
    ASSUME IInv, NEW l \in Links
    PROVE  links[l] \in RateState /\ LinkOK(l, links[l])
BY InvariantByLink DEF LinkOK

\* A probe ends the silence of its link, whatever it does to the path state
\* (rate_controller.rs:343).
LEMMA ProbeEndsSilence ==
    ASSUME NEW l \in Links, NEW s, LinkOK(l, s), NEW probe \in Probe, NEW suppress
    PROVE  AfterProcessProbe(l, s, probe, suppress).silence = 0
<1> DEFINE c == ProbeConfidence(l, s)
           m == Measured(l, s, c, probe)
<1>1. s \in RateState /\ MinRate(l) <= s.tx_rate /\ s.tx_rate <= MaxRate[l]
  BY DEF LinkOK
<1>2. c \in Percentage
  BY <1>1, ConfidenceIsPercentage
<1>3. m \in RateState /\ m.state = s.state
  BY <1>1, <1>2, MeasuredOK
<1>4. m.silence = 0
  BY <1>1 DEF Measured, RateState
<1>5. AfterProcessProbe(l, s, probe, suppress) = Judged(l, s, c, m, suppress)
  BY DEF AfterProcessProbe
<1> HIDE DEF c, m
<1>6. s.state \in {"Running", "Lossy", "Down", "Probing"}
  BY <1>1 DEF RateState, PathState
<1>7. CASE s.state \in {"Running", "Lossy"}
  BY <1>3, <1>4, <1>5, <1>7 DEF Judged, JudgeLoss, EnterDown, RateState
<1>8. CASE s.state = "Down"
  BY <1>3, <1>4, <1>5, <1>8 DEF Judged, StartRecovery, RateState
<1>9. CASE s.state = "Probing"
  BY <1>3, <1>4, <1>5, <1>9 DEF Judged, ContinueRecovery, RateState
<1> QED
  BY <1>6, <1>7, <1>8, <1>9

\* The counters and the timeout check keep silence.
LEMMA CountersKeepSilence ==
    ASSUME NEW s \in RateState
    PROVE  /\ AfterRecordTx(s).silence = s.silence /\ AfterRecordTx(s).state = s.state
           /\ AfterRecordRx(s).silence = s.silence /\ AfterRecordRx(s).state = s.state
           /\ AfterBuildProbe(s).silence = s.silence /\ AfterBuildProbe(s).state = s.state
           /\ EnterDown(s, s.probe_confidence).silence = s.silence
           /\ EnterDown(s, s.probe_confidence).state = "Down"
BY DEF AfterRecordTx, AfterRecordRx, AfterBuildProbe, EnterDown, RateState

\* weights() gives every link a natural number, and a Down link none.
LEMMA WeightTyped ==
    ASSUME NEW s \in RateState
    PROVE  /\ Weight(s, WeightUnit) \in Nat
           /\ s.state = "Down" => Weight(s, WeightUnit) = 0
<1>1. s.tx_rate \in Nat /\ WeightUnit \in Nat /\ WeightUnit > 0
  BY WeightsAssumption DEF RateState
<1>2. s.tx_rate \div WeightUnit \in Int
  BY <1>1
<1> QED
  BY <1>2 DEF Weight, MaxOf

\* weighted_select returns a link.
LEMMA SelectsLink ==
    ASSUME NEW w, NEW pos
    PROVE  Sched!Select(w, pos) \in Links
<1>1. ASSUME NEW S \in SUBSET Links, S # {} PROVE Sched!Min(S) \in S
  <2>1. S \in SUBSET Nat
    BY WeightsAssumption
  <2>2. Min(S) \in S
    BY <1>1, <2>1, MinExists
  <2> QED
    BY <2>2 DEF Sched!Min, Min
<1> DEFINE usable == {l \in Links : w[l] > 0}
           hits == {l \in usable : pos < Sched!Cumulative(w, l)}
<1>2. Sched!Select(w, pos) = IF hits # {} THEN Sched!Min(hits)
                             ELSE IF usable # {} THEN Sched!Min(usable) ELSE 0
  BY DEF Sched!Select
<1>3. hits \in SUBSET Links /\ usable \in SUBSET Links
  OBVIOUS
<1> HIDE DEF hits, usable
<1> QED
  BY <1>1, <1>2, <1>3, WeightsAssumption

-----------------------------------------------------------------------------
(* Steps *)

\* A step that is no clock tick and changes links by one of the operations keeps the
\* path state of every link that is silent after it.
QuietStep == \A l \in Links : Silent(l)' => Silent(l) /\ links'[l].state = links[l].state

LEMMA RecordTxQuiet == ASSUME IInv, NEW k \in Links, RecordTx(k) PROVE QuietStep
BY LinksTyped, InvariantByLink, CountersKeepSilence DEF RecordTx, QuietStep, Silent

LEMMA RecordRxQuiet == ASSUME IInv, NEW k \in Links, RecordRx(k) PROVE QuietStep
BY LinksTyped, InvariantByLink, CountersKeepSilence DEF RecordRx, QuietStep, Silent

LEMMA BuildProbesQuiet == ASSUME IInv, BuildProbes PROVE QuietStep
BY LinksTyped, InvariantByLink, CountersKeepSilence DEF BuildProbes, QuietStep, Silent

LEMMA ProcessProbeQuiet ==
    ASSUME IInv, NEW k \in Links, NEW probe \in Probe, ProcessProbe(k, probe)
    PROVE  QuietStep
<1>1. links' = [links EXCEPT
          ![k] = AfterProcessProbe(k, @, probe, AllLinksPhantomLoss(links))]
  BY ProbeChangesOneLink
<1>2. links = [l \in Links |-> links[l]]
  BY InvariantByLink
<1>3. links'[k].silence = 0
  BY <1>1, <1>2, LinksTyped, ProbeEndsSilence
<1>4. ~(0 > DownTimeout)
  BY ConfigAssumption
<1>5. \A l \in Links : l # k => links'[l] = links[l]
  BY <1>1, <1>2
<1> QED
  BY <1>3, <1>4, <1>5 DEF QuietStep, Silent

\* A quiet step outside the statistics task keeps what its stages rely on.
LEMMA QuietKeepsStage ==
    ASSUME StageInv, QuietStep, UNCHANGED <<weight, weights, task>>
    PROVE  StageInv'
BY DEF StageInv, QuietStep, Failed, Silent

\* What the links' operations do to the invariant of the rate controller.
LEMMA LinksStep ==
    ASSUME IInv, Next \/ UNCHANGED links
    PROVE  IInv'
BY StepIInv

\* The endpoint starts with every link heard from and nothing chosen.
LEMMA EndpointInitOK == EndpointInit => EndpointInv
<1> SUFFICES ASSUME EndpointInit PROVE EndpointInv
  OBVIOUS
<1>1. IInv
  BY InitIInv DEF EndpointInit
<1>2. \A l \in Links : ~Silent(l)
  BY ConfigAssumption DEF EndpointInit, Init, NewRateState, Silent
<1>3. EndpointTypeOK
  BY <1>1, WeightsAssumption DEF EndpointInit, EndpointTypeOK, IInv, Sched!SchedInit
<1> QED
  BY <1>1, <1>2, <1>3 DEF EndpointInv, StageInv, Failed

\* Every step of every task keeps the invariant.
LEMMA EndpointStepOK == EndpointInv /\ [EndpointNext]_endpointVars => EndpointInv'
<1> SUFFICES ASSUME EndpointInv, [EndpointNext]_endpointVars PROVE EndpointInv'
  OBVIOUS
<1> USE DEF EndpointInv
<1>1. CASE Second
  <2>1. IInv'
    BY <1>1, LinksStep DEF Second, Next
  <2>2. EndpointTypeOK'
    BY <1>1, <2>1 DEF Second, EndpointTypeOK, IInv, schedVars
  <2>3. StageInv'
    BY <1>1 DEF Second, StageInv
  <2> QED BY <2>1, <2>2, <2>3
<1>2. CASE UpdateLinks
  <2>1. IInv'
    BY <1>2, LinksStep DEF UpdateLinks
  <2>2. EndpointTypeOK'
    BY <1>2, <2>1, WeightsAssumption
       DEF UpdateLinks, EndpointTypeOK, IInv, schedVars, Sched!AdjustWeights,
           Sched!SetRateControlledWeights
  <2>3. StageInv'
    BY <1>2 DEF UpdateLinks, StageInv
  <2> QED BY <2>1, <2>2, <2>3
<1>3. CASE ReadWeights
  <2>1. IInv'
    BY <1>3, LinksStep DEF ReadWeights, Next
  <2>2. \A l \in Links : links'[l] \in RateState
    BY <2>1 DEF IInv, TypeOK
  <2>3. weights' \in [Links -> Nat]
    BY <1>3, <2>2, WeightTyped DEF ReadWeights
  <2>4. EndpointTypeOK'
    BY <1>3, <2>1, <2>3 DEF ReadWeights, EndpointTypeOK, IInv, schedVars
  <2>5. \A l \in Links : Silent(l)' => links'[l].state = "Down"
    <3>1. ASSUME NEW l \in Links, Silent(l)' PROVE links'[l].state = "Down"
      <4>1. CASE TimedOut(links[l])
        BY <1>3, <4>1, LinksTyped, CountersKeepSilence DEF ReadWeights, CheckTimeouts
      <4>2. CASE ~TimedOut(links[l])
        BY <1>3, <3>1, <4>2 DEF ReadWeights, CheckTimeouts, TimedOut, Silent
      <4> QED BY <4>1, <4>2
    <3> QED BY <3>1
  <2>6. StageInv'
    BY <1>3, <2>2, <2>5, WeightTyped DEF ReadWeights, StageInv, Failed, Silent
  <2> QED BY <2>1, <2>4, <2>6
<1>4. CASE PushWeights
  <2>1. IInv'
    BY <1>4, LinksStep DEF PushWeights
  <2>2. EndpointTypeOK'
    BY <1>4, <2>1
       DEF PushWeights, EndpointTypeOK, IInv, schedVars, Sched!SetRateControlledWeights
  <2>3. StageInv'
    BY <1>4 DEF PushWeights, StageInv, Failed, Silent, Sched!SetRateControlledWeights
  <2> QED BY <2>1, <2>2, <2>3
<1>5. CASE ScheduleChunk
  <2>1. IInv'
    BY <1>5, LinksStep DEF ScheduleChunk
  <2>2. EndpointTypeOK'
    BY <1>5, <2>1, SelectsLink
       DEF ScheduleChunk, EndpointTypeOK, IInv, Sched!Schedule
  <2>3. StageInv'
    BY <1>5 DEF ScheduleChunk, StageInv, Failed, Silent, Sched!Schedule
  <2> QED BY <2>1, <2>2, <2>3
<1>6. CASE SendChunk
  <2>1. chosen \in Links
    BY <1>6 DEF SendChunk, EndpointTypeOK
  <2>2. IInv' /\ QuietStep
    BY <1>6, <2>1, LinksStep, RecordTxQuiet DEF SendChunk, Next, QuietStep, Silent
  <2>3. EndpointTypeOK'
    BY <1>6, <2>2 DEF SendChunk, EndpointTypeOK, IInv, schedVars
  <2>4. StageInv'
    BY <1>6, <2>2, QuietKeepsStage DEF SendChunk, schedVars
  <2> QED BY <2>2, <2>3, <2>4
<1>7. CASE SendProbes
  <2>1. IInv' /\ QuietStep
    BY <1>7, LinksStep, BuildProbesQuiet DEF SendProbes, Next
  <2>2. EndpointTypeOK'
    BY <1>7, <2>1 DEF SendProbes, EndpointTypeOK, IInv, schedVars
  <2>3. StageInv'
    BY <1>7, <2>1, QuietKeepsStage DEF SendProbes, schedVars
  <2> QED BY <2>1, <2>2, <2>3
<1>8. ASSUME NEW l \in Links, ReceiveChunk(l) PROVE EndpointInv'
  <2>1. IInv' /\ QuietStep
    BY <1>8, LinksStep, RecordRxQuiet DEF ReceiveChunk, Next
  <2>2. EndpointTypeOK'
    BY <1>8, <2>1 DEF ReceiveChunk, EndpointTypeOK, IInv, schedVars
  <2>3. StageInv'
    BY <1>8, <2>1, QuietKeepsStage DEF ReceiveChunk, schedVars
  <2> QED BY <2>1, <2>2, <2>3
<1>9. ASSUME NEW l \in Links, NEW probe \in Probe, ReceiveProbe(l, probe) PROVE EndpointInv'
  <2>1. IInv' /\ QuietStep
    BY <1>9, LinksStep, ProcessProbeQuiet DEF ReceiveProbe, Next
  <2>2. EndpointTypeOK'
    BY <1>9, <2>1 DEF ReceiveProbe, EndpointTypeOK, IInv, schedVars
  <2>3. StageInv'
    BY <1>9, <2>1, QuietKeepsStage DEF ReceiveProbe, schedVars
  <2> QED BY <2>1, <2>2, <2>3
<1>10. CASE UNCHANGED endpointVars
  <2>1. IInv' /\ QuietStep
    BY <1>10, LinksStep DEF endpointVars, QuietStep, Silent
  <2>2. EndpointTypeOK'
    BY <1>10, <2>1 DEF endpointVars, schedVars, EndpointTypeOK, IInv
  <2>3. StageInv'
    BY <1>10, <2>1, QuietKeepsStage DEF endpointVars, schedVars
  <2> QED BY <2>1, <2>2, <2>3
<1> QED
  BY <1>1, <1>2, <1>3, <1>4, <1>5, <1>6, <1>7, <1>8, <1>9, <1>10 DEF EndpointNext, StatsTask

-----------------------------------------------------------------------------

\* The inductive invariant holds throughout.
LEMMA EndpointInvariance == EndpointSpec => []EndpointInv
BY EndpointInitOK, EndpointStepOK, PTL DEF EndpointSpec

\* Type correctness of the endpoint's tasks.
THEOREM EndpointTypeCorrect == EndpointSpec => []EndpointTypeOK
<1>1. EndpointInv => EndpointTypeOK
  BY DEF EndpointInv
<1> QED
  BY <1>1, EndpointInvariance, PTL

\* Failover: after each round of the statistics task a silent link is Down and carries
\* no weight, for any number of links and any interleaving of the tasks.
THEOREM FailoverCompletes == EndpointSpec => []SilentLinkHasNoWeight
<1>1. EndpointInv => SilentLinkHasNoWeight
  BY DEF EndpointInv, StageInv, Failed, Silent, SilentLinkHasNoWeight
<1> QED
  BY <1>1, EndpointInvariance, PTL
=============================================================================
