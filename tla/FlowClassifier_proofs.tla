------------------------- MODULE FlowClassifier_proofs -------------------------
(***************************************************************************)
(* Theorems about FlowClassifier: for all flows and links, all bandwidths, *)
(* thresholds and durations, whatever packets come and whenever the        *)
(* bandwidths change, a flow does not flap, and sustained demand decides   *)
(* its mode although one timer serves both modes.                          *)
(***************************************************************************)
EXTENDS FlowClassifierMC, Aggregates

-----------------------------------------------------------------------------
(* The operators *)

\* max_by_key over the bandwidths finds a link (flow_classifier.rs:276-286).
LEMMA FastestIsLink ==
    ASSUME NEW b \in [Links -> Nat]
    PROVE  Fastest(b) \in Links
<1> DEFINE values == {b[l] : l \in Links}
           best == {l \in Links : \A k \in Links : b[k] <= b[l]}
<1>1. IsFiniteSet(Links) /\ Links # {} /\ Links \in SUBSET Nat
  BY ClassifierAssumption
<1>2. IsFiniteSet(values)
  <2>1. b \in Surjection(Links, values)
    BY DEF Surjection
  <2> QED
    BY <1>1, <2>1, FS_Surjection
<1>3. values \in SUBSET Nat /\ values # {}
  BY <1>1
<1>4. Max(values) \in values /\ \A v \in values : v <= Max(values)
  BY <1>2, <1>3, MaxExists
<1>5. PICK l \in Links : b[l] = Max(values)
  BY <1>4
<1>6. \A k \in Links : b[k] <= b[l]
  BY <1>4, <1>5
<1>7. best \in SUBSET Nat /\ best # {} /\ IsFiniteSet(best)
  BY <1>1, <1>6, FS_Subset
<1>8. Max(best) \in best
  BY <1>7, MaxExists
<1> QED
  BY <1>8 DEF Fastest

\* Ages stop at their limit and keep their order.
LEMMA LaterOrder ==
    ASSUME NEW limit \in Nat, NEW x \in {Stopped} \cup 0 .. limit
    PROVE  /\ Later(x, limit) \in {Stopped} \cup 0 .. limit
           /\ Later(x, limit) = Stopped <=> x = Stopped
           /\ \A y \in x .. limit : Later(x, limit) <= Later(y, limit)
<1>1. \A n \in Nat : Min({n + 1, limit}) = IF n + 1 <= limit THEN n + 1 ELSE limit
  <2> TAKE n \in Nat
  <2> DEFINE m == Min({n + 1, limit})
  <2>1. m \in {n + 1, limit} /\ m <= n + 1 /\ m <= limit
    BY MinOfTwo
  <2> HIDE DEF m
  <2>2. m = IF n + 1 <= limit THEN n + 1 ELSE limit
    BY <2>1
  <2> QED
    BY <2>2 DEF m
<1>2. \A y \in {-1} \cup 0 .. limit :
         Later(y, limit) = IF y = -1 THEN -1 ELSE IF y + 1 <= limit THEN y + 1 ELSE limit
  <2> TAKE y \in {-1} \cup 0 .. limit
  <2>1. CASE y = -1
    BY <2>1 DEF Later, Stopped
  <2>2. CASE y # -1
    BY <1>1, <2>2 DEF Later, Stopped
  <2> QED
    BY <2>1, <2>2
<1>3. Stopped = -1
  BY DEF Stopped
<1>4. \A y \in x .. limit : y \in {-1} \cup 0 .. limit
  BY <1>3
<1> QED
  BY <1>2, <1>3, <1>4

\* The bandwidth of a flow is a number of bytes.
LEMMA BandwidthIsNat ==
    ASSUME NEW s \in FlowState
    PROVE  EstimatedBandwidth(s) \in Nat
<1> DEFINE recent == {a \in Ages : a < FlowWindow}
           bytes == [a \in recent |-> s.samples[a]]
           sum == MapThenSumSet(LAMBDA a : s.samples[a], recent)
<1>1. IsFiniteSet(Ages)
  BY ClassifierAssumption, FS_Interval DEF Ages
<1>2. IsFiniteSet(recent)
  BY <1>1, FS_Subset
<1>3. \A a \in recent : bytes[a] \in Nat
  BY DEF FlowState
<1>4. sum = SumFunctionOnSet(bytes, recent)
  BY ZenonT(30) DEF SumFunctionOnSet, FoldFunctionOnSet, MapThenFoldSet, MapThenSumSet
<1>5. sum \in Nat
  <2> HIDE DEF recent, bytes, sum
  <2> QED
    BY <1>2, <1>3, <1>4, SumIsNat
<1>6. EstimatedBandwidth(s) = sum \div FlowWindow
  BY DEF EstimatedBandwidth
<1>7. FlowWindow \in Nat \ {0}
  BY ClassifierAssumption
<1> HIDE DEF sum
<1> QED
  BY <1>5, <1>6, <1>7

\* The two thresholds leave a gap: a flow above the multi-link threshold is above
\* the single-link threshold too, and not below it.
LEMMA ThresholdsApart ==
    ASSUME NEW s \in FlowState, ClassifierTypeOK
    PROVE  /\ Above(s, MultiLinkThreshold) => Above(s, SingleLinkThreshold)
           /\ ~(Above(s, SingleLinkThreshold) /\ Below(s, SingleLinkThreshold))
<1> DEFINE c == Max({link_bandwidths[fastest_link], 1})
           e == EstimatedBandwidth(s)
<1>1. link_bandwidths \in [Links -> Nat] /\ fastest_link \in Links
  BY ClassifierAssumption DEF ClassifierTypeOK
<1>2. c \in Nat /\ c >= 1
  <2>1. link_bandwidths[fastest_link] \in Nat
    BY <1>1
  <2> QED
    BY <2>1, MaxOfTwo
<1>3. e \in Nat
  BY BandwidthIsNat
<1>4. /\ Capacity(SingleLinkThreshold) = SingleLinkThreshold * c
      /\ Capacity(MultiLinkThreshold) = MultiLinkThreshold * c
  BY DEF Capacity
<1>5. /\ SingleLinkThreshold \in Nat /\ MultiLinkThreshold \in Nat
      /\ SingleLinkThreshold < MultiLinkThreshold
  BY ClassifierAssumption
<1> HIDE DEF c, e
<1>6. /\ SingleLinkThreshold * c \in Nat /\ MultiLinkThreshold * c \in Nat
      /\ SingleLinkThreshold * c <= MultiLinkThreshold * c
  BY <1>2, <1>5
<1>7. /\ Above(s, SingleLinkThreshold) <=> 100 * e > SingleLinkThreshold * c
      /\ Below(s, SingleLinkThreshold) <=> 100 * e < SingleLinkThreshold * c
      /\ Above(s, MultiLinkThreshold) <=> 100 * e > MultiLinkThreshold * c
  BY <1>4 DEF Above, Below, e
<1> QED
  BY <1>3, <1>6, <1>7

\* The decision keeps what a flow has sent.
LEMMA DecisionKeepsSamples ==
    ASSUME NEW s \in FlowState, NEW p
    PROVE  /\ Decided(s).samples = s.samples
           /\ Above(Decided(s), p) = Above(s, p) /\ Below(Decided(s), p) = Below(s, p)
<1>1. Decided(s).samples = s.samples
  BY DEF Decided, Switched, FlowState
<1>2. EstimatedBandwidth(Decided(s)) = EstimatedBandwidth(s)
  BY <1>1 DEF EstimatedBandwidth
<1> QED
  BY <1>1, <1>2 DEF Above, Below

-----------------------------------------------------------------------------
(* The timer of one flow *)

\* What the one timer of a flow says of the time held in its mode, and of the runs
\* of packets beyond either threshold.
TimerAgrees(s, held_for, hot_for, cold_for) ==
    /\ s.exceeded <= held_for
    /\ hot_for # Stopped => s.mode = MultiLink \/ hot_for <= s.exceeded
    /\ cold_for # Stopped => s.mode # MultiLink \/ cold_for <= s.exceeded

RunAge == {Stopped} \cup 0 .. MonitorDuration

FlowInv ==
    /\ ClassifierTypeOK
    /\ held \in [Flows -> 0 .. MonitorDuration]
    /\ hot \in [Flows -> RunAge] /\ cold \in [Flows -> RunAge]
    /\ \A f \in DOMAIN flows : TimerAgrees(flows[f], held[f], hot[f], cold[f])
    /\ \A f \in Flows \ DOMAIN flows : held[f] = 0 /\ hot[f] = Stopped /\ cold[f] = Stopped

\* A packet keeps the agreement; it changes the mode only of a flow held as long as
\* the monitoring duration, and not against a run that long.
LEMMA DecisionAgrees ==
    ASSUME ClassifierTypeOK, NEW s \in FlowState, NEW h \in 0 .. MonitorDuration,
           NEW w \in RunAge, NEW c \in RunAge, TimerAgrees(s, h, w, c)
    PROVE  LET d == Decided(s)
               w2 == Run(w, Above(s, MultiLinkThreshold))
               c2 == Run(c, Below(s, SingleLinkThreshold))
           IN  /\ d \in FlowState /\ w2 \in RunAge /\ c2 \in RunAge
               /\ TimerAgrees(d, IF s.mode = d.mode THEN h ELSE 0, w2, c2)
               /\ s.mode # d.mode => h >= MonitorDuration
               /\ w2 >= MonitorDuration => d.mode = MultiLink
               /\ c2 >= MonitorDuration => d.mode # MultiLink
<1> DEFINE hotter == Above(s, MultiLinkThreshold)
           warm == Above(s, SingleLinkThreshold)
           cool == Below(s, SingleLinkThreshold)
           single == s.mode # MultiLink
           watched == IF single THEN warm ELSE cool
           due == watched /\ Started(s) >= MonitorDuration
           d == Decided(s)
           w2 == Run(w, hotter)
           c2 == Run(c, cool)
<1>1. MonitorDuration \in Nat \ {0} /\ fastest_link \in Links /\ MultiLink \notin Links
  BY ClassifierAssumption DEF ClassifierTypeOK
<1>2. (hotter => warm) /\ ~(warm /\ cool)
  BY ThresholdsApart
<1>3. /\ s.mode \in FlowMode /\ s.exceeded \in {-1} \cup 0 .. MonitorDuration
      /\ Started(s) = IF s.exceeded = -1 THEN 0 ELSE s.exceeded
  BY DEF FlowState, Started, Stopped
<1>4. /\ w2 = IF ~hotter THEN -1 ELSE IF w = -1 THEN 0 ELSE w
      /\ c2 = IF ~cool THEN -1 ELSE IF c = -1 THEN 0 ELSE c
  BY DEF Run, Stopped
<1>5. w \in {-1} \cup 0 .. MonitorDuration /\ c \in {-1} \cup 0 .. MonitorDuration
  BY DEF RunAge, Stopped
<1>6. /\ s.exceeded <= h
      /\ w # -1 => ~single \/ w <= s.exceeded
      /\ c # -1 => single \/ c <= s.exceeded
  BY DEF TimerAgrees, Stopped
<1>7. CASE ~watched
  <2>1. d = [s EXCEPT !.exceeded = -1]
    BY <1>7 DEF Decided, Stopped
  <2>2. d \in FlowState /\ d.exceeded = -1 /\ d.mode = s.mode
    BY <2>1 DEF FlowState, Stopped
  <2> QED
    BY <1>1, <1>2, <1>3, <1>4, <1>5, <1>6, <1>7, <2>2 DEF TimerAgrees, RunAge, Stopped
<1>8. CASE due /\ single /\ hotter
  <2>1. d = [s EXCEPT !.mode = MultiLink, !.exceeded = -1]
    BY <1>8 DEF Decided, Switched, Stopped
  <2>2. d \in FlowState /\ d.exceeded = -1 /\ d.mode = MultiLink
    BY <2>1 DEF FlowState, FlowMode, Stopped
  <2> QED
    BY <1>1, <1>2, <1>3, <1>4, <1>5, <1>6, <1>8, <2>2 DEF TimerAgrees, RunAge, Stopped
<1>9. CASE due /\ ~single
  <2>1. d = [s EXCEPT !.mode = fastest_link, !.exceeded = -1]
    BY <1>9 DEF Decided, Switched, Stopped
  <2>2. d \in FlowState /\ d.exceeded = -1 /\ d.mode = fastest_link
    BY <1>1, <2>1 DEF FlowState, FlowMode, Stopped
  <2> QED
    BY <1>1, <1>2, <1>3, <1>4, <1>5, <1>6, <1>9, <2>2 DEF TimerAgrees, RunAge, Stopped
<1>10. CASE watched /\ ~(due /\ single /\ hotter) /\ ~(due /\ ~single)
  <2>1. d = [s EXCEPT !.exceeded = Started(s)]
    BY <1>10 DEF Decided
  <2>2. d \in FlowState /\ d.exceeded = Started(s) /\ d.mode = s.mode
    BY <1>1, <1>3, <2>1 DEF FlowState, Stopped
  <2> QED
    BY <1>1, <1>2, <1>3, <1>4, <1>5, <1>6, <1>10, <2>2 DEF TimerAgrees, RunAge, Stopped
<1> QED
  BY <1>7, <1>8, <1>9, <1>10

\* The clock keeps the agreement: the timer and the runs stop at the same age.
LEMMA AgeingAgrees ==
    ASSUME NEW s \in FlowState, NEW h \in 0 .. MonitorDuration,
           NEW w \in RunAge, NEW c \in RunAge, TimerAgrees(s, h, w, c)
    PROVE  LET M == MonitorDuration
           IN  /\ Aged(s) \in FlowState
               /\ Later(h, M) \in 0 .. M /\ Later(w, M) \in RunAge /\ Later(c, M) \in RunAge
               /\ TimerAgrees(Aged(s), Later(h, M), Later(w, M), Later(c, M))
<1> DEFINE M == MonitorDuration
           e == s.exceeded
           samples == [a \in Ages |-> IF a = 0 THEN 0 ELSE s.samples[a - 1]]
<1>1. M \in Nat /\ FlowExpiry \in Nat /\ SampleLife \in Nat
  BY ClassifierAssumption
<1>2. e \in RunAge /\ s.mode \in FlowMode /\ s.last_seen \in 0 .. FlowExpiry
  BY DEF FlowState, RunAge
<1>3. \A x \in {Stopped} \cup 0 .. M :
        /\ Later(x, M) \in {Stopped} \cup 0 .. M
        /\ Later(x, M) = Stopped <=> x = Stopped
        /\ \A y \in x .. M : Later(x, M) <= Later(y, M)
  BY <1>1, LaterOrder
<1>4. Later(s.last_seen, FlowExpiry) \in 0 .. FlowExpiry
  BY <1>1, <1>2, LaterOrder DEF Stopped
<1>5. samples \in [Ages -> Nat]
  <2>1. \A a \in Ages : a # 0 => a - 1 \in Ages
    BY <1>1 DEF Ages
  <2>2. \A a \in Ages : s.samples[a] \in Nat
    BY DEF FlowState
  <2> QED
    BY <2>1, <2>2
<1>6. Aged(s) = [s EXCEPT !.samples = samples, !.exceeded = Later(e, M),
                          !.last_seen = Later(s.last_seen, FlowExpiry)]
  BY DEF Aged
<1> HIDE DEF samples, e
<1>7. /\ Aged(s) \in FlowState
      /\ Aged(s).mode = s.mode /\ Aged(s).exceeded = Later(e, M)
  BY <1>2, <1>3, <1>4, <1>5, <1>6 DEF FlowState, RunAge
<1>8. Later(h, M) \in 0 .. M /\ Later(w, M) \in RunAge /\ Later(c, M) \in RunAge
  BY <1>1, <1>3 DEF RunAge, Stopped
<1>9. \A x, y \in RunAge : x <= y => Later(x, M) <= Later(y, M)
  <2> SUFFICES ASSUME NEW x \in RunAge, NEW y \in RunAge, x <= y
               PROVE  y \in x .. M /\ x \in {Stopped} \cup 0 .. M
    BY <1>3
  <2> QED
    BY <1>1 DEF RunAge, Stopped
<1>10. TimerAgrees(Aged(s), Later(h, M), Later(w, M), Later(c, M))
  <2>1. h \in RunAge
    BY DEF RunAge
  <2>2. e <= h
    BY DEF TimerAgrees, e
  <2>3. (w # Stopped => s.mode = MultiLink \/ w <= e) /\ (c # Stopped => s.mode # MultiLink \/ c <= e)
    BY DEF TimerAgrees, e
  <2> QED
    BY <1>2, <1>3, <1>7, <1>9, <2>1, <2>2, <2>3 DEF TimerAgrees, RunAge
<1> QED
  BY <1>7, <1>8, <1>10

-----------------------------------------------------------------------------
(* Steps *)

\* What a packet finds: the state of its flow agrees with its histories, be it
\* tracked or new.
LEMMA PacketFinds ==
    ASSUME FlowInv, NEW f \in Flows, NEW bytes \in Nat
    PROVE  LET s == Recorded(Entry(f), bytes)
           IN  /\ s \in FlowState /\ s.mode = Entry(f).mode
               /\ TimerAgrees(s, held[f], hot[f], cold[f])
<1>1. /\ fastest_link \in FlowMode /\ 0 \in Ages /\ MonitorDuration \in Nat /\ FlowExpiry \in Nat
  BY ClassifierAssumption DEF FlowInv, ClassifierTypeOK, FlowMode, Ages
<1>2. NewFlow \in FlowState /\ NewFlow.exceeded = Stopped
  BY <1>1 DEF NewFlow, FlowState
<1>3. Entry(f) \in FlowState
  BY <1>2 DEF Entry, FlowInv, ClassifierTypeOK
<1>4. TimerAgrees(Entry(f), held[f], hot[f], cold[f])
  <2>1. CASE f \in DOMAIN flows
    BY <2>1 DEF FlowInv, Entry
  <2>2. CASE f \notin DOMAIN flows
    <3>1. held[f] = 0 /\ hot[f] = Stopped /\ cold[f] = Stopped /\ Entry(f) = NewFlow
      BY <2>2 DEF FlowInv, Entry
    <3> QED
      BY <1>2, <3>1 DEF TimerAgrees, Stopped
  <2> QED
    BY <2>1, <2>2
<1> DEFINE e == Entry(f)
           s == Recorded(e, bytes)
<1> HIDE DEF e
<1>5. e \in FlowState /\ TimerAgrees(e, held[f], hot[f], cold[f])
  BY <1>3, <1>4 DEF e
<1>6. s.mode = e.mode /\ s.exceeded = e.exceeded
  BY <1>5 DEF Recorded, FlowState
<1>7. s \in FlowState
  <2> DEFINE samples == [e.samples EXCEPT ![0] = @ + bytes]
  <2>1. samples \in [Ages -> Nat]
    BY <1>1, <1>5 DEF FlowState
  <2>2. s = [e EXCEPT !.samples = samples, !.last_seen = 0]
    BY DEF Recorded
  <2> HIDE DEF samples, s
  <2>3. 0 \in 0 .. FlowExpiry /\ e \in FlowState
    BY <1>1, <1>5
  <2> QED
    BY <2>1, <2>2, <2>3 DEF FlowState
<1> QED
  BY <1>5, <1>6, <1>7 DEF TimerAgrees, e

\* What a packet does, to its flow and to the histories.
LEMMA PacketDoes ==
    ASSUME FlowInv, NEW f \in Flows, NEW bytes \in Nat, MCClassify(f, bytes)
    PROVE  /\ FlowInv'
           /\ DOMAIN flows' = DOMAIN flows \cup {f}
           /\ \A g \in DOMAIN flows \ {f} : flows'[g] = flows[g]
           /\ Entry(f).mode # flows'[f].mode => held[f] >= MonitorDuration
           /\ hot'[f] >= MonitorDuration => flows'[f].mode = MultiLink
           /\ cold'[f] >= MonitorDuration => flows'[f].mode # MultiLink
<1> DEFINE s == Recorded(Entry(f), bytes)
           d == Decided(s)
<1>1. /\ s \in FlowState /\ s.mode = Entry(f).mode
      /\ TimerAgrees(s, held[f], hot[f], cold[f])
  BY PacketFinds
<1>2. /\ ClassifierTypeOK
      /\ held \in [Flows -> 0 .. MonitorDuration]
      /\ hot \in [Flows -> RunAge] /\ cold \in [Flows -> RunAge]
  BY DEF FlowInv
<1>3. /\ flows' = [g \in DOMAIN flows \cup {f} |-> IF g = f THEN d ELSE flows[g]]
      /\ link_bandwidths' = link_bandwidths /\ fastest_link' = fastest_link
      /\ held' = IF Entry(f).mode = flows'[f].mode THEN held ELSE [held EXCEPT ![f] = 0]
      /\ hot' = [hot EXCEPT ![f] = Run(@, Above(flows'[f], MultiLinkThreshold))]
      /\ cold' = [cold EXCEPT ![f] = Run(@, Below(flows'[f], SingleLinkThreshold))]
  BY DEF MCClassify, Classify
<1> HIDE DEF s, d
<1>4. /\ DOMAIN flows' = DOMAIN flows \cup {f} /\ flows'[f] = d
      /\ \A g \in DOMAIN flows \ {f} : flows'[g] = flows[g]
  BY <1>3
<1> DEFINE w2 == Run(hot[f], Above(s, MultiLinkThreshold))
           c2 == Run(cold[f], Below(s, SingleLinkThreshold))
           h2 == IF s.mode = d.mode THEN held[f] ELSE 0
<1>5. /\ Above(d, MultiLinkThreshold) = Above(s, MultiLinkThreshold)
      /\ Below(d, SingleLinkThreshold) = Below(s, SingleLinkThreshold)
  BY <1>1, DecisionKeepsSamples DEF d
<1>6. hot' = [hot EXCEPT ![f] = w2] /\ cold' = [cold EXCEPT ![f] = c2]
  BY <1>3, <1>4, <1>5
<1>7. held' = [held EXCEPT ![f] = h2]
  BY <1>1, <1>2, <1>3, <1>4
<1>8. /\ d \in FlowState /\ w2 \in RunAge /\ c2 \in RunAge
      /\ TimerAgrees(d, h2, w2, c2)
      /\ s.mode # d.mode => held[f] >= MonitorDuration
      /\ w2 >= MonitorDuration => d.mode = MultiLink
      /\ c2 >= MonitorDuration => d.mode # MultiLink
  BY <1>1, <1>2, DecisionAgrees DEF d
<1> HIDE DEF w2, c2
<1>9. h2 \in 0 .. MonitorDuration
  BY <1>2, ClassifierAssumption
<1> HIDE DEF h2
<1>10. /\ held'[f] = h2 /\ hot'[f] = w2 /\ cold'[f] = c2
       /\ \A g \in Flows \ {f} : held'[g] = held[g] /\ hot'[g] = hot[g] /\ cold'[g] = cold[g]
       /\ held' \in [Flows -> 0 .. MonitorDuration]
       /\ hot' \in [Flows -> RunAge] /\ cold' \in [Flows -> RunAge]
  BY <1>2, <1>6, <1>7, <1>8, <1>9
<1>11. ClassifierTypeOK'
  BY <1>2, <1>3, <1>8 DEF ClassifierTypeOK
<1>12. ASSUME NEW g \in DOMAIN flows'
       PROVE  TimerAgrees(flows'[g], held'[g], hot'[g], cold'[g])
  <2>1. CASE g = f
    BY <1>4, <1>8, <1>10, <2>1
  <2>2. CASE g # f
    <3>1. g \in DOMAIN flows \ {f} /\ g \in Flows \ {f}
      BY <1>2, <1>4, <2>2 DEF ClassifierTypeOK
    <3> QED
      BY <1>4, <1>10, <3>1 DEF FlowInv
  <2> QED
    BY <2>1, <2>2
<1>13. ASSUME NEW g \in Flows \ DOMAIN flows'
       PROVE  held'[g] = 0 /\ hot'[g] = Stopped /\ cold'[g] = Stopped
  BY <1>4, <1>10 DEF FlowInv
<1>14. FlowInv'
  BY <1>10, <1>11, <1>12, <1>13 DEF FlowInv, TimerAgrees, RunAge
<1> QED
  BY <1>1, <1>4, <1>8, <1>10, <1>14

LEMMA BandwidthsStep ==
    ASSUME FlowInv, NEW b \in Bandwidths, MCUpdateBandwidths(b)
    PROVE  FlowInv' /\ flows' = flows
<1>1. b \in [Links -> Nat]
  BY ClassifierAssumption
<1>2. /\ flows' = flows /\ link_bandwidths' = b /\ fastest_link' = Fastest(b)
      /\ held' = held /\ hot' = hot /\ cold' = cold
  BY DEF MCUpdateBandwidths, UpdateBandwidths
<1>3. Fastest(b) \in Links
  BY <1>1, FastestIsLink
<1> QED
  BY <1>2, <1>3 DEF FlowInv, ClassifierTypeOK, TimerAgrees, RunAge

\* A flow that expires begins anew.
LEMMA ExpiryStep ==
    ASSUME FlowInv, MCExpireFlows
    PROVE  FlowInv' /\ \A f \in DOMAIN flows' : f \in DOMAIN flows /\ flows'[f] = flows[f]
<1> DEFINE kept == {f \in DOMAIN flows : flows[f].last_seen < FlowExpiry}
<1>1. /\ DOMAIN flows' = kept /\ \A f \in kept : flows'[f] = flows[f]
      /\ flows' = [f \in kept |-> flows[f]]
      /\ link_bandwidths' = link_bandwidths /\ fastest_link' = fastest_link
  BY DEF MCExpireFlows, ExpireFlows, Restrict
<1>2. /\ held' = [f \in Flows |-> IF f \in DOMAIN flows' THEN held[f] ELSE 0]
      /\ hot' = [f \in Flows |-> IF f \in DOMAIN flows' THEN hot[f] ELSE Stopped]
      /\ cold' = [f \in Flows |-> IF f \in DOMAIN flows' THEN cold[f] ELSE Stopped]
  BY DEF MCExpireFlows
<1>3. kept \subseteq DOMAIN flows /\ kept \subseteq Flows
  BY DEF FlowInv, ClassifierTypeOK
<1> HIDE DEF kept
<1>4. ClassifierTypeOK'
  BY <1>1, <1>3 DEF FlowInv, ClassifierTypeOK
<1>5. /\ held' \in [Flows -> 0 .. MonitorDuration]
      /\ hot' \in [Flows -> RunAge] /\ cold' \in [Flows -> RunAge]
  BY <1>2, ClassifierAssumption DEF FlowInv, RunAge
<1>6. \A f \in DOMAIN flows' : TimerAgrees(flows'[f], held'[f], hot'[f], cold'[f])
  BY <1>1, <1>2, <1>3 DEF FlowInv
<1>7. \A f \in Flows \ DOMAIN flows' : held'[f] = 0 /\ hot'[f] = Stopped /\ cold'[f] = Stopped
  BY <1>2
<1>8. FlowInv'
  BY <1>4, <1>5, <1>6, <1>7 DEF FlowInv, TimerAgrees, RunAge
<1> QED
  BY <1>1, <1>3, <1>8

LEMMA TickStep ==
    ASSUME FlowInv, MCTick
    PROVE  /\ FlowInv' /\ DOMAIN flows' = DOMAIN flows
           /\ \A f \in DOMAIN flows : flows'[f].mode = flows[f].mode
<1> DEFINE M == MonitorDuration
<1>1. /\ flows' = [f \in DOMAIN flows |-> Aged(flows[f])]
      /\ link_bandwidths' = link_bandwidths /\ fastest_link' = fastest_link
  BY DEF MCTick, Tick
<1>2. /\ held' = [f \in Flows |-> IF f \in DOMAIN flows THEN Later(held[f], M) ELSE held[f]]
      /\ hot' = [f \in Flows |-> IF f \in DOMAIN flows THEN Later(hot[f], M) ELSE hot[f]]
      /\ cold' = [f \in Flows |-> IF f \in DOMAIN flows THEN Later(cold[f], M) ELSE cold[f]]
  BY DEF MCTick
<1>3. /\ DOMAIN flows \subseteq Flows
      /\ \A f \in DOMAIN flows : flows[f] \in FlowState
      /\ \A f \in Flows : held[f] \in 0 .. M /\ hot[f] \in RunAge /\ cold[f] \in RunAge
      /\ \A f \in DOMAIN flows : TimerAgrees(flows[f], held[f], hot[f], cold[f])
  BY DEF FlowInv, ClassifierTypeOK
<1>4. \A f \in DOMAIN flows :
        /\ Aged(flows[f]) \in FlowState
        /\ Later(held[f], M) \in 0 .. M /\ Later(hot[f], M) \in RunAge
        /\ Later(cold[f], M) \in RunAge
        /\ TimerAgrees(Aged(flows[f]), Later(held[f], M), Later(hot[f], M), Later(cold[f], M))
  <2> TAKE f \in DOMAIN flows
  <2>1. f \in Flows
    BY <1>3
  <2> QED
    BY <1>3, <2>1, AgeingAgrees
<1>5. \A f \in DOMAIN flows : Aged(flows[f]).mode = flows[f].mode
  BY <1>3 DEF Aged, FlowState
<1>6. ClassifierTypeOK'
  BY <1>1, <1>3, <1>4 DEF FlowInv, ClassifierTypeOK
<1>7. /\ held' \in [Flows -> 0 .. M]
      /\ hot' \in [Flows -> RunAge] /\ cold' \in [Flows -> RunAge]
  BY <1>2, <1>3, <1>4
<1>8. \A f \in DOMAIN flows' : TimerAgrees(flows'[f], held'[f], hot'[f], cold'[f])
  BY <1>1, <1>2, <1>3, <1>4
<1>9. \A f \in Flows \ DOMAIN flows' : held'[f] = 0 /\ hot'[f] = Stopped /\ cold'[f] = Stopped
  BY <1>1, <1>2 DEF FlowInv
<1>10. FlowInv'
  BY <1>6, <1>7, <1>8, <1>9 DEF FlowInv, TimerAgrees, RunAge
<1> QED
  BY <1>1, <1>5, <1>10

LEMMA FlowInvariance == MCSpec => []FlowInv
<1>1. MCInit => FlowInv
  <2> SUFFICES ASSUME MCInit PROVE FlowInv
    OBVIOUS
  <2>1. /\ flows = [f \in {} |-> NewFlow] /\ link_bandwidths \in Bandwidths
        /\ fastest_link = Fastest(link_bandwidths)
        /\ held = [f \in Flows |-> 0] /\ hot = [f \in Flows |-> Stopped] /\ cold = hot
    BY DEF MCInit, ClassifierInit
  <2>2. fastest_link \in Links
    BY <2>1, ClassifierAssumption, FastestIsLink
  <2>3. DOMAIN flows = {}
    BY <2>1
  <2>4. ClassifierTypeOK
    BY <2>1, <2>2, <2>3 DEF ClassifierTypeOK
  <2> QED
    BY <2>1, <2>3, <2>4, ClassifierAssumption DEF FlowInv, RunAge
<1>2. FlowInv /\ [MCNext]_mcvars => FlowInv'
  <2> SUFFICES ASSUME FlowInv, [MCNext]_mcvars PROVE FlowInv'
    OBVIOUS
  <2>1. ASSUME NEW f \in Flows, NEW bytes \in Sizes, MCClassify(f, bytes) PROVE FlowInv'
    BY <2>1, PacketDoes, SizesAssumption
  <2>2. ASSUME NEW b \in Bandwidths, MCUpdateBandwidths(b) PROVE FlowInv'
    BY <2>2, BandwidthsStep
  <2>3. CASE MCExpireFlows
    BY <2>3, ExpiryStep
  <2>4. CASE MCTick
    BY <2>4, TickStep
  <2>5. CASE UNCHANGED mcvars
    BY <2>5 DEF mcvars, classifierVars, FlowInv, ClassifierTypeOK, TimerAgrees, RunAge
  <2> QED
    BY <2>1, <2>2, <2>3, <2>4, <2>5 DEF MCNext
<1> QED
  BY <1>1, <1>2, PTL DEF MCSpec

-----------------------------------------------------------------------------
(* Theorems *)

\* Every tracked flow is on one link or on all, with a timer and samples in their
\* ranges, and the fastest link is one of the links.
THEOREM ClassifierTypes == MCSpec => []ClassifierTypeOK
<1>1. FlowInv => ClassifierTypeOK
  BY DEF FlowInv
<1> QED
  BY <1>1, FlowInvariance, PTL

\* Flows do not flap, for all thresholds, bandwidths and packets: a tracked flow keeps
\* its mode for the monitoring duration (flow_classifier.rs:164 and :195).
THEOREM FlowsDoNotFlap == MCSpec => ModeHolds
<1> DEFINE Step == \A f \in DOMAIN flows \cap DOMAIN flows' :
                      flows[f].mode # flows'[f].mode => held[f] >= MonitorDuration
<1>1. FlowInv /\ [MCNext]_mcvars => [Step]_mcvars
  <2> SUFFICES ASSUME FlowInv, MCNext,
                      NEW f \in DOMAIN flows \cap DOMAIN flows', flows[f].mode # flows'[f].mode
               PROVE  held[f] >= MonitorDuration
    OBVIOUS
  <2>1. ASSUME NEW g \in Flows, NEW bytes \in Sizes, MCClassify(g, bytes)
        PROVE  held[f] >= MonitorDuration
    <3>1. /\ \A h \in DOMAIN flows \ {g} : flows'[h] = flows[h]
          /\ Entry(g).mode # flows'[g].mode => held[g] >= MonitorDuration
      BY <2>1, PacketDoes, SizesAssumption
    <3>2. f = g
      BY <3>1
    <3> QED
      BY <3>1, <3>2 DEF Entry
  <2>2. ASSUME NEW b \in Bandwidths, MCUpdateBandwidths(b) PROVE FALSE
    BY <2>2, BandwidthsStep
  <2>3. CASE MCExpireFlows
    BY <2>3, ExpiryStep
  <2>4. CASE MCTick
    BY <2>4, TickStep
  <2> QED
    BY <2>1, <2>2, <2>3, <2>4 DEF MCNext
<1> QED
  BY <1>1, FlowInvariance, PTL DEF MCSpec, ModeHolds

\* Sustained demand decides the mode, whatever mode the flow had and whenever the
\* bandwidths changed in between (FlowState::classify).
THEOREM SustainedDemandDecides == MCSpec => DemandDecides
<1> DEFINE Step == \A f \in Flows, bytes \in Sizes : MCClassify(f, bytes) =>
                      /\ hot'[f] >= MonitorDuration => flows'[f].mode = MultiLink
                      /\ cold'[f] >= MonitorDuration => flows'[f].mode # MultiLink
<1>1. FlowInv /\ [MCNext]_mcvars => [Step]_mcvars
  BY PacketDoes, SizesAssumption
<1> QED
  BY <1>1, FlowInvariance, PTL DEF MCSpec, DemandDecides
=============================================================================
