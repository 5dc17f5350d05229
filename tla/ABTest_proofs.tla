----------------------------- MODULE ABTest_proofs -----------------------------
(***************************************************************************)
(* What a suite of A/B tests does for any number of tests and samples.     *)
(***************************************************************************)
EXTENDS ABTestMC, SequenceTheorems, Aggregates

Full(c) == IF c.variant_b = None THEN 2 ELSE 3

\* The phases with a result are the first of the plan.
Ordered(rs) ==
    \A i \in 1 .. Len(rs) :
        rs[i].phase = IF i = 1 THEN "Baseline" ELSE IF i = 2 THEN "VariantA" ELSE "VariantB"

\* How many results a test has in each of its phases.  A cooldown follows a variant A
\* that recorded nothing with one result, and a baseline that did with none.
Progress(t) ==
    LET n == Len(t.results)
    IN /\ t.phase = "Baseline" => n = 0
       /\ t.phase = "VariantA" => n = 1
       /\ t.phase = "VariantB" => n = 2 /\ t.config.variant_b # None
       /\ t.phase = "Cooldown" => n <= 2 /\ (n = 2 => t.config.variant_b # None)
       /\ t.phase = "Complete" => n <= Full(t.config) /\ (n # 0 => n >= Full(t.config) - 1)

TestOK(t) == t \in RunningTest /\ Ordered(t.results) /\ Progress(t)

\* The results of t count the samples s of their phases; a phase without a result has
\* no samples but those being recorded.
OwnSamples(t, s) ==
    /\ \A i \in 1 .. Len(t.results) :
          /\ t.results[i].samples = Len(s[t.results[i].phase])
          /\ t.results[i].score = Score(t.config.success_metric, s[t.results[i].phase])
    /\ \A p \in {"Baseline", "VariantA", "VariantB"} :
          (\A i \in 1 .. Len(t.results) : t.results[i].phase # p)
              => s[p] = IF p = t.phase THEN t.metrics ELSE <<>>
    /\ t.phase = "Cooldown" => t.metrics = <<>>

RunsInOrder ==
    /\ tests \in Seq(Configs) /\ results \in Seq(TestResult)
    /\ current_test_idx = Len(results)
    /\ \A i \in 1 .. Len(results) : results[i].config = tests[i]
    /\ Len(results) <= Len(tests)
    /\ current_test # None =>
           Len(results) < Len(tests) /\ current_test.config = tests[Len(results) + 1]
    /\ started \in BOOLEAN /\ (~started => current_test = None /\ results = <<>>)

ResultsOK ==
    \A i \in 1 .. Len(results) :
        LET r == results[i]
        IN /\ Ordered(r.phases) /\ Len(r.phases) <= Full(r.config)
           /\ Len(r.phases) # 0 => Len(r.phases) >= Full(r.config) - 1
           /\ r.winner = DetermineWinner(r.phases)

CurrentOK ==
    /\ seen \in [TestPhase -> Seq(Nat)]
    /\ ~started => seen = NothingSeen
    /\ current_test # None => /\ TestOK(current_test) /\ current_test.phase # "Complete"
                              /\ OwnSamples(current_test, seen)

SuiteInv == RunsInOrder /\ ResultsOK /\ CurrentOK

-----------------------------------------------------------------------------
(* A test *)

\* The configurations are configurations of tests.
LEMMA ConfigsTyped == ASSUME NEW c \in Configs PROVE c \in TestConfig
  BY ABTestAssumption


\* The value a test measures is one of its configuration's.
LEMMA ValueTyped ==
    ASSUME NEW t, TestOK(t)
    PROVE  CurrentParameterValue(t) \in Values
<1>1. t.config \in TestConfig
  BY ConfigsTyped DEF TestOK, RunningTest
<1> QED
  BY <1>1 DEF CurrentParameterValue, TestConfig

\* The mean of naturals is one.
LEMMA MeanTyped ==
    ASSUME NEW ms \in Seq(Nat), NEW I \in SUBSET DOMAIN ms
    PROVE  Mean(ms, I) \in Nat
<1>1. DOMAIN ms = 1 .. Len(ms) /\ Len(ms) \in Nat /\ \A i \in DOMAIN ms : ms[i] \in Nat
  BY LenProperties, ElementOfSeq
<1>2. IsFiniteSet(DOMAIN ms)
  BY <1>1, FS_Interval
<1>3. IsFiniteSet(I)
  BY <1>2, FS_Subset
<1>4. SumFunctionOnSet(ms, I) \in Nat
  BY <1>1, <1>3, SumIsNat
<1>5. Cardinality(I) \in Nat /\ (Cardinality(I) = 0 <=> I = {})
  BY <1>3, FS_CardinalityType, FS_EmptySet
<1>6. ASSUME NEW a \in Nat, NEW b \in Nat, b # 0 PROVE a \div b \in Nat
  BY <1>6
<1> QED
  BY <1>4, <1>5, <1>6 DEF Mean

\* Whatever the samples of a phase are, they have a score.
LEMMA ScoreTyped ==
    ASSUME NEW metric \in SuccessMetric, NEW ms \in Seq(Nat), ms # <<>>
    PROVE  Score(metric, ms) \in Int
<1> DEFINE positive == {i \in DOMAIN ms : ms[i] > 0}
<1>1. Mean(ms, positive) \in Nat /\ Mean(ms, DOMAIN ms) \in Nat
  BY MeanTyped
<1>2. Max(Range(ms)) \in Nat
  <2>1. DOMAIN ms = 1 .. Len(ms) /\ Len(ms) \in Nat /\ \A i \in DOMAIN ms : ms[i] \in Nat
    BY LenProperties, ElementOfSeq
  <2>2. DOMAIN ms # {} /\ ms \in [DOMAIN ms -> Nat]
    BY <2>1, LenProperties, EmptySeq
  <2>3. IsFiniteSet(DOMAIN ms)
    BY <2>1, FS_Interval
  <2>4. IsFiniteSet(Range(ms)) /\ Range(ms) # {}
    BY <2>2, <2>3, FiniteRange
  <2>5. Range(ms) \in SUBSET Nat /\ Range(ms) \in SUBSET Int
    BY <2>1 DEF Range
  <2> QED
    BY <2>4, <2>5, MaxOfIntegers
<1>3. ASSUME NEW x \in Nat PROVE Reciprocal(x) \in Int
  BY DEF Reciprocal
<1>4. Score(metric, ms) \in {Mean(ms, positive), Reciprocal(Mean(ms, positive)),
                             Reciprocal(Max(Range(ms))), 100 - Mean(ms, DOMAIN ms)}
  BY DEF Score, SuccessMetric
<1>5. 100 - Mean(ms, DOMAIN ms) \in Int
  BY <1>1
<1> HIDE DEF positive
<1> QED
  BY <1>1, <1>2, <1>3, <1>4, <1>5

\* The result of a phase is about its own samples,
LEMMA ResultFields ==
    ASSUME NEW t
    PROVE  /\ ResultOf(t).phase = t.phase /\ ResultOf(t).samples = Len(t.metrics)
           /\ ResultOf(t).score = Score(t.config.success_metric, t.metrics)
BY DEF ResultOf

\* and typed when there are some.
LEMMA ResultTyped ==
    ASSUME NEW t, TestOK(t), t.metrics # <<>>
    PROVE  ResultOf(t) \in PhaseResult
<1>1. /\ t.config \in TestConfig /\ t.metrics \in Seq(Nat) /\ t.phase \in TestPhase
      /\ CurrentParameterValue(t) \in Values
  BY ConfigsTyped, ValueTyped DEF TestOK, RunningTest
<1>2. t.config.success_metric \in SuccessMetric /\ Len(t.metrics) \in Nat \ {0}
  BY <1>1, LenProperties, EmptySeq DEF TestConfig
<1>3. Score(t.config.success_metric, t.metrics) \in Int
  BY <1>1, <1>2, ScoreTyped
<1> QED
  BY <1>1, <1>2, <1>3 DEF ResultOf, PhaseResult

\* advance_phase adds at most the result of the phase that ends.
LEMMA MeasuredOK ==
    ASSUME NEW t, TestOK(t), t.phase # "Complete"
    PROVE  /\ Measured(t) \in Seq(PhaseResult) /\ Ordered(Measured(t))
           /\ Len(t.results) \in Nat
           /\ \/ /\ t.phase = "Cooldown" \/ t.metrics = <<>>
                 /\ Measured(t) = t.results
              \/ /\ t.phase # "Cooldown" /\ t.metrics # <<>>
                 /\ Len(Measured(t)) = Len(t.results) + 1
                 /\ \A i \in 1 .. Len(t.results) : Measured(t)[i] = t.results[i]
                 /\ Measured(t)[Len(t.results) + 1] = ResultOf(t)
<1>1. t.results \in Seq(PhaseResult) /\ ResultOf(t).phase = t.phase
  BY ResultFields DEF TestOK, RunningTest
<1>2. Len(t.results) \in Nat
  BY <1>1, LenProperties
<1>3. CASE t.phase = "Cooldown" \/ t.metrics = <<>>
  BY <1>1, <1>2, <1>3 DEF Measured, TestOK
<1>4. CASE ~(t.phase = "Cooldown" \/ t.metrics = <<>>)
  <2> DEFINE rs == Append(t.results, ResultOf(t))
             n == Len(t.results)
  <2>1. /\ rs \in Seq(PhaseResult) /\ Len(rs) = n + 1
        /\ \A i \in 1 .. n : rs[i] = t.results[i]
        /\ rs[n + 1] = ResultOf(t)
    BY <1>1, <1>4, ResultTyped, AppendProperties
  <2>2. Measured(t) = rs
    BY <1>4 DEF Measured
  <2>3. /\ t.phase = "Baseline" => n = 0
        /\ t.phase = "VariantA" => n = 1
        /\ t.phase = "VariantB" => n = 2
        /\ t.phase \in {"Baseline", "VariantA", "VariantB"}
    BY <1>4 DEF TestOK, Progress, RunningTest, TestPhase
  <2>4. \A i \in 1 .. n :
            t.results[i].phase = IF i = 1 THEN "Baseline"
                                 ELSE IF i = 2 THEN "VariantA" ELSE "VariantB"
    BY DEF TestOK, Ordered
  <2> HIDE DEF rs, n
  <2>5. ASSUME NEW i \in 1 .. n + 1
        PROVE  rs[i].phase = IF i = 1 THEN "Baseline"
                             ELSE IF i = 2 THEN "VariantA" ELSE "VariantB"
    <3>1. n \in Nat
      BY <1>2 DEF n
    <3>2. CASE i = n + 1
      BY <1>1, <2>1, <2>3, <3>1, <3>2
    <3>3. CASE i # n + 1
      <4>1. i \in 1 .. n
        BY <3>1, <3>3
      <4> QED BY <2>1, <2>4, <4>1
    <3> QED BY <3>2, <3>3
  <2>6. Ordered(rs)
    BY <2>1, <2>5 DEF Ordered
  <2> QED
    BY <1>2, <1>4, <2>1, <2>2, <2>6 DEF n
<1> QED
  BY <1>3, <1>4

\* What advance_phase makes of the fields of a test.
LEMMA AdvancedFields ==
    ASSUME NEW t, TestOK(t), t.phase # "Complete"
    PROVE  LET a == AdvancePhase(t)
           IN /\ a.config = t.config /\ a.results = Measured(t) /\ a.metrics = <<>>
              /\ a.phase = NextPhase(t, Len(Measured(t)))
              /\ a.phase \in TestPhase => a \in RunningTest
<1> DEFINE rs == Measured(t)
           next == NextPhase(t, Len(rs))
           none == <<>>
           a == [t EXCEPT !.results = rs, !.age = 0, !.metrics = none, !.phase = next]
<1>1. AdvancePhase(t) = a
  BY DEF AdvancePhase
<1>2. rs \in Seq(PhaseResult) /\ none \in Seq(Nat) /\ t \in RunningTest
  BY MeasuredOK, EmptySeq DEF TestOK
<1> HIDE DEF rs, next, none
<1>3. /\ a.config = t.config /\ a.results = rs /\ a.metrics = none /\ a.phase = next
      /\ next \in TestPhase => a \in RunningTest
  BY <1>2 DEF RunningTest
<1> HIDE DEF a
<1> QED
  BY <1>1, <1>3 DEF rs, next, none

\* The next phase has as many results behind it as its place in the plan says.
LEMMA AdvancePhaseOK ==
    ASSUME NEW t, TestOK(t), t.phase # "Complete"
    PROVE  TestOK(AdvancePhase(t)) /\ AdvancePhase(t).config = t.config
<1> DEFINE a == AdvancePhase(t)
           n == Len(t.results)
           m == Len(Measured(t))
           next == NextPhase(t, m)
<1>1. /\ a.config = t.config /\ a.results = Measured(t) /\ a.phase = next
      /\ next \in TestPhase => a \in RunningTest
  BY AdvancedFields
<1>2. /\ n \in Nat /\ (m = n \/ m = n + 1) /\ (t.phase = "Cooldown" => m = n)
      /\ Measured(t) \in Seq(PhaseResult) /\ Ordered(Measured(t))
  BY MeasuredOK
<1>3. /\ t.phase = "Baseline" => n = 0
      /\ t.phase = "VariantA" => n = 1
      /\ t.phase = "VariantB" => n = 2 /\ t.config.variant_b # None
      /\ t.phase = "Cooldown" => n <= 2 /\ (n = 2 => t.config.variant_b # None)
      /\ t.phase \in {"Baseline", "VariantA", "VariantB", "Cooldown"}
      /\ t.config \in Configs
  BY DEF TestOK, Progress, RunningTest, TestPhase
<1>4. next = CASE t.phase = "Baseline" -> "Cooldown"
               [] t.phase = "VariantA" /\ t.config.variant_b # None -> "Cooldown"
               [] t.phase = "Cooldown" /\ m = 1 -> "VariantA"
               [] t.phase = "Cooldown" /\ m = 2 -> "VariantB"
               [] OTHER -> "Complete"
  BY DEF NextPhase
<1>5. m = Len(a.results)
  BY <1>1
<1> HIDE DEF a, n, m, next
<1>6. next \in TestPhase
  BY <1>3, <1>4 DEF TestPhase
<1>7. a \in RunningTest
  BY <1>1, <1>6
<1>9. Progress(a)
  <2>1. CASE t.phase = "Baseline"
    <3>1. next = "Cooldown" /\ m \in {0, 1}
      BY <1>2, <1>3, <1>4, <2>1
    <3> QED
      BY <1>1, <1>5, <3>1 DEF Progress
  <2>2. CASE t.phase = "VariantA"
    <3>1. m \in {1, 2} /\ next = IF t.config.variant_b # None THEN "Cooldown" ELSE "Complete"
      BY <1>2, <1>3, <1>4, <2>2
    <3> QED
      BY <1>1, <1>5, <3>1 DEF Progress, Full
  <2>3. CASE t.phase = "VariantB"
    <3>1. m \in {2, 3} /\ next = "Complete" /\ t.config.variant_b # None
      BY <1>2, <1>3, <1>4, <2>3
    <3> QED
      BY <1>1, <1>5, <3>1, SMTT(30) DEF Progress, Full
  <2>4. CASE t.phase = "Cooldown"
    <3>1. /\ m \in {0, 1, 2} /\ (m = 2 => t.config.variant_b # None)
          /\ next = IF m = 0 THEN "Complete" ELSE IF m = 1 THEN "VariantA" ELSE "VariantB"
      BY <1>2, <1>3, <1>4, <2>4
    <3> QED
      BY <1>1, <1>5, <3>1 DEF Progress, Full
  <2> QED
    BY <1>3, <2>1, <2>2, <2>3, <2>4
<1> QED
  BY <1>1, <1>2, <1>7, <1>9 DEF TestOK, a

\* A phase that ends hands its own samples to its result.
LEMMA AdvanceKeepsSamples ==
    ASSUME NEW t, TestOK(t), t.phase # "Complete", NEW s, OwnSamples(t, s)
    PROVE  OwnSamples(AdvancePhase(t), s)
<1> DEFINE a == AdvancePhase(t)
           n == Len(t.results)
           rs == Measured(t)
<1>1. a.config = t.config /\ a.results = rs /\ a.metrics = <<>>
  BY AdvancedFields
<1>2. n \in Nat /\ rs \in Seq(PhaseResult) /\ Ordered(rs)
  BY MeasuredOK
<1>3. t.phase \in {"Baseline", "VariantA", "VariantB", "Cooldown"}
  BY DEF TestOK, RunningTest, TestPhase
<1>4. /\ \A i \in 1 .. n :
            /\ t.results[i].samples = Len(s[t.results[i].phase])
            /\ t.results[i].score = Score(t.config.success_metric, s[t.results[i].phase])
      /\ \A p \in {"Baseline", "VariantA", "VariantB"} :
            (\A i \in 1 .. n : t.results[i].phase # p)
                => s[p] = IF p = t.phase THEN t.metrics ELSE <<>>
      /\ t.phase = "Cooldown" => t.metrics = <<>>
  BY DEF OwnSamples
<1> HIDE DEF a, n, rs
<1>5. CASE t.phase = "Cooldown" \/ t.metrics = <<>>
  <2>1. rs = t.results /\ t.metrics = <<>>
    BY <1>4, <1>5, MeasuredOK DEF rs
  <2> QED
    BY <1>1, <1>4, <2>1 DEF OwnSamples, a, n
<1>6. CASE ~(t.phase = "Cooldown" \/ t.metrics = <<>>)
  <2>1. /\ Len(rs) = n + 1 /\ \A i \in 1 .. n : rs[i] = t.results[i]
        /\ rs[n + 1] = ResultOf(t)
    BY <1>6, MeasuredOK DEF rs, n
  <2>2. \A i \in 1 .. n : t.results[i].phase # t.phase
    BY <1>2, <1>3, <1>6 DEF TestOK, Ordered, Progress, n
  <2>3. s[t.phase] = t.metrics
    BY <1>3, <1>4, <1>6, <2>2
  <2>4. /\ ResultOf(t).phase = t.phase /\ ResultOf(t).samples = Len(t.metrics)
        /\ ResultOf(t).score = Score(t.config.success_metric, t.metrics)
    BY ResultFields
  <2>5. \A i \in 1 .. n + 1 : i \in 1 .. n \/ i = n + 1
    BY <1>2
  <2>6. n + 1 \in 1 .. n + 1 /\ \A i \in 1 .. n : i \in 1 .. n + 1
    BY <1>2
  <2>7. \A i \in 1 .. n + 1 :
            /\ rs[i].samples = Len(s[rs[i].phase])
            /\ rs[i].score = Score(t.config.success_metric, s[rs[i].phase])
    BY <1>4, <2>1, <2>3, <2>4, <2>5
  <2>8. ASSUME NEW p \in {"Baseline", "VariantA", "VariantB"},
               \A i \in 1 .. n + 1 : rs[i].phase # p
        PROVE  s[p] = <<>>
    <3>1. p # t.phase
      BY <2>1, <2>4, <2>6, <2>8
    <3>2. \A i \in 1 .. n : t.results[i].phase # p
      BY <2>1, <2>6, <2>8
    <3> QED
      BY <1>4, <3>1, <3>2
  <2> QED
    BY <1>1, <2>1, <2>7, <2>8 DEF OwnSamples, a
<1> QED
  BY <1>5, <1>6

\* tick of a test
LEMMA TickedOK ==
    ASSUME NEW t, TestOK(t), t.phase # "Complete", NEW s, OwnSamples(t, s)
    PROVE  TestOK(Ticked(t)) /\ Ticked(t).config = t.config /\ OwnSamples(Ticked(t), s)
BY AdvancePhaseOK, AdvanceKeepsSamples DEF Ticked

\* A new test has measured nothing.
LEMMA NewTestOK ==
    ASSUME NEW c \in Configs
    PROVE  /\ TestOK(NewTest(c)) /\ OwnSamples(NewTest(c), NothingSeen)
           /\ NewTest(c).config = c /\ NewTest(c).phase = "Baseline"
<1>1. /\ <<>> \in Seq(Nat) /\ <<>> \in Seq(PhaseResult) /\ Len(<<>>) = 0
  BY EmptySeq
<1>2. /\ NewTest(c).results = <<>> /\ NewTest(c).metrics = <<>>
      /\ NewTest(c).phase = "Baseline" /\ NewTest(c).config = c
  BY DEF NewTest
<1>3. NewTest(c) \in RunningTest
  BY <1>1 DEF NewTest, RunningTest, TestPhase
<1>4. \A p \in {"Baseline", "VariantA", "VariantB"} : NothingSeen[p] = <<>>
  BY DEF NothingSeen, TestPhase
<1> QED
  BY <1>1, <1>2, <1>3, <1>4 DEF TestOK, Ordered, Progress, OwnSamples

-----------------------------------------------------------------------------
(* The suite *)

\* Another sample goes to the phase that runs, which has no result yet.
LEMMA RecordedOK ==
    ASSUME NEW t, TestOK(t), t.phase # "Complete", NEW m \in Nat,
           NEW s \in [TestPhase -> Seq(Nat)], OwnSamples(t, s)
    PROVE  /\ TestOK(Recorded(t, m)) /\ Recorded(t, m).phase = t.phase
           /\ Recorded(t, m).config = t.config
           /\ OwnSamples(Recorded(t, m), [s EXCEPT ![t.phase] = Append(@, m)])
           /\ [s EXCEPT ![t.phase] = Append(@, m)] \in [TestPhase -> Seq(Nat)]
<1> DEFINE n == Len(t.results)
           u == [s EXCEPT ![t.phase] = Append(@, m)]
           more == Append(t.metrics, m)
           r == Recorded(t, m)
<1>1. /\ t \in RunningTest /\ t.phase \in TestPhase /\ t.metrics \in Seq(Nat)
      /\ t.results \in Seq(PhaseResult) /\ n \in Nat
      /\ t.phase \in {"Baseline", "VariantA", "VariantB", "Cooldown"}
  BY LenProperties DEF TestOK, RunningTest, TestPhase
<1>2. s[t.phase] \in Seq(Nat) /\ Append(s[t.phase], m) \in Seq(Nat) /\ more \in Seq(Nat)
  BY <1>1, AppendProperties
<1>3. u \in [TestPhase -> Seq(Nat)]
  BY <1>1, <1>2
<1>4. u[t.phase] = Append(s[t.phase], m) /\ \A p \in TestPhase : p # t.phase => u[p] = s[p]
  BY <1>1
<1>5. ASSUME NEW i \in 1 .. n
      PROVE  t.results[i].phase \in TestPhase /\ t.results[i].phase # t.phase
  <2>1. t.results[i].phase = IF i = 1 THEN "Baseline"
                             ELSE IF i = 2 THEN "VariantA" ELSE "VariantB"
    BY DEF TestOK, Ordered
  <2>2. /\ t.phase = "Baseline" => n = 0
        /\ t.phase = "VariantA" => n = 1
        /\ t.phase = "VariantB" => n = 2
    BY DEF TestOK, Progress
  <2> HIDE DEF n
  <2>3. i \in Nat /\ 1 <= i /\ i <= n
    BY <1>1
  <2> QED
    BY <1>1, <2>1, <2>2, <2>3 DEF TestPhase
<1>6. /\ \A i \in 1 .. n :
            /\ t.results[i].samples = Len(s[t.results[i].phase])
            /\ t.results[i].score = Score(t.config.success_metric, s[t.results[i].phase])
      /\ \A p \in {"Baseline", "VariantA", "VariantB"} :
            (\A i \in 1 .. n : t.results[i].phase # p)
                => s[p] = IF p = t.phase THEN t.metrics ELSE <<>>
      /\ t.phase = "Cooldown" => t.metrics = <<>>
  BY DEF OwnSamples
<1>7. \A i \in 1 .. n :
            /\ t.results[i].samples = Len(u[t.results[i].phase])
            /\ t.results[i].score = Score(t.config.success_metric, u[t.results[i].phase])
  BY <1>4, <1>5, <1>6
<1>8. {"Baseline", "VariantA", "VariantB"} \subseteq TestPhase
  BY DEF TestPhase
<1>9. r.results = t.results /\ r.phase = t.phase /\ r.config = t.config /\ TestOK(r)
      /\ r.metrics = IF t.phase = "Cooldown" THEN t.metrics ELSE more
  <2>1. CASE t.phase = "Cooldown"
    BY <2>1 DEF Recorded
  <2>2. CASE t.phase # "Cooldown"
    <3>1. r = [t EXCEPT !.metrics = more]
      BY <2>2 DEF Recorded
    <3> HIDE DEF r, more
    <3>2. /\ r.results = t.results /\ r.phase = t.phase /\ r.config = t.config
          /\ r.metrics = more /\ r \in RunningTest
      BY <1>1, <1>2, <3>1 DEF RunningTest
    <3> QED
      BY <2>2, <3>2 DEF TestOK, Progress
  <2> QED BY <2>1, <2>2
<1> HIDE DEF n, u, more, r
<1>10. ASSUME NEW p \in {"Baseline", "VariantA", "VariantB"},
              \A i \in 1 .. n : t.results[i].phase # p
       PROVE  u[p] = IF p = t.phase THEN r.metrics ELSE <<>>
  <2>1. s[p] = IF p = t.phase THEN t.metrics ELSE <<>>
    BY <1>6, <1>10
  <2>2. CASE p = t.phase
    BY <1>4, <1>9, <2>1, <2>2 DEF more
  <2>3. CASE p # t.phase
    BY <1>4, <1>8, <2>1, <2>3
  <2> QED BY <2>2, <2>3
<1>11. OwnSamples(r, u)
  BY <1>6, <1>7, <1>9, <1>10 DEF OwnSamples, n
<1> QED
  BY <1>3, <1>9, <1>11 DEF u, r

\* The test that follows, if there is one, is the next of the suite, and new.
LEMMA NextTestOK ==
    ASSUME tests \in Seq(Configs), NEW i \in Nat, i <= Len(tests)
    PROVE  \/ TestAt(i) = None
           \/ /\ i < Len(tests) /\ TestAt(i).config = tests[i + 1]
              /\ TestOK(TestAt(i)) /\ OwnSamples(TestAt(i), NothingSeen)
              /\ TestAt(i).phase # "Complete"
<1>1. CASE i < Len(tests)
  <2>1. tests[i + 1] \in Configs
    <3>1. i + 1 \in 1 .. Len(tests)
      BY <1>1, LenProperties
    <3> QED BY <3>1, ElementOfSeq
  <2>2. TestAt(i) = NewTest(tests[i + 1])
    BY <1>1 DEF TestAt
  <2> QED
    BY <1>1, <2>1, <2>2, NewTestOK
<1>2. CASE ~(i < Len(tests))
  BY <1>2 DEF TestAt
<1> QED
  BY <1>1, <1>2

\* Nobody has been given a sample.
LEMMA NothingSeenTyped == NothingSeen \in [TestPhase -> Seq(Nat)]
  BY EmptySeq DEF NothingSeen

\* A suite begins without tests.
LEMMA InitOK == MCInit => SuiteInv
<1> SUFFICES ASSUME MCInit PROVE SuiteInv
  OBVIOUS
<1>1. /\ tests = <<>> /\ results = <<>> /\ current_test_idx = 0 /\ current_test = None
      /\ started = FALSE /\ seen = NothingSeen
  BY DEF MCInit, SuiteInit
<1>2. <<>> \in Seq(Configs) /\ <<>> \in Seq(TestResult) /\ Len(<<>>) = 0
  BY EmptySeq
<1>3. Len(results) = 0 /\ Len(tests) = 0 /\ ~(\E i \in 1 .. 0 : TRUE)
  BY <1>1, <1>2
<1>4. RunsInOrder
  <2>1. tests \in Seq(Configs) /\ results \in Seq(TestResult)
    BY <1>1, <1>2
  <2>2. /\ Len(results) <= Len(tests) /\ current_test_idx = Len(results)
        /\ \A i \in 1 .. Len(results) : FALSE
    BY <1>1, <1>3
  <2> QED
    BY <1>1, <2>1, <2>2 DEF RunsInOrder
<1>5. ResultsOK
  BY <1>3 DEF ResultsOK
<1>6. CurrentOK
  BY <1>1, NothingSeenTyped DEF CurrentOK
<1> QED
  BY <1>4, <1>5, <1>6 DEF SuiteInv

\* add_test: what is there stays in its place.
LEMMA AddTestOK ==
    ASSUME SuiteInv, NEW c \in Configs, MCAddTest(c)
    PROVE  SuiteInv'
<1>1. /\ tests' = Append(tests, c)
      /\ UNCHANGED <<results, current_test_idx, current_test, started, seen>>
  BY DEF MCAddTest, AddTest
<1>2. /\ tests \in Seq(Configs) /\ results \in Seq(TestResult)
      /\ Len(tests) \in Nat /\ Len(results) \in Nat /\ Len(results) <= Len(tests)
  BY LenProperties DEF SuiteInv, RunsInOrder
<1>3. /\ tests' \in Seq(Configs) /\ Len(tests') = Len(tests) + 1
      /\ \A i \in 1 .. Len(tests) : tests'[i] = tests[i]
  BY <1>1, <1>2, AppendProperties
<1>4. \A i \in 1 .. Len(results) : i \in 1 .. Len(tests)
  BY <1>2
<1>5. Len(results) < Len(tests) => Len(results) + 1 \in 1 .. Len(tests)
  BY <1>2
<1>6. RunsInOrder'
  BY <1>1, <1>2, <1>3, <1>4, <1>5 DEF SuiteInv, RunsInOrder
<1>7. ResultsOK' /\ CurrentOK'
  BY <1>1 DEF SuiteInv, ResultsOK, CurrentOK
<1> QED
  BY <1>6, <1>7 DEF SuiteInv

\* start: the first test is new.
LEMMA StartOK ==
    ASSUME SuiteInv, MCStart
    PROVE  SuiteInv'
<1>1. /\ ~started /\ started' = TRUE /\ tests # <<>> /\ current_test' = TestAt(0)
      /\ UNCHANGED <<tests, results, current_test_idx, seen>>
  BY DEF MCStart, Start
<1>2. /\ tests \in Seq(Configs) /\ results = <<>> /\ seen = NothingSeen
      /\ Len(results) = 0 /\ Len(tests) \in Nat
  BY <1>1, LenProperties, EmptySeq DEF SuiteInv, RunsInOrder, CurrentOK
<1>3. \/ current_test' = None
      \/ /\ 0 < Len(tests) /\ current_test'.config = tests[1]
         /\ TestOK(current_test') /\ OwnSamples(current_test', NothingSeen)
         /\ current_test'.phase # "Complete"
  <2>1. 0 \in Nat /\ 0 <= Len(tests) /\ 0 + 1 = 1
    BY <1>2
  <2> QED BY <1>1, <1>2, <2>1, NextTestOK
<1>4. RunsInOrder'
  BY <1>1, <1>2, <1>3 DEF SuiteInv, RunsInOrder
<1>5. ResultsOK'
  BY <1>1 DEF SuiteInv, ResultsOK
<1>6. CurrentOK'
  BY <1>1, <1>2, <1>3, NothingSeenTyped DEF CurrentOK
<1> QED
  BY <1>4, <1>5, <1>6 DEF SuiteInv

\* A step that changes the current test and keeps which one it is.
LEMMA CurrentChangesOK ==
    ASSUME SuiteInv, current_test # None,
           UNCHANGED <<tests, results, current_test_idx, started>>,
           seen' \in [TestPhase -> Seq(Nat)],
           TestOK(current_test'), OwnSamples(current_test', seen'),
           current_test'.phase # "Complete", current_test'.config = current_test.config
    PROVE  SuiteInv'
<1>1. started
  BY DEF SuiteInv, RunsInOrder
<1>2. RunsInOrder'
  BY <1>1 DEF SuiteInv, RunsInOrder
<1>3. ResultsOK'
  BY DEF SuiteInv, ResultsOK
<1>4. CurrentOK'
  BY <1>1 DEF CurrentOK
<1> QED
  BY <1>2, <1>3, <1>4 DEF SuiteInv

\* record_metrics of the suite
LEMMA RecordMetricsOK ==
    ASSUME SuiteInv, NEW m \in Samples, MCRecordMetrics(m)
    PROVE  SuiteInv'
<1>1. /\ current_test # None /\ current_test' = Recorded(current_test, m)
      /\ UNCHANGED <<tests, results, current_test_idx, started>>
      /\ seen' = [seen EXCEPT ![current_test.phase] = Append(@, m)]
  BY DEF MCRecordMetrics, RecordMetrics
<1>2. /\ m \in Nat /\ seen \in [TestPhase -> Seq(Nat)]
      /\ TestOK(current_test) /\ current_test.phase # "Complete"
      /\ OwnSamples(current_test, seen)
  BY <1>1, SamplesAssumption DEF SuiteInv, CurrentOK
<1>3. /\ TestOK(current_test') /\ current_test'.phase = current_test.phase
      /\ current_test'.config = current_test.config
      /\ OwnSamples(current_test', seen') /\ seen' \in [TestPhase -> Seq(Nat)]
  BY <1>1, <1>2, RecordedOK
<1> QED
  BY <1>1, <1>2, <1>3, CurrentChangesOK

\* The clock changes only the age of a phase.
LEMMA TimePassesOK ==
    ASSUME SuiteInv, MCTimePasses
    PROVE  SuiteInv'
<1> DEFINE age == Min({current_test.age + 1, Max({PhaseDuration, CooldownDuration})})
           t == [current_test EXCEPT !.age = age]
<1>1. /\ current_test # None /\ current_test' = t
      /\ UNCHANGED <<tests, results, current_test_idx, started, seen>>
  BY DEF MCTimePasses, TimePasses
<1>2. /\ seen \in [TestPhase -> Seq(Nat)]
      /\ TestOK(current_test) /\ current_test.phase # "Complete"
      /\ OwnSamples(current_test, seen)
  BY <1>1 DEF SuiteInv, CurrentOK
<1>3. current_test \in RunningTest
  BY <1>2 DEF TestOK
<1>4. age \in Nat
  <2>1. current_test.age + 1 \in Nat
    BY <1>3 DEF RunningTest
  <2>2. Max({PhaseDuration, CooldownDuration}) \in Nat
    BY MaxOfTwo, ABTestAssumption
  <2> QED
    BY <2>1, <2>2, MinOfTwo
<1> HIDE DEF age
<1>5. /\ t \in RunningTest /\ t.results = current_test.results /\ t.phase = current_test.phase
      /\ t.config = current_test.config /\ t.metrics = current_test.metrics
  BY <1>3, <1>4 DEF RunningTest
<1> HIDE DEF t
<1>6. TestOK(t)
  BY <1>2, <1>5 DEF TestOK, Progress
<1>7. OwnSamples(t, seen)
  BY <1>2, <1>5 DEF OwnSamples
<1>8. seen' = seen
  BY <1>1
<1> QED
  BY <1>1, <1>2, <1>5, <1>6, <1>7, <1>8, CurrentChangesOK

\* tick of the suite, while its test goes on
LEMMA TickTestOK ==
    ASSUME SuiteInv, MCSuiteTick, TickTest
    PROVE  SuiteInv'
<1>1. /\ current_test # None /\ current_test' = Ticked(current_test)
      /\ Ticked(current_test).phase # "Complete"
      /\ UNCHANGED <<tests, results, current_test_idx>>
  BY DEF TickTest
<1>2. started' = started /\ seen' = seen
  BY <1>1 DEF MCSuiteTick
<1>3. /\ seen \in [TestPhase -> Seq(Nat)]
      /\ TestOK(current_test) /\ current_test.phase # "Complete"
      /\ OwnSamples(current_test, seen)
  BY <1>1 DEF SuiteInv, CurrentOK
<1>4. /\ TestOK(current_test') /\ current_test'.config = current_test.config
      /\ OwnSamples(current_test', seen)
  BY <1>1, <1>3, TickedOK
<1> QED
  BY <1>1, <1>2, <1>3, <1>4, CurrentChangesOK

\* The best result is the first of those with the highest score.
LEMMA BestIsFirstOfHighest ==
    ASSUME NEW rs \in Seq(PhaseResult), rs # <<>>
    PROVE  /\ Best(rs) \in 1 .. Len(rs)
           /\ \A j \in 1 .. Len(rs) :
                 /\ rs[j].score <= rs[Best(rs)].score
                 /\ j < Best(rs) => rs[j].score < rs[Best(rs)].score
<1> DEFINE n == Len(rs)
           scores == [i \in 1 .. n |-> rs[i].score]
           top == {i \in DOMAIN rs : \A j \in DOMAIN rs : rs[j].score <= rs[i].score}
<1>1. n \in Nat \ {0} /\ DOMAIN rs = 1 .. n
  BY LenProperties, EmptySeq
<1>2. \A i \in 1 .. n : rs[i].score \in Int
  <2>1. \A i \in 1 .. n : rs[i] \in PhaseResult
    BY <1>1, ElementOfSeq
  <2> QED
    BY <2>1 DEF PhaseResult
<1>3. Max(Range(scores)) \in Range(scores) /\ \A x \in Range(scores) : x <= Max(Range(scores))
  <2>1. IsFiniteSet(1 .. n) /\ 1 .. n # {}
    <3> HIDE DEF n
    <3>1. n \in Int /\ 1 \in Int /\ 1 \in 1 .. n
      BY <1>1
    <3>2. IsFiniteSet(1 .. n)
      BY <3>1, FS_Interval
    <3> QED BY <3>1, <3>2
  <2>2. IsFiniteSet(Range(scores)) /\ Range(scores) # {}
    <3>1. scores \in [1 .. n -> Int]
      BY <1>2
    <3> HIDE DEF n, scores
    <3> QED BY <2>1, <3>1, FiniteRange
  <2>3. Range(scores) \in SUBSET Int
    BY <1>2 DEF Range
  <2> QED
    BY <2>2, <2>3, MaxOfIntegers
<1>4. PICK i \in 1 .. n : \A j \in 1 .. n : rs[j].score <= rs[i].score
  <2>1. PICK i \in 1 .. n : scores[i] = Max(Range(scores))
    BY <1>3 DEF Range
  <2>2. \A j \in 1 .. n : scores[j] \in Range(scores)
    BY DEF Range
  <2> QED
    BY <1>3, <2>1, <2>2
<1>5. i \in top /\ top \in SUBSET Nat /\ top # {}
  BY <1>1, <1>4
<1>6. Best(rs) \in top /\ \A j \in top : Best(rs) <= j
  BY <1>5, MinExists DEF Best
<1>7. Best(rs) \in 1 .. n /\ \A j \in 1 .. n : rs[j].score <= rs[Best(rs)].score
  BY <1>1, <1>6
<1>8. ASSUME NEW j \in 1 .. n, j < Best(rs) PROVE rs[j].score < rs[Best(rs)].score
  <2>1. j \notin top
    BY <1>1, <1>6, <1>7, <1>8
  <2>2. PICK k \in 1 .. n : ~(rs[k].score <= rs[j].score)
    BY <1>1, <2>1
  <2>3. rs[k].score <= rs[Best(rs)].score
    BY <1>7
  <2> QED
    BY <1>2, <1>7, <2>2, <2>3
<1> QED
  BY <1>7, <1>8 DEF n

\* With two results or more the phase of the best one wins.
LEMMA WinnerTyped ==
    ASSUME NEW rs \in Seq(PhaseResult)
    PROVE  DetermineWinner(rs) \in TestPhase \cup {None}
<1>1. CASE Len(rs) < 2
  BY <1>1 DEF DetermineWinner
<1>2. CASE ~(Len(rs) < 2)
  <2>1. rs # <<>>
    BY <1>2, EmptySeq
  <2>2. Best(rs) \in 1 .. Len(rs)
    BY <2>1, BestIsFirstOfHighest
  <2>3. rs[Best(rs)] \in PhaseResult
    BY <2>2, ElementOfSeq
  <2> QED
    BY <1>2, <2>3 DEF DetermineWinner, PhaseResult
<1> QED
  BY <1>1, <1>2

\* A winner other than the baseline did better than it.
LEMMA WinnerIsBetter ==
    ASSUME NEW rs \in Seq(PhaseResult), Ordered(rs),
           DetermineWinner(rs) \notin {None, "Baseline"}
    PROVE  \E w \in Range(rs) :
              /\ w.phase = DetermineWinner(rs)
              /\ \A p \in Range(rs) : IF p.phase = "Baseline" THEN w.score > p.score
                                                             ELSE w.score >= p.score
<1>1. ~(Len(rs) < 2) /\ DetermineWinner(rs) = rs[Best(rs)].phase
  BY DEF DetermineWinner
<1>2. rs # <<>> /\ Len(rs) \in Nat /\ DOMAIN rs = 1 .. Len(rs)
  BY <1>1, LenProperties, EmptySeq
<1>3. PICK b \in 1 .. Len(rs) :
          /\ b = Best(rs)
          /\ \A j \in 1 .. Len(rs) :
                rs[j].score <= rs[b].score /\ (j < b => rs[j].score < rs[b].score)
  BY <1>2, BestIsFirstOfHighest
<1>4. \A j \in 1 .. Len(rs) : rs[j].score \in Int
  <2>1. \A j \in 1 .. Len(rs) : rs[j] \in PhaseResult
    BY ElementOfSeq
  <2> QED
    BY <2>1 DEF PhaseResult
<1>5. \A j \in 1 .. Len(rs) :
          rs[j].phase = IF j = 1 THEN "Baseline" ELSE IF j = 2 THEN "VariantA" ELSE "VariantB"
  BY DEF Ordered
<1>6. b # 1 /\ \A j \in 1 .. Len(rs) : rs[j].phase = "Baseline" => j = 1
  BY <1>1, <1>3, <1>5
<1>7. \A j \in 1 .. Len(rs) :
          IF rs[j].phase = "Baseline" THEN rs[b].score > rs[j].score
                                      ELSE rs[b].score >= rs[j].score
  <2> TAKE j \in 1 .. Len(rs)
  <2>1. rs[j].phase = "Baseline" => j < b
    BY <1>2, <1>6
  <2> QED
    BY <1>3, <1>4, <2>1
<1>8. rs[b] \in Range(rs) /\ \A p \in Range(rs) : \E j \in 1 .. Len(rs) : p = rs[j]
  BY <1>2 DEF Range
<1> QED
  BY <1>1, <1>3, <1>7, <1>8

\* The result of a test that is over: as many phases as are planned, or one fewer, or none.
LEMMA FinalOK ==
    ASSUME NEW t, TestOK(t), t.phase = "Complete"
    PROVE  /\ Final(t) \in TestResult /\ Final(t).config = t.config
           /\ Ordered(Final(t).phases) /\ Len(Final(t).phases) <= Full(t.config)
           /\ Len(Final(t).phases) # 0 => Len(Final(t).phases) >= Full(t.config) - 1
           /\ Final(t).winner = DetermineWinner(Final(t).phases)
<1>1. t.config \in Configs /\ t.results \in Seq(PhaseResult)
  BY DEF TestOK, RunningTest
<1>2. DetermineWinner(t.results) \in TestPhase \cup {None}
  BY <1>1, WinnerTyped
<1>3. /\ Final(t) \in TestResult /\ Final(t).config = t.config /\ Final(t).phases = t.results
      /\ Final(t).winner = DetermineWinner(t.results)
  BY <1>1, <1>2 DEF Final, TestResult
<1> QED
  BY <1>3 DEF TestOK, Progress

\* tick of the suite that completes its test
LEMMA CompleteTestOK ==
    ASSUME SuiteInv, MCSuiteTick, CompleteTest
    PROVE  SuiteInv'
<1> DEFINE t == Ticked(current_test)
           n == Len(results)
<1>1. /\ current_test # None /\ t.phase = "Complete"
      /\ results' = Append(results, Final(t)) /\ current_test_idx' = current_test_idx + 1
      /\ current_test' = TestAt(current_test_idx + 1) /\ tests' = tests
  BY DEF CompleteTest, TestAt
<1>2. /\ TestOK(current_test) /\ current_test.phase # "Complete"
      /\ OwnSamples(current_test, seen)
      /\ tests \in Seq(Configs) /\ results \in Seq(TestResult) /\ current_test_idx = n
      /\ \A i \in 1 .. n : results[i].config = tests[i]
      /\ n < Len(tests) /\ current_test.config = tests[n + 1]
      /\ started \in BOOLEAN /\ started
  BY <1>1 DEF SuiteInv, RunsInOrder, CurrentOK
<1>3. TestOK(t) /\ t.config = current_test.config
  BY <1>2, TickedOK
<1>4. /\ Final(t) \in TestResult /\ Final(t).config = tests[n + 1]
      /\ Ordered(Final(t).phases) /\ Len(Final(t).phases) <= Full(Final(t).config)
      /\ Len(Final(t).phases) # 0 => Len(Final(t).phases) >= Full(Final(t).config) - 1
      /\ Final(t).winner = DetermineWinner(Final(t).phases)
  BY <1>1, <1>2, <1>3, FinalOK
<1> HIDE DEF t
<1>5. /\ results' \in Seq(TestResult) /\ Len(results') = n + 1
      /\ \A i \in 1 .. n : results'[i] = results[i]
      /\ results'[n + 1] = Final(t)
  BY <1>1, <1>2, <1>4, AppendProperties
<1>6. n \in Nat /\ Len(tests) \in Nat
  BY <1>2, LenProperties
<1>7. results' # results
  <2>1. Len(results') # Len(results)
    BY <1>5, <1>6
  <2> QED BY <2>1
<1>8. seen' = NothingSeen /\ started' = started
  BY <1>7 DEF MCSuiteTick
<1> HIDE DEF n
<1>9. \A i \in 1 .. n + 1 : i \in 1 .. n \/ i = n + 1
  BY <1>6
<1>10. \/ current_test' = None
       \/ /\ n + 1 < Len(tests) /\ current_test'.config = tests[n + 1 + 1]
          /\ TestOK(current_test') /\ OwnSamples(current_test', NothingSeen)
          /\ current_test'.phase # "Complete"
  <2>1. n + 1 \in Nat /\ n + 1 <= Len(tests)
    BY <1>2, <1>6
  <2> QED BY <1>1, <1>2, <2>1, NextTestOK
<1>11. RunsInOrder'
  <2>1. \A i \in 1 .. n + 1 : results'[i].config = tests[i]
    BY <1>2, <1>4, <1>5, <1>9
  <2>2. n + 1 <= Len(tests)
    BY <1>2, <1>6
  <2> QED
    BY <1>1, <1>2, <1>5, <1>8, <1>10, <2>1, <2>2 DEF RunsInOrder
<1>12. ResultsOK'
  <2>1. \A i \in 1 .. n :
            /\ Ordered(results[i].phases) /\ Len(results[i].phases) <= Full(results[i].config)
            /\ Len(results[i].phases) # 0
                   => Len(results[i].phases) >= Full(results[i].config) - 1
            /\ results[i].winner = DetermineWinner(results[i].phases)
    BY DEF SuiteInv, ResultsOK, n
  <2>2. \A i \in 1 .. n + 1 :
            /\ Ordered(results'[i].phases)
            /\ Len(results'[i].phases) <= Full(results'[i].config)
            /\ Len(results'[i].phases) # 0
                   => Len(results'[i].phases) >= Full(results'[i].config) - 1
            /\ results'[i].winner = DetermineWinner(results'[i].phases)
    BY <1>4, <1>5, <1>9, <2>1
  <2> QED
    BY <1>5, <2>2 DEF ResultsOK
<1>13. CurrentOK'
  BY <1>2, <1>8, <1>10, NothingSeenTyped DEF CurrentOK
<1> QED
  BY <1>11, <1>12, <1>13 DEF SuiteInv

\* Nothing else changes what the invariant speaks of.
LEMMA StutterOK ==
    ASSUME SuiteInv, UNCHANGED mcvars
    PROVE  SuiteInv'
BY DEF SuiteInv, RunsInOrder, ResultsOK, CurrentOK, mcvars, suiteVars

-----------------------------------------------------------------------------
(* The theorems *)

\* In every behaviour of a suite: its tests run in order, a finished test measured what
\* it planned, and a result is about its own samples (TestSuite, ABTest::advance_phase).
THEOREM SuiteInvariance == MCSpec => []SuiteInv
<1>1. ASSUME SuiteInv, [MCNext]_mcvars
      PROVE  SuiteInv'
  <2>1. ASSUME NEW c \in Configs, MCAddTest(c) PROVE SuiteInv'
    BY <1>1, <2>1, AddTestOK
  <2>2. CASE MCStart
    BY <1>1, <2>2, StartOK
  <2>3. ASSUME NEW m \in Samples, MCRecordMetrics(m) PROVE SuiteInv'
    BY <1>1, <2>3, RecordMetricsOK
  <2>4. CASE MCSuiteTick
    <3>1. CASE TickTest
      BY <1>1, <2>4, <3>1, TickTestOK
    <3>2. CASE CompleteTest
      BY <1>1, <2>4, <3>2, CompleteTestOK
    <3>3. CASE TickNothing
      <4>1. UNCHANGED mcvars
        BY <2>4, <3>3 DEF MCSuiteTick, TickNothing, mcvars, suiteVars
      <4> QED BY <1>1, <4>1, StutterOK
    <3> QED
      BY <2>4, <3>1, <3>2, <3>3 DEF MCSuiteTick, SuiteTick
  <2>5. CASE MCTimePasses
    BY <1>1, <2>5, TimePassesOK
  <2>6. CASE UNCHANGED mcvars
    BY <1>1, <2>6, StutterOK
  <2> QED
    BY <1>1, <2>1, <2>2, <2>3, <2>4, <2>5, <2>6 DEF MCNext
<1> QED
  BY InitOK, <1>1, PTL DEF MCSpec

\* Types: the suite and its current test are always in a state the code names, and a
\* completed test is never kept as the current one (TestSuite::tick, framework.rs:422).
THEOREM SuiteTypes == MCSpec => []SuiteTypeOK
<1>1. SuiteInv => SuiteTypeOK
  <2> SUFFICES ASSUME SuiteInv PROVE SuiteTypeOK
    OBVIOUS
  <2>1. /\ tests \in Seq(Configs) /\ results \in Seq(TestResult)
        /\ current_test_idx = Len(results) /\ Len(results) <= Len(tests)
        /\ current_test # None =>
               current_test \in RunningTest /\ current_test.phase # "Complete"
    BY DEF SuiteInv, RunsInOrder, CurrentOK, TestOK
  <2>2. current_test_idx \in 0 .. Len(tests)
    BY <2>1, LenProperties
  <2> QED
    BY <2>1, <2>2 DEF SuiteTypeOK
<1> QED
  BY <1>1, SuiteInvariance, PTL

\* A variant is declared the winner only if it did strictly better than the baseline and
\* at least as well as every other phase (TestResult::determine_winner, framework.rs:95).
THEOREM WinnersAreBetter == MCSpec => []WinnerBeatsBaseline
<1>1. SuiteInv => WinnerBeatsBaseline
  <2> SUFFICES ASSUME SuiteInv, NEW r \in Range(results), r.winner \notin {None, "Baseline"}
               PROVE  \E w \in Range(r.phases) :
                         /\ w.phase = r.winner
                         /\ \A p \in Range(r.phases) :
                               IF p.phase = "Baseline" THEN w.score > p.score
                                                       ELSE w.score >= p.score
    BY DEF WinnerBeatsBaseline
  <2>1. PICK k \in 1 .. Len(results) : r = results[k]
    <3>1. results \in Seq(TestResult)
      BY DEF SuiteInv, RunsInOrder
    <3> QED
      BY <3>1, LenProperties DEF Range
  <2>2. r \in TestResult
    BY <2>1, ElementOfSeq DEF SuiteInv, RunsInOrder
  <2>3. /\ r.phases \in Seq(PhaseResult) /\ Ordered(r.phases)
        /\ r.winner = DetermineWinner(r.phases)
    BY <2>1, <2>2 DEF SuiteInv, ResultsOK, TestResult
  <2> QED
    BY <2>3, WinnerIsBetter
<1> QED
  BY <1>1, SuiteInvariance, PTL

\* Results and the current test belong to the first tests in the order of adding, one
\* each, whenever tests are added: none is skipped or repeated (TestSuite::tick,
\* framework.rs:422).
THEOREM OneAfterTheOther == MCSpec => []TestsRunInOrder
<1>1. SuiteInv => TestsRunInOrder
  <2> SUFFICES ASSUME SuiteInv PROVE TestsRunInOrder
    OBVIOUS
  <2>1. results \in Seq(TestResult) /\ DOMAIN results = 1 .. Len(results)
    BY LenProperties DEF SuiteInv, RunsInOrder
  <2> QED
    BY <2>1 DEF SuiteInv, RunsInOrder, TestsRunInOrder
<1> QED
  BY <1>1, SuiteInvariance, PTL

\* However many phases record nothing, a finished test measured the first of its planned
\* phases, all but the last of them or none (ABTest::advance_phase, framework.rs:220).
THEOREM MeasuredAsPlanned == MCSpec => []OnlyTheLastMissing
<1>1. SuiteInv => OnlyTheLastMissing
  <2> SUFFICES ASSUME SuiteInv PROVE OnlyTheLastMissing
    OBVIOUS
  <2>1. results \in Seq(TestResult) /\ DOMAIN results = 1 .. Len(results)
    BY LenProperties DEF SuiteInv, RunsInOrder
  <2>2. ASSUME NEW i \in DOMAIN results
        PROVE  LET measured == results[i].phases
                   planned == Planned(results[i].config)
               IN /\ Len(measured) <= Len(planned)
                  /\ \A k \in DOMAIN measured : measured[k].phase = planned[k]
                  /\ measured # <<>> => Len(measured) >= Len(planned) - 1
    <3> DEFINE ph == results[i].phases
               c == results[i].config
               planned == Planned(c)
    <3>1. /\ ph \in Seq(PhaseResult) /\ Ordered(ph) /\ Len(ph) <= Full(c)
          /\ Len(ph) # 0 => Len(ph) >= Full(c) - 1
      <4>1. results[i] \in TestResult
        BY <2>1, <2>2, ElementOfSeq
      <4> QED
        BY <2>1, <2>2, <4>1 DEF SuiteInv, ResultsOK, TestResult
    <3>2. Len(ph) \in Nat /\ DOMAIN ph = 1 .. Len(ph) /\ (ph # <<>> => Len(ph) # 0)
      BY <3>1, LenProperties, EmptySeq
    <3>3. /\ Full(c) \in {2, 3} /\ Len(planned) = Full(c)
          /\ planned[1] = "Baseline" /\ planned[2] = "VariantA"
          /\ Full(c) = 3 => planned[3] = "VariantB"
      BY DEF Full, Planned
    <3> HIDE DEF ph, c, planned
    <3>4. ASSUME NEW k \in 1 .. Len(ph)
          PROVE  ph[k].phase = planned[k]
      <4>1. ph[k].phase = IF k = 1 THEN "Baseline"
                          ELSE IF k = 2 THEN "VariantA" ELSE "VariantB"
        BY <3>1 DEF Ordered
      <4>2. k \in {1, 2, 3} /\ (k = 3 => Full(c) = 3)
        BY <3>1, <3>2, <3>3
      <4> QED
        BY <3>3, <4>1, <4>2
    <3>5. /\ Len(ph) <= Len(planned)
          /\ \A k \in DOMAIN ph : ph[k].phase = planned[k]
          /\ ph # <<>> => Len(ph) >= Len(planned) - 1
      BY <3>1, <3>2, <3>3, <3>4
    <3> QED
      BY <3>5 DEF ph, c, planned
  <2> QED
    BY <2>2 DEF OnlyTheLastMissing
<1> QED
  BY <1>1, SuiteInvariance, PTL

\* The result of a test that completes holds the results of all its phases.
LEMMA CompletedOwnSamples ==
    ASSUME SuiteInv, CompleteTest
    PROVE  LET done == results'[Len(results')]
           IN /\ results' = Append(results, done)
              /\ \A i \in DOMAIN done.phases :
                    LET r == done.phases[i]
                    IN /\ r.samples = Len(seen[r.phase])
                       /\ r.score = Score(done.config.success_metric, seen[r.phase])
<1> DEFINE t == Ticked(current_test)
           done == results'[Len(results')]
<1>1. current_test # None /\ t.phase = "Complete" /\ results' = Append(results, Final(t))
  BY DEF CompleteTest
<1>2. /\ TestOK(current_test) /\ current_test.phase # "Complete"
      /\ OwnSamples(current_test, seen) /\ results \in Seq(TestResult)
  BY <1>1 DEF SuiteInv, RunsInOrder, CurrentOK
<1>3. TestOK(t) /\ OwnSamples(t, seen)
  BY <1>2, TickedOK
<1>4. Final(t) \in TestResult
  BY <1>1, <1>3, FinalOK
<1> HIDE DEF t
<1>5. Len(results') = Len(results) + 1 /\ results'[Len(results) + 1] = Final(t)
  BY <1>1, <1>2, <1>4, AppendProperties
<1>6. done = Final(t)
  BY <1>5
<1>7. Final(t).phases = t.results /\ Final(t).config = t.config
  BY DEF Final
<1>8. DOMAIN t.results = 1 .. Len(t.results)
  BY <1>3, LenProperties DEF TestOK, RunningTest
<1>9. \A i \in 1 .. Len(t.results) :
          /\ t.results[i].samples = Len(seen[t.results[i].phase])
          /\ t.results[i].score = Score(t.config.success_metric, seen[t.results[i].phase])
  BY <1>3 DEF OwnSamples
<1> HIDE DEF done
<1>10. \A i \in DOMAIN done.phases :
           /\ done.phases[i].samples = Len(seen[done.phases[i].phase])
           /\ done.phases[i].score
                  = Score(done.config.success_metric, seen[done.phases[i].phase])
  BY <1>6, <1>7, <1>8, <1>9
<1> QED
  BY <1>1, <1>6, <1>10 DEF done

\* When a test completes, each of its results counts the samples recorded while its
\* phase ran, all of them and no others (ABTest::record_metrics and advance_phase,
\* framework.rs:196; TestSuite::tick).
THEOREM SamplesStayWithTheirPhase == MCSpec => OwnSamplesOnly
<1> DEFINE Step == results' # results =>
              LET done == results'[Len(results')]
              IN /\ results' = Append(results, done)
                 /\ \A i \in DOMAIN done.phases :
                       LET r == done.phases[i]
                       IN /\ r.samples = Len(seen[r.phase])
                          /\ r.score = Score(done.config.success_metric, seen[r.phase])
<1>1. SuiteInv /\ [MCNext]_mcvars => [Step]_mcvars
  <2> SUFFICES ASSUME SuiteInv, MCNext, results' # results PROVE Step
    OBVIOUS
  <2>1. CompleteTest
    BY DEF MCNext, MCAddTest, AddTest, MCStart, Start, MCRecordMetrics, RecordMetrics,
           MCSuiteTick, SuiteTick, TickTest, TickNothing, suiteVars, MCTimePasses, TimePasses
  <2> QED
    BY <2>1, CompletedOwnSamples
<1> QED
  BY <1>1, SuiteInvariance, PTL DEF MCSpec, OwnSamplesOnly
===============================================================================
