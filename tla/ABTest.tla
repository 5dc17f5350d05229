-------------------------------- MODULE ABTest --------------------------------
(***************************************************************************)
(* The A/B testing framework (testing/src/framework.rs): a suite runs its  *)
(* tests one after the other, and a test measures its baseline and its     *)
(* variants in turn, with a cooldown between them.                         *)
(*                                                                         *)
(* Time is in ticks.  A sample is the one number a test's success metric   *)
(* looks at, in hundredths of its unit; scores are in hundredths, rounded  *)
(* down.  The durations are the same for all tests, as in the standard     *)
(* tests.  The weighted score, confidence and recommendation are left out. *)
(***************************************************************************)
EXTENDS Integers, Sequences, FiniteSetsExt

CONSTANTS
    Values,               \* the parameter values
    Configs,              \* the tests that may be added
    PhaseDuration, CooldownDuration,
    None                  \* no value, no test, no winner

SuccessMetric == {"MaxThroughput", "MinLatencyP50", "MinLatencyP99", "MinPacketLoss"}

TestConfig == [baseline : Values, variant_a : Values, variant_b : Values \cup {None},
               success_metric : SuccessMetric]

ASSUME ABTestAssumption ==
    /\ None \notin Values
    /\ Configs \subseteq TestConfig
    /\ PhaseDuration \in Nat /\ CooldownDuration \in Nat

VARIABLES
    tests, results,       \* of the suite
    current_test_idx, current_test

suiteVars == <<tests, results, current_test_idx, current_test>>

TestPhase == {"Baseline", "VariantA", "VariantB", "Cooldown", "Complete"}

PhaseResult == [phase : TestPhase, value : Values, samples : Nat \ {0}, score : Int]

TestResult == [config : Configs, phases : Seq(PhaseResult), winner : TestPhase \cup {None}]

RunningTest == [config : Configs, phase : TestPhase, age : Nat,
                metrics : Seq(Nat), results : Seq(PhaseResult)]

NewTest(c) == [config |-> c, phase |-> "Baseline", age |-> 0,
               metrics |-> <<>>, results |-> <<>>]

CurrentParameterValue(t) ==
    CASE t.phase = "VariantA" -> t.config.variant_a
      [] t.phase = "VariantB" /\ t.config.variant_b # None -> t.config.variant_b
      [] OTHER -> t.config.baseline

\* record_metrics of a test
Recorded(t, m) ==
    IF t.phase \in {"Cooldown", "Complete"} THEN t ELSE [t EXCEPT !.metrics = Append(@, m)]

\* The mean of the samples with the given indices.
Mean(ms, indices) ==
    IF indices = {} THEN 0 ELSE SumFunctionOnSet(ms, indices) \div Cardinality(indices)

\* 1000 / x, in hundredths
Reciprocal(x) == IF x = 0 THEN 0 ELSE 10000000 \div x

\* Throughputs and latencies of 0 are no measurement, and are left out of the mean.
Score(metric, ms) ==
    LET positive == {i \in DOMAIN ms : ms[i] > 0}
    IN CASE metric = "MaxThroughput" -> Mean(ms, positive)
         [] metric = "MinLatencyP50" -> Reciprocal(Mean(ms, positive))
         [] metric = "MinLatencyP99" -> Reciprocal(Max(Range(ms)))
         [] metric = "MinPacketLoss" -> 100 - Mean(ms, DOMAIN ms)

ResultOf(t) == [phase |-> t.phase, value |-> CurrentParameterValue(t),
                samples |-> Len(t.metrics), score |-> Score(t.config.success_metric, t.metrics)]

\* Mutant of NextPhase: a cooldown without a result yet leads to variant A as well.
NextPhaseAtMost(t, n) ==
    CASE t.phase = "Baseline" -> "Cooldown"
      [] t.phase = "VariantA" /\ t.config.variant_b # None -> "Cooldown"
      [] t.phase = "Cooldown" /\ n <= 1 -> "VariantA"
      [] t.phase = "Cooldown" /\ n = 2 -> "VariantB"
      [] OTHER -> "Complete"

\* The phase that follows when n phases have a result.
NextPhase(t, n) ==
    CASE t.phase = "Baseline" -> "Cooldown"
      [] t.phase = "VariantA" /\ t.config.variant_b # None -> "Cooldown"
      [] t.phase = "Cooldown" /\ n = 1 -> "VariantA"
      [] t.phase = "Cooldown" /\ n = 2 -> "VariantB"
      [] OTHER -> "Complete"

\* Mutant of Measured: a phase without samples has a result too.
MeasuredAlways(t) == IF t.phase = "Cooldown" THEN t.results ELSE Append(t.results, ResultOf(t))

Measured(t) ==
    IF t.phase = "Cooldown" \/ t.metrics = <<>> THEN t.results
    ELSE Append(t.results, ResultOf(t))

\* Mutant of AdvancePhase: the samples stay for the next phase.
AdvancePhaseKeeping(t) ==
    [t EXCEPT !.results = Measured(t), !.age = 0, !.phase = NextPhase(t, Len(Measured(t)))]

AdvancePhase(t) ==
    [t EXCEPT !.results = Measured(t), !.age = 0, !.metrics = <<>>,
              !.phase = NextPhase(t, Len(Measured(t)))]

DurationOf(t) == IF t.phase = "Cooldown" THEN CooldownDuration ELSE PhaseDuration

\* tick of a test
Ticked(t) == IF t.age >= DurationOf(t) THEN AdvancePhase(t) ELSE t

\* Mutant of Best: of equal scores the last wins.
BestLast(rs) == Max({i \in DOMAIN rs : \A j \in DOMAIN rs : rs[j].score <= rs[i].score})

\* Of equal scores the first wins.
Best(rs) == Min({i \in DOMAIN rs : \A j \in DOMAIN rs : rs[j].score <= rs[i].score})

DetermineWinner(rs) == IF Len(rs) < 2 THEN None ELSE rs[Best(rs)].phase

\* result
Final(t) == [config |-> t.config, phases |-> t.results, winner |-> DetermineWinner(t.results)]

\* Mutant of TestAt: after the first test, one too few.
TestAtRepeating(i) == IF i < Len(tests) THEN NewTest(tests[Max({i, 1})]) ELSE None

\* Mutant of TestAt: the last test is not taken for one that is left.
TestAtBeforeLast(i) == IF i + 1 < Len(tests) THEN NewTest(tests[i + 1]) ELSE None

\* The test with index i, counted from zero.
TestAt(i) == IF i < Len(tests) THEN NewTest(tests[i + 1]) ELSE None

-----------------------------------------------------------------------------

SuiteInit ==
    /\ tests = <<>> /\ results = <<>>
    /\ current_test_idx = 0 /\ current_test = None

AddTest(c) ==
    /\ tests' = Append(tests, c)
    /\ UNCHANGED <<results, current_test_idx, current_test>>

Start ==
    /\ tests # <<>>
    /\ current_test' = TestAt(0)
    /\ UNCHANGED <<tests, results, current_test_idx>>

RecordMetrics(m) ==
    /\ current_test # None
    /\ current_test' = Recorded(current_test, m)
    /\ UNCHANGED <<tests, results, current_test_idx>>

\* tick of the suite, while its test goes on
TickTest ==
    /\ current_test # None
    /\ Ticked(current_test).phase # "Complete"
    /\ current_test' = Ticked(current_test)
    /\ UNCHANGED <<tests, results, current_test_idx>>

\* tick of the suite that completes its test
CompleteTest ==
    /\ current_test # None
    /\ Ticked(current_test).phase = "Complete"
    /\ results' = Append(results, Final(Ticked(current_test)))
    /\ current_test_idx' = current_test_idx + 1
    /\ current_test' = TestAt(current_test_idx')
    /\ UNCHANGED tests

\* tick of the suite without a test
TickNothing == current_test = None /\ UNCHANGED suiteVars

SuiteTick == TickTest \/ CompleteTest \/ TickNothing

\* The clock; beyond both durations the age of a phase makes no difference.
TimePasses ==
    /\ current_test # None
    /\ current_test' = [current_test EXCEPT !.age = Min({@ + 1, Max({PhaseDuration, CooldownDuration})})]
    /\ UNCHANGED <<tests, results, current_test_idx>>

SuiteNext ==
    \/ \E c \in Configs : AddTest(c)
    \/ Start
    \/ \E m \in Nat : RecordMetrics(m)
    \/ SuiteTick
    \/ TimePasses

-----------------------------------------------------------------------------
(* Properties *)

\* Types; a suite never keeps a completed test as its current one.
SuiteTypeOK ==
    /\ tests \in Seq(Configs)
    /\ results \in Seq(TestResult)
    /\ current_test_idx \in 0 .. Len(tests)
    /\ current_test \in RunningTest \cup {None}
    /\ current_test # None => current_test.phase # "Complete"

\* Whenever tests are added, results and the current test belong to the first tests
\* in the order of adding, one each: none is skipped or repeated (TestSuite::tick).
\* That a test runs at all is not said: one added after the last has completed does not.
TestsRunInOrder ==
    /\ Len(results) = current_test_idx
    /\ \A i \in DOMAIN results : results[i].config = tests[i]
    /\ current_test # None => current_test.config = tests[current_test_idx + 1]

Planned(c) == IF c.variant_b = None THEN <<"Baseline", "VariantA">>
                                    ELSE <<"Baseline", "VariantA", "VariantB">>

\* A finished test has measured what it planned, in order, however many of its
\* phases recorded nothing: only the last variant may be missing, or everything.
\* advance_phase derives the phase after a cooldown from the number of results.
OnlyTheLastMissing ==
    \A i \in DOMAIN results :
        LET measured == results[i].phases
            planned == Planned(results[i].config)
        IN /\ Len(measured) <= Len(planned)
           /\ \A k \in DOMAIN measured : measured[k].phase = planned[k]
           /\ measured # <<>> => Len(measured) >= Len(planned) - 1

\* A variant is declared the winner only if it did strictly better than the
\* baseline and at least as well as every other measured value.
WinnerBeatsBaseline ==
    \A r \in Range(results) : r.winner \notin {None, "Baseline"} =>
        \E w \in Range(r.phases) :
            /\ w.phase = r.winner
            /\ \A p \in Range(r.phases) :
                  IF p.phase = "Baseline" THEN w.score > p.score ELSE w.score >= p.score
=============================================================================
