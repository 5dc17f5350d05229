------------------------------- MODULE ABTestMC -------------------------------
(***************************************************************************)
(* ABTest with a bounded number of tests and samples.  The suite is        *)
(* started once, tests are added before and after; seen holds the samples  *)
(* that the current test was given in each of its phases.                  *)
(***************************************************************************)
EXTENDS ABTest

CONSTANTS
    low, mid, high,           \* parameter values
    Samples, MaxSamples,      \* sample values, samples of a phase
    MaxTests

ASSUME SamplesAssumption == Samples \subseteq Nat

VARIABLES started, seen

mcvars == <<suiteVars, started, seen>>

\* One test with a variant B, and one without.
MCConfigs ==
    {[baseline |-> mid, variant_a |-> low, variant_b |-> high,
      success_metric |-> "MaxThroughput"],
     [baseline |-> mid, variant_a |-> high, variant_b |-> None,
      success_metric |-> "MinPacketLoss"]}

NothingSeen == [p \in TestPhase |-> <<>>]

MCInit == SuiteInit /\ started = FALSE /\ seen = NothingSeen

MCAddTest(c) == Len(tests) < MaxTests /\ AddTest(c) /\ UNCHANGED <<started, seen>>

MCStart == ~started /\ Start /\ started' = TRUE /\ UNCHANGED seen

MCRecordMetrics(m) ==
    /\ RecordMetrics(m)
    /\ Len(seen[current_test.phase]) < MaxSamples
    /\ seen' = [seen EXCEPT ![current_test.phase] = Append(@, m)]
    /\ UNCHANGED started

MCSuiteTick ==
    /\ SuiteTick
    /\ seen' = IF results' = results THEN seen ELSE NothingSeen
    /\ UNCHANGED started

MCTimePasses == TimePasses /\ UNCHANGED <<started, seen>>

MCNext ==
    \/ \E c \in Configs : MCAddTest(c)
    \/ MCStart
    \/ \E m \in Samples : MCRecordMetrics(m)
    \/ MCSuiteTick
    \/ MCTimePasses

MCSpec == MCInit /\ [][MCNext]_mcvars

\* Whoever drives the suite ticks it again and again.
FairSpec == MCSpec /\ WF_mcvars(MCSuiteTick) /\ WF_mcvars(MCTimePasses)

-----------------------------------------------------------------------------

\* When a test completes, each of its results, that of its last phase included, counts
\* the samples recorded while its phase ran, all of them and no others: none of an
\* earlier phase, and none of a cooldown.  Results of earlier tests are left alone.
OwnSamplesOnly ==
    [][results' # results =>
          LET done == results'[Len(results')]
          IN /\ results' = Append(results, done)
             /\ \A i \in DOMAIN done.phases :
                   LET r == done.phases[i]
                   IN /\ r.samples = Len(seen[r.phase])
                      /\ r.score = Score(done.config.success_metric, seen[r.phase])]_mcvars

\* From some point on, no phase but the cooldown ends without a sample.
EveryPhaseMeasures ==
    <>[][/\ current_test # None /\ current_test.phase # "Cooldown"
         /\ MCSuiteTick /\ current_test' # current_test
         => current_test.metrics # <<>>]_mcvars

\* A test that is added before the last one has completed is run and completes, while
\* time passes, the suite is ticked and phases come to measure something.  (A variant
\* that records nothing is measured again after a cooldown, as often as that happens.)
\* One that is added later never starts, although TestSuite::tick is said to return
\* true when all tests are complete (framework.rs:421): the next test is taken only by
\* the tick that completes one.
TestsInTimeComplete ==
    EveryPhaseMeasures =>
        \A n \in 1 .. MaxTests :
            (current_test # None /\ Len(tests) >= n) ~> (Len(results) >= n)
===============================================================================
