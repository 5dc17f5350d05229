# A verification of ChainLightning in TLA+

ChainLightning is a user-space tunnel that bonds several WAN links. A client and
a server each read IP packets from a TUN interface, aggregate them into chunks,
spread the chunks over UDP sockets (one per link) by weight, and write what
arrives back to the TUN interface. Probes measure loss and congestion on every
link; a rate controller turns them into rates, path states and weights.

This directory models the parts of that program whose correctness depends on
order, timing and failure, checks the models with TLC and proves the central
results with TLAPS. Line numbers refer to the files under `src/`.

## The system

| Component | State | Operations | Depends on |
|---|---|---|---|
| Rate controller (`core/src/rate_controller.rs`) | per link: rate, loss accumulators of both directions, probe confidence, path state, recovery counter, time of the last probe | `record_tx`, `record_rx`, `build_probes`, `process_probe`, `check_timeouts`, `weights` | the remote's probes, the clock |
| Link scheduler (`core/src/link_scheduler.rs`) | weight per link, their total, a cursor | `schedule`, `update_link`, `set_rate_controlled_weights` | weights pushed by the statistics task |
| Chunk aggregator (`core/src/chunk_aggregator.rs`) | current chunk, next id, optimal size, link statistics | `add_packet`, `check_timeout`, `flush`, `update_link_stats` | the clock |
| Chunk receiver (`core/src/receiver.rs`) | slots by chunk id, `next_expected`, counters, announcements | `handle_announcement`, `handle_chunk`, `drain` | the clock |
| Flow classifier (`core/src/flow_classifier.rs`) | per flow: samples, mode, timer | `classify`, `update_bandwidths`, `expire_flows` | the clock |
| Statistics (`core/src/stats.rs`) | per link: counters of a window, smoothed RTT | `record_*`, `tick` | the clock |
| Configuration (`common/src/config.rs`) | the configuration, a watch channel | `update`, `set_parameter`, `reload`, `save` | a file |
| Metrics (`common/src/metrics.rs`) | counters and histograms | `record_*`, `snapshot` | none |
| Wire protocol (`common/src/protocol.rs`) | none | encode and decode | none |
| A/B testing (`testing/src/framework.rs`) | phase, samples and results of a test; the tests of a suite | `record_metrics`, `tick`, `result` | the clock |
| Client and server (`client/src/main.rs`, `server/src/main.rs`) | the tasks and channels that join the above | see below | all of the above |

The tasks of an endpoint, and the shared state they touch one lock at a time:

    TUN reader ---- aggregator ---+
                                  +--> channel(1000) --> chunk sender --> sockets
    aggregation timer (10 ms) ----+                       |   scheduler, controller
    statistics task (1 s): scheduler, aggregator, controller, scheduler
    probe sender (100 ms): controller --> sockets
    link receivers <-- sockets: controller --> channel(1000) --> TUN writer

The server differs in one respect: it learns the client's address on a link from
the datagrams it receives there, and drops chunks for links it has no address
for. Neither endpoint puts received chunks through the reassembly buffer (only
announcements reach it, and nobody sends one), and neither looks at the flow
classifier's decision.

What is hard in it: tasks that read shared state under one lock and use it under
another; weights that two writers set; links whose state depends on the order of
probes, packets and timeouts; two producers for one channel; lossy, repeating and
reordering links; arithmetic on rounded quotients and decaying accumulators.
`PROJECT.json` lists these hazards one by one, with the properties that cover
them.

What makes each part correct:

- rate controller: rates stay between floor and ceiling and change by capped
  steps; a failed link returns only after the answers it owes, and does return;
  phantom loss takes no link down;
- link scheduler: links get shares in proportion to their weights, links without
  weight get nothing;
- the two together: a silent link is without weight one round after its timeout,
  and weights follow the path states;
- aggregator and data path: no packet is lost or repeated inside an endpoint, ids
  follow the order of reading, sizes are bounded, and nothing waits for ever;
- flow classifier: a flow keeps its mode for the monitoring duration, and
  sustained demand decides its mode;
- A/B testing: tests and phases run in order whatever is recorded, a test added in
  time is run, a result counts its own samples, a winner is better than the
  baseline;
- receiver: each reception is forwarded at most once, a missing chunk is given up
  only after the timeout, a chunk that arrived is dropped only when it must be, the
  statistics add up;
- wire protocol: what a socket takes decodes to the packet it was made from;
- statistics and metrics: every byte is in one window, every event in one
  snapshot, whenever they are closed; a smoothed RTT stays among its samples;
- configuration: what is stored and announced is valid, and a call that overlaps
  no other does what it promises.

## The modules

**`RateController`** models `core/src/rate_controller.rs`. Its one variable,
`links`, is the vector of `RateState`. Every public operation that changes state
is an action: `RecordTx`, `RecordRx`, `BuildProbes`, `ProcessProbe`,
`CheckTimeouts`; `Tick` is the clock behind `last_probe_recv.elapsed()`. The five
numbered steps of `process_probe` are `ProbeConfidence` and `AllLinksPhantomLoss`
(read before any change), `RateAfterProbe`, `Accumulate`, `Scale` (together
`Measured`), and the path state: `JudgeLoss`, `StartRecovery`,
`ContinueRecovery`. Abstractions:

- fractions and the confidence are percentages, and rounding is downwards, as a
  cast to `u64` rounds;
- rates are bytes per probe interval, so the interval cancels; every data packet
  carries `PacketBytes` bytes, so the byte counters are multiples of the packet
  counters;
- the code keeps totals and two pairs of snapshots; the model keeps the four
  differences, which is all the code computes from them;
- silence is counted up to one tick beyond the timeout; the RTT estimate, which
  nothing reads but the log, is left out.

**`PathHealth`** is what the rate controller promises about a link, without
measurements: a link is `Up`, `Down` or `Proving`; it may fail at any time;
after a failure it owes a number of answers, fewer if it failed under load, and
comes back with the last. `RateController` implements it (`ImplementsPathHealth`)
under the mapping of `PathOf`, `OwedBy` and `DownWhileLoaded`.

**`LinkScheduler`** models `core/src/link_scheduler.rs`: `Schedule` with
`weighted_select` (`Select`, in closed form: the first link whose cumulated weight
exceeds the position), `SetRateControlledWeights`, and `AdjustWeights`, the reset
to the configured weights that `update_link` triggers. Byte counts, measured
bandwidth and RTT influence nothing the scheduler decides.

**`Endpoint`** composes the two as `client/src/main.rs` does. A step is what a
task does under one lock. The statistics task's round is `UpdateLinks`,
`ReadWeights` (`check_timeouts` and `weights` under the controller's lock) and
`PushWeights` (the scheduler's lock again); the chunk sender's is `ScheduleChunk`
and `SendChunk`; `SendProbes`, `ReceiveChunk` and `ReceiveProbe` are the other
tasks. A clock tick is the statistics task's second: a link becomes silent at the
start of a round, and one that in the code passes the timeout between or during
rounds, and keeps its weight until the next, does so here when that next round
begins. Whether `update_link` resets
the weights in a given round is left open: the code compares two one-second
intervals of different clocks.

**`ReassemblyBuffer`** models `core/src/receiver.rs`. `Drain` is `drain_ready`
with `prune_old_slots`, its loop in closed form: the slots up to the first that
`Blocks`. Ages are in ticks and stop where they no longer matter.

**`ChunkAggregator`** models `core/src/chunk_aggregator.rs`. A packet is the number
of its reading and a size. **`Tunnel`** extends it with the tasks and channels of
the data path: `ReadPacket`, `ReaderSends`, `TimerFires` and `FlusherSends` (each
task takes a chunk under the lock and waits for room without it), `SendChunk`,
the wire (`Lose`, `Receive`, which may leave a copy), `ReceiverSends`,
`WriteChunk`, and the server's `LearnAddress`.

**`FlowClassifier`** models `core/src/flow_classifier.rs`. A flow's state is its
mode, the bytes of its samples by age, the age of `exceeded_threshold_at` and of
`last_seen`; `Classify`, `UpdateBandwidths` and `ExpireFlows` are the operations
and `Tick` the clock. The ratio to the fastest link is compared by
multiplication. In the program only `classify` is called, for every packet the
TUN reader reads, and what it returns is discarded.

**`ABTest`** models `testing/src/framework.rs`, the test and the suite around it:
`AddTest`, `Start`, `RecordMetrics`, and the suite's `tick` as `TickTest`,
`CompleteTest` and `TickNothing`. `AdvancePhase` and `NextPhase` are the phases,
`Score` what `summarize_metrics` and `calculate_score` make of the one metric a
test optimises. Nothing in the repository drives a suite; the run takes the
protocol from the comments: tests are added, the suite is started once, samples
and ticks come at any time.

**`Wire`** models `common/src/protocol.rs`: `Layout` gives the fields of each kind
of packet with their widths, `Encode` and `Decode` go through them byte by byte.
A number that does not fit its field loses its high digits, as the casts do. The
JSON text of a `StatsPacket` is opaque.

**`LinkStats`** models `core/src/stats.rs` (windows and smoothed RTTs), **`Metrics`**
`common/src/metrics.rs` (counters that a snapshot takes under one lock and stores
under another). **`Telemetry`** composes the two with `Wire` as the tasks of
`client/src/main.rs` do: a task does something (`ForwardPacket`, `WritePacket`,
`SendChunk`, `ReceiveData`) and its `todo` list holds what it still has to record,
one lock at a time (`RecordStats`, `RecordMetrics`, and the `Acknowledge` that ends
a receiver's list); `ReceiveAck` records an RTT at once. The statistics task's
round is `CloseWindows`, `TakeMetrics` and `StoreMetrics`; what it does in between
for scheduler and aggregator is in `Endpoint` and `Tunnel`. `SendKeepalive` and
`SendProbe` are the tasks that send and record nothing.

**`Configuration`** models `common/src/config.rs`. A call is a sequence of steps of
its caller: `SetParameter`, `Update` and `Reload` validate what they will store
(`Valid` is `Config::validate`, `Accepts` the table of `set_parameter`), `Store`
writes it under the lock, `Announce` sends it afterwards; `Save` copies the
configuration, `Truncate` and `Write` are the two halves of `fs::write`. A file is a
configuration or `Torn`. `Edit` is an operator's edit of the file, `Crash` and
`Start` end the program and start it from the file, if it `Loads`.

The modules ending in `MC` bound the inputs for TLC and add the history variables
some properties need. The modules ending in `_proofs` hold the proofs about the
module they are named after (`Endpoint_proofs` those about `RateController` too,
`Services_proofs` those about `Wire`, `LinkStats`, `Metrics`, `Telemetry` and
`Configuration`), and `Aggregates` the lemmas about minima, maxima, finite ranges,
sums and recursive functions that they share. Operators marked "Mutant of" are variants of a definition as a
plausible error would have it. Each property has one that violates it, which shows
that the property depends on the code it is about.

## What is checked

| Run | Configuration | Checks |
|---|---|---|
| `both` | `RateController_both` | types, rate bounds, capped steps, refinement of `PathHealth`; liveness: a link that is heard from is in service again and again; one link, idle or under heavy load, traffic and loss in both directions |
| `two` | `RateController_two` | `CrossLinkVeto`; refinement of `PathHealth` where no answers are needed after the first (`ProbeRecoveryCount` 0); two links |
| `fair` | `LinkScheduler_fair` | `FairShares`, `WeightlessNotChosen`; three links, every vector of weights up to 2 |
| `failover` | `Endpoint_failover` | `SilentLinkHasNoWeight`; liveness: `WeightsFollowHealth` |
| `lossy` | `ReassemblyBuffer_lossy` | every reception forwarded at most once, statistics, skips only after the timeout, arrived chunks dropped only by age or as the smallest ids of an overflow |
| `path` | `Tunnel_path` | no loss inside, ids, sizes; liveness: `PacketsArriveOrAreLost` |
| `modes` | `FlowClassifier_modes` | `ModeHolds`: no flow flaps; `DemandDecides`: sustained demand decides the mode; two flows, link bandwidths that change |
| `suite` | `ABTest_suite` | order of tests and phases, own samples of every result of a completed test, the winner; liveness: a test added before the last one has completed completes (`TestsInTimeComplete`); up to three tests, phases with a sample or none |
| `link` | `Telemetry_link` | every datagram decodes, windows and snapshots add up, smoothed RTTs; liveness: what was sent is reported |
| `config` | `Configuration_calls` | stored and announced configurations are valid, and `AloneMeansDone`; two callers, edits of the file, crashes and restarts |

Two runs show where the code departs from what the repository says of it:

| Run | Statement | What the code does |
|---|---|---|
| `stale` | "old problems fade" (README.md:178) | loss is recomputed only above `loss_min_packets`; on an idle link the last value stands and takes the link Down after every recovery |
| `down` | "DOWN link should get 0 chunks" (download_simulation.rs:493) | once a second the weights are the configured ones until the controller's are pushed |

More were met while modelling and have no run of their own, because a run would
show a single line of code:

- protocol.rs:241 says that an acknowledgement's time is echoed back; client and
  server echo 0 (client/src/main.rs:264, server/src/main.rs:256), and ignore such
  acknowledgements (client/src/main.rs:275), so no RTT is ever measured and the
  aggregator's optimal size stays where it began, at the minimum;
- stats.rs:93 takes acknowledged bytes off the bytes in flight; nothing calls it,
  and `pending_bytes` only grows;
- metrics.rs:258 and :274 count the bytes of packets and of the chunks they travel
  in into the same `bytes_up`;
- metrics.rs:455 takes the median latency from samples in the order of arrival;
- rate_controller.rs:376 says "No traffic - gentle growth towards max"; the
  branch is unreachable, because the rate sent falls back to the rate allowed
  (line 353);
- README.md:114 says that small flows stay on a single link; `schedule_single_link`
  is weighted round robin, and the classifier's mode is discarded;
- flow_classifier.rs:172 says "sustained above multi_link_threshold"; the timer
  starts at the lower threshold, and one packet above the higher one suffices;
- framework.rs:43 has a minimum number of samples for significance that nothing
  compares with;
- receiver.rs:128 says "Forward in order with brief wait"; a chunk that arrives after
  its gap has timed out is forwarded behind chunks with greater ids, and line 157 moves
  `next_expected` back to the id after it (`ArrivedAreNotOvertaken`, a
  theorem, says that there is no other way out of order);
- framework.rs:421 says "Tick and potentially advance tests, returns true when all tests
  complete"; the next test is taken only by the tick that completes one (lines
  423-434), so a test added after the last has completed never runs, and `tick`
  returns false from then on;
- framework.rs:243 goes back to variant A as long as there is one result, so a variant
  A that records nothing is measured again after another cooldown, for ever if it
  never records anything.

### Bounds

Rates, packet counts and accumulators are a handful of units, chosen so that the
cases differ. In `both` one packet of 5 bytes against a ceiling of 6 is a load of
83%, above `HeavyThreshold`, so that the confidence falls to `MinConfidence`; in `two`
one of 3 against 4 is one of 75%, just below a threshold of 77, so that the confidence
is 28, on the slope and still below the 30 that count as loaded. In both, a link fails
under load, by its loss or by silence, and comes back on the fast track, another fails
without and comes back on the slow one, and the accelerated decay after a load finds
something to decay. Two unreported packets reach the loss thresholds, the floor and the
ceiling are two or three capped steps apart, `ProbeRecoveryCount` is 3 in `both`, 0 in
`two`, and 1 where recovery is not the subject. In `both` and `stale` the
accumulators lose a half instead of a sixteenth, so that decay shows within the
bound `MaxAcc`; the proofs hold for every divisor. A probe of the model reports
at most what was sent; it may report less, which is a loss, or later. `two` and
`failover` leave out received data or the second direction, which `both` has.
In `failover` a link is silent as soon as a second has passed without a probe
(`DownTimeout` 0); `down` allows two.

The cursor of the scheduler wraps at 16 instead of 2^64, so that wrapping occurs,
and runs cover more than two full cycles of the largest weights. The buffer of
`lossy` holds two chunks of three ids and four receptions, so that gaps,
duplicates, overflow, timeouts and pruning combine. The tunnel has three packets,
channels of one chunk, two links, and bandwidth-delay products that move the
optimal size between the minimum and the maximum, both ways; the network repeats
the first chunk until something is written.

In `modes` a link carries two or four units per tick and a flow up to four, so
that each flow can be below, between and above the thresholds of either link;
the window is two ticks, the monitoring duration two, the expiry three. In
`suite` phases take two ticks and cooldowns one, and a phase records one sample or
none, 0 among them, which throughputs ignore; a second one would change the mean and
nothing in the order of things, and the proofs hold for any number.

In `link` a byte has eight values instead of 256 and UDP takes 79 of them instead of
65,507, so that the longest chunk that can be sent and one whose length wraps its
two-byte field are both small (`MaxDatagram`, `ByteBase`; `DatagramAssumption` keeps
their order as it is). Two events of any kind happen, enough for a recorder before,
between and after the two locks of a snapshot; windows of two or three ticks leave
a remainder of the longest datagram, which the history variable `rounded` counts; chunks arrive on one link and
acknowledgements on the other, because receivers of different links share nothing
but the collectors; the history holds one snapshot, so that it overflows.
Keepalives and probes are sent before anything else: they change nothing. In
`config` two callers have five configurations, two of them valid and three not,
each for a reason of its own, and values that make the two thresholds disagree, that have the wrong type
or that belong to no known parameter; a third caller would add overlaps of
the same kinds.

### Fairness

- `both`, `stale`: the remote's probes keep arriving on a link. Both
  endpoints' probe senders run on an interval timer and skip no link, whatever
  its state; the properties speak of links that are heard from, so nothing is
  assumed about a link that has failed.
- `failover`: the statistics task takes its steps and its interval fires; both are
  an unconditional loop in the code. Nothing is assumed of chunks or probes.
- `path`: every task of the data path is an unconditional loop over a timer or a
  channel; mpsc channels serve their senders in turn; datagrams do not stay in
  flight for ever (they arrive or are lost, and either satisfies the property).
- `suite`: whoever drives a suite ticks it again and again, and time passes,
  as the comment on `tick` has it. Nothing is assumed of samples; the property speaks
  of suites whose phases, from some point on, record something.
- `link`: the tasks go on recording, the statistics task's interval fires, and time
  passes. Nothing is assumed of what arrives or is sent.

## What is proved

For every number of links, packets, chunks, callers and tests, and every
configuration that satisfies the assumptions:

| Module | Theorems | For what |
|---|---|---|
| `Endpoint_proofs` | `TypeCorrect`, `RatesStayInBounds`, `RecoveryIsCounted`, `RateStepsAreCapped`, `PhantomLossVetoesDown`, `Refinement` | the rate controller, and that it implements `PathHealth` |
| | `EndpointTypeCorrect`, `FailoverCompletes` | failover across the tasks |
| `LinkScheduler_proofs` | `SchedulerTypes`, `SharesAreFair`, `WeightlessLinksRest` | the choice of links |
| `ReassemblyBuffer_proofs` | `BufferTypeCorrect`, `ForwardedAtMostOnce`, `GivesUpOnlyOverdue`, `ArrivedAreForwarded`, `ArrivedAreNotOvertaken`, `StatisticsAreComplete` | the receiver |
| `Tunnel_proofs` | `TunnelTypeCorrect`, `ReadingOrderIsKept`, `ChunksStayBounded`, `NothingIsLostInside` | the data path |
| `FlowClassifier_proofs` | `ClassifierTypes`, `FlowsDoNotFlap`, `SustainedDemandDecides` | the classifier |
| `Services_proofs` | `DatagramsDecode`, `TelemetryTypes`, `NoByteOutsideAWindow`, `NothingOutsideASnapshot`, `RttsAreMeasured` | the wire protocol, and the collectors under the endpoint's tasks |
| | `ConfigTypeCorrect`, `StoredStaysValid`, `CallsAloneAreDone` | the configuration manager |
| `ABTest_proofs` | `OneAfterTheOther`, `MeasuredAsPlanned`, `SamplesStayWithTheirPhase`, `SuiteTypes`, `WinnersAreBetter` | suites of tests |

**Rate controller.** The inductive invariant is `IInv`, the conjunction of its
type invariant, `RateInBounds` and `RecoveryCountAgrees`. None is inductive
alone. That rates stay natural numbers needs the floor, which needs the type of
the rate; that losses fit a byte needs both accumulators to stay natural, which
is what decay by `acc - acc \div LossDecay` guarantees; and the refinement needs
the recovery counter, because a `Probing` link's debt is computed from it. The
proof follows the code: a lemma for each helper (`RateChangeBounded`,
`LossFitsByte`, `DecayedNat`, `ConfidenceIsPercentage`), one for each step of
`process_probe` (`MeasuredOK`, `JudgeLossOK`, `StartRecoveryOK`,
`ContinueRecoveryOK`, `ProcessProbeOK`), and one case for each action.
`CrossLinkVeto` and `RateStepCapped` are action properties and follow from `IInv`
with a case for each action; `Refinement` maps `ProcessProbe` to an answer, a
failure or a stutter, `CheckTimeouts` to a failure of a set of links, and
everything else to a stutter.

**Link scheduler.** A link owns a stretch of the cycle as long as its weight; the
stretches do not overlap and leave nothing out (`Stretches`), so a position belongs
to exactly one link with a weight. `Given(l, n)` is the number of the first `n`
positions of the cursor that link `l` owns. `SharesInv` says that the turns since
the weights were set are those between two positions,
`Given(l, cursor + 1) - Given(l, cursor + 1 - Turns)`, and that the cursor has not
wrapped since (`Turns <= cursor`), so that those positions are consecutive. Any number of consecutive positions holds a link's weight once for
every full cycle, and at most once more: `FairShares`.

**Endpoint.** `SilentLinkHasNoWeight` says something of one stage of the statistics
task; `StageInv` says for each stage where the weights of the silent links are: in
the task's hands before the push, in the scheduler after it. With `IInv` of the
controller and the types it is inductive, because only the clock makes a link
silent, and it ticks when the task's round is over.

**Reassembly buffer.** `BufferInv` adds to the types that the buffer is finite,
without which it has no first slot, and the victims of an overflow cannot be counted.
The action properties follow from it and from
the closed form of `Drain`; `StatisticsAddUp` compares, over a whole drain, the
chunks taken from the buffer with the ids that were skipped.

**Data path.** `InOrder` relates the finished chunks that wait for the chunk sender,
the chunk that collects and the number of packets read: ids are below the
collecting chunk's, and packets follow them. Three facts about it carry the proof:
fewer waiting chunks are as good (the steps of the channel), a chunk may be
finished, and a packet may be added. Each outcome of `AddPacket` is a combination
of the last two. `NoneLostInside` needs more than order: that no packet is in two
chunks, or twice in one. `AccountInv` says that the packets read are those the
chunk sender took together with those of the chunks held inside, and that the
numbers agree too, which leaves no room for a repetition; and that a finished chunk
is in one place (`OwnPlaces`), for otherwise the sender could take it twice.

**Flow classifier.** One timer, `exceeded_threshold_at`, serves both directions.
`FlowInv` ties it to the history variables: it is never older than the mode
(`exceeded <= held`), which gives `ModeHolds`, and while a flow is in one mode it is
at least as old as the run of packets that asks for the other, which gives
`DemandDecides`. Neither half is inductive without the other: a change of mode
resets the timer, and a run that goes on across it must not need it any more.

**Collectors.** `TelemetryInv` is the type invariant of collectors, tasks and history
variables, with one fact about the tasks: only the chunk sender has bytes sent on a
link still to record (`OnlySenderRecords`), because only it sends chunks. Typing the
tasks' lists needs the codec: what is decoded from any datagram has fields that are
numbers and a payload that is a sequence of bytes (`DecodedTyped`), since a field
lies within its header (`FieldsFit`) and a body within its datagram. `WindowsAddUp`
and `MetricsAddUp` are equations between sums; a step of a task takes the first
element of its `todo` list, a snapshot appends to `history`, and the oldest leaves
it, so each step moves one term from one side to another (`OverTail`, `OverAppend`,
`AllOwedChanges`). The window's quotient is rounded; its remainder is accounted for
by `n = (n \div e) * e + n % e`. `MetricsAddUp` holds between the two locks of a
snapshot too, because `TakeCounters` resets what it takes. `RttInv` adds to
`RttWithinSamples` that a link without samples has the average 0, which tells
`record_rtt` its first sample; the average of a number and a sample lies between the
two whatever `Alpha` is (`SmoothedBetween`).

**Wire protocol.** `DatagramsDecode` follows from the round trip of the codec
(`RoundTrip`): a packet each of whose numbers fits its field (`Writable`) is what its
encoding decodes to. A number that fits survives its digits (`WrittenAndRead`): the
digits behind a place are the remainder by it, so one digit more is the remainder by
one more factor (`RemainderOfMore`). A field is read where it was written because both
sides come to the same place by adding up the widths before it: the encoder puts the
fields one behind the other (`PartsOfJoined`), the decoder adds the widths of the
layout (`WidthsAdd`). No layout names a field twice, so its name finds it
(`FoundByName`). What remains is that the endpoints' packets are writable
(`SentDecodes`), and there the chunk's packet is the one that need not be: a payload's
length is cast to two bytes. A datagram that the socket takes is shorter than
`20 + Place[2]`, its header is as long as `DataHeader` says, and so the length of the
payload in it fits.

**Configuration.** `ConfigInv` adds to the types and to `StoredAlwaysValid` that what a
call has in hand is valid (`PendingValid`): it was validated against a
configuration that others may have replaced since, and is stored whole. A program
that is down has no calls. For `AloneMeansDone` the history variable's meaning is
added: the caller that is undisturbed is the only one, and what it has stored is
still there.

**A/B tests.** `SuiteInv` says how many results a test has in each of its phases
(`Progress`), that they are the first of the plan (`Ordered`), and that the samples
seen in a phase are those of its result, or those being recorded (`OwnSamples`).
The tick that completes a test adds the result of its last phase and stores them all;
`OwnSamples` holds of them still (`CompletedOwnSamples`), which is `OwnSamplesOnly`.
`OneAfterTheOther` says that no test is skipped or repeated. That tests run to their end
is liveness, and checked in `suite`; one added too late is not run.
For the winner it adds that a result holds the scores of its phases and the winner
chosen from them, and follows the code's choice through: the phases that are as
good as the best are those with the greatest score, `DetermineWinner` takes the
first of them, and the baseline is measured first. So a winner other than the
baseline has a score that the baseline does not reach, whatever the metric.

**Sums.** Total weights, turns, waiting packets and means are sums of the community
modules' `SumFunctionOnSet`, a fold. The library's induction theorems take an
operator as a parameter, so `Aggregates` proves induction over the subsets of a
finite set in a form that speaks of a set of good subsets (`SubsetInduction`), from
the well-foundedness of the naturals; with it, that the recursive function behind
the fold exists (`SumsExist`), and what the proofs use: any term may be taken out,
equal terms give equal sums, one changed term changes the sum by its difference.
Sums over the elements of a sequence (`Over`) follow: what an element appended or
taken from the front adds or takes away. In the same way a function defined by
recursion on the naturals, such as `Place`, exists (`RecursionExists`), and so does the
one behind `FlattenSeq`, which gives what a joined sequence holds at each place
(`PartsOfJoined`).

The assumptions are stated in the modules: `RatesAssumption` (the floor is at
most half of the ceiling, which the fast recovery path needs, because it assigns
half of the ceiling without clamping), `ConfigAssumption` and `TapaAssumption`
(ranges of the configured values; the idle threshold is below the heavy one),
`LinksAssumption` of the scheduler and `WeightsAssumption` of the endpoint (links are
numbered from 0, weights are numbers), `ReceiverAssumption`,
`AggregatorAssumption` and `ChannelAssumption` (sizes and capacities; there is a
link), `ClassifierAssumption` (the lower threshold is below the higher, as
`Config::validate` demands, and samples outlive the window), `ConfigurationAssumption`
and `ABTestAssumption`, `WireAssumption`, `NoPacketAssumption` (a body that was cut
short is told from one that was not), `StatsAssumption` (the weight of a sample is
a percentage as `Config::validate` demands, a window lasts a tick at least),
`MetricsAssumption` and `DatagramAssumption` (link numbers fit a byte, payloads and
datagrams are sequences of bytes, times and the fields of probes fit their types, and
no datagram is so long that its length would not fit its field); `BoundsAssumption`,
`SizesAssumption`, `PathAssumption`, `SamplesAssumption` and `EventsAssumption` give the
inputs and bounds of the MC modules their types, and say that no chunk is the value that
stands for none. TLC evaluates them in the runs.

Three properties are proved and belong to no run. `RecoveryCountAgrees` is a fact about
the recovery counter; what the counter decides is in `ImplementsPathHealth`, which two
runs check. `EndpointTypeOK` adds to the types of its parts, checked in `both` and
`fair`, the stages of two tasks. `NoneOvertaken` says that a drain leaves behind no
arrived chunk with a smaller id than one it forwards.

Only model-checked: liveness (`RecoversAgainAndAgain`, `WeightsFollowHealth`,
`PacketsArriveOrAreLost`, `SentIsReported`, `TestsInTimeComplete`), which is out of the prover's reach. Of the
codec, the round trip of packets that the endpoints never send, announcements and
`StatsPacket`s, is not stated by a property.

## What is not modelled

- The tiered fill of the scheduler, which nothing calls, and its synchronisation
  delay, which only multi-link mode computes.
- Of the statistics `record_ack`, which nothing calls, and the list of the last
  hundred samples, which nothing reads. Of the metrics the recorders nothing calls,
  percentiles, jitter, summaries and the process's CPU and memory.
- Of the codec the hash of `FlowId` and the JSON text of a `StatsPacket`, which
  nobody sends.
- Of the A/B framework the weighted score, the confidence and the recommendation;
  test scenarios and reports, which are tables and text.
- The TUN device, constant tables, the log.
- Keepalives beyond their encoding: they keep NAT mappings alive, and matter here
  only in that any datagram teaches the server an address (`LearnAddress`).
- Blocking inside a lock: sockets and the TUN device are non-blocking.

## Plan

Done: the modules above, their runs, and the proofs in the table. Left:

1. An abstract specification of the receiver (chunks forwarded in order up to what
   was given up) and of the classifier's modes, with refinements.
2. `AckPacket`'s round trip as the comments describe it, should the endpoints come
   to echo times.
