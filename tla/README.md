# TLA+ models of the monitoring scripts

Most of these modules model `src/scripts/block_timing_collector.py`. That tool
correlates a node's consensus phases, per-module execution time and block data
into one JSONL line per committed height. Other modules model the scripts
around it:
* `consensus_debug_monitor.py`, a second monitor;
* `debug_gas_data.py`, which checks where a block's gas figures come from;
* `upgrade_height_calculator.py`, which computes an upgrade height.

## The system

The collector runs two threads against one node. They share one dictionary.

* **Consensus thread**: `monitor_consensus_state`, lines 503-520. Every 50 ms
  it fetches `/consensus_state` and feeds it to the `ConsensusStateTracker`
  (lines 23-105). The tracker times the phases propose, prevote, precommit,
  commit and unknown of the height it is following. It returns a record for a
  height only when it first sees the *next* height. The thread stores that
  record in `block_data_buffer[height]` (line 515).
* **Main thread**: `monitor_blocks`, lines 522-574. Every 500 ms it fetches
  `/status`. The first answer is the baseline (lines 550-552). After that, for
  every height above `last_height` it runs `collect_block_data` (lines
  388-501). That call does four things:
  * it fetches the block (and returns `{}` when the fetch fails);
  * it computes the block time from `last_block_time`;
  * it scrapes `/metrics` and turns the cumulative counters into deltas with
    `MetricsDeltaCalculator` (lines 108-174);
  * it pops the buffered phase record of the height.

  The line is then written (lines 558-561), and `last_height` advances to the
  status height (line 566) whether or not every height was written.

Python dict operations are atomic under the GIL. So the insert of line 515 and
the check-and-pop of lines 477-478 are single steps. One iteration of
`collect_block_data` is one step as well: its only shared access is the pop.

## Modules

| Module | Models | State and actions |
|---|---|---|
| `PhaseTracker` | `ConsensusStateTracker` (lines 23-105) | The five tracker fields. `parse_consensus_state` is `Observe`, whose four disjuncts are the four branches of the code: `NewBlock` (lines 62-71, which return *before* line 83), `FirstBlock` (72-75), `PhaseChange` (76-84) and `SamePhase` (83-84). `_finalize_block_timing` is `Finalize`, built on `Closed` (close the open phase, lines 90-93) and `SumPhases` (line 95). Python's `None` is a sentinel: `NoHeight`, `NoPhase` or `NoTime`. |
| `MetricsDelta` | `MetricsDeltaCalculator` (lines 108-174) | `previous_metrics`. `CalculateDeltas` covers four things: the first call only stores the baseline; a module missing from the baseline counts from 0 (`PrevValue`, `.get(module, 0)`); a negative delta is dropped; the baseline is replaced. `parse_prometheus_metrics` is abstracted to its result: a snapshot that maps each (blocker, module) series to a reading or `Absent`. |
| `Collector` | `BlockTimingCollector`, both threads and the node | See below. |
| `MCCollector` | — | Model values for TLC: one module, steps {1, 2}. |
| `OutputLog` | the promise of spec sections 3 and 6 | An abstract log. `Commit` adds a height. `Write(h)` appends a committed height above the last one written. `Collector` implements it. |
| `ExpositionScrape` | metrics path of `collect_block_data` (lines 114-174, 451-455) | The node's cumulative counters, how Go prints each one (shortest `'g'`, with an exponent from `ExpDigits` digits on), the regex reading of line 125, and `MetricsDelta` on the readings. |
| `GasResolution` | gas section of `analyze_block_txs` (lines 216-253) and `debug_gas_data.py` (lines 10-88) | One `/block_results` answer in `Init`, and one `Analyze` step. A gas field is abstracted to what the code tells apart: absent, `"0"`, unparsable, or a number. `AddTx` is one pass of the try block of lines 234-240, and `TxSums` is the loop, a recursive function over the number of passes. Both scripts' `if`/`elif` chains are `IF` chains, not `CASE`: their guards overlap, and TLA+'s `CASE` would pick any true arm where the code takes the first. |
| `DebugMonitor` | `CosmosAdvancedMonitor` of `consensus_debug_monitor.py` | `Start` is the connectivity test (lines 462-476). `Iterate` is one loop pass: `monitor_once` with every fetch able to fail, the deques with `maxlen`, and the profile check of lines 501-502. `Finish` is the end of the loop. `NodeCommit` is the node. |
| `UpgradeHeight` | `upgrade_height_calculator.py` | A few hours of UTC in half hours, with one change to daylight time and one back. `ParseDatetimeInput` uses fold=0. `CalculateTargetBlockHeight` works on wall clocks, as Python does for two datetimes with the same tzinfo. `Run` is the whole script. |
| `CollectorProofs`, `TrackerTimeProofs`, `RefinementProofs`, `ExecutionProofs`, `RecordsProofs`, `DebugMonitorProofs`, `GasResolutionProofs` | — | TLAPS proofs (see Proofs). |

In `Collector` the node is the environment. It is not code of this
repository, and it is modelled only as far as the collector can observe it:
* `NodeStep` moves through rounds and steps;
* `NodeCommit` commits the next height, with a header time equal to the clock
  and strictly increasing, and adds up to `MaxWork` to each module's counter;
* `NodeRestart` clears the counters;
* `Tick` advances the shared clock.

The collector's actions are:
* `ConsensusPoll`: one iteration of lines 507-520. A failed fetch is a
  stutter; otherwise `Observe` runs, plus the insert of line 515.
* `MonitorStatus`: lines 541-556. A failed status fetch, the baseline, and the
  entry into the loop.
* `CollectBlock`: one pass of the loop of line 555. `Collected` is a whole
  `collect_block_data` call that returns a line: `BlockTime`, the deltas, the
  pop and the write. `Skipped` is a failed block fetch. `EndIteration` covers
  line 566.

History variables (`produced`, `observed_for`, `work`, `recorded`,
`baseline`, ...) are read only by properties.

## Runs

The collector runs use `MCCollector` with heights 1..3 (the collector starts at height
1), and clock ≤ 2. That is enough for every interleaving of interest:
* a height finalized before, or after, the main thread collects it;
* a catch-up loop over two heights;
* a failed fetch followed by a successful one;
* a restart between two scrapes.

| Run | Expect | Shows |
|---|---|---|
| `collector` | pass | With failing fetches, one restart and round 1, the checks are `TypeOK`, `IInv`, `PhaseRecordsConserved`, `RecordsInv`, `ConsensusTimeNeverOverstated`, `ExecutionAccounted`, `ExecutionInv` and `TimeInv`. `PhaseRecordsConserved` says every record produced sits in exactly one place, the buffer or its own height's line, and never in another height's line. `ExecutionAccounted` says the deltas written never exceed the work done, and with no restart they equal it minus what is still pending. `RecordsInv` and `ExecutionInv` are the inductive invariants behind the two (see Proofs). This run has about 1.6 M states and takes about 1 minute. |
| `collector_reliable` | pass | With reliable fetches, six properties. `OutputGapFree`: the output heights are baseline+1, baseline+2, ... `OutputPosition`, its inductive invariant: the next height to collect is the baseline plus the number of lines plus one. `OutputInOrder`: lines are written in strictly increasing height order, each height above the start and below the next height to collect. `RecordFinalizedOnce`, an action property: once a record exists for a height, no step replaces it. `EveryCommittedHeightCollected` is a liveness property. `ImplementsOutputLog`: `Spec` implements `OutputLog` under the mapping `committed <- chain`, `written <- the heights of out`. About 310 k states, 2 minutes. |
| `phase_time_lost` | violation | `PhaseTimeFullyAccounted`: the consensus total can be below the time the tracker spent on the height, because `last_state` survives the height change (line 71). |
| `gap_on_fetch_failure` | violation | `OutputGapFree`: a failed `/block` fetch drops the height for good (lines 399 and 566). |
| `buffer_leak` | violation | `NoOrphanedPhaseRecord`: a record finalized after its height was collected stays in the buffer forever. |

The other scripts have runs of their own:

| Run | Module, bounds | Expect | Shows |
|---|---|---|---|
| `debug_monitor` | `MCDebugMonitor`: heights 1..4, 5 iterations, deque maxlen 2, capture at 2 | pass | `TypeOK`. `MonitorInv`: `last_block_time` is the header time of `last_block_height`, and header times increase with height. `StatsWindow`: the block-time deque holds exactly the block times of the last maxlen results, oldest first, whatever fetches fail. About 850 k states, 80 s. |
| `monitor_block_time` | same | violation | `BlockTimesBetweenSamples`: after the first new block, every block time is measured from the baseline. `monitor_once` returns at line 360 before the update of lines 369-370. |
| `profile_repeated` | same | violation | `ProfileCapturedOnce`: the profile is captured again on every later iteration whose fetch fails, because the check of line 501 runs whether or not the counter moved. |
| `exponent_reading` | `MCExposition`: one series, counters ≤ 12, exponent notation from 10^1 | violation | `DeltasMatchCounters`: once a counter is printed as `1.1e+01` it is read as its mantissa. The delta goes negative, it is dropped as a reset, and the execution time written no longer adds up. |
| `gas_resolution` | `GasResolution`: gas figures ≤ 1, at most 2 transaction results | pass | `TypeOK`. `DebugMatchesCollector`: the debug script's recommendation names the source the collector really used. |
| `gas_debug_crash` | same | violation | `DebugAlwaysRecommends`: for an empty block whose top-level `gas_used` is `"0"`, line 85 reads an unbound `total_gas_used` and raises `NameError`. |
| `upgrade_height_dst` | `MCUpgradeHeight`: 13 half hours with a change to daylight time at instant 14 and back at 18; heights {-1, 100}; block times {0, 2, 7} | violation | `TargetHeightAtTargetTime`: the script subtracts wall clocks (line 31). Across the change to daylight time it counts 3 hours where 2 elapse, so the upgrade comes an hour late. |

In `PROJECT.json`, a hazard records one further divergence that no run
checks: the first line's block time of 0 (line 431), which the spec
defines as a header difference.

The gas and calculator models follow one input through one step, after
which the script exits or moves on. Their cfgs therefore say
`CHECK_DEADLOCK FALSE`. `DebugMonitor` says the same because `run()` returns.
The bounds reach every branch of the code:
* gas figures 0, 1, absent, `"0"` and unparsable, with 0, 1 and 2
  transaction results;
* a calculator target in the skipped hour and in the repeated hour, and on
  both sides of the current time;
* a debug monitor deque that overflows (maxlen 2, up to 3 new blocks), with
  the capture counter reached and then held by a failed fetch.

Every property of a passing run has a mutant of the code that TLC catches;
they are listed in `PROJECT.json`. The findings behind the violations
are in `PROJECT.json` too.

**Fairness.** The collector's two threads loop forever, with a sleep and no exit other than
the duration limit, which is not modelled. So `ConsensusPoll`,
`MonitorStatus` and `CollectBlock` are weakly fair. The node is not: it may
stop committing. Liveness holds only in `collector_reliable`. With failing
fetches, a status poll may fail forever.
The debug monitor has no liveness property, and its `Spec` has no
fairness. Its loop runs for a fixed duration (line 482), so it ends
because the clock is bounded, whatever the monitor does.

## Proofs (TLAPS)

Each theorem is proved for all values of the constants that satisfy
`ConstantsAssumption`.

* `CollectorProofs!TypeCorrect`: `Spec => []TypeOK`.
  * It goes through `IInvInvariant`: `Spec => []IInv`.
  * `TypeOK` alone is not inductive. The block time `header - last_block_time`
    is a natural number only because of three facts:
    * `last_block_time` is the header time of a height below the one being
      collected (`LastBlockTimeBelow`);
    * header times grow with the height (`HeadersMonotone`);
    * no recorded instant lies in the future (`TimesNotInFuture`).

    These also make the phase durations natural. They need the loop bounds
    of `HeightsInRange`.
  * There is one lemma per action. Each one has a step per conjunct that the
    action can disturb. The helpers have typing lemmas of their own
    (`ClosedType`, `FinalizeType`, `CalculateDeltasType`, `ObserveTracker`).
* `TrackerTimeProofs!ConsensusTimeBounded`:
  `Spec => []ConsensusTimeNeverOverstated`.
  * The strengthening is `TimeInv`, which is `IInv` plus `TrackerTimeBound`.
  * `TrackerTimeBound` says the durations of the current height, with the open
    phase closed now, sum to at most `clock - first_seen`.
  * It holds because each phase entry is one interval between two snapshots of
    this height, and those intervals are disjoint. `PhaseChange` replaces the
    open phase's entry with an interval that ends now (`PhaseChangeSum`), and
    `Tick` only lengthens the open interval (`ClosedTick`).
  * `TimeInv` was checked by TLC before it was proved.

* `RefinementProofs!OutputInOrderInvariant`: `Spec => []OutputInOrder`.
  * The strengthening is `RInv`, which is `IInv` plus `OutputInOrder`.
  * `IInv` is needed for the bounds of the loop: a height collected lies above
    `last_height`, at most the status height, and at most `chain`
    (`CollectBlockPosition`).
  * The line that `Collected` appends is for `loop_height`
    (`CollectedAppends`). That is the height `NextToCollect` names, and
    it is above every height already written. Afterwards `NextToCollect`
    is one more.
  * `EndIteration` moves `last_height` to the status height, and
    `MonitorStatus` keeps `NextToCollect` in place.
* `RefinementProofs!Refinement`: `Spec => ImplementsOutputLog`.
  * The initial states map to `LogInit`.
  * Under `RInv` every step maps onto the abstract spec (`StepRefines`):
    * `NodeCommit` maps to `Commit`;
    * `Collected` maps to `Write(loop_height)`, whose guard holds by
      `OutputInOrder` and `CollectBlockPosition`;
    * every other action leaves `chain` and `out` alone, so it is a stutter.

* `DebugMonitorProofs!MonitorInvariant`, `TypeCorrect` and
  `StatsWindowInvariant`: `Spec => []MonitorInv`, `[]TypeOK` and
  `[]StatsWindow` for the debug monitor.
  * `TypeOK` needs `MonitorInv`. A pushed block time
    `header_time[chain] - last_block_time` is a natural number only because
    `last_block_time` is the header time of a height at most `chain`, and
    header times increase with the height.
  * Lemmas about the deque operator `Push` (a `deque` with `maxlen`) give
    its length and its contents. Appending to a full deque drops the oldest
    element (`PushType`, `PushContents`).
  * `StatsWindow` follows, one new-block poll at a time. The deque after a
    push is the old window shifted by one with the new block time at the
    end.
* `ExecutionProofs!ExecutionInvInvariant` and
  `ExecutionAccountedInvariant`: `Spec => [](IInv /\ ExecutionInv)` and
  `Spec => []ExecutionAccounted`.
  * The strengthening is `ExecutionInv`, checked by the `collector` run;
    the first theorem states it, the second follows from it.
  * `recorded <= work` is not inductive by itself. After a restart, a
    scrape adds `cur - prev` when it is not negative. That stays within
    `work` only because the deltas written plus the pending difference
    `Pending(s)` never exceed `work`, and `ExecutionInv` states exactly
    that. It also states that nothing is counted before the baseline
    scrape.
  * `DeltaValue` gives what `calculate_deltas` yields for one series.
    `DeltaAccounting` is the arithmetic of one scrape.
* `RecordsProofs!RecordsInvInvariant` and
  `PhaseRecordsConservedInvariant`: `Spec => [](IInv /\ RecordsInv)` and
  `Spec => []PhaseRecordsConserved`.
  * The strengthening is `RecordsInv`, checked by the `collector` run;
    the first theorem states it, the second follows from it.
  * The tracker's height is at most `chain + 1`, and records exist only for
    heights below it. So the record the consensus thread emits is the first
    one for its height, and no line of that height carries a record yet.
  * A collection pops the buffered record, if any, into the line of its
    height. If there is none, the XOR of `PhaseRecordsConserved` already
    puts the record in an earlier line.
* `RefinementProofs!OutputPositionInvariant` and
  `OutputGapFreeInvariant`: under `~FetchCanFail`,
  `Spec => [](RInv /\ OutputPosition)` and `Spec => []OutputGapFree`.
  * The hypothesis is the one `collector_reliable` makes. The violation
    run `gap_on_fetch_failure` shows the result fails without it.
  * The strengthening is `OutputPosition`, with `RInv` for the loop bounds.
  * Without a failed fetch, every iteration writes the line of
    `NextToCollect`, and `NextToCollect` advances by one.
* `RecordsProofs!RecordFinalizedOnceHolds`: `Spec => RecordFinalizedOnce`,
  an action property. It is proved from `[](IInv /\ RecordsInv)`. The only
  write to `produced` is for the height being timed, and by `RecordsInv`
  that height has no record yet (`RecordsStable`).
* `TrackerTimeProofs!TimeInvInvariant`: `Spec => []TimeInv` itself.
* `GasResolutionProofs!DebugMatchesCollectorInvariant`:
  `Spec => []DebugMatchesCollector`, for every bound on gas figures and
  transactions.
  * The strengthening `GasInv` adds only that the answer is a `Results`.
  * The proof never looks inside `TxSums`. Both scripts test the same sum,
    so `AdviceMatchesAnalysis` compares only the branch conditions of
    `analyze_block_txs` and `check_gas_location`, one case per
    recommendation.
  * Writing the code's `if`/`elif` chains faithfully as `IF` chains is
    what makes the branches exclusive.

Every strengthening was checked by TLC on its run before it was proved.

Only model-checked:
* the liveness property `EveryCommittedHeightCollected`,
  because TLAPS cannot reason about `ENABLED` and fairness;
* `GasResolution`'s `TypeOK`. It says every gas figure written is a
  natural number, which needs what the loop `TxSums` computes. That is
  induction over the transaction list, and the installed provers cannot
  instantiate the library's induction theorems.
* `UpgradeHeight`, whose only property is violated.
* `ExpositionScrape`, whose only property, `DeltasMatchCounters`, is violated.

## Not modelled

* `LogParser`, and the ABCI and transaction-count parts of
  `collect_block_data`. They read a log file and do regex parsing of text.
* `TransactionAnalyzer` beyond its gas section, for the same reason. One
  hazard there stays open: a `txs_results` of `null` makes the loop of
  line 256 raise `TypeError`.
* The duration limit of the collector, and all printing.
* A restart of the collector. Each run writes a new file named after its
  start time (line 365), and nothing else persists, so a restart is a new
  run with nothing to recover.
* In `consensus_debug_monitor.py`: `parse_cometbft_logs` (it only counts
  and prints), `print_statistics`, and the exit on `KeyboardInterrupt`.
* `analyze_block_timing.py`: offline statistics over the collector's file.
* `update_consensus.py`: a text rewrite of `config.toml`.
* The benchmark converters: text formatting only.
* In the calculator, the printed "time until upgrade" (lines 88-94), and
  block times that are not whole seconds.
