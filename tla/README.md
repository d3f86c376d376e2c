# A TLA+ model of the seda-bus benchmark

This directory holds the specifications, the model-checking configurations and
the machine-checked proofs kept beside `seda-bus-compare`: a benchmark that
runs one workload against seven ports of a SEDA message bus (Go, Rust, C++,
C#, Java, TypeScript, Python), tabulates throughput and latency, and draws the
charts.

What can be wrong with a benchmark is that a number does not mean what its
reader thinks it means. The rows are produced by multi-threaded code written
seven times, which reads counters without locks, trusts a shutdown's return
value, ignores or retries refused publishes, sizes arrays from one read and
fills them from another. The rows then pass through pipes, files that outlive
the run that wrote them, and scripts that may stop at any line. Those are the
questions asked here, from the consumer's first step to the last chart.

Source paths below are relative to the repository's root, line numbers to
`PROJECT.json`, whose `map` names for every definition the lines it models.

## 1. Inventory

### 1.1 Components

| Component | State it keeps | Operations | What makes it correct |
|---|---|---|---|
| Firehose trial, shared channel (`run_shared` / `runShared`: configurations `seq`, `par`) | pre-built envelopes per producer, one counter, one sample array, what shutdown returned | start producers, publish, consume, join, shutdown, read the counter, percentiles, row | no index past the array, no sample lost or overwritten, a drained row accounts for everything, the trial always ends with a row or for a known reason |
| Firehose trial, independent channels (`run_independent_channels`: configuration `chan`) | a channel, a counter and an array per producer | the same, and a loop (or several) over the counters at the end | the same, with unsynchronised consumers, and the several reads of a counter agreeing |
| Capacity window (`run_capacity_window`; calibration and sweep) | the pool of each producer, tick start, deadline, published and delivered counters, closing depth | batch, publish with a blocking timeout, sleep out the tick, stop, join, read depth, shutdown, row | the rate limiter limits, a calibration is not throttled, `total` and `delivered` agree in a drained row, a stall surfaces |
| What a row promises (`bench/WORKLOAD.md`, "Output") | - | - | an abstract specification the two above implement |
| The bus itself | queue of each channel, running consumers | publish, dispatch, shutdown | external: seven libraries outside this repository; only the contract the harness relies on is modelled |
| Capacity curve and `main` | the trial that is next, the curve's `max_throughput_eps`, rows not yet printed, output buffer | 3 `seq`, 3 `par`, 3 `chan`, then for capacity concurrency 1 and 8: 2 calibrations and 6 sweep points; fail or be killed | targets from the larger calibration of the same curve; no finished row lost but those held back; status 0 means every row is there |
| Pool sizing and pacing arithmetic | - | envelopes per producer and per tick; floors, caps, rounding | no empty pool, the cap on the sum of the pools, pools that outlast the pacing |
| Latency statistics | - | sort, percentile index | index in range, also with no sample |
| Output rows | - | a JSON line per row | the row says what the counters said |
| `scripts/aggregate.py` | rows read, summaries, the two CSV files | load, warn, group, average, write, print | each row averaged once and with its own trials, invalid rows reported, CSV files never half written, headings true |
| `scripts/plot_charts.py` | three chart files | draw throughput, latency, capacity curve | complete charts of one summary, or a failure |
| `scripts/build_and_run.sh` | a raw file per language | build an image, run it into `tee`, next language | status 0 means that all files are complete and of this run |
| `setup.sh` | sibling clones | clone what is not there | - |
| `scripts/count_loc.sh` | - | count lines | pure I/O |
| Dockerfiles, build files | - | - | packaging |

### 1.2 How they interact

The main thread of a benchmark program creates a bus, registers one channel or
one per producer, starts `P` producer threads (goroutines, tasks on one event
loop in TypeScript), and joins them. The bus calls the consumer, a closure of
the benchmark, from worker threads of its own; consumer and main thread share
the counter(s) and sample array(s). After the join the main thread calls the
bus's shutdown, which either returns true with the bus idle or gives up after
60 s with consumers possibly still running, and then reads the counters and
arrays **without a lock**. The trial ends in a row or in an exception that ends
the program. `main` prints the row at once or holds it back until its curve is
over, and what it prints goes through the runtime's buffer and a pipe to `tee`,
which `build_and_run.sh` started on a truncated raw file. `aggregate.py` reads
every raw file there is, of whatever age, and writes two CSV files;
`plot_charts.py` reads these and writes three charts. The three scripts share
nothing but the files and, when chained with `&&` as `RESULTS.md` shows, an exit
status.

### 1.3 The hard behaviours

They are listed, each at its line, under `hazards` in `PROJECT.json`. The main
ones: interleavings of consumers between taking a slot, storing and counting;
the stores of a consumer racing the main thread after an undrained shutdown;
several reads of one moving counter; a remainder of `TOTAL / producers` that
three places must all give to producer 0; publishes that time out, are
ignored, counted or retried for ever; the limiter's tick start read before a
batch that may block; deadlines read per publish or per batch; a stalled bus,
against which every wait of the harness must be bounded; trials without a
single sample; a program that dies with rows unprinted or in its buffer; a script
that stops half way and leaves files of several runs, some of them partial, to
scripts that read all of them.

## 2. Modules

```
SedaBus            contract of the bus (operators)
   |
   +-- Firehose ---------------+            +---- CapacityWindow
   |      ^   \                 \          /        ^    ^
   |      |    FirehoseProofs    DeliveryLedger     |    CapacityWindowProofs
   |      |      ^               (abstract)         |
   |      |    FirehoseRowProofs                    |
   |   MCFirehose                               MCCapacityWindow
   |      |                                         |
   |   FirehosePorts                            CapacityPorts

Sizing             arithmetic of pools, ticks, rounding (operators)
   |
   +-- BenchMain ------ ProgramRun (abstract) ...... BuildScript
   |      ^    \                                         |
   |   MCBenchMain  BenchMainProofs                  Pipeline --- PipelineProofs
   |      |                                          |   |  ^
   |   BenchPorts                                    |   |  MCPipeline
   +-- Aggregate ------------------------------------+   PlotCharts
          ^    \
       MCAggregate  AggregateProofs

ListFacts          lemmas about sums and concatenations
   +-- AggregateProofs, PipelineProofs
```

The seams are contracts. A trial keeps `DeliveryLedger`; `BenchMain` takes from
it that a trial ends with a row or with the program. A program's output file
keeps `ProgramRun`, which `BenchMain` is shown to implement; `BuildScript` takes
from it what a program that ends or dies leaves in a raw file. `Pipeline`
composes `BuildScript` (EXTENDS), `Aggregate` and `PlotCharts` (INSTANCE): the
three share the variables `raw` and `csv`, the files.

### SedaBus

Three operators: publish is accepted while the channel has room (`HasRoom`), a
consumer call may start while the channel's concurrency and the bus's workers
allow it (`CanDispatch`), a shutdown that reports true saw nothing waiting and
nothing running (`Idle`). Order of delivery, speed, and whether an envelope is
delivered at all are left open. The bus is external: this is what the calls in
`bench/` assume, nothing is claimed about the libraries.

### DeliveryLedger

The abstract specification of one trial, in terms of envelopes accepted and
consumed and of a verdict. A *valid* row (`drained` true) accounts for all that
was accepted and nothing is consumed after it; only a trial that gave up while
accepted envelopes were unconsumed may end *invalid* or without any row
(*lost*). A trial to which nothing was accepted may be lost too: the percentiles
of nothing fail in most ports.

### Firehose and FirehosePorts

`Firehose` is one trial of either layout. The seven languages run the same
protocol with different code at a few places; a *profile* records these, and
the initial state chooses one of the profiles in `Ports`. `FirehosePorts` holds
the fourteen profiles (shared and chan of each language). The profiles are part
of the model and are read off the source like everything else; a profile of one
more language, or a repaired one, is one more record.

| Model | Code |
|---|---|
| `main`, `StartProducer`, `JoinProducers` | the start loop and the join (`bench/python/bench.py:262-287`, and its six counterparts) |
| `producer`, `next`, `Publish`, `FinishProducer` | the producer closure; `RoomFor` is publish's result |
| `stage[e]` | where envelope `e` is: in the producer's list, refused, queued, between two steps of its consumer, delivered |
| `Dispatch`, `ClaimSlot`, `WriteClaimed` | a consumer that takes its slot under a lock or by an atomic fetch-and-add and stores afterwards |
| `Dispatch`, `ReadIndex`, `StoreSample`, `ReadCount`, `BumpCount` | the unsynchronised consumers of Go's and C#'s chan trial: every read and write of the shared counter is a step |
| `Dispatch`, `TurnConsume` | TypeScript: one turn of the event loop |
| `ShutdownDrained`, `ShutdownTimesOut` | the bounded shutdown, by its result |
| `poll`, `acc`, `PollCount`, `CopyOverruns` | the reads of the counters after the shutdown, one step each, in the port's own order (`polls`) |
| `StatsRaise`, `TeardownFaults`, `ReportRow` | percentiles of no sample; C++ locals destroyed before the bus; the row |

Abstracted: envelope contents, the latency values (a sample is the envelope it
came from), clocks, the settle pause, the bus's batch size. A refused publish
(5 s timeout, full channel) is possible whenever the channel is full. Java's
`gracefulShutdown`, which has a bound of its own, is the same two actions. The
reads of counters after a shutdown that gave up are atomic word reads; C++'s
and Rust's are locked or atomic, the others are aligned words.

### CapacityWindow and CapacityPorts

One timed window of the capacity curve, for calibrations (`paced` FALSE) and
sweeps (TRUE). Time is a counter that may advance between any two steps, so a
step may take arbitrarily long; it stops at `Horizon`, after which no guard
depends on it (a sleep that began inside the window is over by then).

| Model | Code |
|---|---|
| `pc`, `BeginBatch`, `FinishProducer` | the outer loop's condition (`bench/go/main.go:404` ff. and its counterparts) |
| `TakeEnvelope`, `PublishAccepted`, `PublishTimesOut` | the inner loop; `i` is the position in the pool, `n` in the batch |
| `EndBatch`, `Pause`, `Wake` | leaving on an empty batch, the sleep for the tick's remainder and how far it may fall short |
| `Dispatch`, `FirstStep`, `SecondStep` | the consumer's two steps: the sample appended under a lock, then the counter (Go, C++, Python), or a slot claimed by the counter, then the sample stored (Rust, C#, Java) |
| `Dispatch`, `TurnConsume` | TypeScript: both in one turn of the event loop |
| `CloseWindow` | join, elapsed time, the depth of the queue |
| `ShutdownDrained` ... `ReportRow` | as in `Firehose` |
| `ReadBack`, `unread`, `seen` | `delivered` and the samples read after the shutdown, in the port's order (`first`) |
| `SliceTorn` | Go: the slice header read while a consumer replaces it, a data race which may end the process |
| `Slots` | the length of a claiming port's array |

The publish timeout (30 s) is longer than every window (2 s and 4 s), so a
publish that gives up does so after the deadline: that is `PublishTimesOut`'s
guard. Abstracted: Go's calibration reads the clock with `After`, a strict
comparison, the others with `<` or `>=`; both are "the deadline has passed".

A sleep lasts at least what was asked for in five ports. C#'s
`Thread.Sleep(remaining)` (`Program.cs:328`) sleeps the whole milliseconds of a
`TimeSpan`, so it is up to 1 ms short; TypeScript's `setTimeout` (`bench.mjs:229`)
drops the fraction too and counts from the last whole millisecond, up to 2 ms short.
The profile field `pause` says so, the constant `Slack` is how much of a tick may be
missing, and `Pause` is what is left of it at least. (Java rounds the *elapsed* time
down, so its sleeps are longer.) A sample is not told from another one: `samples`
counts them, and `hollow` counts the claimed slots without a sample that a read of
the array includes. Python's two steps are under one lock, which the main thread
does not take, so it sees them apart all the same. Sorting the samples takes no step
of its own: it works on what was read. C# gives its sweep array 4096 slots more than
`Slots`. Rust's outer loop has no condition on the pool; it leaves on an empty batch
(`exhausted`). Python's producers each store the number of their publishes at the
end, where the model counts at the publish; `published` is the sum, read after the
join only.

### Sizing and BenchPorts

`Sizing` is the arithmetic of a window, on whole rates and load fractions
counted in halves: `CalibrationPool`, `SweepPool` (ceiling of 1.5 windows of the
producer's rate, floor, cap on the sum) and `SweepPerTick` (nearest, ties to even
in Python and C#). `TicksPerWindow` is the number of ticks that can begin in a
4 s window: 200, or 211 in C# and 223 in TypeScript, whose sleeps may end 1 and
2 ms early (the field `pause`, in milliseconds). `BenchPorts` has each port's
numbers and how it prints.
Floating-point error is left out. So is a measured rate below one envelope
per second, where the whole numbers begin: a window has published at least one
envelope when it ends, unless its process slept through it.

### ProgramRun

The abstract specification of the file one run of a program writes: it always
holds the rows of the first trials, each once and in order, perhaps followed by
the beginning of one more; a program that ends with status 0 leaves all of
them and no half line.

### BenchMain

One run of a program: 25 trials with the real numbers of trials and loads.

| Model | Code |
|---|---|
| `at`, `Follows` | the nested loops of `main` and `run_capacity_curve` (`bench/python/bench.py:202-236, 387-407`) |
| `OpenWindow`, `window` | the sizes of the capacity window, fixed before its clock starts |
| `FinishFirehose`, `FinishCalibration`, `FinishSweep` | a trial has ended with a row; a calibration measures any rate in `Rates` |
| `best`, `BestWith` | `max_throughput_eps`, local to the curve |
| `printed`, `PrintedAfter` | rows printed one by one, or (`emits` "curve": Python, Go) with their curve |
| `filed`, `torn`, `WriteBlock` | the buffer of Python and C++, whose blocks end anywhere |
| `Return`, `Raise`, `Die` | the end of `main`; an exception or panic, which flushes where the runtime unwinds; a kill or an abort, which does not |

`measured` is a history variable, for the property about targets. `Raise` and `Die` are
possible at every trial: which trials can fail is the other modules' business.

### Aggregate

| Model | Code (`scripts/aggregate.py`) |
|---|---|
| `Load` | `load_rows`, the test for no rows, the warnings |
| `Variant`, `Key`, `Keys`, `Trials` | `variant_label`, the keys of the dictionaries and the lists they map to |
| `FirehoseRow`, `CapacityRow`, `FirehoseSummary`, `CapacitySummary`, `Group` | the two `build_*_summary`; both before any file is opened |
| `WriteFirehose`, `WriteCapacity` | the rest of `main`; a summary without rows is not written |

The script dies on a torn line, without rows, or on a capacity row without
percentiles (`LacksLatency`). Rows keep what the script branches on; rates stand for
all numbers it averages. Summary rows carry the trials they were computed from
(`of`, not in the file), raw files and rows the run that wrote them (`run`). The
printed tables repeat summary rows and are left out. Rounding is to the nearest,
ties to even. The list of a key is a function on the positions its trials have among
all rows read (`Trials`), so a row that occurs twice is averaged twice.
`RowsAssumption` says what rows there are: only Python has builds to tell apart, and
firehose rows have no load.

### BuildScript, PlotCharts, Pipeline

| Model | Code |
|---|---|
| `Order`, `step`, `StartScript`, `NextLanguage` | the calls at `scripts/build_and_run.sh:28-38` |
| `BuildFails`, `StartProgram` | `docker build` under `set -e`; then `tee` truncates the raw file and the container starts |
| `ProgramEnds`, `ProgramFails`, `Tee` | `docker run ... \| tee` under `pipefail`, with what `ProgramRun` allows in the file |
| `PlotThroughput`, `PlotLatency`, `PlotCapacity` | the three charts of `scripts/plot_charts.py`, and the `KeyError` and `ValueError` that stop it |
| `StartChain`, `AndAggregate`, `AndPlot`, `ChainEnds` | the chain of `RESULTS.md:27-29` |
| `ByHand` | either Python script alone, at any time when nothing else runs |

A program's rows enter the raw file in the step in which it ends, since nobody
reads the file before: the three scripts never run at the same time. An
interrupted script is a failed command. A kill *while* `aggregate.py` writes a CSV file or
`plot_charts.py` a chart is not modelled. `printing` holds the rows the program is
going to print and is chosen from `Outputs`, which is a parameter; two
assumptions say what every program prints: rows of the known configurations, at
least one of each kind (`ProgramsAssumption`), and never the label of another
program (`LabelsDiffer`: a language of its own, or a Python version and GIL).

### MC modules

`MCFirehose`, `MCCapacityWindow`, `MCBenchMain`, `MCAggregate` and `MCPipeline`
only give names to the values of the constants (profiles, rows, raw files) that
the configurations use. An operator whose comment begins with "Mutant:" is a
plausible mistake, kept beside the definition it would replace; nothing uses
it. `PROJECT.json` pairs each checked property with one that breaks it.

## 3. What the runs check

| Run (`.cfg`) | Result | What it shows |
|---|---|---|
| `Firehose` | holds | all fourteen profiles at once, `FairSpec` |
| `FirehoseUndrained` | violated, by design | an undrained trial without a sample ends with no row (finding) |
| `FirehoseCopy` | violated, by design | Java and C#: an undrained chan trial *with* samples can end with no row (finding) |
| `CapacityWindow` | holds | six profiles (all but C++), paced and unpaced |
| `CapacityEarly` | violated, by design | C# and TypeScript: early ticks add up, a producer is ahead of its target rate (finding) |
| `CapacityAccepted` | holds | Rust, C++, C#: ledger, rows of drained windows, liveness |
| `CapacityAttempts` | violated, by design | Go, Python, TypeScript (Java counts alike, but its publish never gives up): a drained row with `delivered < total` (finding) |
| `CapacityJava` | violated, by design | a stalled bus hangs the program (finding) |
| `CapacityCpp` | violated, by design | an unpaced C++ calibration sleeps with envelopes and window left (finding) |
| `BenchMain` | holds | seven programs, one and eight cores, failing or killed anywhere |
| `Aggregate` | holds | three raw files of valid, invalid, percentile-less and torn lines |
| `Pipeline` | holds | two runs of the script failing anywhere, the others chained or by hand |

The `Firehose` run's properties:

- `SlotInBounds`: no consumer indexes past its array. The arrays have exactly
  as many slots as envelopes; with the remainder on producer 0, an off-by-one
  or a double claim is an index error in a bus thread.
- `NoSampleOverwritten`: no two consumers of a channel share a slot, whatever
  the interleaving. The unsynchronised ports have it only because their channels are
  registered with concurrency 1.
- `BackpressureNeverEngages`: publish always finds room, so a producer that
  ignores the result loses nothing and Java's spin never spins.
- `ValidRowIsComplete`: a drained row has all `Total` envelopes in `delivered`
  *and* in the percentiles, and no percentile is computed over a slot claimed
  but not stored.
- `DrainedTrialReports`: none of the three ways to end without a row exists
  after a full drain.
- `QuietOnceDrained`: the unlocked reads see counters that no longer move.
- `KeepsLedger`: the trial implements `DeliveryLedger`.
- `TrialEnds`: it ends, even on a bus that never delivers anything.

The capacity runs' properties:

- `PacedRate`: at most `PerTick` envelopes per `Pause` begun, per producer, however
  long a publish blocks or a sleep lasts: delays are never caught up in a burst,
  and sleeps that fall short gain their slack and no more.
- `TargetRateKept` is the documented bound, `PerTick` envelopes per *tick* begun.
  It is proved where sleeps are full; `CapacityEarly` shows it violated in C#
  and TypeScript.
- `CalibrationNeverThrottled`: inside the window a calibration sleeps only with an
  empty pool (C++ excluded; `CapacityCpp` shows why).
- `StopsEarlyOnlyWhenExhausted`; `NonEmptyDrainedWindowReports`, also in
  `CapacityAccepted` for C++, whose locals are destroyed before its bus. (It says
  nothing of undrained windows, which may well be lost.)
- `DrainedRowSampled`: a drained row's percentiles are those of exactly the
  envelopes it counts, although consumers write sample and counter in two steps, in
  either order, and nothing but the drain keeps the unlocked reads away from them.
- `SlotsSuffice`: the arrays indexed by the shared counter are long enough.
- `DrainedRowAccounts` (ports that count accepted envelopes) and `DrainedRowGap`
  (all ports): a drained row's `total - delivered` is exactly the publishes that
  gave up where attempts are counted, and 0 elsewhere. So one kind of port
  violates the documented equality after a stall, and the other hides the
  stall: its row cannot be told from that of a bus that never stalled.
  `DrainedRowGap` records this and does not forbid it; no document does.
- `TimeoutsBounded`: what a stalled bus costs after the deadline. With the
  deadline read before each publish, one timeout per producer; Rust reads it per
  batch and may wait 30 s for every envelope left in the batch.
- `KeepsLedger`, `WindowCloses` on Rust, C++ and C#. The loops of Go, Python
  and TypeScript have C#'s shape; they differ from it in what they count and in
  the percentiles of no sample, on which the end of the window does not depend.

The `BenchMain` run's properties:

- `TargetsFromBestCalibration`: every sweep row's target is its load fraction of the
  largest rate measured by its own curve's calibrations.
- `SweepPoolWithinBudget`, `PoolNeverEmpty`, `PoolOutlastsPacing`: the sizes of
  every window of every port, at rates that stall, that fill the pool and that hit the
  cap. A pool lasts for `TicksPerWindow` ticks, early ones included, at any rate
  worth an envelope per tick 1.5 times over.
- `HeldBackRowsAreOfThisCurve`: what a failure can lose.
- `KeepsRun`: the file keeps `ProgramRun`'s promise, torn blocks included.

The scripts' properties:

- `AveragedWithItsOwnTrials`: every row read is in exactly one average, with all
  trials of its own stage and build and with nothing else, and the average lies
  between two of their rates.
- `WarningCoversCsvs`: once both files are written, the warning names exactly the
  invalid rows averaged in the files as they are on disk.
- `FailureLeavesCsvs`: a script that dies leaves both CSV files as they were.
- `ScriptOkMeansFresh`: status 0 of the build script means that all raw files
  are complete and of this run. It needs `set -e`, `pipefail` and the truncation.
- `OlderFilesFollow`: whatever failed, raw files get older in the script's order,
  strictly so after an incomplete one.
- `TrialsOfOneRun`: no average mixes two runs, however the scripts are mixed (a
  *table* may: different variants may be of different runs).
- `ChainedOutputsFresh`: a chain that ended with status 0 shows its own run and all of it.
- `CsvsAgree`: the two CSV files are of the same raw files once one of these is
  complete; without the premise it fails, since an empty summary leaves an old file.
- `ChartsComplete`: charts drawn without an error lack no labelled bar. After a
  `plot_charts.py` that died, the charts may be of different summaries.

### Bounds, and why they are enough

- `Firehose`: `Total = 4, P = 3`, so the share is 1 and the remainder, 1,
  makes producer 0's channel larger than the others: channels of two sizes, one with
  two envelopes (needed for a consumer to race another), three consumers in
  the shared layout, all interleavings of three producers, and a main thread
  reading three counters. The violations need less: `Total = 3, P = 2`.
- `CapacityWindow`: `P = 2, Pool = 3, Cap = 1, PerTick = 2, Burst = 2, Tick = 2,
  Slack = 1, Deadline = 4`. A short sleep may leave out half of its tick, far more
  than the code's, so early ticks add up within the window. The pool outlives a
  batch of either kind, its second batch is a partial one, and it can be used up
  before or after the deadline; `Cap = 1` makes publishes block with two producers;
  the window has two ticks, and a batch that is delayed ends inside a tick, or after
  the deadline. `CapacityEarly` has one envelope per tick of three units, so that a
  sleep that is one unit short is still a sleep.
- `CapacityAccepted` and `CapacityAttempts`, `CapacityJava`: one envelope less and a
  shorter window, which keeps the liveness graph small.
- `BenchMain`: the real 25 trials; `Pars = {1, 8}` (cap8's producers at the two ends
  of `min(8, cores)`); `Rates = {1, 600, 679363}`: one with the smallest pools, one
  at which the pools of eight producers just last for the ticks of a window (225
  envelopes, 223 ticks in TypeScript), one whose pool is capped.
- `Aggregate`: up to two rows in each Python file and three in TypeScript's,
  every combination, or a torn line; with and without old CSV files. Three
  trials of one stage, of two builds, at two loads, can meet.
- `Pipeline`: two languages whose alphabetical order is not the script's, two runs
  of the script after committed or missing files (`MaxRuns`: two runs can leave
  files of three ages), five rows per program: every firehose configuration, a
  calibration and a sweep point. Each run's TypeScript may lack a percentile of
  either kind, the second run's Python image may have a new patch version.
- `Horizon` (`Deadline + Tick`) bounds the clock. Nothing else in
  the window is bounded: every other counter is bounded by the pools. `NoSample` is a
  model value.

The theorems of section 4 hold for every value, so the bounds only matter
for what is not proved. No symmetry is declared: liveness and the order in which
producers start rule it out.

### Fairness

The harness's own threads are scheduled and their timed waits return:
weak fairness of each producer's step and of the main thread's. In
`CapacityWindow` time passes (weak fairness of `Advance`). **Nothing** is
assumed of the bus: it may stop dispatching for ever, and a consumer that has
started may never return. Strong fairness is used nowhere. A firehose producer
that spins is weakly fair in `Publish`, which is enabled only while there is
room; that it always is, is `BackpressureNeverEngages`. The other modules have
safety properties only: a program or a script may be stopped at any point, so
nothing has to happen in them.

## 4. What is proved

`FirehoseProofs`, `FirehoseRowProofs`, `CapacityWindowProofs`, `BenchMainProofs`,
`AggregateProofs` and `PipelineProofs`, with the lemmas of `ListFacts`, prove, with
TLAPS, for all values of the constants satisfying the named assumptions. For the two
trial modules these are `Total >= 1`, `1 <= P <= Total` (no producer without an
envelope), positive capacity, batch, tick and window, a slack of less than a tick,
`Ports` a set of profiles, and `PortsAssumption`: an unsynchronised consumer appears
only where channels are independent, which is so in the code
(`bench/go/main.go:197`, `bench/cs/Program.cs:134`: "safe: concurrency=1").
`Firehose` also assumes `PollsAssumption` of the loops that read the counters: each
channel is added once to `delivered` and once to the samples, and a loop that copies
samples comes after the one that sizes the array. TLC checks it of the seven
languages' loops; only `FirehoseRowProofs` uses it.

**Firehose**: `TypeCorrect`; `IndicesInBounds` (`SlotInBounds`);
`RoomForEveryEnvelope` (`BackpressureNeverEngages`); `SamplesKept`
(`NoSampleOverwritten`); `QuietAfterDrain` (`QuietOnceDrained`); and, in
`FirehoseRowProofs`, `DrainedTrialsReport` (`DrainedTrialReports`),
`ValidRowsComplete` (`ValidRowIsComplete`) and `TrialKeepsLedger`: a trial of any
port *implements* `DeliveryLedger`.

- `TypeOK` is inductive; the other four properties are not. Room needs that a
  channel is home to at most `Slots(c)` envelopes, which is arithmetic about
  quotient and remainder: `Position` lays the producers' lists end to end, is
  injective and stays in `1..Total`, so `HomeFits` bounds the cardinality.
- `CountingInv` is the inductive invariant: the counter is the number of
  envelopes counted (`CountsAgree`); every slot taken is below the counter and no
  two are equal (`IndexTaken`); a channel of an independent layout has one
  consumer at a time (`OneAtATime`), hence what a plain consumer read of the
  counter is still true when it writes (`ReadsFresh`); and what a producer has
  not reached is untouched (`Unpublished`).
- An index is below the counter after the claim, the counter is a cardinality of
  a subset of the channel's envelopes, and one envelope is not in it yet:
  `BoundsFromCounting`.
- `QuietInv` says that from the shutdown on every producer is finished and, once
  drained, that nothing waits or runs; no consumer step is then possible.
- `RowInv` adds what the row needs. Publish always finds room, so whoever has
  finished has had its whole list accepted (`AllAccepted`), and after a drain every
  envelope is delivered. `Position` also reaches all of `1..Total`, so
  `|Envelopes| = Total` and `|AtHome(c)| = Slots(c)` exactly: each counter
  equals its array's length. The sums the main thread takes are then those of
  `SumBefore`: before channel `c` is read, an accumulator holds the envelopes of the
  channels before it; after its loop, `Total`. So the copy never overruns and the row
  is complete; as many different indices as slots leave no slot empty.
- The refinement counts sets: a publish adds one envelope to `Accepted`, a
  consumer's last step one to `Consumed`, and no other step moves either. A shutdown
  that times out saw something queued or running, which is accepted and not
  consumed: `GiveUp`.

**Capacity window**: `TypeCorrect`; `DrainedRowsAccount` (assuming every port in
`Ports` counts accepted envelopes) and `DrainedRowsGap` (no such assumption);
`DrainedWindowsReport`; `DrainedRowsSampled`; `SlotsAlwaysSuffice`; `RateLimited`
(`PacedRate`), for every port; `FullSleepsKeepTargetRate` (`TargetRateKept`,
assuming that every port in `Ports` sleeps in full: false of C# and TypeScript
alone); `StopsEarlyExhausted`; `CalibrationRunsFlatOut` (assuming a port that sleeps
when unpaced publishes the whole pool as a batch: false of C++ alone);
`TimeoutsAreBounded` (`TimeoutsBounded`); and `WindowKeepsLedger`: the window, for
ports that count accepted envelopes, *implements* `DeliveryLedger`.

- `Inv` balances the counters: accepted = waiting + entered + half + consumed, and
  published is accepted plus, where attempts are counted, refused; samples and
  counter are apart by exactly the consumers between their two steps (`StepsApart`),
  so they are equal once a drain has seen nobody running; after the join none of it
  grows; what has been read after a drain (`SeenKept`), and a row or a crash, keep
  it.
- `SlotsInv` bounds accepted plus refused plus offered envelopes by the
  cardinality of the set of positions taken from the pools (`Taken`), a subset
  of `Producers \X (1 .. Pool)`.
- `PaceInv` is the limiter's argument. At the head of the loop a producer has
  taken at most `PerTick * (now \div Pause)`; inside a batch, at most that of the
  batch's beginning plus the batch. It carries over because a sleep ends a
  whole pause after the beginning at least, and a batch that overran its tick has
  lost the difference. Where sleeps are full, a pause is a tick.
- `TimeoutInv`: before the deadline nothing is refused; after it refusals plus
  producers still offering never exceed `P`. `BatchInv` is its counterpart for a
  deadline read per batch: past it each refusal is of an envelope whose publish has
  returned (`Returned`) in its producer's last batch, a subset of
  `Producers \X (1 .. Batch)`.
- The refinement maps each action: an accepted publish is `Accept`, a consumer's
  return `Consume`, a drained row `ReportValid`, the rest are `GiveUp`,
  `ReportInvalid`, `Lose` or stuttering.

**A program's run**: `TypeCorrect`; `HeldBackRows`; `TargetsFollowCalibration`;
`PoolsWithinBudget`; `PoolsFilled`; `PoolsOutlastPacing`; and `FileKeepsRun`: a run
*implements* `ProgramRun`. They hold for any numbers of trials, any set of positive rates,
any profiles with a calibration budget of 8 envelopes or more, and 1 to 8 producers.

- The arithmetic is in lemmas about quotients: `CeilingCovers`, `NearestIsNear`,
  and `PoolCoversPacing`: at a rate worth an envelope per tick 1.5 times over, the
  extra half of the pool makes up for half an envelope of rounding per tick and
  for early ticks, up to 225 in a window.
- `CalibrationInv`: `best` is a rate of `measured` and above all of them once the
  curve's first calibration is over; it makes `SizeInv` (an open window has the
  sizes computed from a positive rate) inductive.
- `NumberInv`: row `k` is that of trial number `k`. `Number` lays the trials of the
  nested loops end to end, and `FollowsIsNext` shows that `Follows` adds one.

**The pipeline**: `PipelineRunsScript` (whatever is chained or run by hand, every
step is one of `BuildScript`'s or leaves its variables alone), hence `OkMeansFresh`
and `RawFilesInOrder` for any number of languages in any order and any outputs,
from `RawInv`: while a script runs, the files of the languages before `step` are
fresh, those after it older. `ChartsNeverPartial` (`ChartsComplete`): the CSV files stay
as `plot_charts.py` found them until it ends (`PlottingAlone`), so what one chart
checked holds of the next. `PipelineTypeCorrect` adds what `tee` may leave
(`LinesFit`).

**The aggregation**: `TypeCorrect`; `EachTrialAveragedOnce`
(`AveragedWithItsOwnTrials`); `InvalidRowsReported` (`WarningCoversCsvs`);
`DeathLeavesCsvs` (`FailureLeavesCsvs`): for any number of files, any rows that
satisfy `RowsAssumption`, any CSV files of an earlier run (`CsvsAssumption`: a pair of
files).

- `Held` is the inductive invariant: the rows read are a sequence of rows, the
  warnings are its invalid ones, the summaries are those computed from it, or
  none, and a CSV file that has been written is its summary. The rows behind the two files
  are then all rows read and no others (`AveragedRows`), as each is averaged
  once. `AveragedWithItsOwnTrials` is not inductive: it does not say what a
  summary was computed from.
- `KeyIsStage`: two rows have one key exactly if they are trials of one stage. So the
  list of a key is a stage (`TrialsOfKey`), and a position is in one list only
  (`OneHome`): the two summaries' keys differ in the configuration.
- `MeanBetween`: a sum of `n` naturals is at least `n` times a lower bound and
  at most `n` times an upper one (`SumBounds`), and rounding does not cross a whole
  number (`NearestBetween`).

**Averages and charts of one run**: `AveragesOfOneRun` (`TrialsOfOneRun`);
`CsvsOfSameFiles` (`CsvsAgree`); `ChainPublishesItsRun` (`ChainedOutputsFresh`): for any
programs that satisfy `ProgramsAssumption` and `LabelsDiffer`, any failures, any
order of scripts.

- `RawPrinted`: each line of a raw file was printed by the file's program in the run
  that wrote the file, since `tee` starts from an empty file. Rows of one label
  are of one program, hence of one file, hence of one run (`LinesOneRun`).
- `Averaged`: from the time `aggregate.py` has read the raw files until
  another script starts, its rows are those of the raw files, which nothing else
  writes meanwhile, and a CSV file it has written is its summary. With a complete
  raw file neither summary is empty, so both are written (`BothWritten`).
- `ChainInv`: a part of the chain that has been reached still has the success of
  those before it.

`ListFacts` has the inductions. The library's induction theorems take an operator
as a parameter and cannot be used; but that a well-founded relation has minimal
elements (`WFMin`) is a statement about sets, and gives the least number
principle (`LeastNumber`) and induction over a set (`SetInduction`). With these it
shows that the recursive functions inside the community modules' `SumFunction`
and `FlattenSeq` exist, that they satisfy their recursions (`SumOverDef`,
`FlatDef`), and what they compute: `SumBounds`, and `FlattenElements` (a
concatenation has the elements of its parts and no others).

**Only model-checked**: the liveness properties `TrialEnds` and `WindowCloses`,
since the prover has no fairness or ENABLED reasoning. Every other property of a
passing run is stated by a theorem. No module here declares a RECURSIVE operator.

## 5. Findings

Each is a disagreement between the code and `bench/WORKLOAD.md`, shown by a
run that violates one property; `PROJECT.json` quotes the lines.

1. An undrained firehose trial with no sample raises in the percentiles and
   takes the remaining trials with it, where it should be reported as invalid.
2. In Java and C#, an undrained chan trial whose consumers still run may raise
   while it copies the samples into an array sized by an earlier read.
3. Go, Python and TypeScript count a publish that timed out as published:
   `delivered < total` in a drained row.
4. Java's capacity publish has no timeout: a deadlock hangs the program instead
   of surfacing as a failed run.
5. C++'s "as fast as possible" calibration sleeps out a 20 ms tick after every 4096
   envelopes.
6. C# and TypeScript cut their sleeps to whole milliseconds: a tick ends up to 1
   or 2 ms early, every tick, and a producer gets ahead of its target rate. The
   row shows only an achieved rate above the target.

Three more are read off the code and not the subject of a run of their own. C++ destroys the
firehose's counter and arrays before the bus, so after a shutdown that gave up consumers
may write to freed memory (`TeardownFaults`, as in finding 2). `aggregate.py` leaves an
old CSV file in place when it has no rows for a new one, and ends with status 0
(the premise of `CsvsAgree`). And it heads a column "max of 2 bursts" and prints
the mean (`scripts/aggregate.py:191, 197`), while the sweep was scaled by the maximum.

## 6. Not modelled, and why

- The bus's implementation: outside the repository.
- The order in which a bus delivers: no consumer depends on it.
- Latency values, percentiles of them, depths and tails, the sort, wall-clock
  accuracy, floating-point error, rates below one envelope per second: no control
  flow depends on them, except on there being a sample at all, which is modelled.
- JSON and CSV formatting, scales and colours of the charts, and the tables of
  `aggregate.py` that only repeat summary rows.
- A kill of `aggregate.py` or `plot_charts.py` in the middle of writing one file.
- `setup.sh` (one test and one `git clone` per sibling, no state that anything
  else here reads; a broken clone is a build that fails, `BuildFails`),
  `count_loc.sh`, Dockerfiles: no state of interest.

## 7. Plan

Done: trials (`Firehose`, `CapacityWindow`) with their ledger, the program
(`Sizing`, `BenchMain`, `ProgramRun`), the scripts (`Aggregate`, `BuildScript`,
`PlotCharts`, `Pipeline`), and the proofs of section 4, which cover every safety
property the passing runs check.

Left: the safety half of the two liveness properties, that the harness is never
stuck and that a trial takes a bounded number of steps, for every value of the
constants.
