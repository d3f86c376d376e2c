----------------------------- MODULE BenchMain -----------------------------
(***************************************************************************)
(* One run of a benchmark program: three trials each of seq, par and chan, *)
(* then the capacity curves cap1 and cap8.  A curve calibrates its stage   *)
(* twice and then sweeps three load fractions, two trials each, at target  *)
(* rates taken from the larger calibration.  Every trial ends with a row,  *)
(* or the program ends.                                                    *)
(*                                                                         *)
(* The programs differ in what a profile records (module BenchPorts):      *)
(*   emits    "row": a row is printed as soon as its trial is over;        *)
(*            "curve": the rows of a capacity curve are returned in a list *)
(*            and printed when the whole curve is over;                    *)
(*   stdout   "line": a printed row reaches the output file at once;       *)
(*            "block": it waits in a buffer, which is written in blocks    *)
(*            that need not end where a row ends;                          *)
(*   unwinds  a failure leaves through the runtime's exit path, which      *)
(*            writes the buffer out;                                       *)
(* and in the numbers of module Sizing.  What happens inside a trial is    *)
(* modelled in Firehose and CapacityWindow: here a trial ends with a row,  *)
(* and a calibration's row with some positive rate: its producers read the *)
(* clock as soon as the window has begun.                                  *)
(***************************************************************************)
EXTENDS Integers, Sequences, Sizing

CONSTANTS Ports,               \* the profiles a behaviour may follow
          Pars,                \* values of min(8, number of cores)
          Rates,               \* what a calibration may measure, envelopes/s
          Trials,              \* TRIALS (3)
          CalibrationTrials,   \* CALIBRATION_TRIALS (2)
          SweepTrials          \* SWEEP_TRIALS (2)

Profiles == [emits : {"row", "curve"}, stdout : {"line", "block"},
             unwinds : BOOLEAN, budget : Nat \ (0 .. 7), least : Nat, floor : 0 .. 16,
             ties : {"up", "even"}, pause : 18 .. 20]

ASSUME PortsAssumption == Ports \subseteq Profiles
ASSUME ParsAssumption == Pars \subseteq 1 .. 8
ASSUME RatesAssumption == Rates \subseteq Nat \ {0}
ASSUME TrialsAssumption == /\ Trials \in Nat \ {0}
                           /\ CalibrationTrials \in Nat \ {0}
                           /\ SweepTrials \in Nat \ {0}

\* The configurations in the order main runs them: seq, par, chan, cap1, cap8.
Seq1 == 1
Cap1 == 4
Cap8 == 5
Configs == Seq1 .. Cap8
Curves == {Cap1, Cap8}

VARIABLES
    port, par,   \* the program and the machine, chosen once
    at,          \* the trial that is next or under way
    window,      \* the sizes of the capacity window under way
    best,        \* max_throughput_eps of the curve under way
    rows,        \* the rows of the trials that are over
    printed,     \* how many of these have been printed
    filed,       \* how many of these have reached the file
    torn,        \* the file ends within a row
    status,      \* "running", then "ok" or "failed"
    measured     \* history: the rates each curve's calibrations measured

config == <<port, par>>
output == <<rows, printed, filed, torn>>
vars == <<config, at, window, best, output, status, measured>>

Producers(c) == IF c = Cap8 THEN par ELSE 1
TrialsAt(c, load) == IF c \notin Curves THEN Trials
                     ELSE IF load = 0 THEN CalibrationTrials ELSE SweepTrials

\* Mutant: a loop's upper bound is exclusive.
FollowsLessOne(a) ==
    IF a.trial + 1 < TrialsAt(a.config, a.load) THEN [a EXCEPT !.trial = @ + 1]
    ELSE IF a.config \in Curves /\ a.load < 3
         THEN [a EXCEPT !.load = @ + 1, !.trial = 1]
         ELSE [config |-> a.config + 1, load |-> 0, trial |-> 1]
\* Mutant: one load fraction too many.
FollowsOneLoadMore(a) ==
    IF a.trial < TrialsAt(a.config, a.load) THEN [a EXCEPT !.trial = @ + 1]
    ELSE IF a.config \in Curves /\ a.load <= 3
         THEN [a EXCEPT !.load = @ + 1, !.trial = 1]
         ELSE [config |-> a.config + 1, load |-> 0, trial |-> 1]
\* The trial after a; configuration Cap8 + 1 is the end.
Follows(a) ==
    IF a.trial < TrialsAt(a.config, a.load) THEN [a EXCEPT !.trial = @ + 1]
    ELSE IF a.config \in Curves /\ a.load < 3
         THEN [a EXCEPT !.load = @ + 1, !.trial = 1]
         ELSE [config |-> a.config + 1, load |-> 0, trial |-> 1]

Closed == [open |-> FALSE, pool |-> 0, perTick |-> 0]

Init ==
    /\ port \in Ports
    /\ par \in Pars
    /\ at = [config |-> Seq1, load |-> 0, trial |-> 1]
    /\ window = Closed
    /\ best = 0
    /\ rows = << >> /\ printed = 0 /\ filed = 0 /\ torn = FALSE
    /\ status = "running"
    /\ measured = [c \in Curves |-> {}]

-----------------------------------------------------------------------------

\* The envelopes of a capacity window are built before its clock starts.
OpenWindow ==
    /\ status = "running"
    /\ at.config \in Curves
    /\ ~window.open
    /\ LET P == Producers(at.config)
       IN  window' = IF at.load = 0
                     THEN [open |-> TRUE, pool |-> CalibrationPool(port, P), perTick |-> 0]
                     ELSE [open |-> TRUE, pool |-> SweepPool(port, best, at.load, P),
                           perTick |-> SweepPerTick(port, best, at.load, P)]
    /\ UNCHANGED <<config, at, best, output, status, measured>>

\* The row of the trial that is over.  Targets are twice the target rate.
Row == [config |-> at.config, load |-> at.load, trial |-> at.trial,
        target |-> IF at.load = 0 THEN 0 ELSE best * at.load]

\* Mutant: the rows of both curves are printed together, after the second.
PrintedAtEndOfRun ==
    IF port.emits = "curve" /\ at.config \in Curves /\ Follows(at).config \in Curves
    THEN printed ELSE Len(rows) + 1
\* How many rows have been printed once the trial is over.
PrintedAfter ==
    IF port.emits = "curve" /\ at.config \in Curves /\ Follows(at).config = at.config
    THEN printed ELSE Len(rows) + 1

\* The trial ends and its row goes where the program puts it.
Emit ==
    /\ rows' = Append(rows, Row)
    /\ printed' = PrintedAfter
    /\ filed' = IF port.stdout = "line" THEN PrintedAfter ELSE filed
    /\ at' = Follows(at)
    /\ UNCHANGED torn

FinishFirehose ==
    /\ status = "running"
    /\ at.config \in Configs \ Curves
    /\ Emit
    /\ UNCHANGED <<config, window, best, status, measured>>

\* Mutant: the last calibration, not the larger one.
BestIsLast(rate) == rate
\* Mutant: the maximum is not reset for the second curve.
BestOfBothCurves(rate) == Most(best, rate)
\* max_throughput_eps, which starts from 0 in every curve.
BestWith(rate) == IF at.trial = 1 THEN rate ELSE Most(best, rate)

FinishCalibration ==
    /\ status = "running"
    /\ window.open
    /\ at.load = 0
    /\ \E rate \in Rates :
           /\ best' = BestWith(rate)
           /\ measured' = [measured EXCEPT ![at.config] = @ \union {rate}]
    /\ Emit
    /\ window' = Closed
    /\ UNCHANGED <<config, status>>

FinishSweep ==
    /\ status = "running"
    /\ window.open
    /\ at.load > 0
    /\ Emit
    /\ window' = Closed
    /\ UNCHANGED <<config, best, status, measured>>

\* The buffer is written up to somewhere in it.
WriteBlock ==
    /\ status = "running"
    /\ port.stdout = "block"
    /\ \E k \in filed .. printed :
           /\ filed' = k
           /\ torn' \in IF k < printed THEN BOOLEAN ELSE {FALSE}
           /\ k = filed => torn'
    /\ UNCHANGED <<config, at, window, best, rows, printed, status, measured>>

\* The end of the process, with the buffer written out.
FlushAndEnd(s) ==
    /\ filed' = printed
    /\ torn' = FALSE
    /\ status' = s
    /\ UNCHANGED <<config, at, window, best, rows, printed, measured>>

Return ==
    /\ status = "running"
    /\ at.config > Cap8
    /\ FlushAndEnd("ok")

\* A trial fails: an exception or a panic ends the program.
Raise ==
    /\ status = "running"
    /\ at.config \in Configs
    /\ port.unwinds \/ port.stdout = "line"
    /\ FlushAndEnd("failed")

\* The process dies at once: killed, out of memory, or aborted by its runtime.
Die ==
    /\ status = "running"
    /\ status' = "failed"
    /\ UNCHANGED <<config, at, window, best, output, measured>>

Ended == status # "running" /\ UNCHANGED vars

Next ==
    \/ OpenWindow
    \/ FinishFirehose \/ FinishCalibration \/ FinishSweep
    \/ WriteBlock
    \/ Return \/ Raise \/ Die
    \/ Ended

Spec == Init /\ [][Next]_vars

-----------------------------------------------------------------------------
(* Properties *)

CurveRows == CalibrationTrials + 3 * SweepTrials
RowsBefore(c) == IF c <= Cap1 THEN (c - 1) * Trials
                 ELSE 3 * Trials + (c - Cap1) * CurveRows
\* The place of a trial, and of its row, among all of a run.
Number(a) == RowsBefore(a.config) +
             (IF a.load = 0 THEN a.trial
              ELSE CalibrationTrials + (a.load - 1) * SweepTrials + a.trial)
AllRows == RowsBefore(Cap8 + 1)

Positions == [config : Seq1 .. Cap8 + 1, load : 0 .. 3, trial : Nat \ {0}]

\* Every variable keeps its type, and what has been filed has been printed,
\* what has been printed has been measured (bench.py main).
TypeOK ==
    /\ port \in Ports /\ par \in Pars
    /\ at \in Positions
    /\ window \in [open : BOOLEAN, pool : Nat, perTick : Nat]
    /\ best \in Nat
    /\ rows \in Seq([config : Configs, load : 0 .. 3, trial : Nat \ {0}, target : Nat])
    /\ printed \in 0 .. Len(rows)
    /\ filed \in 0 .. printed
    /\ torn \in BOOLEAN
    /\ status \in {"running", "ok", "failed"}
    /\ measured \in [Curves -> SUBSET Rates]

\* Every sweep row of a curve was paced at its load fraction of the largest
\* rate that this curve's own calibrations measured, whatever the order of the
\* measurements and whatever the other curve did (run_capacity_curve).
TargetsFromBestCalibration ==
    \A k \in DOMAIN rows : LET r == rows[k] IN r.load > 0 =>
        /\ \E rate \in measured[r.config] : r.target = rate * r.load
        /\ \A rate \in measured[r.config] : rate * r.load <= r.target

\* The pools of all producers of a sweep window together never exceed the total
\* that was introduced after an uncapped pool exhausted the memory.
SweepPoolWithinBudget ==
    window.open /\ at.load > 0 =>
        Producers(at.config) * window.pool <= MaxSweepPoolTotal

\* No window opens with an empty pool, however little a calibration measured:
\* not even in Java and TypeScript, where nothing raises the pool to 1.
PoolNeverEmpty == window.open => window.pool > 0

\* Pacing cannot use up a pool that the cap did not cut, once the rate is worth
\* an envelope per tick of the window and 1.5 times over (34 per second where a
\* tick lasts 20 ms): the pool then lasts for every tick that can begin in the
\* window, those that begin early included, and a sweep row's rate is the
\* stage's and not the pool's.
PoolOutlastsPacing ==
    LET P == Producers(at.config)
    IN  window.open /\ at.load > 0
          /\ 3 * best * at.load >= TicksPerWindow(port) * P
          /\ window.pool < MaxSweepPoolTotal \div P
        => window.pool >= window.perTick * TicksPerWindow(port)

\* What a failure can lose besides the buffer: nothing of the trials that are
\* over where rows are printed one by one, and no row of another curve where a
\* curve's rows are printed together.
HeldBackRowsAreOfThisCurve ==
    /\ port.emits = "row" => printed = Len(rows)
    /\ \A k \in printed + 1 .. Len(rows) :
           at.config \in Curves /\ rows[k].config = at.config
    /\ port.stdout = "line" => filed = printed

\* A program keeps the promise of module ProgramRun: at every moment its file
\* holds the rows of the first trials in order, each once; it ends with status
\* 0 only when all of them are there, and with no half line.
Run == INSTANCE ProgramRun WITH
           Total <- AllRows,
           file <- [k \in 1 .. filed |-> Number(rows[k])]
KeepsRun == Run!Spec
=============================================================================
