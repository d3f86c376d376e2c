------------------------------ MODULE Pipeline ------------------------------
(***************************************************************************)
(* From the programs to the charts: build_and_run.sh, aggregate.py and     *)
(* plot_charts.py, chained as RESULTS.md says (each starts when the one    *)
(* before has ended with status 0) or run by hand in any order, on the     *)
(* files that earlier runs have left.                                      *)
(***************************************************************************)
EXTENDS BuildScript

CONSTANT Labels

VARIABLES agg, loaded, warned, summaries, csv,              \* aggregate.py
          plot, charts,                                     \* plot_charts.py
          chain     \* the part of the chain that is under way, or "none"; and
                    \* "done" when all three have ended with status 0

A == INSTANCE Aggregate WITH Raws <- {}, Csvs <- {}
C == INSTANCE PlotCharts

\* What the programs print: rows of the run they are in, with both kinds of
\* configuration and no other; and no two print the same label.
ASSUME ProgramsAssumption ==
    \A f \in Files, r \in 0 .. MaxRuns : \A o \in Outputs(f, r) :
        /\ \A k \in 1 .. Total : /\ o[k].run = r
                                 /\ o[k].config \in A!FirehoseConfigs \union A!CapacityConfigs
        /\ \E k \in 1 .. Total : o[k].config \in A!FirehoseConfigs
        /\ \E k \in 1 .. Total : o[k].config \in A!CapacityConfigs
ASSUME LabelsDiffer ==
    \A f, g \in Files, q, r \in 0 .. MaxRuns : \A o \in Outputs(f, q), p \in Outputs(g, r) :
        \A j, k \in 1 .. Total : A!Variant(o[j]) = A!Variant(p[k]) => f = g

aggVars == <<agg, loaded, warned, summaries>>
plotVars == <<plot, charts>>
vars == <<scriptVars, aggVars, csv, plotVars, chain>>

AllLines == A!FlattenSeq([f \in Files |-> raw[f].lines])

\* The CSV files and charts are those of the committed raw files.
PipelineInit ==
    /\ Init
    /\ agg = "off" /\ loaded = << >> /\ warned = {} /\ summaries = A!NoSummary
    /\ csv = [firehose |-> A!FirehoseSummary(AllLines), capacity |-> A!CapacitySummary(AllLines)]
    /\ plot = "off"
    /\ charts = [throughput |-> csv.firehose, latency |-> csv.firehose,
                 capacity |-> C!Points(csv.capacity)]
    /\ chain = "none"

Idle == /\ script \notin {"build", "run"}
        /\ agg \in {"off", "ok", "died"}
        /\ plot \in {"off", "ok", "died"}

\* What is known of the later scripts is forgotten when an earlier one starts.
ForgetPlot == plot' = "off" /\ UNCHANGED charts
ForgetAggregate ==
    /\ agg' = "off" /\ loaded' = << >> /\ warned' = {} /\ summaries' = A!NoSummary
    /\ UNCHANGED csv

StartChain ==
    /\ Idle
    /\ chain \in {"none", "done"}
    /\ StartScript
    /\ ForgetAggregate /\ ForgetPlot
    /\ chain' = "build"

StartAggregate ==
    /\ agg' = "load" /\ loaded' = << >> /\ warned' = {} /\ summaries' = A!NoSummary
    /\ ForgetPlot
    /\ UNCHANGED <<scriptVars, csv>>

StartPlot ==
    /\ C!StartPlot
    /\ UNCHANGED <<scriptVars, aggVars>>

\* Mutant: the chain is written with ; for &&.
AggregateRegardless ==
    /\ chain = "build" /\ script \in {"ok", "failed"}
    /\ StartAggregate
    /\ chain' = "aggregate"
AndAggregate ==
    /\ chain = "build" /\ script = "ok"
    /\ StartAggregate
    /\ chain' = "aggregate"

AndPlot ==
    /\ chain = "aggregate" /\ agg = "ok"
    /\ StartPlot
    /\ chain' = "plot"

ChainEnds ==
    /\ \/ chain = "build" /\ script = "failed" /\ chain' = "none"
       \/ chain = "aggregate" /\ agg = "died" /\ chain' = "none"
       \/ chain = "plot" /\ plot = "died" /\ chain' = "none"
       \/ chain = "plot" /\ plot = "ok" /\ chain' = "done"
    /\ UNCHANGED <<scriptVars, aggVars, csv, plotVars>>

ByHand ==
    /\ Idle
    /\ chain \in {"none", "done"}
    /\ StartAggregate \/ StartPlot
    /\ chain' = "none"

BuildStep == ScriptStep /\ UNCHANGED <<aggVars, csv, plotVars, chain>>
AggregateStep == /\ A!AggregateStep
                 /\ UNCHANGED <<script, step, run, printing, plotVars, chain>>
PlotStep == C!PlotStep /\ UNCHANGED <<scriptVars, aggVars, chain>>

PipelineNext ==
    \/ StartChain \/ AndAggregate \/ AndPlot \/ ChainEnds
    \/ ByHand
    \/ BuildStep \/ AggregateStep \/ PlotStep

PipelineSpec == PipelineInit /\ [][PipelineNext]_vars

-----------------------------------------------------------------------------
(* Properties *)

SummaryRows == csv.firehose \union csv.capacity

\* The parts are where they can be, at most one at a time, and every file holds
\* rows that a program may have printed.
PipelineTypeOK ==
    /\ script \in {"off", "build", "run", "ok", "failed"}
    /\ step \in Steps
    /\ run \in 0 .. MaxRuns
    /\ \A f \in Files :
           /\ raw[f].run \in 0 .. run
           /\ Len(raw[f].lines) <= Total
           /\ raw[f].torn => Len(raw[f].lines) < Total
    /\ agg = "off" \/ script \notin {"build", "run"}
    /\ plot = "off" \/ agg \in {"off", "ok", "died"}
    /\ chain \in {"none", "build", "aggregate", "plot", "done"}

\* No average ever mixes trials of two runs, whatever failed and whatever was
\* run by hand afterwards: a raw file is never continued.
TrialsOfOneRun ==
    \A s \in SummaryRows : \A i, j \in DOMAIN s.of : s.of[i].run = s.of[j].run

\* What a complete chain publishes is of its own run throughout: all rows of all
\* programs are averaged in the CSV files, and the charts show these files.
ChainedOutputsFresh ==
    chain = "done" =>
        /\ \A s \in SummaryRows : \A i \in DOMAIN s.of : s.of[i].run = run
        /\ \A f \in Files, i \in 1 .. Total :
               \E s \in SummaryRows : raw[f].lines[i] \in A!Range(s.of)
        /\ charts = [throughput |-> C!Bars(csv.firehose), latency |-> C!Bars(csv.firehose),
                     capacity |-> C!Points(csv.capacity)]

\* After an aggregation the two CSV files come from the same raw files, unless
\* none of these was complete: only then may a CSV file of an earlier
\* aggregation stay beside a new one.
CsvsAgree ==
    agg = "ok" /\ (\E f \in Files : Complete(f)) =>
        \A s \in SummaryRows : A!Range(s.of) \subseteq A!Range(AllLines)

\* Charts that were drawn without an error show every labelled variant in every
\* configuration, and throughput and latency of the same summary.
ChartsComplete ==
    plot = "ok" => /\ charts.throughput = charts.latency
                   /\ \A v \in Labels, c \in C!ChartConfigs :
                          \E s \in charts.latency : s.variant = v /\ s.config = c /\ s.latency
=============================================================================
