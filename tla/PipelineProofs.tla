--------------------------- MODULE PipelineProofs ---------------------------
(***************************************************************************)
(* The pipeline runs build_and_run.sh as module BuildScript says, and what *)
(* the raw files tell is true for any number of languages, in any order,   *)
(* and for whatever their programs may print; then what the charts show,   *)
(* for any labels.                                                         *)
(***************************************************************************)
EXTENDS Pipeline, ListFacts

Fresh(j) == raw[Order[j]].run = run /\ Complete(Order[j])

RawType ==
    /\ run \in 0 .. MaxRuns
    /\ step \in Steps
    /\ raw \in [Files -> [lines : Seq(Rows), torn : BOOLEAN, run : 0 .. run]]
    /\ script \in {"off", "build", "run", "ok", "failed"}

\* The languages before `step` are done, those after it untouched.
StepInv ==
    /\ script \in {"build", "run"} => \A j \in Steps : j < step => Fresh(j)
    /\ script \in {"build", "run"} =>
           \A j \in Steps : j > step => raw[Order[j]].run < run
    /\ script = "build" => raw[Order[step]].run < run
    /\ script = "run" =>
           /\ raw[Order[step]] = [lines |-> << >>, torn |-> FALSE, run |-> run]
           /\ printing \in Outputs(Order[step], run)
    /\ script = "ok" => \A j \in Steps : Fresh(j)

RawInv == RawType /\ StepInv /\ OlderFilesFollow

USE DEF Steps

-----------------------------------------------------------------------------

\* What a program prints is a sequence of Total rows.
LEMMA OutputIsSeq ==
    ASSUME NEW f \in Files, NEW r \in 0 .. MaxRuns, NEW o \in Outputs(f, r)
    PROVE  o \in Seq(Rows) /\ Len(o) = Total /\ << >> \o SubSeq(o, 1, Total) = o
<1>1. o \in [1 .. Total -> Rows]
    BY OutputsAssumption
<1>2. o \in Seq(Rows) /\ Len(o) = Total
    BY <1>1, TotalAssumption
<1>3. SubSeq(o, 1, Total) = o
    BY <1>1, <1>2, TotalAssumption
<1> QED
    BY <1>2, <1>3

\* The beginning of what it prints is a sequence of rows.
LEMMA PrefixIsSeq ==
    ASSUME NEW o \in Seq(Rows), NEW k \in 0 .. Total, Len(o) = Total
    PROVE  << >> \o SubSeq(o, 1, k) \in Seq(Rows)
<1>1. SubSeq(o, 1, k) \in Seq(Rows)
    BY TotalAssumption
<1> QED
    BY <1>1

LEMMA OrderFacts ==
    /\ Len(Order) \in Nat \ {0}
    /\ Steps = 1 .. Len(Order)
    /\ \A k \in Steps : Order[k] \in Files
    /\ \A f \in Files : \E k \in Steps : Order[k] = f
    /\ \A j, k \in Steps : Order[j] = Order[k] => j = k
<1>1. Len(Order) \in Nat /\ Steps = 1 .. Len(Order)
    BY OrderAssumption
<1>2. Len(Order) # 0
    <2>1. PICK f \in Files : TRUE
        BY FilesAssumption
    <2>2. PICK k \in Steps : Order[k] = f
        BY OrderAssumption
    <2> QED
        BY <1>1, <2>2
<1>3. \A k \in Steps : Order[k] \in Files
    BY <1>1, OrderAssumption
<1> QED
    BY <1>1, <1>2, <1>3, OrderAssumption

LEMMA RawInit == Init => RawInv
<1> SUFFICES ASSUME Init PROVE RawInv
    OBVIOUS
<1> USE DEF Init
<1>1. ASSUME NEW f \in Files
      PROVE  raw[f] \in [lines : Seq(Rows), torn : BOOLEAN, run : 0 .. 0]
    <2>1. CASE raw[f] = Missing
        BY <2>1 DEF Missing
    <2>2. CASE raw # [g \in Files |-> Missing]
        <3>1. raw \in [Files -> {[lines |-> o, torn |-> FALSE, run |-> 0] :
                                     o \in UNION {Outputs(g, 0) : g \in Files}}]
            BY <2>2
        <3>2. raw[f] \in {[lines |-> o, torn |-> FALSE, run |-> 0] :
                             o \in UNION {Outputs(g, 0) : g \in Files}}
            BY <3>1
        <3>3. PICK g \in Files : \E o \in Outputs(g, 0) :
                      raw[f] = [lines |-> o, torn |-> FALSE, run |-> 0]
            BY <3>2
        <3>4. PICK o \in Outputs(g, 0) : raw[f] = [lines |-> o, torn |-> FALSE, run |-> 0]
            BY <3>3
        <3>5. o \in Seq(Rows)
            BY OutputIsSeq, TotalAssumption
        <3> QED
            BY <3>4, <3>5
    <2> QED
        BY <2>1, <2>2
<1>2. raw = [f \in Files |-> raw[f]]
    BY DEF Missing
<1>3. RawType
    BY <1>1, <1>2, OrderFacts, TotalAssumption DEF RawType
<1>4. StepInv
    BY DEF StepInv
<1>5. OlderFilesFollow
    BY <1>1, OrderFacts DEF OlderFilesFollow
<1> QED
    BY <1>3, <1>4, <1>5 DEF RawInv

-----------------------------------------------------------------------------
(* The steps of the script *)

\* Only the file of the step changes, and its run does not.
LEMMA TeeChanges ==
    ASSUME RawInv, script = "run",
           NEW k \in 0 .. Total, NEW torn \in BOOLEAN, Tee(k, torn)
    PROVE  LET lines == << >> \o SubSeq(printing, 1, k)
           IN  /\ lines \in Seq(Rows)
               /\ raw' = [raw EXCEPT ![Order[step]] =
                                [lines |-> lines, torn |-> torn, run |-> run]]
<1> DEFINE f == Order[step]
<1>0. f \in Files /\ run \in 0 .. MaxRuns
    BY OrderFacts DEF RawInv, RawType
<1>1. raw[f] = [lines |-> << >>, torn |-> FALSE, run |-> run]
    BY DEF RawInv, StepInv
<1>2. printing \in Seq(Rows) /\ Len(printing) = Total
    BY <1>0, OutputIsSeq DEF RawInv, StepInv
<1>3. << >> \o SubSeq(printing, 1, k) \in Seq(Rows)
    BY <1>2, PrefixIsSeq
<1>4. raw' = [raw EXCEPT ![f] = [lines |-> << >> \o SubSeq(printing, 1, k),
                                 torn |-> torn, run |-> run]]
    BY <1>0, <1>1 DEF Tee, RawInv, RawType
<1> QED
    BY <1>3, <1>4

\* A file that is not the step's stays as it is, complete or not.
StepFileChanges == raw' = [raw EXCEPT ![Order[step]] = raw'[Order[step]]]

LEMMA OthersStay ==
    ASSUME RawInv, StepFileChanges, NEW j \in Steps, j # step
    PROVE  raw'[Order[j]] = raw[Order[j]] /\ (Complete(Order[j])' <=> Complete(Order[j]))
<1>1. Order[j] # Order[step] /\ Order[j] \in Files
    BY OrderFacts DEF RawInv, RawType
<1>2. raw'[Order[j]] = raw[Order[j]]
    BY <1>1 DEF RawInv, RawType, StepFileChanges
<1> QED
    BY <1>2 DEF Complete

LEMMA StartKeeps == RawInv /\ StartScript => RawInv'
<1> SUFFICES ASSUME RawInv, StartScript PROVE RawInv'
    OBVIOUS
<1> USE DEF StartScript
<1>0. run \in Nat /\ run' = run + 1 /\ raw' = raw /\ run' \in 0 .. MaxRuns
    BY TotalAssumption DEF RawInv, RawType
<1>1. \A f \in Files : raw[f].run \in 0 .. run
    BY DEF RawInv, RawType
<1>2. RawType'
    <2>1. raw \in [Files -> [lines : Seq(Rows), torn : BOOLEAN, run : 0 .. run + 1]]
        BY <1>0 DEF RawInv, RawType
    <2> QED
        BY <2>1, <1>0, OrderFacts DEF RawType
<1>3. StepInv'
    BY <1>0, <1>1, OrderFacts DEF StepInv
<1>4. OlderFilesFollow'
    BY <1>0 DEF RawInv, OlderFilesFollow, Complete
<1> QED
    BY <1>2, <1>3, <1>4 DEF RawInv

LEMMA BuildFailureKeeps == RawInv /\ BuildFails => RawInv'
    BY DEF RawInv, RawType, StepInv, OlderFilesFollow, Complete, BuildFails

\* A new file of the step leaves the files in their order.
LEMMA NewFileKeepsOrder ==
    ASSUME RawInv, script \in {"build", "run"}, run' = run,
           StepFileChanges, raw'[Order[step]].run = run
    PROVE  OlderFilesFollow'
<1>0. step \in Steps /\ Order[step] \in Files /\ run \in Nat
    BY OrderFacts, TotalAssumption DEF RawInv, RawType
<1>1. \A f \in Files : raw[f].run \in Nat
    BY <1>0 DEF RawInv, RawType
<1>2. ASSUME NEW i \in Steps, NEW j \in Steps, i < j
      PROVE  /\ raw'[Order[j]].run <= raw'[Order[i]].run
             /\ raw'[Order[i]].run > 0 /\ ~Complete(Order[i])' =>
                    raw'[Order[j]].run < raw'[Order[i]].run
    <2>0. i \in Nat /\ j \in Nat /\ step \in Nat
        BY <1>0, OrderFacts
    <2>1. CASE i = step
        <3>1. j # step /\ j > step
            BY <2>0, <2>1, <1>2
        <3>2. raw'[Order[j]] = raw[Order[j]]
            BY <3>1, OthersStay
        <3>3. raw[Order[j]].run < run
            BY <3>1 DEF RawInv, StepInv
        <3> QED
            BY <3>2, <3>3, <2>1, <1>0, <1>1, OrderFacts
    <2>2. CASE j = step
        <3>0. i # step /\ i < step
            BY <2>0, <2>2, <1>2
        <3>1. raw'[Order[i]] = raw[Order[i]] /\ (Complete(Order[i])' <=> Complete(Order[i]))
            BY <3>0, OthersStay
        <3>2. raw[Order[i]].run = run /\ Complete(Order[i])
            BY <3>0 DEF RawInv, StepInv, Fresh
        <3> QED
            BY <3>1, <3>2, <2>2, <1>0
    <2>3. CASE i # step /\ j # step
        <3>1. raw'[Order[i]] = raw[Order[i]] /\ (Complete(Order[i])' <=> Complete(Order[i]))
            BY <2>3, OthersStay
        <3>2. raw'[Order[j]] = raw[Order[j]]
            BY <2>3, OthersStay
        <3> QED
            BY <3>1, <3>2, <1>2 DEF RawInv, OlderFilesFollow
    <2> QED
        BY <2>1, <2>2, <2>3
<1> QED
    BY <1>2 DEF OlderFilesFollow

\* Nor does it undo the languages before the step, or touch those after it.
LEMMA NewFileKeepsOthers ==
    ASSUME RawInv, script \in {"build", "run"}, run' = run, StepFileChanges
    PROVE  /\ \A j \in Steps : j < step => Fresh(j)'
           /\ \A j \in Steps : j > step => raw'[Order[j]].run < run
<1>0. step \in Nat /\ \A j \in Steps : j \in Nat
    BY OrderFacts DEF RawInv, RawType
<1>1. ASSUME NEW j \in Steps, j < step PROVE Fresh(j)'
    <2>1. raw'[Order[j]] = raw[Order[j]] /\ (Complete(Order[j])' <=> Complete(Order[j]))
        BY <1>0, <1>1, OthersStay
    <2> QED
        BY <1>1, <2>1 DEF RawInv, StepInv, Fresh
<1>2. ASSUME NEW j \in Steps, j > step PROVE raw'[Order[j]].run < run
    <2>1. raw'[Order[j]] = raw[Order[j]]
        BY <1>0, <1>2, OthersStay
    <2> QED
        BY <1>2, <2>1 DEF RawInv, StepInv
<1> QED
    BY <1>1, <1>2

LEMMA StartProgramKeeps == RawInv /\ StartProgram => RawInv'
<1> SUFFICES ASSUME RawInv, StartProgram PROVE RawInv'
    OBVIOUS
<1> DEFINE x == [lines |-> << >>, torn |-> FALSE, run |-> run]
<1> USE DEF StartProgram
<1>0. step \in Steps /\ Order[step] \in Files /\ run \in Nat /\ run \in 0 .. MaxRuns
    BY OrderFacts, TotalAssumption DEF RawInv, RawType
<1>1. raw' = [raw EXCEPT ![Order[step]] = x] /\ run' = run /\ step' = step
    OBVIOUS
<1>2. raw'[Order[step]] = x /\ StepFileChanges
    BY <1>0, <1>1 DEF RawInv, RawType, StepFileChanges
<1>3. RawType'
    <2>1. x \in [lines : Seq(Rows), torn : BOOLEAN, run : 0 .. run]
        BY <1>0
    <2> QED
        BY <2>1, <1>0, <1>1 DEF RawInv, RawType
<1>4. OlderFilesFollow'
    BY <1>1, <1>2, NewFileKeepsOrder
<1>5. StepInv'
    BY <1>1, <1>2, NewFileKeepsOthers DEF StepInv
<1> QED
    BY <1>3, <1>4, <1>5 DEF RawInv

LEMMA ProgramEndsKeeps == RawInv /\ ProgramEnds => RawInv'
<1> SUFFICES ASSUME RawInv, ProgramEnds PROVE RawInv'
    OBVIOUS
<1> DEFINE x == [lines |-> printing, torn |-> FALSE, run |-> run]
<1> USE DEF ProgramEnds
<1>0. /\ step \in Steps /\ Order[step] \in Files /\ run \in Nat /\ run \in 0 .. MaxRuns
      /\ run' = run
    BY OrderFacts, TotalAssumption DEF RawInv, RawType
<1>1. printing \in Outputs(Order[step], run)
    BY DEF RawInv, StepInv
<1>2. printing \in Seq(Rows) /\ << >> \o SubSeq(printing, 1, Total) = printing
    BY <1>0, <1>1, OutputIsSeq
<1>3. raw' = [raw EXCEPT ![Order[step]] = x]
    <2>1. Total \in 0 .. Total
        BY TotalAssumption
    <2>2. Tee(Total, FALSE) /\ script = "run"
        OBVIOUS
    <2> QED
        BY <2>1, <2>2, <1>2, TeeChanges
<1>4. raw'[Order[step]] = x /\ StepFileChanges
    BY <1>0, <1>3 DEF RawInv, RawType, StepFileChanges
<1>5. OlderFilesFollow'
    BY <1>0, <1>4, NewFileKeepsOrder
<1>6. /\ \A j \in Steps : j < step => Fresh(j)'
      /\ \A j \in Steps : j > step => raw'[Order[j]].run < run
    BY <1>0, <1>4, NewFileKeepsOthers
<1>7. ASSUME NEW j \in Steps, j = step PROVE Fresh(j)'
    BY <1>0, <1>1, <1>4, <1>7 DEF Fresh, Complete
<1>8. RawType'
    <2>1. x \in [lines : Seq(Rows), torn : BOOLEAN, run : 0 .. run]
        BY <1>0, <1>2
    <2>2. step' \in Steps /\ script' \in {"ok", "build"}
        BY <1>0, OrderFacts DEF NextLanguage
    <2> QED
        BY <2>1, <2>2, <1>0, <1>3 DEF RawInv, RawType
<1>9. StepInv'
    <2>0. \A j \in Steps : j = step \/ j < step => Fresh(j)'
        BY <1>6, <1>7
    <2>1. CASE step = Len(Order)
        <3>1. \A j \in Steps : j = step \/ j < step
            BY <2>1, OrderFacts
        <3> QED
            BY <3>1, <2>1, <2>0 DEF StepInv, NextLanguage
    <2>2. CASE step # Len(Order)
        <3>1. step' = step + 1 /\ script' = "build" /\ step' \in Steps /\ step' > step
            BY <2>2, <1>0, OrderFacts DEF NextLanguage
        <3>2. \A j \in Steps : j < step' => j = step \/ j < step
            BY <3>1, <1>0, OrderFacts
        <3>3. \A j \in Steps : j > step' => j > step
            BY <3>1, <1>0, OrderFacts
        <3> QED
            <4>1. \A j \in Steps : j < step' => Fresh(j)'
                BY <3>2, <2>0
            <4>2. \A j \in Steps : j > step' => raw'[Order[j]].run < run'
                BY <3>3, <1>0, <1>6
            <4>3. raw'[Order[step']].run < run'
                BY <3>1, <1>0, <1>6
            <4> QED
                BY <3>1, <4>1, <4>2, <4>3 DEF StepInv
    <2> QED
        BY <2>1, <2>2
<1> QED
    BY <1>5, <1>8, <1>9 DEF RawInv

LEMMA ProgramFailsKeeps == RawInv /\ ProgramFails => RawInv'
<1> SUFFICES ASSUME RawInv, ProgramFails PROVE RawInv'
    OBVIOUS
<1> USE DEF ProgramFails
<1>0. /\ step \in Steps /\ Order[step] \in Files /\ run \in Nat /\ run \in 0 .. MaxRuns
      /\ run' = run /\ step' = step /\ script' = "failed" /\ script = "run"
    BY OrderFacts, TotalAssumption DEF RawInv, RawType
<1>1. PICK k \in 0 .. Total, torn \in BOOLEAN : Tee(k, torn)
    OBVIOUS
<1> DEFINE L == << >> \o SubSeq(printing, 1, k)
           x == [lines |-> L, torn |-> torn, run |-> run]
<1>2. L \in Seq(Rows) /\ raw' = [raw EXCEPT ![Order[step]] = x]
    BY <1>0, <1>1, TeeChanges
<1> HIDE DEF L
<1>3. raw'[Order[step]] = x /\ StepFileChanges
    BY <1>0, <1>2 DEF RawInv, RawType, StepFileChanges
<1>4. OlderFilesFollow'
    BY <1>0, <1>3, NewFileKeepsOrder
<1>5. RawType'
    <2>1. x \in [lines : Seq(Rows), torn : BOOLEAN, run : 0 .. run]
        BY <1>0, <1>2
    <2> QED
        BY <2>1, <1>0, <1>2 DEF RawInv, RawType
<1>6. StepInv'
    BY <1>0 DEF StepInv
<1> QED
    BY <1>4, <1>5, <1>6 DEF RawInv

LEMMA RawNext == RawInv /\ [Next]_scriptVars => RawInv'
<1> SUFFICES ASSUME RawInv, [Next]_scriptVars PROVE RawInv'
    OBVIOUS
<1>1. CASE Next
    BY <1>1, StartKeeps, BuildFailureKeeps, StartProgramKeeps, ProgramEndsKeeps,
       ProgramFailsKeeps DEF Next, ScriptStep
<1>2. CASE UNCHANGED scriptVars
    BY <1>2 DEF RawInv, RawType, StepInv, OlderFilesFollow, Fresh, Complete, scriptVars
<1> QED
    BY <1>1, <1>2

LEMMA RawInvariant == Spec => []RawInv
    BY RawInit, RawNext, PTL DEF Spec

-----------------------------------------------------------------------------
(* The pipeline *)

\* build_and_run.sh is the only one that writes raw files: as far as it is
\* concerned, the pipeline takes steps of the script or none, whatever is run
\* by hand in between.
THEOREM PipelineRunsScript == PipelineSpec => Spec
<1>1. PipelineInit => Init
    BY DEF PipelineInit
<1>2. [PipelineNext]_vars => [Next]_scriptVars
    <2> SUFFICES ASSUME [PipelineNext]_vars PROVE [Next]_scriptVars
        OBVIOUS
    <2>1. CASE StartChain
        BY <2>1 DEF StartChain, Next
    <2>2. CASE AndAggregate \/ AndPlot \/ ChainEnds \/ ByHand
        BY <2>2 DEF AndAggregate, AndPlot, ChainEnds, ByHand, StartAggregate, StartPlot
    <2>3. CASE BuildStep
        BY <2>3 DEF BuildStep, Next
    <2>4. CASE AggregateStep
        BY <2>4 DEF AggregateStep, A!AggregateStep, A!Load, A!Group, A!WriteFirehose,
                    A!WriteCapacity, scriptVars
    <2>5. CASE PlotStep
        BY <2>5 DEF PlotStep
    <2>6. CASE UNCHANGED vars
        BY <2>6 DEF vars
    <2> QED
        BY <2>1, <2>2, <2>3, <2>4, <2>5, <2>6 DEF PipelineNext
<1> QED
    BY <1>1, <1>2, PTL DEF PipelineSpec, Spec

\* Status 0 means that every raw file is complete and of this run, for any
\* number of languages and whatever they print (set -euo pipefail).
THEOREM OkMeansFresh == PipelineSpec => []ScriptOkMeansFresh
<1>1. RawInv => ScriptOkMeansFresh
    <2> SUFFICES ASSUME RawInv, script = "ok", NEW f \in Files
                 PROVE  raw[f].run = run /\ Complete(f)
        BY DEF ScriptOkMeansFresh
    <2>1. PICK j \in Steps : Order[j] = f
        BY OrderFacts
    <2> QED
        BY <2>1 DEF RawInv, StepInv, Fresh
<1> QED
    BY <1>1, RawInvariant, PipelineRunsScript, PTL

\* Whatever failed and however often: the raw files get older in the order of
\* the script, strictly so after one that is incomplete.
THEOREM RawFilesInOrder == PipelineSpec => []OlderFilesFollow
<1>1. RawInv => OlderFilesFollow
    BY DEF RawInv
<1> QED
    BY <1>1, RawInvariant, PipelineRunsScript, PTL

-----------------------------------------------------------------------------
(* The charts.  plot_charts.py finds the CSV files it started with until it *)
(* ends, since no other script runs; so what it has checked before a chart *)
(* is drawn still holds of the next one.                                   *)

PlottingAlone == plot # "off" => agg \in {"off", "ok", "died"}

ThreeCharts ==
    charts = [throughput |-> charts.throughput, latency |-> charts.latency,
              capacity |-> charts.capacity]

DrawnFromCsv ==
    /\ plot \in {"latency", "capacity", "ok"} =>
           C!AllBars(csv.firehose) /\ charts.throughput = C!Bars(csv.firehose)
    /\ plot \in {"capacity", "ok"} =>
           /\ charts.latency = C!Bars(csv.firehose)
           /\ \A s \in C!Bars(csv.firehose) : s.latency

ChartInv == PlottingAlone /\ ThreeCharts /\ DrawnFromCsv

LEMMA ChartNext == ChartInv /\ [PipelineNext]_vars => ChartInv'
<1> SUFFICES ASSUME ChartInv, [PipelineNext]_vars PROVE ChartInv'
    OBVIOUS
<1> USE DEF ChartInv, PlottingAlone, ThreeCharts, DrawnFromCsv
<1>1. CASE StartChain
    BY <1>1 DEF StartChain, ForgetAggregate, ForgetPlot
<1>2. CASE AndAggregate
    BY <1>2 DEF AndAggregate, StartAggregate, ForgetPlot
<1>3. CASE AndPlot
    BY <1>3 DEF AndPlot, StartPlot, C!StartPlot, aggVars
<1>4. CASE ByHand
    BY <1>4 DEF ByHand, Idle, StartAggregate, ForgetPlot, StartPlot, C!StartPlot, aggVars
<1>5. CASE ChainEnds \/ BuildStep \/ UNCHANGED vars
    <2>1. UNCHANGED <<agg, csv, plot, charts>>
        BY <1>5 DEF ChainEnds, BuildStep, aggVars, plotVars, vars
    <2> QED
        BY <2>1
<1>6. CASE AggregateStep
    <2>1. UNCHANGED <<plot, charts>> /\ agg \in {"load", "group", "write", "write2"}
        BY <1>6 DEF AggregateStep, plotVars, A!AggregateStep, A!Load, A!Group,
                    A!WriteFirehose, A!WriteCapacity
    <2> QED
        BY <2>1
<1>7. CASE PlotStep
    <2>1. UNCHANGED <<agg, csv>> /\ plot # "off"
        BY <1>7 DEF PlotStep, aggVars, C!PlotStep, C!PlotThroughput, C!PlotLatency,
                    C!PlotCapacity
    <2>2. CASE C!PlotThroughput
        BY <2>1, <2>2 DEF C!PlotThroughput
    <2>3. CASE C!PlotLatency
        BY <2>1, <2>3 DEF C!PlotLatency
    <2>4. CASE C!PlotCapacity
        BY <2>1, <2>4 DEF C!PlotCapacity
    <2> QED
        BY <1>7, <2>2, <2>3, <2>4 DEF PlotStep, C!PlotStep
<1> QED
    BY <1>1, <1>2, <1>3, <1>4, <1>5, <1>6, <1>7 DEF PipelineNext

\* Charts drawn without an error show every labelled variant in every
\* configuration, and throughput and latency of the same rows, for any labels,
\* whatever the scripts before left and in whatever order they were run.
THEOREM ChartsNeverPartial == PipelineSpec => []ChartsComplete
<1>1. PipelineInit => ChartInv
    BY DEF PipelineInit, ChartInv, PlottingAlone, ThreeCharts, DrawnFromCsv
<1>2. ChartInv => ChartsComplete
    <2> SUFFICES ASSUME ChartInv, plot = "ok"
                 PROVE  /\ charts.throughput = charts.latency
                        /\ \A v \in Labels, c \in C!ChartConfigs :
                               \E s \in charts.latency : s.variant = v /\ s.config = c /\ s.latency
        BY DEF ChartsComplete
    <2>1. /\ charts.throughput = C!Bars(csv.firehose) /\ charts.latency = C!Bars(csv.firehose)
          /\ C!AllBars(csv.firehose) /\ \A s \in C!Bars(csv.firehose) : s.latency
        BY DEF ChartInv, DrawnFromCsv
    <2>2. ASSUME NEW v \in Labels, NEW c \in C!ChartConfigs
          PROVE  \E s \in charts.latency : s.variant = v /\ s.config = c /\ s.latency
        <3>1. PICK s \in csv.firehose : s.variant = v /\ s.config = c
            BY <2>1, <2>2 DEF C!AllBars
        <3>2. s \in C!Bars(csv.firehose)
            BY <2>2, <3>1 DEF C!Bars
        <3> QED
            BY <2>1, <3>1, <3>2
    <2> QED
        BY <2>1, <2>2
<1> QED
    BY <1>1, <1>2, ChartNext, PTL DEF PipelineSpec

-----------------------------------------------------------------------------
(* Types *)

LinesFit ==
    \A f \in Files : /\ Len(raw[f].lines) <= Total
                     /\ raw[f].torn => Len(raw[f].lines) < Total

Parts ==
    /\ agg = "off" \/ script \notin {"build", "run"}
    /\ chain \in {"none", "build", "aggregate", "plot", "done"}

LEMMA LinesInit == Init => LinesFit
<1> SUFFICES ASSUME Init, NEW f \in Files
             PROVE  Len(raw[f].lines) <= Total /\ (raw[f].torn => Len(raw[f].lines) < Total)
    BY DEF LinesFit
<1>1. CASE raw[f] = Missing
    BY <1>1, TotalAssumption DEF Missing
<1>2. CASE Complete(f) /\ ~(raw[f] = Missing)
    <2>1. RawInv
        BY RawInit
    <2>2. raw[f].run = 0 /\ 0 \in 0 .. MaxRuns
        BY <2>1, TotalAssumption DEF RawInv, RawType, Init
    <2>3. Len(raw[f].lines) = Total
        BY <1>2, <2>2, OutputIsSeq DEF Complete
    <2> QED
        BY <1>2, <2>3, TotalAssumption DEF Complete
<1> QED
    BY <1>1, <1>2 DEF Init

LEMMA LinesNext == RawInv /\ LinesFit /\ [Next]_scriptVars => LinesFit'
<1> SUFFICES ASSUME RawInv, LinesFit, [Next]_scriptVars PROVE LinesFit'
    OBVIOUS
<1>0. step \in Steps /\ Order[step] \in Files /\ run \in 0 .. MaxRuns
    BY OrderFacts DEF RawInv, RawType
<1>1. CASE UNCHANGED raw
    BY <1>1 DEF LinesFit
<1>2. ASSUME NEW L, NEW t, raw' = [raw EXCEPT ![Order[step]] =
                                      [lines |-> L, torn |-> t, run |-> run]],
             Len(L) <= Total, t => Len(L) < Total
      PROVE  LinesFit'
    BY <1>0, <1>2 DEF LinesFit, RawInv, RawType
<1>3. CASE StartProgram
    <2>1. Len(<< >>) <= Total
        BY TotalAssumption
    <2> QED
        BY <1>2, <1>3, <2>1 DEF StartProgram
<1>4. ASSUME script = "run", NEW k \in 0 .. Total, NEW t \in BOOLEAN,
             t => k < Total, Tee(k, t)
      PROVE  LinesFit'
    <2>1. printing \in Seq(Rows) /\ Len(printing) = Total
        BY <1>0, <1>4, OutputIsSeq DEF RawInv, StepInv
    <2>2. Len(SubSeq(printing, 1, k)) = k /\ SubSeq(printing, 1, k) \in Seq(Rows)
        BY <2>1, TotalAssumption
    <2>3. Len(<< >> \o SubSeq(printing, 1, k)) = k
        BY <2>2
    <2>4. k <= Total
        BY TotalAssumption
    <2> QED
        BY <1>2, <1>4, <2>3, <2>4, TeeChanges
<1>5. CASE ProgramEnds
    <2>1. Total \in 0 .. Total
        BY TotalAssumption
    <2> QED
        BY <1>4, <1>5, <2>1 DEF ProgramEnds
<1>6. CASE ProgramFails
    BY <1>4, <1>6 DEF ProgramFails
<1> QED
    BY <1>1, <1>3, <1>5, <1>6 DEF Next, StartScript, ScriptStep, BuildFails, scriptVars

LEMMA LinesInvariant == Spec => [](RawInv /\ LinesFit)
<1>1. Init => RawInv /\ LinesFit
    BY RawInit, LinesInit
<1>2. RawInv /\ LinesFit /\ [Next]_scriptVars => (RawInv /\ LinesFit)'
    BY RawNext, LinesNext
<1> QED
    BY <1>1, <1>2, PTL DEF Spec

LEMMA PartsNext == Parts /\ [PipelineNext]_vars => Parts'
<1> SUFFICES ASSUME Parts, [PipelineNext]_vars PROVE Parts'
    OBVIOUS
<1> USE DEF Parts
<1>1. CASE StartChain
    BY <1>1 DEF StartChain, ForgetAggregate
<1>2. CASE AndAggregate
    BY <1>2 DEF AndAggregate, StartAggregate, scriptVars
<1>3. CASE AndPlot \/ ChainEnds
    BY <1>3 DEF AndPlot, StartPlot, ChainEnds, scriptVars, aggVars
<1>4. CASE ByHand
    BY <1>4 DEF ByHand, Idle, StartAggregate, StartPlot, scriptVars, aggVars
<1>5. CASE BuildStep
    BY <1>5 DEF BuildStep, ScriptStep, BuildFails, StartProgram, ProgramEnds, ProgramFails, aggVars
<1>6. CASE AggregateStep
    BY <1>6 DEF AggregateStep, A!AggregateStep, A!Load, A!Group, A!WriteFirehose,
                A!WriteCapacity
<1>7. CASE PlotStep \/ UNCHANGED vars
    BY <1>7 DEF PlotStep, scriptVars, aggVars, vars
<1> QED
    BY <1>1, <1>2, <1>3, <1>4, <1>5, <1>6, <1>7 DEF PipelineNext

\* The three scripts never run at the same time, and every raw file has at
\* most the rows of one run, fewer if it ends in a torn line.
THEOREM PipelineTypeCorrect == PipelineSpec => []PipelineTypeOK
<1>1. PipelineInit => ChartInv /\ Parts
    BY DEF PipelineInit, Init, ChartInv, PlottingAlone, ThreeCharts, DrawnFromCsv, Parts
<1>2. RawInv /\ LinesFit /\ ChartInv /\ Parts => PipelineTypeOK
    BY DEF RawInv, RawType, LinesFit, ChartInv, PlottingAlone, Parts, PipelineTypeOK
<1> QED
    BY <1>1, <1>2, ChartNext, PartsNext, LinesInvariant, PipelineRunsScript, PTL
       DEF PipelineSpec

-----------------------------------------------------------------------------
(* What is averaged *)

\* Row x is one that file f's program may print in run r.
PrintedBy(x, f, r) == \E o \in Outputs(f, r) : \E k \in 1 .. Total : x = o[k]

\* A raw file holds rows of its own program, of the run that wrote it.
RawPrinted ==
    \A f \in Files : \A i \in DOMAIN raw[f].lines : PrintedBy(raw[f].lines[i], f, raw[f].run)

LEMMA PrintedInit == Init => RawPrinted
<1> SUFFICES ASSUME Init, NEW f \in Files, NEW i \in DOMAIN raw[f].lines
             PROVE  PrintedBy(raw[f].lines[i], f, raw[f].run)
    BY DEF RawPrinted
<1>1. raw[f] # Missing
    BY DEF Missing
<1>2. raw[f].lines \in Outputs(f, raw[f].run) /\ raw[f].run \in 0 .. MaxRuns
    BY <1>1, RawInit, TotalAssumption DEF Init, Complete, RawInv, RawType
<1>3. i \in 1 .. Total
    BY <1>2, OutputsAssumption
<1> QED
    BY <1>2, <1>3 DEF PrintedBy

LEMMA PrintedNext == RawInv /\ RawPrinted /\ [Next]_scriptVars => RawPrinted'
<1> SUFFICES ASSUME RawInv, RawPrinted, [Next]_scriptVars PROVE RawPrinted'
    OBVIOUS
<1>0. step \in Steps /\ Order[step] \in Files /\ run \in 0 .. MaxRuns
    BY OrderFacts DEF RawInv, RawType
<1>1. CASE UNCHANGED raw
    BY <1>1 DEF RawPrinted
<1>2. ASSUME NEW L, NEW t, raw' = [raw EXCEPT ![Order[step]] =
                                      [lines |-> L, torn |-> t, run |-> run]],
             \A i \in DOMAIN L : PrintedBy(L[i], Order[step], run)
      PROVE  RawPrinted'
    <2> SUFFICES ASSUME NEW f \in Files, NEW i \in DOMAIN raw'[f].lines
                 PROVE  PrintedBy(raw'[f].lines[i], f, raw'[f].run)
        BY DEF RawPrinted, PrintedBy
    <2>1. CASE f = Order[step]
        BY <1>0, <1>2, <2>1 DEF RawInv, RawType
    <2>2. CASE f # Order[step]
        <3>1. raw'[f] = raw[f]
            BY <1>0, <1>2, <2>2 DEF RawInv, RawType
        <3> QED
            BY <3>1 DEF RawPrinted
    <2> QED
        BY <2>1, <2>2
<1>3. CASE StartProgram
    <2>1. \A i \in DOMAIN << >> : PrintedBy(<< >>[i], Order[step], run)
        OBVIOUS
    <2>2. raw' = [raw EXCEPT ![Order[step]] = [lines |-> << >>, torn |-> FALSE, run |-> run]]
        BY <1>3 DEF StartProgram
    <2> QED
        BY <1>2, <2>1, <2>2
<1>4. ASSUME script = "run", NEW k \in 0 .. Total, NEW t \in BOOLEAN, Tee(k, t)
      PROVE  RawPrinted'
    <2> DEFINE L == << >> \o SubSeq(printing, 1, k)
    <2>1. printing \in Seq(Rows) /\ Len(printing) = Total /\ printing \in Outputs(Order[step], run)
        BY <1>0, <1>4, OutputIsSeq DEF RawInv, StepInv
    <2>2. SubSeq(printing, 1, k) \in Seq(Rows) /\ Len(SubSeq(printing, 1, k)) = k
        BY <2>1, TotalAssumption
    <2>3. L = SubSeq(printing, 1, k)
        BY <2>2
    <2>4. DOMAIN L = 1 .. k /\ \A i \in 1 .. k : i \in 1 .. Total /\ L[i] = printing[i]
        BY <2>1, <2>2, <2>3, TotalAssumption
    <2> HIDE DEF L
    <2>5. \A i \in DOMAIN L : PrintedBy(L[i], Order[step], run)
        BY <2>1, <2>4 DEF PrintedBy
    <2> QED
        BY <1>2, <1>4, <2>5, TeeChanges DEF L
<1>5. CASE ProgramEnds
    <2>1. Total \in 0 .. Total
        BY TotalAssumption
    <2> QED
        BY <1>4, <1>5, <2>1 DEF ProgramEnds
<1>6. CASE ProgramFails
    BY <1>4, <1>6 DEF ProgramFails
<1> QED
    BY <1>1, <1>3, <1>5, <1>6 DEF Next, StartScript, ScriptStep, BuildFails, scriptVars

LEMMA PrintedInvariant == Spec => [](RawInv /\ RawPrinted)
<1>1. Init => RawInv /\ RawPrinted
    BY RawInit, PrintedInit
<1>2. RawInv /\ RawPrinted /\ [Next]_scriptVars => (RawInv /\ RawPrinted)'
    BY RawNext, PrintedNext
<1> QED
    BY <1>1, <1>2, PTL DEF Spec

\* All lines: those of the raw files and no others.
LEMMA LinesOfFiles ==
    ASSUME RawInv
    PROVE  /\ AllLines \in Seq(Rows)
           /\ \A p \in DOMAIN AllLines : \E f \in Files : \E i \in DOMAIN raw[f].lines :
                  AllLines[p] = raw[f].lines[i]
           /\ \A f \in Files : \A i \in DOMAIN raw[f].lines : \E p \in DOMAIN AllLines :
                  AllLines[p] = raw[f].lines[i]
<1> DEFINE ss == [f \in Files |-> raw[f].lines]
<1>1. Cardinality(Files) \in Nat /\ Files = 1 .. Cardinality(Files)
    BY FilesAssumption, FS_CardinalityType
<1>2. ss \in [Files -> Seq(Rows)] /\ \A f \in Files : ss[f] = raw[f].lines
    BY DEF RawInv, RawType
<1>3. A!FlattenSeq(ss) = FlattenSeq(ss)
    BY Zenon DEF A!FlattenSeq, FlattenSeq
<1>4. AllLines = FlattenSeq(ss)
    BY <1>3 DEF AllLines
<1> HIDE DEF ss
<1>5. ss \in Seq(Seq(Rows)) /\ Len(ss) = Cardinality(Files)
    BY <1>1, <1>2
<1>6. Flattened(AllLines, ss, Len(ss), Rows)
    BY <1>4, <1>5, FlattenElements
<1>7. AllLines \in Seq(Rows)
    BY <1>6 DEF Flattened
<1>8. ASSUME NEW p \in DOMAIN AllLines
      PROVE  \E f \in Files : \E i \in DOMAIN raw[f].lines : AllLines[p] = raw[f].lines[i]
    <2>1. PICK f \in 1 .. Len(ss) : \E i \in DOMAIN ss[f] : AllLines[p] = ss[f][i]
        BY <1>6 DEF Flattened
    <2>2. f \in Files /\ ss[f] = raw[f].lines
        BY <1>1, <1>2, <1>5
    <2> QED
        BY <2>1, <2>2
<1>9. ASSUME NEW f \in Files, NEW i \in DOMAIN raw[f].lines
      PROVE  \E p \in DOMAIN AllLines : AllLines[p] = raw[f].lines[i]
    <2>1. f \in 1 .. Len(ss) /\ ss[f] = raw[f].lines
        BY <1>1, <1>2, <1>5
    <2>2. \A j \in DOMAIN ss[f] : \E p \in DOMAIN AllLines : AllLines[p] = ss[f][j]
        BY <1>6, <2>1 DEF Flattened
    <2> QED
        BY <2>1, <2>2
<1> QED
    BY <1>7, <1>8, <1>9

\* Rows with the same label are of one run.
LabelsOneRun(rs) ==
    \A i, j \in DOMAIN rs : A!Variant(rs[i]) = A!Variant(rs[j]) => rs[i].run = rs[j].run

LEMMA LinesOneRun == RawInv /\ RawPrinted => LabelsOneRun(AllLines)
<1> SUFFICES ASSUME RawInv, RawPrinted, NEW p \in DOMAIN AllLines, NEW q \in DOMAIN AllLines,
                    A!Variant(AllLines[p]) = A!Variant(AllLines[q])
             PROVE  AllLines[p].run = AllLines[q].run
    BY DEF LabelsOneRun
<1>1. PICK f \in Files : PrintedBy(AllLines[p], f, raw[f].run)
    BY LinesOfFiles DEF RawPrinted
<1>2. PICK g \in Files : PrintedBy(AllLines[q], g, raw[g].run)
    BY LinesOfFiles DEF RawPrinted
<1>3. raw[f].run \in 0 .. MaxRuns /\ raw[g].run \in 0 .. MaxRuns
    BY TotalAssumption DEF RawInv, RawType
<1>4. f = g
    BY <1>1, <1>2, <1>3, LabelsDiffer DEF PrintedBy
<1>5. AllLines[p].run = raw[f].run /\ AllLines[q].run = raw[g].run
    BY <1>1, <1>2, <1>3, ProgramsAssumption DEF PrintedBy
<1> QED
    BY <1>4, <1>5

Computed(rs) == [firehose |-> A!FirehoseSummary(rs), capacity |-> A!CapacitySummary(rs)]
RowsComputed(rs) == A!FirehoseSummary(rs) \union A!CapacitySummary(rs)

\* A summary row of rs is of the rows of rs that have the key of one of them.
LEMMA SummaryRowOf ==
    ASSUME NEW rs, NEW s \in RowsComputed(rs)
    PROVE  \E p \in DOMAIN rs : s.of = A!Trials(rs, A!Key(rs[p]))
<1>1. \A k, t : A!FirehoseRow(k, t).of = t /\ A!CapacityRow(k, t).of = t
    BY DEF A!FirehoseRow, A!CapacityRow
<1>2. CASE s \in A!FirehoseSummary(rs)
    <2>1. PICK k \in A!Keys(rs, A!FirehoseConfigs) : s = A!FirehoseRow(k, A!Trials(rs, k))
        BY <1>2 DEF A!FirehoseSummary
    <2> QED
        BY <1>1, <2>1 DEF A!Keys
<1>3. CASE s \in A!CapacitySummary(rs)
    <2>1. PICK k \in A!Keys(rs, A!CapacityConfigs) : s = A!CapacityRow(k, A!Trials(rs, k))
        BY <1>3 DEF A!CapacitySummary
    <2> QED
        BY <1>1, <2>1 DEF A!Keys
<1> QED
    BY <1>2, <1>3 DEF RowsComputed

LEMMA SummaryOneRun ==
    ASSUME NEW rs, LabelsOneRun(rs), NEW s \in RowsComputed(rs),
           NEW i \in DOMAIN s.of, NEW j \in DOMAIN s.of
    PROVE  s.of[i].run = s.of[j].run
<1>1. PICK p \in DOMAIN rs : s.of = A!Trials(rs, A!Key(rs[p]))
    BY SummaryRowOf
<1>2. /\ i \in DOMAIN rs /\ s.of[i] = rs[i] /\ A!Key(rs[i]) = A!Key(rs[p])
      /\ j \in DOMAIN rs /\ s.of[j] = rs[j] /\ A!Key(rs[j]) = A!Key(rs[p])
    BY <1>1 DEF A!Trials
<1>3. A!Variant(rs[i]) = A!Variant(rs[j])
    BY <1>2 DEF A!Key
<1> QED
    BY <1>2, <1>3 DEF LabelsOneRun

\* Every row of a known configuration is in the summary of its kind.
LEMMA RowIsSummarised ==
    ASSUME NEW rs, NEW p \in DOMAIN rs
    PROVE  /\ rs[p].config \in A!FirehoseConfigs =>
                  \E s \in A!FirehoseSummary(rs) : rs[p] \in A!Range(s.of)
           /\ rs[p].config \in A!CapacityConfigs =>
                  \E s \in A!CapacitySummary(rs) : rs[p] \in A!Range(s.of)
<1> DEFINE k == A!Key(rs[p])
           t == A!Trials(rs, k)
<1>1. rs[p] \in A!Range(t)
    BY DEF A!Trials, A!Range
<1>2. A!FirehoseRow(k, t).of = t /\ A!CapacityRow(k, t).of = t
    BY DEF A!FirehoseRow, A!CapacityRow
<1>3. rs[p].config \in A!FirehoseConfigs => A!FirehoseRow(k, t) \in A!FirehoseSummary(rs)
    BY DEF A!FirehoseSummary, A!Keys
<1>4. rs[p].config \in A!CapacityConfigs => A!CapacityRow(k, t) \in A!CapacitySummary(rs)
    BY DEF A!CapacitySummary, A!Keys
<1> QED
    BY <1>1, <1>2, <1>3, <1>4

\* While aggregate.py runs, and after it, until another script starts, its rows
\* are those of the raw files, and the CSV files it has written are its summaries.
Averaged ==
    /\ csv = [firehose |-> csv.firehose, capacity |-> csv.capacity]
    /\ TrialsOfOneRun
    /\ agg \in {"group", "write", "write2", "ok"} => loaded = AllLines
    /\ agg \in {"write", "write2", "ok"} => summaries = Computed(AllLines)
    /\ agg \in {"write2", "ok"} /\ summaries.firehose # {} =>
           csv.firehose = summaries.firehose
    /\ agg = "ok" /\ summaries.capacity # {} => csv.capacity = summaries.capacity

LEMMA ComputedOneRun ==
    ASSUME RawInv, RawPrinted, NEW s \in RowsComputed(AllLines)
    PROVE  \A i, j \in DOMAIN s.of : s.of[i].run = s.of[j].run
BY LinesOneRun, SummaryOneRun

LEMMA AveragedInit == PipelineInit => Averaged
<1> SUFFICES ASSUME PipelineInit PROVE Averaged
    OBVIOUS
<1>1. RawInv /\ RawPrinted
    BY RawInit, PrintedInit DEF PipelineInit
<1>2. csv = Computed(AllLines)
    BY DEF PipelineInit, Computed
<1>3. TrialsOfOneRun
    BY <1>1, <1>2, ComputedOneRun DEF TrialsOfOneRun, SummaryRows, RowsComputed, Computed
<1> QED
    BY <1>2, <1>3 DEF PipelineInit, Averaged, Computed

LEMMA AveragedNext ==
    RawInv /\ RawPrinted /\ Parts /\ Averaged /\ [PipelineNext]_vars => Averaged'
<1> SUFFICES ASSUME RawInv, RawPrinted, Parts, Averaged, [PipelineNext]_vars PROVE Averaged'
    OBVIOUS
<1>1. ASSUME csv' = csv PROVE /\ csv' = [firehose |-> csv'.firehose, capacity |-> csv'.capacity]
                              /\ TrialsOfOneRun'
    BY <1>1 DEF Averaged, TrialsOfOneRun, SummaryRows
<1>2. ASSUME csv' = csv, agg' \in {"off", "load", "died"} PROVE Averaged'
    BY <1>1, <1>2 DEF Averaged
<1>3. ASSUME UNCHANGED <<raw, agg, loaded, summaries, csv>> PROVE Averaged'
    <2>1. AllLines' = AllLines
        BY <1>3 DEF AllLines
    <2> QED
        BY <1>1, <1>3, <2>1 DEF Averaged, Computed
<1>4. CASE StartChain
    BY <1>2, <1>4 DEF StartChain, ForgetAggregate
<1>5. CASE AndAggregate
    BY <1>2, <1>5 DEF AndAggregate, StartAggregate
<1>6. CASE AndPlot \/ ChainEnds \/ PlotStep \/ UNCHANGED vars
    BY <1>3, <1>6 DEF AndPlot, StartPlot, C!StartPlot, ChainEnds, PlotStep, C!PlotStep,
       C!PlotThroughput, C!PlotLatency, C!PlotCapacity, vars, scriptVars, aggVars
<1>7. CASE ByHand
    BY <1>2, <1>3, <1>7 DEF ByHand, StartAggregate, StartPlot, C!StartPlot, scriptVars, aggVars
<1>8. CASE BuildStep
    <2>1. agg = "off"
        BY <1>8 DEF BuildStep, ScriptStep, BuildFails, StartProgram, ProgramEnds, ProgramFails,
           Parts
    <2> QED
        BY <1>2, <1>8, <2>1 DEF BuildStep, aggVars
<1>9. CASE AggregateStep
    <2>1. raw' = raw /\ AllLines' = AllLines
        BY <1>9 DEF AggregateStep, A!AggregateStep, A!Load, A!Group, A!WriteFirehose,
           A!WriteCapacity, AllLines
    <2>2. CASE A!Load
        BY <1>1, <1>2, <2>1, <2>2 DEF A!Load, Averaged, AllLines
    <2>3. CASE A!Group
        BY <1>1, <1>2, <2>1, <2>3 DEF A!Group, Averaged, Computed
    <2>4. CASE A!WriteFirehose
        <3>1. /\ agg = "write" /\ agg' = "write2" /\ UNCHANGED <<loaded, summaries>>
              /\ csv' = IF summaries.firehose = {} THEN csv
                        ELSE [csv EXCEPT !.firehose = summaries.firehose]
            BY <2>4 DEF A!WriteFirehose, A!working
        <3>2. summaries = Computed(AllLines) /\ summaries' = summaries /\ loaded = AllLines
            BY <3>1 DEF Averaged
        <3>3. /\ csv' = [firehose |-> csv'.firehose, capacity |-> csv'.capacity]
              /\ csv'.firehose \in {csv.firehose, A!FirehoseSummary(AllLines)}
              /\ csv'.capacity = csv.capacity
              /\ summaries.firehose # {} => csv'.firehose = summaries.firehose
            BY <3>1, <3>2 DEF Averaged, Computed
        <3>4. TrialsOfOneRun'
            BY <3>3, ComputedOneRun DEF TrialsOfOneRun, SummaryRows, RowsComputed, Averaged
        <3> QED
            BY <2>1, <3>1, <3>2, <3>3, <3>4 DEF Averaged, Computed
    <2>5. CASE A!WriteCapacity
        <3>1. /\ agg = "write2" /\ agg' = "ok" /\ UNCHANGED <<loaded, summaries>>
              /\ csv' = IF summaries.capacity = {} THEN csv
                        ELSE [csv EXCEPT !.capacity = summaries.capacity]
            BY <2>5 DEF A!WriteCapacity, A!working
        <3>2. summaries = Computed(AllLines) /\ summaries' = summaries /\ loaded = AllLines
            BY <3>1 DEF Averaged
        <3>3. /\ csv' = [firehose |-> csv'.firehose, capacity |-> csv'.capacity]
              /\ csv'.firehose = csv.firehose
              /\ csv'.capacity \in {csv.capacity, A!CapacitySummary(AllLines)}
              /\ summaries.capacity # {} => csv'.capacity = summaries.capacity
            BY <3>1, <3>2 DEF Averaged, Computed
        <3>4. TrialsOfOneRun'
            BY <3>3, ComputedOneRun DEF TrialsOfOneRun, SummaryRows, RowsComputed, Averaged
        <3> QED
            BY <2>1, <3>1, <3>2, <3>3, <3>4 DEF Averaged, Computed
    <2> QED
        BY <1>9, <2>2, <2>3, <2>4, <2>5 DEF AggregateStep, A!AggregateStep
<1> QED
    BY <1>4, <1>5, <1>6, <1>7, <1>8, <1>9 DEF PipelineNext

LEMMA AveragedInvariant == PipelineSpec => [](RawInv /\ RawPrinted /\ Parts /\ Averaged)
<1>1. PipelineInit => Parts
    BY DEF PipelineInit, Init, Parts
<1> QED
    BY <1>1, AveragedInit, AveragedNext, PartsNext, PrintedInvariant, PipelineRunsScript, PTL
       DEF PipelineSpec

\* No average ever mixes two runs, for any languages and outputs and however the
\* scripts failed, were repeated or were run by hand.
THEOREM AveragesOfOneRun == PipelineSpec => []TrialsOfOneRun
<1>1. Averaged => TrialsOfOneRun
    BY DEF Averaged
<1> QED
    BY <1>1, AveragedInvariant, PTL

\* With a complete raw file neither summary is empty, and both have been written.
LEMMA BothWritten ==
    ASSUME RawInv, Averaged, agg = "ok", NEW f \in Files, Complete(f)
    PROVE  csv = Computed(AllLines) /\ csv.capacity # {}
<1>1. raw[f].run \in 0 .. MaxRuns /\ raw[f].lines \in Outputs(f, raw[f].run)
    BY TotalAssumption DEF RawInv, RawType, Complete
<1>2. DOMAIN raw[f].lines = 1 .. Total
    BY <1>1, OutputsAssumption
<1>3. PICK i \in 1 .. Total, j \in 1 .. Total :
          /\ raw[f].lines[i].config \in A!FirehoseConfigs
          /\ raw[f].lines[j].config \in A!CapacityConfigs
    BY <1>1, ProgramsAssumption
<1>4. PICK p \in DOMAIN AllLines, q \in DOMAIN AllLines :
          AllLines[p] = raw[f].lines[i] /\ AllLines[q] = raw[f].lines[j]
    <2>1. i \in DOMAIN raw[f].lines /\ j \in DOMAIN raw[f].lines
        BY <1>2
    <2>2. /\ \E p \in DOMAIN AllLines : AllLines[p] = raw[f].lines[i]
          /\ \E q \in DOMAIN AllLines : AllLines[q] = raw[f].lines[j]
        BY <2>1, LinesOfFiles
    <2> QED
        BY <2>2
<1>5. A!FirehoseSummary(AllLines) # {} /\ A!CapacitySummary(AllLines) # {}
    BY <1>3, <1>4, RowIsSummarised
<1> QED
    BY <1>5 DEF Averaged, Computed

\* After an aggregation with a complete raw file, both CSV files are of the raw
\* files that are there.
THEOREM CsvsOfSameFiles == PipelineSpec => []CsvsAgree
<1>1. ASSUME RawInv, Averaged
      PROVE  CsvsAgree
    <2> SUFFICES ASSUME agg = "ok", NEW f \in Files, Complete(f), NEW s \in SummaryRows
                 PROVE  A!Range(s.of) \subseteq A!Range(AllLines)
        BY DEF CsvsAgree
    <2>1. s \in RowsComputed(AllLines)
        BY <1>1, BothWritten DEF SummaryRows, RowsComputed, Computed
    <2>2. PICK p \in DOMAIN AllLines : s.of = A!Trials(AllLines, A!Key(AllLines[p]))
        BY <2>1, SummaryRowOf
    <2> QED
        BY <2>2 DEF A!Trials, A!Range
<1> QED
    BY <1>1, AveragedInvariant, PTL

-----------------------------------------------------------------------------
(* The chain *)

\* Each part of the chain has been reached by the success of those before it,
\* which nothing has started again since; and the third chart is that of its CSV
\* file, if there is one.
ChainInv ==
    /\ chain \in {"aggregate", "plot", "done"} => script = "ok"
    /\ chain \in {"plot", "done"} => agg = "ok"
    /\ chain = "done" => plot = "ok"
    /\ plot = "ok" /\ csv.capacity # {} => charts.capacity = C!Points(csv.capacity)

LEMMA ChainNext == ChartInv /\ ChainInv /\ [PipelineNext]_vars => ChainInv'
<1> SUFFICES ASSUME ChartInv, ChainInv, [PipelineNext]_vars PROVE ChainInv'
    OBVIOUS
<1>1. CASE StartChain
    BY <1>1 DEF StartChain, ForgetPlot, ChainInv
<1>2. CASE AndAggregate
    BY <1>2 DEF AndAggregate, StartAggregate, ForgetPlot, scriptVars, ChainInv
<1>3. CASE AndPlot
    BY <1>3 DEF AndPlot, StartPlot, C!StartPlot, scriptVars, aggVars, ChainInv
<1>4. CASE ChainEnds
    BY <1>4 DEF ChainEnds, scriptVars, aggVars, plotVars, ChainInv
<1>5. CASE ByHand
    BY <1>5 DEF ByHand, StartAggregate, ForgetPlot, StartPlot, C!StartPlot, ChainInv
<1>6. CASE BuildStep
    <2>1. script \in {"build", "run"} /\ UNCHANGED <<agg, csv, plot, charts, chain>>
        BY <1>6 DEF BuildStep, ScriptStep, BuildFails, StartProgram, ProgramEnds, ProgramFails,
           aggVars, plotVars
    <2> QED
        BY <2>1 DEF ChainInv
<1>7. CASE AggregateStep
    <2>1. /\ agg \in {"load", "group", "write", "write2"}
          /\ UNCHANGED <<script, plot, charts, chain>>
        BY <1>7 DEF AggregateStep, plotVars, A!AggregateStep, A!Load, A!Group,
           A!WriteFirehose, A!WriteCapacity
    <2>2. plot = "off"
        BY <2>1 DEF ChartInv, PlottingAlone
    <2> QED
        BY <2>1, <2>2 DEF ChainInv
<1>8. CASE PlotStep
    <2>1. plot \in {"throughput", "latency", "capacity"} /\ UNCHANGED <<script, agg, csv, chain>>
        BY <1>8 DEF PlotStep, scriptVars, aggVars, C!PlotStep, C!PlotThroughput, C!PlotLatency,
           C!PlotCapacity
    <2>2. chain # "done"
        BY <2>1 DEF ChainInv
    <2>3. plot' = "ok" /\ csv.capacity # {} => charts'.capacity = C!Points(csv.capacity)
        BY <1>8, <2>1 DEF PlotStep, C!PlotStep, C!PlotThroughput, C!PlotLatency, C!PlotCapacity,
           ChartInv, ThreeCharts
    <2> QED
        BY <2>1, <2>2, <2>3 DEF ChainInv
<1>9. CASE UNCHANGED vars
    BY <1>9 DEF vars, scriptVars, aggVars, plotVars, ChainInv
<1> QED
    BY <1>1, <1>2, <1>3, <1>4, <1>5, <1>6, <1>7, <1>8, <1>9 DEF PipelineNext

\* A chain that ended with status 0 publishes its own run, all of it: the rows of
\* every raw file are averaged, and the charts show these averages.
THEOREM ChainPublishesItsRun == PipelineSpec => []ChainedOutputsFresh
<1>1. PipelineInit => ChartInv /\ ChainInv
    BY DEF PipelineInit, Init, ChartInv, PlottingAlone, ThreeCharts, DrawnFromCsv, ChainInv
<1>2. ASSUME RawInv, RawPrinted, Averaged, ChartInv, ChainInv, ScriptOkMeansFresh
      PROVE  ChainedOutputsFresh
    <2> SUFFICES ASSUME chain = "done"
                 PROVE  /\ \A s \in SummaryRows : \A i \in DOMAIN s.of : s.of[i].run = run
                        /\ \A f \in Files, i \in 1 .. Total :
                               \E s \in SummaryRows : raw[f].lines[i] \in A!Range(s.of)
                        /\ charts = [throughput |-> C!Bars(csv.firehose),
                                     latency |-> C!Bars(csv.firehose),
                                     capacity |-> C!Points(csv.capacity)]
        BY DEF ChainedOutputsFresh
    <2>1. script = "ok" /\ agg = "ok" /\ plot = "ok"
        BY <1>2 DEF ChainInv
    <2>2. \A f \in Files : raw[f].run = run /\ Complete(f)
        BY <1>2, <2>1 DEF ScriptOkMeansFresh
    <2>3. PICK f \in Files : Complete(f)
        BY <2>2, FilesAssumption
    <2>4. csv = Computed(AllLines) /\ SummaryRows = RowsComputed(AllLines)
        BY <1>2, <2>1, <2>3, BothWritten DEF SummaryRows, RowsComputed, Computed
    <2>5. run \in 0 .. MaxRuns
        BY <1>2 DEF RawInv, RawType
    <2>6. ASSUME NEW s \in SummaryRows, NEW i \in DOMAIN s.of
          PROVE  s.of[i].run = run
        <3>1. i \in DOMAIN AllLines /\ s.of[i] = AllLines[i]
            <4>1. PICK p \in DOMAIN AllLines : s.of = A!Trials(AllLines, A!Key(AllLines[p]))
                BY <2>4, SummaryRowOf
            <4> QED
                BY <4>1 DEF A!Trials
        <3>2. PICK g \in Files : PrintedBy(AllLines[i], g, run)
            BY <1>2, <2>2, <3>1, LinesOfFiles DEF RawPrinted
        <3> QED
            BY <2>5, <3>1, <3>2, ProgramsAssumption DEF PrintedBy
    <2>7. ASSUME NEW g \in Files, NEW i \in 1 .. Total
          PROVE  \E s \in SummaryRows : raw[g].lines[i] \in A!Range(s.of)
        <3>1. raw[g].lines \in Outputs(g, run)
            BY <2>2 DEF Complete
        <3>2. /\ DOMAIN raw[g].lines = 1 .. Total
              /\ raw[g].lines[i].config \in A!FirehoseConfigs \union A!CapacityConfigs
            BY <2>5, <3>1, OutputsAssumption, ProgramsAssumption
        <3>3. PICK p \in DOMAIN AllLines : AllLines[p] = raw[g].lines[i]
            BY <1>2, <3>2, LinesOfFiles
        <3> QED
            BY <2>4, <3>2, <3>3, RowIsSummarised DEF RowsComputed
    <2>8. csv.capacity # {}
        BY <1>2, <2>1, <2>3, BothWritten
    <2>9. charts = [throughput |-> C!Bars(csv.firehose), latency |-> C!Bars(csv.firehose),
                    capacity |-> C!Points(csv.capacity)]
        BY <1>2, <2>1, <2>8 DEF ChartInv, ThreeCharts, DrawnFromCsv, ChainInv
    <2> QED
        BY <2>6, <2>7, <2>9
<1> QED
    BY <1>1, <1>2, ChartNext, ChainNext, AveragedInvariant, OkMeansFresh, PTL DEF PipelineSpec
=============================================================================
