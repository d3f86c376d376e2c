----------------------------- MODULE PlotCharts -----------------------------
(***************************************************************************)
(* scripts/plot_charts.py: draws results/summary.csv as two charts, and    *)
(* results/capacity_summary.csv, if it is there, as a third.  A chart is   *)
(* the set of summary rows it shows; an empty CSV file is one that is not  *)
(* there.  Scales, colours and labels are left out.                        *)
(***************************************************************************)
EXTENDS Integers

CONSTANT Labels             \* ORDER: the variants the first two charts show

ChartConfigs == {"seq", "par", "chan"}

VARIABLES
    csv,        \* the two CSV files
    plot,       \* where the script is: "off", "throughput", "latency",
                \* "capacity", then "ok" or "died"
    charts      \* the three chart files

\* Mutant: a variant without rows is left out of the charts.
AnyBars(rs) == \E s \in rs : s.variant \in Labels
\* Every bar is looked up: one that is missing is a KeyError.
AllBars(rs) == \A v \in Labels, c \in ChartConfigs :
                   \E s \in rs : s.variant = v /\ s.config = c
Bars(rs) == {s \in rs : s.variant \in Labels}

StartPlot ==
    /\ plot' = "throughput"
    /\ UNCHANGED <<csv, charts>>

PlotThroughput ==
    /\ plot = "throughput"
    /\ IF AllBars(csv.firehose)
       THEN /\ charts' = [charts EXCEPT !.throughput = Bars(csv.firehose)]
            /\ plot' = "latency"
       ELSE plot' = "died" /\ UNCHANGED charts
    /\ UNCHANGED csv

\* A blank percentile is not a number: the script dies with one chart drawn.
PlotLatency ==
    /\ plot = "latency"
    /\ IF \A s \in Bars(csv.firehose) : s.latency
       THEN /\ charts' = [charts EXCEPT !.latency = Bars(csv.firehose)]
            /\ plot' = "capacity"
       ELSE plot' = "died" /\ UNCHANGED charts
    /\ UNCHANGED csv

\* The sweep's points; calibrations and rows without a target are left out, and
\* variants without a label are not.
Points(rs) == {s \in rs : s.load \in 1 .. 3 /\ s.ratio >= 0}

PlotCapacity ==
    /\ plot = "capacity"
    /\ charts' = IF csv.capacity = {} THEN charts
                 ELSE [charts EXCEPT !.capacity = Points(csv.capacity)]
    /\ plot' = "ok"
    /\ UNCHANGED csv

PlotStep == PlotThroughput \/ PlotLatency \/ PlotCapacity
=============================================================================
