----------------------------- MODULE Aggregate -----------------------------
(***************************************************************************)
(* scripts/aggregate.py: reads every raw file, warns about invalid rows,   *)
(* averages the trials of each variant, configuration and load, writes the *)
(* two CSV files and prints tables of them.                                *)
(*                                                                         *)
(* A row keeps what the script looks at.  `full` says that `delivered`     *)
(* equals `total`, `latency` that the row has percentiles (a TypeScript    *)
(* row without samples has none), `load` is in halves, rates are whole     *)
(* numbers.  `interpreter` stands for python_version and gil_enabled.      *)
(* `run` is not in the row: it tells from which run of its program the row *)
(* is.  Depths, tails and the percentiles' values, which are averaged as   *)
(* the rates are, and the tables, which repeat summary rows, are left out. *)
(***************************************************************************)
EXTENDS Integers, FiniteSets, SequencesExt, Sizing

CONSTANTS Files,    \* 1 .. n: the raw files in the order of their names
          Rows      \* the rows that may be in them

FirehoseConfigs == {"seq", "par", "chan"}
CapacityConfigs == {"cap1", "cap8"}

ASSUME FilesAssumption == IsFiniteSet(Files) /\ Files = 1 .. Cardinality(Files)
\* What the seven programs print: Python alone has builds to tell apart, and a
\* firehose row has no load.
ASSUME RowsAssumption ==
    \A r \in Rows :
        /\ r.config \in FirehoseConfigs \union CapacityConfigs
        /\ r.config \in FirehoseConfigs => r.load = 0
        /\ r.language # "python" => r.interpreter = ""
        /\ r.eps \in Nat

VARIABLES
    raw,        \* the raw files: complete lines, and whether a torn one follows
    agg,        \* where the script is: "load", "group", "write", "write2",
                \* then "ok" or "died"
    loaded,     \* the rows it has read
    warned,     \* those it has reported on stderr
    summaries,  \* the summary rows it has computed
    csv         \* the two CSV files, as sets of summary rows

working == <<loaded, warned, summaries>>
aggVars == <<agg, working, csv>>

NoSummary == [firehose |-> {}, capacity |-> {}]

-----------------------------------------------------------------------------
(* What is computed *)

\* Mutant: the two Python builds are told apart by nothing.
LanguageOf(r) == <<r.language>>
\* The label of an implementation: for Python, version and GIL make variants.
Variant(r) == IF r.language = "python" THEN <<r.language, r.interpreter>> ELSE <<r.language>>

Invalid(r) == ~r.drained \/ ~r.full

\* What makes rows trials of the same thing.
Key(r) == <<Variant(r), r.config, IF r.config \in CapacityConfigs THEN r.load ELSE 0>>

\* Mutant: rows of the other kind are not skipped.
KeysOfAnyConfig(rs, configs) == {Key(rs[i]) : i \in DOMAIN rs}
\* The keys of a summary's dictionary of lists, and each key's list: the trials
\* at their positions among the rows.
Keys(rs, configs) == {Key(rs[i]) : i \in {j \in DOMAIN rs : rs[j].config \in configs}}
Trials(rs, k) == [i \in {j \in DOMAIN rs : Key(rs[j]) = k} |-> rs[i]]

Sum(t, field) == SumFunction([i \in DOMAIN t |-> t[i][field]])
Mean(t, field) == Nearest(Sum(t, field), Cardinality(DOMAIN t), "even")

\* The summary rows of the trials t of key k.  `of` is not in the file.
\* Percentiles are averaged if every trial has them and left blank otherwise.
FirehoseRow(k, t) ==
    [variant |-> k[1], config |-> k[2], load |-> k[3], trials |-> Cardinality(DOMAIN t),
     mean |-> Mean(t, "eps"), of |-> t, min |-> Min({t[i].eps : i \in DOMAIN t}),
     max |-> Max({t[i].eps : i \in DOMAIN t}), latency |-> \A i \in DOMAIN t : t[i].latency]
FirehoseSummary(rs) == {FirehoseRow(k, Trials(rs, k)) : k \in Keys(rs, FirehoseConfigs)}

Blank == -1
\* The ratio of achieved to target, in thousandths, is blank without a target.
CapacityRow(k, t) ==
    [variant |-> k[1], config |-> k[2], load |-> k[3], trials |-> Cardinality(DOMAIN t),
     mean |-> Mean(t, "eps"), of |-> t, target |-> Mean(t, "target"),
     ratio |-> IF Sum(t, "target") = 0 THEN Blank
               ELSE Nearest(1000 * Sum(t, "eps"), Sum(t, "target"), "even")]
CapacitySummary(rs) == {CapacityRow(k, Trials(rs, k)) : k \in Keys(rs, CapacityConfigs)}

-----------------------------------------------------------------------------
(* What is done *)

\* A line that is not JSON, or no line at all, ends the script.
Load ==
    /\ agg = "load"
    /\ LET rs == FlattenSeq([f \in Files |-> raw[f].lines])
       IN  IF rs = << >> \/ \E f \in Files : raw[f].torn
           THEN /\ agg' = "died"
                /\ UNCHANGED <<loaded, warned>>
           ELSE /\ agg' = "group"
                /\ loaded' = rs
                /\ warned' = {r \in Range(rs) : Invalid(r)}
    /\ UNCHANGED <<raw, summaries, csv>>

\* Percentiles of a capacity row are read without asking whether it has them.
LacksLatency(rs) == \E i \in DOMAIN rs : rs[i].config \in CapacityConfigs /\ ~rs[i].latency

\* Mutant: a summary is written as soon as it is there.
GroupAndWrite ==
    /\ agg = "group"
    /\ csv' = [csv EXCEPT !.firehose = FirehoseSummary(loaded)]
    /\ IF LacksLatency(loaded)
       THEN agg' = "died" /\ UNCHANGED summaries
       ELSE agg' = "write" /\ summaries' = [firehose |-> FirehoseSummary(loaded),
                                            capacity |-> CapacitySummary(loaded)]
    /\ UNCHANGED <<raw, loaded, warned>>
\* Both summaries are computed before either is written.
Group ==
    /\ agg = "group"
    /\ IF LacksLatency(loaded)
       THEN agg' = "died" /\ UNCHANGED summaries
       ELSE agg' = "write" /\ summaries' = [firehose |-> FirehoseSummary(loaded),
                                            capacity |-> CapacitySummary(loaded)]
    /\ UNCHANGED <<raw, loaded, warned, csv>>

\* An empty summary leaves the file of an earlier aggregation where it is.
WriteFirehose ==
    /\ agg = "write"
    /\ csv' = IF summaries.firehose = {} THEN csv
              ELSE [csv EXCEPT !.firehose = summaries.firehose]
    /\ agg' = "write2"
    /\ UNCHANGED <<raw, working>>

\* Mutant: only a file that is missing is written.
WriteCapacityOnce ==
    /\ agg = "write2"
    /\ csv' = IF csv.capacity # {} THEN csv ELSE [csv EXCEPT !.capacity = summaries.capacity]
    /\ agg' = "ok"
    /\ UNCHANGED <<raw, working>>
WriteCapacity ==
    /\ agg = "write2"
    /\ csv' = IF summaries.capacity = {} THEN csv
              ELSE [csv EXCEPT !.capacity = summaries.capacity]
    /\ agg' = "ok"
    /\ UNCHANGED <<raw, working>>

AggregateStep == Load \/ Group \/ WriteFirehose \/ WriteCapacity

-----------------------------------------------------------------------------
(* The script on its own: any raw files, any CSV files of an earlier run *)

CONSTANTS Raws,     \* the raw files a behaviour may start with
          Csvs      \* the CSV files it may start with

ASSUME RawsAssumption == Raws \subseteq [Files -> [lines : Seq(Rows), torn : BOOLEAN]]
ASSUME CsvsAssumption == \A c \in Csvs : c = [firehose |-> c.firehose, capacity |-> c.capacity]

Init ==
    /\ raw \in Raws
    /\ csv \in Csvs
    /\ agg = "load"
    /\ loaded = << >> /\ warned = {} /\ summaries = NoSummary

Ended == agg \in {"ok", "died"} /\ UNCHANGED <<raw, aggVars>>
Next == AggregateStep \/ Ended
Spec == Init /\ [][Next]_<<raw, aggVars>>

-----------------------------------------------------------------------------
(* Properties *)

\* Rows in, rows out: the script holds only rows of the raw files, reports only
\* rows it holds, and every summary row is of one configuration's kind.
TypeOK ==
    /\ agg \in {"load", "group", "write", "write2", "ok", "died"}
    /\ \A f \in Files : raw[f].torn \in BOOLEAN /\ Range(raw[f].lines) \subseteq Rows
    /\ Range(loaded) \subseteq Rows
    /\ warned \subseteq Range(loaded)
    /\ \A s \in summaries.firehose : s.config \in FirehoseConfigs /\ s.load = 0
    /\ \A s \in summaries.capacity : s.config \in CapacityConfigs

\* Two rows are trials of the same stage if the same build of the same program
\* printed them for the same configuration under the same load.
SameStage(r, s) == /\ r.language = s.language /\ r.interpreter = s.interpreter
                   /\ r.config = s.config /\ r.load = s.load

\* Every row that was read is averaged exactly once, with all trials of its own
\* stage and with nothing else: not with the other Python build, nor a
\* calibration with a paced trial (aggregate.py build_*_summary).
AveragedWithItsOwnTrials ==
    agg \in {"write", "write2", "ok"} =>
        \A i \in DOMAIN loaded :
            LET stage == {j \in DOMAIN loaded : SameStage(loaded[i], loaded[j])}
                homes == {s \in summaries.firehose \union summaries.capacity : i \in DOMAIN s.of}
            IN  \E s \in homes :
                    /\ homes = {s} /\ s.of = [j \in stage |-> loaded[j]]
                    /\ \E j, k \in stage : loaded[j].eps <= s.mean /\ s.mean <= loaded[k].eps

\* The warning is the one place where an invalid row shows: the averages in the
\* CSV files are computed over it and do not say so.  Once both files are
\* written it names every row that does not keep the ledger's promise (drained,
\* and everything delivered) and has gone into a row of the files as they are
\* on disk, and no other: none is averaged unreported, none is reported and
\* left out, and no file holds the averages of rows an earlier call warned of.
WarningCoversCsvs ==
    agg = "ok" /\ summaries.firehose # {} /\ summaries.capacity # {} =>
        warned = {r \in UNION {Range(s.of) : s \in csv.firehose \union csv.capacity} :
                      ~r.drained \/ ~r.full}

\* A script that dies has written nothing: an old pair of CSV files survives as
\* a pair (main computes both summaries before it opens a file).
FailureLeavesCsvs ==
    [][agg' = "died" => csv' = csv /\ summaries = NoSummary]_<<raw, aggVars>>
=============================================================================
