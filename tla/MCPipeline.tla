----------------------------- MODULE MCPipeline -----------------------------
(***************************************************************************)
(* Pipeline with values for TLC: the script runs TypeScript and then       *)
(* Python, whose files are read in the other order, up to twice.  A run of *)
(* TypeScript may end with a trial that has no percentiles; a rebuilt      *)
(* Python image may have a version for which there is no label.            *)
(***************************************************************************)
EXTENDS Pipeline

MCFiles == {1, 2}               \* python-gil.jsonl, ts.jsonl
MCOrder == <<2, 1>>
MCStages == <<[config |-> "seq", load |-> 0], [config |-> "par", load |-> 0],
              [config |-> "chan", load |-> 0], [config |-> "cap1", load |-> 0],
              [config |-> "cap1", load |-> 2]>>
MCTotal == Len(MCStages)
MCMaxRuns == 2

\* Trial `bad`, if there is one, is not drained and has no percentiles.
MCOutput(language, interpreter, bad, r) ==
    [k \in 1 .. MCTotal |->
        [language |-> language, interpreter |-> interpreter,
         config |-> MCStages[k].config, load |-> MCStages[k].load, eps |-> 10 + r,
         target |-> 4 * MCStages[k].load, drained |-> k # bad, full |-> k # bad,
         latency |-> k # bad, run |-> r]]
MCOutputs(f, r) ==
    IF f = 1
    THEN {MCOutput("python", v, 0, r) : v \in IF r = 2 THEN {"3.13.15", "3.13.16"} ELSE {"3.13.15"}}
    ELSE {MCOutput("ts", "", bad, r) : bad \in IF r = 0 THEN {0} ELSE {0, 3, 5}}
MCRows == {o[k] : k \in 1 .. MCTotal,
                  o \in UNION {MCOutputs(f, r) : f \in MCFiles, r \in 0 .. MCMaxRuns}}
MCLabels == {<<"ts">>, <<"python", "3.13.15">>}
=============================================================================
