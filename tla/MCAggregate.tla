---------------------------- MODULE MCAggregate ----------------------------
(***************************************************************************)
(* Aggregate with values for TLC: three raw files, of the two Python       *)
(* builds and of TypeScript, with valid and invalid rows, rows without     *)
(* percentiles, torn lines, and CSV files left by an earlier run.          *)
(***************************************************************************)
EXTENDS Aggregate

MCRow(l, i, c, load, eps, drained, full, latency) ==
    [language |-> l, interpreter |-> i, config |-> c, load |-> load, eps |-> eps,
     target |-> 4 * load, drained |-> drained, full |-> full, latency |-> latency, run |-> 1]

MCGil == {MCRow("python", "3.13 GIL", "seq", 0, 3, TRUE, TRUE, TRUE),
          MCRow("python", "3.13 GIL", "cap1", 0, 5, FALSE, FALSE, TRUE)}
MCFree == {MCRow("python", "3.14t", "seq", 0, 4, TRUE, TRUE, TRUE)}
MCTs == {MCRow("ts", "", "seq", 0, 2, FALSE, FALSE, FALSE),
         MCRow("ts", "", "cap1", 0, 6, TRUE, TRUE, TRUE),
         MCRow("ts", "", "cap1", 0, 9, TRUE, FALSE, TRUE),
         MCRow("ts", "", "cap1", 2, 7, TRUE, TRUE, TRUE),
         MCRow("ts", "", "cap8", 0, 1, FALSE, FALSE, FALSE)}
MCRows == MCGil \union MCFree \union MCTs

MCFiles == 1 .. 3
MCContents(S, k) ==
    [lines : UNION {[1 .. j -> S] : j \in 0 .. k}, torn : {FALSE}]
        \union [lines : {<< >>}, torn : {TRUE}]
MCRaws == {<<a, b, c>> : a \in MCContents(MCFree, 2), b \in MCContents(MCGil, 2),
                         c \in MCContents(MCTs, 3)}
MCOld == MCRow("python", "3.13 GIL", "seq", 0, 1, TRUE, TRUE, TRUE)
MCCsvs == {NoSummary,
           [firehose |-> FirehoseSummary(<<MCOld>>),
            capacity |-> CapacitySummary(<<[MCOld EXCEPT !.config = "cap1"]>>)]}
=============================================================================
