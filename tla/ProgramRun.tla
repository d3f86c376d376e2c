----------------------------- MODULE ProgramRun -----------------------------
(***************************************************************************)
(* What one run of a benchmark program promises to whoever reads the file  *)
(* its output is written to (WORKLOAD.md, "Output contract": one line per  *)
(* trial).  The file always holds the rows of the first trials, each once  *)
(* and in order, and perhaps the beginning of the next.  A program that    *)
(* ends normally leaves exactly the rows of all its trials.                *)
(***************************************************************************)
EXTENDS Naturals, Sequences

CONSTANT Total               \* trials of a run, one row each

VARIABLES file,              \* the numbers of the rows in the file
          torn,              \* an incomplete line follows them
          status             \* "running", then "ok" or "failed"

vars == <<file, torn, status>>

Rows(k) == [j \in 1 .. k |-> j]

Init ==
    /\ file = << >>
    /\ torn = FALSE
    /\ status = "running"

\* More rows, and perhaps the beginning of one; an incomplete line is only ever
\* completed.
Extend ==
    /\ \E k \in Len(file) .. Total : file' = Rows(k)
    /\ torn' \in BOOLEAN
    /\ torn' => Len(file') < Total
    /\ torn /\ ~torn' => Len(file') > Len(file)

Write ==
    /\ status = "running"
    /\ Extend
    /\ UNCHANGED status

EndNormally ==
    /\ status = "running"
    /\ file' = Rows(Total)
    /\ torn' = FALSE
    /\ status' = "ok"

EndEarly ==
    /\ status = "running"
    /\ Extend
    /\ status' = "failed"

Next == Write \/ EndNormally \/ EndEarly

Spec == Init /\ [][Next]_vars
=============================================================================
