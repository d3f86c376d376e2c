---------------------------- MODULE BuildScript ----------------------------
(***************************************************************************)
(* scripts/build_and_run.sh: for one language after the other, build the   *)
(* image, run the program and let tee write its rows to the language's raw *)
(* file.  The script stops at the first command that fails (set -e), and a *)
(* program that fails makes its pipeline fail (pipefail).                  *)
(*                                                                         *)
(* What a program writes is the contract of module ProgramRun: all rows of *)
(* its run if it ends normally, otherwise the first so many and perhaps    *)
(* the beginning of the next.  Nobody reads a raw file while it is being   *)
(* written, so a program's rows arrive with its end.  A script that is     *)
(* interrupted leaves what a failing command leaves.                       *)
(***************************************************************************)
EXTENDS Integers, FiniteSets, Sequences

CONSTANTS Files,            \* 1 .. n: the raw files in the order of their names
          Order,            \* Order[k] is the file of the k-th language run
          Rows,             \* what a row may be
          Total,            \* rows of a complete run of a program
          MaxRuns,          \* bound: how often the script is run
          Outputs(_, _)     \* Outputs(f, r): what the program of file f may
                            \* print in the r-th run of the script

Steps == DOMAIN Order

ASSUME FilesAssumption ==
    IsFiniteSet(Files) /\ Files # {} /\ Files = 1 .. Cardinality(Files)
ASSUME OrderAssumption ==
    /\ Order \in Seq(Files)
    /\ \A f \in Files : \E k \in Steps : Order[k] = f
    /\ \A j, k \in Steps : Order[j] = Order[k] => j = k
ASSUME TotalAssumption == Total \in Nat \ {0} /\ MaxRuns \in Nat
ASSUME OutputsAssumption ==
    \A f \in Files, r \in 0 .. MaxRuns : Outputs(f, r) \subseteq [1 .. Total -> Rows]

VARIABLES
    raw,        \* the raw files: complete lines, whether a torn one follows,
                \* and (history) the run of the script that wrote them
    script,     \* "off", then "build" or "run", then "ok" or "failed"
    step,       \* the language being built or run
    run,        \* history: the number of runs of the script
    printing    \* the rows that the program under way is going to print

scriptVars == <<raw, script, step, run, printing>>

Missing == [lines |-> << >>, torn |-> FALSE, run |-> 0]
\* A raw file with every row of the run that wrote it.
Complete(f) == raw[f].lines \in Outputs(f, raw[f].run) /\ ~raw[f].torn

\* Raw files are committed to the repository, or there are none.
Init ==
    /\ raw \in {[f \in Files |-> Missing]} \union
               [Files -> {[lines |-> o, torn |-> FALSE, run |-> 0] :
                              o \in UNION {Outputs(f, 0) : f \in Files}}]
    /\ \A f \in Files : raw[f] = Missing \/ Complete(f)
    /\ script = "off" /\ step = 1 /\ run = 0 /\ printing = << >>

StartScript ==
    /\ script \notin {"build", "run"}
    /\ run < MaxRuns
    /\ run' = run + 1
    /\ script' = "build"
    /\ step' = 1
    /\ UNCHANGED <<raw, printing>>

\* The next language, or the end of the script.
NextLanguage ==
    IF step = Len(Order) THEN script' = "ok" /\ UNCHANGED step
                         ELSE script' = "build" /\ step' = step + 1

\* Mutant: no set -e.
BuildFailureSkipped ==
    /\ script = "build"
    /\ NextLanguage
    /\ UNCHANGED <<raw, run, printing>>
BuildFails ==
    /\ script = "build"
    /\ script' = "failed"
    /\ UNCHANGED <<raw, step, run, printing>>

\* Mutant: tee -a.
StartAppending ==
    /\ script = "build"
    /\ script' = "run"
    /\ raw' = [raw EXCEPT ![Order[step]].run = run]
    /\ printing' \in Outputs(Order[step], run)
    /\ UNCHANGED <<step, run>>
\* The image is built; tee truncates the file and the program starts.
StartProgram ==
    /\ script = "build"
    /\ script' = "run"
    /\ raw' = [raw EXCEPT ![Order[step]] = [lines |-> << >>, torn |-> FALSE, run |-> run]]
    /\ printing' \in Outputs(Order[step], run)
    /\ UNCHANGED <<step, run>>

\* tee writes the first k rows that the program prints.
Tee(k, torn) ==
    raw' = [raw EXCEPT ![Order[step]] =
                [lines |-> @.lines \o SubSeq(printing, 1, k), torn |-> torn, run |-> run]]

\* ProgramRun!EndNormally
ProgramEnds ==
    /\ script = "run"
    /\ Tee(Total, FALSE)
    /\ NextLanguage
    /\ UNCHANGED <<run, printing>>

\* Mutant: no pipefail; the status of the pipeline is tee's.
ProgramFailureMasked ==
    /\ script = "run"
    /\ \E k \in 0 .. Total : \E torn \in BOOLEAN : (torn => k < Total) /\ Tee(k, torn)
    /\ NextLanguage
    /\ UNCHANGED <<run, printing>>
\* ProgramRun!EndEarly
ProgramFails ==
    /\ script = "run"
    /\ \E k \in 0 .. Total : \E torn \in BOOLEAN : (torn => k < Total) /\ Tee(k, torn)
    /\ script' = "failed"
    /\ UNCHANGED <<step, run, printing>>

ScriptStep == BuildFails \/ StartProgram \/ ProgramEnds \/ ProgramFails
Next == StartScript \/ ScriptStep
Spec == Init /\ [][Next]_scriptVars

-----------------------------------------------------------------------------
(* Properties *)

\* A script that ended with status 0 has written every raw file anew, and every
\* one has all rows of its program's run (set -euo pipefail).
ScriptOkMeansFresh ==
    script = "ok" => \A f \in Files : raw[f].run = run /\ Complete(f)

\* However the runs of the script failed: no raw file is newer than that of a
\* language run before it, and after an incomplete file come older files only.
OlderFilesFollow ==
    \A i, j \in Steps : i < j =>
        LET a == raw[Order[i]]
            b == raw[Order[j]]
        IN  /\ b.run <= a.run
            /\ a.run > 0 /\ ~Complete(Order[i]) => b.run < a.run
=============================================================================
