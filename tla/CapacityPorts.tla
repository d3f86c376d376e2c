---------------------------- MODULE CapacityPorts ----------------------------
(***************************************************************************)
(* The profiles of the capacity-curve window of the seven languages, read  *)
(* off its producer loop, its counters and the lines after the shutdown    *)
(* (module CapacityWindow explains the fields).  Where a language has one  *)
(* function for the calibration and another for the sweep, the unpaced     *)
(* fields are read off the first and the paced ones off the second.        *)
(***************************************************************************)

Go ==
    [counts |-> "attempts", timeout |-> TRUE, deadline |-> "publish",
     exhausted |-> {"outer"}, burst |-> "pool", sleeps |-> FALSE,
     pause |-> "full", consumer |-> "append", first |-> "samples", racy |-> TRUE,
     empty |-> {"raise"}, teardown |-> "late"]

\* Appending to a list and reading it are atomic.  `latencies or [0.0]`: the
\* percentiles of an empty window are zero.
Python == [Go EXCEPT !.first = "delivered", !.racy = FALSE, !.empty = {"row"}]

\* setTimeout takes whole milliseconds and counts from the last whole one.
Ts == [Python EXCEPT !.pause = "short", !.consumer = "turn", !.first = "both"]

\* An atomic counter, read once, which also says how many samples there are.
Claiming == [Go EXCEPT !.consumer = "claim", !.first = "both", !.racy = FALSE]

\* The blocking publish has no timeout.  The unpaced batch is unbounded, and
\* the remainder of the tick is slept after it.
Java == [Claiming EXCEPT !.timeout = FALSE, !.sleeps = TRUE]

\* Thread.Sleep(TimeSpan) sleeps whole milliseconds.
Cs == [Claiming EXCEPT !.counts = "accepted", !.pause = "short"]

Rust == [Cs EXCEPT !.pause = "full", !.deadline = "batch", !.exhausted = {"batch"},
                   !.burst = "fixed"]

\* The unpaced batch is 4096 envelopes, and the remainder of the tick is slept
\* after it.
Cpp == [Rust EXCEPT !.deadline = "publish", !.exhausted = {"outer", "batch"},
                    !.sleeps = TRUE, !.consumer = "append", !.first = "delivered",
                    !.empty = {"raise", "row"}, !.teardown = "early"]

CountingAccepted == {Rust, Cpp, Cs}
CountingAttempts == {Go, Python, Ts, Java}
AllPorts == CountingAccepted \cup CountingAttempts
=============================================================================
