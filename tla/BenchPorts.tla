----------------------------- MODULE BenchPorts -----------------------------
(***************************************************************************)
(* The profiles of module BenchMain: how each program emits its rows and   *)
(* sizes its pools.  A sleep falls short by less than 1 ms in C# and by    *)
(* less than 2 ms in TypeScript (module CapacityPorts).                    *)
(***************************************************************************)
EXTENDS Naturals

Python == [emits |-> "curve", stdout |-> "block", unwinds |-> TRUE, budget |-> 200000,
           least |-> 2000, floor |-> 1, ties |-> "even", pause |-> 20]
Go     == [emits |-> "curve", stdout |-> "line", unwinds |-> FALSE, budget |-> 1000000,
           least |-> 0, floor |-> 1, ties |-> "up", pause |-> 20]
\* ceil(2000000 / P * 2 s * 1.5), at least 16, always exceeds the cap 400000 \div P.
Rust   == [emits |-> "row", stdout |-> "line", unwinds |-> TRUE, budget |-> 400000,
           least |-> 0, floor |-> 16, ties |-> "up", pause |-> 20]
Cpp    == [emits |-> "row", stdout |-> "block", unwinds |-> FALSE, budget |-> 400000,
           least |-> 0, floor |-> 16, ties |-> "up", pause |-> 20]
Cs     == [emits |-> "row", stdout |-> "line", unwinds |-> TRUE, budget |-> 1500000,
           least |-> 0, floor |-> 1, ties |-> "even", pause |-> 19]
Java   == [emits |-> "row", stdout |-> "line", unwinds |-> TRUE, budget |-> 600000,
           least |-> 2000, floor |-> 0, ties |-> "up", pause |-> 20]
Ts     == [emits |-> "row", stdout |-> "line", unwinds |-> TRUE, budget |-> 400000,
           least |-> 2000, floor |-> 0, ties |-> "up", pause |-> 18]

BenchProfiles == {Python, Go, Rust, Cpp, Cs, Java, Ts}
=============================================================================
