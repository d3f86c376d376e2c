---------------------------- MODULE MCBenchMain ----------------------------
(***************************************************************************)
(* BenchMain with values for TLC: every program, on machines with one and  *)
(* with 8 or more cores, with the real numbers of trials.  The rates are a *)
(* stalled window's, one whose pool just lasts for the ticks of a window   *)
(* on 8 cores, and one whose pool is capped.                               *)
(***************************************************************************)
EXTENDS BenchMain, BenchPorts

MCPorts == BenchProfiles
MCPars == {1, 8}
MCRates == {1, 600, 679363}
=============================================================================
