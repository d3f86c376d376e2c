------------------------------- MODULE SedaBus -------------------------------
(***************************************************************************)
(* What the harness relies on of a seda-bus port.  The seven buses are     *)
(* libraries outside this repository, so this contract is read off the     *)
(* calls under bench/: a channel has a capacity and a concurrency, a bus   *)
(* has a number of workers, publish is accepted while the channel has      *)
(* room, and a shutdown that reports true has seen every channel idle.     *)
(* In which order, how fast, and whether at all, a waiting envelope is     *)
(* handed to a consumer is left open.                                      *)
(***************************************************************************)
EXTENDS Naturals

\* publish is accepted while fewer than `capacity` envelopes wait.
HasRoom(waiting, capacity) == waiting < capacity

\* A consumer call may start while the channel's concurrency and the bus's
\* workers both allow one more.
CanDispatch(handling, concurrency, busy, workers) ==
    handling < concurrency /\ busy < workers

\* Mutant: shutdown looks at the queues and not at the running consumers.
QueuesEmpty(waiting, handling) == waiting = 0

\* Shutdown reports a full drain only of a bus with nothing waiting and
\* nothing being handled.
Idle(waiting, handling) == waiting = 0 /\ handling = 0
=============================================================================
