------------------------------- MODULE Sizing -------------------------------
(***************************************************************************)
(* The arithmetic of a capacity window: how many envelopes each of P       *)
(* producers is given before the clock starts, how many it may publish per *)
(* tick, and how a number is rounded.  A rate is a whole number of         *)
(* envelopes per second, a load fraction a number of halves (1, 2 or 3 for *)
(* 0.5, 1.0 and 1.5), so that target / P = rate * halves / (2 * P).        *)
(*                                                                         *)
(* A profile (module BenchPorts) has the numbers in which ports differ:    *)
(*   budget, least  calibration: budget \div P envelopes, at least `least` *)
(*   floor          sweep: the smallest pool before the cap                *)
(*   ties           where x.5 is rounded to: "up" or "even"                *)
(*   pause          the shortest time between the starts of two ticks, in  *)
(*                  milliseconds: 20, less what a sleep may fall short of  *)
(***************************************************************************)
EXTENDS Integers

MaxSweepPoolTotal == 400000

Least(a, b) == IF a <= b THEN a ELSE b
Most(a, b) == IF a >= b THEN a ELSE b

\* Mutant: int() where the code takes the ceiling.
Truncated(a, b) == a \div b
\* The ceiling of a / b.
Ceiling(a, b) == (a + b - 1) \div b

\* The most ticks that begin in a window of 4 s.
TicksPerWindow(port) == Ceiling(4000, port.pause)

\* a / b to the nearest whole number.
Nearest(a, b, ties) ==
    LET q == a \div b
        r == 2 * (a % b)
    IN  IF r > b \/ (r = b /\ (ties = "up" \/ q % 2 = 1)) THEN q + 1 ELSE q

CalibrationPool(port, P) == Most(port.least, port.budget \div P)

\* ceil(rate per producer * 4 s * 1.5)
RatePool(rate, halves, P) == Ceiling(3 * rate * halves, P)

\* Mutant: the cap holds for each producer, not for their sum.
SweepPoolCappedEach(port, rate, halves, P) ==
    Least(Most(port.floor, RatePool(rate, halves, P)), MaxSweepPoolTotal)
SweepPool(port, rate, halves, P) ==
    Least(Most(port.floor, RatePool(rate, halves, P)), MaxSweepPoolTotal \div P)

\* Mutant: the rate of all producers together.
SweepPerTickOfAll(port, rate, halves, P) ==
    Most(1, Nearest(rate * halves, 100, port.ties))
\* max(1, round(rate per producer * 20 ms))
SweepPerTick(port, rate, halves, P) ==
    Most(1, Nearest(rate * halves, 100 * P, port.ties))
=============================================================================
